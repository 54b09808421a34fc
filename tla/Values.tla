-------------------------------- MODULE Values --------------------------------
(***************************************************************************)
(* The value of a field, a row or a file that is not there: Python's None, *)
(* SQL's NULL and a path that does not exist.                              *)
(***************************************************************************)
CONSTANT None

\* None is no record, and no record is None: what theorems assume of the value
\* None that TLC cannot evaluate.
NullIsNoFunction == None # [x \in DOMAIN None |-> None[x]]

\* None is no set of records.
NullHoldsNoFunction == \A e \in None : e # [x \in DOMAIN e |-> e[x]]
=============================================================================
