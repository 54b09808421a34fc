-------------------------- MODULE R1FinalityPromise --------------------------
(***************************************************************************)
(* What RecordId position finality promises its readers, with none of the  *)
(* files that carry it (the guarantee of r1_record_position_close.py):     *)
(* Role3 acknowledges the delivery of more and more RecordIds; once, and   *)
(* for good, a set of acknowledged RecordIds is published as final; only   *)
(* then may a proof be handed over, once, and it names exactly that set.   *)
(***************************************************************************)
CONSTANTS RecordIds, None

VARIABLES
    delivered,  \* the RecordIds whose delivery Role3 acknowledged
    final,      \* the RecordIds of the accepted close, or None
    proved      \* the RecordIds a proof names, or None

promiseVars == <<delivered, final, proved>>

PromiseInit == delivered = {} /\ final = None /\ proved = None

Deliver ==
    /\ \E S \in SUBSET RecordIds : delivered' = delivered \cup S
    /\ UNCHANGED <<final, proved>>

Finalize ==
    /\ final = None
    /\ \E S \in SUBSET delivered : S # {} /\ final' = S
    /\ UNCHANGED <<delivered, proved>>

Prove ==
    /\ proved = None /\ final # None
    /\ proved' = final
    /\ UNCHANGED <<delivered, final>>

PromiseNext == Deliver \/ Finalize \/ Prove

PromiseSpec == PromiseInit /\ [][PromiseNext]_promiseVars
=============================================================================
