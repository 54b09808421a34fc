--------------------------- MODULE DecisionHistory ---------------------------
(***************************************************************************)
(* What the decision store promises its readers: for every scope (a run    *)
(* and an entity) one append-only log of decisions, each with the runtime  *)
(* it was taken from, each superseding exactly the one before it, and a    *)
(* current runtime that is always the runtime of the last one.  A decision *)
(* id is used once in all scopes together.                                 *)
(***************************************************************************)
EXTENDS Naturals, Sequences

CONSTANTS Scopes, None

VARIABLES log,      \* scope -> sequence of [id, supersedes, decision, runtime]
          current   \* scope -> the runtime shown as the latest one, or None

Used(id) == \E s \in Scopes : \E i \in 1..Len(log[s]) : log[s][i].id = id

Init == /\ log = [s \in Scopes |-> <<>>]
        /\ current = [s \in Scopes |-> None]

Record(s, e) ==
    /\ ~Used(e.id)
    /\ e.supersedes = IF log[s] = <<>> THEN None ELSE log[s][Len(log[s])].id
    /\ log' = [log EXCEPT ![s] = Append(@, e)]
    /\ current' = [current EXCEPT ![s] = e.runtime]

Next == \E s \in Scopes : /\ Len(log'[s]) = Len(log[s]) + 1
                         /\ Record(s, log'[s][Len(log'[s])])

Spec == Init /\ [][Next]_<<log, current>>
=============================================================================
