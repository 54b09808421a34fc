------------------------------- MODULE MCWorker -------------------------------
(***************************************************************************)
(* Instances of FirstCycleWorker for TLC.  The cfg files choose among the  *)
(* message tables and the verdict and host functions defined here.         *)
(***************************************************************************)
EXTENDS FirstCycleWorker, TLC

CONSTANTS m1, m2, m3, o1, o2, w1, w2

\* One upload.
SingleMessage == m1 :> {o1}

\* A batched notification that overlaps a single one.
OverlappingMessages == m1 :> {o1, o2} @@ m2 :> {o2}

\* Two uploads and a body the parser rejects.
MixedMessages == m1 :> {o1} @@ m2 :> {o2} @@ m3 :> {}

\* Two notifications of one upload.
DuplicateMessages == m1 :> {o1} @@ m2 :> {o1}

\* Two unrelated uploads.
SeparateMessages == m1 :> {o1} @@ m2 :> {o2}

OneHost   == [o \in Objects |-> "host"]
TwoHosts  == o1 :> "host_a" @@ o2 :> "host_b"
SameMiss  == [o \in Objects |-> "miss"]
Distinct  == [o \in Objects |-> o]

WorkerSymmetry == Permutations(Workers)
=============================================================================
