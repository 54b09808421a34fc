------------------------------ MODULE MCStream ------------------------------
(***************************************************************************)
(* The spool and its Role2 consumer on short streams of one partition, the *)
(* one that the rendered required-partition contract names.                *)
(***************************************************************************)
EXTENDS R1Consumer

Chunk(i, s, at) ==
    [type |-> "event_chunk", part |-> "p", id |-> i, seq |-> s,
     events |-> {[id |-> i, at |-> at, rec |-> s]}]

Watermark(i, s, at, cov) ==
    [type |-> "source_watermark", part |-> "p", id |-> i, seq |-> s,
     at |-> at, lateness |-> 0, covered |-> cov]

Close(i, ws) == [type |-> "run_closed", id |-> i, finals |-> ws]

c1 == Chunk("c1", 1, 1)
c2 == Chunk("c2", 2, 2)
c3 == Chunk("c3", 3, 3)
c2late == Chunk("c2late", 2, 1)   \* at the watermark w1: refused as late
d1 == [c1 EXCEPT !.part = "q"]    \* a partition outside the contract
w1 == Watermark("w1", 1, 1, 1)
w2 == Watermark("w2", 2, 2, 2)
x1 == Close("x", {w1})
x2 == Close("x", {w2})

Boxes ==
    { <<c1, c2, w2, x2>>,   \* a complete stream
      <<c1, w1, c2late>>,   \* a chunk behind the watermark
      <<c1, c3, d1>>,       \* a gap, and a foreign partition
      <<c1, w2, x2>>,       \* a watermark over a chunk that is not there
      <<c1, c2, w1, x1>> }  \* a close that covers less than was sent

\* What the current producer publishes, chunks alone, and a watermark that
\* everything but its lock would accept.  c2x has c2's sequence.
c2x == Chunk("c2x", 2, 3)
AsBuilt == {<<c1, c2, c3>>, <<c1, c2, c2x>>, <<c1, c3, d1>>, <<c1, w1, c2>>}

\* The shortest stream that can be finalized
Short == {<<c1, w1, x1>>}

=============================================================================
