------------------------------- MODULE MCLedger -------------------------------
(***************************************************************************)
(* Instances of R1StreamLedger for TLC: message sets in which identities,  *)
(* sequences and events collide, watermarks arrive before the chunks they  *)
(* cover, and closes name stale or missing partitions.                     *)
(***************************************************************************)
EXTENDS R1StreamLedger

Event(i, at, rec) == [id |-> i, at |-> at, rec |-> rec]
Chunk(p, i, s, es) == [part |-> p, id |-> i, seq |-> s, events |-> es]
Watermark(p, i, s, at, cov) ==
    [part |-> p, id |-> i, seq |-> s, at |-> at, lateness |-> 0, covered |-> cov]

e1 == Event("e1", 1, 1)
e2 == Event("e2", 2, 2)
e3 == Event("e3", 3, 3)
late == Event("late", 1, 4)
e1x == Event("e1", 2, None)     \* e1's identity, other content

c1 == Chunk("p", "c1", 1, {e1})
c2 == Chunk("p", "c2", 2, {e2})
c3 == Chunk("p", "c3", 3, {e1, e3})      \* an old event and a new one
c2x == Chunk("p", "c2x", 2, {e3})        \* c2's sequence
c1x == Chunk("p", "c1", 3, {late})       \* c1's identity
c3x == Chunk("p", "c3x", 3, {e2, late})  \* late when a watermark is active
c4 == Chunk("p", "c4", 4, {e1x})         \* an event id with other content
d1 == Chunk("q", "d1", 1, {e2})

w1 == Watermark("p", "w1", 1, 1, 1)
w2 == Watermark("p", "w2", 2, 2, 2)
w3 == Watermark("p", "w3", 3, 1, 3)      \* behind w2 in event time
w1x == [Watermark("p", "w1", 2, 2, 3) EXCEPT !.lateness = 1]  \* w1's identity
v1 == Watermark("q", "v1", 1, 2, 1)
\* Another lateness budget for the partition
v2 == [Watermark("q", "v2", 2, 3, 1) EXCEPT !.lateness = 1]

Close(i, ws) == [id |-> i, finals |-> ws]
Position(i, p, up, cov, l) ==
    [id |-> i, part |-> p, upper |-> up, covered |-> cov, list |-> l]

\* Two partitions, collisions of every kind, closes.
CollidingChunks == {c1, c2, c2x, c1x, c3, c3x, c4, d1}
CollidingWatermarks == {w1, w2, w3, w1x, v1, v2}
CollidingCloses ==
    {Close("x1", {w1}), Close("x2", {w1}), Close("x3", {w2, v1}),
     Close("x4", {w2}), Close("x4", {w3})}

\* Position closes of complete, gapped and foreign lists.
Positions ==
    {Position("y1", "p", 2, 2, {c1, c2}), Position("y2", "p", 1, 2, {c1}),
     Position("y3", "p", 3, 2, {c1, c2x}), Position("y4", "q", 2, 1, {d1})}
=============================================================================
