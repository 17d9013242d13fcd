------------------------------ MODULE LossyFifo ------------------------------
(***************************************************************************)
(* What one direction of RealtimeAudioBridge promises its two threads: a   *)
(* bounded queue of numbered frames.  The producer adds the next frames,   *)
(* the consumer takes the oldest in order, each at most once, and frames   *)
(* are lost only by dropping the oldest ones.                              *)
(***************************************************************************)
EXTENDS Integers, Sequences

CONSTANT Capacity

VARIABLES
  queue,  \* frames accepted and not yet taken or dropped
  last,   \* number of the last frame accepted
  out     \* the block the consumer took last

vars == <<queue, last, out>>

Init == queue = <<>> /\ last = 0 /\ out = <<>>

Put == \E n \in 0..(Capacity - Len(queue)) :
  /\ queue' = queue \o [i \in 1..n |-> last + i]
  /\ last' = last + n
  /\ UNCHANGED out

Remove(n) == queue' = SubSeq(queue, n + 1, Len(queue)) /\ UNCHANGED last

Take == \E n \in 0..Len(queue) : Remove(n) /\ out' = SubSeq(queue, 1, n)
Drop == \E n \in 0..Len(queue) : Remove(n) /\ UNCHANGED out

Next == Put \/ Take \/ Drop
Spec == Init /\ [][Next]_vars
=============================================================================
