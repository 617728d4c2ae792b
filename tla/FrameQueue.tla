------------------------------ MODULE FrameQueue ------------------------------
(* What the capture side and the encoder expect of the video buffer between     *)
(* them: a bounded first-in first-out queue that refuses new frames when full.  *)
(* MediaBuffer is the ring that implements it.                                  *)
EXTENDS Naturals, Sequences

CONSTANTS Frame,      \* captured pictures
          NoFrame,    \* nothing delivered yet
          Capacity    \* frames the queue can hold

VARIABLES queue,      \* frames waiting for the encoder, oldest first
          taken       \* the frame delivered last

vars == <<queue, taken>>

Init == queue = <<>> /\ taken = NoFrame

Put(f) == /\ Len(queue) < Capacity
          /\ queue' = Append(queue, f)
          /\ UNCHANGED taken

Get == /\ queue # <<>>
       /\ taken' = Head(queue)
       /\ queue' = Tail(queue)

Next == Get \/ \E f \in Frame : Put(f)

Spec == Init /\ [][Next]_vars
===============================================================================
