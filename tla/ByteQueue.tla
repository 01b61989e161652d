------------------------------ MODULE ByteQueue ------------------------------
(***************************************************************************)
(* What Buffer (buffer/buffer.h of both programs) promises the code that   *)
(* reads and writes sockets with it: the bytes not handled yet are a queue *)
(* that gains bytes at its end and loses them at its front.                *)
(***************************************************************************)
EXTENDS Naturals, Sequences

CONSTANT Byte

VARIABLE queue          \* the bytes between LPos_ and RPos_

Init == queue \in Seq(Byte)

(* Append and ReadFd: what is queued stays in front of what arrives.       *)
Put ==
  /\ Len(queue') >= Len(queue)
  /\ SubSeq(queue', 1, Len(queue)) = queue

(* AddHandled, WriteFd and AddHandledAll: the front is taken off.          *)
Take == \E n \in 0..Len(queue) : queue' = SubSeq(queue, n + 1, Len(queue))

Next == Put \/ Take

Spec == Init /\ [][Next]_queue
=============================================================================
