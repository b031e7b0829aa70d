------------------------------ MODULE FlushFifo ------------------------------
(***************************************************************************)
(* What an av_queue (libav/avplay.h:64, libav/avplay.c:108-269) promises   *)
(* the two threads that share it: a first-in first-out list that the       *)
(* producer appends to and may clear, and from which the consumer takes    *)
(* the oldest item.  No locks, cells or counters.                          *)
(***************************************************************************)
EXTENDS Sequences

CONSTANTS Item,     \* what the queue carries
          InitItem  \* the flush item queue_init puts first

VARIABLES queue,    \* the items put and neither taken nor cleared, oldest first
          taken     \* the item the consumer took last

fifoVars == <<queue, taken>>

Init == queue = <<InitItem>> /\ taken = InitItem

Put(x) == queue' = Append(queue, x) /\ UNCHANGED taken

Take == /\ queue # <<>>
        /\ taken' = Head(queue)
        /\ queue' = Tail(queue)

Clear == queue' = <<>> /\ UNCHANGED taken

Next == (\E x \in Item : Put(x)) \/ Take \/ Clear

Spec == Init /\ [][Next]_fifoVars
=============================================================================
