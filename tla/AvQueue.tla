------------------------------- MODULE AvQueue -------------------------------
(***************************************************************************)
(* One av_queue of libav/avplay.c with the two threads that share it and   *)
(* the thread that stops them, at the grain of single loads and stores:    *)
(* the linked list, its unlocked size counter, its mutex and its condition *)
(* variable.                                                               *)
(*                                                                         *)
(* A QUEUE_PACKET queue is filled and flushed by read_pkt_thrd and emptied *)
(* by a decoder; a QUEUE_AVFRAME queue is filled and drained by a decoder  *)
(* and emptied by a renderer, which also peeks at it without the mutex.    *)
(* List cells are named by the order of their allocation (there is one     *)
(* producer), so that a cell's successor in the list is the next number.   *)
(***************************************************************************)
EXTENDS Integers, Sequences

CONSTANTS MaxCells,   \* bound: cells the producer may allocate
          MaxGen,     \* bound: flushes of the queue
          DqSize      \* AVDECODE_BUFFER_SIZE, chk_queue's limit

ASSUME MaxCellsAssumption == MaxCells \in Nat \ {0}
ASSUME MaxGenAssumption == MaxGen \in Nat
ASSUME DqSizeAssumption == DqSize \in Nat \ {0}

VARIABLES
  m_type,     \* "QUEUE_PACKET" or "QUEUE_AVFRAME", as initialize sets it
  m_first_pkt, m_last_pkt, m_size, abort_request,  \* the av_queue
  next,     \* next[c]: the link of cell c
  item,     \* item[c]: what cell c carries
  skip,     \* cells whose frame has type = 1
  live,     \* cells allocated and not freed
  mutex,    \* who holds m_mutex: "P", "C" or "none"
  m_abort,  \* avplay.m_abort, the flag of all the thread loops
  pcP, cell, gen,      \* producer: where it is, its last cell, flushes begun
  pcC, pkt1, got, ptr, \* consumer: where it is, the cell it unlinked, the
                       \* item it got last, the m_last_pkt it peeked at
  pcS       \* av_stop: where it is

queueVars == <<m_first_pkt, m_last_pkt, m_size, next, item, skip, live>>
producerVars == <<pcP, cell, gen>>
consumerVars == <<pcC, pkt1, got, ptr>>
stopVars == <<m_type, m_abort, abort_request, pcS>>  \* of the application
vars == <<queueVars, mutex, producerVars, consumerVars, stopVars>>

NULL == 0
Cell == 1..MaxCells
Item == [flush : BOOLEAN, gen : 0..MaxGen]
FlushItem(g) == [flush |-> TRUE, gen |-> g]
DataItem(g) == [flush |-> FALSE, gen |-> g]

(***************************************************************************)
(* The last cell that is linked: put_queue links a cell before it moves    *)
(* m_last_pkt.                                                             *)
(***************************************************************************)
LinkedLast == IF pcP = "put_last" THEN cell ELSE m_last_pkt

\* The cells of the list, from m_first_pkt on.
Linked == IF m_first_pkt = NULL THEN {} ELSE m_first_pkt..LinkedLast

-----------------------------------------------------------------------------
\* queue_init: an empty list, then put_queue of flush_pkt or flush_frm.
Init ==
  /\ m_type \in {"QUEUE_PACKET", "QUEUE_AVFRAME"}
  /\ m_first_pkt = 1 /\ m_last_pkt = 1 /\ m_size = 1
  /\ abort_request = FALSE /\ m_abort = FALSE
  /\ next = [c \in Cell |-> NULL]
  /\ item = [c \in Cell |-> FlushItem(0)]
  /\ skip = {} /\ live = {1}
  /\ mutex = "none"
  /\ pcP = "idle" /\ cell = 1 /\ gen = 0
  /\ pcC = "idle" /\ pkt1 = NULL /\ got = FlushItem(0) /\ ptr = NULL
  /\ pcS = "run"

(***************************************************************************)
(* put_queue.  The cell is allocated and filled before the lock is taken.  *)
(***************************************************************************)
PutAlloc(x) ==
  /\ cell < MaxCells
  /\ cell' = cell + 1
  /\ item' = [item EXCEPT ![cell'] = x]
  /\ next' = [next EXCEPT ![cell'] = NULL]
  /\ live' = live \cup {cell'}
  /\ pcP' = "put_lock"
  /\ UNCHANGED <<m_first_pkt, m_last_pkt, m_size, skip>>

PutLock ==
  /\ pcP = "put_lock" /\ mutex = "none"
  /\ mutex' = "P" /\ pcP' = "put_link"
  /\ UNCHANGED <<queueVars, cell, gen, consumerVars, stopVars>>

\* Mutant: the else branch of put_queue is lost.
NoTail_Always == TRUE
NoTail == m_last_pkt = NULL

PutLink ==
  /\ pcP = "put_link"
  /\ IF NoTail
       THEN m_first_pkt' = cell /\ UNCHANGED next
       ELSE next' = [next EXCEPT ![m_last_pkt] = cell] /\ UNCHANGED m_first_pkt
  /\ pcP' = "put_last"
  /\ UNCHANGED <<m_last_pkt, m_size, item, skip, live, mutex, cell, gen,
                 consumerVars, stopVars>>

PutLast ==
  /\ pcP = "put_last"
  /\ m_last_pkt' = cell /\ pcP' = "put_size"
  /\ UNCHANGED <<m_first_pkt, m_size, next, item, skip, live, mutex, cell, gen,
                 consumerVars, stopVars>>

\* Mutant: put_queue and av_stop forget to signal.
Signal_Dropped == pcC' = pcC
\* pthread_cond_signal wakes the consumer if it waits, and is lost otherwise.
Signal == pcC' = IF pcC = "wait" THEN "get_lock" ELSE pcC

PutSize ==
  /\ pcP = "put_size"
  /\ m_size' = m_size + 1
  /\ Signal
  /\ mutex' = "none" /\ pcP' = "idle"
  /\ UNCHANGED <<m_first_pkt, m_last_pkt, next, item, skip, live, cell, gen,
                 pkt1, got, ptr, stopVars>>

(***************************************************************************)
(* read_pkt_thrd, the producer of a packet queue: it puts the packets it   *)
(* reads, and for a seek flushes the queue and puts flush_pkt.             *)
(***************************************************************************)
ReadPacket ==
  /\ m_type = "QUEUE_PACKET"
  /\ pcP = "idle" /\ ~m_abort
  /\ PutAlloc(DataItem(gen))
  /\ UNCHANGED <<mutex, gen, consumerVars, stopVars>>

\* Only packet queues are flushed while the threads run.
\* Mutant: a seek flushes the frame queues too.
Flushes_Any == TRUE
Flushes == m_type = "QUEUE_PACKET"

\* Mutants: no flush_pkt after the early return; the list is never freed.
AfterCheck_NoMarker == IF m_size = 0 THEN "idle" ELSE "flush_lock"
AfterCheck_NoFlush == "put_flush"
AfterCheck == IF m_size = 0 THEN "put_flush" ELSE "flush_lock"

\* queue_flush reads m_size without the mutex and returns early when it is 0.
FlushCheck ==
  /\ Flushes
  /\ pcP = "idle" /\ ~m_abort /\ cell < MaxCells /\ gen < MaxGen
  /\ gen' = gen + 1
  /\ pcP' = AfterCheck
  /\ UNCHANGED <<queueVars, mutex, cell, consumerVars, stopVars>>

\* pthread_mutex_lock
FlushMayEnter == mutex = "none"

FlushLock ==
  /\ pcP = "flush_lock" /\ FlushMayEnter
  /\ mutex' = "P" /\ pcP' = "flush_free"
  /\ UNCHANGED <<queueVars, cell, gen, consumerVars, stopVars>>

\* Mutant: only the first cell is freed.
Freed_First == {m_first_pkt}
Freed == Linked

FreeList ==
  /\ live' = live \ Freed
  /\ m_first_pkt' = NULL /\ m_last_pkt' = NULL /\ m_size' = 0

FlushFree ==
  /\ pcP = "flush_free"
  /\ FreeList
  /\ mutex' = "none" /\ pcP' = "put_flush"
  /\ UNCHANGED <<next, item, skip, cell, gen, consumerVars, stopVars>>

PutFlushPkt ==
  /\ pcP = "put_flush"
  /\ PutAlloc(FlushItem(gen))
  /\ UNCHANGED <<mutex, gen, consumerVars, stopVars>>

(***************************************************************************)
(* A decoder, the producer of a frame queue: it waits in chk_queue for     *)
(* room and puts a frame; on flush_pkt it waits until the queue is drained *)
(* and marks what is left in it as type = 1 (skip).                        *)
(***************************************************************************)
FrameDecoded ==
  /\ m_type = "QUEUE_AVFRAME"
  /\ pcP = "idle" /\ ~m_abort /\ cell < MaxCells
  /\ pcP' = "chk"
  /\ UNCHANGED <<queueVars, mutex, cell, gen, consumerVars, stopVars>>

ChkQueue ==
  /\ pcP = "chk" /\ mutex = "none"
  /\ m_size < DqSize \/ m_abort
  /\ PutAlloc(DataItem(gen))
  /\ UNCHANGED <<mutex, gen, consumerVars, stopVars>>

FlushPktTaken ==
  /\ m_type = "QUEUE_AVFRAME"
  /\ pcP = "idle" /\ ~m_abort /\ gen < MaxGen
  /\ pcP' = "drain"
  /\ UNCHANGED <<queueVars, mutex, cell, gen, consumerVars, stopVars>>

\* The wait reads m_size and abort_request without the mutex.
\* Mutant: the decoder does not wait for the renderer to drain the queue.
DrainWaitOver_Always == TRUE
DrainWaitOver == m_size = 0 \/ abort_request

Drained ==
  /\ pcP = "drain"
  /\ DrainWaitOver
  /\ pcP' = "mark"
  /\ UNCHANGED <<queueVars, mutex, cell, gen, consumerVars, stopVars>>

MarkSkip ==
  /\ pcP = "mark" /\ mutex = "none"
  /\ skip' = skip \cup Linked
  /\ gen' = gen + 1 /\ pcP' = "idle"
  /\ UNCHANGED <<m_first_pkt, m_last_pkt, m_size, next, item, live, mutex, cell,
                 consumerVars, stopVars>>

ProducerExit ==
  /\ pcP = "idle" /\ m_abort
  /\ pcP' = "done"
  /\ UNCHANGED <<queueVars, mutex, cell, gen, consumerVars, stopVars>>

-----------------------------------------------------------------------------
\* get_queue, called in the consumer's loop while !m_abort.
ConsumerLoop ==
  /\ pcC = "idle"
  /\ pcC' = IF m_abort THEN "done" ELSE "get_lock"
  /\ UNCHANGED <<queueVars, mutex, producerVars, pkt1, got, ptr, stopVars>>

\* Also the return of pthread_cond_wait, which takes the mutex again.
GetLock ==
  /\ pcC = "get_lock" /\ mutex = "none"
  /\ mutex' = "C" /\ pcC' = "get_check"
  /\ UNCHANGED <<queueVars, producerVars, pkt1, got, ptr, stopVars>>

GetCheck ==
  /\ pcC = "get_check"
  /\ IF abort_request
       THEN pcC' = "idle" /\ mutex' = "none"   \* returns -1
       ELSE pcC' = "get_first" /\ UNCHANGED mutex
  /\ UNCHANGED <<queueVars, producerVars, pkt1, got, ptr, stopVars>>

\* Mutant: m_last_pkt is left pointing at the cell that is freed.
LastAfterGet_Kept == m_last_pkt
LastAfterGet == IF next[m_first_pkt] = NULL THEN NULL ELSE m_last_pkt

GetUnlink ==
  /\ pcC = "get_first" /\ m_first_pkt # NULL
  /\ pkt1' = m_first_pkt
  /\ m_first_pkt' = next[m_first_pkt]
  /\ m_last_pkt' = LastAfterGet
  /\ pcC' = "get_size"
  /\ UNCHANGED <<m_size, next, item, skip, live, mutex, producerVars, got, ptr,
                 stopVars>>

GetSize ==
  /\ pcC = "get_size"
  /\ m_size' = m_size - 1
  /\ got' = item[pkt1]
  /\ live' = live \ {pkt1}
  /\ pkt1' = NULL /\ mutex' = "none" /\ pcC' = "idle"
  /\ UNCHANGED <<m_first_pkt, m_last_pkt, next, item, skip, producerVars, ptr,
                 stopVars>>

\* pthread_cond_wait: sleeps and releases the mutex in one step.
GetWait ==
  /\ pcC = "get_first" /\ m_first_pkt = NULL
  /\ pcC' = "wait" /\ mutex' = "none"
  /\ UNCHANGED <<queueVars, producerVars, pkt1, got, ptr, stopVars>>

\* POSIX lets pthread_cond_wait return without a signal.
SpuriousWakeup ==
  /\ pcC = "wait"
  /\ pcC' = "get_lock"
  /\ UNCHANGED <<queueVars, mutex, producerVars, pkt1, got, ptr, stopVars>>

(***************************************************************************)
(* A renderer reads m_size and then m_last_pkt without the mutex: to skip  *)
(* the rest of a frame, or for the pts of the following frame.             *)
(***************************************************************************)
PeekSize ==
  /\ m_type = "QUEUE_AVFRAME"
  /\ pcC = "idle" /\ ~got.flush /\ m_size > 0
  /\ pcC' = "peek_last"
  /\ UNCHANGED <<queueVars, mutex, producerVars, pkt1, got, ptr, stopVars>>

PeekLast ==
  /\ pcC = "peek_last"
  /\ ptr' = m_last_pkt /\ pcC' = "peek_read"
  /\ UNCHANGED <<queueVars, mutex, producerVars, pkt1, got, stopVars>>

PeekRead ==
  /\ pcC = "peek_read"
  /\ ptr' = NULL /\ pcC' = "idle"
  /\ UNCHANGED <<queueVars, mutex, producerVars, pkt1, got, stopVars>>

-----------------------------------------------------------------------------
\* av_stop: the flags and the signal are given without the queue's mutex.
StopFlag ==
  /\ pcS = "run"
  /\ m_abort' = TRUE /\ pcS' = "request"
  /\ UNCHANGED <<queueVars, mutex, producerVars, consumerVars, m_type,
                 abort_request>>

StopRequest ==
  /\ pcS = "request"
  /\ abort_request' = TRUE /\ pcS' = "signal"
  /\ UNCHANGED <<queueVars, mutex, producerVars, consumerVars, m_type, m_abort>>

StopSignal ==
  /\ pcS = "signal"
  /\ Signal
  /\ pcS' = "join"
  /\ UNCHANGED <<queueVars, mutex, producerVars, pkt1, got, ptr, m_type,
                 m_abort, abort_request>>

\* wait_for_threads, then queue_end, whose queue_flush frees what is left.
StopEnd ==
  /\ pcS = "join" /\ pcP = "done" /\ pcC = "done"
  /\ pcS' = "ended"
  /\ IF m_size = 0
       THEN UNCHANGED <<m_first_pkt, m_last_pkt, m_size, live>>
       ELSE FreeList
  /\ UNCHANGED <<next, item, skip, mutex, producerVars, consumerVars, m_type,
                 m_abort, abort_request>>

-----------------------------------------------------------------------------
Put == PutLock \/ PutLink \/ PutLast \/ PutSize
Reader == ReadPacket \/ FlushCheck \/ FlushLock \/ FlushFree \/ PutFlushPkt
Decoder == FrameDecoded \/ ChkQueue \/ FlushPktTaken \/ Drained \/ MarkSkip
Producer == Put \/ Reader \/ Decoder \/ ProducerExit

Get == ConsumerLoop \/ GetLock \/ GetCheck \/ GetUnlink \/ GetSize \/ GetWait
Peek == PeekSize \/ PeekLast \/ PeekRead

Stop == StopFlag \/ StopRequest \/ StopSignal \/ StopEnd

Next == Producer \/ Get \/ SpuriousWakeup \/ Peek \/ Stop

Spec == Init /\ [][Next]_vars

(***************************************************************************)
(* Every thread runs when it can, a mutex that is free again and again is  *)
(* got, and the device that makes a renderer peek again takes the frame in *)
(* the end; nobody is obliged to read, to seek or to stop, and a wakeup    *)
(* without a signal is not owed.                                           *)
(***************************************************************************)
Fairness ==
  /\ WF_vars(PutLink \/ PutLast \/ PutSize \/ FlushFree \/ PutFlushPkt
               \/ Drained \/ ProducerExit)
  /\ SF_vars(PutLock) /\ SF_vars(FlushLock) /\ SF_vars(ChkQueue)
  /\ SF_vars(MarkSkip)
  /\ WF_vars(GetCheck \/ GetUnlink \/ GetSize \/ GetWait \/ PeekLast \/ PeekRead)
  /\ SF_vars(ConsumerLoop) /\ SF_vars(GetLock)
  /\ WF_vars(StopRequest \/ StopSignal \/ StopEnd)

FairSpec == Spec /\ Fairness

-----------------------------------------------------------------------------
ProducerPc == {"idle", "put_lock", "put_link", "put_last", "put_size",
               "flush_lock", "flush_free", "put_flush", "chk", "drain", "mark",
               "done"}
ConsumerPc == {"idle", "get_lock", "get_check", "get_first", "get_size", "wait",
               "peek_last", "peek_read", "done"}

(***************************************************************************)
(* The variables keep their types; m_size, which the threads also read     *)
(* without the mutex, is never negative.                                   *)
(***************************************************************************)
TypeOK ==
  /\ m_type \in {"QUEUE_PACKET", "QUEUE_AVFRAME"}
  /\ m_first_pkt \in Cell \cup {NULL} /\ m_last_pkt \in Cell \cup {NULL}
  /\ m_size \in Nat
  /\ abort_request \in BOOLEAN /\ m_abort \in BOOLEAN
  /\ next \in [Cell -> Cell \cup {NULL}]
  /\ item \in [Cell -> Item]
  /\ skip \subseteq Cell /\ live \subseteq Cell
  /\ mutex \in {"P", "C", "none"}
  /\ pcP \in ProducerPc /\ cell \in Cell /\ gen \in 0..MaxGen
  /\ pcC \in ConsumerPc /\ pkt1 \in Cell \cup {NULL} /\ got \in Item
  /\ ptr \in Cell \cup {NULL}
  /\ pcS \in {"run", "request", "signal", "join", "ended"}

\* The mutex is held exactly by the thread that is inside it.
MutexHeld ==
  /\ (mutex = "P") <=> pcP \in {"put_link", "put_last", "put_size", "flush_free"}
  /\ (mutex = "C") <=> pcC \in {"get_check", "get_first", "get_size"}

(***************************************************************************)
(* get_queue, put_queue and queue_flush keep the list whole: from          *)
(* m_first_pkt the links lead through allocated cells to the last linked   *)
(* one, and m_size, which others read without the mutex, differs from the  *)
(* list's length only by the cell the mutex holder has linked or unlinked  *)
(* and not counted yet.                                                    *)
(***************************************************************************)
ListWhole ==
  /\ m_first_pkt = NULL => m_last_pkt = NULL \/ pcP = "put_last"
  /\ m_first_pkt # NULL =>
       /\ m_first_pkt <= LinkedLast /\ LinkedLast <= cell
       /\ \A c \in Linked : next[c] = IF c = LinkedLast THEN NULL ELSE c + 1
  /\ Linked \subseteq live
  /\ m_size = (IF m_first_pkt = NULL THEN 0 ELSE LinkedLast - m_first_pkt + 1)
              + (IF pcC = "get_size" THEN 1 ELSE 0)
              - (IF pcP \in {"put_last", "put_size"} THEN 1 ELSE 0)

(***************************************************************************)
(* No wakeup of put_queue is lost: the consumer is asleep in               *)
(* pthread_cond_wait only while the list is empty, or put_queue, holding   *)
(* the mutex, is about to signal.                                          *)
(***************************************************************************)
SleepsOnlyWhenEmpty ==
  pcC = "wait" => Linked = {} \/ pcP \in {"put_last", "put_size"}

(***************************************************************************)
(* A renderer that found m_size > 0 without the mutex reads a cell that is *)
(* allocated: m_last_pkt is not NULL and its cell is not freed before the  *)
(* renderer itself takes it.                                               *)
(***************************************************************************)
PeekSafe ==
  /\ pcC = "peek_last" => m_last_pkt \in live
  /\ pcC = "peek_read" => ptr \in live

(***************************************************************************)
(* No list cell is leaked: what is allocated is in the list, or in the     *)
(* hands of put_queue or get_queue; after queue_end nothing is.            *)
(***************************************************************************)
NoCellLeak ==
  /\ live = Linked \cup (IF pcC = "get_size" THEN {pkt1} ELSE {})
                   \cup (IF pcP \in {"put_lock", "put_link"} THEN {cell} ELSE {})
  /\ pcS = "ended" => live = {}

(***************************************************************************)
(* After queue_flush has returned, early or not, no packet read before the *)
(* seek is in the packet queue.                                            *)
(***************************************************************************)
NothingStale ==
  m_type = "QUEUE_PACKET" /\ pcP \notin {"flush_lock", "flush_free"} =>
    \A c \in Linked : item[c].gen = gen

(***************************************************************************)
(* A decoder that takes packets of another seek than the last one took     *)
(* flush_pkt first, and never goes back: avcodec_flush_buffers runs        *)
(* between the packets of two positions.                                   *)
(***************************************************************************)
FlushPktFirst ==
  [][got'.gen # got.gen /\ m_type = "QUEUE_PACKET" =>
       got'.flush /\ got'.gen > got.gen]_vars

(***************************************************************************)
(* Unless playback is being stopped, the frames in a frame queue are all   *)
(* of one position and none is marked type = 1: the decoder puts no frame  *)
(* of the next position before the renderer has taken all of the last one. *)
(***************************************************************************)
DrainSeparates ==
  m_type = "QUEUE_AVFRAME" =>
    \/ abort_request
    \/ /\ Linked \cap skip = {}
       /\ \A c \in Linked : item[c].gen = item[m_first_pkt].gen

\* The abstract list: the items from m_first_pkt to the last linked cell.
Contents ==
  IF m_first_pkt = NULL THEN <<>>
  ELSE [i \in 1..(LinkedLast - m_first_pkt + 1) |-> item[m_first_pkt + i - 1]]

Fifo == INSTANCE FlushFifo WITH
          Item <- Item, InitItem <- FlushItem(0), queue <- Contents,
          taken <- IF pcC = "get_size" THEN item[pkt1] ELSE got

(***************************************************************************)
(* The linked list, its cells, lock and counter implement a FIFO: items    *)
(* are taken in the order in which they were put, none twice, and only a   *)
(* flush removes any other.                                                *)
(***************************************************************************)
ImplementsFifo == Fifo!Spec

(***************************************************************************)
(* What is put is taken, or flushed, unless playback stops: the consumer   *)
(* never sleeps through it.                                                *)
(***************************************************************************)
Delivered ==
  \A c \in Cell : (c \in Linked) ~> (c \notin Linked \/ m_abort)

(***************************************************************************)
(* av_stop says it "notifies the threads to exit" (comment at              *)
(* libav/avplay.c:723) and then waits until they have: each consumer       *)
(* leaves get_queue.                                                       *)
(***************************************************************************)
StopEndsConsumer == (pcS = "join") ~> (pcC = "done")
=============================================================================
