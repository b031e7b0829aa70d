---------------------------- MODULE AvQueueProofs ----------------------------
(***************************************************************************)
(* Theorems about AvQueue, for every number of cells, of flushes and every *)
(* chk_queue limit, and for both types of queue.                           *)
(***************************************************************************)
EXTENDS AvQueue, TLAPS

(***************************************************************************)
(* Where the list stands relative to the cell the producer holds: what     *)
(* ListWhole needs to be inductive.  Cells are linked in the order of      *)
(* their allocation, so a list that is not empty ends at the last cell     *)
(* allocated or, while put_queue holds a new one, at the cell before it;   *)
(* and the cell the consumer has unlinked lies before the list.            *)
(***************************************************************************)
ListState ==
  /\ pcP # "put_last" => (m_first_pkt = NULL <=> m_last_pkt = NULL)
  /\ pcP = "put_last" =>
       /\ m_first_pkt # NULL
       /\ m_last_pkt = NULL => m_first_pkt = cell
       /\ m_last_pkt # NULL => m_first_pkt <= m_last_pkt /\ m_last_pkt = cell - 1
  /\ pcP \in {"put_lock", "put_link"} =>
       /\ cell \in live /\ next[cell] = NULL
       /\ m_first_pkt # NULL => m_last_pkt = cell - 1
  /\ pcP \notin {"put_lock", "put_link", "put_last"} /\ m_first_pkt # NULL =>
       m_last_pkt = cell
  /\ pcC = "get_size" =>
       /\ pkt1 \in live /\ pkt1 <= cell
       /\ m_first_pkt # NULL => pkt1 < m_first_pkt
       /\ pcP \in {"put_lock", "put_link"} => pkt1 < cell
  /\ pcP \in {"drain", "mark"} => gen < MaxGen

Core == TypeOK /\ MutexHeld /\ ListWhole /\ ListState

USE DEF NULL, Cell

\* The initial list, one flush item, is whole.
LEMMA CoreInit == Init => Core
<1> SUFFICES ASSUME Init PROVE Core
  OBVIOUS
<1> USE MaxCellsAssumption, MaxGenAssumption DEF Init
<1>1. FlushItem(0) \in Item
  BY DEF FlushItem, Item
<1>2. TypeOK
  <2>1. /\ m_first_pkt \in Cell \cup {NULL} /\ m_last_pkt \in Cell \cup {NULL}
        /\ m_size \in Nat /\ cell \in Cell /\ gen \in 0..MaxGen
        /\ pkt1 \in Cell \cup {NULL} /\ ptr \in Cell \cup {NULL}
        /\ skip \subseteq Cell /\ live \subseteq Cell
    OBVIOUS
  <2>2. next \in [Cell -> Cell \cup {NULL}] /\ item \in [Cell -> Item] /\ got \in Item
    BY <1>1
  <2>3. /\ abort_request \in BOOLEAN /\ m_abort \in BOOLEAN
        /\ mutex \in {"P", "C", "none"} /\ pcP \in ProducerPc /\ pcC \in ConsumerPc
        /\ pcS \in {"run", "request", "signal", "join", "ended"}
    BY DEF ProducerPc, ConsumerPc
  <2> QED
    BY <2>1, <2>2, <2>3 DEF TypeOK
<1>3. MutexHeld
  BY DEF MutexHeld
<1>4. ListWhole
  BY DEF ListWhole, Linked, LinkedLast
<1>5. ListState
  BY DEF ListState
<1> QED
  BY <1>2, <1>3, <1>4, <1>5 DEF Core

\* The producer's steps keep the list whole.
LEMMA CoreProducer == Core /\ Producer => Core'
<1> SUFFICES ASSUME Core, Producer PROVE Core'
  OBVIOUS
<1> USE MaxCellsAssumption, MaxGenAssumption, DqSizeAssumption
    DEF Core, TypeOK, MutexHeld, ListWhole, ListState, Linked, LinkedLast,
        ProducerPc, ConsumerPc, queueVars, consumerVars, stopVars
<1>1. CASE PutLock
  BY <1>1 DEF PutLock
<1>2. CASE PutLink
  <2>1. CASE NoTail
    BY <1>2, <2>1 DEF PutLink, NoTail
  <2>2. CASE ~NoTail
    <3>1. /\ m_last_pkt = cell - 1 /\ m_first_pkt # NULL
          /\ next' = [next EXCEPT ![m_last_pkt] = cell]
          /\ pcP' = "put_last"
          /\ UNCHANGED <<m_first_pkt, m_last_pkt, m_size, item, skip, live, mutex,
                         cell, gen, consumerVars, stopVars>>
      BY <1>2, <2>2 DEF PutLink, NoTail
    <3>2. TypeOK' /\ MutexHeld'
      BY <1>2, <3>1 DEF PutLink
    <3>3. ListWhole'
      <4>1. Linked' = m_first_pkt..cell /\ LinkedLast' = cell
        BY <3>1
      <4>2. \A c \in m_first_pkt..cell : c \in Cell /\ (c = cell \/ c \in Linked)
        BY <1>2, <3>1 DEF PutLink
      <4>3. \A c \in m_first_pkt..cell :
               next'[c] = IF c = cell THEN NULL ELSE c + 1
        <5>1. \A c \in Linked : next[c] = IF c = m_last_pkt THEN NULL ELSE c + 1
          BY <1>2, <3>1 DEF PutLink
        <5>2. /\ next[cell] = NULL /\ next \in [Cell -> Cell \cup {NULL}]
              /\ m_last_pkt \in Cell /\ cell \in Cell
          BY <1>2, <3>1 DEF PutLink
        <5> HIDE DEF Core, TypeOK, MutexHeld, ListWhole, ListState, Linked, LinkedLast
        <5> QED
          BY <3>1, <4>2, <5>1, <5>2
      <4>4. Linked' \subseteq live'
        BY <1>2, <3>1, <4>1, <4>2 DEF PutLink
      <4>5. m_size' = LinkedLast' - m_first_pkt' + 1
                      + (IF pcC' = "get_size" THEN 1 ELSE 0) - 1
        BY <1>2, <3>1, <4>1 DEF PutLink
      <4> QED
        BY <1>2, <3>1, <4>1, <4>3, <4>4, <4>5 DEF PutLink
    <3>4. ListState'
      BY <1>2, <3>1 DEF PutLink
    <3> QED
      BY <3>2, <3>3, <3>4
  <2> QED
    BY <2>1, <2>2
<1>3. CASE PutLast
  BY <1>3 DEF PutLast
<1>4. CASE PutSize
  BY <1>4 DEF PutSize, Signal
<1>5. CASE ReadPacket
  BY <1>5 DEF ReadPacket, PutAlloc, DataItem, Item
<1>6. CASE FlushCheck
  BY <1>6 DEF FlushCheck, AfterCheck
<1>7. CASE FlushLock
  BY <1>7 DEF FlushLock, FlushMayEnter
<1>8. CASE FlushFree
  BY <1>8 DEF FlushFree, FreeList, Freed
<1>9. CASE PutFlushPkt
  BY <1>9 DEF PutFlushPkt, PutAlloc, FlushItem, Item
<1>10. CASE FrameDecoded
  BY <1>10 DEF FrameDecoded
<1>11. CASE ChkQueue
  BY <1>11 DEF ChkQueue, PutAlloc, DataItem, Item
<1>12. CASE FlushPktTaken
  BY <1>12 DEF FlushPktTaken
<1>13. CASE Drained
  BY <1>13 DEF Drained
<1>14. CASE MarkSkip
  BY <1>14 DEF MarkSkip
<1>15. CASE ProducerExit
  BY <1>15 DEF ProducerExit
<1> QED
  BY <1>1, <1>2, <1>3, <1>4, <1>5, <1>6, <1>7, <1>8, <1>9, <1>10, <1>11, <1>12,
     <1>13, <1>14, <1>15 DEF Producer, Put, Reader, Decoder

\* The consumer's and av_stop's steps keep the list whole.
LEMMA CoreConsumer == Core /\ (Get \/ SpuriousWakeup \/ Peek \/ Stop) => Core'
<1> SUFFICES ASSUME Core, Get \/ SpuriousWakeup \/ Peek \/ Stop PROVE Core'
  OBVIOUS
<1> USE MaxCellsAssumption, MaxGenAssumption
    DEF Core, TypeOK, MutexHeld, ListWhole, ListState, Linked, LinkedLast,
        ProducerPc, ConsumerPc, queueVars, producerVars, consumerVars, stopVars
<1>1. CASE ConsumerLoop
  BY <1>1 DEF ConsumerLoop
<1>2. CASE GetLock
  BY <1>2 DEF GetLock
<1>3. CASE GetCheck
  BY <1>3 DEF GetCheck
<1>4. CASE GetUnlink
  <2>1. /\ m_first_pkt \in Cell /\ pcC = "get_first" /\ pkt1' = m_first_pkt
        /\ m_first_pkt' = next[m_first_pkt]
        /\ m_last_pkt' = IF next[m_first_pkt] = NULL THEN NULL ELSE m_last_pkt
        /\ pcC' = "get_size"
        /\ UNCHANGED <<m_size, next, item, skip, live, mutex, producerVars, got, ptr,
                       stopVars>>
    BY <1>4 DEF GetUnlink, LastAfterGet
  <2>2. TypeOK' /\ MutexHeld'
    BY <2>1
  <2>3. ListWhole'
    BY <2>1
  <2>4. ListState'
    BY <2>1
  <2> QED
    BY <2>2, <2>3, <2>4
<1>5. CASE GetSize
  BY <1>5 DEF GetSize
<1>6. CASE GetWait
  BY <1>6 DEF GetWait
<1>7. CASE SpuriousWakeup
  BY <1>7 DEF SpuriousWakeup
<1>8. CASE Peek
  <2>1. CASE PeekSize
    BY <2>1 DEF PeekSize
  <2>2. CASE PeekLast
    BY <2>2 DEF PeekLast
  <2>3. CASE PeekRead
    BY <2>3 DEF PeekRead
  <2> QED
    BY <1>8, <2>1, <2>2, <2>3 DEF Peek
<1>9. CASE StopFlag \/ StopRequest
  <2>1. /\ UNCHANGED <<queueVars, mutex, producerVars, consumerVars, m_type>>
        /\ pcS' \in {"request", "signal"}
        /\ m_abort' \in BOOLEAN /\ abort_request' \in BOOLEAN
    BY <1>9 DEF StopFlag, StopRequest
  <2>2. TypeOK'
    BY <2>1
  <2>3. MutexHeld' /\ ListWhole' /\ ListState'
    BY <2>1
  <2> QED
    BY <2>2, <2>3
<1>10. CASE StopSignal
  <2>1. /\ UNCHANGED <<queueVars, mutex, producerVars, pkt1, got, ptr, m_type,
                       m_abort, abort_request>>
        /\ pcS' = "join" /\ pcC' = (IF pcC = "wait" THEN "get_lock" ELSE pcC)
    BY <1>10 DEF StopSignal, Signal
  <2>2. TypeOK'
    BY <2>1
  <2>3. MutexHeld' /\ ListWhole' /\ ListState'
    BY <2>1
  <2> QED
    BY <2>2, <2>3
<1>11. CASE StopEnd
  <2>1. CASE m_size = 0
    <3>1. /\ UNCHANGED <<queueVars, mutex, producerVars, consumerVars, m_type,
                         m_abort, abort_request>>
          /\ pcS' = "ended"
      BY <1>11, <2>1 DEF StopEnd
    <3>2. TypeOK'
      BY <3>1
    <3>3. MutexHeld' /\ ListWhole' /\ ListState'
      BY <3>1
    <3> QED
      BY <3>2, <3>3
  <2>2. CASE m_size # 0
    <3>1. /\ m_first_pkt' = NULL /\ m_last_pkt' = NULL /\ m_size' = 0
          /\ live' = live \ Linked /\ pcS' = "ended"
          /\ pcP = "done" /\ pcC = "done"
          /\ UNCHANGED <<next, item, skip, mutex, producerVars, consumerVars,
                         m_type, m_abort, abort_request>>
      BY <1>11, <2>2 DEF StopEnd, FreeList, Freed
    <3>2. TypeOK'
      BY <3>1
    <3>3. MutexHeld' /\ ListState'
      BY <3>1
    <3>4. Linked' = {}
      BY <3>1
    <3>5. ListWhole'
      <4>1. pcP' = "done" /\ pcC' = "done"
        BY <3>1
      <4>2. m_first_pkt' = NULL => m_last_pkt' = NULL \/ pcP' = "put_last"
        BY <3>1
      <4>3. ~(m_first_pkt' # NULL)
        BY <3>1
      <4>4. Linked' \subseteq live'
        BY <3>4
      <4>5. m_size' = (IF m_first_pkt' = NULL THEN 0
                        ELSE LinkedLast' - m_first_pkt' + 1)
                      + (IF pcC' = "get_size" THEN 1 ELSE 0)
                      - (IF pcP' \in {"put_last", "put_size"} THEN 1 ELSE 0)
        <5>1. m_size' = 0 /\ m_first_pkt' = 0 /\ LinkedLast' = 0
          BY <3>1
        <5>2. (IF pcC' = "get_size" THEN 1 ELSE 0) = 0
          BY <4>1
        <5>3. (IF pcP' \in {"put_last", "put_size"} THEN 1 ELSE 0) = 0
          BY <4>1
        <5>4. (IF m_first_pkt' = NULL THEN 0 ELSE LinkedLast' - m_first_pkt' + 1) = 0
          BY <5>1
        <5>5. m_size' = 0 + 0 - 0
          BY <5>1
        <5> HIDE DEF Core, TypeOK, MutexHeld, ListWhole, ListState, Linked, LinkedLast
        <5> QED
          BY <5>2, <5>3, <5>4, <5>5
      <4> HIDE DEF Core, TypeOK, MutexHeld, ListState, Linked, LinkedLast
      <4> QED
        BY <4>2, <4>3, <4>4, <4>5 DEF ListWhole
    <3> QED
      BY <3>2, <3>3, <3>5
  <2> QED
    BY <2>1, <2>2
<1> QED
  BY <1>1, <1>2, <1>3, <1>4, <1>5, <1>6, <1>7, <1>8, <1>9, <1>10,
     <1>11 DEF Get, Stop

(***************************************************************************)
(* The queue's core invariant: the types, who holds the mutex, and the     *)
(* shape of the list.                                                      *)
(***************************************************************************)
THEOREM CoreInvariant == Spec => []Core
<1>1. Core /\ UNCHANGED vars => Core'
  BY DEF Core, TypeOK, MutexHeld, ListWhole, ListState, Linked, LinkedLast, vars,
         queueVars, producerVars, consumerVars, stopVars
<1>2. Core /\ [Next]_vars => Core'
  BY <1>1, CoreProducer, CoreConsumer DEF Next
<1> QED
  BY <1>2, CoreInit, PTL DEF Spec
-----------------------------------------------------------------------------
USE MaxCellsAssumption, MaxGenAssumption, DqSizeAssumption

(***************************************************************************)
(* The definitions a proof about one step needs: the actions, and what     *)
(* they leave unchanged.                                                   *)
(***************************************************************************)
LEMMA Steps ==
  Next <=> \/ PutLock \/ PutLink \/ PutLast \/ PutSize
           \/ ReadPacket \/ FlushCheck \/ FlushLock \/ FlushFree \/ PutFlushPkt
           \/ FrameDecoded \/ ChkQueue \/ FlushPktTaken \/ Drained \/ MarkSkip
           \/ ProducerExit
           \/ ConsumerLoop \/ GetLock \/ GetCheck \/ GetUnlink \/ GetSize \/ GetWait
           \/ SpuriousWakeup \/ PeekSize \/ PeekLast \/ PeekRead
           \/ StopFlag \/ StopRequest \/ StopSignal \/ StopEnd
  BY DEF Next, Producer, Put, Reader, Decoder, Get, Peek, Stop

\* A queue keeps the type initialize gave it.
LEMMA SameType == [Next]_vars => m_type' = m_type
<1> USE DEF stopVars
<1>1. CASE UNCHANGED vars
  BY <1>1 DEF vars
<1>2. CASE Producer
  BY <1>2 DEF Producer, Put, Reader, Decoder, PutLock, PutLink, PutLast, PutSize,
              ReadPacket, FlushCheck, FlushLock, FlushFree, PutFlushPkt,
              FrameDecoded, ChkQueue, FlushPktTaken, Drained, MarkSkip, ProducerExit
<1>3. CASE Get \/ SpuriousWakeup \/ Peek \/ Stop
  BY <1>3 DEF Get, Peek, Stop, ConsumerLoop, GetLock, GetCheck, GetUnlink, GetSize,
              GetWait, SpuriousWakeup, PeekSize, PeekLast, PeekRead, StopFlag,
              StopRequest, StopSignal, StopEnd
<1> QED
  BY <1>1, <1>2, <1>3 DEF Next

(***************************************************************************)
(* No wakeup of put_queue is lost: put_queue signals under the mutex, and  *)
(* get_queue finds the list empty and goes to sleep under it.              *)
(***************************************************************************)
THEOREM NoLostWakeup == Spec => []SleepsOnlyWhenEmpty
<1> USE DEF SleepsOnlyWhenEmpty
<1>1. Init => SleepsOnlyWhenEmpty
  BY DEF Init
<1>2. Core /\ SleepsOnlyWhenEmpty /\ [Next]_vars => SleepsOnlyWhenEmpty'
  <2> SUFFICES ASSUME Core, SleepsOnlyWhenEmpty, [Next]_vars, pcC' = "wait",
                      pcP' \notin {"put_last", "put_size"}
               PROVE  Linked' = {}
    OBVIOUS
  <2> USE DEF Linked, LinkedLast, queueVars, producerVars, consumerVars, stopVars
  <2>1. CASE UNCHANGED vars
    BY <2>1 DEF vars
  <2>2. CASE PutLock \/ PutLink \/ PutLast \/ FlushLock
    BY <2>2 DEF PutLock, PutLink, PutLast, FlushLock
  <2>3. CASE PutSize
    BY <2>3 DEF PutSize, Signal
  <2>4. CASE ReadPacket \/ FlushCheck \/ PutFlushPkt \/ ChkQueue
    BY <2>4 DEF ReadPacket, FlushCheck, PutFlushPkt, ChkQueue, PutAlloc, Core,
                ListState, ListWhole
  <2>5. CASE FlushFree
    BY <2>5 DEF FlushFree, FreeList
  <2>6. CASE FrameDecoded \/ FlushPktTaken \/ Drained \/ MarkSkip \/ ProducerExit
    BY <2>6 DEF FrameDecoded, FlushPktTaken, Drained, MarkSkip, ProducerExit
  <2>7. CASE ConsumerLoop \/ GetLock \/ GetCheck \/ GetUnlink \/ GetSize
             \/ SpuriousWakeup \/ PeekSize \/ PeekLast \/ PeekRead
    BY <2>7 DEF ConsumerLoop, GetLock, GetCheck, GetUnlink, GetSize,
                SpuriousWakeup, PeekSize, PeekLast, PeekRead
  <2>8. CASE GetWait
    BY <2>8 DEF GetWait
  <2>9. CASE StopFlag \/ StopRequest \/ StopSignal
    BY <2>9 DEF StopFlag, StopRequest, StopSignal, Signal
  <2>10. CASE StopEnd
    BY <2>10 DEF StopEnd, FreeList
  <2> QED
    BY <2>1, <2>2, <2>3, <2>4, <2>5, <2>6, <2>7, <2>8, <2>9, <2>10, Steps
<1> QED
  BY <1>1, <1>2, CoreInvariant, PTL DEF Spec

-----------------------------------------------------------------------------
(***************************************************************************)
(* While a renderer peeks at a frame queue the list is not empty: only the *)
(* renderer itself takes frames, and frame queues are not flushed.         *)
(***************************************************************************)
PeekState ==
  /\ pcC \in {"peek_last", "peek_read"} => m_type = "QUEUE_AVFRAME"
  /\ pcP \in {"flush_lock", "flush_free", "put_flush"} =>
       m_type = "QUEUE_PACKET"
  /\ pcC = "peek_last" => m_last_pkt # NULL
  /\ pcC = "peek_read" => ptr # NULL /\ ptr \in Linked

\* What holds while the renderer looks at the last frame makes the look safe.
LEMMA PeekStateSafe == Core /\ PeekState => PeekSafe
  BY DEF Core, TypeOK, ListWhole, ListState, PeekState, PeekSafe, Linked, LinkedLast

\* Every step of every thread keeps it: until queue_end the cells of a frame
\* queue are only freed by get_queue, which the renderer itself calls.
LEMMA PeekStateStep == Core /\ PeekState /\ [Next]_vars => PeekState'
<1> SUFFICES ASSUME Core, PeekState, [Next]_vars PROVE PeekState'
  OBVIOUS
<1> USE DEF Core, TypeOK, MutexHeld, ListWhole, ListState, PeekState, Linked,
            LinkedLast, queueVars, producerVars, consumerVars, stopVars
<1>1. CASE UNCHANGED vars
  BY <1>1 DEF vars
<1>2. CASE PutLock \/ PutLast \/ FlushLock
  BY <1>2 DEF PutLock, PutLast, FlushLock
<1>3. CASE PutLink
  BY <1>3 DEF PutLink, NoTail
<1>4. CASE PutSize
  BY <1>4 DEF PutSize, Signal
<1>5. CASE ReadPacket \/ PutFlushPkt \/ ChkQueue
  BY <1>5 DEF ReadPacket, PutFlushPkt, ChkQueue, PutAlloc
<1>6. CASE FlushCheck
  BY <1>6 DEF FlushCheck, Flushes, AfterCheck
<1>7. CASE FlushFree
  BY <1>7 DEF FlushFree, FreeList
<1>8. CASE FrameDecoded \/ FlushPktTaken \/ Drained \/ MarkSkip \/ ProducerExit
  BY <1>8 DEF FrameDecoded, FlushPktTaken, Drained, MarkSkip, ProducerExit
<1>9. CASE ConsumerLoop \/ GetLock \/ GetCheck \/ GetUnlink \/ GetSize \/ GetWait
           \/ SpuriousWakeup
  BY <1>9 DEF ConsumerLoop, GetLock, GetCheck, GetUnlink, GetSize, GetWait,
              SpuriousWakeup
<1>10. CASE PeekSize
  BY <1>10 DEF PeekSize
<1>11. CASE PeekLast \/ PeekRead
  BY <1>11 DEF PeekLast, PeekRead
<1>12. CASE StopFlag \/ StopRequest \/ StopSignal
  BY <1>12 DEF StopFlag, StopRequest, StopSignal, Signal
<1>13. CASE StopEnd
  BY <1>13 DEF StopEnd, FreeList
<1> QED
  BY <1>1, <1>2, <1>3, <1>4, <1>5, <1>6, <1>7, <1>8, <1>9, <1>10, <1>11, <1>12,
     <1>13, Steps

(***************************************************************************)
(* The renderers' unlocked reads of m_size and m_last_pkt never touch a    *)
(* cell that is freed, nor NULL.                                           *)
(***************************************************************************)
THEOREM PeekIsSafe == Spec => []PeekSafe
<1>1. Init => PeekState
  BY DEF Init, PeekState
<1> QED
  BY <1>1, PeekStateStep, PeekStateSafe, CoreInvariant, PTL DEF Spec
-----------------------------------------------------------------------------
\* The item the consumer holds: the one it is unlinking, or the last it got.
Current == IF pcC = "get_size" THEN item[pkt1] ELSE got

\* The flush that the list belongs to: not yet the one under way.
ListGen == IF pcP \in {"flush_lock", "flush_free"} THEN gen - 1 ELSE gen

(***************************************************************************)
(* The list of a packet queue holds items of one position only; if the     *)
(* consumer is still at an earlier one, the first item it will find is     *)
(* flush_pkt.                                                              *)
(***************************************************************************)
FlushState ==
  m_type = "QUEUE_PACKET" =>
    /\ pcP \notin {"chk", "drain", "mark"}
    /\ \A c \in Linked : item[c].gen = ListGen
    /\ Current.gen <= ListGen
    /\ got.gen <= Current.gen /\ (got.gen < Current.gen => Current.flush)
    /\ Current.gen < ListGen /\ m_first_pkt # NULL => item[m_first_pkt].flush
    /\ pcP = "put_flush" => m_first_pkt = NULL
    /\ pcP \in {"put_lock", "put_link"} =>
         /\ item[cell].gen = gen
         /\ m_first_pkt = NULL /\ Current.gen < gen => item[cell].flush
    /\ pcP \notin {"put_flush", "put_lock", "put_link"} /\ m_first_pkt = NULL
       /\ pcS # "ended" => Current.gen = ListGen
    /\ pcS = "ended" => pcP = "done" /\ pcC = "done"

\* Every step of every thread keeps the order of positions and markers.
LEMMA FlushStateStep == Core /\ FlushState /\ [Next]_vars => FlushState'
<1> SUFFICES ASSUME Core, FlushState, [Next]_vars, m_type = "QUEUE_PACKET"
             PROVE  FlushState'
  BY SameType DEF FlushState
<1> USE DEF Core, TypeOK, MutexHeld, ListWhole, ListState, FlushState, Linked,
            LinkedLast, Current, ListGen, Item, queueVars, producerVars,
            consumerVars, stopVars
<1>1. CASE UNCHANGED vars
  BY <1>1 DEF vars
<1>2. CASE PutLock \/ PutLast \/ FlushLock
  BY <1>2 DEF PutLock, PutLast, FlushLock
<1>3. CASE PutLink
  BY <1>3 DEF PutLink, NoTail
<1>4. CASE PutSize
  BY <1>4 DEF PutSize, Signal
<1>5. CASE ReadPacket
  BY <1>5 DEF ReadPacket, PutAlloc, DataItem
<1>6. CASE PutFlushPkt
  BY <1>6 DEF PutFlushPkt, PutAlloc, FlushItem
<1>7. CASE FlushCheck
  BY <1>7 DEF FlushCheck, AfterCheck
<1>8. CASE FlushFree
  BY <1>8 DEF FlushFree, FreeList
<1>9. CASE FrameDecoded \/ ChkQueue \/ FlushPktTaken \/ Drained \/ MarkSkip
  BY <1>9 DEF FrameDecoded, ChkQueue, FlushPktTaken, Drained, MarkSkip
<1>10. CASE ProducerExit
  BY <1>10 DEF ProducerExit
<1>11. CASE ConsumerLoop \/ GetLock \/ GetCheck \/ GetWait \/ SpuriousWakeup
  BY <1>11 DEF ConsumerLoop, GetLock, GetCheck, GetWait, SpuriousWakeup
<1>12. CASE GetUnlink
  <2>1. /\ m_first_pkt \in Linked /\ pcC = "get_first" /\ pcC' = "get_size"
        /\ Current' = item[m_first_pkt] /\ ListGen' = ListGen
        /\ UNCHANGED <<item, pcP, cell, gen, pcS, got>> /\ Current = got
    BY <1>12 DEF GetUnlink
  <2>2. Linked' \subseteq Linked /\ (m_first_pkt' # NULL => m_first_pkt' \in Linked)
    <3>1. /\ m_first_pkt # NULL /\ pcP # "put_last" /\ pcP' = pcP
          /\ m_first_pkt' = next[m_first_pkt] /\ LinkedLast = m_last_pkt
      BY <1>12 DEF GetUnlink
    <3>2. m_first_pkt \in Linked
      BY <1>12 DEF GetUnlink
    <3>3. next[m_first_pkt] = IF m_first_pkt = LinkedLast THEN NULL
                              ELSE m_first_pkt + 1
      BY <3>1, <3>2
    <3>4. CASE m_first_pkt = m_last_pkt
      BY <3>1, <3>3, <3>4
    <3>5. CASE m_first_pkt # m_last_pkt
      BY <1>12, <3>1, <3>3, <3>5 DEF GetUnlink, LastAfterGet
    <3> QED
      BY <3>4, <3>5
  <2>3. Current'.gen = ListGen
    BY <2>1
  <2>4. /\ \A c \in Linked' : item'[c].gen = ListGen'
        /\ got'.gen <= Current'.gen /\ (got'.gen < Current'.gen => Current'.flush)
    BY <2>1, <2>2, <2>3
  <2> QED
    BY <2>1, <2>3, <2>4
<1>13. CASE GetSize
  BY <1>13 DEF GetSize
<1>14. CASE PeekSize \/ PeekLast \/ PeekRead
  BY <1>14 DEF PeekSize, PeekLast, PeekRead
<1>15. CASE StopFlag \/ StopRequest \/ StopSignal
  BY <1>15 DEF StopFlag, StopRequest, StopSignal, Signal
<1>16. CASE StopEnd
  BY <1>16 DEF StopEnd, FreeList
<1> QED
  BY <1>1, <1>2, <1>3, <1>4, <1>5, <1>6, <1>7, <1>8, <1>9, <1>10, <1>11, <1>12,
     <1>13, <1>14, <1>15, <1>16, Steps

\* The empty queue of a new player is in order.
LEMMA FlushStateInit == Init => FlushState
<1> SUFFICES ASSUME Init PROVE FlushState
  OBVIOUS
<1>1. FlushItem(0).gen = 0 /\ FlushItem(0).flush
  BY DEF FlushItem
<1>2. Linked = {1} /\ Current = FlushItem(0) /\ ListGen = 0 /\ item[1] = FlushItem(0)
  BY DEF Init, Linked, LinkedLast, Current, ListGen
<1> QED
  BY <1>1, <1>2 DEF Init, FlushState

\* The core invariant and the flush order, together.
LEMMA FlushInvariant == Spec => [](Core /\ FlushState)
  BY FlushStateInit, FlushStateStep, CoreInvariant, PTL DEF Spec

(***************************************************************************)
(* When queue_flush has returned, early or not, nothing that was put       *)
(* before the seek is left in a packet queue.                              *)
(***************************************************************************)
THEOREM FlushLeavesNothing == Spec => []NothingStale
<1>1. FlushState => NothingStale
  BY DEF FlushState, NothingStale, ListGen
<1> QED
  BY <1>1, FlushInvariant, PTL

(***************************************************************************)
(* A decoder takes flush_pkt before the first packet of another position,  *)
(* and never a packet of an earlier one.                                   *)
(***************************************************************************)
THEOREM FlushPktComesFirst == Spec => FlushPktFirst
<1> DEFINE A == got'.gen # got.gen /\ m_type = "QUEUE_PACKET" =>
                  got'.flush /\ got'.gen > got.gen
<1>1. Core /\ FlushState /\ [Next]_vars => [A]_vars
  <2> SUFFICES ASSUME Core, FlushState, Next PROVE A
    OBVIOUS
  <2>1. CASE GetSize
    BY <2>1 DEF GetSize, FlushState, Current, Core, TypeOK, ListState, Item
  <2>2. CASE ~GetSize
    <3>1. UNCHANGED got
      BY <2>2, Steps
         DEF PutLock, PutLink, PutLast, PutSize, ReadPacket, FlushCheck, FlushLock,
             FlushFree, PutFlushPkt, FrameDecoded, ChkQueue, FlushPktTaken, Drained,
             MarkSkip, ProducerExit, ConsumerLoop, GetLock, GetCheck, GetUnlink,
             GetWait, SpuriousWakeup, PeekSize, PeekLast, PeekRead, StopFlag,
             StopRequest, StopSignal, StopEnd, consumerVars
    <3> QED
      BY <3>1
  <2> QED
    BY <2>1, <2>2
<1> QED
  BY <1>1, FlushInvariant, PTL DEF Spec, FlushPktFirst
-----------------------------------------------------------------------------
(***************************************************************************)
(* The items of the cells a..b of a list, as a sequence.                   *)
(***************************************************************************)
Segment(f, a, b) == [i \in 1..(b - a + 1) |-> f[a + i - 1]]

\* Linking the next cell appends its item.
LEMMA SegmentAppend ==
  ASSUME NEW f, NEW a \in Nat, NEW b \in Nat, a < b
  PROVE  Append(Segment(f, a, b - 1), f[b]) = Segment(f, a, b)
<1> DEFINE S == {f[c] : c \in a..b}
           s == Segment(f, a, b - 1)
           n == b - a
<1>1. n \in Nat /\ b - 1 - a + 1 = n /\ b - a + 1 = n + 1
  OBVIOUS
<1>2. s = [i \in 1..n |-> f[a + i - 1]]
  BY <1>1, Zenon DEF Segment
<1>3. Segment(f, a, b) = [i \in 1..(n + 1) |-> f[a + i - 1]]
  BY <1>1, Zenon DEF Segment
<1>4. s \in Seq(S) /\ Len(s) = n
  BY <1>1, <1>2
<1>5. f[b] \in S /\ a + (n + 1) - 1 = b
  OBVIOUS
<1> HIDE DEF s, n
<1>6. Append(s, f[b]) = [i \in 1..(n + 1) |-> IF i = n + 1 THEN f[b] ELSE s[i]]
  BY <1>1, <1>4, <1>5
<1>7. \A i \in 1..(n + 1) :
        (IF i = n + 1 THEN f[b] ELSE s[i]) = f[a + i - 1]
  BY <1>1, <1>2, <1>5
<1>8. Append(s, f[b]) = [i \in 1..(n + 1) |-> f[a + i - 1]]
  BY <1>6, <1>7
<1> QED
  BY <1>3, <1>8 DEF s

\* Unlinking the first cell takes the head and leaves the tail.
LEMMA SegmentTail ==
  ASSUME NEW f, NEW a \in Nat, NEW b \in Nat, a <= b
  PROVE  /\ Segment(f, a, b) # <<>>
         /\ Head(Segment(f, a, b)) = f[a]
         /\ Tail(Segment(f, a, b)) = Segment(f, a + 1, b)
<1> DEFINE S == {f[c] : c \in a..b}
           s == Segment(f, a, b)
<1>1. s \in Seq(S) /\ Len(s) = b - a + 1 /\ s # <<>> /\ s[1] = f[a]
  BY DEF Segment
<1>2. Tail(s) = [i \in 1..(b - a) |-> f[a + 1 + i - 1]]
  BY <1>1 DEF Segment
<1>3. b - (a + 1) + 1 = b - a
  OBVIOUS
<1>4. Segment(f, a + 1, b) = [i \in 1..(b - a) |-> f[a + 1 + i - 1]]
  BY <1>3, Zenon DEF Segment
<1>5. Head(s) = f[a]
  BY <1>1
<1> QED
  BY <1>1, <1>2, <1>4, <1>5

\* The items of the list are a segment of what the cells carry.
LEMMA ContentsSegment ==
  m_first_pkt # NULL => Contents = Segment(item, m_first_pkt, LinkedLast)
  BY DEF Contents, Segment

\* The item being taken, as the abstract list sees it.
LEMMA TakenIsCurrent ==
  Current = (IF pcC = "get_size" THEN item[pkt1] ELSE got)
  BY DEF Current

\* put_queue's linking of the cell appends to the abstract list.
LEMMA PutRefines == Core /\ PutLink => Fifo!Put(item[cell])
<1> SUFFICES ASSUME Core, PutLink PROVE Fifo!Put(item[cell])
  OBVIOUS
<1> USE DEF Core, TypeOK, MutexHeld, ListWhole, ListState, LinkedLast, consumerVars
<1>1. UNCHANGED <<item, cell, got, pcC, pkt1>> /\ pcP = "put_link" /\ pcP' = "put_last"
  BY DEF PutLink
<1>2. LinkedLast' = cell
  BY <1>1
<1>3. CASE m_first_pkt = NULL
  <2>1. m_first_pkt' = cell
    BY <1>3 DEF PutLink, NoTail
  <2>2. Contents = <<>>
    BY <1>3 DEF Contents
  <2>3. Contents' = Segment(item, cell, cell)
    BY <1>1, <1>2, <2>1 DEF Contents, Segment
  <2>4. Segment(item, cell, cell) = <<item[cell]>>
    BY DEF Segment
  <2>5. Contents' = Append(Contents, item[cell])
    BY <2>2, <2>3, <2>4
  <2> QED
    BY <1>1, <2>5 DEF Fifo!Put
<1>4. CASE m_first_pkt # NULL
  <2>1. m_first_pkt' = m_first_pkt /\ LinkedLast = cell - 1 /\ m_first_pkt <= cell - 1
    BY <1>1, <1>4 DEF PutLink, NoTail
  <2>2. Contents = Segment(item, m_first_pkt, cell - 1)
    BY <1>4, <2>1, ContentsSegment
  <2>3. Contents' = Segment(item, m_first_pkt, cell)
    BY <1>1, <1>2, <1>4, <2>1 DEF Contents, Segment
  <2>4. Append(Segment(item, m_first_pkt, cell - 1), item[cell])
          = Segment(item, m_first_pkt, cell)
    <3>1. m_first_pkt \in Nat /\ cell \in Nat /\ m_first_pkt < cell
      BY <1>4, <2>1
    <3> HIDE DEF Core
    <3> QED
      BY <3>1, SegmentAppend
  <2> QED
    BY <1>1, <2>2, <2>3, <2>4 DEF Fifo!Put
<1> QED
  BY <1>3, <1>4

\* get_queue's unlinking of the first cell takes the oldest item.
LEMMA GetRefines == Core /\ GetUnlink => Fifo!Take
<1> SUFFICES ASSUME Core, GetUnlink PROVE Fifo!Take
  OBVIOUS
<1> USE DEF Core, TypeOK, MutexHeld, ListWhole, ListState, LinkedLast, producerVars
<1>1. /\ UNCHANGED <<item, pcP, cell>> /\ pcC' = "get_size" /\ pcP # "put_last"
      /\ pkt1' = m_first_pkt /\ m_first_pkt # NULL
      /\ m_first_pkt' = next[m_first_pkt] /\ LinkedLast = m_last_pkt
  BY DEF GetUnlink
<1>2. m_first_pkt \in Nat /\ m_last_pkt \in Nat /\ m_first_pkt <= m_last_pkt
  BY <1>1
<1>3. Contents = Segment(item, m_first_pkt, m_last_pkt)
  BY <1>1, ContentsSegment
<1>4. /\ Contents # <<>> /\ Head(Contents) = item[m_first_pkt]
      /\ Tail(Contents) = Segment(item, m_first_pkt + 1, m_last_pkt)
  <2> HIDE DEF Core
  <2> QED
    BY <1>2, <1>3, SegmentTail
<1>5. next[m_first_pkt] = IF m_first_pkt = m_last_pkt THEN NULL ELSE m_first_pkt + 1
  BY <1>1 DEF Linked
<1>6. Contents' = Segment(item, m_first_pkt + 1, m_last_pkt)
  <2>1. CASE m_first_pkt = m_last_pkt
    <3>1. m_first_pkt' = NULL
      BY <1>1, <1>5, <2>1
    <3>2. Segment(item, m_first_pkt + 1, m_last_pkt) = <<>>
      BY <1>2, <2>1 DEF Segment
    <3> QED
      BY <3>1, <3>2 DEF Contents
  <2>2. CASE m_first_pkt # m_last_pkt
    <3>1. m_first_pkt' = m_first_pkt + 1 /\ m_last_pkt' = m_last_pkt
      BY <1>1, <1>2, <1>5, <2>2 DEF GetUnlink, LastAfterGet
    <3>2. m_first_pkt' # NULL /\ LinkedLast' = m_last_pkt
      BY <1>1, <1>2, <3>1
    <3> QED
      BY <1>1, <3>1, <3>2 DEF Contents, Segment
  <2> QED
    BY <2>1, <2>2
<1> QED
  BY <1>1, <1>4, <1>6 DEF Fifo!Take

\* What leaves the cells of the list, and the item taken, alone is a stutter.
LEMMA SameList ==
  ASSUME UNCHANGED m_first_pkt, LinkedLast' = LinkedLast,
         m_first_pkt # NULL => m_first_pkt \in Nat /\ LinkedLast \in Nat,
         m_first_pkt # NULL =>
           \A c \in m_first_pkt..LinkedLast : item'[c] = item[c],
         Current' = Current
  PROVE  UNCHANGED Fifo!fifoVars
<1>1. CASE m_first_pkt = NULL
  BY <1>1 DEF Fifo!fifoVars, Contents, Current
<1>2. CASE m_first_pkt # NULL
  <2> DEFINE a == m_first_pkt
             b == LinkedLast
  <2>1. \A i \in 1..(b - a + 1) : item'[a + i - 1] = item[a + i - 1]
    BY <1>2
  <2>2. Contents' = [i \in 1..(b - a + 1) |-> item'[a + i - 1]]
    BY <1>2 DEF Contents
  <2>3. Contents = [i \in 1..(b - a + 1) |-> item[a + i - 1]]
    BY <1>2 DEF Contents
  <2>4. Contents' = Contents
    BY <2>1, <2>2, <2>3
  <2> QED
    BY <2>4 DEF Fifo!fifoVars, Current
<1> QED
  BY <1>1, <1>2

\* Every other step leaves the abstract list and the item taken alone.
LEMMA OthersStutter ==
  Core /\ [Next]_vars /\ ~PutLink /\ ~GetUnlink /\ ~FlushFree /\ ~StopEnd
    => UNCHANGED Fifo!fifoVars
<1> SUFFICES ASSUME Core, [Next]_vars, ~PutLink, ~GetUnlink, ~FlushFree, ~StopEnd
             PROVE  UNCHANGED Fifo!fifoVars
  OBVIOUS
<1> SUFFICES /\ UNCHANGED m_first_pkt /\ LinkedLast' = LinkedLast
             /\ m_first_pkt # NULL =>
                  \A c \in m_first_pkt..LinkedLast : item'[c] = item[c]
             /\ Current' = Current
  <2>1. m_first_pkt # NULL => m_first_pkt \in Nat /\ LinkedLast \in Nat
    BY DEF Core, TypeOK, LinkedLast
  <2> QED
    BY <2>1, SameList
<1> USE DEF Core, TypeOK, MutexHeld, ListWhole, ListState, LinkedLast, Current,
            queueVars, producerVars, consumerVars, stopVars
<1>1. CASE UNCHANGED vars
  BY <1>1 DEF vars
<1>2. CASE PutLock \/ PutLast \/ FlushLock
  BY <1>2 DEF PutLock, PutLast, FlushLock
<1>3. CASE PutSize
  BY <1>3 DEF PutSize, Signal
<1>4. CASE ReadPacket \/ PutFlushPkt \/ ChkQueue
  BY <1>4 DEF ReadPacket, PutFlushPkt, ChkQueue, PutAlloc
<1>5. CASE FlushCheck
  BY <1>5 DEF FlushCheck, AfterCheck
<1>6. CASE FrameDecoded \/ FlushPktTaken \/ Drained \/ MarkSkip \/ ProducerExit
  BY <1>6 DEF FrameDecoded, FlushPktTaken, Drained, MarkSkip, ProducerExit
<1>7. CASE ConsumerLoop \/ GetLock \/ GetCheck \/ GetSize \/ GetWait \/ SpuriousWakeup
  BY <1>7 DEF ConsumerLoop, GetLock, GetCheck, GetSize, GetWait, SpuriousWakeup
<1>8. CASE PeekSize \/ PeekLast \/ PeekRead
  BY <1>8 DEF PeekSize, PeekLast, PeekRead
<1>9. CASE StopFlag \/ StopRequest \/ StopSignal
  BY <1>9 DEF StopFlag, StopRequest, StopSignal, Signal
<1> QED
  BY <1>1, <1>2, <1>3, <1>4, <1>5, <1>6, <1>7, <1>8, <1>9, Steps

\* queue_flush, in a seek or in queue_end, clears the abstract list.
LEMMA FlushRefines == Core /\ (FlushFree \/ StopEnd) =>
                        Fifo!Clear \/ UNCHANGED Fifo!fifoVars
<1> SUFFICES ASSUME Core, FlushFree \/ StopEnd
             PROVE Fifo!Clear \/ UNCHANGED Fifo!fifoVars
  OBVIOUS
<1>1. CASE m_first_pkt' = NULL
  <2>1. UNCHANGED <<item, pkt1, got, pcC>>
    BY DEF FlushFree, StopEnd, consumerVars
  <2>2. Contents' = <<>>
    BY <1>1 DEF Contents
  <2> QED
    BY <2>1, <2>2 DEF Fifo!Clear
<1>2. CASE m_first_pkt' # NULL
  <2>1. /\ UNCHANGED <<m_first_pkt, m_last_pkt, m_size, item>>
        /\ UNCHANGED <<producerVars, consumerVars>>
    BY <1>2 DEF FlushFree, StopEnd, FreeList
  <2>2. UNCHANGED Contents /\ Current' = Current
    BY <2>1 DEF Contents, LinkedLast, Current, producerVars, consumerVars
  <2> QED
    BY <2>2 DEF Fifo!fifoVars, Current
<1> QED
  BY <1>1, <1>2

(***************************************************************************)
(* The av_queue implements the FIFO of FlushFifo: what the decoders and    *)
(* renderers take is what was put, in order, without loss or repetition.   *)
(***************************************************************************)
THEOREM RefinesFifo == Spec => ImplementsFifo
<1>1. Init => Fifo!Init
  <2> SUFFICES ASSUME Init PROVE Fifo!Init
    OBVIOUS
  <2>1. m_first_pkt = 1 /\ LinkedLast = 1 /\ item[1] = FlushItem(0) /\ Current = got
    BY DEF Init, LinkedLast, Current
  <2>2. Contents = [i \in 1..1 |-> item[1 + i - 1]]
    BY <2>1 DEF Contents
  <2>3. [i \in 1..1 |-> item[1 + i - 1]] = <<item[1]>>
    OBVIOUS
  <2> QED
    BY <2>1, <2>2, <2>3 DEF Init, Fifo!Init, Current
<1>2. Core /\ [Next]_vars => [Fifo!Next]_(Fifo!fifoVars)
  <2> SUFFICES ASSUME Core, [Next]_vars
               PROVE Fifo!Next \/ UNCHANGED Fifo!fifoVars
    OBVIOUS
  <2>1. CASE PutLink
    <3>1. item[cell] \in Item
      BY DEF Core, TypeOK
    <3> QED
      BY <2>1, <3>1, PutRefines DEF Fifo!Next
  <2>2. CASE GetUnlink
    BY <2>2, GetRefines DEF Fifo!Next
  <2>3. CASE FlushFree \/ StopEnd
    BY <2>3, FlushRefines DEF Fifo!Next
  <2> QED
    BY <2>1, <2>2, <2>3, OthersStutter
<1> QED
  BY <1>1, <1>2, CoreInvariant, PTL DEF Spec, ImplementsFifo, Fifo!Spec
-----------------------------------------------------------------------------
(***************************************************************************)
(* The links, the end of the list and m_size agree at every step.          *)
(***************************************************************************)
THEOREM ListStaysWhole == Spec => []ListWhole
<1>1. Core => ListWhole
  BY DEF Core
<1> QED
  BY <1>1, CoreInvariant, PTL

(***************************************************************************)
(* Once queue_end has run its threads are gone, and nothing puts any more. *)
(***************************************************************************)
CellsState ==
  /\ NoCellLeak
  /\ pcS = "ended" => pcP = "done" /\ pcC = "done"

LEMMA CellsStateStep == Core /\ CellsState /\ [Next]_vars => CellsState'
<1> SUFFICES ASSUME Core, CellsState, [Next]_vars PROVE CellsState'
  OBVIOUS
<1> USE DEF Core, TypeOK, MutexHeld, ListWhole, ListState, CellsState, NoCellLeak,
            Linked, LinkedLast, queueVars, producerVars, consumerVars, stopVars
<1>1. CASE UNCHANGED vars
  BY <1>1 DEF vars
<1>2. CASE PutLock \/ PutLast \/ FlushLock
  BY <1>2 DEF PutLock, PutLast, FlushLock
<1>3. CASE PutLink
  BY <1>3 DEF PutLink, NoTail
<1>4. CASE PutSize
  BY <1>4 DEF PutSize, Signal
<1>5. CASE ReadPacket \/ PutFlushPkt \/ ChkQueue
  BY <1>5 DEF ReadPacket, PutFlushPkt, ChkQueue, PutAlloc
<1>6. CASE FlushCheck
  BY <1>6 DEF FlushCheck, AfterCheck
<1>7. CASE FlushFree
  BY <1>7 DEF FlushFree, FreeList, Freed
<1>8. CASE FrameDecoded \/ FlushPktTaken \/ Drained \/ MarkSkip \/ ProducerExit
  BY <1>8 DEF FrameDecoded, FlushPktTaken, Drained, MarkSkip, ProducerExit
<1>9. CASE ConsumerLoop \/ GetLock \/ GetCheck \/ GetWait \/ SpuriousWakeup
  BY <1>9 DEF ConsumerLoop, GetLock, GetCheck, GetWait, SpuriousWakeup
<1>10. CASE GetUnlink
  BY <1>10 DEF GetUnlink, LastAfterGet
<1>11. CASE GetSize
  BY <1>11 DEF GetSize
<1>12. CASE PeekSize \/ PeekLast \/ PeekRead
  BY <1>12 DEF PeekSize, PeekLast, PeekRead
<1>13. CASE StopFlag \/ StopRequest \/ StopSignal
  BY <1>13 DEF StopFlag, StopRequest, StopSignal, Signal
<1>14. CASE StopEnd
  BY <1>14 DEF StopEnd, FreeList, Freed
<1> QED
  BY <1>1, <1>2, <1>3, <1>4, <1>5, <1>6, <1>7, <1>8, <1>9, <1>10, <1>11, <1>12,
     <1>13, <1>14, Steps

(***************************************************************************)
(* Every allocated cell is in the list or in the hands of the thread that  *)
(* has just allocated or unlinked it, and after queue_end there is none.   *)
(***************************************************************************)
THEOREM CellsAccountedFor == Spec => []NoCellLeak
<1>1. Init => CellsState
  BY DEF Init, CellsState, NoCellLeak, Linked, LinkedLast
<1>2. CellsState => NoCellLeak
  BY DEF CellsState
<1> QED
  BY <1>1, <1>2, CellsStateStep, CoreInvariant, PTL DEF Spec

(***************************************************************************)
(* The decoder puts a frame only after it has marked what was left of the  *)
(* position before; what it marks, unless it was told to stop, is nothing. *)
(***************************************************************************)
DrainState ==
  m_type = "QUEUE_AVFRAME" =>
    /\ pcP \notin {"flush_lock", "flush_free", "put_flush"}
    /\ skip \subseteq 1..cell
    /\ abort_request \/ /\ skip \cap live = {}
                        /\ \A c \in Linked : item[c].gen = gen
                        /\ pcP \in {"put_lock", "put_link", "put_last"} => item[cell].gen = gen
                        /\ pcP = "mark" => m_first_pkt = NULL

LEMMA DrainStateStep == Core /\ DrainState /\ [Next]_vars => DrainState'
<1> SUFFICES ASSUME Core, DrainState, [Next]_vars, m_type = "QUEUE_AVFRAME"
             PROVE  DrainState'
  BY SameType DEF DrainState
<1> USE DEF Core, TypeOK, MutexHeld, ListWhole, ListState, DrainState,
            Linked, LinkedLast, queueVars, producerVars, consumerVars, stopVars
<1>1. CASE UNCHANGED vars
  BY <1>1 DEF vars
<1>2. CASE PutLock \/ PutLast \/ FlushLock
  BY <1>2 DEF PutLock, PutLast, FlushLock
<1>3. CASE PutLink
  BY <1>3 DEF PutLink, NoTail
<1>4. CASE PutSize
  BY <1>4 DEF PutSize, Signal
<1>5. CASE ReadPacket \/ PutFlushPkt \/ FlushCheck \/ FlushFree
  BY <1>5 DEF ReadPacket, PutFlushPkt, FlushCheck, Flushes, FlushFree
<1>6. CASE ChkQueue
  <2>1. item'[cell'] = DataItem(gen) /\ \A c \in 1..cell : item'[c] = item[c]
    BY <1>6 DEF ChkQueue, PutAlloc
  <2>2. Linked' = Linked /\ Linked \subseteq 1..cell
    BY <1>6 DEF ChkQueue, PutAlloc
  <2>3. live' = live \cup {cell + 1} /\ cell' = cell + 1 /\ skip' = skip /\ gen' = gen
    BY <1>6 DEF ChkQueue, PutAlloc
  <2>4. pcP' = "put_lock" /\ abort_request' = abort_request
    BY <1>6 DEF ChkQueue, PutAlloc
  <2>5. pcP \notin {"flush_lock", "flush_free", "put_flush"}
    BY <1>6 DEF ChkQueue
  <2>6. skip' \subseteq 1..cell' /\ (skip \cap live = {} => skip' \cap live' = {})
    BY <2>3
  <2>7. (\A c \in Linked : item[c].gen = gen) => \A c \in Linked' : item'[c].gen = gen'
    BY <2>1, <2>2, <2>3
  <2>8. item'[cell'].gen = gen'
    BY <2>1, <2>3 DEF DataItem
  <2> HIDE DEF Linked, LinkedLast, ListWhole, ListState, MutexHeld, Core, TypeOK
  <2> QED
    BY <2>4, <2>5, <2>6, <2>7, <2>8
<1>7. CASE FrameDecoded \/ FlushPktTaken \/ ProducerExit
  BY <1>7 DEF FrameDecoded, FlushPktTaken, ProducerExit
<1>8. CASE Drained
  BY <1>8 DEF Drained, DrainWaitOver
<1>9. CASE MarkSkip
  BY <1>9 DEF MarkSkip
<1>10. CASE ConsumerLoop \/ GetLock \/ GetCheck \/ GetWait \/ SpuriousWakeup
  BY <1>10 DEF ConsumerLoop, GetLock, GetCheck, GetWait, SpuriousWakeup
<1>11. CASE GetUnlink
  BY <1>11 DEF GetUnlink, LastAfterGet
<1>12. CASE GetSize
  BY <1>12 DEF GetSize
<1>13. CASE PeekSize \/ PeekLast \/ PeekRead
  BY <1>13 DEF PeekSize, PeekLast, PeekRead
<1>14. CASE StopFlag \/ StopRequest \/ StopSignal
  BY <1>14 DEF StopFlag, StopRequest, StopSignal, Signal
<1>15. CASE StopEnd
  BY <1>15 DEF StopEnd, FreeList, Freed
<1> QED
  BY <1>1, <1>2, <1>3, <1>4, <1>5, <1>6, <1>7, <1>8, <1>9, <1>10, <1>11, <1>12,
     <1>13, <1>14, <1>15, Steps

(***************************************************************************)
(* Frames of two positions never meet in a frame queue, unless av_stop was *)
(* called while the decoder waited for it to be drained.                   *)
(***************************************************************************)
THEOREM DrainsBetweenPositions == Spec => []DrainSeparates
<1>1. Init => DrainState
  BY DEF Init, DrainState, FlushItem, Linked, LinkedLast
<1>2. Core /\ DrainState => DrainSeparates
  BY DEF Core, TypeOK, ListWhole, DrainState, DrainSeparates, Linked, LinkedLast
<1> QED
  BY <1>1, <1>2, DrainStateStep, CoreInvariant, PTL DEF Spec
=============================================================================
