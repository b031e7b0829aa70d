--------------------------- MODULE PipelineProofs ---------------------------
(***************************************************************************)
(* Proofs about Pipeline, for any media, any queue and buffer size, any    *)
(* number of seeks and pauses, with or without a stop.  An inductive       *)
(* invariant relates what is in the queues, in the hands of the three      *)
(* kinds of threads and in the packet account; each of its parts is named, *)
(* and preserved by a lemma of its own, before Inv puts them together.     *)
(***************************************************************************)
EXTENDS Pipeline, FiniteSetTheorems, SequenceTheorems, TLAPS

\* The types of the variables, in parts: flags, places of the threads, counters,
\* numbers per stream, frames and packets.
FlagTypes ==
  /\ m_rendering \in BOOLEAN /\ m_seek_req \in BOOLEAN
  /\ m_abort \in BOOLEAN /\ abort_request \in BOOLEAN /\ lost \in BOOLEAN

PlaceTypes ==
  /\ m_play_status \in {"inited", "playing", "paused", "completed", "stoped"}
  /\ m_seeking \in {SEEKING, NOSEEKING, PENDING}
  /\ pcR \in {"start", "top", "flush", "reset", "seek_packet", "full", "account",
              "put", "eof", "exit"}
  /\ hand \in Streams \cup {"none"}
  /\ pcD \in [Streams -> {"loop", "get", "drain", "lock", "sub", "decode",
                          "chk", "put", "exit"}]
  /\ pcV \in [Streams -> {"loop", "get", "init", "show", "assert", "hold", "exit"}]
  /\ ready \in [Streams -> {"no", "yes", "failed"}]
  /\ pcU \in {"starting", "ui", "pausing", "pause", "request", "join", "stopped"}

CountTypes ==
  /\ m_pkt_buffer_size \in Int /\ loaded \in Int
  /\ chk \in 1..4 /\ gen \in Nat
  /\ seeks \in 0..MaxSeeks /\ pauses \in 0..MaxPauses

NumberTypes ==
  /\ left \in [Streams -> Nat]
  /\ frames \in [Streams -> 0..MaxFrames]
  /\ stale \in [Streams -> Nat] /\ late \in [Streams -> Nat]

FrameTypes ==
  /\ q \in [Streams -> Seq(Frame)] /\ dq \in [Streams -> Seq(Frame)]
  /\ pkt \in [Streams -> Frame] /\ frm \in [Streams -> Frame]

Types == FlagTypes /\ PlaceTypes /\ CountTypes /\ NumberTypes /\ FrameTypes

\* The initial values have the types.
LEMMA InitTypes == Init => Types
  <1> SUFFICES ASSUME Init PROVE Types
    OBVIOUS
  <1>1. FlagTypes
    BY DEF Init, FlagTypes
  <1>2. PlaceTypes
    BY DEF Init, PlaceTypes, NOSEEKING
  <1>3. NumberTypes
    BY BoundsAssumption DEF Init, NumberTypes
  <1>5. CountTypes
    BY BoundsAssumption DEF Init, CountTypes
  <1>4. FrameTypes
    BY BoundsAssumption DEF Init, FrameTypes, Frame, FLUSH, NONE
  <1> QED
    BY <1>1, <1>2, <1>3, <1>4, <1>5 DEF Types

\* Every step keeps the flags flags.
LEMMA FlagStep == FlagTypes /\ [Next]_vars => FlagTypes'
  <1> SUFFICES ASSUME FlagTypes, [Next]_vars PROVE FlagTypes'
    OBVIOUS
  <1> USE DEF FlagTypes
  <1>1. CASE Reader
    BY <1>1 DEF Reader, ReadStart, ReadExit, ReadTop, ReadFlush, ReadReset, ReadSeekPacket,
         ReadPacket, ReadAccount, ReadPut, ReadEof, ReadEofCheck, AvSeek, control,
         history
  <1>2. ASSUME NEW s \in Streams, Decoder(s) PROVE FlagTypes'
    BY <1>2 DEF Decoder, DecLoop, DecGet, DecDrain, DecLoad, DecStore, DecDone,
         DecFrame, DecChk, DecPut, control, history
  <1>3. ASSUME NEW s \in Streams, Renderer(s) PROVE FlagTypes'
    BY <1>3 DEF Renderer, RenLoop, RenGet, RenInit, RenShow, RenDrop, RenAssert,
         RenSkipRest, RenRelease, Shown, control, history
  <1>4. CASE User
    BY <1>4 DEF User, Started, Pause, PauseSeen, PauseSet, Resume, Seek, StopFlag,
         StopRequest, StopRelease, AvSeek, control, history
  <1>5. CASE UNCHANGED vars
    BY <1>5 DEF vars, control, history
  <1> QED
    BY <1>1, <1>2, <1>3, <1>4, <1>5 DEF Next

\* No thread leaves the places of its loop.
LEMMA PlaceStep == PlaceTypes /\ [Next]_vars => PlaceTypes'
  <1> SUFFICES ASSUME PlaceTypes, [Next]_vars PROVE PlaceTypes'
    OBVIOUS
  <1> USE StreamsAssumption DEF PlaceTypes, AllStreams, SEEKING, NOSEEKING, PENDING
  <1>1. CASE Reader
    BY <1>1 DEF Reader, ReadStart, ReadExit, ReadTop, ReadFlush, ReadReset, ReadSeekPacket,
         ReadPacket, ReadAccount, ReadPut, ReadEof, ReadEofCheck, AvSeek, FirstFlushed,
         control, decoder, renderer, user
  <1>2. ASSUME NEW s \in Streams, Decoder(s) PROVE PlaceTypes'
    BY <1>2 DEF Decoder, DecLoop, DecGet, DecDrain, DecLoad, DecStore, DecDone,
         DecFrame, DecChk, DecPut, control, reader, renderer, user
  <1>3. ASSUME NEW s \in Streams, Renderer(s) PROVE PlaceTypes'
    BY <1>3 DEF Renderer, RenLoop, RenGet, RenInit, RenShow, RenDrop, RenAssert,
         RenSkipRest, RenRelease, SeekEnds, AfterInit, control, reader, decoder, user
  <1>4. CASE User
    BY <1>4 DEF User, Started, Pause, PauseSeen, PauseSet, Resume, Seek, StopFlag,
         StopRequest, StopRelease, AvSeek, control, reader, decoder, renderer, user
  <1>5. CASE UNCHANGED vars
    BY <1>5 DEF vars, control, reader, decoder, renderer, user
  <1> QED
    BY <1>1, <1>2, <1>3, <1>4, <1>5 DEF Next

\* The counters stay numbers; the calls stay within their bounds.
LEMMA CountStep ==
  CountTypes /\ [Next]_vars => CountTypes'
  <1> SUFFICES ASSUME CountTypes, [Next]_vars PROVE CountTypes'
    OBVIOUS
  <1> USE BoundsAssumption DEF CountTypes
  <1>1. CASE Reader
    BY <1>1 DEF Reader, ReadStart, ReadExit, ReadTop, ReadFlush, ReadReset, ReadSeekPacket,
         ReadPacket, ReadAccount, ReadPut, ReadEof, ReadEofCheck, Added, Size,
         buffer, decoder, user, history
  <1>2. ASSUME NEW s \in Streams, Decoder(s) PROVE CountTypes'
    BY <1>2 DEF Decoder, DecLoop, DecGet, DecDrain, DecLoad, DecStore, DecDone,
         DecFrame, DecChk, DecPut, Subtracted, Size, buffer, reader, user, history
  <1>3. ASSUME NEW s \in Streams, Renderer(s) PROVE CountTypes'
    BY <1>3 DEF Renderer, RenLoop, RenGet, RenInit, RenShow, RenDrop, RenAssert,
         RenSkipRest, RenRelease, Shown, buffer, reader, decoder, user, history
  <1>4. CASE User
    BY <1>4 DEF User, Started, Pause, PauseSeen, PauseSet, Resume, Seek, StopFlag,
         StopRequest, StopRelease, buffer, reader, decoder, user, history
  <1>5. CASE UNCHANGED vars
    BY <1>5 DEF vars, buffer, reader, decoder, user, history
  <1> QED
    BY <1>1, <1>2, <1>3, <1>4, <1>5 DEF Next

\* What is counted per stream stays a number.
LEMMA NumberStep ==
  NumberTypes /\ [Next]_vars => NumberTypes'
  <1> SUFFICES ASSUME NumberTypes, [Next]_vars PROVE NumberTypes'
    OBVIOUS
  <1> USE BoundsAssumption DEF NumberTypes
  <1>1. CASE UNCHANGED <<left, frames, stale, late>>
    BY <1>1
  <1>2. CASE ReadFlush
    BY <1>2 DEF ReadFlush, decoder
  <1>3. CASE ReadSeekPacket
    BY <1>3 DEF ReadSeekPacket, decoder, history
  <1>4. CASE ReadPacket
    <2>1. PICK s \in Streams : left[s] > 0 /\ left' = [left EXCEPT ![s] = @ - 1]
      BY <1>4 DEF ReadPacket
    <2>2. left[s] - 1 \in Nat
      BY <2>1
    <2> QED
      BY <1>4, <2>1, <2>2 DEF ReadPacket, decoder, history
  <1>5. ASSUME NEW s \in Streams, DecDone(s) PROVE NumberTypes'
    BY <1>5 DEF DecDone, reader, history
  <1>6. ASSUME NEW s \in Streams, DecFrame(s) PROVE NumberTypes'
    <2>1. frames[s] + 1 \in 0..MaxFrames
      BY <1>6 DEF DecFrame
    <2> QED
      BY <1>6, <2>1 DEF DecFrame, reader, history
  <1>7. ASSUME NEW s \in Streams, RenShow(s) PROVE NumberTypes'
    <2>1. CASE UNCHANGED history
      BY <1>7, <2>1 DEF RenShow, reader, decoder, history
    <2>2. CASE Shown(s)
      <3>1. /\ stale[s] + (IF frm[s].gen < gen THEN 1 ELSE 0) \in Nat
            /\ late[s] + (IF m_play_status = "paused" THEN 1 ELSE 0) \in Nat
        OBVIOUS
      <3>2. stale' \in [Streams -> Nat] /\ late' \in [Streams -> Nat]
        BY <2>2, <3>1 DEF Shown
      <3> QED
        BY <1>7, <3>2 DEF RenShow, reader, decoder
    <2> QED
      BY <1>7, <2>1, <2>2 DEF RenShow
  <1>8. CASE PauseSet \/ Resume
    BY <1>8 DEF PauseSet, Resume, reader, decoder
  <1> QED
    BY <1>1, <1>2, <1>3, <1>4, <1>5, <1>6, <1>7, <1>8
    DEF Next, vars, reader, decoder, history,
        Reader, ReadStart, ReadExit, ReadTop, ReadReset, ReadAccount, ReadPut, ReadEof,
        ReadEofCheck, Decoder, DecLoop, DecGet, DecDrain, DecLoad, DecStore, DecChk,
        DecPut, Renderer, RenLoop, RenGet, RenInit, RenDrop, RenAssert, RenSkipRest,
        RenRelease, User, Started, Pause, PauseSeen, Seek, StopFlag, StopRequest,
        StopRelease

-----------------------------------------------------------------------------
(***************************************************************************)
(* What av_stop has done so far: the request is made after the abort flag  *)
(* is set, a thread ends only when it is, and av_stop returns when all     *)
(* have ended.                                                             *)
(***************************************************************************)
AbortInv ==
  /\ abort_request => m_abort
  /\ m_abort <=> pcU \in {"request", "join", "stopped"}
  /\ pcU = "stopped" => ThreadsExited
  /\ \A s \in Streams : pcD[s] = "exit" \/ pcV[s] = "exit" => m_abort

Seeking == pcR \in {"flush", "reset", "seek_packet"}

(***************************************************************************)
(* The positions that were sought and not yet reached are within the calls *)
(* of av_seek: gen never overtakes seeks, and the reader is in the body of *)
(* a seek only while one is asked for.                                     *)
(***************************************************************************)
SeekInv ==
  /\ Seeking => m_seek_req
  /\ pcR \in {"flush", "account", "put"} => hand \in Streams
  /\ gen + (IF m_seek_req /\ ~Seeking THEN 1 ELSE 0) + (IF m_seeking = PENDING THEN 1 ELSE 0)
       <= seeks + (IF pcR = "start" THEN 0 ELSE 1)

\* av_stop's order is kept by every step: nothing takes the abort back.
LEMMA AbortStep ==
  FlagTypes /\ PlaceTypes /\ AbortInv /\ [Next]_vars => AbortInv'
  <1> SUFFICES ASSUME FlagTypes, PlaceTypes, AbortInv, [Next]_vars PROVE AbortInv'
    OBVIOUS
  <1> USE DEF FlagTypes, PlaceTypes, AbortInv, ThreadsExited
  <1>1. CASE Reader
    <2>1. pcR # "exit"
      BY <1>1 DEF Reader, ReadStart, ReadExit, ReadTop, ReadFlush, ReadReset,
           ReadSeekPacket, ReadPacket, ReadAccount, ReadPut, ReadEof, ReadEofCheck, HasRoom
    <2>2. UNCHANGED <<m_abort, abort_request, pcD, pcV, pcU>>
      BY <1>1 DEF Reader, ReadStart, ReadExit, ReadTop, ReadFlush, ReadReset, ReadSeekPacket,
           ReadPacket, ReadAccount, ReadPut, ReadEof, ReadEofCheck, control, decoder,
           renderer, user
    <2> QED
      BY <2>1, <2>2
  <1>2. ASSUME NEW s \in Streams, Decoder(s) PROVE AbortInv'
    BY <1>2 DEF Decoder, DecLoop, DecGet, DecDrain, DecLoad, DecStore, DecDone,
         DecFrame, DecChk, DecPut, control, reader, renderer, user
  <1>3. ASSUME NEW s \in Streams, Renderer(s) PROVE AbortInv'
    BY <1>3 DEF Renderer, RenLoop, RenGet, RenInit, RenShow, RenDrop, RenAssert,
         RenSkipRest, RenRelease, AfterInit, control, reader, decoder, user
  <1>4. CASE User
    BY <1>4 DEF User, Started, Pause, PauseSeen, PauseSet, Resume, Seek, StopFlag,
         StopRequest, StopRelease, AvSeek, control, reader, decoder, renderer, user
  <1>5. CASE UNCHANGED vars
    BY <1>5 DEF vars, control, reader, decoder, renderer, user
  <1> QED
    BY <1>1, <1>2, <1>3, <1>4, <1>5 DEF Next

\* Only av_seek raises a request, and only the reader takes it.
LEMMA SeekStep ==
  FlagTypes /\ PlaceTypes /\ CountTypes /\ SeekInv /\ [Next]_vars => SeekInv'
  <1> SUFFICES ASSUME FlagTypes, PlaceTypes, CountTypes, SeekInv, [Next]_vars
               PROVE SeekInv'
    OBVIOUS
  <1> USE BoundsAssumption
      DEF FlagTypes, PlaceTypes, CountTypes, SeekInv, Seeking, SEEKING, NOSEEKING, PENDING
  <1>1. CASE Reader
    <2>1. CASE ReadStart
      BY <2>1 DEF ReadStart, AvSeek, user
    <2>2. CASE ReadTop
      <3>1. FirstFlushed \in Streams
        BY StreamsAssumption DEF FirstFlushed, AllStreams
      <3> QED
        BY <2>2, <3>1 DEF ReadTop, AvSeek, user
    <2>3. CASE ReadFlush
      BY <2>3 DEF ReadFlush, control, user
    <2>4. CASE ReadExit \/ ReadReset \/ ReadEof
      BY <2>4 DEF ReadExit, ReadReset, ReadEof, HasRoom, control, user
    <2>5. CASE ReadSeekPacket
      BY <2>5 DEF ReadSeekPacket, user
    <2>6. CASE ReadPacket
      BY <2>6 DEF ReadPacket, HasRoom, user
    <2>7. CASE ReadAccount \/ ReadPut
      BY <2>7 DEF ReadAccount, ReadPut, control, user
    <2>8. CASE ReadEofCheck
      BY <2>8 DEF ReadEofCheck, user
    <2> QED
      BY <1>1, <2>1, <2>2, <2>3, <2>4, <2>5, <2>6, <2>7, <2>8 DEF Reader
  <1>2. CASE UNCHANGED <<m_seek_req, reader, seeks>> /\ (UNCHANGED m_seeking \/ SeekEnds)
    BY <1>2 DEF SeekEnds, reader
  <1>3. CASE Seek
    BY <1>3 DEF Seek, AvSeek, reader
  <1> QED
    BY <1>1, <1>2, <1>3
    DEF Next, vars, control, user, Decoder, DecLoop, DecGet, DecDrain, DecLoad, DecStore, DecDone,
        DecFrame, DecChk, DecPut, Renderer, RenLoop, RenGet, RenInit, RenShow, RenDrop,
        RenAssert, RenSkipRest, RenRelease, User, Started, Pause, PauseSeen, PauseSet,
        Resume, StopFlag, StopRequest, StopRelease

\* What DecDrain makes of the frames that are left in a frame queue.
Marked(x) == [i \in DOMAIN x |-> [x[i] EXCEPT !.skip = TRUE]]

\* Marking the frames of a queue changes nothing but their mark.
LEMMA MarkedFrames ==
  ASSUME NEW x \in Seq(Frame)
  PROVE  /\ Marked(x) \in Seq(Frame) /\ Len(Marked(x)) = Len(x)
         /\ \A i \in 1..Len(x) : Marked(x)[i].gen = x[i].gen
  <1>1. x \in [1..Len(x) -> Frame] /\ Len(x) \in Nat
    BY LenProperties
  <1>2. Marked(x) \in [1..Len(x) -> Frame]
    BY <1>1 DEF Marked, Frame
  <1>3. Marked(x) \in Seq(Frame)
    BY <1>1, <1>2, SeqDef
  <1>4. Len(Marked(x)) = Len(x)
    BY <1>1, <1>2, <1>3, LenProperties
  <1>5. \A i \in 1..Len(x) : Marked(x)[i].gen = x[i].gen
    BY <1>1 DEF Marked, Frame
  <1> QED
    BY <1>3, <1>4, <1>5

\* Queues and hands hold nothing but frames.
LEMMA FrameStep ==
  CountTypes /\ PlaceTypes /\ FlagTypes /\ SeekInv /\ FrameTypes /\ [Next]_vars => FrameTypes'
  <1> SUFFICES ASSUME CountTypes, PlaceTypes, FlagTypes, SeekInv, FrameTypes, [Next]_vars
               PROVE FrameTypes'
    OBVIOUS
  <1> USE DEF FrameTypes
  <1>1. CASE UNCHANGED <<q, dq, pkt, frm>>
    BY <1>1
  <1>2. FLUSH \in Frame
    BY BoundsAssumption DEF FLUSH, Frame
  <1>3. CASE ReadFlush
    <2>1. <<FLUSH>> \in Seq(Frame)
      BY <1>2
    <2>2. q' \in [Streams -> Seq(Frame)]
      BY <1>3, <2>1 DEF ReadFlush, Flushed
    <2> QED
      BY <1>3, <2>2 DEF ReadFlush, decoder, renderer
  <1>4. CASE ReadPut
    <2>1. gen \in 0..(MaxSeeks + 1)
      BY BoundsAssumption DEF CountTypes, SeekInv
    <2>2. Data(gen) \in Frame
      BY <2>1 DEF Data, Frame
    <2>3. Append(q[hand], Data(gen)) \in Seq(Frame)
      BY <1>4, <2>2 DEF ReadPut, SeekInv
    <2>4. q' \in [Streams -> Seq(Frame)]
      BY <1>4, <2>3 DEF ReadPut
    <2> QED
      BY <1>4, <2>4 DEF ReadPut, decoder, renderer
  <1>5. ASSUME NEW s \in Streams, DecGet(s) PROVE FrameTypes'
    <2>1. CASE q[s] # <<>>
      <3>1. Head(q[s]) \in Frame /\ Tail(q[s]) \in Seq(Frame)
        BY <2>1
      <3>2. q' \in [Streams -> Seq(Frame)] /\ pkt' \in [Streams -> Frame]
        BY <1>5, <3>1 DEF DecGet
      <3> QED
        BY <1>5, <3>2 DEF DecGet, renderer
    <2> QED
      BY <1>5, <2>1 DEF DecGet, renderer
  <1>6. ASSUME NEW s \in Streams, DecDrain(s) PROVE FrameTypes'
    <2>1. Marked(dq[s]) \in Seq(Frame)
      BY MarkedFrames
    <2>2. dq' \in [Streams -> Seq(Frame)]
      BY <1>6, <2>1 DEF DecDrain, Marked
    <2> QED
      BY <1>6, <2>2 DEF DecDrain, renderer
  <1>7. ASSUME NEW s \in Streams, DecDone(s) PROVE FrameTypes'
    BY <1>2, <1>7 DEF DecDone, NONE, renderer
  <1>8. ASSUME NEW s \in Streams, DecPut(s) PROVE FrameTypes'
    BY <1>8 DEF DecPut, renderer
  <1>9. ASSUME NEW s \in Streams, RenGet(s) PROVE FrameTypes'
    <2>1. CASE dq[s] # <<>>
      <3>1. Head(dq[s]) \in Frame /\ Tail(dq[s]) \in Seq(Frame)
        BY <2>1
      <3>2. dq' \in [Streams -> Seq(Frame)] /\ frm' \in [Streams -> Frame]
        BY <1>9, <3>1 DEF RenGet
      <3> QED
        BY <1>9, <3>2 DEF RenGet, decoder
    <2> QED
      BY <1>9, <2>1 DEF RenGet, decoder
  <1>10. CASE UNCHANGED <<q, dq, pkt>> /\ \E s \in Streams : FrameDone(s)
    BY <1>2, <1>10 DEF FrameDone, NONE
  <1>11. CASE StopRelease
    BY <1>11 DEF StopRelease, decoder, renderer
  <1> QED
    BY <1>1, <1>3, <1>4, <1>5, <1>6, <1>7, <1>8, <1>9, <1>10, <1>11
    DEF Next, vars, decoder, renderer, Reader, ReadStart, ReadExit, ReadTop, ReadReset,
        ReadSeekPacket, ReadPacket, ReadAccount, ReadEof, ReadEofCheck, Decoder, DecLoop,
        DecLoad, DecStore, DecFrame, DecChk, Renderer, RenLoop, RenInit, RenShow, RenDrop,
        RenAssert, RenSkipRest, RenRelease, User, Started, Pause, PauseSeen, PauseSet,
        Resume, Seek, StopFlag, StopRequest

-----------------------------------------------------------------------------
\* The frames that a packet of the stream may give.
FramesOf(s) == IF s = "audio" THEN MaxFrames ELSE 1

(***************************************************************************)
(* The frames of a packet, and the room of the frame queue: a decoder that *)
(* is about to put saw room, which only its renderer can change; after the *)
(* abort the room is no longer waited for.                                 *)
(***************************************************************************)
DecoderInv(s) ==
  /\ frames[s] <= FramesOf(s)
  /\ pcD[s] \notin {"decode", "chk", "put"} => frames[s] = 0
  /\ pcD[s] \in {"chk", "put"} => frames[s] >= 1
  /\ pcD[s] = "put" => Len(dq[s]) <= DqSize + (IF m_abort THEN 0 ELSE -1)
  /\ Len(dq[s]) <= DqSize + (IF m_abort THEN 1 ELSE 0)
  /\ Len(dq[s]) > DqSize =>
       pcD[s] \in {"loop", "exit"} \/ (pcD[s] = "decode" /\ frames[s] >= 1)

\* A decoder's packet gives no more frames than its kind allows, and finds room for them.
LEMMA DecoderStep ==
  ASSUME Types, AbortInv, [Next]_vars, NEW s \in Streams, DecoderInv(s)
  PROVE  DecoderInv(s)'
  <1> USE BoundsAssumption
      DEF Types, FlagTypes, PlaceTypes, NumberTypes, FrameTypes, AbortInv, DecoderInv,
          FramesOf
  <1>1. CASE UNCHANGED <<m_abort, dq, decoder>>
    BY <1>1 DEF decoder
  <1>2. ASSUME NEW t \in Streams, Decoder(t), t # s PROVE DecoderInv(s)'
    <2>1. dq'[s] = dq[s] /\ pcD'[s] = pcD[s] /\ frames'[s] = frames[s] /\ m_abort' = m_abort
      BY <1>2 DEF Decoder, DecLoop, DecGet, DecDrain, DecLoad, DecStore, DecDone,
           DecFrame, DecChk, DecPut, control
    <2> QED
      BY <2>1
  <1>3. CASE DecLoop(s)
    BY <1>3 DEF DecLoop, control
  <1>4. CASE DecGet(s)
    BY <1>4 DEF DecGet, control
  <1>5. CASE DecDrain(s)
    <2>1. Len(Marked(dq[s])) = Len(dq[s])
      BY MarkedFrames
    <2>2. dq'[s] = Marked(dq[s])
      BY <1>5 DEF DecDrain, Marked
    <2> QED
      BY <1>5, <2>1, <2>2 DEF DecDrain, control
  <1>6. CASE DecLoad(s) \/ DecStore(s) \/ DecDone(s)
    BY <1>6 DEF DecLoad, DecStore, DecDone, control
  <1>7. CASE DecFrame(s)
    BY <1>7 DEF DecFrame, control
  <1>8. CASE DecChk(s)
    BY <1>8 DEF DecChk, DqRoom, control
  <1>9. CASE DecPut(s)
    <2>1. dq'[s] = Append(dq[s], pkt[s]) /\ Len(dq'[s]) = Len(dq[s]) + 1
      BY <1>9 DEF DecPut
    <2> QED
      BY <1>9, <2>1 DEF DecPut, control
  <1>10. ASSUME NEW t \in Streams, RenGet(t) PROVE DecoderInv(s)'
    <2>1. CASE abort_request \/ t # s
      <3>1. dq'[s] = dq[s]
        BY <1>10, <2>1 DEF RenGet
      <3> QED
        BY <1>10, <3>1 DEF RenGet, decoder
    <2>2. CASE ~abort_request /\ t = s
      <3>1. dq'[s] = Tail(dq[s]) /\ dq[s] # <<>>
        BY <1>10, <2>2 DEF RenGet
      <3>2. Len(dq'[s]) = Len(dq[s]) - 1 /\ Len(dq[s]) \in Nat
        BY <3>1
      <3>3. m_abort' = m_abort /\ pcD'[s] = pcD[s] /\ frames'[s] = frames[s]
        BY <1>10 DEF RenGet, decoder
      <3> QED
        BY <3>2, <3>3, SMTT(60)
    <2> QED
      BY <2>1, <2>2
  <1>11. CASE StopFlag
    BY <1>11 DEF StopFlag, decoder
  <1>12. CASE StopRelease
    BY <1>12 DEF StopRelease, decoder
  <1> QED
    BY <1>1, <1>2, <1>3, <1>4, <1>5, <1>6, <1>7, <1>8, <1>9, <1>10, <1>11, <1>12
    DEF Next, vars, control, Reader, ReadStart, ReadExit, ReadTop, ReadFlush, ReadReset,
        ReadSeekPacket, ReadPacket, ReadAccount, ReadPut, ReadEof, ReadEofCheck, Decoder,
        Renderer, RenLoop, RenInit, RenShow, RenDrop, RenAssert, RenSkipRest, RenRelease,
        User, Started, Pause, PauseSeen, PauseSet, Resume, Seek, StopRequest

-----------------------------------------------------------------------------
(***************************************************************************)
(* A flush marker is the first entry of its queue, and every packet of a   *)
(* queue that the reader need not flush any more was read at the current   *)
(* position.                                                               *)
(***************************************************************************)
QueueInv(s) ==
  /\ \A i \in 1..Len(q[s]) : q[s][i].flush => i = 1
  /\ ~Unflushed(s) => \A i \in 1..Len(q[s]) : q[s][i].flush \/ q[s][i].gen = gen

\* A queue needs no flush if it needed none before, or by the reader's flush.
LEMMA UnflushedStep ==
  ASSUME PlaceTypes, FlagTypes, SeekInv, [Next]_vars, NEW s \in Streams, ~Unflushed(s)'
  PROVE  \/ ~Unflushed(s) /\ UNCHANGED gen
         \/ ReadFlush /\ hand = s
  <1> USE DEF PlaceTypes, FlagTypes, SeekInv, Unflushed
  <1>0. s \in {"audio", "video"}
    BY StreamsAssumption DEF AllStreams
  <1>1. CASE UNCHANGED <<gen, pcR, hand>>
    BY <1>1
  <1>2. CASE ReadTop
    BY <1>0, <1>2 DEF ReadTop, FirstFlushed
  <1>3. CASE ReadFlush
    BY <1>0, <1>3 DEF ReadFlush
  <1>4. CASE UNCHANGED gen /\ pcR # "flush" /\ pcR' # "flush"
    BY <1>4
  <1> QED
    BY <1>1, <1>2, <1>3, <1>4
    DEF Next, vars, reader, Reader, ReadStart, ReadExit, ReadReset, ReadSeekPacket,
        ReadPacket, ReadAccount, ReadPut, ReadEof, ReadEofCheck, HasRoom,
        Decoder, DecLoop, DecGet, DecDrain, DecLoad, DecStore, DecDone, DecFrame, DecChk,
        DecPut, Renderer, RenLoop, RenGet, RenInit, RenShow, RenDrop, RenAssert,
        RenSkipRest, RenRelease, User, Started, Pause, PauseSeen, PauseSet, Resume, Seek,
        StopFlag, StopRequest, StopRelease

\* The reader puts packets behind the marker, and of its own position only.
LEMMA QueueStep ==
  ASSUME Types, SeekInv, [Next]_vars, NEW s \in Streams, QueueInv(s)
  PROVE  QueueInv(s)'
  <1>0. q[s] \in Seq(Frame) /\ Len(q[s]) \in Nat
    BY DEF Types, FrameTypes
  <1>1. \/ ~Unflushed(s)' => ~Unflushed(s) /\ UNCHANGED gen
        \/ ReadFlush /\ hand = s
    BY UnflushedStep DEF Types
  <1>2. CASE q'[s] = q[s] /\ ~(ReadFlush /\ hand = s)
    BY <1>1, <1>2 DEF QueueInv
  <1>3. CASE ReadFlush /\ hand = s
    <2>1. q'[s] = <<FLUSH>>
      BY <1>3 DEF ReadFlush, Flushed, Types, FrameTypes
    <2> QED
      BY <2>1 DEF QueueInv, FLUSH
  <1>4. CASE ReadPut /\ hand = s
    <2>1. q'[s] = Append(q[s], Data(gen)) /\ UNCHANGED gen /\ ~Unflushed(s)
      BY <1>4 DEF ReadPut, Types, FrameTypes, Unflushed
    <2>2. \A i \in 1..Len(q'[s]) : i \in 1..Len(q[s]) \/ q'[s][i] = Data(gen)
      BY <1>0, <2>1
    <2>3. \A i \in 1..Len(q[s]) : q'[s][i] = q[s][i]
      BY <1>0, <2>1
    <2> QED
      BY <2>1, <2>2, <2>3 DEF QueueInv, Data
  <1>5. CASE DecGet(s) /\ ~abort_request
    <2>1. q[s] # <<>> /\ q'[s] = Tail(q[s]) /\ UNCHANGED <<gen, reader>>
      BY <1>5 DEF DecGet, Types, FrameTypes, reader
    <2>2. \A i \in 1..Len(q'[s]) : i + 1 \in 1..Len(q[s]) /\ q'[s][i] = q[s][i + 1]
      BY <1>0, <2>1
    <2>3. \A i \in 1..Len(q'[s]) : i + 1 # 1
      OBVIOUS
    <2> QED
      BY <1>1, <1>5, <2>1, <2>2, <2>3 DEF QueueInv, Unflushed, reader
  <1>6. CASE StopRelease
    BY <1>6 DEF StopRelease, QueueInv
  <1> QED
    BY <1>2, <1>3, <1>4, <1>5, <1>6
    DEF Types, FrameTypes,
        Next, vars, Reader, ReadStart, ReadExit, ReadTop, ReadFlush, ReadPut, ReadReset,
        ReadSeekPacket, ReadPacket, ReadAccount, ReadEof, ReadEofCheck, Decoder, DecLoop,
        DecGet, DecDrain, DecLoad, DecStore, DecDone, DecFrame, DecChk, DecPut, Renderer,
        RenLoop, RenGet, RenInit, RenShow, RenDrop, RenAssert, RenSkipRest, RenRelease,
        User, Started, Pause, PauseSeen, PauseSet, Resume, Seek, StopFlag, StopRequest

-----------------------------------------------------------------------------
\* The frames of a stream that its renderer has in hand, and that its decoder may
\* still make of the packet it has; Bound is the most there can be of both and of
\* the frame queue.
InHand(s) == IF pcV[s] \in {"init", "show"} THEN 1 ELSE 0
ToCome(s) == IF pcD[s] \in {"lock", "sub", "decode"} THEN FramesOf(s) - frames[s]
             ELSE IF pcD[s] \in {"chk", "put"} THEN FramesOf(s) - frames[s] + 1
             ELSE 0

Bound(s) == FramesOf(s) + DqSize + 1

\* What a decoder may still give is at most a packet's frames.
LEMMA OnTheirWay ==
  ASSUME Types, NEW s \in Streams, DecoderInv(s)
  PROVE  /\ Len(dq[s]) \in Nat /\ ToCome(s) \in 0..FramesOf(s) /\ FramesOf(s) \in Nat
         /\ InHand(s) \in 0..1 /\ Bound(s) \in Nat
         /\ InHand(s) + Len(dq[s])
              + (IF pcD[s] = "get" THEN FramesOf(s) ELSE ToCome(s)) <= Bound(s)
  <1> USE BoundsAssumption DEF FramesOf, ToCome, InHand, Bound
  <1>1. Len(dq[s]) \in Nat /\ frames[s] \in Nat
    BY DEF Types, FrameTypes, NumberTypes
  <1>2. FramesOf(s) \in Nat \ {0}
    OBVIOUS
  <1>3. ToCome(s) \in 0..FramesOf(s)
    BY <1>1 DEF DecoderInv
  <1>4. Len(dq[s]) + (IF pcD[s] = "get" THEN FramesOf(s) ELSE ToCome(s))
          <= FramesOf(s) + DqSize
    BY <1>1, <1>2 DEF DecoderInv
  <1>5. InHand(s) \in 0..1
    OBVIOUS
  <1>6. InHand(s) + Len(dq[s])
          + (IF pcD[s] = "get" THEN FramesOf(s) ELSE ToCome(s)) <= Bound(s)
    <2> HIDE DEF FramesOf, ToCome, InHand
    <2> QED
      BY <1>1, <1>2, <1>3, <1>4, <1>5
  <1>7. Bound(s) \in Nat /\ FramesOf(s) \in Nat
    BY <1>2
  <1> HIDE DEF FramesOf, ToCome, InHand, Bound
  <1> QED
    BY <1>1, <1>3, <1>5, <1>6, <1>7

\* What a step of the threads of one stream leaves alone.
LEMMA OtherStream ==
  ASSUME Types, NEW s \in Streams, NEW t \in Streams, t # s, Decoder(t) \/ Renderer(t)
  PROVE  /\ q'[s] = q[s] /\ dq'[s] = dq[s] /\ pcD'[s] = pcD[s] /\ pkt'[s] = pkt[s]
         /\ frames'[s] = frames[s] /\ pcV'[s] = pcV[s] /\ frm'[s] = frm[s]
         /\ ready'[s] = ready[s] /\ stale'[s] = stale[s] /\ late'[s] = late[s]
         /\ UNCHANGED <<m_abort, abort_request, m_seek_req, reader, user>>
         /\ m_play_status' = "paused" => m_play_status = "paused"
  <1> USE DEF Types, PlaceTypes, NumberTypes, FrameTypes
  <1>1. CASE Decoder(t)
    BY <1>1 DEF Decoder, DecLoop, DecGet, DecDrain, DecLoad, DecStore, DecDone, DecFrame,
         DecChk, DecPut, control, renderer, history
  <1>2. CASE Renderer(t)
    <2>1. CASE RenShow(t)
      BY <2>1 DEF RenShow, FrameDone, Shown, decoder, history
    <2>2. CASE RenInit(t)
      BY <2>2 DEF RenInit, FrameDone, decoder, history
    <2>3. CASE RenLoop(t) \/ RenGet(t) \/ RenDrop(t) \/ RenRelease(t)
      BY <2>3 DEF RenLoop, RenGet, RenDrop, RenRelease, FrameDone, control, decoder, history
    <2>4. CASE RenAssert(t) \/ RenSkipRest(t)
      BY <2>4 DEF RenAssert, RenSkipRest, FrameDone, decoder, history
    <2> QED
      BY <1>2, <2>1, <2>2, <2>3, <2>4 DEF Renderer
  <1> QED
    BY <1>1, <1>2

-----------------------------------------------------------------------------
(***************************************************************************)
(* The position of what is shown: until the decoder has drained its frame  *)
(* queue (or has ended) every frame on its way may be an old one, and all  *)
(* of them are counted; after that only the renderer may hold an old one.  *)
(***************************************************************************)
OldInHand(s) == IF pcV[s] \in {"init", "show"} /\ frm[s].gen < gen THEN 1 ELSE 0

\* The decoder has not yet drained its frame queue after the last seek (Behind), or
\* it has, and all that follows is of the current position (Current).
Behind(s) == \/ q[s] # <<>> /\ q[s][1].flush
             \/ pcD[s] = "drain"
             \/ m_abort /\ pcD[s] \in {"loop", "exit"}

Current(s) ==
  /\ pcD[s] # "drain"
  /\ \A i \in 1..Len(q[s]) : ~q[s][i].flush
  /\ \A i \in 1..Len(dq[s]) : dq[s][i].gen = gen
  /\ pcD[s] \in {"lock", "sub", "decode", "chk", "put"} => pkt[s].gen = gen

StaleCount(s) ==
  \/ Behind(s) /\ stale[s] + InHand(s) + Len(dq[s]) + ToCome(s) <= Bound(s)
  \/ Current(s) /\ stale[s] + OldInHand(s) <= Bound(s)

StaleInv(s) == ~Unflushed(s) => StaleCount(s)

\* What one stream's threads hold, for the arithmetic below.
LEMMA LocalTypes ==
  ASSUME Types, NEW s \in Streams
  PROVE  /\ q[s] \in Seq(Frame) /\ dq[s] \in Seq(Frame)
         /\ Len(q[s]) \in Nat /\ Len(dq[s]) \in Nat
         /\ pkt[s] \in Frame /\ frm[s] \in Frame
         /\ frames[s] \in Nat /\ stale[s] \in Nat /\ late[s] \in Nat /\ gen \in Nat
         /\ frm[s].gen \in Nat
  <1>1. frames[s] \in Nat /\ stale[s] \in Nat /\ late[s] \in Nat /\ gen \in Nat
    BY BoundsAssumption DEF Types, NumberTypes, CountTypes
  <1>2. /\ q[s] \in Seq(Frame) /\ dq[s] \in Seq(Frame)
        /\ pkt[s] \in Frame /\ frm[s] \in Frame
    BY DEF Types, FrameTypes
  <1>3. frm[s].gen \in Nat
    BY <1>2, BoundsAssumption DEF Frame
  <1> QED
    BY <1>1, <1>2, <1>3

\* The frames of one stream that are on their way are numbers.
LEMMA LocalCounts ==
  ASSUME Types, NEW s \in Streams, DecoderInv(s)
  PROVE  /\ InHand(s) \in 0..1 /\ OldInHand(s) \in 0..InHand(s)
         /\ Bound(s) \in Nat /\ ToCome(s) \in Nat /\ FramesOf(s) \in Nat
  <1>1. InHand(s) \in 0..1 /\ Bound(s) \in Nat /\ ToCome(s) \in Nat /\ FramesOf(s) \in Nat
    BY OnTheirWay
  <1>2. OldInHand(s) \in 0..InHand(s)
    BY DEF OldInHand, InHand
  <1> QED
    BY <1>1, <1>2

\* The decoder gives no old frame that was not counted as on its way.
LEMMA StaleDecoder ==
  ASSUME Types, AbortInv, NEW s \in Streams, DecoderInv(s), DecoderInv(s)',
         QueueInv(s), ~Unflushed(s), StaleCount(s), Decoder(s)
  PROVE  StaleCount(s)'
  <1> USE DEF StaleCount, Behind, Current
  <1>0. /\ q[s] \in Seq(Frame) /\ dq[s] \in Seq(Frame) /\ Len(dq[s]) \in Nat
        /\ Len(q[s]) \in Nat /\ stale[s] \in Nat /\ frames[s] \in Nat
    BY LocalTypes
  <1>1. /\ UNCHANGED <<gen, m_abort, abort_request, pcV, frm, stale>>
        /\ InHand(s)' = InHand(s) /\ OldInHand(s)' = OldInHand(s) /\ Bound(s)' = Bound(s)
        /\ InHand(s) \in Nat /\ OldInHand(s) \in Nat /\ OldInHand(s) <= InHand(s)
        /\ Bound(s) \in Nat /\ ToCome(s) \in Nat /\ FramesOf(s) \in Nat
    <2>1. UNCHANGED <<gen, m_abort, abort_request, pcV, frm, stale>>
      BY DEF Decoder, DecLoop, DecGet, DecDrain, DecLoad, DecStore, DecDone, DecFrame,
         DecChk, DecPut, control, reader, renderer, history
    <2>2. InHand(s) \in Nat /\ Bound(s) \in Nat /\ ToCome(s) \in Nat /\ FramesOf(s) \in Nat
      BY OnTheirWay
    <2>3. OldInHand(s) \in Nat /\ OldInHand(s) <= InHand(s)
      BY DEF OldInHand, InHand
    <2> QED
      BY <2>1, <2>2, <2>3 DEF InHand, OldInHand, Bound, FramesOf
  <1>2. CASE DecLoop(s)
    <2>1. q'[s] = q[s] /\ dq'[s] = dq[s] /\ pkt'[s] = pkt[s] /\ frames'[s] = frames[s]
      BY <1>2 DEF DecLoop
    <2>2. pcD[s] = "loop" /\ pcD'[s] = IF m_abort THEN "exit" ELSE "get"
      BY <1>2 DEF DecLoop, Types, PlaceTypes
    <2>3. ToCome(s)' = ToCome(s)
      BY <2>2 DEF ToCome
    <2> QED
      BY <1>1, <2>1, <2>2, <2>3
  <1>3. CASE DecGet(s)
    <2>1. pcD[s] = "get" /\ dq'[s] = dq[s] /\ ToCome(s) = 0
      BY <1>3 DEF DecGet, ToCome
    <2>2. CASE abort_request
      <3>1. m_abort /\ pcD'[s] = "loop" /\ q'[s] = q[s]
        BY <1>3, <2>2 DEF DecGet, AbortInv, Types, PlaceTypes
      <3>2. ToCome(s)' = 0
        BY <3>1 DEF ToCome
      <3> QED
        BY <1>1, <2>1, <3>1, <3>2
    <2>3. CASE ~abort_request
      <3>1. /\ q[s] # <<>> /\ q'[s] = Tail(q[s]) /\ pkt'[s] = q[s][1]
            /\ pcD'[s] = IF q[s][1].flush THEN "drain" ELSE "lock"
        BY <1>0, <1>3, <2>3 DEF DecGet, Types, PlaceTypes, FrameTypes
      <3>2. \A i \in 1..Len(q'[s]) : i + 1 \in 1..Len(q[s]) /\ q'[s][i] = q[s][i + 1]
        BY <1>0, <3>1
      <3>3. 1 \in 1..Len(q[s])
        BY <1>0, <3>1
      <3>4. CASE q[s][1].flush
        <4>1. pcD'[s] = "drain" /\ ToCome(s)' = 0
          BY <3>1, <3>4 DEF ToCome
        <4> QED
          BY <1>1, <2>1, <3>3, <3>4, <4>1
      <3>5. CASE ~q[s][1].flush
        <4>1. Current(s)
          BY <2>1, <3>5
        <4>2. pcD'[s] = "lock" /\ pkt'[s].gen = gen
          BY <3>1, <3>3, <3>5 DEF QueueInv
        <4>3. \A i \in 1..Len(q'[s]) : ~q'[s][i].flush
          BY <3>2, <4>1
        <4> QED
          BY <1>1, <2>1, <3>5, <4>1, <4>2, <4>3
      <3> QED
        BY <3>4, <3>5
    <2> QED
      BY <2>2, <2>3
  <1>4. CASE DecDrain(s)
    <2>1. /\ pcD[s] = "drain" /\ dq'[s] = Marked(dq[s]) /\ q'[s] = q[s]
          /\ pcD'[s] = "loop" /\ (dq[s] = <<>> \/ m_abort)
      BY <1>4 DEF DecDrain, DrainOver, Marked, Types, PlaceTypes, FrameTypes, AbortInv
    <2>2. Len(dq'[s]) = Len(dq[s]) /\ ToCome(s) = 0 /\ ToCome(s)' = 0
      BY <1>0, <2>1, MarkedFrames DEF ToCome
    <2>3. CASE m_abort \/ (q[s] # <<>> /\ q[s][1].flush)
      BY <1>1, <2>1, <2>2, <2>3
    <2>4. CASE dq[s] = <<>> /\ (q[s] # <<>> => ~q[s][1].flush)
      <3>1. \A i \in 1..Len(q'[s]) : ~q'[s][i].flush
        BY <2>1, <2>4 DEF QueueInv
      <3>2. Len(dq'[s]) = 0
        BY <2>2, <2>4
      <3> QED
        BY <1>0, <1>1, <2>1, <2>2, <2>4, <3>1, <3>2
    <2> QED
      BY <2>1, <2>3, <2>4
  <1>5. CASE DecLoad(s) \/ DecStore(s) \/ DecDone(s) \/ DecFrame(s) \/ DecChk(s)
    <2>1. /\ q'[s] = q[s] /\ dq'[s] = dq[s]
          /\ pcD[s] \in {"lock", "sub", "decode", "chk"}
          /\ pcD'[s] \in {"loop", "sub", "decode", "chk", "put"}
          /\ pcD'[s] # "loop" => pkt'[s] = pkt[s]
      BY <1>5 DEF DecLoad, DecStore, DecDone, DecFrame, DecChk, Types, PlaceTypes
    <2>2. ToCome(s)' <= ToCome(s) /\ ToCome(s)' \in Int
      <3>1. CASE DecLoad(s) \/ DecStore(s) \/ DecChk(s)
        BY <3>1, <1>0, <1>1 DEF DecLoad, DecStore, DecChk, ToCome, Types, PlaceTypes, FramesOf
      <3>2. CASE DecDone(s)
        BY <3>2, <1>1 DEF DecDone, ToCome, Types, PlaceTypes
      <3>3. CASE DecFrame(s)
        <4>1. /\ frames'[s] = frames[s] + 1 /\ pcD[s] = "decode" /\ pcD'[s] = "chk"
          BY <3>3, <1>0 DEF DecFrame, Types, PlaceTypes, NumberTypes
        <4> QED
          BY <4>1, <1>0, <1>1 DEF ToCome, FramesOf
      <3> QED
        BY <1>5, <3>1, <3>2, <3>3
    <2>3. Behind(s) => Behind(s)'
      BY <2>1, <1>1
    <2>4. Current(s) => Current(s)'
      BY <1>1, <2>1
    <2>5. stale'[s] = stale[s] /\ Len(dq'[s]) = Len(dq[s])
      BY <1>1, <2>1
    <2> HIDE DEF Behind, Current
    <2> QED
      BY <1>0, <1>1, <2>2, <2>3, <2>4, <2>5
  <1>6. CASE DecPut(s)
    <2>1. /\ q'[s] = q[s] /\ dq'[s] = Append(dq[s], pkt[s]) /\ pkt'[s] = pkt[s]
          /\ pcD[s] = "put" /\ pcD'[s] = "decode" /\ frames'[s] = frames[s]
      BY <1>6 DEF DecPut, Types, PlaceTypes, FrameTypes
    <2>2. Len(dq'[s]) = Len(dq[s]) + 1
      BY <1>0, <2>1, LocalTypes
    <2>3. ToCome(s)' = ToCome(s) - 1
      BY <1>0, <1>1, <2>1 DEF ToCome, FramesOf
    <2>4. \A i \in 1..Len(dq'[s]) : (i \in 1..Len(dq[s]) /\ dq'[s][i] = dq[s][i])
                                     \/ dq'[s][i] = pkt[s]
      BY <1>0, <2>1, LocalTypes
    <2>5. Behind(s) => Behind(s)'
      BY <1>1, <2>1
    <2>6. Current(s) => Current(s)'
      BY <1>1, <2>1, <2>4
    <2>7. stale'[s] = stale[s]
      BY <1>1
    <2> HIDE DEF Behind, Current
    <2> QED
      BY <1>0, <1>1, <2>2, <2>3, <2>5, <2>6, <2>7
  <1> QED
    BY <1>2, <1>3, <1>4, <1>5, <1>6 DEF Decoder

\* The renderer shows only frames that were counted as on their way.
LEMMA StaleRenderer ==
  ASSUME Types, AbortInv, NEW s \in Streams, DecoderInv(s),
         ~Unflushed(s), StaleCount(s), Renderer(s)
  PROVE  StaleCount(s)'
  <1> USE DEF Behind, Current
  <1>0. /\ dq[s] \in Seq(Frame) /\ Len(dq[s]) \in Nat /\ stale[s] \in Nat
        /\ InHand(s) \in Nat /\ OldInHand(s) \in Nat /\ OldInHand(s) <= InHand(s)
        /\ Bound(s) \in Nat /\ ToCome(s) \in Nat /\ gen \in Nat /\ frm[s].gen \in Nat
    BY LocalTypes, LocalCounts
  <1>1. /\ UNCHANGED <<gen, m_abort, abort_request, q, decoder>>
        /\ Bound(s)' = Bound(s) /\ ToCome(s)' = ToCome(s)
    <2>1. UNCHANGED <<gen, m_abort, abort_request, q, decoder>>
      BY DEF Renderer, RenLoop, RenGet, RenInit, RenShow, RenDrop, RenAssert, RenSkipRest,
             RenRelease, control, reader
    <2> QED
      BY <2>1 DEF ToCome, Bound, FramesOf, decoder
  <1>2. CASE \/ RenLoop(s) \/ RenInit(s) \/ RenDrop(s) \/ RenAssert(s)
             \/ RenSkipRest(s) \/ RenRelease(s)
    <2>1. UNCHANGED <<dq, stale>>
      BY <1>2 DEF RenLoop, RenInit, RenDrop, RenAssert, RenSkipRest, RenRelease, history
    <2>2. InHand(s)' <= InHand(s) /\ InHand(s)' \in Nat
      BY <1>2 DEF RenLoop, RenInit, RenDrop, RenAssert, RenSkipRest, RenRelease, InHand,
         Types, PlaceTypes, AfterInit
    <2>3. OldInHand(s)' <= OldInHand(s) /\ OldInHand(s)' \in Nat
      <3>1. CASE RenInit(s)
        BY <1>1, <3>1 DEF RenInit, OldInHand, AfterInit, Types, PlaceTypes, FrameTypes
      <3>2. CASE \/ RenLoop(s) \/ RenDrop(s) \/ RenAssert(s) \/ RenSkipRest(s)
                 \/ RenRelease(s)
        <4>1. pcV'[s] \notin {"init", "show"}
          BY <3>2 DEF RenLoop, RenDrop, RenAssert, RenSkipRest, RenRelease, Types, PlaceTypes
        <4> QED
          BY <1>0, <4>1 DEF OldInHand
      <3> QED
        BY <1>2, <3>1, <3>2
    <2>4. (Behind(s) => Behind(s)') /\ (Current(s) => Current(s)')
      BY <1>1, <2>1 DEF decoder
    <2>5. stale'[s] = stale[s] /\ Len(dq'[s]) = Len(dq[s])
      BY <2>1
    <2>6. Bound(s)' = Bound(s) /\ ToCome(s)' = ToCome(s)
      BY <1>1
    <2> HIDE DEF Behind, Current
    <2>7. CASE Behind(s) /\ stale[s] + InHand(s) + Len(dq[s]) + ToCome(s) <= Bound(s)
      BY <1>0, <2>2, <2>4, <2>5, <2>6, <2>7 DEF StaleCount
    <2>8. CASE Current(s) /\ stale[s] + OldInHand(s) <= Bound(s)
      BY <1>0, <2>3, <2>4, <2>5, <2>6, <2>8 DEF StaleCount
    <2> QED
      BY <2>7, <2>8 DEF StaleCount
  <1>3. CASE RenGet(s)
    <2>1. pcV[s] = "get" /\ InHand(s) = 0 /\ UNCHANGED stale
      BY <1>3 DEF RenGet, InHand, history
    <2>2. CASE abort_request
      <3>1. UNCHANGED dq /\ pcV'[s] = "loop"
        BY <1>3, <2>2 DEF RenGet, Types, PlaceTypes
      <3>2. InHand(s)' = 0 /\ OldInHand(s)' = 0 /\ OldInHand(s) = 0
        BY <2>1, <3>1 DEF InHand, OldInHand
      <3>3. (Behind(s) => Behind(s)') /\ (Current(s) => Current(s)')
        BY <1>1, <3>1 DEF decoder
      <3> HIDE DEF Behind, Current
      <3> QED
        BY <1>0, <1>1, <2>1, <3>1, <3>2, <3>3 DEF StaleCount
    <2>3. CASE ~abort_request
      <3>1. dq[s] # <<>> /\ dq'[s] = Tail(dq[s]) /\ frm'[s] = dq[s][1]
        BY <1>0, <1>3, <2>3 DEF RenGet, Types, FrameTypes
      <3>2. Len(dq'[s]) = Len(dq[s]) - 1 /\ 1 \in 1..Len(dq[s])
        BY <1>0, <3>1
      <3>3. InHand(s)' \in 0..1
        BY DEF InHand
      <3>4. \A i \in 1..Len(dq'[s]) : i + 1 \in 1..Len(dq[s]) /\ dq'[s][i] = dq[s][i + 1]
        BY <1>0, <3>1
      <3>5. Behind(s) => Behind(s)'
        BY <1>1 DEF decoder
      <3>6. Current(s) => Current(s)' /\ OldInHand(s)' = 0
        BY <1>0, <1>1, <3>1, <3>2, <3>4 DEF decoder, OldInHand
      <3> HIDE DEF Behind, Current
      <3> QED
        BY <1>0, <1>1, <2>1, <3>2, <3>3, <3>5, <3>6 DEF StaleCount
    <2> QED
      BY <2>2, <2>3
  <1>4. CASE RenShow(s)
    <2>1. /\ UNCHANGED dq /\ InHand(s) = 1 /\ InHand(s)' = 0 /\ OldInHand(s)' = 0
          /\ OldInHand(s) = IF frm[s].gen < gen THEN 1 ELSE 0
      BY <1>4 DEF RenShow, InHand, OldInHand, Types, PlaceTypes
    <2>2. stale'[s] \in {stale[s], stale[s] + OldInHand(s)}
      BY <1>4, <2>1 DEF RenShow, Shown, history, Types, NumberTypes
    <2>3. (Behind(s) => Behind(s)') /\ (Current(s) => Current(s)')
      BY <1>1, <2>1 DEF decoder
    <2> HIDE DEF Behind, Current
    <2> QED
      BY <1>0, <1>1, <2>1, <2>2, <2>3 DEF StaleCount
  <1> QED
    BY <1>2, <1>3, <1>4 DEF Renderer

\* Every step keeps the old frames shown within those that were on their way.
LEMMA StaleStep ==
  ASSUME Types, AbortInv, SeekInv, [Next]_vars, NEW s \in Streams, DecoderInv(s),
         DecoderInv(s)', Types', QueueInv(s), StaleInv(s)
  PROVE  StaleInv(s)'
  <1> SUFFICES ASSUME ~Unflushed(s)' PROVE StaleCount(s)'
    BY DEF StaleInv
  <1>0. /\ q[s] \in Seq(Frame) /\ dq[s] \in Seq(Frame) /\ Len(dq[s]) \in Nat
        /\ stale[s] \in Nat /\ InHand(s) \in 0..1 /\ OldInHand(s) \in 0..InHand(s)
        /\ Bound(s) \in Nat /\ ToCome(s) \in Nat
    BY LocalTypes, LocalCounts
  <1>1. CASE ReadFlush /\ hand = s
    <2>1. q'[s] = <<FLUSH>> /\ stale'[s] = 0
      BY <1>1 DEF ReadFlush, Flushed, Types, FrameTypes, NumberTypes
    <2>2. Behind(s)'
      BY <2>1 DEF Behind, FLUSH
    <2>3. UNCHANGED <<dq, decoder, pcV>>
      BY <1>1 DEF ReadFlush, renderer
    <2>4. /\ InHand(s)' = InHand(s) /\ ToCome(s)' = ToCome(s) /\ Bound(s)' = Bound(s)
      BY <2>3 DEF decoder, InHand, ToCome, Bound, FramesOf
    <2>5. InHand(s) + Len(dq[s]) + ToCome(s) <= Bound(s)
      <3>1. pcD[s] = "get" => ToCome(s) = 0
        BY DEF ToCome
      <3> QED
        BY <1>0, <3>1, OnTheirWay
    <2> QED
      BY <1>0, <2>1, <2>2, <2>3, <2>4, <2>5 DEF StaleCount
  <1>2. CASE ~(ReadFlush /\ hand = s)
    <2>1. ~Unflushed(s) /\ UNCHANGED gen /\ StaleCount(s)
      BY <1>2, UnflushedStep DEF StaleInv, Types
    <2>2. CASE Decoder(s)
      BY <2>1, <2>2, StaleDecoder
    <2>3. CASE Renderer(s)
      BY <2>1, <2>3, StaleRenderer
    <2>4. ASSUME /\ q'[s] = q[s] /\ dq'[s] = dq[s] /\ pcD'[s] = pcD[s]
                 /\ pkt'[s] = pkt[s] /\ frames'[s] = frames[s] /\ pcV'[s] = pcV[s]
                 /\ frm'[s] = frm[s] /\ stale'[s] = stale[s] /\ (m_abort => m_abort')
          PROVE  StaleCount(s)'
      BY <2>1, <2>4 DEF StaleCount, Behind, Current, InHand, OldInHand, ToCome, Bound,
                        FramesOf
    <2>5. CASE \E t \in Streams \ {s} : Decoder(t) \/ Renderer(t)
      BY <2>4, <2>5, OtherStream
    <2>6. CASE ReadPut
      <3>1. CASE hand # s
        BY <2>4, <2>6, <3>1 DEF ReadPut, decoder, renderer, control, history
      <3>2. CASE hand = s
        <4>1. /\ q'[s] = Append(q[s], Data(gen))
              /\ UNCHANGED <<control, dq, decoder, renderer, history>>
          BY <2>6, <3>2 DEF ReadPut, Types, FrameTypes
        <4>2. /\ \A i \in 1..Len(q[s]) : q'[s][i] = q[s][i]
              /\ \A i \in 1..Len(q'[s]) : i \in 1..Len(q[s]) \/ q'[s][i] = Data(gen)
              /\ q[s] # <<>> => 1 \in 1..Len(q[s])
          BY <1>0, <4>1
        <4>3. Behind(s) => Behind(s)'
          BY <4>1, <4>2, <1>0 DEF Behind, control, decoder
        <4>4. Current(s) => Current(s)'
          BY <4>1, <4>2, <2>1 DEF Current, Data, decoder
        <4>5. /\ InHand(s)' = InHand(s) /\ ToCome(s)' = ToCome(s) /\ Bound(s)' = Bound(s)
              /\ OldInHand(s)' = OldInHand(s)
          BY <2>1, <4>1 DEF decoder, renderer, InHand, ToCome, Bound, FramesOf, OldInHand
        <4> QED
          BY <2>1, <4>1, <4>3, <4>4, <4>5 DEF StaleCount, history
      <3> QED
        BY <3>1, <3>2
    <2>7. CASE StopRelease
      <3>1. /\ q'[s] = <<>> /\ dq'[s] = <<>> /\ pcD[s] = "exit"
            /\ UNCHANGED <<decoder, renderer, history>>
        BY <2>7 DEF StopRelease, ThreadsExited
      <3>2. Current(s)'
        BY <3>1 DEF Current, decoder
      <3>3. stale'[s] = stale[s] /\ OldInHand(s)' = OldInHand(s) /\ Bound(s)' = Bound(s)
        BY <2>1, <3>1 DEF OldInHand, Bound, FramesOf, renderer, history
      <3>4. stale[s] + OldInHand(s) <= Bound(s)
        BY <1>0, <2>1 DEF StaleCount
      <3> QED
        BY <3>2, <3>3, <3>4 DEF StaleCount
    <2>8. CASE Reader /\ ~ReadPut
      <3>1. /\ q'[s] = q[s] /\ UNCHANGED <<dq, decoder, renderer, m_abort>>
            /\ stale'[s] = stale[s]
        BY <1>2, <2>8 DEF Reader, ReadStart, ReadExit, ReadTop, ReadFlush, ReadReset,
             ReadSeekPacket, ReadPacket, ReadAccount, ReadEof, ReadEofCheck, control,
             history, Types, FrameTypes, NumberTypes
      <3> QED
        BY <2>4, <3>1 DEF decoder, renderer
    <2>9. CASE (User /\ ~StopRelease) \/ UNCHANGED vars
      <3>1. UNCHANGED <<q, dq, decoder, renderer, stale>> /\ (m_abort => m_abort')
        BY <2>9 DEF vars, User, Started, Pause, PauseSeen, PauseSet, Resume, Seek,
             StopFlag, StopRequest, control, history
      <3> QED
        BY <2>4, <3>1 DEF decoder, renderer
    <2> QED
      BY <2>2, <2>3, <2>5, <2>6, <2>7, <2>8, <2>9 DEF Next
  <1> QED
    BY <1>1, <1>2

-----------------------------------------------------------------------------
(***************************************************************************)
(* What is shown during a pause: while playback is paused no decoder takes *)
(* another packet, so what was shown and what is on its way never exceed   *)
(* what was on its way when the pause began; and the video renderer does   *)
(* not leave its frame.                                                    *)
(***************************************************************************)
Coming(s) == IF pcD[s] = "get" THEN FramesOf(s) ELSE ToCome(s)

\* All the frames that may still be shown before the decoder waits.
OnWay(s) == InHand(s) + (Len(dq[s]) + Coming(s))

\* Frames that a pause may still let through are counted when the pause begins; the
\* video renderer lets one through and holds it (HeldOnce).
LateCount(s) ==
  /\ late[s] <= Bound(s)
  /\ m_play_status = "paused" => late[s] + OnWay(s) <= Bound(s)

HeldOnce(s) ==
  s = "video" =>
    /\ late[s] <= 1
    /\ m_play_status = "paused" /\ late[s] = 1 =>
         \/ pcV[s] = "hold" /\ ready[s] = "yes"
         \/ m_abort /\ pcV[s] \in {"hold", "loop", "exit"}

\* During a pause the decoder gives no more than it may before it waits.
LEMMA PausedDecoder ==
  ASSUME Types, NEW s \in Streams, DecoderInv(s), DecoderInv(s)', Types',
         m_play_status = "paused", Decoder(s)
  PROVE  OnWay(s)' <= OnWay(s)
  <1> SUFFICES Len(dq'[s]) + Coming(s)' <= Len(dq[s]) + Coming(s)
    <2>1. UNCHANGED pcV
      BY DEF Decoder, DecLoop, DecGet, DecDrain, DecLoad, DecStore, DecDone, DecFrame,
             DecChk, DecPut, renderer
    <2>2. InHand(s)' = InHand(s) /\ InHand(s) \in 0..1
      BY <2>1 DEF InHand
    <2>3. Len(dq[s]) + Coming(s) \in Int
      BY OnTheirWay DEF Coming
    <2>4. Len(dq'[s]) + Coming(s)' \in Int
      <3>1. Len(dq'[s]) \in Nat /\ frames'[s] \in Nat
        BY LenProperties, BoundsAssumption DEF Types, FrameTypes, NumberTypes
      <3>2. FramesOf(s)' \in Nat
        BY BoundsAssumption DEF FramesOf
      <3> QED
        BY <3>1, <3>2 DEF Coming, ToCome
    <2> QED
      BY <2>2, <2>3, <2>4 DEF OnWay
  <1>0. /\ dq[s] \in Seq(Frame) /\ Len(dq[s]) \in Nat /\ frames[s] \in Nat
        /\ pkt[s] \in Frame
    BY LocalTypes
  <1>1. ToCome(s) \in 0..FramesOf(s) /\ FramesOf(s) \in Nat /\ FramesOf(s)' = FramesOf(s)
        /\ ToCome(s)' \in 0..FramesOf(s)
    <2>1. FramesOf(s)' = FramesOf(s)
      BY DEF FramesOf
    <2>2. ToCome(s) \in 0..FramesOf(s) /\ FramesOf(s) \in Nat
      BY OnTheirWay
    <2>3. frames'[s] \in Nat
      BY BoundsAssumption DEF Types, NumberTypes
    <2>4. ToCome(s)' \in 0..FramesOf(s)
      BY <2>1, <2>2, <2>3 DEF DecoderInv, ToCome
    <2> QED
      BY <2>1, <2>2, <2>4
  <1>2. CASE DecLoop(s)
    BY <1>2 DEF DecLoop, MayDecode, Coming, ToCome, Types, PlaceTypes
  <1>3. CASE DecGet(s)
    <2>1. /\ UNCHANGED <<dq, frames>> /\ pcD[s] = "get"
          /\ pcD'[s] \in {"loop", "drain", "lock"}
      BY <1>3 DEF DecGet, Types, PlaceTypes
    <2> QED
      BY <1>0, <1>1, <2>1 DEF Coming, ToCome, DecoderInv
  <1>4. CASE DecDrain(s)
    <2>1. dq'[s] = Marked(dq[s]) /\ pcD[s] = "drain" /\ pcD'[s] = "loop"
      BY <1>4 DEF DecDrain, Marked, Types, PlaceTypes, FrameTypes
    <2>2. Len(dq'[s]) = Len(dq[s])
      BY <1>0, <2>1, MarkedFrames
    <2> QED
      BY <1>0, <2>1, <2>2 DEF Coming, ToCome
  <1>5. CASE DecLoad(s) \/ DecStore(s) \/ DecChk(s)
    BY <1>0, <1>1, <1>5 DEF DecLoad, DecStore, DecChk, Coming, ToCome, Types, PlaceTypes
  <1>6. CASE DecDone(s)
    <2>1. UNCHANGED dq /\ pcD[s] = "decode" /\ pcD'[s] = "loop"
      BY <1>6 DEF DecDone, Types, PlaceTypes
    <2> QED
      BY <1>0, <1>1, <2>1 DEF Coming, ToCome
  <1>7. CASE DecFrame(s)
    <2>1. /\ UNCHANGED dq /\ frames'[s] = frames[s] + 1 /\ pcD[s] = "decode"
          /\ pcD'[s] = "chk"
      BY <1>7, <1>0 DEF DecFrame, Types, PlaceTypes, NumberTypes
    <2> QED
      BY <2>1, <1>0, <1>1 DEF Coming, ToCome
  <1>8. CASE DecPut(s)
    <2>1. /\ dq'[s] = Append(dq[s], pkt[s]) /\ UNCHANGED frames
          /\ pcD[s] = "put" /\ pcD'[s] = "decode"
      BY <1>8 DEF DecPut, Types, PlaceTypes, FrameTypes
    <2>2. Len(dq'[s]) = Len(dq[s]) + 1
      BY <1>0, <2>1
    <2> QED
      BY <1>0, <1>1, <2>1, <2>2 DEF Coming, ToCome
  <1> QED
    BY <1>2, <1>3, <1>4, <1>5, <1>6, <1>7, <1>8 DEF Decoder

\* During a pause the renderer shows only what was on its way to it.
LEMMA PausedRenderer ==
  ASSUME Types, NEW s \in Streams, DecoderInv(s), m_play_status = "paused", Renderer(s)
  PROVE  late'[s] + OnWay(s)' <= late[s] + OnWay(s)
  <1>0. dq[s] \in Seq(Frame) /\ Len(dq[s]) \in Nat /\ late[s] \in Nat
    BY LocalTypes
  <1>4. Coming(s)' = Coming(s) /\ Coming(s) \in Nat
    <2>1. UNCHANGED decoder
      BY DEF Renderer, RenLoop, RenGet, RenInit, RenShow, RenDrop, RenAssert,
             RenSkipRest, RenRelease
    <2>2. Coming(s) \in Nat
      BY OnTheirWay DEF Coming
    <2> QED
      BY <2>1, <2>2 DEF decoder, Coming, ToCome, FramesOf
  <1>1. CASE \/ RenLoop(s) \/ RenInit(s) \/ RenDrop(s) \/ RenAssert(s)
             \/ RenSkipRest(s) \/ RenRelease(s)
    <2>1. UNCHANGED <<dq, late>>
      BY <1>1 DEF RenLoop, RenInit, RenDrop, RenAssert, RenSkipRest, RenRelease, history
    <2>2. InHand(s)' <= InHand(s) /\ InHand(s) \in Nat /\ InHand(s)' \in Nat
      BY <1>1 DEF RenLoop, RenInit, RenDrop, RenAssert, RenSkipRest, RenRelease, InHand,
         Types, PlaceTypes, AfterInit
    <2>3. late'[s] = late[s] /\ Len(dq'[s]) = Len(dq[s])
      BY <2>1
    <2> QED
      BY <1>0, <1>4, <2>2, <2>3 DEF OnWay
  <1>2. CASE RenGet(s)
    <2>1. pcV[s] = "get" /\ InHand(s) = 0 /\ UNCHANGED late
      BY <1>2 DEF RenGet, InHand, history
    <2>2. CASE abort_request
      <3>1. dq'[s] = dq[s] /\ late'[s] = late[s] /\ InHand(s)' = 0
        BY <1>2, <2>1, <2>2 DEF RenGet, InHand, Types, PlaceTypes
      <3> QED
        BY <1>0, <1>4, <2>1, <3>1 DEF OnWay
    <2>3. CASE ~abort_request
      <3>1. dq[s] # <<>> /\ dq'[s] = Tail(dq[s])
        BY <1>2, <2>3 DEF RenGet, Types, FrameTypes
      <3>2. Len(dq'[s]) = Len(dq[s]) - 1
        BY <1>0, <3>1
      <3>3. InHand(s)' \in 0..1
        BY DEF InHand
      <3> QED
        BY <1>0, <1>4, <2>1, <3>2, <3>3 DEF OnWay
    <2> QED
      BY <2>2, <2>3
  <1>3. CASE RenShow(s)
    <2>1. UNCHANGED dq /\ InHand(s) = 1 /\ InHand(s)' = 0
      BY <1>3 DEF RenShow, InHand, Types, PlaceTypes
    <2>2. late'[s] \in {late[s], late[s] + 1}
      BY <1>3 DEF RenShow, Shown, history, Types, NumberTypes
    <2> QED
      BY <1>0, <1>4, <2>1, <2>2 DEF OnWay
  <1> QED
    BY <1>1, <1>2, <1>3 DEF Renderer

\* Only av_pause pauses, and frames count as late only while playback is paused.
LEMMA PauseOnly ==
  ASSUME Types, [Next]_vars, NEW s \in Streams
  PROVE  /\ m_play_status' = "paused" => m_play_status = "paused" \/ PauseSet
         /\ m_play_status' # "paused" => late'[s] \in {late[s], 0}
  <1> USE DEF Types, NumberTypes
  <1>1. CASE Reader
    BY <1>1 DEF Reader, ReadStart, ReadExit, ReadTop, ReadFlush, ReadReset,
       ReadSeekPacket, ReadPacket, ReadAccount, ReadPut, ReadEof, ReadEofCheck, control,
       history
  <1>2. ASSUME NEW t \in Streams, Decoder(t)
        PROVE  UNCHANGED <<m_play_status, late>>
    BY <1>2 DEF Decoder, DecLoop, DecGet, DecDrain, DecLoad, DecStore, DecDone,
         DecFrame, DecChk, DecPut, control, history
  <1>3. ASSUME NEW t \in Streams, RenShow(t)
        PROVE  /\ m_play_status' = m_play_status
               /\ m_play_status # "paused" => late'[s] = late[s]
    BY <1>3 DEF RenShow, Shown, history
  <1>4. ASSUME NEW t \in Streams, Renderer(t), ~RenShow(t)
        PROVE  UNCHANGED late /\ m_play_status' \in {m_play_status, "playing"}
    BY <1>4 DEF Renderer, RenLoop, RenGet, RenInit, RenDrop, RenAssert, RenSkipRest,
         RenRelease, control, history
  <1>5. CASE User
    BY <1>5 DEF User, Started, Pause, PauseSeen, PauseSet, Resume, Seek, StopFlag,
         StopRequest, StopRelease, control, history
  <1>6. CASE UNCHANGED vars
    BY <1>6 DEF vars, control, history
  <1> QED
    BY <1>1, <1>2, <1>3, <1>4, <1>5, <1>6 DEF Next

\* Every step keeps the frames shown in a pause within those that were on their way.
LEMMA LateStep ==
  ASSUME Types, Types', [Next]_vars, NEW s \in Streams, DecoderInv(s), DecoderInv(s)',
         LateCount(s)
  PROVE  LateCount(s)'
  <1>0. /\ late[s] \in Nat /\ late'[s] \in Nat /\ Bound(s) \in Nat /\ Bound(s)' = Bound(s)
        /\ OnWay(s) \in Nat /\ OnWay(s)' \in Nat /\ OnWay(s) <= Bound(s)
    <2>1. Bound(s)' = Bound(s) /\ FramesOf(s)' = FramesOf(s)
      BY DEF Bound, FramesOf
    <2>2. late[s] \in Nat /\ late'[s] \in Nat
      BY DEF Types, NumberTypes
    <2>3. /\ Bound(s) \in Nat /\ InHand(s) \in 0..1 /\ Len(dq[s]) \in Nat
          /\ Coming(s) \in Nat /\ InHand(s) + Len(dq[s]) + Coming(s) <= Bound(s)
      BY OnTheirWay DEF Coming
    <2>4. Len(dq'[s]) \in Nat
      BY LenProperties DEF Types, FrameTypes
    <2>5. InHand(s)' \in 0..1
      BY DEF InHand
    <2>6. frames'[s] \in Nat /\ FramesOf(s) \in Nat
      BY BoundsAssumption, OnTheirWay DEF Types, NumberTypes
    <2>7. Coming(s)' \in Nat
      BY <2>1, <2>6 DEF Coming, ToCome, DecoderInv
    <2>8. OnWay(s) \in Nat /\ OnWay(s) <= Bound(s)
      BY <2>3 DEF OnWay
    <2>9. OnWay(s)' \in Nat
      BY <2>4, <2>5, <2>7 DEF OnWay
    <2> QED
      BY <2>1, <2>2, <2>3, <2>8, <2>9
  <1>1. CASE m_play_status' # "paused"
    BY <1>0, <1>1, PauseOnly DEF LateCount
  <1>2. CASE PauseSet
    <2>1. late'[s] = 0 /\ UNCHANGED <<dq, decoder, renderer>>
      BY <1>2 DEF PauseSet
    <2>2. OnWay(s)' = OnWay(s)
      BY <2>1 DEF OnWay, InHand, Coming, ToCome, FramesOf, decoder, renderer
    <2> QED
      BY <1>0, <2>1, <2>2 DEF LateCount
  <1>3. CASE m_play_status' = "paused" /\ ~PauseSet
    <2>1. m_play_status = "paused"
      BY <1>3, PauseOnly
    <2> SUFFICES late'[s] + OnWay(s)' <= late[s] + OnWay(s)
      BY <1>0, <2>1 DEF LateCount
    <2>3. ASSUME /\ dq'[s] = dq[s] /\ pcD'[s] = pcD[s] /\ frames'[s] = frames[s]
                 /\ pcV'[s] = pcV[s] /\ late'[s] = late[s]
          PROVE  late'[s] + OnWay(s)' <= late[s] + OnWay(s)
      <3>1. OnWay(s)' = OnWay(s)
        BY <2>3 DEF OnWay, InHand, Coming, ToCome, FramesOf
      <3> QED
        BY <1>0, <2>3, <3>1
    <2>4. CASE Decoder(s)
      <3>1. UNCHANGED late
        BY <2>4 DEF Decoder, DecLoop, DecGet, DecDrain, DecLoad, DecStore, DecDone,
           DecFrame, DecChk, DecPut, history
      <3>2. OnWay(s)' <= OnWay(s)
        BY <2>1, <2>4, PausedDecoder
      <3> QED
        BY <1>0, <3>1, <3>2
    <2>5. CASE Renderer(s)
      BY <2>1, <2>5, PausedRenderer
    <2>6. CASE \E t \in Streams \ {s} : Decoder(t) \/ Renderer(t)
      BY <2>3, <2>6, OtherStream
    <2>7. CASE Reader
      <3>1. UNCHANGED <<dq, decoder, renderer, late>>
        BY <2>7 DEF Reader, ReadStart, ReadExit, ReadTop, ReadFlush, ReadReset,
           ReadSeekPacket, ReadPacket, ReadAccount, ReadPut, ReadEof, ReadEofCheck, history
      <3> QED
        BY <2>3, <3>1 DEF decoder, renderer
    <2>8. CASE User \/ UNCHANGED vars
      <3>1. UNCHANGED <<dq, decoder, renderer, late>>
        BY <1>3, <2>8 DEF vars, User, Started, Pause, PauseSeen, Resume, Seek, StopFlag,
           StopRequest, StopRelease, history
      <3> QED
        BY <2>3, <3>1 DEF decoder, renderer
    <2> QED
      BY <2>4, <2>5, <2>6, <2>7, <2>8 DEF Next
  <1> QED
    BY <1>1, <1>2, <1>3

\* A video frame shown in a pause is held until the pause ends.
LEMMA HeldStep ==
  ASSUME Types, Types', AbortInv, [Next]_vars, NEW s \in Streams, HeldOnce(s)
  PROVE  HeldOnce(s)'
  <1> SUFFICES ASSUME s = "video" PROVE HeldOnce(s)'
    BY DEF HeldOnce
  <1>0. late[s] \in Nat /\ late'[s] \in Nat
    BY DEF Types, NumberTypes
  <1>1. CASE m_play_status' # "paused"
    BY <1>0, <1>1, PauseOnly DEF HeldOnce
  <1>2. CASE PauseSet
    BY <1>2 DEF PauseSet, HeldOnce
  <1>3. CASE m_play_status' = "paused" /\ ~PauseSet
    <2>1. m_play_status = "paused"
      BY <1>3, PauseOnly
    <2>2. ASSUME /\ pcV'[s] = pcV[s] /\ ready'[s] = ready[s] /\ late'[s] = late[s]
                 /\ m_abort => m_abort'
          PROVE  HeldOnce(s)'
      BY <2>1, <2>2 DEF HeldOnce
    <2>3. CASE RenLoop(s) \/ RenGet(s) \/ RenInit(s) \/ RenDrop(s) \/ RenRelease(s)
      BY <2>1, <2>3 DEF RenLoop, RenGet, RenInit, RenDrop, RenRelease, Holds, HeldOnce,
         control, history, Types, PlaceTypes
    <2>4. CASE RenShow(s)
      <3>1. late[s] = 0
        BY <1>0, <2>1, <2>4 DEF RenShow, HeldOnce
      <3>2. pcV'[s] = "hold" /\ UNCHANGED ready
        BY <2>4 DEF RenShow, Types, PlaceTypes
      <3>3. CASE ready[s] = "yes"
        BY <2>4, <3>1, <3>2, <3>3 DEF RenShow, Shown, HeldOnce, Types, NumberTypes
      <3>4. CASE ready[s] # "yes"
        BY <2>4, <3>1, <3>4 DEF RenShow, history, HeldOnce
      <3> QED
        BY <3>3, <3>4
    <2>5. CASE \E t \in Streams \ {s} : Decoder(t) \/ Renderer(t)
      BY <2>2, <2>5, OtherStream
    <2>6. CASE Decoder(s) \/ Reader
      <3>1. UNCHANGED <<renderer, late, m_abort>>
        BY <2>6 DEF Decoder, DecLoop, DecGet, DecDrain, DecLoad, DecStore, DecDone,
           DecFrame, DecChk, DecPut, Reader, ReadStart, ReadExit, ReadTop, ReadFlush,
           ReadReset, ReadSeekPacket, ReadPacket, ReadAccount, ReadPut, ReadEof,
           ReadEofCheck, control, history
      <3> QED
        BY <2>2, <3>1 DEF renderer
    <2>7. CASE User \/ UNCHANGED vars
      <3>1. UNCHANGED <<renderer, late>> /\ (m_abort => m_abort')
        BY <1>3, <2>7 DEF vars, User, Started, Pause, PauseSeen, Resume, Seek, StopFlag,
           StopRequest, StopRelease, control, history
      <3> QED
        BY <2>2, <3>1 DEF renderer
    <2> QED
      BY <2>3, <2>4, <2>5, <2>6, <2>7 DEF Next, Renderer, RenAssert, RenSkipRest
  <1> QED
    BY <1>1, <1>2, <1>3

-----------------------------------------------------------------------------
(***************************************************************************)
(* Counting packets.  A flush marker can only be the first entry of a      *)
(* queue, so the packets of a queue are the indices from 1 or 2 to the     *)
(* length.                                                                 *)
(***************************************************************************)
PacketsOf(x) == Cardinality({i \in DOMAIN x : ~x[i].flush})

\* A queue whose marker comes first has its length in packets, less the marker.
LEMMA PacketCount ==
  ASSUME NEW x \in Seq(Frame), \A i \in 1..Len(x) : x[i].flush => i = 1
  PROVE  PacketsOf(x) = IF x # <<>> /\ x[1].flush THEN Len(x) - 1 ELSE Len(x)
  <1>0. Len(x) \in Nat /\ DOMAIN x = 1..Len(x) /\ (x # <<>> => Len(x) >= 1)
    OBVIOUS
  <1>1. CASE x # <<>> /\ x[1].flush
    <2>1. {i \in DOMAIN x : ~x[i].flush} = 2..Len(x)
      BY <1>0, <1>1
    <2>2. Cardinality(2..Len(x)) = IF 2 > Len(x) THEN 0 ELSE Len(x) - 2 + 1
      BY <1>0, FS_Interval
    <2>3. PacketsOf(x) = Cardinality(2..Len(x))
      BY <2>1, Zenon DEF PacketsOf
    <2> QED
      BY <1>0, <1>1, <2>2, <2>3
  <1>2. CASE ~(x # <<>> /\ x[1].flush)
    <2>1. {i \in DOMAIN x : ~x[i].flush} = 1..Len(x)
      BY <1>0, <1>2
    <2>2. Cardinality(1..Len(x)) = IF 1 > Len(x) THEN 0 ELSE Len(x) - 1 + 1
      BY <1>0, FS_Interval
    <2>3. PacketsOf(x) = Cardinality(1..Len(x))
      BY <2>1, Zenon DEF PacketsOf
    <2> QED
      BY <1>0, <1>2, <2>2, <2>3
  <1> QED
    BY <1>1, <1>2

\* The packets of a queue are a number of them.
LEMMA PacketsNat ==
  ASSUME Types, NEW s \in Streams, QueueInv(s)
  PROVE  Packets(s) = PacketsOf(q[s]) /\ Packets(s) \in Nat
  <1>1. q[s] \in Seq(Frame) /\ Len(q[s]) \in Nat /\ (q[s] # <<>> => Len(q[s]) >= 1)
    BY DEF Types, FrameTypes
  <1>2. Packets(s) = PacketsOf(q[s])
    BY DEF Packets, PacketsOf
  <1> QED
    BY <1>1, <1>2, PacketCount DEF QueueInv

\* How each step changes the number of packets of a stream.
LEMMA PacketsStep ==
  ASSUME Types, Types', SeekInv, [Next]_vars, NEW s \in Streams, QueueInv(s), QueueInv(s)'
  PROVE  /\ Packets(s)' \in Nat
         /\ Packets(s)' = IF ReadPut /\ hand = s THEN Packets(s) + 1
                          ELSE IF \/ ReadFlush /\ hand = s
                                  \/ StopRelease
                               THEN 0
                          ELSE IF /\ DecGet(s) /\ ~abort_request
                                  /\ ~q[s][1].flush
                               THEN Packets(s) - 1
                          ELSE Packets(s)
  <1>0. /\ q[s] \in Seq(Frame) /\ Len(q[s]) \in Nat /\ q'[s] \in Seq(Frame)
        /\ Packets(s) = PacketsOf(q[s]) /\ Packets(s)' = PacketsOf(q'[s])
        /\ Packets(s) \in Nat /\ Packets(s)' \in Nat
    <2>1. Packets(s)' = PacketsOf(q'[s])
      BY DEF Packets, PacketsOf
    <2>2. q'[s] \in Seq(Frame) /\ Len(q'[s]) \in Nat /\ (q'[s] # <<>> => Len(q'[s]) >= 1)
      BY DEF Types, FrameTypes
    <2>3. Packets(s)' \in Nat
      BY <2>1, <2>2, PacketCount DEF QueueInv
    <2> QED
      BY <2>1, <2>2, <2>3, PacketsNat, LocalTypes
  <1>1. CASE ReadPut /\ hand = s
    <2>1. q'[s] = Append(q[s], Data(gen)) /\ Data(gen) \in Frame
      <3>1. gen \in 0..(MaxSeeks + 1)
        BY <1>1, BoundsAssumption DEF Types, CountTypes, SeekInv
      <3> QED
        BY <1>1, <3>1 DEF ReadPut, Types, FrameTypes, Data, Frame
    <2>2. Len(q'[s]) = Len(q[s]) + 1 /\ q'[s] # <<>>
      BY <1>0, <2>1
    <2>3. PacketsOf(q[s]) = IF q[s] # <<>> /\ q[s][1].flush THEN Len(q[s]) - 1
                            ELSE Len(q[s])
      BY <1>0, PacketCount DEF QueueInv
    <2>4. PacketsOf(q'[s]) = IF q'[s][1].flush THEN Len(q'[s]) - 1 ELSE Len(q'[s])
      BY <1>0, <2>2, PacketCount DEF QueueInv
    <2>5. IF q[s] = <<>> THEN q'[s][1] = Data(gen) ELSE q'[s][1] = q[s][1]
      BY <1>0, <2>1
    <2>6. PacketsOf(q'[s]) = PacketsOf(q[s]) + 1
      BY <1>0, <2>2, <2>3, <2>4, <2>5 DEF Data
    <2> QED
      BY <1>0, <1>1, <2>6
  <1>2. CASE (ReadFlush /\ hand = s) \/ StopRelease
    <2>1. q'[s] = <<FLUSH>> \/ q'[s] = <<>>
      BY <1>2 DEF ReadFlush, StopRelease, Flushed, Types, FrameTypes
    <2>2. PacketsOf(q'[s]) = 0
      BY <1>0, <2>1, PacketCount DEF QueueInv, FLUSH
    <2>3. ~ReadPut
      BY <1>2 DEF ReadFlush, StopRelease, ReadPut, ThreadsExited
    <2> QED
      BY <1>0, <1>2, <2>2, <2>3
  <1>3. CASE DecGet(s) /\ ~abort_request
    <2>1. /\ q[s] # <<>> /\ q'[s] = Tail(q[s]) /\ pcR' = pcR /\ hand' = hand /\ pcU' = pcU
      BY <1>3 DEF DecGet, Types, FrameTypes, reader, user
    <2>2. /\ Len(q'[s]) = Len(q[s]) - 1 /\ Len(q[s]) >= 1
          /\ q'[s] # <<>> => 2 \in 1..Len(q[s]) /\ q'[s][1] = q[s][2]
      BY <1>0, <2>1
    <2>3. q'[s] # <<>> => ~q'[s][1].flush
      BY <2>2 DEF QueueInv
    <2>4. PacketsOf(q'[s]) = IF q[s][1].flush THEN PacketsOf(q[s]) ELSE PacketsOf(q[s]) - 1
      BY <1>0, <2>1, <2>2, <2>3, PacketCount DEF QueueInv
    <2>5. ~ReadPut /\ ~ReadFlush /\ ~StopRelease
      BY <2>1 DEF ReadPut, ReadFlush, StopRelease
    <2> QED
      BY <1>0, <1>3, <2>4, <2>5
  <1>4. CASE q'[s] = q[s] /\ ~ReadPut /\ ~(DecGet(s) /\ ~abort_request)
             /\ ~(ReadFlush /\ hand = s) /\ ~StopRelease
    BY <1>0, <1>4
  <1>5. CASE q'[s] = q[s] /\ ReadPut /\ hand # s /\ ~(DecGet(s) /\ ~abort_request)
             /\ ~(ReadFlush /\ hand = s) /\ ~StopRelease
    BY <1>0, <1>5
  <1>6. \/ q'[s] = q[s]
        \/ (ReadPut \/ ReadFlush) /\ hand = s
        \/ DecGet(s) /\ ~abort_request
        \/ StopRelease
    BY DEF Types, FrameTypes,
        Next, vars, Reader, ReadStart, ReadExit, ReadTop, ReadFlush, ReadPut, ReadReset,
        ReadSeekPacket, ReadPacket, ReadAccount, ReadEof, ReadEofCheck, Decoder, DecLoop,
        DecGet, DecDrain, DecLoad, DecStore, DecDone, DecFrame, DecChk, DecPut, Renderer,
        RenLoop, RenGet, RenInit, RenShow, RenDrop, RenAssert, RenSkipRest, RenRelease,
        User, Started, Pause, PauseSeen, PauseSet, Resume, Seek, StopFlag, StopRequest
  <1> QED
    BY <1>1, <1>2, <1>3, <1>4, <1>5, <1>6

-----------------------------------------------------------------------------
\* Sums over the streams.
LEMMA TotalType ==
  ASSUME NEW f \in [Streams -> Nat]
  PROVE  Total(f) \in Nat /\ \A s \in Streams : f[s] <= Total(f)
  BY StreamsAssumption DEF Total, AllStreams

\* A total changes by what one stream's share changes.
LEMMA TotalChange ==
  ASSUME NEW f \in [Streams -> Nat], NEW g \in [Streams -> Nat], NEW s \in Streams,
         \A t \in Streams \ {s} : g[t] = f[t]
  PROVE  Total(g) = Total(f) + (g[s] - f[s])
  BY StreamsAssumption DEF Total, AllStreams

\* A total grows with its shares.
LEMMA TotalMonotonic ==
  ASSUME NEW f \in [Streams -> Nat], NEW g \in [Streams -> Nat],
         \A t \in Streams : g[t] <= f[t]
  PROVE  Total(g) <= Total(f)
  BY DEF Total

\* A total of numbers is none only if every share is.
LEMMA TotalZero ==
  ASSUME NEW f \in [Streams -> Nat]
  PROVE  Total(f) = 0 <=> \A s \in Streams : f[s] = 0
  BY StreamsAssumption DEF Total, AllStreams

(***************************************************************************)
(* The accounts: the packets in the queues, the one that the reader has    *)
(* added to the counter and not yet put, and those that a decoder has      *)
(* taken and not yet subtracted.                                           *)
(***************************************************************************)
InFlight(s) == pcD[s] \in {"lock", "sub"}

Load == [s \in Streams |-> Size(s) * Packets(s)]
Flight == [s \in Streams |-> IF InFlight(s) THEN Size(s) ELSE 0]

PutHand == IF pcR = "put" THEN Size(hand) ELSE 0
InHands == Total(Flight)
Sizes == Total([s \in Streams |-> Size(s)])

QueuesInv == \A s \in Streams : QueueInv(s)

\* The parts of the account are numbers.
LEMMA AccountTypes ==
  ASSUME Types, QueuesInv
  PROVE  /\ Load \in [Streams -> Nat] /\ Flight \in [Streams -> Nat]
         /\ Bytes = Total(Load)
         /\ Bytes \in Nat /\ InHands \in Nat /\ Sizes \in Nat /\ PutHand \in Nat
         /\ InHands <= Sizes
  <1>1. \A s : Size(s) \in {1, 2}
    BY DEF Size
  <1>2. \A s \in Streams : Packets(s) \in Nat
    BY PacketsNat DEF QueuesInv
  <1>3. Load \in [Streams -> Nat]
    BY <1>1, <1>2 DEF Load
  <1>4. Flight \in [Streams -> Nat] /\ [s \in Streams |-> Size(s)] \in [Streams -> Nat]
    BY <1>1 DEF Flight
  <1>5. Bytes = Total(Load)
    BY DEF Bytes, Load
  <1>6. \A s \in Streams : Flight[s] <= [t \in Streams |-> Size(t)][s]
    BY <1>1 DEF Flight
  <1>7. PutHand \in Nat
    BY <1>1 DEF PutHand
  <1> QED
    BY <1>3, <1>4, <1>5, <1>6, <1>7, TotalType, TotalMonotonic DEF InHands, Sizes

Takes(s) == DecGet(s) /\ ~abort_request /\ ~q[s][1].flush

\* A packet is in flight from the decoder's take to the store of the counter.
LEMMA FlightStep ==
  ASSUME Types, [Next]_vars, NEW s \in Streams
  PROVE  /\ Takes(s) => ~InFlight(s) /\ InFlight(s)'
         /\ DecStore(s) => InFlight(s) /\ ~InFlight(s)'
         /\ ~Takes(s) /\ ~DecStore(s) => InFlight(s)' = InFlight(s)
  <1> USE DEF InFlight
  <1>0. Types => pcD \in [Streams -> {"loop", "get", "drain", "lock", "sub", "decode",
                                      "chk", "put", "exit"}]
                 /\ q[s] \in Seq(Frame)
    BY DEF Types, PlaceTypes, FrameTypes
  <1>1. CASE DecGet(s)
    <2>1. /\ pcD[s] = "get"
          /\ pcD'[s] = IF abort_request THEN "loop"
                       ELSE IF q[s][1].flush THEN "drain" ELSE "lock"
      BY <1>0, <1>1 DEF DecGet
    <2> QED
      BY <1>1, <2>1 DEF Takes, DecStore
  <1>2. CASE DecStore(s)
    <2>1. pcD[s] = "sub" /\ pcD'[s] = "decode"
      BY <1>0, <1>2 DEF DecStore
    <2> QED
      BY <1>2, <2>1 DEF Takes, DecGet
  <1>3. CASE ~DecGet(s) /\ ~DecStore(s)
    <2>1. CASE Decoder(s)
      <3>1. \/ pcD[s] = "lock" /\ pcD'[s] = "sub"
            \/ pcD[s] \notin {"lock", "sub"} /\ pcD'[s] \notin {"lock", "sub"}
        BY <1>0, <1>3, <2>1 DEF Decoder, DecLoop, DecDrain, DecLoad, DecDone, DecFrame,
           DecChk, DecPut
      <3> QED
        BY <1>3, <3>1 DEF Takes
    <2>2. CASE ~Decoder(s)
      <3>1. pcD'[s] = pcD[s]
        <4>1. CASE \E t \in Streams \ {s} : Decoder(t)
          BY <4>1, OtherStream
        <4>2. CASE ~\E t \in Streams : Decoder(t)
          <5>1. UNCHANGED pcD
            BY <4>2 DEF Next, vars, decoder, Reader, ReadStart, ReadExit, ReadTop, ReadFlush, ReadPut,
             ReadReset, ReadSeekPacket, ReadPacket, ReadAccount, ReadEof, ReadEofCheck,
             Renderer, RenLoop, RenGet, RenInit, RenShow, RenDrop, RenAssert, RenSkipRest,
             RenRelease, User, Started, Pause, PauseSeen, PauseSet, Resume, Seek,
             StopFlag, StopRequest, StopRelease
          <5> QED
            BY <5>1
        <4> QED
          BY <2>2, <4>1, <4>2
      <3> QED
        BY <1>3, <3>1 DEF Takes
    <2> QED
      BY <2>1, <2>2
  <1> QED
    BY <1>1, <1>2, <1>3

\* A step that takes no packet from a queue and puts none into it.
Moves == ReadPut \/ ReadFlush \/ StopRelease \/ \E s \in Streams : Takes(s)

\* A step that moves no packet leaves the account alone; a flush and av_stop only take
\* packets away.
LEMMA StepAccounts ==
  ASSUME Types, Types', SeekInv, [Next]_vars, QueuesInv, QueuesInv'
  PROVE  /\ Bytes' \in Nat /\ InHands' \in Nat /\ PutHand' \in Nat /\ InHands' <= Sizes
         /\ ~Moves => Bytes' = Bytes
         /\ ~(\E s \in Streams : Takes(s) \/ DecStore(s)) => InHands' = InHands
         /\ ReadFlush \/ StopRelease => Bytes' <= Bytes
         /\ StopRelease => Bytes' = 0
  <1>1. \A s : Size(s) \in {1, 2}
    BY DEF Size
  <1>2. \A s \in Streams : Packets(s) \in Nat /\ Packets(s)' \in Nat
    BY PacketsNat, PacketsStep DEF QueuesInv
  <1>3. /\ Load \in [Streams -> Nat] /\ Load' \in [Streams -> Nat]
        /\ Flight \in [Streams -> Nat] /\ Flight' \in [Streams -> Nat]
    <2>1. \A s \in Streams : Size(s)' = Size(s)
      BY DEF Size
    <2> QED
      BY <1>1, <1>2, <2>1 DEF Load, Flight
  <1>4. Bytes = Total(Load) /\ Bytes' = Total(Load') /\ InHands' = Total(Flight')
    BY DEF Bytes, Load, InHands, Total
  <1>5. Bytes' \in Nat /\ InHands' \in Nat /\ PutHand' \in Nat /\ InHands' <= Sizes
    <2>1. \A s \in Streams : Flight'[s] <= [t \in Streams |-> Size(t)][s]
      BY <1>1 DEF Flight, Size
    <2>2. [t \in Streams |-> Size(t)] \in [Streams -> Nat]
      BY <1>1
    <2>3. PutHand' \in Nat
      BY DEF PutHand, Size
    <2> QED
      BY <1>3, <1>4, <2>1, <2>2, <2>3, TotalType, TotalMonotonic DEF Sizes
  <1>6. ASSUME ~Moves PROVE Bytes' = Bytes
    <2>1. \A s \in Streams : Packets(s)' = Packets(s)
      BY <1>6, PacketsStep DEF Moves, QueuesInv, Takes
    <2>2. Load' = Load
      BY <2>1 DEF Load, Size
    <2> QED
      BY <1>4, <2>2
  <1>7. ASSUME ~(\E s \in Streams : Takes(s) \/ DecStore(s)) PROVE InHands' = InHands
    <2>1. \A s \in Streams : InFlight(s)' = InFlight(s)
      BY <1>7, FlightStep
    <2>2. Flight' = Flight
      BY <2>1 DEF Flight, Size
    <2> QED
      BY <1>4, <2>2 DEF InHands
  <1>8. ASSUME ReadFlush \/ StopRelease PROVE Bytes' <= Bytes
    <2>1. \A s \in Streams : Packets(s)' \in {Packets(s), 0}
      <3>1. ~ReadPut /\ \A s \in Streams : ~DecGet(s)
        <4>1. ~ReadPut
          BY <1>8 DEF ReadFlush, StopRelease, ThreadsExited, ReadPut
        <4>2. ASSUME NEW s \in Streams PROVE ~DecGet(s)
          BY <1>8 DEF ReadFlush, StopRelease, DecGet, decoder, reader, user, Types, PlaceTypes
        <4> QED
          BY <4>1, <4>2
      <3> QED
        BY <3>1, PacketsStep DEF QueuesInv
    <2>2. \A s \in Streams : Load'[s] <= Load[s]
      BY <1>1, <1>2, <2>1 DEF Load, Size
    <2> QED
      BY <1>3, <1>4, <2>2, TotalMonotonic
  <1>9. ASSUME StopRelease PROVE Bytes' = 0
    <2>1. \A s \in Streams : Packets(s)' = 0
      <3>1. ~ReadPut
        BY <1>9 DEF StopRelease, ThreadsExited, ReadPut
      <3> QED
        BY <1>9, <3>1, PacketsStep DEF QueuesInv
    <2>2. \A s \in Streams : Load'[s] = 0
      BY <1>1, <2>1 DEF Load, Size
    <2> QED
      BY <1>3, <1>4, <2>2, TotalZero
  <1> QED
    BY <1>5, <1>6, <1>7, <1>8, <1>9

\* put_queue moves the reader's packet into its queue.
LEMMA PutAccounts ==
  ASSUME Types, Types', SeekInv, QueuesInv, QueuesInv', ReadPut
  PROVE  /\ hand \in Streams /\ Bytes' = Bytes + Size(hand)
         /\ PutHand = Size(hand) /\ PutHand' = 0 /\ InHands' = InHands
  <1>0. [Next]_vars
    BY DEF Next, Reader
  <1>1. hand \in Streams /\ PutHand = Size(hand) /\ PutHand' = 0
    BY DEF ReadPut, SeekInv, PutHand
  <1>2. ASSUME NEW s \in Streams PROVE ~DecGet(s) /\ ~DecStore(s)
    BY DEF ReadPut, DecGet, DecStore, reader
  <1>3. InHands' = InHands
    BY <1>0, <1>2, StepAccounts DEF Takes
  <1>4. ~ReadFlush /\ ~StopRelease
    BY DEF ReadPut, ReadFlush, StopRelease, ThreadsExited
  <1>5. \A s \in Streams : Packets(s)' = IF s = hand THEN Packets(s) + 1 ELSE Packets(s)
    BY <1>0, <1>2, <1>4, PacketsStep DEF QueuesInv
  <1>6. \A s \in Streams : Packets(s) \in Nat
    BY PacketsNat DEF QueuesInv
  <1>7. /\ Load \in [Streams -> Nat] /\ Load' \in [Streams -> Nat]
        /\ Load'[hand] = Load[hand] + Size(hand)
        /\ \A t \in Streams \ {hand} : Load'[t] = Load[t]
    BY <1>1, <1>5, <1>6 DEF Load, Size
  <1>8. Bytes = Total(Load) /\ Bytes' = Total(Load')
    BY DEF Bytes, Load, Total
  <1>9. Total(Load) \in Nat /\ Size(hand) \in Nat
    BY <1>7, TotalType DEF Size
  <1> QED
    BY <1>1, <1>3, <1>7, <1>8, <1>9, TotalChange

\* get_queue moves a packet, or the marker, into the decoder's hands.
LEMMA TakeAccounts ==
  ASSUME Types, Types', SeekInv, QueuesInv, QueuesInv', NEW s \in Streams, Takes(s)
  PROVE  /\ Bytes' = Bytes - Size(s) /\ InHands' = InHands + Size(s)
         /\ UNCHANGED <<pcR, hand>> /\ PutHand' = PutHand
  <1>0. [Next]_vars
    BY DEF Next, Decoder, Takes
  <1>1. UNCHANGED <<pcR, hand, buffer>> /\ pcD[s] = "get"
    BY DEF Takes, DecGet, reader
  <1>2. PutHand' = PutHand
    BY <1>1 DEF PutHand, Size
  <1>3. ASSUME NEW t \in Streams, t # s PROVE ~DecGet(t) /\ ~DecStore(t)
    <2>1. pcD'[t] = pcD[t]
      BY <1>3, OtherStream DEF Takes, Decoder
    <2> QED
      BY <2>1 DEF DecGet, DecStore, Types, PlaceTypes
  <1>4. ~ReadPut /\ ~ReadFlush /\ ~StopRelease
    BY <1>1 DEF ReadPut, ReadFlush, StopRelease, ThreadsExited
  <1>5. \A t \in Streams : Packets(t)' = IF t = s THEN Packets(t) - 1 ELSE Packets(t)
    BY <1>0, <1>3, <1>4, PacketsStep DEF QueuesInv, Takes
  <1>6. \A t \in Streams : Packets(t) \in Nat /\ Packets(t)' \in Nat
    BY <1>0, PacketsNat, PacketsStep DEF QueuesInv
  <1>7. /\ Load \in [Streams -> Nat] /\ Load' \in [Streams -> Nat]
        /\ Load'[s] = Load[s] - Size(s)
        /\ \A t \in Streams \ {s} : Load'[t] = Load[t]
    BY <1>5, <1>6 DEF Load, Size
  <1>8. Bytes = Total(Load) /\ Bytes' = Total(Load')
    BY DEF Bytes, Load, Total
  <1>9. /\ Flight \in [Streams -> Nat] /\ Flight' \in [Streams -> Nat]
        /\ Flight'[s] = Flight[s] + Size(s)
        /\ \A t \in Streams \ {s} : Flight'[t] = Flight[t]
    <2>1. ~InFlight(s) /\ InFlight(s)'
      BY <1>0, FlightStep
    <2>2. \A t \in Streams \ {s} : InFlight(t)' = InFlight(t)
      BY <1>0, <1>3, FlightStep DEF Takes
    <2> QED
      BY <2>1, <2>2 DEF Flight, Size
  <1>10. InHands = Total(Flight) /\ InHands' = Total(Flight')
    BY DEF InHands, Total
  <1>11. Total(Load) \in Nat /\ Total(Flight) \in Nat /\ Size(s) \in Nat
    BY <1>7, <1>9, TotalType DEF Size
  <1>12. Bytes' = Bytes - Size(s)
    BY <1>7, <1>8, <1>11, TotalChange
  <1>13. InHands' = InHands + Size(s)
    BY <1>9, <1>10, <1>11, TotalChange
  <1> QED
    BY <1>1, <1>2, <1>12, <1>13

\* The store of the counter ends what was in flight.
LEMMA StoreAccounts ==
  ASSUME Types, Types', SeekInv, QueuesInv, QueuesInv', NEW s \in Streams, DecStore(s)
  PROVE  Bytes' = Bytes /\ InHands' = InHands - Size(s)
         /\ UNCHANGED <<pcR, hand>> /\ PutHand' = PutHand
  <1>0. [Next]_vars
    BY DEF Next, Decoder
  <1>1. UNCHANGED <<pcR, hand, q, pcU>> /\ pcD[s] = "sub"
    BY DEF DecStore, reader, user
  <1>2. PutHand' = PutHand
    BY <1>1 DEF PutHand, Size
  <1>3. ASSUME NEW t \in Streams PROVE ~DecGet(t) /\ (t # s => ~DecStore(t))
    <2>1. CASE t = s
      BY <1>1, <2>1 DEF DecGet
    <2>2. CASE t # s
      <3>1. pcD'[t] = pcD[t]
        BY <2>2, OtherStream DEF Decoder
      <3> QED
        BY <3>1 DEF DecGet, DecStore, Types, PlaceTypes
    <2> QED
      BY <2>1, <2>2
  <1>4. Bytes' = Bytes
    BY <1>1 DEF Bytes, Packets, Size, Total
  <1>5. /\ Flight \in [Streams -> Nat] /\ Flight' \in [Streams -> Nat]
        /\ Flight'[s] = Flight[s] - Size(s)
        /\ \A t \in Streams \ {s} : Flight'[t] = Flight[t]
    <2>1. InFlight(s) /\ ~InFlight(s)'
      BY <1>0, FlightStep
    <2>2. \A t \in Streams \ {s} : InFlight(t)' = InFlight(t)
      BY <1>0, <1>3, FlightStep DEF Takes
    <2> QED
      BY <2>1, <2>2 DEF Flight, Size
  <1>6. InHands = Total(Flight) /\ InHands' = Total(Flight')
    BY DEF InHands, Total
  <1>7. Total(Flight) \in Nat /\ Size(s) \in Nat
    BY <1>5, TotalType DEF Size
  <1>8. InHands' = InHands - Size(s)
    BY <1>5, <1>6, <1>7, TotalChange
  <1> QED
    BY <1>1, <1>2, <1>4, <1>8

-----------------------------------------------------------------------------
\* Who changes the reader's place and the counter.
LEMMA ReaderOnly ==
  ASSUME [Next]_vars
  PROVE  Reader \/ UNCHANGED reader
  BY DEF Next, vars, Decoder, DecLoop, DecGet, DecDrain, DecLoad, DecStore, DecDone,
         DecFrame, DecChk, DecPut, Renderer, RenLoop, RenGet, RenInit, RenShow, RenDrop,
         RenAssert, RenSkipRest, RenRelease, User, Started, Pause, PauseSeen, PauseSet,
         Resume, Seek, StopFlag, StopRequest, StopRelease

\* Which steps write the counter.
LEMMA BufferOnly ==
  ASSUME [Next]_vars
  PROVE  \/ ReadAccount \/ ReadReset
         \/ \E s \in Streams : DecLoad(s) \/ DecStore(s)
         \/ UNCHANGED buffer
  BY DEF Next, vars, Reader, ReadStart, ReadExit, ReadTop, ReadFlush, ReadPut,
         ReadSeekPacket, ReadPacket, ReadEof, ReadEofCheck, Decoder, DecLoop, DecGet,
         DecDrain, DecDone, DecFrame, DecChk, DecPut, Renderer, RenLoop, RenGet, RenInit,
         RenShow, RenDrop, RenAssert, RenSkipRest, RenRelease, User, Started, Pause,
         PauseSeen, PauseSet, Resume, Seek, StopFlag, StopRequest, StopRelease

\* Only a put fills a queue.
LEMMA BytesDown ==
  ASSUME Types, Types', SeekInv, [Next]_vars, QueuesInv, QueuesInv', ~ReadPut
  PROVE  Bytes' <= Bytes /\ \A s \in Streams : Packets(s)' <= Packets(s)
  <1>1. Bytes \in Nat /\ Bytes' \in Nat
    BY AccountTypes, StepAccounts
  <1>2. Bytes' <= Bytes
    <2>1. CASE \E s \in Streams : Takes(s)
      BY <1>1, <2>1, TakeAccounts DEF Size
    <2> QED
      BY <1>1, <2>1, StepAccounts DEF Moves
  <1>3. ASSUME NEW s \in Streams PROVE Packets(s)' <= Packets(s)
    BY PacketsStep, PacketsNat DEF QueuesInv
  <1> QED
    BY <1>2, <1>3

(***************************************************************************)
(* A seek has emptied the queues when it resets the counter; at most one   *)
(* decoder is between its load and its store.                              *)
(***************************************************************************)
FlushedInv ==
  /\ pcR \in {"reset", "seek_packet"} => Bytes = 0
  /\ pcR = "flush" =>
       \/ hand = FirstFlushed
       \/ hand = "video" /\ \A s \in Streams \cap {"audio"} : Packets(s) = 0

\* m_buf_size_mtx: one decoder at a time loads and stores the counter.
OneSub == \A s, t \in Streams : pcD[s] = "sub" /\ pcD[t] = "sub" => s = t

\* While the reader is in a seek nothing fills the queues that it emptied.
LEMMA FlushedStep ==
  ASSUME Types, Types', SeekInv, [Next]_vars, QueuesInv, QueuesInv', FlushedInv
  PROVE  FlushedInv'
  <1>0. /\ Bytes \in Nat /\ Bytes' \in Nat
        /\ \A s \in Streams : Packets(s) \in Nat /\ Packets(s)' \in Nat
    BY AccountTypes, StepAccounts, PacketsNat, PacketsStep DEF QueuesInv
  <1>1. FirstFlushed' = FirstFlushed
    BY DEF FirstFlushed
  <1>2. CASE ReadPut
    BY <1>2 DEF ReadPut, FlushedInv
  <1>3. CASE ReadTop
    BY <1>1, <1>3 DEF ReadTop, FlushedInv
  <1>4. CASE ReadFlush
    <2>1. ASSUME NEW s \in Streams, s = hand PROVE Packets(s)' = 0
      <3>1. ~ReadPut
        BY <1>4 DEF ReadFlush, ReadPut
      <3> QED
        BY <1>4, <2>1, <3>1, PacketsStep DEF QueuesInv
    <2>2. CASE hand = "audio" /\ "video" \in Streams
      BY <1>4, <2>1, <2>2 DEF ReadFlush, FlushedInv
    <2>3. CASE ~(hand = "audio" /\ "video" \in Streams)
      <3>1. \A s \in Streams : Packets(s)' = 0
        <4>1. ~ReadPut
          BY <1>4 DEF ReadFlush, ReadPut
        <4>2. \A s \in Streams : Packets(s)' <= Packets(s)
          BY <4>1, BytesDown
        <4>3. \A s \in Streams : s = hand \/ Packets(s) = 0
          BY <1>4, <2>1, <2>3, StreamsAssumption
          DEF FlushedInv, ReadFlush, FirstFlushed, AllStreams
        <4> QED
          BY <1>0, <2>1, <4>2, <4>3
      <3>2. Bytes' = 0
        <4>1. Bytes' = Total(Load') /\ Load' \in [Streams -> Nat]
          BY <1>0 DEF Bytes, Load, Total, Size
        <4>2. \A s \in Streams : Load'[s] = 0
          BY <3>1 DEF Load, Size
        <4> QED
          BY <4>1, <4>2, TotalZero
      <3>3. pcR' = "reset"
        BY <1>4, <2>3 DEF ReadFlush
      <3> QED
        BY <3>2, <3>3 DEF FlushedInv
    <2> QED
      BY <2>2, <2>3
  <1>5. CASE ~ReadPut /\ pcR' = pcR /\ hand' = hand
    BY <1>0, <1>1, <1>5, BytesDown DEF FlushedInv
  <1>6. CASE ReadReset
    <2>1. ~ReadPut /\ pcR = "reset" /\ pcR' = "seek_packet"
      BY <1>6 DEF ReadReset, ReadPut
    <2> QED
      BY <1>0, <2>1, BytesDown DEF FlushedInv
  <1>7. CASE pcR' \notin {"flush", "reset", "seek_packet"}
    BY <1>7 DEF FlushedInv
  <1>8. UNCHANGED reader => ~ReadPut /\ pcR' = pcR /\ hand' = hand
    BY DEF reader, ReadPut
  <1> QED
    BY <1>2, <1>3, <1>4, <1>5, <1>6, <1>7, <1>8, ReaderOnly
    DEF Reader, ReadStart, ReadExit, ReadSeekPacket, ReadPacket, ReadAccount, ReadEof,
        ReadEofCheck

\* Only the load brings a decoder to its store.
LEMMA SubOnly ==
  ASSUME Types, [Next]_vars, NEW s \in Streams, pcD'[s] = "sub"
  PROVE  pcD[s] = "sub" \/ DecLoad(s)
  <1>1. CASE Decoder(s)
    BY <1>1 DEF Decoder, DecLoop, DecGet, DecDrain, DecStore, DecDone, DecFrame, DecChk,
       DecPut, Types, PlaceTypes
  <1>2. CASE \E t \in Streams \ {s} : Decoder(t)
    BY <1>2, OtherStream
  <1>3. CASE ~\E t \in Streams : Decoder(t)
    <2>1. UNCHANGED pcD
      BY <1>3 DEF Next, vars, decoder, Reader, ReadStart, ReadExit, ReadTop, ReadFlush,
         ReadPut, ReadReset, ReadSeekPacket, ReadPacket, ReadAccount, ReadEof,
         ReadEofCheck, Renderer, RenLoop, RenGet, RenInit, RenShow, RenDrop, RenAssert,
         RenSkipRest, RenRelease, User, Started, Pause, PauseSeen, PauseSet, Resume,
         Seek, StopFlag, StopRequest, StopRelease
    <2> QED
      BY <2>1
  <1> QED
    BY <1>1, <1>2, <1>3

\* m_buf_size_mtx keeps the second decoder from loading.
LEMMA SubStep ==
  ASSUME Types, [Next]_vars, OneSub
  PROVE  OneSub'
  <1>1. \A s \in Streams : pcD'[s] = "sub" => pcD[s] = "sub" \/ DecLoad(s)
    BY SubOnly
  <1>2. ASSUME NEW s \in Streams, DecLoad(s), NEW t \in Streams, pcD'[t] = "sub"
        PROVE  t = s
    BY <1>2 DEF DecLoad, BufMtxFree, Types, PlaceTypes
  <1> QED
    BY <1>1, <1>2 DEF OneSub

-----------------------------------------------------------------------------
(***************************************************************************)
(* The counter covers what is read ahead, but for one packet per decoder:  *)
(* the one it took before the counter was reset.  Unless a reset was lost  *)
(* it counts no more than that either.                                     *)
(***************************************************************************)
Held == Bytes + (PutHand + InHands)

CountsInv ==
  /\ Held <= m_pkt_buffer_size + Sizes
  /\ \A s \in Streams : pcD[s] = "sub" => Held <= loaded + Sizes

CountedInv ==
  ~lost =>
    /\ \A s \in Streams : pcD[s] = "sub" => loaded = m_pkt_buffer_size
    /\ pcR \notin {"flush", "reset", "exit"} => m_pkt_buffer_size <= Held

\* What is held grows only when the reader accounts for a packet.
LEMMA HeldSteps ==
  ASSUME Types, Types', SeekInv, [Next]_vars, QueuesInv, QueuesInv', FlushedInv
  PROVE  /\ {Held, Held', Sizes} \subseteq Nat
         /\ ReadAccount => Held' = Held + Size(hand)
         /\ \A s \in Streams : DecStore(s) => Held' = Held - Size(s)
         /\ ~ReadAccount => Held' <= Held
         /\ Held' = Held \/ ReadAccount \/ ReadFlush \/ StopRelease
              \/ \E s \in Streams : DecStore(s)
         /\ ReadReset => Held' <= Sizes
  <1>0. /\ {Bytes, PutHand, InHands, Sizes, Bytes', PutHand', InHands'} \subseteq Nat
        /\ InHands' <= Sizes
    BY AccountTypes, StepAccounts
  <1>1. {Held, Held'} \subseteq Nat
    BY <1>0 DEF Held
  <1>2. ASSUME ReadAccount PROVE Held' = Held + Size(hand)
    <2>1. /\ PutHand = 0 /\ PutHand' = Size(hand)
          /\ UNCHANGED <<q, decoder, hand>>
      BY <1>2 DEF ReadAccount, PutHand, Size
    <2>2. Bytes' = Bytes /\ InHands' = InHands
      BY <2>1 DEF Bytes, Packets, InHands, Flight, InFlight, Total, Size, decoder
    <2> QED
      BY <1>0, <2>1, <2>2 DEF Held
  <1>3. ASSUME NEW s \in Streams, DecStore(s) PROVE Held' = Held - Size(s)
    <2>1. Bytes' = Bytes /\ InHands' = InHands - Size(s) /\ PutHand' = PutHand
      BY <1>3, StoreAccounts
    <2>2. Size(s) \in Nat
      BY DEF Size
    <2> QED
      BY <1>0, <2>1, <2>2 DEF Held
  <1>4. ASSUME ReadPut PROVE Held' = Held
    <2>1. /\ Bytes' = Bytes + Size(hand) /\ InHands' = InHands
          /\ PutHand = Size(hand) /\ PutHand' = 0
      BY <1>4, PutAccounts
    <2> QED
      BY <1>0, <2>1 DEF Held
  <1>5. ASSUME NEW s \in Streams, Takes(s) PROVE Held' = Held
    <2>1. Bytes' = Bytes - Size(s) /\ InHands' = InHands + Size(s) /\ PutHand' = PutHand
      BY <1>5, TakeAccounts
    <2>2. Size(s) \in Nat
      BY DEF Size
    <2> QED
      BY <1>0, <2>1, <2>2 DEF Held
  <1>6. ASSUME ~ReadAccount, ~ReadPut PROVE PutHand' = PutHand
    BY <1>6, ReaderOnly
    DEF PutHand, Size, reader, Reader, ReadStart, ReadExit, ReadTop, ReadFlush, ReadReset,
        ReadSeekPacket, ReadPacket, HasRoom, ReadEof, ReadEofCheck
  <1>7. ASSUME ~ReadAccount, ~ReadPut, \A s \in Streams : ~Takes(s) /\ ~DecStore(s)
        PROVE  Held' <= Held /\ (Held' = Held \/ ReadFlush \/ StopRelease)
    <2>1. PutHand' = PutHand /\ InHands' = InHands
      BY <1>6, <1>7, StepAccounts
    <2>2. CASE ReadFlush \/ StopRelease
      BY <1>0, <2>1, <2>2, StepAccounts DEF Held
    <2>3. CASE ~ReadFlush /\ ~StopRelease
      <3>1. Bytes' = Bytes
        BY <1>7, <2>3, StepAccounts DEF Moves
      <3> QED
        BY <1>0, <2>1, <3>1 DEF Held
    <2> QED
      BY <2>2, <2>3
  <1>8. ASSUME ReadReset PROVE Held' <= Sizes
    <2>1. ~ReadPut /\ pcR = "reset" /\ PutHand' = 0
      BY <1>8 DEF ReadReset, ReadPut, PutHand
    <2>2. Bytes' = 0
      BY <1>0, <2>1, BytesDown DEF FlushedInv
    <2> QED
      BY <1>0, <2>1, <2>2 DEF Held
  <1>9. ~ReadAccount => Held' <= Held
    <2>1. CASE ReadPut \/ \E s \in Streams : Takes(s)
      BY <1>1, <1>4, <1>5, <2>1
    <2>2. ASSUME NEW s \in Streams, DecStore(s) PROVE Held' <= Held
      <3>1. Size(s) \in Nat
        BY DEF Size
      <3> QED
        BY <1>1, <1>3, <2>2, <3>1
    <2> QED
      BY <1>7, <2>1, <2>2
  <1> QED
    BY <1>0, <1>1, <1>2, <1>3, <1>4, <1>5, <1>7, <1>8, <1>9

\* The counter goes on covering what is held: a store takes away no more than left the
\* queues.
LEMMA CountsStep ==
  ASSUME Types, Types', SeekInv, [Next]_vars, QueuesInv, QueuesInv', FlushedInv, OneSub,
         CountsInv
  PROVE  CountsInv'
  <1>0. /\ {Held, Held', Sizes} \subseteq Nat /\ Sizes' = Sizes
        /\ {m_pkt_buffer_size, loaded} \subseteq Int
        /\ \A s \in Streams \cup {hand} : Size(s) \in Nat
    BY HeldSteps DEF Types, CountTypes, Sizes, Size, Total
  <1>1. CASE ReadAccount
    <2>1. /\ Held' = Held + Size(hand) /\ m_pkt_buffer_size' = m_pkt_buffer_size + Size(hand)
          /\ \A s \in Streams : pcD'[s] # "sub"
      BY <1>1, HeldSteps DEF ReadAccount, BufMtxFree, Added, decoder
    <2> QED
      BY <1>0, <2>1 DEF CountsInv
  <1>2. CASE ReadReset
    <2>1. m_pkt_buffer_size' = 0 /\ UNCHANGED <<loaded, decoder>> /\ ~ReadAccount
      BY <1>2 DEF ReadReset, ReadAccount
    <2>2. Held' <= Sizes /\ Held' <= Held
      BY <1>2, <2>1, HeldSteps
    <2> QED
      BY <1>0, <2>1, <2>2 DEF CountsInv, decoder
  <1>3. ASSUME NEW s \in Streams, DecLoad(s) PROVE CountsInv'
    <2>1. loaded' = m_pkt_buffer_size /\ UNCHANGED <<m_pkt_buffer_size, reader>>
      BY <1>3 DEF DecLoad
    <2>2. Held' <= Held
      BY <2>1, HeldSteps DEF reader, ReadAccount
    <2> QED
      BY <1>0, <2>1, <2>2 DEF CountsInv
  <1>4. ASSUME NEW s \in Streams, DecStore(s) PROVE CountsInv'
    <2>1. pcD[s] = "sub" /\ m_pkt_buffer_size' = loaded - Size(s) /\ Held' = Held - Size(s)
      BY <1>4, HeldSteps DEF DecStore, Subtracted
    <2>2. \A t \in Streams : pcD'[t] # "sub"
      BY <1>4, <2>1 DEF DecStore, OneSub, Types, PlaceTypes
    <2>3. Held <= loaded + Sizes
      BY <2>1 DEF CountsInv
    <2> QED
      BY <1>0, <2>1, <2>2, <2>3 DEF CountsInv
  <1>5. CASE UNCHANGED buffer /\ ~ReadAccount /\ ~\E s \in Streams : DecLoad(s)
    <2>1. Held' <= Held /\ m_pkt_buffer_size' = m_pkt_buffer_size /\ loaded' = loaded
      BY <1>5, HeldSteps DEF buffer
    <2>2. \A s \in Streams : pcD'[s] = "sub" => pcD[s] = "sub"
      BY <1>5, SubOnly
    <2> QED
      BY <1>0, <2>1, <2>2 DEF CountsInv
  <1> QED
    BY <1>1, <1>2, <1>3, <1>4, <1>5, BufferOnly

\* The counter goes on counting no more than what is held.
LEMMA CountedStep ==
  ASSUME Types, Types', SeekInv, [Next]_vars, QueuesInv, QueuesInv', FlushedInv, OneSub,
         CountedInv
  PROVE  CountedInv'
  <1>0. /\ {Held, Held'} \subseteq Nat /\ {m_pkt_buffer_size, loaded} \subseteq Int
        /\ \A s \in Streams \cup {hand} : Size(s) \in Nat
    BY HeldSteps DEF Types, CountTypes, Size
  <1>1. CASE ReadAccount
    <2>1. /\ Held' = Held + Size(hand) /\ m_pkt_buffer_size' = m_pkt_buffer_size + Size(hand)
          /\ \A s \in Streams : pcD'[s] # "sub"
      BY <1>1, HeldSteps DEF ReadAccount, BufMtxFree, Added, decoder
    <2>2. lost' = lost /\ pcR = "account"
      BY <1>1 DEF ReadAccount, history
    <2> QED
      BY <1>0, <2>1, <2>2 DEF CountedInv
  <1>2. CASE ReadReset
    <2>1. m_pkt_buffer_size' = 0 /\ UNCHANGED decoder /\ lost' = (lost \/ ~BufMtxFree)
      BY <1>2 DEF ReadReset
    <2>2. ~lost' => \A s \in Streams : pcD'[s] # "sub"
      BY <2>1 DEF BufMtxFree, decoder
    <2> QED
      BY <1>0, <2>1, <2>2 DEF CountedInv
  <1>3. ASSUME NEW s \in Streams, DecLoad(s) PROVE CountedInv'
    <2>1. /\ loaded' = m_pkt_buffer_size /\ UNCHANGED <<m_pkt_buffer_size, reader>>
          /\ lost' = lost /\ pcD[s] = "lock"
      BY <1>3 DEF DecLoad, history
    <2>2. Held' = Held
      <3>1. ~ReadAccount /\ ~ReadFlush
        BY <2>1 DEF reader, ReadAccount, ReadFlush
      <3>2. ~StopRelease
        BY <2>1 DEF StopRelease, ThreadsExited
      <3>3. \A t \in Streams : ~DecStore(t)
        BY <1>3 DEF DecLoad, BufMtxFree, DecStore
      <3> QED
        BY <3>1, <3>2, <3>3, HeldSteps
    <2> QED
      BY <1>0, <2>1, <2>2 DEF CountedInv, reader
  <1>4. ASSUME NEW s \in Streams, DecStore(s) PROVE CountedInv'
    <2>1. /\ pcD[s] = "sub" /\ m_pkt_buffer_size' = loaded - Size(s)
          /\ Held' = Held - Size(s) /\ lost' = lost /\ pcR' = pcR
      BY <1>4, HeldSteps DEF DecStore, Subtracted, history, reader
    <2>2. \A t \in Streams : pcD'[t] # "sub"
      BY <1>4, <2>1 DEF DecStore, OneSub, Types, PlaceTypes
    <2> QED
      BY <1>0, <2>1, <2>2 DEF CountedInv
  <1>5. CASE UNCHANGED buffer /\ ~ReadAccount /\ ~ReadReset
             /\ ~\E s \in Streams : DecLoad(s) \/ DecStore(s)
    <2>1. m_pkt_buffer_size' = m_pkt_buffer_size /\ loaded' = loaded
      BY <1>5 DEF buffer
    <2>2. \A s \in Streams : pcD'[s] = "sub" => pcD[s] = "sub"
      BY <1>5, SubOnly
    <2>3. lost' = lost
      BY <1>5 DEF Next, vars, history, Shown, Reader, ReadStart, ReadExit, ReadTop, ReadFlush,
         ReadPut, ReadSeekPacket, ReadPacket, ReadEof, ReadEofCheck, Decoder, DecLoop,
         DecGet, DecDrain, DecDone, DecFrame, DecChk, DecPut, Renderer, RenLoop, RenGet,
         RenInit, RenShow, RenDrop, RenAssert, RenSkipRest, RenRelease, User, Started,
         Pause, PauseSeen, PauseSet, Resume, Seek, StopFlag, StopRequest, StopRelease
    <2>4. pcR' \notin {"flush", "reset", "exit"} =>
            pcR \notin {"flush", "reset", "exit"} /\ ~ReadFlush /\ ~StopRelease
      BY <1>5, ReaderOnly
      DEF reader, Reader, ReadStart, ReadExit, ReadTop, ReadFlush, ReadPut, ReadSeekPacket,
          ReadPacket, HasRoom, ReadEof, ReadEofCheck, StopRelease, ThreadsExited
    <2>5. Held' = Held \/ ReadFlush \/ StopRelease
      BY <1>5, HeldSteps
    <2> QED
      BY <1>0, <2>1, <2>2, <2>3, <2>4, <2>5 DEF CountedInv
  <1> QED
    BY <1>1, <1>2, <1>3, <1>4, <1>5, BufferOnly

-----------------------------------------------------------------------------
(***************************************************************************)
(* How far the reader reads ahead: it reads a packet when the counter is   *)
(* within MAX_PKT_BUFFER_SIZE, or once more when a seek is asked for.      *)
(***************************************************************************)
Limit == MaxBuffer + Sizes

AheadInv ==
  /\ pcR \in {"account", "put"} => Bytes <= Limit + (IF m_seek_req THEN LargestPacket ELSE 0)
  /\ pcR \in {"full", "eof"} => Bytes <= Limit + LargestPacket
  /\ Bytes <= Limit + (IF m_seek_req THEN 2 * LargestPacket ELSE LargestPacket)

\* The largest packet is one of the packets.
LEMMA Largest ==
  LargestPacket \in Nat /\ \A s \in Streams : Size(s) \in Nat /\ Size(s) <= LargestPacket
  <1> DEFINE S == {Size(s) : s \in Streams}
  <1>1. S \subseteq {1, 2} /\ S # {}
    BY StreamsAssumption DEF Size
  <1>2. \E x \in S : \A y \in S : x >= y
    <2>1. CASE 2 \in S
      BY <1>1, <2>1
    <2>2. CASE 2 \notin S
      BY <1>1, <2>2
    <2> QED
      BY <2>1, <2>2
  <1>3. Max(S) \in S /\ \A y \in S : Max(S) >= y
    BY <1>2, Zenon DEF Max
  <1>4. LargestPacket = Max(S)
    BY DEF LargestPacket
  <1> HIDE DEF S
  <1>5. LargestPacket \in {1, 2} /\ \A y \in S : y \in {1, 2} /\ y <= LargestPacket
    BY <1>1, <1>3, <1>4
  <1>6. \A s \in Streams : Size(s) \in S
    BY DEF S
  <1> QED
    BY <1>5, <1>6

\* The reader reads on only within the limit.
LEMMA AheadStep ==
  ASSUME Types, Types', SeekInv, [Next]_vars, QueuesInv, QueuesInv', FlushedInv, CountsInv,
         AheadInv
  PROVE  AheadInv'
  <1>0. /\ {Bytes, Bytes', Limit, LargestPacket, Sizes, MaxBuffer} \subseteq Nat
        /\ LargestPacket' = LargestPacket /\ Limit' = Limit
    BY BoundsAssumption, AccountTypes, StepAccounts, Largest
    DEF Limit, LargestPacket, Sizes, Size, Total
  <1>1. CASE ReadSeekPacket
    <2>1. pcR = "seek_packet" /\ pcR' = "full" /\ ~ReadPut
      BY <1>1 DEF ReadSeekPacket, ReadPut
    <2>2. Bytes' <= Bytes /\ Bytes = 0
      BY <2>1, BytesDown DEF FlushedInv
    <2> QED
      BY <1>0, <2>1, <2>2 DEF AheadInv
  <1>2. CASE ReadPut
    <2>1. hand \in Streams /\ Bytes' = Bytes + Size(hand)
      BY <1>2, PutAccounts
    <2>2. Size(hand) \in Nat /\ Size(hand) <= LargestPacket
      BY <2>1, Largest
    <2>3. pcR = "put" /\ pcR' = "top" /\ m_seek_req' = m_seek_req
      BY <1>2 DEF ReadPut, control
    <2> QED
      BY <1>0, <2>1, <2>2, <2>3 DEF AheadInv
  <1>3. CASE ReadPacket
    <2>1. /\ pcR = "full" /\ pcR' = "account" /\ m_seek_req' = m_seek_req /\ ~ReadPut
          /\ m_seek_req \/ m_pkt_buffer_size <= MaxBuffer
      BY <1>0, <1>3 DEF ReadPacket, HasRoom, BufferFull, ReadPut, Types, CountTypes
    <2>2. Bytes' <= Bytes
      BY <2>1, BytesDown
    <2>3. CASE m_seek_req
      BY <1>0, <2>1, <2>2, <2>3 DEF AheadInv
    <2>4. CASE ~m_seek_req
      <3>1. Bytes <= m_pkt_buffer_size + Sizes
        <4>1. {Bytes, PutHand, InHands, Sizes} \subseteq Nat /\ m_pkt_buffer_size \in Int
          BY AccountTypes DEF Types, CountTypes
        <4> QED
          BY <4>1 DEF CountsInv, Held
      <3>2. Bytes <= Limit
        BY <1>0, <2>1, <2>4, <3>1 DEF Limit, Types, CountTypes
      <3> QED
        BY <1>0, <2>1, <2>2, <2>4, <3>2 DEF AheadInv
    <2> QED
      BY <2>3, <2>4
  <1>4. CASE ReadTop
    <2>1. /\ ~ReadPut /\ (m_seek_req => m_seek_req') /\ pcR' \in {"flush", "full"}
          /\ pcR' = "full" => ~m_seek_req
      BY <1>4 DEF ReadTop, ReadPut, AvSeek, Types, FlagTypes
    <2>2. Bytes' <= Bytes
      BY <2>1, BytesDown
    <2> QED
      BY <1>0, <2>1, <2>2 DEF AheadInv
  <1>5. CASE ~ReadSeekPacket /\ ~ReadPut /\ ~ReadPacket /\ ~ReadTop
    <2>1. m_seek_req => m_seek_req'
      BY <1>5 DEF Next, vars, control, AvSeek, Reader, ReadStart, ReadExit, ReadFlush,
         ReadReset, ReadAccount, ReadEof, ReadEofCheck, Decoder, DecLoop,
         DecGet, DecDrain, DecLoad, DecStore, DecDone, DecFrame, DecChk, DecPut, Renderer,
         RenLoop, RenGet, RenInit, RenShow, RenDrop, RenAssert, RenSkipRest, RenRelease,
         User, Started, Pause, PauseSeen, PauseSet, Resume, Seek, StopFlag, StopRequest,
         StopRelease
    <2>2. /\ pcR' \in {"account", "put"} => pcR \in {"account", "put"}
          /\ pcR' \in {"full", "eof"} => pcR \in {"full", "eof"}
      BY <1>5, ReaderOnly
      DEF reader, Reader, ReadStart, ReadExit, ReadFlush, ReadReset, ReadAccount, ReadEof,
          HasRoom, ReadEofCheck
    <2>3. Bytes' <= Bytes
      BY <1>5, BytesDown
    <2> QED
      BY <1>0, <2>1, <2>2, <2>3 DEF AheadInv
  <1> QED
    BY <1>1, <1>2, <1>3, <1>4, <1>5

-----------------------------------------------------------------------------
(***************************************************************************)
(* What the reader knows while it looks at the queues at the end of the    *)
(* media: a packet queue that it saw empty stays so, and then so does, but *)
(* for one frame, the frame queue of the video.                            *)
(***************************************************************************)
DecoderHas(s) == IF InDecoder(s) THEN 1 ELSE 0
LeftInVideo == Len(dq["video"]) + DecoderHas("video")

EofInv ==
  /\ pcR # "eof" => chk = 1
  /\ pcR = "eof" =>
       /\ chk > 1 /\ "video" \in Streams => q["video"] = <<>>
       /\ chk > 2 /\ "audio" \in Streams => q["audio"] = <<>>
       /\ chk > 3 /\ "video" \in Streams => LeftInVideo <= 1

\* An empty packet queue stays empty, and what follows it does not grow.
LEMMA EmptyStays ==
  ASSUME Types, Types', [Next]_vars, pcR = "eof", NEW s \in Streams, q[s] = <<>>
  PROVE  q'[s] = <<>>
  BY DEF Types, FrameTypes,
         Next, vars, Reader, ReadStart, ReadExit, ReadTop, ReadFlush, ReadPut, ReadReset,
         ReadSeekPacket, ReadPacket, ReadAccount, ReadEof, ReadEofCheck, Decoder, DecLoop,
         DecGet, DecDrain, DecLoad, DecStore, DecDone, DecFrame, DecChk, DecPut, Renderer,
         RenLoop, RenGet, RenInit, RenShow, RenDrop, RenAssert, RenSkipRest, RenRelease,
         User, Started, Pause, PauseSeen, PauseSet, Resume, Seek, StopFlag, StopRequest,
         StopRelease

\* Once the packets of the video are gone, its frames only become fewer.
LEMMA VideoDown ==
  ASSUME Types, Types', AbortInv, [Next]_vars, "video" \in Streams, DecoderInv("video"),
         q["video"] = <<>>
  PROVE  LeftInVideo' <= LeftInVideo
  <1> DEFINE v == "video"
  <1>0. /\ v \in Streams /\ dq[v] \in Seq(Frame) /\ Len(dq[v]) \in Nat /\ frames[v] \in Nat
        /\ dq'[v] \in Seq(Frame) /\ Len(dq'[v]) \in Nat
        /\ DecoderHas(v) \in 0..1 /\ DecoderHas(v)' \in 0..1
    <2>1. DecoderHas(v) \in 0..1 /\ DecoderHas(v)' \in 0..1
      BY DEF DecoderHas
    <2> QED
      BY <2>1, LocalTypes, LenProperties DEF Types, FrameTypes
  <1>1. ASSUME dq'[v] = dq[v], pcD'[v] = pcD[v], frames'[v] = frames[v]
        PROVE  LeftInVideo' <= LeftInVideo
    <2>1. DecoderHas(v)' = DecoderHas(v)
      BY <1>1 DEF DecoderHas, InDecoder
    <2> QED
      BY <1>0, <1>1, <2>1 DEF LeftInVideo
  <1>2. CASE DecLoop(v) \/ DecGet(v)
    <2>1. dq'[v] = dq[v] /\ pcD'[v] \notin {"lock", "sub", "decode", "chk", "put"}
      BY <1>2 DEF DecLoop, DecGet, Types, PlaceTypes
    <2>2. DecoderHas(v)' = 0
      BY <2>1 DEF DecoderHas, InDecoder
    <2> QED
      BY <1>0, <2>1, <2>2 DEF LeftInVideo
  <1>3. CASE DecDrain(v)
    <2>1. dq'[v] = Marked(dq[v]) /\ pcD'[v] = "loop"
      BY <1>3, <1>0 DEF DecDrain, Marked, Types, PlaceTypes, FrameTypes
    <2>2. Len(dq'[v]) = Len(dq[v])
      BY <1>0, <2>1, MarkedFrames
    <2>3. DecoderHas(v)' = 0
      BY <2>1 DEF DecoderHas, InDecoder
    <2> QED
      BY <1>0, <2>2, <2>3 DEF LeftInVideo
  <1>4. CASE DecLoad(v) \/ DecStore(v) \/ DecChk(v)
    <2>1. dq'[v] = dq[v] /\ DecoderHas(v) = 1
      BY <1>4 DEF DecLoad, DecStore, DecChk, DecoderHas, InDecoder
    <2> QED
      BY <1>0, <2>1 DEF LeftInVideo
  <1>5. CASE DecDone(v)
    <2>1. dq'[v] = dq[v] /\ pcD'[v] = "loop"
      BY <1>5, <1>0 DEF DecDone, Types, PlaceTypes
    <2>2. DecoderHas(v)' = 0
      BY <2>1 DEF DecoderHas, InDecoder
    <2> QED
      BY <1>0, <2>1, <2>2 DEF LeftInVideo
  <1>6. CASE DecFrame(v)
    <2>1. dq'[v] = dq[v] /\ frames[v] = 0 /\ pcD[v] = "decode"
      BY <1>0, <1>6 DEF DecFrame
    <2>2. DecoderHas(v) = 1
      BY <2>1 DEF DecoderHas, InDecoder
    <2> QED
      BY <1>0, <2>1, <2>2 DEF LeftInVideo
  <1>7. CASE DecPut(v)
    <2>1. /\ Len(dq'[v]) = Len(dq[v]) + 1 /\ pcD[v] = "put" /\ pcD'[v] = "decode"
          /\ frames'[v] = frames[v] /\ frames[v] >= 1
      BY <1>0, <1>7, LocalTypes DEF DecPut, Types, PlaceTypes, FrameTypes, DecoderInv
    <2>2. DecoderHas(v) = 1 /\ DecoderHas(v)' = 0
      BY <1>0, <2>1 DEF DecoderHas, InDecoder
    <2> QED
      BY <1>0, <2>1, <2>2 DEF LeftInVideo
  <1>8. CASE Renderer(v)
    <2>1. UNCHANGED decoder
      BY <1>8 DEF Renderer, RenLoop, RenGet, RenInit, RenShow, RenDrop, RenAssert,
         RenSkipRest, RenRelease
    <2>2. dq'[v] = dq[v] \/ (dq[v] # <<>> /\ dq'[v] = Tail(dq[v]))
      BY <1>0, <1>8 DEF Renderer, RenLoop, RenGet, RenInit, RenShow, RenDrop, RenAssert,
         RenSkipRest, RenRelease, Types, FrameTypes
    <2>3. CASE dq'[v] = dq[v]
      BY <1>1, <2>1, <2>3 DEF decoder
    <2>4. CASE dq[v] # <<>> /\ dq'[v] = Tail(dq[v])
      <3>1. Len(dq'[v]) = Len(dq[v]) - 1
        BY <1>0, <2>4
      <3>2. DecoderHas(v)' = DecoderHas(v)
        BY <2>1 DEF DecoderHas, InDecoder, decoder
      <3> QED
        BY <1>0, <3>1, <3>2 DEF LeftInVideo
    <2> QED
      BY <2>2, <2>3, <2>4
  <1>9. CASE \E t \in Streams \ {v} : Decoder(t) \/ Renderer(t)
    BY <1>0, <1>1, <1>9, OtherStream
  <1>10. CASE StopRelease
    <2>1. Len(dq'[v]) = 0 /\ UNCHANGED decoder
      BY <1>10 DEF StopRelease
    <2>2. DecoderHas(v)' = DecoderHas(v)
      BY <2>1 DEF DecoderHas, InDecoder, decoder
    <2> QED
      BY <1>0, <2>1, <2>2 DEF LeftInVideo
  <1>11. CASE Reader \/ (User /\ ~StopRelease) \/ UNCHANGED vars
    <2>1. UNCHANGED <<dq, decoder>>
      BY <1>11 DEF vars, Reader, ReadStart, ReadExit, ReadTop, ReadFlush, ReadPut, ReadReset,
         ReadSeekPacket, ReadPacket, ReadAccount, ReadEof, ReadEofCheck, User, Started,
         Pause, PauseSeen, PauseSet, Resume, Seek, StopFlag, StopRequest
    <2> QED
      BY <1>1, <2>1 DEF decoder
  <1> QED
    BY <1>2, <1>3, <1>4, <1>5, <1>6, <1>7, <1>8, <1>9, <1>10, <1>11 DEF Next, Decoder

\* What the reader saw empty stays empty while it looks at the next size.
LEMMA EofStep ==
  ASSUME Types, Types', AbortInv, [Next]_vars, \A s \in Streams : DecoderInv(s), EofInv
  PROVE  EofInv'
  <1>0. chk \in 1..4 /\ \A s \in Streams : dq[s] \in Seq(Frame) /\ Len(dq[s]) \in Nat
    BY LocalTypes DEF Types, CountTypes
  <1>1. CASE pcR' # "eof"
    BY <1>1, ReaderOnly
    DEF EofInv, reader, Reader, ReadStart, ReadExit, ReadTop, ReadFlush, ReadReset,
        ReadSeekPacket, ReadPacket, HasRoom, ReadAccount, ReadPut, ReadEof, ReadEofCheck
  <1>2. CASE ReadEof
    BY <1>2 DEF ReadEof, HasRoom, EofInv
  <1>3. CASE pcR = "eof" /\ pcR' = "eof"
    <2>1. \A s \in Streams : q[s] = <<>> => q'[s] = <<>>
      BY <1>3, EmptyStays
    <2>2. "video" \in Streams /\ q["video"] = <<>> => LeftInVideo' <= LeftInVideo
      BY VideoDown
    <2>3. "video" \in Streams => {LeftInVideo, LeftInVideo'} \subseteq Nat
      <3>1. "video" \in Streams => Len(dq'["video"]) \in Nat
        BY LenProperties DEF Types, FrameTypes
      <3>2. DecoderHas("video") \in 0..1 /\ DecoderHas("video")' \in 0..1
        BY DEF DecoderHas
      <3> QED
        BY <1>0, <3>1, <3>2 DEF LeftInVideo
    <2>4. CASE chk' = chk
      <3>1. /\ chk' > 1 /\ "video" \in Streams => q'["video"] = <<>>
            /\ chk' > 2 /\ "audio" \in Streams => q'["audio"] = <<>>
        BY <1>3, <2>1, <2>4 DEF EofInv
      <3>2. chk' > 3 /\ "video" \in Streams => LeftInVideo' <= 1
        <4>1. chk > 3 /\ "video" \in Streams => LeftInVideo <= 1 /\ q["video"] = <<>>
          BY <1>0, <1>3 DEF EofInv
        <4> QED
          BY <2>2, <2>3, <2>4, <4>1
      <3> QED
        BY <1>3, <3>1, <3>2 DEF EofInv
    <2>5. CASE ReadEofCheck /\ chk' = chk + 1
      <3>1. EofQueue(chk) = <<>> /\ UNCHANGED <<q, dq, decoder>> /\ chk < 4
        BY <1>0, <1>3, <2>5 DEF ReadEofCheck
      <3>2. chk = 1 /\ "video" \in Streams => q["video"] = <<>>
        BY <3>1 DEF EofQueue
      <3>3. chk = 2 /\ "audio" \in Streams => q["audio"] = <<>>
        BY <3>1 DEF EofQueue
      <3>4. chk = 3 /\ "video" \in Streams => LeftInVideo <= 1
        <4>1. chk = 3 /\ "video" \in Streams => dq["video"] = <<>>
          BY <3>1 DEF EofQueue
        <4>2. DecoderHas("video") \in 0..1
          BY DEF DecoderHas
        <4> QED
          BY <1>0, <4>1, <4>2 DEF LeftInVideo
      <3>5. "video" \in Streams => LeftInVideo' = LeftInVideo
        BY <3>1 DEF LeftInVideo, DecoderHas, InDecoder, decoder
      <3>6. /\ chk' > 1 /\ "video" \in Streams => q'["video"] = <<>>
            /\ chk' > 2 /\ "audio" \in Streams => q'["audio"] = <<>>
        <4>1. "video" \in Streams => q["video"] = <<>>
          BY <1>0, <1>3, <3>2 DEF EofInv
        <4>2. chk > 1 /\ "audio" \in Streams => q["audio"] = <<>>
          BY <1>0, <1>3, <3>3 DEF EofInv
        <4>3. chk' > 2 => chk > 1
          BY <1>0, <2>5
        <4>4. q' = q
          BY <3>1
        <4>5. "video" \in Streams => q'["video"] = <<>>
          BY <4>1, <4>4
        <4>6. chk' > 2 /\ "audio" \in Streams => q'["audio"] = <<>>
          BY <4>2, <4>3, <4>4
        <4> HIDE DEF EofInv
        <4> QED
          BY <4>5, <4>6
      <3>7. chk' > 3 /\ "video" \in Streams => LeftInVideo' <= 1
        <4>1. chk' > 3 => chk = 3
          BY <1>0, <2>5, <3>1
        <4> QED
          BY <3>4, <3>5, <4>1
      <3> QED
        BY <1>3, <3>6, <3>7 DEF EofInv
    <2> QED
      BY <1>3, <2>4, <2>5, ReaderOnly
      DEF reader, Reader, ReadStart, ReadExit, ReadTop, ReadFlush, ReadReset,
        ReadSeekPacket, ReadPacket, HasRoom, ReadAccount, ReadPut, ReadEof, ReadEofCheck
  <1> QED
    BY <1>1, <1>2, <1>3, ReaderOnly
    DEF reader, Reader, ReadStart, ReadExit, ReadTop, ReadFlush, ReadReset,
        ReadSeekPacket, ReadPacket, ReadAccount, ReadPut, ReadEof, ReadEofCheck

-----------------------------------------------------------------------------
(***************************************************************************)
(* The inductive invariant, and the theorems.                              *)
(***************************************************************************)
StreamInv(s) == /\ DecoderInv(s) /\ QueueInv(s) /\ StaleInv(s)
                /\ LateCount(s) /\ HeldOnce(s)

Inv ==
  /\ Types /\ AbortInv /\ SeekInv /\ OneSub
  /\ \A s \in Streams : StreamInv(s)
  /\ FlushedInv /\ CountsInv /\ CountedInv /\ AheadInv
  /\ EofInv

\* The initial states satisfy the inductive invariant.
LEMMA InitInv == Init => Inv
  <1> SUFFICES ASSUME Init PROVE Inv
    OBVIOUS
  <1> USE BoundsAssumption
  <1>1. Types
    BY InitTypes
  <1>2. AbortInv /\ SeekInv /\ OneSub /\ EofInv
    BY DEF Init, AbortInv, SeekInv, Seeking, OneSub, EofInv, NOSEEKING, PENDING
  <1>3. ASSUME NEW s \in Streams PROVE StreamInv(s)
    <2>0. q[s] = <<FLUSH>> /\ dq[s] = <<FLUSH>> /\ Len(dq[s]) = 1
      BY DEF Init
    <2>1. DecoderInv(s)
      BY <2>0 DEF Init, DecoderInv, FramesOf
    <2>2. QueueInv(s)
      BY <2>0 DEF QueueInv, FLUSH
    <2>3. InHand(s) = 0 /\ ToCome(s) = 0 /\ Coming(s) = 0 /\ Bound(s) >= 1 /\ Bound(s) \in Nat
      BY DEF Init, InHand, ToCome, Coming, Bound, FramesOf
    <2>4. StaleInv(s)
      BY <2>0, <2>3 DEF Init, StaleInv, StaleCount, Behind, FLUSH
    <2>5. LateCount(s) /\ HeldOnce(s)
      BY <2>0, <2>3 DEF Init, LateCount, HeldOnce
    <2> QED
      BY <2>1, <2>2, <2>4, <2>5 DEF StreamInv
  <1>4. QueuesInv
    BY <1>3 DEF QueuesInv, StreamInv
  <1>5. Bytes = 0
    <2>1. ASSUME NEW s \in Streams PROVE Packets(s) = 0
      <3>1. q[s] = <<FLUSH>> /\ q[s] \in Seq(Frame) /\ q[s][1].flush /\ Len(q[s]) = 1
        BY <1>1 DEF Init, FLUSH, Types, FrameTypes
      <3>2. \A i \in 1..Len(q[s]) : q[s][i].flush => i = 1
        BY <3>1
      <3>3. q[s] # <<>> /\ Len(q[s]) - 1 = 0
        BY <3>1
      <3>4. PacketsOf(q[s]) = 0
        BY <3>1, <3>2, <3>3, PacketCount
      <3> QED
        BY <1>1, <1>4, <3>4, PacketsNat DEF QueuesInv
    <2>2. \A s \in Streams : Load[s] = 0
      BY <2>1 DEF Load, Size
    <2> QED
      BY <1>1, <1>4, <2>2, AccountTypes, TotalZero
  <1>6. Held = 0
    <2>1. \A s \in Streams : Flight[s] = 0
      BY DEF Init, Flight, InFlight
    <2>2. PutHand = 0
      BY DEF Init, PutHand
    <2> QED
      BY <1>1, <1>4, <1>5, <2>1, <2>2, AccountTypes, TotalZero DEF Held, InHands
  <1>7. Sizes \in Nat /\ LargestPacket \in Nat
    BY <1>1, <1>4, AccountTypes, Largest
  <1>8. FlushedInv /\ CountsInv /\ CountedInv
    BY <1>6, <1>7 DEF Init, FlushedInv, CountsInv, CountedInv
  <1>9. AheadInv
    BY <1>5, <1>7 DEF Init, AheadInv, Limit
  <1> QED
    BY <1>1, <1>2, <1>3, <1>8, <1>9 DEF Inv

\* Every step preserves the inductive invariant.
LEMMA NextInv == Inv /\ [Next]_vars => Inv'
  <1> SUFFICES ASSUME Inv, [Next]_vars PROVE Inv'
    OBVIOUS
  <1>1. Types'
    BY FlagStep, PlaceStep, CountStep, NumberStep, FrameStep DEF Inv, Types
  <1>2. AbortInv' /\ SeekInv' /\ OneSub'
    BY AbortStep, SeekStep, SubStep DEF Inv, Types
  <1>3. ASSUME NEW s \in Streams PROVE StreamInv(s)'
    <2>1. DecoderInv(s)'
      BY DecoderStep DEF Inv, StreamInv
    <2>2. QueueInv(s)'
      BY QueueStep DEF Inv, StreamInv
    <2>3. StaleInv(s)'
      BY <1>1, <2>1, StaleStep DEF Inv, StreamInv
    <2>4. LateCount(s)'
      BY <1>1, <2>1, LateStep DEF Inv, StreamInv
    <2>5. HeldOnce(s)'
      BY <1>1, HeldStep DEF Inv, StreamInv
    <2> QED
      BY <2>1, <2>2, <2>3, <2>4, <2>5 DEF StreamInv
  <1>4. QueuesInv /\ QueuesInv'
    BY <1>3 DEF QueuesInv, Inv, StreamInv
  <1>5. FlushedInv'
    BY <1>1, <1>4, FlushedStep DEF Inv
  <1>6. CountsInv'
    BY <1>1, <1>4, CountsStep DEF Inv
  <1>7. CountedInv'
    BY <1>1, <1>4, CountedStep DEF Inv
  <1>8. AheadInv'
    BY <1>1, <1>4, AheadStep DEF Inv
  <1>9. EofInv'
    BY <1>1, EofStep DEF Inv, StreamInv
  <1> QED
    BY <1>1, <1>2, <1>3, <1>5, <1>6, <1>7, <1>8, <1>9 DEF Inv

\* Every reachable state satisfies the inductive invariant.
LEMMA Invariance == Spec => []Inv
  BY InitInv, NextInv, PTL DEF Spec

(***************************************************************************)
(* TypeOK in every reachable state: in particular a frame queue exceeds    *)
(* its size by one frame at most, and only after the abort                 *)
(* (av_frame_queue_put is reached past the wait for room), and no packet   *)
(* or frame is of a position that was not sought.                          *)
(***************************************************************************)
THEOREM TypeCorrect == Spec => []TypeOK
  <1>1. Inv => TypeOK
    <2> SUFFICES ASSUME Inv PROVE TypeOK
      OBVIOUS
    <2>1. \A s \in Streams : Len(dq[s]) <= DqSize + (IF m_abort THEN 1 ELSE 0)
      BY DEF Inv, StreamInv, DecoderInv
    <2>2. Types
      BY DEF Inv
    <2> QED
      BY <2>1, <2>2 DEF TypeOK, Types, FlagTypes, PlaceTypes, CountTypes, NumberTypes, FrameTypes
  <1> QED
    BY <1>1, Invariance, PTL

(***************************************************************************)
(* What read_pkt_thrd and the flush markers promise of a seek: after it no *)
(* more than MaxFrames + DqSize + 1 frames of the old position are shown   *)
(* (one per packet for video), however the decoder's drain and the         *)
(* renderer interleave.                                                    *)
(***************************************************************************)
THEOREM StaleFrames == Spec => []StaleBounded
  <1>1. Inv => StaleBounded
    <2> SUFFICES ASSUME Inv, NEW s \in Streams, ~Unflushed(s)
                 PROVE  stale[s] <= Bound(s)
      BY DEF StaleBounded, Bound, FramesOf
    <2>1. Types /\ DecoderInv(s) /\ StaleCount(s)
      BY DEF Inv, StreamInv, StaleInv
    <2>2. /\ stale[s] \in Nat /\ InHand(s) \in Nat /\ OldInHand(s) \in Nat
          /\ Len(dq[s]) \in Nat /\ ToCome(s) \in Nat /\ Bound(s) \in Nat
      BY <2>1, LocalTypes, LocalCounts
    <2>3. \/ stale[s] + InHand(s) + Len(dq[s]) + ToCome(s) <= Bound(s)
          \/ stale[s] + OldInHand(s) <= Bound(s)
      BY <2>1 DEF StaleCount
    <2> QED
      BY <2>2, <2>3
  <1> QED
    BY <1>1, Invariance, PTL

(***************************************************************************)
(* After av_pause the video renderer shows no frame but the one it holds,  *)
(* and the audio renderer, which does not look at m_play_status, no more   *)
(* than what was on its way.                                               *)
(***************************************************************************)
THEOREM PausedFrames == Spec => []PauseBounded
  <1>1. Inv => PauseBounded
    <2> SUFFICES ASSUME Inv, NEW s \in Streams
                 PROVE  late[s] <= IF s = "audio" THEN MaxFrames + DqSize + 1 ELSE 1
      BY DEF PauseBounded
    <2>1. s = "audio" => late[s] <= MaxFrames + DqSize + 1
      BY DEF Inv, StreamInv, LateCount, Bound, FramesOf
    <2>2. s = "video" => late[s] <= 1
      BY DEF Inv, StreamInv, HeldOnce
    <2> QED
      BY <2>1, <2>2, StreamsAssumption DEF AllStreams
  <1> QED
    BY <1>1, Invariance, PTL

(***************************************************************************)
(* The packets read ahead exceed MAX_PKT_BUFFER_SIZE by no more than one   *)
(* packet per decoder and one of the reader's own (two while a seek is     *)
(* asked for), although the counter is reset without its mutex.            *)
(***************************************************************************)
THEOREM ReadAhead == Spec => []ReadAheadBounded
  <1>1. Inv => ReadAheadBounded
    <2> SUFFICES ASSUME Inv PROVE ReadAheadBounded
      OBVIOUS
    <2>1. LargestPacket \in Nat
      BY Largest
    <2>2. Bytes <= Limit + (IF m_seek_req THEN 2 * LargestPacket ELSE LargestPacket)
      BY DEF Inv, AheadInv
    <2>3. (IF m_seek_req THEN 2 ELSE 1) * LargestPacket
            = IF m_seek_req THEN 2 * LargestPacket ELSE LargestPacket
      BY <2>1
    <2> QED
      BY <2>2, <2>3 DEF ReadAheadBounded, Limit, Sizes
  <1> QED
    BY <1>1, Invariance, PTL

(***************************************************************************)
(* The reader does not sleep for room before empty packet queues, unless a *)
(* reset of the counter was lost between a decoder's load and store: the   *)
(* account is never more than what is in the queues and in the threads'    *)
(* hands.                                                                  *)
(***************************************************************************)
THEOREM FullQueues == Spec => []FullMeansPackets
  <1>1. Inv => FullMeansPackets
    <2> SUFFICES ASSUME Inv, pcR = "full", BufferFull, ~lost,
                        \A s \in Streams : Packets(s) = 0 /\ ~InFlight(s)
                 PROVE  FALSE
      BY PacketsNat DEF FullMeansPackets, InFlight, Inv, StreamInv
    <2>1. Types /\ QueuesInv
      BY DEF Inv, StreamInv, QueuesInv
    <2>2. Bytes = 0
      <3>1. \A s \in Streams : Load[s] = 0
        BY DEF Load, Size
      <3> QED
        BY <2>1, <3>1, AccountTypes, TotalZero
    <2>3. InHands = 0 /\ PutHand = 0
      <3>1. \A s \in Streams : Flight[s] = 0
        BY DEF Flight
      <3> QED
        BY <2>1, <3>1, AccountTypes, TotalZero DEF InHands, PutHand
    <2>4. m_pkt_buffer_size <= 0
      BY <2>2, <2>3 DEF Inv, CountedInv, Held
    <2> QED
      BY <2>1, <2>4, BoundsAssumption DEF BufferFull, Types, CountTypes
  <1> QED
    BY <1>1, Invariance, PTL

(***************************************************************************)
(* When the reader concludes the end of the media from four sizes read one *)
(* after the other, no packet is in a queue, no audio frame waits, and of  *)
(* the video at most one frame has not reached its renderer.               *)
(***************************************************************************)
THEOREM EndReached == Spec => LittleLeftAtEnd
  <1>1. Inv /\ [Next]_vars =>
          (m_play_status # "completed" /\ m_play_status' = "completed" =>
             /\ \A s \in Streams : q[s] = <<>>
             /\ \A s \in Streams \cap {"audio"} : dq[s] = <<>>
             /\ \A s \in Streams \cap {"video"} :
                  Len(dq[s]) + (IF InDecoder(s) THEN 1 ELSE 0) <= 1)
    <2> SUFFICES ASSUME Inv, [Next]_vars,
                        m_play_status # "completed", m_play_status' = "completed"
                 PROVE  /\ \A s \in Streams : q[s] = <<>>
                        /\ \A s \in Streams \cap {"audio"} : dq[s] = <<>>
                        /\ \A s \in Streams \cap {"video"} : LeftInVideo <= 1
      BY DEF LeftInVideo, DecoderHas
    <2>1. ReadEofCheck /\ chk = 4 /\ EofQueue(chk) = <<>>
      <3>1. chk \in 1..4
        BY DEF Inv, Types, CountTypes
      <3>2. ReadEofCheck
        BY DEF Next, vars, control, Reader, ReadStart, ReadExit, ReadTop, ReadFlush,
           ReadReset, ReadSeekPacket, ReadPacket, ReadAccount, ReadPut, ReadEof, Decoder,
           DecLoop, DecGet, DecDrain, DecLoad, DecStore, DecDone, DecFrame, DecChk, DecPut,
           Renderer, RenLoop, RenGet, RenInit, RenShow, RenDrop, RenAssert, RenSkipRest,
           RenRelease, User, Started, Pause, PauseSeen, PauseSet, Resume, Seek, StopFlag,
           StopRequest, StopRelease
      <3> QED
        BY <3>1, <3>2 DEF ReadEofCheck
    <2>2. "audio" \in Streams => dq["audio"] = <<>>
      BY <2>1 DEF EofQueue
    <2>3. /\ "video" \in Streams => q["video"] = <<>> /\ LeftInVideo <= 1
          /\ "audio" \in Streams => q["audio"] = <<>>
      BY <2>1 DEF Inv, EofInv, ReadEofCheck
    <2> QED
      BY <2>2, <2>3, StreamsAssumption DEF AllStreams
  <1> QED
    BY <1>1, Invariance, PTL DEF Spec, LittleLeftAtEnd

=============================================================================
