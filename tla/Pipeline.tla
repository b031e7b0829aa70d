------------------------------ MODULE Pipeline ------------------------------
(***************************************************************************)
(* The playback pipeline of libav/avplay.c: read_pkt_thrd fills the packet *)
(* queues, one decoder per stream turns packets into frames, one renderer  *)
(* per stream shows them, and the application's thread starts, pauses,     *)
(* resumes, seeks and stops them through the av_* calls.                   *)
(*                                                                         *)
(* The av_queues are the FIFOs of FlushFifo: one queue operation is one    *)
(* step.  What the threads share without a lock (m_play_status,            *)
(* m_seek_req, m_seeking, m_rendering, the reset of m_pkt_buffer_size, the *)
(* queue sizes) is read and written in steps of its own.  gen is the       *)
(* number of seeks performed: it names the position a packet or frame      *)
(* comes from.                                                             *)
(***************************************************************************)
EXTENDS Integers, Sequences, FiniteSets, FiniteSetsExt

CONSTANTS Streams,     \* the streams of the media, a subset of AllStreams
          MaxPackets,  \* bound: packets of each stream until the end of the file
          MaxFrames,   \* bound: frames in an audio packet
          MaxBuffer,   \* MAX_PKT_BUFFER_SIZE, in audio packets
          DqSize,      \* AVDECODE_BUFFER_SIZE
          MaxSeeks,    \* bound: calls of av_seek
          MaxPauses,   \* bound: calls of av_pause
          MayStop,     \* whether the application calls av_stop
          StartSeek,   \* whether av_start is given a start time
          InitFails    \* whether the renderers' devices may fail to open

AllStreams == {"audio", "video"}

ASSUME StreamsAssumption == Streams \subseteq AllStreams /\ Streams # {}
ASSUME BoundsAssumption ==
  /\ MaxPackets \in [Streams -> Nat] /\ MaxSeeks \in Nat /\ MaxPauses \in Nat
  /\ MaxBuffer \in Nat /\ DqSize \in Nat \ {0} /\ MaxFrames \in Nat \ {0}
  /\ MayStop \in BOOLEAN /\ StartSeek \in BOOLEAN /\ InitFails \in BOOLEAN

VARIABLES
  m_play_status, m_rendering, m_seeking, m_seek_req, m_abort,
  abort_request,        \* of the four queues
  m_pkt_buffer_size,
  loaded,               \* the value a decoder read in m_pkt_buffer_size -= size
  q, dq,                \* packet and frame queue of each stream
  pcR, chk, hand, left, gen, \* reader: where it is, the EOF check's next queue,
                        \* its packet's stream, packets before EOF, seeks done
  pcD, pkt, frames,     \* decoders: where, the packet, frames it gave so far
  pcV, frm, ready,      \* renderers: where, the frame, inited
  pcU,                  \* the application's thread
  seeks, pauses,        \* calls made of av_seek and av_pause
  stale,                \* history: old frames shown since the last flush
  late,                 \* history: frames shown since av_pause took effect
  lost                  \* history: a reset of m_pkt_buffer_size was lost

control == <<m_play_status, m_rendering, m_seeking, m_seek_req, m_abort,
             abort_request>>
buffer == <<m_pkt_buffer_size, loaded>>
reader == <<pcR, chk, hand, left, gen>>
decoder == <<pcD, pkt, frames>>
renderer == <<pcV, frm, ready>>
user == <<pcU, seeks, pauses>>
history == <<stale, late, lost>>
vars == <<control, buffer, q, dq, reader, decoder, renderer, user, history>>

\* packet.size: video packets are larger than audio packets.
Size(s) == IF s = "video" THEN 2 ELSE 1

FLUSH == [flush |-> TRUE, gen |-> 0, skip |-> FALSE]
NONE == FLUSH         \* what a thread has in hand when it has nothing
Data(g) == [flush |-> FALSE, gen |-> g, skip |-> FALSE]

NOSEEKING == 0
SEEKING == -1
PENDING == 1      \* m_seeking > 0: the position of a seek to be done later

-----------------------------------------------------------------------------
\* initialize and the first lines of av_start: the threads are created.
Init ==
  /\ m_play_status = "inited" /\ m_rendering = FALSE
  /\ m_seeking = NOSEEKING /\ m_seek_req = FALSE
  /\ m_abort = FALSE /\ abort_request = FALSE
  /\ m_pkt_buffer_size = 0 /\ loaded = 0
  /\ q = [s \in Streams |-> <<FLUSH>>] /\ dq = [s \in Streams |-> <<FLUSH>>]
  /\ pcR = "start" /\ chk = 1 /\ hand = "none" /\ gen = 0
  /\ left = MaxPackets
  /\ pcD = [s \in Streams |-> "loop"] /\ pkt = [s \in Streams |-> NONE]
  /\ frames = [s \in Streams |-> 0]
  /\ pcV = [s \in Streams |-> "loop"] /\ frm = [s \in Streams |-> NONE]
  /\ ready = [s \in Streams |-> "no"]
  /\ pcU = "starting" /\ seeks = 0 /\ pauses = 0
  /\ stale = [s \in Streams |-> 0] /\ late = [s \in Streams |-> 0]
  /\ lost = FALSE

(***************************************************************************)
(* av_seek, called by the application and by the reader itself.  A seek    *)
(* that finds another one under way is kept in m_seeking for later.        *)
(***************************************************************************)
AvSeek ==
  IF m_seeking = SEEKING \/ (m_seeking = PENDING /\ m_seek_req)
    THEN m_seeking' = PENDING /\ UNCHANGED m_seek_req
    ELSE IF m_seek_req
           THEN UNCHANGED <<m_seeking, m_seek_req>>
           ELSE m_seeking' = SEEKING /\ m_seek_req' = TRUE

-----------------------------------------------------------------------------
\* read_pkt_thrd seeks to m_start_time first, if there is one.
ReadStart ==
  /\ pcR = "start"
  /\ IF StartSeek THEN AvSeek ELSE UNCHANGED <<m_seeking, m_seek_req>>
  /\ pcR' = "top"
  /\ UNCHANGED <<m_play_status, m_rendering, m_abort, abort_request, buffer, q, dq,
                 chk, hand, left, gen, decoder, renderer, user, history>>

ReadExit ==
  /\ pcR \in {"top", "full"} /\ m_abort
  /\ pcR' = "exit"
  /\ UNCHANGED <<control, buffer, q, dq, chk, hand, left, gen, decoder, renderer,
                 user, history>>

\* The stream that a seek flushes first, audio, and the one it flushes next.
FirstFlushed == IF "audio" \in Streams THEN "audio" ELSE "video"

\* The top of the loop: the seek kept in m_seeking is asked for again, and a
\* seek that is asked for is begun.
ReadTop ==
  /\ pcR = "top" /\ ~m_abort
  /\ IF m_seeking = PENDING THEN AvSeek ELSE UNCHANGED <<m_seeking, m_seek_req>>
  /\ IF m_seek_req'
       THEN pcR' = "flush" /\ hand' = FirstFlushed /\ gen' = gen + 1
       ELSE pcR' = "full" /\ UNCHANGED <<hand, gen>>
  /\ UNCHANGED <<m_play_status, m_rendering, m_abort, abort_request, buffer, q, dq,
                 chk, left, decoder, renderer, user, history>>

\* Mutant: the marker is put but the queue is not flushed.
Flushed_Kept(s) == Append(q[s], FLUSH)
Flushed(s) == <<FLUSH>>

\* queue_flush and put_queue(&flush_pkt), stream by stream.
ReadFlush ==
  /\ pcR = "flush"
  /\ q' = [q EXCEPT ![hand] = Flushed(hand)]
  /\ stale' = [stale EXCEPT ![hand] = 0]
  /\ IF hand = "audio" /\ "video" \in Streams
       THEN hand' = "video" /\ UNCHANGED pcR
       ELSE hand' = "none" /\ pcR' = "reset"
  /\ UNCHANGED <<control, buffer, dq, chk, left, gen, decoder, renderer, user,
                 late, lost>>

\* m_buf_size_mtx is free: no decoder is between its load and its store.
BufMtxFree == \A s \in Streams : pcD[s] # "sub"

\* m_pkt_buffer_size = 0, without m_buf_size_mtx: a decoder that has loaded the
\* old sum stores it back.
ReadReset ==
  /\ pcR = "reset"
  /\ m_pkt_buffer_size' = 0
  /\ lost' = (lost \/ ~BufMtxFree)
  /\ pcR' = "seek_packet"
  /\ UNCHANGED <<control, loaded, q, dq, chk, hand, left, gen, decoder, renderer,
                 user, stale, late>>

\* dc->seek_packet moves the demuxer; then the request is done.
ReadSeekPacket ==
  /\ pcR = "seek_packet"
  /\ left' = MaxPackets
  /\ m_seek_req' = FALSE
  /\ pcR' = "full"
  /\ UNCHANGED <<m_play_status, m_rendering, m_seeking, m_abort, abort_request,
                 buffer, q, dq, chk, hand, gen, decoder, renderer, user, history>>

\* Mutant: a seek does not end the wait for room in the buffer.
BufferFull_NoSeek == m_pkt_buffer_size > MaxBuffer
BufferFull == m_pkt_buffer_size > MaxBuffer /\ ~m_seek_req

\* The reader sleeps while the buffer is full.
HasRoom == pcR = "full" /\ ~m_abort /\ ~BufferFull

\* dc->read_packet succeeds.
ReadPacket ==
  /\ HasRoom
  /\ \E s \in Streams :
       /\ left[s] > 0
       /\ left' = [left EXCEPT ![s] = @ - 1]
       /\ hand' = s
  /\ m_play_status' = IF m_play_status = "completed" THEN "playing" ELSE m_play_status
  /\ pcR' = "account"
  /\ UNCHANGED <<m_rendering, m_seeking, m_seek_req, m_abort, abort_request, buffer,
                 q, dq, chk, gen, decoder, renderer, user, history>>

\* m_pkt_buffer_size += packet.size, under m_buf_size_mtx.
\* Mutant: only video packets are counted.
Added_VideoOnly(s) == IF s = "video" THEN Size(s) ELSE 0
Added(s) == Size(s)

ReadAccount ==
  /\ pcR = "account" /\ BufMtxFree
  /\ m_pkt_buffer_size' = m_pkt_buffer_size + Added(hand)
  /\ pcR' = "put"
  /\ UNCHANGED <<control, loaded, q, dq, chk, hand, left, gen, decoder, renderer,
                 user, history>>

ReadPut ==
  /\ pcR = "put"
  /\ q' = [q EXCEPT ![hand] = Append(@, Data(gen))]
  /\ hand' = "none" /\ pcR' = "top"
  /\ UNCHANGED <<control, buffer, dq, chk, left, gen, decoder, renderer, user,
                 history>>

\* dc->read_packet fails: the end of the file, or an error.
ReadEof ==
  /\ HasRoom
  /\ \A s \in Streams : left[s] = 0
  /\ pcR' = "eof"
  /\ UNCHANGED <<control, buffer, q, dq, chk, hand, left, gen, decoder, renderer, user,
                 history>>

\* The queues whose m_size the reader reads, without a lock, one by one.
\* Mutant: the frame queues first.
EofQueue_FramesFirst(i) ==
  LET s == IF i \in {1, 3} THEN "video" ELSE "audio"
  IN IF s \notin Streams THEN <<>> ELSE IF i > 2 THEN q[s] ELSE dq[s]
EofQueue(i) ==
  LET s == IF i \in {1, 3} THEN "video" ELSE "audio"
  IN IF s \notin Streams THEN <<>> ELSE IF i <= 2 THEN q[s] ELSE dq[s]

ReadEofCheck ==
  /\ pcR = "eof"
  /\ IF EofQueue(chk) # <<>>
       THEN pcR' = "top" /\ chk' = 1 /\ UNCHANGED m_play_status
       ELSE IF chk < 4
              THEN chk' = chk + 1 /\ UNCHANGED <<pcR, m_play_status>>
              ELSE m_play_status' = "completed" /\ pcR' = "top" /\ chk' = 1
  /\ UNCHANGED <<m_rendering, m_seeking, m_seek_req, m_abort, abort_request, buffer,
                 q, dq, hand, left, gen, decoder, renderer, user, history>>

Reader == \/ ReadStart \/ ReadExit \/ ReadTop \/ ReadFlush \/ ReadReset
          \/ ReadSeekPacket \/ ReadPacket \/ ReadAccount \/ ReadPut
          \/ ReadEof \/ ReadEofCheck

-----------------------------------------------------------------------------
(***************************************************************************)
(* audio_dec_thrd and video_dec_thrd.                                      *)
(***************************************************************************)
\* Mutant: the decoders do not pause.
MayDecode_Always == TRUE
MayDecode == m_play_status # "paused"

\* The top of the loop: the decoder ends on m_abort and waits while paused.
DecLoop(s) ==
  /\ pcD[s] = "loop" /\ (MayDecode \/ m_abort)
  /\ pcD' = [pcD EXCEPT ![s] = IF m_abort THEN "exit" ELSE "get"]
  /\ UNCHANGED <<control, buffer, q, dq, reader, pkt, frames, renderer, user, history>>

\* get_queue; with the abort request it returns -1.
DecGet(s) ==
  /\ pcD[s] = "get"
  /\ IF abort_request
       THEN pcD' = [pcD EXCEPT ![s] = "loop"] /\ UNCHANGED <<q, pkt>>
       ELSE /\ q[s] # <<>>
            /\ pkt' = [pkt EXCEPT ![s] = Head(q[s])]
            /\ q' = [q EXCEPT ![s] = Tail(@)]
            /\ pcD' = [pcD EXCEPT ![s] = IF Head(q[s]).flush THEN "drain" ELSE "lock"]
  /\ UNCHANGED <<control, buffer, dq, reader, frames, renderer, user, history>>

DrainOver(s) == dq[s] = <<>> \/ abort_request

\* flush_pkt: wait for the renderer, then mark what is left to be skipped.
DecDrain(s) ==
  /\ pcD[s] = "drain" /\ DrainOver(s)
  /\ dq' = [dq EXCEPT ![s] = [i \in DOMAIN @ |-> [@[i] EXCEPT !.skip = TRUE]]]
  /\ pcD' = [pcD EXCEPT ![s] = "loop"]
  /\ UNCHANGED <<control, buffer, q, reader, pkt, frames, renderer, user, history>>

\* m_pkt_buffer_size -= pkt.size: the load and the store, under the mutex.
DecLoad(s) ==
  /\ pcD[s] = "lock" /\ BufMtxFree
  /\ loaded' = m_pkt_buffer_size
  /\ pcD' = [pcD EXCEPT ![s] = "sub"]
  /\ UNCHANGED <<control, m_pkt_buffer_size, q, dq, reader, pkt, frames, renderer,
                 user, history>>

\* Mutant: the packet is not subtracted.
Subtracted_Kept(s) == loaded
Subtracted(s) == loaded - Size(s)

DecStore(s) ==
  /\ pcD[s] = "sub"
  /\ m_pkt_buffer_size' = Subtracted(s) /\ loaded' = 0
  /\ pcD' = [pcD EXCEPT ![s] = "decode"]
  /\ UNCHANGED <<control, q, dq, reader, pkt, frames, renderer, user, history>>

\* No frame, no more frames, an error or a dropped frame: the packet is done.
DecDone(s) ==
  /\ pcD[s] = "decode"
  /\ pkt' = [pkt EXCEPT ![s] = NONE] /\ frames' = [frames EXCEPT ![s] = 0]
  /\ pcD' = [pcD EXCEPT ![s] = "loop"]
  /\ UNCHANGED <<control, buffer, q, dq, reader, renderer, user, history>>

\* A video packet gives one frame at most; an audio packet may give more.
DecFrame(s) ==
  /\ pcD[s] = "decode"
  /\ s = "audio" => ~m_abort
  /\ frames[s] < IF s = "audio" THEN MaxFrames ELSE 1
  /\ frames' = [frames EXCEPT ![s] = @ + 1]
  /\ pcD' = [pcD EXCEPT ![s] = "chk"]
  /\ UNCHANGED <<control, buffer, q, dq, reader, pkt, renderer, user, history>>

\* Mutant: off by one.
DqRoom_OffByOne(s) == Len(dq[s]) <= DqSize
DqRoom(s) == Len(dq[s]) < DqSize

\* chk_queue
DecChk(s) ==
  /\ pcD[s] = "chk" /\ (DqRoom(s) \/ m_abort)
  /\ pcD' = [pcD EXCEPT ![s] = "put"]
  /\ UNCHANGED <<control, buffer, q, dq, reader, pkt, frames, renderer, user, history>>

DecPut(s) ==
  /\ pcD[s] = "put"
  /\ dq' = [dq EXCEPT ![s] = Append(@, pkt[s])]
  /\ pcD' = [pcD EXCEPT ![s] = "decode"]
  /\ UNCHANGED <<control, buffer, q, reader, pkt, frames, renderer, user, history>>

Decoder(s) == \/ DecLoop(s) \/ DecGet(s) \/ DecDrain(s) \/ DecLoad(s) \/ DecStore(s)
              \/ DecDone(s) \/ DecFrame(s) \/ DecChk(s) \/ DecPut(s)

-----------------------------------------------------------------------------
(***************************************************************************)
(* audio_render_thrd and video_render_thrd.                                *)
(***************************************************************************)
RenLoop(s) ==
  /\ pcV[s] = "loop"
  /\ pcV' = [pcV EXCEPT ![s] = IF m_abort THEN "exit" ELSE "get"]
  /\ UNCHANGED <<control, buffer, q, dq, reader, decoder, frm, ready, user, history>>

\* get_queue.  The video renderer then sets m_rendering.
RenGet(s) ==
  /\ pcV[s] = "get"
  /\ IF abort_request
       THEN /\ pcV' = [pcV EXCEPT ![s] = "loop"]
            /\ UNCHANGED <<dq, frm, m_rendering>>
       ELSE /\ dq[s] # <<>>
            /\ frm' = [frm EXCEPT ![s] = Head(dq[s])]
            /\ dq' = [dq EXCEPT ![s] = Tail(@)]
            /\ m_rendering' = (m_rendering \/ s = "video")
            /\ pcV' = [pcV EXCEPT ![s] =
                         IF s = "audio" /\ Head(dq[s]).flush THEN "loop" ELSE "init"]
  /\ UNCHANGED <<m_play_status, m_seeking, m_seek_req, m_abort, abort_request, buffer,
                 q, reader, decoder, ready, user, history>>

FrameDone(s) == frm' = [frm EXCEPT ![s] = NONE]

\* What becomes of the frame once the device is open.
AfterInit(s) == IF frm[s].flush \/ (s = "audio" /\ frm[s].skip) THEN "loop"
                ELSE "show"

\* The first frame opens the device and sets the status to playing.
RenInit(s) ==
  /\ pcV[s] = "init"
  /\ \/ ready[s] # "no" /\ UNCHANGED <<ready, m_play_status>>
     \/ /\ ready[s] = "no"
        /\ ready' = [ready EXCEPT ![s] = "yes"]
        /\ m_play_status' = "playing"
     \/ /\ ready[s] = "no" /\ InitFails
        /\ ready' = [ready EXCEPT ![s] = "failed"]
        /\ UNCHANGED m_play_status
  /\ pcV' = [pcV EXCEPT ![s] = AfterInit(s)]
  /\ IF AfterInit(s) = "loop" THEN FrameDone(s) ELSE UNCHANGED frm
  /\ UNCHANGED <<m_rendering, m_seeking, m_seek_req, m_abort, abort_request, buffer,
                 q, dq, reader, decoder, user, history>>

\* The first frame rendered after a seek ends the seek.
SeekEnds == m_seeking' = IF m_seeking = SEEKING THEN NOSEEKING ELSE m_seeking

Shown(s) ==
  /\ stale' = [stale EXCEPT ![s] = @ + IF frm[s].gen < gen THEN 1 ELSE 0]
  /\ late' = [late EXCEPT ![s] = @ + IF m_play_status = "paused" THEN 1 ELSE 0]
  /\ UNCHANGED lost

\* play_audio took the frame, or render_one_frame drew it.  The video
\* renderer is then done with it and clears m_rendering.
RenShow(s) ==
  /\ pcV[s] = "show" /\ ~frm[s].skip
  /\ s = "audio" => ready[s] = "yes"
  /\ IF ready[s] = "yes" THEN Shown(s) ELSE UNCHANGED history
  /\ SeekEnds
  /\ m_rendering' = (m_rendering /\ s # "video")
  /\ pcV' = [pcV EXCEPT ![s] = IF s = "video" THEN "hold" ELSE "loop"]
  /\ FrameDone(s)
  /\ UNCHANGED <<m_play_status, m_seek_req, m_abort, abort_request, buffer, q, dq,
                 reader, decoder, ready, user>>

\* The video renderer skips a marked frame, or drops one that is late while
\* more than one follows.
RenDrop(s) ==
  /\ s = "video" /\ pcV[s] = "show"
  /\ frm[s].skip \/ ("audio" \in Streams /\ Len(dq[s]) > 1)
  /\ m_rendering' = FALSE
  /\ pcV' = [pcV EXCEPT ![s] = "hold"]
  /\ FrameDone(s)
  /\ UNCHANGED <<m_play_status, m_seeking, m_seek_req, m_abort, abort_request, buffer,
                 q, dq, reader, decoder, ready, user, history>>

\* assert(0): the audio renderer has a frame and no device.
RenAssert(s) ==
  /\ s = "audio" /\ pcV[s] = "show" /\ ready[s] = "failed"
  /\ SeekEnds
  /\ pcV' = [pcV EXCEPT ![s] = "assert"]
  /\ FrameDone(s)
  /\ UNCHANGED <<m_play_status, m_rendering, m_seek_req, m_abort, abort_request,
                 buffer, q, dq, reader, decoder, ready, user, history>>

\* The audio device is full and the frames behind are to be skipped.
RenSkipRest(s) ==
  /\ s = "audio" /\ pcV[s] = "show" /\ ready[s] = "yes"
  /\ dq[s] # <<>> /\ dq[s][Len(dq[s])].skip
  /\ SeekEnds
  /\ pcV' = [pcV EXCEPT ![s] = "loop"]
  /\ FrameDone(s)
  /\ UNCHANGED <<m_play_status, m_rendering, m_seek_req, m_abort, abort_request,
                 buffer, q, dq, reader, decoder, ready, user, history>>

\* While paused the video renderer draws the same frame again and again.
\* Mutant: it does not look at m_abort there.
Holds_NoAbort(s) == m_play_status = "paused" /\ ready[s] = "yes"
Holds(s) == m_play_status = "paused" /\ ready[s] = "yes" /\ ~m_abort

RenRelease(s) ==
  /\ pcV[s] = "hold" /\ ~Holds(s)
  /\ pcV' = [pcV EXCEPT ![s] = "loop"]
  /\ UNCHANGED <<control, buffer, q, dq, reader, decoder, frm, ready, user, history>>

Renderer(s) == \/ RenLoop(s) \/ RenGet(s) \/ RenInit(s) \/ RenShow(s) \/ RenDrop(s)
               \/ RenAssert(s) \/ RenSkipRest(s) \/ RenRelease(s)

-----------------------------------------------------------------------------
\* The end of av_start, when the threads already run.
Started ==
  /\ pcU = "starting"
  /\ m_play_status' = "playing" /\ pcU' = "ui"
  /\ UNCHANGED <<m_rendering, m_seeking, m_seek_req, m_abort, abort_request, buffer,
                 q, dq, reader, decoder, renderer, seeks, pauses, history>>

\* av_pause: waits for m_rendering, then sets the status.
Pause ==
  /\ pcU = "ui" /\ pauses < MaxPauses
  /\ pauses' = pauses + 1 /\ pcU' = "pausing"
  /\ UNCHANGED <<control, buffer, q, dq, reader, decoder, renderer, seeks, history>>

PauseSeen ==
  /\ pcU = "pausing" /\ m_rendering
  /\ pcU' = "pause"
  /\ UNCHANGED <<control, buffer, q, dq, reader, decoder, renderer, seeks, pauses,
                 history>>

PauseSet ==
  /\ pcU = "pause"
  /\ m_play_status' = "paused" /\ pcU' = "ui"
  /\ late' = [s \in Streams |-> 0]
  /\ UNCHANGED <<m_rendering, m_seeking, m_seek_req, m_abort, abort_request, buffer,
                 q, dq, reader, decoder, renderer, seeks, pauses, stale, lost>>

Resume ==
  /\ pcU = "ui" /\ m_play_status = "paused"
  /\ m_play_status' = "playing"
  /\ late' = [s \in Streams |-> 0]
  /\ UNCHANGED <<m_rendering, m_seeking, m_seek_req, m_abort, abort_request, buffer,
                 q, dq, reader, decoder, renderer, user, stale, lost>>

Seek ==
  /\ pcU = "ui" /\ seeks < MaxSeeks
  /\ AvSeek /\ seeks' = seeks + 1
  /\ UNCHANGED <<m_play_status, m_rendering, m_abort, abort_request, buffer, q, dq,
                 reader, decoder, renderer, pcU, pauses, history>>

\* av_stop: the flags, the join of the threads, and the release.
StopFlag ==
  /\ pcU = "ui" /\ MayStop
  /\ m_abort' = TRUE /\ pcU' = "request"
  /\ UNCHANGED <<m_play_status, m_rendering, m_seeking, m_seek_req, abort_request,
                 buffer, q, dq, reader, decoder, renderer, seeks, pauses, history>>

StopRequest ==
  /\ pcU = "request"
  /\ abort_request' = TRUE /\ pcU' = "join"
  /\ UNCHANGED <<m_play_status, m_rendering, m_seeking, m_seek_req, m_abort, buffer,
                 q, dq, reader, decoder, renderer, seeks, pauses, history>>

ThreadsExited == pcR = "exit" /\ \A s \in Streams : pcD[s] = "exit" /\ pcV[s] = "exit"

StopRelease ==
  /\ pcU = "join" /\ ThreadsExited
  /\ m_play_status' = "stoped" /\ pcU' = "stopped"
  /\ q' = [s \in Streams |-> <<>>] /\ dq' = [s \in Streams |-> <<>>]
  /\ UNCHANGED <<m_rendering, m_seeking, m_seek_req, m_abort, abort_request, buffer,
                 reader, decoder, renderer, seeks, pauses, history>>

User == \/ Started \/ Pause \/ PauseSeen \/ PauseSet \/ Resume \/ Seek
        \/ StopFlag \/ StopRequest \/ StopRelease

Next == Reader \/ (\E s \in Streams : Decoder(s) \/ Renderer(s)) \/ User

Spec == Init /\ [][Next]_vars

(***************************************************************************)
(* Every thread keeps running; the audio device takes what it is given,    *)
(* and a video frame's time comes.  The application owes nothing but to    *)
(* finish the call it is in.                                               *)
(***************************************************************************)
Fairness ==
  /\ WF_vars(Reader)
  /\ \A s \in Streams : WF_vars(Decoder(s)) /\ WF_vars(Renderer(s))
  /\ WF_vars(Started \/ PauseSeen \/ PauseSet \/ StopRequest \/ StopRelease)

FairSpec == Spec /\ Fairness

-----------------------------------------------------------------------------
Frame == [flush : BOOLEAN, gen : 0..(MaxSeeks + 1), skip : BOOLEAN]

(***************************************************************************)
(* The types.  The frame queue of a stream never holds more than           *)
(* AVDECODE_BUFFER_SIZE frames, although the decoder checks for room and   *)
(* puts the frame under two separate locks; av_stop lets one more in, for  *)
(* chk_queue no longer waits.                                              *)
(***************************************************************************)
TypeOK ==
  /\ m_play_status \in {"inited", "playing", "paused", "completed", "stoped"}
  /\ m_rendering \in BOOLEAN /\ m_seek_req \in BOOLEAN
  /\ m_abort \in BOOLEAN /\ abort_request \in BOOLEAN
  /\ m_seeking \in {SEEKING, NOSEEKING, PENDING}
  /\ m_pkt_buffer_size \in Int /\ loaded \in Int
  /\ q \in [Streams -> Seq(Frame)] /\ dq \in [Streams -> Seq(Frame)]
  /\ \A s \in Streams : Len(dq[s]) <= DqSize + (IF m_abort THEN 1 ELSE 0)
  /\ pcR \in {"start", "top", "flush", "reset", "seek_packet", "full", "account",
              "put", "eof", "exit"}
  /\ chk \in 1..4 /\ hand \in Streams \cup {"none"} /\ gen \in Nat
  /\ left \in [Streams -> Nat]
  /\ pcD \in [Streams -> {"loop", "get", "drain", "lock", "sub", "decode",
                          "chk", "put", "exit"}]
  /\ pkt \in [Streams -> Frame] /\ frames \in [Streams -> 0..MaxFrames]
  /\ pcV \in [Streams -> {"loop", "get", "init", "show", "assert", "hold", "exit"}]
  /\ frm \in [Streams -> Frame] /\ ready \in [Streams -> {"no", "yes", "failed"}]
  /\ pcU \in {"starting", "ui", "pausing", "pause", "request", "join", "stopped"}
  /\ seeks \in 0..MaxSeeks /\ pauses \in 0..MaxPauses
  /\ stale \in [Streams -> Nat] /\ late \in [Streams -> Nat]
  /\ lost \in BOOLEAN

\* The packets in the queue of a stream, flush_pkt not counted.
Packets(s) == Cardinality({i \in DOMAIN q[s] : ~q[s][i].flush})

\* The sum of what f gives for each stream.
Total(f) == (IF "audio" \in Streams THEN f["audio"] ELSE 0)
            + (IF "video" \in Streams THEN f["video"] ELSE 0)

Bytes == Total([s \in Streams |-> Size(s) * Packets(s)])

(***************************************************************************)
(* However seeks race with the decoders' accounting of m_pkt_buffer_size,  *)
(* what is read ahead exceeds MAX_PKT_BUFFER_SIZE at most by the packet    *)
(* that made the buffer full, by one packet per decoder (taken before the  *)
(* reset of the counter, subtracted after it), and by the packet that the  *)
(* reader reads when a seek ends its wait.                                 *)
(***************************************************************************)
LargestPacket == Max({Size(s) : s \in Streams})

ReadAheadBounded ==
  Bytes <= MaxBuffer + Total([s \in Streams |-> Size(s)])
             + (IF m_seek_req THEN 2 ELSE 1) * LargestPacket

(***************************************************************************)
(* Once a seek has flushed a stream, its renderer shows at most as many    *)
(* frames of an old position as were on their way: the frames of the       *)
(* decoder's packet, the frame queue, and the frame it holds.              *)
(***************************************************************************)
Unflushed(s) == pcR = "flush" /\ (hand = s \/ hand = "audio")

StaleBounded ==
  \A s \in Streams :
    ~Unflushed(s) =>
      stale[s] <= (IF s = "audio" THEN MaxFrames ELSE 1) + DqSize + 1

(***************************************************************************)
(* After av_pause the video renderer shows the frame it holds and no other *)
(* (the decoders see m_play_status, and so does the renderer's redraw      *)
(* loop); the audio renderer, which does not look at m_play_status, plays  *)
(* what was on its way.                                                    *)
(***************************************************************************)
PauseBounded ==
  \A s \in Streams :
    late[s] <= IF s = "audio" THEN MaxFrames + DqSize + 1 ELSE 1

(***************************************************************************)
(* A requested seek is taken up by the reader even when the buffer is full *)
(* and playback is paused, unless playback stops.                          *)
(***************************************************************************)
SeekTaken == m_seek_req ~> (~m_seek_req \/ m_abort)

(***************************************************************************)
(* av_stop returns, wherever the threads wait when it is called: paused,   *)
(* for room, for packets, for the drain of a queue.                        *)
(***************************************************************************)
StopReturns == (pcU = "join") ~> (pcU = "stopped")

(***************************************************************************)
(* Playback that is neither paused, sought nor stopped reaches the end of  *)
(* the media: reader, decoder and renderer do not wait for each other for  *)
(* ever.                                                                   *)
(***************************************************************************)
Completes ==
  <>(m_play_status \in {"completed", "paused"} \/ m_abort \/ seeks > 0)

(***************************************************************************)
(* The end of the media is concluded from four sizes read one after the    *)
(* other, without a lock, while packets and frames are in the threads'     *)
(* hands.  The order saves it: once the packet queues were seen empty only *)
(* what a decoder has in hand can still reach the frame queues, so at      *)
(* "completed" no packet waits, no audio frame does, and of the video at   *)
(* most one frame has not reached its renderer.                            *)
(***************************************************************************)
InDecoder(s) == \/ pcD[s] \in {"lock", "sub", "chk", "put"}
                \/ pcD[s] = "decode" /\ frames[s] = 0

LittleLeftAtEnd ==
  [][m_play_status # "completed" /\ m_play_status' = "completed" =>
       /\ \A s \in Streams : q[s] = <<>>
       /\ \A s \in Streams \cap {"audio"} : dq[s] = <<>>
       /\ \A s \in Streams \cap {"video"} :
            Len(dq[s]) + (IF InDecoder(s) THEN 1 ELSE 0) <= 1]_vars

(***************************************************************************)
(* "The buffer is read full, sleep here" (comment at avplay.c:1164): the   *)
(* reader sleeps for room only while there are packets to be decoded,      *)
(* unless a seek's reset of the counter, made without the mutex, was lost  *)
(* between a decoder's load and its store.                                 *)
(***************************************************************************)
FullMeansPackets ==
  pcR = "full" /\ BufferFull /\ ~m_abort /\ ~lost =>
    \E s \in Streams : Packets(s) > 0 \/ pcD[s] \in {"lock", "sub"}
=============================================================================
