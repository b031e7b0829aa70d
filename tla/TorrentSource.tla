---------------------------- MODULE TorrentSource ----------------------------
(***************************************************************************)
(* Playing from a torrent: read_pkt_thrd (libav/avplay.c) reads and seeks  *)
(* through the demuxer (demux/generic_demux.cpp), which holds its mutex    *)
(* over the calls, through the source (source/torrent_source.cpp), which   *)
(* holds another one over a read, and through extern_read_op, which asks   *)
(* libtorrent for a whole piece and sleeps until libtorrent's network      *)
(* thread calls on_read.  The application stops or destroys the player     *)
(* meanwhile.                                                              *)
(*                                                                         *)
(* Offsets are counted in units of a fraction of a piece.                  *)
(***************************************************************************)
EXTENDS Integers, Sequences, FiniteSets

CONSTANTS PieceLength, TorrentSize,
          BaseOffset, DataSize, \* the video's place in the torrent
          IOBuffer,    \* IO_BUFFER_SIZE, what the demuxer asks for at a time
          IntLimit,    \* 2^31: an int holds -IntLimit..IntLimit - 1
          MaxErrors,   \* bound: pieces that the disk fails to read
          MaxWakeups   \* bound: spurious wakeups of a condition variable

ASSUME LayoutAssumption ==
  /\ PieceLength \in Nat \ {0} /\ TorrentSize \in Nat /\ BaseOffset \in Nat
  /\ DataSize \in Nat \ {0} /\ BaseOffset + DataSize <= TorrentSize
ASSUME BoundsAssumption ==
  /\ IOBuffer \in Nat \ {0} /\ IntLimit \in Nat \ {0}
  /\ MaxErrors \in Nat /\ MaxWakeups \in Nat

VARIABLES
  have,           \* the pieces downloaded
  asked,          \* the pieces asked for with read_piece and not answered
  offset,         \* m_current_video.offset, in the torrent
  ts_abort, op,   \* torrent_source: m_abort; m_read_op is there
  not_enough,     \* source_context.dl_info.not_enough
  m_read_offset, read_size,   \* extern_read_op: the request and its answer
  pos,            \* where the demuxer is in the video, by what it was told
  demux,          \* "open", "closed" (m_format_ctx is NULL) or "deleted"
  m_mutex, m_abort_mutex,     \* of the demuxer and the source: who holds them
  m_abort,        \* avplay.m_abort
  pcR, pcU,       \* read_pkt_thrd and the application's thread
  errors, wakeups \* how many there were

torrent == <<have, asked, errors>>
source == <<offset, ts_abort, op, not_enough>>
readOp == <<m_read_offset, read_size>>
locks == <<m_mutex, m_abort_mutex>>
vars == <<torrent, source, readOp, pos, demux, locks, m_abort, pcR, pcU, wakeups>>

PieceOf(o) == o \div PieceLength
Piece == 0..PieceOf(TorrentSize - 1)
PieceEnd(p) == IF (p + 1) * PieceLength < TorrentSize THEN (p + 1) * PieceLength
               ELSE TorrentSize

\* The demuxer is open, read_pkt_thrd runs.
Init ==
  /\ have = {} /\ asked = <<>> /\ errors = 0
  /\ offset = BaseOffset /\ ts_abort = FALSE /\ op = TRUE /\ not_enough = FALSE
  /\ m_read_offset = 0 /\ read_size = 0
  /\ pos = 0 /\ demux = "open"
  /\ m_mutex = "none" /\ m_abort_mutex = "none"
  /\ m_abort = FALSE /\ pcR = "top" /\ pcU = "ui" /\ wakeups = 0

-----------------------------------------------------------------------------
(***************************************************************************)
(* libtorrent.                                                             *)
(***************************************************************************)
Download ==
  /\ \E p \in Piece \ have : have' = have \cup {p}
  /\ UNCHANGED <<asked, errors, source, readOp, pos, demux, locks, m_abort, pcR,
                 pcU, wakeups>>

\* What on_read copies: as much as is asked for and the piece has.  (After a
\* spurious wakeup the piece may not be the one that is waited for now.)
Copied(p) == IF PieceEnd(p) - m_read_offset >= IOBuffer THEN IOBuffer
             ELSE PieceEnd(p) - m_read_offset

\* Mutant: an error is not notified.
Notified_DataOnly(n) == pcR = "wait" /\ n # 0
Notified(n) == pcR = "wait"

\* on_read, with the piece or, after a disk error, with nothing.  memcpy takes
\* a negative length for a huge one: the program ends there.
Answer(n) ==
  /\ asked' = Tail(asked)
  /\ read_size' = IF n < 0 THEN read_size ELSE n
  /\ pcR' = IF n < 0 THEN "crash" ELSE IF Notified(n) THEN "woken" ELSE pcR
  /\ UNCHANGED <<have, source, m_read_offset, pos, demux, locks, m_abort, pcU,
                 wakeups>>

OnRead ==
  /\ asked # <<>>
  /\ Answer(Copied(Head(asked)))
  /\ UNCHANGED errors

OnReadError ==
  /\ asked # <<>> /\ errors < MaxErrors
  /\ Answer(0)
  /\ errors' = errors + 1

-----------------------------------------------------------------------------
(***************************************************************************)
(* read_pkt_thrd: av_read_frame or avformat_seek_file, under the demuxer's *)
(* mutex, does any number of reads and seeks.                              *)
(***************************************************************************)
ReadTop ==
  /\ pcR = "top"
  /\ pcR' = IF m_abort THEN "exit" ELSE "call"
  /\ UNCHANGED <<torrent, source, readOp, pos, demux, locks, m_abort, pcU, wakeups>>

\* The packet call of the demuxer that is in demux_context.priv.
Enter ==
  /\ pcR = "call" /\ demux # "deleted" /\ m_mutex = "none"
  /\ IF demux = "open" THEN pcR' = "io" /\ m_mutex' = "R"
     ELSE pcR' = "top" /\ UNCHANGED m_mutex
  /\ UNCHANGED <<torrent, source, readOp, pos, demux, m_abort_mutex, m_abort, pcU,
                 wakeups>>

\* demux_context.priv is NULL, or the mutex waited for is gone.
Crash ==
  /\ pcR = "call" /\ demux = "deleted"
  /\ pcR' = "crash"
  /\ UNCHANGED <<torrent, source, readOp, pos, demux, locks, m_abort, pcU, wakeups>>

Leave ==
  /\ pcR = "io"
  /\ m_mutex' = "none" /\ pcR' = "top"
  /\ UNCHANGED <<torrent, source, readOp, pos, demux, m_abort_mutex, m_abort, pcU,
                 wakeups>>

(***************************************************************************)
(* torrent_source::read_data.  Outside of the video it reads nothing.  Its *)
(* loop also ends on m_abort, but that exit is never taken: close sets     *)
(* m_abort under the demuxer's mutex, which is held over this call.        *)
(* ReadEnds would fail if the loop were ever reached with m_abort set.     *)
(***************************************************************************)
InRange == offset \in BaseOffset..BaseOffset + DataSize - 1

ReadData ==
  /\ pcR = "io" /\ op /\ InRange /\ m_abort_mutex = "none"
  /\ m_abort_mutex' = "R" /\ pcR' = "loop"
  /\ UNCHANGED <<torrent, source, readOp, pos, demux, m_mutex, m_abort, pcU, wakeups>>

\* Mutant: the request is not waited for.
AfterRequest_NoWait == "woken"
AfterRequest == "wait"

\* extern_read_op::read_data asks for a piece that is downloaded; without it
\* torrent_source::read_data sleeps and tries again.
Request ==
  /\ pcR = "loop" /\ ~ts_abort /\ PieceOf(offset) \in have
  /\ m_read_offset' = offset /\ read_size' = 0
  /\ asked' = Append(asked, PieceOf(offset))
  /\ pcR' = AfterRequest
  /\ UNCHANGED <<have, errors, source, pos, demux, locks, m_abort, pcU, wakeups>>

\* m_notify.wait, without a predicate, returns by itself.
Wakeup ==
  /\ pcR = "wait" /\ wakeups < MaxWakeups
  /\ wakeups' = wakeups + 1
  /\ pcR' = "woken"
  /\ UNCHANGED <<torrent, source, readOp, pos, demux, locks, m_abort, pcU>>

\* Mutant: the position moves by what was asked for, not what was read.
Advanced_Asked == offset + IOBuffer
Advanced == offset + read_size

ReadReturns ==
  /\ pcR = "woken" /\ read_size # 0
  /\ offset' = Advanced /\ pos' = pos + read_size
  /\ m_abort_mutex' = "none" /\ pcR' = "io"
  /\ UNCHANGED <<torrent, ts_abort, op, not_enough, readOp, demux, m_mutex, m_abort,
                 pcU, wakeups>>

ReadAgain ==
  /\ pcR = "woken" /\ read_size = 0
  /\ pcR' = "loop"
  /\ UNCHANGED <<torrent, source, readOp, pos, demux, locks, m_abort, pcU, wakeups>>

\* torrent_source::has_data, with a position in the video.
HasData(o) ==
  LET p == PieceOf(BaseOffset + o)
  IN p \notin have \/ (p + 1 < Cardinality(have) /\ p + 1 \notin have)

ToInt(x) == ((x + IntLimit) % (2 * IntLimit)) - IntLimit

\* The result of torrent_source::read_seek(o, SEEK_SET), which moves first.
SeekResult(o) == IF BaseOffset + o > DataSize THEN -1 ELSE ToInt(o)

\* bt_read_seek; the demuxer takes a negative result for a failure.  Past the
\* torrent's end has_data reads a bit that is not there.
ReadSeek ==
  /\ pcR = "io"
  /\ \E o \in 0..DataSize :
       /\ offset' = BaseOffset + o
       /\ pos' = IF SeekResult(o) < 0 THEN pos ELSE SeekResult(o)
       /\ not_enough' \in
            IF PieceOf(BaseOffset + SeekResult(o)) \in Piece
              THEN {not_enough \/ ~HasData(SeekResult(o))} ELSE {TRUE, not_enough}
  /\ UNCHANGED <<torrent, ts_abort, op, readOp, demux, locks, m_abort, pcR, pcU,
                 wakeups>>

-----------------------------------------------------------------------------
(***************************************************************************)
(* The application: av_stop and then close, or close alone.  av_destory    *)
(* destroys the demuxer and its source unless playback is stopped.         *)
(***************************************************************************)
AvStop ==
  /\ pcU = "ui"
  /\ m_abort' = TRUE /\ pcU' = "join"
  /\ UNCHANGED <<torrent, source, readOp, pos, demux, locks, pcR, wakeups>>

Joined ==
  /\ pcU \in {"join", "join_destory"} /\ pcR = "exit"
  /\ pcU' = IF pcU = "join" THEN "stopped" ELSE "closed"
  /\ UNCHANGED <<torrent, source, readOp, pos, demux, locks, m_abort, pcR, wakeups>>

\* player_impl::close after player_impl::stop.
CloseStopped ==
  /\ pcU = "stopped"
  /\ pcU' = "closed"
  /\ UNCHANGED <<torrent, source, readOp, pos, demux, locks, m_abort, pcR, wakeups>>

AvDestory ==
  /\ pcU = "ui"
  /\ m_abort' = TRUE /\ pcU' = "destory"
  /\ UNCHANGED <<torrent, source, readOp, pos, demux, locks, pcR, wakeups>>

\* generic_demux::close.
CloseDemux ==
  /\ pcU = "destory" /\ m_mutex = "none"
  /\ m_mutex' = "U" /\ demux' = "closed" /\ pcU' = "abort"
  /\ UNCHANGED <<torrent, source, readOp, pos, m_abort_mutex, m_abort, pcR, wakeups>>

\* torrent_source::close.
AbortSource ==
  /\ pcU = "abort"
  /\ ts_abort' = TRUE /\ pcU' = "close"
  /\ UNCHANGED <<torrent, offset, op, not_enough, readOp, pos, demux, locks, m_abort,
                 pcR, wakeups>>

CloseSource ==
  /\ pcU = "close" /\ m_abort_mutex = "none"
  /\ op' = FALSE /\ pcU' = "delete"
  /\ UNCHANGED <<torrent, offset, ts_abort, not_enough, readOp, pos, demux, locks,
                 m_abort, pcR, wakeups>>

\* The source with its session and then the demuxer are deleted.
DeleteDemux ==
  /\ pcU = "delete"
  /\ asked' = <<>> /\ m_mutex' = "none" /\ demux' = "deleted"
  /\ pcU' = "join_destory"
  /\ UNCHANGED <<have, errors, source, readOp, pos, m_abort_mutex, m_abort, pcR,
                 wakeups>>

-----------------------------------------------------------------------------
Reads == ReadTop \/ Enter \/ Crash \/ Leave \/ ReadData \/ Request
         \/ ReadReturns \/ ReadAgain

User == AvStop \/ Joined \/ CloseStopped \/ AvDestory \/ CloseDemux \/ AbortSource
        \/ CloseSource \/ DeleteDemux

Next == Reads \/ ReadSeek \/ Wakeup \/ Download \/ OnRead \/ OnReadError \/ User

Spec == Init /\ [][Next]_vars

\* The threads run, libtorrent answers, and av_read_frame ends at last.
Fairness ==
  /\ WF_vars(Reads) /\ SF_vars(Leave) /\ WF_vars(OnRead \/ OnReadError)
  /\ WF_vars(Joined \/ CloseDemux \/ AbortSource \/ CloseSource \/ DeleteDemux)

FairSpec == Spec /\ Fairness

\* Besides, somebody sends the pieces.
ServedSpec == FairSpec /\ WF_vars(Download)

-----------------------------------------------------------------------------
\* The types of the variables.
TypeOK ==
  /\ have \subseteq Piece /\ asked \in Seq(Piece)
  /\ offset \in Nat
  /\ ts_abort \in BOOLEAN /\ op \in BOOLEAN /\ not_enough \in BOOLEAN
  /\ m_read_offset \in 0..TorrentSize - 1 /\ read_size \in 0..IOBuffer
  /\ pos \in Nat
  /\ demux \in {"open", "closed", "deleted"}
  /\ m_mutex \in {"none", "R", "U"} /\ m_abort_mutex \in {"none", "R"}
  /\ m_abort \in BOOLEAN
  /\ pcR \in {"top", "call", "io", "loop", "wait", "woken", "exit", "crash"}
  /\ pcU \in {"ui", "join", "stopped", "destory", "abort", "close", "delete",
              "join_destory", "closed"}
  /\ errors \in 0..MaxErrors /\ wakeups \in 0..MaxWakeups

(***************************************************************************)
(* The source is where the demuxer believes it to be, through short reads  *)
(* at the end of a piece, disk errors, retries and seeks: what the demuxer *)
(* gets are the consecutive bytes of the video.                            *)
(***************************************************************************)
InStep == offset = BaseOffset + pos

(***************************************************************************)
(* on_read runs only while read_data waits for that very piece and the     *)
(* read object is alive: it never writes into the buffer of a read that    *)
(* has returned, or copies from outside of the piece.  This rests on the   *)
(* condition variable: it may not wake up without a notification.          *)
(***************************************************************************)
AnswersAwaited ==
  asked # <<>> /\ wakeups = 0 =>
    op /\ pcR = "wait" /\ asked = <<PieceOf(m_read_offset)>>

(***************************************************************************)
(* A read that is begun returns: a disk error is passed on and the read    *)
(* repeated, a missing piece is waited for.  (After a spurious wakeup it   *)
(* may also end the program: see Answer.)                                  *)
(***************************************************************************)
ReadEnds == (pcR = "loop") ~> (pcR \in {"io", "crash"})

(***************************************************************************)
(* "Close the demuxer and the source" (comment at avplay.c:869):           *)
(* av_destory gets to it, whatever the torrent's peers do.                 *)
(***************************************************************************)
DestoryCloses == (pcU = "destory") ~> (demux # "open")
=============================================================================
