---------------------------- MODULE TorrentProofs ----------------------------
(***************************************************************************)
(* Proofs about TorrentSource, for any layout of the torrent, any buffer,  *)
(* and any number of disk errors and spurious wakeups.                     *)
(***************************************************************************)
EXTENDS TorrentSource, TLAPS

USE LayoutAssumption, BoundsAssumption

(***************************************************************************)
(* While read_data is inside the source, its mutex keeps close from        *)
(* resetting the read object, and the offset stays in the video.           *)
(***************************************************************************)
Inside == {"loop", "wait", "woken"}

Reading == pcR \in Inside => op /\ m_abort_mutex = "R" /\ InRange

(***************************************************************************)
(* Until a condition variable woke up by itself: a piece is asked for only *)
(* while the one reader waits for it.                                      *)
(***************************************************************************)
Awaited ==
  wakeups = 0 /\ asked # <<>> => pcR = "wait" /\ asked = <<PieceOf(m_read_offset)>>

Inv == TypeOK /\ Reading /\ Awaited

-----------------------------------------------------------------------------
\* A byte of the torrent lies in one of its pieces.
LEMMA InPiece ==
  ASSUME NEW o \in 0..TorrentSize - 1
  PROVE  PieceOf(o) \in Piece
BY DEF PieceOf, Piece

\* on_read never copies more than was asked for.
LEMMA CopiedBounded ==
  ASSUME TypeOK, NEW p \in Piece
  PROVE  Copied(p) \in Int /\ Copied(p) <= IOBuffer
<1>1. PieceEnd(p) \in Int
  BY DEF PieceEnd, Piece, PieceOf
<1>2. QED
  BY <1>1 DEF Copied, TypeOK

LEMMA InvInit == Init => Inv
<1>1. SUFFICES ASSUME Init PROVE Inv
  OBVIOUS
<1>2. TypeOK
  <2>1. have \subseteq Piece /\ asked \in Seq(Piece) /\ offset \in Nat /\ pos \in Nat
    BY <1>1 DEF Init
  <2>2. m_read_offset \in 0..TorrentSize - 1 /\ read_size \in 0..IOBuffer
    BY <1>1 DEF Init
  <2>3. errors \in 0..MaxErrors /\ wakeups \in 0..MaxWakeups
    BY <1>1 DEF Init
  <2>4. ts_abort \in BOOLEAN /\ op \in BOOLEAN /\ not_enough \in BOOLEAN
        /\ m_abort \in BOOLEAN
    BY <1>1 DEF Init
  <2>5. QED
    BY <1>1, <2>1, <2>2, <2>3, <2>4 DEF Init, TypeOK
<1>3. QED
  BY <1>1, <1>2 DEF Init, Inv, Reading, Awaited, Inside

-----------------------------------------------------------------------------
\* An answer, of a piece or of an error: it ends the wait.
LEMMA InvAnswer == ASSUME Inv, OnRead \/ OnReadError PROVE Inv'
<1>1. PICK m \in Int : m <= IOBuffer /\ Answer(m)
  <2>1. CASE OnRead
    <3>1. Head(asked) \in Piece
      BY <2>1 DEF OnRead, Inv, TypeOK
    <3>2. QED
      BY <2>1, <3>1, CopiedBounded DEF OnRead, Inv
  <2>2. CASE OnReadError
    BY <2>2 DEF OnReadError
  <2>3. QED
    BY <2>1, <2>2
<1>2. asked # <<>> /\ errors' \in 0..MaxErrors
  BY DEF OnRead, OnReadError, Inv, TypeOK
<1>3. asked' = Tail(asked) /\ UNCHANGED <<have, offset, ts_abort, op, not_enough,
        m_read_offset, pos, demux, m_mutex, m_abort_mutex, m_abort, pcU, wakeups>>
  BY <1>1 DEF Answer, source, locks
<1>4. read_size' \in 0..IOBuffer
  BY <1>1 DEF Answer, Inv, TypeOK
<1>5. pcR' \in {"crash", "woken", pcR} /\ (pcR = "wait" => pcR' \in {"crash", "woken"})
      /\ (pcR # "wait" => pcR' # "woken" \/ pcR = "woken")
  BY <1>1 DEF Answer, Notified
<1>6. asked' \in Seq(Piece)
  BY <1>2, <1>3 DEF Inv, TypeOK
<1>7. TypeOK'
  BY <1>2, <1>3, <1>4, <1>5, <1>6 DEF Inv, TypeOK
<1>8. Reading'
  BY <1>3, <1>5 DEF Inv, Reading, Inside, InRange
<1>9. Awaited'
  <2>1. wakeups = 0 => asked' = <<>>
    BY <1>2, <1>3 DEF Inv, Awaited
  <2>2. QED
    BY <1>3, <2>1 DEF Awaited
<1>10. QED
  BY <1>7, <1>8, <1>9 DEF Inv

\* A request: nothing was asked for and not answered before it.
LEMMA InvRequest == ASSUME Inv, Request PROVE Inv'
<1>1. offset \in 0..TorrentSize - 1 /\ pcR = "loop"
  BY DEF Request, Inv, Reading, Inside, InRange, TypeOK
<1>2. PieceOf(offset) \in Piece
  BY <1>1, InPiece
<1>3. asked' = Append(asked, PieceOf(offset)) /\ m_read_offset' = offset
      /\ read_size' = 0 /\ pcR' = "wait"
      /\ UNCHANGED <<have, errors, offset, ts_abort, op, not_enough, pos, demux, m_mutex,
                     m_abort_mutex, m_abort, pcU, wakeups>>
  BY DEF Request, AfterRequest, source, locks
<1>4. asked' \in Seq(Piece)
  BY <1>2, <1>3 DEF Inv, TypeOK
<1>5. TypeOK'
  BY <1>1, <1>3, <1>4 DEF Inv, TypeOK
<1>6. Reading'
  BY <1>1, <1>3 DEF Inv, Reading, Inside, InRange
<1>7. Awaited'
  <2>1. wakeups = 0 => asked = <<>>
    BY <1>1 DEF Inv, Awaited
  <2>2. wakeups = 0 => asked' = <<PieceOf(offset)>>
    BY <1>3, <2>1
  <2>3. QED
    BY <1>3, <2>2 DEF Awaited, PieceOf
<1>8. QED
  BY <1>5, <1>6, <1>7 DEF Inv

\* The other steps of read_pkt_thrd.
LEMMA InvReads ==
  ASSUME Inv,
         ReadTop \/ Enter \/ Crash \/ Leave \/ ReadData \/ Wakeup \/ ReadReturns \/ ReadAgain
  PROVE  Inv'
<1> USE DEF source, readOp, locks, torrent
<1>1. UNCHANGED <<have, asked, errors, ts_abort, op, not_enough, m_read_offset, read_size,
                  demux, m_abort, pcU>>
  BY DEF ReadTop, Enter, Crash, Leave, ReadData, Wakeup, ReadReturns, ReadAgain
<1>2. TypeOK'
  <2>1. wakeups' \in 0..MaxWakeups
    BY DEF ReadTop, Enter, Crash, Leave, ReadData, Wakeup, ReadReturns, ReadAgain, Inv, TypeOK
  <2>2. offset' \in Nat /\ pos' \in Nat
    BY DEF ReadTop, Enter, Crash, Leave, ReadData, Wakeup, ReadReturns, ReadAgain, Inv,
           TypeOK, Advanced
  <2>3. m_mutex' \in {"none", "R", "U"} /\ m_abort_mutex' \in {"none", "R"}
    BY DEF ReadTop, Enter, Crash, Leave, ReadData, Wakeup, ReadReturns, ReadAgain, Inv, TypeOK
  <2>4. pcR' \in {"top", "call", "io", "loop", "wait", "woken", "exit", "crash"}
    BY DEF ReadTop, Enter, Crash, Leave, ReadData, Wakeup, ReadReturns, ReadAgain, Inv, TypeOK
  <2>5. QED
    BY <1>1, <2>1, <2>2, <2>3, <2>4 DEF Inv, TypeOK
<1>3. Reading'
  BY <1>1 DEF ReadTop, Enter, Crash, Leave, ReadData, Wakeup, ReadReturns, ReadAgain, Inv,
              Reading, Inside, InRange
<1>4. Awaited'
  <2>1. CASE Wakeup
    BY <2>1 DEF Wakeup, Inv, TypeOK, Awaited
  <2>2. CASE pcR # "wait" /\ wakeups' = wakeups
    BY <1>1, <2>2 DEF Inv, Awaited
  <2>3. Wakeup \/ (pcR # "wait" /\ wakeups' = wakeups)
    BY DEF ReadTop, Enter, Crash, Leave, ReadData, ReadReturns, ReadAgain
  <2>4. QED
    BY <2>1, <2>2, <2>3
<1>5. QED
  BY <1>2, <1>3, <1>4 DEF Inv

\* torrent_source::read_seek, outside of a read.
LEMMA InvReadSeek == ASSUME Inv, ReadSeek PROVE Inv'
<1>1. PICK o \in 0..DataSize :
        /\ offset' = BaseOffset + o
        /\ pos' = IF SeekResult(o) < 0 THEN pos ELSE SeekResult(o)
        /\ not_enough' \in
             IF PieceOf(BaseOffset + SeekResult(o)) \in Piece
               THEN {not_enough \/ ~HasData(SeekResult(o))} ELSE {TRUE, not_enough}
  BY DEF ReadSeek
<1>2. pcR = "io" /\ UNCHANGED <<have, asked, errors, ts_abort, op, m_read_offset, read_size,
        demux, m_mutex, m_abort_mutex, m_abort, pcR, pcU, wakeups>>
  BY DEF ReadSeek, torrent, readOp, locks
<1>3. SeekResult(o) \in Int
  BY DEF SeekResult, ToInt
<1>4. offset' \in Nat /\ pos' \in Nat
  BY <1>1, <1>3 DEF Inv, TypeOK
<1>5. not_enough' \in BOOLEAN
  <2>1. not_enough \in BOOLEAN
    BY DEF Inv, TypeOK
  <2>2. (not_enough \/ ~HasData(SeekResult(o))) \in BOOLEAN
    OBVIOUS
  <2>3. QED
    BY <1>1, <2>1, <2>2, Zenon
<1>6. TypeOK'
  BY <1>2, <1>4, <1>5 DEF Inv, TypeOK
<1>7. Reading' /\ Awaited'
  BY <1>2 DEF Inv, Reading, Awaited, Inside
<1>8. QED
  BY <1>6, <1>7 DEF Inv

\* The application, and a piece that arrives.
LEMMA InvUser == ASSUME Inv, User \/ Download PROVE Inv'
<1> USE DEF User, AvStop, Joined, CloseStopped, AvDestory, CloseDemux, AbortSource,
            CloseSource, DeleteDemux, Download, source, readOp, locks, torrent
<1>1. UNCHANGED <<offset, not_enough, m_read_offset, read_size, pos, m_abort_mutex, pcR,
                  errors, wakeups>>
  OBVIOUS
<1>2. asked' \in {asked, <<>>} /\ have' \subseteq Piece /\ asked' \in Seq(Piece)
  <2>1. asked \in Seq(Piece) /\ <<>> \in Seq(Piece) /\ have \subseteq Piece
    BY DEF Inv, TypeOK
  <2>2. asked' = asked \/ asked' = <<>>
    OBVIOUS
  <2>3. have' \subseteq Piece
    <3>1. CASE Download
      BY <2>1, <3>1
    <3>2. CASE User
      BY <2>1, <3>2
    <3>3. QED
      BY <3>1, <3>2
  <2>4. QED
    BY <2>1, <2>2, <2>3
<1>3. op' = op \/ (op' = FALSE /\ m_abort_mutex = "none")
  <2>1. CASE CloseSource
    BY <2>1
  <2>2. CASE ~CloseSource
    BY <2>2, Zenon
  <2>3. QED
    BY <2>1, <2>2
<1>4. TypeOK'
  <2>1. pcU' \in {"ui", "join", "stopped", "destory", "abort", "close", "delete",
                  "join_destory", "closed"}
    BY DEF Inv, TypeOK
  <2>2. ts_abort' \in BOOLEAN /\ op' \in BOOLEAN /\ m_abort' \in BOOLEAN
    BY DEF Inv, TypeOK
  <2>3. demux' \in {"open", "closed", "deleted"} /\ m_mutex' \in {"none", "R", "U"}
    BY DEF Inv, TypeOK
  <2>4. QED
    BY <1>1, <1>2, <2>1, <2>2, <2>3 DEF Inv, TypeOK
<1>5. Reading'
  BY <1>1, <1>3 DEF Inv, Reading, Inside, InRange
<1>6. Awaited'
  BY <1>1, <1>2 DEF Inv, Awaited
<1>7. QED
  BY <1>4, <1>5, <1>6 DEF Inv

LEMMA Invariant == Spec => []Inv
<1>1. ASSUME Inv, [Next]_vars PROVE Inv'
  <2>1. CASE Next
    BY <1>1, <2>1, InvAnswer, InvRequest, InvReads, InvReadSeek, InvUser DEF Next, Reads
  <2>2. CASE UNCHANGED vars
    BY <1>1, <2>2 DEF vars, torrent, source, readOp, locks, Inv, TypeOK, Reading, Awaited,
                      Inside, InRange
  <2>3. QED
    BY <1>1, <2>1, <2>2
<1>2. QED
  BY <1>1, InvInit, PTL DEF Spec

-----------------------------------------------------------------------------
(***************************************************************************)
(* What read_data, on_read and close keep in the shared fields has its     *)
(* type; on_read never reports more than the buffer holds.                 *)
(***************************************************************************)
THEOREM TypeCorrect == Spec => []TypeOK
BY Invariant, PTL DEF Inv

(***************************************************************************)
(* extern_read_op::on_read runs only while read_data waits for that piece  *)
(* and the read object is alive, as long as the condition variable does    *)
(* not wake up by itself, whatever stops and closes the player meanwhile.  *)
(***************************************************************************)
THEOREM AnswersAreAwaited == Spec => []AnswersAwaited
<1>1. Inv => AnswersAwaited
  BY DEF Inv, Reading, Awaited, AnswersAwaited, Inside
<1>2. QED
  BY <1>1, Invariant, PTL

-----------------------------------------------------------------------------
\* What read_seek returns for a video at the torrent's start that an int can
\* count: the position itself.
LEMMA SeekExact ==
  ASSUME BaseOffset = 0, DataSize < IntLimit, NEW o \in 0..DataSize
  PROVE  SeekResult(o) = o
<1>1. o + IntLimit \in 0..2 * IntLimit - 1
  OBVIOUS
<1>2. (o + IntLimit) % (2 * IntLimit) = o + IntLimit
  BY <1>1
<1>3. QED
  BY <1>2 DEF SeekResult, ToInt

(***************************************************************************)
(* The source and the demuxer agree where they are, through short reads,   *)
(* errors, retries and seeks, if the video begins the torrent and is       *)
(* shorter than an int counts: read_seek (torrent_source.cpp:209) compares *)
(* an offset with a size, and returns an int.                              *)
(***************************************************************************)
THEOREM StaysInStep ==
  ASSUME BaseOffset = 0, DataSize < IntLimit
  PROVE  Spec => []InStep
<1>1. Init => InStep
  BY DEF Init, InStep
<1>2. ASSUME Inv, InStep, [Next]_vars PROVE InStep'
  <2> USE DEF source, InStep
  <2>1. CASE ReadReturns
    BY <1>2, <2>1 DEF ReadReturns, Advanced, Inv, TypeOK
  <2>2. CASE ReadSeek
    <3>1. PICK o \in 0..DataSize :
            offset' = BaseOffset + o /\ pos' = IF SeekResult(o) < 0 THEN pos ELSE SeekResult(o)
      BY <2>2 DEF ReadSeek
    <3>2. SeekResult(o) = o
      BY SeekExact
    <3>3. QED
      BY <3>1, <3>2
  <2>3. CASE ReadTop \/ Enter \/ Crash \/ Leave \/ ReadData \/ Request \/ ReadAgain \/ Wakeup
    BY <1>2, <2>3 DEF ReadTop, Enter, Crash, Leave, ReadData, Request, ReadAgain, Wakeup
  <2>4. CASE OnRead \/ OnReadError \/ Download
    BY <1>2, <2>4 DEF OnRead, OnReadError, Answer, Download
  <2>5. CASE User
    BY <1>2, <2>5 DEF User, AvStop, Joined, CloseStopped, AvDestory, CloseDemux,
                      AbortSource, CloseSource, DeleteDemux
  <2>6. CASE UNCHANGED vars
    BY <1>2, <2>6 DEF vars
  <2>7. QED
    BY <1>2, <2>1, <2>2, <2>3, <2>4, <2>5, <2>6 DEF Next, Reads
<1>3. QED
  BY <1>1, <1>2, Invariant, PTL DEF Spec
=============================================================================
