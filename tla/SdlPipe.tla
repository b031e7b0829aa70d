------------------------------- MODULE SdlPipe -------------------------------
(***************************************************************************)
(* audio/sdl_render.cpp: play_audio writes the sound to a pipe, and the    *)
(* callback of SDL's audio thread reads from it until it has len bytes.    *)
(* Both calls block.  destory_audio is empty: the object is deleted while  *)
(* SDL goes on calling back.                                               *)
(*                                                                         *)
(* The sound is a sequence of equal pieces, named by their numbers.        *)
(***************************************************************************)
EXTENDS Integers, FiniteSetsExt

CONSTANTS PipeSize,    \* pieces that the pipe holds
          len,         \* pieces that a callback asks for
          FrameBlocks, \* pieces of an audio frame
          MaxBlocks    \* bound: pieces of the stream

VARIABLES
  written, taken,  \* pieces that went into the pipe, and out of it
  pc, left,        \* play_audio: "idle", "write", and "freed" after destory
  callback,        \* the callback: "off", "read", "lost" when it uses freed memory
  readed,
  stream,          \* SDL's buffer, 0 for silence
  heard,           \* the last piece that SDL was given
  again            \* history: the present callback had to read a second time

pipe == <<written, taken>>
writer == <<pc, left>>
reader == <<callback, readed, stream, heard, again>>
vars == <<pipe, writer, reader>>

Places == 0..len - 1
Silence == [i \in Places |-> 0]

Init ==
  /\ written = 0 /\ taken = 0 /\ pc = "idle" /\ left = 0
  /\ callback = "off" /\ readed = 0 /\ stream = Silence /\ heard = 0 /\ again = FALSE

PlayAudio ==
  /\ pc = "idle" /\ written < MaxBlocks
  /\ pc' = "write" /\ left' = FrameBlocks
  /\ UNCHANGED <<pipe, reader>>

\* write blocks until the pipe has taken everything, in one piece or several.
Write ==
  /\ pc = "write" /\ left > 0
  /\ \E n \in 1..left :
       /\ written + n - taken <= PipeSize
       /\ written' = written + n /\ left' = left - n
  /\ UNCHANGED <<taken, pc, reader>>

Return ==
  /\ pc = "write" /\ left = 0
  /\ pc' = "idle"
  /\ UNCHANGED <<pipe, left, reader>>

\* destory_audio and the delete that follows it.
Destory ==
  /\ pc = "idle"
  /\ pc' = "freed"
  /\ UNCHANGED <<pipe, left, reader>>

-----------------------------------------------------------------------------
\* SDL calls back with a silent buffer, also when the object is gone.
Callback ==
  /\ callback = "off"
  /\ callback' = IF pc = "freed" THEN "lost" ELSE "read"
  /\ readed' = 0 /\ stream' = Silence /\ again' = FALSE
  /\ UNCHANGED <<pipe, writer, heard>>

Wanted == len - readed

\* read gives what there is, at most what is wanted, and always to the start of
\* the stream.
Read ==
  LET n == Min({Wanted, written - taken})
  IN /\ callback = "read" /\ readed < len /\ taken < written
     /\ stream' = [i \in Places |-> IF i < n THEN taken + i + 1 ELSE stream[i]]
     /\ taken' = taken + n /\ readed' = readed + n
     /\ again' = (readed > 0)
     /\ UNCHANGED <<written, writer, callback, heard>>

\* Mutant: the callback returns with what the first read gave.
Filled_Once == readed > 0
Filled == readed >= len

CallbackReturns ==
  /\ callback = "read" /\ Filled
  /\ callback' = "off"
  /\ heard' = Max({stream[i] : i \in Places} \cup {heard})
  /\ UNCHANGED <<pipe, writer, readed, stream, again>>

Writer == PlayAudio \/ Write \/ Return
Reader == Callback \/ Read \/ CallbackReturns

Next == Writer \/ Destory \/ Reader

-----------------------------------------------------------------------------
\* The types; the pipe holds what it can, and the stream is not written beyond.
TypeOK ==
  /\ written \in 0..MaxBlocks + FrameBlocks /\ taken \in 0..written
  /\ written - taken <= PipeSize
  /\ pc \in {"idle", "write", "freed"} /\ left \in 0..FrameBlocks
  /\ callback \in {"off", "read", "lost"} /\ readed \in 0..len
  /\ stream \in [Places -> Nat] /\ heard \in Nat /\ again \in BOOLEAN

(***************************************************************************)
(* A callback gives SDL the next len pieces, none lost and in order --     *)
(* unless the pipe ran empty under it, for what a second read gives goes   *)
(* to the start of the buffer again, over what the first one gave.         *)
(***************************************************************************)
PlaysInOrder ==
  callback = "read" /\ Filled /\ ~again =>
    \A i \in Places : stream[i] = taken - len + i + 1
=============================================================================
