------------------------------ MODULE WaveRing ------------------------------
(***************************************************************************)
(* The ring of wave blocks of audio/wave_render.cpp.  The audio renderer's *)
(* thread copies blocks of a frame into the ring and hands them to the     *)
(* waveOut device; the driver plays them in order and reports each with a  *)
(* WOM_DONE callback, in a thread of its own; destory_audio resets and     *)
(* closes the device and frees the ring.  m_buf_write and m_buf_read are   *)
(* shared without a lock.                                                  *)
(*                                                                         *)
(* A block's contents are its number in the order in which play_audio      *)
(* accepted it.                                                            *)
(***************************************************************************)
EXTENDS Integers, Sequences

CONSTANTS BUFFER_COUNT,
          FrameBlocks,  \* blocks in an audio frame
          MaxBlocks     \* bound: blocks accepted

ASSUME ConstantsAssumption ==
  BUFFER_COUNT \in Nat \ {0} /\ FrameBlocks \in Nat \ {0} /\ MaxBlocks \in Nat

VARIABLES
  m_buf_write, m_buf_read,
  m_wave_blocks,  \* contents of each block
  pc,             \* play_audio and destory_audio
  left,           \* blocks of the frame still to be accepted
  accepted,       \* number of blocks accepted
  device,         \* the blocks with the device, those not called back for
  done,           \* how many of them, from the front, it is done with
  played,         \* contents of the last block played
  freed

ring == <<m_buf_write, m_buf_read, m_wave_blocks>>
dev == <<device, done, played>>
vars == <<ring, pc, left, accepted, dev, freed>>

Block == 0..BUFFER_COUNT - 1
Playing == {device[i] : i \in done + 1..Len(device)}

Init ==
  /\ m_buf_write = 0 /\ m_buf_read = 0
  /\ m_wave_blocks = [b \in Block |-> 0]
  /\ pc = "idle" /\ left = 0 /\ accepted = 0
  /\ device = <<>> /\ done = 0 /\ played = 0
  /\ freed = FALSE

-----------------------------------------------------------------------------
\* The renderer plays the rest of its frame, or a new frame.
PlayAudio ==
  /\ pc = "idle"
  /\ left' = IF left = 0 THEN FrameBlocks ELSE left
  /\ pc' = "loop"
  /\ UNCHANGED <<ring, accepted, dev, freed>>

buf_next == (m_buf_write + 1) % BUFFER_COUNT

\* Mutants: the ring is never full; the test looks at m_buf_write.
Full_Never == FALSE
Full_AtWrite == m_buf_write = m_buf_read
Full == buf_next = m_buf_read

\* size is 0, or the ring is full: play_audio returns what it accepted.
Return ==
  /\ pc = "loop" /\ (left = 0 \/ Full)
  /\ pc' = "idle"
  /\ UNCHANGED <<ring, left, accepted, dev, freed>>

Claim ==
  /\ pc = "loop" /\ left > 0 /\ ~Full /\ accepted < MaxBlocks
  /\ pc' = "copy"
  /\ UNCHANGED <<ring, left, accepted, dev, freed>>

\* The header is unprepared and the data copied.
Copy ==
  /\ pc = "copy"
  /\ m_wave_blocks' = [m_wave_blocks EXCEPT ![m_buf_write] = accepted + 1]
  /\ accepted' = accepted + 1 /\ left' = left - 1
  /\ pc' = "write"
  /\ UNCHANGED <<m_buf_write, m_buf_read, dev, freed>>

\* waveOutWrite
Write ==
  /\ pc = "write"
  /\ device' = Append(device, m_buf_write)
  /\ pc' = "advance"
  /\ UNCHANGED <<ring, left, accepted, done, played, freed>>

\* Mutant: the write position stays.
Advanced_Not == m_buf_write
Advanced == buf_next

Advance ==
  /\ pc = "advance"
  /\ m_buf_write' = Advanced
  /\ pc' = "loop"
  /\ UNCHANGED <<m_buf_read, m_wave_blocks, left, accepted, dev, freed>>

\* The device has played its next block.
DeviceDone ==
  /\ done < Len(device)
  /\ played' = m_wave_blocks[device[done + 1]]
  /\ done' = done + 1
  /\ UNCHANGED <<ring, pc, left, accepted, device, freed>>

\* waveOutProc with WOM_DONE
WaveOutProc ==
  /\ done > 0
  /\ m_buf_read' = (m_buf_read + 1) % BUFFER_COUNT
  /\ device' = Tail(device) /\ done' = done - 1
  /\ UNCHANGED <<m_buf_write, m_wave_blocks, pc, left, accepted, played, freed>>

\* destory_audio: waveOutReset gives all blocks back unplayed.
Reset ==
  /\ pc = "idle"
  /\ done' = Len(device)
  /\ pc' = "close"
  /\ UNCHANGED <<ring, left, accepted, device, played, freed>>

\* Mutant: waveOutClose is called once, whatever it returns.
Closed_Once == TRUE
\* waveOutClose returns WAVERR_STILLPLAYING while a block is not given back.
Closed == device = <<>>

Close ==
  /\ pc = "close" /\ Closed
  /\ freed' = TRUE /\ pc' = "closed"
  /\ UNCHANGED <<ring, left, accepted, dev>>

Next == \/ PlayAudio \/ Return \/ Claim \/ Copy \/ Write \/ Advance
        \/ DeviceDone \/ WaveOutProc \/ Reset \/ Close

Spec == Init /\ [][Next]_vars

\* The renderer retries, the device plays and calls back.
Fairness ==
  /\ WF_vars(PlayAudio \/ Return \/ Claim \/ Copy \/ Write \/ Advance \/ Close)
  /\ WF_vars(DeviceDone) /\ WF_vars(WaveOutProc)

FairSpec == Spec /\ Fairness

-----------------------------------------------------------------------------
\* The types of the variables.
TypeOK ==
  /\ m_buf_write \in Block /\ m_buf_read \in Block
  /\ m_wave_blocks \in [Block -> Nat]
  /\ pc \in {"idle", "loop", "copy", "write", "advance", "close", "closed"}
  /\ left \in 0..FrameBlocks /\ accepted \in Nat
  /\ device \in Seq(Block) /\ done \in 0..Len(device) /\ played \in Nat
  /\ freed \in BOOLEAN

(***************************************************************************)
(* play_audio never copies into a block that the device is playing or has  *)
(* still to play.                                                          *)
(***************************************************************************)
NoOverwrite == pc = "copy" => m_buf_write \notin Playing

(***************************************************************************)
(* The device plays what play_audio accepted, block by block, none lost,   *)
(* repeated or out of order, however callbacks and writes interleave.      *)
(***************************************************************************)
PlaysInOrder == [][played' # played => played' = played + 1]_vars

(***************************************************************************)
(* No WOM_DONE callback comes after the renderer is destroyed.             *)
(***************************************************************************)
NoCallbackAfterFree == freed => device = <<>>

(***************************************************************************)
(* Everything the renderer has is accepted and played in the end, unless   *)
(* the audio is destroyed: the ring does not stay full.                    *)
(***************************************************************************)
Plays == <>(played = MaxBlocks \/ pc \in {"close", "closed"})
=============================================================================
