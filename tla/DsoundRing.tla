----------------------------- MODULE DsoundRing -----------------------------
(***************************************************************************)
(* The ring of audio/dsound_render.cpp: one looping DirectSound buffer.    *)
(* play_audio copies at m_write_offset, in front of the device's play      *)
(* cursor, which never waits: when it has passed m_write_offset it goes on *)
(* through sound that was played before; and when it passes m_write_offset *)
(* in the middle of a call, the copy is made for a position that is gone.  *)
(*                                                                         *)
(* Offsets are in bytes; the device moves by a block of m_min_free_space   *)
(* bytes, and a block's contents are its number in the stream, or 0 when   *)
(* it was played already.                                                  *)
(***************************************************************************)
EXTENDS Integers

CONSTANTS m_buffer_size, m_min_free_space,
          FrameBlocks,  \* blocks in an audio frame
          MaxBlocks,    \* bound: blocks of the stream
          MaxFails      \* bound: failures of Lock and Unlock

VARIABLES
  m_write_offset,
  blocks,       \* contents of each block of the buffer
  play_offset,  \* play_audio's copy of the cursor
  size,         \* what it is about to write
  pc,
  left,         \* blocks of the frame that the caller still offers
  accepted,     \* blocks that play_audio returned as played
  cursor, playing,
  played,       \* the last block that the device played for the first time
  fails,
  resent,       \* history: a block is copied again, after Unlock failed
  overtaken     \* history: the cursor passed m_write_offset during a call

position == <<m_write_offset, play_offset, size>>
device == <<cursor, playing, played>>
history == <<resent, overtaken>>
vars == <<position, blocks, pc, left, accepted, device, fails, history>>

Blocks == 0..(m_buffer_size \div m_min_free_space) - 1
BlockAt(offset) == offset \div m_min_free_space

Init ==
  /\ m_write_offset = 0 /\ play_offset = 0 /\ size = 0
  /\ blocks = [b \in Blocks |-> 0]
  /\ pc = "idle" /\ left = 0 /\ accepted = 0
  /\ cursor = 0 /\ playing = FALSE /\ played = 0
  /\ fails = 0 /\ resent = FALSE /\ overtaken = FALSE

-----------------------------------------------------------------------------
(***************************************************************************)
(* play_audio                                                              *)
(***************************************************************************)
\* GetCurrentPosition, for the rest of the frame or for a new one.
GetPosition ==
  /\ pc = "idle" /\ accepted < MaxBlocks
  /\ left' = IF left = 0 THEN FrameBlocks ELSE left
  /\ play_offset' = cursor
  /\ pc' = "space"
  /\ UNCHANGED <<m_write_offset, size, blocks, accepted, device, fails, history>>

Space ==
  LET s == m_buffer_size - (m_write_offset - play_offset)
  IN IF s > m_buffer_size THEN s - m_buffer_size ELSE s

Room == Space - m_min_free_space

ReturnFull ==
  /\ pc = "space" /\ Space <= m_min_free_space
  /\ pc' = "idle"
  /\ UNCHANGED <<position, blocks, left, accepted, device, fails, history>>

HasSpace ==
  /\ pc = "space" /\ Space > m_min_free_space
  /\ LET offered == left * m_min_free_space
     IN size' = IF Space <= offered THEN Room ELSE offered
  /\ pc' = "lock"
  /\ UNCHANGED <<m_write_offset, play_offset, blocks, left, accepted, device, fails, history>>

\* Lock fails, also after Restore; or Unlock fails, after the copy was made.
\* play_audio returns 0, and is called again with the same data.
Fails ==
  /\ pc \in {"lock", "unlock"} /\ fails < MaxFails
  /\ fails' = fails + 1
  /\ resent' = (resent \/ pc = "unlock")
  /\ pc' = "idle"
  /\ UNCHANGED <<position, blocks, left, accepted, device, overtaken>>

\* What Lock gives: the bytes up to the end of the buffer, and those from its
\* start on.
dst_bytes1 == IF size <= m_buffer_size - m_write_offset
                THEN size ELSE m_buffer_size - m_write_offset
dst_bytes2 == size - dst_bytes1

\* Mutant: the position wraps to the start, whatever was written there.
NextOffset_Start == 0
NextOffset == dst_bytes2

\* The block of the stream that goes to block b, or 0 for none.
Writes(b) ==
  LET off == b * m_min_free_space
  IN IF off >= m_write_offset /\ off < m_write_offset + dst_bytes1
       THEN accepted + BlockAt(off - m_write_offset) + 1
       ELSE IF off < dst_bytes2 THEN accepted + BlockAt(dst_bytes1 + off) + 1 ELSE 0

Copy ==
  /\ pc = "lock"
  /\ blocks' = [b \in Blocks |-> IF Writes(b) > 0 THEN Writes(b) ELSE blocks[b]]
  /\ LET w == m_write_offset + dst_bytes1 + dst_bytes2
     IN m_write_offset' = IF w >= m_buffer_size THEN NextOffset ELSE w
  /\ pc' = "unlock"
  /\ UNCHANGED <<play_offset, size, left, accepted, device, fails, history>>

\* Unlock succeeds; the device is started, if it is not playing.
Unlock ==
  /\ pc = "unlock"
  /\ playing' = TRUE
  /\ accepted' = accepted + BlockAt(size) /\ left' = left - BlockAt(size)
  /\ pc' = "idle"
  /\ UNCHANGED <<position, blocks, cursor, played, fails, history>>

\* A call that finds room.
FindsRoom == GetPosition /\ Space' > m_min_free_space

PlayAudio == GetPosition \/ ReturnFull \/ HasSpace \/ Fails \/ Copy \/ Unlock

\* destory_audio: the buffers are released, and the device is silent.
Destory ==
  /\ pc = "idle"
  /\ pc' = "closed" /\ playing' = FALSE
  /\ UNCHANGED <<position, blocks, left, accepted, cursor, played, fails, history>>

\* The device plays a block, and the cursor goes round.
Fresh(b) == blocks[b] > 0

DevicePlays ==
  LET b == BlockAt(cursor)
  IN /\ playing
     /\ cursor' = (cursor + m_min_free_space) % m_buffer_size
     /\ played' = IF Fresh(b) THEN blocks[b] ELSE played
     /\ blocks' = [blocks EXCEPT ![b] = 0]
     /\ overtaken' = (overtaken \/ (cursor = m_write_offset /\ pc \in {"space", "lock"}))
     /\ UNCHANGED <<position, pc, left, accepted, playing, fails, resent>>

Next == PlayAudio \/ Destory \/ DevicePlays

-----------------------------------------------------------------------------
\* The types.  Every write is of whole blocks, at a whole block, as the comment
\* at dsound_render.cpp:215 has it.
TypeOK ==
  /\ m_write_offset \in {b * m_min_free_space : b \in Blocks}
  /\ play_offset \in {b * m_min_free_space : b \in Blocks}
  /\ size \in {b * m_min_free_space : b \in Blocks}
  /\ blocks \in [Blocks -> Nat]
  /\ pc \in {"idle", "space", "lock", "unlock", "closed"}
  /\ left \in 0..FrameBlocks /\ accepted \in Nat
  /\ cursor \in {b * m_min_free_space : b \in Blocks} /\ playing \in BOOLEAN
  /\ played \in Nat /\ fails \in 0..MaxFails
  /\ resent \in BOOLEAN /\ overtaken \in BOOLEAN

(***************************************************************************)
(* No block of the stream is overwritten before it is played and none is   *)
(* played before its turn, although play_audio goes by a cursor that is    *)
(* old, and after an underrun writes behind it -- as long as no underrun   *)
(* begins during a call.  A block is played a second time only if Unlock   *)
(* has failed, for what it copied is then offered again.                   *)
(***************************************************************************)
PlaysInOrder ==
  [][played' # played /\ ~overtaken' =>
       /\ played' <= played + 1
       /\ ~resent => (played' = played + 1)]_vars
=============================================================================
