--------------------------- MODULE WaveRingProofs ---------------------------
(***************************************************************************)
(* For any number of blocks in the ring, any frame size and any number of  *)
(* blocks accepted: wave_render never overwrites a block the device plays, *)
(* and the device plays what was accepted in order.                        *)
(***************************************************************************)
EXTENDS WaveRing, SequenceTheorems, TLAPS

N == BUFFER_COUNT

\* The block k places after block 0, once around the ring at most.
Wrap(k) == IF k < N THEN k ELSE k - N

\* Where the next block goes once the one being written is accounted for.
WritePos == IF pc = "advance" THEN buf_next ELSE m_buf_write

(***************************************************************************)
(* The blocks with the device are consecutive, from m_buf_read to the      *)
(* write position, and one block at least is not among them.               *)
(***************************************************************************)
Window ==
  /\ Len(device) < N
  /\ pc \in {"copy", "write"} => Len(device) + 1 < N
  /\ \A i \in 1..Len(device) : device[i] = Wrap(m_buf_read + i - 1)
  /\ WritePos = Wrap(m_buf_read + Len(device))

(***************************************************************************)
(* The blocks still to be played hold the numbers that follow played, and  *)
(* the number accepted last comes after them.                              *)
(***************************************************************************)
Numbered ==
  /\ \A i \in done + 1..Len(device) : m_wave_blocks[device[i]] = played + (i - done)
  /\ pc \notin {"close", "closed"} =>
       accepted = played + (Len(device) - done) + (IF pc = "write" THEN 1 ELSE 0)
  /\ pc = "write" => m_wave_blocks[m_buf_write] = accepted

\* A block is claimed for data there is, and freed for good.
Ended == /\ pc = "copy" => left > 0
         /\ freed => pc = "closed"
         /\ pc = "closed" => device = <<>>

IInv == TypeOK /\ Window /\ Numbered /\ Ended

USE ConstantsAssumption

-----------------------------------------------------------------------------
\* (i + 1) % BUFFER_COUNT is the next block, around the ring.
LEMMA NextBlock ==
  ASSUME NEW i \in Block
  PROVE  /\ (i + 1) % N = Wrap(i + 1)
         /\ Wrap(i + 1) \in Block
  BY DEF N, Wrap, Block

\* Two blocks less than BUFFER_COUNT places apart are different.
LEMMA WrapDistinct ==
  ASSUME NEW r \in Block, NEW i \in 0..N - 1, NEW j \in 0..N - 1, i # j
  PROVE  Wrap(r + i) # Wrap(r + j)
  BY DEF N, Wrap, Block

\* Counting from the next block instead of block r.
LEMMA WrapShift ==
  ASSUME NEW r \in Block, NEW i \in 1..N - 1
  PROVE  Wrap(Wrap(r + 1) + (i - 1)) = Wrap(r + i)
  BY DEF N, Wrap, Block

\* The initial states satisfy the inductive invariant.
LEMMA InitIInv == Init => IInv
<1> SUFFICES ASSUME Init PROVE IInv
  OBVIOUS
<1>1. device = <<>> /\ Len(device) = 0 /\ done = 0
  BY DEF Init
<1>2. TypeOK
  BY <1>1 DEF Init, TypeOK, Block
<1>3. Window
  BY <1>1 DEF Init, Window, WritePos, Wrap, N
<1>4. Numbered /\ Ended
  BY <1>1 DEF Init, Numbered, Ended
<1> QED
  BY <1>2, <1>3, <1>4 DEF IInv

\* The block that play_audio has claimed is not one the device still plays.
LEMMA ClaimedIsFree ==
  ASSUME IInv, pc \in {"copy", "write"}
  PROVE  \A i \in 1..Len(device) : device[i] # m_buf_write
<1> TAKE i \in 1..Len(device)
<1>1. device[i] = Wrap(m_buf_read + (i - 1)) /\ m_buf_write = Wrap(m_buf_read + Len(device))
  BY DEF IInv, Window, WritePos, TypeOK, Block
<1>2. i - 1 \in 0..N - 1 /\ Len(device) \in 0..N - 1 /\ i - 1 # Len(device)
  BY DEF IInv, Window, TypeOK, N
<1> QED
  BY <1>1, <1>2, WrapDistinct DEF IInv, TypeOK

-----------------------------------------------------------------------------
\* Every step preserves the types.
LEMMA StepType ==
  ASSUME IInv, [Next]_vars
  PROVE  TypeOK'
<1> USE DEF TypeOK
<1>0. TypeOK
  BY DEF IInv
<1>1. buf_next \in Block
  BY <1>0, NextBlock DEF buf_next, N
<1>2. CASE PlayAudio \/ Return \/ Claim \/ Reset \/ Close
  <2>1. Len(device) \in Nat
    BY <1>0
  <2>2. CASE PlayAudio
    BY <1>0, <2>2 DEF PlayAudio, ring, dev
  <2>3. CASE Return
    BY <1>0, <2>3 DEF Return, ring, dev
  <2>4. CASE Claim
    BY <1>0, <2>4 DEF Claim, ring, dev
  <2>5. CASE Reset
    BY <1>0, <2>1, <2>5 DEF Reset, ring
  <2>6. CASE Close
    BY <1>0, <2>6 DEF Close, ring, dev
  <2> QED
    BY <1>2, <2>2, <2>3, <2>4, <2>5, <2>6
<1>3. CASE Copy
  <2>1. left > 0
    BY <1>3 DEF IInv, Ended, Copy
  <2>2. left' \in 0..FrameBlocks /\ accepted' \in Nat
    BY <1>0, <1>3, <2>1 DEF Copy
  <2>3. m_wave_blocks' \in [Block -> Nat]
    BY <1>0, <1>3 DEF Copy
  <2> QED
    BY <1>0, <1>3, <2>2, <2>3 DEF Copy, dev
<1>4. CASE Write
  <2>1. device' \in Seq(Block) /\ Len(device') = Len(device) + 1
    BY <1>0, <1>4 DEF Write
  <2> QED
    BY <1>0, <1>4, <2>1 DEF Write, ring
<1>5. CASE Advance
  BY <1>0, <1>1, <1>5 DEF Advance, Advanced, dev
<1>6. CASE DeviceDone
  <2>1. device[done + 1] \in Block
    BY <1>0, <1>6 DEF DeviceDone
  <2> QED
    BY <1>0, <1>6, <2>1 DEF DeviceDone, ring
<1>7. CASE WaveOutProc
  <2>1. (m_buf_read + 1) % BUFFER_COUNT \in Block
    BY <1>0, NextBlock DEF N
  <2>2. device # <<>> /\ Len(device) > 0
    BY <1>0, <1>7 DEF WaveOutProc
  <2>3. device' \in Seq(Block) /\ Len(device') = Len(device) - 1
    BY <1>0, <1>7, <2>2 DEF WaveOutProc
  <2> QED
    BY <1>0, <1>7, <2>1, <2>2, <2>3 DEF WaveOutProc
<1>8. CASE UNCHANGED vars
  BY <1>0, <1>8 DEF vars, ring, dev
<1> QED
  BY <1>2, <1>3, <1>4, <1>5, <1>6, <1>7, <1>8 DEF Next

\* Every step preserves the window of blocks with the device.
LEMMA StepWindow ==
  ASSUME IInv, [Next]_vars
  PROVE  Window'
<1>0. TypeOK /\ Window
  BY DEF IInv
<1>1. m_buf_write \in Block /\ m_buf_read \in Block /\ Len(device) \in 0..N - 1
  BY <1>0 DEF TypeOK, Window, N
<1>2. buf_next = Wrap(m_buf_write + 1) /\ buf_next \in Block
  BY <1>1, NextBlock DEF buf_next, N
<1>3. CASE PlayAudio \/ Return \/ Copy \/ Advance \/ DeviceDone \/ Reset \/ Close
  <2>1. UNCHANGED <<device, m_buf_read>> /\ WritePos' = WritePos
    BY <1>3 DEF PlayAudio, Return, Copy, Advance, Advanced, DeviceDone, Reset, Close,
                ring, dev, WritePos, buf_next
  <2>2. pc' \in {"copy", "write"} => pc \in {"copy", "write"}
    BY <1>3 DEF PlayAudio, Return, Copy, Advance, DeviceDone, Reset, Close
  <2> QED
    BY <1>0, <2>1, <2>2 DEF Window
<1>4. CASE Claim
  <2>1. UNCHANGED <<device, m_buf_read>> /\ WritePos' = WritePos /\ WritePos = m_buf_write
    BY <1>4 DEF Claim, ring, dev, WritePos
  <2>2. Wrap(m_buf_write + 1) # m_buf_read
    BY <1>2, <1>4 DEF Claim, Full
  <2>3. m_buf_write = Wrap(m_buf_read + Len(device))
    BY <1>0, <2>1 DEF Window
  <2>4. Len(device) + 1 < N
    BY <1>1, <2>2, <2>3 DEF Wrap, Block, N
  <2> QED
    BY <1>0, <2>1, <2>4 DEF Window
<1>5. CASE Write
  <2>1. /\ device' = Append(device, m_buf_write) /\ UNCHANGED ring
        /\ pc = "write" /\ pc' = "advance"
    BY <1>5 DEF Write
  <2>2. Len(device') = Len(device) + 1 /\ Len(device) + 1 < N
    BY <1>0, <2>1 DEF TypeOK, Window
  <2>3. m_buf_write = Wrap(m_buf_read + Len(device))
    BY <1>0, <2>1 DEF Window, WritePos
  <2>4. ASSUME NEW i \in 1..Len(device')
        PROVE  device'[i] = Wrap(m_buf_read' + i - 1)
    <3>1. CASE i = Len(device) + 1
      <4>1. device'[i] = m_buf_write
        BY <1>0, <2>1, <3>1 DEF TypeOK
      <4>2. m_buf_read + i - 1 = m_buf_read + Len(device)
        BY <1>1, <3>1 DEF Block
      <4> QED
        BY <2>1, <2>3, <4>1, <4>2 DEF ring
    <3>2. CASE i # Len(device) + 1
      <4>1. i \in 1..Len(device)
        BY <1>1, <2>2, <3>2
      <4>2. device'[i] = device[i]
        BY <1>0, <2>1, <4>1 DEF TypeOK
      <4> QED
        BY <1>0, <2>1, <4>1, <4>2 DEF Window, ring
    <3> QED
      BY <3>1, <3>2
  <2>5. WritePos' = Wrap(m_buf_read' + Len(device'))
    <3>1. WritePos' = Wrap(m_buf_write + 1)
      BY <1>2, <2>1 DEF WritePos, buf_next, ring
    <3>2. Wrap(Wrap(m_buf_read + Len(device)) + 1) = Wrap(m_buf_read + (Len(device) + 1))
      BY <1>1, <2>2 DEF Wrap, Block, N
    <3> QED
      BY <2>1, <2>2, <2>3, <3>1, <3>2 DEF ring
  <2> QED
    BY <2>1, <2>2, <2>4, <2>5 DEF Window
<1>6. CASE WaveOutProc
  <2>1. /\ device # <<>> /\ device' = Tail(device)
        /\ UNCHANGED <<m_buf_write, pc>>
        /\ m_buf_read' = Wrap(m_buf_read + 1)
    BY <1>0, <1>1, <1>6, NextBlock DEF TypeOK, WaveOutProc, N
  <2>2. Len(device') = Len(device) - 1 /\ Len(device) >= 1
    BY <1>0, <2>1 DEF TypeOK
  <2>3. ASSUME NEW i \in 1..Len(device')
        PROVE  device'[i] = Wrap(m_buf_read' + i - 1)
    <3>1. i + 1 \in 1..Len(device) /\ i \in 1..N - 1
      BY <1>1, <2>2 DEF N
    <3>2. device'[i] = device[i + 1]
      BY <1>0, <2>1 DEF TypeOK
    <3>3. device[i + 1] = Wrap(m_buf_read + (i + 1) - 1)
      BY <1>0, <3>1 DEF Window
    <3>4. m_buf_read + (i + 1) - 1 = m_buf_read + i /\ m_buf_read' + i - 1 = m_buf_read' + (i - 1)
      BY <1>1, <2>1, <3>1 DEF Block, Wrap, N
    <3> QED
      BY <1>1, <2>1, <3>1, <3>2, <3>3, <3>4, WrapShift
  <2>4. WritePos' = WritePos
    BY <2>1 DEF WritePos, buf_next
  <2>5. WritePos' = Wrap(m_buf_read' + Len(device'))
    BY <1>0, <1>1, <2>1, <2>2, <2>4, WrapShift DEF Window, N
  <2> QED
    BY <1>0, <1>1, <2>1, <2>2, <2>3, <2>5 DEF Window, N
<1>7. CASE UNCHANGED vars
  BY <1>0, <1>7 DEF vars, ring, dev, Window, WritePos, buf_next
<1> QED
  BY <1>3, <1>4, <1>5, <1>6, <1>7 DEF Next

\* Every step preserves the numbering of the blocks still to be played.
LEMMA StepNumbered ==
  ASSUME IInv, [Next]_vars
  PROVE  Numbered'
<1>0. TypeOK /\ Window /\ Numbered /\ Len(device) \in Nat
  BY DEF IInv, TypeOK
<1>1. CASE PlayAudio \/ Return \/ Claim \/ Advance \/ Close
  <2>1. UNCHANGED <<device, done, played, m_wave_blocks, accepted>>
    BY <1>1 DEF PlayAudio, Return, Claim, Advance, Close, ring, dev
  <2>2. pc # "write" /\ pc' # "write"
    BY <1>1 DEF PlayAudio, Return, Claim, Advance, Close
  <2>3. pc' \notin {"close", "closed"} => pc \notin {"close", "closed"}
    BY <1>1 DEF PlayAudio, Return, Claim, Advance, Close
  <2> QED
    BY <1>0, <2>1, <2>2, <2>3 DEF Numbered
<1>2. CASE Copy
  <2>1. /\ pc = "copy" /\ pc' = "write" /\ UNCHANGED <<device, done, played, m_buf_write>>
        /\ m_wave_blocks' = [m_wave_blocks EXCEPT ![m_buf_write] = accepted + 1]
        /\ accepted' = accepted + 1
    BY <1>2 DEF Copy, dev
  <2>2. \A i \in done + 1..Len(device) : m_wave_blocks'[device[i]] = m_wave_blocks[device[i]]
    <3> TAKE i \in done + 1..Len(device)
    <3>1. i \in 1..Len(device) /\ device[i] \in Block
      BY <1>0 DEF TypeOK
    <3>2. device[i] # m_buf_write
      BY <2>1, <3>1, ClaimedIsFree
    <3> QED
      BY <1>0, <2>1, <3>1, <3>2 DEF TypeOK
  <2>3. m_wave_blocks'[m_buf_write] = accepted'
    BY <1>0, <2>1 DEF TypeOK
  <2> QED
    BY <1>0, <2>1, <2>2, <2>3 DEF Numbered, TypeOK
<1>3. CASE Write
  <2>1. /\ device' = Append(device, m_buf_write) /\ Len(device') = Len(device) + 1
        /\ UNCHANGED <<m_wave_blocks, accepted, done, played>>
        /\ pc = "write" /\ pc' = "advance"
    BY <1>0, <1>3 DEF Write, ring, TypeOK
  <2>2. /\ accepted = played + (Len(device) - done) + 1
        /\ m_wave_blocks[m_buf_write] = accepted
    BY <1>0, <2>1 DEF Numbered
  <2>3. ASSUME NEW i \in done' + 1..Len(device')
        PROVE  m_wave_blocks'[device'[i]] = played' + (i - done')
    <3>1. CASE i = Len(device) + 1
      <4>1. device'[i] = m_buf_write
        BY <1>0, <2>1, <3>1 DEF TypeOK
      <4> QED
        BY <1>0, <2>1, <2>2, <3>1, <4>1 DEF TypeOK
    <3>2. CASE i # Len(device) + 1
      <4>1. i \in done + 1..Len(device) /\ i \in 1..Len(device)
        BY <1>0, <2>1, <3>2 DEF TypeOK
      <4>2. device'[i] = device[i]
        BY <1>0, <2>1, <4>1 DEF TypeOK
      <4> QED
        BY <1>0, <2>1, <4>1, <4>2 DEF Numbered
    <3> QED
      BY <3>1, <3>2
  <2>4. accepted' = played' + (Len(device') - done') + 0
    BY <1>0, <2>1, <2>2 DEF TypeOK
  <2> QED
    BY <2>1, <2>3, <2>4 DEF Numbered
<1>4. CASE DeviceDone
  <2>1. /\ done < Len(device) /\ done' = done + 1
        /\ played' = m_wave_blocks[device[done + 1]]
        /\ UNCHANGED <<device, m_wave_blocks, m_buf_write, pc, accepted>>
    BY <1>4 DEF DeviceDone, ring
  <2>2. played' = played + 1
    BY <1>0, <2>1 DEF Numbered, TypeOK
  <2>3. ASSUME NEW i \in done' + 1..Len(device')
        PROVE  m_wave_blocks'[device'[i]] = played' + (i - done')
    <3>1. i \in done + 1..Len(device)
      BY <1>0, <2>1 DEF TypeOK
    <3> QED
      BY <1>0, <2>1, <2>2, <3>1 DEF Numbered, TypeOK
  <2>4. played' + (Len(device') - done') = played + (Len(device) - done)
    BY <1>0, <2>1, <2>2 DEF TypeOK
  <2> QED
    BY <1>0, <2>1, <2>3, <2>4 DEF Numbered
<1>5. CASE WaveOutProc
  <2>1. /\ device # <<>> /\ done > 0 /\ device' = Tail(device) /\ done' = done - 1
        /\ UNCHANGED <<m_buf_write, m_wave_blocks, pc, accepted, played>>
    BY <1>0, <1>5 DEF WaveOutProc, TypeOK
  <2>2. Len(device') = Len(device) - 1
    BY <1>0, <2>1 DEF TypeOK
  <2>3. ASSUME NEW i \in done' + 1..Len(device')
        PROVE  m_wave_blocks'[device'[i]] = played' + (i - done')
    <3>1. i + 1 \in done + 1..Len(device) /\ i \in 1..Len(device')
      BY <1>0, <2>1, <2>2 DEF TypeOK
    <3>2. device'[i] = device[i + 1]
      BY <1>0, <2>1, <3>1 DEF TypeOK
    <3>3. m_wave_blocks[device[i + 1]] = played + ((i + 1) - done)
      BY <1>0, <3>1 DEF Numbered
    <3> QED
      BY <1>0, <2>1, <3>1, <3>2, <3>3 DEF TypeOK
  <2>4. played' + (Len(device') - done') = played + (Len(device) - done)
    BY <1>0, <2>1, <2>2 DEF TypeOK
  <2> QED
    BY <1>0, <2>1, <2>3, <2>4 DEF Numbered
<1>6. CASE Reset
  <2>1. done' = Len(device) /\ UNCHANGED device /\ pc' = "close"
    BY <1>6 DEF Reset
  <2> QED
    BY <1>0, <2>1 DEF Numbered
<1>7. CASE UNCHANGED vars
  BY <1>0, <1>7 DEF vars, ring, dev, Numbered
<1> QED
  BY <1>1, <1>2, <1>3, <1>4, <1>5, <1>6, <1>7 DEF Next

\* Every step preserves the inductive invariant.
LEMMA StepIInv ==
  ASSUME IInv, [Next]_vars
  PROVE  IInv'
<1>1. Ended'
  <2>1. Ended /\ TypeOK
    BY DEF IInv
  <2>2. CASE WaveOutProc
    BY <2>1, <2>2 DEF Ended, TypeOK, WaveOutProc
  <2>3. CASE Close
    BY <2>1, <2>3 DEF Ended, Close, Closed, dev
  <2>4. CASE PlayAudio \/ Return \/ Claim \/ Copy \/ Write \/ Advance \/ DeviceDone \/ Reset
    BY <2>1, <2>4 DEF Ended, PlayAudio, Return, Claim, Copy, Write, Advance, DeviceDone,
                      Reset, dev
  <2>5. CASE UNCHANGED vars
    BY <2>1, <2>5 DEF Ended, vars, dev
  <2> QED
    BY <2>2, <2>3, <2>4, <2>5 DEF Next
<1> QED
  BY <1>1, StepType, StepWindow, StepNumbered DEF IInv

\* Every reachable state satisfies the inductive invariant.
LEMMA Inductive == Spec => []IInv
<1>1. IInv /\ [Next]_vars => IInv'
  BY StepIInv
<1> QED
  BY InitIInv, <1>1, PTL DEF Spec

-----------------------------------------------------------------------------
\* The variables of wave_render keep their types: no position leaves the ring.
THEOREM TypeCorrect == Spec => []TypeOK
<1>1. IInv => TypeOK
  BY DEF IInv
<1> QED
  BY Inductive, <1>1, PTL

\* play_audio never copies into a block the device has still to play.
THEOREM NeverOverwrites == Spec => []NoOverwrite
<1>1. IInv => NoOverwrite
  <2> SUFFICES ASSUME IInv, pc = "copy", NEW i \in done + 1..Len(device)
               PROVE  device[i] # m_buf_write
    BY DEF NoOverwrite, Playing
  <2>1. i \in 1..Len(device)
    BY DEF IInv, TypeOK
  <2> QED
    BY <2>1, ClaimedIsFree
<1> QED
  BY Inductive, <1>1, PTL

\* The device plays what play_audio accepted, in order.
THEOREM InOrder == Spec => PlaysInOrder
<1>1. ASSUME IInv, [Next]_vars
      PROVE  [played' # played => played' = played + 1]_vars
  <2>1. CASE DeviceDone
    <3>1. done < Len(device) /\ played' = m_wave_blocks[device[done + 1]]
      BY <2>1 DEF DeviceDone
    <3>2. TypeOK /\ Numbered
      BY <1>1 DEF IInv
    <3>3. played' = played + 1
      BY <3>1, <3>2 DEF TypeOK, Numbered
    <3> QED
      BY <3>3
  <2>2. CASE ~DeviceDone
    <3>1. UNCHANGED played
      BY <1>1, <2>2 DEF Next, PlayAudio, Return, Claim, Copy, Write, Advance, WaveOutProc,
                        Reset, Close, vars, dev
    <3> QED
      BY <3>1
  <2> QED
    BY <2>1, <2>2
<1> QED
  BY Inductive, <1>1, PTL DEF Spec, PlaysInOrder

\* The device calls nobody back once the renderer is destroyed.
THEOREM NoLateCallback == Spec => []NoCallbackAfterFree
<1>1. IInv => NoCallbackAfterFree
  BY DEF IInv, Ended, NoCallbackAfterFree
<1> QED
  BY Inductive, <1>1, PTL
=============================================================================
