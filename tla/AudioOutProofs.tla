--------------------------- MODULE AudioOutProofs ---------------------------
(***************************************************************************)
(* For any sizes of the buffers, the frames and the stream: the renderers  *)
(* that audio_out.cpp gives an ao_context play the sound in order.         *)
(***************************************************************************)
EXTENDS AudioOut, WaveRingProofs

-----------------------------------------------------------------------------
(***************************************************************************)
(* waveOut.  What an ao_context does with wave_render is what wave_render  *)
(* does, so the theorems of WaveRingProofs hold of it.                     *)
(***************************************************************************)

\* audio_out with any of the renderers does with the waveOut ring what WaveRing
\* has it do: the audio renderers share nothing.
THEOREM WaveOutImplements == AudioSpec => Spec
<1>1. AudioInit => Init
  BY DEF AudioInit
<1>2. [AudioNext]_allVars => [Next]_vars
  BY DEF AudioNext, WaveStep, DsoundStep, SdlStep, allVars
<1> QED
  BY <1>1, <1>2, PTL DEF AudioSpec, Spec

-----------------------------------------------------------------------------
(***************************************************************************)
(* SDL.  The sound the present callback has read so far is the last that   *)
(* was taken from the pipe, unless a second read has gone to the start of  *)
(* the stream again.                                                       *)
(***************************************************************************)
SdlTypes ==
  /\ written \in Nat /\ taken \in Nat /\ taken <= written /\ sleft \in Nat
  /\ readed \in 0..len /\ stream \in [0..len - 1 -> Nat]

SdlRead ==
  callback = "read" /\ again = FALSE =>
    \A i \in 0..readed - 1 : stream[i] = taken - readed + i + 1

SdlInv == SdlTypes /\ SdlRead

\* What read gives: the lesser of two numbers.
LEMMA MinOfTwo ==
  ASSUME NEW a \in Int, NEW b \in Int
  PROVE  Sdl!Min({a, b}) = IF a <= b THEN a ELSE b
<1>1. \A x \in Int : (x \in {a, b} /\ \A y \in {a, b} : x <= y)
                       <=> x = (IF a <= b THEN a ELSE b)
  OBVIOUS
<1> QED
  BY <1>1 DEF Sdl!Min

\* Nothing is read at the start.
LEMMA SdlStart == Sdl!Init => SdlInv
  BY SdlAssumption DEF Sdl!Init, SdlInv, SdlTypes, SdlRead, Sdl!Silence, Sdl!Places

\* No step of the writer or of SDL's callback breaks the invariant.
LEMMA SdlStepInv ==
  ASSUME SdlInv, [Sdl!Next]_(Sdl!vars)
  PROVE  SdlInv'
<1> USE SdlAssumption
<1>0. SdlTypes /\ SdlRead
  BY DEF SdlInv
<1>1. CASE Sdl!PlayAudio \/ Sdl!Return \/ Sdl!Destory
  <2>1. sleft' \in Nat
    BY <1>0, <1>1 DEF SdlTypes, Sdl!PlayAudio, Sdl!Return, Sdl!Destory
  <2>2. UNCHANGED <<written, taken, readed, stream, callback, again>>
    BY <1>1 DEF Sdl!PlayAudio, Sdl!Return, Sdl!Destory, Sdl!pipe, Sdl!reader
  <2> QED
    BY <1>0, <2>1, <2>2 DEF SdlInv, SdlTypes, SdlRead
<1>2. CASE Sdl!Write
  <2>1. /\ sleft' \in Nat /\ written' \in Nat /\ written' >= written
        /\ UNCHANGED <<taken, readed, stream, callback, again>>
    BY <1>0, <1>2 DEF SdlTypes, Sdl!Write, Sdl!reader
  <2> QED
    BY <1>0, <2>1 DEF SdlInv, SdlTypes, SdlRead
<1>3. CASE Sdl!Callback
  <2>1. readed' = 0 /\ stream' = [i \in 0..len - 1 |-> 0] /\ UNCHANGED <<written, taken, sleft>>
    BY <1>3 DEF Sdl!Callback, Sdl!pipe, Sdl!writer, Sdl!Silence, Sdl!Places
  <2> QED
    BY <1>0, <2>1 DEF SdlInv, SdlTypes, SdlRead
<1>4. CASE Sdl!Read
  <2> DEFINE n == Sdl!Min({Sdl!Wanted, written - taken})
  <2>1. n = IF len - readed <= written - taken THEN len - readed ELSE written - taken
    BY <1>0, MinOfTwo DEF SdlTypes, Sdl!Wanted
  <2>2. /\ callback = "read" /\ readed < len /\ taken < written
        /\ stream' = [i \in 0..len - 1 |-> IF i < n THEN taken + i + 1 ELSE stream[i]]
        /\ taken' = taken + n /\ readed' = readed + n
        /\ again' = (readed > 0)
        /\ UNCHANGED <<written, sleft, callback>>
    BY <1>4 DEF Sdl!Read, Sdl!Places, Sdl!writer
  <2> HIDE DEF n
  <2>3. n \in 1..len - readed /\ taken + n <= written
    BY <1>0, <2>1, <2>2 DEF SdlTypes
  <2>4. stream' \in [0..len - 1 -> Nat]
    BY <1>0, <2>2, <2>3 DEF SdlTypes
  <2>5. SdlTypes'
    BY <1>0, <2>2, <2>3, <2>4 DEF SdlTypes
  <2>6. ASSUME again' = FALSE, NEW i \in 0..readed' - 1
        PROVE  stream'[i] = taken' - readed' + i + 1
    <3>1. ~(readed > 0)
      BY <2>2, <2>6
    <3>2. readed = 0 /\ i \in 0..n - 1 /\ i \in 0..len - 1
      BY <1>0, <2>2, <2>3, <2>6, <3>1 DEF SdlTypes
    <3>3. stream'[i] = taken + i + 1
      BY <2>2, <2>3, <3>2
    <3> QED
      BY <1>0, <2>2, <2>3, <3>2, <3>3 DEF SdlTypes
  <2> QED
    BY <2>5, <2>6 DEF SdlInv, SdlRead
<1>5. CASE Sdl!CallbackReturns
  <2>1. callback' = "off" /\ UNCHANGED <<written, taken, sleft, readed, stream>>
    BY <1>5 DEF Sdl!CallbackReturns, Sdl!pipe, Sdl!writer
  <2> QED
    BY <1>0, <2>1 DEF SdlInv, SdlTypes, SdlRead
<1>6. CASE UNCHANGED Sdl!vars
  <2>1. UNCHANGED <<written, taken, sleft, readed, stream, callback, again>>
    BY <1>6 DEF Sdl!vars, Sdl!pipe, Sdl!writer, Sdl!reader
  <2> QED
    BY <1>0, <2>1 DEF SdlInv, SdlTypes, SdlRead
<1> QED
  BY <1>1, <1>2, <1>3, <1>4, <1>5, <1>6 DEF Sdl!Next, Sdl!Writer, Sdl!Reader

\* A callback that the pipe did not keep waiting gives SDL the next len pieces.
THEOREM SdlPlaysInOrder == AudioSpec => []SdlInOrder
<1>1. AudioInit => SdlInv
  BY SdlStart DEF AudioInit
<1>2. SdlInv /\ [AudioNext]_allVars => SdlInv'
  <2>1. [AudioNext]_allVars => [Sdl!Next]_(Sdl!vars)
    BY DEF AudioNext, WaveStep, DsoundStep, SdlStep, allVars, svars, Sdl!vars, Sdl!pipe,
           Sdl!writer, Sdl!reader
  <2> QED
    BY <2>1, SdlStepInv
<1>3. SdlInv => SdlInOrder
  <2> SUFFICES ASSUME SdlTypes, SdlRead, callback = "read", readed >= len, ~again,
                      NEW i \in 0..len - 1
               PROVE  stream[i] = taken - len + i + 1
    BY DEF SdlInv, SdlInOrder, Sdl!PlaysInOrder, Sdl!Filled, Sdl!Places
  <2>1. readed = len
    BY SdlAssumption DEF SdlTypes
  <2>2. \A j \in 0..readed - 1 : stream[j] = taken - readed + j + 1
    BY DEF SdlRead
  <2> QED
    BY <2>1, <2>2
<1> QED
  BY <1>1, <1>2, <1>3, PTL DEF AudioSpec

-----------------------------------------------------------------------------
(***************************************************************************)
(* DirectSound.  Offsets are counted in blocks of Unit bytes, from         *)
(* m_write_offset on: Ahead(q) is what the device finds q blocks after it, *)
(* so the blocks written last are the ones with the largest q.             *)
(***************************************************************************)
Unit == m_min_free_space
Count == m_buffer_size \div Unit

InBlocks(offset) == offset \div Unit

Around(k) == IF k < Count THEN k ELSE k - Count

Ahead(q) == blocks[Around(InBlocks(m_write_offset) + q)]

\* Blocks from the cursor, or a copy of it, to m_write_offset.
Behind(offset) ==
  LET w == InBlocks(m_write_offset)
      c == InBlocks(offset)
  IN IF c <= w THEN w - c ELSE w - c + Count

\* The number that the next block written will have.
NextNumber == daccepted + (IF dpc = "unlock" THEN InBlocks(size) ELSE 0) + 1

\* Number y is played after x: the next one, or after a resend an earlier one.
Follows(x, y) == y <= x + 1 /\ (resent = FALSE => y = x + 1)

\* The block played before the one at q, if that is not played already.
Last(q) == IF Ahead(q) > 0 THEN Ahead(q) ELSE dplayed

WholeBlocks(offset) ==
  offset \in Nat /\ InBlocks(offset) \in 0..Count - 1 /\ offset = Unit * InBlocks(offset)

DsoundTypes ==
  /\ WholeBlocks(m_write_offset) /\ WholeBlocks(play_offset)
  /\ WholeBlocks(size) /\ WholeBlocks(cursor)
  /\ blocks \in [0..Count - 1 -> Nat]
  /\ dleft \in Nat /\ daccepted \in Nat /\ dplayed \in Nat
  /\ dpc \in {"idle", "space", "lock", "unlock", "closed"}
  /\ dpc \in {"lock", "unlock"} => InBlocks(size) <= dleft
  /\ resent \in BOOLEAN /\ overtaken \in BOOLEAN

(***************************************************************************)
(* What is still to be played lies between the cursor and m_write_offset,  *)
(* without a gap at its end.                                               *)
(***************************************************************************)
Unplayed ==
  /\ \A q \in 0..Count - 1 : Ahead(q) > 0 => q >= Count - Behind(cursor)
  /\ \A q, r \in 0..Count - 1 : q <= r /\ Ahead(q) > 0 => Ahead(r) > 0

\* It is in the order of the stream, from the block played last to the next one
\* written.
Ordered ==
  /\ \A q \in 1..Count - 1 : Ahead(q) > 0 => Follows(Last(q - 1), Ahead(q))
  /\ Follows(Last(Count - 1), NextNumber)

\* The room that play_audio goes by is there still, for the cursor only gives way.
RoomLeft ==
  /\ dpc = "space" => Behind(cursor) <= Behind(play_offset)
  /\ dpc = "lock" => Behind(cursor) + InBlocks(size) < Count

DsoundRingInv == Unplayed /\ Ordered /\ RoomLeft

DsoundInv == DsoundTypes /\ (overtaken = FALSE => DsoundRingInv)

\* A buffer of at least two blocks, which it holds without a remainder.
LEMMA UnitIs ==
  /\ Unit = 2 \/ Unit = 4
  /\ Count \in Nat /\ Count > 1 /\ m_buffer_size = Unit * Count
  /\ Dsound!Blocks = 0..Count - 1
<1> DEFINE n == m_buffer_size \div 4
<1>1. m_buffer_size = 4 * n /\ n \in Nat /\ n > 1
  BY DsoundAssumption
<1> HIDE DEF n
<1>2. CASE Unit = 2
  <2>1. (4 * n) \div 2 = 2 * n
    BY <1>1
  <2> QED
    BY <1>1, <1>2, <2>1 DEF Count, Unit, Dsound!Blocks
<1>3. CASE Unit = 4
  <2>1. (4 * n) \div 4 = n
    BY <1>1
  <2> QED
    BY <1>1, <1>3, <2>1 DEF Count, Unit, Dsound!Blocks
<1> QED
  BY <1>2, <1>3, DsoundAssumption DEF Unit

\* Offsets and blocks: a whole number of blocks comes back as that number.
LEMMA UnitDivides ==
  ASSUME NEW k \in Nat
  PROVE  /\ Unit * k \in Nat /\ InBlocks(Unit * k) = k
         /\ Dsound!BlockAt(Unit * k) = k
<1>1. CASE Unit = 2
  <2>1. (2 * k) \div 2 = k
    OBVIOUS
  <2> QED
    BY <1>1, <2>1 DEF InBlocks, Dsound!BlockAt, Unit
<1>2. CASE Unit = 4
  <2>1. (4 * k) \div 4 = k
    OBVIOUS
  <2> QED
    BY <1>2, <2>1 DEF InBlocks, Dsound!BlockAt, Unit
<1> QED
  BY <1>1, <1>2, UnitIs

\* BlockAt counts as InBlocks does.
LEMMA BlockIs ==
  ASSUME NEW offset
  PROVE  Dsound!BlockAt(offset) = InBlocks(offset)
  BY DEF InBlocks, Dsound!BlockAt, Unit

\* The block that the cursor goes to.
LEMMA CursorMoves ==
  ASSUME NEW c \in 0..Count - 1
  PROVE  (Unit * c + m_min_free_space) % m_buffer_size = Unit * Around(c + 1)
<1>1. m_min_free_space = Unit
  BY DEF Unit
<1>2. m_buffer_size = Unit * Count /\ Count \in Nat /\ Count > 1
  BY UnitIs
<1>3. CASE c + 1 < Count
  <2>1. ASSUME NEW x \in Nat, NEW y \in Nat, x < y PROVE x % y = x
    BY <2>1
  <2>2. CASE Unit = 2
    BY <1>1, <1>2, <1>3, <2>1, <2>2 DEF Around
  <2>3. CASE Unit = 4
    BY <1>1, <1>2, <1>3, <2>1, <2>3 DEF Around
  <2> QED
    BY <2>2, <2>3, UnitIs
<1>4. CASE c + 1 = Count
  <2>1. ASSUME NEW y \in Nat, y > 0 PROVE y % y = 0
    BY <2>1
  <2>2. CASE Unit = 2
    BY <1>1, <1>2, <1>4, <2>1, <2>2 DEF Around
  <2>3. CASE Unit = 4
    BY <1>1, <1>2, <1>4, <2>1, <2>3 DEF Around
  <2> QED
    BY <2>2, <2>3, UnitIs
<1> QED
  BY <1>2, <1>3, <1>4

\* Places around the buffer.
LEMMA AroundIs ==
  ASSUME NEW w \in 0..Count - 1
  PROVE  /\ \A q \in 0..Count - 1 : Around(w + q) \in 0..Count - 1
         /\ \A q, r \in 0..Count - 1 : Around(w + q) = Around(w + r) => q = r
         /\ \A n, q \in 0..Count - 1 :
              Around(Around(w + n) + q) =
                (IF q < Count - n THEN Around(w + (q + n)) ELSE Around(w + (q + n - Count)))
         /\ \A b \in 0..Count - 1 : \E q \in 0..Count - 1 : b = Around(w + q)
<1> USE UnitIs DEF Around
<1>1. \A b \in 0..Count - 1 : \E q \in 0..Count - 1 : b = Around(w + q)
  <2> TAKE b \in 0..Count - 1
  <2>1. CASE b >= w
    <3>1. b - w \in 0..Count - 1 /\ b = Around(w + (b - w))
      BY <2>1
    <3> QED
      BY <3>1
  <2>2. CASE b < w
    <3>1. b - w + Count \in 0..Count - 1 /\ b = Around(w + (b - w + Count))
      BY <2>2
    <3> QED
      BY <3>1
  <2> QED BY <2>1, <2>2
<1>2. \A q \in 0..Count - 1 : Around(w + q) \in 0..Count - 1
  OBVIOUS
<1>3. \A q, r \in 0..Count - 1 : Around(w + q) = Around(w + r) => q = r
  OBVIOUS
<1>4. \A n, q \in 0..Count - 1 :
        Around(Around(w + n) + q) =
          (IF q < Count - n THEN Around(w + (q + n)) ELSE Around(w + (q + n - Count)))
  OBVIOUS
<1> QED
  BY <1>1, <1>2, <1>3, <1>4

-----------------------------------------------------------------------------
\* How much the code finds to write, counted in blocks.
LEMMA SpaceIs ==
  ASSUME DsoundTypes
  PROVE  /\ Dsound!Space = Unit * (Count - Behind(play_offset))
         /\ Behind(play_offset) \in 0..Count - 1
<1> DEFINE w == InBlocks(m_write_offset)
           p == InBlocks(play_offset)
<1>1. /\ w \in 0..Count - 1 /\ m_write_offset = Unit * w
      /\ p \in 0..Count - 1 /\ play_offset = Unit * p
  BY DEF DsoundTypes, WholeBlocks
<1>2. Behind(play_offset) = IF p <= w THEN w - p ELSE w - p + Count
  BY DEF Behind
<1>3. Count \in Nat /\ Count > 1 /\ m_buffer_size = Unit * Count
  BY UnitIs
<1>4. Dsound!Space = IF m_buffer_size - (m_write_offset - play_offset) > m_buffer_size
                       THEN m_buffer_size - (m_write_offset - play_offset) - m_buffer_size
                       ELSE m_buffer_size - (m_write_offset - play_offset)
  BY DEF Dsound!Space
<1> HIDE DEF w, p
<1>5. CASE Unit = 2
  BY <1>1, <1>2, <1>3, <1>4, <1>5
<1>6. CASE Unit = 4
  BY <1>1, <1>2, <1>3, <1>4, <1>6
<1> QED
  BY <1>5, <1>6, UnitIs

\* play_audio decides on no more than it was offered, and leaves a block of the
\* room that it found.
LEMMA HasSpaceIs ==
  ASSUME DsoundTypes, Dsound!HasSpace
  PROVE  /\ size' \in Nat /\ InBlocks(size') \in 0..dleft /\ size' = Unit * InBlocks(size')
         /\ Behind(play_offset) + InBlocks(size') < Count
<1> DEFINE s == Count - Behind(play_offset)
           n == IF s <= dleft THEN s - 1 ELSE dleft
<1>1. /\ Dsound!Space = Unit * s /\ s \in 1..Count
  BY SpaceIs, UnitIs
<1>2. /\ Dsound!Space > Unit /\ dleft \in Nat
      /\ size' = IF Dsound!Space <= dleft * Unit THEN Dsound!Space - Unit ELSE dleft * Unit
  BY DEF Dsound!HasSpace, Dsound!Room, Unit, DsoundTypes, WholeBlocks
<1> HIDE DEF s
<1>3. size' = Unit * n /\ n \in Nat /\ n <= s - 1 /\ n <= dleft
  <2>1. CASE Unit = 2
    BY <1>1, <1>2, <2>1
  <2>2. CASE Unit = 4
    BY <1>1, <1>2, <2>2
  <2> QED
    BY <2>1, <2>2, UnitIs
<1> HIDE DEF n
<1>4. InBlocks(size') = n /\ size' \in Nat
  BY <1>3, UnitDivides
<1>5. s - 1 < Count - Behind(play_offset) /\ Behind(play_offset) \in 0..Count - 1
  BY <1>1, SpaceIs, UnitIs DEF s
<1> QED
  BY <1>3, <1>4, <1>5, UnitIs DEF s

\* The two parts that Lock gives, counted in blocks.
LEMMA PartsAre ==
  ASSUME DsoundTypes
  PROVE  LET w == InBlocks(m_write_offset)
             n == InBlocks(size)
             d == IF n <= Count - w THEN n ELSE Count - w
         IN Dsound!dst_bytes1 = Unit * d /\ Dsound!dst_bytes2 = Unit * (n - d)
<1> DEFINE w == InBlocks(m_write_offset)
           n == InBlocks(size)
           d == IF n <= Count - w THEN n ELSE Count - w
<1>1. /\ w \in 0..Count - 1 /\ m_write_offset = Unit * w
      /\ n \in 0..Count - 1 /\ size = Unit * n
  BY DEF DsoundTypes, WholeBlocks
<1>2. Count \in Nat /\ Count > 1 /\ m_buffer_size = Unit * Count
  BY UnitIs
<1>3. /\ Dsound!dst_bytes1 = IF size <= m_buffer_size - m_write_offset
                               THEN size ELSE m_buffer_size - m_write_offset
      /\ Dsound!dst_bytes2 = size - Dsound!dst_bytes1
  BY DEF Dsound!dst_bytes1, Dsound!dst_bytes2
<1> HIDE DEF w, n
<1>4. d \in Nat /\ n - d \in Nat
  BY <1>1, <1>2
<1>5. Dsound!dst_bytes1 = Unit * d
  <2>1. CASE Unit = 2
    BY <1>1, <1>2, <1>3, <2>1
  <2>2. CASE Unit = 4
    BY <1>1, <1>2, <1>3, <2>2
  <2> QED
    BY <2>1, <2>2, UnitIs
<1> HIDE DEF d
<1>6. Dsound!dst_bytes2 = Unit * (n - d)
  <2>1. CASE Unit = 2
    BY <1>1, <1>3, <1>4, <1>5, <2>1
  <2>2. CASE Unit = 4
    BY <1>1, <1>3, <1>4, <1>5, <2>2
  <2> QED
    BY <2>1, <2>2, UnitIs
<1> QED
  BY <1>5, <1>6 DEF d, w, n

\* The blocks from m_write_offset on are written, around the buffer, and no others.
LEMMA WritesAre ==
  ASSUME DsoundTypes, NEW q \in 0..Count - 1
  PROVE  Dsound!Writes(Around(InBlocks(m_write_offset) + q)) =
           IF q < InBlocks(size) THEN daccepted + q + 1 ELSE 0
<1> DEFINE w == InBlocks(m_write_offset)
           n == InBlocks(size)
           d == IF n <= Count - w THEN n ELSE Count - w
           b == Around(w + q)
<1>1. /\ w \in 0..Count - 1 /\ m_write_offset = Unit * w
      /\ n \in 0..Count - 1 /\ daccepted \in Nat
  BY DEF DsoundTypes, WholeBlocks
<1>2. Count \in Nat /\ Count > 1
  BY UnitIs
<1>3. b \in 0..Count - 1
  BY <1>1, AroundIs
<1>4. /\ Dsound!dst_bytes1 = Unit * d /\ Dsound!dst_bytes2 = Unit * (n - d)
  BY PartsAre
<1>5. \A k \in Int : Around(k) = IF k < Count THEN k ELSE k - Count
  BY DEF Around
<1>6. d \in 0..Count - 1 /\ d <= n
  BY <1>1, <1>2
<1> HIDE DEF w, n, b
<1>7. /\ (b * Unit >= Unit * w) <=> (b >= w)
      /\ (b * Unit < Unit * w + Unit * d) <=> (b < w + d)
      /\ (b * Unit < Unit * (n - d)) <=> (b < n - d)
      /\ b >= w => (b * Unit - Unit * w = Unit * (b - w) /\ b - w \in Nat)
      /\ Unit * d + b * Unit = Unit * (d + b) /\ d + b \in Nat
  <2> HIDE DEF d
  <2>1. CASE Unit = 2
    BY <1>1, <1>3, <1>6, <2>1
  <2>2. CASE Unit = 4
    BY <1>1, <1>3, <1>6, <2>2
  <2> QED
    BY <2>1, <2>2, UnitIs
<1>8. /\ b >= w => Dsound!BlockAt(b * Unit - Unit * w) = b - w
      /\ Dsound!BlockAt(Unit * d + b * Unit) = d + b
  BY <1>7, UnitDivides
<1>9. Dsound!Writes(b) =
        IF b * Unit >= Unit * w /\ b * Unit < Unit * w + Unit * d
          THEN daccepted + Dsound!BlockAt(b * Unit - Unit * w) + 1
          ELSE IF b * Unit < Unit * (n - d)
                 THEN daccepted + Dsound!BlockAt(Unit * d + b * Unit) + 1 ELSE 0
  BY <1>1, <1>4 DEF Dsound!Writes, Unit
<1>10. Dsound!Writes(b) = IF b >= w /\ b < w + d THEN daccepted + (b - w) + 1
                            ELSE IF b < n - d THEN daccepted + (d + b) + 1 ELSE 0
  BY <1>7, <1>8, <1>9
<1>11. Dsound!Writes(b) = IF q < n THEN daccepted + q + 1 ELSE 0
  BY <1>1, <1>2, <1>3, <1>5, <1>6, <1>10 DEF b
<1> QED
  BY <1>11 DEF b, w, n

-----------------------------------------------------------------------------
\* Copy moves m_write_offset on, so that the blocks it writes come last.
LEMMA CopyIs ==
  ASSUME DsoundTypes, Dsound!Copy
  PROVE  LET w == InBlocks(m_write_offset)
             n == InBlocks(size)
         IN /\ m_write_offset' \in Nat
            /\ InBlocks(m_write_offset') = Around(w + n)
            /\ m_write_offset' = Unit * Around(w + n)
            /\ blocks' \in [0..Count - 1 -> Nat]
            /\ \A q \in 0..Count - 1 :
                 blocks'[Around(w + q)] =
                   IF q < n THEN daccepted + q + 1 ELSE blocks[Around(w + q)]
<1> DEFINE w == InBlocks(m_write_offset)
           n == InBlocks(size)
           d == IF n <= Count - w THEN n ELSE Count - w
<1>1. /\ w \in 0..Count - 1 /\ m_write_offset = Unit * w
      /\ n \in 0..Count - 1 /\ daccepted \in Nat /\ blocks \in [0..Count - 1 -> Nat]
  BY DEF DsoundTypes, WholeBlocks
<1>2. /\ Count \in Nat /\ Count > 1 /\ m_buffer_size = Unit * Count
      /\ Dsound!Blocks = 0..Count - 1
  BY UnitIs
<1>3. \A q \in 0..Count - 1 : Around(w + q) \in 0..Count - 1
  BY <1>1, AroundIs
<1>4. \A q \in 0..Count - 1 :
        Dsound!Writes(Around(w + q)) = IF q < n THEN daccepted + q + 1 ELSE 0
  BY WritesAre
<1>5. blocks' = [b \in 0..Count - 1 |->
                   IF Dsound!Writes(b) > 0 THEN Dsound!Writes(b) ELSE blocks[b]]
  BY <1>2 DEF Dsound!Copy
<1>6. \A b \in 0..Count - 1 : \E q \in 0..Count - 1 : b = Around(w + q)
  BY <1>1, AroundIs
<1>7. ASSUME NEW q \in 0..Count - 1
      PROVE  blocks'[Around(w + q)] =
               IF q < n THEN daccepted + q + 1 ELSE blocks[Around(w + q)]
  <2>1. Around(w + q) \in 0..Count - 1
    BY <1>3
  <2>2. blocks'[Around(w + q)] =
          IF Dsound!Writes(Around(w + q)) > 0
            THEN Dsound!Writes(Around(w + q)) ELSE blocks[Around(w + q)]
    BY <1>5, <2>1
  <2>3. Dsound!Writes(Around(w + q)) = IF q < n THEN daccepted + q + 1 ELSE 0
    BY <1>4
  <2> HIDE DEF w, n
  <2> QED
    BY <1>1, <2>2, <2>3
<1>8. blocks' \in [0..Count - 1 -> Nat]
  <2>1. ASSUME NEW b \in 0..Count - 1
        PROVE  (IF Dsound!Writes(b) > 0 THEN Dsound!Writes(b) ELSE blocks[b]) \in Nat
    <3>1. PICK q \in 0..Count - 1 : b = Around(w + q)
      BY <1>6
    <3> HIDE DEF w, n
    <3> QED
      BY <1>1, <1>4, <3>1
  <2> QED
    BY <1>5, <2>1
<1>9. m_write_offset' = Unit * Around(w + n)
  <2>1. Dsound!dst_bytes1 = Unit * d /\ Dsound!dst_bytes2 = Unit * (n - d)
    BY PartsAre
  <2>2. m_write_offset' =
          LET v == m_write_offset + Dsound!dst_bytes1 + Dsound!dst_bytes2
          IN IF v >= m_buffer_size THEN Dsound!dst_bytes2 ELSE v
    BY DEF Dsound!Copy, Dsound!NextOffset
  <2>3. \A k \in Int : Around(k) = IF k < Count THEN k ELSE k - Count
    BY DEF Around
  <2>4. w + n \in Nat /\ d \in Nat /\ n - d \in Nat
    BY <1>1, <1>2
  <2>5. CASE w + n < Count
    <3>1. d = n /\ n - d = 0 /\ Around(w + n) = w + n
      BY <1>1, <1>2, <2>3, <2>4, <2>5
    <3> HIDE DEF d, w, n
    <3>2. CASE Unit = 2
      BY <1>1, <1>2, <2>1, <2>2, <2>5, <3>1, <3>2
    <3>3. CASE Unit = 4
      BY <1>1, <1>2, <2>1, <2>2, <2>5, <3>1, <3>3
    <3> QED
      BY <3>2, <3>3, UnitIs
  <2>6. CASE w + n >= Count
    <3>1. d = Count - w /\ Around(w + n) = n - d
      BY <1>1, <1>2, <2>3, <2>4, <2>6
    <3> HIDE DEF d, w, n
    <3>2. m_write_offset + Dsound!dst_bytes1 + Dsound!dst_bytes2 >= m_buffer_size
      <4>1. CASE Unit = 2
        BY <1>1, <1>2, <2>1, <2>4, <3>1, <4>1
      <4>2. CASE Unit = 4
        BY <1>1, <1>2, <2>1, <2>4, <3>1, <4>2
      <4> QED
        BY <4>1, <4>2, UnitIs
    <3> QED
      BY <2>1, <2>2, <3>1, <3>2
  <2> QED
    BY <1>2, <2>4, <2>5, <2>6
<1>10. Around(w + n) \in Nat
  BY <1>1, <1>3
<1>11. m_write_offset' \in Nat /\ InBlocks(m_write_offset') = Around(w + n)
  BY <1>9, <1>10, UnitDivides
<1> QED
  BY <1>7, <1>8, <1>9, <1>11

\* What lies ahead after Copy: what did, and after it the blocks written.
LEMMA CopyAhead ==
  ASSUME DsoundTypes, Dsound!Copy, Behind(cursor) + InBlocks(size) < Count
  PROVE  LET n == InBlocks(size)
         IN /\ \A q \in 0..Count - 1 :
                 (Ahead(q))' = IF q < Count - n THEN Ahead(q + n)
                                 ELSE daccepted + (q + n - Count) + 1
            /\ (Behind(cursor))' = Behind(cursor) + n
<1> DEFINE w == InBlocks(m_write_offset)
           n == InBlocks(size)
           c == InBlocks(cursor)
<1>1. w \in 0..Count - 1 /\ n \in 0..Count - 1 /\ c \in 0..Count - 1
  BY DEF DsoundTypes, WholeBlocks
<1>2. /\ InBlocks(m_write_offset') = Around(w + n)
      /\ \A q \in 0..Count - 1 :
           blocks'[Around(w + q)] =
             IF q < n THEN daccepted + q + 1 ELSE blocks[Around(w + q)]
  BY CopyIs
<1>3. Count \in Nat /\ Count > 1
  BY UnitIs
<1>4. ASSUME NEW q \in 0..Count - 1
      PROVE  (Ahead(q))' = IF q < Count - n THEN Ahead(q + n)
                             ELSE daccepted + (q + n - Count) + 1
  <2>1. (Ahead(q))' = blocks'[Around(Around(w + n) + q)]
    BY <1>2 DEF Ahead
  <2>2. Around(Around(w + n) + q) =
          (IF q < Count - n THEN Around(w + (q + n)) ELSE Around(w + (q + n - Count)))
    <3>1. \A m, r \in 0..Count - 1 :
            Around(Around(w + m) + r) =
              (IF r < Count - m THEN Around(w + (r + m)) ELSE Around(w + (r + m - Count)))
      BY <1>1, AroundIs
    <3> QED
      BY <1>1, <3>1
  <2>3. \A k \in Int : Ahead(k) = blocks[Around(w + k)]
    BY DEF Ahead
  <2> HIDE DEF w, n
  <2>4. CASE q < Count - n
    <3>1. q + n \in 0..Count - 1 /\ ~(q + n < n)
      BY <1>1, <1>3, <2>4
    <3>2. blocks'[Around(w + (q + n))] = blocks[Around(w + (q + n))]
      BY <1>2, <3>1
    <3> QED
      BY <2>1, <2>2, <2>3, <2>4, <3>1, <3>2
  <2>5. CASE ~(q < Count - n)
    <3>1. q + n - Count \in 0..Count - 1 /\ q + n - Count < n
      BY <1>1, <1>3, <2>5
    <3>2. blocks'[Around(w + (q + n - Count))] = daccepted + (q + n - Count) + 1
      BY <1>2, <3>1
    <3> QED
      BY <2>1, <2>2, <2>5, <3>2
  <2> QED
    BY <2>4, <2>5
<1>5. (Behind(cursor))' = Behind(cursor) + n
  <2>1. cursor' = cursor
    BY DEF Dsound!Copy, Dsound!device
  <2>2. Behind(cursor) = IF c <= w THEN w - c ELSE w - c + Count
    BY DEF Behind
  <2>3. (Behind(cursor))' = IF c <= Around(w + n) THEN Around(w + n) - c
                              ELSE Around(w + n) - c + Count
    BY <1>2, <2>1 DEF Behind
  <2>4. \A k \in Int : Around(k) = IF k < Count THEN k ELSE k - Count
    BY DEF Around
  <2>5. Behind(cursor) + n < Count
    OBVIOUS
  <2> HIDE DEF w, n, c
  <2> QED
    BY <1>1, <1>3, <2>2, <2>3, <2>4, <2>5
<1> QED
  BY <1>4, <1>5

\* The place of the device's cursor, from m_write_offset on.
CursorPlace == IF Behind(cursor) = 0 THEN 0 ELSE Count - Behind(cursor)

\* The device plays the block at its cursor, and leaves no other block changed.
LEMMA PlayIs ==
  ASSUME DsoundTypes, Dsound!DevicePlays
  PROVE  /\ Behind(cursor) \in 0..Count - 1 /\ CursorPlace \in 0..Count - 1
         /\ \A q \in 0..Count - 1 : (Ahead(q))' = IF q = CursorPlace THEN 0 ELSE Ahead(q)
         /\ (Behind(cursor))' = IF Behind(cursor) = 0 THEN Count - 1 ELSE Behind(cursor) - 1
         /\ dplayed' = Last(CursorPlace)
         /\ (Behind(play_offset))' = Behind(play_offset)
         /\ InBlocks(cursor') = Around(InBlocks(cursor) + 1)
         /\ cursor' = Unit * Around(InBlocks(cursor) + 1) /\ cursor' \in Nat
         /\ InBlocks(cursor') \in 0..Count - 1
         /\ blocks' \in [0..Count - 1 -> Nat]
         /\ cursor = m_write_offset <=> Behind(cursor) = 0
<1> DEFINE w == InBlocks(m_write_offset)
           c == InBlocks(cursor)
           k == CursorPlace
<1>1. /\ w \in 0..Count - 1 /\ c \in 0..Count - 1
      /\ m_write_offset = Unit * w /\ cursor = Unit * c
      /\ blocks \in [0..Count - 1 -> Nat]
  BY DEF DsoundTypes, WholeBlocks
<1>2. Count \in Nat /\ Count > 1 /\ m_buffer_size = Unit * Count
  BY UnitIs
<1>3. \A i \in Int : Around(i) = IF i < Count THEN i ELSE i - Count
  BY DEF Around
<1>4. Behind(cursor) = IF c <= w THEN w - c ELSE w - c + Count
  BY DEF Behind
<1>5. /\ UNCHANGED <<m_write_offset, play_offset>>
      /\ cursor' = (cursor + m_min_free_space) % m_buffer_size
      /\ dplayed' = IF blocks[c] > 0 THEN blocks[c] ELSE dplayed
      /\ blocks' = [blocks EXCEPT ![c] = 0]
  BY BlockIs DEF Dsound!DevicePlays, Dsound!position, Dsound!Fresh
<1>6. cursor' = Unit * Around(c + 1) /\ Around(c + 1) \in 0..Count - 1
  <2>1. cursor' = Unit * Around(c + 1)
    BY <1>1, <1>5, CursorMoves
  <2> HIDE DEF c
  <2> QED
    BY <1>1, <1>2, <1>3, <2>1
<1>7. cursor' \in Nat /\ InBlocks(cursor') = Around(c + 1)
  BY <1>6, UnitDivides
<1>8. k = IF Behind(cursor) = 0 THEN 0 ELSE Count - Behind(cursor)
  BY DEF CursorPlace
<1>9. (Behind(cursor))' = IF Around(c + 1) <= w THEN w - Around(c + 1)
                            ELSE w - Around(c + 1) + Count
  BY <1>5, <1>7 DEF Behind
<1> HIDE DEF w, c, k
<1>10. /\ Behind(cursor) \in 0..Count - 1 /\ k \in 0..Count - 1 /\ c = Around(w + k)
       /\ (Behind(cursor))' = IF Behind(cursor) = 0 THEN Count - 1 ELSE Behind(cursor) - 1
       /\ (c = w) <=> (Behind(cursor) = 0)
  <2>1. Behind(cursor) \in 0..Count - 1 /\ (c = w <=> Behind(cursor) = 0)
    BY <1>1, <1>2, <1>4
  <2>2. k \in 0..Count - 1 /\ c = Around(w + k)
    BY <1>1, <1>2, <1>3, <1>4, <1>8, <2>1
  <2>3. Around(c + 1) = IF c + 1 < Count THEN c + 1 ELSE c + 1 - Count
    BY <1>1, <1>2, <1>3
  <2>4. (Behind(cursor))' = IF Behind(cursor) = 0 THEN Count - 1 ELSE Behind(cursor) - 1
    <3> DEFINE e == Behind(cursor)
               f == (Behind(cursor))'
    <3>1. e = IF c <= w THEN w - c ELSE w - c + Count
      BY <1>4
    <3>2. f = IF Around(c + 1) <= w THEN w - Around(c + 1) ELSE w - Around(c + 1) + Count
      BY <1>9
    <3> HIDE DEF e, f
    <3>3. f = IF e = 0 THEN Count - 1 ELSE e - 1
      <4>1. CASE c + 1 < Count
        <5>1. Around(c + 1) = c + 1
          BY <2>3, <4>1
        <5>2. CASE c < w
          BY <1>1, <1>2, <3>1, <3>2, <5>1, <5>2
        <5>3. CASE c = w
          BY <1>1, <1>2, <3>1, <3>2, <5>1, <5>3
        <5>4. CASE c > w
          BY <1>1, <1>2, <3>1, <3>2, <5>1, <5>4
        <5> QED
          BY <1>1, <1>2, <5>2, <5>3, <5>4
      <4>2. CASE c + 1 = Count
        <5>1. Around(c + 1) = 0 /\ c >= w
          BY <1>1, <1>2, <2>3, <4>2
        <5>2. f = w
          BY <1>1, <1>2, <3>2, <5>1
        <5> QED
          BY <1>1, <1>2, <3>1, <4>2, <5>1, <5>2
      <4> QED
        BY <1>1, <1>2, <4>1, <4>2
    <3> QED
      BY <3>3 DEF e, f
  <2> QED
    BY <2>1, <2>2, <2>4
<1>11. \A q \in 0..Count - 1 : /\ Ahead(q) = blocks[Around(w + q)]
                               /\ (Ahead(q))' = blocks'[Around(w + q)]
                               /\ Around(w + q) \in 0..Count - 1
                               /\ Around(w + q) = Around(w + k) => q = k
  BY <1>1, <1>5, <1>10, AroundIs DEF Ahead, w
<1>12. \A q \in 0..Count - 1 : (Ahead(q))' = IF q = k THEN 0 ELSE Ahead(q)
  BY <1>1, <1>5, <1>10, <1>11
<1>13. dplayed' = Last(k)
  BY <1>5, <1>10, <1>11 DEF Last
<1>14. cursor = m_write_offset <=> Behind(cursor) = 0
  <2>1. CASE Unit = 2
    BY <1>1, <1>10, <2>1
  <2>2. CASE Unit = 4
    BY <1>1, <1>10, <2>2
  <2> QED
    BY <2>1, <2>2, UnitIs
<1>15. (Behind(play_offset))' = Behind(play_offset)
  BY <1>5 DEF Behind
<1>16. blocks' \in [0..Count - 1 -> Nat]
  BY <1>1, <1>5
<1> QED
  BY <1>6, <1>7, <1>10, <1>12, <1>13, <1>14, <1>15, <1>16 DEF k, c

-----------------------------------------------------------------------------
\* No operation leaves the whole blocks of the buffer.
LEMMA DsoundStepTypes ==
  ASSUME DsoundTypes, [Dsound!Next]_(Dsound!vars)
  PROVE  DsoundTypes'
<1> USE DEF DsoundTypes
<1>1. CASE Dsound!GetPosition
  <2>1. /\ play_offset' = cursor /\ dleft' = (IF dleft = 0 THEN DsoundFrame ELSE dleft)
        /\ dpc' = "space" /\ UNCHANGED <<m_write_offset, size, cursor, blocks, daccepted,
                                         dplayed, resent, overtaken>>
    BY <1>1 DEF Dsound!GetPosition, Dsound!device, Dsound!history
  <2>2. dleft' \in Nat
    BY <2>1, DsoundAssumption
  <2>3. /\ WholeBlocks(m_write_offset)' /\ WholeBlocks(play_offset)'
        /\ WholeBlocks(size)' /\ WholeBlocks(cursor)'
    BY <2>1 DEF WholeBlocks
  <2> QED
    BY <2>1, <2>2, <2>3
<1>2. CASE Dsound!ReturnFull \/ Dsound!Destory
  <2>1. dpc' \in {"idle", "closed"}
        /\ UNCHANGED <<m_write_offset, play_offset, size, cursor, blocks, dleft, daccepted,
                       dplayed, resent, overtaken>>
    BY <1>2 DEF Dsound!ReturnFull, Dsound!Destory, Dsound!position, Dsound!device,
                Dsound!history
  <2>2. /\ WholeBlocks(m_write_offset)' /\ WholeBlocks(play_offset)'
        /\ WholeBlocks(size)' /\ WholeBlocks(cursor)'
    BY <2>1 DEF WholeBlocks
  <2> QED
    BY <2>1, <2>2
<1>3. CASE Dsound!HasSpace
  <2>1. dpc' = "lock"
        /\ UNCHANGED <<m_write_offset, play_offset, cursor, blocks, dleft, daccepted,
                       dplayed, resent, overtaken>>
    BY <1>3 DEF Dsound!HasSpace, Dsound!device, Dsound!history
  <2>2. /\ size' \in Nat /\ InBlocks(size') \in 0..dleft /\ size' = Unit * InBlocks(size')
        /\ InBlocks(size') \in 0..Count - 1
    <3>1. Behind(play_offset) \in 0..Count - 1 /\ Count \in Nat
      BY SpaceIs, UnitIs
    <3> QED
      BY <1>3, <3>1, HasSpaceIs
  <2>3. /\ WholeBlocks(m_write_offset)' /\ WholeBlocks(play_offset)'
        /\ WholeBlocks(size)' /\ WholeBlocks(cursor)'
    BY <2>1, <2>2 DEF WholeBlocks
  <2>4. InBlocks(size') <= dleft'
    BY <2>1, <2>2
  <2> QED
    BY <2>1, <2>3, <2>4
<1>4. CASE Dsound!Fails
  <2>1. dpc' = "idle"
        /\ UNCHANGED <<m_write_offset, play_offset, size, cursor, blocks, dleft, daccepted,
                       dplayed, overtaken>>
    BY <1>4 DEF Dsound!Fails, Dsound!position, Dsound!device
  <2>2. resent' \in BOOLEAN
    BY <1>4 DEF Dsound!Fails
  <2>3. /\ WholeBlocks(m_write_offset)' /\ WholeBlocks(play_offset)'
        /\ WholeBlocks(size)' /\ WholeBlocks(cursor)'
    BY <2>1 DEF WholeBlocks
  <2> QED
    BY <2>1, <2>2, <2>3
<1>5. CASE Dsound!Copy
  <2>1. dpc = "lock" /\ dpc' = "unlock"
        /\ UNCHANGED <<play_offset, size, cursor, dleft, daccepted, dplayed, resent, overtaken>>
    BY <1>5 DEF Dsound!Copy, Dsound!device, Dsound!history
  <2>2. WholeBlocks(m_write_offset)' /\ blocks' \in [0..Count - 1 -> Nat]
    <3>1. /\ InBlocks(m_write_offset) \in 0..Count - 1
          /\ InBlocks(size) \in 0..Count - 1
      BY DEF WholeBlocks
    <3>2. Around(InBlocks(m_write_offset) + InBlocks(size)) \in 0..Count - 1
      BY <3>1, AroundIs
    <3> QED
      BY <1>5, <3>2, CopyIs DEF WholeBlocks
  <2>3. WholeBlocks(play_offset)' /\ WholeBlocks(size)' /\ WholeBlocks(cursor)'
    BY <2>1 DEF WholeBlocks
  <2>4. InBlocks(size') <= dleft'
    BY <2>1
  <2> QED
    BY <2>1, <2>2, <2>3, <2>4
<1>6. CASE Dsound!Unlock
  <2>1. /\ dpc = "unlock" /\ dpc' = "idle"
        /\ daccepted' = daccepted + InBlocks(size) /\ dleft' = dleft - InBlocks(size)
        /\ UNCHANGED <<m_write_offset, play_offset, size, cursor, blocks, dplayed, resent,
                       overtaken>>
    BY <1>6, BlockIs DEF Dsound!Unlock, Dsound!position, Dsound!history
  <2>2. daccepted' \in Nat /\ dleft' \in Nat
    <3>1. InBlocks(size) \in Nat
      BY DEF WholeBlocks
    <3>2. InBlocks(size) <= dleft
      BY <2>1
    <3>3. daccepted \in Nat /\ dleft \in Nat
      OBVIOUS
    <3> HIDE DEF DsoundTypes
    <3> QED
      BY <2>1, <3>1, <3>2, <3>3
  <2>3. /\ WholeBlocks(m_write_offset)' /\ WholeBlocks(play_offset)'
        /\ WholeBlocks(size)' /\ WholeBlocks(cursor)'
    BY <2>1 DEF WholeBlocks
  <2> QED
    BY <2>1, <2>2, <2>3
<1>7. CASE Dsound!DevicePlays
  <2>1. UNCHANGED <<m_write_offset, play_offset, size, dpc, dleft, daccepted, resent>>
    BY <1>7 DEF Dsound!DevicePlays, Dsound!position
  <2>2. overtaken' \in BOOLEAN
    BY <1>7 DEF Dsound!DevicePlays
  <2>3. WholeBlocks(cursor)' /\ blocks' \in [0..Count - 1 -> Nat]
    BY <1>7, PlayIs DEF WholeBlocks
  <2>4. dplayed' \in Nat
    <3>1. blocks[InBlocks(cursor)] \in Nat
      BY DEF WholeBlocks
    <3>2. dplayed' = blocks[InBlocks(cursor)] \/ dplayed' = dplayed
      BY <1>7, BlockIs DEF Dsound!DevicePlays
    <3> QED
      BY <3>1, <3>2
  <2>5. WholeBlocks(m_write_offset)' /\ WholeBlocks(play_offset)' /\ WholeBlocks(size)'
    BY <2>1 DEF WholeBlocks
  <2>6. dpc' \in {"lock", "unlock"} => InBlocks(size') <= dleft'
    BY <2>1
  <2> QED
    BY <2>1, <2>2, <2>3, <2>4, <2>5, <2>6
<1>8. CASE UNCHANGED Dsound!vars
  <2>1. UNCHANGED <<m_write_offset, play_offset, size, cursor, blocks, dpc, dleft, daccepted,
                    dplayed, resent, overtaken>>
    BY <1>8 DEF Dsound!vars, Dsound!position, Dsound!device, Dsound!history
  <2>2. /\ WholeBlocks(m_write_offset)' /\ WholeBlocks(play_offset)'
        /\ WholeBlocks(size)' /\ WholeBlocks(cursor)'
    BY <2>1 DEF WholeBlocks
  <2> QED
    BY <2>1, <2>2
<1> QED
  BY <1>1, <1>2, <1>3, <1>4, <1>5, <1>6, <1>7, <1>8 DEF Dsound!Next, Dsound!PlayAudio

-----------------------------------------------------------------------------
\* A step that leaves the buffer and the numbers alone leaves its contents in order.
LEMMA RingStays ==
  ASSUME Unplayed, Ordered, UNCHANGED <<m_write_offset, blocks, cursor, dplayed, resent>>,
         NextNumber' = NextNumber
  PROVE  Unplayed' /\ Ordered'
<1>1. \A q \in 0..Count - 1 : (Ahead(q))' = Ahead(q)
  BY DEF Ahead
<1>2. (Behind(cursor))' = Behind(cursor)
  BY DEF Behind
<1>3. \A q \in 0..Count - 1 : (Last(q))' = Last(q)
  BY <1>1 DEF Last
<1>4. Unplayed'
  BY <1>1, <1>2 DEF Unplayed
<1>5. \A x, y : (Follows(x, y))' <=> Follows(x, y)
  BY DEF Follows
<1>6. 1..Count - 1 \subseteq 0..Count - 1 /\ Count - 1 \in 0..Count - 1
      /\ \A q \in 1..Count - 1 : q - 1 \in 0..Count - 1
  BY UnitIs
<1>7. Ordered'
  BY <1>1, <1>3, <1>5, <1>6 DEF Ordered, Follows
<1> QED
  BY <1>4, <1>7

\* The device plays the block at its cursor, and plays it as the next one.
LEMMA PlayOrdered ==
  ASSUME DsoundTypes, Unplayed, Ordered, Dsound!DevicePlays
  PROVE  /\ Unplayed' /\ Ordered'
         /\ dplayed' # dplayed => Follows(dplayed, dplayed')
<1> DEFINE e == Behind(cursor)
           k == CursorPlace
           S(q) == Ahead(q)
           T(q) == (Ahead(q))'
           p == dplayed
           o == dplayed'
<1>1. /\ e \in 0..Count - 1 /\ k \in 0..Count - 1
      /\ \A q \in 0..Count - 1 : T(q) = IF q = k THEN 0 ELSE S(q)
      /\ (Behind(cursor))' = IF e = 0 THEN Count - 1 ELSE e - 1
      /\ o = Last(k)
  BY PlayIs
<1>2. k = IF e = 0 THEN 0 ELSE Count - e
  BY DEF CursorPlace
<1>3. Count \in Nat /\ Count > 1
  BY UnitIs
<1>4. \A q \in 0..Count - 1 : S(q) \in Nat
  <2>1. blocks \in [0..Count - 1 -> Nat] /\ InBlocks(m_write_offset) \in 0..Count - 1
    BY DEF DsoundTypes, WholeBlocks
  <2> QED
    BY <2>1, AroundIs DEF Ahead
<1>5. p \in Nat
  BY DEF DsoundTypes
<1>6. \A q \in 0..Count - 1 : S(q) > 0 => q >= Count - e
  BY DEF Unplayed
<1>7. \A q, r \in 0..Count - 1 : q <= r /\ S(q) > 0 => S(r) > 0
  BY DEF Unplayed
<1>8. resent' = resent /\ dpc' = dpc /\ NextNumber' = NextNumber
  BY DEF Dsound!DevicePlays, Dsound!position, NextNumber
<1>9. \A q : Last(q) = IF S(q) > 0 THEN S(q) ELSE p
  BY DEF Last
<1>10. \A q \in 0..Count - 1 : (Last(q))' = IF T(q) > 0 THEN T(q) ELSE o
  BY DEF Last
<1>11. \A x, y : (Follows(x, y))' <=> Follows(x, y)
  BY <1>8 DEF Follows
<1>12. /\ \A q \in 1..Count - 1 : S(q) > 0 => Follows(Last(q - 1), S(q))
       /\ Follows(Last(Count - 1), NextNumber)
  BY DEF Ordered
<1> HIDE DEF e, k, S, T, p, o
<1>13. \A q \in 0..Count - 1 : q < k => S(q) = 0
  BY <1>1, <1>2, <1>3, <1>4, <1>6
<1>14. e = 0 => \A q \in 0..Count - 1 : S(q) = 0
  BY <1>1, <1>3, <1>4, <1>6
<1>15. Unplayed'
  <2>1. ASSUME NEW q \in 0..Count - 1, T(q) > 0
        PROVE  q >= Count - (Behind(cursor))'
    <3>1. q # k /\ S(q) > 0
      BY <1>1, <2>1
    <3>2. e # 0 /\ q >= Count - e
      BY <1>4, <1>6, <1>14, <3>1
    <3>3. (Behind(cursor))' = e - 1 /\ k = Count - e
      BY <1>1, <1>2, <3>2
    <3> QED
      BY <1>1, <1>3, <3>1, <3>2, <3>3
  <2>2. ASSUME NEW q \in 0..Count - 1, NEW r \in 0..Count - 1, q <= r, T(q) > 0
        PROVE  T(r) > 0
    <3>1. q # k /\ S(q) > 0 /\ S(r) > 0
      BY <1>1, <1>7, <2>2
    <3>2. q > k
      BY <1>1, <1>13, <3>1
    <3> QED
      BY <1>1, <2>2, <3>1, <3>2
  <2> QED
    BY <2>1, <2>2 DEF Unplayed, T
\* Where a block is left unplayed, the one before it is as it was, or was played now.
<1>16. ASSUME NEW q \in 0..Count - 1, q = Count - 1 \/ (q + 1 \in 1..Count - 1 /\ T(q + 1) > 0)
       PROVE  (Last(q))' = Last(q)
  <2>1. CASE q = k
    <3>1. T(q) = 0 /\ o = Last(q)
      BY <1>1, <2>1
    <3> QED
      BY <1>10, <3>1
  <2>2. CASE q # k /\ S(q) > 0
    <3>1. T(q) = S(q)
      BY <1>1, <2>2
    <3> QED
      BY <1>9, <1>10, <2>2, <3>1
  <2>3. CASE q # k /\ ~(S(q) > 0)
    <3>1. S(k) = 0
      <4>1. CASE q > k
        BY <1>1, <1>4, <1>7, <2>3, <4>1
      <4>2. CASE q < k
        <5>1. q + 1 \in 1..Count - 1 /\ T(q + 1) > 0
          BY <1>1, <1>16, <4>2
        <5>2. q + 1 \in 0..Count - 1 /\ q + 1 # k /\ S(q + 1) > 0
          BY <1>1, <5>1
        <5>3. q + 1 < k
          BY <1>1, <4>2, <5>2
        <5> QED
          BY <1>13, <5>2, <5>3
      <4> QED
        BY <1>1, <2>3, <4>1, <4>2
    <3>2. o = p
      BY <1>1, <1>9, <3>1
    <3>3. T(q) = S(q)
      BY <1>1, <2>3
    <3> QED
      BY <1>9, <1>10, <2>3, <3>2, <3>3
  <2> QED
    BY <2>1, <2>2, <2>3
<1>17. Ordered'
  <2>1. ASSUME NEW q \in 1..Count - 1, T(q) > 0
        PROVE  (Follows(Last(q - 1), Ahead(q)))'
    <3>1. q \in 0..Count - 1 /\ q - 1 \in 0..Count - 1 /\ (q - 1) + 1 = q
      BY <1>3
    <3>2. (Last(q - 1))' = Last(q - 1)
      BY <1>16, <2>1, <3>1
    <3>3. T(q) = S(q)
      BY <1>1, <2>1, <3>1
    <3>4. Follows(Last(q - 1), S(q))
      BY <1>12, <2>1, <3>3
    <3>5. (Ahead(q))' = Ahead(q)
      BY <3>3 DEF T, S
    <3> QED
      BY <1>8, <3>2, <3>4, <3>5 DEF Follows, S
  <2>2. (Follows(Last(Count - 1), NextNumber))'
    <3>1. Count - 1 \in 0..Count - 1
      BY <1>3
    <3>2. (Last(Count - 1))' = Last(Count - 1)
      BY <1>16, <3>1
    <3> QED
      BY <1>8, <1>12, <3>2 DEF Follows
  <2> QED
    BY <2>1, <2>2 DEF Ordered, T
<1>18. ASSUME o # p PROVE Follows(p, o)
  <2>1. S(k) > 0 /\ o = S(k)
    BY <1>1, <1>9, <1>18
  <2>2. k \in 1..Count - 1
    BY <1>1, <1>2, <1>3, <1>4, <1>6, <2>1
  <2>3. Follows(Last(k - 1), S(k)) /\ k - 1 \in 0..Count - 1 /\ k - 1 < k
    BY <1>3, <1>12, <2>1, <2>2
  <2>4. S(k - 1) = 0
    BY <1>13, <2>3
  <2>5. Last(k - 1) = p
    BY <1>9, <2>4
  <2> QED
    BY <2>1, <2>3, <2>5
<1> QED
  BY <1>15, <1>17, <1>18 DEF o, p

\* What Copy writes follows what was written before it.
LEMMA CopyOrdered ==
  ASSUME DsoundTypes, Unplayed, Ordered, Dsound!Copy, Behind(cursor) + InBlocks(size) < Count
  PROVE  Unplayed' /\ Ordered'
<1> DEFINE e == Behind(cursor)
           n == InBlocks(size)
           a == daccepted
           S(q) == Ahead(q)
           T(q) == (Ahead(q))'
<1>1. /\ \A q \in 0..Count - 1 :
           T(q) = IF q < Count - n THEN S(q + n) ELSE a + (q + n - Count) + 1
      /\ (Behind(cursor))' = e + n
  BY CopyAhead
<1>2. Count \in Nat /\ Count > 1
  BY UnitIs
<1>3. n \in 0..Count - 1 /\ a \in Nat /\ dplayed \in Nat
  BY DEF DsoundTypes, WholeBlocks
<1>4. e \in 0..Count - 1 /\ e + n < Count
  <2>1. /\ InBlocks(cursor) \in 0..Count - 1 /\ InBlocks(m_write_offset) \in 0..Count - 1
    BY DEF DsoundTypes, WholeBlocks
  <2> QED
    BY <1>2, <2>1 DEF Behind
<1>5. \A q \in 0..Count - 1 : S(q) \in Nat
  <2>1. blocks \in [0..Count - 1 -> Nat] /\ InBlocks(m_write_offset) \in 0..Count - 1
    BY DEF DsoundTypes, WholeBlocks
  <2> QED
    BY <2>1, AroundIs DEF Ahead
<1>6. \A q \in 0..Count - 1 : S(q) > 0 => q >= Count - e
  BY DEF Unplayed
<1>7. \A q, r \in 0..Count - 1 : q <= r /\ S(q) > 0 => S(r) > 0
  BY DEF Unplayed
<1>8. /\ dplayed' = dplayed /\ resent' = resent
      /\ NextNumber = a + 1 /\ NextNumber' = a + n + 1
  <2>1. /\ dpc = "lock" /\ dpc' = "unlock"
        /\ UNCHANGED <<size, daccepted, dplayed, resent>>
    BY DEF Dsound!Copy, Dsound!device, Dsound!history
  <2>2. NextNumber = a + 0 + 1 /\ NextNumber' = a + n + 1
    BY <2>1 DEF NextNumber
  <2> QED
    BY <1>3, <2>1, <2>2
<1>9. \A q : Last(q) = IF S(q) > 0 THEN S(q) ELSE dplayed
  BY DEF Last
<1>10. \A q \in 0..Count - 1 : (Last(q))' = IF T(q) > 0 THEN T(q) ELSE dplayed
  BY <1>8 DEF Last
<1>11. /\ \A q \in 1..Count - 1 : S(q) > 0 => Follows(Last(q - 1), S(q))
       /\ Follows(Last(Count - 1), a + 1)
  BY <1>8 DEF Ordered
<1> HIDE DEF e, n, a, S, T
<1>12. \A q \in 0..Count - n - 1 : T(q) = S(q + n) /\ (Last(q))' = Last(q + n)
  BY <1>1, <1>2, <1>3, <1>9, <1>10
<1>13. \A q \in Count - n..Count - 1 : /\ T(q) = a + (q + n - Count) + 1
                                       /\ (Last(q))' = a + (q + n - Count) + 1
  BY <1>1, <1>2, <1>3, <1>10
<1>14. Unplayed'
  <2>1. ASSUME NEW q \in 0..Count - 1, T(q) > 0
        PROVE  q >= Count - (Behind(cursor))'
    <3>1. CASE q < Count - n
      <4>1. S(q + n) > 0 /\ q + n \in 0..Count - 1
        BY <1>1, <1>2, <1>3, <2>1, <3>1
      <4>2. q + n >= Count - e
        BY <1>6, <4>1
      <4> QED
        BY <1>1, <1>2, <1>3, <1>4, <4>2
    <3>2. CASE q >= Count - n
      BY <1>1, <1>2, <1>3, <1>4, <3>2
    <3> QED
      BY <1>2, <1>3, <3>1, <3>2
  <2>2. ASSUME NEW q \in 0..Count - 1, NEW r \in 0..Count - 1, q <= r, T(q) > 0
        PROVE  T(r) > 0
    <3>1. CASE r < Count - n
      <4>1. /\ T(q) = S(q + n) /\ T(r) = S(r + n)
            /\ q + n \in 0..Count - 1 /\ r + n \in 0..Count - 1 /\ q + n <= r + n
        BY <1>1, <1>2, <1>3, <2>2, <3>1
      <4> QED
        BY <1>7, <2>2, <4>1
    <3>2. CASE r >= Count - n
      BY <1>1, <1>2, <1>3, <3>2
    <3> QED
      BY <1>2, <1>3, <3>1, <3>2
  <2> QED
    BY <2>1, <2>2 DEF Unplayed, T
<1>15. ASSUME NEW q \in 1..Count - 1, T(q) > 0
       PROVE  Follows((Last(q - 1))', T(q))
  <2>1. CASE q < Count - n
    <3>1. q \in 0..Count - n - 1 /\ q - 1 \in 0..Count - n - 1 /\ q + n \in 1..Count - 1
          /\ (q - 1) + n = (q + n) - 1
      BY <1>2, <1>3, <2>1
    <3>2. T(q) = S(q + n) /\ (Last(q - 1))' = Last((q + n) - 1)
      BY <1>12, <3>1
    <3> QED
      BY <1>11, <1>15, <3>1, <3>2
  <2>2. CASE q = Count - n
    <3>1. q \in Count - n..Count - 1 /\ q - 1 \in 0..Count - n - 1
          /\ (q - 1) + n = Count - 1
      BY <1>2, <1>3, <2>2
    <3>2. T(q) = a + (q + n - Count) + 1 /\ (Last(q - 1))' = Last(Count - 1)
      BY <1>12, <1>13, <3>1
    <3>3. T(q) = a + 1
      BY <1>2, <1>3, <2>2, <3>2
    <3> QED
      BY <1>11, <3>2, <3>3
  <2>3. CASE q > Count - n
    <3>1. q \in Count - n..Count - 1 /\ q - 1 \in Count - n..Count - 1
      BY <1>2, <1>3, <2>3
    <3>2. T(q) = a + (q + n - Count) + 1 /\ (Last(q - 1))' = a + ((q - 1) + n - Count) + 1
      BY <1>13, <3>1
    <3>3. T(q) = (Last(q - 1))' + 1 /\ T(q) \in Int /\ (Last(q - 1))' \in Int
      BY <1>2, <1>3, <3>2
    <3> QED
      BY <3>3 DEF Follows
  <2> QED
    BY <1>2, <1>3, <2>1, <2>2, <2>3
<1>16. Follows((Last(Count - 1))', NextNumber')
  <2>1. CASE n = 0
    <3>1. Count - 1 \in 0..Count - n - 1 /\ (Count - 1) + n = Count - 1
      BY <1>2, <2>1
    <3>2. (Last(Count - 1))' = Last(Count - 1)
      BY <1>12, <3>1
    <3>3. NextNumber' = a + 1
      BY <1>3, <1>8, <2>1
    <3> QED
      BY <1>11, <3>2, <3>3
  <2>2. CASE n > 0
    <3>1. Count - 1 \in Count - n..Count - 1
      BY <1>2, <1>3, <2>2
    <3>2. (Last(Count - 1))' = a + n
      BY <1>2, <1>3, <1>13, <3>1
    <3>3. NextNumber' = a + n + 1
      BY <1>8
    <3> QED
      BY <1>3, <3>2, <3>3 DEF Follows
  <2> QED
    BY <1>3, <2>1, <2>2
<1>17. Ordered'
  BY <1>8, <1>15, <1>16 DEF Ordered, Follows, T
<1> QED
  BY <1>14, <1>17

-----------------------------------------------------------------------------
\* Every step keeps the contents in order, as long as the cursor overtakes no call;
\* then what the device plays is the next block.
LEMMA DsoundStepInv ==
  ASSUME DsoundInv, [Dsound!Next]_(Dsound!vars)
  PROVE  /\ DsoundInv'
         /\ overtaken' = FALSE /\ dplayed' # dplayed => Follows(dplayed, dplayed')
<1>0. DsoundTypes /\ DsoundTypes'
  BY DsoundStepTypes DEF DsoundInv
<1>1. overtaken' = FALSE => overtaken = FALSE
  <2>1. overtaken \in BOOLEAN
    BY <1>0 DEF DsoundTypes
  <2>2. UNCHANGED overtaken \/ overtaken' = (overtaken \/ (/\ cursor = m_write_offset
                                                          /\ dpc \in {"space", "lock"}))
    BY DEF Dsound!Next, Dsound!PlayAudio, Dsound!GetPosition, Dsound!ReturnFull,
           Dsound!HasSpace, Dsound!Fails, Dsound!Copy, Dsound!Unlock, Dsound!Destory,
           Dsound!DevicePlays, Dsound!vars, Dsound!history
  <2> QED
    BY <2>1, <2>2
<1>2. SUFFICES ASSUME overtaken' = FALSE
               PROVE  DsoundRingInv' /\ (dplayed' # dplayed => Follows(dplayed, dplayed'))
  BY <1>0 DEF DsoundInv
<1>3. Unplayed /\ Ordered /\ RoomLeft
  BY <1>1, <1>2 DEF DsoundInv, DsoundRingInv
<1>4. CASE Dsound!GetPosition
  <2>1. /\ dpc' = "space" /\ play_offset' = cursor /\ dpc = "idle"
        /\ UNCHANGED <<m_write_offset, blocks, cursor, dplayed, resent, daccepted>>
    BY <1>4 DEF Dsound!GetPosition, Dsound!device, Dsound!history
  <2>2. NextNumber' = NextNumber
    BY <2>1 DEF NextNumber
  <2>3. (Behind(cursor))' = Behind(cursor) /\ (Behind(play_offset))' = Behind(cursor)
    BY <2>1 DEF Behind
  <2>4. Behind(cursor) \in Int
    <3>1. /\ InBlocks(cursor) \in Int /\ InBlocks(m_write_offset) \in Int /\ Count \in Int
      BY <1>0, UnitIs DEF DsoundTypes, WholeBlocks
    <3> QED
      BY <3>1 DEF Behind
  <2>5. RoomLeft'
    BY <2>1, <2>3, <2>4 DEF RoomLeft
  <2> QED
    BY <1>3, <2>1, <2>2, <2>5, RingStays DEF DsoundRingInv
<1>5. CASE Dsound!ReturnFull \/ Dsound!Destory
  <2>1. /\ dpc' \in {"idle", "closed"} /\ dpc # "unlock"
        /\ UNCHANGED <<m_write_offset, blocks, cursor, dplayed, resent, daccepted>>
    BY <1>5 DEF Dsound!ReturnFull, Dsound!Destory, Dsound!position, Dsound!device,
                Dsound!history
  <2>2. NextNumber' = NextNumber
    BY <2>1 DEF NextNumber
  <2>3. RoomLeft'
    BY <2>1 DEF RoomLeft
  <2> QED
    BY <1>3, <2>1, <2>2, <2>3, RingStays DEF DsoundRingInv
<1>6. CASE Dsound!HasSpace
  <2>1. /\ dpc' = "lock" /\ dpc = "space"
        /\ UNCHANGED <<m_write_offset, blocks, cursor, dplayed, resent, daccepted>>
    BY <1>6 DEF Dsound!HasSpace, Dsound!device, Dsound!history
  <2>2. NextNumber' = NextNumber
    BY <2>1 DEF NextNumber
  <2>3. (Behind(cursor))' = Behind(cursor) /\ Behind(cursor) <= Behind(play_offset)
    BY <1>3, <2>1 DEF Behind, RoomLeft
  <2>4. Behind(play_offset) + InBlocks(size') < Count /\ InBlocks(size') \in Int
    BY <1>0, <1>6, HasSpaceIs DEF DsoundTypes
  <2>5. Behind(cursor) \in Int /\ Behind(play_offset) \in Int
    <3>1. /\ InBlocks(cursor) \in Int /\ InBlocks(play_offset) \in Int
          /\ InBlocks(m_write_offset) \in Int /\ Count \in Int
      BY <1>0, UnitIs DEF DsoundTypes, WholeBlocks
    <3> QED
      BY <3>1 DEF Behind
  <2>6. Behind(cursor) + InBlocks(size') < Count
    BY <2>3, <2>4, <2>5, UnitIs
  <2>7. RoomLeft'
    BY <2>1, <2>3, <2>6 DEF RoomLeft
  <2> QED
    BY <1>3, <2>1, <2>2, <2>7, RingStays DEF DsoundRingInv
<1>7. CASE Dsound!Fails
  <2>1. /\ dpc' = "idle" /\ dpc \in {"lock", "unlock"}
        /\ UNCHANGED <<m_write_offset, blocks, cursor, dplayed, daccepted, size>>
    BY <1>7 DEF Dsound!Fails, Dsound!position, Dsound!device
  <2>2. RoomLeft'
    BY <2>1 DEF RoomLeft
  <2>3. CASE dpc = "lock"
    <3>1. resent' = resent
      <4>1. resent \in BOOLEAN
        BY <1>0 DEF DsoundTypes
      <4>2. resent' = (resent \/ dpc = "unlock")
        BY <1>7 DEF Dsound!Fails
      <4> QED
        BY <2>3, <4>1, <4>2
    <3>2. NextNumber' = NextNumber
      BY <2>1, <2>3 DEF NextNumber
    <3> QED
      BY <1>3, <2>1, <2>2, <3>1, <3>2, RingStays DEF DsoundRingInv
  \* The blocks copied are offered again: their numbers follow as earlier ones.
  <2>4. CASE dpc = "unlock"
    <3>1. resent' = TRUE
      BY <1>7, <2>4 DEF Dsound!Fails
    <3>2. /\ \A q : (Ahead(q))' = Ahead(q)
          /\ \A q : (Last(q))' = Last(q)
          /\ (Behind(cursor))' = Behind(cursor)
      BY <2>1 DEF Ahead, Last, Behind
    <3>3. NextNumber' = daccepted + 1 /\ NextNumber = daccepted + InBlocks(size) + 1
      <4>1. NextNumber' = daccepted + 0 + 1
        BY <2>1 DEF NextNumber
      <4>2. daccepted \in Nat
        BY <1>0 DEF DsoundTypes
      <4> QED
        BY <2>4, <4>1, <4>2 DEF NextNumber
    <3>4. daccepted \in Nat /\ InBlocks(size) \in Nat /\ Last(Count - 1) \in Nat
      <4>1. /\ daccepted \in Nat /\ InBlocks(size) \in Nat /\ dplayed \in Nat
            /\ blocks \in [0..Count - 1 -> Nat] /\ InBlocks(m_write_offset) \in 0..Count - 1
        BY <1>0 DEF DsoundTypes, WholeBlocks
      <4>2. Count - 1 \in 0..Count - 1
        BY UnitIs
      <4>3. Ahead(Count - 1) \in Nat
        BY <4>1, <4>2, AroundIs DEF Ahead
      <4> QED
        BY <4>1, <4>3 DEF Last
    <3>5. \A x, y : Follows(x, y) => (Follows(x, y))'
      BY <3>1 DEF Follows
    <3>6. NextNumber' <= Last(Count - 1) + 1
      <4>1. NextNumber <= Last(Count - 1) + 1
        BY <1>3 DEF Ordered, Follows
      <4> QED
        BY <3>3, <3>4, <4>1
    <3>7. Unplayed'
      BY <1>3, <3>2 DEF Unplayed
    <3>8. (Follows(Last(Count - 1), NextNumber))'
      BY <3>1, <3>2, <3>6 DEF Follows
    <3>9. ASSUME NEW q \in 1..Count - 1, (Ahead(q))' > 0
          PROVE  (Follows(Last(q - 1), Ahead(q)))'
      <4>1. Follows(Last(q - 1), Ahead(q))
        BY <1>3, <3>2, <3>9 DEF Ordered
      <4> QED
        BY <3>1, <3>2, <4>1 DEF Follows
    <3>10. Ordered'
      BY <3>8, <3>9 DEF Ordered
    <3> QED
      BY <2>1, <2>2, <3>7, <3>10 DEF DsoundRingInv
  <2> QED
    BY <2>1, <2>3, <2>4
<1>8. CASE Dsound!Copy
  <2>1. /\ dpc = "lock" /\ dpc' = "unlock" /\ UNCHANGED dplayed
    BY <1>8 DEF Dsound!Copy, Dsound!device
  <2>2. Behind(cursor) + InBlocks(size) < Count
    BY <1>3, <2>1 DEF RoomLeft
  <2>3. RoomLeft'
    BY <2>1 DEF RoomLeft
  <2> QED
    BY <1>0, <1>3, <1>8, <2>1, <2>2, <2>3, CopyOrdered DEF DsoundRingInv
<1>9. CASE Dsound!Unlock
  <2>1. /\ dpc = "unlock" /\ dpc' = "idle" /\ daccepted' = daccepted + InBlocks(size)
        /\ UNCHANGED <<m_write_offset, blocks, cursor, dplayed, resent>>
    BY <1>9, BlockIs DEF Dsound!Unlock, Dsound!position, Dsound!history
  <2>2. NextNumber' = NextNumber
    <3>1. daccepted \in Nat /\ InBlocks(size) \in Nat
      BY <1>0 DEF DsoundTypes, WholeBlocks
    <3>2. /\ NextNumber = daccepted + InBlocks(size) + 1
          /\ NextNumber' = (daccepted + InBlocks(size)) + 0 + 1
      BY <2>1 DEF NextNumber
    <3> QED
      BY <3>1, <3>2
  <2>3. RoomLeft'
    BY <2>1 DEF RoomLeft
  <2> QED
    BY <1>3, <2>1, <2>2, <2>3, RingStays DEF DsoundRingInv
<1>10. CASE Dsound!DevicePlays
  <2>1. UNCHANGED <<dpc, size>>
    BY <1>10 DEF Dsound!DevicePlays, Dsound!position
  <2>2. dpc \in {"space", "lock"} => cursor # m_write_offset
    <3>1. overtaken' = (overtaken \/ (cursor = m_write_offset /\ dpc \in {"space", "lock"}))
      BY <1>10 DEF Dsound!DevicePlays
    <3> QED
      BY <1>2, <3>1
  <2>3. dpc \in {"space", "lock"} =>
          (Behind(cursor))' = Behind(cursor) - 1 /\ Behind(cursor) \in Nat
    BY <1>0, <1>10, <2>2, PlayIs
  <2>4. (Behind(play_offset))' = Behind(play_offset) /\ Behind(play_offset) \in Int
    BY <1>0, <1>10, PlayIs, SpaceIs
  <2>5. InBlocks(size) \in Int
    BY <1>0 DEF DsoundTypes, WholeBlocks
  <2>6. RoomLeft'
    <3>1. CASE dpc = "space"
      <4>1. (Behind(cursor))' <= (Behind(play_offset))'
        BY <1>3, <2>3, <2>4, <3>1 DEF RoomLeft
      <4> QED
        BY <2>1, <3>1, <4>1 DEF RoomLeft
    <3>2. CASE dpc = "lock"
      <4>1. Behind(cursor) + InBlocks(size) < Count
        BY <1>3, <3>2 DEF RoomLeft
      <4>2. (Behind(cursor))' + InBlocks(size) < Count
        BY <2>3, <2>5, <3>2, <4>1, UnitIs
      <4> QED
        BY <2>1, <3>2, <4>2 DEF RoomLeft
    <3>3. CASE dpc \notin {"space", "lock"}
      BY <2>1, <3>3 DEF RoomLeft
    <3> QED
      BY <3>1, <3>2, <3>3
  <2> QED
    BY <1>0, <1>3, <1>10, <2>6, PlayOrdered DEF DsoundRingInv
<1>11. CASE UNCHANGED Dsound!vars
  <2>1. UNCHANGED <<m_write_offset, blocks, cursor, dplayed, resent, daccepted, dpc, size,
                    play_offset>>
    BY <1>11 DEF Dsound!vars, Dsound!position, Dsound!device, Dsound!history
  <2>2. NextNumber' = NextNumber
    BY <2>1 DEF NextNumber
  <2>3. RoomLeft'
    BY <1>3, <2>1 DEF RoomLeft, Behind
  <2> QED
    BY <1>3, <2>1, <2>2, <2>3, RingStays DEF DsoundRingInv
<1> QED
  BY <1>4, <1>5, <1>6, <1>7, <1>8, <1>9, <1>10, <1>11 DEF Dsound!Next, Dsound!PlayAudio

\* The empty buffer is in order.
LEMMA DsoundStart == Dsound!Init => DsoundInv
<1> SUFFICES ASSUME Dsound!Init PROVE DsoundInv
  OBVIOUS
<1>1. /\ m_write_offset = 0 /\ play_offset = 0 /\ size = 0 /\ cursor = 0
      /\ blocks = [b \in 0..Count - 1 |-> 0]
      /\ dpc = "idle" /\ dleft = 0 /\ daccepted = 0 /\ dplayed = 0
      /\ resent = FALSE /\ overtaken = FALSE
  BY UnitIs DEF Dsound!Init
<1>2. Count \in Nat /\ Count > 1
  BY UnitIs
<1>3. InBlocks(0) = 0 /\ Unit * 0 = 0
  <2>1. Unit * 0 = 0
    BY UnitIs
  <2> QED
    BY <2>1, UnitDivides
<1>4. WholeBlocks(0)
  BY <1>2, <1>3 DEF WholeBlocks
<1>5. DsoundTypes
  BY <1>1, <1>2, <1>4 DEF DsoundTypes
<1>6. Behind(cursor) = 0
  BY <1>1, <1>3 DEF Behind
<1>7. \A q \in 0..Count - 1 : Ahead(q) = 0
  BY <1>1, <1>2, <1>3 DEF Ahead, Around
<1>8. Unplayed
  BY <1>7 DEF Unplayed
<1>9. Ordered
  <2>1. Count - 1 \in 0..Count - 1
    BY <1>2
  <2>2. Last(Count - 1) = 0
    BY <1>1, <1>7, <2>1 DEF Last
  <2>3. NextNumber = 1
    BY <1>1 DEF NextNumber
  <2> QED
    BY <1>7, <2>2, <2>3 DEF Ordered, Follows
<1>10. RoomLeft
  BY <1>1 DEF RoomLeft
<1> QED
  BY <1>5, <1>8, <1>9, <1>10 DEF DsoundInv, DsoundRingInv

\* DirectSound plays the blocks of the stream in order, none overwritten, as long as
\* its cursor passes m_write_offset in no call, and repeats one only after a failed Unlock.
THEOREM DsoundPlaysInOrder == AudioSpec => DsoundInOrder
<1>1. AudioInit => DsoundInv
  BY DsoundStart DEF AudioInit
<1>2. [AudioNext]_allVars => [Dsound!Next]_(Dsound!vars)
  BY DEF AudioNext, WaveStep, DsoundStep, SdlStep, allVars, dvars, Dsound!vars,
         Dsound!position, Dsound!device, Dsound!history
<1>3. DsoundInv /\ [AudioNext]_allVars => DsoundInv'
  BY <1>2, DsoundStepInv
<1>4. ASSUME DsoundInv, [AudioNext]_allVars
      PROVE  [dplayed' # dplayed /\ ~overtaken' =>
                /\ dplayed' <= dplayed + 1
                /\ ~resent => (dplayed' = dplayed + 1)]_(Dsound!vars)
  <2>1. SUFFICES ASSUME dplayed' # dplayed, ~overtaken'
                 PROVE  dplayed' <= dplayed + 1 /\ (~resent => dplayed' = dplayed + 1)
    OBVIOUS
  <2>2. DsoundInv' /\ DsoundInv
    BY <1>3, <1>4
  <2>3. overtaken' = FALSE /\ resent \in BOOLEAN
    BY <2>1, <2>2 DEF DsoundInv, DsoundTypes
  <2>4. Follows(dplayed, dplayed')
    BY <1>2, <1>4, <2>1, <2>3, DsoundStepInv
  <2> QED
    BY <2>3, <2>4 DEF Follows
<1> QED
  BY <1>1, <1>3, <1>4, PTL DEF AudioSpec, DsoundInOrder, Dsound!PlaysInOrder
=============================================================================
