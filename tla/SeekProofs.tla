----------------------------- MODULE SeekProofs -----------------------------
(***************************************************************************)
(* Proofs about the seek protocol: for any positions and any number of     *)
(* calls, the fields that the threads share without a lock have their      *)
(* types, and the reader seeks to a position that was asked for.           *)
(***************************************************************************)
EXTENDS Seek, TLAPS

Threads == {"app", "reader"}

\* What may stand for a position of the application: itself, or what av_seek
\* makes of it when it keeps it back, or the 0 of the beginning.
Known == {0} \cup asked \cup {Rounded(f) : f \in asked}

(***************************************************************************)
(* The inductive invariant.  A position travels from the application's     *)
(* call through m_seeking (as a permille) or m_seek_pos to the reader, and *)
(* through the reader's own call of av_seek back into either.              *)
(***************************************************************************)
KeptAsked ==
  m_seeking \in {SEEKING, NOSEEKING} \cup {Permille(f) : f \in asked}

Known_All ==
  /\ target \in Known /\ m_seek_pos \in Known
  /\ \A c \in Threads : fact[c] \in Known

SeekInv == TypeOK /\ KeptAsked /\ Known_All

\* Keeping a position back once more does not change it again: what the
\* reader repeats is kept as the permille of the call it came from.
LEMMA KeptTwice ==
  /\ \A f \in Nat : Permille(f) \in Nat /\ Rounded(f) \in Nat
  /\ \A f \in Nat : Permille(Rounded(f)) = Permille(f)
  /\ Permille(0) = NOSEEKING
BY DEF Permille, OfPermille, Rounded, NOSEEKING

LEMMA KnownKept ==
  ASSUME TypeOK, NEW f \in Known
  PROVE  /\ Permille(f) \in {NOSEEKING} \cup {Permille(g) : g \in asked}
         /\ f \in Nat
<1>1. asked \subseteq Nat
  BY PositionsAssumption DEF TypeOK
<1>2. CASE f = 0
  BY <1>2, KeptTwice
<1>3. CASE f \in asked
  BY <1>1, <1>3
<1>4. CASE f \in {Rounded(g) : g \in asked}
  <2>1. PICK g \in asked : f = Rounded(g)
    BY <1>4
  <2>2. Permille(f) = Permille(g) /\ f \in Nat
    BY <1>1, <2>1, KeptTwice
  <2>3. QED
    BY <2>2
<1>5. QED
  BY <1>2, <1>3, <1>4 DEF Known

LEMMA SeekInit == Init => SeekInv
<1>1. SUFFICES ASSUME Init PROVE SeekInv
  OBVIOUS
<1>2. TypeOK
  <2>1. pc \in [Threads -> Pc]
    BY <1>1 DEF Init, Threads, Pc
  <2>2. fact \in [Threads -> Nat]
    BY <1>1 DEF Init, Threads
  <2>3. calls \in 0..MaxCalls /\ asked \subseteq Positions /\ m_seeking = NOSEEKING
        /\ m_seek_pos \in Nat /\ target \in Nat
    BY <1>1, PositionsAssumption DEF Init
  <2>4. m_seek_req \in BOOLEAN /\ wiped \in BOOLEAN /\ pcV \in {"idle", "clear"}
    BY <1>1 DEF Init
  <2>5. QED
    BY <2>1, <2>2, <2>3, <2>4 DEF TypeOK, Threads
<1>3. KeptAsked /\ Known_All
  BY <1>1 DEF Init, KeptAsked, Known_All, Known, Threads
<1>4. QED
  BY <1>2, <1>3 DEF SeekInv

\* av_seek, in either thread.
LEMMA SeekAvSeek ==
  ASSUME SeekInv, NEW c \in Threads, AvSeek(c) PROVE SeekInv'
<1> USE DEF Goto, flags, callers
<1>1. TypeOK /\ KeptAsked /\ Known_All /\ fact[c] \in Known
  BY DEF SeekInv, Known_All
<1>2. Permille(fact[c]) \in {NOSEEKING} \cup {Permille(g) : g \in asked} /\ fact[c] \in Nat
  BY <1>1, KnownKept
<1>3. asked' = asked /\ target' = target /\ fact' = fact
      /\ calls' = calls /\ pcV' = pcV
  BY DEF AvSeek, Check, CheckReq, Save, Start, SetReq, SetSeeking, SetPos
<1>4. Known' = Known
  BY <1>3 DEF Known
<1>5. wiped' \in BOOLEAN
  BY <1>1 DEF AvSeek, Check, CheckReq, Save, Start, SetReq, SetSeeking, SetPos, TypeOK
<1>6. m_seek_req' \in BOOLEAN
  BY <1>1 DEF AvSeek, Check, CheckReq, Save, Start, SetReq, SetSeeking, SetPos, TypeOK
<1>7. pc' \in [Threads -> Pc]
  <2>1. pc \in [Threads -> Pc]
    BY <1>1 DEF TypeOK, Threads
  <2>2. Returned(c) \in Pc
    BY DEF Returned, Pc
  <2>3. \E l \in Pc : pc' = [pc EXCEPT ![c] = l]
    <3>1. CASE Check(c)
      BY <3>1 DEF Check, Pc
    <3>2. CASE CheckReq(c)
      BY <3>2 DEF CheckReq, Pc
    <3>3. CASE Save(c) \/ SetPos(c)
      BY <3>3, <2>2 DEF Save, SetPos
    <3>4. CASE Start(c)
      BY <3>4, <2>2 DEF Start, Pc
    <3>5. CASE SetReq(c) \/ SetSeeking(c)
      BY <3>5 DEF SetReq, SetSeeking, Pc
    <3>6. QED
      BY <3>1, <3>2, <3>3, <3>4, <3>5 DEF AvSeek
  <2>4. QED
    BY <2>1, <2>3
<1>8. m_seek_pos' \in Known
  BY <1>1 DEF AvSeek, Check, CheckReq, Save, Start, SetReq, SetSeeking, SetPos, Known_All
<1>9. m_seeking' \in {SEEKING, NOSEEKING} \cup {Permille(f) : f \in asked}
  <2>1. CASE Save(c)
    BY <2>1, <1>2 DEF Save, Kept
  <2>2. CASE SetSeeking(c)
    BY <2>2 DEF SetSeeking
  <2>3. CASE Check(c) \/ CheckReq(c) \/ Start(c) \/ SetReq(c) \/ SetPos(c)
    BY <2>3, <1>1 DEF Check, CheckReq, Start, SetReq, SetPos, KeptAsked
  <2>4. QED
    BY <2>1, <2>2, <2>3 DEF AvSeek
<1>10. m_seek_pos' \in Nat
  BY <1>1, <1>8, KnownKept
<1>11. KeptAsked' /\ Known_All'
  BY <1>1, <1>3, <1>4, <1>8, <1>9 DEF KeptAsked, Known_All
<1>12. m_seeking' \in {SEEKING, NOSEEKING} \cup {Permille(f) : f \in Positions}
  BY <1>1, <1>9 DEF TypeOK
<1>13. TypeOK'
  BY <1>1, <1>3, <1>5, <1>6, <1>7, <1>10, <1>12 DEF TypeOK, Threads
<1>14. QED
  BY <1>11, <1>13 DEF SeekInv

\* A call adds its position to those asked for; nothing else moves.
LEMMA SeekCall == ASSUME SeekInv, Call PROVE SeekInv'
<1> USE DEF Goto, flags, callers
<1>1. TypeOK /\ KeptAsked /\ Known_All
  BY DEF SeekInv
<1>2. PICK f \in Positions : fact' = [fact EXCEPT !["app"] = f] /\ asked' = asked \cup {f}
  BY DEF Call
<1>3. asked \subseteq asked' /\ Known \subseteq Known' /\ f \in Known'
  BY <1>2 DEF Known
<1>4. UNCHANGED <<m_seeking, m_seek_req, m_seek_pos, target, wiped, pcV>>
      /\ pc' = [pc EXCEPT !["app"] = "check"] /\ calls < MaxCalls /\ calls' = calls + 1
  BY DEF Call
<1>5. KeptAsked' /\ Known_All'
  <2>1. KeptAsked'
    BY <1>1, <1>3, <1>4 DEF KeptAsked
  <2>2. \A c \in Threads : fact'[c] \in Known'
    BY <1>1, <1>2, <1>3 DEF Known_All, TypeOK, Threads
  <2>3. QED
    BY <1>1, <1>3, <1>4, <2>1, <2>2 DEF Known_All
<1>6. TypeOK'
  BY <1>1, <1>2, <1>4, PositionsAssumption DEF TypeOK, Pc
<1>7. QED
  BY <1>5, <1>6 DEF SeekInv

\* read_pkt_thrd, outside of av_seek, and the renderers.
LEMMA SeekReader ==
  ASSUME SeekInv, ReadTop \/ ReadReq \/ ReadTake \/ ReadDone \/ Render
  PROVE  SeekInv'
<1> USE DEF Goto, flags, callers
<1>1. TypeOK /\ KeptAsked /\ Known_All
  BY DEF SeekInv
<1>2. asked' = asked /\ Known' = Known
  BY DEF ReadTop, ReadReq, ReadTake, ReadDone, Render, RenderCheck, RenderClear, Known
<1>3. CASE ReadTop
  <2>1. UNCHANGED <<m_seeking, m_seek_req, m_seek_pos, calls, target, wiped, pcV>>
    BY <1>3 DEF ReadTop
  <2>2. pc' \in [Threads -> Pc]
    BY <1>1, <1>3 DEF ReadTop, TypeOK, Pc, Threads
  <2>3. fact' \in [Threads -> Nat] /\ \A c \in Threads : fact'[c] \in Known
    <3>1. CASE ~(m_seeking > NOSEEKING)
      BY <1>1, <1>3, <3>1 DEF ReadTop, TypeOK, Known_All, Threads
    <3>2. CASE m_seeking > NOSEEKING
      <4>1. PICK f \in asked : m_seeking = Permille(f)
        BY <1>1, <3>2 DEF KeptAsked, NOSEEKING, SEEKING
      <4>2. Again = Rounded(f) /\ Again \in Known
        BY <4>1 DEF Again, Rounded, Known
      <4>3. Again \in Nat
        BY <1>1, <4>2, KnownKept
      <4>4. fact' = [fact EXCEPT !["reader"] = Again]
        BY <1>3, <3>2 DEF ReadTop
      <4>5. QED
        BY <1>1, <4>2, <4>3, <4>4 DEF TypeOK, Known_All, Threads
    <3>3. QED
      BY <3>1, <3>2
  <2>4. TypeOK'
    BY <1>1, <1>2, <2>1, <2>2, <2>3 DEF TypeOK, Threads
  <2>5. KeptAsked' /\ Known_All'
    BY <1>1, <1>2, <2>1, <2>3 DEF KeptAsked, Known_All
  <2>6. QED
    BY <2>4, <2>5 DEF SeekInv
<1>4. CASE ReadReq
  BY <1>1, <1>2, <1>4 DEF ReadReq, SeekInv, TypeOK, KeptAsked, Known_All, Pc
<1>5. CASE ReadTake
  BY <1>1, <1>2, <1>5 DEF ReadTake, SeekInv, TypeOK, KeptAsked, Known_All, Pc
<1>6. CASE ReadDone
  BY <1>1, <1>2, <1>6 DEF ReadDone, StillAsked, SeekInv, TypeOK, KeptAsked, Known_All, Pc
<1>7. CASE RenderCheck
  BY <1>1, <1>2, <1>7 DEF RenderCheck, SeekInv, TypeOK, KeptAsked, Known_All
<1>8. CASE RenderClear
  BY <1>1, <1>2, <1>8 DEF RenderClear, SeekInv, TypeOK, KeptAsked, Known_All
<1>9. QED
  BY <1>3, <1>4, <1>5, <1>6, <1>7, <1>8 DEF Render

LEMMA SeekInvariant == Spec => []SeekInv
<1>1. ASSUME SeekInv, [Next]_vars PROVE SeekInv'
  <2>1. CASE Next
    BY <1>1, <2>1, SeekAvSeek, SeekCall, SeekReader DEF Next, Reader, Threads
  <2>2. CASE UNCHANGED vars
    BY <1>1, <2>2 DEF vars, flags, callers, SeekInv, TypeOK, KeptAsked, Known_All, Known
  <2>3. QED
    BY <1>1, <2>1, <2>2
<1>2. QED
  BY <1>1, SeekInit, PTL DEF Spec

(***************************************************************************)
(* The shared fields keep their types: m_seeking is one of its two flags   *)
(* or the permille of a position.                                          *)
(***************************************************************************)
THEOREM TypeCorrect == Spec => []TypeOK
BY SeekInvariant, PTL DEF SeekInv

(***************************************************************************)
(* av_seek (avplay.c:797) and the reader's loop: whatever the interleaving *)
(* of the unlocked accesses, the reader seeks to a position that was asked *)
(* for, as given or as kept back.                                          *)
(***************************************************************************)
THEOREM SeeksWhereAsked == Spec => []TargetAsked
<1>1. SeekInv => TargetAsked
  BY DEF SeekInv, Known_All, Known, TargetAsked
<1>2. QED
  BY <1>1, SeekInvariant, PTL
=============================================================================
