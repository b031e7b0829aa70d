-------------------------------- MODULE Seek --------------------------------
(***************************************************************************)
(* The seek protocol of libav/avplay.c, one access of a shared field per   *)
(* step: av_seek runs in the application's thread and, for a seek kept     *)
(* back, in read_pkt_thrd; read_pkt_thrd performs the seek; the renderers  *)
(* end it with the first frame they show.  No lock protects m_seeking,     *)
(* m_seek_req and m_seek_pos.                                              *)
(*                                                                         *)
(* A position is a Nat, in units of half a permille of the duration:       *)
(* av_seek keeps a position back in whole permilles (fact * 1000 in an     *)
(* int), and takes m_seek_pos in seconds, here one second to the unit.     *)
(***************************************************************************)
EXTENDS Integers

CONSTANTS Positions,  \* the positions the application asks for
          MaxCalls    \* bound: calls of av_seek by the application

ASSUME PositionsAssumption == Positions \subseteq Nat /\ MaxCalls \in Nat

VARIABLES m_seeking, m_seek_req, m_seek_pos,
          pc, fact,  \* where the two callers of av_seek are, and its argument
          calls,     \* calls made by the application
          asked,     \* history: positions asked for
          target,    \* where the reader seeks to, or sought last
          wiped,     \* history: a kept seek was stored over, see below
          pcV        \* the renderers: "idle", or before they clear m_seeking

flags == <<m_seeking, m_seek_req, m_seek_pos>>
callers == <<pc, fact>>
vars == <<flags, callers, calls, asked, target, wiped, pcV>>

NOSEEKING == 0
SEEKING == -1

Permille(f) == f \div 2
OfPermille(n) == 2 * n

Init ==
  /\ m_seeking = NOSEEKING /\ m_seek_req = FALSE /\ m_seek_pos = 0
  /\ pc = [app |-> "idle", reader |-> "top"]
  /\ fact = [app |-> 0, reader |-> 0]
  /\ calls = 0 /\ asked = {} /\ target = 0 /\ wiped = FALSE /\ pcV = "idle"

-----------------------------------------------------------------------------
(***************************************************************************)
(* av_seek, in the thread c.  A seek under way keeps the new one back in   *)
(* m_seeking; otherwise the request is made, unless there is one already.  *)
(***************************************************************************)
Returned(c) == IF c = "app" THEN "idle" ELSE "req"

Goto(c, l) == pc' = [pc EXCEPT ![c] = l]

Check(c) ==
  /\ pc[c] = "check"
  /\ Goto(c, IF m_seeking = SEEKING THEN "save"
             ELSE IF m_seeking > NOSEEKING THEN "check_req" ELSE "start")
  /\ UNCHANGED <<flags, fact, calls, asked, target, wiped, pcV>>

CheckReq(c) ==
  /\ pc[c] = "check_req"
  /\ Goto(c, IF m_seek_req THEN "save" ELSE "start")
  /\ UNCHANGED <<flags, fact, calls, asked, target, wiped, pcV>>

\* The position that the reader asks for again when a seek was kept back.
\* Mutant: it is not converted back.
Again_Permille == m_seeking
Again == OfPermille(m_seeking)

\* The reader repeats an older seek over one that was kept meanwhile.
StoresOver(c) == c = "reader" /\ m_seeking > NOSEEKING /\ Again # fact[c]

\* The position is kept in permille.
Kept(c) == Permille(fact[c])

Save(c) ==
  /\ pc[c] = "save"
  /\ m_seeking' = Kept(c)
  /\ wiped' = (wiped \/ StoresOver(c))
  /\ Goto(c, Returned(c))
  /\ UNCHANGED <<m_seek_req, m_seek_pos, fact, calls, asked, target, pcV>>

Start(c) ==
  /\ pc[c] = "start"
  /\ Goto(c, IF m_seek_req THEN Returned(c) ELSE "set_req")
  /\ UNCHANGED <<flags, fact, calls, asked, target, wiped, pcV>>

SetReq(c) ==
  /\ pc[c] = "set_req"
  /\ m_seek_req' = TRUE
  /\ Goto(c, "set_seeking")
  /\ UNCHANGED <<m_seeking, m_seek_pos, fact, calls, asked, target, wiped, pcV>>

SetSeeking(c) ==
  /\ pc[c] = "set_seeking"
  /\ m_seeking' = SEEKING
  /\ wiped' = (wiped \/ StoresOver(c))
  /\ Goto(c, "set_pos")
  /\ UNCHANGED <<m_seek_req, m_seek_pos, fact, calls, asked, target, pcV>>

SetPos(c) ==
  /\ pc[c] = "set_pos"
  /\ m_seek_pos' = fact[c]
  /\ Goto(c, Returned(c))
  /\ UNCHANGED <<m_seeking, m_seek_req, fact, calls, asked, target, wiped, pcV>>

AvSeek(c) == \/ Check(c) \/ CheckReq(c) \/ Save(c) \/ Start(c)
             \/ SetReq(c) \/ SetSeeking(c) \/ SetPos(c)

-----------------------------------------------------------------------------
Call ==
  /\ pc["app"] = "idle" /\ calls < MaxCalls
  /\ \E f \in Positions :
       /\ fact' = [fact EXCEPT !["app"] = f]
       /\ asked' = asked \cup {f}
  /\ calls' = calls + 1
  /\ Goto("app", "check")
  /\ UNCHANGED <<flags, target, wiped, pcV>>

\* The reader's loop: a seek kept back is asked for again.
ReadTop ==
  /\ pc["reader"] = "top"
  /\ IF m_seeking > NOSEEKING
       THEN fact' = [fact EXCEPT !["reader"] = Again] /\ Goto("reader", "check")
       ELSE Goto("reader", "req") /\ UNCHANGED fact
  /\ UNCHANGED <<flags, calls, asked, target, wiped, pcV>>

\* Without a request the reader reads packets and comes back to the top.
ReadReq ==
  /\ pc["reader"] = "req"
  /\ Goto("reader", IF m_seek_req THEN "take" ELSE "top")
  /\ UNCHANGED <<flags, fact, calls, asked, target, wiped, pcV>>

ReadTake ==
  /\ pc["reader"] = "take"
  /\ target' = m_seek_pos
  /\ Goto("reader", "seek")
  /\ UNCHANGED <<flags, fact, calls, asked, wiped, pcV>>

\* The queues are flushed, the demuxer is moved; then the request is done.
\* Mutant: it is not withdrawn.
StillAsked_Kept == m_seek_req
StillAsked == FALSE

ReadDone ==
  /\ pc["reader"] = "seek"
  /\ m_seek_req' = StillAsked
  /\ Goto("reader", "top")
  /\ UNCHANGED <<m_seeking, m_seek_pos, fact, calls, asked, target, wiped, pcV>>

\* A renderer has a frame to show and looks whether a seek is under way.
RenderCheck ==
  /\ pcV = "idle" /\ m_seeking = SEEKING
  /\ pcV' = "clear"
  /\ UNCHANGED <<flags, callers, calls, asked, target, wiped>>

RenderClear ==
  /\ pcV = "clear"
  /\ m_seeking' = NOSEEKING /\ pcV' = "idle"
  /\ wiped' = (wiped \/ m_seeking > NOSEEKING)
  /\ UNCHANGED <<m_seek_req, m_seek_pos, callers, calls, asked, target>>

Reader == ReadTop \/ ReadReq \/ ReadTake \/ ReadDone \/ AvSeek("reader")
Render == RenderCheck \/ RenderClear

Next == Call \/ AvSeek("app") \/ Reader \/ Render

Spec == Init /\ [][Next]_vars

\* The threads run, and frames keep coming to be shown.
Fairness == WF_vars(AvSeek("app")) /\ WF_vars(Reader) /\ WF_vars(Render)

FairSpec == Spec /\ Fairness

-----------------------------------------------------------------------------
Pc == {"idle", "top", "req", "take", "seek", "check", "check_req", "save", "start",
       "set_req", "set_seeking", "set_pos"}

\* m_seeking is one of the two flags or a position in permilles.
TypeOK ==
  /\ m_seeking \in {SEEKING, NOSEEKING} \cup {Permille(f) : f \in Positions}
  /\ m_seek_req \in BOOLEAN /\ m_seek_pos \in Nat
  /\ pc \in [{"app", "reader"} -> Pc] /\ fact \in [{"app", "reader"} -> Nat]
  /\ calls \in 0..MaxCalls /\ asked \subseteq Positions
  /\ target \in Nat /\ wiped \in BOOLEAN /\ pcV \in {"idle", "clear"}

\* A position that was kept back comes out of m_seeking in whole permilles.
Rounded(f) == OfPermille(Permille(f))

(***************************************************************************)
(* However the two callers interleave, the reader seeks to the position of *)
(* some call, as it was given or as it was kept back (or to 0, which       *)
(* m_seek_pos holds at the start), never to a mixture.                     *)
(***************************************************************************)
TargetAsked == target \in {0} \cup asked \cup {Rounded(f) : f \in asked}

(***************************************************************************)
(* When the application makes no further call, seeking ends: the reader    *)
(* and the renderers do not hand a kept seek to each other for ever, and   *)
(* no flag stays set.                                                      *)
(***************************************************************************)
Settles == <>[](~m_seek_req /\ m_seeking = NOSEEKING)

(***************************************************************************)
(* "While seeking, only save the position; seek again when the seek is     *)
(* completed" (comment at avplay.c:799): the position of a call that is    *)
(* saved, if no call follows, is where playback ends up.  It is missed in  *)
(* two cases only: m_seeking was stored over (by a renderer that saw it    *)
(* earlier, avplay.c:1596 and :1810, or by the reader that repeats an      *)
(* older seek), or the position is in the first permille and kept as 0.    *)
(***************************************************************************)
SavedSeekDone ==
  \A f \in Positions :
    (pc["app"] = "save" /\ fact["app"] = f /\ calls = MaxCalls /\ Kept("app") > NOSEEKING)
      ~> (target = Rounded(f) \/ wiped)
=============================================================================
