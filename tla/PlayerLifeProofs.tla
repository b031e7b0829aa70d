-------------------------- MODULE PlayerLifeProofs --------------------------
(***************************************************************************)
(* Proofs about PlayerLife, for either way of use, any number of opens,    *)
(* plays and subtitles loaded, with or without a pthread_create that       *)
(* fails.  The inductive invariant Base says who may be where (UsageInv,   *)
(* CsInv), what is allocated and freed (LiveInv, FreedInv), which threads  *)
(* run and were waited for (ThreadInv), and what the resize handler and    *)
(* the subtitles rely on.                                                  *)
(***************************************************************************)
EXTENDS PlayerLife, TLAPS

Statuses == {"none", "inited", "playing", "paused", "completed", "stoped"}
Played == {"playing", "paused", "completed"}

Places == {"asleep", "idle", "play", "create", "wait", "poll", "pausing", "resuming",
           "resize", "close", "destory", "demux", "join", "release", "free", "null",
           "plugin", "done"}

\* Between entering and leaving m_cs, in av_destory or av_stop.
Closing == {"destory", "demux", "join", "release", "free", "null"}

WPlaces == {"first", "loop", "call", "in", "change", "draw"}

\* The types of the variables the arguments below look at.
PlayerTypes ==
  /\ usage \in Usages
  /\ m_avplay \in Sessions \cup {NULL} /\ m_render \in Sessions \cup {NULL}
  /\ m_cs \in Callers \cup {"free"}
  /\ pc \in [Callers -> Places] /\ ptr \in [Callers -> Sessions \cup {NULL}]
  /\ opens \in 0..MaxOpens

SessionTypes ==
  /\ status \in [Sessions -> Statuses] /\ found \in [Sessions -> Statuses]
  /\ abort \in [Sessions -> BOOLEAN]
  /\ made \in [Sessions -> 0..3]
  /\ live \subseteq Sessions \X Resources
  /\ running \subseteq Sessions \X Workers
  /\ wpc \in [Sessions -> [Workers -> WPlaces]]

(***************************************************************************)
(* Who calls: with one thread the other sleeps; with two the application   *)
(* neither plays nor stops.                                                *)
(***************************************************************************)
UsageInv ==
  /\ usage = "direct" =>
       /\ pc["player"] = "asleep"
       /\ pc["app"] \in {"create", "pausing", "resuming", "resize"} => m_avplay # NULL
       /\ pc["app"] \in {"create", "pausing", "resuming"} => ptr["app"] = m_avplay
  /\ usage # "direct" => pc["app"] # "create"
  /\ pc["app"] \notin {"play", "wait", "poll", "close", "done"}

(***************************************************************************)
(* m_cs: whoever is in av_destory holds it, and means m_avplay; av_stop    *)
(* alone is called without it, by the one thread there is.                 *)
(***************************************************************************)
CsInv ==
  /\ m_cs # "free" => pc[m_cs] \in Closing
  /\ \A t \in Callers : pc[t] \in Closing =>
       /\ ptr[t] = m_avplay /\ m_avplay # NULL
       /\ \/ m_cs = t
          \/ usage = "direct" /\ t = "app" /\ pc[t] \in {"join", "release"} /\ m_cs = "free"

\* Where the holder of m_cs is.
Stage == IF m_cs = "free" THEN "open" ELSE pc[m_cs]

Gone(s, R) == Of(s, R) \cap live = {}

(***************************************************************************)
(* What is allocated: the avplay that m_avplay names, until it is freed.   *)
(***************************************************************************)
LiveInv ==
  /\ m_avplay <= opens
  /\ m_avplay # NULL =>
       /\ m_render = m_avplay
       /\ Stage # "null" <=> Alive(m_avplay)
       /\ Stage \in {"join", "release", "free", "null"} \/ <<m_avplay, "demux">> \in live
       /\ Stage \in {"demux", "join", "release", "free", "null"} \/ found[m_avplay] = "none"
  /\ \A s \in Sessions : Alive(s) => s = m_avplay
  /\ \A s \in Sessions : s > opens =>
       found[s] = "none" /\ status[s] = "none" /\ Of(s, Workers) \cap running = {}

\* An avplay that m_avplay names was initialised.
OpenedInv == m_avplay # NULL => status[m_avplay] # "none"

(***************************************************************************)
(* What is freed.                                                          *)
(***************************************************************************)
Decoded == {"codec", "audio", "video"}

FreedInv ==
  /\ \A s \in Sessions : status[s] = "stoped" => Gone(s, Decoded)
  /\ Stage \in {"join", "release", "free", "null"} =>
       found[m_avplay] \in {"stoped", "inited"} \/ Gone(m_avplay, {"demux"})
  /\ \A s \in Sessions :
       s # m_avplay \/ Stage \in {"free", "null"} =>
         /\ found[s] \in Played => Gone(s, Decoded \cup {"demux"})
         /\ found[s] = "stoped" => Gone(s, Decoded)

(***************************************************************************)
(* Which threads run.                                                      *)
(***************************************************************************)
\* A media that is being started while it is closed is exposed.
RaceInv ==
  \A t, u \in Callers :
    pc[t] = "create" /\ pc[u] \in Closing /\ ptr[t] = ptr[u] => ptr[t] \in exposed

\* What av_start has created so far can be joined.
MadeInv ==
  \A t \in Callers :
    pc[t] = "create" /\ ptr[t] \in Sessions \ exposed =>
      \A i \in 1..made[ptr[t]] : <<ptr[t], Created[i]>> \in joinable

\* The threads of a media: whether some run, whether they were waited for.
Runs(s) == Of(s, Workers) \cap running # {}
AllJoinable(s) == Of(s, Workers) \subseteq joinable
PastJoin(s) == \E t \in Callers : ptr[t] = s /\ pc[t] \in {"release", "free", "null"}

\* The status says truly whether threads run.
RunInv(s) ==
  /\ Runs(s) => Alive(s)
  /\ Runs(s) /\ status[s] \in {"none", "inited", "stoped"} => Starting(s)
  /\ PastJoin(s) => ~Runs(s)

\* Whoever writes that it plays was preceded by all of av_start.
Busy(s) == \/ status[s] \in Played \/ Runs(s)
           \/ ptr["app"] = s /\ pc["app"] \in {"pausing", "resuming"}

JoinInv(s) == Busy(s) => AllJoinable(s) \/ Starting(s) \/ PastJoin(s) \/ s # m_avplay

ThreadInv ==
  /\ RaceInv /\ MadeInv
  /\ \A s \in Sessions \ exposed : RunInv(s) /\ JoinInv(s)

(***************************************************************************)
(* With one thread, a renderer that may be resized is not about to be      *)
(* freed by its own thread.                                                *)
(***************************************************************************)
ResizeInv ==
  /\ \A s \in Sessions : s > opens => ~abort[s]
  /\ usage = "direct" =>
    /\ \A s \in Sessions : abort[s] /\ <<s, "video">> \in live =>
         ptr["app"] = s /\ pc["app"] \in {"demux", "join", "release"}
    /\ pc["app"] = "resize" => <<m_render, "video">> \in live

(***************************************************************************)
(* A wanted change of the subtitles has its plugin, or a close deleted it. *)
(***************************************************************************)
PluginInv ==
  /\ m_change_subtitle => m_plugin \/ carried
  /\ \A s \in Sessions :
       Alive(s) /\ <<s, "video">> \in running /\ wpc[s]["video"] = "change"
         => m_change_subtitle

-----------------------------------------------------------------------------
\* The threads that av_start creates.
LEMMA WorkersAre == Workers = {"read", "audio", "video"}
  BY DEF Workers, Created, Range

\* av_start creates each of them once.
LEMMA CreatedIs ==
  /\ Len(Created) = 3 /\ \A i \in 1..3 : Created[i] \in Workers
  /\ \A w \in Workers : \E i \in 1..3 : Created[i] = w
  BY DEF Workers, Created, Range

\* The initial values have the types.
LEMMA InitTypes == Init => PlayerTypes /\ SessionTypes
  <1> SUFFICES ASSUME Init PROVE PlayerTypes /\ SessionTypes
    OBVIOUS
  <1>1. pc \in [Callers -> Places] /\ ptr \in [Callers -> Sessions \cup {NULL}]
    <2>1. "idle" \in Places /\ "asleep" \in Places
      BY DEF Places
    <2> QED
      BY <2>1 DEF Init
  <1>2. PlayerTypes
    BY <1>1, LifeAssumption DEF Init, PlayerTypes
  <1>3. SessionTypes
    BY WorkersAre DEF Init, SessionTypes, Statuses, WPlaces
  <1> QED
    BY <1>2, <1>3

\* Every step keeps the types of the player's fields.
LEMMA PlayerStep == PlayerTypes /\ [Next]_vars => PlayerTypes'
  <1> SUFFICES ASSUME PlayerTypes, [Next]_vars PROVE PlayerTypes'
    OBVIOUS
  <1> USE LifeAssumption
      DEF PlayerTypes, Places, Sessions, NULL, player, subtitles, threads, callers, counts
  <1>1. CASE Open
    <2>1. opens' \in 1..MaxOpens /\ opens' \in 0..MaxOpens
      BY <1>1 DEF Open, MayOpen
    <2>2. pc' \in [Callers -> Places]
      BY <1>1 DEF Open, Callers
    <2>3. m_avplay' \in Sessions /\ m_render' \in Sessions
      BY <1>1, <2>1 DEF Open
    <2> QED
      BY <1>1, <2>1, <2>2, <2>3 DEF Open, Callers
  <1>6. CASE OpenFails
    BY <1>6 DEF OpenFails, MayOpen
  <1>2. CASE \/ LoadSubtitle \/ Stop \/ Pause \/ Resume \/ Size \/ PauseSet
             \/ ResumeSet \/ Resized \/ Wait \/ WaitOver \/ UseFreed
    BY <1>2
    DEF LoadSubtitle, Stop, Pause, Resume, Size, Look, PauseSet, ResumeSet, SetStatus,
        Resized, Wait, WaitOver, UseFreed, Fault, Leave, Goto, Callers
  <1>3. ASSUME NEW t \in Callers, Caller(t) PROVE PlayerTypes'
    BY <1>3
    DEF Caller, Play, Create, CreateFailed, Started, Close, Destory, DestoryDemux, Join,
        Release, FreePlay, Cleared, PluginDelete, Leave, Goto, Returned, Avplay, CsLeft
  <1>4. ASSUME NEW s \in Sessions, NEW w \in Workers, Worker(s, w) PROVE PlayerTypes'
    BY <1>4
    DEF Worker, ReadTest, ReadCall, ReadReturn, Draw, DrawChange, Drawn, RenderInit, Exit,
        Outlives, Fault, others
  <1>5. CASE UNCHANGED vars
    BY <1>5 DEF vars
  <1> QED
    BY <1>1, <1>2, <1>3, <1>4, <1>5, <1>6 DEF Next

\* Every step keeps the types of the media's fields.
LEMMA SessionStep == PlayerTypes /\ SessionTypes /\ [Next]_vars => SessionTypes'
  <1> SUFFICES ASSUME PlayerTypes, SessionTypes, [Next]_vars PROVE SessionTypes'
    OBVIOUS
  <1> USE LifeAssumption
      DEF SessionTypes, Statuses, Of, Free, heap, threads
  <1>1. CASE Open \/ OpenFails
    <2>1. /\ Of(opens', Resources) \subseteq Sessions \X Resources
          /\ opens' \in Sessions
      BY <1>1 DEF Open, OpenFails, MayOpen, PlayerTypes, Sessions
    <2> QED
      BY <1>1, <2>1 DEF Open, OpenFails
  <1>2. CASE \/ LoadSubtitle \/ Stop \/ Pause \/ Resume \/ Size \/ PauseSet
             \/ ResumeSet \/ Resized \/ Wait \/ WaitOver \/ UseFreed
    BY <1>2
    DEF LoadSubtitle, Stop, Pause, Resume, Size, Look, PauseSet, ResumeSet, SetStatus,
        Resized, Wait, WaitOver, UseFreed, Fault, Leave, Goto, Callers
  <1>3. ASSUME NEW t \in Callers, Caller(t) PROVE SessionTypes'
    <2>1. CASE CreateFailed(t) \/ Close(t) \/ Cleared(t) \/ PluginDelete(t) \/ Join(t)
      BY <2>1 DEF CreateFailed, Close, Cleared, PluginDelete, Join
    <2>4. CASE Play(t)
      BY <2>4 DEF Play
    <2>5. CASE Started(t)
      BY <2>5 DEF Started
    <2>2. CASE Create(t)
      <3>1. PICK s \in Sessions : s = ptr[t] /\ Alive(s)
        BY <2>2 DEF Create, Alive
      <3>2. made[s] + 1 \in 1..3 /\ made[s] + 1 \in 0..3
        BY <2>2, <3>1, CreatedIs DEF Create
      <3>3. Created[made[s] + 1] \in Workers
        BY <3>2, CreatedIs
      <3>4. wpc' \in [Sessions -> [Workers -> WPlaces]]
        BY <2>2, <3>1, <3>3 DEF Create, WPlaces
      <3>5. running' \subseteq Sessions \X Workers
        BY <2>2, <3>1, <3>3 DEF Create
      <3> QED
        BY <2>2, <3>1, <3>2, <3>4, <3>5 DEF Create
    <2>3. CASE Destory(t) \/ DestoryDemux(t) \/ Release(t) \/ FreePlay(t)
      BY <2>3 DEF Destory, DestoryDemux, Release, FreePlay, Stopped, Alive
    <2> QED
      BY <1>3, <2>1, <2>2, <2>3, <2>4, <2>5 DEF Caller
  <1>4. ASSUME NEW s \in Sessions, NEW w \in Workers, Worker(s, w) PROVE SessionTypes'
    <2>0. <<s, w>> \in Sessions \X Workers /\ "read" \in Workers /\ "video" \in Workers
      BY WorkersAre
    <2>1. \A u \in Workers, l \in WPlaces :
            WGoto(s, u, l) => wpc' \in [Sessions -> [Workers -> WPlaces]]
      BY DEF WGoto
    <2>3. CASE ReadTest(s) \/ ReadCall(s)
      BY <2>0, <2>1, <2>3 DEF ReadTest, ReadCall, others, WPlaces
    <2>4. CASE ReadReturn(s)
      BY <2>0, <2>1, <2>4 DEF ReadReturn, others, WPlaces
    <2>5. CASE Draw(s) \/ DrawChange(s) \/ Drawn(s)
      BY <2>0, <2>1, <2>5 DEF Draw, DrawChange, Drawn, others, WPlaces
    <2>6. CASE RenderInit(s, w)
      BY <2>0, <2>1, <2>6 DEF RenderInit, others, WPlaces
    <2>7. CASE Exit(s, w)
      BY <2>0, <2>1, <2>7 DEF Exit, others, WPlaces
    <2>8. CASE Outlives(s, w)
      BY <2>8 DEF Outlives, Fault
    <2> QED
      BY <1>4, <2>3, <2>4, <2>5, <2>6, <2>7, <2>8 DEF Worker
  <1>5. CASE UNCHANGED vars
    BY <1>5 DEF vars
  <1> QED
    BY <1>1, <1>2, <1>3, <1>4, <1>5 DEF Next

-----------------------------------------------------------------------------
\* Neither caller makes the other's calls.
LEMMA UsageStep == PlayerTypes /\ UsageInv /\ [Next]_vars => UsageInv'
  <1> SUFFICES ASSUME PlayerTypes, UsageInv, [Next]_vars PROVE UsageInv'
    OBVIOUS
  <1> USE DEF UsageInv, player, callers, Dir
  <1>1. CASE Open \/ OpenFails
    BY <1>1 DEF Open, OpenFails, MayOpen, Idle, PlayerTypes, Callers
  <1>2. CASE \/ LoadSubtitle \/ Stop \/ Pause \/ Resume \/ Size \/ PauseSet
             \/ ResumeSet \/ Resized \/ Wait \/ WaitOver \/ UseFreed
    BY <1>2
    DEF LoadSubtitle, Stop, Pause, Resume, Size, Look, PauseSet, ResumeSet, SetStatus,
        Resized, Wait, WaitOver, UseFreed, Fault, Leave, Goto, Callers, PlayerTypes
  <1>3. ASSUME NEW t \in Callers, Caller(t) PROVE UsageInv'
    BY <1>3
    DEF Caller, Play, Create, CreateFailed, Started, Close, Destory, DestoryDemux, Join,
        Release, FreePlay, Cleared, PluginDelete, Leave, Goto, Returned, Idle, PlayerTypes, Callers
  <1>4. ASSUME NEW s \in Sessions, NEW w \in Workers, Worker(s, w) PROVE UsageInv'
    BY <1>4
    DEF Worker, ReadTest, ReadCall, ReadReturn, Draw, DrawChange, Drawn, RenderInit, Exit,
        Outlives, Fault, others
  <1>5. CASE UNCHANGED vars
    BY <1>5 DEF vars
  <1> QED
    BY <1>1, <1>2, <1>3, <1>4, <1>5 DEF Next

\* m_cs is taken by entering av_destory and given back by leaving it.
LEMMA CsStep == PlayerTypes /\ UsageInv /\ CsInv /\ [Next]_vars => CsInv'
  <1> SUFFICES ASSUME PlayerTypes, UsageInv, CsInv, [Next]_vars PROVE CsInv'
    OBVIOUS
  <1> USE DEF CsInv, Closing, player, callers
  <1>1. CASE Open \/ OpenFails
    BY <1>1 DEF Open, OpenFails, MayOpen, Idle, PlayerTypes, Callers
  <1>2. CASE \/ LoadSubtitle \/ Stop \/ Pause \/ Resume \/ Size \/ PauseSet
             \/ ResumeSet \/ Resized \/ Wait \/ WaitOver \/ UseFreed
    BY <1>2
    DEF LoadSubtitle, Stop, Pause, Resume, Size, Look, PauseSet, ResumeSet, SetStatus, UsageInv,
        Resized, Wait, WaitOver, UseFreed, Fault, Leave, Goto, Callers, PlayerTypes, Idle, Dir
  <1>3. ASSUME NEW t \in Callers, Caller(t) PROVE CsInv'
    BY <1>3
    DEF Caller, Play, Create, CreateFailed, Started, Close, Destory, DestoryDemux, Join, UsageInv,
        Release, FreePlay, Cleared, CsFree, CsLeft, Avplay, Dir,
        PluginDelete, Leave, Goto, Returned, Idle, PlayerTypes, Callers
  <1>4. ASSUME NEW s \in Sessions, NEW w \in Workers, Worker(s, w) PROVE CsInv'
    BY <1>4
    DEF Worker, ReadTest, ReadCall, ReadReturn, Draw, DrawChange, Drawn, RenderInit, Exit,
        Outlives, Fault, others
  <1>5. CASE UNCHANGED vars
    BY <1>5 DEF vars
  <1> QED
    BY <1>1, <1>2, <1>3, <1>4, <1>5 DEF Next

\* The steps by what they are about.
Handlers == \/ LoadSubtitle \/ Stop \/ Pause \/ Resume \/ Size \/ PauseSet \/ ResumeSet
            \/ Resized \/ Wait \/ WaitOver \/ UseFreed
Plays(t) == \/ Play(t) \/ Create(t) \/ CreateFailed(t) \/ Started(t) \/ PluginDelete(t)
Closes(t) == \/ Close(t) \/ Destory(t) \/ DestoryDemux(t) \/ Join(t) \/ Release(t)
             \/ FreePlay(t) \/ Cleared(t)
Works == \E s \in Sessions, w \in Workers : Worker(s, w)

\* A step, by who takes it.
LEMMA Steps ==
  ASSUME [Next]_vars
  PROVE  \/ Open \/ OpenFails \/ Handlers \/ Works \/ UNCHANGED vars
         \/ \E t \in Callers : Plays(t) \/ Closes(t)
  BY DEF Next, Caller, Handlers, Plays, Closes, Works

\* Stage changes only with the steps of those who close.
LEMMA StageSame ==
  ASSUME PlayerTypes, UsageInv, CsInv,
         \/ Open \/ OpenFails \/ Handlers \/ Works \/ UNCHANGED vars
         \/ \E t \in Callers : Plays(t)
  PROVE  UNCHANGED <<m_cs, Stage>>
  <1> USE DEF Stage, CsInv, Closing, PlayerTypes
  <1>1. CASE Open \/ OpenFails
    BY <1>1 DEF Open, OpenFails, MayOpen, Idle, Callers, player, callers
  <1>2. CASE Handlers
    BY <1>2
    DEF Handlers, LoadSubtitle, Stop, Pause, Resume, Size, Look, PauseSet, ResumeSet, SetStatus,
        Resized, Wait, WaitOver, UseFreed, Fault, Leave, Goto, Callers, Idle, Dir, UsageInv,
        player, callers
  <1>3. ASSUME NEW t \in Callers, Plays(t) PROVE UNCHANGED <<m_cs, Stage>>
    BY <1>3
    DEF Plays, Play, Create, CreateFailed, Started, PluginDelete, Leave, Goto,
        Returned, Idle, UsageInv, Callers, player, callers
  <1>4. ASSUME NEW s \in Sessions, NEW w \in Workers, Worker(s, w)
        PROVE  UNCHANGED <<m_cs, Stage>>
    BY <1>4
    DEF Worker, ReadTest, ReadCall, ReadReturn, Draw, DrawChange, Drawn, RenderInit, Exit,
        Outlives, Fault, others, callers
  <1>5. CASE UNCHANGED vars
    BY <1>5 DEF vars, callers
  <1> QED
    BY <1>1, <1>2, <1>3, <1>4, <1>5 DEF Works

\* What each step of those who close does to Stage.
LEMMA StageMoves ==
  ASSUME PlayerTypes, UsageInv, CsInv, NEW t \in Callers
  PROVE  /\ Close(t) /\ m_avplay = NULL => UNCHANGED <<m_cs, Stage>>
         /\ Close(t) /\ m_avplay # NULL => m_cs = "free" /\ Stage = "open" /\ Stage' = "destory"
         /\ Destory(t) => Stage = "destory" /\ Stage' \in {"demux", "free"}
         /\ Destory(t) => (Stage' = "demux" <=> IsPlaying(m_avplay))
         /\ DestoryDemux(t) => Stage = "demux" /\ Stage' = "join"
         /\ Join(t) => \/ Stage = "join" /\ Stage' = "release" /\ m_cs = t
                       \/ Stage = "open" /\ Stage' = "open" /\ usage = "direct" /\ t = "app"
         /\ Release(t) => \/ Stage = "release" /\ Stage' = "free" /\ m_cs = t
                          \/ Stage = "open" /\ Stage' = "open" /\ usage = "direct" /\ t = "app"
         /\ FreePlay(t) => Stage = "free" /\ Stage' = "null"
         /\ Cleared(t) => Stage = "null" /\ Stage' = "open"
  <1> USE DEF Stage, CsInv, Closing, PlayerTypes, Callers, Goto, Leave
  <1>1. Close(t) => m_cs = "free" /\ pc[t] \notin Closing
    BY DEF Close, CsFree, Idle
  <1>2. Close(t) /\ m_avplay = NULL => UNCHANGED <<m_cs, Stage>>
    BY DEF Close, CsFree, Idle
  <1>3. Close(t) /\ m_avplay # NULL => m_cs = "free" /\ Stage = "open" /\ Stage' = "destory"
    BY DEF Close, CsFree, Idle
  <1>4. Destory(t) => Stage = "destory" /\ Stage' \in {"demux", "free"}
                      /\ (Stage' = "demux" <=> IsPlaying(m_avplay))
    BY DEF Destory, player
  <1>5. DestoryDemux(t) => Stage = "demux" /\ Stage' = "join"
    BY DEF DestoryDemux
  <1>6. Join(t) => \/ Stage = "join" /\ Stage' = "release" /\ m_cs = t
                   \/ Stage = "open" /\ Stage' = "open" /\ usage = "direct" /\ t = "app"
    BY DEF Join
  <1>7. Release(t) => \/ Stage = "release" /\ Stage' = "free" /\ m_cs = t
                      \/ Stage = "open" /\ Stage' = "open" /\ usage = "direct" /\ t = "app"
    BY DEF Release
  <1>8. FreePlay(t) => Stage = "free" /\ Stage' = "null"
    BY DEF FreePlay
  <1>9. Cleared(t) => Stage = "null" /\ Stage' = "open"
    BY DEF Cleared, CsLeft
  <1> QED
    BY <1>2, <1>3, <1>4, <1>5, <1>6, <1>7, <1>8, <1>9

\* The one avplay that is allocated.
LEMMA TheAvplay ==
  ASSUME PlayerTypes, SessionTypes, LiveInv, NEW s, Alive(s)
  PROVE  s \in Sessions /\ s = m_avplay /\ s <= opens /\ m_avplay # NULL
  <1>1. s \in Sessions
    BY DEF Alive, SessionTypes
  <1> QED
    BY <1>1 DEF LiveInv, NULL, Sessions

\* Every step keeps one avplay allocated, the one that m_avplay names.
LEMMA LiveStep ==
  ASSUME PlayerTypes, PlayerTypes', SessionTypes, UsageInv, CsInv, LiveInv, [Next]_vars
  PROVE  LiveInv'
  <1> USE LifeAssumption DEF LiveInv, Alive, player, callers, heap, threads, counts
  <1>1. CASE Open
    <2>1. opens' = opens + 1 /\ opens \in Nat /\ m_avplay = NULL /\ m_avplay' = opens'
          /\ m_render' = opens' /\ opens' \in Sessions
      BY <1>1 DEF Open, MayOpen, PlayerTypes, Sessions
    <2>2. \A s \in Sessions : s # opens' => ~ <<s, "avplay">> \in live'
      BY <1>1, <2>1 DEF Open, Of, Sessions, NULL
    <2>3. <<opens', "avplay">> \in live' /\ <<opens', "demux">> \in live'
      BY <1>1 DEF Open, Of, Resources
    <2>4. \A s \in Sessions : s > opens' => s > opens /\ s # opens'
      BY <2>1 DEF Sessions
    <2>5. found[opens'] = "none" /\ opens' <= opens'
      BY <2>1
    <2>6. found' = found /\ running' = running /\ \A s \in Sessions : s # opens' => status'[s] = status[s]
      BY <1>1 DEF Open, SessionTypes
    <2>7. Stage = "open"
      BY <2>1 DEF CsInv, PlayerTypes, Stage
    <2>8. Stage' = "open"
      BY <1>1, <2>7, StageSame
    <2> HIDE DEF Stage
    <2> QED
      BY <2>1, <2>2, <2>3, <2>4, <2>5, <2>6, <2>8
  <1>2. CASE OpenFails
    <2>1. opens' = opens + 1 /\ opens \in Nat /\ m_avplay = NULL
      BY <1>2 DEF OpenFails, MayOpen, PlayerTypes
    <2>2. live' \subseteq live
      BY <1>2 DEF OpenFails, Free
    <2>3. \A s \in Sessions : s > opens' => s > opens
      BY <2>1 DEF Sessions
    <2> QED
      BY <1>2, <2>1, <2>2, <2>3 DEF OpenFails, NULL
  <1>3. CASE Handlers
    <2>1. UNCHANGED <<m_avplay, m_render, opens, live, found, running, Stage>>
      BY <1>3, StageSame
      DEF Handlers, LoadSubtitle, Stop, Pause, Resume, Size, Look, PauseSet, ResumeSet, SetStatus,
          Wait, WaitOver, Resized, UseFreed, Fault
    <2>2. \A s \in Sessions : s > opens => status'[s] = status[s]
      <3>1. \/ UNCHANGED status
            \/ Alive(ptr["app"]) /\ \E x : status' = [status EXCEPT ![ptr["app"]] = x]
        BY <1>3
        DEF Handlers, LoadSubtitle, Stop, Pause, Resume, Size, Look, PauseSet, ResumeSet,
            SetStatus, Wait, WaitOver, Resized, UseFreed, Fault
      <3>2. Alive(ptr["app"]) => ptr["app"] \in Sessions /\ ~(ptr["app"] > opens)
        BY TheAvplay DEF PlayerTypes, Sessions
      <3> HIDE DEF LiveInv, Alive
      <3> QED
        BY <3>1, <3>2 DEF SessionTypes
    <2> QED
      BY <2>1, <2>2
  <1>4. ASSUME NEW t \in Callers, Plays(t) PROVE LiveInv'
    <2>1. UNCHANGED <<m_avplay, m_render, opens, live, found, Stage>>
      BY <1>4, StageSame DEF Plays, Play, Create, CreateFailed, Started, PluginDelete
    <2>2. \/ UNCHANGED <<status, running>>
          \/ /\ Alive(ptr[t])
             /\ UNCHANGED status \/ \E x : status' = [status EXCEPT ![ptr[t]] = x]
             /\ UNCHANGED running \/ \E w : running' = running \cup {<<ptr[t], w>>}
      BY <1>4 DEF Plays, Play, Create, CreateFailed, Started, PluginDelete
    <2>3. Alive(ptr[t]) => ptr[t] \in Sessions /\ ~(ptr[t] > opens)
      BY TheAvplay DEF PlayerTypes, Sessions
    <2>4. \A s \in Sessions : s > opens =>
            status'[s] = status[s] /\ Of(s, Workers) \cap running' = Of(s, Workers) \cap running
      <3> HIDE DEF LiveInv, Alive
      <3> QED
        BY <2>2, <2>3 DEF SessionTypes, Of
    <2> QED
      BY <2>1, <2>4
  <1>5. ASSUME NEW t \in Callers, Closes(t) PROVE LiveInv'
    <2>0. t \in Callers /\ ~(m_avplay > opens)
      BY DEF PlayerTypes, Sessions, NULL
    <2>1. CASE Close(t)
      BY <2>1, StageMoves DEF Close
    <2>2. CASE Destory(t)
      <3>1. ptr[t] = m_avplay /\ m_avplay # NULL
        BY <2>2 DEF Destory, CsInv, Closing
      <3> QED
        BY <2>0, <2>2, <3>1, StageMoves DEF Destory, SessionTypes
    <2>3. CASE DestoryDemux(t)
      <3>1. ptr[t] = m_avplay /\ m_avplay # NULL
        BY <2>3 DEF DestoryDemux, CsInv, Closing
      <3> QED
        BY <2>3, <3>1, StageMoves DEF DestoryDemux, Free, Of
    <2>4. CASE Join(t)
      BY <2>4, StageMoves DEF Join
    <2>5. CASE Release(t)
      <3>1. ptr[t] = m_avplay /\ m_avplay # NULL
        BY <2>5 DEF Release, CsInv, Closing
      <3> QED
        BY <2>0, <2>5, <3>1, StageMoves DEF Release, SessionTypes, Of
    <2>6. CASE FreePlay(t)
      <3>1. ptr[t] = m_avplay /\ m_avplay # NULL
        BY <2>6 DEF FreePlay, CsInv, Closing
      <3> QED
        BY <2>6, <3>1, StageMoves DEF FreePlay, Free, Of
    <2>7. CASE Cleared(t)
      <3>1. Stage = "null" /\ Stage' = "open"
        BY <2>7, StageMoves
      <3>2. \A s \in Sessions : ~Alive(s)
        BY <3>1, TheAvplay
      <3>3. m_avplay' = NULL /\ UNCHANGED <<opens, live, found, status, running>>
        BY <2>7 DEF Cleared, Avplay
      <3>4. m_avplay' <= opens'
        BY <3>3 DEF NULL, PlayerTypes
      <3>5. \A s \in Sessions : ~ Alive(s)'
        BY <3>2, <3>3
      <3> QED
        BY <3>3, <3>4, <3>5
    <2> QED
      BY <1>5, <2>1, <2>2, <2>3, <2>4, <2>5, <2>6, <2>7 DEF Closes
  <1>6. ASSUME NEW s \in Sessions, NEW w \in Workers, Worker(s, w) PROVE LiveInv'
    <2>1. UNCHANGED <<m_avplay, m_render, opens, found, Stage>>
      BY <1>6, StageSame
      DEF Works, Worker, ReadTest, ReadCall, ReadReturn, Draw, DrawChange, Drawn, RenderInit, Exit,
          Outlives, Fault, others
    <2>2. CASE UNCHANGED <<status, running, live>>
      BY <2>1, <2>2
    <2>3. CASE ReadReturn(s) \/ RenderInit(s, w)
      <3>1. Alive(s) /\ UNCHANGED <<running, live>>
            /\ (UNCHANGED status \/ \E x : status' = [status EXCEPT ![s] = x])
        BY <2>3 DEF ReadReturn, RenderInit, At
      <3>2. ~(s > opens)
        BY <3>1, TheAvplay DEF PlayerTypes, Sessions
      <3>3. \A r \in Sessions : r > opens => status'[r] = status[r]
        BY <3>1, <3>2 DEF SessionTypes
      <3> QED
        BY <2>1, <3>1, <3>3
    <2>4. CASE Exit(s, w)
      <3>1. /\ UNCHANGED status /\ running' \subseteq running
            /\ \A r \in Sessions : /\ <<r, "avplay">> \in live' <=> <<r, "avplay">> \in live
                                   /\ <<r, "demux">> \in live' <=> <<r, "demux">> \in live
        BY <2>4 DEF Exit
      <3>2. \A r : Of(r, Workers) \cap running = {} => Of(r, Workers) \cap running' = {}
        BY <3>1
      <3>3. m_avplay \in Sessions \/ m_avplay = NULL
        BY DEF PlayerTypes
      <3> QED
        BY <2>1, <3>1, <3>2, <3>3
    <2> QED
      BY <1>6, <2>2, <2>3, <2>4
      DEF Worker, ReadTest, ReadCall, Draw, DrawChange, Drawn, Outlives, Fault
  <1>7. CASE UNCHANGED vars
    BY <1>7, StageSame DEF vars
  <1> QED
    BY <1>1, <1>2, <1>3, <1>4, <1>5, <1>6, <1>7, Steps DEF Works

\* An avplay is named once it is initialised.
LEMMA OpenedStep ==
  ASSUME PlayerTypes, PlayerTypes', SessionTypes, OpenedInv, [Next]_vars
  PROVE  OpenedInv'
  <1> USE DEF OpenedInv, player
  <1>1. CASE Open
    <2>1. opens' = m_avplay' /\ status' = [status EXCEPT ![opens'] = "inited"]
      BY <1>1 DEF Open
    <2>2. m_avplay' # NULL => m_avplay' \in Sessions
      BY DEF PlayerTypes
    <2> QED
      BY <2>1, <2>2 DEF SessionTypes
  <1>2. CASE OpenFails
    BY <1>2 DEF OpenFails
  <1>3. CASE Handlers
    BY <1>3
    DEF Handlers, LoadSubtitle, Stop, Pause, Resume, Size, Look, PauseSet, ResumeSet,
        SetStatus, Wait, WaitOver, Resized, UseFreed, Fault, SessionTypes, PlayerTypes
  <1>4. ASSUME NEW t \in Callers, Plays(t) PROVE OpenedInv'
    BY <1>4
    DEF Plays, Play, Create, CreateFailed, Started, PluginDelete, SessionTypes, PlayerTypes
  <1>5. ASSUME NEW t \in Callers, Closes(t) PROVE OpenedInv'
    BY <1>5
    DEF Closes, Close, Destory, DestoryDemux, Join, Release, FreePlay, Cleared, Avplay,
        Stopped, SessionTypes, PlayerTypes
  <1>6. ASSUME NEW s \in Sessions, NEW w \in Workers, Worker(s, w) PROVE OpenedInv'
    BY <1>6
    DEF Worker, ReadTest, ReadCall, ReadReturn, Draw, DrawChange, Drawn, RenderInit, Exit,
        Outlives, Fault, others, SessionTypes, PlayerTypes
  <1>7. CASE UNCHANGED vars
    BY <1>7 DEF vars
  <1> QED
    BY <1>1, <1>2, <1>3, <1>4, <1>5, <1>6, <1>7, Steps DEF Works

\* What a close has freed stays freed.
LEMMA FreedStep ==
  ASSUME PlayerTypes, PlayerTypes', SessionTypes, UsageInv, CsInv, LiveInv, FreedInv, [Next]_vars
  PROVE  FreedInv'
  <1> USE DEF FreedInv, Gone, Of, Decoded, Played, Alive, player, callers, heap, threads, counts
  <1>0. ASSUME UNCHANGED <<m_avplay, Stage, status, found>>, live' \subseteq live PROVE FreedInv'
    BY <1>0
  <1>1. CASE Open
    <2>1. /\ m_avplay = NULL /\ m_avplay' = opens' /\ opens' \in Sessions /\ found' = found
          /\ live' = live \cup Of(opens', Resources)
          /\ status' = [status EXCEPT ![opens'] = "inited"]
      BY <1>1 DEF Open, MayOpen, PlayerTypes, Sessions
    <2>2. Stage = "open" /\ Stage' = Stage
      <3>1. m_cs = "free"
        BY <2>1 DEF CsInv, PlayerTypes
      <3> QED
        BY <1>1, <3>1, StageSame DEF Stage
    <2>3. m_avplay \notin Sessions
      BY <2>1 DEF NULL, Sessions
    <2> QED
      BY <2>1, <2>2, <2>3 DEF SessionTypes
  <1>7. CASE OpenFails
    BY <1>0, <1>7, StageSame DEF OpenFails, Free
  <1>2. CASE Handlers
    <2>1. /\ UNCHANGED <<m_avplay, Stage, live, found>>
          /\ \/ UNCHANGED status
             \/ \E x \in {"paused", "playing"} : status' = [status EXCEPT ![ptr["app"]] = x]
      BY <1>2, StageSame
      DEF Handlers, LoadSubtitle, Stop, Pause, Resume, Size, Look, PauseSet, ResumeSet,
          SetStatus, Wait, WaitOver, Resized, UseFreed, Fault
    <2>2. \A s \in Sessions : status'[s] = "stoped" => status[s] = "stoped"
      BY <2>1 DEF SessionTypes
    <2> QED
      BY <2>1, <2>2
  <1>3. ASSUME NEW t \in Callers, Plays(t) PROVE FreedInv'
    <2>1. /\ UNCHANGED <<m_avplay, Stage, live, found>>
          /\ UNCHANGED status \/ status' = [status EXCEPT ![ptr[t]] = "playing"]
      BY <1>3, StageSame DEF Plays, Play, Create, CreateFailed, Started, PluginDelete
    <2>2. \A s \in Sessions : status'[s] = "stoped" => status[s] = "stoped"
      BY <2>1 DEF SessionTypes
    <2> QED
      BY <2>1, <2>2
  <1>4. ASSUME NEW t \in Callers, Closes(t) PROVE FreedInv'
    <2>1. CASE Close(t)
      BY <2>1, StageMoves DEF Close
    <2>2. CASE Destory(t)
      <3>1. ptr[t] = m_avplay /\ m_avplay # NULL
        BY <2>2 DEF Destory, CsInv, Closing
      <3> QED
        BY <2>2, <3>1, StageMoves DEF Destory, SessionTypes, PlayerTypes, IsPlaying
    <2>3. CASE DestoryDemux(t)
      <3>1. ptr[t] = m_avplay /\ m_avplay # NULL
        BY <2>3 DEF DestoryDemux, CsInv, Closing
      <3> QED
        BY <2>3, <3>1, StageMoves DEF DestoryDemux, Free
    <2>4. CASE Join(t)
      BY <2>4, StageMoves DEF Join
    <2>5. CASE Release(t)
      <3>1. ptr[t] = m_avplay /\ m_avplay # NULL
        BY <2>5 DEF Release, CsInv, Closing
      <3> QED
        BY <2>5, <3>1, StageMoves DEF Release, SessionTypes
    <2>6. CASE FreePlay(t)
      <3>1. ptr[t] = m_avplay /\ m_avplay # NULL
        BY <2>6 DEF FreePlay, CsInv, Closing
      <3> QED
        BY <2>6, <3>1, StageMoves DEF FreePlay, Free
    <2>7. CASE Cleared(t)
      BY <2>7, StageMoves DEF Cleared, Avplay
    <2> QED
      BY <1>4, <2>1, <2>2, <2>3, <2>4, <2>5, <2>6, <2>7 DEF Closes
  <1>5. ASSUME NEW s \in Sessions, NEW w \in Workers, Worker(s, w) PROVE FreedInv'
    <2>1. /\ UNCHANGED <<m_avplay, Stage, found>> /\ live' \subseteq live
          /\ \/ UNCHANGED status
             \/ \E x \in {"completed", "playing", status[s]} : status' = [status EXCEPT ![s] = x]
      BY <1>5, StageSame
      DEF Works, Worker, ReadTest, ReadCall, ReadReturn, Draw, DrawChange, Drawn, RenderInit, Exit,
          Outlives, Fault, others
    <2>2. \A r \in Sessions : status'[r] = "stoped" => status[r] = "stoped"
      BY <2>1 DEF SessionTypes
    <2> QED
      BY <2>1, <2>2
  <1>6. CASE UNCHANGED vars
    BY <1>0, <1>6, StageSame DEF vars
  <1> QED
    BY <1>1, <1>2, <1>3, <1>4, <1>5, <1>6, <1>7, Steps DEF Works

-----------------------------------------------------------------------------
\* Nothing but a close takes the plugin of a wanted change away.
LEMMA PluginStep ==
  ASSUME PlayerTypes, SessionTypes, LiveInv, PluginInv, [Next]_vars
  PROVE  PluginInv'
  <1> USE DEF PluginInv, subtitles, heap, threads
  <1>1. CASE Open
    <2>1. \A s \in Sessions : Alive(s)' => Alive(s) \/ s = opens'
      BY <1>1 DEF Open, Alive, Of
    <2>2. opens' \in Sessions /\ opens' > opens
      <3>1. opens \in Nat /\ opens < MaxOpens /\ opens' = opens + 1
        BY <1>1 DEF Open, MayOpen, PlayerTypes
      <3>2. opens + 1 \in Sessions /\ opens + 1 > opens
        BY <3>1, LifeAssumption DEF Sessions
      <3> QED
        BY <3>1, <3>2
    <2>3. <<opens', "video">> \notin running
      BY <2>2, WorkersAre DEF LiveInv, Of
    <2> QED
      BY <1>1, <2>1, <2>3 DEF Open
  <1>2. CASE OpenFails
    BY <1>2 DEF OpenFails, Alive, Free
  <1>3. CASE Handlers
    BY <1>3
    DEF Handlers, LoadSubtitle, Stop, Pause, Resume, Size, Look, PauseSet, ResumeSet, Alive,
        SetStatus, Wait, WaitOver, Resized, UseFreed, Fault
  <1>4. ASSUME NEW t \in Callers, Plays(t) PROVE PluginInv'
    <2>1. CASE Create(t)
      <3>1. PICK w \in Workers : /\ wpc' = [wpc EXCEPT ![ptr[t]][w] = "first"]
                                 /\ running' = running \cup {<<ptr[t], w>>}
        <4>1. made[ptr[t]] + 1 \in 1..3
          BY <2>1, CreatedIs, TheAvplay DEF Create, SessionTypes
        <4> QED
          BY <2>1, <4>1, CreatedIs DEF Create
      <3>2. UNCHANGED <<live, subtitles>>
        BY <2>1 DEF Create
      <3> QED
        BY <3>1, <3>2, WorkersAre DEF SessionTypes, Alive
    <2>2. CASE PluginDelete(t)
      <3>1. UNCHANGED <<live, running, wpc, m_change_subtitle>>
        BY <2>2 DEF PluginDelete
      <3>2. m_change_subtitle => carried'
        BY <2>2, Zenon DEF PluginDelete
      <3> QED
        BY <3>1, <3>2 DEF Alive
    <2>3. CASE Play(t) \/ CreateFailed(t) \/ Started(t)
      BY <2>3 DEF Play, CreateFailed, Started, Alive
    <2> QED
      BY <1>4, <2>1, <2>2, <2>3 DEF Plays
  <1>5. ASSUME NEW t \in Callers, Closes(t) PROVE PluginInv'
    BY <1>5
    DEF Closes, Close, Destory, DestoryDemux, Join, Release, FreePlay, Cleared, Free, Alive
  <1>6. ASSUME NEW s \in Sessions, NEW w \in Workers, Worker(s, w) PROVE PluginInv'
    <2>1. \A r \in Sessions : Alive(r)' <=> Alive(r)
      BY <1>6
      DEF Worker, ReadTest, ReadCall, ReadReturn, Draw, DrawChange, Drawn, RenderInit, Exit,
          Outlives, Fault, Alive
    <2>2. CASE DrawChange(s)
      <3>1. CASE UNCHANGED <<m_plugin, m_change_subtitle, carried, wpc, running>>
        BY <2>1, <3>1
      <3>2. CASE /\ m_change_subtitle' = FALSE /\ UNCHANGED running
                 /\ wpc' = [wpc EXCEPT ![s]["video"] = "draw"]
        <4>1. \A r \in Sessions : Alive(r)' => r = s
          BY <2>1, <2>2, TheAvplay DEF DrawChange, At
        <4>2. wpc'[s]["video"] = "draw"
          BY <3>2, WorkersAre DEF SessionTypes
        <4> QED
          BY <3>2, <4>1, <4>2
      <3> QED
        BY <2>2, <3>1, <3>2 DEF DrawChange, WGoto
    <2>3. CASE ~DrawChange(s)
      <3>1. UNCHANGED <<m_plugin, m_change_subtitle, carried>> /\ running' \subseteq running
        <4> HIDE DEF subtitles
        <4>1. UNCHANGED subtitles /\ running' \subseteq running
          BY <1>6, <2>3
          DEF Worker, ReadTest, ReadCall, ReadReturn, Draw, Drawn, RenderInit, Exit, Outlives, Fault
        <4> QED
          BY <4>1 DEF subtitles
      <3>2. \A r \in Sessions : wpc'[r]["video"] = "change" =>
              wpc[r]["video"] = "change" \/ m_change_subtitle
        <4> HIDE DEF subtitles
        <4>1. CASE Draw(s)
          BY <4>1, WorkersAre DEF Draw, WGoto, SessionTypes
        <4>2. CASE ~Draw(s)
          <5>1. \/ UNCHANGED wpc
                \/ \E u \in Workers, l \in WPlaces \ {"change"} :
                     wpc' = [wpc EXCEPT ![s][u] = l]
            BY <1>6, <2>3, <4>2, WorkersAre
            DEF Worker, ReadTest, ReadCall, ReadReturn, Drawn, RenderInit, Exit, Outlives,
                Fault, WGoto, WPlaces
          <5> QED
            BY <5>1, WorkersAre DEF SessionTypes
        <4> QED
          BY <4>1, <4>2
      <3> QED
        BY <2>1, <3>1, <3>2
    <2> QED
      BY <2>2, <2>3
  <1>7. CASE UNCHANGED vars
    BY <1>7 DEF vars, Alive
  <1> QED
    BY <1>1, <1>2, <1>3, <1>4, <1>5, <1>6, <1>7, Steps DEF Works

\* With one thread, nothing frees the renderer under the resize handler.
LEMMA ResizeStep ==
  ASSUME PlayerTypes, SessionTypes, UsageInv, CsInv, LiveInv, ResizeInv, [Next]_vars
  PROVE  ResizeInv'
  <1> USE DEF ResizeInv, player, callers, heap, threads, counts, Callers, PlayerTypes
  <1>1. CASE Open
    <2>1. opens \in Nat /\ opens' = opens + 1
      BY <1>1 DEF Open, MayOpen
    <2>2. \A s \in Sessions : s > opens' => s > opens
      BY <2>1 DEF Sessions
    <2>3. opens' \in Sessions => ~abort[opens']
      BY <2>1 DEF Sessions
    <2>4. pc'["app"] = "idle" /\ pc["app"] = "idle"
      BY <1>1 DEF Open, MayOpen, Idle
    <2> QED
      BY <1>1, <2>2, <2>3, <2>4 DEF Open, Of
  <1>2. CASE OpenFails
    <2>1. opens \in Nat /\ opens' = opens + 1
      BY <1>2 DEF OpenFails, MayOpen
    <2>2. \A s \in Sessions : s > opens' => s > opens
      BY <2>1 DEF Sessions
    <2> QED
      BY <1>2, <2>2 DEF OpenFails, MayOpen, Free, Idle
  <1>3. CASE Stop
    <2>1. m_avplay \in Sessions /\ ~(m_avplay > opens)
      BY <1>3 DEF Stop, LiveInv, Sessions
    <2> QED
      BY <1>3, <2>1 DEF Stop, Idle, Goto, SessionTypes
  <1>4. CASE Size
    BY <1>4 DEF Size, Look, Goto, Idle, LiveInv
  <1>5. CASE LoadSubtitle \/ Pause \/ Resume \/ Wait \/ WaitOver \/ Resized
             \/ UseFreed \/ PauseSet \/ ResumeSet
    BY <1>5
    DEF LoadSubtitle, Pause, Resume, Look, PauseSet, ResumeSet, Idle,
        SetStatus, Wait, WaitOver, Resized, UseFreed, Fault, Goto, Leave
  <1>6. ASSUME NEW t \in Callers, Plays(t) PROVE ResizeInv'
    BY <1>6
    DEF Plays, Play, Create, CreateFailed, Started, PluginDelete, Goto, Leave, Returned, UsageInv,
        Idle
  <1>7. ASSUME NEW t \in Callers, Closes(t) PROVE ResizeInv'
    <2>1. CASE Close(t) \/ Join(t) \/ Cleared(t)
      BY <2>1 DEF Close, Join, Cleared, Goto, Leave, UsageInv, Idle, CsInv, Closing
    <2>2. CASE Destory(t)
      <3>1. ptr[t] \in Sessions /\ ~(ptr[t] > opens)
        BY <2>2 DEF Destory, CsInv, Closing, LiveInv, Sessions
      <3> QED
        BY <2>2, <3>1 DEF Destory, Goto, UsageInv, SessionTypes
    <2>3. CASE DestoryDemux(t)
      BY <2>3 DEF DestoryDemux, Free, Goto, Of, UsageInv
    <2>4. CASE Release(t)
      BY <2>4 DEF Release, Goto, Leave, Of, UsageInv
    <2>5. CASE FreePlay(t)
      BY <2>5 DEF FreePlay, Free, Goto, Of, UsageInv
    <2> QED
      BY <1>7, <2>1, <2>2, <2>3, <2>4, <2>5 DEF Closes
  <1>8. ASSUME NEW s \in Sessions, NEW w \in Workers, Worker(s, w) PROVE ResizeInv'
    <2>1. UNCHANGED <<usage, m_render, opens, abort, pc, ptr>>
      BY <1>8
      DEF Worker, ReadTest, ReadCall, ReadReturn, Draw, DrawChange, Drawn, RenderInit, Exit,
          Outlives, Fault, others
    <2>2. CASE UNCHANGED live
      BY <2>1, <2>2
    <2>3. CASE abort[s] /\ w = "video" /\ live' = live \ {<<s, w>>}
      BY <2>1, <2>3
    <2> QED
      BY <1>8, <2>2, <2>3
      DEF Worker, ReadTest, ReadCall, ReadReturn, Draw, DrawChange, Drawn, RenderInit, Exit,
          Outlives, Fault
  <1>9. CASE UNCHANGED vars
    BY <1>9 DEF vars
  <1> QED
    BY <1>1, <1>2, <1>3, <1>4, <1>5, <1>6, <1>7, <1>8, <1>9, Steps DEF Handlers, Works

-----------------------------------------------------------------------------
\* Whoever closes a media that is being started exposes it.
LEMMA RaceStep ==
  ASSUME PlayerTypes, SessionTypes, UsageInv, CsInv, LiveInv, RaceInv, [Next]_vars
  PROVE  RaceInv'
  <1> USE DEF RaceInv, player, callers, heap, threads, counts, Callers, PlayerTypes, Closing
  <1>1. CASE Open \/ OpenFails
    BY <1>1 DEF Open, OpenFails, MayOpen, Idle
  <1>2. CASE Handlers
    BY <1>2
    DEF Handlers, LoadSubtitle, Stop, Pause, Resume, Size, Look, PauseSet, ResumeSet, Idle,
        SetStatus, Wait, WaitOver, Resized, UseFreed, Fault, Goto, Leave, UsageInv, Dir
  <1>3. ASSUME NEW t \in Callers, Plays(t) PROVE RaceInv'
    <2>1. CASE Play(t)
      BY <2>1 DEF Play, Goto, Returned, Idle, CsInv, UsageInv
    <2>2. CASE Create(t) \/ CreateFailed(t) \/ Started(t) \/ PluginDelete(t)
      BY <2>2 DEF Create, CreateFailed, Started, PluginDelete, Goto, Leave, Returned
    <2> QED
      BY <1>3, <2>1, <2>2 DEF Plays
  <1>4. ASSUME NEW t \in Callers, Closes(t) PROVE RaceInv'
    <2>1. CASE Close(t)
      BY <2>1 DEF Close, Goto, Starting, Idle
    <2>2. CASE Destory(t) \/ DestoryDemux(t) \/ Join(t) \/ Release(t) \/ FreePlay(t)
               \/ Cleared(t)
      BY <2>2 DEF Destory, DestoryDemux, Join, Release, FreePlay, Cleared, Goto, Leave
    <2> QED
      BY <1>4, <2>1, <2>2 DEF Closes
  <1>5. ASSUME NEW s \in Sessions, NEW w \in Workers, Worker(s, w) PROVE RaceInv'
    BY <1>5
    DEF Worker, ReadTest, ReadCall, ReadReturn, Draw, DrawChange, Drawn, RenderInit, Exit,
        Outlives, Fault, others
  <1>6. CASE UNCHANGED vars
    BY <1>6 DEF vars
  <1> QED
    BY <1>1, <1>2, <1>3, <1>4, <1>5, <1>6, Steps DEF Works

\* Unexposed, av_start's threads stay to be joined.
LEMMA MadeStep ==
  ASSUME PlayerTypes, SessionTypes, UsageInv, CsInv, LiveInv, RaceInv, MadeInv, [Next]_vars
  PROVE  MadeInv'
  <1> USE DEF MadeInv, player, callers, heap, threads, counts, Callers, PlayerTypes
  <1>1. CASE Open \/ OpenFails
    BY <1>1 DEF Open, OpenFails, MayOpen, Idle
  <1>2. CASE Handlers
    BY <1>2
    DEF Handlers, LoadSubtitle, Stop, Pause, Resume, Size, Look, PauseSet, ResumeSet, Idle,
        SetStatus, Wait, WaitOver, Resized, UseFreed, Fault, Goto, Leave, UsageInv, Dir
  <1>3. ASSUME NEW t \in Callers, Plays(t) PROVE MadeInv'
    <2>1. CASE Play(t)
      <3>1. CASE UNCHANGED <<ptr, made, exposed>> /\ pc'[t] # "create"
        BY <2>1, <3>1 DEF Play, Goto, Returned
      <3>2. CASE /\ m_avplay \in Sessions /\ ptr' = [ptr EXCEPT ![t] = m_avplay]
                 /\ made' = [made EXCEPT ![m_avplay] = 0]
        <4>1. \A u \in Callers : u # t => ptr'[u] = ptr[u] /\ pc'[u] = pc[u]
          BY <2>1, <3>2 DEF Play, Goto
        <4>2. made'[m_avplay] = 0 /\ ptr'[t] = m_avplay
          BY <3>2 DEF SessionTypes
        <4>3. \A s \in Sessions : s # m_avplay => made'[s] = made[s]
          BY <3>2 DEF SessionTypes
        <4>4. exposed \subseteq exposed' /\ joinable' = joinable
          BY <2>1 DEF Play
        <4>5. ASSUME NEW u \in Callers, pc'[u] = "create", ptr'[u] \in Sessions \ exposed',
                     NEW i \in 1..made'[ptr'[u]]
              PROVE  <<ptr'[u], Created[i]>> \in joinable
          <5>1. ptr'[u] # m_avplay
            BY <4>2, <4>5
          <5>2. u # t
            BY <4>2, <5>1
          <5>3. pc[u] = "create" /\ ptr[u] \in Sessions \ exposed /\ ptr'[u] = ptr[u]
            BY <4>1, <4>4, <4>5, <5>2
          <5> QED
            BY <4>3, <4>5, <5>1, <5>3
        <4> QED
          BY <4>4, <4>5
      <3> QED
        BY <2>1, <3>1, <3>2 DEF Play, Goto, Returned
    <2>2. CASE Create(t)
      <3>1. ptr[t] \in Sessions
        BY <2>2, TheAvplay DEF Create
      <3>2. \A s \in Sessions : s # ptr[t] => made'[s] = made[s]
        BY <2>2, <3>1 DEF Create, SessionTypes
      <3>3. made'[ptr[t]] = made[ptr[t]] + 1 /\ made[ptr[t]] \in Nat
        BY <2>2, <3>1 DEF Create, SessionTypes
      <3>4. /\ UNCHANGED <<pc, ptr, exposed>> /\ joinable \subseteq joinable'
            /\ <<ptr[t], Created[made[ptr[t]] + 1]>> \in joinable'
        BY <2>2 DEF Create
      <3>5. \A i \in 1..made'[ptr[t]] : i \in 1..made[ptr[t]] \/ i = made[ptr[t]] + 1
        BY <3>3
      <3>6. pc[t] = "create"
        BY <2>2 DEF Create
      <3> QED
        BY <3>1, <3>2, <3>4, <3>5, <3>6
    <2>3. CASE CreateFailed(t) \/ Started(t) \/ PluginDelete(t)
      BY <2>3 DEF CreateFailed, Started, PluginDelete, Goto, Leave, Returned
    <2> QED
      BY <1>3, <2>1, <2>2, <2>3 DEF Plays
  <1>4. ASSUME NEW t \in Callers, Closes(t) PROVE MadeInv'
    <2>1. CASE Join(t)
      BY <2>1 DEF Join, Goto, RaceInv, Closing, Of
    <2>2. CASE Destory(t) \/ DestoryDemux(t) \/ Close(t) \/ Release(t) \/ FreePlay(t)
               \/ Cleared(t)
      BY <2>2 DEF Destory, DestoryDemux, Close, Release, FreePlay, Cleared, Goto, Leave, Idle
    <2> QED
      BY <1>4, <2>1, <2>2 DEF Closes
  <1>5. ASSUME NEW s \in Sessions, NEW w \in Workers, Worker(s, w) PROVE MadeInv'
    BY <1>5
    DEF Worker, ReadTest, ReadCall, ReadReturn, Draw, DrawChange, Drawn, RenderInit, Exit,
        Outlives, Fault, others
  <1>6. CASE UNCHANGED vars
    BY <1>6 DEF vars
  <1> QED
    BY <1>1, <1>2, <1>3, <1>4, <1>5, <1>6, Steps DEF Works

\* A step that leaves alone what the argument about s is made of.
LEMMA ThreadFrame ==
  ASSUME NEW s \in Sessions, RunInv(s), JoinInv(s), m_avplay' = m_avplay,
         Runs(s)' => Runs(s), Alive(s) => Alive(s)',
         status'[s] = status[s], Starting(s) => Starting(s)', PastJoin(s)' <=> PastJoin(s),
         AllJoinable(s) => AllJoinable(s)', Busy(s)' => Busy(s)
  PROVE  RunInv(s)' /\ JoinInv(s)'
  <1>1. RunInv(s)'
    BY DEF RunInv
  <1>2. JoinInv(s)'
    BY DEF JoinInv
  <1> QED
    BY <1>1, <1>2

\* open starts with no thread.
LEMMA ThreadOpen ==
  ASSUME PlayerTypes, SessionTypes, CsInv, LiveInv, Open \/ OpenFails,
         NEW s \in Sessions, RunInv(s), JoinInv(s)
  PROVE  RunInv(s)' /\ JoinInv(s)'
  <1> USE DEF player, callers, heap, threads, counts, Callers, PlayerTypes
  <1>0. m_avplay = NULL /\ s # NULL
    BY DEF Open, OpenFails, MayOpen, NULL, Sessions
  <1>1. ~Alive(s) /\ ~Runs(s)
    BY <1>0 DEF LiveInv, RunInv
  <1>2. ~Runs(s)'
    BY <1>1 DEF Runs, Open, OpenFails
  <1>3. RunInv(s)'
    BY <1>2 DEF RunInv
  <1>4. Busy(s)' => m_avplay' # s
    <2>1. pc'["app"] = "idle"
      BY DEF Open, OpenFails, MayOpen, Idle
    <2>2. CASE Open
      <3>1. m_avplay' = s => status'[s] = "inited"
        BY <2>2 DEF Open, SessionTypes
      <3> QED
        BY <1>2, <2>1, <3>1 DEF Busy, Played
    <2>3. CASE OpenFails
      BY <1>0, <2>3 DEF OpenFails
    <2> QED
      BY <2>2, <2>3
  <1>5. JoinInv(s)'
    BY <1>4 DEF JoinInv
  <1> QED
    BY <1>3, <1>5

\* The handlers neither start nor end a thread.
LEMMA ThreadHandlers ==
  ASSUME PlayerTypes, SessionTypes, UsageInv, CsInv, LiveInv, Handlers,
         NEW s \in Sessions, RunInv(s), JoinInv(s)
  PROVE  RunInv(s)' /\ JoinInv(s)'
  <1> USE DEF player, callers, heap, threads, counts, Callers, PlayerTypes
  <1>1. /\ m_avplay' = m_avplay /\ Runs(s)' = Runs(s) /\ Alive(s)' = Alive(s)
        /\ AllJoinable(s)' = AllJoinable(s)
    BY DEF Handlers, LoadSubtitle, Stop, Pause, Resume, Size, Look, PauseSet, ResumeSet,
           SetStatus, Wait, WaitOver, Resized, UseFreed, Fault, Runs, Alive, AllJoinable
  <1>2. Starting(s)' <=> Starting(s)
    BY DEF Handlers, LoadSubtitle, Stop, Pause, Resume, Size, Look, PauseSet, ResumeSet, Idle,
           SetStatus, Wait, WaitOver, Resized, UseFreed, Fault, Goto, Leave, Starting
  <1>3. PastJoin(s)' <=> PastJoin(s)
    BY DEF Handlers, LoadSubtitle, Stop, Pause, Resume, Size, Look, PauseSet, ResumeSet, Idle,
           SetStatus, Wait, WaitOver, Resized, UseFreed, Fault, Goto, Leave, PastJoin
  <1>4. CASE PauseSet \/ ResumeSet
    <2>1. CASE ptr["app"] = s
      <3>1. status'[s] \in Played /\ Busy(s)
        BY <1>4, <2>1 DEF PauseSet, ResumeSet, SetStatus, SessionTypes, Busy, Played
      <3>2. status'[s] \notin {"none", "inited", "stoped"}
        BY <3>1 DEF Played
      <3>3. RunInv(s)'
        BY <1>1, <1>2, <1>3, <3>2 DEF RunInv
      <3>4. JoinInv(s)'
        BY <1>1, <1>2, <1>3, <3>1 DEF JoinInv
      <3> QED
        BY <3>3, <3>4
    <2>2. CASE ptr["app"] # s
      <3>1. status'[s] = status[s]
        BY <1>4, <2>2 DEF PauseSet, ResumeSet, SetStatus, SessionTypes
      <3>2. Busy(s)' => Busy(s)
        BY <1>1, <1>4, <3>1 DEF PauseSet, ResumeSet, SetStatus, Busy, Leave, Goto
      <3> QED
        BY <1>1, <1>2, <1>3, <3>1, <3>2, ThreadFrame
    <2> QED
      BY <2>1, <2>2
  <1>5. CASE Pause \/ Resume
    <2>1. status' = status
      BY <1>5 DEF Pause, Resume, Look
    <2>2. Busy(s)' => Busy(s)
      BY <1>1, <1>5, <2>1 DEF Pause, Resume, Look, Busy, Goto, Played
    <2> QED
      BY <1>1, <1>2, <1>3, <2>1, <2>2, ThreadFrame
  <1>6. CASE LoadSubtitle \/ Stop \/ Size \/ Wait \/ WaitOver \/ Resized \/ UseFreed
    <2>1. status' = status
      BY <1>6 DEF LoadSubtitle, Stop, Size, Look, Wait, WaitOver, Resized, UseFreed, Fault
    <2>2. Busy(s)' => Busy(s)
      BY <1>1, <1>6, <2>1
      DEF LoadSubtitle, Stop, Size, Look, Wait, WaitOver, Resized, UseFreed, Fault, Busy, Goto, Leave
    <2> QED
      BY <1>1, <1>2, <1>3, <2>1, <2>2, ThreadFrame
  <1> QED
    BY <1>4, <1>5, <1>6 DEF Handlers

\* play creates the threads before the status says that it plays.
LEMMA ThreadPlays ==
  ASSUME PlayerTypes, SessionTypes, UsageInv, CsInv, LiveInv, RaceInv, MadeInv,
         NEW t \in Callers, Plays(t),
         NEW s \in Sessions \ exposed', RunInv(s), JoinInv(s)
  PROVE  RunInv(s)' /\ JoinInv(s)'
  <1> USE DEF player, callers, heap, threads, counts, Callers, PlayerTypes
  <1>1. /\ m_avplay' = m_avplay /\ Alive(s)' = Alive(s)
        /\ PastJoin(s)' <=> PastJoin(s)
    <2>1. m_avplay' = m_avplay /\ live' = live
      BY DEF Plays, Play, Create, CreateFailed, Started, PluginDelete
    <2>2. PastJoin(s)' <=> PastJoin(s)
      BY DEF Plays, Play, Create, CreateFailed, Started, PluginDelete, PastJoin, Goto, Leave,
             Returned, Idle
    <2> QED
      BY <2>1, <2>2 DEF Alive
  <1>2. CASE Play(t) \/ PluginDelete(t)
    <2>1. UNCHANGED <<status, running, joinable>>
      BY <1>2 DEF Play, PluginDelete
    <2>2. Starting(s) => Starting(s)'
      BY <1>2 DEF Play, PluginDelete, Starting, Goto, Returned, Idle
    <2>3. Busy(s)' => Busy(s)
      BY <1>2, <2>1 DEF Play, PluginDelete, Busy, Runs, Goto, Returned
    <2> QED
      BY <1>1, <2>1, <2>2, <2>3, ThreadFrame DEF Runs, AllJoinable
  <1>3. CASE Create(t)
    <2>1. UNCHANGED <<status, pc, ptr, exposed>> /\ Alive(ptr[t]) /\ pc[t] = "create"
      BY <1>3 DEF Create
    <2>2. \E w : running' = running \cup {<<ptr[t], w>>} /\ joinable' = joinable \cup {<<ptr[t], w>>}
      BY <1>3 DEF Create
    <2>3. CASE ptr[t] = s
      <3>1. Starting(s)'
        BY <2>1, <2>3 DEF Starting
      <3>2. ~PastJoin(s)
        BY <2>1, <2>3 DEF PastJoin, RaceInv, Closing
      <3> QED
        BY <1>1, <2>1, <2>3, <3>1, <3>2 DEF RunInv, JoinInv
    <2>4. CASE ptr[t] # s
      <3>1. Runs(s)' <=> Runs(s)
        BY <2>2, <2>4 DEF Runs, Of
      <3>2. AllJoinable(s) => AllJoinable(s)'
        BY <2>2 DEF AllJoinable
      <3>3. Starting(s) => Starting(s)'
        BY <2>1 DEF Starting
      <3>4. Busy(s)' => Busy(s)
        BY <2>1, <3>1 DEF Busy
      <3> QED
        BY <1>1, <2>1, <3>1, <3>2, <3>3, <3>4, ThreadFrame
    <2> QED
      BY <2>3, <2>4
  <1>4. CASE CreateFailed(t)
    <2>1. UNCHANGED <<status, running, joinable>> /\ ptr[t] # s
      BY <1>4 DEF CreateFailed
    <2>2. Starting(s) => Starting(s)'
      BY <1>4, <2>1 DEF CreateFailed, Starting, Leave, Goto, Returned
    <2>3. Busy(s)' => Busy(s)
      BY <1>4, <2>1 DEF CreateFailed, Busy, Runs, Leave, Goto, Returned
    <2> QED
      BY <1>1, <2>1, <2>2, <2>3, ThreadFrame DEF Runs, AllJoinable
  <1>5. CASE Started(t)
    <2>1. UNCHANGED <<running, joinable, exposed>> /\ Alive(ptr[t]) /\ pc[t] = "create"
          /\ made[ptr[t]] = 3
      BY <1>5, CreatedIs DEF Started
    <2>2. CASE ptr[t] = s
      <3>1. AllJoinable(s)
        <4>1. \A i \in 1..3 : <<s, Created[i]>> \in joinable
          BY <2>1, <2>2 DEF MadeInv
        <4> QED
          BY <4>1, CreatedIs DEF AllJoinable, Of
      <3>2. status'[s] = "playing"
        BY <1>5, <2>2 DEF Started, SessionTypes
      <3>3. RunInv(s)'
        BY <1>1, <2>1, <3>2 DEF RunInv, Runs
      <3>4. JoinInv(s)'
        BY <2>1, <3>1 DEF JoinInv, AllJoinable
      <3> QED
        BY <3>3, <3>4
    <2>3. CASE ptr[t] # s
      <3>1. status'[s] = status[s]
        BY <1>5, <2>3 DEF Started, SessionTypes
      <3>2. Starting(s) => Starting(s)'
        BY <1>5, <2>3 DEF Started, Starting, Leave, Goto, Returned
      <3>3. Busy(s)' => Busy(s)
        BY <1>5, <2>1, <3>1 DEF Started, Busy, Runs, Leave, Goto, Returned
      <3> QED
        BY <1>1, <2>1, <3>1, <3>2, <3>3, ThreadFrame DEF Runs, AllJoinable
    <2> QED
      BY <2>2, <2>3
  <1> QED
    BY <1>2, <1>3, <1>4, <1>5 DEF Plays

\* The threads write the status only while they run.
LEMMA ThreadWorks ==
  ASSUME PlayerTypes, SessionTypes, LiveInv,
         NEW r \in Sessions, NEW w \in Workers, Worker(r, w),
         NEW s \in Sessions, RunInv(s), JoinInv(s)
  PROVE  RunInv(s)' /\ JoinInv(s)'
  <1>1. UNCHANGED <<m_avplay, joinable, exposed, pc, ptr>>
    BY DEF Worker, ReadTest, ReadCall, ReadReturn, Draw, DrawChange, Drawn, RenderInit, Exit,
           Outlives, Fault, others, player, callers, threads
  <1>2. /\ Starting(s)' = Starting(s) /\ PastJoin(s)' = PastJoin(s)
        /\ AllJoinable(s)' = AllJoinable(s)
    BY <1>1 DEF Starting, PastJoin, AllJoinable
  <1>3. CASE UNCHANGED <<running, live, status>>
    <2>1. Runs(s)' = Runs(s) /\ Alive(s)' = Alive(s) /\ Busy(s)' = Busy(s)
      BY <1>1, <1>3 DEF Runs, Alive, Busy
    <2> QED
      BY <1>1, <1>2, <1>3, <2>1, ThreadFrame
  <1>4. CASE Exit(r, w)
    <2>1. Runs(s)' => Runs(s)
      BY <1>4 DEF Exit, Runs
    <2>2. Alive(s) => Alive(s)'
      BY <1>4 DEF Exit, Alive
    <2>3. Busy(s)' => Busy(s)
      BY <1>1, <1>4, <2>1 DEF Exit, Busy
    <2> QED
      BY <1>1, <1>2, <1>4, <2>1, <2>2, <2>3, ThreadFrame DEF Exit
  <1>5. CASE ReadReturn(r) \/ RenderInit(r, w)
    <2>1. UNCHANGED <<running, live>>
      BY <1>5 DEF ReadReturn, RenderInit, heap
    <2>2. Runs(s)' = Runs(s) /\ Alive(s)' = Alive(s)
      BY <2>1 DEF Runs, Alive
    <2>3. CASE status'[s] = status[s]
      BY <1>1, <1>2, <2>2, <2>3, ThreadFrame DEF Busy
    <2>4. CASE status'[s] # status[s]
      <3>1. r = s /\ status'[s] \in Played
        BY <1>5, <2>4 DEF ReadReturn, RenderInit, SessionTypes, Played
      <3>2. Runs(s)
        BY <1>5, <3>1, WorkersAre DEF ReadReturn, RenderInit, At, Runs, Of
      <3>3. RunInv(s)'
        BY <1>2, <2>2, <3>1 DEF RunInv, Played
      <3>4. JoinInv(s)'
        BY <1>1, <1>2, <3>2 DEF JoinInv, Busy
      <3> QED
        BY <3>3, <3>4
    <2> QED
      BY <2>3, <2>4
  <1> QED
    BY <1>3, <1>4, <1>5
    DEF Worker, ReadTest, ReadCall, Draw, DrawChange, Drawn, Outlives, Fault, heap, threads

\* av_destory and av_stop join before they release.
LEMMA ThreadCloses ==
  ASSUME PlayerTypes, SessionTypes, UsageInv, CsInv, LiveInv, RaceInv,
         NEW t \in Callers, Closes(t),
         NEW s \in Sessions \ exposed', RunInv(s), JoinInv(s)
  PROVE  RunInv(s)' /\ JoinInv(s)'
  <1> USE DEF player, callers, heap, threads, counts, Callers, PlayerTypes
  <1>1. Starting(s) => Starting(s)'
    BY DEF Closes, Close, Destory, DestoryDemux, Join, Release, FreePlay, Cleared, Starting,
           Goto, Leave, Idle
  <1>2. Runs(s)' = Runs(s)
    BY DEF Closes, Close, Destory, DestoryDemux, Join, Release, FreePlay, Cleared, Runs
  <1>3. ~Close(t) => ptr[t] = m_avplay /\ m_avplay \in Sessions /\ pc[t] \in Closing
    BY DEF Closes, Destory, DestoryDemux, Join, Release, FreePlay, Cleared, CsInv, Closing
  <1>4. Starting(s) /\ ~Close(t) => ptr[t] # s
    BY <1>3 DEF Starting, RaceInv, Closes, Destory, DestoryDemux, Join, Release, FreePlay, Cleared
  <1>5. CASE Close(t) \/ DestoryDemux(t)
    <2>1. UNCHANGED <<m_avplay, status, joinable>>
      BY <1>5 DEF Close, DestoryDemux
    <2>2. Alive(s) => Alive(s)'
      BY <1>5 DEF Close, DestoryDemux, Free, Of, Alive
    <2>3. PastJoin(s)' <=> PastJoin(s)
      BY <1>5 DEF Close, DestoryDemux, PastJoin, Goto, Idle
    <2>4. Busy(s)' => Busy(s)
      BY <1>2, <1>5, <2>1 DEF Close, DestoryDemux, Busy, Goto
    <2> QED
      BY <1>1, <1>2, <2>1, <2>2, <2>3, <2>4, ThreadFrame DEF AllJoinable
  <1>6. CASE Destory(t)
    <2>1. UNCHANGED <<m_avplay, status, joinable, live>>
      BY <1>6 DEF Destory
    <2>2. Busy(s)' => Busy(s)
      BY <1>2, <1>6, <2>1 DEF Destory, Busy, Goto
    <2>3. PastJoin(s)' => PastJoin(s) \/ (s = ptr[t] /\ status[s] \in {"stoped", "inited"})
      <3>1. pc'[t] = "free" => status[ptr[t]] \in {"stoped", "inited"}
        BY <1>6 DEF Destory, Goto, IsPlaying
      <3>2. ptr' = ptr /\ pc'[t] \in {"free", "demux"} /\ \A u \in Callers \ {t} : pc'[u] = pc[u]
        BY <1>6 DEF Destory, Goto
      <3>3. ASSUME NEW u \in Callers, ptr'[u] = s, pc'[u] \in {"release", "free", "null"}, u # t
            PROVE  PastJoin(s)
        BY <3>2, <3>3 DEF PastJoin
      <3>4. pc'[t] \in {"release", "free", "null"} => pc'[t] = "free"
        BY <3>2
      <3> QED
        <4> HIDE DEF Callers
        <4> SUFFICES ASSUME PastJoin(s)', ~PastJoin(s)
                     PROVE  s = ptr[t] /\ status[s] \in {"stoped", "inited"}
          OBVIOUS
        <4>1. PICK u \in Callers : ptr'[u] = s /\ pc'[u] \in {"release", "free", "null"}
          BY DEF PastJoin
        <4>2. u = t
          BY <3>3, <4>1
        <4> QED
          BY <3>1, <3>2, <3>4, <4>1, <4>2
    <2>4. PastJoin(s) => PastJoin(s)'
      BY <1>6 DEF Destory, PastJoin, Goto
    <2>5. PastJoin(s)' => ~Runs(s)
      <3>1. ~Close(t)
        BY <1>6 DEF Destory, Close, Idle
      <3>2. s = ptr[t] => ~Starting(s)
        BY <1>4, <3>1
      <3> QED
        BY <2>3, <3>2 DEF RunInv
    <2>6. RunInv(s)'
      BY <1>1, <1>2, <2>1, <2>5 DEF RunInv, Alive
    <2>7. JoinInv(s)'
      BY <1>1, <2>1, <2>2, <2>4 DEF JoinInv, AllJoinable
    <2> QED
      BY <2>6, <2>7
  <1>7. CASE Join(t)
    <2>1. UNCHANGED <<m_avplay, status, live>>
      BY <1>7 DEF Join
    <2>2. Busy(s)' => Busy(s)
      BY <1>2, <1>7, <2>1 DEF Join, Busy, Goto
    <2>3. CASE ptr[t] = s
      <3>1. ~Runs(s)
        BY <1>7, <2>3 DEF Join, Joined, Runs
      <3>2. PastJoin(s)'
        BY <1>7, <2>3 DEF Join, PastJoin, Goto
      <3> QED
        BY <1>2, <2>1, <3>1, <3>2 DEF RunInv, JoinInv
    <2>4. CASE ptr[t] # s
      <3>1. PastJoin(s)' <=> PastJoin(s)
        BY <1>7, <2>4 DEF Join, PastJoin, Goto
      <3>2. AllJoinable(s) => AllJoinable(s)'
        BY <1>7, <2>4 DEF Join, AllJoinable, Of
      <3> QED
        BY <1>1, <1>2, <2>1, <2>2, <3>1, <3>2, ThreadFrame DEF Alive
    <2> QED
      BY <2>3, <2>4
  <1>8. CASE Release(t)
    <2>1. UNCHANGED <<m_avplay, joinable>> /\ Alive(s)' = Alive(s)
      BY <1>8 DEF Release, Of, Alive
    <2>2. CASE ptr[t] = s
      <3>1. ~Runs(s) /\ status'[s] = "stoped"
        BY <1>8, <2>2 DEF Release, PastJoin, RunInv, SessionTypes, Stopped
      <3>2. CASE m_cs = t
        <4>1. PastJoin(s)'
          BY <1>8, <2>2, <3>2 DEF Release, PastJoin, Goto
        <4> QED
          BY <1>2, <3>1, <4>1 DEF RunInv, JoinInv
      <3>3. CASE m_cs # t
        <4>1. t = "app" /\ pc'["app"] = "idle"
          BY <1>8, <3>3 DEF Release, Leave, Goto, CsInv, Closing
        <4>2. ~Busy(s)'
          BY <1>2, <3>1, <4>1 DEF Busy, Played
        <4> QED
          BY <1>2, <3>1, <4>2 DEF RunInv, JoinInv
      <3> QED
        BY <3>2, <3>3
    <2>3. CASE ptr[t] # s
      <3>1. status'[s] = status[s]
        BY <1>8, <2>3 DEF Release, SessionTypes
      <3>2. PastJoin(s)' <=> PastJoin(s)
        BY <1>8, <2>3 DEF Release, PastJoin, Goto, Leave, NULL, Sessions
      <3>3. Busy(s)' => Busy(s)
        BY <1>2, <1>8, <3>1 DEF Release, Busy, Goto, Leave
      <3> QED
        BY <1>1, <1>2, <2>1, <3>1, <3>2, <3>3, ThreadFrame DEF AllJoinable
    <2> QED
      BY <2>2, <2>3
  <1>9. CASE FreePlay(t)
    <2>1. UNCHANGED <<m_avplay, joinable, status>>
      BY <1>9 DEF FreePlay
    <2>2. PastJoin(s)' <=> PastJoin(s)
      BY <1>9 DEF FreePlay, PastJoin, Goto
    <2>3. Busy(s)' => Busy(s)
      BY <1>2, <1>9, <2>1 DEF FreePlay, Busy, Goto
    <2>4. Runs(s) => ptr[t] # s
      BY <1>9 DEF FreePlay, PastJoin, RunInv
    <2>5. Runs(s) => Alive(s)'
      BY <1>9, <2>4 DEF FreePlay, Free, Of, Alive, RunInv
    <2>6. RunInv(s)'
      BY <1>1, <1>2, <2>1, <2>2, <2>5 DEF RunInv
    <2>7. JoinInv(s)'
      BY <1>1, <2>1, <2>2, <2>3 DEF JoinInv, AllJoinable
    <2> QED
      BY <2>6, <2>7
  <1>10. CASE Cleared(t)
    <2>1. m_avplay' = NULL /\ UNCHANGED <<status, live>>
      BY <1>10 DEF Cleared, Avplay
    <2>2. PastJoin(s)' => PastJoin(s)
      BY <1>10 DEF Cleared, PastJoin, Goto, Leave, NULL, Sessions
    <2>3. RunInv(s)'
      BY <1>1, <1>2, <2>1, <2>2 DEF RunInv, Alive
    <2>4. m_avplay' # s
      BY <2>1 DEF NULL, Sessions
    <2> QED
      BY <2>3, <2>4 DEF JoinInv
  <1> QED
    BY <1>5, <1>6, <1>7, <1>8, <1>9, <1>10 DEF Closes

\* Every step keeps status and threads in agreement for unexposed media.
LEMMA ThreadStep ==
  ASSUME PlayerTypes, SessionTypes, UsageInv, CsInv, LiveInv, ThreadInv, [Next]_vars
  PROVE  ThreadInv'
  <1>1. RaceInv' /\ MadeInv'
    BY RaceStep, MadeStep DEF ThreadInv
  <1>2. exposed \subseteq exposed'
    BY Steps
    DEF Open, OpenFails, Handlers, LoadSubtitle, Stop, Pause, Resume, Size, Look, PauseSet,
        ResumeSet, SetStatus, Wait, WaitOver, Resized, UseFreed, Fault, Works, Worker, ReadTest,
        ReadCall, ReadReturn, Draw, DrawChange, Drawn, RenderInit, Exit, Outlives, others,
        Plays, Play, Create, CreateFailed, Started, PluginDelete, vars, threads,
        Closes, Close, Destory, DestoryDemux, Join, Release, FreePlay, Cleared
  <1>3. ASSUME NEW s \in Sessions \ exposed' PROVE RunInv(s)' /\ JoinInv(s)'
    <2>1. RunInv(s) /\ JoinInv(s) /\ RaceInv /\ MadeInv
      BY <1>2 DEF ThreadInv
    <2>2. CASE UNCHANGED vars
      <3>1. /\ Runs(s)' = Runs(s) /\ Alive(s)' = Alive(s) /\ Starting(s)' = Starting(s)
            /\ PastJoin(s)' = PastJoin(s) /\ AllJoinable(s)' = AllJoinable(s)
            /\ Busy(s)' = Busy(s) /\ m_avplay' = m_avplay /\ status' = status
        BY <2>2
        DEF vars, player, callers, heap, threads, Runs, Alive, Starting, PastJoin, AllJoinable, Busy
      <3> QED
        BY <2>1, <3>1, ThreadFrame
    <2> QED
      BY <2>1, <2>2, Steps, ThreadOpen, ThreadHandlers, ThreadPlays, ThreadCloses, ThreadWorks
      DEF Works
  <1> QED
    BY <1>1, <1>3 DEF ThreadInv

(***************************************************************************)
(* The inductive invariant, and the theorems.                              *)
(***************************************************************************)
Base == PlayerTypes /\ SessionTypes /\ UsageInv /\ CsInv /\ OpenedInv
        /\ LiveInv /\ FreedInv /\ ThreadInv /\ ResizeInv /\ PluginInv

\* Every use of freed memory has its explanation, step by step.
LEMMA FaultStep ==
  ASSUME Base, FaultsExplained, [Next]_vars
  PROVE  FaultsExplained'
  <1> USE DEF Base
  <1>1. CASE UNCHANGED vars
    BY <1>1 DEF vars, FaultsExplained, threads, subtitles
  <1>2. CASE fault' = "none"
    BY <1>2 DEF FaultsExplained
  <1>3. CASE fault' = "demuxer"
    BY <1>3 DEF FaultsExplained
  \* With one thread, whoever looks at m_avplay finds it allocated.
  <1>4. usage = "direct" /\ m_cs = "free" /\ m_avplay # NULL => Alive(m_avplay)
    BY DEF LiveInv, Stage
  <1>5. usage = "direct" /\ pc["app"] \notin Closing => m_cs = "free"
    BY DEF UsageInv, CsInv, Closing, PlayerTypes, Callers
  <1>6. CASE Handlers /\ fault' = "caller"
    <2>1. CASE Pause \/ Resume \/ Size
      <3>1. pc["app"] = "idle" /\ m_avplay # NULL /\ UNCHANGED usage /\ (Alive(m_avplay) => fault' = fault)
        BY <2>1 DEF Pause, Resume, Size, Look, Idle
      <3>2. fault = "none" \/ UNCHANGED vars
        BY DEF Next
      <3>3. usage = "direct" => Alive(m_avplay)
        BY <1>4, <1>5, <3>1 DEF Closing
      <3>4. usage # "direct" => usage = "thread"
        BY LifeAssumption DEF PlayerTypes
      <3> QED
        BY <1>1, <1>6, <3>1, <3>2, <3>3, <3>4 DEF FaultsExplained
    <2>2. CASE UseFreed
      <3>1. UNCHANGED usage
        BY <2>2 DEF UseFreed, Fault
      <3>2. usage # "direct"
        <4>1. CASE /\ pc["app"] = "resize" /\ <<m_render, "video">> \notin live
          BY <4>1 DEF ResizeInv
        <4>2. ASSUME usage = "direct", NEW t \in Callers,
                     pc[t] \in {"create", "poll", "pausing", "resuming"}, ~Alive(ptr[t])
              PROVE  FALSE
          BY <1>4, <1>5, <4>2 DEF UsageInv, Callers, Closing
        <4> QED
          BY <2>2, <4>1, <4>2 DEF UseFreed
      <3>3. usage = "thread"
        BY <3>2, LifeAssumption DEF PlayerTypes
      <3> QED
        BY <1>6, <3>1, <3>3 DEF FaultsExplained
    <2>3. CASE \/ LoadSubtitle \/ Stop \/ PauseSet \/ ResumeSet \/ Resized \/ Wait \/ WaitOver
      <3>1. UNCHANGED fault
        BY <2>3 DEF LoadSubtitle, Stop, PauseSet, ResumeSet, SetStatus, Resized, Wait, WaitOver
      <3> QED
        BY <1>1, <1>2, <3>1 DEF Next
    <2> QED
      BY <1>6, <2>1, <2>2, <2>3 DEF Handlers
  <1>7. ASSUME NEW t \in Callers, Play(t), fault' = "caller" PROVE FaultsExplained'
    <2>1. UNCHANGED usage
      BY <1>7 DEF Play
    <2>2. CASE usage = "direct"
      <3>1. fault' = fault
        BY <1>7, <2>2 DEF Play, UsageInv, Callers
      <3> QED
        BY <1>1, <1>2, <3>1 DEF Next
    <2>3. CASE usage = "thread"
      BY <1>7, <2>1, <2>3 DEF FaultsExplained
    <2> QED
      BY <2>2, <2>3, LifeAssumption DEF PlayerTypes
  <1>8. ASSUME NEW s \in Sessions, NEW w \in Workers, Worker(s, w), fault' # "none",
               fault' # "demuxer", fault = "none"
        PROVE  FaultsExplained'
    <2>1. CASE DrawChange(s) /\ ~m_plugin
      <3>1. fault' = "plugin" /\ carried' = carried
        BY <2>1 DEF DrawChange
      <3>2. m_change_subtitle
        BY <2>1 DEF DrawChange, At, PluginInv
      <3>3. carried
        BY <2>1, <3>2 DEF PluginInv
      <3> QED
        BY <3>1, <3>3 DEF FaultsExplained
    <2>2. CASE Outlives(s, w)
      <3>1. fault' = "avplay" /\ exposed' = exposed
        BY <2>2 DEF Outlives, Fault, threads
      <3>2. Runs(s) /\ ~Alive(s)
        BY <2>2 DEF Outlives, Runs, Of
      <3>3. s \in exposed
        BY <3>2 DEF ThreadInv, RunInv
      <3> QED
        BY <3>1, <3>3 DEF FaultsExplained
    <2> QED
      BY <1>8, <2>1, <2>2
      DEF Worker, ReadTest, ReadCall, ReadReturn, Draw, DrawChange, Drawn, RenderInit, Exit
  <1>9. CASE fault = "none" /\ (Open \/ OpenFails \/ \E t \in Callers : Closes(t) \/ (Plays(t) /\ ~Play(t)))
    <2>1. fault' = fault
      BY <1>9
      DEF Open, OpenFails, Closes, Close, Destory, DestoryDemux, Join, Release, FreePlay, Cleared,
          Plays, Create, CreateFailed, Started, PluginDelete
    <2> QED
      BY <1>2, <1>9, <2>1
  <1>10. fault = "none" \/ UNCHANGED vars
    BY DEF Next
  <1>11. Handlers => fault' \in {fault, "caller"}
    BY DEF Handlers, LoadSubtitle, Stop, Pause, Resume, Size, Look, PauseSet, ResumeSet,
        SetStatus, Wait, WaitOver, Resized, UseFreed, Fault
  <1>12. \A t \in Callers : Play(t) => fault' \in {fault, "caller"}
    BY DEF Play
  <1> QED
    BY <1>1, <1>2, <1>3, <1>6, <1>7, <1>8, <1>9, <1>10, <1>11, <1>12, Steps DEF Works, Plays

\* Only OpenFails frees what may have been freed before.
LEMMA TwiceStep ==
  ASSUME Base, AvplayFreedOnce, [Next]_vars
  PROVE  AvplayFreedOnce'
  <1> USE DEF AvplayFreedOnce, Base, heap
  <1>1. CASE UNCHANGED twice
    BY <1>1
  <1>2. CASE OpenFails
    BY <1>2 DEF OpenFails, Free, OldRenderers, Of, PlayerTypes
  <1>3. ASSUME NEW t \in Callers, DestoryDemux(t) PROVE AvplayFreedOnce'
    <2>1. ptr[t] = m_avplay /\ m_avplay # NULL /\ Stage = "demux"
      BY <1>3, StageMoves DEF DestoryDemux, CsInv, Closing
    <2>2. <<m_avplay, "demux">> \in live
      BY <2>1 DEF LiveInv
    <2> QED
      BY <1>3, <2>1, <2>2 DEF DestoryDemux, Free, Of
  <1>4. ASSUME NEW t \in Callers, FreePlay(t) PROVE AvplayFreedOnce'
    <2>1. ptr[t] = m_avplay /\ m_avplay # NULL /\ Stage = "free"
      BY <1>4, StageMoves DEF FreePlay, CsInv, Closing
    <2>2. <<m_avplay, "avplay">> \in live
      BY <2>1 DEF LiveInv, Alive
    <2> QED
      BY <1>4, <2>1, <2>2 DEF FreePlay, Free, Of
  <1> QED
    BY <1>1, <1>2, <1>3, <1>4, Steps
    DEF Open, Handlers, LoadSubtitle, Stop, Pause, Resume, Size, Look, PauseSet,
        ResumeSet, SetStatus, Wait, WaitOver, Resized, UseFreed, Fault, Works, Worker, ReadTest,
        ReadCall, ReadReturn, Draw, DrawChange, Drawn, RenderInit, Exit, Outlives, others,
        Plays, Play, Create, CreateFailed, Started, PluginDelete, vars,
        Closes, Close, Destory, Join, Release, Cleared

\* The initial states satisfy the inductive invariant.
LEMMA InitBase == Init => Base /\ FaultsExplained /\ AvplayFreedOnce
  <1> SUFFICES ASSUME Init PROVE Base /\ FaultsExplained /\ AvplayFreedOnce
    OBVIOUS
  <1>1. PlayerTypes /\ SessionTypes
    BY InitTypes
  <1>2. /\ pc["app"] = "idle" /\ pc["player"] = "asleep" /\ m_cs = "free" /\ m_avplay = NULL
        /\ live = {} /\ running = {} /\ opens = 0 /\ fault = "none" /\ twice = {}
        /\ m_change_subtitle = FALSE
        /\ \A s \in Sessions : status[s] = "none" /\ found[s] = "none" /\ ~abort[s]
    BY DEF Init, Callers
  <1>3. UsageInv /\ CsInv /\ ResizeInv
    BY <1>2 DEF UsageInv, CsInv, ResizeInv, Closing, Callers
  <1>4. LiveInv /\ OpenedInv
    BY <1>2 DEF LiveInv, OpenedInv, Alive, NULL
  <1>5. FreedInv
    BY <1>2 DEF FreedInv, Stage, Played
  <1>6. ThreadInv
    BY <1>2 DEF ThreadInv, RaceInv, MadeInv, RunInv, JoinInv, Runs, Busy, Played, PastJoin, Callers
  <1>7. PluginInv
    BY <1>2 DEF PluginInv
  <1>8. FaultsExplained /\ AvplayFreedOnce
    BY <1>2 DEF FaultsExplained, AvplayFreedOnce
  <1> QED
    BY <1>1, <1>3, <1>4, <1>5, <1>6, <1>7, <1>8 DEF Base

\* Every step preserves the inductive invariant.
LEMMA NextBase == Base /\ [Next]_vars => Base'
  <1> SUFFICES ASSUME Base, [Next]_vars PROVE Base'
    OBVIOUS
  <1>1. PlayerTypes' /\ SessionTypes'
    BY PlayerStep, SessionStep DEF Base
  <1>2. UsageInv' /\ CsInv'
    BY UsageStep, CsStep DEF Base
  <1>3. OpenedInv' /\ LiveInv' /\ FreedInv'
    BY <1>1, OpenedStep, LiveStep, FreedStep DEF Base
  <1>4. ThreadInv' /\ ResizeInv' /\ PluginInv'
    BY ThreadStep, ResizeStep, PluginStep DEF Base
  <1> QED
    BY <1>1, <1>2, <1>3, <1>4 DEF Base

\* Every reachable state satisfies the inductive invariant.
LEMMA Invariance == Spec => []Base
  BY InitBase, NextBase, PTL DEF Spec

(***************************************************************************)
(* A thread finds its avplay freed only after av_start failed half way or  *)
(* ran while another thread closed; with one thread no call or handler     *)
(* uses what was freed; and draw_frame misses its plugin only after a      *)
(* close deleted it while a change was wanted.                             *)
(***************************************************************************)
THEOREM FaultsOnly == Spec => []FaultsExplained
  BY InitBase, FaultStep, Invariance, PTL DEF Spec

(***************************************************************************)
(* close, whoever calls it and however often, frees an avplay, its demuxer *)
(* and its decoders once.                                                  *)
(***************************************************************************)
THEOREM FreedOnce == Spec => []AvplayFreedOnce
  BY InitBase, TwiceStep, Invariance, PTL DEF Spec

(***************************************************************************)
(* What av_destory leaves allocated: nothing of a media that played, the   *)
(* demuxer and its source of one that was stopped before, and all of one   *)
(* that was never played.                                                  *)
(***************************************************************************)
THEOREM NothingLeft == Spec => []PlayedReleased
  <1>1. Base => PlayedReleased
    <2> SUFFICES ASSUME Base, NEW s \in Sessions, found[s] # "none", ~Alive(s)
                 PROVE  LeftBehind(s) \subseteq CASE found[s] = "stoped" -> {"demux"}
                                                  [] found[s] = "inited" -> Resources
                                                  [] OTHER -> {}
      BY DEF PlayedReleased
    <2>1. s # m_avplay \/ Stage \in {"free", "null"}
      BY DEF Base, LiveInv, NULL, Sessions
    <2>2. found[s] \in Played \cup {"stoped", "inited"}
      BY DEF Base, SessionTypes, Statuses, Played
    <2>3. <<s, "avplay">> \notin live
      BY DEF Alive
    <2>4. CASE found[s] = "inited"
      BY <2>4 DEF LeftBehind
    <2>5. CASE found[s] = "stoped"
      BY <2>1, <2>3, <2>5
      DEF LeftBehind, Resources, Base, FreedInv, Gone, Of, Decoded
    <2>6. CASE found[s] \in Played
      <3>1. Gone(s, Decoded \cup {"demux"})
        BY <2>1, <2>6 DEF Base, FreedInv
      <3>2. LeftBehind(s) = {}
        BY <2>3, <3>1 DEF LeftBehind, Resources, Gone, Of, Decoded
      <3> QED
        BY <2>6, <3>2 DEF Played
    <2> QED
      BY <2>2, <2>4, <2>5, <2>6
  <1> QED
    BY <1>1, Invariance, PTL

(***************************************************************************)
(* Unless av_start failed or raced with a close, wait_for_threads joins    *)
(* threads that were all created and not joined before, whatever the       *)
(* reader and the renderers have written to m_play_status since.           *)
(***************************************************************************)
THEOREM Joins == Spec => JoinsValid
  <1>1. Base => \A t \in Callers :
          Join(t) /\ ptr[t] \notin exposed /\ status[ptr[t]] \notin {"inited", "stoped"}
            => Of(ptr[t], Workers) \subseteq joinable
    <2> SUFFICES ASSUME Base, NEW t \in Callers, Join(t), ptr[t] \notin exposed,
                        status[ptr[t]] \notin {"inited", "stoped"}
                 PROVE  AllJoinable(ptr[t])
      BY DEF AllJoinable
    <2>1. pc[t] = "join" /\ ptr[t] = m_avplay /\ m_avplay \in Sessions
      BY DEF Join, Base, CsInv, Closing, PlayerTypes
    <2>2. ~Starting(ptr[t])
      BY <2>1 DEF Starting, Base, ThreadInv, RaceInv, Closing
    <2>3. ~PastJoin(ptr[t])
      BY <2>1 DEF PastJoin, Base, CsInv, Closing, UsageInv, Callers
    <2>4. status[ptr[t]] \in Played
      BY <2>1 DEF Base, OpenedInv, NULL, Sessions, SessionTypes, Statuses, Played
    <2> QED
      BY <2>1, <2>2, <2>3, <2>4 DEF Base, ThreadInv, JoinInv, Busy
  <1> QED
    BY <1>1, Invariance, PTL DEF JoinsValid

=============================================================================
