----------------------------- MODULE PlayerLife -----------------------------
(***************************************************************************)
(* The life of a player: player_impl (win32/avcore/player_impl.cpp) opens, *)
(* plays, stops and closes media with the av_* calls of libav/avplay.c,    *)
(* which create, join and outlive (or not) the threads of each media.      *)
(*                                                                         *)
(* The player is used in one of two ways (comment at main.cpp:104): one    *)
(* thread makes every call ("direct"), or a thread of its own plays, waits *)
(* and closes while the window's thread handles its messages ("thread").   *)
(* Each successful open is a session, named by its number.                 *)
(*                                                                         *)
(* A step that would use freed memory or a NULL pointer records what it    *)
(* would have used in fault, and nothing happens after it.                 *)
(***************************************************************************)
EXTENDS Integers, FiniteSets, Sequences, SequencesExt

CONSTANTS Usages,     \* the ways of use, a subset of {"direct", "thread"}
          MaxOpens,   \* bound: calls of open
          MaxPlays,   \* bound: calls of play by the application
          MaxLoads,   \* bound: calls of load_subtitle
          CreateFails \* whether pthread_create may fail

ASSUME LifeAssumption ==
  /\ Usages \subseteq {"direct", "thread"} /\ CreateFails \in BOOLEAN
  /\ MaxOpens \in Nat /\ MaxPlays \in Nat /\ MaxLoads \in Nat

Sessions == 1..MaxOpens
NULL == 0

\* The threads of a media, in the order av_start creates them; the decoders
\* touch none of what is freed here before the join, and are left out.
Created == <<"read", "audio", "video">>
Workers == Range(Created)

\* What av_destory has to free.  "demux" is the generic_demux behind
\* demux_context.priv, with its source; "audio" and "video" are the renderers.
Resources == {"avplay", "demux", "codec", "audio", "video"}

Callers == {"app", "player"}

VARIABLES
  usage,
  m_avplay, m_render, m_cur_index, m_cs, \* of player_impl; m_render stands for
                                         \* both m_audio and m_video
  m_plugin, m_change_subtitle, \* the subtitles: a plugin there, a change wanted
  status, abort,      \* of each session's avplay
  live,               \* what is allocated, as <<session, resource>>
  made,               \* how many threads the session's last av_start created
  running, joinable,  \* threads, as <<session, worker>>
  wpc,                \* where each of them is
  pc, ptr,            \* where a caller is, and the avplay it passed on
  opens, plays, loads,
  found,              \* history: the status av_destory found
  twice,              \* history: what was freed twice
  exposed,            \* history: sessions whose threads may outlive them
  carried,            \* history: a wanted subtitle change outlived its plugin
  fault

player == <<m_avplay, m_render, m_cur_index>>
subtitles == <<m_plugin, m_change_subtitle, carried>>
heap == <<live, twice>>
threads == <<made, running, joinable, wpc, exposed>>
callers == <<pc, ptr>>
counts == <<opens, plays, loads>>
vars == <<usage, player, m_cs, subtitles, status, abort, heap, threads, callers, counts,
          found, fault>>

Init ==
  /\ usage \in Usages
  /\ m_avplay = NULL /\ m_render = NULL /\ m_cur_index = -1 /\ m_cs = "free"
  /\ m_plugin = FALSE /\ m_change_subtitle = FALSE
  /\ status = [s \in Sessions |-> "none"] /\ abort = [s \in Sessions |-> FALSE]
  /\ live = {} /\ made = [s \in Sessions |-> 0] /\ running = {} /\ joinable = {}
  /\ wpc = [s \in Sessions |-> [w \in Workers |-> "first"]]
  /\ pc = [t \in Callers |-> IF t = "app" THEN "idle" ELSE "asleep"]
  /\ ptr = [t \in Callers |-> NULL]
  /\ opens = 0 /\ plays = 0 /\ loads = 0
  /\ found = [s \in Sessions |-> "none"] /\ twice = {} /\ exposed = {}
  /\ carried = FALSE /\ fault = "none"

Goto(t, l) == pc' = [pc EXCEPT ![t] = l]
Leave(t, l) == Goto(t, l) /\ ptr' = [ptr EXCEPT ![t] = NULL]
Alive(s) == <<s, "avplay">> \in live

\* The app's thread comes back to its messages; play_thread goes on.
Idle(t) == pc[t] = "idle"
Returned(t, l) == IF t = "app" THEN "idle" ELSE l

Fault(f) ==
  /\ fault' = f
  /\ UNCHANGED <<usage, player, m_cs, subtitles, status, abort, heap, threads, callers,
                 counts, found>>

Free(X) == live' = live \ X /\ twice' = twice \cup (X \ live)

Of(s, R) == {s} \X R
Dir == usage = "direct"

-----------------------------------------------------------------------------
(***************************************************************************)
(* player_impl::open.  With a media open it first calls close, which is    *)
(* Close below; what follows has m_avplay = NULL.                          *)
(***************************************************************************)
MayOpen ==
  /\ Idle("app") /\ m_avplay = NULL /\ opens < MaxOpens
  /\ usage = "thread" => opens = 0
  /\ opens' = opens + 1

\* initialize succeeds and the renderers are made.  main then starts play_thread.
Open ==
  /\ MayOpen
  /\ m_avplay' = opens' /\ m_render' = opens'
  /\ live' = live \cup Of(opens', Resources)
  /\ status' = [status EXCEPT ![opens'] = "inited"]
  /\ pc' = [pc EXCEPT !["player"] = IF Dir THEN @ ELSE "play"]
  /\ UNCHANGED <<usage, m_cur_index, m_cs, subtitles, abort, twice, threads, ptr,
                 plays, loads, found, fault>>

\* initialize fails, and frees what it made; open then frees m_audio and
\* m_video, which are those of an earlier media if there was one.
OldRenderers == IF m_render = NULL THEN {} ELSE Of(m_render, {"audio", "video"})

OpenFails ==
  /\ MayOpen
  /\ Free(OldRenderers)
  /\ UNCHANGED <<usage, player, m_cs, subtitles, status, abort, threads, callers,
                 plays, loads, found, fault>>

-----------------------------------------------------------------------------
(***************************************************************************)
(* player_impl::play and av_start.                                         *)
(***************************************************************************)
Play(t) ==
  /\ \/ t = "app" /\ Idle(t) /\ Dir /\ m_avplay # NULL /\ plays < MaxPlays
     \/ pc[t] = "play"
  /\ IF m_cur_index = 0
       THEN Goto(t, Returned(t, "wait")) /\ UNCHANGED <<ptr, made, exposed, plays, fault>>
       ELSE IF m_avplay = NULL
         THEN fault' = "caller" /\ UNCHANGED <<pc, ptr, made, exposed, plays>>
         ELSE /\ ptr' = [ptr EXCEPT ![t] = m_avplay]
              /\ made' = [made EXCEPT ![m_avplay] = 0]
              /\ exposed' = exposed \cup IF m_cs = "free" THEN {} ELSE {m_avplay}
              /\ plays' = plays + 1
              /\ Goto(t, "create")
              /\ UNCHANGED fault
  /\ UNCHANGED <<usage, player, m_cs, subtitles, status, abort, heap, running, joinable,
                 wpc, opens, loads, found>>

\* pthread_create, for the next of the threads.
Create(t) ==
  LET s == ptr[t]
      w == Created[made[s] + 1]
  IN /\ pc[t] = "create" /\ Alive(s) /\ made[s] < Len(Created)
     /\ made' = [made EXCEPT ![s] = @ + 1]
     /\ running' = running \cup {<<s, w>>}
     /\ joinable' = joinable \cup {<<s, w>>}
     /\ wpc' = [wpc EXCEPT ![s][w] = "first"]
     /\ UNCHANGED <<usage, player, m_cs, subtitles, status, abort, heap, exposed,
                    callers, counts, found, fault>>

\* It fails, and play returns FALSE; the threads made so far run on.
CreateFailed(t) ==
  LET s == ptr[t]
  IN /\ pc[t] = "create" /\ Alive(s) /\ made[s] < Len(Created) /\ CreateFails
     /\ exposed' = exposed \cup {s}
     /\ Leave(t, Returned(t, "wait"))
     /\ UNCHANGED <<usage, player, m_cs, subtitles, status, abort, heap, made, running,
                    joinable, wpc, counts, found, fault>>

Started(t) ==
  /\ pc[t] = "create" /\ Alive(ptr[t]) /\ made[ptr[t]] = Len(Created)
  /\ status' = [status EXCEPT ![ptr[t]] = "playing"]
  /\ m_cur_index' = 0
  /\ Leave(t, Returned(t, "wait"))
  /\ UNCHANGED <<usage, m_avplay, m_render, m_cs, subtitles, abort, heap, threads,
                 counts, found, fault>>

-----------------------------------------------------------------------------
(***************************************************************************)
(* player_impl::wait_for_completion in play_thread, pause, resume, and the *)
(* WM_SIZE handler that resizes the video renderer.  Each looks at         *)
(* m_avplay and what it points to, then uses it, without a lock.           *)
(***************************************************************************)
Wait ==
  /\ pc["player"] = "wait"
  /\ ptr' = [ptr EXCEPT !["player"] = m_avplay]
  /\ Goto("player", IF m_avplay = NULL THEN "close" ELSE "poll")
  /\ UNCHANGED <<usage, player, m_cs, subtitles, status, abort, heap, threads, counts,
                 found, fault>>

Completed(s) == status[s] \notin {"playing", "paused"}

WaitOver ==
  /\ pc["player"] = "poll" /\ Alive(ptr["player"]) /\ Completed(ptr["player"])
  /\ Leave("player", "close")
  /\ UNCHANGED <<usage, player, m_cs, subtitles, status, abort, heap, threads,
                 counts, found, fault>>

\* The checks of the three handlers.
Look(l, ok) ==
  /\ Idle("app") /\ m_avplay # NULL
  /\ IF Alive(m_avplay)
       THEN /\ ok
            /\ ptr' = [ptr EXCEPT !["app"] = m_avplay]
            /\ Goto("app", l)
            /\ UNCHANGED fault
       ELSE fault' = "caller" /\ UNCHANGED callers
  /\ UNCHANGED <<usage, player, m_cs, subtitles, status, abort, heap, threads, counts,
                 found>>

Pause == Look("pausing", m_avplay # NULL /\ status[m_avplay] = "playing")
Resume == Look("resuming", m_avplay # NULL /\ status[m_avplay] = "paused")
Size == Look("resize", <<m_avplay, "video">> \in live)

\* av_pause waits for m_rendering, which is set while a frame is shown.
Rendering(s) == <<s, "video">> \in running /\ wpc[s]["video"] \in {"change", "draw"}

SetStatus(l, st) ==
  /\ pc["app"] = l /\ Alive(ptr["app"])
  /\ status' = [status EXCEPT ![ptr["app"]] = st]
  /\ Leave("app", "idle")
  /\ UNCHANGED <<usage, player, m_cs, subtitles, abort, heap, threads, counts,
                 found, fault>>

PauseSet == SetStatus("pausing", "paused") /\ Rendering(ptr["app"])
ResumeSet == SetStatus("resuming", "playing")

Resized ==
  /\ pc["app"] = "resize" /\ <<m_render, "video">> \in live
  /\ Leave("app", "idle")
  /\ UNCHANGED <<usage, player, m_cs, subtitles, status, abort, heap, threads,
                 counts, found, fault>>

\* A caller inside avplay.c goes on with an avplay that was freed, or the
\* handler with a renderer that was.
UseFreed ==
  \/ /\ \E t \in Callers :
          pc[t] \in {"create", "poll", "pausing", "resuming"} /\ ~Alive(ptr[t])
     /\ Fault("caller")
  \/ /\ pc["app"] = "resize" /\ <<m_render, "video">> \notin live
     /\ Fault("caller")

-----------------------------------------------------------------------------
(***************************************************************************)
(* player_impl::stop, close, av_destory and av_stop.                       *)
(***************************************************************************)
Stop ==
  /\ Idle("app") /\ Dir /\ m_avplay # NULL
  /\ ptr' = [ptr EXCEPT !["app"] = m_avplay]
  /\ abort' = [abort EXCEPT ![m_avplay] = TRUE]
  /\ Goto("app", "join")
  /\ UNCHANGED <<usage, player, m_cs, subtitles, status, heap, threads, counts, found,
                 fault>>

\* Some thread is in av_start with this avplay.
Starting(s) == \E u \in Callers : pc[u] = "create" /\ ptr[u] = s

\* Mutant: close does not take m_cs.
CsFree_Always == TRUE
CsFree == m_cs = "free"

Close(t) ==
  /\ \/ t = "app" /\ Idle(t) /\ (m_avplay # NULL \/ m_plugin)
     \/ pc[t] = "close"
  /\ CsFree
  /\ IF m_avplay # NULL
       THEN /\ m_cs' = t
            /\ ptr' = [ptr EXCEPT ![t] = m_avplay]
            /\ Goto(t, "destory")
            /\ exposed' = exposed \cup IF Starting(m_avplay) THEN {m_avplay} ELSE {}
       ELSE Goto(t, "plugin") /\ UNCHANGED <<m_cs, ptr, exposed>>
  /\ UNCHANGED <<usage, player, subtitles, status, abort, heap, made, running, joinable,
                 wpc, counts, found, fault>>

\* A media that is not playing is only freed.  Mutant: a completed one, too.
IsPlaying_NotCompleted(s) == status[s] \in {"playing", "paused"}
IsPlaying(s) == status[s] \notin {"stoped", "inited"}

Destory(t) ==
  LET s == ptr[t]
  IN /\ pc[t] = "destory" /\ Alive(s)
     /\ found' = [found EXCEPT ![s] = status[s]]
     /\ IF IsPlaying(s)
          THEN abort' = [abort EXCEPT ![s] = TRUE] /\ Goto(t, "demux")
          ELSE Goto(t, "free") /\ UNCHANGED abort
     /\ UNCHANGED <<usage, player, m_cs, subtitles, status, heap, threads, ptr, counts,
                    fault>>

\* generic_destory waits for the demuxer's mutex, which a read holds.
DestoryDemux(t) ==
  LET s == ptr[t]
  IN /\ pc[t] = "demux"
     /\ <<s, "read">> \in running => wpc[s]["read"] # "in"
     /\ Free(Of(s, {"demux"}))
     /\ Goto(t, "join")
     /\ UNCHANGED <<usage, player, m_cs, subtitles, status, abort, threads, ptr, counts,
                    found, fault>>

\* wait_for_threads.  Mutant: the video renderer is not joined.
Joined_NotVideo(s) == Of(s, {"read", "audio"}) \cap running = {}
Joined(s) == Of(s, Workers) \cap running = {}

Join(t) ==
  /\ pc[t] = "join" /\ Joined(ptr[t])
  /\ joinable' = joinable \ Of(ptr[t], Workers)
  /\ Goto(t, "release")
  /\ UNCHANGED <<usage, player, m_cs, subtitles, status, abort, heap, made, running, wpc,
                 exposed, ptr, counts, found, fault>>

\* Mutant: av_stop leaves m_play_status alone.
Stopped_Not(s) == status[s]
Stopped(s) == "stoped"

\* The rest of av_stop: what it finds not to be NULL is freed.
Release(t) ==
  LET s == ptr[t]
  IN /\ pc[t] = "release"
     /\ live' = live \ Of(s, {"codec", "audio", "video"})
     /\ status' = [status EXCEPT ![s] = Stopped(s)]
     /\ IF m_cs = t
          THEN Goto(t, "free") /\ UNCHANGED <<m_cur_index, ptr>>
          ELSE Leave(t, "idle") /\ m_cur_index' = -1
     /\ UNCHANGED <<usage, m_avplay, m_render, m_cs, subtitles, abort, twice, threads,
                    counts, found, fault>>

FreePlay(t) ==
  /\ pc[t] = "free"
  /\ Free(Of(ptr[t], {"avplay"}))
  /\ Goto(t, "null")
  /\ UNCHANGED <<usage, player, m_cs, subtitles, status, abort, threads, ptr, counts,
                 found, fault>>

\* Mutants: m_avplay is not cleared; m_cs is not left.
Avplay_Kept == m_avplay
Avplay == NULL
CsLeft_Not == m_cs
CsLeft == "free"

Cleared(t) ==
  /\ pc[t] = "null"
  /\ m_avplay' = Avplay /\ m_cur_index' = -1 /\ m_cs' = CsLeft
  /\ Leave(t, "plugin")
  /\ UNCHANGED <<usage, m_render, subtitles, status, abort, heap, threads, counts,
                 found, fault>>

PluginDelete(t) ==
  /\ pc[t] = "plugin"
  /\ m_plugin' = FALSE
  /\ carried' = (carried \/ m_change_subtitle)
  /\ Goto(t, Returned(t, "done"))
  /\ UNCHANGED <<usage, player, m_cs, m_change_subtitle, status, abort, heap,
                 threads, ptr, counts, found, fault>>

\* player_impl::load_subtitle, with the name of a file or with none.
LoadSubtitle ==
  /\ Idle("app") /\ loads < MaxLoads
  /\ m_plugin' = TRUE /\ m_change_subtitle' = TRUE
  /\ loads' = loads + 1
  /\ UNCHANGED <<usage, player, m_cs, carried, status, abort, heap, threads, callers,
                 opens, plays, found, fault>>

Caller(t) == \/ Play(t) \/ Create(t) \/ CreateFailed(t) \/ Started(t)
             \/ Close(t) \/ Destory(t) \/ DestoryDemux(t) \/ Join(t) \/ Release(t)
             \/ FreePlay(t) \/ Cleared(t) \/ PluginDelete(t)

-----------------------------------------------------------------------------
(***************************************************************************)
(* The threads of session s.  Any step of theirs uses the avplay.          *)
(***************************************************************************)
At(s, w, l) == <<s, w>> \in running /\ wpc[s][w] = l /\ Alive(s)
WGoto(s, w, l) == wpc' = [wpc EXCEPT ![s][w] = l]

others == <<usage, player, m_cs, abort, made, joinable, exposed, callers, counts, found>>

\* read_pkt_thrd: it tests m_abort, calls the demuxer, and the demuxer reads.
ReadTest(s) ==
  /\ \E l \in {"first", "loop"} : At(s, "read", l)
  /\ ~abort[s]
  /\ WGoto(s, "read", "call")
  /\ UNCHANGED <<others, subtitles, status, heap, running, fault>>

ReadCall(s) ==
  /\ At(s, "read", "call")
  /\ IF <<s, "demux">> \in live
       THEN WGoto(s, "read", "in") /\ UNCHANGED fault
       ELSE fault' = "demuxer" /\ UNCHANGED wpc
  /\ UNCHANGED <<others, subtitles, status, heap, running>>

\* A packet, or the end of the file.
ReadReturn(s) ==
  /\ At(s, "read", "in")
  /\ WGoto(s, "read", "loop")
  /\ \/ status' = [status EXCEPT ![s] = IF @ = "completed" THEN "playing" ELSE @]
     \/ status' = [status EXCEPT ![s] = "completed"]
  /\ UNCHANGED <<others, subtitles, heap, running, fault>>

\* A renderer opens its device with its first frame; it may fail.
RenderInit(s, w) ==
  /\ At(s, w, "first") /\ w # "read" /\ ~abort[s]
  /\ <<s, w>> \in live
  /\ status' = [status EXCEPT ![s] = "playing"] \/ UNCHANGED status
  /\ WGoto(s, w, "loop")
  /\ UNCHANGED <<others, subtitles, heap, running, fault>>

\* draw_frame: a wanted change of the subtitles is made under m_plugin_cs; the
\* plugin is deleted if there is no file or it does not open.
Draw(s) ==
  /\ At(s, "video", "loop") /\ ~abort[s]
  /\ WGoto(s, "video", IF m_change_subtitle THEN "change" ELSE "draw")
  /\ UNCHANGED <<others, subtitles, status, heap, running, fault>>

DrawChange(s) ==
  /\ At(s, "video", "change")
  /\ IF m_plugin
       THEN /\ m_plugin' \in BOOLEAN
            /\ m_change_subtitle' = FALSE
            /\ WGoto(s, "video", "draw")
            /\ UNCHANGED fault
       ELSE fault' = "plugin" /\ UNCHANGED <<m_plugin, m_change_subtitle, wpc>>
  /\ UNCHANGED <<others, carried, status, heap, running>>

Drawn(s) ==
  /\ At(s, "video", "draw")
  /\ WGoto(s, "video", "loop")
  /\ UNCHANGED <<others, subtitles, status, heap, running, fault>>

\* A thread ends on m_abort; the video renderer frees m_vo_ctx, if there is one.
Exit(s, w) ==
  /\ \E l \in {"first", "loop"} : At(s, w, l)
  /\ abort[s]
  /\ running' = running \ {<<s, w>>}
  /\ live' = IF w = "video" THEN live \ {<<s, w>>} ELSE live
  /\ WGoto(s, w, "first")
  /\ UNCHANGED <<others, subtitles, status, twice, fault>>

Outlives(s, w) == <<s, w>> \in running /\ ~Alive(s) /\ Fault("avplay")

Worker(s, w) ==
  \/ w = "read" /\ (ReadTest(s) \/ ReadCall(s) \/ ReadReturn(s))
  \/ w = "video" /\ (Draw(s) \/ DrawChange(s) \/ Drawn(s))
  \/ RenderInit(s, w) \/ Exit(s, w) \/ Outlives(s, w)

Next ==
  /\ fault = "none"
  /\ \/ Open \/ OpenFails \/ LoadSubtitle \/ Stop
     \/ Pause \/ Resume \/ Size \/ PauseSet \/ ResumeSet \/ Resized
     \/ Wait \/ WaitOver \/ UseFreed
     \/ \E t \in Callers : Caller(t)
     \/ \E s \in Sessions, w \in Workers : Worker(s, w)

Spec == Init /\ [][Next]_vars

\* The threads run, and a caller goes on with the call it is in.
Ongoing(t) == ~Idle(t) /\ Caller(t) /\ fault = "none"

Fairness ==
  /\ \A s \in Sessions, w \in Workers : WF_vars(fault = "none" /\ Worker(s, w))
  /\ \A t \in Callers : WF_vars(Ongoing(t))

FairSpec == Spec /\ Fairness

-----------------------------------------------------------------------------
\* The types; what av_destory does is done under m_cs.
TypeOK ==
  /\ usage \in Usages
  /\ m_avplay \in Sessions \cup {NULL} /\ m_render \in Sessions \cup {NULL}
  /\ m_cur_index \in {-1, 0} /\ m_cs \in Callers \cup {"free"}
  /\ \A t \in Callers : pc[t] \in {"destory", "demux", "free", "null"} => m_cs = t
  /\ m_plugin \in BOOLEAN /\ m_change_subtitle \in BOOLEAN
  /\ status \in [Sessions -> {"none", "inited", "playing", "paused", "completed",
                              "stoped"}]
  /\ abort \in [Sessions -> BOOLEAN]
  /\ live \subseteq Sessions \X Resources /\ twice \subseteq Sessions \X Resources
  /\ made \in [Sessions -> 0..Len(Created)]
  /\ running \subseteq Sessions \X Workers /\ joinable \subseteq Sessions \X Workers
  /\ wpc \in [Sessions -> [Workers -> {"first", "loop", "call", "in", "change", "draw"}]]
  /\ pc \in [Callers -> {"asleep", "idle", "play", "create", "wait", "poll", "pausing",
                         "resuming", "resize", "close", "destory", "demux", "join",
                         "release", "free", "null", "plugin", "done"}]
  /\ ptr \in [Callers -> Sessions \cup {NULL}]
  /\ opens \in 0..MaxOpens /\ plays \in 0..MaxPlays + 1 /\ loads \in 0..MaxLoads
  /\ found \in [Sessions -> {"none", "inited", "playing", "paused", "completed", "stoped"}]
  /\ exposed \subseteq Sessions /\ carried \in BOOLEAN
  /\ fault \in {"none", "avplay", "demuxer", "caller", "plugin"}

(***************************************************************************)
(* What it takes for freed memory or a NULL pointer to be used.  A thread  *)
(* finds its avplay freed only if av_start failed after it had created     *)
(* some, or if one thread was in av_start while another one closed:        *)
(* otherwise the status that av_destory goes by, which the reader and the  *)
(* renderers write, too, says truly whether there are threads to wait for  *)
(* ("first wait for the threads to exit, then release the resources",      *)
(* comment at avplay.c:732).  When every call is made by one thread, no    *)
(* call and no message handler uses what was freed.  And draw_frame finds  *)
(* no plugin to change the subtitles with only if a close deleted it while *)
(* a change was still wanted.                                              *)
(***************************************************************************)
FaultsExplained ==
  /\ fault = "avplay" => exposed # {}
  /\ fault = "caller" => usage = "thread"
  /\ fault = "plugin" => carried

(***************************************************************************)
(* Whoever closes, and however often, an avplay, its demuxer and its       *)
(* decoders are freed once: m_cs lets one close at a time see m_avplay.    *)
(***************************************************************************)
AvplayFreedOnce == twice \subseteq Sessions \X {"audio", "video"}

(***************************************************************************)
(* What a media leaves behind when it is closed: nothing if it was         *)
(* playing, paused or completed; its demuxer and source if it was stopped  *)
(* before; all of it if it was never played ("the source is released       *)
(* automatically when read_pkt_thrd exits", comment at player_impl.cpp:    *)
(* 1092).                                                                  *)
(***************************************************************************)
LeftBehind(s) == {r \in Resources : <<s, r>> \in live}

PlayedReleased ==
  \A s \in Sessions :
    found[s] # "none" /\ ~Alive(s) =>
      LeftBehind(s) \subseteq CASE found[s] = "stoped" -> {"demux"}
                                [] found[s] = "inited" -> Resources
                                [] OTHER -> {}

(***************************************************************************)
(* av_stop of a media that plays joins every thread of it, once: each was  *)
(* created and not joined before, unless av_start failed half way.         *)
(***************************************************************************)
JoinsValid ==
  [][\A t \in Callers :
       Join(t) /\ ptr[t] \notin exposed /\ status[ptr[t]] \notin {"inited", "stoped"}
         => Of(ptr[t], Workers) \subseteq joinable]_vars

(***************************************************************************)
(* close returns: the demuxer's mutex and the threads it waits for are     *)
(* released, and the other closer, too.                                    *)
(***************************************************************************)
CloseReturns ==
  \A t \in Callers :
    (pc[t] \in {"close", "destory"}) ~> (pc[t] \in {"idle", "done"} \/ fault # "none")

(***************************************************************************)
(* m_avplay is cleared "so that the next open does not go wrong" (comment  *)
(* at player_impl.cpp:1091): no close and no open frees twice.             *)
(***************************************************************************)
RenderersFreedOnce == twice = {}
=============================================================================
