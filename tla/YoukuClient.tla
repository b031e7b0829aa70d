----------------------------- MODULE YoukuClient -----------------------------
(***************************************************************************)
(* The youku downloader of libyk/youku_impl.cpp.  A video is a sequence of *)
(* clips; an io thread runs the handlers of one io_service and downloads   *)
(* them one after the other through m_multi_http.  Callers of the public   *)
(* operations post a handler that refers to their stack, and wait on a     *)
(* condition for it without a predicate.                                   *)
(*                                                                         *)
(* Each download is followed by a chain of check handlers: the callback of *)
(* its start, then a timer that is armed again and again.  change_download *)
(* starts a chain of its own beside the one there is.                      *)
(*                                                                         *)
(* avhttp's multi_download and the network are outside of the repository;  *)
(* what they may do is modelled from how youku_impl uses them.             *)
(***************************************************************************)
EXTENDS Integers, Sequences

CONSTANTS NClips,     \* the clips of the video
          Callers,    \* the threads that call the public operations
          MaxCalls,   \* bound: calls made
          MaxChanges, \* bound: calls of change_download among them
          MaxErrors   \* bound: errors of the network

ASSUME YoukuAssumption ==
  /\ NClips \in Nat \ {0} /\ MaxCalls \in Nat /\ MaxChanges \in Nat /\ MaxErrors \in Nat

Clips == 0..NClips - 1
NONE == -1

VARIABLES
  m_current_index, state, m_abort,
  m_multi_http,   \* the clip that the present download is of
  dl,             \* the download: "starting", "running", "done", "broken"
  stopped,        \* stopped downloads whose start has yet to call back
  armed,          \* m_timer has a wait pending
  queue,          \* the handlers that are ready, in the order they run
  io,             \* io_service_thread: "run", "test" m_abort, "exit"
  pc,             \* callers: "idle", "posted" (m_mutex held), "asleep"
  calls, errors,
  missed,         \* history: callers notified before they waited
  changed,        \* history: change_download took effect
  downloaded      \* history: clips that were downloaded to their end

download == <<m_current_index, state, m_multi_http, dl, stopped, armed>>
callers == <<pc, calls>>
history == <<missed, changed, downloaded>>
vars == <<download, m_abort, queue, io, callers, errors, history>>

\* Handlers: of the callers' operations, and handle_check_download.
Call(op, c, i) == [op |-> op, caller |-> c, index |-> i]
CheckH(ec) == [op |-> IF ec THEN "check_ec" ELSE "check", caller |-> NONE, index |-> NONE]

-----------------------------------------------------------------------------
(***************************************************************************)
(* async_request_youku, from index on, with the clips as they are in st.   *)
(* It is the rest of a handler that was taken from the queue.  The present *)
(* download is stopped; a start that was pending calls back with an error. *)
(***************************************************************************)
Wanted(index, st) == {i \in Clips : i >= index /\ st[i] # "complete"}

Request(index, st, rest) ==
  /\ queue' = rest
  /\ \/ /\ Wanted(index, st) = {}
        /\ m_current_index' = index /\ state' = st
        /\ UNCHANGED <<m_multi_http, dl, stopped>>
     \/ \E i \in Wanted(index, st) :
          /\ \A j \in Wanted(index, st) : i <= j
          /\ m_current_index' = i
          /\ state' = [st EXCEPT ![i] = "start"]
          /\ m_multi_http' = i /\ dl' = "starting"
          /\ stopped' = stopped + (IF dl = "starting" THEN 1 ELSE 0)

\* open has made the first request and started the io thread.
Init ==
  /\ m_current_index = 0 /\ m_abort = FALSE
  /\ state = [i \in Clips |-> IF i = 0 THEN "start" ELSE "init"]
  /\ m_multi_http = 0 /\ dl = "starting" /\ stopped = 0 /\ armed = FALSE
  /\ queue = <<>> /\ io = "run"
  /\ pc = [c \in Callers |-> "idle"] /\ calls = 0 /\ errors = 0
  /\ missed = {} /\ changed = FALSE /\ downloaded = {}

-----------------------------------------------------------------------------
(***************************************************************************)
(* multi_download and the timer.                                           *)
(***************************************************************************)
StartCallback ==
  /\ dl = "starting"
  /\ \E ec \in BOOLEAN :
       /\ ec => errors < MaxErrors
       /\ errors' = errors + (IF ec THEN 1 ELSE 0)
       /\ dl' = IF ec THEN "broken" ELSE "running"
       /\ queue' = Append(queue, CheckH(ec))
  /\ UNCHANGED <<m_current_index, state, m_multi_http, stopped, armed, m_abort, io,
                 callers, history>>

StoppedCallback ==
  /\ stopped > 0
  /\ stopped' = stopped - 1
  /\ queue' = Append(queue, CheckH(TRUE))
  /\ UNCHANGED <<m_current_index, state, m_multi_http, dl, armed, m_abort, io, callers,
                 errors, history>>

DownloadEnds ==
  /\ dl = "running"
  /\ \/ dl' = "done" /\ downloaded' = downloaded \cup {m_multi_http}
        /\ UNCHANGED errors
     \/ dl' = "broken" /\ errors < MaxErrors /\ errors' = errors + 1
        /\ UNCHANGED downloaded
  /\ UNCHANGED <<m_current_index, state, m_multi_http, stopped, armed, m_abort, queue,
                 io, callers, missed, changed>>

TimerExpires ==
  /\ armed
  /\ armed' = FALSE
  /\ queue' = Append(queue, CheckH(FALSE))
  /\ UNCHANGED <<m_current_index, state, m_multi_http, dl, stopped, m_abort, io, callers,
                 errors, history>>

-----------------------------------------------------------------------------
(***************************************************************************)
(* io_service_thread.                                                      *)
(***************************************************************************)
Runs(op) == io = "run" /\ queue # <<>> /\ Head(queue).op = op

\* handle_check_download with an error: of the network, of a download that was
\* stopped, or of a timer that was set anew.
\* Mutant: it does not return, and goes on to set the timer.
ArmedAfterError_NoReturn == TRUE
ArmedAfterError == armed

CheckError ==
  /\ Runs("check_ec")
  /\ Request(m_current_index, state, Tail(queue))
  /\ armed' = ArmedAfterError
  /\ io' = "test"
  /\ UNCHANGED <<m_abort, callers, errors, history>>

\* The download has stopped: the clip is complete, or goes on being wanted.
\* Mutant: the comparison of the sizes is turned round.
Outcome_Swapped == IF dl = "done" THEN "stop" ELSE "complete"
Outcome == IF dl = "done" THEN "complete" ELSE "stop"

CheckStopped ==
  /\ Runs("check") /\ dl \in {"done", "broken"}
  /\ Request(m_current_index, [state EXCEPT ![m_current_index] = Outcome], Tail(queue))
  /\ io' = "test"
  /\ UNCHANGED <<armed, m_abort, callers, errors, history>>

\* It goes on: expires_from_now aborts a wait that is pending.
\* Mutant: the timer is not set.
Armed_Not == FALSE
Armed == TRUE

CheckRunning ==
  /\ Runs("check") /\ dl \in {"starting", "running"}
  /\ queue' = IF armed THEN Append(Tail(queue), CheckH(TRUE)) ELSE Tail(queue)
  /\ armed' = Armed
  /\ io' = "test"
  /\ UNCHANGED <<m_current_index, state, m_multi_http, dl, stopped, m_abort, callers,
                 errors, history>>

\* notify_one, without m_mutex: a caller that does not wait yet misses it.
\* Mutant: a waiting caller is not notified.
Notified_Not(c) == pc
Notified(c) == [pc EXCEPT ![c] = IF @ = "asleep" THEN "idle" ELSE @]

Notify(c) ==
  /\ pc' = Notified(c)
  /\ missed' = IF pc[c] = "posted" THEN missed \cup {c} ELSE missed

\* handle_read_data and handle_read_seek leave the download alone.
HandleRead ==
  /\ Runs("read") \/ Runs("seek")
  /\ queue' = Tail(queue)
  /\ Notify(Head(queue).caller)
  /\ io' = "test"
  /\ UNCHANGED <<download, m_abort, calls, errors, changed, downloaded>>

HandleChange ==
  /\ Runs("change")
  /\ Request(Head(queue).index, state, Tail(queue))
  /\ Notify(Head(queue).caller)
  /\ changed' = TRUE
  /\ io' = "test"
  /\ UNCHANGED <<armed, m_abort, calls, errors, downloaded>>

\* Mutant: the io thread does not look at m_abort.
AfterHandler_NoTest == "run"
AfterHandler == IF m_abort THEN "exit" ELSE "run"

IoTest ==
  /\ io = "test"
  /\ io' = AfterHandler
  /\ UNCHANGED <<download, m_abort, queue, callers, errors, history>>

\* With no work left the io_service stops, and the thread ends.
OutOfWork ==
  /\ io = "run" /\ queue = <<>> /\ ~armed /\ stopped = 0 /\ dl \notin {"starting", "running"}
  /\ io' = "exit"
  /\ UNCHANGED <<download, m_abort, queue, callers, errors, history>>

IoThread == CheckError \/ CheckStopped \/ CheckRunning \/ HandleRead \/ HandleChange
            \/ IoTest \/ OutOfWork

-----------------------------------------------------------------------------
(***************************************************************************)
(* read_data, read_seek and change_download in a caller: it takes m_mutex, *)
(* posts its handler, and waits.                                           *)
(***************************************************************************)
MutexFree == \A c \in Callers : pc[c] # "posted"

Post(c, h) ==
  /\ pc[c] = "idle" /\ MutexFree /\ calls < MaxCalls
  /\ queue' = Append(queue, h)
  /\ pc' = [pc EXCEPT ![c] = "posted"]
  /\ calls' = calls + 1
  /\ UNCHANGED <<download, m_abort, io, errors, history>>

ReadData(c) == ~m_abort /\ Post(c, Call("read", c, NONE))
ReadSeek(c) == Post(c, Call("seek", c, NONE))

ChangeDownload(c) ==
  \E i \in Clips : i # m_current_index /\ calls < MaxChanges /\ Post(c, Call("change", c, i))

Sleep(c) ==
  /\ pc[c] = "posted"
  /\ pc' = [pc EXCEPT ![c] = "asleep"]
  /\ UNCHANGED <<download, m_abort, queue, io, calls, errors, history>>

Stop ==
  /\ ~m_abort
  /\ m_abort' = TRUE
  /\ UNCHANGED <<download, queue, io, callers, errors, history>>

Network == StartCallback \/ StoppedCallback \/ DownloadEnds \/ TimerExpires

Next ==
  \/ Network \/ IoThread \/ Stop
  \/ \E c \in Callers : ReadData(c) \/ ReadSeek(c) \/ ChangeDownload(c) \/ Sleep(c)

Spec == Init /\ [][Next]_vars

\* The io thread runs, starts call back, downloads end, the timer expires, and
\* a caller that posted goes on to wait.
Fairness ==
  /\ WF_vars(IoThread) /\ WF_vars(StartCallback) /\ WF_vars(StoppedCallback)
  /\ WF_vars(DownloadEnds) /\ WF_vars(TimerExpires)
  /\ \A c \in Callers : WF_vars(Sleep(c))

FairSpec == Spec /\ Fairness

-----------------------------------------------------------------------------
Handler ==
  {h \in [op : {"read", "seek", "change", "check", "check_ec"},
          caller : Callers \cup {NONE}, index : Clips \cup {NONE}] :
     /\ h.op \in {"read", "seek", "change"} => h.caller \in Callers
     /\ h.op = "change" => h.index \in Clips}

\* The types.
TypeOK ==
  /\ m_current_index \in Clips /\ m_abort \in BOOLEAN
  /\ state \in [Clips -> {"init", "start", "stop", "complete"}]
  /\ m_multi_http \in Clips /\ dl \in {"starting", "running", "done", "broken"}
  /\ stopped \in Nat /\ armed \in BOOLEAN
  /\ queue \in Seq(Handler)
  /\ io \in {"run", "test", "exit"} /\ pc \in [Callers -> {"idle", "posted", "asleep"}]
  /\ calls \in 0..MaxCalls /\ errors \in 0..MaxErrors
  /\ missed \subseteq Callers /\ changed \in BOOLEAN /\ downloaded \subseteq Clips

(***************************************************************************)
(* A clip is marked complete only if it was downloaded to its end, although*)
(* handle_check_download marks the clip of m_current_index, whichever      *)
(* download it is that has stopped.                                        *)
(***************************************************************************)
CompleteMeansDownloaded == \A i \in Clips : state[i] = "complete" => i \in downloaded

(***************************************************************************)
(* A download that runs is given up for another only after a call of       *)
(* change_download: a single chain of checks never restarts it.            *)
(***************************************************************************)
OnlyChangeInterrupts == [][dl = "running" /\ dl' = "starting" => changed']_vars

(***************************************************************************)
(* A call returns, unless its notification came before it waited, the      *)
(* client is stopped, or the io thread has run out of work and ended.      *)
(***************************************************************************)
CallsReturn ==
  \A c \in Callers :
    (pc[c] # "idle") ~> (pc[c] = "idle" \/ c \in missed \/ m_abort \/ io = "exit")

(***************************************************************************)
(* stop returns: the io thread ends, whatever it waits for.                *)
(***************************************************************************)
StopReturns == m_abort ~> (io = "exit")

(***************************************************************************)
(* Left alone, every clip is downloaded, although downloads break off.     *)
(***************************************************************************)
AllDownloaded == <>(m_abort \/ changed \/ \A i \in Clips : state[i] = "complete")
=============================================================================
