---------------------------- MODULE YoukuProofs ----------------------------
(***************************************************************************)
(* Theorems about YoukuClient, for any number of clips, of callers and of  *)
(* calls.                                                                  *)
(***************************************************************************)
EXTENDS YoukuClient, TLAPS

USE DEF Clips, NONE

(***************************************************************************)
(* What makes CompleteMeansDownloaded inductive: handle_check_download     *)
(* marks the clip of m_current_index, which is the clip of the present     *)
(* download or one that is complete already (a change to a clip behind     *)
(* which there is nothing left moves the index and no download).           *)
(***************************************************************************)
Downloads ==
  /\ CompleteMeansDownloaded
  /\ dl = "done" => m_multi_http \in downloaded
  /\ m_current_index = m_multi_http \/ state[m_current_index] = "complete"

\* The check handlers that are ready to run.
Checks == {k \in 1..Len(queue) : queue[k].op \in {"check", "check_ec"}}

(***************************************************************************)
(* Until change_download starts a second one there is one chain of checks: *)
(* a start that will call back, a timer, or a handler that is ready, and   *)
(* an error only after the download broke off.                             *)
(***************************************************************************)
Chain ==
  ~changed =>
    /\ stopped = 0
    /\ dl = "starting" => ~armed /\ Checks = {}
    /\ armed => Checks = {}
    /\ \A k, l \in Checks : k = l
    /\ \A k \in Checks : queue[k].op = "check_ec" => dl = "broken"

IInv == TypeOK /\ Downloads /\ Chain

USE YoukuAssumption

\* open's first request.
LEMMA IInvInit == Init => IInv
<1> SUFFICES ASSUME Init PROVE IInv
  OBVIOUS
<1> USE DEF Init
<1>1. TypeOK
  <2>1. 0 \in Clips /\ queue \in Seq(Handler)
    OBVIOUS
  <2>2. state \in [Clips -> {"init", "start", "stop", "complete"}]
    OBVIOUS
  <2>3. pc \in [Callers -> {"idle", "posted", "asleep"}]
    OBVIOUS
  <2>4. calls \in 0..MaxCalls /\ errors \in 0..MaxErrors
    OBVIOUS
  <2> QED
    BY <2>1, <2>2, <2>3, <2>4 DEF TypeOK
<1>2. Downloads
  BY DEF Downloads, CompleteMeansDownloaded
<1>3. Chain
  BY DEF Chain, Checks
<1> QED
  BY <1>1, <1>2, <1>3 DEF IInv

\* What the queue looks like after its first handler was taken.
LEMMA TailChecks ==
  ASSUME TypeOK, queue # <<>>, queue' = Tail(queue)
  PROVE  /\ queue' \in Seq(Handler)
         /\ Head(queue) \in Handler
         /\ \A k \in Checks' : k + 1 \in Checks /\ queue'[k] = queue[k + 1]
         /\ Head(queue).op \in {"check", "check_ec"} => 1 \in Checks
<1> USE DEF TypeOK
<1>1. queue' \in Seq(Handler) /\ Head(queue) \in Handler /\ Head(queue) = queue[1]
  BY SMT
<1>2. Len(queue') = Len(queue) - 1 /\ Len(queue) \in Nat \ {0}
  BY SMT
<1>3. \A k \in 1..Len(queue') : queue'[k] = queue[k + 1]
  BY SMT
<1> QED
  BY <1>1, <1>2, <1>3 DEF Checks

\* And after one was added.
LEMMA AppendChecks ==
  ASSUME TypeOK, NEW h \in Handler, queue' = Append(queue, h)
  PROVE  /\ queue' \in Seq(Handler)
         /\ Checks' = Checks \cup (IF h.op \in {"check", "check_ec"}
                                    THEN {Len(queue) + 1} ELSE {})
         /\ queue'[Len(queue) + 1] = h
         /\ \A k \in Checks : k # Len(queue) + 1 /\ queue'[k] = queue[k]
<1> USE DEF TypeOK
<1>1. /\ queue' \in Seq(Handler) /\ Len(queue') = Len(queue) + 1 /\ Len(queue) \in Nat
      /\ queue'[Len(queue) + 1] = h
  BY SMT
<1>2. \A k \in 1..Len(queue) : queue'[k] = queue[k]
  BY SMT
<1> QED
  BY <1>1, <1>2 DEF Checks

\* The handlers that the io thread and the timer make.
LEMMA CheckIsHandler == \A ec \in BOOLEAN :
  /\ CheckH(ec) \in Handler
  /\ CheckH(ec).op = IF ec THEN "check_ec" ELSE "check"
  BY DEF CheckH, Handler

(***************************************************************************)
(* async_request_youku keeps the types and the agreement of index and      *)
(* download, whatever the handler that calls it made of the clips.         *)
(***************************************************************************)
LEMMA RequestKeeps ==
  ASSUME TypeOK, Downloads,
         NEW index \in Clips, NEW st \in [Clips -> {"init", "start", "stop", "complete"}],
         NEW rest, Request(index, st, rest), downloaded' = downloaded,
         \A i \in Clips : st[i] = "complete" => i \in downloaded,
         dl = "done" => m_multi_http \in downloaded
  PROVE  /\ m_current_index' \in Clips /\ m_multi_http' \in Clips
         /\ state' \in [Clips -> {"init", "start", "stop", "complete"}]
         /\ dl' \in {"starting", "running", "done", "broken"} /\ stopped' \in Nat
         /\ queue' = rest
         /\ Downloads'
<1> USE DEF TypeOK, Downloads, CompleteMeansDownloaded, Wanted
<1>1. CASE Wanted(index, st) = {} /\ m_current_index' = index /\ state' = st
           /\ UNCHANGED <<m_multi_http, dl, stopped>>
  BY <1>1 DEF Request
<1>2. CASE \E i \in Wanted(index, st) :
             /\ m_current_index' = i /\ state' = [st EXCEPT ![i] = "start"]
             /\ m_multi_http' = i /\ dl' = "starting"
             /\ stopped' = stopped + (IF dl = "starting" THEN 1 ELSE 0)
  <2>1. PICK i \in Clips :
             /\ m_current_index' = i /\ state' = [st EXCEPT ![i] = "start"]
             /\ m_multi_http' = i /\ dl' = "starting"
             /\ stopped' = stopped + (IF dl = "starting" THEN 1 ELSE 0)
    BY <1>2
  <2>2. stopped' \in Nat
    BY <2>1
  <2>3. \A j \in Clips : state'[j] = "complete" => j \in downloaded'
    BY <2>1
  <2>4. state' \in [Clips -> {"init", "start", "stop", "complete"}]
    BY <2>1
  <2> QED
    BY <2>1, <2>2, <2>3, <2>4 DEF Request
<1> QED
  BY <1>1, <1>2 DEF Request

(***************************************************************************)
(* And the chain: it is called by the one check handler there was.         *)
(***************************************************************************)
LEMMA RequestChain ==
  ASSUME TypeOK, Chain, ~changed, 1 \in Checks, queue # <<>>,
         NEW index, NEW st, Request(index, st, Tail(queue)), armed' = armed
  PROVE  Chain'
<1>1. Checks' = {}
  <2>1. queue' = Tail(queue)
    BY DEF Request
  <2>2. \A k \in Checks' : k + 1 \in Checks /\ k \in 1..Len(queue')
    BY <2>1, TailChecks DEF Checks
  <2>3. \A k \in Checks : k = 1
    BY DEF Chain
  <2> QED
    BY <2>2, <2>3, SMT
<1>2. stopped' = 0 /\ ~armed
  BY DEF Request, Chain
<1> QED
  BY <1>1, <1>2 DEF Chain

\* The network and the timer.
LEMMA IInvNetwork == IInv /\ Network => IInv'
<1> SUFFICES ASSUME IInv, Network PROVE IInv'
  OBVIOUS
<1> USE DEF IInv, Downloads, CompleteMeansDownloaded, callers, history
<1>1. CASE StartCallback
  <2>1. PICK ec \in BOOLEAN :
          /\ ec => errors < MaxErrors
          /\ errors' = errors + (IF ec THEN 1 ELSE 0)
          /\ dl' = IF ec THEN "broken" ELSE "running"
          /\ queue' = Append(queue, CheckH(ec))
    BY <1>1 DEF StartCallback
  <2>2. /\ queue' \in Seq(Handler)
        /\ Checks' = Checks \cup {Len(queue) + 1}
        /\ queue'[Len(queue) + 1] = CheckH(ec)
    BY <2>1, CheckIsHandler, AppendChecks
  <2>3. TypeOK'
    BY <1>1, <2>1, <2>2 DEF StartCallback, TypeOK
  <2>4. Chain'
    BY <1>1, <2>1, <2>2, CheckIsHandler DEF StartCallback, Chain
  <2> QED
    BY <1>1, <2>1, <2>3, <2>4 DEF StartCallback
<1>2. CASE StoppedCallback
  <2>1. queue' \in Seq(Handler)
    BY <1>2, CheckIsHandler, AppendChecks DEF StoppedCallback
  <2>2. TypeOK'
    <3>1. stopped' \in Nat
      BY <1>2 DEF StoppedCallback, TypeOK
    <3>2. UNCHANGED <<m_current_index, state, m_multi_http, dl, armed, m_abort, io, pc, calls,
                      errors, missed, changed, downloaded>>
      BY <1>2 DEF StoppedCallback
    <3> QED
      BY <2>1, <3>1, <3>2 DEF TypeOK
  <2>3. Chain'
    BY <1>2 DEF StoppedCallback, Chain, TypeOK
  <2> QED
    BY <1>2, <2>2, <2>3 DEF StoppedCallback
<1>3. CASE DownloadEnds
  <2>1. TypeOK'
    BY <1>3 DEF DownloadEnds, TypeOK
  <2>2. Chain'
    BY <1>3 DEF DownloadEnds, Chain, Checks
  <2> QED
    BY <1>3, <2>1, <2>2 DEF DownloadEnds
<1>4. CASE TimerExpires
  <2>1. /\ queue' \in Seq(Handler)
        /\ Checks' = Checks \cup {Len(queue) + 1}
        /\ queue'[Len(queue) + 1] = CheckH(FALSE)
    BY <1>4, CheckIsHandler, AppendChecks DEF TimerExpires
  <2>2. TypeOK'
    BY <1>4, <2>1 DEF TimerExpires, TypeOK
  <2>3. CheckH(FALSE).op = "check"
    BY CheckIsHandler
  <2>4. Chain'
    <3>1. ~changed => Checks' = {Len(queue) + 1} /\ dl # "starting" /\ stopped = 0
      BY <1>4, <2>1 DEF TimerExpires, Chain
    <3> QED
      BY <1>4, <2>1, <2>3, <3>1 DEF TimerExpires, Chain
  <2> QED
    BY <1>4, <2>2, <2>4 DEF TimerExpires
<1> QED
  BY <1>1, <1>2, <1>3, <1>4 DEF Network

\* The handlers, and the end of the io thread.
LEMMA IInvIoThread == IInv /\ IoThread => IInv'
<1> SUFFICES ASSUME IInv, IoThread PROVE IInv'
  OBVIOUS
<1> USE DEF IInv, callers, history, download
<1>0. ASSUME NEW op, Runs(op)
      PROVE  /\ queue # <<>> /\ Head(queue).op = op /\ Head(queue) \in Handler
             /\ Tail(queue) \in Seq(Handler)
             /\ op \in {"check", "check_ec"} => 1 \in Checks
  <2>1. queue # <<>> /\ queue \in Seq(Handler) /\ Head(queue).op = op
    BY <1>0 DEF Runs, TypeOK
  <2>2. /\ Head(queue) = queue[1] /\ 1 \in 1..Len(queue)
        /\ Head(queue) \in Handler /\ Tail(queue) \in Seq(Handler)
    BY <2>1, SMT
  <2> QED
    BY <2>1, <2>2 DEF Checks
<1>1. CASE CheckError
  <2>1. /\ TypeOK /\ m_current_index \in Clips
        /\ state \in [Clips -> {"init", "start", "stop", "complete"}]
        /\ \A i \in Clips : state[i] = "complete" => i \in downloaded
        /\ dl = "done" => m_multi_http \in downloaded
        /\ downloaded' = downloaded
        /\ Request(m_current_index, state, Tail(queue)) /\ armed' = armed
    BY <1>1 DEF CheckError, ArmedAfterError, TypeOK, Downloads, CompleteMeansDownloaded
  <2>2. Runs("check_ec")
    BY <1>1 DEF CheckError
  <2>3. /\ m_current_index' \in Clips /\ m_multi_http' \in Clips
        /\ state' \in [Clips -> {"init", "start", "stop", "complete"}]
        /\ dl' \in {"starting", "running", "done", "broken"} /\ stopped' \in Nat
        /\ queue' = Tail(queue) /\ Downloads'
    BY <2>1, RequestKeeps
  <2>4. TypeOK'
    BY <1>0, <1>1, <2>2, <2>3 DEF CheckError, ArmedAfterError, TypeOK
  <2>5. Chain'
    <3>1. CASE changed
      BY <1>1, <3>1 DEF CheckError, Chain
    <3>2. CASE ~changed
      BY <1>0, <2>1, <2>2, <3>2, RequestChain
    <3> QED
      BY <3>1, <3>2
  <2> QED
    BY <2>3, <2>4, <2>5
<1>2. CASE CheckStopped
  <2> DEFINE st == [state EXCEPT ![m_current_index] = Outcome]
  <2>1. /\ TypeOK /\ m_current_index \in Clips
        /\ st \in [Clips -> {"init", "start", "stop", "complete"}]
        /\ dl = "done" => m_multi_http \in downloaded
        /\ downloaded' = downloaded
        /\ Request(m_current_index, st, Tail(queue)) /\ armed' = armed
    BY <1>2 DEF CheckStopped, Outcome, TypeOK, Downloads
  <2>2. \A i \in Clips : st[i] = "complete" => i \in downloaded
    BY <1>2 DEF Outcome, TypeOK, Downloads, CompleteMeansDownloaded
  <2>3. Runs("check")
    BY <1>2 DEF CheckStopped
  <2> HIDE DEF st
  <2>4. /\ m_current_index' \in Clips /\ m_multi_http' \in Clips
        /\ state' \in [Clips -> {"init", "start", "stop", "complete"}]
        /\ dl' \in {"starting", "running", "done", "broken"} /\ stopped' \in Nat
        /\ queue' = Tail(queue) /\ Downloads'
    BY <2>1, <2>2, RequestKeeps
  <2>5. TypeOK'
    BY <1>0, <1>2, <2>3, <2>4 DEF CheckStopped, TypeOK
  <2>6. Chain'
    <3>1. CASE changed
      BY <1>2, <3>1 DEF CheckStopped, Chain
    <3>2. CASE ~changed
      BY <1>0, <2>1, <2>3, <3>2, RequestChain
    <3> QED
      BY <3>1, <3>2
  <2> QED
    BY <2>4, <2>5, <2>6
<1>3. CASE CheckRunning
  <2>1. Runs("check")
    BY <1>3 DEF CheckRunning
  <2>2. Tail(queue) \in Seq(Handler) /\ 1 \in Checks /\ queue # <<>>
    BY <1>0, <2>1
  <2>3. queue' \in Seq(Handler)
    <3>1. CheckH(TRUE) \in Handler
      BY CheckIsHandler
    <3>2. queue' = Append(Tail(queue), CheckH(TRUE)) \/ queue' = Tail(queue)
      BY <1>3 DEF CheckRunning
    <3>3. \A q \in Seq(Handler), h \in Handler : Append(q, h) \in Seq(Handler)
      OBVIOUS
    <3> QED
      BY <2>2, <3>1, <3>2, <3>3
  <2>4. TypeOK'
    BY <1>3, <2>3 DEF CheckRunning, Armed, TypeOK
  <2>5. Chain'
    <3>1. CASE changed
      BY <1>3, <3>1 DEF CheckRunning, Chain
    <3>2. CASE ~changed
      <4>1. ~armed /\ dl = "running" /\ stopped = 0 /\ \A k \in Checks : k = 1
        BY <1>3, <2>2, <3>2 DEF CheckRunning, Chain
      <4>2. queue' = Tail(queue)
        BY <1>3, <4>1 DEF CheckRunning
      <4>3. \A k \in Checks' : k + 1 \in Checks /\ k \in 1..Len(queue')
        BY <2>2, <4>2, TailChecks DEF Checks
      <4>4. Checks' = {}
        BY <4>1, <4>3, SMT
      <4> QED
        BY <1>3, <4>1, <4>4 DEF CheckRunning, Chain
    <3> QED
      BY <3>1, <3>2
  <2> QED
    BY <1>3, <2>4, <2>5 DEF CheckRunning, Downloads, CompleteMeansDownloaded
<1>4. CASE HandleRead
  <2>1. PICK op \in {"read", "seek"} : Runs(op)
    BY <1>4 DEF HandleRead
  <2>2. /\ Tail(queue) \in Seq(Handler) /\ queue # <<>> /\ queue' = Tail(queue)
        /\ Head(queue).caller \in Callers /\ Head(queue).op \notin {"check", "check_ec"}
    BY <1>0, <1>4, <2>1 DEF HandleRead, Handler
  <2>3. TypeOK'
    BY <1>4, <2>2 DEF HandleRead, Notify, Notified, TypeOK
  <2>4. Chain'
    <3>1. \A k \in Checks' : k + 1 \in Checks /\ queue'[k] = queue[k + 1] /\ k \in Nat
      BY <2>2, TailChecks DEF Checks
    <3>2. /\ Checks = {} => Checks' = {}
          /\ (\A k, l \in Checks : k = l) => \A k, l \in Checks' : k = l
      BY <3>1
    <3> QED
      BY <1>4, <3>1, <3>2 DEF HandleRead, Chain
  <2> QED
    BY <1>4, <2>3, <2>4 DEF HandleRead, Downloads, CompleteMeansDownloaded
<1>5. CASE HandleChange
  <2>1. Runs("change")
    BY <1>5 DEF HandleChange
  <2>2. Tail(queue) \in Seq(Handler) /\ Head(queue).caller \in Callers /\ Head(queue).index \in Clips
    BY <1>0, <2>1 DEF Handler
  <2>3. /\ TypeOK
        /\ state \in [Clips -> {"init", "start", "stop", "complete"}]
        /\ \A i \in Clips : state[i] = "complete" => i \in downloaded
        /\ dl = "done" => m_multi_http \in downloaded
        /\ downloaded' = downloaded
        /\ Request(Head(queue).index, state, Tail(queue))
    BY <1>5 DEF HandleChange, TypeOK, Downloads, CompleteMeansDownloaded
  <2>4. /\ m_current_index' \in Clips /\ m_multi_http' \in Clips
        /\ state' \in [Clips -> {"init", "start", "stop", "complete"}]
        /\ dl' \in {"starting", "running", "done", "broken"} /\ stopped' \in Nat
        /\ queue' = Tail(queue) /\ Downloads'
    BY <2>2, <2>3, RequestKeeps
  <2>5. TypeOK'
    BY <1>5, <2>2, <2>4 DEF HandleChange, Notify, Notified, TypeOK
  <2>6. Chain'
    BY <1>5 DEF HandleChange, Chain
  <2> QED
    BY <2>4, <2>5, <2>6
<1>6. CASE IoTest \/ OutOfWork
  <2>1. TypeOK'
    BY <1>6 DEF IoTest, OutOfWork, AfterHandler, TypeOK
  <2>2. Downloads' /\ Chain'
    BY <1>6 DEF IoTest, OutOfWork, Downloads, CompleteMeansDownloaded, Chain, Checks
  <2> QED
    BY <2>1, <2>2
<1> QED
  BY <1>1, <1>2, <1>3, <1>4, <1>5, <1>6 DEF IoThread

\* The callers.
LEMMA IInvCallers ==
  IInv /\ (Stop \/ \E c \in Callers : ReadData(c) \/ ReadSeek(c) \/ ChangeDownload(c) \/ Sleep(c))
    => IInv'
<1> USE DEF callers, history, download
<1>1. ASSUME IInv, NEW c \in Callers, NEW h \in Handler, Post(c, h),
             h.op \notin {"check", "check_ec"}
      PROVE  IInv'
  <2>1. queue' \in Seq(Handler) /\ Checks' = Checks /\ \A k \in Checks : queue'[k] = queue[k]
    BY <1>1, AppendChecks DEF Post, IInv
  <2>2. TypeOK'
    BY <1>1, <2>1 DEF Post, IInv, TypeOK
  <2>3. Downloads' /\ Chain'
    BY <1>1, <2>1 DEF Post, IInv, Downloads, CompleteMeansDownloaded, Chain
  <2> QED
    BY <2>2, <2>3 DEF IInv
<1>2. ASSUME NEW c \in Callers, NEW i \in Clips, NEW op \in {"read", "seek", "change"}
      PROVE  /\ Call(op, c, i) \in Handler /\ Call(op, c, i).op \notin {"check", "check_ec"}
             /\ op # "change" => /\ Call(op, c, NONE) \in Handler
                                 /\ Call(op, c, NONE).op \notin {"check", "check_ec"}
  BY DEF Call, Handler
<1>3. ASSUME IInv, NEW c \in Callers, ReadData(c) \/ ReadSeek(c)
      PROVE  IInv'
  <2>1. 0 \in Clips
    OBVIOUS
  <2> QED
    BY <1>1, <1>2, <1>3, <2>1 DEF ReadData, ReadSeek
<1>4. ASSUME IInv, NEW c \in Callers, ChangeDownload(c)
      PROVE  IInv'
  <2>1. PICK i \in Clips : Post(c, Call("change", c, i))
    BY <1>4 DEF ChangeDownload
  <2> QED
    BY <1>1, <1>2, <1>4, <2>1
<1>5. ASSUME IInv, NEW c \in Callers, Sleep(c)
      PROVE  IInv'
  <2>1. TypeOK'
    BY <1>5 DEF Sleep, IInv, TypeOK
  <2>2. Downloads' /\ Chain'
    BY <1>5 DEF Sleep, IInv, Downloads, CompleteMeansDownloaded, Chain, Checks
  <2> QED
    BY <2>1, <2>2 DEF IInv
<1>6. ASSUME IInv, Stop
      PROVE  IInv'
  <2>1. TypeOK'
    BY <1>6 DEF Stop, IInv, TypeOK
  <2>2. Downloads' /\ Chain'
    BY <1>6 DEF Stop, IInv, Downloads, CompleteMeansDownloaded, Chain, Checks
  <2> QED
    BY <2>1, <2>2 DEF IInv
<1> QED
  BY <1>3, <1>4, <1>5, <1>6

LEMMA IInvStep == IInv /\ [Next]_vars => IInv'
<1>1. IInv /\ UNCHANGED vars => IInv'
  BY DEF IInv, TypeOK, Downloads, CompleteMeansDownloaded, Chain, Checks, vars, download,
         callers, history
<1> QED
  BY <1>1, IInvNetwork, IInvIoThread, IInvCallers DEF Next

(***************************************************************************)
(* The clips, the download, the handlers and the callers are what they are *)
(* meant to be at every step.                                              *)
(***************************************************************************)
THEOREM TypeCorrect == Spec => []TypeOK
<1>1. IInv => TypeOK
  BY DEF IInv
<1> QED
  BY <1>1, IInvInit, IInvStep, PTL DEF Spec

(***************************************************************************)
(* With any number of clips and callers, a clip is marked complete only if *)
(* it was downloaded to its end, whichever download handle_check_download  *)
(* finds stopped.                                                          *)
(***************************************************************************)
THEOREM OnlyDownloadedIsComplete == Spec => []CompleteMeansDownloaded
<1>1. IInv => CompleteMeansDownloaded
  BY DEF IInv, Downloads
<1> QED
  BY <1>1, IInvInit, IInvStep, PTL DEF Spec

(***************************************************************************)
(* A running download is given up for another only after a call of         *)
(* change_download: an error that could restart it comes from a download   *)
(* that broke off.                                                         *)
(***************************************************************************)
THEOREM NothingElseInterrupts == Spec => OnlyChangeInterrupts
<1>1. IInv /\ [Next]_vars => (dl = "running" /\ dl' = "starting" => changed')
  <2> SUFFICES ASSUME IInv, [Next]_vars, dl = "running", dl' = "starting"
               PROVE  changed'
    OBVIOUS
  <2> USE DEF download, callers, history
  <2>1. CASE UNCHANGED vars
    BY <2>1 DEF vars
  <2>2. CASE Network
    BY <2>2 DEF Network, StartCallback, StoppedCallback, DownloadEnds, TimerExpires
  <2>3. CASE CheckError
    <3>1. Runs("check_ec") /\ changed' = changed
      BY <2>3 DEF CheckError
    <3>2. 1 \in Checks /\ queue[1].op = "check_ec"
      <4>1. queue \in Seq(Handler) /\ queue # <<>> /\ Head(queue).op = "check_ec"
        BY <3>1 DEF Runs, IInv, TypeOK
      <4>2. Head(queue) = queue[1] /\ 1 \in 1..Len(queue)
        BY <4>1
      <4> QED
        BY <4>1, <4>2 DEF Checks
    <3> QED
      BY <3>1, <3>2 DEF IInv, Chain, TypeOK
  <2>4. CASE CheckStopped
    BY <2>4 DEF CheckStopped
  <2>5. CASE CheckRunning \/ HandleRead \/ IoTest \/ OutOfWork
    BY <2>5 DEF CheckRunning, HandleRead, IoTest, OutOfWork
  <2>6. CASE HandleChange
    BY <2>6 DEF HandleChange
  <2>7. CASE Stop \/ \E c \in Callers : ReadData(c) \/ ReadSeek(c) \/ ChangeDownload(c) \/ Sleep(c)
    BY <2>7 DEF Stop, ReadData, ReadSeek, ChangeDownload, Post, Sleep
  <2> QED
    BY <2>1, <2>2, <2>3, <2>4, <2>5, <2>6, <2>7 DEF Next, IoThread
<1> QED
  BY <1>1, IInvInit, IInvStep, PTL DEF Spec, OnlyChangeInterrupts
============================================================================
