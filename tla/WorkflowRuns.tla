---------------------------- MODULE WorkflowRuns ----------------------------
(***************************************************************************)
(* The life of a workflow run: the workflow_runs table, the API handlers   *)
(* that create, resume, cancel, delete and stream runs, the Celery broker, *)
(* the workers that execute workflows.run and workflows.resume, and the    *)
(* recovery pass of the API's startup.                                     *)
(*                                                                         *)
(* Every database round trip after which another session may act is a step *)
(* of its own: a handler decides on the row it loaded (`seen') and writes  *)
(* later.  PostgreSQL runs READ COMMITTED; the ORM emits an UPDATE for the *)
(* columns whose value differs from the loaded one.  The DAG engine is     *)
(* opaque here (module DAGEngine opens it): it may return or raise, and    *)
(* what its session has flushed is visible to nobody until it commits.     *)
(***************************************************************************)
EXTENDS Naturals, FiniteSets

CONSTANTS
    Runs,        \* primary keys of workflow_runs
    EmptyRuns,   \* the runs whose workflow has no steps
    Requests,    \* concurrent API requests
    Workers,     \* Celery worker processes (prefetch 1: one message each)
    TaskIds,     \* message ids the broker may assign
    NoRun, NoTask,
    Ops,         \* operations users perform on each run: run stream cancel resume delete
    Faults,      \* kinds of fault that may happen
    MaxFaults    \* bound: faults in a behaviour

ASSUME ConstantsAssumption ==
    /\ EmptyRuns \subseteq Runs
    /\ NoRun \notin Runs
    /\ NoTask \notin TaskIds
    /\ MaxFaults \in Nat

Active    == {"pending", "running"}
Resumable == {"failed", "canceled"}
Deletable == {"completed", "failed", "canceled"}
Status    == Active \cup Deletable \cup {"absent", "deleted"}
Kind      == {"run", "resume", "stream"}

Message   == [id: TaskIds, kind: {"run", "resume"}, run: Runs]

VARIABLES
    status,      \* workflow_runs.status, with rows not yet or no longer there
    taskId,      \* workflow_runs.celery_task_id
    stale,       \* runs whose updated_at is older than STALE_AFTER
    saved,       \* runs with committed workflow_step_runs or events
    queue,       \* messages waiting in the broker
    used,        \* ids the broker has assigned
    revoked,     \* ids the workers have been told to terminate
    req,         \* the local state of each API request
    wk,          \* the local state of each worker process
    recovery,    \* what the startup pass still has to re-enqueue
    faults       \* faults so far

table  == <<status, taskId, stale, saved>>
broker == <<queue, used, revoked>>
vars   == <<table, broker, req, wk, recovery, faults>>

IdleReq == [pc |-> "idle", run |-> NoRun, kind |-> "run", seen |-> "absent",
            prev |-> "absent", task |-> NoTask]
IdleWk  == [pc |-> "idle", id |-> NoTask, run |-> NoRun, kind |-> "run",
            seen |-> "absent", dirty |-> FALSE]

ReqState == [pc: {"idle", "cancel", "resume", "delete", "enqueue", "setId",
                  "refresh", "fail", "restore", "revoke", "stream"},
             run: Runs \cup {NoRun}, kind: Kind, seen: Status, prev: Status,
             task: TaskIds \cup {NoTask}]
WkState  == [pc: {"idle", "begin", "claimed", "starting", "started", "engine",
                  "done", "completing", "raised", "failing", "recover",
                  "refailing"},
             id: TaskIds \cup {NoTask}, run: Runs \cup {NoRun}, kind: Kind,
             seen: Status, dirty: BOOLEAN]

Init ==
    /\ status   = [r \in Runs |-> "absent"]
    /\ taskId   = [r \in Runs |-> NoTask]
    /\ stale    = {}
    /\ saved    = {}
    /\ queue    = {}
    /\ used     = {}
    /\ revoked  = {}
    /\ req      = [q \in Requests |-> IdleReq]
    /\ wk       = [w \in Workers |-> IdleWk]
    /\ recovery = {}
    /\ faults   = 0

Exists(r) == status[r] \in Active \cup Deletable

\* The task is past its claim or its check and works on the run.
Executing(w) == wk[w].pc \notin {"idle", "begin"}

\* Uncommitted children keep a FOR KEY SHARE lock on their run's row, which
\* an UPDATE does not conflict with and a DELETE waits for.
Locked(r) ==
    \/ \E w \in Workers : wk[w].run = r /\ wk[w].dirty
    \/ \E q \in Requests : /\ req[q].run = r
                           /\ req[q].kind = "stream"
                           /\ req[q].pc \in {"stream", "refresh", "fail"}

\* UPDATE of the status and of columns that certainly change with it.
Update(r, seen, new) ==
    /\ status' = IF seen = new THEN status ELSE [status EXCEPT ![r] = new]
    /\ stale'  = stale \ {r}

\* UPDATE of the status alone: no statement when the loaded value is equal.
SetStatus(r, seen, new) ==
    IF seen = new THEN UNCHANGED <<status, stale>> ELSE Update(r, seen, new)

-----------------------------------------------------------------------------
(* API handlers *)

EndReq(q) == req' = [req EXCEPT ![q] = IdleReq]

ReqGoes(q, pc) == req' = [req EXCEPT ![q].pc = pc]

\* A refresh: the handler goes on with the status the row has now.
ReqSees(q, pc) ==
    req' = [req EXCEPT ![q] = [@ EXCEPT !.pc = pc, !.seen = status[req[q].run]]]

\* Mutant: task.delay() before the commit of the row.
EnqueueRunUncommitted(q, r) ==
    /\ "run" \in Ops[r] /\ req[q].pc = "idle" /\ status[r] = "absent"
    /\ \E t \in TaskIds \ used :
          /\ used' = used \cup {t}
          /\ queue' = queue \cup {[id |-> t, kind |-> "run", run |-> r]}
    /\ UNCHANGED <<table, revoked, req, wk, recovery, faults>>

\* POST /workflows/{id}/run and /runs/{id}/retry: commit a PENDING row.
EnqueueRun(q, r) ==
    /\ "run" \in Ops[r] /\ req[q].pc = "idle" /\ status[r] = "absent"
    /\ status' = [status EXCEPT ![r] = "pending"]
    /\ req' = [req EXCEPT ![q] = [IdleReq EXCEPT !.pc = "enqueue", !.run = r,
                                                 !.seen = "pending"]]
    /\ UNCHANGED <<taskId, stale, saved, broker, wk, recovery, faults>>

\* get_owned_workflow_run loads the row that the handler will decide on.
ReadRun(q, r, op) ==
    /\ op \in Ops[r] \cap {"cancel", "resume", "delete"}
    /\ req[q].pc = "idle" /\ Exists(r)
    /\ req' = [req EXCEPT ![q] = [IdleReq EXCEPT !.pc = op, !.run = r,
                                                 !.seen = status[r]]]
    /\ UNCHANGED <<table, broker, wk, recovery, faults>>

\* Mutants: a resume of a run that is still active, a delete of a PENDING run.
AllowedResumeActive(op) == CASE op = "cancel" -> Active
                             [] op = "resume" -> Active \cup Resumable
                             [] op = "delete" -> Deletable
AllowedDeletePending(op) == CASE op = "cancel" -> Active
                              [] op = "resume" -> Resumable
                              [] op = "delete" -> Deletable \cup {"pending"}

Allowed(op) == CASE op = "cancel" -> Active
                 [] op = "resume" -> Resumable
                 [] op = "delete" -> Deletable

\* 409, or the early return of a cancel that finds the run canceled.
Reject(q) ==
    /\ req[q].pc \in {"cancel", "resume", "delete"}
    /\ req[q].seen \notin Allowed(req[q].pc)
    /\ EndReq(q)
    /\ UNCHANGED <<table, broker, wk, recovery, faults>>

ResumeStart(q) ==
    LET r == req[q].run IN
    /\ req[q].pc = "resume" /\ req[q].seen \in Allowed("resume") /\ Exists(r)
    /\ SetStatus(r, req[q].seen, "running")
    /\ req' = [req EXCEPT ![q] = [@ EXCEPT !.pc = "enqueue",
                                           !.kind = "resume", !.prev = req[q].seen]]
    /\ UNCHANGED <<taskId, saved, broker, wk, recovery, faults>>

\* The broker assigns a fresh id to a message.
Publish(t, kind, r) ==
    /\ t \notin used
    /\ used'  = used \cup {t}
    /\ queue' = queue \cup {[id |-> t, kind |-> kind, run |-> r]}
    /\ UNCHANGED revoked

\* Mutant: a resume, too, is enqueued as workflows.run.
EnqueueAsRun(q, t) ==
    /\ req[q].pc = "enqueue" /\ Exists(req[q].run)
    /\ Publish(t, "run", req[q].run)
    /\ req' = [req EXCEPT ![q] = [@ EXCEPT !.pc = "setId", !.task = t]]
    /\ UNCHANGED <<table, wk, recovery, faults>>

\* The refresh that follows the commit, and task.delay().
Enqueue(q, t) ==
    /\ req[q].pc = "enqueue" /\ Exists(req[q].run)
    /\ Publish(t, req[q].kind, req[q].run)
    /\ req' = [req EXCEPT ![q] = [@ EXCEPT !.pc = "setId", !.task = t]]
    /\ UNCHANGED <<table, wk, recovery, faults>>

\* Mutant: a 503 without the compensating write.
EnqueueFailsSilently(q) ==
    /\ req[q].pc = "enqueue" /\ EndReq(q)
    /\ UNCHANGED <<table, broker, wk, recovery, faults>>

\* The broker is unreachable: 503 after the row has been put back.
EnqueueFails(q) ==
    /\ req[q].pc = "enqueue" /\ Exists(req[q].run)
    /\ ReqSees(q, IF req[q].kind = "run" THEN "refresh" ELSE "restore")
    /\ UNCHANGED <<table, broker, wk, recovery, faults>>

\* fail_with_error gives way to a cancel it sees ...
RefreshFailed(q) ==
    LET r == req[q].run IN
    /\ req[q].pc = "refresh" /\ Exists(r)
    /\ IF status[r] = "canceled"
         THEN EndReq(q)
         ELSE ReqSees(q, "fail")
    /\ UNCHANGED <<table, broker, wk, recovery, faults>>

\* ... and otherwise commits FAILED, with all the session has flushed.
FailRun(q) ==
    LET r == req[q].run IN
    /\ req[q].pc = "fail" /\ Exists(r)
    /\ Update(r, req[q].seen, "failed")
    /\ saved' = IF req[q].kind = "stream" THEN saved \cup {r} ELSE saved
    /\ EndReq(q)
    /\ UNCHANGED <<taskId, broker, wk, recovery, faults>>

\* A resume that could not be enqueued puts the previous status back.
RestoreStatus(q) ==
    /\ req[q].pc = "restore" /\ Exists(req[q].run)
    /\ SetStatus(req[q].run, req[q].seen, req[q].prev)
    /\ EndReq(q)
    /\ UNCHANGED <<taskId, saved, broker, wk, recovery, faults>>

SetTaskId(q) ==
    LET r == req[q].run IN
    /\ req[q].pc = "setId" /\ Exists(r)
    /\ taskId' = [taskId EXCEPT ![r] = req[q].task]
    /\ stale' = stale \ {r}
    /\ EndReq(q)
    /\ UNCHANGED <<status, saved, broker, wk, recovery, faults>>

CancelRun(q) ==
    LET r == req[q].run IN
    /\ req[q].pc = "cancel" /\ req[q].seen \in Allowed("cancel") /\ Exists(r)
    /\ Update(r, req[q].seen, "canceled")
    /\ ReqGoes(q, "revoke")
    /\ UNCHANGED <<taskId, saved, broker, wk, recovery, faults>>

\* The refresh after the commit loads the id that is revoked.
RevokeTask(q) ==
    /\ req[q].pc = "revoke" /\ Exists(req[q].run)
    /\ revoked' = revoked \cup ({taskId[req[q].run]} \ {NoTask})
    /\ EndReq(q)
    /\ UNCHANGED <<table, queue, used, wk, recovery, faults>>

\* The broker is unreachable: the run stays canceled, the worker is not told.
RevokeFails(q) ==
    /\ req[q].pc = "revoke"
    /\ EndReq(q)
    /\ UNCHANGED <<table, broker, wk, recovery, faults>>

\* DELETE /runs/{id}, and each row of DELETE /runs/canceled.
DeleteRun(q) ==
    LET r == req[q].run IN
    /\ req[q].pc = "delete" /\ req[q].seen \in Allowed("delete")
    /\ Exists(r) /\ ~Locked(r)
    /\ status' = [status EXCEPT ![r] = "deleted"]
    /\ taskId' = [taskId EXCEPT ![r] = NoTask]
    /\ stale' = stale \ {r} /\ saved' = saved \ {r}
    /\ EndReq(q)
    /\ UNCHANGED <<broker, wk, recovery, faults>>

\* POST /workflows/{id}/runs/stream: the row is first committed RUNNING, and
\* the engine runs inside the API process.
StreamRun(q, r) ==
    /\ "stream" \in Ops[r] /\ req[q].pc = "idle" /\ status[r] = "absent"
    /\ status' = [status EXCEPT ![r] = "running"]
    /\ saved' = saved \cup {r}
    /\ req' = [req EXCEPT ![q] = [IdleReq EXCEPT !.pc = "stream", !.run = r,
                                     !.kind = "stream", !.seen = "running"]]
    /\ UNCHANGED <<taskId, stale, broker, wk, recovery, faults>>

\* complete() flushes COMPLETED over whatever the row holds; the row lock is
\* then held up to the commit.
StreamCompletes(q) ==
    LET r == req[q].run IN
    /\ req[q].pc = "stream" /\ Exists(r)
    /\ Update(r, "running", "completed")
    /\ saved' = saved \cup {r}
    /\ EndReq(q)
    /\ UNCHANGED <<taskId, broker, wk, recovery, faults>>

StreamRaises(q) ==
    /\ req[q].pc = "stream"
    /\ ReqGoes(q, "refresh")
    /\ UNCHANGED <<table, broker, wk, recovery, faults>>

\* The client leaves, or the session breaks: nothing more is committed.
StreamDrops(q) ==
    /\ req[q].pc = "stream"
    /\ EndReq(q)
    /\ UNCHANGED <<table, broker, wk, recovery, faults>>

\* The row vanished under the handler: its UPDATE or refresh raises.
RequestRowGone(q) ==
    /\ req[q].pc # "idle" /\ status[req[q].run] = "deleted"
    /\ EndReq(q)
    /\ UNCHANGED <<table, broker, wk, recovery, faults>>

RequestStep(q) ==
    \/ Reject(q) \/ ResumeStart(q) \/ EnqueueFails(q) \/ RefreshFailed(q)
    \/ FailRun(q) \/ RestoreStatus(q) \/ SetTaskId(q) \/ CancelRun(q)
    \/ RevokeTask(q) \/ RevokeFails(q) \/ DeleteRun(q) \/ StreamCompletes(q)
    \/ StreamRaises(q) \/ StreamDrops(q) \/ RequestRowGone(q)
    \/ \E t \in TaskIds : Enqueue(q, t)

UserStep(q) ==
    \E r \in Runs : \/ EnqueueRun(q, r) \/ StreamRun(q, r)
                    \/ \E op \in Ops[r] : ReadRun(q, r, op)

-----------------------------------------------------------------------------
(* Celery workers *)

\* The task ends, with or without an exception, and its message is acked.
Ack(w) == wk' = [wk EXCEPT ![w] = IdleWk]

WkGoes(w, pc) == wk' = [wk EXCEPT ![w].pc = pc]

\* A read of the row: the task goes on with the status it has now.
WkSees(w, pc) ==
    wk' = [wk EXCEPT ![w] = [@ EXCEPT !.pc = pc, !.seen = status[wk[w].run]]]

\* The task's session is committed or rolled back; its handler takes over.
EndSession(w) ==
    wk' = [wk EXCEPT ![w] = [@ EXCEPT !.pc = "recover", !.dirty = FALSE]]

Deliver(w, m) ==
    /\ wk[w].pc = "idle" /\ m \in queue
    /\ queue' = queue \ {m}
    /\ IF m.id \in revoked
         THEN UNCHANGED wk
         ELSE wk' = [wk EXCEPT ![w] =
                       [IdleWk EXCEPT !.pc = "begin", !.id = m.id,
                                      !.run = m.run, !.kind = m.kind]]
    /\ UNCHANGED <<table, used, revoked, req, recovery, faults>>

\* Mutants: the claim does not flip the status; it also accepts RUNNING.
ClaimPendingNoWrite(w) ==
    /\ wk[w].pc = "begin" /\ wk[w].kind = "run"
    /\ status[wk[w].run] = "pending"
    /\ WkGoes(w, "claimed")
    /\ UNCHANGED <<table, broker, req, recovery, faults>>
ClaimPendingAnyActive(w) ==
    /\ wk[w].pc = "begin" /\ wk[w].kind = "run"
    /\ status[wk[w].run] \in Active
    /\ Update(wk[w].run, status[wk[w].run], "running")
    /\ WkGoes(w, "claimed")
    /\ UNCHANGED <<taskId, saved, broker, req, recovery, faults>>

\* claim_pending: SELECT FOR UPDATE, PENDING -> RUNNING, commit.
ClaimPending(w) ==
    LET r == wk[w].run IN
    /\ wk[w].pc = "begin" /\ wk[w].kind = "run" /\ status[r] = "pending"
    /\ Update(r, "pending", "running")
    /\ WkGoes(w, "claimed")
    /\ UNCHANGED <<taskId, saved, broker, req, recovery, faults>>

\* The task of a resume only checks that the run is RUNNING.
BeginResume(w) ==
    /\ wk[w].pc = "begin" /\ wk[w].kind = "resume"
    /\ status[wk[w].run] = "running"
    /\ WkSees(w, "engine")
    /\ UNCHANGED <<table, broker, req, recovery, faults>>

\* Nothing to claim or to resume: the task returns.
Skip(w) ==
    /\ wk[w].pc = "begin"
    /\ status[wk[w].run] # (IF wk[w].kind = "run" THEN "pending" ELSE "running")
    /\ Ack(w)
    /\ UNCHANGED <<table, broker, req, recovery, faults>>

\* The refresh that ends claim_pending.
RefreshClaimed(w) ==
    /\ wk[w].pc = "claimed" /\ Exists(wk[w].run)
    /\ WkSees(w, "starting")
    /\ UNCHANGED <<table, broker, req, recovery, faults>>

\* execute_run's start(): a no-op unless the refresh saw another status.
Start(w) ==
    /\ wk[w].pc = "starting" /\ Exists(wk[w].run)
    /\ SetStatus(wk[w].run, wk[w].seen, "running")
    /\ WkGoes(w, "started")
    /\ UNCHANGED <<taskId, saved, broker, req, recovery, faults>>

RefreshStarted(w) ==
    /\ wk[w].pc = "started" /\ Exists(wk[w].run)
    /\ WkSees(w, "engine")
    /\ UNCHANGED <<table, broker, req, recovery, faults>>

\* The engine flushes its first events or step runs.
EngineWrites(w) ==
    /\ wk[w].pc = "engine" /\ Exists(wk[w].run) /\ wk[w].run \notin EmptyRuns
    /\ wk' = [wk EXCEPT ![w].dirty = TRUE]
    /\ UNCHANGED <<table, broker, req, recovery, faults>>

\* The engine returns; execute_run adds the workflow_done event.
EngineReturns(w) ==
    /\ wk[w].pc = "engine" /\ Exists(wk[w].run)
    /\ wk[w].run \notin EmptyRuns \/ wk[w].seen = "completed"
    /\ wk' = [wk EXCEPT ![w] = [@ EXCEPT !.pc = "done",
                               !.dirty = wk[w].dirty \/ wk[w].kind = "run"]]
    /\ UNCHANGED <<table, broker, req, recovery, faults>>

\* The refresh after the commit in commit_complete ends the task, or fails and
\* sends it, like any other error, to its handler.
AckOrRecover(w) == Ack(w) \/ EndSession(w)

\* No steps: complete_empty flushes COMPLETED and keeps the row lock, and
\* commit_complete then refreshes its own write.
EngineEmpty(w) ==
    LET r == wk[w].run IN
    /\ wk[w].pc = "engine" /\ Exists(r)
    /\ r \in EmptyRuns /\ wk[w].seen # "completed"
    /\ Update(r, wk[w].seen, "completed")
    /\ saved' = IF wk[w].kind = "run" THEN saved \cup {r} ELSE saved
    /\ AckOrRecover(w)
    /\ UNCHANGED <<taskId, broker, req, recovery, faults>>

EngineRaises(w) ==
    /\ wk[w].pc = "engine"
    /\ WkGoes(w, "raised")
    /\ UNCHANGED <<table, broker, req, recovery, faults>>

\* A database error: the session can only be rolled back.
SessionBreaks(w) ==
    /\ wk[w].pc \in {"starting", "started", "engine", "done", "completing",
                     "raised", "failing"}
    /\ EndSession(w)
    /\ UNCHANGED <<table, broker, req, recovery, faults>>

\* Mutant: the final write does not look for a cancel.
YieldsToNothing(r) == status[r] = "deleted"

\* commit_complete: after this refresh the commit is certain.
YieldsToCancel(r) == status[r] = "canceled"

RefreshDone(w) ==
    LET r == wk[w].run IN
    /\ wk[w].pc = "done" /\ Exists(r)
    /\ IF YieldsToCancel(r)
         THEN Ack(w)
         ELSE WkSees(w, "completing")
    /\ UNCHANGED <<table, broker, req, recovery, faults>>

CompleteRun(w) ==
    LET r == wk[w].run IN
    /\ wk[w].pc = "completing" /\ Exists(r)
    /\ Update(r, wk[w].seen, "completed")
    /\ saved' = IF wk[w].dirty THEN saved \cup {r} ELSE saved
    /\ AckOrRecover(w)
    /\ UNCHANGED <<taskId, broker, req, recovery, faults>>

\* fail_with_error in the engine's session, which then rolls back.
RefreshRaised(w) ==
    LET r == wk[w].run IN
    /\ wk[w].pc = "raised" /\ Exists(r)
    /\ IF YieldsToCancel(r) THEN EndSession(w) ELSE WkSees(w, "failing")
    /\ UNCHANGED <<table, broker, req, recovery, faults>>

FailEngine(w) ==
    LET r == wk[w].run IN
    /\ wk[w].pc = "failing" /\ Exists(r)
    /\ Update(r, wk[w].seen, "failed")
    /\ saved' = IF wk[w].dirty THEN saved \cup {r} ELSE saved
    /\ EndSession(w)
    /\ UNCHANGED <<taskId, broker, req, recovery, faults>>

\* Mutant: the task's handler only rolls back.
RefreshRecoverNever(w) ==
    /\ wk[w].pc = "recover" /\ Ack(w)
    /\ UNCHANGED <<table, broker, req, recovery, faults>>

\* The task's own handler writes FAILED again through a recovery session.
RefreshRecover(w) ==
    LET r == wk[w].run IN
    /\ wk[w].pc = "recover" /\ Exists(r)
    /\ IF YieldsToCancel(r)
         THEN Ack(w)
         ELSE WkSees(w, "refailing")
    /\ UNCHANGED <<table, broker, req, recovery, faults>>

FailRecovered(w) ==
    LET r == wk[w].run IN
    /\ wk[w].pc = "refailing" /\ Exists(r)
    /\ SetStatus(r, wk[w].seen, "failed")
    /\ Ack(w)
    /\ UNCHANGED <<taskId, saved, broker, req, recovery, faults>>

\* Whatever the task does next on a deleted row raises, and the recovery
\* session finds no run to mark.
WorkerRowGone(w) ==
    /\ Executing(w) /\ status[wk[w].run] = "deleted"
    /\ Ack(w)
    /\ UNCHANGED <<table, broker, req, recovery, faults>>

\* revoke(terminate=True) reached the process: it is killed, its session
\* rolled back and its message acked.
Terminated(w) ==
    /\ wk[w].pc # "idle" /\ wk[w].id \in revoked
    /\ Ack(w)
    /\ UNCHANGED <<table, broker, req, recovery, faults>>

WorkerStep(w) ==
    \/ ClaimPending(w) \/ BeginResume(w) \/ Skip(w) \/ RefreshClaimed(w)
    \/ Start(w) \/ RefreshStarted(w) \/ EngineReturns(w) \/ EngineEmpty(w)
    \/ EngineRaises(w) \/ SessionBreaks(w) \/ RefreshDone(w) \/ CompleteRun(w)
    \/ RefreshRaised(w) \/ FailEngine(w) \/ RefreshRecover(w)
    \/ FailRecovered(w) \/ WorkerRowGone(w)
    \/ \E m \in queue : Deliver(w, m)

-----------------------------------------------------------------------------
(* The passing of time, faults, and the recovery pass *)

\* Ten minutes pass without an UPDATE of the row: execution makes none.
TimePasses(r) ==
    /\ "restart" \in Faults /\ status[r] \in Active
    /\ stale' = stale \cup {r}
    /\ UNCHANGED <<status, taskId, saved, broker, req, wk, recovery, faults>>

Fault(kind) == kind \in Faults /\ faults < MaxFaults /\ faults' = faults + 1

\* The process dies: its message, acked late, is delivered again or lost.
WorkerCrash(w) ==
    /\ Fault("crash") /\ wk[w].pc # "idle"
    /\ Ack(w)
    /\ \/ UNCHANGED queue
       \/ queue' = queue \cup {[id |-> wk[w].id, kind |-> wk[w].kind,
                                run |-> wk[w].run]}
    /\ UNCHANGED <<table, used, revoked, req, recovery>>

\* Something raises before the task's try block: load_provider_config, the
\* claim's refresh, or _build_service, which needs an active provider.
BeginFails(w) ==
    /\ Fault("begin") /\ wk[w].pc \in {"begin", "claimed", "starting"}
    /\ Ack(w)
    /\ UNCHANGED <<table, broker, req, recovery>>

\* The visibility timeout expires while the worker is still busy.
Redeliver(w) ==
    /\ Fault("redeliver") /\ wk[w].pc # "idle"
    /\ queue' = queue \cup {[id |-> wk[w].id, kind |-> wk[w].kind,
                             run |-> wk[w].run]}
    /\ UNCHANGED <<table, used, revoked, req, wk, recovery>>

LoseMessage(m) ==
    /\ Fault("lose") /\ m \in queue
    /\ queue' = queue \ {m}
    /\ UNCHANGED <<table, used, revoked, req, wk, recovery>>

\* get_stale: what the startup pass finds abandoned.
StaleRuns == {r \in stale : status[r] \in Active}

\* The API process restarts; its requests and streams die with it.
ApiRestart ==
    /\ Fault("restart")
    /\ req' = [q \in Requests |-> IdleReq]
    /\ recovery' = {[run |-> r, status |-> status[r]] : r \in StaleRuns}
    /\ UNCHANGED <<table, broker, wk>>

RecoverEnqueue(x, t) ==
    /\ x \in recovery
    /\ Publish(t, IF x.status = "pending" THEN "run" ELSE "resume", x.run)
    /\ recovery' = recovery \ {x}
    /\ UNCHANGED <<table, req, wk, faults>>

\* The broker is unreachable: logged, and the pass goes on.
RecoverSkip(x) ==
    /\ x \in recovery
    /\ recovery' = recovery \ {x}
    /\ UNCHANGED <<table, broker, req, wk, faults>>

Environment ==
    \/ \E r \in Runs : TimePasses(r)
    \/ \E w \in Workers : \/ WorkerCrash(w) \/ BeginFails(w) \/ Redeliver(w)
                          \/ EngineWrites(w) \/ Terminated(w)
    \/ \E m \in queue : LoseMessage(m)
    \/ ApiRestart

RecoverStep == \E x \in recovery : \/ \E t \in TaskIds : RecoverEnqueue(x, t)
                                   \/ RecoverSkip(x)

Next == \/ \E q \in Requests : RequestStep(q) \/ UserStep(q)
        \/ \E w \in Workers : WorkerStep(w)
        \/ RecoverStep
        \/ Environment

Spec == Init /\ [][Next]_vars

\* A request handler, a worker and the startup pass go on when they can.
Fairness == /\ \A q \in Requests : WF_vars(RequestStep(q))
            /\ \A w \in Workers : WF_vars(WorkerStep(w))
            /\ WF_vars(RecoverStep)

FairSpec == Spec /\ Fairness
-----------------------------------------------------------------------------
(* Properties *)

TableOK ==
    /\ status \in [Runs -> Status]
    /\ taskId \in [Runs -> TaskIds \cup {NoTask}]
    /\ stale \subseteq Runs /\ saved \subseteq Runs

BrokerOK ==
    queue \subseteq Message /\ used \subseteq TaskIds /\ revoked \subseteq TaskIds

ReqOK ==
    /\ req \in [Requests -> ReqState]
    /\ \A q \in Requests :
          /\ req[q].pc # "idle" => req[q].run \in Runs
          /\ req[q].pc = "enqueue" => \/ req[q].kind = "run"
                                     \/ /\ req[q].kind = "resume"
                                        /\ req[q].prev \in Resumable
          /\ req[q].pc = "restore" => req[q].prev \in Resumable

WkOK ==
    /\ wk \in [Workers -> WkState]
    /\ \A w \in Workers : wk[w].pc # "idle" => /\ wk[w].run \in Runs
                                              /\ wk[w].id \in TaskIds
                                              /\ wk[w].kind # "stream"

\* Rows, messages and the local states of the processes are well formed; a
\* process that works on a run or a message names it, and a resume that may
\* still have to put the previous status back remembers a resumable one.
TypeOK ==
    /\ TableOK /\ BrokerOK /\ ReqOK /\ WkOK
    /\ recovery \subseteq [run: Runs, status: Active]
    /\ faults \in 0..MaxFaults

\* recovery.py and the task rely on it: as long as a run is PENDING no task
\* works on it and nothing of an execution has been committed, so handing it
\* to the queue again is safe whatever was delivered, retried or restarted.
PendingIsUntouched ==
    \A r \in Runs : status[r] = "pending" =>
        /\ r \notin saved
        /\ \A w \in Workers : wk[w].run = r => ~Executing(w)

\* create_committed comes before task.delay: no message, in the broker or at
\* a worker, names a run whose row was never committed.
MessagesHaveRows ==
    /\ \A m \in queue : status[m.run] # "absent"
    /\ \A w \in Workers : wk[w].pc # "idle" => status[wk[w].run] # "absent"

\* The claim lets one worker at a time execute a run for a workflows.run
\* message: duplicates, redeliveries and re-enqueued PENDING runs find
\* nothing to claim.
RunTaskExclusive ==
    \A v, w \in Workers :
        /\ Executing(v) /\ wk[v].kind = "run"
        /\ Executing(w) /\ wk[w].kind = "run"
        /\ wk[v].run = wk[w].run
        => v = w

\* No two engines, in workers or in a stream, execute the same run.
Engines(r) == {w \in Workers : Executing(w) /\ wk[w].run = r} \cup
              {q \in Requests : req[q].run = r /\ req[q].pc = "stream"}

AtMostOneEngine == \A r \in Runs : Cardinality(Engines(r)) <= 1

\* A run is PENDING once, and leaves PENDING only by a claim, a failed
\* enqueue or a cancel; a deleted row never comes back.
PendingOnceStep ==
    \A r \in Runs : status'[r] # status[r] =>
        /\ status[r] # "deleted" /\ status'[r] # "absent"
        /\ status'[r] = "pending" => status[r] = "absent"
        /\ status[r] = "pending" => status'[r] \in {"running", "failed", "canceled"}

PendingOnce == [][PendingOnceStep]_vars

\* Nobody has already passed the read on which it will overwrite run r.
Quiet(r) ==
    /\ \A w \in Workers : wk[w].run = r =>
          \/ wk[w].pc \in {"begin", "done", "raised", "recover"}
          \/ wk[w].pc = "engine" /\ r \notin EmptyRuns
    /\ \A q \in Requests : req[q].run = r =>
          /\ req[q].pc \notin {"stream", "fail", "restore"}
          /\ req[q].pc = "enqueue" => req[q].kind # "resume"

\* A cancel committed while the engine still works (and nobody was about to
\* write) is final: the worker's later return or failure, its recovery
\* session, a failed enqueue and late messages leave the run CANCELED until
\* a user resumes or deletes it.
CanceledIsStable ==
    [][\A r \in Runs : status[r] = "canceled" /\ Quiet(r) =>
          \/ status'[r] = "canceled" /\ Quiet(r)'
          \/ status'[r] = "deleted"
          \/ \E q \in Requests : /\ req[q].run = r /\ req[q].pc = "resume"
                                 /\ req'[q].pc = "enqueue"]_vars

\* The status at which a message or an enqueue of this kind does its work.
Serving(kind) == IF kind = "run" THEN "pending" ELSE "running"

\* A worker, a handler that will bring the run to another status: a worker that
\* begins at the status its message is for, or is past its claim and will write
\* an end that differs from what it has read, so that the write takes place.
WkHandles(s, st) ==
    \/ s.pc = "begin" /\ st = Serving(s.kind)
    \/ s.pc \in {"claimed", "starting", "started", "engine", "done", "raised",
                 "failing", "recover"}
    \/ s.pc = "completing" /\ s.seen # "completed"
    \/ s.pc = "refailing" /\ s.seen # "failed"

ReqHandles(s, st) ==
    \/ s.pc = "enqueue" /\ st = Serving(s.kind)
    \/ s.pc = "refresh"
    \/ s.pc = "fail" /\ s.seen # "failed"
    \/ s.pc = "restore" /\ s.seen # s.prev

MessageFor(r)    == \E m \in queue : m.run = r /\ status[r] = Serving(m.kind)
WorkerOn(w, r)   == wk[w].run = r /\ WkHandles(wk[w], status[r])
RequestOn(q, r)  == req[q].run = r /\ ReqHandles(req[q], status[r])
Handled(r) == \/ MessageFor(r)
              \/ \E w \in Workers : WorkerOn(w, r)
              \/ \E q \in Requests : RequestOn(q, r)

\* As long as nothing crashed, restarted or was lost, a run shown PENDING or
\* RUNNING that no user cancels or streams has a message, a worker or a handler
\* that will bring it further: nothing that overlapping resumes, retries, failed
\* enqueues and late messages do leaves it to nobody.
ActiveIsHandled ==
    \A r \in Runs : /\ status[r] \in Active /\ faults = 0
                    /\ Ops[r] \cap {"cancel", "stream"} = {}
                    => Handled(r)

\* Unless a fault happens, every accepted run is eventually completed, failed,
\* canceled or deleted.
Settles == \A r \in Runs : /\ status[r] \in Active
                           /\ faults = 0
                           ~> status[r] \notin Active \/ faults > 0

\* A run that recovery (or a resume) has put back into the queue settles,
\* whatever point its earlier worker died at, if nothing else goes wrong.
ReenqueuedSettles ==
    \A r \in Runs :
        /\ faults = MaxFaults
        /\ \E m \in queue :
              /\ m.run = r
              /\ \/ m.kind = "run" /\ status[r] = "pending"
                 \/ m.kind = "resume" /\ status[r] = "running"
        ~> status[r] \notin Active
=============================================================================
