--------------------------- MODULE WorkflowStream ---------------------------
(***************************************************************************)
(* POST /workflows/{id}/runs/stream: the task that executes the run in the *)
(* API process, the event bus, and the response that reads the frames the  *)
(* task puts into its queue.  The others who write the run (cancel, resume *)
(* and its worker, delete) are steps of the environment.                   *)
(*                                                                         *)
(* The task works in the request's session: what it flushes is its own     *)
(* until a commit, and is rolled back when the request ends.  A step is a  *)
(* statement of the task with the code up to the next one, or an await of  *)
(* the reader.                                                             *)
(***************************************************************************)
EXTENDS Naturals, Sequences

CONSTANT MaxSteps   \* bound: events of the steps

ASSUME StreamAssumption == MaxSteps \in Nat

VARIABLES
    row,        \* workflow_runs.status, committed
    own,        \* the status the task has flushed and not committed
    seen,       \* the status fail_with_error has read
    events,     \* the workflow_run_events of the task, committed
    log,        \* events flushed and not committed
    session,    \* the request's database session
    task,       \* what execute_and_emit does next
    queue,      \* frames put and not yet got
    reader,     \* where the response is
    heard,      \* frames the client was sent
    settledAs   \* history: how the task has settled the run

streamVars == <<row, own, seen, events, log, session, task, queue, reader,
                heard, settledAs>>

FrameKind    == {"queued", "started", "step", "completed", "failed"}
Terminal == {"completed", "failed"}

\* "unborn": inserted and not committed; "gone": deleted.
RowState  == {"unborn", "running", "canceled", "failed", "completed", "gone"}
TaskState == {"queue", "start", "started", "announce", "engine", "complete",
              "tell", "check", "commit", "confirm", "raised", "fail", "failed",
              "notice", "ended", "dead"}

StreamInit ==
    /\ row = "unborn" /\ own = "none" /\ seen = "none"
    /\ events = <<>> /\ log = <<>> /\ session = "open"
    /\ task = "queue" /\ queue = <<>>
    /\ reader = "reading" /\ heard = <<>> /\ settledAs = "none"

TaskOver   == task \in {"ended", "dead"}
Subscribed == reader \in {"reading", "yielding", "waiting"}

\* The run as the task's session sees it.
View == IF own = "none" THEN row ELSE own

\* refresh finds the row, which must belong to the session still.
Refreshes == session = "open" /\ row # "gone"

\* INSERT of an event finds its run.
Inserts == /\ session # "broken" /\ row # "gone"
           /\ row = "unborn" => session = "open"

Goes(next)  == task' = next
Flushed     == own' = "none" /\ log' = <<>>
Environment == UNCHANGED <<row, seen, events, settledAs>>
Reading     == UNCHANGED <<reader, heard>>

\* An exception that reaches fail_with_error, or that one itself raises.
Raises(next) == Goes(next) /\ UNCHANGED <<own, log, session, queue>>

\* A failed flush: the session can only be rolled back, which nobody does.
BreaksIn(next) ==
    Goes(next) /\ session' = "broken" /\ Flushed /\ UNCHANGED queue

\* commit of all that was flushed; status is what this writes.
Commits(status, next) ==
    /\ row' = status /\ events' = events \o log /\ Flushed
    /\ Goes(next) /\ UNCHANGED <<session, queue>>

-----------------------------------------------------------------------------
(* execute_and_emit *)

\* EventBus.emit: the event is flushed, then its frame is put into the queue
\* of each subscriber.
Emit(frame, next, otherwise) ==
    /\ IF Inserts
       THEN /\ log' = Append(log, frame)
            /\ queue' = IF Subscribed THEN Append(queue, frame) ELSE queue
            /\ Goes(next) /\ UNCHANGED <<own, session>>
       ELSE BreaksIn(otherwise)
    /\ Environment /\ Reading

EmitQueued  == task = "queue" /\ Emit("queued", "start", "raised")

\* start: PENDING was never visible to anybody.
StartStream ==
    /\ task = "start" /\ Reading /\ UNCHANGED <<seen, settledAs>>
    /\ IF session = "open" THEN Commits("running", "started")
                           ELSE Raises("raised") /\ UNCHANGED <<row, events>>

RefreshRunning ==
    /\ task = "started" /\ Environment /\ Reading
    /\ Raises(IF Refreshes THEN "announce" ELSE "raised")

EmitStarted == task = "announce" /\ Emit("started", "engine", "raised")

StepsTold   == Len(SelectSeq(log, LAMBDA f : f = "step"))
EmitStep    == /\ task = "engine" /\ StepsTold < MaxSteps
               /\ Emit("step", "engine", "raised")

EngineEnds ==
    /\ task = "engine" /\ Environment /\ Reading
    /\ \E next \in {"complete", "raised"} : Raises(next)

\* Mutant: the commit is left to tell the client that the run is complete.
FlushCompletedUntold ==
    /\ task = "complete" /\ Environment /\ Reading
    /\ own' = IF session = "open" THEN "completed" ELSE own
    /\ Goes("check") /\ UNCHANGED <<log, session, queue>>

\* complete() flushes COMPLETED over whatever the row holds; a detached run
\* has nothing to flush.
FlushCompleted ==
    /\ task = "complete" /\ Environment /\ Reading
    /\ own' = IF session = "open" THEN "completed" ELSE own
    /\ Goes("tell") /\ UNCHANGED <<log, session, queue>>

EmitDone == task = "tell" /\ Emit("completed", "check", "raised")

\* commit_complete: its refresh reads what complete() has flushed.
RefreshCompleted ==
    /\ task = "check" /\ Environment /\ Reading
    /\ Raises(IF ~Refreshes THEN "raised"
              ELSE IF View = "canceled" THEN "ended" ELSE "commit")

\* Mutant: the status is flushed and the events are not committed.
CommitForgotten ==
    /\ task = "commit" /\ Reading /\ Environment
    /\ Goes("confirm") /\ UNCHANGED <<own, log, session, queue>>

CommitCompleted ==
    /\ task = "commit" /\ Reading /\ UNCHANGED seen
    /\ Commits("completed", "confirm") /\ settledAs' = "completed"

RefreshCommitted ==
    /\ task = "confirm" /\ Environment /\ Reading
    /\ Raises(IF Refreshes THEN "ended" ELSE "raised")

\* Mutant: fail_with_error gives way, and nobody tells the client.
RefreshRaisedSilently ==
    /\ task = "raised" /\ Reading /\ UNCHANGED <<row, events>>
    /\ IF ~Refreshes THEN Raises("dead") /\ UNCHANGED <<seen, settledAs>>
       ELSE IF View = "canceled"
            THEN Raises("ended") /\ settledAs' = "canceled" /\ seen' = View
            ELSE Raises("fail") /\ seen' = View /\ UNCHANGED settledAs

\* fail_with_error
RefreshFailing ==
    /\ task = "raised" /\ Reading /\ UNCHANGED <<row, events>>
    /\ IF ~Refreshes THEN Raises("dead") /\ UNCHANGED <<seen, settledAs>>
       ELSE IF View = "canceled"
            THEN Raises("notice") /\ settledAs' = "canceled" /\ seen' = View
            ELSE Raises("fail") /\ seen' = View /\ UNCHANGED settledAs

CommitFailed ==
    /\ task = "fail" /\ Reading /\ UNCHANGED seen
    /\ Commits(IF seen = "failed" THEN row ELSE "failed", "failed")
    /\ settledAs' = "failed"

RefreshFailedRun ==
    /\ task = "failed" /\ Environment /\ Reading
    /\ Raises(IF Refreshes THEN "notice" ELSE "dead")

\* The last event is flushed and no commit follows.
EmitFailed == task = "notice" /\ Emit("failed", "ended", "dead")

\* The database fails a statement of the task.
SessionFails ==
    /\ ~TaskOver /\ session = "open" /\ Environment /\ Reading
    /\ BreaksIn(IF task \in {"raised", "fail", "failed", "notice"}
                THEN "dead" ELSE "raised")

-----------------------------------------------------------------------------
(* The response *)

Get ==
    /\ reader = "reading" /\ queue # <<>>
    /\ heard' = Append(heard, Head(queue)) /\ queue' = Tail(queue)
    /\ reader' = "yielding"
    /\ UNCHANGED <<own, log, session, task>> /\ Environment

Last == heard[Len(heard)]

\* The client has the frame; a terminal one is the last to be read.
Yielded ==
    /\ reader = "yielding"
    /\ reader' = IF Last \in Terminal THEN "waiting" ELSE "reading"
    /\ UNCHANGED <<own, log, session, task, queue, heard>> /\ Environment

\* await task; the request is over and its session closed.
AwaitTask ==
    /\ reader = "waiting" /\ TaskOver
    /\ reader' = IF task = "ended" THEN "done" ELSE "raised"
    /\ session' = "closed" /\ Flushed
    /\ UNCHANGED <<task, queue, heard>> /\ Environment

\* The client leaves.  Only the await of the task is cancelled with the
\* response; else the task goes on, in a session that was closed under it, or
\* in an open one when a statement was under way that made close() raise.
Leave ==
    /\ Subscribed
    /\ reader' = "left" /\ queue' = <<>>
    /\ \/ Flushed /\ session' = "closed"
       \/ reader # "waiting" /\ ~TaskOver /\ UNCHANGED <<own, log, session>>
    /\ task' = IF reader = "waiting" /\ ~TaskOver THEN "dead" ELSE task
    /\ UNCHANGED heard /\ Environment

-----------------------------------------------------------------------------
(* Other requests and workers *)

Born == row \notin {"unborn", "gone"}
Rest == UNCHANGED <<own, seen, log, session, task, queue, reader, heard,
                    settledAs>>

\* An UPDATE waits for the one the task has flushed.
OthersWrite(status) ==
    /\ Born /\ own = "none" /\ row # status
    /\ row' = status
    /\ UNCHANGED events /\ Rest

\* cancel may have read the status long ago; a resume starts from FAILED; the
\* worker of a resume, or of the recovery pass, ends the run.
CancelStreamed == OthersWrite("canceled")
ResumeStreamed == row = "failed" /\ OthersWrite("running")
WorkerEnds     == /\ row = "running"
                  /\ \E s \in {"completed", "failed"} : OthersWrite(s)

\* DELETE waits for the session that has inserted events of the run.
DeleteStreamed ==
    /\ row \in {"canceled", "failed", "completed"}
    /\ own = "none" /\ (log = <<>> \/ (TaskOver /\ reader = "left"))
    /\ row' = "gone" /\ events' = <<>>
    /\ Rest

-----------------------------------------------------------------------------
TaskStep ==
    \/ EmitQueued \/ StartStream \/ RefreshRunning \/ EmitStarted \/ EmitStep
    \/ EngineEnds \/ FlushCompleted \/ EmitDone \/ RefreshCompleted
    \/ CommitCompleted \/ RefreshCommitted \/ RefreshFailing \/ CommitFailed
    \/ RefreshFailedRun \/ EmitFailed

ReaderStep == Get \/ Yielded \/ AwaitTask

Others == CancelStreamed \/ ResumeStreamed \/ WorkerEnds \/ DeleteStreamed

StreamNext == TaskStep \/ SessionFails \/ ReaderStep \/ Leave \/ Others

StreamSpec == StreamInit /\ [][StreamNext]_streamVars

\* The event loop goes on with a task and a response whose await is over:
\* models answer or time out, and a client reads or leaves.
StreamFairness == WF_streamVars(TaskStep) /\ WF_streamVars(ReaderStep)

FairStreamSpec == StreamSpec /\ StreamFairness
-----------------------------------------------------------------------------
(* Properties *)

StreamTypeOK ==
    /\ row \in RowState /\ own \in {"none", "completed"}
    /\ seen \in RowState \cup {"none"}
    /\ events \in Seq(FrameKind) /\ log \in Seq(FrameKind)
    /\ session \in {"open", "broken", "closed"} /\ task \in TaskState
    /\ queue \in Seq(FrameKind) /\ heard \in Seq(FrameKind)
    /\ reader \in {"reading", "yielding", "waiting", "done", "raised", "left"}
    /\ reader \in {"yielding", "waiting", "done"} => heard # <<>>
    /\ settledAs \in {"none", "completed", "failed", "canceled"}

\* A stream that comes to its end has told the truth: the client heard
\* `completed', which is sent before the commit, only of a run the task has
\* then committed as COMPLETED, with each event the client heard; and `failed'
\* only of one it has committed as FAILED, with all but that last event, or
\* that was canceled.
ToldIsTrue ==
    reader = "done" =>
        /\ Last = "completed" =>
              settledAs = "completed" /\ (row # "gone" => events = heard)
        /\ Last = "failed" =>
              \/ settledAs = "canceled"
              \/ /\ settledAs = "failed"
                 /\ row # "gone" => Append(events, "failed") = heard

\* The reader looks at its queue and never at the task: when it waits for a
\* frame, the task goes on, unless the database failed it or the run was
\* deleted under it.  No frame of a task that is over is still to come.
ReaderIsServed ==
    reader = "reading" /\ queue = <<>> /\ TaskOver => session = "broken" \/ row = "gone"

\* A response that is read comes to its end, however the engine ends and
\* whoever cancels or resumes the run: unless the database fails the task or
\* the run is deleted under it, a terminal frame is put into the queue.
StreamEnds ==
    Subscribed ~> ~Subscribed \/ session = "broken" \/ row = "gone"
=============================================================================
