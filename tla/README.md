# Verification of the AI platform backend

TLA+ models of the backend under `src/app`, TLC configurations that check them
on small instances, and TLAPS proofs of what matters most for every instance.
`PROJECT.json` maps each definition to the lines it models and lists the runs,
the mutants that show that each property can fail, the hazards and the
theorems.

## The system

A FastAPI process serves projects, documents, chats and workflows; Celery
workers, fed through Redis, execute workflow runs and process documents;
PostgreSQL is the only shared state, and the only record of a job's status
(`core/celery_app.py` configures no result backend). Model providers are
called over HTTP, through a failover chain.

| component | state | operations | interacts with |
|---|---|---|---|
| Workflow runs (`services/workflow/workflow.py`, `repositories/workflow_runs.py`, `api/routes/workflow_runs.py`) | `workflow_runs.status`, `celery_task_id`, `error`, `updated_at` | run, retry, resume, cancel, delete, stream; claim, start, complete, fail | broker (messages, revokes), engine, recovery |
| Workflow tasks (`tasks/workflows.py`) | one session per task, then a recovery session | `workflows.run`, `workflows.resume` | claims and settles the run, calls the engine |
| Background jobs (`services/background_jobs.py`, `core/celery_app.py`) | broker queue, revoked ids | enqueue, revoke; late ack, prefetch 1 | Redis, workers |
| Startup recovery (`services/workflow/recovery.py`) | none of its own | scan for stale active runs, re-enqueue | runs, broker |
| DAG engine (`services/workflow/dag_engine.py`, `repositories/workflow_step_runs.py`) | `workflow_step_runs`; pending, completed and outputs of one execution | validate, resolve, execute a wave, persist, finish | run's session, AI executor, event bus |
| Cycle detection (`DAGEngine.detect_cycles`) | visited, stack | depth-first search | engine |
| Event bus and stream (`services/workflow/event_bus.py`) | a queue per subscriber, `workflow_run_events` | subscribe, emit; the reader of the stream | streamed execution, engine |
| AI executor (`services/workflow/ai_executor.py`) | attempts | prompt, retry | AI service |
| Workflow definitions (`services/resource_updates.py`, step and workflow repositories) | `workflows`, `workflow_steps.depends_on` | create, edit, delete | read by the engine when a session starts |
| Documents (`services/document.py`, `tasks/documents.py`) | `documents.status`, chunks, embeddings | upload, process, cancel, retry, delete | broker, embedding service |
| Embedding jobs (`services/embedding_jobs.py`, `services/embedding_management.py`, `tasks/embeddings.py`) | `documents.embedding_status`, `projects.embedding_sync_status`, chunk embeddings | rebuild, sync, resume, retry, cancel | background tasks of the API process |
| Embedding service (`services/embedding.py`) | provider in use | embed with failover, check dimensions | providers |
| Chunking (`services/chunk.py`) | none | split a text into overlapping chunks | documents |
| Failover (`services/ai/failover.py`, `errors.py`, `service.py`) | circuit breaker per process: failures, cooldowns | attempt, retry, fail over | every model call |
| Provider configuration (`services/provider_config.py`) | an in-memory copy per process, `provider_configs` rows | load, update, sync settings | failover, tasks |
| Chats (`services/chat.py`, `repositories/messages.py`) | `messages` ordered by `created_at` | send, stream, regenerate | AI service, retrieval, agent |
| Agent and tools, retrieval and RAG, providers, storage, extractors, authentication, projects, plumbing | text, files, tokens | I/O and queries | |

What is hard about it:

* **Concurrency.** Handlers and tasks load a row, await, and write it later,
  mostly without locks (only `claim_pending` takes one). The ORM writes the
  columns that differ from what was loaded. Two requests, a request and a
  worker, or two workers meet on one row.
* **Failure.** A task's message is acknowledged late, so it may be delivered
  again; a worker may be killed by a revoke or die; the API may restart and
  run the recovery pass; the broker may be down between two writes.
* **Ordering.** Rows are committed before messages; events and step runs are
  flushed long before they are committed; a refresh precedes the last write.
* **Time.** A run is taken for abandoned after ten minutes without an UPDATE.

What makes each component correct:

* runs: a run waiting in PENDING has been touched by nobody, so every repeated
  delivery is harmless; one worker at a time executes it; a cancel is final;
  every accepted run settles;
* recovery: re-enqueueing what it finds never duplicates work, and what it has
  put back settles;
* engine: each step once, in the order of its dependencies, none lost and none
  left; a resume repeats nothing that was committed and joins its outputs;
* cycle detection: it rejects exactly the graphs with a cycle;
* documents: an indexed document has one whole set of chunks, a cancel is
  final, a queued document has somebody who will process it;
* embeddings: a document shown queued or processing has a job, a cancel is
  final, and a document shown complete has a vector for each chunk;
* failover: a provider in cooldown is not called, one that recovered is;
* provider configuration: exactly one active provider of each kind;
* chats: the history is in the order of the conversation;
* chunking: every character is in a chunk, and the loop ends.

`PROJECT.json` lists the hazards at their lines, with the properties that
cover them.

## Plan

1. `WorkflowRuns`: runs, tasks, broker, recovery. **Done.**
2. `TopologicalOrder` (abstract), `DAGEngine` (implements it). **Done.**
3. `CycleDetection`, with `DependencyGraphs` shared with the engine. **Done.**
4. `DocumentProcessing`: one document over the same broker. **Done.**
5. `EmbeddingJobs`: rebuild and sync with cooperative cancellation, a cancel
   followed by a resume. **Done**, but for its liveness (every job and every
   cancel comes to an end), the agent tool's Celery jobs and a reprocessing of
   the document meanwhile.
6. `ProviderFailover`: `run_with_failover` and the breaker under concurrent
   requests, with a bounded clock. `ProviderConfig`: processes and rows.
   **Done.**
7. `ChatMessages` and `Chunking`. **Done.**
8. `WorkflowStream`: event bus, frames, reader and client of the streamed
   execution. **Done.** Steps edited or deleted between two sessions of the
   engine. Left.
9. Proofs: every safety property of a passing run has its theorem. Left: an
   abstract circuit breaker that `ProviderFailover` implements, and what of
   `ReenqueuedSettles` is safety.

## Workflow runs: `WorkflowRuns`, `MCWorkflowRuns`, `MCWorkflowRunsPlans`, `WorkflowRunsProofs`

`status`, `taskId` and `stale` are the columns `status`, `celery_task_id` and
`updated_at` (older than `STALE_AFTER` or not); `saved` says whether step runs
or events of the run were committed. `queue`, `used` and `revoked` are the
broker's. `req[q]` and `wk[w]` are the local variables of a request and of a
worker process: `pc` is the point between two database round trips, `seen` the
status the session has loaded, `dirty` whether the session has flushed
children of the run. Each action is the code between two awaits of the
database, so that everything another session can observe or disturb happens
between two actions; for example `RefreshDone` and `CompleteRun` are the two
halves of `commit_complete`, and `SetStatus` writes nothing when the new value
equals the loaded one, as the ORM does.

Row locks matter in two places: `claim_pending` reads and writes under one,
hence one action; a DELETE waits for sessions with uncommitted children of the
row (`Locked`). The engine is opaque: it returns, raises, or its session
breaks. A session may break at any statement between the task's `try` and its
handler (`SessionBreaks`), the refresh after the commit of COMPLETED included
(`AckOrRecover`): the recovery session then writes FAILED over it.

Faults are counted (`MaxFaults`) and chosen (`Faults`): worker crash with the
message redelivered or lost, redelivery while the worker is busy, loss, API
restart, and an error before the task's `try` (`BeginFails`), which nobody
handles: `load_provider_config` with the run still PENDING, the refresh of the
claim or `_build_service` (no provider is active) with the run RUNNING. Being
killed by a revoke, a broker that is down and a session that breaks are not
faults but outcomes that are always possible. `TimePasses` lets the clock pass
`STALE_AFTER` at any moment.

Left out: PAUSED, which nothing ever writes; `fail_committed`, which only an
engine with `continue_on_error` off calls (no caller of the service passes
it); outputs and texts of errors.

| run | what it asks |
|---|---|
| `runs_plans` | a behaviour keeps to one of two plans (`KeepsToAPlan`, a CONSTRAINT); 2 requests, 2 workers. Races: run, cancel and resume without faults, one cancel and one resume at a time, and no request that is answered 409. Faults: run, stream, cancel and delete of a workflow without steps, with 2 faults of any kind. `TypeOK`, `PendingIsUntouched`, `RunTaskExclusive`, `MessagesHaveRows`, `PendingOnce`, `CanceledIsStable` |
| `runs_recovered` | fair, run and resume, 2 workers, up to 2 faults out of crash, restart and an error before the task's `try`: `ActiveIsHandled` and `Settles` (as long as there is no fault), `ReenqueuedSettles` (after the last one) |
| `runs_double_execution` | one restart: `AtMostOneEngine` is violated |

Bounds: one run, since no code reads or writes two runs together (the bulk
delete treats each row like a delete of its own), and two or three processes
per kind, since every race is between two writers and one message holds one
worker. Two message ids allow a first enqueue and a resume or a recovery; with
them used up, an enqueue can still fail. The theorems have none of these
bounds.

`CanceledIsStable` is stated for a cancel after which nobody is past the read
on which it will write (`Quiet`). Without that condition it fails: the refresh
of `commit_complete` and its commit are two statements, and so are the claim
and the refresh that follows it. The hazards name both. What holds is that a
cancel committed while the engine works survives the worker's return, its
failure, its recovery session, late messages and failed enqueues.

`runs_double_execution` is a disagreement with the documentation: recovery
takes a RUNNING run that is ten minutes old for abandoned, executing a run
never touches its row, and a resume does not claim. `RunTaskExclusive` shows that
nothing else than a resume leads to two engines.

Fairness: weak fairness of each request handler, each worker and the recovery
pass: the event loop resumes a coroutine whose await is over, an idle worker
takes a waiting message, and calls of a model provider end because the clients
have timeouts. Users, faults, time and `Terminated` have none. A delivery
chooses among waiting messages, and none may starve another in
`runs_recovered` because the messages are finitely many.

Proved in `WorkflowRunsProofs`, for all constants: `TypeCorrect`,
`PendingUntouched`, `RowsBeforeMessages`, `ExclusiveClaim`,
`LeavesPendingOnce`. `PendingIsUntouched` is not inductive by itself: that a
claim finds nobody at work depends on everything that may name a PENDING run.
The invariant (`IInv`) therefore joins the type invariant and
`RunTaskExclusive` with `PendingRefs` (while a run is PENDING, workers and
messages that name it are workflows.run ones before their claim, requests have
loaded it PENDING, and recovery has found it PENDING) and `AbsentIsUnknown` (a
row that was never committed is named nowhere, so that a fresh row starts that
way). A claim then meets no other executing worker, which is why exclusion is
inductive together with these and not alone.

`CancelsAreFinal` (`CanceledIsStable`) goes through the same actions once more: a
step that finds nobody past the read on which it will write leaves such a cancel.

`NoRunStranded` (`[]ActiveIsHandled`) is the safety part of `Settles`: as long as
there is no fault, each PENDING or RUNNING run that users neither cancel nor
stream has a message, a worker or a handler that brings it further. A revoke may
kill a worker whose run a resume has made active again, and a streamed run has no
message, hence the two exceptions. The invariant adds `IdsOK`: a message id names
one run, and only ids of runs that may be cancelled are revoked.

`OneEngineUntilResumed` proves `AtMostOneEngine`, which `runs_double_execution`
refutes, under the two assumptions that remove its causes: `Ops` has no resume
and `Faults` no restart.

## DAG engine: `TopologicalOrder`, `DAGEngine`, `MCDAGEngine`, `DAGEngineProofs`

`TopologicalOrder` is the promise: executions settle groups of steps, each
after its dependencies, and are done only with all settled. `DAGEngine` is
`DAGEngine.execute` in every session that runs or resumes one run: `ses[s]`
holds `pending_steps`, `completed_steps`, the steps with an output, the wave
handed to `gather` and its results, which may be empty (`Silent`); `flushed[s]`
the step runs of the session that are not committed; `rows` those that are. An
abstract condition of a step may hold or not each time it is evaluated, which
covers every expression over the input and the outputs. `Return` joins the
outputs that are not empty of the steps no other depends on (`Terminal`), into
`joined`. `Commit` is what the caller does after the engine has returned or
raised, `Rollback` a cancel, a broken session or a death.

`closed` says that the run is COMPLETED, which no resume accepts. That does not
last for good: a cancel that read the run earlier, or the recovery session of a
task whose last refresh failed, writes another status over it, after which the
run may be resumed (`Overwrite`; `reopened` remembers it). `WorkflowRuns` has the
steps that lead there.

`Overlap` says whether a session may start while another is at work, which
`runs_double_execution` shows to be possible, after a resume or a restart. The
properties that need exclusion are checked and proved with `Overlap = FALSE` and
promise nothing else: they are about resumes that follow the end of the session
before. The others are proved for both; `dag_graphs` checks them with `TRUE`.

| run | what it asks |
|---|---|
| `dag_graphs` | every graph over 3 steps and a missing id, cyclic ones included, 2 overlapping sessions, fair: `NoStepLost`, `NeverDeadlocks`, `ExecutionsEnd` |
| `dag_resume` | every acyclic graph over 3 steps, one of which may be silent and another conditional, 3 sessions one after the other, COMPLETED overwritten at any time, `continue_on_error` on or off: `RowsReadable`, `CommittedNotRepeated`, `StopsAtFailure`, `OutputsComplete`, `DependencyOrder` (the refinement) |

Three steps give every shape of a wave (chain, fork, join, independent steps);
three sessions are needed for a resume of a resume, which is the first that
could read two rows of one step, and does after an overwrite.
`continue_on_error` off is a parameter of the service that no caller uses; the
model keeps it since its branch is in the code.

`RowsReadable` says that nothing but an overwritten COMPLETED makes
`get_step_run` meet two rows of a step. A resume does store a second row next to
a FAILED one, but commits COMPLETED with it. Once that is overwritten the run may
be resumed, the step may fail again, and the next resume that executes it raises
`MultipleResultsFound`, as does every one after it: the run can never complete. A
hazard says so. The other properties hold with and without an overwrite.

`docs/ARCHITECTURE_DECISIONS.md:676` says that persisted step runs let a resume
avoid starting from scratch. Step runs are only flushed until the engine has
returned and become durable with the run's final status, so that this holds
after a step failed and not after the worker died: such a resume finds none of
them and executes every step again. `CommittedNotRepeated` and
`OutputsComplete` are about what was committed.

Fairness: weak fairness of each session's own steps, for the same reason as
above.

Proved in `DAGEngineProofs`, for every graph, number of sessions and mode:
`TypeCorrect`, `LosesNoStep`, `DeadlockFree` and `FollowsDependencies`, the
refinement of `TopologicalOrder`. The invariant joins `TypeOK`, `NoStepLost`
and `NeverDeadlocks` with `WorkIsValid` (a session at work has validated the
graph, and its wave waits for nothing); since a step changes one session, it is
proved as a predicate of one session's record (`SessionOK`). Deadlock freedom
follows without induction on the graph: were no pending step eligible, each
would depend on one that is not completed, hence pending, and the pending steps
would be a cycle in the sense of `HasCycle`, which `Valid` excludes.

For sessions one after the other (`Overlap = FALSE`): `ResumesReadRows`,
`NothingRepeated`, `FailureStops` and `OutputHasAll`, from one invariant
(`SInv`). `OneAtATime` says what exclusion gives: at most one session is live, one
that is not has nothing flushed, `continue_on_error` is off in one session at
most, and a run that was ever COMPLETED has a session that completed it.
`RowsOK` says what has been committed: before the first COMPLETED only a session
without `continue_on_error` leaves rows, one per step; at any time, a step has at
most one row that succeeded. `FlushOK` keeps a session from flushing a second
row of a step, and one that succeeded where one is committed. `KnowsTable`
relates the record of a session at work to the table: what was committed as
successful is completed and its output known, and each row the session has
flushed is about a step it has dealt with.

## Cycle detection: `DependencyGraphs`, `CycleDetection`, `MCParts`, `CycleDetectionProofs`

`CycleDetection` makes each call, early return and return of `dfs` a step;
`calls` is the Python call stack with the dependencies each frame has still to
visit, in any order. `HasCycle` is the reference: a non-empty set of steps each
of which depends on one of the set. `DAGEngine` uses it in place of the search,
which this module justifies.

The run `parts` checks it together with chunking, chats and streamed executions
(below), which share no state with it: `part` chooses one of the four at the
start. It takes every
graph over four steps (the smallest size with a diamond below a root), up to
renaming, which loses nothing because the search may take the steps in any
order: soundness (`RejectsOnlyCycles`), completeness (`AcceptsOnlyAcyclic`),
and, under fairness of the computation, that it decides (`CyclesDecide`).
Fairness is stated part by part, for the search and for the stream: the other
two have no liveness property.

Proved in `CycleDetectionProofs` for any set of steps: `Sound`, since the
frames on the stack form a path and meeting one of them closes it, and
`Complete`, since among the finished steps (visited and not on the stack), which
depend only on finished ones (`Closed`), every non-empty set has a step that
depends on none of the set (`Ordered`). A step becomes finished when all it
depends on is (`LeftIsRest`), so it can be put last in that order; at the end
all steps are finished.

## Document processing: `DocumentProcessing`, `MCDocumentProcessing`, `DocumentProcessingProofs`

`row` holds the committed columns of a `documents` row, `copies` how many sets
of chunks (with their vectors) are committed, `lock` the worker whose
transaction has updated the row. `start_processing` flushes PROCESSING without
committing it; from there to the commit of INDEXED, or to the rollback, the
worker works in one transaction, and every other write of the row waits for its
end. `Write(seen, new)` is such a write: the ORM updates the columns that differ
from what the session has loaded. A worker in `embed` remembers which chunks its
DELETE has found (`replaced`), so that two of them, were they not kept apart,
would both insert. Handlers (`process`, `cancel`, `retry`, `delete` and the
agent's tool, which queues with a looser guard and catches nothing) and workers
have the same local `pc`, `seen` and `task` as in `WorkflowRuns`.

The status of a document that was deleted is `absent`; whoever finds it so
fails in the statement or the refresh that follows (`RequestRowGone`,
`WorkerRowGone`). Being killed by a revoke and a broker that is down are
possible outcomes at any moment; crash, redelivery, a failing
`load_provider_config` and an API restart are counted faults.

Left out: `embedding_status` and `error`, which these writes set along with
`status` and which the embedding jobs read; the upload, whose commit is the
initial state.

| run | what it asks |
|---|---|
| `docs_faults` | 1 request, 2 workers, all four operations and the tool, 1 fault: `IndexedIsWhole` |
| `docs_races` | 2 requests out of process, cancel and delete, 1 worker, no faults, fair: `TypeOK`, `QueuedHasJob`, `CancelledIsStable`, `Settles` |

One document is enough because nothing here reads or writes two of them; two
requests, or a request and two workers, give every race of two writers, and two
message ids a job and its retry. `TypeOK` includes that the lock and the transactions agree
(`LockOK`). `CancelledIsStable`, as for runs, is about a cancel after which
nobody is past the read on which it will write; the hazards name what happens
otherwise.

Nobody ever reads PROCESSING, which is only flushed, although
`docs/API_CHECKLIST.md:118` asks to confirm it.
Since the claim is a read without a lock, a second message for the document is
claimed while the first is being worked on. That this leaves no duplicate chunks
is what `IndexedIsWhole` shows, and the row lock is the only reason: without the
flush in `start_processing` (`StartWithoutFlush`) two workers duplicate them.
`Settles` and `QueuedHasJob` are checked without the tool, which leaves a
document QUEUED when the broker is down, as a hazard says.

Fairness is weak fairness of each handler and each worker, as above; it covers
a statement that waits for the row, because the transaction it waits for ends.

Proved in `DocumentProcessingProofs`, for any number of requests, workers,
messages and faults: `TypeCorrect` and `ReprocessingIsClean`
(`[]IndexedIsWhole`). The invariant adds `Replaces`: what a worker in `embed`
has deleted is still all there is. It is inductive because `LockOK` gives each
such worker the lock, and both actions that change the chunks, the worker's own
commit and `DeleteDocument`, need it.

`NeverStranded` (`[]QueuedHasJob`) holds under `NoLoss`: no tool, and no fault
but a redelivery. `QueuedHasJob` is not inductive, for the reason given for the
embedding jobs below: a write of the status that was read writes nothing.
`Served` therefore asks for a message that is not revoked, a worker that is not
revoked and either has not yet read the status it will overwrite or has read
another one than it will write, or such a handler. `UsedOK` adds that ids are
fresh, so that no job is born revoked.

`CancelsAreFinal` (`CancelledIsStable`) needs no fault excluded: whatever is
redelivered, fails or dies, a step that is not past such a read does not write
over the CANCELLED it finds.

## Embedding jobs: `EmbeddingJobs`, `MCEmbeddingJobs`, `EmbeddingJobsProofs`

`row` holds the embedding columns of two targets, one document (its
`embedding_status` and `embedding_provider`) and its project
(`embedding_sync_status`); `vectors` the committed `chunk_embeddings`, of which
chunk and provider are unique together (provider and model are one value here).
Rebuild and sync run in the API process, as background tasks (`job`), although
`README.md:179` of the repository speaks of a Celery worker: the service calls
`add_task` and never `enqueue`. A local task id is never revoked, hence a cancel
is cooperative: the job asks before and after every call of the provider
(`Stop`, `Recheck`), and once more when it is done (`Finish`).

Nothing here locks a row. A job claims its target by reading QUEUED (`Claim`)
and commits PROCESSING in the next step, and its last statuses are again a read
(`Finish`, `RecoverStopped`, `Recover`) and a later write (`MarkDocument`,
`MarkProject`, `CommitCancelled`, `CommitFailed`). `Insert` is one chunk's vector and
its commit; the unique constraint refuses one that is there, the foreign key one
whose chunk is gone. A provider call ends with one of `Providers` or raises;
another provider than before is an error once the job has committed something.
`Select` takes the configured provider from `Providers` too, since the
configuration may change between two jobs.

Left out: the agent tool's variants of both jobs, which do run in Celery, the
processing of the document meanwhile, and the deletion of vectors of other
dimensions. Loading the documents of a project and writing them is one step.

| run | what it asks |
|---|---|
| `embeddings_jobs` | 1 request, 2 jobs, 2 chunks, 1 provider, all operations, 1 fault: `ActiveHasJob`, `CancelledIsStable` |
| `embeddings_whole` | 1 request, 1 job, 2 chunks, 2 providers, rebuild and resume: `CompletedIsWhole` is violated |

Two jobs are enough for a job that was cancelled and has not noticed, and the
one that was resumed; one request at a time suffices to make them, since a user
may cancel and resume while the first job waits for its provider. Two chunks
separate the job that has committed a vector from the one that has not.

`ActiveHasJob` is what the two-job races put at risk: a cancelled job writes
CANCELLED over the QUEUED of its successor, whose claim then finds nothing to do.
No status is left behind that refuses further jobs, unless the process restarts
or something raises before the job's `try` (`BeginFails`): the configuration
cannot be loaded, or, with PROCESSING committed, no provider is active. Nothing
recovers these rows, which a hazard says. `CancelledIsStable` has the exceptions of the code: a sync that
completes marks every document of the project, cancelled ones included.

`embeddings_whole`: a rebuild deletes the vectors of provider p and commits the
first new one, then fails. Its resume selects the chunks without a vector of p,
is answered by provider q at the first of them, and has committed nothing yet,
so that it goes on with q and records q for the document. The first chunk has no
vector of q, and a search, which filters by provider, never finds it.
The same property fails in other ways (a sync that completes after a forced
rebuild deleted the vectors and was cancelled); the run takes the one that needs
no race.

Proved, for any number of requests, jobs, chunks and providers: `TypeCorrect`,
`NoTargetStuck` (`ActiveHasJob`) and `CancelsAreFinal` (`CancelledIsStable`).
`ActiveHasJob` is not inductive: a job that would write the status it has read
writes nothing, since the ORM sees no change, and so does not put an end to a
target that has changed meanwhile. `Served` therefore asks, of a PROCESSING
target, for a job that has claimed it and whose end differs from what it last
read (`Ends`); of a QUEUED one, for such a job, one about to begin, or a handler
about to schedule one. `SeenOK` keeps what a job has read when it is about to
commit PROCESSING. The frame lemmas (`JobFrame`, `JobMoves`, `JobWrites`,
`RequestFrame`) say what is left to show of one kind of step, and one lemma per
action shows it. `CancelsAreFinal` goes through the same actions once more.

`WholeAlone` says where `CompletedIsWhole`, which `embeddings_whole` refutes, does
hold: with one provider and one job at a time, whatever is cancelled, resumed,
deleted, restarted or fails. A job then knows, until it writes its end, that each
chunk has its vector or is still to be embedded (`JobWhole`), and a forced rebuild
deletes vectors only of a document that is not shown COMPLETED. Two providers
alone refute it, and so do two jobs alone.

## Chunking: `Chunking`, `MCParts`, `PartsProofs`

`Chunking` is the loop of `ChunkService.chunk`, a round per step, over texts of
which it keeps only which characters are blanks: that is all `strip()` and the
normalisation of blanks look at. `start` is the position of the window, `chunks`
the intervals of the text that were kept, without the blanks at their ends.

`parts` takes every text of up to seven characters with every size from 0 to 4
and overlap from -1 to 4, illegal ones included (those must be refused before
the loop, which would not end). `PassagesKept` says what an overlap is for: a
passage at most one character longer than the overlap is whole in some chunk,
wherever the boundaries fall, and the loop makes no more rounds than there are
characters. Seven characters are three windows of size four with an overlap of
one, hence a first, an inner and a last one.

Proved in `PartsProofs` for every text, size and overlap: `NothingLost`
(`[]PassagesKept`). The invariant (`PassedKept`) asks, of each passage that
starts before the window, for a chunk that has it; the next round adds those
that start within the step of the window, and a last chunk ends at the end of
the text. Documents
are chunked with the defaults, 1000 and 200, which are legal.

## Chats: `ChatMessages`, `MCParts`, `MCChatMessages`, `ChatMessagesProofs`

One chat, the turns users take in it and its deletion. `messages` are the
committed rows: who wrote one, its role, its `created_at` (`at`) and the question
it belongs to (`to`, which the table does not have and the properties need).
`created_at` is PostgreSQL's `now()`, the start of the transaction, so `clock`
counts the transactions begun and `turn[t].began` is the one the turn is in.
A turn's steps are its statements: `Ask` (its first one, which begins the
transaction), `SaveQuestion` (a message flushes its question) or `KeepQuestion`
(a stream commits it), `ReadHistory`, `ChooseAgent`, the model or the tools,
`SaveAnswer` and its commit, `Complete`. Tools commit in the session of the turn
(`ToolCommits`), and with what they did also the question that was only
flushed. At any point a turn may fail, be dropped by a client that leaves
(`Drop`), or meet the deletion of the chat, which waits for sessions with
uncommitted messages and makes every later insert or refresh fail.

A search of the documents never gets further than its second step:
`RetrievalService` hands the repository `self` in the place of the session and
the session once more by name (`services/retrieval.py:28`), a `TypeError`
whatever is searched. `SearchRaises` is that; what would follow, the answer from
sources, is dead code today and not modelled.

| run | what it asks |
|---|---|
| `parts` | 2 turns of any kind, up to 2 commits of tools each, failures, disconnects, a deletion: `TranscriptIsWhole`, `EffectsHaveQuestions`, `SoloAsksLast` |
| `chats_regenerate` | `RefusedWithoutQuestion` is violated |

Two turns are what it takes to have one turn write between two statements of
another, and to regenerate an answer. `SoloAsksLast` is about turns that meet no
other one: overlapping turns may find each other's questions in their histories,
in the order of their transactions and not of their inserts.

`chats_regenerate` is a fault: question and answer of a message that was not
streamed are inserted by one transaction and have one `created_at`. The question
of an answer is looked for strictly before it, so that such an answer cannot be
regenerated, although the code refuses only when "no user message available"
(`services/chat.py:309`). For the same reason their order in the history is
undefined. A tool that commits in between hides it. A regeneration, by the way,
executes the tools again: `effects` counts them again.

Proved in `ChatMessagesProofs`, for any number of turns and commits of tools:
`WholeTranscript`, `EffectsAsked` and `SoloTurnAsksLast`. The invariant
(`ChatInv`) is the type invariant with `MessagesOK` (which messages there are,
in terms of the turn that wrote them) and `TurnOK`, which has at its heart
`BackedBy`: a turn past its question has it, flushed or committed, in a
transaction that is not later, as long as the chat is there. `SoloInv` adds what
a turn that met nobody knows of all the others: each has ended before it began
or begins after it.

## Streamed executions: `WorkflowStream`, `MCParts`, `PartsProofs`

`POST /workflows/{id}/runs/stream` starts a task that executes the run in the
API process, in the session of the request, and responds with the frames the task
puts into a queue. `task` is what `execute_and_emit` does next, `reader` where the
response is. `row` and `events` are committed; `own` is the status the session has
flushed, `log` the events. `EventBus.emit` inserts the event, flushes it and then
puts its frame into the queue (`Emit`), so that a client hears of what is not
committed yet; a flush that fails leaves a session nobody rolls back
(`BreaksIn`), in which every later refresh raises. `seen` is what
`fail_with_error` has read; `settledAs`, a history variable, how the task has
settled the run.

The task is not cancelled by a client that leaves (`Leave`): only a response
that has had its terminal frame is awaiting the task and passes the cancellation
on. The session, however, is closed with the request, and what was flushed is
rolled back; the task goes on with a run that no longer belongs to a session.

Others write the row: a cancel, a resume from FAILED and its worker, a delete.
An UPDATE waits for one the task has flushed, a DELETE for the events it has
inserted.

| run | what it asks |
|---|---|
| `parts` | 2 events of steps; statements that fail, a client that leaves, a cancel, a resume and a delete at any moment, fair: `ToldIsTrue`, `ReaderIsServed`, `StreamsEnd` |

`ToldIsTrue` is about streams that come to their end. `completed` is said before
the commit, without a look for a cancel: what saves the client is that the events
in the log hold off a delete, so that only an error of the database can come
between, and then no response ends. The `failed` event is the exception the
property states: it is flushed after the last commit and rolled back with the
request, so that the client heard it and the table never has it. `StreamsEnd`
exempts the two cases in which the reader waits for ever, as a hazard says: the
database failed the task, or the run was deleted under it, and `fail_with_error`
raises before its frame. `ReaderIsServed` is its safety part. Two events of steps
are one that was read and one that was not.

Fairness: weak fairness of the task and of the reader. Models answer or time out,
and a client reads or leaves.

Proved in `PartsProofs`, for any number of steps: `StreamTypeCorrect`,
`StreamsTellTheTruth` (`[]ToldIsTrue`) and `ReadersAreServed` (`[]ReaderIsServed`). The invariant (`StreamInv`) has at its
heart that what was put into the queue, read or not, is what was inserted,
committed or not, as long as the run is there (`Told = Kept`), and `Progress`,
which says for each point of the task how far it has told and kept. A terminal
frame is the last that is put, hence a reader that has got one has got all
(`LastIsAll`). `Waits` adds that a reader which asks for another frame has had no
terminal one, and that a task dies before its last frame only with its session
or its run.

## Failover: `ProviderFailover`, `Providers`, `MCProviders`, `ProviderProofs`

Concurrent callers of one process walk `Chain` and share the circuit breaker:
`failures` is `_failures`, `cooling` what is left of each deadline in
`_cooldowns`, in ticks of a clock (`Tick`). `lost` is a history variable.
`caller[c]` are the locals of `run_with_failover`: the attempts that are
configured (`avail`, any set), the current one, its retries, the failures. A call
of a provider is the only await that matters, so an action is the return of a
call (`Succeeds`, `Repeats`, `FailsOver`, `GivesUp`) with all the code up to the
next call, skipped providers in cooldown included (`GoesOn`). `Category` is
`classify_provider_error` on every kind of exception. Callers are plain calls
(health checks too), steps of a workflow, around which `AIExecutor` retries
(`TriesAgain`), and streams, which walk the same chain without the breaker and
do not fail over after the first token (`StreamFails`).

## Provider configuration: `ProviderConfig`, `Providers`, `MCProviders`, `ProviderProofs`

`rows` are the rows of `provider_configs` of one kind, `memory` the copy each
process has in its `ProviderConfigService`, `mine` what a transaction has written
and not committed, which is also whom a row's lock belongs to. A process seeds
the missing rows when it starts and loads; a request loads, and an update then
edits the memory and saves every row. `Load` is the SELECT and what follows
without an await, the edit included; `Select`, `Flush` and `Commit` are the
statements of `_save_all`, and between two of them another request of the same
process may change the memory that the next row will be given. The code takes the config object before it awaits the
row and writes from it after; the model looks it up when it writes, which is the
same object unless a load has replaced it in between. As the ORM does,
`Flush` writes the columns that differ from what was selected; a row with an API
key is always written, since the key is encrypted anew.

`Providers` puts this and the failover side by side, one of the two per
behaviour; `MCProviders` only gives it constants.

| run | what it asks |
|---|---|
| `providers` | one of the two at a time. 2 callers, a chain of 2, 1 retry, threshold 2, cooldown 2, 2 tries, fair; 2 processes, 2 requests, 2 providers of which one has a key: `CooldownEarned`, `OnlySuccessCloses`, `Recovers`, `RequestsEnd`, `NoLockCycle`, `SoloUpdateIsExact` |

Threshold and cooldown are 2 so that a provider can have lost a round and not
be in cooldown, and that its cooldown can be prolonged half-way; two callers so
that a late answer meets a cooldown another caller caused. Two requests may be
in one process or in two; a failing statement (`Breaks`) may hit any of them.

Fairness is that of the failover alone: each call of a provider returns, since
the clients have timeouts, and the clock goes on. Streams have none, since a
client reads them as slowly as it likes. `Recovers` then holds because a
provider in cooldown gets no new calls and those under way are finitely many.

What the configuration does not promise, as the hazards say: two updates that
overlap can leave no row active, or two (`SoloUpdateIsExact` is about updates
that meet no related request); a rejected update leaves its model in the memory
until the next load, and an update whose save fails leaves the memory switched.
`sync_settings_to_db` is called by nobody.

Proved in `ProviderProofs`, for every chain, number of callers, processes and
providers: `CooldownsAreEarned`, `SuccessClosesOnly`, `NoDeadlock`, and the type
invariants. `CooldownEarned` is inductive with the types (a failure counts
for both, a success resets both). `NoDeadlock` needs the lock order: an actor
holds only rows before the one it has come to (`Locks`), so that of any set of
waiting actors the one furthest along waits for nobody in it; a furthest one
exists because positions are natural numbers below a bound.

`SoloUpdatesAreExact` (`SoloUpdateIsExact`): an update that meets no related
request commits exactly one active row, its subject, and no model but the one
asked for has changed. The invariant (`SoloInv`) joins that of the configuration
with what such an update may rely on: each row is there or is inserted by the one
startup that found it missing (`Seeded`); who runs beside such an update works in
another process and updates nothing (`Apart`); the memory is the table as edited,
and what the loop has passed, with the rows it holds, is that memory (`Exact`).
`HalvesKept` and `ProvidersTypeCorrect` carry all this over to `Providers`.

## What is only model-checked, and what is not modelled

Liveness (`Settles`, `ReenqueuedSettles`, `ExecutionsEnd`, `CyclesDecide`,
`StreamsEnd`, `Recovers`, `RequestsEnd`) is out of the prover's reach; the safety
part of some is proved (`ActiveIsHandled`, `QueuedHasJob`, `NeverDeadlocks`,
`ReaderIsServed`). Each safety property of a passing run has a theorem.
`AtMostOneEngine` and `CompletedIsWhole` are refuted in general and proved under
the assumptions named above; `RefusedWithoutQuestion` is refuted.
The type invariants of `DAGEngine`, `CycleDetection`, `EmbeddingJobs`,
`ChatMessages`, `Chunking`, `WorkflowStream` and `Providers` are proved, alone or inside an
inductive invariant, and no run states them. The proofs assume the
constants' named assumptions (`ConstantsAssumption`, `EngineAssumption`,
`GraphsAssumption`, `DocumentsAssumption`, `EmbeddingsAssumption`,
`ChunkAssumption`, `ChatAssumption`, `FailoverAssumption`, `ConfigAssumption`),
which TLC evaluates in each run together with `StreamAssumption`. Single theorems
assume more: `Overlap = FALSE` (`DAGEngine`), `NoLoss` (`NeverStranded`), no resume
and no restart (`OneEngineUntilResumed`), one provider and one job at a time
(`WholeAlone`).

Not modelled: edits of a workflow's steps between two sessions of the engine;
what the agent's tools do to projects and workflows (their commits are in
`ChatMessages`, the document tool in `DocumentProcessing`); the titles and agent
names of chats. Authentication, storage, extractors, provider clients and CRUD
are I/O or queries without a protocol of their own; migrations, deployment and
the static pages are not program logic.
