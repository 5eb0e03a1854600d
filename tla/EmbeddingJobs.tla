--------------------------- MODULE EmbeddingJobs ---------------------------
(***************************************************************************)
(* Rebuilding the vectors of one document and syncing those of its project *)
(* (which has no other document): the two status columns, the API handlers *)
(* that queue and cancel, and the jobs, background tasks of the API        *)
(* process, which embed chunk by chunk, commit every vector and ask before *)
(* and after each call of the provider whether they were cancelled.        *)
(*                                                                         *)
(* No row is locked: a job and a handler read a row in one step and write  *)
(* it in a later one.  A write changes the columns that differ from the    *)
(* row the session has loaded (`seen').                                    *)
(***************************************************************************)
EXTENDS Naturals, FiniteSets

CONSTANTS
    Chunks,      \* the chunks of the document, by their index
    Providers,   \* embedding providers a call may end up with
    First,       \* the provider the document was processed with
    Requests,    \* concurrent API requests
    Jobs,        \* bound: background tasks at one time
    None,
    Ops,         \* operations users perform
    Faults,      \* kinds of fault that may happen
    MaxFaults    \* bound: faults in a behaviour

ASSUME EmbeddingsAssumption ==
    /\ Chunks \subseteq Nat /\ IsFiniteSet(Chunks)
    /\ First \in Providers /\ None \notin Providers
    /\ Ops \subseteq {"rebuild", "retry", "resume", "sync", "cancel", "delete"}
    /\ MaxFaults \in Nat

\* What has an embedding status: documents.embedding_status and
\* projects.embedding_sync_status.
Targets == {"document", "project"}
Running == {"queued", "processing"}
Active  == Running \cup {"cancelling"}
Status  == Active \cup {"pending", "completed", "failed", "cancelled", "absent"}
Row     == [status: Status, provider: Providers \cup {None}]

VARIABLES
    row,         \* the committed embedding columns of each target
    vectors,     \* the committed vectors: chunk and provider, unique together
    req,         \* the local state of each API request
    job,         \* the local state of each background task
    faults       \* faults so far

vars == <<row, vectors, req, job, faults>>

\* A project that was never synced, a document that complete_processing left.
NoRow == [status |-> "pending", provider |-> None]
Done(p) == [status |-> "completed", provider |-> p]

IdleReq == [pc |-> "idle", target |-> "document", seen |-> NoRow, force |-> FALSE]
IdleJob == [pc |-> "idle", target |-> "document", force |-> FALSE, seen |-> NoRow,
            provider |-> None, todo |-> {}, created |-> FALSE]

ReqState == [pc: {"idle", "rebuild", "retry", "resume", "sync", "cancel",
                  "schedule", "revoke", "cancelled"},
             target: Targets, seen: Row, force: BOOLEAN]
JobState == [pc: {"idle", "begin", "claim", "select", "embed", "recheck",
                  "insert", "finish", "current", "synced", "stopped",
                  "cancelled", "raised", "failed"},
             target: Targets, force: BOOLEAN, seen: Row,
             provider: Providers \cup {None}, todo: SUBSET Chunks,
             created: BOOLEAN]

Init ==
    /\ row     = [t \in Targets |-> IF t = "document" THEN Done(First) ELSE NoRow]
    /\ vectors = Chunks \X {First}
    /\ req     = [q \in Requests |-> IdleReq]
    /\ job     = [j \in Jobs |-> IdleJob]
    /\ faults  = 0

Exists(t) == row[t].status # "absent"

\* UPDATE and commit of the columns that differ from the loaded row.
Merged(t, seen, new) ==
    [c \in DOMAIN row[t] |-> IF new[c] = seen[c] THEN row[t][c] ELSE new[c]]

WriteStatus(t, seen, s) ==
    /\ Exists(t)
    /\ row' = [row EXCEPT ![t] = Merged(t, seen, [seen EXCEPT !.status = s])]

-----------------------------------------------------------------------------
(* API handlers *)

EndReq(q) == req' = [req EXCEPT ![q] = IdleReq]

\* A commit: what was loaded is refreshed before it is used again.
ReqGoes(q, pc) == req' = [req EXCEPT ![q] = [@ EXCEPT !.pc = pc, !.seen = NoRow]]

TargetsOf(op) == CASE op \in {"rebuild", "retry", "resume"} -> {"document"}
                   [] op = "sync" -> {"project"}
                   [] OTHER -> Targets

\* get_owned_document or get_owned_project.  A project is synced, resumed and
\* retried by the same code.
Read(q, op, t) ==
    /\ op \in Ops \ {"delete"} /\ t \in TargetsOf(op) /\ Exists(t)
    /\ req[q].pc = "idle"
    /\ req' = [req EXCEPT ![q] = [pc |-> op, target |-> t, seen |-> row[t],
                                  force |-> op \in {"rebuild", "retry"}]]
    /\ UNCHANGED <<row, vectors, job, faults>>

\* The statuses that keep a handler from queueing a job.
Blocked(pc) == IF pc = "rebuild" THEN Running ELSE Active

\* A job is active already, or there is none to cancel.
NothingToDo(q) ==
    /\ \/ /\ req[q].pc \in {"rebuild", "retry", "resume", "sync"}
          /\ req[q].seen.status \in Blocked(req[q].pc)
       \/ req[q].pc = "cancel" /\ req[q].seen.status \notin Active
    /\ EndReq(q)
    /\ UNCHANGED <<row, vectors, job, faults>>

Queue(q) ==
    /\ req[q].pc \in {"rebuild", "retry", "resume", "sync"}
    /\ req[q].seen.status \notin Blocked(req[q].pc)
    /\ WriteStatus(req[q].target, req[q].seen, "queued")
    /\ ReqGoes(q, "schedule")
    /\ UNCHANGED <<vectors, job, faults>>

\* The refresh after the commit, and add_task().
Schedule(q, j) ==
    /\ req[q].pc = "schedule" /\ Exists(req[q].target)
    /\ job[j].pc = "idle"
    /\ job' = [job EXCEPT ![j] = [IdleJob EXCEPT !.pc = "begin",
                                                 !.target = req[q].target,
                                                 !.force = req[q].force]]
    /\ EndReq(q)
    /\ UNCHANGED <<row, vectors, faults>>

MarkCancelling(q) ==
    /\ req[q].pc = "cancel" /\ req[q].seen.status \in Active
    /\ WriteStatus(req[q].target, req[q].seen, "cancelling")
    /\ ReqGoes(q, "revoke")
    /\ UNCHANGED <<vectors, job, faults>>

\* The refresh.  The id is a local one: there is no task to revoke.
Revoke(q) ==
    /\ req[q].pc = "revoke" /\ Exists(req[q].target)
    /\ req' = [req EXCEPT ![q] = [@ EXCEPT !.pc = "cancelled",
                                           !.seen = row[req[q].target]]]
    /\ UNCHANGED <<row, vectors, job, faults>>

MarkCancelled(q) ==
    /\ req[q].pc = "cancelled"
    /\ WriteStatus(req[q].target, req[q].seen, "cancelled")
    /\ EndReq(q)
    /\ UNCHANGED <<vectors, job, faults>>

\* The row vanished under the handler: its statement or refresh raises.
RequestRowGone(q) ==
    /\ req[q].pc # "idle" /\ ~Exists(req[q].target)
    /\ EndReq(q)
    /\ UNCHANGED <<row, vectors, job, faults>>

\* Chunks and vectors go with the document, which goes with its project.
Delete(t) ==
    /\ "delete" \in Ops /\ Exists(t)
    /\ row' = [u \in Targets |-> IF u \in {t, "document"}
                                   THEN [row[u] EXCEPT !.status = "absent"]
                                   ELSE row[u]]
    /\ vectors' = {}
    /\ UNCHANGED <<req, job, faults>>

RequestStep(q) ==
    \/ NothingToDo(q) \/ Queue(q) \/ MarkCancelling(q) \/ Revoke(q)
    \/ MarkCancelled(q) \/ RequestRowGone(q)
    \/ \E j \in Jobs : Schedule(q, j)

-----------------------------------------------------------------------------
(* Background tasks *)

EndJob(j) == job' = [job EXCEPT ![j] = IdleJob]

JobGoes(j, pc) == job' = [job EXCEPT ![j] = [@ EXCEPT !.pc = pc]]

\* The job goes on with the row as it is now.
JobSees(j, pc) ==
    job' = [job EXCEPT ![j] = [@ EXCEPT !.pc = pc, !.seen = row[job[j].target]]]

\* The exception handlers start from a new session and know the target only.
Recovers(j, pc) ==
    job' = [job EXCEPT ![j] = [IdleJob EXCEPT !.pc = pc, !.target = job[j].target]]

StatusOf(j) == row[job[j].target].status

\* _document_embedding_cancelled, _project_embedding_cancelled.
Cancelled(j) == StatusOf(j) \in {"cancelling", "cancelled", "absent"}

\* The guard of the job: it goes on when it finds its target QUEUED.
Claim(j) ==
    /\ job[j].pc = "begin"
    /\ IF StatusOf(j) = "queued" THEN JobSees(j, "claim") ELSE EndJob(j)
    /\ UNCHANGED <<row, vectors, req, faults>>

CommitProcessing(j) ==
    /\ job[j].pc = "claim"
    /\ WriteStatus(job[j].target, job[j].seen, "processing")
    /\ JobGoes(j, "select")
    /\ UNCHANGED <<vectors, req, faults>>

\* The chunks there are.
Present == IF Exists("document") THEN Chunks ELSE {}

\* A forced rebuild deletes the vectors of the configured provider and embeds
\* every chunk; the others embed the chunks that provider has no vector for.
Select(j, p) ==
    /\ job[j].pc = "select"
    /\ vectors' = IF job[j].force THEN vectors \ (Chunks \X {p}) ELSE vectors
    /\ job' = [job EXCEPT ![j] =
                 [@ EXCEPT !.pc = "embed", !.seen = NoRow, !.provider = p,
                           !.todo = {c \in Present : <<c, p>> \notin vectors'}]]
    /\ UNCHANGED <<row, req, faults>>

\* The loop is over.
Embedded(j) ==
    /\ job[j].pc = "embed" /\ job[j].todo = {}
    /\ JobGoes(j, "finish")
    /\ UNCHANGED <<row, vectors, req, faults>>

\* The first should_cancel() of an iteration.
Stop(j) ==
    /\ job[j].pc \in {"embed", "recheck"} /\ job[j].todo # {} /\ Cancelled(j)
    /\ Recovers(j, "stopped")
    /\ UNCHANGED <<row, vectors, req, faults>>

\* The first chunk that is left is embedded, by p: by another provider than so
\* far only as long as this job has committed no vector.
Embed(j, p) ==
    /\ job[j].pc = "embed" /\ job[j].todo # {} /\ ~Cancelled(j)
    /\ IF job[j].created /\ p # job[j].provider
         THEN Recovers(j, "raised")
         ELSE job' = [job EXCEPT ![j] = [@ EXCEPT !.pc = "recheck", !.provider = p]]
    /\ UNCHANGED <<row, vectors, req, faults>>

\* No provider answers.
EmbedFails(j) ==
    /\ job[j].pc = "embed" /\ job[j].todo # {} /\ ~Cancelled(j)
    /\ Recovers(j, "raised")
    /\ UNCHANGED <<row, vectors, req, faults>>

Recheck(j) ==
    /\ job[j].pc = "recheck" /\ ~Cancelled(j)
    /\ JobGoes(j, "insert")
    /\ UNCHANGED <<row, vectors, req, faults>>

FirstOf(todo) == CHOOSE c \in todo : \A d \in todo : c <= d

\* One vector, committed at once; the constraints may refuse it.
Insert(j) ==
    LET c == FirstOf(job[j].todo)
        v == <<c, job[j].provider>> IN
    /\ job[j].pc = "insert"
    /\ IF c \in Present /\ v \notin vectors
         THEN /\ vectors' = vectors \cup {v}
              /\ job' = [job EXCEPT ![j] = [@ EXCEPT !.pc = "embed", !.created = TRUE,
                                                     !.todo = job[j].todo \ {c}]]
         ELSE Recovers(j, "raised") /\ UNCHANGED vectors
    /\ UNCHANGED <<row, req, faults>>

\* Mutant: the job does not look for a cancel once everything is embedded.
FinishAny(j) ==
    /\ job[j].pc = "finish" /\ Exists(job[j].target)
    /\ JobSees(j, "current")
    /\ UNCHANGED <<row, vectors, req, faults>>

\* The refresh, and what was cancelled meanwhile.
Finish(j) ==
    /\ job[j].pc = "finish" /\ Exists(job[j].target)
    /\ JobSees(j, IF Cancelled(j) THEN "cancelled" ELSE "current")
    /\ UNCHANGED <<row, vectors, req, faults>>

\* mark_embeddings_current.
MarkDocument(j) ==
    /\ job[j].pc = "current" /\ job[j].target = "document" /\ Exists("document")
    /\ row' = [row EXCEPT !["document"] =
                 Merged("document", job[j].seen, Done(job[j].provider))]
    /\ EndJob(j)
    /\ UNCHANGED <<vectors, req, faults>>

\* mark_project_embeddings_current: every document that has chunks (loaded and
\* written in one step here) ...
MarkProjectDocuments(j) ==
    /\ job[j].pc = "current" /\ job[j].target = "project"
    /\ row' = IF Present # {} THEN [row EXCEPT !["document"] = Done(job[j].provider)]
                              ELSE row
    /\ JobGoes(j, "synced")
    /\ UNCHANGED <<vectors, req, faults>>

\* ... and then the project itself.
MarkProject(j) ==
    /\ job[j].pc = "synced"
    /\ WriteStatus("project", job[j].seen, "completed")
    /\ EndJob(j)
    /\ UNCHANGED <<vectors, req, faults>>

\* The recovery session of a job that was told to stop, whatever it finds.
RecoverStopped(j) ==
    /\ job[j].pc = "stopped" /\ Exists(job[j].target)
    /\ JobSees(j, "cancelled")
    /\ UNCHANGED <<row, vectors, req, faults>>

CommitCancelled(j) ==
    /\ job[j].pc = "cancelled"
    /\ WriteStatus(job[j].target, job[j].seen, "cancelled")
    /\ EndJob(j)
    /\ UNCHANGED <<vectors, req, faults>>

\* Mutant: the failure is logged and not persisted.
RecoverNothing(j) ==
    /\ job[j].pc = "raised" /\ Exists(job[j].target)
    /\ EndJob(j)
    /\ UNCHANGED <<row, vectors, req, faults>>

\* The recovery session of a job that failed gives way to a cancel.
Recover(j) ==
    /\ job[j].pc = "raised" /\ Exists(job[j].target)
    /\ IF Cancelled(j) THEN EndJob(j) ELSE JobSees(j, "failed")
    /\ UNCHANGED <<row, vectors, req, faults>>

CommitFailed(j) ==
    /\ job[j].pc = "failed"
    /\ WriteStatus(job[j].target, job[j].seen, "failed")
    /\ EndJob(j)
    /\ UNCHANGED <<vectors, req, faults>>

\* The target was deleted: statements raise, nothing is left to fail.
JobRowGone(j) ==
    /\ job[j].pc \in {"claim", "finish", "current", "synced", "stopped",
                      "cancelled", "raised", "failed"}
    /\ job[j].pc = "current" => job[j].target = "document"
    /\ ~Exists(job[j].target)
    /\ EndJob(j)
    /\ UNCHANGED <<row, vectors, req, faults>>

JobStep(j) ==
    \/ Claim(j) \/ CommitProcessing(j) \/ Embedded(j) \/ Stop(j)
    \/ EmbedFails(j) \/ Recheck(j) \/ Insert(j) \/ Finish(j)
    \/ MarkDocument(j) \/ MarkProjectDocuments(j) \/ MarkProject(j)
    \/ RecoverStopped(j) \/ CommitCancelled(j) \/ Recover(j)
    \/ CommitFailed(j) \/ JobRowGone(j)
    \/ \E p \in Providers : Select(j, p) \/ Embed(j, p)

-----------------------------------------------------------------------------
(* Faults *)

Fault(kind) == kind \in Faults /\ faults < MaxFaults /\ faults' = faults + 1

\* Something raises before the job's try block: load_provider_config, or, once
\* PROCESSING is committed, EmbeddingService, which needs an active provider.
BeginFails(j) ==
    /\ Fault("begin") /\ job[j].pc \in {"begin", "select"}
    /\ EndJob(j)
    /\ UNCHANGED <<row, vectors, req>>

\* The API process restarts: its requests and background tasks are lost.
ApiRestart ==
    /\ Fault("restart")
    /\ req' = [q \in Requests |-> IdleReq]
    /\ job' = [j \in Jobs |-> IdleJob]
    /\ UNCHANGED <<row, vectors>>

Next == \/ \E q \in Requests : RequestStep(q)
        \/ \E q \in Requests, op \in Ops, t \in Targets : Read(q, op, t)
        \/ \E t \in Targets : Delete(t)
        \/ \E j \in Jobs : JobStep(j) \/ BeginFails(j)
        \/ ApiRestart

Spec == Init /\ [][Next]_vars

-----------------------------------------------------------------------------
(* Properties *)

\* Rows, vectors and local states are well formed: no vector outlives its
\* document, and a job that is about to insert has a chunk to insert for.
TypeOK ==
    /\ row \in [Targets -> Row]
    /\ vectors \subseteq Present \X Providers
    /\ req \in [Requests -> ReqState]
    /\ job \in [Jobs -> JobState]
    /\ \A j \in Jobs : job[j].pc \in {"recheck", "insert"} =>
                          job[j].todo # {} /\ job[j].provider # None
    /\ faults \in 0..MaxFaults

\* A document or a project shown QUEUED or PROCESSING, statuses that refuse
\* every further rebuild, has a job at work on it or a handler that is about
\* to schedule one, whatever was cancelled, resumed and overwritten before.
ActiveHasJob ==
    \A t \in Targets : row[t].status \in Running /\ faults = 0 =>
        \/ \E j \in Jobs : job[j].pc # "idle" /\ job[j].target = t
        \/ \E q \in Requests : req[q].pc = "schedule" /\ req[q].target = t

\* Nobody has already passed the read on which it will overwrite the row.
Quiet(t) ==
    /\ \A j \in Jobs : job[j].target = t =>
          job[j].pc \notin {"claim", "current", "synced", "failed"}
    /\ \A q \in Requests : ~ /\ req[q].target = t /\ req[q].pc = "cancel"
                             /\ req[q].seen.status \in Active

\* A cancel is final: jobs that are scheduled late, that still embed, finish
\* or fail leave the target CANCELLED until a user asks for it again, deletes
\* it or (for a document) a sync of the whole project completes.
CancelledIsStable ==
    [][\A t \in Targets : row[t].status = "cancelled" /\ Quiet(t) =>
          \/ row'[t].status = "cancelled" /\ Quiet(t)'
          \/ row'[t].status = "absent"
          \/ \E q \in Requests : req[q].target = t /\ req'[q].pc = "schedule"
                                   /\ req[q].pc # "schedule"
          \/ t = "document" /\ \E j \in Jobs : job[j].pc = "current"
                                                 /\ job'[j].pc = "synced"]_vars

\* What "embeddings are generated for every persisted chunk" and are recorded
\* with the document's provider comes to: a document shown COMPLETED has, for
\* every chunk, a vector of the provider its row names.
CompletedIsWhole ==
    row["document"].status = "completed" =>
        Present \X {row["document"].provider} \subseteq vectors
=============================================================================
