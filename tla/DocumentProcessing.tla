------------------------ MODULE DocumentProcessing ------------------------
(***************************************************************************)
(* The processing of one uploaded document: its row, its chunks, the API   *)
(* handlers that queue, cancel, retry and delete, the agent's tool that    *)
(* queues, and the workers that execute documents.process.                 *)
(*                                                                         *)
(* A worker does all its work in one transaction: start_processing flushes *)
(* PROCESSING, which nobody else sees, and which keeps the row lock until  *)
(* the transaction ends.  Every other write waits for that lock.  A write  *)
(* changes the columns that differ from the row the session has loaded     *)
(* (`seen').  embedding_status, which these writes set along with status,  *)
(* is left to the embedding jobs, whose guard is the only reader of it.    *)
(***************************************************************************)
EXTENDS Naturals, FiniteSets

CONSTANTS
    Requests,    \* concurrent API requests
    Workers,     \* Celery worker processes
    TaskIds,     \* message ids the broker may assign
    None,
    Ops,         \* operations users perform
    Faults,      \* kinds of fault that may happen
    MaxFaults    \* bound: faults in a behaviour

ASSUME DocumentsAssumption ==
    /\ None \notin TaskIds \cup Workers
    /\ Ops \subseteq {"process", "tool", "cancel", "retry", "delete"}
    /\ MaxFaults \in Nat

Active    == {"queued", "processing", "cancelling"}
Status    == Active \cup {"uploaded", "cancelled", "indexed", "failed", "absent"}
Row       == [status: Status, task: TaskIds \cup {None}]

VARIABLES
    row,         \* the committed columns of the documents row
    copies,      \* how many sets of chunks (with vectors) are committed
    lock,        \* the worker whose transaction has updated the row, or None
    queue,       \* ids of the documents.process messages in the broker
    used,        \* ids the broker has assigned
    revoked,     \* ids the workers have been told to terminate
    req,         \* the local state of each API request
    wk,          \* the local state of each worker process
    faults       \* faults so far

broker == <<queue, used, revoked>>
vars   == <<row, copies, lock, broker, req, wk, faults>>

\* save_uploaded: the row an upload commits.
Uploaded == [status |-> "uploaded", task |-> None]

IdleReq == [pc |-> "idle", tool |-> FALSE, seen |-> Uploaded, task |-> None]
IdleWk  == [pc |-> "idle", id |-> None, seen |-> Uploaded, replaced |-> 0]

ReqState == [pc: {"idle", "process", "cancel", "retry", "delete", "enqueue",
                  "setId", "restore", "revoke", "cancelled", "requeue"},
             tool: BOOLEAN, seen: Row, task: TaskIds \cup {None}]
WkState  == [pc: {"idle", "begin", "start", "chunk", "embed",
                  "failing", "failed", "recover", "refailed"},
             id: TaskIds \cup {None}, seen: Row, replaced: Nat]

Init ==
    /\ row     = Uploaded
    /\ copies  = 0
    /\ lock    = None
    /\ queue   = {}
    /\ used    = {}
    /\ revoked = {}
    /\ req     = [q \in Requests |-> IdleReq]
    /\ wk      = [w \in Workers |-> IdleWk]
    /\ faults  = 0

Exists == row.status # "absent"

\* UPDATE and commit: the columns that differ from the loaded row, once no
\* transaction holds the row; no statement when nothing differs.
Write(seen, new) ==
    /\ Exists
    /\ new = seen \/ lock = None
    /\ row' = [c \in DOMAIN row |-> IF new[c] = seen[c] THEN row[c] ELSE new[c]]

-----------------------------------------------------------------------------
(* API handlers *)

EndReq(q) == req' = [req EXCEPT ![q] = IdleReq]

\* A commit: what was loaded is refreshed before it is used again.
ReqGoes(q, pc) == req' = [req EXCEPT ![q] = [@ EXCEPT !.pc = pc, !.seen = Uploaded]]

\* A refresh: the handler goes on with the row as it is now.
ReqSees(q, pc) == req' = [req EXCEPT ![q] = [@ EXCEPT !.pc = pc, !.seen = row]]

\* get_owned_document, or the tool's get_by_id.
ReadDocument(q, op) ==
    /\ op \in Ops /\ req[q].pc = "idle" /\ Exists
    /\ req' = [req EXCEPT ![q] =
                 [IdleReq EXCEPT !.pc = IF op = "tool" THEN "process" ELSE op,
                                 !.tool = (op = "tool"), !.seen = row]]
    /\ UNCHANGED <<row, copies, lock, broker, wk, faults>>

\* What process (and the tool) leaves alone.
Busy(q) == IF req[q].tool THEN {"queued", "processing"} ELSE Active

\* A job is active already, or there is none to cancel.
NothingToDo(q) ==
    /\ \/ req[q].pc = "process" /\ req[q].seen.status \in Busy(q)
       \/ req[q].pc = "cancel" /\ req[q].seen.status \notin Active
    /\ EndReq(q)
    /\ UNCHANGED <<row, copies, lock, broker, wk, faults>>

QueueProcessing(q) ==
    LET seen == req[q].seen IN
    /\ req[q].pc = "process" /\ seen.status \notin Busy(q)
    /\ Write(seen, [seen EXCEPT !.status = "queued",
                                !.task = IF req[q].tool THEN None ELSE @])
    /\ ReqGoes(q, "enqueue")
    /\ UNCHANGED <<copies, lock, broker, wk, faults>>

\* The refresh that follows the commit, and task.delay().
Enqueue(q, t) ==
    /\ req[q].pc = "enqueue" /\ Exists /\ t \notin used
    /\ used' = used \cup {t} /\ queue' = queue \cup {t}
    /\ req' = [req EXCEPT ![q] = [@ EXCEPT !.pc = "setId", !.seen = row,
                                           !.task = t]]
    /\ UNCHANGED <<row, copies, lock, revoked, wk, faults>>

\* Mutant: a 503 without the compensating write.
EnqueueFailsSilently(q) ==
    /\ req[q].pc = "enqueue" /\ Exists
    /\ EndReq(q)
    /\ UNCHANGED <<row, copies, lock, broker, wk, faults>>

\* The broker is unreachable: 503; the tool has nothing to catch it.
EnqueueFails(q) ==
    /\ req[q].pc = "enqueue" /\ Exists
    /\ IF req[q].tool THEN EndReq(q) ELSE ReqSees(q, "restore")
    /\ UNCHANGED <<row, copies, lock, broker, wk, faults>>

RestoreUploaded(q) ==
    /\ req[q].pc = "restore"
    /\ Write(req[q].seen, [req[q].seen EXCEPT !.status = "uploaded"])
    /\ EndReq(q)
    /\ UNCHANGED <<copies, lock, broker, wk, faults>>

SetTaskId(q) ==
    /\ req[q].pc = "setId"
    /\ Write(req[q].seen, [req[q].seen EXCEPT !.task = req[q].task])
    /\ EndReq(q)
    /\ UNCHANGED <<copies, lock, broker, wk, faults>>

MarkCancelling(q) ==
    /\ req[q].pc = "cancel" /\ req[q].seen.status \in Active
    /\ Write(req[q].seen, [req[q].seen EXCEPT !.status = "cancelling"])
    /\ ReqGoes(q, "revoke")
    /\ UNCHANGED <<copies, lock, broker, wk, faults>>

\* The refresh loads the id that is revoked, if there is one.
RevokeTask(q) ==
    /\ req[q].pc = "revoke" /\ Exists
    /\ revoked' = revoked \cup ({row.task} \ {None})
    /\ ReqSees(q, "cancelled")
    /\ UNCHANGED <<row, copies, lock, queue, used, wk, faults>>

\* The broker is unreachable: 503, and the document stays CANCELLING.
RevokeFails(q) ==
    /\ req[q].pc = "revoke" /\ Exists /\ row.task # None
    /\ EndReq(q)
    /\ UNCHANGED <<row, copies, lock, broker, wk, faults>>

MarkCancelled(q) ==
    /\ req[q].pc = "cancelled"
    /\ Write(req[q].seen, [req[q].seen EXCEPT !.status = "cancelled"])
    /\ EndReq(q)
    /\ UNCHANGED <<copies, lock, broker, wk, faults>>

\* retry_processing puts the row back to UPLOADED whatever it was ...
ResetForRetry(q) ==
    /\ req[q].pc = "retry"
    /\ Write(req[q].seen, [req[q].seen EXCEPT !.status = "uploaded"])
    /\ ReqGoes(q, "requeue")
    /\ UNCHANGED <<copies, lock, broker, wk, faults>>

\* ... refreshes it, and goes on like a process request.
RefreshForRetry(q) ==
    /\ req[q].pc = "requeue" /\ Exists
    /\ ReqSees(q, "process")
    /\ UNCHANGED <<row, copies, lock, broker, wk, faults>>

\* DELETE waits for the row too; chunks and vectors go by cascade.
DeleteDocument(q) ==
    /\ req[q].pc = "delete" /\ Exists /\ lock = None
    /\ row' = [row EXCEPT !.status = "absent"]
    /\ copies' = 0
    /\ EndReq(q)
    /\ UNCHANGED <<lock, broker, wk, faults>>

\* The row vanished under the handler: its statement or refresh raises.
RequestRowGone(q) ==
    /\ req[q].pc # "idle" /\ ~Exists
    /\ EndReq(q)
    /\ UNCHANGED <<row, copies, lock, broker, wk, faults>>

RequestStep(q) ==
    \/ NothingToDo(q) \/ QueueProcessing(q) \/ EnqueueFails(q)
    \/ RestoreUploaded(q) \/ SetTaskId(q) \/ MarkCancelling(q)
    \/ RevokeTask(q) \/ RevokeFails(q) \/ MarkCancelled(q) \/ ResetForRetry(q)
    \/ RefreshForRetry(q) \/ DeleteDocument(q) \/ RequestRowGone(q)
    \/ \E t \in TaskIds : Enqueue(q, t)

-----------------------------------------------------------------------------
(* Celery workers *)

\* The end of a transaction: what it knew of the row is not used again.
WkGoes(w, pc) == wk' = [wk EXCEPT ![w] = [IdleWk EXCEPT !.pc = pc, !.id = wk[w].id]]

WkSees(w, pc) == wk' = [wk EXCEPT ![w] = [@ EXCEPT !.pc = pc, !.seen = row]]

\* The end of the session's transaction.
Release(w) == lock' = IF lock = w THEN None ELSE lock

\* The task is over, its session closed and its message acked.
Ack(w) == wk' = [wk EXCEPT ![w] = IdleWk] /\ Release(w)

Deliver(w, t) ==
    /\ wk[w].pc = "idle" /\ t \in queue
    /\ queue' = queue \ {t}
    /\ IF t \in revoked
         THEN UNCHANGED wk
         ELSE wk' = [wk EXCEPT ![w] = [IdleWk EXCEPT !.pc = "begin", !.id = t]]
    /\ UNCHANGED <<row, copies, lock, used, revoked, req, faults>>

\* The guard of the task: it goes on when it finds the document QUEUED.
Claim(w) ==
    /\ wk[w].pc = "begin" /\ row.status = "queued"
    /\ WkSees(w, "start")
    /\ UNCHANGED <<row, copies, lock, broker, req, faults>>

Skip(w) ==
    /\ wk[w].pc = "begin" /\ row.status # "queued"
    /\ Ack(w)
    /\ UNCHANGED <<row, copies, broker, req, faults>>

\* Mutant: start_processing without the flush, hence without the lock.
StartWithoutFlush(w) ==
    /\ wk[w].pc = "start" /\ Exists
    /\ WkGoes(w, "chunk")
    /\ UNCHANGED <<row, copies, lock, broker, req, faults>>

\* start_processing: the flush takes the row and shows PROCESSING to nobody.
StartProcessing(w) ==
    /\ wk[w].pc = "start" /\ Exists /\ lock = None
    /\ lock' = w
    /\ WkGoes(w, "chunk")
    /\ UNCHANGED <<row, copies, broker, req, faults>>

\* Mutant: the chunks of an earlier processing are not deleted.
AddChunks(w) ==
    /\ wk[w].pc = "chunk"
    /\ wk' = [wk EXCEPT ![w] = [@ EXCEPT !.pc = "embed", !.replaced = 0]]
    /\ UNCHANGED <<row, copies, lock, broker, req, faults>>

\* The text is extracted, the committed chunks deleted, the new ones flushed.
ReplaceChunks(w) ==
    /\ wk[w].pc = "chunk"
    /\ wk' = [wk EXCEPT ![w] = [@ EXCEPT !.pc = "embed", !.replaced = copies]]
    /\ UNCHANGED <<row, copies, lock, broker, req, faults>>

\* The vectors are flushed and complete_processing commits it all.
CompleteProcessing(w) ==
    /\ wk[w].pc = "embed"
    /\ row' = [row EXCEPT !.status = "indexed"]
    /\ copies' = copies - wk[w].replaced + 1
    /\ Ack(w)
    /\ UNCHANGED <<broker, req, faults>>

\* Mutant: the failed transaction is not rolled back.
ProcessRaisesNoRollback(w) ==
    /\ wk[w].pc \in {"chunk", "embed"}
    /\ WkGoes(w, "failing")
    /\ UNCHANGED <<row, copies, lock, broker, req, faults>>

\* Mutant: a document that cannot be processed is tried again and again.
ProcessRaisesForever(w) ==
    /\ wk[w].pc \in {"chunk", "embed"}
    /\ WkGoes(w, "start") /\ Release(w)
    /\ UNCHANGED <<row, copies, broker, req, faults>>

\* Reading, extracting, chunking or embedding raises: all is rolled back.
ProcessRaises(w) ==
    /\ wk[w].pc \in {"chunk", "embed"}
    /\ WkGoes(w, "failing") /\ Release(w)
    /\ UNCHANGED <<row, copies, broker, req, faults>>

\* fail_processing in the session that was rolled back: its document is
\* expired, so that reading the status loads it or raises.
FailInSession(w) ==
    /\ wk[w].pc = "failing" /\ Exists
    /\ \/ row.status # "cancelled" /\ WkSees(w, "failed")
       \/ WkGoes(w, "recover")
    /\ UNCHANGED <<row, copies, lock, broker, req, faults>>

CommitFailed(w) ==
    /\ wk[w].pc \in {"failed", "refailed"}
    /\ Write(wk[w].seen, [wk[w].seen EXCEPT !.status = "failed"])
    /\ IF wk[w].pc = "failed" THEN WkGoes(w, "recover") /\ UNCHANGED lock
                              ELSE Ack(w)
    /\ UNCHANGED <<copies, broker, req, faults>>

\* Mutant: the recovery session fails whatever it finds.
RecoverAny(w) ==
    /\ wk[w].pc = "recover" /\ Exists
    /\ WkSees(w, "refailed")
    /\ UNCHANGED <<row, copies, lock, broker, req, faults>>

\* The task's recovery session gives way to a cancel.
Recover(w) ==
    /\ wk[w].pc = "recover" /\ Exists
    /\ IF row.status \in {"cancelling", "cancelled"}
         THEN Ack(w)
         ELSE WkSees(w, "refailed") /\ UNCHANGED lock
    /\ UNCHANGED <<row, copies, broker, req, faults>>

\* The document was deleted: statements raise, nothing is left to fail.
WorkerRowGone(w) ==
    /\ wk[w].pc \in {"start", "failing", "failed", "recover", "refailed"}
    /\ ~Exists
    /\ Ack(w)
    /\ UNCHANGED <<row, copies, broker, req, faults>>

\* revoke(terminate=True) reached the process: killed, rolled back, acked.
Terminated(w) ==
    /\ wk[w].pc # "idle" /\ wk[w].id \in revoked
    /\ Ack(w)
    /\ UNCHANGED <<row, copies, broker, req, faults>>

WorkerStep(w) ==
    \/ Claim(w) \/ Skip(w) \/ StartProcessing(w) \/ ReplaceChunks(w)
    \/ CompleteProcessing(w) \/ ProcessRaises(w) \/ FailInSession(w)
    \/ CommitFailed(w) \/ Recover(w) \/ WorkerRowGone(w)
    \/ \E t \in queue : Deliver(w, t)

-----------------------------------------------------------------------------
(* Faults *)

Fault(kind) == kind \in Faults /\ faults < MaxFaults /\ faults' = faults + 1

\* The process dies: its message, acked late, is delivered again or lost.
WorkerCrash(w) ==
    /\ Fault("crash") /\ wk[w].pc # "idle"
    /\ Ack(w)
    /\ queue' \in {queue, queue \cup {wk[w].id}}
    /\ UNCHANGED <<row, copies, used, revoked, req>>

\* load_provider_config raises before the task's try block.
BeginFails(w) ==
    /\ Fault("begin") /\ wk[w].pc = "begin"
    /\ Ack(w)
    /\ UNCHANGED <<row, copies, broker, req>>

\* The visibility timeout expires while the worker is still busy.
Redeliver(w) ==
    /\ Fault("redeliver") /\ wk[w].pc # "idle"
    /\ queue' = queue \cup {wk[w].id}
    /\ UNCHANGED <<row, copies, lock, used, revoked, req, wk>>

\* The API process restarts in the middle of its requests.
ApiRestart ==
    /\ Fault("restart")
    /\ req' = [q \in Requests |-> IdleReq]
    /\ UNCHANGED <<row, copies, lock, broker, wk>>

Environment ==
    \/ \E w \in Workers : \/ WorkerCrash(w) \/ BeginFails(w) \/ Redeliver(w)
                          \/ Terminated(w)
    \/ ApiRestart

Next == \/ \E q \in Requests : RequestStep(q) \/ \E op \in Ops : ReadDocument(q, op)
        \/ \E w \in Workers : WorkerStep(w)
        \/ Environment

Spec == Init /\ [][Next]_vars

\* A request handler and a worker go on when they can.
Fairness == /\ \A q \in Requests : WF_vars(RequestStep(q))
            /\ \A w \in Workers : WF_vars(WorkerStep(w))

FairSpec == Spec /\ Fairness
-----------------------------------------------------------------------------
(* Properties *)

\* The row lock belongs to the worker that is between its first flush and the
\* end of its transaction, and the row is still there.
LockOK ==
    /\ \A w \in Workers : lock = w <=> wk[w].pc \in {"chunk", "embed"}
    /\ lock # None => lock \in Workers /\ Exists

\* Rows, messages and local states are well formed, the transactions of the
\* workers included.
TypeOK ==
    /\ row \in Row /\ copies \in Nat
    /\ queue \subseteq TaskIds /\ used \subseteq TaskIds /\ revoked \subseteq TaskIds
    /\ req \in [Requests -> ReqState]
    /\ wk \in [Workers -> WkState]
    /\ \A w \in Workers : wk[w].pc # "idle" => wk[w].id \in TaskIds
    /\ faults \in 0..MaxFaults
    /\ LockOK

\* Reprocessing leaves no stale or duplicate chunks, whatever was delivered
\* twice or killed: there is at most one set of them, an INDEXED document has
\* one, and a deleted one has none.
IndexedIsWhole ==
    /\ copies <= 1
    /\ row.status = "indexed" => copies = 1
    /\ row.status = "absent" => copies = 0

\* A document does not wait for nobody: while it is QUEUED a message, a
\* worker or a handler exists that will take it out of QUEUED.
Attends(w) == wk[w].pc \in {"begin", "start", "chunk", "embed", "failing",
                            "failed", "recover", "refailed"}

QueuedHasJob ==
    row.status = "queued" =>
        \/ queue \ revoked # {}
        \/ \E w \in Workers : Attends(w)
        \/ \E q \in Requests : req[q].pc \in {"enqueue", "restore", "cancelled"}

\* Nobody has already passed the read on which it will overwrite the row.
Quiet ==
    /\ \A w \in Workers : wk[w].pc \in {"idle", "begin", "failing", "recover"}
    /\ \A q \in Requests : CASE req[q].pc = "restore" -> FALSE
                             [] req[q].pc = "enqueue" -> req[q].tool
                             [] req[q].pc = "cancel"  -> req[q].seen.status \notin Active
                             [] OTHER -> TRUE

\* A cancel of a job that no worker has started is final: messages that
\* arrive late, workers that fail and their recovery sessions leave the
\* document CANCELLED until a user deletes it or asks for it again.
CancelledIsStable ==
    [][row.status = "cancelled" /\ Quiet =>
          \/ row'.status = "cancelled" /\ Quiet'
          \/ row'.status = "absent"
          \/ \E q \in Requests : \/ req[q].pc = "process" /\ req'[q].pc = "enqueue"
                                 \/ req[q].pc = "retry" /\ req'[q].pc = "requeue"]_vars

\* Unless a fault happens, every document that is queued is eventually
\* processed, failed, cancelled, put back or deleted.
Settles == row.status = "queued" /\ faults = 0
             ~> row.status # "queued" \/ faults > 0
=============================================================================
