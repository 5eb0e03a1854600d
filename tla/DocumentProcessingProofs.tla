---------------------- MODULE DocumentProcessingProofs ----------------------
(***************************************************************************)
(* Proofs about DocumentProcessing.  The chunks stay clean because of the  *)
(* row lock that start_processing's flush takes: between a worker's DELETE *)
(* of the old chunks and its commit nobody else changes them (Replaces),   *)
(* which is what the invariant adds to the types and the locks.            *)
(*                                                                         *)
(* A QUEUED document has somebody who will process it (Served), and nobody *)
(* takes back a cancel that nobody has read past (CancelsAreFinal).        *)
(***************************************************************************)
EXTENDS DocumentProcessing, TLAPS

\* What the transaction has deleted is still all there was to delete.
Replaces == \A w \in Workers : wk[w].pc = "embed" => wk[w].replaced = copies

IInv == TypeOK /\ IndexedIsWhole /\ Replaces

\* The parts of TypeOK by variable.
ReqOK == req \in [Requests -> ReqState]
WkOK  == /\ wk \in [Workers -> WkState]
         /\ \A w \in Workers : wk[w].pc # "idle" => wk[w].id \in TaskIds
BrokerOK == queue \subseteq TaskIds /\ used \subseteq TaskIds /\ revoked \subseteq TaskIds

USE DocumentsAssumption DEF Active, Status, Row

-----------------------------------------------------------------------------
(* What a step does to the local states *)

LEMMA UploadedTyped == Uploaded \in Row /\ IdleReq \in ReqState /\ IdleWk \in WkState
  BY DEF Uploaded, IdleReq, IdleWk, ReqState, WkState

\* A write keeps the row well formed, and the row where it was.
LEMMA WriteTyped ==
  ASSUME row \in Row, NEW seen \in Row, NEW new \in Row, Write(seen, new),
         new.status = seen.status \/ new.status \notin {"absent", "indexed"}
  PROVE  /\ row' \in Row /\ Exists'
         /\ row'.status = "indexed" => row.status = "indexed"
<1>1. /\ DOMAIN row = {"status", "task"}
      /\ row' = [c \in DOMAIN row |-> IF new[c] = seen[c] THEN row[c] ELSE new[c]]
      /\ Exists
  BY DEF Write
<1>2. row' = [status |-> IF new.status = seen.status THEN row.status ELSE new.status,
              task |-> IF new.task = seen.task THEN row.task ELSE new.task]
  BY <1>1
<1> QED BY <1>1, <1>2 DEF Exists

\* The moves of a request keep its local state well formed.
LEMMA RequestMoves ==
  ASSUME ReqOK, row \in Row, NEW q \in Requests,
         NEW pc \in {"idle", "process", "cancel", "retry", "delete", "enqueue",
                     "setId", "restore", "revoke", "cancelled", "requeue"}
  PROVE  /\ EndReq(q) => ReqOK'
         /\ ReqGoes(q, pc) => ReqOK'
         /\ ReqSees(q, pc) => ReqOK'
<1>1. req[q] \in ReqState BY DEF ReqOK
<1>2. /\ [req[q] EXCEPT !.pc = pc, !.seen = Uploaded] \in ReqState
      /\ [req[q] EXCEPT !.pc = pc, !.seen = row] \in ReqState
      /\ IdleReq \in ReqState
  BY <1>1, UploadedTyped DEF ReqState
<1> QED BY <1>2 DEF ReqOK, EndReq, ReqGoes, ReqSees

\* A step that writes the row without touching the chunks or the lock, and
\* moves a request, preserves the invariant.
LEMMA RequestFrame ==
  ASSUME IInv, row' \in Row, Exists', row'.status = "indexed" => row.status = "indexed",
         ReqOK', BrokerOK', UNCHANGED <<copies, lock, wk, faults>>
  PROVE  IInv'
<1>1. TypeOK' BY DEF IInv, TypeOK, LockOK, ReqOK, BrokerOK
<1>2. IndexedIsWhole' BY DEF IInv, IndexedIsWhole, Exists
<1>3. Replaces' BY DEF IInv, Replaces
<1> QED BY <1>1, <1>2, <1>3 DEF IInv

\* So does one that leaves the row alone.
LEMMA RequestOnly ==
  ASSUME IInv, ReqOK', BrokerOK', UNCHANGED <<row, copies, lock, wk, faults>>
  PROVE  IInv'
<1>1. TypeOK' BY DEF IInv, TypeOK, LockOK, ReqOK, BrokerOK, Exists
<1>2. IndexedIsWhole' BY DEF IInv, IndexedIsWhole
<1>3. Replaces' BY DEF IInv, Replaces
<1> QED BY <1>1, <1>2, <1>3 DEF IInv

-----------------------------------------------------------------------------
(* The steps of the API *)

\* A handler starts with the row it loads.
LEMMA ReadKeeps ==
  ASSUME IInv, NEW q \in Requests, NEW op, ReadDocument(q, op),
         op \in {"process", "tool", "cancel", "retry", "delete"}
  PROVE  IInv'
<1>1. row \in Row /\ ReqOK /\ BrokerOK BY DEF IInv, TypeOK, ReqOK, BrokerOK
<1>2. [IdleReq EXCEPT !.pc = IF op = "tool" THEN "process" ELSE op,
                      !.tool = (op = "tool"), !.seen = row] \in ReqState
  BY <1>1, UploadedTyped DEF ReqState
<1>3. ReqOK' BY <1>1, <1>2 DEF ReadDocument, ReqOK
<1>4. BrokerOK' BY <1>1 DEF ReadDocument, BrokerOK, broker
<1> QED BY <1>3, <1>4, RequestOnly DEF ReadDocument

\* A handler's step keeps the invariant: only a delete touches the chunks, and
\* it waits for the row.
LEMMA RequestKeeps ==
  ASSUME IInv, NEW q \in Requests, RequestStep(q)
  PROVE  IInv'
<1>1. /\ row \in Row /\ ReqOK /\ BrokerOK
      /\ req[q] \in ReqState /\ req[q].seen \in Row
      /\ req[q].task \in TaskIds \cup {None} /\ req[q].tool \in BOOLEAN
  BY DEF IInv, TypeOK, ReqOK, BrokerOK, ReqState
<1>2. ASSUME UNCHANGED broker PROVE BrokerOK'
  BY <1>1, <1>2 DEF broker, BrokerOK
<1>3. CASE NothingToDo(q)
  <2>1. ReqOK' BY <1>1, <1>3, RequestMoves DEF NothingToDo
  <2> QED BY <1>2, <1>3, <2>1, RequestOnly DEF NothingToDo
<1>4. CASE QueueProcessing(q)
  <2>1. ReqOK' BY <1>1, <1>4, RequestMoves DEF QueueProcessing
  <2> DEFINE new == [req[q].seen EXCEPT !.status = "queued",
                                        !.task = IF req[q].tool THEN None ELSE @]
  <2>2. new \in Row /\ new.status = "queued" BY <1>1
  <2>3. Write(req[q].seen, new) BY <1>4 DEF QueueProcessing
  <2> HIDE DEF new
  <2>4. /\ row' \in Row /\ Exists'
        /\ row'.status = "indexed" => row.status = "indexed"
    BY <1>1, <2>2, <2>3, WriteTyped
  <2> QED BY <1>2, <1>4, <2>1, <2>4, RequestFrame DEF QueueProcessing
<1>5. CASE EnqueueFails(q)
  <2>1. ReqOK' BY <1>1, <1>5, RequestMoves DEF EnqueueFails
  <2> QED BY <1>2, <1>5, <2>1, RequestOnly DEF EnqueueFails
<1>6. CASE RestoreUploaded(q)
  <2>1. ReqOK' BY <1>1, <1>6, RequestMoves DEF RestoreUploaded
  <2> DEFINE new == [req[q].seen EXCEPT !.status = "uploaded"]
  <2>2. new \in Row /\ new.status = "uploaded" BY <1>1
  <2>3. Write(req[q].seen, new) BY <1>6 DEF RestoreUploaded
  <2> HIDE DEF new
  <2>4. /\ row' \in Row /\ Exists'
        /\ row'.status = "indexed" => row.status = "indexed"
    BY <1>1, <2>2, <2>3, WriteTyped
  <2> QED BY <1>2, <1>6, <2>1, <2>4, RequestFrame DEF RestoreUploaded
<1>7. CASE SetTaskId(q)
  <2>1. ReqOK' BY <1>1, <1>7, RequestMoves DEF SetTaskId
  <2> DEFINE new == [req[q].seen EXCEPT !.task = req[q].task]
  <2>2. new \in Row /\ new.status = req[q].seen.status BY <1>1
  <2>3. Write(req[q].seen, new) BY <1>7 DEF SetTaskId
  <2> HIDE DEF new
  <2>4. /\ row' \in Row /\ Exists'
        /\ row'.status = "indexed" => row.status = "indexed"
    BY <1>1, <2>2, <2>3, WriteTyped
  <2> QED BY <1>2, <1>7, <2>1, <2>4, RequestFrame DEF SetTaskId
<1>8. CASE MarkCancelling(q)
  <2>1. ReqOK' BY <1>1, <1>8, RequestMoves DEF MarkCancelling
  <2> DEFINE new == [req[q].seen EXCEPT !.status = "cancelling"]
  <2>2. new \in Row /\ new.status = "cancelling" BY <1>1
  <2>3. Write(req[q].seen, new) BY <1>8 DEF MarkCancelling
  <2> HIDE DEF new
  <2>4. /\ row' \in Row /\ Exists'
        /\ row'.status = "indexed" => row.status = "indexed"
    BY <1>1, <2>2, <2>3, WriteTyped
  <2> QED BY <1>2, <1>8, <2>1, <2>4, RequestFrame DEF MarkCancelling
<1>9. CASE RevokeTask(q)
  <2>1. ReqOK' BY <1>1, <1>9, RequestMoves DEF RevokeTask
  <2>2. BrokerOK' BY <1>1, <1>9 DEF RevokeTask, BrokerOK
  <2> QED BY <1>9, <2>1, <2>2, RequestOnly DEF RevokeTask
<1>10. CASE RevokeFails(q)
  <2>1. ReqOK' BY <1>1, <1>10, RequestMoves DEF RevokeFails
  <2> QED BY <1>2, <1>10, <2>1, RequestOnly DEF RevokeFails
<1>11. CASE MarkCancelled(q)
  <2>1. ReqOK' BY <1>1, <1>11, RequestMoves DEF MarkCancelled
  <2> DEFINE new == [req[q].seen EXCEPT !.status = "cancelled"]
  <2>2. new \in Row /\ new.status = "cancelled" BY <1>1
  <2>3. Write(req[q].seen, new) BY <1>11 DEF MarkCancelled
  <2> HIDE DEF new
  <2>4. /\ row' \in Row /\ Exists'
        /\ row'.status = "indexed" => row.status = "indexed"
    BY <1>1, <2>2, <2>3, WriteTyped
  <2> QED BY <1>2, <1>11, <2>1, <2>4, RequestFrame DEF MarkCancelled
<1>12. CASE ResetForRetry(q)
  <2>1. ReqOK' BY <1>1, <1>12, RequestMoves DEF ResetForRetry
  <2> DEFINE new == [req[q].seen EXCEPT !.status = "uploaded"]
  <2>2. new \in Row /\ new.status = "uploaded" BY <1>1
  <2>3. Write(req[q].seen, new) BY <1>12 DEF ResetForRetry
  <2> HIDE DEF new
  <2>4. /\ row' \in Row /\ Exists'
        /\ row'.status = "indexed" => row.status = "indexed"
    BY <1>1, <2>2, <2>3, WriteTyped
  <2> QED BY <1>2, <1>12, <2>1, <2>4, RequestFrame DEF ResetForRetry
<1>13. CASE RefreshForRetry(q)
  <2>1. ReqOK' BY <1>1, <1>13, RequestMoves DEF RefreshForRetry
  <2> QED BY <1>2, <1>13, <2>1, RequestOnly DEF RefreshForRetry
<1>14. CASE DeleteDocument(q)
  <2>1. ReqOK' BY <1>1, <1>14, RequestMoves DEF DeleteDocument
  <2>2. row' \in Row /\ row'.status = "absent" /\ copies' = 0
    BY <1>1, <1>14 DEF DeleteDocument
  <2>3. LockOK' /\ lock = None BY <1>14 DEF DeleteDocument, IInv, TypeOK, LockOK
  <2>4. TypeOK'
    BY <1>2, <1>14, <2>1, <2>2, <2>3 DEF DeleteDocument, IInv, TypeOK, ReqOK, BrokerOK
  <2>5. Replaces'
    BY <1>14, <2>3 DEF DeleteDocument, IInv, TypeOK, LockOK, Replaces
  <2> QED BY <2>2, <2>4, <2>5 DEF IInv, IndexedIsWhole
<1>15. CASE RequestRowGone(q)
  <2>1. ReqOK' BY <1>1, <1>15, RequestMoves DEF RequestRowGone
  <2> QED BY <1>2, <1>15, <2>1, RequestOnly DEF RequestRowGone
<1>16. ASSUME NEW t \in TaskIds, Enqueue(q, t) PROVE IInv'
  <2>1. [req[q] EXCEPT !.pc = "setId", !.seen = row, !.task = t] \in ReqState
    BY <1>1 DEF ReqState
  <2>2. ReqOK' BY <1>1, <1>16, <2>1 DEF Enqueue, ReqOK
  <2>3. BrokerOK' BY <1>1, <1>16 DEF Enqueue, BrokerOK
  <2> QED BY <1>16, <2>2, <2>3, RequestOnly DEF Enqueue
<1> QED BY <1>3, <1>4, <1>5, <1>6, <1>7, <1>8, <1>9, <1>10, <1>11, <1>12, <1>13,
           <1>14, <1>15, <1>16 DEF RequestStep

-----------------------------------------------------------------------------
(* The steps of the workers and of their environment *)

\* The moves of a worker keep its local state well formed, and it is outside
\* a transaction exactly when its new place is.
LEMMA WorkerMoves ==
  ASSUME WkOK, row \in Row, NEW w \in Workers, wk[w].pc # "idle",
         NEW pc \in {"begin", "start", "chunk", "embed", "failing", "failed",
                     "recover", "refailed"}
  PROVE  /\ WkGoes(w, pc) => WkOK' /\ wk' = [wk EXCEPT ![w] = wk'[w]] /\ wk'[w].pc = pc
         /\ WkSees(w, pc) => WkOK' /\ wk' = [wk EXCEPT ![w] = wk'[w]] /\ wk'[w].pc = pc
<1>1. wk[w] \in WkState /\ wk[w].id \in TaskIds BY DEF WkOK
<1>2. ASSUME WkGoes(w, pc)
      PROVE  WkOK' /\ wk' = [wk EXCEPT ![w] = wk'[w]] /\ wk'[w].pc = pc
  <2> DEFINE new == [IdleWk EXCEPT !.pc = pc, !.id = wk[w].id]
  <2>1. new \in WkState /\ new.pc = pc /\ new.id \in TaskIds
    BY <1>1, UploadedTyped DEF WkState
  <2>2. wk' = [wk EXCEPT ![w] = new] BY <1>2 DEF WkGoes
  <2> HIDE DEF new
  <2> QED BY <2>1, <2>2 DEF WkOK
<1>3. ASSUME WkSees(w, pc)
      PROVE  WkOK' /\ wk' = [wk EXCEPT ![w] = wk'[w]] /\ wk'[w].pc = pc
  <2> DEFINE new == [wk[w] EXCEPT !.pc = pc, !.seen = row]
  <2>1. new \in WkState /\ new.pc = pc /\ new.id \in TaskIds
    BY <1>1 DEF WkState
  <2>2. wk' = [wk EXCEPT ![w] = new] BY <1>3 DEF WkSees
  <2> HIDE DEF new
  <2> QED BY <2>1, <2>2 DEF WkOK
<1> QED BY <1>2, <1>3

\* An acked worker is idle.
LEMMA AckTyped ==
  ASSUME WkOK, NEW w \in Workers, wk' = [wk EXCEPT ![w] = IdleWk]
  PROVE  WkOK' /\ wk' = [wk EXCEPT ![w] = wk'[w]] /\ wk'[w].pc = "idle"
<1>1. IdleWk \in WkState /\ IdleWk.pc = "idle" BY UploadedTyped DEF IdleWk
<1> QED BY <1>1 DEF WkOK

\* A worker that ends its transaction, or never had one, leaves the locks of
\* the others as they were.
LEMMA OutOfTransaction ==
  ASSUME WkOK, LockOK, NEW w \in Workers, wk' = [wk EXCEPT ![w] = wk'[w]],
         wk'[w].pc \notin {"chunk", "embed"}, Release(w),
         lock' # None => Exists'
  PROVE  LockOK'
<1>1. ASSUME NEW v \in Workers PROVE lock' = v <=> wk'[v].pc \in {"chunk", "embed"}
  <2>1. None \notin Workers BY DocumentsAssumption
  <2>2. CASE v = w BY <2>1, <2>2 DEF Release
  <2>3. CASE v # w
    <3>1. wk'[v] = wk[v] BY <2>3 DEF WkOK
    <3>2. lock' = v <=> lock = v BY <2>1, <2>3 DEF Release
    <3> QED BY <3>1, <3>2 DEF LockOK
  <2> QED BY <2>2, <2>3
<1>2. lock' # None => lock' \in Workers BY DEF LockOK, Release
<1> QED BY <1>1, <1>2 DEF LockOK

\* The worker that moved aside, the pending deletions are what they were.
LEMMA OthersReplace ==
  ASSUME WkOK, Replaces, NEW w \in Workers, wk' = [wk EXCEPT ![w] = wk'[w]],
         wk'[w].pc = "embed" => wk'[w].replaced = copies', UNCHANGED copies
  PROVE  Replaces'
<1> SUFFICES ASSUME NEW v \in Workers, wk'[v].pc = "embed"
             PROVE  wk'[v].replaced = copies'
  BY DEF Replaces
<1>1. CASE v = w BY <1>1
<1>2. CASE v # w
  <2>1. wk'[v] = wk[v] BY <1>2 DEF WkOK
  <2> QED BY <2>1 DEF Replaces
<1> QED BY <1>1, <1>2

\* A worker outside a transaction moves, and leaves row and chunks alone.
LEMMA WorkerFrame ==
  ASSUME IInv, NEW w \in Workers, wk' = [wk EXCEPT ![w] = wk'[w]], WkOK', Release(w),
         wk'[w].pc \notin {"chunk", "embed"},
         BrokerOK', ReqOK', faults' \in 0..MaxFaults, UNCHANGED <<row, copies>>
  PROVE  IInv'
<1>1. WkOK /\ LockOK /\ Replaces /\ row \in Row /\ copies \in Nat
  BY DEF IInv, TypeOK, WkOK
<1>2. lock' # None => Exists' BY <1>1 DEF LockOK, Release, Exists
<1>3. LockOK' BY <1>1, <1>2, OutOfTransaction
<1>4. Replaces' BY <1>1, OthersReplace
<1>5. TypeOK' BY <1>1, <1>3 DEF TypeOK, WkOK, BrokerOK, ReqOK
<1>6. IndexedIsWhole' BY DEF IInv, IndexedIsWhole
<1> QED BY <1>4, <1>5, <1>6 DEF IInv

\* A worker that does not hold the row releases nothing.
LEMMA NothingReleased ==
  ASSUME IInv, NEW w \in Workers, wk[w].pc \notin {"chunk", "embed"}, lock' = lock
  PROVE  Release(w)
BY DEF IInv, TypeOK, LockOK, Release

\* The end of a task, whatever it was doing, keeps the invariant.
LEMMA AckKeeps ==
  ASSUME IInv, NEW w \in Workers, Ack(w), BrokerOK', faults' \in 0..MaxFaults,
         UNCHANGED <<row, copies, req>>
  PROVE  IInv'
<1>1. WkOK /\ ReqOK' BY DEF IInv, TypeOK, WkOK, ReqOK
<1>2. WkOK' /\ wk' = [wk EXCEPT ![w] = wk'[w]] /\ wk'[w].pc = "idle"
  BY <1>1, AckTyped DEF Ack
<1> QED BY <1>1, <1>2, WorkerFrame DEF Ack

\* A worker's step keeps the invariant; the lock lets only one of them change
\* the chunks, and that one removes all there are.
LEMMA WorkerKeeps ==
  ASSUME IInv, NEW w \in Workers, WorkerStep(w)
  PROVE  IInv'
<1>1. /\ row \in Row /\ copies \in Nat /\ ReqOK /\ BrokerOK /\ WkOK /\ LockOK
      /\ Replaces /\ IndexedIsWhole
      /\ wk[w] \in WkState /\ wk[w].seen \in Row /\ faults \in 0..MaxFaults
  BY DEF IInv, TypeOK, ReqOK, BrokerOK, WkOK, WkState
<1>2. ASSUME UNCHANGED broker PROVE BrokerOK'
  BY <1>1, <1>2 DEF broker, BrokerOK
<1>3. ASSUME UNCHANGED req PROVE ReqOK'
  BY <1>1, <1>3 DEF ReqOK
<1>4. CASE Claim(w)
  <2>1. WkOK' /\ wk' = [wk EXCEPT ![w] = wk'[w]] /\ wk'[w].pc = "start"
    BY <1>1, <1>4, WorkerMoves DEF Claim
  <2>2. Release(w) BY <1>4, NothingReleased DEF Claim
  <2> QED BY <1>1, <1>2, <1>3, <1>4, <2>1, <2>2, WorkerFrame DEF Claim
<1>5. CASE Skip(w)
  BY <1>1, <1>2, <1>5, AckKeeps DEF Skip
<1>6. CASE StartProcessing(w)
  <2>1. WkOK' /\ wk' = [wk EXCEPT ![w] = wk'[w]] /\ wk'[w].pc = "chunk"
    BY <1>1, <1>6, WorkerMoves DEF StartProcessing
  <2>2. lock = None /\ lock' = w /\ Exists /\ UNCHANGED <<row, copies>>
    BY <1>6 DEF StartProcessing
  <2>3. ASSUME NEW v \in Workers PROVE lock' = v <=> wk'[v].pc \in {"chunk", "embed"}
    <3>1. CASE v = w BY <2>1, <2>2, <3>1
    <3>2. CASE v # w
      <4>1. wk'[v] = wk[v] BY <1>1, <2>1, <3>2 DEF WkOK
      <4>2. wk[v].pc \notin {"chunk", "embed"}
        BY <1>1, <2>2, DocumentsAssumption DEF LockOK
      <4> QED BY <2>2, <3>2, <4>1, <4>2
    <3> QED BY <3>1, <3>2
  <2>4. LockOK' BY <2>2, <2>3 DEF LockOK, Exists
  <2>5. Replaces' BY <1>1, <2>1, <2>2, OthersReplace
  <2>6. TypeOK'
    BY <1>1, <1>2, <1>3, <1>6, <2>1, <2>4 DEF StartProcessing, TypeOK, WkOK, ReqOK, BrokerOK
  <2> QED BY <1>1, <2>2, <2>5, <2>6 DEF IInv, IndexedIsWhole
<1>7. CASE ReplaceChunks(w)
  <2> DEFINE new == [wk[w] EXCEPT !.pc = "embed", !.replaced = copies]
  <2>1. /\ new \in WkState /\ new.pc = "embed" /\ new.replaced = copies
        /\ new.id = wk[w].id
    BY <1>1 DEF WkState
  <2>2. wk' = [wk EXCEPT ![w] = new] /\ wk[w].pc = "chunk"
    BY <1>7 DEF ReplaceChunks
  <2> HIDE DEF new
  <2>3. WkOK' /\ wk' = [wk EXCEPT ![w] = wk'[w]] /\ wk'[w] = new
    BY <1>1, <2>1, <2>2 DEF WkOK
  <2>4. ASSUME NEW v \in Workers
        PROVE  wk'[v].pc \in {"chunk", "embed"} <=> wk[v].pc \in {"chunk", "embed"}
    <3>1. CASE v = w BY <2>1, <2>2, <2>3, <3>1
    <3>2. CASE v # w BY <1>1, <2>2, <3>2 DEF WkOK
    <3> QED BY <3>1, <3>2
  <2>5. LockOK' BY <1>1, <1>7, <2>4 DEF ReplaceChunks, LockOK, Exists
  <2>6. Replaces' BY <1>1, <1>7, <2>1, <2>3, OthersReplace DEF ReplaceChunks
  <2>7. TypeOK'
    BY <1>1, <1>2, <1>3, <1>7, <2>3, <2>5 DEF ReplaceChunks, TypeOK, WkOK, ReqOK, BrokerOK
  <2> QED BY <1>1, <1>7, <2>6, <2>7 DEF ReplaceChunks, IInv, IndexedIsWhole
<1>8. CASE CompleteProcessing(w)
  <2>1. WkOK' /\ wk' = [wk EXCEPT ![w] = wk'[w]] /\ wk'[w].pc = "idle"
    BY <1>1, <1>8, AckTyped DEF CompleteProcessing, Ack
  <2>2. lock = w /\ wk[w].replaced = copies
    BY <1>1, <1>8 DEF CompleteProcessing, LockOK, Replaces
  <2>3. row' \in Row /\ row'.status = "indexed" /\ copies' = 1
    BY <1>1, <1>8, <2>2 DEF CompleteProcessing
  <2>4. Exists' /\ Release(w)
    BY <1>8, <2>3 DEF CompleteProcessing, Ack, Exists
  <2>5. LockOK' BY <1>1, <2>1, <2>4, OutOfTransaction
  <2>6. ASSUME NEW v \in Workers PROVE wk'[v].pc # "embed"
    <3>1. CASE v = w BY <2>1, <3>1
    <3>2. CASE v # w
      <4>1. wk'[v] = wk[v] BY <1>1, <2>1, <3>2 DEF WkOK
      <4> QED BY <1>1, <2>2, <3>2, <4>1 DEF LockOK
    <3> QED BY <3>1, <3>2
  <2>7. Replaces' BY <2>6 DEF Replaces
  <2>8. TypeOK'
    BY <1>1, <1>2, <1>3, <1>8, <2>1, <2>3, <2>5
       DEF CompleteProcessing, TypeOK, WkOK, ReqOK, BrokerOK
  <2> QED BY <2>3, <2>7, <2>8 DEF IInv, IndexedIsWhole
<1>9. CASE ProcessRaises(w)
  <2>1. WkOK' /\ wk' = [wk EXCEPT ![w] = wk'[w]] /\ wk'[w].pc = "failing"
    BY <1>1, <1>9, WorkerMoves DEF ProcessRaises
  <2> QED BY <1>1, <1>2, <1>3, <1>9, <2>1, WorkerFrame DEF ProcessRaises
<1>10. CASE FailInSession(w)
  <2>1. WkOK' /\ wk' = [wk EXCEPT ![w] = wk'[w]] /\ wk'[w].pc \in {"failed", "recover"}
    BY <1>1, <1>10, WorkerMoves DEF FailInSession
  <2>2. Release(w) BY <1>10, NothingReleased DEF FailInSession
  <2> QED BY <1>1, <1>2, <1>3, <1>10, <2>1, <2>2, WorkerFrame DEF FailInSession
<1>11. CASE CommitFailed(w)
  <2> DEFINE new == [wk[w].seen EXCEPT !.status = "failed"]
  <2>1. new \in Row /\ new.status = "failed" BY <1>1
  <2>2. Write(wk[w].seen, new) BY <1>11 DEF CommitFailed
  <2> HIDE DEF new
  <2>3. /\ row' \in Row /\ Exists'
        /\ row'.status = "indexed" => row.status = "indexed"
    BY <1>1, <2>1, <2>2, WriteTyped
  <2>4. /\ WkOK' /\ wk' = [wk EXCEPT ![w] = wk'[w]] /\ wk'[w].pc \in {"recover", "idle"}
    BY <1>1, <1>11, WorkerMoves, AckTyped DEF CommitFailed, Ack
  <2>5. Release(w) BY <1>11, NothingReleased DEF CommitFailed, Ack
  <2>6. LockOK' BY <1>1, <2>3, <2>4, <2>5, OutOfTransaction
  <2>7. Replaces' BY <1>1, <1>11, <2>4, OthersReplace DEF CommitFailed
  <2>8. TypeOK'
    BY <1>1, <1>2, <1>3, <1>11, <2>3, <2>4, <2>6
       DEF CommitFailed, TypeOK, WkOK, ReqOK, BrokerOK
  <2> QED BY <1>1, <1>11, <2>3, <2>7, <2>8 DEF CommitFailed, IInv, IndexedIsWhole, Exists
<1>12. CASE Recover(w)
  <2>1. CASE row.status \in {"cancelling", "cancelled"}
    BY <1>1, <1>2, <1>12, <2>1, AckKeeps DEF Recover
  <2>2. CASE row.status \notin {"cancelling", "cancelled"}
    <3>1. WkOK' /\ wk' = [wk EXCEPT ![w] = wk'[w]] /\ wk'[w].pc = "refailed"
      BY <1>1, <1>12, <2>2, WorkerMoves DEF Recover
    <3>2. Release(w) BY <1>12, <2>2, NothingReleased DEF Recover
    <3> QED BY <1>1, <1>2, <1>3, <1>12, <3>1, <3>2, WorkerFrame DEF Recover
  <2> QED BY <2>1, <2>2
<1>13. CASE WorkerRowGone(w)
  BY <1>1, <1>2, <1>13, AckKeeps DEF WorkerRowGone
<1>14. ASSUME NEW t \in queue, Deliver(w, t) PROVE IInv'
  <2>1. BrokerOK' /\ t \in TaskIds BY <1>1, <1>14 DEF Deliver, BrokerOK
  <2>2. CASE t \in revoked
    BY <1>1, <1>3, <1>14, <2>1, <2>2 DEF Deliver, IInv, TypeOK, ReqOK, BrokerOK,
       LockOK, Exists, IndexedIsWhole, Replaces
  <2>3. CASE t \notin revoked
    <3> DEFINE new == [IdleWk EXCEPT !.pc = "begin", !.id = t]
    <3>1. new \in WkState /\ new.pc = "begin" /\ new.id = t
      BY <2>1, UploadedTyped DEF WkState
    <3>2. wk' = [wk EXCEPT ![w] = new] BY <1>14, <2>3 DEF Deliver
    <3> HIDE DEF new
    <3>3. WkOK' /\ wk' = [wk EXCEPT ![w] = wk'[w]] /\ wk'[w].pc = "begin"
      BY <1>1, <2>1, <3>1, <3>2 DEF WkOK
    <3>4. Release(w) BY <1>14, NothingReleased DEF Deliver
    <3> QED BY <1>1, <1>3, <1>14, <2>1, <3>3, <3>4, WorkerFrame DEF Deliver
  <2> QED BY <2>2, <2>3
<1> QED BY <1>4, <1>5, <1>6, <1>7, <1>8, <1>9, <1>10, <1>11, <1>12, <1>13, <1>14
        DEF WorkerStep

\* Crashes, restarts, repeated deliveries and terminations keep it too.
LEMMA EnvironmentKeeps ==
  ASSUME IInv, Environment
  PROVE  IInv'
<1>1. ReqOK /\ BrokerOK /\ WkOK /\ faults \in 0..MaxFaults
  BY DEF IInv, TypeOK, ReqOK, BrokerOK, WkOK
<1>2. ASSUME UNCHANGED broker PROVE BrokerOK'
  BY <1>1, <1>2 DEF broker, BrokerOK
<1>3. ASSUME NEW kind, Fault(kind) PROVE faults' \in 0..MaxFaults
  BY <1>1, <1>3, DocumentsAssumption DEF Fault
<1>4. ASSUME NEW w \in Workers, WorkerCrash(w) PROVE IInv'
  <2>1. BrokerOK' BY <1>1, <1>4 DEF WorkerCrash, BrokerOK, WkOK
  <2> QED BY <1>3, <1>4, <2>1, AckKeeps DEF WorkerCrash
<1>5. ASSUME NEW w \in Workers, BeginFails(w) PROVE IInv'
  BY <1>2, <1>3, <1>5, AckKeeps DEF BeginFails
<1>6. ASSUME NEW w \in Workers, Redeliver(w) PROVE IInv'
  <2>1. BrokerOK' BY <1>1, <1>6 DEF Redeliver, BrokerOK, WkOK
  <2>2. faults' \in 0..MaxFaults BY <1>3, <1>6 DEF Redeliver
  <2> QED BY <1>6, <2>1, <2>2 DEF Redeliver, IInv, TypeOK, BrokerOK, LockOK, Exists,
             IndexedIsWhole, Replaces
<1>7. ASSUME NEW w \in Workers, Terminated(w) PROVE IInv'
  BY <1>1, <1>2, <1>7, AckKeeps DEF Terminated
<1>8. ASSUME ApiRestart PROVE IInv'
  <2>1. ReqOK' BY <1>8, UploadedTyped DEF ApiRestart, ReqOK
  <2>2. faults' \in 0..MaxFaults BY <1>3, <1>8 DEF ApiRestart
  <2> QED BY <1>2, <1>8, <2>1, <2>2 DEF ApiRestart, IInv, TypeOK, ReqOK, BrokerOK,
             LockOK, Exists, IndexedIsWhole, Replaces
<1> QED BY <1>4, <1>5, <1>6, <1>7, <1>8 DEF Environment

-----------------------------------------------------------------------------
(* The invariant and what it implies *)

\* An uploaded document that nobody processes satisfies the invariant, and
\* every step keeps it.
LEMMA Invariance == Spec => []IInv
<1>1. Init => IInv
  <2> SUFFICES ASSUME Init PROVE IInv OBVIOUS
  <2>1. \A w \in Workers : wk[w].pc = "idle" BY DEF Init, IdleWk
  <2>2. LockOK BY <2>1, DocumentsAssumption DEF Init, LockOK
  <2>3. TypeOK BY <2>1, <2>2, UploadedTyped, DocumentsAssumption DEF Init, TypeOK
  <2>4. IndexedIsWhole BY DEF Init, Uploaded, IndexedIsWhole
  <2> QED BY <2>1, <2>3, <2>4 DEF IInv, Replaces
<1>2. IInv /\ [Next]_vars => IInv'
  <2> SUFFICES ASSUME IInv, [Next]_vars PROVE IInv' OBVIOUS
  <2>1. CASE UNCHANGED vars
    BY <2>1 DEF vars, broker, IInv, TypeOK, LockOK, Exists, IndexedIsWhole, Replaces
  <2>2. ASSUME NEW q \in Requests, RequestStep(q) PROVE IInv'
    BY <2>2, RequestKeeps
  <2>3. ASSUME NEW q \in Requests, NEW op \in Ops, ReadDocument(q, op) PROVE IInv'
    BY <2>3, ReadKeeps, DocumentsAssumption
  <2>4. ASSUME NEW w \in Workers, WorkerStep(w) PROVE IInv'
    BY <2>4, WorkerKeeps
  <2>5. CASE Environment BY <2>5, EnvironmentKeeps
  <2> QED BY <2>1, <2>2, <2>3, <2>4, <2>5 DEF Next
<1> QED BY <1>1, <1>2, PTL DEF Spec

\* Rows, messages, local states and the workers' locks stay well formed.
THEOREM TypeCorrect == Spec => []TypeOK
<1>1. IInv => TypeOK BY DEF IInv
<1> QED BY <1>1, Invariance, PTL

\* Processing again, however often its message is delivered and wherever it
\* is killed, leaves one set of chunks for an INDEXED document, at most one
\* for any, and none for a deleted one.
THEOREM ReprocessingIsClean == Spec => []IndexedIsWhole
<1>1. IInv => IndexedIsWhole BY DEF IInv
<1> QED BY <1>1, Invariance, PTL

-----------------------------------------------------------------------------
(* A QUEUED document has a job *)

\* Who takes a QUEUED document further, not merely looks at it: a worker that
\* nobody has terminated and that will write another status than it has read;
\* a handler that will publish a job, or will write such a status.
WorkerServes(w) ==
    /\ wk[w].id \notin revoked
    /\ \/ wk[w].pc \in {"begin", "start", "chunk", "embed", "failing", "failed",
                        "recover"}
       \/ wk[w].pc = "refailed" /\ wk[w].seen.status # "failed"

RequestServes(q) ==
    \/ req[q].pc = "enqueue"
    \/ req[q].pc = "restore" /\ req[q].seen.status # "uploaded"
    \/ req[q].pc = "cancelled" /\ req[q].seen.status # "cancelled"

Served ==
    row.status = "queued" =>
        \/ queue \ revoked # {}
        \/ \E w \in Workers : WorkerServes(w)
        \/ \E q \in Requests : RequestServes(q)

\* An id that is not used yet is on no row, in no message and not revoked.
UsedOK ==
    /\ queue \subseteq used /\ revoked \subseteq used
    /\ row.task \in used \cup {None}
    /\ \A w \in Workers : wk[w].pc # "idle" => wk[w].id \in used
    /\ \A q \in Requests : req[q].task \in used \cup {None} /\ ~req[q].tool

JobInv == IInv /\ Served /\ UsedOK

\* The agent's tool, the loss of a worker or of a handler, and a task that
\* fails before its try block leave a document QUEUED without a job.
NoLoss == "tool" \notin Ops /\ Faults \subseteq {"redeliver"}

LEMMA WriteFields ==
  ASSUME row \in Row, NEW seen \in Row, NEW new \in Row, Write(seen, new)
  PROVE  /\ row'.status = IF new.status = seen.status THEN row.status ELSE new.status
         /\ row'.task = IF new.task = seen.task THEN row.task ELSE new.task
BY DEF Write

\* A step of one handler, which keeps serving the document when it did.
LEMMA RequestStays ==
  ASSUME JobInv, IInv', NEW q \in Requests, NEW r, req' = [req EXCEPT ![q] = r],
         UNCHANGED <<wk, queue, used, revoked>>,
         row'.task \in used \cup {None}, r.task \in used \cup {None}, ~r.tool,
         row'.status = "queued" =>
            RequestServes(q)' \/ (row.status = "queued" /\ ~RequestServes(q))
  PROVE  JobInv'
<1>1. req \in [Requests -> ReqState] /\ Served /\ UsedOK
  BY DEF JobInv, IInv, TypeOK
<1>2. \A p \in Requests : p # q => req'[p] = req[p]
  BY <1>1
<1>3. req'[q] = r
  BY <1>1
<1>4. UsedOK'
  BY <1>1, <1>2, <1>3 DEF UsedOK
<1>5. Served'
  <2> SUFFICES ASSUME row'.status = "queued", ~RequestServes(q)'
               PROVE  \/ (queue \ revoked # {})'
                      \/ \E w \in Workers : WorkerServes(w)'
                      \/ \E p \in Requests : RequestServes(p)'
    BY DEF Served
  <2>1. row.status = "queued" /\ ~RequestServes(q)
    OBVIOUS
  <2>2. CASE queue \ revoked # {}
    BY <2>2
  <2>3. ASSUME NEW w \in Workers, WorkerServes(w) PROVE WorkerServes(w)'
    BY <2>3 DEF WorkerServes
  <2>4. ASSUME NEW p \in Requests, RequestServes(p) PROVE RequestServes(p)'
    BY <1>2, <2>1, <2>4 DEF RequestServes
  <2> QED BY <1>1, <2>1, <2>2, <2>3, <2>4 DEF Served
<1> QED BY <1>4, <1>5 DEF JobInv

\* A step of one worker, likewise.
LEMMA WorkerStays ==
  ASSUME JobInv, IInv', NEW w \in Workers, NEW r, wk' = [wk EXCEPT ![w] = r],
         UNCHANGED <<req, queue, used, revoked>>,
         row'.task \in used \cup {None}, r.pc # "idle" => r.id \in used,
         row'.status = "queued" =>
            WorkerServes(w)' \/ (row.status = "queued" /\ ~WorkerServes(w))
  PROVE  JobInv'
<1>1. wk \in [Workers -> WkState] /\ Served /\ UsedOK
  BY DEF JobInv, IInv, TypeOK
<1>2. \A v \in Workers : v # w => wk'[v] = wk[v]
  BY <1>1
<1>3. wk'[w] = r
  BY <1>1
<1>4. UsedOK'
  BY <1>1, <1>2, <1>3 DEF UsedOK
<1>5. Served'
  <2> SUFFICES ASSUME row'.status = "queued", ~WorkerServes(w)'
               PROVE  \/ (queue \ revoked # {})'
                      \/ \E v \in Workers : WorkerServes(v)'
                      \/ \E q \in Requests : RequestServes(q)'
    BY DEF Served
  <2>1. row.status = "queued" /\ ~WorkerServes(w)
    OBVIOUS
  <2>2. CASE queue \ revoked # {}
    BY <2>2
  <2>3. ASSUME NEW q \in Requests, RequestServes(q) PROVE RequestServes(q)'
    BY <2>3 DEF RequestServes
  <2>4. ASSUME NEW v \in Workers, WorkerServes(v) PROVE WorkerServes(v)'
    BY <1>2, <2>1, <2>4 DEF WorkerServes
  <2> QED BY <1>1, <2>1, <2>2, <2>3, <2>4 DEF Served
<1> QED BY <1>4, <1>5 DEF JobInv

LEMMA ReadServed ==
  ASSUME JobInv, NoLoss, NEW q \in Requests, NEW op \in Ops, ReadDocument(q, op)
  PROVE  JobInv'
<1>1. IInv' /\ UsedOK /\ op # "tool" /\ req[q].pc = "idle"
  BY ReadKeeps DEF JobInv, NoLoss, ReadDocument
<1> DEFINE new == [IdleReq EXCEPT !.pc = IF op = "tool" THEN "process" ELSE op,
                                  !.tool = (op = "tool"), !.seen = row]
<1>2. new.task = None /\ ~new.tool
  BY <1>1 DEF IdleReq
<1>3. /\ req' = [req EXCEPT ![q] = new]
      /\ UNCHANGED <<row, wk, queue, used, revoked>>
  BY DEF ReadDocument, broker
<1> HIDE DEF new
<1>4. ~RequestServes(q)
  BY <1>1 DEF RequestServes
<1> QED BY <1>1, <1>2, <1>3, <1>4, RequestStays DEF UsedOK

\* The moves of a handler that write nothing, or a status that is not QUEUED.
LEMMA RequestServed ==
  ASSUME JobInv, NoLoss, NEW q \in Requests, RequestStep(q)
  PROVE  JobInv'
<1>1. /\ IInv' /\ UsedOK /\ Served /\ row \in Row
      /\ req \in [Requests -> ReqState]
      /\ req[q] \in ReqState /\ req[q].seen \in Row
      /\ req[q].task \in used \cup {None} /\ ~req[q].tool
      /\ row.task \in used \cup {None}
  BY RequestKeeps DEF JobInv, IInv, TypeOK, ReqState, UsedOK
<1>2. /\ IdleReq.pc = "idle" /\ IdleReq.task = None /\ ~IdleReq.tool
  BY DEF IdleReq
<1>3. ASSUME NEW pc
      PROVE  /\ [req[q] EXCEPT !.pc = pc, !.seen = Uploaded].task = req[q].task
             /\ ~[req[q] EXCEPT !.pc = pc, !.seen = Uploaded].tool
             /\ [req[q] EXCEPT !.pc = pc, !.seen = row].task = req[q].task
             /\ ~[req[q] EXCEPT !.pc = pc, !.seen = row].tool
             /\ [req[q] EXCEPT !.pc = pc, !.seen = Uploaded].pc = pc
             /\ [req[q] EXCEPT !.pc = pc, !.seen = row].pc = pc
             /\ [req[q] EXCEPT !.pc = pc, !.seen = row].seen = row
  BY <1>1 DEF ReqState
<1>4. ASSUME EndReq(q), UNCHANGED <<wk, queue, used, revoked>>,
             row'.task \in used \cup {None},
             row'.status = "queued" => row.status = "queued" /\ ~RequestServes(q)
      PROVE  JobInv'
  BY <1>1, <1>2, <1>4, RequestStays DEF EndReq
<1>5. ASSUME NEW pc, ReqGoes(q, pc), UNCHANGED <<wk, queue, used, revoked>>,
             row'.task \in used \cup {None},
             row'.status = "queued" =>
                pc = "enqueue" \/ (row.status = "queued" /\ ~RequestServes(q))
      PROVE  JobInv'
  <2> DEFINE new == [req[q] EXCEPT !.pc = pc, !.seen = Uploaded]
  <2>1. new.task = req[q].task /\ ~new.tool /\ new.pc = pc
    BY <1>3
  <2>2. req' = [req EXCEPT ![q] = new]
    BY <1>5 DEF ReqGoes
  <2> HIDE DEF new
  <2>3. pc = "enqueue" => RequestServes(q)'
    BY <1>1, <2>1, <2>2 DEF RequestServes
  <2> QED BY <1>1, <1>5, <2>1, <2>2, <2>3, RequestStays
<1>6. ASSUME NEW pc, ReqSees(q, pc), UNCHANGED <<row, wk, queue, used, revoked>>,
             pc \in {"restore", "cancelled"} \/ ~RequestServes(q)
      PROVE  JobInv'
  <2> DEFINE new == [req[q] EXCEPT !.pc = pc, !.seen = row]
  <2>1. new.task = req[q].task /\ ~new.tool /\ new.pc = pc /\ new.seen = row
    BY <1>3
  <2>2. req' = [req EXCEPT ![q] = new]
    BY <1>6 DEF ReqSees
  <2> HIDE DEF new
  <2>3. row.status = "queued" /\ pc \in {"restore", "cancelled"} => RequestServes(q)'
    BY <1>1, <2>1, <2>2 DEF RequestServes
  <2> QED BY <1>1, <1>6, <2>1, <2>2, <2>3, RequestStays
<1>7. CASE NothingToDo(q)
  BY <1>1, <1>4, <1>7 DEF NothingToDo, RequestServes, broker
<1>8. CASE QueueProcessing(q)
  <2> DEFINE new == [req[q].seen EXCEPT !.status = "queued",
                                        !.task = IF req[q].tool THEN None ELSE @]
  <2>1. new \in Row /\ new.task = req[q].seen.task
    BY <1>1
  <2>2. Write(req[q].seen, new)
    BY <1>8 DEF QueueProcessing
  <2> HIDE DEF new
  <2>3. row'.task = row.task
    BY <1>1, <2>1, <2>2, WriteFields
  <2> QED BY <1>1, <1>5, <1>8, <2>3 DEF QueueProcessing, broker
<1>9. CASE EnqueueFails(q)
  BY <1>1, <1>6, <1>9 DEF EnqueueFails, broker
<1>10. CASE RestoreUploaded(q)
  <2> DEFINE new == [req[q].seen EXCEPT !.status = "uploaded"]
  <2>1. new \in Row /\ new.task = req[q].seen.task /\ new.status = "uploaded"
    BY <1>1
  <2>2. Write(req[q].seen, new)
    BY <1>10 DEF RestoreUploaded
  <2> HIDE DEF new
  <2>3. /\ row'.task = row.task
        /\ row'.status = IF req[q].seen.status = "uploaded" THEN row.status
                                                            ELSE "uploaded"
    BY <1>1, <2>1, <2>2, WriteFields
  <2> QED BY <1>1, <1>4, <1>10, <2>3 DEF RestoreUploaded, RequestServes, broker
<1>11. CASE SetTaskId(q)
  <2> DEFINE new == [req[q].seen EXCEPT !.task = req[q].task]
  <2>1. new \in Row /\ new.task = req[q].task /\ new.status = req[q].seen.status
    BY <1>1 DEF ReqState
  <2>2. Write(req[q].seen, new)
    BY <1>11 DEF SetTaskId
  <2> HIDE DEF new
  <2>3. row'.task \in {row.task, req[q].task} /\ row'.status = row.status
    BY <1>1, <2>1, <2>2, WriteFields
  <2> QED BY <1>1, <1>4, <1>11, <2>3 DEF SetTaskId, RequestServes, broker
<1>12. CASE MarkCancelling(q)
  <2> DEFINE new == [req[q].seen EXCEPT !.status = "cancelling"]
  <2>1. new \in Row /\ new.task = req[q].seen.task /\ new.status = "cancelling"
    BY <1>1
  <2>2. Write(req[q].seen, new)
    BY <1>12 DEF MarkCancelling
  <2> HIDE DEF new
  <2>3. row'.task = row.task /\ row'.status \in {row.status, "cancelling"}
    BY <1>1, <2>1, <2>2, WriteFields
  <2> QED BY <1>1, <1>5, <1>12, <2>3 DEF MarkCancelling, RequestServes, broker
<1>13. CASE RevokeTask(q)
  <2> DEFINE new == [req[q] EXCEPT !.pc = "cancelled", !.seen = row]
  <2>1. /\ new.task = req[q].task /\ ~new.tool /\ new.pc = "cancelled"
        /\ new.seen = row
    BY <1>3
  <2>2. /\ req' = [req EXCEPT ![q] = new] /\ UNCHANGED <<row, queue, used, wk>>
        /\ revoked' = revoked \cup ({row.task} \ {None})
    BY <1>13 DEF RevokeTask, ReqSees
  <2> HIDE DEF new
  <2>3. UsedOK'
    BY <1>1, <2>1, <2>2 DEF UsedOK
  <2>4. Served'
    BY <1>1, <2>1, <2>2 DEF Served, RequestServes
  <2> QED BY <1>1, <2>3, <2>4 DEF JobInv
<1>14. CASE RevokeFails(q)
  BY <1>1, <1>4, <1>14 DEF RevokeFails, RequestServes, broker
<1>15. CASE MarkCancelled(q)
  <2> DEFINE new == [req[q].seen EXCEPT !.status = "cancelled"]
  <2>1. new \in Row /\ new.task = req[q].seen.task /\ new.status = "cancelled"
    BY <1>1
  <2>2. Write(req[q].seen, new)
    BY <1>15 DEF MarkCancelled
  <2> HIDE DEF new
  <2>3. /\ row'.task = row.task
        /\ row'.status = IF req[q].seen.status = "cancelled" THEN row.status
                                                             ELSE "cancelled"
    BY <1>1, <2>1, <2>2, WriteFields
  <2> QED BY <1>1, <1>4, <1>15, <2>3 DEF MarkCancelled, RequestServes, broker
<1>16. CASE ResetForRetry(q)
  <2> DEFINE new == [req[q].seen EXCEPT !.status = "uploaded"]
  <2>1. new \in Row /\ new.task = req[q].seen.task /\ new.status = "uploaded"
    BY <1>1
  <2>2. Write(req[q].seen, new)
    BY <1>16 DEF ResetForRetry
  <2> HIDE DEF new
  <2>3. row'.task = row.task /\ row'.status \in {row.status, "uploaded"}
    BY <1>1, <2>1, <2>2, WriteFields
  <2> QED BY <1>1, <1>5, <1>16, <2>3 DEF ResetForRetry, RequestServes, broker
<1>17. CASE RefreshForRetry(q)
  BY <1>1, <1>6, <1>17 DEF RefreshForRetry, RequestServes, broker
<1>18. CASE DeleteDocument(q)
  <2>1. row'.task = row.task /\ row'.status = "absent"
    BY <1>1, <1>18 DEF DeleteDocument
  <2> QED BY <1>1, <1>4, <1>18, <2>1 DEF DeleteDocument, broker
<1>19. CASE RequestRowGone(q)
  BY <1>1, <1>4, <1>19 DEF RequestRowGone, Exists, broker
<1>20. ASSUME NEW t \in TaskIds, Enqueue(q, t) PROVE JobInv'
  <2> DEFINE new == [req[q] EXCEPT !.pc = "setId", !.seen = row, !.task = t]
  <2>1. new.task = t /\ ~new.tool
    BY <1>1 DEF ReqState
  <2>2. /\ req' = [req EXCEPT ![q] = new] /\ UNCHANGED <<row, revoked, wk>>
        /\ queue' = queue \cup {t} /\ used' = used \cup {t} /\ t \notin used
    BY <1>20 DEF Enqueue
  <2> HIDE DEF new
  <2>3. UsedOK'
    BY <1>1, <2>1, <2>2 DEF UsedOK
  <2>4. t \in queue' \ revoked'
    BY <1>1, <2>2 DEF UsedOK
  <2> QED BY <1>1, <2>3, <2>4 DEF JobInv, Served
<1> QED BY <1>7, <1>8, <1>9, <1>10, <1>11, <1>12, <1>13, <1>14, <1>15, <1>16,
           <1>17, <1>18, <1>19, <1>20 DEF RequestStep

LEMMA WorkerServed ==
  ASSUME JobInv, NEW w \in Workers, WorkerStep(w) \/ Terminated(w)
  PROVE  JobInv'
<1>1. /\ IInv' /\ UsedOK /\ Served /\ row \in Row
      /\ wk \in [Workers -> WkState]
      /\ wk[w] \in WkState /\ wk[w].seen \in Row
      /\ wk[w].pc # "idle" => wk[w].id \in used
      /\ row.task \in used \cup {None}
  BY WorkerKeeps, EnvironmentKeeps DEF JobInv, IInv, TypeOK, WkState, UsedOK,
     Environment
<1>2. ASSUME NEW pc
      PROVE  /\ [IdleWk EXCEPT !.pc = pc, !.id = wk[w].id].pc = pc
             /\ [IdleWk EXCEPT !.pc = pc, !.id = wk[w].id].id = wk[w].id
             /\ [wk[w] EXCEPT !.pc = pc, !.seen = row].pc = pc
             /\ [wk[w] EXCEPT !.pc = pc, !.seen = row].id = wk[w].id
             /\ [wk[w] EXCEPT !.pc = pc, !.seen = row].seen = row
  BY <1>1 DEF WkState, IdleWk
<1>3. ASSUME Ack(w), UNCHANGED <<req, queue, used, revoked>>, row'.task = row.task,
             row'.status = "queued" => row.status = "queued" /\ ~WorkerServes(w)
      PROVE  JobInv'
  <2>1. IdleWk.pc = "idle"
    BY DEF IdleWk
  <2> QED BY <1>1, <1>3, <2>1, WorkerStays DEF Ack
<1>4. ASSUME NEW pc \in {"start", "chunk", "failing", "recover"}, WkGoes(w, pc),
             wk[w].pc # "idle", row'.task = row.task,
             UNCHANGED <<req, queue, used, revoked>>,
             row'.status = "queued" => row.status = "queued"
      PROVE  JobInv'
  <2> DEFINE new == [IdleWk EXCEPT !.pc = pc, !.id = wk[w].id]
  <2>1. new.pc = pc /\ new.id = wk[w].id
    BY <1>2
  <2>2. wk' = [wk EXCEPT ![w] = new]
    BY <1>4 DEF WkGoes
  <2> HIDE DEF new
  <2>3. WorkerServes(w) => WorkerServes(w)'
    BY <1>1, <1>4, <2>1, <2>2 DEF WorkerServes
  <2> QED BY <1>1, <1>4, <2>1, <2>2, <2>3, WorkerStays
<1>5. ASSUME NEW pc \in {"start", "failed", "refailed"}, WkSees(w, pc),
             wk[w].pc # "idle", UNCHANGED <<row, req, queue, used, revoked>>
      PROVE  JobInv'
  <2> DEFINE new == [wk[w] EXCEPT !.pc = pc, !.seen = row]
  <2>1. new.pc = pc /\ new.id = wk[w].id /\ new.seen = row
    BY <1>2
  <2>2. wk' = [wk EXCEPT ![w] = new]
    BY <1>5 DEF WkSees
  <2> HIDE DEF new
  <2>3. WorkerServes(w) /\ row.status = "queued" => WorkerServes(w)'
    BY <1>1, <1>5, <2>1, <2>2 DEF WorkerServes
  <2> QED BY <1>1, <1>5, <2>1, <2>2, <2>3, WorkerStays
<1>6. CASE Claim(w)
  BY <1>5, <1>6 DEF Claim, broker
<1>7. CASE Skip(w)
  BY <1>3, <1>7 DEF Skip, broker
<1>8. CASE StartProcessing(w)
  BY <1>4, <1>8 DEF StartProcessing, broker
<1>9. CASE ReplaceChunks(w)
  <2> DEFINE new == [wk[w] EXCEPT !.pc = "embed", !.replaced = copies]
  <2>1. new.pc = "embed" /\ new.id = wk[w].id
    BY <1>1 DEF WkState
  <2>2. /\ wk' = [wk EXCEPT ![w] = new] /\ wk[w].pc = "chunk"
        /\ UNCHANGED <<row, req, queue, used, revoked>>
    BY <1>9 DEF ReplaceChunks, broker
  <2> HIDE DEF new
  <2>3. WorkerServes(w) => WorkerServes(w)'
    BY <1>1, <2>1, <2>2 DEF WorkerServes
  <2> QED BY <1>1, <2>1, <2>2, <2>3, WorkerStays
<1>10. CASE CompleteProcessing(w)
  <2>1. row'.status = "indexed" /\ row'.task = row.task
    BY <1>1, <1>10 DEF CompleteProcessing
  <2> QED BY <1>3, <1>10, <2>1 DEF CompleteProcessing, broker
<1>11. CASE ProcessRaises(w)
  BY <1>4, <1>11 DEF ProcessRaises, broker
<1>12. CASE FailInSession(w)
  BY <1>4, <1>5, <1>12 DEF FailInSession, broker
<1>13. CASE CommitFailed(w)
  <2> DEFINE new == [wk[w].seen EXCEPT !.status = "failed"]
  <2>1. new \in Row /\ new.task = wk[w].seen.task /\ new.status = "failed"
    BY <1>1
  <2>2. Write(wk[w].seen, new)
    BY <1>13 DEF CommitFailed
  <2> HIDE DEF new
  <2>3. /\ row'.task = row.task
        /\ row'.status = IF wk[w].seen.status = "failed" THEN row.status ELSE "failed"
    BY <1>1, <2>1, <2>2, WriteFields
  <2>4. CASE wk[w].pc = "failed"
    BY <1>4, <1>13, <2>3, <2>4 DEF CommitFailed, broker
  <2>5. CASE wk[w].pc = "refailed"
    BY <1>3, <1>13, <2>3, <2>5 DEF CommitFailed, WorkerServes, broker
  <2> QED BY <1>13, <2>4, <2>5 DEF CommitFailed
<1>14. CASE Recover(w)
  BY <1>3, <1>5, <1>14 DEF Recover, broker
<1>15. CASE WorkerRowGone(w)
  BY <1>3, <1>15 DEF WorkerRowGone, Exists, broker
<1>16. CASE Terminated(w)
  BY <1>3, <1>16 DEF Terminated, WorkerServes, broker
<1>17. ASSUME NEW t \in queue, Deliver(w, t) PROVE JobInv'
  <2>1. CASE t \in revoked
    <3>1. UNCHANGED <<row, req, wk, used, revoked>> /\ queue' = queue \ {t}
      BY <1>17, <2>1 DEF Deliver
    <3>2. UsedOK' BY <1>1, <3>1 DEF UsedOK
    <3>3. queue' \ revoked' = queue \ revoked BY <2>1, <3>1
    <3>4. Served' BY <1>1, <3>1, <3>3 DEF Served, WorkerServes, RequestServes
    <3> QED BY <1>1, <3>2, <3>4 DEF JobInv
  <2>2. CASE t \notin revoked
    <3> DEFINE new == [IdleWk EXCEPT !.pc = "begin", !.id = t]
    <3>1. new.pc = "begin" /\ new.id = t
      BY DEF IdleWk
    <3>2. /\ wk' = [wk EXCEPT ![w] = new] /\ queue' = queue \ {t}
          /\ UNCHANGED <<row, req, used, revoked>>
      BY <1>17, <2>2 DEF Deliver
    <3> HIDE DEF new
    <3>3. t \in used /\ wk'[w] = new
      BY <1>1, <3>2 DEF UsedOK
    <3>4. UsedOK'
      BY <1>1, <3>1, <3>2, <3>3 DEF UsedOK
    <3>5. WorkerServes(w)'
      BY <2>2, <3>1, <3>2, <3>3 DEF WorkerServes
    <3> QED BY <1>1, <3>4, <3>5 DEF JobInv, Served
  <2> QED BY <2>1, <2>2
<1> QED BY <1>6, <1>7, <1>8, <1>9, <1>10, <1>11, <1>12, <1>13, <1>14, <1>15,
           <1>16, <1>17 DEF WorkerStep

\* Without the tool, and unless a worker or a handler is lost, a QUEUED
\* document always has a message, a worker or a handler that will take it
\* further, whoever processes, retries, cancels or deletes it meanwhile.
THEOREM NeverStranded ==
  ASSUME NoLoss
  PROVE  Spec => []QueuedHasJob
<1>1. Init => JobInv
  <2> SUFFICES ASSUME Init PROVE JobInv OBVIOUS
  <2>1. IInv
    <3>1. \A w \in Workers : wk[w].pc = "idle" BY DEF Init, IdleWk
    <3>2. LockOK BY <3>1 DEF Init, LockOK
    <3>3. TypeOK BY <3>1, <3>2, UploadedTyped DEF Init, TypeOK
    <3>4. IndexedIsWhole BY DEF Init, Uploaded, IndexedIsWhole
    <3> QED BY <3>1, <3>3, <3>4 DEF IInv, Replaces
  <2>2. Served BY DEF Init, Uploaded, Served
  <2>3. UsedOK BY DEF Init, Uploaded, IdleReq, IdleWk, UsedOK
  <2> QED BY <2>1, <2>2, <2>3 DEF JobInv
<1>2. JobInv /\ [Next]_vars => JobInv'
  <2> SUFFICES ASSUME JobInv, [Next]_vars PROVE JobInv' OBVIOUS
  <2>1. CASE UNCHANGED vars
    <3>1. IInv'
      BY <2>1 DEF vars, broker, JobInv, IInv, TypeOK, LockOK, Exists, IndexedIsWhole,
         Replaces
    <3>2. UNCHANGED <<row, req, wk, queue, used, revoked>>
      BY <2>1 DEF vars, broker
    <3>3. Served' /\ UsedOK'
      BY <3>2 DEF JobInv, Served, UsedOK, WorkerServes, RequestServes
    <3> QED BY <3>1, <3>3 DEF JobInv
  <2>2. ASSUME NEW q \in Requests, RequestStep(q) PROVE JobInv'
    BY <2>2, RequestServed
  <2>3. ASSUME NEW q \in Requests, NEW op \in Ops, ReadDocument(q, op) PROVE JobInv'
    BY <2>3, ReadServed
  <2>4. ASSUME NEW w \in Workers, WorkerStep(w) \/ Terminated(w) PROVE JobInv'
    BY <2>4, WorkerServed
  <2>5. ASSUME NEW w \in Workers, Redeliver(w) PROVE JobInv'
    <3>1. IInv' BY <2>5, EnvironmentKeeps DEF JobInv, Environment
    <3>2. /\ UNCHANGED <<row, req, wk, used, revoked>> /\ wk[w].pc # "idle"
          /\ queue' = queue \cup {wk[w].id}
      BY <2>5 DEF Redeliver
    <3>3. UsedOK' BY <3>2 DEF JobInv, UsedOK
    <3>4. Served' BY <3>2 DEF JobInv, Served, WorkerServes, RequestServes
    <3> QED BY <3>1, <3>3, <3>4 DEF JobInv
  <2>6. ~ApiRestart /\ \A w \in Workers : ~WorkerCrash(w) /\ ~BeginFails(w)
    BY DEF NoLoss, ApiRestart, WorkerCrash, BeginFails, Fault
  <2> QED BY <2>1, <2>2, <2>3, <2>4, <2>5, <2>6 DEF Next, Environment
<1>3. JobInv => QueuedHasJob
  BY DEF JobInv, Served, WorkerServes, RequestServes, QueuedHasJob, Attends
<1> QED BY <1>1, <1>2, <1>3, PTL DEF Spec

-----------------------------------------------------------------------------
(* A cancel is final *)

\* What CancelledIsStable allows a step to do to a CANCELLED document that
\* nobody is about to overwrite: keep it so, delete it, or go on for a user
\* who has asked for it again.
AskedAgain ==
    \E q \in Requests : \/ req[q].pc = "process" /\ req'[q].pc = "enqueue"
                        \/ req[q].pc = "retry" /\ req'[q].pc = "requeue"

CancelStays ==
    \/ row'.status = "cancelled" /\ Quiet'
    \/ row'.status = "absent"
    \/ AskedAgain

\* What Quiet asks of one handler.
QuietRequest(r) ==
    /\ r.pc # "restore"
    /\ r.pc = "enqueue" => r.tool
    /\ r.pc = "cancel" => r.seen.status \notin Active

LEMMA QuietParts ==
  Quiet <=> /\ \A w \in Workers : wk[w].pc \in {"idle", "begin", "failing", "recover"}
            /\ \A q \in Requests : QuietRequest(req[q])
<1>1. ASSUME NEW q \in Requests
      PROVE  (CASE req[q].pc = "restore" -> FALSE
                [] req[q].pc = "enqueue" -> req[q].tool
                [] req[q].pc = "cancel"  -> req[q].seen.status \notin Active
                [] OTHER -> TRUE) <=> QuietRequest(req[q])
  <2>1. CASE req[q].pc = "restore" BY <2>1 DEF QuietRequest
  <2>2. CASE req[q].pc = "enqueue" BY <2>2 DEF QuietRequest
  <2>3. CASE req[q].pc = "cancel" BY <2>3 DEF QuietRequest
  <2>4. CASE req[q].pc \notin {"restore", "enqueue", "cancel"} BY <2>4 DEF QuietRequest
  <2> QED BY <2>1, <2>2, <2>3, <2>4
<1> QED BY <1>1 DEF Quiet

\* The same of the next state.
LEMMA QuietAfter ==
  ASSUME \A w \in Workers : wk'[w].pc \in {"idle", "begin", "failing", "recover"},
         \A q \in Requests : QuietRequest(req'[q])
  PROVE  Quiet'
<1>1. ASSUME NEW q \in Requests
      PROVE  CASE req'[q].pc = "restore" -> FALSE
               [] req'[q].pc = "enqueue" -> req'[q].tool
               [] req'[q].pc = "cancel"  -> req'[q].seen.status \notin Active
               [] OTHER -> TRUE
  <2>1. QuietRequest(req'[q]) OBVIOUS
  <2>2. CASE req'[q].pc = "restore" BY <2>1, <2>2 DEF QuietRequest
  <2>3. CASE req'[q].pc = "enqueue" BY <2>1, <2>3 DEF QuietRequest
  <2>4. CASE req'[q].pc = "cancel" BY <2>1, <2>4 DEF QuietRequest
  <2>5. CASE req'[q].pc \notin {"restore", "enqueue", "cancel"} BY <2>5
  <2> QED BY <2>2, <2>3, <2>4, <2>5
<1> QED BY <1>1 DEF Quiet

LEMMA RequestQuiets ==
  ASSUME TypeOK, Quiet, NEW q \in Requests, NEW r, req' = [req EXCEPT ![q] = r],
         QuietRequest(r), UNCHANGED wk
  PROVE  Quiet'
<1>1. \A p \in Requests : req'[p] = IF p = q THEN r ELSE req[p]
  BY DEF TypeOK
<1>2. \A p \in Requests : QuietRequest(req'[p])
  BY <1>1, QuietParts
<1> QED BY <1>2, QuietParts, QuietAfter

LEMMA WorkerQuiets ==
  ASSUME TypeOK, Quiet, NEW w \in Workers, NEW r, wk' = [wk EXCEPT ![w] = r],
         r.pc \in {"idle", "begin", "failing", "recover"}, UNCHANGED req
  PROVE  Quiet'
<1>1. \A v \in Workers : wk'[v] = IF v = w THEN r ELSE wk[v]
  BY DEF TypeOK
<1>2. \A v \in Workers : wk'[v].pc \in {"idle", "begin", "failing", "recover"}
  BY <1>1, QuietParts
<1> QED BY <1>2, QuietParts, QuietAfter

LEMMA IdleIsQuiet == QuietRequest(IdleReq) /\ IdleReq.pc = "idle" /\ IdleWk.pc = "idle"
  BY DEF QuietRequest, IdleReq, IdleWk

\* A handler's step: it goes on with r.
LEMMA RequestCancelStays ==
  ASSUME TypeOK, Quiet, row.status = "cancelled", NEW q \in Requests, RequestStep(q)
  PROVE  CancelStays
<1>1. /\ row \in Row /\ req[q] \in ReqState /\ req[q].seen \in Row
      /\ req \in [Requests -> ReqState] /\ QuietRequest(req[q])
  BY QuietParts DEF TypeOK, ReqState
<1> DEFINE seen == req[q].seen
<1>2. CASE EndReq(q) /\ UNCHANGED <<row, wk>>
  BY <1>2, IdleIsQuiet, RequestQuiets DEF EndReq, CancelStays
<1>3. ASSUME NEW status \in Status, NEW task \in TaskIds \cup {None},
             Write(seen, [status |-> status, task |-> task]),
             status \in {seen.status, "cancelled"}
      PROVE  row'.status = "cancelled"
  <2>1. [status |-> status, task |-> task] \in Row BY DEF Row
  <2> QED BY <1>1, <1>3, <2>1, WriteFields
<1>4. ASSUME NEW s \in Status
      PROVE  [seen EXCEPT !.status = s] = [status |-> s, task |-> seen.task]
             /\ seen.task \in TaskIds \cup {None}
  BY <1>1 DEF Row
<1>5. ASSUME NEW t \in TaskIds \cup {None}
      PROVE  [seen EXCEPT !.task = t] = [status |-> seen.status, task |-> t]
             /\ seen.status \in Status
  BY <1>1 DEF Row
<1>6. CASE NothingToDo(q) \/ RevokeFails(q) \/ RequestRowGone(q)
  BY <1>2, <1>6 DEF NothingToDo, RevokeFails, RequestRowGone
<1>7. CASE QueueProcessing(q)
  <2>1. req'[q].pc = "enqueue" /\ req[q].pc = "process"
    BY <1>1, <1>7 DEF QueueProcessing, ReqGoes, ReqState
  <2> QED BY <2>1 DEF CancelStays, AskedAgain
<1>8. CASE EnqueueFails(q)
  <2>1. req[q].tool BY <1>1, <1>8 DEF EnqueueFails, QuietRequest
  <2> QED BY <1>2, <1>8, <2>1 DEF EnqueueFails
<1>9. CASE RestoreUploaded(q) \/ MarkCancelling(q)
  BY <1>1, <1>9 DEF RestoreUploaded, MarkCancelling, QuietRequest
<1>10. CASE SetTaskId(q)
  <2>1. req[q].task \in TaskIds \cup {None} BY <1>1 DEF ReqState
  <2>2. row'.status = "cancelled"
    BY <1>3, <1>5, <1>10, <2>1 DEF SetTaskId
  <2> QED BY <1>10, <2>2, IdleIsQuiet, RequestQuiets DEF SetTaskId, EndReq, CancelStays
<1>11. CASE MarkCancelled(q)
  <2>1. row'.status = "cancelled"
    BY <1>3, <1>4, <1>11 DEF MarkCancelled, Status
  <2> QED BY <1>11, <2>1, IdleIsQuiet, RequestQuiets DEF MarkCancelled, EndReq, CancelStays
<1>12. CASE ResetForRetry(q)
  <2>1. req'[q].pc = "requeue" /\ req[q].pc = "retry"
    BY <1>1, <1>12 DEF ResetForRetry, ReqGoes, ReqState
  <2> QED BY <2>1 DEF CancelStays, AskedAgain
<1>13. ASSUME NEW pc \in {"cancelled", "process"}, ReqSees(q, pc), UNCHANGED <<row, wk>>
       PROVE  CancelStays
  <2> DEFINE r == [req[q] EXCEPT !.pc = pc, !.seen = row]
  <2>1. QuietRequest(r) BY <1>1 DEF QuietRequest, ReqState
  <2>2. req' = [req EXCEPT ![q] = r] BY <1>13 DEF ReqSees
  <2> QED BY <1>13, <2>1, <2>2, RequestQuiets DEF CancelStays
<1>14. CASE RevokeTask(q) \/ RefreshForRetry(q)
  BY <1>13, <1>14 DEF RevokeTask, RefreshForRetry
<1>15. CASE DeleteDocument(q)
  BY <1>1, <1>15 DEF DeleteDocument, CancelStays, Row
<1>16. ASSUME NEW t \in TaskIds, Enqueue(q, t) PROVE CancelStays
  <2> DEFINE r == [req[q] EXCEPT !.pc = "setId", !.seen = row, !.task = t]
  <2>1. QuietRequest(r) BY <1>1 DEF QuietRequest, ReqState
  <2>2. req' = [req EXCEPT ![q] = r] /\ UNCHANGED <<row, wk>> BY <1>16 DEF Enqueue
  <2> QED BY <2>1, <2>2, RequestQuiets DEF CancelStays
<1> QED BY <1>6, <1>7, <1>8, <1>9, <1>10, <1>11, <1>12, <1>14, <1>15, <1>16 DEF RequestStep

LEMMA ReadCancelStays ==
  ASSUME TypeOK, Quiet, row.status = "cancelled", NEW q \in Requests, NEW op \in Ops,
         ReadDocument(q, op)
  PROVE  CancelStays
<1> DEFINE r == [IdleReq EXCEPT !.pc = IF op = "tool" THEN "process" ELSE op,
                                !.tool = (op = "tool"), !.seen = row]
<1>1. r.pc \in {"process", "cancel", "retry", "delete"} /\ r.seen = row
  BY DocumentsAssumption DEF IdleReq
<1>2. QuietRequest(r)
  BY <1>1 DEF QuietRequest, Active
<1>3. req' = [req EXCEPT ![q] = r] /\ UNCHANGED <<row, wk>>
  BY DEF ReadDocument
<1> QED BY <1>2, <1>3, RequestQuiets DEF CancelStays

LEMMA WorkerCancelStays ==
  ASSUME TypeOK, Quiet, row.status = "cancelled", NEW w \in Workers,
         WorkerStep(w) \/ Terminated(w) \/ WorkerCrash(w) \/ BeginFails(w) \/ Redeliver(w)
  PROVE  CancelStays
<1>1. wk[w].pc \in {"idle", "begin", "failing", "recover"} /\ wk[w] \in WkState
  BY QuietParts DEF TypeOK
<1>2. CASE Ack(w) /\ UNCHANGED <<row, req>>
  BY <1>2, IdleIsQuiet, WorkerQuiets DEF Ack, CancelStays
<1>3. CASE Skip(w) \/ WorkerRowGone(w) \/ Terminated(w) \/ WorkerCrash(w) \/ BeginFails(w)
           \/ Recover(w)
  BY <1>2, <1>3 DEF Skip, WorkerRowGone, Terminated, WorkerCrash, BeginFails, Recover
<1>4. CASE Redeliver(w)
  BY <1>4, QuietParts, QuietAfter DEF Redeliver, CancelStays
<1>5. CASE Claim(w) \/ StartProcessing(w) \/ ReplaceChunks(w) \/ CompleteProcessing(w)
           \/ ProcessRaises(w) \/ CommitFailed(w)
  BY <1>1, <1>5 DEF Claim, StartProcessing, ReplaceChunks, CompleteProcessing, ProcessRaises,
                    CommitFailed
<1>6. CASE FailInSession(w)
  <2>1. WkGoes(w, "recover") /\ UNCHANGED <<row, req>>
    BY <1>6 DEF FailInSession
  <2> DEFINE r == [IdleWk EXCEPT !.pc = "recover", !.id = wk[w].id]
  <2>2. r.pc = "recover" /\ wk' = [wk EXCEPT ![w] = r]
    BY <2>1 DEF WkGoes, IdleWk
  <2> QED BY <2>1, <2>2, WorkerQuiets DEF CancelStays
<1>7. ASSUME NEW t \in queue, Deliver(w, t) PROVE CancelStays
  <2>1. CASE t \in revoked
    BY <1>7, <2>1, QuietParts, QuietAfter DEF Deliver, CancelStays
  <2>2. CASE t \notin revoked
    <3> DEFINE r == [IdleWk EXCEPT !.pc = "begin", !.id = t]
    <3>1. r.pc = "begin" BY DEF IdleWk
    <3>2. wk' = [wk EXCEPT ![w] = r] /\ UNCHANGED <<row, req>>
      BY <1>7, <2>2 DEF Deliver
    <3> QED BY <3>1, <3>2, WorkerQuiets DEF CancelStays
  <2> QED BY <2>1, <2>2
<1> QED BY <1>3, <1>4, <1>5, <1>6, <1>7 DEF WorkerStep

\* A cancel of a job that no worker has started is final, for any number of
\* requests, workers, messages and faults, the agent's tool included.
THEOREM CancelsAreFinal == Spec => CancelledIsStable
<1>1. ASSUME TypeOK, [Next]_vars, row.status = "cancelled", Quiet
      PROVE  CancelStays
  <2>1. CASE UNCHANGED vars
    BY <1>1, <2>1, QuietParts, QuietAfter DEF vars, CancelStays
  <2>2. CASE ApiRestart
    <3>1. \A q \in Requests : QuietRequest(req'[q])
      BY <2>2, IdleIsQuiet DEF ApiRestart
    <3> QED BY <1>1, <2>2, <3>1, QuietParts, QuietAfter DEF ApiRestart, CancelStays
  <2> QED
    BY <1>1, <2>1, <2>2, RequestCancelStays, ReadCancelStays, WorkerCancelStays
       DEF Next, Environment
<1>2. TypeOK /\ [Next]_vars =>
        [row.status = "cancelled" /\ Quiet =>
          \/ row'.status = "cancelled" /\ Quiet'
          \/ row'.status = "absent"
          \/ \E q \in Requests : \/ req[q].pc = "process" /\ req'[q].pc = "enqueue"
                                 \/ req[q].pc = "retry" /\ req'[q].pc = "requeue"]_vars
  BY <1>1 DEF CancelStays, AskedAgain
<1> QED BY <1>2, TypeCorrect, PTL DEF Spec, CancelledIsStable
=============================================================================
