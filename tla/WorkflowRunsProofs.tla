------------------------- MODULE WorkflowRunsProofs -------------------------
(***************************************************************************)
(* Theorems about WorkflowRuns, for every set of runs, requests, workers   *)
(* and message ids, every choice of Ops and Faults and every bound.        *)
(*                                                                         *)
(* PendingIsUntouched is not inductive: that a claim finds nobody at work  *)
(* on the run depends on what every message, request, worker and recovery  *)
(* entry that names a PENDING run may be (PendingRefs), and that a fresh   *)
(* row starts that way depends on nothing naming it before its commit      *)
(* (AbsentIsUnknown).                                                      *)
(*                                                                         *)
(* That a cancel is final is a property of each step.  That a run has one  *)
(* engine is not a theorem: a resume can put a second one on it.  It is    *)
(* one where nothing is resumed, neither by a user nor by the startup pass *)
(* (NothingResumed), since a stream's run is then known to nobody else     *)
(* that could execute it (StreamsAlone).                                   *)
(*                                                                         *)
(* That somebody has every active run (ActiveIsHandled) needs that nobody  *)
(* kills the worker that has it: the id of its message is that of no other *)
(* run, and a revoked id is one of a run that was cancelled (IdsOK).       *)
(***************************************************************************)
EXTENDS WorkflowRuns, FiniteSetTheorems, TLAPS

\* A row that was never committed is named nowhere.
AbsentIsUnknown ==
    \A r \in Runs : status[r] = "absent" =>
        /\ r \notin saved
        /\ \A w \in Workers : wk[w].run # r
        /\ \A m \in queue : m.run # r
        /\ \A q \in Requests : req[q].run # r
        /\ \A x \in recovery : x.run # r

\* What may refer to a PENDING run: workflows.run messages that have not
\* claimed it, and requests and recovery entries that loaded it PENDING.
PendingRefs ==
    \A r \in Runs : status[r] = "pending" =>
        /\ r \notin saved
        /\ \A w \in Workers : wk[w].run = r =>
              wk[w].pc \in {"idle", "begin"} /\ wk[w].kind = "run"
        /\ \A m \in queue : m.run = r => m.kind = "run"
        /\ \A q \in Requests : req[q].run = r =>
              /\ req[q].seen = "pending"
              /\ \/ req[q].pc \in {"cancel", "resume", "delete"}
                 \/ /\ req[q].kind = "run"
                    /\ req[q].pc \in {"enqueue", "setId", "refresh", "fail"}
        /\ \A x \in recovery : x.run = r => x.status = "pending"

Refs == AbsentIsUnknown /\ PendingRefs

IInv == TypeOK /\ Refs /\ RunTaskExclusive

BusyWk == {"begin", "claimed", "starting", "started", "engine", "done",
           "completing", "raised", "failing", "recover", "refailing"}

USE ConstantsAssumption DEF Active, Resumable, Deletable, Status, Kind, Message

-----------------------------------------------------------------------------
(* Type correctness *)

LEMMA ReqSame == ASSUME ReqOK, UNCHANGED req PROVE ReqOK'
  BY DEF ReqOK

LEMMA WkSame == ASSUME WkOK, UNCHANGED wk PROVE WkOK'
  BY DEF WkOK

LEMMA WkWrite ==
  ASSUME WkOK, NEW w \in Workers, NEW s \in WkState,
         s.pc # "idle" => s.run \in Runs /\ s.id \in TaskIds /\ s.kind # "stream",
         wk' = [wk EXCEPT ![w] = s]
  PROVE  WkOK'
  BY DEF WkOK

LEMMA ReqWrite ==
  ASSUME ReqOK, NEW q \in Requests, NEW s \in ReqState,
         s.pc # "idle" => s.run \in Runs,
         s.pc = "enqueue" => s.kind = "run" \/ (s.kind = "resume" /\ s.prev \in Resumable),
         s.pc = "restore" => s.prev \in Resumable,
         req' = [req EXCEPT ![q] = s]
  PROVE  ReqOK'
  BY DEF ReqOK

LEMMA WkMoves ==
  ASSUME TableOK, WkOK, NEW w \in Workers, wk[w].pc # "idle", NEW pc \in BusyWk,
         WkGoes(w, pc) \/ WkSees(w, pc) \/ EndSession(w)
  PROVE  WkOK'
<1> wk[w] \in WkState BY DEF WkOK
<1> status[wk[w].run] \in Status BY DEF TableOK, WkOK
<1>1. CASE WkGoes(w, pc)
  <2> DEFINE s == [wk[w] EXCEPT !.pc = pc]
  <2>1. s \in WkState /\ s.run = wk[w].run /\ s.id = wk[w].id /\ s.kind = wk[w].kind
    BY DEF WkState, BusyWk
  <2> QED BY <1>1, <2>1, WkWrite DEF WkOK, WkGoes
<1>2. CASE WkSees(w, pc)
  <2> DEFINE s == [wk[w] EXCEPT !.pc = pc, !.seen = status[wk[w].run]]
  <2>1. s \in WkState /\ s.run = wk[w].run /\ s.id = wk[w].id /\ s.kind = wk[w].kind
    BY DEF WkState, BusyWk
  <2> QED BY <1>2, <2>1, WkWrite DEF WkOK, WkSees
<1>3. CASE EndSession(w)
  <2> DEFINE s == [wk[w] EXCEPT !.pc = "recover", !.dirty = FALSE]
  <2>1. s \in WkState /\ s.run = wk[w].run /\ s.id = wk[w].id /\ s.kind = wk[w].kind
    BY DEF WkState, BusyWk
  <2> QED BY <1>3, <2>1, WkWrite DEF WkOK, EndSession
<1> QED BY <1>1, <1>2, <1>3

LEMMA AckOK == ASSUME WkOK, NEW w \in Workers, Ack(w) PROVE WkOK'
 BY WkWrite DEF Ack, IdleWk, WkState

LEMMA EndReqOK == ASSUME ReqOK, NEW q \in Requests, EndReq(q) PROVE ReqOK'
 BY ReqWrite DEF EndReq, IdleReq, ReqState

LEMMA ReqMoves ==
  ASSUME TableOK, ReqOK, NEW q \in Requests, req[q].pc # "idle",
         NEW pc \in {"cancel", "resume", "delete", "setId", "refresh", "fail", "restore", "revoke", "stream"},
         pc = "restore" => req[q].prev \in Resumable,
         ReqGoes(q, pc) \/ ReqSees(q, pc)
  PROVE  ReqOK'
<1> req[q] \in ReqState BY DEF ReqOK
<1> status[req[q].run] \in Status BY DEF TableOK, ReqOK
<1>1. CASE ReqGoes(q, pc)
  <2> DEFINE s == [req[q] EXCEPT !.pc = pc]
  <2>1. s \in ReqState /\ s.run = req[q].run /\ s.prev = req[q].prev /\ s.pc = pc
    BY DEF ReqState
  <2> QED BY <1>1, <2>1, ReqWrite DEF ReqOK, ReqGoes
<1>2. CASE ReqSees(q, pc)
  <2> DEFINE s == [req[q] EXCEPT !.pc = pc, !.seen = status[req[q].run]]
  <2>1. s \in ReqState /\ s.run = req[q].run /\ s.prev = req[q].prev /\ s.pc = pc
    BY ZenonT(30) DEF ReqState
  <2>2. req' = [req EXCEPT ![q] = s] /\ req[q].run \in Runs
    BY <1>2 DEF ReqOK, ReqSees
  <2>3. pc # "enqueue" /\ (pc = "restore" => s.prev \in Resumable)
    BY <2>1
  <2> QED BY <2>1, <2>2, <2>3, ReqWrite
<1> QED BY <1>1, <1>2

\* What WkGoes and WkSees, EndSession, and Deliver leave as it was.
LEMMA WkFrame ==
  ASSUME WkOK, NEW w \in Workers, NEW pc, WkGoes(w, pc) \/ WkSees(w, pc)
  PROVE  \A v \in Workers : /\ wk'[v].run = wk[v].run /\ wk'[v].kind = wk[v].kind
                            /\ wk'[v].id = wk[v].id
                            /\ v # w => wk'[v] = wk[v]
<1>1. CASE WkGoes(w, pc)
  BY <1>1 DEF WkOK, WkState, WkGoes
<1>2. CASE WkSees(w, pc)
  BY <1>2 DEF WkOK, WkState, WkSees
<1> QED BY <1>1, <1>2

LEMMA EndFrame ==
  ASSUME WkOK, NEW w \in Workers, EndSession(w)
  PROVE  \A v \in Workers : /\ wk'[v].run = wk[v].run /\ wk'[v].kind = wk[v].kind
                            /\ wk'[v].id = wk[v].id
                            /\ v # w => wk'[v] = wk[v]
  BY DEF WkOK, WkState, EndSession

LEMMA DeliverFrame ==
  ASSUME WkOK, NEW w \in Workers, NEW m \in Message, Deliver(w, m), m.id \notin revoked
  PROVE  /\ wk'[w].pc = "begin" /\ wk'[w].run = m.run /\ wk'[w].kind = m.kind
         /\ wk'[w].id = m.id
         /\ \A v \in Workers : v # w => wk'[v] = wk[v]
<1> DEFINE new == [IdleWk EXCEPT !.pc = "begin", !.id = m.id,
                                 !.run = m.run, !.kind = m.kind]
<1>1. wk' = [wk EXCEPT ![w] = new]
  BY DEF Deliver
<1>2. new.pc = "begin" /\ new.run = m.run /\ new.kind = m.kind /\ new.id = m.id
  BY DEF IdleWk
<1>3. DOMAIN wk = Workers
  BY DEF WkOK
<1> HIDE DEF new
<1>4. wk'[w] = new /\ \A v \in Workers : v # w => wk'[v] = wk[v]
  BY <1>1, <1>3
<1> QED BY <1>2, <1>4

LEMMA ReqFrame ==
  ASSUME ReqOK, NEW q \in Requests, NEW pc, ReqSees(q, pc)
  PROVE  \A p \in Requests : /\ req'[p].run = req[p].run /\ req'[p].kind = req[p].kind
                             /\ p # q => req'[p] = req[p]
                             /\ p = q => /\ req'[p].pc = pc
                                         /\ req'[p].seen = status[req[p].run]
  BY DEF ReqOK, ReqState, ReqSees

LEMMA RequestTyped ==
  ASSUME TypeOK, NEW q \in Requests, RequestStep(q) \/ UserStep(q)
  PROVE  TypeOK'
<1> req[q].pc # "idle" => req[q].run \in Runs
  BY DEF TypeOK, ReqOK
<1>1. CASE Reject(q)
  BY <1>1, ReqMoves, EndReqOK, WkSame DEF TypeOK, TableOK, BrokerOK, table,
      broker, Reject
<1>2. CASE ResumeStart(q)
  <2> DEFINE s == [req[q] EXCEPT !.pc = "enqueue", !.kind = "resume",
                         !.prev = req[q].seen]
  <2>1. /\ s \in ReqState /\ s.run = req[q].run /\ s.pc = "enqueue"
        /\ s.kind = "resume" /\ s.prev = req[q].seen
    BY <1>2 DEF TypeOK, ReqOK, ReqState
  <2>2. ReqOK'
    BY <1>2, <2>1, ReqWrite DEF TypeOK, ReqOK, ResumeStart, Allowed
  <2> QED
    BY <1>2, <2>2, WkSame DEF TypeOK, TableOK, BrokerOK, table, broker,
      ResumeStart, SetStatus, Update
<1>3. CASE EnqueueFails(q)
  <2>1. req[q].kind = "run" \/ req[q].prev \in Resumable
    BY <1>3 DEF TypeOK, ReqOK, EnqueueFails
  <2> QED
    BY <1>3, <2>1, ReqMoves, WkSame DEF TypeOK, TableOK, BrokerOK, table,
      broker, EnqueueFails
<1>4. CASE RefreshFailed(q)
  BY <1>4, ReqMoves, EndReqOK, WkSame DEF TypeOK, TableOK, BrokerOK, table,
      broker, RefreshFailed
<1>5. CASE FailRun(q)
  BY <1>5, ReqMoves, EndReqOK, WkSame DEF TypeOK, TableOK, BrokerOK, table,
      broker, FailRun, Update
<1>6. CASE RestoreStatus(q)
  <2>1. req[q].prev \in Resumable
    BY <1>6 DEF TypeOK, ReqOK, RestoreStatus
  <2> QED
    BY <1>6, <2>1, EndReqOK, WkSame DEF TypeOK, TableOK, BrokerOK, table,
      broker, RestoreStatus, SetStatus, Update
<1>7. CASE SetTaskId(q)
  <2>1. req[q].task \in TaskIds \cup {NoTask}
    BY <1>7 DEF TypeOK, ReqOK, ReqState
  <2> QED
    BY <1>7, <2>1, EndReqOK, WkSame DEF TypeOK, TableOK, BrokerOK, table,
      broker, SetTaskId
<1>8. CASE CancelRun(q)
  BY <1>8, ReqMoves, EndReqOK, WkSame DEF TypeOK, TableOK, BrokerOK, table,
      broker, CancelRun, Update, Allowed
<1>9. CASE RevokeTask(q)
  BY <1>9, ReqMoves, EndReqOK, WkSame DEF TypeOK, TableOK, BrokerOK, table,
      broker, RevokeTask
<1>10. CASE RevokeFails(q)
  BY <1>10, ReqMoves, EndReqOK, WkSame DEF TypeOK, TableOK, BrokerOK, table,
      broker, RevokeFails
<1>11. CASE DeleteRun(q)
  BY <1>11, ReqMoves, EndReqOK, WkSame DEF TypeOK, TableOK, BrokerOK, table,
      broker, DeleteRun, Allowed
<1>12. CASE StreamCompletes(q)
  BY <1>12, ReqMoves, EndReqOK, WkSame DEF TypeOK, TableOK, BrokerOK, table,
      broker, StreamCompletes, Update
<1>13. CASE StreamRaises(q)
  BY <1>13, ReqMoves, EndReqOK, WkSame DEF TypeOK, TableOK, BrokerOK, table,
      broker, StreamRaises
<1>14. CASE StreamDrops(q)
  BY <1>14, ReqMoves, EndReqOK, WkSame DEF TypeOK, TableOK, BrokerOK, table,
      broker, StreamDrops
<1>15. CASE RequestRowGone(q)
  BY <1>15, ReqMoves, EndReqOK, WkSame DEF TypeOK, TableOK, BrokerOK, table,
      broker, RequestRowGone
<1>16. ASSUME NEW t \in TaskIds, Enqueue(q, t) PROVE TypeOK'
  <2> DEFINE s == [req[q] EXCEPT !.pc = "setId", !.task = t]
  <2>1. s \in ReqState /\ s.run = req[q].run /\ s.pc = "setId"
    BY <1>16, ZenonT(30) DEF TypeOK, ReqOK, ReqState
  <2>2. ReqOK'
    BY <1>16, <2>1, ReqWrite DEF TypeOK, ReqOK, Enqueue
  <2>3. [id |-> t, kind |-> req[q].kind, run |-> req[q].run] \in Message
    BY <1>16 DEF TypeOK, ReqOK, Enqueue
  <2> QED
    BY <1>16, <2>2, <2>3, WkSame DEF TypeOK, TableOK, BrokerOK, table, broker,
      Enqueue, Publish
<1>17. ASSUME NEW r \in Runs, EnqueueRun(q, r) PROVE TypeOK'
  <2> DEFINE s == [IdleReq EXCEPT !.pc = "enqueue", !.run = r,
                                  !.seen = "pending"]
  <2>1. s \in ReqState /\ s.run = r /\ s.pc = "enqueue" /\ s.kind = "run"
    BY DEF IdleReq, ReqState
  <2>2. ReqOK'
    BY <1>17, <2>1, ReqWrite DEF TypeOK, EnqueueRun
  <2> QED
    BY <1>17, <2>2, WkSame DEF TypeOK, TableOK, BrokerOK, table, broker,
      EnqueueRun
<1>18. ASSUME NEW r \in Runs, StreamRun(q, r) PROVE TypeOK'
  <2> DEFINE s == [IdleReq EXCEPT !.pc = "stream", !.run = r,
                                  !.kind = "stream", !.seen = "running"]
  <2>1. s \in ReqState /\ s.run = r /\ s.pc = "stream"
    BY DEF IdleReq, ReqState
  <2>2. ReqOK'
    BY <1>18, <2>1, ReqWrite DEF TypeOK, StreamRun
  <2> QED
    BY <1>18, <2>2, WkSame DEF TypeOK, TableOK, BrokerOK, table, broker,
      StreamRun
<1>19. ASSUME NEW r \in Runs, NEW op \in Ops[r], ReadRun(q, r, op) PROVE TypeOK'
  <2> DEFINE s == [IdleReq EXCEPT !.pc = op, !.run = r, !.seen = status[r]]
  <2>1. s \in ReqState /\ s.run = r /\ s.pc = op
    BY <1>19 DEF TypeOK, TableOK, IdleReq, ReqState, ReadRun
  <2>2. ReqOK'
    BY <1>19, <2>1, ReqWrite DEF TypeOK, ReadRun
  <2> QED
    BY <1>19, <2>2, WkSame DEF TypeOK, TableOK, BrokerOK, table, broker,
      ReadRun
<1>20. QED
  BY <1>1, <1>2, <1>3, <1>4, <1>5, <1>6, <1>7, <1>8, <1>9, <1>10, <1>11,
      <1>12, <1>13, <1>14, <1>15, <1>16, <1>17, <1>18, <1>19 DEF RequestStep,
      UserStep

LEMMA WorkerTyped ==
  ASSUME TypeOK, NEW w \in Workers,
         WorkerStep(w) \/ Terminated(w) \/ BeginFails(w) \/ EngineWrites(w)
           \/ WorkerCrash(w) \/ Redeliver(w)
  PROVE  TypeOK'
<1> wk[w].pc # "idle" => wk[w].run \in Runs
  BY DEF TypeOK, WkOK
<1>1. CASE ClaimPending(w)
  BY <1>1, WkMoves, AckOK, ReqSame DEF TypeOK, TableOK, BrokerOK, table,
      broker, BusyWk, ClaimPending, Update
<1>2. CASE BeginResume(w)
  BY <1>2, WkMoves, AckOK, ReqSame DEF TypeOK, TableOK, BrokerOK, table,
      broker, BusyWk, BeginResume
<1>3. CASE Skip(w)
  BY <1>3, WkMoves, AckOK, ReqSame DEF TypeOK, TableOK, BrokerOK, table,
      broker, BusyWk, Skip
<1>4. CASE RefreshClaimed(w)
  BY <1>4, WkMoves, AckOK, ReqSame DEF TypeOK, TableOK, BrokerOK, table,
      broker, BusyWk, RefreshClaimed
<1>5. CASE Start(w)
  BY <1>5, WkMoves, AckOK, ReqSame DEF TypeOK, TableOK, BrokerOK, table,
      broker, BusyWk, Start, SetStatus, Update
<1>6. CASE RefreshStarted(w)
  BY <1>6, WkMoves, AckOK, ReqSame DEF TypeOK, TableOK, BrokerOK, table,
      broker, BusyWk, RefreshStarted
<1>7. CASE EngineReturns(w)
  <2> DEFINE s == [wk[w] EXCEPT !.pc = "done",
                         !.dirty = wk[w].dirty \/ wk[w].kind = "run"]
  <2>1. s \in WkState /\ s.run = wk[w].run /\ s.id = wk[w].id /\ s.kind =
      wk[w].kind
    BY <1>7, ZenonT(30) DEF TypeOK, WkOK, WkState, EngineReturns
  <2>2. wk' = [wk EXCEPT ![w] = s]
    BY <1>7 DEF EngineReturns
  <2>3. wk[w].run \in Runs /\ wk[w].id \in TaskIds /\ wk[w].kind # "stream"
    BY <1>7 DEF TypeOK, WkOK, EngineReturns
  <2>4. WkOK'
    BY <2>1, <2>2, <2>3, WkWrite DEF TypeOK
  <2> QED
    BY <1>7, <2>4, ReqSame DEF TypeOK, TableOK, BrokerOK, table, broker,
      EngineReturns
<1>8. CASE EngineEmpty(w)
  BY <1>8, WkMoves, AckOK, ReqSame DEF TypeOK, TableOK, BrokerOK, table,
      broker, BusyWk, EngineEmpty, AckOrRecover, Update
<1>9. CASE EngineRaises(w)
  BY <1>9, WkMoves, AckOK, ReqSame DEF TypeOK, TableOK, BrokerOK, table,
      broker, BusyWk, EngineRaises
<1>10. CASE SessionBreaks(w)
  BY <1>10, WkMoves, AckOK, ReqSame DEF TypeOK, TableOK, BrokerOK, table,
      broker, BusyWk, SessionBreaks
<1>11. CASE RefreshDone(w)
  BY <1>11, WkMoves, AckOK, ReqSame DEF TypeOK, TableOK, BrokerOK, table,
      broker, BusyWk, RefreshDone
<1>12. CASE CompleteRun(w)
  BY <1>12, WkMoves, AckOK, ReqSame DEF TypeOK, TableOK, BrokerOK, table,
      broker, BusyWk, CompleteRun, AckOrRecover, Update
<1>13. CASE RefreshRaised(w)
  BY <1>13, WkMoves, AckOK, ReqSame DEF TypeOK, TableOK, BrokerOK, table,
      broker, BusyWk, RefreshRaised
<1>14. CASE FailEngine(w)
  BY <1>14, WkMoves, AckOK, ReqSame DEF TypeOK, TableOK, BrokerOK, table,
      broker, BusyWk, FailEngine, Update
<1>15. CASE RefreshRecover(w)
  BY <1>15, WkMoves, AckOK, ReqSame DEF TypeOK, TableOK, BrokerOK, table,
      broker, BusyWk, RefreshRecover
<1>16. CASE FailRecovered(w)
  BY <1>16, WkMoves, AckOK, ReqSame DEF TypeOK, TableOK, BrokerOK, table,
      broker, BusyWk, FailRecovered, SetStatus, Update
<1>17. CASE WorkerRowGone(w)
  BY <1>17, WkMoves, AckOK, ReqSame DEF TypeOK, TableOK, BrokerOK, table,
      broker, BusyWk, WorkerRowGone, Executing
<1>18. CASE Terminated(w)
  BY <1>18, WkMoves, AckOK, ReqSame DEF TypeOK, TableOK, BrokerOK, table,
      broker, BusyWk, Terminated
<1>19. CASE BeginFails(w)
  BY <1>19, WkMoves, AckOK, ReqSame DEF TypeOK, TableOK, BrokerOK, table,
      broker, BusyWk, BeginFails, Fault
<1>20. CASE EngineWrites(w)
  <2> DEFINE s == [wk[w] EXCEPT !.dirty = TRUE]
  <2>1. s \in WkState /\ s.run = wk[w].run /\ s.id = wk[w].id /\ s.kind =
      wk[w].kind
    BY <1>20 DEF TypeOK, WkOK, WkState
  <2>2. WkOK'
    BY <1>20, <2>1, WkWrite DEF TypeOK, WkOK, EngineWrites
  <2> QED
    BY <1>20, <2>2, ReqSame DEF TypeOK, TableOK, BrokerOK, table, broker,
      EngineWrites
<1>21. CASE WorkerCrash(w)
  <2>1. [id |-> wk[w].id, kind |-> wk[w].kind, run |-> wk[w].run] \in Message
    BY <1>21 DEF TypeOK, WkOK, WkState, WorkerCrash
  <2>2. WkOK'
    BY <1>21, AckOK DEF TypeOK, WorkerCrash
  <2> QED
    BY <1>21, <2>1, <2>2, ReqSame DEF TypeOK, TableOK, BrokerOK, table,
      WorkerCrash, Fault
<1>22. CASE Redeliver(w)
  <2>1. [id |-> wk[w].id, kind |-> wk[w].kind, run |-> wk[w].run] \in Message
    BY <1>22 DEF TypeOK, WkOK, WkState, Redeliver
  <2> QED
    BY <1>22, <2>1, WkSame, ReqSame DEF TypeOK, TableOK, BrokerOK, table,
      Redeliver, Fault
<1>23. ASSUME NEW m \in queue, Deliver(w, m) PROVE TypeOK'
  <2> DEFINE s == [IdleWk EXCEPT !.pc = "begin", !.id = m.id,
                                 !.run = m.run, !.kind = m.kind]
  <2>1. m \in Message
    BY DEF TypeOK, BrokerOK
  <2>2. /\ s \in WkState /\ s.run = m.run /\ s.id = m.id /\ s.kind = m.kind
        /\ s.run \in Runs /\ s.id \in TaskIds /\ s.kind # "stream"
    BY <2>1 DEF IdleWk, WkState
  <2>3. WkOK'
    BY <1>23, <2>2, WkWrite, WkSame DEF TypeOK, Deliver
  <2> QED
    BY <1>23, <2>3, ReqSame DEF TypeOK, TableOK, BrokerOK, table, broker,
      Deliver
<1>24. QED
  BY <1>1, <1>2, <1>3, <1>4, <1>5, <1>6, <1>7, <1>8, <1>9, <1>10, <1>11,
      <1>12, <1>13, <1>14, <1>15, <1>16, <1>17, <1>18, <1>19, <1>20, <1>21,
      <1>22, <1>23 DEF WorkerStep

LEMMA EnvironmentTyped ==
  ASSUME TypeOK,
         RecoverStep \/ (\E r \in Runs : TimePasses(r))
           \/ (\E m \in queue : LoseMessage(m)) \/ ApiRestart
           \/ UNCHANGED vars
  PROVE  TypeOK'
<1>1. ASSUME NEW r \in Runs, TimePasses(r) PROVE TypeOK'
  BY <1>1, ReqSame, WkSame DEF TypeOK, TableOK, BrokerOK, table, broker,
      TimePasses
<1>2. ASSUME NEW m \in queue, LoseMessage(m) PROVE TypeOK'
  BY <1>2, ReqSame, WkSame DEF TypeOK, TableOK, BrokerOK, table, broker,
      LoseMessage, Fault
<1>3. CASE ApiRestart
  <2>1. ReqOK'
    BY <1>3 DEF ApiRestart, ReqOK, IdleReq, ReqState
  <2> QED
    BY <1>3, <2>1, WkSame DEF TypeOK, TableOK, BrokerOK, table, broker,
      ApiRestart, Fault, StaleRuns
<1>4. ASSUME NEW x \in recovery, NEW t \in TaskIds, RecoverEnqueue(x, t) PROVE
      TypeOK'
  BY <1>4, ReqSame, WkSame DEF TypeOK, TableOK, BrokerOK, table, broker,
      RecoverEnqueue, Publish
<1>5. ASSUME NEW x \in recovery, RecoverSkip(x) PROVE TypeOK'
  BY <1>5, ReqSame, WkSame DEF TypeOK, TableOK, BrokerOK, table, broker,
      RecoverSkip
<1>6. CASE UNCHANGED vars
  BY <1>6, ReqSame, WkSame DEF TypeOK, TableOK, BrokerOK, table, broker, vars
<1>7. QED
  BY <1>1, <1>2, <1>3, <1>4, <1>5, <1>6 DEF RecoverStep

-----------------------------------------------------------------------------
(* What may name a run that is not committed yet, or PENDING *)

LEMMA RequestRefs ==
  ASSUME TypeOK, Refs, NEW q \in Requests, RequestStep(q) \/ UserStep(q)
  PROVE  Refs'
<1> USE DEF Refs, AbsentIsUnknown, PendingRefs, YieldsToCancel, TypeOK,
      TableOK, BrokerOK, ReqOK, WkOK, ReqState, WkState, IdleReq, IdleWk,
      table, broker, Exists, Executing
<1>1. CASE Reject(q)
  BY <1>1 DEF Reject, EndReq
<1>2. CASE ResumeStart(q)
  BY <1>2 DEF ResumeStart, SetStatus, Update, Allowed
<1>3. CASE EnqueueFails(q)
  BY <1>3 DEF EnqueueFails, ReqSees
<1>4. CASE RefreshFailed(q)
  <2>1. CASE status[req[q].run] = "canceled"
    BY <1>4, <2>1 DEF RefreshFailed, EndReq
  <2>2. CASE status[req[q].run] # "canceled"
    BY <1>4, <2>2, ReqFrame DEF RefreshFailed
  <2> QED
    BY <2>1, <2>2
<1>5. CASE FailRun(q)
  BY <1>5 DEF FailRun, Update, EndReq
<1>6. CASE RestoreStatus(q)
  BY <1>6 DEF RestoreStatus, SetStatus, Update, EndReq
<1>7. CASE SetTaskId(q)
  BY <1>7 DEF SetTaskId, EndReq
<1>8. CASE CancelRun(q)
  BY <1>8 DEF CancelRun, Update, Allowed, ReqGoes
<1>9. CASE RevokeTask(q)
  BY <1>9 DEF RevokeTask, EndReq
<1>10. CASE RevokeFails(q)
  BY <1>10 DEF RevokeFails, EndReq
<1>11. CASE DeleteRun(q)
  BY <1>11 DEF DeleteRun, Allowed, EndReq
<1>12. CASE StreamCompletes(q)
  BY <1>12 DEF StreamCompletes, Update, EndReq
<1>13. CASE StreamRaises(q)
  BY <1>13 DEF StreamRaises, ReqGoes
<1>14. CASE StreamDrops(q)
  BY <1>14 DEF StreamDrops, EndReq
<1>15. CASE RequestRowGone(q)
  BY <1>15 DEF RequestRowGone, EndReq
<1>16. ASSUME NEW t \in TaskIds, Enqueue(q, t) PROVE Refs'
  BY <1>16 DEF Enqueue, Publish
<1>17. ASSUME NEW r \in Runs, EnqueueRun(q, r) PROVE Refs'
  BY <1>17 DEF EnqueueRun
<1>18. ASSUME NEW r \in Runs, StreamRun(q, r) PROVE Refs'
  BY <1>18 DEF StreamRun
<1>19. ASSUME NEW r \in Runs, NEW op \in Ops[r], ReadRun(q, r, op) PROVE Refs'
  BY <1>19 DEF ReadRun
<1>20. QED
  BY <1>1, <1>2, <1>3, <1>4, <1>5, <1>6, <1>7, <1>8, <1>9, <1>10, <1>11,
      <1>12, <1>13, <1>14, <1>15, <1>16, <1>17, <1>18, <1>19 DEF RequestStep,
      UserStep

LEMMA WorkerRefs ==
  ASSUME TypeOK, Refs, NEW w \in Workers,
         WorkerStep(w) \/ Terminated(w) \/ BeginFails(w) \/ EngineWrites(w)
           \/ WorkerCrash(w) \/ Redeliver(w)
  PROVE  Refs'
<1> USE DEF Refs, AbsentIsUnknown, PendingRefs, YieldsToCancel, TypeOK,
      TableOK, BrokerOK, ReqOK, WkOK, ReqState, WkState, IdleReq, IdleWk,
      table, broker, Exists, Executing
<1>1. CASE ClaimPending(w)
  BY <1>1 DEF ClaimPending, Update, WkGoes
<1>2. CASE BeginResume(w)
  BY <1>2 DEF BeginResume, WkSees
<1>3. CASE Skip(w)
  BY <1>3 DEF Skip, Ack
<1>4. CASE RefreshClaimed(w)
  BY <1>4 DEF RefreshClaimed, WkSees
<1>5. CASE Start(w)
  BY <1>5 DEF Start, SetStatus, Update, WkGoes
<1>6. CASE RefreshStarted(w)
  BY <1>6 DEF RefreshStarted, WkSees
<1>7. CASE EngineReturns(w)
  BY <1>7 DEF EngineReturns
<1>8. CASE EngineEmpty(w)
  <2>1. CASE Ack(w)
    BY <1>8, <2>1 DEF EngineEmpty, Update, Ack
  <2>2. CASE EndSession(w)
    BY <1>8, <2>2 DEF EngineEmpty, Update, EndSession
  <2> QED BY <1>8, <2>1, <2>2 DEF EngineEmpty, AckOrRecover
<1>9. CASE EngineRaises(w)
  BY <1>9 DEF EngineRaises, WkGoes
<1>10. CASE SessionBreaks(w)
  BY <1>10 DEF SessionBreaks, EndSession
<1>11. CASE RefreshDone(w)
  <2>1. CASE status[wk[w].run] = "canceled"
    BY <1>11, <2>1 DEF RefreshDone, Ack
  <2>2. CASE status[wk[w].run] # "canceled"
    BY <1>11, <2>2, WkFrame DEF RefreshDone
  <2> QED
    BY <2>1, <2>2
<1>12. CASE CompleteRun(w)
  <2>1. CASE Ack(w)
    BY <1>12, <2>1 DEF CompleteRun, Update, Ack
  <2>2. CASE EndSession(w)
    BY <1>12, <2>2 DEF CompleteRun, Update, EndSession
  <2> QED BY <1>12, <2>1, <2>2 DEF CompleteRun, AckOrRecover
<1>13. CASE RefreshRaised(w)
  <2>1. CASE status[wk[w].run] = "canceled"
    <3>1. EndSession(w) /\ UNCHANGED <<status, saved, queue, req, recovery>>
      BY <1>13, <2>1 DEF RefreshRaised
    <3>2. /\ wk[w].pc = "raised" /\ wk[w].run \in Runs
          /\ \A v \in Workers : /\ wk'[v].run = wk[v].run /\ wk'[v].kind = wk[v].kind
                                /\ v # w => wk'[v] = wk[v]
      BY <1>13, <3>1, EndFrame DEF RefreshRaised
    <3>3. status[wk[w].run] # "pending" BY <3>2
    <3> QED BY <3>1, <3>2, <3>3
  <2>2. CASE status[wk[w].run] # "canceled"
    BY <1>13, <2>2, WkFrame DEF RefreshRaised
  <2> QED
    BY <2>1, <2>2
<1>14. CASE FailEngine(w)
  BY <1>14 DEF FailEngine, Update, EndSession
<1>15. CASE RefreshRecover(w)
  <2>1. CASE status[wk[w].run] = "canceled"
    BY <1>15, <2>1 DEF RefreshRecover, Ack
  <2>2. CASE status[wk[w].run] # "canceled"
    BY <1>15, <2>2, WkFrame DEF RefreshRecover
  <2> QED
    BY <2>1, <2>2
<1>16. CASE FailRecovered(w)
  BY <1>16 DEF FailRecovered, SetStatus, Update, Ack
<1>17. CASE WorkerRowGone(w)
  BY <1>17 DEF WorkerRowGone, Executing, Ack
<1>18. CASE Terminated(w)
  BY <1>18 DEF Terminated, Ack
<1>19. CASE BeginFails(w)
  BY <1>19 DEF BeginFails, Fault, Ack
<1>20. CASE EngineWrites(w)
  BY <1>20 DEF EngineWrites
<1>21. CASE WorkerCrash(w)
  BY <1>21 DEF WorkerCrash, Fault, Ack
<1>22. CASE Redeliver(w)
  BY <1>22 DEF Redeliver, Fault
<1>23. ASSUME NEW m \in queue, Deliver(w, m) PROVE Refs'
  <2>1. m \in Message
    BY DEF TypeOK, BrokerOK
  <2>2. CASE m.id \in revoked
    BY <1>23, <2>1, <2>2 DEF Deliver
  <2>3. CASE m.id \notin revoked
    <3>1. /\ wk'[w].pc = "begin" /\ wk'[w].run = m.run /\ wk'[w].kind = m.kind
          /\ \A v \in Workers : v # w => wk'[v] = wk[v]
      BY <1>23, <2>1, <2>3, DeliverFrame
    <3>2. UNCHANGED <<table, req, recovery>> /\ queue' = queue \ {m}
      BY <1>23 DEF Deliver, table
    <3>3. AbsentIsUnknown'
      BY <2>1, <3>1, <3>2
    <3>4. ASSUME NEW r \in Runs, status[r] = "pending"
          PROVE  /\ \A v \in Workers : wk'[v].run = r =>
                       wk'[v].pc \in {"idle", "begin"} /\ wk'[v].kind = "run"
                 /\ \A x \in queue' : x.run = r => x.kind = "run"
      BY <2>1, <3>1, <3>2, <3>4
    <3>5. PendingRefs'
      BY <3>2, <3>4
    <3> QED
      BY <3>3, <3>5
  <2> QED
    BY <2>2, <2>3
<1>24. QED
  BY <1>1, <1>2, <1>3, <1>4, <1>5, <1>6, <1>7, <1>8, <1>9, <1>10, <1>11,
      <1>12, <1>13, <1>14, <1>15, <1>16, <1>17, <1>18, <1>19, <1>20, <1>21,
      <1>22, <1>23 DEF WorkerStep

LEMMA EnvironmentRefs ==
  ASSUME TypeOK, Refs,
         RecoverStep \/ (\E r \in Runs : TimePasses(r))
           \/ (\E m \in queue : LoseMessage(m)) \/ ApiRestart
           \/ UNCHANGED vars
  PROVE  Refs'
<1> USE DEF Refs, AbsentIsUnknown, PendingRefs, YieldsToCancel, TypeOK,
      TableOK, BrokerOK, ReqOK, WkOK, ReqState, WkState, IdleReq, IdleWk,
      table, broker, Exists, Executing
<1>1. ASSUME NEW r \in Runs, TimePasses(r) PROVE Refs'
  BY <1>1 DEF TimePasses
<1>2. ASSUME NEW m \in queue, LoseMessage(m) PROVE Refs'
  BY <1>2 DEF LoseMessage, Fault
<1>3. CASE ApiRestart
  BY <1>3 DEF ApiRestart, Fault, StaleRuns
<1>4. ASSUME NEW x \in recovery, NEW t \in TaskIds, RecoverEnqueue(x, t) PROVE
      Refs'
  BY <1>4 DEF RecoverEnqueue, Publish
<1>5. ASSUME NEW x \in recovery, RecoverSkip(x) PROVE Refs'
  BY <1>5 DEF RecoverSkip
<1>6. CASE UNCHANGED vars
  BY <1>6 DEF vars
<1>7. QED
  BY <1>1, <1>2, <1>3, <1>4, <1>5, <1>6 DEF RecoverStep

-----------------------------------------------------------------------------
(* Exclusive execution by workflows.run *)

LEMMA WorkerExclusive ==
  ASSUME TypeOK, PendingRefs, RunTaskExclusive, NEW w \in Workers,
         WorkerStep(w) \/ Terminated(w) \/ BeginFails(w) \/ EngineWrites(w)
           \/ WorkerCrash(w) \/ Redeliver(w)
  PROVE  RunTaskExclusive'
<1> USE DEF PendingRefs, RunTaskExclusive, YieldsToCancel, TypeOK, TableOK,
      BrokerOK, WkOK, WkState, IdleWk, table, broker, Exists, Executing
<1>1. CASE ClaimPending(w)
  BY <1>1 DEF ClaimPending, Update, WkGoes
<1>2. CASE BeginResume(w)
  BY <1>2 DEF BeginResume, WkSees
<1>3. CASE Skip(w)
  BY <1>3 DEF Skip, Ack
<1>4. CASE RefreshClaimed(w)
  BY <1>4 DEF RefreshClaimed, WkSees
<1>5. CASE Start(w)
  BY <1>5 DEF Start, SetStatus, Update, WkGoes
<1>6. CASE RefreshStarted(w)
  BY <1>6 DEF RefreshStarted, WkSees
<1>7. CASE EngineReturns(w)
  BY <1>7 DEF EngineReturns
<1>8. CASE EngineEmpty(w)
  <2>1. CASE Ack(w)
    BY <1>8, <2>1 DEF EngineEmpty, Update, Ack
  <2>2. CASE EndSession(w)
    BY <1>8, <2>2 DEF EngineEmpty, Update, EndSession
  <2> QED BY <1>8, <2>1, <2>2 DEF EngineEmpty, AckOrRecover
<1>9. CASE EngineRaises(w)
  BY <1>9 DEF EngineRaises, WkGoes
<1>10. CASE SessionBreaks(w)
  BY <1>10 DEF SessionBreaks, EndSession
<1>11. CASE RefreshDone(w)
  <2>1. CASE status[wk[w].run] = "canceled"
    BY <1>11, <2>1 DEF RefreshDone, Ack
  <2>2. CASE status[wk[w].run] # "canceled"
    BY <1>11, <2>2, WkFrame DEF RefreshDone
  <2> QED
    BY <2>1, <2>2
<1>12. CASE CompleteRun(w)
  <2>1. CASE Ack(w)
    BY <1>12, <2>1 DEF CompleteRun, Update, Ack
  <2>2. CASE EndSession(w)
    BY <1>12, <2>2 DEF CompleteRun, Update, EndSession
  <2> QED BY <1>12, <2>1, <2>2 DEF CompleteRun, AckOrRecover
<1>13. CASE RefreshRaised(w)
  <2>1. CASE status[wk[w].run] = "canceled"
    BY <1>13, <2>1, EndFrame DEF RefreshRaised
  <2>2. CASE status[wk[w].run] # "canceled"
    BY <1>13, <2>2, WkFrame DEF RefreshRaised
  <2> QED
    BY <2>1, <2>2
<1>14. CASE FailEngine(w)
  BY <1>14 DEF FailEngine, Update, EndSession
<1>15. CASE RefreshRecover(w)
  <2>1. CASE status[wk[w].run] = "canceled"
    BY <1>15, <2>1 DEF RefreshRecover, Ack
  <2>2. CASE status[wk[w].run] # "canceled"
    BY <1>15, <2>2, WkFrame DEF RefreshRecover
  <2> QED
    BY <2>1, <2>2
<1>16. CASE FailRecovered(w)
  BY <1>16 DEF FailRecovered, SetStatus, Update, Ack
<1>17. CASE WorkerRowGone(w)
  BY <1>17 DEF WorkerRowGone, Executing, Ack
<1>18. CASE Terminated(w)
  BY <1>18 DEF Terminated, Ack
<1>19. CASE BeginFails(w)
  BY <1>19 DEF BeginFails, Fault, Ack
<1>20. CASE EngineWrites(w)
  BY <1>20 DEF EngineWrites
<1>21. CASE WorkerCrash(w)
  BY <1>21 DEF WorkerCrash, Fault, Ack
<1>22. CASE Redeliver(w)
  BY <1>22 DEF Redeliver, Fault
<1>23. ASSUME NEW m \in queue, Deliver(w, m) PROVE RunTaskExclusive'
  <2>1. m \in Message
    BY DEF TypeOK, BrokerOK
  <2>2. CASE m.id \in revoked
    BY <1>23, <2>1, <2>2 DEF Deliver
  <2>3. CASE m.id \notin revoked
    <3>1. /\ wk'[w].pc = "begin" /\ wk'[w].run = m.run /\ wk'[w].kind = m.kind
          /\ \A v \in Workers : v # w => wk'[v] = wk[v]
      BY <1>23, <2>1, <2>3, DeliverFrame
    <3>2. UNCHANGED <<table, req, recovery>> /\ queue' = queue \ {m}
      BY <1>23 DEF Deliver, table
    <3> QED
      BY <2>1, <3>1, <3>2
  <2> QED
    BY <2>2, <2>3
<1>24. QED
  BY <1>1, <1>2, <1>3, <1>4, <1>5, <1>6, <1>7, <1>8, <1>9, <1>10, <1>11,
      <1>12, <1>13, <1>14, <1>15, <1>16, <1>17, <1>18, <1>19, <1>20, <1>21,
      <1>22, <1>23 DEF WorkerStep

LEMMA EnvironmentExclusive ==
  ASSUME TypeOK, PendingRefs, RunTaskExclusive,
         RecoverStep \/ (\E r \in Runs : TimePasses(r))
           \/ (\E m \in queue : LoseMessage(m)) \/ ApiRestart
           \/ UNCHANGED vars
  PROVE  RunTaskExclusive'
<1> USE DEF PendingRefs, RunTaskExclusive, YieldsToCancel, TypeOK, TableOK,
      BrokerOK, WkOK, WkState, IdleWk, table, broker, Exists, Executing
<1>1. ASSUME NEW r \in Runs, TimePasses(r) PROVE RunTaskExclusive'
  BY <1>1 DEF TimePasses
<1>2. ASSUME NEW m \in queue, LoseMessage(m) PROVE RunTaskExclusive'
  BY <1>2 DEF LoseMessage, Fault
<1>3. CASE ApiRestart
  BY <1>3 DEF ApiRestart, Fault, StaleRuns
<1>4. ASSUME NEW x \in recovery, NEW t \in TaskIds, RecoverEnqueue(x, t) PROVE
      RunTaskExclusive'
  BY <1>4 DEF RecoverEnqueue, Publish
<1>5. ASSUME NEW x \in recovery, RecoverSkip(x) PROVE RunTaskExclusive'
  BY <1>5 DEF RecoverSkip
<1>6. CASE UNCHANGED vars
  BY <1>6 DEF vars
<1>7. QED
  BY <1>1, <1>2, <1>3, <1>4, <1>5, <1>6 DEF RecoverStep

-----------------------------------------------------------------------------
(* The invariant, and the theorems *)

LEMMA RequestExclusive ==
  ASSUME RunTaskExclusive, NEW q \in Requests, RequestStep(q) \/ UserStep(q)
  PROVE  RunTaskExclusive'
<1>1. UNCHANGED wk
  BY DEF RequestStep, UserStep, Reject, ResumeStart, EnqueueFails, RefreshFailed,
      FailRun, RestoreStatus, SetTaskId, CancelRun, RevokeTask, RevokeFails,
      DeleteRun, StreamCompletes, StreamRaises, StreamDrops, RequestRowGone,
      Enqueue, EnqueueRun, StreamRun, ReadRun
<1> QED BY <1>1 DEF RunTaskExclusive, Executing

LEMMA InitIInv == Init => IInv
  BY DEF Init, IInv, TypeOK, TableOK, BrokerOK, ReqOK, WkOK, Refs,
      AbsentIsUnknown, PendingRefs, RunTaskExclusive, Executing, IdleReq,
      IdleWk, ReqState, WkState

LEMMA NextIInv == IInv /\ [Next]_vars => IInv'
<1> SUFFICES ASSUME IInv, [Next]_vars PROVE IInv'
  OBVIOUS
<1> TypeOK /\ Refs /\ PendingRefs /\ RunTaskExclusive
  BY DEF IInv, Refs
<1>1. ASSUME NEW q \in Requests, RequestStep(q) \/ UserStep(q) PROVE IInv'
  BY <1>1, RequestTyped, RequestRefs, RequestExclusive DEF IInv
<1>2. ASSUME NEW w \in Workers,
             WorkerStep(w) \/ Terminated(w) \/ BeginFails(w) \/ EngineWrites(w)
               \/ WorkerCrash(w) \/ Redeliver(w)
      PROVE  IInv'
  BY <1>2, WorkerTyped, WorkerRefs, WorkerExclusive DEF IInv
<1>3. CASE RecoverStep \/ (\E r \in Runs : TimePasses(r))
             \/ (\E m \in queue : LoseMessage(m)) \/ ApiRestart
             \/ UNCHANGED vars
  BY <1>3, EnvironmentTyped, EnvironmentRefs, EnvironmentExclusive DEF IInv
<1> QED BY <1>1, <1>2, <1>3 DEF Next, Environment

\* The invariant the other theorems follow from.
THEOREM Invariance == Spec => []IInv
  BY InitIInv, NextIInv, PTL DEF Spec

\* Every reachable state is well formed, for any number of requests, workers
\* and faults.
THEOREM TypeCorrect == Spec => []TypeOK
<1>1. IInv => TypeOK
  BY DEF IInv
<1> QED BY <1>1, Invariance, PTL

\* While a run is PENDING nothing of it has executed: whatever crashes,
\* redeliveries, retries and restarts came before, a claim starts it afresh.
THEOREM PendingUntouched == Spec => []PendingIsUntouched
<1>1. IInv => PendingIsUntouched
  BY DEF IInv, TypeOK, WkOK, WkState, Refs, PendingRefs, PendingIsUntouched,
      Executing
<1> QED BY <1>1, Invariance, PTL

\* No message names a run whose row was never committed.
THEOREM RowsBeforeMessages == Spec => []MessagesHaveRows
<1>1. IInv => MessagesHaveRows
  BY DEF IInv, TypeOK, BrokerOK, WkOK, Refs, AbsentIsUnknown, MessagesHaveRows
<1> QED BY <1>1, Invariance, PTL

\* The claim makes workflows.run exclusive: two workers never execute one run
\* for such messages, however often they are delivered.
THEOREM ExclusiveClaim == Spec => []RunTaskExclusive
<1>1. IInv => RunTaskExclusive
  BY DEF IInv
<1> QED BY <1>1, Invariance, PTL

-----------------------------------------------------------------------------
(* How a run leaves PENDING *)

LEMMA StatusKept == ASSUME UNCHANGED status PROVE PendingOnceStep
  BY DEF PendingOnceStep

LEMMA RequestLeavesPending ==
  ASSUME TypeOK, PendingRefs, NEW q \in Requests, RequestStep(q) \/ UserStep(q)
  PROVE  PendingOnceStep
<1> USE DEF PendingRefs, TypeOK, TableOK, ReqOK, PendingOnceStep, Exists
<1>1. CASE ResumeStart(q)
  BY <1>1 DEF ResumeStart, SetStatus, Update, Allowed
<1>2. CASE FailRun(q)
  BY <1>2 DEF FailRun, Update
<1>3. CASE RestoreStatus(q)
  BY <1>3 DEF RestoreStatus, SetStatus, Update
<1>4. CASE CancelRun(q)
  BY <1>4 DEF CancelRun, Update, Allowed
<1>5. CASE DeleteRun(q)
  BY <1>5 DEF DeleteRun, Allowed
<1>6. CASE StreamCompletes(q)
  BY <1>6 DEF StreamCompletes, Update
<1>7. ASSUME NEW r \in Runs, EnqueueRun(q, r) \/ StreamRun(q, r)
      PROVE  PendingOnceStep
  BY <1>7 DEF EnqueueRun, StreamRun
<1>8. ASSUME \/ Reject(q) \/ EnqueueFails(q) \/ RefreshFailed(q) \/ SetTaskId(q)
            \/ RevokeTask(q) \/ RevokeFails(q) \/ StreamRaises(q)
            \/ StreamDrops(q) \/ RequestRowGone(q)
            \/ \E t \in TaskIds : Enqueue(q, t)
     PROVE  PendingOnceStep
  BY <1>8, StatusKept DEF table, Reject, EnqueueFails, RefreshFailed,
      SetTaskId, RevokeTask, RevokeFails, StreamRaises, StreamDrops,
      RequestRowGone, Enqueue
<1>9. ASSUME NEW r \in Runs, NEW op \in Ops[r], ReadRun(q, r, op)
      PROVE  PendingOnceStep
  BY <1>9, StatusKept DEF table, ReadRun
<1> HIDE DEF PendingOnceStep
<1>10. CASE RequestStep(q)
  BY <1>1, <1>2, <1>3, <1>4, <1>5, <1>6, <1>8, <1>10 DEF RequestStep
<1>11. CASE UserStep(q)
  BY <1>7, <1>9, <1>11 DEF UserStep
<1> QED
  BY <1>10, <1>11

LEMMA WorkerLeavesPending ==
  ASSUME TypeOK, PendingRefs, NEW w \in Workers,
         WorkerStep(w) \/ Terminated(w) \/ BeginFails(w) \/ EngineWrites(w)
           \/ WorkerCrash(w) \/ Redeliver(w)
  PROVE  PendingOnceStep
<1> USE DEF PendingRefs, TypeOK, TableOK, WkOK, PendingOnceStep, Exists
<1>1. CASE ClaimPending(w)
  BY <1>1 DEF ClaimPending, Update
<1>2. CASE Start(w)
  BY <1>2 DEF Start, SetStatus, Update
<1>3. CASE EngineEmpty(w)
  BY <1>3 DEF EngineEmpty, Update
<1>4. CASE CompleteRun(w)
  BY <1>4 DEF CompleteRun, Update
<1>5. CASE FailEngine(w)
  BY <1>5 DEF FailEngine, Update
<1>6. CASE FailRecovered(w)
  BY <1>6 DEF FailRecovered, SetStatus, Update
<1>7. ASSUME \/ BeginResume(w) \/ Skip(w) \/ RefreshClaimed(w) \/ RefreshStarted(w)
            \/ EngineReturns(w) \/ EngineRaises(w) \/ SessionBreaks(w) \/ RefreshDone(w)
            \/ RefreshRaised(w) \/ RefreshRecover(w) \/ WorkerRowGone(w) \/ Terminated(w)
            \/ BeginFails(w) \/ EngineWrites(w) \/ WorkerCrash(w) \/ Redeliver(w)
            \/ \E m \in queue : Deliver(w, m)
     PROVE  PendingOnceStep
  BY <1>7, StatusKept DEF table, BeginResume, Skip, RefreshClaimed,
      RefreshStarted, EngineReturns, EngineRaises, SessionBreaks,
      RefreshDone, RefreshRaised, RefreshRecover, WorkerRowGone, Terminated,
      BeginFails, EngineWrites, WorkerCrash, Redeliver, Deliver
<1> QED
  BY <1>1, <1>2, <1>3, <1>4, <1>5, <1>6, <1>7 DEF WorkerStep

LEMMA EnvironmentKeepsStatus ==
  ASSUME RecoverStep \/ (\E r \in Runs : TimePasses(r))
           \/ (\E m \in queue : LoseMessage(m)) \/ ApiRestart
  PROVE  UNCHANGED status
  BY DEF RecoverStep, RecoverEnqueue, RecoverSkip, TimePasses, LoseMessage,
      ApiRestart, table

\* No step, not even of a late or duplicate message, takes a run back to
\* PENDING or revives a deleted one.
THEOREM LeavesPendingOnce == Spec => PendingOnce
<1>1. IInv /\ [Next]_vars => [PendingOnceStep]_vars
  <2> SUFFICES ASSUME IInv, Next PROVE PendingOnceStep
    OBVIOUS
  <2> TypeOK /\ PendingRefs
    BY DEF IInv, Refs
  <2> QED
    BY RequestLeavesPending, WorkerLeavesPending, EnvironmentKeepsStatus,
      StatusKept DEF Next, Environment
<1> QED BY <1>1, Invariance, PTL DEF Spec, PendingOnce

-----------------------------------------------------------------------------
(* A cancel is final *)

\* What CanceledIsStable allows a step to do to a CANCELED run that nobody is
\* about to overwrite: keep it so, delete it, or resume it for a user.
ResumeAsked(r) == \E q \in Requests : /\ req[q].run = r /\ req[q].pc = "resume"
                                      /\ req'[q].pc = "enqueue"

CancelStays(r) ==
    \/ status'[r] = "canceled" /\ Quiet(r)'
    \/ status'[r] = "deleted"
    \/ ResumeAsked(r)

\* What Quiet asks of one worker and of one handler of the run.
QuietWk(s, r) == \/ s.pc \in {"begin", "done", "raised", "recover"}
                 \/ s.pc = "engine" /\ r \notin EmptyRuns
QuietReq(s)   == /\ s.pc \notin {"stream", "fail", "restore"}
                 /\ s.pc = "enqueue" => s.kind # "resume"

LEMMA QuietParts ==
  ASSUME NEW r \in Runs
  PROVE  Quiet(r) <=> /\ \A w \in Workers : wk[w].run = r => QuietWk(wk[w], r)
                      /\ \A q \in Requests : req[q].run = r => QuietReq(req[q])
  BY DEF Quiet, QuietWk, QuietReq

LEMMA WorkerQuiets ==
  ASSUME TypeOK, NEW r \in Runs, Quiet(r), NEW w \in Workers, NEW s,
         wk' = [wk EXCEPT ![w] = s], s.run = r => QuietWk(s, r), UNCHANGED req
  PROVE  Quiet(r)'
<1>1. \A v \in Workers : wk'[v].run = r => QuietWk(wk'[v], r)
  BY QuietParts DEF TypeOK, WkOK
<1> QED BY <1>1, QuietParts DEF Quiet, QuietWk

LEMMA RequestQuiets ==
  ASSUME TypeOK, NEW r \in Runs, Quiet(r), NEW q \in Requests, NEW s,
         req' = [req EXCEPT ![q] = s], s.run = r => QuietReq(s), UNCHANGED wk
  PROVE  Quiet(r)'
<1>1. \A p \in Requests : req'[p].run = r => QuietReq(req'[p])
  BY QuietParts DEF TypeOK, ReqOK
<1> QED BY <1>1, QuietParts DEF Quiet, QuietReq

LEMMA AckQuiets ==
  ASSUME TypeOK, NEW r \in Runs, Quiet(r), NEW w \in Workers, Ack(w), UNCHANGED req
  PROVE  Quiet(r)'
<1>1. IdleWk.run # r BY DEF IdleWk
<1> QED BY <1>1, WorkerQuiets DEF Ack

LEMMA EndReqQuiets ==
  ASSUME TypeOK, NEW r \in Runs, Quiet(r), NEW q \in Requests, EndReq(q), UNCHANGED wk
  PROVE  Quiet(r)'
<1>1. IdleReq.run # r BY DEF IdleReq
<1> QED BY <1>1, RequestQuiets DEF EndReq

\* A worker that moves on leaves every run as quiet as its next line does.
LEMMA WorkerMoves ==
  ASSUME TypeOK, NEW r \in Runs, Quiet(r), NEW w \in Workers, NEW pc, UNCHANGED req,
         WkGoes(w, pc) \/ WkSees(w, pc) \/ (EndSession(w) /\ pc = "recover"),
         wk[w].run = r => \/ pc \in {"begin", "done", "raised", "recover"}
                          \/ pc = "engine" /\ r \notin EmptyRuns
  PROVE  Quiet(r)'
<1>0. wk[w] \in WkState BY DEF TypeOK, WkOK
<1>1. CASE WkGoes(w, pc)
  <2> DEFINE s == [wk[w] EXCEPT !.pc = pc]
  <2>1. s.run = wk[w].run /\ s.pc = pc BY <1>0 DEF WkState
  <2>2. wk' = [wk EXCEPT ![w] = s] BY <1>1 DEF WkGoes
  <2> QED BY <2>1, <2>2, WorkerQuiets DEF QuietWk
<1>2. CASE WkSees(w, pc)
  <2> DEFINE s == [wk[w] EXCEPT !.pc = pc, !.seen = status[wk[w].run]]
  <2>1. s.run = wk[w].run /\ s.pc = pc BY <1>0 DEF WkState
  <2>2. wk' = [wk EXCEPT ![w] = s] BY <1>2 DEF WkSees
  <2> QED BY <2>1, <2>2, WorkerQuiets DEF QuietWk
<1>3. CASE EndSession(w) /\ pc = "recover"
  <2> DEFINE s == [wk[w] EXCEPT !.pc = "recover", !.dirty = FALSE]
  <2>1. s.run = wk[w].run /\ s.pc = pc BY <1>0, <1>3 DEF WkState
  <2>2. wk' = [wk EXCEPT ![w] = s] BY <1>3 DEF EndSession
  <2> QED BY <2>1, <2>2, WorkerQuiets DEF QuietWk
<1> QED BY <1>1, <1>2, <1>3

LEMMA RequestMoves ==
  ASSUME TypeOK, NEW r \in Runs, Quiet(r), NEW q \in Requests, NEW pc, UNCHANGED wk,
         ReqGoes(q, pc) \/ ReqSees(q, pc),
         req[q].run = r => pc \in {"cancel", "resume", "delete", "setId", "refresh", "revoke"}
  PROVE  Quiet(r)'
<1>0. req[q] \in ReqState BY DEF TypeOK, ReqOK
<1>1. CASE ReqGoes(q, pc)
  <2> DEFINE s == [req[q] EXCEPT !.pc = pc]
  <2>1. s.run = req[q].run /\ s.pc = pc BY <1>0 DEF ReqState
  <2>2. req' = [req EXCEPT ![q] = s] BY <1>1 DEF ReqGoes
  <2> QED BY <2>1, <2>2, RequestQuiets DEF QuietReq
<1>2. CASE ReqSees(q, pc)
  <2> DEFINE s == [req[q] EXCEPT !.pc = pc, !.seen = status[req[q].run]]
  <2>1. s.run = req[q].run /\ s.pc = pc BY <1>0 DEF ReqState
  <2>2. req' = [req EXCEPT ![q] = s] BY <1>2 DEF ReqSees
  <2> QED BY <2>1, <2>2, RequestQuiets DEF QuietReq
<1> QED BY <1>1, <1>2

\* An UPDATE of another run leaves this one alone.
LEMMA UpdatesOther ==
  ASSUME TypeOK, NEW r \in Runs, NEW o \in Runs, o # r, NEW seen, NEW new,
         SetStatus(o, seen, new) \/ Update(o, seen, new)
  PROVE  status'[r] = status[r]
  BY DEF TypeOK, TableOK, SetStatus, Update

-----------------------------------------------------------------------------

LEMMA WorkerCancelStays ==
  ASSUME TypeOK, NEW r \in Runs, status[r] = "canceled", Quiet(r), NEW w \in Workers,
         WorkerStep(w) \/ Terminated(w) \/ BeginFails(w) \/ EngineWrites(w)
           \/ WorkerCrash(w) \/ Redeliver(w)
  PROVE  CancelStays(r)
<1>0. /\ wk[w] \in WkState
      /\ wk[w].pc # "idle" => wk[w].run \in Runs
      /\ wk[w].run = r => QuietWk(wk[w], r)
  BY QuietParts DEF TypeOK, WkOK
<1>1. CASE Skip(w) \/ WorkerRowGone(w) \/ Terminated(w) \/ BeginFails(w) \/ WorkerCrash(w)
  BY <1>1, AckQuiets DEF Skip, WorkerRowGone, Terminated, BeginFails, WorkerCrash,
                         CancelStays, table
<1>2. CASE Redeliver(w)
  BY <1>2 DEF Redeliver, CancelStays, Quiet, table
<1>3. CASE ClaimPending(w)
  <2>1. wk[w].run # r /\ wk[w].run \in Runs /\ WkGoes(w, "claimed") /\ UNCHANGED req
    BY <1>0, <1>3 DEF ClaimPending
  <2> QED BY <1>3, <2>1, UpdatesOther, WorkerMoves DEF ClaimPending, CancelStays
<1>4. CASE BeginResume(w)
  BY <1>0, <1>4, WorkerMoves DEF BeginResume, CancelStays, table
<1>5. CASE RefreshClaimed(w) \/ RefreshStarted(w)
  <2>1. wk[w].run # r
    BY <1>0, <1>5 DEF RefreshClaimed, RefreshStarted, QuietWk
  <2> QED BY <1>5, <2>1, WorkerMoves DEF RefreshClaimed, RefreshStarted, CancelStays, table
<1>6. CASE Start(w)
  <2>1. wk[w].run # r /\ wk[w].run \in Runs /\ WkGoes(w, "started") /\ UNCHANGED req
    BY <1>0, <1>6 DEF Start, QuietWk
  <2> QED BY <1>6, <2>1, UpdatesOther, WorkerMoves DEF Start, CancelStays
<1>7. CASE EngineReturns(w)
  <2> DEFINE s == [wk[w] EXCEPT !.pc = "done", !.dirty = wk[w].dirty \/ wk[w].kind = "run"]
  <2>1. s.run = wk[w].run /\ s.pc = "done" BY <1>0 DEF WkState
  <2>2. wk' = [wk EXCEPT ![w] = s] /\ UNCHANGED <<status, req>>
    BY <1>7 DEF EngineReturns, table
  <2> QED BY <2>1, <2>2, WorkerQuiets DEF QuietWk, CancelStays
<1>8. CASE EngineWrites(w)
  <2> DEFINE s == [wk[w] EXCEPT !.dirty = TRUE]
  <2>1. s.run = wk[w].run /\ s.pc = "engine" BY <1>0, <1>8 DEF WkState, EngineWrites
  <2>2. wk' = [wk EXCEPT ![w] = s] /\ UNCHANGED <<status, req>> /\ wk[w].run \notin EmptyRuns
    BY <1>8 DEF EngineWrites, table
  <2> QED BY <2>1, <2>2, WorkerQuiets DEF QuietWk, CancelStays
<1>9. CASE EngineEmpty(w)
  <2>1. wk[w].run # r /\ wk[w].run \in Runs
    BY <1>0, <1>9 DEF EngineEmpty, QuietWk
  <2> QED BY <1>9, <2>1, UpdatesOther, AckQuiets, WorkerMoves
          DEF EngineEmpty, AckOrRecover, CancelStays
<1>10. CASE EngineRaises(w)
  BY <1>10, WorkerMoves DEF EngineRaises, CancelStays, table
<1>11. CASE SessionBreaks(w)
  BY <1>11, WorkerMoves DEF SessionBreaks, CancelStays, table
<1>12. CASE RefreshDone(w) \/ RefreshRecover(w)
  <2>1. CASE YieldsToCancel(wk[w].run)
    BY <1>12, <2>1, AckQuiets DEF RefreshDone, RefreshRecover, CancelStays, table
  <2>2. CASE ~YieldsToCancel(wk[w].run)
    <3>1. wk[w].run # r BY <2>2 DEF YieldsToCancel
    <3> QED BY <1>12, <2>2, <3>1, WorkerMoves DEF RefreshDone, RefreshRecover, CancelStays, table
  <2> QED BY <2>1, <2>2
<1>13. CASE RefreshRaised(w)
  <2>1. CASE YieldsToCancel(wk[w].run)
    BY <1>13, <2>1, WorkerMoves DEF RefreshRaised, CancelStays, table
  <2>2. CASE ~YieldsToCancel(wk[w].run)
    <3>1. wk[w].run # r BY <2>2 DEF YieldsToCancel
    <3> QED BY <1>13, <2>2, <3>1, WorkerMoves DEF RefreshRaised, CancelStays, table
  <2> QED BY <2>1, <2>2
<1>14. CASE CompleteRun(w) \/ FailRecovered(w)
  <2>1. wk[w].run # r /\ wk[w].run \in Runs
    BY <1>0, <1>14 DEF CompleteRun, FailRecovered, QuietWk
  <2> QED BY <1>14, <2>1, UpdatesOther, AckQuiets, WorkerMoves
          DEF CompleteRun, FailRecovered, AckOrRecover, CancelStays
<1>15. CASE FailEngine(w)
  <2>1. wk[w].run # r /\ wk[w].run \in Runs
    BY <1>0, <1>15 DEF FailEngine, QuietWk
  <2> QED BY <1>15, <2>1, UpdatesOther, WorkerMoves DEF FailEngine, CancelStays
<1>16. ASSUME NEW m \in queue, Deliver(w, m) PROVE CancelStays(r)
  <2>1. UNCHANGED <<status, req>> BY <1>16 DEF Deliver, table
  <2>2. CASE m.id \in revoked
    BY <1>16, <2>1, <2>2 DEF Deliver, CancelStays, Quiet
  <2>3. CASE m.id \notin revoked
    <3> DEFINE s == [IdleWk EXCEPT !.pc = "begin", !.id = m.id, !.run = m.run, !.kind = m.kind]
    <3>1. s.pc = "begin" BY DEF IdleWk
    <3>2. wk' = [wk EXCEPT ![w] = s] BY <1>16, <2>3 DEF Deliver
    <3> QED BY <2>1, <3>1, <3>2, WorkerQuiets DEF QuietWk, CancelStays
  <2> QED BY <2>2, <2>3
<1> QED
  BY <1>1, <1>2, <1>3, <1>4, <1>5, <1>6, <1>7, <1>8, <1>9, <1>10, <1>11, <1>12, <1>13,
     <1>14, <1>15, <1>16 DEF WorkerStep

LEMMA RequestCancelStays ==
  ASSUME TypeOK, NEW r \in Runs, status[r] = "canceled", Quiet(r), NEW q \in Requests,
         RequestStep(q) \/ UserStep(q)
  PROVE  CancelStays(r)
<1>0. /\ req[q] \in ReqState
      /\ req[q].pc # "idle" => req[q].run \in Runs
      /\ req[q].pc = "enqueue" => req[q].kind \in {"run", "resume"}
      /\ req[q].run = r => QuietReq(req[q])
  BY QuietParts DEF TypeOK, ReqOK
<1>1. CASE \/ Reject(q) \/ RevokeTask(q) \/ RevokeFails(q) \/ StreamDrops(q)
           \/ RequestRowGone(q)
  BY <1>1, EndReqQuiets DEF Reject, RevokeTask, RevokeFails, StreamDrops, RequestRowGone,
                            CancelStays, table
<1>2. CASE SetTaskId(q)
  BY <1>2, EndReqQuiets DEF SetTaskId, CancelStays
<1>3. CASE ResumeStart(q)
  <2> DEFINE s == [req[q] EXCEPT !.pc = "enqueue", !.kind = "resume", !.prev = req[q].seen]
  <2>1. s.run = req[q].run /\ s.pc = "enqueue" BY <1>0 DEF ReqState
  <2>2. req' = [req EXCEPT ![q] = s] /\ UNCHANGED wk /\ req[q].pc = "resume"
    BY <1>3 DEF ResumeStart
  <2>3. CASE req[q].run = r
    <3>1. req'[q].pc = "enqueue" BY <2>1, <2>2 DEF TypeOK, ReqOK
    <3> QED BY <2>2, <2>3, <3>1 DEF CancelStays, ResumeAsked
  <2>4. CASE req[q].run # r
    <3>1. Quiet(r)' BY <2>1, <2>2, <2>4, RequestQuiets
    <3> QED BY <1>0, <1>3, <2>2, <2>4, <3>1, UpdatesOther DEF ResumeStart, CancelStays
  <2> QED BY <2>3, <2>4
<1>4. CASE EnqueueFails(q)
  <2>1. CASE req[q].kind = "run"
    BY <1>4, <2>1, RequestMoves DEF EnqueueFails, CancelStays, table
  <2>2. CASE req[q].kind # "run"
    <3>1. req[q].run # r BY <1>0, <1>4, <2>2 DEF EnqueueFails, QuietReq
    <3> QED BY <1>4, <2>2, <3>1, RequestMoves DEF EnqueueFails, CancelStays, table
  <2> QED BY <2>1, <2>2
<1>5. CASE RefreshFailed(q)
  <2>1. CASE status[req[q].run] = "canceled"
    BY <1>5, <2>1, EndReqQuiets DEF RefreshFailed, CancelStays, table
  <2>2. CASE status[req[q].run] # "canceled"
    BY <1>5, <2>2, RequestMoves DEF RefreshFailed, CancelStays, table
  <2> QED BY <2>1, <2>2
<1>6. CASE FailRun(q) \/ RestoreStatus(q) \/ StreamCompletes(q)
  <2>1. req[q].run # r /\ req[q].run \in Runs
    BY <1>0, <1>6 DEF FailRun, RestoreStatus, StreamCompletes, QuietReq
  <2> QED
    BY <1>6, <2>1, UpdatesOther, EndReqQuiets
       DEF FailRun, RestoreStatus, StreamCompletes, CancelStays
<1>7. CASE CancelRun(q)
  <2>1. Quiet(r)' BY <1>7, RequestMoves DEF CancelRun
  <2>2. status'[r] = "canceled"
    BY <1>0, <1>7 DEF CancelRun, Update, TypeOK, TableOK
  <2> QED BY <2>1, <2>2 DEF CancelStays
<1>8. CASE DeleteRun(q)
  <2>1. Quiet(r)' BY <1>8, EndReqQuiets DEF DeleteRun
  <2>2. status'[r] \in {"canceled", "deleted"}
    BY <1>0, <1>8 DEF DeleteRun, TypeOK, TableOK
  <2> QED BY <2>1, <2>2 DEF CancelStays
<1>9. CASE StreamRaises(q)
  BY <1>9, RequestMoves DEF StreamRaises, CancelStays, table
<1>10. ASSUME NEW t \in TaskIds, Enqueue(q, t) PROVE CancelStays(r)
  <2> DEFINE s == [req[q] EXCEPT !.pc = "setId", !.task = t]
  <2>1. s.pc = "setId" BY <1>0 DEF ReqState
  <2>2. req' = [req EXCEPT ![q] = s] /\ UNCHANGED <<status, wk>>
    BY <1>10 DEF Enqueue, table
  <2> QED BY <2>1, <2>2, RequestQuiets DEF QuietReq, CancelStays
<1>11. ASSUME NEW o \in Runs, EnqueueRun(q, o) PROVE CancelStays(r)
  <2> DEFINE s == [IdleReq EXCEPT !.pc = "enqueue", !.run = o, !.seen = "pending"]
  <2>1. s.run = o BY DEF IdleReq
  <2>2. /\ req' = [req EXCEPT ![q] = s] /\ UNCHANGED wk
        /\ o # r /\ status'[r] = status[r]
    BY <1>11 DEF EnqueueRun, TypeOK, TableOK
  <2> QED BY <2>1, <2>2, RequestQuiets DEF CancelStays
<1>12. ASSUME NEW o \in Runs, StreamRun(q, o) PROVE CancelStays(r)
  <2> DEFINE s == [IdleReq EXCEPT !.pc = "stream", !.run = o, !.kind = "stream",
                                  !.seen = "running"]
  <2>1. s.run = o BY DEF IdleReq
  <2>2. /\ req' = [req EXCEPT ![q] = s] /\ UNCHANGED wk
        /\ o # r /\ status'[r] = status[r]
    BY <1>12 DEF StreamRun, TypeOK, TableOK
  <2> QED BY <2>1, <2>2, RequestQuiets DEF CancelStays
<1>13. ASSUME NEW o \in Runs, NEW op \in Ops[o], ReadRun(q, o, op) PROVE CancelStays(r)
  <2> DEFINE s == [IdleReq EXCEPT !.pc = op, !.run = o, !.seen = status[o]]
  <2>1. s.pc \in {"cancel", "resume", "delete"} BY <1>13 DEF ReadRun, IdleReq
  <2>2. req' = [req EXCEPT ![q] = s] /\ UNCHANGED <<status, wk>>
    BY <1>13 DEF ReadRun, table
  <2> QED BY <2>1, <2>2, RequestQuiets DEF QuietReq, CancelStays
<1> QED
  BY <1>1, <1>2, <1>3, <1>4, <1>5, <1>6, <1>7, <1>8, <1>9, <1>10, <1>11, <1>12, <1>13
     DEF RequestStep, UserStep

\* A cancel that no process has read past is final: neither the worker's return
\* or failure, nor a late, duplicate or recovered message, nor a restart takes
\* the run out of CANCELED, for any number of them.
THEOREM CancelsAreFinal == Spec => CanceledIsStable
<1>1. ASSUME TypeOK, [Next]_vars, NEW r \in Runs, status[r] = "canceled", Quiet(r)
      PROVE  CancelStays(r)
  <2>1. CASE UNCHANGED vars
    BY <1>1, <2>1 DEF vars, table, Quiet, CancelStays
  <2>2. CASE \/ RecoverStep \/ (\E o \in Runs : TimePasses(o))
             \/ \E m \in queue : LoseMessage(m)
    BY <1>1, <2>2 DEF RecoverStep, RecoverEnqueue, RecoverSkip, TimePasses, LoseMessage,
                      table, Quiet, CancelStays
  <2>3. CASE ApiRestart
    <3>1. UNCHANGED <<status, wk>> /\ \A q \in Requests : req'[q].run # r
      BY <2>3 DEF ApiRestart, table, IdleReq
    <3> QED BY <1>1, <3>1 DEF Quiet, CancelStays
  <2> QED
    BY <1>1, <2>1, <2>2, <2>3, RequestCancelStays, WorkerCancelStays DEF Next, Environment
<1>2. TypeOK /\ [Next]_vars =>
        [\A r \in Runs : status[r] = "canceled" /\ Quiet(r) =>
          \/ status'[r] = "canceled" /\ Quiet(r)'
          \/ status'[r] = "deleted"
          \/ \E q \in Requests : /\ req[q].run = r /\ req[q].pc = "resume"
                                 /\ req'[q].pc = "enqueue"]_vars
  BY <1>1 DEF CancelStays, ResumeAsked
<1> QED BY <1>2, TypeCorrect, PTL DEF Spec, CanceledIsStable

-----------------------------------------------------------------------------
(* Where a second engine can come from *)

\* Nothing is resumed: no request, message, worker or recovery entry asks a
\* worker to go on with a run that is already RUNNING.
NothingResumed ==
    /\ recovery = {}
    /\ \A m \in queue : m.kind = "run"
    /\ \A w \in Workers : wk[w].kind = "run"
    /\ \A q \in Requests : req[q].pc # "resume" /\ req[q].kind # "resume"

\* A stream works on a row of its own: it committed the row itself, so no
\* message, worker or other handler knows how to execute that run.
StreamsAlone ==
    \A q \in Requests : req[q].pc = "stream" =>
        /\ \A w \in Workers : wk[w].run # req[q].run
        /\ \A m \in queue : m.run # req[q].run
        /\ \A p \in Requests : req[p].run = req[q].run =>
              /\ req[p].pc # "enqueue"
              /\ req[p].pc = "stream" => p = q

NeverResumes == (\A r \in Runs : "resume" \notin Ops[r]) /\ "restart" \notin Faults

LEMMA RequestNothingResumed ==
  ASSUME NeverResumes, TypeOK, NothingResumed, NEW q \in Requests,
         RequestStep(q) \/ UserStep(q)
  PROVE  NothingResumed'
<1> USE DEF NothingResumed, TypeOK, ReqOK
<1>1. CASE \/ Reject(q) \/ FailRun(q) \/ SetTaskId(q) \/ RevokeTask(q) \/ RevokeFails(q)
           \/ DeleteRun(q) \/ StreamCompletes(q) \/ StreamDrops(q) \/ RequestRowGone(q)
           \/ RestoreStatus(q)
  <2>1. EndReq(q) /\ UNCHANGED <<queue, wk, recovery>>
    BY <1>1 DEF Reject, FailRun, SetTaskId, RevokeTask, RevokeFails, DeleteRun,
        StreamCompletes, StreamDrops, RequestRowGone, RestoreStatus, broker
  <2> QED BY <2>1 DEF EndReq, IdleReq
<1>2. ResumeStart(q) => FALSE
  BY DEF ResumeStart
<1>3. CASE EnqueueFails(q)
  BY <1>3, ReqFrame DEF EnqueueFails, broker
<1>4. CASE RefreshFailed(q)
  <2>1. CASE status[req[q].run] = "canceled"
    BY <1>4, <2>1 DEF RefreshFailed, EndReq, IdleReq, broker
  <2>2. CASE status[req[q].run] # "canceled"
    BY <1>4, <2>2, ReqFrame DEF RefreshFailed, broker
  <2> QED BY <2>1, <2>2
<1>5. CASE CancelRun(q)
  BY <1>5 DEF CancelRun, ReqGoes, ReqState, broker
<1>6. CASE StreamRaises(q)
  BY <1>6 DEF StreamRaises, ReqGoes, ReqState, broker
<1>7. ASSUME NEW t \in TaskIds, Enqueue(q, t) PROVE NothingResumed'
  <2>1. req[q].kind = "run" /\ UNCHANGED <<wk, recovery>>
    BY <1>7 DEF Enqueue
  <2>2. \A p \in Requests : req'[p].pc # "resume" /\ req'[p].kind # "resume"
    BY <1>7 DEF Enqueue, ReqState
  <2>3. \A m \in queue' : m.kind = "run"
    BY <1>7, <2>1 DEF Enqueue, Publish
  <2> QED BY <2>1, <2>2, <2>3
<1>8. ASSUME NEW r \in Runs, EnqueueRun(q, r) PROVE NothingResumed'
  BY <1>8 DEF EnqueueRun, IdleReq, broker
<1>9. ASSUME NEW r \in Runs, StreamRun(q, r) PROVE NothingResumed'
  BY <1>9 DEF StreamRun, IdleReq, broker
<1>10. ASSUME NEW r \in Runs, NEW op \in Ops[r], ReadRun(q, r, op) PROVE NothingResumed'
  <2>1. op # "resume" BY DEF NeverResumes
  <2> QED BY <1>10, <2>1 DEF ReadRun, IdleReq, broker
<1> QED
  BY <1>1, <1>2, <1>3, <1>4, <1>5, <1>6, <1>7, <1>8, <1>9, <1>10 DEF RequestStep, UserStep

\* Messages and workers that name the same run, the same way.
Same(s, m) == s.id = m.id /\ s.run = m.run /\ s.kind = m.kind

\* What a step of a worker does to the messages and to the ids, runs and kinds
\* that the workers name: a delivery hands one message over, a crash or the
\* visibility timeout gives one back, and the other steps change neither.
LEMMA WorkerHandles ==
  ASSUME TypeOK, NEW w \in Workers,
         WorkerStep(w) \/ Terminated(w) \/ BeginFails(w) \/ EngineWrites(w)
           \/ WorkerCrash(w) \/ Redeliver(w)
  PROVE  /\ UNCHANGED <<req, recovery, taskId, used, revoked>>
         /\ \A v \in Workers :
              \/ Same(wk'[v], wk[v])
              \/ Same(wk'[v], IdleWk)
              \/ \E m \in queue : Same(wk'[v], m)
         /\ \A m \in queue' : m \in queue \/ Same(m, wk[w])
<1> DEFINE Goal == /\ UNCHANGED <<req, recovery, taskId, used, revoked>>
                   /\ \A v \in Workers :
                        \/ Same(wk'[v], wk[v])
                        \/ Same(wk'[v], IdleWk)
                        \/ \E m \in queue : Same(wk'[v], m)
                   /\ \A m \in queue' : m \in queue \/ Same(m, wk[w])
<1> USE DEF Same
<1> WkOK BY DEF TypeOK
<1>a. ASSUME Ack(w)
      PROVE  \A v \in Workers : Same(wk'[v], wk[v]) \/ Same(wk'[v], IdleWk)
  BY <1>a DEF Ack, WkOK
<1>1. CASE \/ Skip(w) \/ WorkerRowGone(w) \/ Terminated(w) \/ BeginFails(w)
           \/ FailRecovered(w)
  <2>1. Ack(w) /\ UNCHANGED <<req, recovery, taskId, used, revoked, queue>>
    BY <1>1 DEF Skip, WorkerRowGone, Terminated, BeginFails, FailRecovered, broker, table
  <2> QED BY <1>a, <2>1
<1>2. CASE WorkerCrash(w)
  <2>1. Ack(w) /\ UNCHANGED <<req, recovery, taskId, used, revoked>>
    BY <1>2 DEF WorkerCrash, table
  <2>2. \A m \in queue' : m \in queue \/ Same(m, wk[w])
    BY <1>2 DEF WorkerCrash
  <2> QED BY <1>a, <2>1, <2>2
<1>3. CASE Redeliver(w)
  BY <1>3 DEF Redeliver, table
<1>4. CASE \/ ClaimPending(w) \/ BeginResume(w) \/ RefreshClaimed(w) \/ Start(w)
           \/ RefreshStarted(w) \/ EngineRaises(w)
  <2>1. /\ \E pc \in BusyWk : WkGoes(w, pc) \/ WkSees(w, pc)
        /\ UNCHANGED <<req, recovery, taskId, used, revoked, queue>>
    BY <1>4 DEF ClaimPending, BeginResume, RefreshClaimed, Start, RefreshStarted,
                EngineRaises, broker, table, BusyWk
  <2> QED BY <2>1, WkFrame
<1>5. CASE SessionBreaks(w) \/ FailEngine(w)
  BY <1>5, EndFrame DEF SessionBreaks, FailEngine, broker, table
<1>b. CASE EngineEmpty(w) \/ CompleteRun(w)
  <2>1. /\ Ack(w) \/ EndSession(w)
        /\ wk[w].pc \in {"engine", "completing"}
        /\ UNCHANGED <<req, recovery, taskId, used, revoked, queue>>
    BY <1>b DEF EngineEmpty, CompleteRun, AckOrRecover, broker
  <2> QED BY <1>a, <2>1, EndFrame
<1>6. CASE EngineReturns(w)
  BY <1>6 DEF EngineReturns, broker, table, WkOK, WkState
<1>7. CASE EngineWrites(w)
  BY <1>7 DEF EngineWrites, broker, table, WkOK, WkState
<1>8. CASE RefreshDone(w) \/ RefreshRecover(w)
  <2>1. CASE YieldsToCancel(wk[w].run)
    <3>1. Ack(w) /\ UNCHANGED <<req, recovery, taskId, used, revoked, queue>>
      BY <1>8, <2>1 DEF RefreshDone, RefreshRecover, broker, table
    <3> QED BY <1>a, <3>1
  <2>2. CASE ~YieldsToCancel(wk[w].run)
    BY <1>8, <2>2, WkFrame DEF RefreshDone, RefreshRecover, broker, table
  <2> QED BY <2>1, <2>2
<1>9. CASE RefreshRaised(w)
  <2>1. CASE YieldsToCancel(wk[w].run)
    BY <1>9, <2>1, EndFrame DEF RefreshRaised, broker, table
  <2>2. CASE ~YieldsToCancel(wk[w].run)
    BY <1>9, <2>2, WkFrame DEF RefreshRaised, broker, table
  <2> QED BY <2>1, <2>2
<1>10. ASSUME NEW m \in queue, Deliver(w, m) PROVE Goal
  <2>1. m \in Message BY DEF TypeOK, BrokerOK
  <2>2. UNCHANGED <<req, recovery, taskId, used, revoked>> /\ queue' = queue \ {m}
    BY <1>10 DEF Deliver, table
  <2>3. CASE m.id \in revoked
    BY <1>10, <2>2, <2>3 DEF Deliver
  <2>4. CASE m.id \notin revoked
    <3>1. /\ Same(wk'[w], m)
          /\ \A v \in Workers : v # w => wk'[v] = wk[v]
      BY <1>10, <2>1, <2>4, DeliverFrame
    <3> QED BY <2>2, <3>1
  <2> QED BY <2>3, <2>4
<1> QED
  BY <1>1, <1>2, <1>3, <1>4, <1>5, <1>b, <1>6, <1>7, <1>8, <1>9, <1>10 DEF WorkerStep

LEMMA WorkerNothingResumed ==
  ASSUME TypeOK, NothingResumed, NEW w \in Workers,
         WorkerStep(w) \/ Terminated(w) \/ BeginFails(w) \/ EngineWrites(w)
           \/ WorkerCrash(w) \/ Redeliver(w)
  PROVE  NothingResumed'
  BY WorkerHandles DEF NothingResumed, Same, IdleWk

\* A step that keeps a stream's run unknown to messages, workers and handlers.
LEMMA RequestStreamsAlone ==
  ASSUME TypeOK, AbsentIsUnknown, NothingResumed, StreamsAlone, NEW q \in Requests,
         RequestStep(q) \/ UserStep(q)
  PROVE  StreamsAlone'
<1> USE DEF StreamsAlone, TypeOK, ReqOK
<1>0. req[q].pc # "idle" => req[q].run \in Runs
  OBVIOUS
<1>1. CASE \/ Reject(q) \/ FailRun(q) \/ SetTaskId(q) \/ RevokeTask(q) \/ RevokeFails(q)
           \/ DeleteRun(q) \/ StreamCompletes(q) \/ StreamDrops(q) \/ RequestRowGone(q)
           \/ RestoreStatus(q)
  <2>1. EndReq(q) /\ UNCHANGED <<queue, wk>>
    BY <1>1 DEF Reject, FailRun, SetTaskId, RevokeTask, RevokeFails, DeleteRun,
        StreamCompletes, StreamDrops, RequestRowGone, RestoreStatus, broker
  <2> QED BY <2>1 DEF EndReq, IdleReq
<1>2. ResumeStart(q) => FALSE
  BY DEF ResumeStart, NothingResumed
<1>3. CASE EnqueueFails(q)
  BY <1>3, ReqFrame DEF EnqueueFails, broker
<1>4. CASE RefreshFailed(q)
  <2>1. CASE status[req[q].run] = "canceled"
    BY <1>4, <2>1 DEF RefreshFailed, EndReq, IdleReq, broker
  <2>2. CASE status[req[q].run] # "canceled"
    BY <1>4, <2>2, ReqFrame DEF RefreshFailed, broker
  <2> QED BY <2>1, <2>2
<1>5. CASE CancelRun(q)
  BY <1>5 DEF CancelRun, ReqGoes, ReqState, broker
<1>6. CASE StreamRaises(q)
  BY <1>6 DEF StreamRaises, ReqGoes, ReqState, broker
<1>7. ASSUME NEW t \in TaskIds, Enqueue(q, t) PROVE StreamsAlone'
  <2>1. \A p \in Requests : req[p].pc = "stream" => req[p].run # req[q].run
    BY <1>7 DEF Enqueue
  <2>2. \A p \in Requests : /\ req'[p].run = req[p].run
                            /\ req'[p].pc = IF p = q THEN "setId" ELSE req[p].pc
    BY <1>7 DEF Enqueue, ReqState
  <2>3. queue' = queue \cup {[id |-> t, kind |-> req[q].kind, run |-> req[q].run]}
    BY <1>7 DEF Enqueue, Publish
  <2>4. UNCHANGED wk BY <1>7 DEF Enqueue
  <2> QED BY <2>1, <2>2, <2>3, <2>4
<1>8. ASSUME NEW r \in Runs, EnqueueRun(q, r) PROVE StreamsAlone'
  <2> DEFINE s == [IdleReq EXCEPT !.pc = "enqueue", !.run = r, !.seen = "pending"]
  <2>1. s.pc = "enqueue" /\ s.run = r BY DEF IdleReq
  <2>2. req' = [req EXCEPT ![q] = s] /\ UNCHANGED <<queue, wk>>
    BY <1>8 DEF EnqueueRun, broker
  <2>3. \A p \in Requests : req[p].run # r
    BY <1>8 DEF EnqueueRun, AbsentIsUnknown
  <2> HIDE DEF s
  <2> QED BY <2>1, <2>2, <2>3
<1>9. ASSUME NEW r \in Runs, StreamRun(q, r) PROVE StreamsAlone'
  <2> DEFINE s == [IdleReq EXCEPT !.pc = "stream", !.run = r, !.kind = "stream",
                                  !.seen = "running"]
  <2>1. s.pc = "stream" /\ s.run = r BY DEF IdleReq
  <2>2. req' = [req EXCEPT ![q] = s] /\ UNCHANGED <<queue, wk>>
    BY <1>9 DEF StreamRun, broker
  <2>3. /\ \A p \in Requests : req[p].run # r
        /\ \A w \in Workers : wk[w].run # r
        /\ \A m \in queue : m.run # r
    BY <1>9 DEF StreamRun, AbsentIsUnknown
  <2> HIDE DEF s
  <2> QED BY <2>1, <2>2, <2>3
<1>10. ASSUME NEW r \in Runs, NEW op \in Ops[r], ReadRun(q, r, op) PROVE StreamsAlone'
  <2> DEFINE s == [IdleReq EXCEPT !.pc = op, !.run = r, !.seen = status[r]]
  <2>1. s.pc \in {"cancel", "resume", "delete"} BY <1>10 DEF ReadRun, IdleReq
  <2>2. req' = [req EXCEPT ![q] = s] /\ UNCHANGED <<queue, wk>>
    BY <1>10 DEF ReadRun, broker
  <2> HIDE DEF s
  <2> QED BY <2>1, <2>2
<1> QED
  BY <1>1, <1>2, <1>3, <1>4, <1>5, <1>6, <1>7, <1>8, <1>9, <1>10 DEF RequestStep, UserStep

LEMMA WorkerStreamsAlone ==
  ASSUME TypeOK, StreamsAlone, NEW w \in Workers,
         WorkerStep(w) \/ Terminated(w) \/ BeginFails(w) \/ EngineWrites(w)
           \/ WorkerCrash(w) \/ Redeliver(w)
  PROVE  StreamsAlone'
<1> SUFFICES ASSUME NEW q \in Requests, req[q].pc = "stream"
             PROVE  /\ \A v \in Workers : wk'[v].run # req[q].run
                    /\ \A m \in queue' : m.run # req[q].run
  BY WorkerHandles DEF StreamsAlone, Same, IdleWk
<1>1. req[q].run # NoRun
  BY DEF TypeOK, ReqOK
<1> QED BY <1>1, WorkerHandles DEF StreamsAlone, Same, IdleWk

\* The engines of a run are one worker of workflows.run, or one stream.
LEMMA OneEngine ==
  ASSUME RunTaskExclusive, NothingResumed, StreamsAlone
  PROVE  AtMostOneEngine
<1> SUFFICES ASSUME NEW r \in Runs PROVE Cardinality(Engines(r)) <= 1
  BY DEF AtMostOneEngine
<1>1. \A x, y \in Engines(r) : x = y
  BY DEF Engines, RunTaskExclusive, NothingResumed, StreamsAlone
<1>2. CASE Engines(r) = {}
  BY <1>2, FS_EmptySet
<1>3. ASSUME NEW x \in Engines(r) PROVE Cardinality(Engines(r)) <= 1
  <2>1. Engines(r) = {x} BY <1>1
  <2>2. Cardinality({x}) = 1 BY FS_Singleton
  <2> QED BY <2>1, <2>2
<1> QED BY <1>2, <1>3

\* Only a resume, a user's or the startup pass's, can put a second engine on a
\* run: without them every run has at most one, whatever the workers crash at,
\* the broker duplicates or loses, and users start, stream, cancel and delete.
THEOREM OneEngineUntilResumed ==
  ASSUME \A r \in Runs : "resume" \notin Ops[r],
         "restart" \notin Faults
  PROVE  Spec => []AtMostOneEngine
<1> DEFINE Inv == IInv /\ NothingResumed /\ StreamsAlone
<1>0. NeverResumes BY DEF NeverResumes
<1>1. Init => Inv
  BY InitIInv DEF Init, NothingResumed, StreamsAlone, IdleReq, IdleWk
<1>2. Inv /\ [Next]_vars => Inv'
  <2> SUFFICES ASSUME Inv, [Next]_vars PROVE NothingResumed' /\ StreamsAlone'
    BY NextIInv
  <2> TypeOK /\ AbsentIsUnknown /\ NothingResumed /\ StreamsAlone
    BY DEF IInv, Refs
  <2>1. CASE UNCHANGED vars
    BY <2>1 DEF vars, broker, NothingResumed, StreamsAlone
  <2>2. RecoverStep => FALSE
    BY DEF RecoverStep, NothingResumed
  <2>3. ApiRestart => FALSE
    BY DEF ApiRestart, Fault
  <2>4. CASE (\E r \in Runs : TimePasses(r)) \/ \E m \in queue : LoseMessage(m)
    <3>1. UNCHANGED <<req, wk, recovery>> /\ queue' \subseteq queue
      BY <2>4 DEF TimePasses, LoseMessage, broker
    <3> QED BY <3>1 DEF NothingResumed, StreamsAlone
  <2> QED
    BY <1>0, <2>1, <2>2, <2>3, <2>4, RequestNothingResumed, WorkerNothingResumed,
       RequestStreamsAlone, WorkerStreamsAlone DEF Next, Environment
<1>3. Inv => AtMostOneEngine
  BY OneEngine DEF IInv
<1> QED BY <1>1, <1>2, <1>3, PTL DEF Spec

-----------------------------------------------------------------------------
(* An active run always has somebody *)

\* The message id t was given out for the run r.
Names(t, r) ==
    \/ \E m \in queue : m.id = t /\ m.run = r
    \/ \E w \in Workers : wk[w].id = t /\ wk[w].run = r
    \/ \E q \in Requests : req[q].task = t /\ req[q].run = r
    \/ taskId[r] = t

\* Who is to revoke a message was asked to cancel the run.
CancelAsked ==
    \A q \in Requests : req[q].pc \in {"cancel", "revoke"} => "cancel" \in Ops[req[q].run]

\* An id is that of one run, and only a cancel of that run revokes it.
IdsOK ==
    /\ revoked \subseteq used /\ CancelAsked
    /\ \A t \in TaskIds, r \in Runs : Names(t, r) =>
          /\ t \in used
          /\ t \in revoked => "cancel" \in Ops[r]
          /\ \A o \in Runs : Names(t, o) => o = r

-----------------------------------------------------------------------------

\* No id is given out.
LEMMA IdsKept ==
  ASSUME IdsOK, UNCHANGED <<used, revoked>>, CancelAsked',
         \A t \in TaskIds, r \in Runs : Names(t, r)' => Names(t, r)
  PROVE  IdsOK'
  BY DEF IdsOK, CancelAsked

\* One is: a fresh one, for one run.
LEMMA IdsPublished ==
  ASSUME IdsOK, NEW u \in TaskIds, NEW o \in Runs, u \notin used, used' = used \cup {u},
         UNCHANGED revoked, CancelAsked',
         \A t \in TaskIds, r \in Runs : Names(t, r)' => Names(t, r) \/ (t = u /\ r = o)
  PROVE  IdsOK'
  BY DEF IdsOK, CancelAsked

LEMMA WorkerIds ==
  ASSUME TypeOK, IdsOK, NEW w \in Workers,
         WorkerStep(w) \/ Terminated(w) \/ BeginFails(w) \/ EngineWrites(w)
           \/ WorkerCrash(w) \/ Redeliver(w)
  PROVE  IdsOK'
<1>1. /\ UNCHANGED <<req, taskId, used, revoked>>
      /\ \A v \in Workers : \/ Same(wk'[v], wk[v]) \/ Same(wk'[v], IdleWk)
                            \/ \E m \in queue : Same(wk'[v], m)
      /\ \A m \in queue' : m \in queue \/ Same(m, wk[w])
  BY WorkerHandles
<1>2. ASSUME NEW t \in TaskIds, NEW r \in Runs, Names(t, r)' PROVE Names(t, r)
  <2>1. ASSUME NEW m \in queue', m.id = t, m.run = r PROVE Names(t, r)
    BY <1>1, <2>1 DEF Names, Same
  <2>2. ASSUME NEW v \in Workers, wk'[v].id = t, wk'[v].run = r PROVE Names(t, r)
    <3>1. ~Same(wk'[v], IdleWk) BY <2>2 DEF Same, IdleWk
    <3> QED BY <1>1, <2>2, <3>1 DEF Names, Same
  <2> QED BY <1>1, <1>2, <2>1, <2>2 DEF Names
<1>3. CancelAsked' BY <1>1 DEF IdsOK, CancelAsked
<1> QED BY <1>1, <1>2, <1>3, IdsKept

\* A request moves, and names what it named, or nothing.
LEMMA RequestNames ==
  ASSUME TypeOK, NEW q \in Requests, NEW s, req' = [req EXCEPT ![q] = s],
         s.task = NoTask \/ (s.task = req[q].task /\ s.run = req[q].run),
         UNCHANGED <<queue, wk, taskId>>
  PROVE  \A t \in TaskIds, r \in Runs : Names(t, r)' => Names(t, r)
  BY DEF Names, TypeOK, ReqOK

LEMMA RequestAsks ==
  ASSUME TypeOK, IdsOK, NEW q \in Requests, NEW s, req' = [req EXCEPT ![q] = s],
         s.pc \in {"cancel", "revoke"} => "cancel" \in Ops[s.run]
  PROVE  CancelAsked'
  BY DEF IdsOK, CancelAsked, TypeOK, ReqOK

LEMMA RequestIds ==
  ASSUME TypeOK, IdsOK, NEW q \in Requests, RequestStep(q) \/ UserStep(q)
  PROVE  IdsOK'
<1>0. /\ req[q] \in ReqState
      /\ req[q].pc # "idle" => req[q].run \in Runs
      /\ DOMAIN req = Requests
  BY DEF TypeOK, ReqOK
<1>1. CASE \/ Reject(q) \/ RevokeFails(q) \/ StreamDrops(q) \/ RequestRowGone(q)
           \/ FailRun(q) \/ RestoreStatus(q) \/ StreamCompletes(q)
  <2>1. EndReq(q) /\ UNCHANGED <<queue, wk, taskId, used, revoked>>
    BY <1>1 DEF Reject, RevokeFails, StreamDrops, RequestRowGone, FailRun, RestoreStatus,
                StreamCompletes, table, broker
  <2>2. IdleReq.task = NoTask /\ IdleReq.pc = "idle" BY DEF IdleReq
  <2> QED BY <2>1, <2>2, RequestNames, RequestAsks, IdsKept DEF EndReq
<1>2. CASE SetTaskId(q) \/ DeleteRun(q)
  <2>1. /\ EndReq(q) /\ UNCHANGED <<queue, wk, used, revoked>> /\ req[q].run \in Runs
        /\ \E t \in {NoTask, req[q].task} : taskId' = [taskId EXCEPT ![req[q].run] = t]
    BY <1>0, <1>2 DEF SetTaskId, DeleteRun, broker
  <2>2. IdleReq.task = NoTask /\ IdleReq.pc = "idle" BY DEF IdleReq
  <2>3. CancelAsked' BY <2>1, <2>2, RequestAsks DEF EndReq
  <2>4. \A t \in TaskIds, r \in Runs : Names(t, r)' => Names(t, r)
    <3>1. \A p \in Requests : req'[p] = req[p] \/ req'[p].task = NoTask
      BY <1>0, <2>1, <2>2 DEF EndReq
    <3>2. \A r \in Runs : \/ taskId'[r] \in {taskId[r], NoTask}
                          \/ r = req[q].run /\ taskId'[r] = req[q].task
      BY <2>1 DEF TypeOK, TableOK
    <3> QED BY <2>1, <3>1, <3>2 DEF Names
  <2> QED BY <2>1, <2>3, <2>4, IdsKept
<1>3. CASE RevokeTask(q)
  <2> DEFINE o == req[q].run
  <2>1. /\ EndReq(q) /\ UNCHANGED <<queue, wk, taskId, used>> /\ o \in Runs
        /\ revoked' = revoked \cup ({taskId[o]} \ {NoTask})
        /\ "cancel" \in Ops[o] /\ taskId[o] \in TaskIds \cup {NoTask}
    BY <1>0, <1>3 DEF RevokeTask, table, IdsOK, CancelAsked, TypeOK, TableOK
  <2>2. IdleReq.task = NoTask /\ IdleReq.pc = "idle" BY DEF IdleReq
  <2>3. CancelAsked' BY <2>1, <2>2, RequestAsks DEF EndReq
  <2>4. \A t \in TaskIds, r \in Runs : Names(t, r)' => Names(t, r)
    BY <2>1, <2>2, RequestNames DEF EndReq
  <2>5. taskId[o] \in TaskIds =>
          /\ taskId[o] \in used
          /\ \A r \in Runs : Names(taskId[o], r) => r = o
    BY <2>1 DEF IdsOK, Names
  <2> HIDE DEF o
  <2> QED BY <2>1, <2>3, <2>4, <2>5 DEF IdsOK, CancelAsked
<1>4. CASE ResumeStart(q)
  <2> DEFINE s == [req[q] EXCEPT !.pc = "enqueue", !.kind = "resume", !.prev = req[q].seen]
  <2>1. s.run = req[q].run /\ s.task = req[q].task /\ s.pc = "enqueue"
    BY <1>0 DEF ReqState
  <2>2. req' = [req EXCEPT ![q] = s] /\ UNCHANGED <<queue, wk, taskId, used, revoked>>
    BY <1>4 DEF ResumeStart, broker
  <2> HIDE DEF s
  <2> QED BY <2>1, <2>2, RequestNames, RequestAsks, IdsKept
<1>5. ASSUME NEW pc \in {"refresh", "restore", "fail", "revoke"},
             ReqGoes(q, pc) \/ ReqSees(q, pc),
             pc = "revoke" => "cancel" \in Ops[req[q].run],
             UNCHANGED <<queue, wk, taskId, used, revoked>>
      PROVE  IdsOK'
  <2>1. CASE ReqGoes(q, pc)
    <3> DEFINE s == [req[q] EXCEPT !.pc = pc]
    <3>1. s.run = req[q].run /\ s.task = req[q].task /\ s.pc = pc BY <1>0 DEF ReqState
    <3>2. req' = [req EXCEPT ![q] = s] BY <2>1 DEF ReqGoes
    <3> HIDE DEF s
    <3> QED BY <1>5, <3>1, <3>2, RequestNames, RequestAsks, IdsKept
  <2>2. CASE ReqSees(q, pc)
    <3> DEFINE s == [req[q] EXCEPT !.pc = pc, !.seen = status[req[q].run]]
    <3>1. s.run = req[q].run /\ s.task = req[q].task /\ s.pc = pc BY <1>0 DEF ReqState
    <3>2. req' = [req EXCEPT ![q] = s] BY <2>2 DEF ReqSees
    <3> HIDE DEF s
    <3> QED BY <1>5, <3>1, <3>2, RequestNames, RequestAsks, IdsKept
  <2> QED BY <1>5, <2>1, <2>2
<1>6. CASE EnqueueFails(q)
  BY <1>5, <1>6 DEF EnqueueFails, table, broker
<1>7. CASE RefreshFailed(q)
  <2>1. CASE status[req[q].run] = "canceled"
    <3>1. EndReq(q) /\ UNCHANGED <<queue, wk, taskId, used, revoked>>
      BY <1>7, <2>1 DEF RefreshFailed, table, broker
    <3>2. IdleReq.task = NoTask /\ IdleReq.pc = "idle" BY DEF IdleReq
    <3> QED BY <3>1, <3>2, RequestNames, RequestAsks, IdsKept DEF EndReq
  <2>2. CASE status[req[q].run] # "canceled"
    BY <1>5, <1>7, <2>2 DEF RefreshFailed, table, broker
  <2> QED BY <2>1, <2>2
<1>8. CASE CancelRun(q)
  BY <1>5, <1>8 DEF CancelRun, broker, IdsOK, CancelAsked
<1>9. CASE StreamRaises(q)
  BY <1>5, <1>9 DEF StreamRaises, table, broker
<1>10. ASSUME NEW t \in TaskIds, Enqueue(q, t) PROVE IdsOK'
  <2> DEFINE s == [req[q] EXCEPT !.pc = "setId", !.task = t]
             m == [id |-> t, kind |-> req[q].kind, run |-> req[q].run]
  <2>1. s.run = req[q].run /\ s.task = t /\ s.pc = "setId"
    BY <1>0, ZenonT(30) DEF ReqState
  <2>2. /\ req' = [req EXCEPT ![q] = s] /\ UNCHANGED <<wk, taskId, revoked>>
        /\ req[q].run \in Runs /\ t \notin used /\ used' = used \cup {t}
        /\ queue' = queue \cup {m}
    BY <1>0, <1>10 DEF Enqueue, Publish, table
  <2>3. m.id = t /\ m.run = req[q].run OBVIOUS
  <2> HIDE DEF s, m
  <2>4. CancelAsked' BY <2>1, <2>2, RequestAsks
  <2>5. \A u \in TaskIds, r \in Runs :
          Names(u, r)' => Names(u, r) \/ (u = t /\ r = req[q].run)
    <3>1. \A p \in Requests : req'[p] = IF p = q THEN s ELSE req[p] BY <1>0, <2>2
    <3> QED BY <2>1, <2>2, <2>3, <3>1 DEF Names
  <2> QED BY <2>2, <2>4, <2>5, IdsPublished
<1>11. ASSUME NEW s, req' = [req EXCEPT ![q] = s], s.task = NoTask,
              s.pc = "cancel" => "cancel" \in Ops[s.run], s.pc # "revoke",
              UNCHANGED <<queue, wk, taskId, used, revoked>>
       PROVE  IdsOK'
  BY <1>11, RequestNames, RequestAsks, IdsKept
<1>12. ASSUME NEW r \in Runs, EnqueueRun(q, r) PROVE IdsOK'
  <2> DEFINE s == [IdleReq EXCEPT !.pc = "enqueue", !.run = r, !.seen = "pending"]
  <2>1. s.pc = "enqueue" /\ s.task = NoTask BY DEF IdleReq
  <2>2. req' = [req EXCEPT ![q] = s] /\ UNCHANGED <<queue, wk, taskId, used, revoked>>
    BY <1>12 DEF EnqueueRun, broker
  <2> HIDE DEF s
  <2> QED BY <1>11, <2>1, <2>2
<1>13. ASSUME NEW r \in Runs, StreamRun(q, r) PROVE IdsOK'
  <2> DEFINE s == [IdleReq EXCEPT !.pc = "stream", !.run = r, !.kind = "stream",
                                  !.seen = "running"]
  <2>1. s.pc = "stream" /\ s.task = NoTask BY DEF IdleReq
  <2>2. req' = [req EXCEPT ![q] = s] /\ UNCHANGED <<queue, wk, taskId, used, revoked>>
    BY <1>13 DEF StreamRun, broker
  <2> HIDE DEF s
  <2> QED BY <1>11, <2>1, <2>2
<1>14. ASSUME NEW r \in Runs, NEW op \in Ops[r], ReadRun(q, r, op) PROVE IdsOK'
  <2> DEFINE s == [IdleReq EXCEPT !.pc = op, !.run = r, !.seen = status[r]]
  <2>1. s.pc = op /\ s.run = r /\ s.task = NoTask /\ op \in {"cancel", "resume", "delete"}
    BY <1>14 DEF ReadRun, IdleReq
  <2>2. req' = [req EXCEPT ![q] = s] /\ UNCHANGED <<queue, wk, taskId, used, revoked>>
    BY <1>14 DEF ReadRun, table, broker
  <2> HIDE DEF s
  <2> QED BY <1>11, <2>1, <2>2
<1> QED
  BY <1>1, <1>2, <1>3, <1>4, <1>6, <1>7, <1>8, <1>9, <1>10, <1>12, <1>13, <1>14
     DEF RequestStep, UserStep

LEMMA RestIds ==
  ASSUME TypeOK, IdsOK,
         \/ RecoverStep \/ ApiRestart \/ (\E r \in Runs : TimePasses(r))
         \/ \E m \in queue : LoseMessage(m)
  PROVE  IdsOK'
<1>1. CASE (\E r \in Runs : TimePasses(r)) \/ \E m \in queue : LoseMessage(m)
  <2>1. UNCHANGED <<req, wk, taskId, used, revoked>> /\ queue' \subseteq queue
    BY <1>1 DEF TimePasses, LoseMessage, table, broker
  <2> QED BY <2>1, IdsKept DEF Names, IdsOK, CancelAsked
<1>2. CASE ApiRestart
  <2>1. /\ UNCHANGED <<queue, wk, taskId, used, revoked>>
        /\ \A q \in Requests : req'[q].pc = "idle" /\ req'[q].task = NoTask
    BY <1>2 DEF ApiRestart, table, broker, IdleReq
  <2> QED BY <2>1, IdsKept DEF Names, CancelAsked
<1>3. ASSUME NEW x \in recovery, RecoverSkip(x) PROVE IdsOK'
  BY <1>3, IdsKept DEF RecoverSkip, table, broker, Names, IdsOK, CancelAsked
<1>4. ASSUME NEW x \in recovery, NEW t \in TaskIds, RecoverEnqueue(x, t) PROVE IdsOK'
  <2> DEFINE k == IF x.status = "pending" THEN "run" ELSE "resume"
             m == [id |-> t, kind |-> k, run |-> x.run]
  <2>1. /\ UNCHANGED <<req, wk, taskId, revoked>> /\ x.run \in Runs
        /\ t \notin used /\ used' = used \cup {t} /\ queue' = queue \cup {m}
    BY <1>4 DEF RecoverEnqueue, Publish, table, TypeOK
  <2>2. m.id = t /\ m.run = x.run OBVIOUS
  <2> HIDE DEF k, m
  <2>3. \A u \in TaskIds, r \in Runs : Names(u, r)' => Names(u, r) \/ (u = t /\ r = x.run)
    BY <2>1, <2>2 DEF Names
  <2> QED BY <2>1, <2>3, IdsPublished DEF IdsOK, CancelAsked
<1> QED BY <1>1, <1>2, <1>3, <1>4 DEF RecoverStep

-----------------------------------------------------------------------------

\* What a step of w leaves of a run: it is settled, w has it, or w has not had it
\* and did not write it.
WorkerServes(w, r) ==
    \/ status'[r] \notin Active
    \/ WorkerOn(w, r)'
    \/ status'[r] = status[r] /\ ~WorkerOn(w, r)

LEMMA WorkerStays ==
  ASSUME TypeOK, IdsOK, NEW r \in Runs, Ops[r] \cap {"cancel", "stream"} = {},
         NEW w \in Workers,
         WorkerStep(w) \/ Terminated(w) \/ EngineWrites(w)
  PROVE  WorkerServes(w, r)
<1>0. /\ wk[w] \in WkState /\ DOMAIN wk = Workers
      /\ wk[w].pc # "idle" => wk[w].run \in Runs /\ wk[w].id \in TaskIds
      /\ status \in [Runs -> Status]
  BY DEF TypeOK, TableOK, WkOK
<1> SUFFICES ASSUME status'[r] \in Active, ~WorkerOn(w, r)'
             PROVE  status'[r] = status[r] /\ ~WorkerOn(w, r)
  BY DEF WorkerServes
\* It is enough to look at steps on r, and at what they make of w.
<1>a. ASSUME NEW s, wk' = [wk EXCEPT ![w] = s], s.run = r, WkHandles(s, status'[r])
      PROVE  FALSE
  BY <1>0, <1>a DEF WorkerOn
<1>b. ASSUME NEW pc, WkGoes(w, pc) \/ WkSees(w, pc) \/ (EndSession(w) /\ pc = "recover"),
             wk[w].run = r,
             pc \in {"claimed", "starting", "started", "engine", "done", "raised",
                     "failing", "recover"}
      PROVE  FALSE
  <2>1. CASE WkGoes(w, pc)
    <3> DEFINE s == [wk[w] EXCEPT !.pc = pc]
    <3>1. s.run = wk[w].run /\ s.pc = pc BY <1>0 DEF WkState
    <3>2. wk' = [wk EXCEPT ![w] = s] BY <2>1 DEF WkGoes
    <3> HIDE DEF s
    <3> QED BY <1>a, <1>b, <3>1, <3>2 DEF WkHandles
  <2>2. CASE WkSees(w, pc)
    <3> DEFINE s == [wk[w] EXCEPT !.pc = pc, !.seen = status[wk[w].run]]
    <3>1. s.run = wk[w].run /\ s.pc = pc BY <1>0 DEF WkState
    <3>2. wk' = [wk EXCEPT ![w] = s] BY <2>2 DEF WkSees
    <3> HIDE DEF s
    <3> QED BY <1>a, <1>b, <3>1, <3>2 DEF WkHandles
  <2>3. CASE EndSession(w) /\ pc = "recover"
    <3> DEFINE s == [wk[w] EXCEPT !.pc = "recover", !.dirty = FALSE]
    <3>1. s.run = wk[w].run /\ s.pc = pc BY <1>0, <2>3 DEF WkState
    <3>2. wk' = [wk EXCEPT ![w] = s] BY <2>3 DEF EndSession
    <3> HIDE DEF s
    <3> QED BY <1>a, <1>b, <3>1, <3>2 DEF WkHandles
  <2> QED BY <1>b, <2>1, <2>2, <2>3
<1>c. ASSUME NEW pc \in {"completing", "refailing"}, WkSees(w, pc), wk[w].run = r,
             status' = status
      PROVE  FALSE
  <2> DEFINE s == [wk[w] EXCEPT !.pc = pc, !.seen = status[wk[w].run]]
  <2>1. s.run = wk[w].run /\ s.pc = pc /\ s.seen = status[r] BY <1>0, <1>c DEF WkState
  <2>2. wk' = [wk EXCEPT ![w] = s] BY <1>c DEF WkSees
  <2> HIDE DEF s
  <2> QED BY <1>a, <1>c, <2>1, <2>2 DEF WkHandles
<1>1. CASE Skip(w)
  BY <1>1 DEF Skip, table, WorkerOn, WkHandles, Serving
<1>2. CASE WorkerRowGone(w)
  BY <1>2 DEF WorkerRowGone, table, WorkerOn
<1>3. CASE Terminated(w)
  <2>1. Names(wk[w].id, wk[w].run) BY DEF Names
  <2>2. wk[w].run # r BY <1>0, <1>3, <2>1 DEF Terminated, IdsOK
  <2> QED BY <1>3, <2>2 DEF Terminated, table, WorkerOn
<1>4. CASE ClaimPending(w) \/ Start(w)
  <2>1. wk[w].run # r BY <1>b, <1>4 DEF ClaimPending, Start
  <2> QED BY <1>0, <1>4, <2>1, UpdatesOther DEF ClaimPending, Start, WorkerOn
<1>5. CASE BeginResume(w) \/ RefreshClaimed(w) \/ RefreshStarted(w) \/ EngineRaises(w)
           \/ SessionBreaks(w)
  BY <1>b, <1>5 DEF BeginResume, RefreshClaimed, RefreshStarted, EngineRaises, SessionBreaks,
                    table, WorkerOn
<1>6. CASE EngineReturns(w)
  <2> DEFINE s == [wk[w] EXCEPT !.pc = "done", !.dirty = wk[w].dirty \/ wk[w].kind = "run"]
  <2>1. s.run = wk[w].run /\ s.pc = "done" BY <1>0 DEF WkState
  <2>2. wk' = [wk EXCEPT ![w] = s] /\ UNCHANGED status BY <1>6 DEF EngineReturns, table
  <2> HIDE DEF s
  <2> QED BY <1>a, <2>1, <2>2 DEF WkHandles, WorkerOn
<1>7. CASE EngineWrites(w)
  <2> DEFINE s == [wk[w] EXCEPT !.dirty = TRUE]
  <2>1. s.run = wk[w].run /\ s.pc = "engine" BY <1>0, <1>7 DEF WkState, EngineWrites
  <2>2. wk' = [wk EXCEPT ![w] = s] /\ UNCHANGED status BY <1>7 DEF EngineWrites, table
  <2> HIDE DEF s
  <2> QED BY <1>a, <2>1, <2>2 DEF WkHandles, WorkerOn
<1>8. CASE EngineEmpty(w)
  <2>1. wk[w].run # r BY <1>0, <1>8 DEF EngineEmpty, Update
  <2> QED BY <1>0, <1>8, <2>1, UpdatesOther DEF EngineEmpty, WorkerOn
<1>9. CASE RefreshDone(w) \/ RefreshRecover(w)
  <2>1. UNCHANGED status BY <1>9 DEF RefreshDone, RefreshRecover, table
  <2>2. wk[w].run # r
    BY <1>c, <1>9, <2>1 DEF RefreshDone, RefreshRecover, YieldsToCancel
  <2> QED BY <2>1, <2>2 DEF WorkerOn
<1>10. CASE RefreshRaised(w)
  <2>1. UNCHANGED status BY <1>10 DEF RefreshRaised, table
  <2>2. wk[w].run # r BY <1>b, <1>10 DEF RefreshRaised
  <2> QED BY <2>1, <2>2 DEF WorkerOn
<1>11. CASE CompleteRun(w)
  <2>1. wk[w].pc = "completing" /\ Update(wk[w].run, wk[w].seen, "completed")
    BY <1>11 DEF CompleteRun
  <2>2. CASE wk[w].run = r
    BY <1>0, <2>1, <2>2 DEF Update, WorkerOn, WkHandles
  <2>3. CASE wk[w].run # r
    BY <1>0, <2>1, <2>3, UpdatesOther DEF WorkerOn
  <2> QED BY <2>2, <2>3
<1>12. CASE FailRecovered(w)
  <2>1. wk[w].pc = "refailing" /\ SetStatus(wk[w].run, wk[w].seen, "failed")
    BY <1>12 DEF FailRecovered
  <2>2. CASE wk[w].run = r
    BY <1>0, <2>1, <2>2 DEF SetStatus, Update, WorkerOn, WkHandles
  <2>3. CASE wk[w].run # r
    BY <1>0, <2>1, <2>3, UpdatesOther DEF WorkerOn
  <2> QED BY <2>2, <2>3
<1>13. CASE FailEngine(w)
  <2>1. wk[w].run # r BY <1>b, <1>13 DEF FailEngine
  <2> QED BY <1>0, <1>13, <2>1, UpdatesOther DEF FailEngine, WorkerOn
<1>14. ASSUME NEW m \in queue, Deliver(w, m)
       PROVE  status'[r] = status[r] /\ ~WorkerOn(w, r)
  BY <1>14 DEF Deliver, table, WorkerOn, WkHandles
<1> QED
  BY <1>1, <1>2, <1>3, <1>4, <1>5, <1>6, <1>7, <1>8, <1>9, <1>10, <1>11, <1>12, <1>13,
     <1>14 DEF WorkerStep

\* A message for the run stays, or is delivered to a worker that begins with it.
LEMMA MessageStays ==
  ASSUME TypeOK, IdsOK, NEW r \in Runs, Ops[r] \cap {"cancel", "stream"} = {},
         NEW w \in Workers, WorkerStep(w) \/ Terminated(w) \/ EngineWrites(w),
         MessageFor(r), status'[r] = status[r]
  PROVE  MessageFor(r)' \/ WorkerOn(w, r)'
<1>1. PICK m \in queue : m.run = r /\ status[r] = Serving(m.kind) BY DEF MessageFor
<1>2. CASE m \in queue'
  BY <1>1, <1>2 DEF MessageFor
<1>3. CASE m \notin queue'
  <2>1. m \in Message BY DEF TypeOK, BrokerOK
  <2>2. Deliver(w, m)
    BY <1>3 DEF WorkerStep, Terminated, EngineWrites, ClaimPending, BeginResume, Skip,
       RefreshClaimed, Start, RefreshStarted, EngineReturns, EngineEmpty, EngineRaises,
       SessionBreaks, RefreshDone, CompleteRun, RefreshRaised, FailEngine, RefreshRecover,
       FailRecovered, WorkerRowGone, Deliver, broker
  <2>3. Names(m.id, r) BY <1>1 DEF Names
  <2>4. m.id \notin revoked BY <2>1, <2>3 DEF IdsOK
  <2>5. wk'[w].pc = "begin" /\ wk'[w].run = m.run /\ wk'[w].kind = m.kind
    BY <2>1, <2>2, <2>4, DeliverFrame DEF TypeOK
  <2> QED BY <1>1, <2>5 DEF WorkerOn, WkHandles
<1> QED BY <1>2, <1>3

\* The others are what they were.
LEMMA WorkerFrame ==
  ASSUME TypeOK, NEW w \in Workers, WorkerStep(w) \/ Terminated(w) \/ EngineWrites(w)
  PROVE  UNCHANGED <<req, faults>> /\ \A v \in Workers : v # w => wk'[v] = wk[v]
<1> WkOK BY DEF TypeOK
<1>1. ASSUME NEW s, wk' = [wk EXCEPT ![w] = s] PROVE \A v \in Workers : v # w => wk'[v] = wk[v]
  BY <1>1 DEF WkOK
<1>2. (\E s : wk' = [wk EXCEPT ![w] = s]) \/ UNCHANGED wk
  BY DEF WorkerStep, Terminated, EngineWrites, ClaimPending, BeginResume, Skip,
     RefreshClaimed, Start, RefreshStarted, EngineReturns, EngineEmpty, EngineRaises,
     SessionBreaks, RefreshDone, CompleteRun, RefreshRaised, FailEngine, RefreshRecover,
     FailRecovered, WorkerRowGone, Deliver, WkGoes, WkSees, EndSession, Ack,
     AckOrRecover
<1>3. UNCHANGED <<req, faults>>
  BY DEF WorkerStep, Terminated, EngineWrites, ClaimPending, BeginResume, Skip,
     RefreshClaimed, Start, RefreshStarted, EngineReturns, EngineEmpty, EngineRaises,
     SessionBreaks, RefreshDone, CompleteRun, RefreshRaised, FailEngine, RefreshRecover,
     FailRecovered, WorkerRowGone, Deliver
<1> QED BY <1>1, <1>2, <1>3

LEMMA WorkerHandled ==
  ASSUME TypeOK, IdsOK, NEW r \in Runs, Ops[r] \cap {"cancel", "stream"} = {},
         status[r] \in Active => Handled(r), status'[r] \in Active,
         NEW w \in Workers, WorkerStep(w) \/ Terminated(w) \/ EngineWrites(w)
  PROVE  Handled(r)'
<1>1. CASE WorkerOn(w, r)'
  BY <1>1 DEF Handled
<1>2. CASE ~WorkerOn(w, r)'
  <2>1. status'[r] = status[r] /\ ~WorkerOn(w, r)
    BY <1>2, WorkerStays DEF WorkerServes
  <2>2. CASE MessageFor(r)
    BY <1>2, <2>1, <2>2, MessageStays DEF Handled
  <2>3. ASSUME NEW v \in Workers, WorkerOn(v, r) PROVE Handled(r)'
    BY <2>1, <2>3, WorkerFrame DEF Handled, WorkerOn
  <2>4. ASSUME NEW q \in Requests, RequestOn(q, r) PROVE Handled(r)'
    BY <2>1, <2>4, WorkerFrame DEF Handled, RequestOn
  <2> QED BY <2>1, <2>2, <2>3, <2>4 DEF Handled
<1> QED BY <1>1, <1>2

\* The same of a request, which may also hand the run to a message.
LEMMA RequestStays ==
  ASSUME TypeOK, NEW r \in Runs, Ops[r] \cap {"cancel", "stream"} = {},
         NEW q \in Requests, RequestStep(q) \/ UserStep(q)
  PROVE  \/ status'[r] \notin Active
         \/ RequestOn(q, r)' \/ MessageFor(r)'
         \/ status'[r] = status[r] /\ ~RequestOn(q, r)
<1>0. /\ req[q] \in ReqState /\ DOMAIN req = Requests
      /\ req[q].pc # "idle" => req[q].run \in Runs
      /\ req[q].pc = "enqueue" => req[q].kind \in {"run", "resume"}
      /\ req[q].pc = "enqueue" /\ req[q].kind # "run" => req[q].prev \in Resumable
      /\ req[q].pc = "restore" => req[q].prev \in Resumable
      /\ status \in [Runs -> Status]
  BY DEF TypeOK, TableOK, ReqOK
<1> SUFFICES ASSUME status'[r] \in Active, ~RequestOn(q, r)', ~MessageFor(r)'
             PROVE  status'[r] = status[r] /\ ~RequestOn(q, r)
  OBVIOUS
<1>a. ASSUME NEW s, req' = [req EXCEPT ![q] = s], s.run = r, ReqHandles(s, status'[r])
      PROVE  FALSE
  BY <1>0, <1>a DEF RequestOn
<1>1. CASE Reject(q) \/ RevokeTask(q) \/ RevokeFails(q) \/ StreamDrops(q)
  BY <1>1 DEF Reject, RevokeTask, RevokeFails, StreamDrops, table, RequestOn, ReqHandles
<1>2. CASE RequestRowGone(q)
  BY <1>2 DEF RequestRowGone, table, RequestOn
<1>3. CASE SetTaskId(q)
  BY <1>3 DEF SetTaskId, RequestOn, ReqHandles
<1>4. CASE StreamRaises(q)
  <2> DEFINE s == [req[q] EXCEPT !.pc = "refresh"]
  <2>1. s.run = req[q].run /\ s.pc = "refresh" BY <1>0 DEF ReqState
  <2>2. req' = [req EXCEPT ![q] = s] /\ UNCHANGED status
    BY <1>4 DEF StreamRaises, ReqGoes, table
  <2> HIDE DEF s
  <2>3. req[q].run # r BY <1>a, <2>1, <2>2 DEF ReqHandles
  <2> QED BY <2>2, <2>3 DEF RequestOn
<1>5. CASE ResumeStart(q)
  <2> DEFINE s == [req[q] EXCEPT !.pc = "enqueue", !.kind = "resume", !.prev = req[q].seen]
  <2>1. s.run = req[q].run /\ s.pc = "enqueue" /\ s.kind = "resume" BY <1>0 DEF ReqState
  <2>2. /\ req' = [req EXCEPT ![q] = s] /\ req[q].run \in Runs
        /\ req[q].seen \in Resumable /\ SetStatus(req[q].run, req[q].seen, "running")
    BY <1>0, <1>5 DEF ResumeStart, Allowed
  <2>3. status'[req[q].run] = "running" BY <1>0, <2>2 DEF SetStatus, Update
  <2> HIDE DEF s
  <2>4. req[q].run # r BY <1>a, <2>1, <2>2, <2>3 DEF ReqHandles, Serving
  <2> QED BY <2>2, <2>4, UpdatesOther DEF RequestOn
<1>6. CASE EnqueueFails(q)
  <2> DEFINE pc == IF req[q].kind = "run" THEN "refresh" ELSE "restore"
             s == [req[q] EXCEPT !.pc = pc, !.seen = status[req[q].run]]
  <2>1. /\ s.run = req[q].run /\ s.pc = pc /\ s.seen = status[req[q].run]
        /\ s.prev = req[q].prev
    BY <1>0 DEF ReqState
  <2>2. /\ req' = [req EXCEPT ![q] = s] /\ UNCHANGED status
        /\ pc = "refresh" \/ (pc = "restore" /\ req[q].prev \in Resumable)
    BY <1>0, <1>6 DEF EnqueueFails, ReqSees, table
  <2> HIDE DEF s, pc
  <2>3. req[q].run # r BY <1>a, <2>1, <2>2 DEF ReqHandles
  <2> QED BY <2>2, <2>3 DEF RequestOn
<1>7. CASE RefreshFailed(q)
  <2>1. CASE status[req[q].run] = "canceled"
    BY <1>7, <2>1 DEF RefreshFailed, table, RequestOn
  <2>2. CASE status[req[q].run] # "canceled"
    <3> DEFINE s == [req[q] EXCEPT !.pc = "fail", !.seen = status[req[q].run]]
    <3>1. s.run = req[q].run /\ s.pc = "fail" /\ s.seen = status[req[q].run]
      BY <1>0 DEF ReqState
    <3>2. req' = [req EXCEPT ![q] = s] /\ UNCHANGED status
      BY <1>7, <2>2 DEF RefreshFailed, ReqSees, table
    <3> HIDE DEF s
    <3>3. req[q].run # r BY <1>a, <3>1, <3>2 DEF ReqHandles
    <3> QED BY <3>2, <3>3 DEF RequestOn
  <2> QED BY <2>1, <2>2
<1>8. CASE FailRun(q)
  <2>1. /\ req[q].pc = "fail" /\ Update(req[q].run, req[q].seen, "failed")
        /\ req[q].run \in Runs
    BY <1>0, <1>8 DEF FailRun
  <2>2. CASE req[q].run = r
    BY <1>0, <2>1, <2>2 DEF Update, RequestOn, ReqHandles
  <2>3. CASE req[q].run # r
    BY <2>1, <2>3, UpdatesOther DEF RequestOn
  <2> QED BY <2>2, <2>3
<1>9. CASE RestoreStatus(q)
  <2>1. /\ req[q].pc = "restore" /\ SetStatus(req[q].run, req[q].seen, req[q].prev)
        /\ req[q].run \in Runs /\ req[q].prev \in Resumable
    BY <1>0, <1>9 DEF RestoreStatus
  <2>2. CASE req[q].run = r
    BY <1>0, <2>1, <2>2 DEF SetStatus, Update, RequestOn, ReqHandles
  <2>3. CASE req[q].run # r
    BY <2>1, <2>3, UpdatesOther DEF RequestOn
  <2> QED BY <2>2, <2>3
<1>10. CASE CancelRun(q) \/ StreamCompletes(q)
  <2>1. /\ req[q].pc \in {"cancel", "stream"} /\ req[q].run \in Runs
        /\ \/ Update(req[q].run, "running", "completed")
           \/ req[q].seen \in {"pending", "running"} /\ Update(req[q].run, req[q].seen, "canceled")
    BY <1>0, <1>10 DEF CancelRun, StreamCompletes, Allowed
  <2>2. req[q].run # r BY <1>0, <2>1 DEF Update
  <2> QED BY <2>1, <2>2, UpdatesOther DEF RequestOn
<1>11. CASE DeleteRun(q)
  <2>1. req[q].pc = "delete" /\ req[q].run # r
    BY <1>0, <1>11 DEF DeleteRun
  <2> QED BY <1>0, <1>11, <2>1 DEF DeleteRun, RequestOn
<1>12. ASSUME NEW t \in TaskIds, Enqueue(q, t)
       PROVE  status'[r] = status[r] /\ ~RequestOn(q, r)
  <2> DEFINE m == [id |-> t, kind |-> req[q].kind, run |-> req[q].run]
  <2>1. req[q].pc = "enqueue" /\ UNCHANGED status /\ m \in queue'
    BY <1>12 DEF Enqueue, Publish, table
  <2>2. m.run = req[q].run /\ m.kind = req[q].kind OBVIOUS
  <2> HIDE DEF m
  <2> QED BY <2>1, <2>2 DEF MessageFor, RequestOn, ReqHandles
<1>13. ASSUME NEW o \in Runs, EnqueueRun(q, o)
       PROVE  status'[r] = status[r] /\ ~RequestOn(q, r)
  <2> DEFINE s == [IdleReq EXCEPT !.pc = "enqueue", !.run = o, !.seen = "pending"]
  <2>1. s.pc = "enqueue" /\ s.run = o /\ s.kind = "run" BY DEF IdleReq
  <2>2. /\ req' = [req EXCEPT ![q] = s] /\ req[q].pc = "idle"
        /\ status' = [status EXCEPT ![o] = "pending"]
    BY <1>13 DEF EnqueueRun
  <2> HIDE DEF s
  <2>3. o # r BY <1>0, <1>a, <2>1, <2>2 DEF ReqHandles, Serving
  <2> QED BY <1>0, <2>2, <2>3 DEF RequestOn, ReqHandles
<1>14. ASSUME NEW o \in Runs, StreamRun(q, o)
       PROVE  status'[r] = status[r] /\ ~RequestOn(q, r)
  <2>1. req[q].pc = "idle" /\ o # r /\ status' = [status EXCEPT ![o] = "running"]
    BY <1>14 DEF StreamRun
  <2> QED BY <1>0, <2>1 DEF RequestOn, ReqHandles
<1>15. ASSUME NEW o \in Runs, NEW op \in Ops[o], ReadRun(q, o, op)
       PROVE  status'[r] = status[r] /\ ~RequestOn(q, r)
  BY <1>15 DEF ReadRun, table, RequestOn, ReqHandles
<1> QED
  BY <1>1, <1>2, <1>3, <1>4, <1>5, <1>6, <1>7, <1>8, <1>9, <1>10, <1>11, <1>12, <1>13,
     <1>14, <1>15 DEF RequestStep, UserStep

LEMMA RequestFrame ==
  ASSUME TypeOK, NEW q \in Requests, RequestStep(q) \/ UserStep(q)
  PROVE  /\ UNCHANGED <<wk, faults>> /\ queue \subseteq queue'
         /\ \A p \in Requests : p # q => req'[p] = req[p]
<1>1. ASSUME NEW s, req' = [req EXCEPT ![q] = s]
      PROVE  \A p \in Requests : p # q => req'[p] = req[p]
  BY <1>1 DEF TypeOK, ReqOK
<1>2. CASE RequestStep(q)
  BY <1>1, <1>2
     DEF RequestStep, Reject, ResumeStart, EnqueueFails, RefreshFailed, FailRun,
     RestoreStatus, SetTaskId, CancelRun, RevokeTask, RevokeFails, DeleteRun,
     StreamCompletes, StreamRaises, StreamDrops, RequestRowGone, Enqueue, Publish,
     EndReq, ReqSees, broker, TypeOK, ReqOK, ReqGoes
<1>3. CASE UserStep(q)
  BY <1>1, <1>3 DEF UserStep, EnqueueRun, StreamRun, ReadRun, broker
<1> QED BY <1>2, <1>3

LEMMA RequestHandled ==
  ASSUME TypeOK, NEW r \in Runs, Ops[r] \cap {"cancel", "stream"} = {},
         status[r] \in Active => Handled(r), status'[r] \in Active,
         NEW q \in Requests, RequestStep(q) \/ UserStep(q)
  PROVE  Handled(r)'
<1>1. CASE RequestOn(q, r)' \/ MessageFor(r)'
  BY <1>1 DEF Handled
<1>2. CASE ~RequestOn(q, r)' /\ ~MessageFor(r)'
  <2>1. status'[r] = status[r] /\ ~RequestOn(q, r)
    BY <1>2, RequestStays
  <2>2. CASE MessageFor(r)
    BY <1>2, <2>1, <2>2, RequestFrame DEF MessageFor
  <2>3. ASSUME NEW w \in Workers, WorkerOn(w, r) PROVE Handled(r)'
    BY <2>1, <2>3, RequestFrame DEF Handled, WorkerOn
  <2>4. ASSUME NEW p \in Requests, RequestOn(p, r) PROVE Handled(r)'
    BY <2>1, <2>4, RequestFrame DEF Handled, RequestOn
  <2> QED BY <2>1, <2>2, <2>3, <2>4 DEF Handled
<1> QED BY <1>1, <1>2

\* No run is left to nobody, for any number of runs, requests, workers and
\* messages: the only ways to strand a PENDING or RUNNING run are a fault, a
\* stream whose client leaves, and a cancel, whose revoke may kill the worker
\* that has overwritten it.  It is the safety part of Settles: fairness has
\* only to keep the one who has the run going.
THEOREM NoRunStranded == Spec => []ActiveIsHandled
<1> DEFINE Inv == TypeOK /\ IdsOK /\ ActiveIsHandled
<1>1. Init => Inv
  <2> SUFFICES ASSUME Init PROVE IdsOK /\ ActiveIsHandled
    BY InitIInv DEF IInv
  <2>1. ActiveIsHandled BY DEF Init, ActiveIsHandled
  <2>2. \A t \in TaskIds, r \in Runs : ~Names(t, r)
    BY DEF Init, Names, IdleReq, IdleWk
  <2>3. \A q \in Requests : req[q].pc = "idle" BY DEF Init, IdleReq
  <2> QED BY <2>1, <2>2, <2>3 DEF Init, IdsOK, CancelAsked
<1>2. Inv /\ TypeOK' /\ [Next]_vars => Inv'
  <2> SUFFICES ASSUME Inv, TypeOK', [Next]_vars PROVE IdsOK' /\ ActiveIsHandled'
    OBVIOUS
  <2>1. IdsOK'
    <3>1. CASE UNCHANGED vars
      BY <3>1 DEF vars, table, broker, IdsOK, CancelAsked, Names
    <3> QED BY <3>1, RequestIds, WorkerIds, RestIds DEF Next, Environment
  <2>2. SUFFICES ASSUME NEW r \in Runs, Ops[r] \cap {"cancel", "stream"} = {},
                        status'[r] \in Active, faults' = 0
                 PROVE  Handled(r)'
    BY <2>1 DEF ActiveIsHandled
  <2>3. \A kind : ~Fault(kind)
    BY <2>2 DEF Fault, TypeOK
  <2>4. faults = 0 => (status[r] \in Active => Handled(r))
    BY <2>2 DEF ActiveIsHandled
  <2>5. ASSUME NEW q \in Requests, RequestStep(q) \/ UserStep(q) PROVE Handled(r)'
    BY <2>2, <2>4, <2>5, RequestFrame, RequestHandled
  <2>6. ASSUME NEW w \in Workers, WorkerStep(w) \/ Terminated(w) \/ EngineWrites(w)
        PROVE  Handled(r)'
    BY <2>2, <2>4, <2>6, WorkerFrame, WorkerHandled
  <2>7. CASE RecoverStep \/ (\E o \in Runs : TimePasses(o)) \/ UNCHANGED vars
    <3>1. UNCHANGED <<status, wk, req, faults>> /\ queue \subseteq queue'
      BY <2>7 DEF RecoverStep, RecoverEnqueue, RecoverSkip, Publish, TimePasses, vars,
                  table, broker
    <3> QED
      BY <2>2, <2>4, <3>1 DEF Handled, MessageFor, WorkerOn, RequestOn
  <2>8. ~ \/ ApiRestart \/ (\E m \in queue : LoseMessage(m))
          \/ \E w \in Workers : WorkerCrash(w) \/ BeginFails(w) \/ Redeliver(w)
    BY <2>3 DEF ApiRestart, LoseMessage, WorkerCrash, BeginFails, Redeliver
  <2> QED BY <2>5, <2>6, <2>7, <2>8 DEF Next, Environment
<1> QED BY <1>1, <1>2, TypeCorrect, PTL DEF Spec

=============================================================================
