------------------------ MODULE EmbeddingJobsProofs ------------------------
(***************************************************************************)
(* Proofs about EmbeddingJobs.  A target does not stay QUEUED or           *)
(* PROCESSING for ever because at every moment some job has still to write *)
(* its end over what it has read (Ends): a job that would write what it    *)
(* has read writes nothing, and does not count.                            *)
(*                                                                         *)
(* With one provider and one job at a time a document shown COMPLETED has  *)
(* the vectors of all its chunks (WholeAlone): a job keeps, until it       *)
(* writes its end, that each chunk has its vector or is still to embed.    *)
(***************************************************************************)
EXTENDS EmbeddingJobs, TLAPS

\* What a job has read when it is about to commit PROCESSING, and the target
\* of one that has marked the documents of a project.
SeenOK ==
    \A j \in Jobs :
        /\ job[j].pc = "claim" => job[j].seen.status = "queued"
        /\ job[j].pc = "synced" => job[j].target = "project"

\* A job that has claimed its target and will write an end status that differs
\* from what it has read, so that the ORM does write it.
Ends(j) ==
    \/ job[j].pc \in {"claim", "select", "embed", "recheck", "insert", "finish",
                      "stopped", "raised"}
    \/ job[j].pc \in {"current", "synced"} /\ job[j].seen.status # "completed"
    \/ job[j].pc = "cancelled" /\ job[j].seen.status # "cancelled"
    \/ job[j].pc = "failed" /\ job[j].seen.status # "failed"

\* A job that is merely scheduled will see to a target that is QUEUED, and not
\* to one that is PROCESSING.
Serves(j, t) ==
    /\ job[j].target = t
    /\ \/ Ends(j)
       \/ row[t].status = "queued" /\ job[j].pc = "begin"

Schedules(q, t) == req[q].pc = "schedule" /\ req[q].target = t

\* The strengthening of ActiveHasJob.
Served ==
    faults = 0 => \A t \in Targets :
        /\ row[t].status = "processing" => \E j \in Jobs : Serves(j, t)
        /\ row[t].status = "queued" =>
              (\E j \in Jobs : Serves(j, t)) \/ (\E q \in Requests : Schedules(q, t))

\* The inductive invariant.
IInv == TypeOK /\ SeenOK /\ Served

\* The parts of TypeOK by variable.
RowOK == row \in [Targets -> Row]
ReqOK == req \in [Requests -> ReqState]
JobOK == /\ job \in [Jobs -> JobState]
         /\ \A j \in Jobs : job[j].pc \in {"recheck", "insert"} =>
                               job[j].todo # {} /\ job[j].provider # None

\* The part of TypeOK and SeenOK that is about one job.
OneJobOK(j) ==
    /\ job[j] \in JobState
    /\ job[j].pc \in {"recheck", "insert"} => job[j].todo # {} /\ job[j].provider # None
    /\ job[j].pc = "claim" => job[j].seen.status = "queued"
    /\ job[j].pc = "synced" => job[j].target = "project"

\* What Quiet asks of one job.
Harmless(j, t) ==
    job[j].target = t => job[j].pc \notin {"claim", "current", "synced", "failed"}

USE EmbeddingsAssumption DEF Running, Active, Status, Row, Targets

-----------------------------------------------------------------------------
(* What a step does to rows and local states *)

\* The initial local states and rows are well formed.
LEMMA IdleTyped ==
  /\ NoRow \in Row /\ IdleReq \in ReqState /\ IdleJob \in JobState
  /\ IdleJob.pc = "idle" /\ IdleReq.pc = "idle"
  /\ \A p \in Providers : Done(p) \in Row /\ Done(p).status = "completed"
  BY DEF NoRow, Done, IdleReq, IdleJob, ReqState, JobState

\* The columns that are written, and those that are not.
LEMMA MergedTyped ==
  ASSUME RowOK, NEW t \in Targets, NEW seen \in Row, NEW new \in Row,
         Exists(t), new.status # "absent"
  PROVE  /\ Merged(t, seen, new) \in Row
         /\ Merged(t, seen, new).status \in {row[t].status, new.status}
         /\ Merged(t, seen, new).status # "absent"
         /\ seen.status # new.status => Merged(t, seen, new).status = new.status
<1>1. row[t] \in Row /\ DOMAIN row[t] = {"status", "provider"} /\ row[t].status # "absent"
  BY DEF RowOK, Exists
<1>2. Merged(t, seen, new) =
        [status   |-> IF new.status = seen.status THEN row[t].status ELSE new.status,
         provider |-> IF new.provider = seen.provider THEN row[t].provider
                                                      ELSE new.provider]
  BY <1>1 DEF Merged
<1> QED BY <1>1, <1>2

\* A write of a status keeps the rows well formed and in place.
LEMMA WriteTyped ==
  ASSUME RowOK, NEW t \in Targets, NEW seen \in Row, NEW s \in Status,
         s # "absent", WriteStatus(t, seen, s)
  PROVE  /\ RowOK'
         /\ \A u \in Targets : Exists(u)' <=> Exists(u)
         /\ \A u \in Targets : u # t => row'[u] = row[u]
         /\ row'[t].status \in {row[t].status, s}
         /\ seen.status # s => row'[t].status = s
<1> DEFINE new == [seen EXCEPT !.status = s]
           m == Merged(t, seen, new)
<1>1. new \in Row /\ new.status = s OBVIOUS
<1>2. Exists(t) /\ row' = [row EXCEPT ![t] = m] BY DEF WriteStatus
<1>3. /\ m \in Row /\ m.status \in {row[t].status, s} /\ m.status # "absent"
      /\ seen.status # s => m.status = s
  <2> HIDE DEF new
  <2> QED BY <1>1, <1>2, MergedTyped
<1> HIDE DEF m
<1>4. RowOK' /\ row'[t] = m /\ \A u \in Targets : u # t => row'[u] = row[u]
  BY <1>2, <1>3 DEF RowOK
<1> QED BY <1>2, <1>3, <1>4 DEF Exists

\* The moves of a request keep its local state well formed.
LEMMA RequestMoves ==
  ASSUME ReqOK, RowOK, NEW q \in Requests,
         NEW pc \in {"schedule", "revoke"}
  PROVE  /\ EndReq(q) => ReqOK' /\ req'[q].pc = "idle"
         /\ ReqGoes(q, pc) => /\ ReqOK' /\ req'[q].pc = pc
                              /\ req'[q].target = req[q].target
<1>1. req[q] \in ReqState BY DEF ReqOK
<1>2. ASSUME EndReq(q) PROVE ReqOK' /\ req'[q].pc = "idle"
  BY <1>2, IdleTyped DEF EndReq, ReqOK
<1>3. ASSUME ReqGoes(q, pc)
      PROVE  ReqOK' /\ req'[q].pc = pc /\ req'[q].target = req[q].target
  <2> DEFINE new == [req[q] EXCEPT !.pc = pc, !.seen = NoRow]
  <2>1. new \in ReqState /\ new.pc = pc /\ new.target = req[q].target
    BY <1>1, IdleTyped DEF ReqState
  <2>2. req' = [req EXCEPT ![q] = new] BY <1>3 DEF ReqGoes
  <2> HIDE DEF new
  <2> QED BY <2>1, <2>2 DEF ReqOK
<1> QED BY <1>2, <1>3

-----------------------------------------------------------------------------
(* Frames: what is left to show of one kind of step *)

\* A job moves: the others are what they were.
LEMMA JobTyped ==
  ASSUME JobOK, SeenOK, NEW j \in Jobs, job' = [job EXCEPT ![j] = job'[j]], OneJobOK(j)'
  PROVE  JobOK' /\ SeenOK' /\ \A k \in Jobs : k # j => job'[k] = job[k]
<1>1. \A k \in Jobs : k # j => job'[k] = job[k] BY DEF JobOK
<1>2. job' \in [Jobs -> JobState] BY DEF JobOK, OneJobOK
<1>3. ASSUME NEW k \in Jobs PROVE OneJobOK(k)'
  <2>1. CASE k = j BY <2>1
  <2>2. CASE k # j BY <1>1, <2>2 DEF JobOK, SeenOK, OneJobOK
  <2> QED BY <2>1, <2>2
<1> QED BY <1>1, <1>2, <1>3 DEF JobOK, SeenOK, OneJobOK

\* A target keeps its witness when a job moves: it is not a running one any
\* more, the job is its witness now, or the job was not and nothing changed.
LEMMA JobServes ==
  ASSUME JobOK, Served, NEW j \in Jobs, \A k \in Jobs : k # j => job'[k] = job[k],
         UNCHANGED <<req, faults>>,
         \A t \in Targets : \/ row'[t].status \notin Running
                            \/ Serves(j, t)' /\ Ends(j)'
                            \/ row'[t].status = row[t].status /\ ~Serves(j, t)
  PROVE  Served'
<1> SUFFICES ASSUME faults = 0, NEW t \in Targets
             PROVE  /\ row'[t].status = "processing" => \E k \in Jobs : Serves(k, t)'
                    /\ row'[t].status = "queued" =>
                          \/ \E k \in Jobs : Serves(k, t)'
                          \/ \E q \in Requests : Schedules(q, t)'
  BY DEF Served
<1>1. CASE row'[t].status \notin Running BY <1>1
<1>2. CASE Serves(j, t)' BY <1>2
<1>3. CASE row'[t].status = row[t].status /\ ~Serves(j, t)
  <2>1. ASSUME NEW k \in Jobs, Serves(k, t) PROVE Serves(k, t)'
    <3>1. job'[k] = job[k] BY <1>3, <2>1
    <3> QED BY <1>3, <2>1, <3>1 DEF Serves, Ends
  <2>2. ASSUME NEW q \in Requests, Schedules(q, t) PROVE Schedules(q, t)'
    BY <2>2 DEF Schedules
  <2> QED BY <1>3, <2>1, <2>2 DEF Served
<1> QED BY <1>1, <1>2, <1>3

\* A job's step preserves the invariant when it does these things.
LEMMA JobFrame ==
  ASSUME IInv, NEW j \in Jobs, job' = [job EXCEPT ![j] = job'[j]], OneJobOK(j)',
         RowOK', vectors' \subseteq Present' \X Providers, UNCHANGED <<req, faults>>,
         \A t \in Targets : \/ row'[t].status \notin Running
                            \/ Serves(j, t)' /\ Ends(j)'
                            \/ row'[t].status = row[t].status /\ ~Serves(j, t)
  PROVE  IInv'
<1>1. JobOK /\ SeenOK /\ Served BY DEF IInv, TypeOK, JobOK
<1>2. JobOK' /\ SeenOK' /\ \A k \in Jobs : k # j => job'[k] = job[k]
  BY <1>1, JobTyped
<1>3. Served' BY <1>1, <1>2, JobServes
<1>4. TypeOK' BY <1>2 DEF IInv, TypeOK, JobOK, RowOK
<1> QED BY <1>2, <1>3, <1>4 DEF IInv

\* One that leaves the rows alone need only stay the witness it was.
LEMMA JobMoves ==
  ASSUME IInv, NEW j \in Jobs, job' = [job EXCEPT ![j] = job'[j]], OneJobOK(j)',
         vectors' \subseteq Present \X Providers, UNCHANGED <<row, req, faults>>,
         \/ job'[j].target = job[j].target /\ Ends(j)'
         \/ ~Ends(j) /\ (job[j].pc = "begin" => row[job[j].target].status # "queued")
         \/ row[job[j].target].status \notin Running
  PROVE  IInv'
<1>1. ASSUME NEW t \in Targets
      PROVE  \/ row'[t].status \notin Running
             \/ Serves(j, t)' /\ Ends(j)'
             \/ row'[t].status = row[t].status /\ ~Serves(j, t)
  <2>1. CASE t # job[j].target BY <2>1 DEF Serves
  <2>2. CASE t = job[j].target BY <2>2 DEF Serves
  <2> QED BY <2>1, <2>2
<1>2. RowOK' BY DEF IInv, TypeOK, RowOK
<1>3. Present' = Present BY DEF Present, Exists
<1> QED BY <1>1, <1>2, <1>3, JobFrame

\* One that writes its target leaves a witness or a target that is at rest.
LEMMA JobWrites ==
  ASSUME IInv, NEW j \in Jobs, job' = [job EXCEPT ![j] = job'[j]], OneJobOK(j)',
         RowOK', \A t \in Targets : t # job[j].target => row'[t] = row[t],
         Exists("document")' <=> Exists("document"),
         UNCHANGED <<vectors, req, faults>>,
         \/ job'[j].target = job[j].target /\ Ends(j)'
         \/ /\ job[j].pc # "begin"
            /\ \/ row'[job[j].target].status \notin Running
               \/ row'[job[j].target].status = row[job[j].target].status /\ ~Ends(j)
  PROVE  IInv'
<1>1. ASSUME NEW t \in Targets
      PROVE  \/ row'[t].status \notin Running
             \/ Serves(j, t)' /\ Ends(j)'
             \/ row'[t].status = row[t].status /\ ~Serves(j, t)
  <2>1. CASE t # job[j].target BY <2>1 DEF Serves
  <2>2. CASE t = job[j].target BY <2>2 DEF Serves
  <2> QED BY <2>1, <2>2
<1>2. vectors' \subseteq Present' \X Providers BY DEF IInv, TypeOK, Present
<1> QED BY <1>1, <1>2, JobFrame

\* A handler moves and writes one row: whoever it stops scheduling is at rest.
LEMMA RequestFrame ==
  ASSUME IInv, NEW q \in Requests, req' = [req EXCEPT ![q] = req'[q]], ReqOK',
         RowOK', Exists("document")' <=> Exists("document"),
         UNCHANGED <<vectors, job, faults>>,
         \A t \in Targets :
            \/ row'[t].status \notin Running
            \/ row'[t].status = "queued" /\ Schedules(q, t)'
            \/ row'[t].status = row[t].status /\ ~Schedules(q, t)
  PROVE  IInv'
<1>1. TypeOK'
  <2>1. vectors' \subseteq Present' \X Providers BY DEF IInv, TypeOK, Present
  <2> QED BY <2>1 DEF IInv, TypeOK, RowOK, ReqOK
<1>2. SeenOK' BY DEF IInv, SeenOK
<1>3. \A p \in Requests : p # q => req'[p] = req[p] BY DEF IInv, TypeOK
<1>4. Served'
  <2> SUFFICES ASSUME faults = 0, NEW t \in Targets
               PROVE  /\ row'[t].status = "processing" => \E j \in Jobs : Serves(j, t)'
                      /\ row'[t].status = "queued" =>
                            \/ \E j \in Jobs : Serves(j, t)'
                            \/ \E p \in Requests : Schedules(p, t)'
    BY DEF Served
  <2>1. CASE row'[t].status \notin Running BY <2>1
  <2>2. CASE row'[t].status = "queued" /\ Schedules(q, t)' BY <2>2
  <2>3. CASE row'[t].status = row[t].status /\ ~Schedules(q, t)
    <3>1. ASSUME NEW j \in Jobs, Serves(j, t) PROVE Serves(j, t)'
      BY <2>3, <3>1 DEF Serves, Ends
    <3>2. ASSUME NEW p \in Requests, Schedules(p, t) PROVE Schedules(p, t)'
      BY <1>3, <2>3, <3>2 DEF Schedules
    <3> QED BY <2>3, <3>1, <3>2 DEF IInv, Served
  <2> QED BY <2>1, <2>2, <2>3
<1> QED BY <1>1, <1>2, <1>4 DEF IInv

-----------------------------------------------------------------------------
(* The steps of the API *)

\* A handler starts with the row it loads.
LEMMA ReadKeeps ==
  ASSUME IInv, NEW q \in Requests, NEW op \in Ops, NEW t \in Targets, Read(q, op, t)
  PROVE  IInv'
<1> DEFINE new == [pc |-> op, target |-> t, seen |-> row[t],
                   force |-> op \in {"rebuild", "retry"}]
<1>1. /\ op \in {"rebuild", "retry", "resume", "sync", "cancel"}
      /\ RowOK /\ ReqOK /\ req[q].pc = "idle"
  BY DEF Read, IInv, TypeOK, RowOK, ReqOK
<1>2. new \in ReqState /\ new.pc # "schedule" BY <1>1 DEF RowOK, ReqState
<1>3. req' = [req EXCEPT ![q] = new] BY DEF Read
<1> HIDE DEF new
<1>4. ReqOK' /\ req' = [req EXCEPT ![q] = req'[q]] BY <1>1, <1>2, <1>3 DEF ReqOK
<1>5. \A u \in Targets : ~Schedules(q, u) BY <1>1 DEF Schedules
<1> QED BY <1>1, <1>4, <1>5, RequestFrame DEF Read, RowOK, Exists

\* A handler's step keeps the invariant: whoever commits QUEUED schedules, and
\* what it scheduled is there.
LEMMA RequestKeeps ==
  ASSUME IInv, NEW q \in Requests, RequestStep(q)
  PROVE  IInv'
<1>1. /\ RowOK /\ ReqOK /\ JobOK /\ SeenOK /\ Served
      /\ req[q] \in ReqState /\ req[q].seen \in Row /\ req[q].target \in Targets
  BY DEF IInv, TypeOK, RowOK, ReqOK, JobOK, ReqState
<1>2. ASSUME EndReq(q) \/ ReqGoes(q, "schedule") \/ ReqGoes(q, "revoke")
      PROVE  ReqOK' /\ req' = [req EXCEPT ![q] = req'[q]]
  BY <1>1, <1>2, RequestMoves DEF EndReq, ReqGoes, ReqOK
<1>3. ASSUME UNCHANGED row
      PROVE  RowOK' /\ (Exists("document")' <=> Exists("document"))
  BY <1>1, <1>3 DEF RowOK, Exists
<1>4. CASE NothingToDo(q)
  <2>1. \A t \in Targets : ~Schedules(q, t) BY <1>4 DEF NothingToDo, Schedules
  <2> QED BY <1>2, <1>3, <1>4, <2>1, RequestFrame DEF NothingToDo
<1>5. CASE Queue(q)
  <2>1. req[q].seen.status # "queued" BY <1>5 DEF Queue, Blocked
  <2>2. /\ RowOK' /\ \A u \in Targets : Exists(u)' <=> Exists(u)
        /\ \A u \in Targets : u # req[q].target => row'[u] = row[u]
        /\ row'[req[q].target].status = "queued"
    BY <1>1, <1>5, <2>1, WriteTyped DEF Queue
  <2>3. ReqOK' /\ req'[q].pc = "schedule" /\ req'[q].target = req[q].target
    BY <1>1, <1>5, RequestMoves DEF Queue
  <2>4. ASSUME NEW t \in Targets
        PROVE  \/ row'[t].status = "queued" /\ Schedules(q, t)'
               \/ row'[t].status = row[t].status /\ ~Schedules(q, t)
    BY <1>5, <2>2, <2>3 DEF Schedules, Queue
  <2> QED BY <1>2, <1>5, <2>2, <2>4, RequestFrame DEF Queue
<1>6. CASE MarkCancelling(q)
  <2>1. /\ RowOK' /\ \A u \in Targets : Exists(u)' <=> Exists(u)
        /\ \A u \in Targets : u # req[q].target => row'[u] = row[u]
        /\ row'[req[q].target].status \in {row[req[q].target].status, "cancelling"}
    BY <1>1, <1>6, WriteTyped DEF MarkCancelling
  <2>2. \A t \in Targets : ~Schedules(q, t) BY <1>6 DEF MarkCancelling, Schedules
  <2>3. ASSUME NEW t \in Targets
        PROVE  row'[t].status \notin Running \/ row'[t].status = row[t].status
    BY <2>1
  <2> QED BY <1>2, <1>6, <2>1, <2>2, <2>3, RequestFrame DEF MarkCancelling
<1>7. CASE Revoke(q)
  <2> DEFINE new == [req[q] EXCEPT !.pc = "cancelled", !.seen = row[req[q].target]]
  <2>1. new \in ReqState BY <1>1 DEF RowOK, ReqState
  <2>2. req' = [req EXCEPT ![q] = new] BY <1>7 DEF Revoke
  <2> HIDE DEF new
  <2>3. ReqOK' /\ req' = [req EXCEPT ![q] = req'[q]] BY <1>1, <2>1, <2>2 DEF ReqOK
  <2>4. \A t \in Targets : ~Schedules(q, t) BY <1>7 DEF Revoke, Schedules
  <2> QED BY <1>3, <1>7, <2>3, <2>4, RequestFrame DEF Revoke
<1>8. CASE MarkCancelled(q)
  <2>1. /\ RowOK' /\ \A u \in Targets : Exists(u)' <=> Exists(u)
        /\ \A u \in Targets : u # req[q].target => row'[u] = row[u]
        /\ row'[req[q].target].status \in {row[req[q].target].status, "cancelled"}
    BY <1>1, <1>8, WriteTyped DEF MarkCancelled
  <2>2. \A t \in Targets : ~Schedules(q, t) BY <1>8 DEF MarkCancelled, Schedules
  <2>3. ASSUME NEW t \in Targets
        PROVE  row'[t].status \notin Running \/ row'[t].status = row[t].status
    BY <2>1
  <2> QED BY <1>2, <1>8, <2>1, <2>2, <2>3, RequestFrame DEF MarkCancelled
<1>9. CASE RequestRowGone(q)
  <2>1. ASSUME NEW t \in Targets
        PROVE  row'[t].status \notin Running \/ ~Schedules(q, t)
    BY <1>9 DEF RequestRowGone, Schedules, Exists
  <2> QED BY <1>2, <1>3, <1>9, <2>1, RequestFrame DEF RequestRowGone
<1>10. ASSUME NEW j \in Jobs, Schedule(q, j) PROVE IInv'
  <2> DEFINE new == [IdleJob EXCEPT !.pc = "begin", !.target = req[q].target,
                                    !.force = req[q].force]
  <2>1. new \in JobState /\ new.pc = "begin" /\ new.target = req[q].target
    BY <1>1, IdleTyped DEF JobState, ReqState
  <2>2. job' = [job EXCEPT ![j] = new] /\ job[j].pc = "idle"
    BY <1>10 DEF Schedule
  <2> HIDE DEF new
  <2>3. /\ job' = [job EXCEPT ![j] = job'[j]] /\ job'[j] = new /\ OneJobOK(j)'
    BY <1>1, <2>1, <2>2 DEF JobOK, OneJobOK
  <2>4. JobOK' /\ SeenOK' /\ \A k \in Jobs : k # j => job'[k] = job[k]
    BY <1>1, <2>3, JobTyped
  <2>5. ReqOK' /\ UNCHANGED <<row, vectors, faults>>
    BY <1>2, <1>10 DEF Schedule
  <2>6. TypeOK' BY <2>4, <2>5 DEF IInv, TypeOK, JobOK, ReqOK, Present, Exists
  <2>7. Served'
    <3> SUFFICES ASSUME faults = 0, NEW t \in Targets
                 PROVE  /\ row[t].status = "processing" => \E k \in Jobs : Serves(k, t)'
                        /\ row[t].status = "queued" =>
                              \/ \E k \in Jobs : Serves(k, t)'
                              \/ \E p \in Requests : Schedules(p, t)'
      BY <2>5 DEF Served
    <3>1. ASSUME NEW k \in Jobs, Serves(k, t) PROVE Serves(k, t)'
      <4>1. k # j BY <2>2, <3>1 DEF Serves, Ends
      <4> QED BY <2>4, <2>5, <3>1, <4>1 DEF Serves, Ends
    <3>2. ASSUME NEW p \in Requests, Schedules(p, t), row[t].status = "queued"
          PROVE  Serves(j, t)' \/ Schedules(p, t)'
      <4>1. CASE p = q BY <2>1, <2>3, <2>5, <3>2, <4>1 DEF Schedules, Serves
      <4>2. CASE p # q
        <5>1. req'[p] = req[p] BY <1>1, <1>10, <4>2 DEF Schedule, EndReq, ReqOK
        <5> QED BY <3>2, <5>1 DEF Schedules
      <4> QED BY <4>1, <4>2
    <3> QED BY <1>1, <3>1, <3>2 DEF Served
  <2> QED BY <2>4, <2>6, <2>7 DEF IInv
<1> QED BY <1>4, <1>5, <1>6, <1>7, <1>8, <1>9, <1>10 DEF RequestStep

\* A deleted target is not a running one, and has no vectors.
LEMMA DeleteKeeps ==
  ASSUME IInv, NEW t \in Targets, Delete(t)
  PROVE  IInv'
<1>1. RowOK BY DEF IInv, TypeOK, RowOK
<1>2. RowOK' /\ \A u \in Targets : row'[u] = row[u] \/ row'[u].status = "absent"
  <2>1. \A u \in Targets : row[u] \in Row /\ [row[u] EXCEPT !.status = "absent"] \in Row
    BY <1>1 DEF RowOK
  <2>2. \A u \in Targets : row'[u] = IF u \in {t, "document"}
                                       THEN [row[u] EXCEPT !.status = "absent"]
                                       ELSE row[u]
    BY DEF Delete
  <2>3. \A u \in Targets : [row[u] EXCEPT !.status = "absent"].status = "absent"
    BY <2>1
  <2>4. row' \in [Targets -> Row] BY <2>1 DEF Delete
  <2> QED BY <2>2, <2>3, <2>4 DEF RowOK
<1>3. vectors' = {} /\ UNCHANGED <<req, job, faults>> BY DEF Delete
<1>4. TypeOK' BY <1>2, <1>3 DEF IInv, TypeOK, RowOK
<1>5. SeenOK' BY <1>3 DEF IInv, SeenOK
<1>6. Served'
  <2> SUFFICES ASSUME faults = 0, NEW u \in Targets, row'[u].status \in Running
               PROVE  /\ row'[u].status = "processing" => \E k \in Jobs : Serves(k, u)'
                      /\ row'[u].status = "queued" =>
                            \/ \E k \in Jobs : Serves(k, u)'
                            \/ \E p \in Requests : Schedules(p, u)'
    BY <1>3 DEF Served
  <2>1. row'[u] = row[u] BY <1>2
  <2>2. ASSUME NEW k \in Jobs, Serves(k, u) PROVE Serves(k, u)'
    BY <1>3, <2>1, <2>2 DEF Serves, Ends
  <2>3. ASSUME NEW p \in Requests, Schedules(p, u) PROVE Schedules(p, u)'
    BY <1>3, <2>3 DEF Schedules
  <2> QED BY <2>1, <2>2, <2>3 DEF IInv, Served
<1> QED BY <1>4, <1>5, <1>6 DEF IInv

-----------------------------------------------------------------------------
(* The steps of the jobs *)

\* A job that is over is well formed and idle.
LEMMA EndTyped ==
  ASSUME JobOK, RowOK, NEW j \in Jobs, EndJob(j)
  PROVE  job' = [job EXCEPT ![j] = job'[j]] /\ OneJobOK(j)'
BY IdleTyped DEF EndJob, JobOK, OneJobOK

\* So is one that goes on with what it has ...
LEMMA GoesTyped ==
  ASSUME JobOK, RowOK, NEW j \in Jobs, NEW pc \in {"select", "finish", "insert", "synced"},
         JobGoes(j, pc), pc = "insert" => job[j].pc = "recheck",
         pc = "synced" => job[j].target = "project"
  PROVE  /\ job' = [job EXCEPT ![j] = job'[j]] /\ OneJobOK(j)'
         /\ job'[j].pc = pc /\ job'[j].target = job[j].target
         /\ job'[j].seen = job[j].seen
<1> DEFINE new == [job[j] EXCEPT !.pc = pc]
<1>1. job[j] \in JobState BY DEF JobOK
<1>2. /\ new \in JobState /\ new.pc = pc /\ new.target = job[j].target
      /\ new.todo = job[j].todo /\ new.provider = job[j].provider
      /\ new.seen = job[j].seen
  BY <1>1 DEF JobState
<1>3. job' = [job EXCEPT ![j] = job'[j]] /\ job'[j] = new BY DEF JobGoes, JobOK
<1> HIDE DEF new
<1> QED BY <1>2, <1>3 DEF JobOK, OneJobOK

\* ... with what it reads ...
LEMMA SeesTyped ==
  ASSUME JobOK, RowOK, NEW j \in Jobs, NEW pc \in {"claim", "current", "cancelled", "failed"},
         JobSees(j, pc), pc = "claim" => row[job[j].target].status = "queued"
  PROVE  /\ job' = [job EXCEPT ![j] = job'[j]] /\ OneJobOK(j)'
         /\ job'[j].pc = pc /\ job'[j].target = job[j].target
         /\ job'[j].seen = row[job[j].target]
<1> DEFINE new == [job[j] EXCEPT !.pc = pc, !.seen = row[job[j].target]]
<1>1. job[j] \in JobState /\ row[job[j].target] \in Row
  BY DEF JobOK, RowOK, JobState
<1>2. /\ new \in JobState /\ new.pc = pc /\ new.target = job[j].target
      /\ new.seen = row[job[j].target]
  BY <1>1 DEF JobState
<1>3. job' = [job EXCEPT ![j] = job'[j]] /\ job'[j] = new BY DEF JobSees, JobOK
<1> HIDE DEF new
<1> QED BY <1>2, <1>3 DEF OneJobOK

\* ... or into an exception handler.
LEMMA RecoversTyped ==
  ASSUME JobOK, RowOK, NEW j \in Jobs, NEW pc \in {"stopped", "raised"}, Recovers(j, pc)
  PROVE  /\ job' = [job EXCEPT ![j] = job'[j]] /\ OneJobOK(j)'
         /\ job'[j].pc = pc /\ job'[j].target = job[j].target
<1> DEFINE new == [IdleJob EXCEPT !.pc = pc, !.target = job[j].target]
<1>1. job[j].target \in Targets BY DEF JobOK, JobState
<1>2. new \in JobState /\ new.pc = pc /\ new.target = job[j].target
  BY <1>1, IdleTyped DEF JobState
<1>3. job' = [job EXCEPT ![j] = job'[j]] /\ job'[j] = new BY DEF Recovers, JobOK
<1> HIDE DEF new
<1> QED BY <1>2, <1>3 DEF OneJobOK

\* The end of a job that nobody counts on keeps the invariant.
LEMMA EndKeeps ==
  ASSUME IInv, NEW j \in Jobs, EndJob(j), UNCHANGED <<row, vectors, req, faults>>,
         \/ ~Ends(j) /\ (job[j].pc = "begin" => row[job[j].target].status # "queued")
         \/ row[job[j].target].status \notin Running
  PROVE  IInv'
<1>1. JobOK /\ RowOK BY DEF IInv, TypeOK, JobOK, RowOK
<1>2. job' = [job EXCEPT ![j] = job'[j]] /\ OneJobOK(j)' BY <1>1, EndTyped
<1>3. vectors' \subseteq Present \X Providers BY DEF IInv, TypeOK
<1> QED BY <1>2, <1>3, JobMoves

\* The status a job ends with keeps the invariant: the ORM has written it, or
\* the job was nobody's witness.
LEMMA FinalWriteKeeps ==
  ASSUME IInv, NEW j \in Jobs, EndJob(j), UNCHANGED <<vectors, req, faults>>,
         NEW s \in Status \ (Running \cup {"absent"}),
         WriteStatus(job[j].target, job[j].seen, s),
         job[j].pc # "begin", job[j].seen.status = s => ~Ends(j)
  PROVE  IInv'
<1>1. /\ JobOK /\ RowOK /\ job[j].target \in Targets /\ job[j].seen \in Row
  BY DEF IInv, TypeOK, JobOK, RowOK, JobState
<1>2. job' = [job EXCEPT ![j] = job'[j]] /\ OneJobOK(j)' BY <1>1, EndTyped
<1>3. /\ RowOK' /\ \A u \in Targets : Exists(u)' <=> Exists(u)
      /\ \A u \in Targets : u # job[j].target => row'[u] = row[u]
      /\ row'[job[j].target].status \in {row[job[j].target].status, s}
      /\ job[j].seen.status # s => row'[job[j].target].status = s
  BY <1>1, WriteTyped
<1> QED BY <1>2, <1>3, JobWrites

\* A job's step keeps the invariant.
LEMMA JobKeeps ==
  ASSUME IInv, NEW j \in Jobs, JobStep(j)
  PROVE  IInv'
<1>1. /\ RowOK /\ JobOK /\ SeenOK
      /\ job[j] \in JobState /\ job[j].target \in Targets /\ job[j].seen \in Row
      /\ vectors \subseteq Present \X Providers
  BY DEF IInv, TypeOK, RowOK, JobOK, JobState
<1>2. CASE Claim(j)
  <2>1. CASE StatusOf(j) = "queued"
    <3>1. /\ job' = [job EXCEPT ![j] = job'[j]] /\ OneJobOK(j)'
          /\ job'[j].pc = "claim" /\ job'[j].target = job[j].target
      BY <1>1, <1>2, <2>1, SeesTyped DEF Claim, StatusOf
    <3> QED BY <1>1, <1>2, <3>1, JobMoves DEF Claim, Ends
  <2>2. CASE StatusOf(j) # "queued"
    BY <1>2, <2>2, EndKeeps DEF Claim, Ends, StatusOf
  <2> QED BY <2>1, <2>2
<1>3. CASE CommitProcessing(j)
  <2>1. job[j].seen.status = "queued" BY <1>1, <1>3 DEF CommitProcessing, SeenOK
  <2>2. /\ RowOK' /\ \A u \in Targets : Exists(u)' <=> Exists(u)
        /\ \A u \in Targets : u # job[j].target => row'[u] = row[u]
    BY <1>1, <1>3, WriteTyped DEF CommitProcessing
  <2>3. /\ job' = [job EXCEPT ![j] = job'[j]] /\ OneJobOK(j)'
        /\ job'[j].pc = "select" /\ job'[j].target = job[j].target
    BY <1>1, <1>3, GoesTyped DEF CommitProcessing
  <2> QED BY <1>3, <2>2, <2>3, JobWrites DEF CommitProcessing, Ends
<1>4. CASE Embedded(j)
  <2>1. /\ job' = [job EXCEPT ![j] = job'[j]] /\ OneJobOK(j)'
        /\ job'[j].pc = "finish" /\ job'[j].target = job[j].target
    BY <1>1, <1>4, GoesTyped DEF Embedded
  <2> QED BY <1>1, <1>4, <2>1, JobMoves DEF Embedded, Ends
<1>5. CASE Stop(j)
  <2>1. /\ job' = [job EXCEPT ![j] = job'[j]] /\ OneJobOK(j)'
        /\ job'[j].pc = "stopped" /\ job'[j].target = job[j].target
    BY <1>1, <1>5, RecoversTyped DEF Stop
  <2> QED BY <1>1, <1>5, <2>1, JobMoves DEF Stop, Ends
<1>6. CASE EmbedFails(j)
  <2>1. /\ job' = [job EXCEPT ![j] = job'[j]] /\ OneJobOK(j)'
        /\ job'[j].pc = "raised" /\ job'[j].target = job[j].target
    BY <1>1, <1>6, RecoversTyped DEF EmbedFails
  <2> QED BY <1>1, <1>6, <2>1, JobMoves DEF EmbedFails, Ends
<1>7. CASE Recheck(j)
  <2>1. /\ job' = [job EXCEPT ![j] = job'[j]] /\ OneJobOK(j)'
        /\ job'[j].pc = "insert" /\ job'[j].target = job[j].target
    BY <1>1, <1>7, GoesTyped DEF Recheck
  <2> QED BY <1>1, <1>7, <2>1, JobMoves DEF Recheck, Ends
<1>8. CASE Insert(j)
  <2> DEFINE c == FirstOf(job[j].todo)
             v == <<c, job[j].provider>>
  <2>1. job[j].pc = "insert" /\ job[j].provider \in Providers
    BY <1>1, <1>8 DEF Insert, JobOK, JobState
  <2>2. CASE c \in Present /\ v \notin vectors
    <3> DEFINE new == [job[j] EXCEPT !.pc = "embed", !.created = TRUE,
                                     !.todo = job[j].todo \ {c}]
    <3>1. new \in JobState /\ new.pc = "embed" /\ new.target = job[j].target
      BY <1>1 DEF JobState
    <3>2. job' = [job EXCEPT ![j] = new] /\ vectors' = vectors \cup {v}
      BY <1>8, <2>2 DEF Insert
    <3> HIDE DEF new
    <3>3. /\ job' = [job EXCEPT ![j] = job'[j]] /\ OneJobOK(j)'
          /\ job'[j].pc = "embed" /\ job'[j].target = job[j].target
      BY <1>1, <3>1, <3>2 DEF JobOK, OneJobOK
    <3>4. vectors' \subseteq Present \X Providers BY <1>1, <2>1, <2>2, <3>2
    <3> QED BY <1>8, <3>3, <3>4, JobMoves DEF Insert, Ends
  <2>3. CASE ~(c \in Present /\ v \notin vectors)
    <3>1. /\ job' = [job EXCEPT ![j] = job'[j]] /\ OneJobOK(j)'
          /\ job'[j].pc = "raised" /\ job'[j].target = job[j].target
          /\ UNCHANGED vectors
      BY <1>1, <1>8, <2>3, RecoversTyped DEF Insert
    <3> QED BY <1>1, <1>8, <3>1, JobMoves DEF Insert, Ends
  <2> QED BY <2>2, <2>3
<1>9. CASE Finish(j)
  <2>1. CASE Cancelled(j)
    <3>1. /\ job' = [job EXCEPT ![j] = job'[j]] /\ OneJobOK(j)'
      BY <1>1, <1>9, <2>1, SeesTyped DEF Finish
    <3> QED BY <1>1, <1>9, <2>1, <3>1, JobMoves DEF Finish, Cancelled, StatusOf
  <2>2. CASE ~Cancelled(j)
    <3>1. /\ job' = [job EXCEPT ![j] = job'[j]] /\ OneJobOK(j)'
          /\ job'[j].pc = "current" /\ job'[j].target = job[j].target
          /\ job'[j].seen = row[job[j].target]
      BY <1>1, <1>9, <2>2, SeesTyped DEF Finish
    <3> QED BY <1>1, <1>9, <3>1, JobMoves DEF Finish, Ends
  <2> QED BY <2>1, <2>2
<1>10. CASE MarkDocument(j)
  <2> DEFINE m == Merged("document", job[j].seen, Done(job[j].provider))
  <2>1. /\ job[j].pc = "current" /\ job[j].target = "document" /\ Exists("document")
        /\ row' = [row EXCEPT !["document"] = m]
    BY <1>10 DEF MarkDocument
  <2>2. Done(job[j].provider) \in Row /\ Done(job[j].provider).status = "completed"
    BY <1>1 DEF Done, JobState
  <2>3. /\ m \in Row /\ m.status \in {row["document"].status, "completed"}
        /\ m.status # "absent"
        /\ job[j].seen.status # "completed" => m.status = "completed"
    BY <1>1, <2>1, <2>2, MergedTyped
  <2> HIDE DEF m
  <2>4. /\ RowOK' /\ row'["document"] = m
        /\ \A u \in Targets : u # "document" => row'[u] = row[u]
    BY <1>1, <2>1, <2>3 DEF RowOK
  <2>5. job' = [job EXCEPT ![j] = job'[j]] /\ OneJobOK(j)'
    BY <1>1, <1>10, EndTyped DEF MarkDocument
  <2>6. Exists("document")' BY <2>3, <2>4 DEF Exists
  <2>7. \/ row'["document"].status \notin Running
        \/ row'["document"].status = row["document"].status /\ ~Ends(j)
    BY <2>1, <2>3, <2>4 DEF Ends
  <2> QED BY <1>10, <2>1, <2>4, <2>5, <2>6, <2>7, JobWrites DEF MarkDocument
<1>11. CASE MarkProjectDocuments(j)
  <2>1. /\ job' = [job EXCEPT ![j] = job'[j]] /\ OneJobOK(j)'
        /\ job'[j].pc = "synced" /\ job'[j].target = job[j].target
        /\ job'[j].seen = job[j].seen
        /\ job[j].pc = "current" /\ job[j].target = "project"
    BY <1>1, <1>11, GoesTyped DEF MarkProjectDocuments
  <2>2. /\ Done(job[j].provider) \in Row
        /\ Done(job[j].provider).status = "completed"
    BY <1>1 DEF Done, JobState
  <2>3. /\ RowOK' /\ row'["project"] = row["project"]
        /\ row'["document"] = row["document"] \/ row'["document"].status = "completed"
        /\ Present' = Present
    BY <1>1, <1>11, <2>2 DEF MarkProjectDocuments, RowOK, Present, Exists
  <2>4. ASSUME NEW t \in Targets
        PROVE  \/ row'[t].status \notin Running
               \/ Serves(j, t)' /\ Ends(j)'
               \/ row'[t].status = row[t].status /\ ~Serves(j, t)
    <3>1. CASE t = "document" BY <2>1, <2>3, <3>1 DEF Serves
    <3>2. CASE t = "project" BY <2>1, <2>3, <3>2 DEF Serves, Ends
    <3> QED BY <3>1, <3>2
  <2> QED BY <1>1, <1>11, <2>1, <2>3, <2>4, JobFrame DEF MarkProjectDocuments
<1>12. CASE MarkProject(j)
  <2>1. job[j].pc = "synced" /\ job[j].target = "project"
    BY <1>1, <1>12 DEF MarkProject, SeenOK
  <2> QED BY <1>12, <2>1, FinalWriteKeeps DEF MarkProject, Ends
<1>13. CASE RecoverStopped(j)
  <2>1. /\ job' = [job EXCEPT ![j] = job'[j]] /\ OneJobOK(j)'
        /\ job'[j].pc = "cancelled" /\ job'[j].target = job[j].target
        /\ job'[j].seen = row[job[j].target]
    BY <1>1, <1>13, SeesTyped DEF RecoverStopped
  <2> QED BY <1>1, <1>13, <2>1, JobMoves DEF RecoverStopped, Ends
<1>14. CASE CommitCancelled(j)
  BY <1>14, FinalWriteKeeps DEF CommitCancelled, Ends
<1>15. CASE Recover(j)
  <2>1. CASE Cancelled(j)
    BY <1>15, <2>1, EndKeeps DEF Recover, Cancelled, StatusOf
  <2>2. CASE ~Cancelled(j)
    <3>1. /\ job' = [job EXCEPT ![j] = job'[j]] /\ OneJobOK(j)'
          /\ job'[j].pc = "failed" /\ job'[j].target = job[j].target
          /\ job'[j].seen = row[job[j].target]
      BY <1>1, <1>15, <2>2, SeesTyped DEF Recover
    <3> QED BY <1>1, <1>15, <3>1, JobMoves DEF Recover, Ends
  <2> QED BY <2>1, <2>2
<1>16. CASE CommitFailed(j)
  BY <1>16, FinalWriteKeeps DEF CommitFailed, Ends
<1>17. CASE JobRowGone(j)
  BY <1>17, EndKeeps DEF JobRowGone, Exists
<1>18. ASSUME NEW p \in Providers, Select(j, p) PROVE IInv'
  <2> DEFINE left == {c \in Present : <<c, p>> \notin vectors'}
             new == [job[j] EXCEPT !.pc = "embed", !.seen = NoRow, !.provider = p,
                                   !.todo = left]
  <2>1. left \in SUBSET Chunks BY DEF Present
  <2>2. job' = [job EXCEPT ![j] = new] /\ job[j].pc = "select"
    BY <1>18 DEF Select
  <2> HIDE DEF left
  <2>3. new \in JobState /\ new.pc = "embed" /\ new.target = job[j].target
    BY <1>1, <2>1, IdleTyped DEF JobState
  <2> HIDE DEF new
  <2>4. /\ job' = [job EXCEPT ![j] = job'[j]] /\ OneJobOK(j)'
        /\ job'[j].pc = "embed" /\ job'[j].target = job[j].target
    BY <1>1, <2>2, <2>3 DEF JobOK, OneJobOK
  <2>5. vectors' \subseteq Present \X Providers BY <1>1, <1>18 DEF Select
  <2> QED BY <1>18, <2>4, <2>5, JobMoves DEF Select, Ends
<1>19. ASSUME NEW p \in Providers, Embed(j, p) PROVE IInv'
  <2>1. CASE job[j].created /\ p # job[j].provider
    <3>1. /\ job' = [job EXCEPT ![j] = job'[j]] /\ OneJobOK(j)'
          /\ job'[j].pc = "raised" /\ job'[j].target = job[j].target
      BY <1>1, <1>19, <2>1, RecoversTyped DEF Embed
    <3> QED BY <1>1, <1>19, <3>1, JobMoves DEF Embed, Ends
  <2>2. CASE ~(job[j].created /\ p # job[j].provider)
    <3> DEFINE new == [job[j] EXCEPT !.pc = "recheck", !.provider = p]
    <3>1. /\ new \in JobState /\ new.pc = "recheck" /\ new.target = job[j].target
          /\ new.todo = job[j].todo /\ new.provider = p
      BY <1>1 DEF JobState
    <3>2. job' = [job EXCEPT ![j] = new] /\ job[j].todo # {} BY <1>19, <2>2 DEF Embed
    <3> HIDE DEF new
    <3>3. /\ job' = [job EXCEPT ![j] = job'[j]] /\ OneJobOK(j)'
          /\ job'[j].pc = "recheck" /\ job'[j].target = job[j].target
      BY <1>1, <3>1, <3>2, EmbeddingsAssumption DEF JobOK, OneJobOK
    <3> QED BY <1>1, <1>19, <3>3, JobMoves DEF Embed, Ends
  <2> QED BY <2>1, <2>2
<1> QED BY <1>2, <1>3, <1>4, <1>5, <1>6, <1>7, <1>8, <1>9, <1>10, <1>11, <1>12, <1>13,
           <1>14, <1>15, <1>16, <1>17, <1>18, <1>19 DEF JobStep

-----------------------------------------------------------------------------
(* The invariant and what it implies *)

\* After a fault nobody is promised a job.
LEMMA FaultKeeps ==
  ASSUME IInv, (\E j \in Jobs : BeginFails(j)) \/ ApiRestart
  PROVE  IInv'
<1>1. /\ RowOK /\ JobOK /\ ReqOK /\ SeenOK /\ faults \in 0..MaxFaults
  BY DEF IInv, TypeOK, RowOK, JobOK, ReqOK
<1>2. ASSUME NEW kind, Fault(kind) PROVE faults' \in 0..MaxFaults /\ faults' # 0
  BY <1>1, <1>2, EmbeddingsAssumption DEF Fault
<1>3. ASSUME NEW j \in Jobs, BeginFails(j) PROVE IInv'
  <2>1. job' = [job EXCEPT ![j] = job'[j]] /\ OneJobOK(j)'
    BY <1>1, <1>3, EndTyped DEF BeginFails
  <2>2. JobOK' /\ SeenOK' BY <1>1, <2>1, JobTyped
  <2>3. faults' \in 0..MaxFaults /\ faults' # 0 /\ UNCHANGED <<row, vectors, req>>
    BY <1>2, <1>3 DEF BeginFails
  <2> QED BY <2>2, <2>3 DEF IInv, TypeOK, JobOK, Served, Present, Exists
<1>4. ASSUME ApiRestart PROVE IInv'
  <2>1. /\ req' = [q \in Requests |-> IdleReq] /\ job' = [j \in Jobs |-> IdleJob]
        /\ faults' \in 0..MaxFaults /\ faults' # 0 /\ UNCHANGED <<row, vectors>>
    BY <1>2, <1>4 DEF ApiRestart
  <2>2. JobOK' /\ SeenOK' /\ ReqOK' BY <2>1, IdleTyped DEF JobOK, SeenOK, ReqOK
  <2> QED BY <2>1, <2>2 DEF IInv, TypeOK, JobOK, ReqOK, Served, Present, Exists
<1> QED BY <1>3, <1>4

\* A document that was processed and a project that was never synced satisfy
\* the invariant, and every step keeps it.
LEMMA Invariance == Spec => []IInv
<1>1. Init => IInv
  <2> SUFFICES ASSUME Init PROVE IInv OBVIOUS
  <2>1. /\ row["document"] = Done(First) /\ row["project"] = NoRow
        /\ row \in [Targets -> Row]
    BY IdleTyped, EmbeddingsAssumption DEF Init
  <2>2. vectors \subseteq Present \X Providers
    BY <2>1, EmbeddingsAssumption DEF Init, Present, Exists, Done
  <2>3. /\ job \in [Jobs -> JobState] /\ \A j \in Jobs : job[j].pc = "idle"
        /\ req \in [Requests -> ReqState]
    BY IdleTyped DEF Init
  <2>4. TypeOK BY <2>1, <2>2, <2>3, EmbeddingsAssumption DEF Init, TypeOK
  <2>5. SeenOK BY <2>3 DEF SeenOK
  <2>6. Served BY <2>1 DEF Served, Done, NoRow
  <2> QED BY <2>4, <2>5, <2>6 DEF IInv
<1>2. IInv /\ [Next]_vars => IInv'
  <2> SUFFICES ASSUME IInv, [Next]_vars PROVE IInv' OBVIOUS
  <2>1. CASE UNCHANGED vars
    BY <2>1 DEF vars, IInv, TypeOK, SeenOK, Served, Serves, Ends, Schedules, Present, Exists
  <2>2. ASSUME NEW q \in Requests, RequestStep(q) PROVE IInv'
    BY <2>2, RequestKeeps
  <2>3. ASSUME NEW q \in Requests, NEW op \in Ops, NEW t \in Targets, Read(q, op, t)
        PROVE  IInv'
    BY <2>3, ReadKeeps
  <2>4. ASSUME NEW t \in Targets, Delete(t) PROVE IInv'
    BY <2>4, DeleteKeeps
  <2>5. ASSUME NEW j \in Jobs, JobStep(j) PROVE IInv'
    BY <2>5, JobKeeps
  <2> QED BY <2>1, <2>2, <2>3, <2>4, <2>5, FaultKeeps DEF Next
<1> QED BY <1>1, <1>2, PTL DEF Spec

\* Rows, vectors and local states stay well formed, and no vector outlives its
\* document.
THEOREM TypeCorrect == Spec => []TypeOK
<1>1. IInv => TypeOK BY DEF IInv
<1> QED BY <1>1, Invariance, PTL

\* However jobs, cancels and further requests overlap, a target that is shown
\* QUEUED or PROCESSING has a job or a handler about to schedule one: without
\* a fault, no rebuild and no sync is refused for a job that is gone.
THEOREM NoTargetStuck == Spec => []ActiveHasJob
<1>1. IInv => ActiveHasJob
  <2> SUFFICES ASSUME IInv, NEW t \in Targets, row[t].status \in Running, faults = 0
               PROVE  \/ \E j \in Jobs : job[j].pc # "idle" /\ job[j].target = t
                      \/ \E q \in Requests : req[q].pc = "schedule" /\ req[q].target = t
    BY DEF ActiveHasJob
  <2>1. ASSUME NEW j \in Jobs, Serves(j, t) PROVE job[j].pc # "idle" /\ job[j].target = t
    BY <2>1 DEF Serves, Ends
  <2> QED BY <2>1 DEF IInv, Served, Schedules
<1> QED BY <1>1, Invariance, PTL

-----------------------------------------------------------------------------
(* Cancels *)

\* What CancelledIsStable allows a step to do to a target that is CANCELLED
\* and quiet.
Asked(q, t) == req[q].target = t /\ req'[q].pc = "schedule" /\ req[q].pc # "schedule"

Stays(t) == row'[t].status = "cancelled" /\ Quiet(t)'

\* A job that does not move past a read keeps its target quiet.
LEMMA JobQuiet ==
  ASSUME IInv, NEW j \in Jobs, NEW t \in Targets, Quiet(t), UNCHANGED req,
         \A k \in Jobs : k # j => job'[k] = job[k], Harmless(j, t)'
  PROVE  Quiet(t)'
<1>1. ASSUME NEW k \in Jobs PROVE Harmless(k, t)'
  BY <1>1 DEF Quiet, Harmless
<1> QED BY <1>1 DEF Quiet, Harmless

\* So does a handler that does not start or go on with a cancel.
LEMMA RequestQuiet ==
  ASSUME IInv, NEW q \in Requests, NEW t \in Targets, Quiet(t),
         \A p \in Requests : p # q => req'[p] = req[p], req'[q].pc # "cancel",
         \A k \in Jobs : job'[k] = job[k] \/ job'[k].pc = "begin"
  PROVE  Quiet(t)'
<1>1. ASSUME NEW p \in Requests
      PROVE  ~ /\ req'[p].target = t /\ req'[p].pc = "cancel"
               /\ req'[p].seen.status \in Active
  BY <1>1 DEF Quiet
<1>2. ASSUME NEW k \in Jobs, job'[k].target = t
      PROVE  job'[k].pc \notin {"claim", "current", "synced", "failed"}
  BY <1>2 DEF Quiet
<1> QED BY <1>1, <1>2 DEF Quiet

\* A handler leaves a cancelled target as it is, or has been asked for more.
LEMMA RequestRespects ==
  ASSUME IInv, NEW q \in Requests, NEW t \in Targets, RequestStep(q),
         row[t].status = "cancelled", Quiet(t)
  PROVE  Stays(t) \/ Asked(q, t)
<1>1. /\ RowOK /\ ReqOK /\ JobOK
      /\ req[q] \in ReqState /\ req[q].seen \in Row /\ req[q].target \in Targets
  BY DEF IInv, TypeOK, RowOK, ReqOK, JobOK, ReqState
<1>2. ASSUME EndReq(q) PROVE /\ req'[q].pc = "idle"
                             /\ \A p \in Requests : p # q => req'[p] = req[p]
  BY <1>1, <1>2, IdleTyped DEF EndReq, ReqOK
<1>3. ASSUME NEW pc \in {"schedule", "revoke"}, ReqGoes(q, pc)
      PROVE  /\ req'[q].pc = pc /\ req'[q].target = req[q].target
             /\ \A p \in Requests : p # q => req'[p] = req[p]
  <2>1. req'[q].pc = pc /\ req'[q].target = req[q].target
    BY <1>1, <1>3, RequestMoves
  <2> QED BY <1>1, <1>3, <2>1 DEF ReqGoes, ReqOK
<1>4. CASE NothingToDo(q)
  BY <1>2, <1>4, RequestQuiet DEF NothingToDo, Stays
<1>5. CASE Queue(q)
  <2>1. \A u \in Targets : u # req[q].target => row'[u] = row[u]
    BY <1>1, <1>5, WriteTyped DEF Queue
  <2>2. Quiet(t)' BY <1>3, <1>5, RequestQuiet DEF Queue
  <2> QED BY <1>3, <1>5, <2>1, <2>2 DEF Queue, Stays, Asked
<1>6. CASE MarkCancelling(q)
  <2>1. req[q].target # t BY <1>6 DEF MarkCancelling, Quiet
  <2>2. \A u \in Targets : u # req[q].target => row'[u] = row[u]
    BY <1>1, <1>6, WriteTyped DEF MarkCancelling
  <2>3. Quiet(t)' BY <1>3, <1>6, RequestQuiet DEF MarkCancelling
  <2> QED BY <2>1, <2>2, <2>3 DEF Stays
<1>7. CASE Revoke(q)
  <2> DEFINE new == [req[q] EXCEPT !.pc = "cancelled", !.seen = row[req[q].target]]
  <2>1. new.pc = "cancelled" BY <1>1 DEF ReqState
  <2>2. req' = [req EXCEPT ![q] = new] BY <1>7 DEF Revoke
  <2> HIDE DEF new
  <2>3. req'[q].pc = "cancelled" /\ \A p \in Requests : p # q => req'[p] = req[p]
    BY <1>1, <2>1, <2>2 DEF ReqOK
  <2> QED BY <1>7, <2>3, RequestQuiet DEF Revoke, Stays
<1>8. CASE MarkCancelled(q)
  <2>1. /\ \A u \in Targets : u # req[q].target => row'[u] = row[u]
        /\ row'[req[q].target].status \in {row[req[q].target].status, "cancelled"}
    BY <1>1, <1>8, WriteTyped DEF MarkCancelled
  <2>2. Quiet(t)' BY <1>2, <1>8, RequestQuiet DEF MarkCancelled
  <2> QED BY <2>1, <2>2 DEF Stays
<1>9. CASE RequestRowGone(q)
  BY <1>2, <1>9, RequestQuiet DEF RequestRowGone, Stays
<1>10. ASSUME NEW j \in Jobs, Schedule(q, j) PROVE Stays(t)
  <2> DEFINE new == [IdleJob EXCEPT !.pc = "begin", !.target = req[q].target,
                                    !.force = req[q].force]
  <2>1. new.pc = "begin" BY IdleTyped DEF JobState
  <2>2. job' = [job EXCEPT ![j] = new] BY <1>10 DEF Schedule
  <2> HIDE DEF new
  <2>3. \A k \in Jobs : job'[k] = job[k] \/ job'[k].pc = "begin"
    BY <1>1, <2>1, <2>2 DEF JobOK
  <2> QED BY <1>2, <1>10, <2>3, RequestQuiet DEF Schedule, Stays
<1> QED BY <1>4, <1>5, <1>6, <1>7, <1>8, <1>9, <1>10 DEF RequestStep

\* A job whose move is harmless, and whose write is none or to another target
\* or of CANCELLED, leaves a cancelled target as it is.
LEMMA JobStays ==
  ASSUME IInv, NEW j \in Jobs, NEW t \in Targets, Quiet(t), UNCHANGED req,
         row[t].status = "cancelled", NEW new, job' = [job EXCEPT ![j] = new],
         new.target = t => new.pc \notin {"claim", "current", "synced", "failed"},
         row'[t].status = "cancelled"
  PROVE  Stays(t)
<1>1. /\ \A k \in Jobs : k # j => job'[k] = job[k]
      /\ job'[j] = new
  BY DEF IInv, TypeOK
<1> QED BY <1>1, JobQuiet DEF Harmless, Stays

\* A job leaves a cancelled target as it is, but for a sync that completes.
LEMMA JobRespects ==
  ASSUME IInv, NEW j \in Jobs, NEW t \in Targets, JobStep(j),
         row[t].status = "cancelled", Quiet(t)
  PROVE  \/ Stays(t)
         \/ t = "document" /\ job[j].pc = "current" /\ job'[j].pc = "synced"
<1>1. /\ RowOK /\ JobOK /\ SeenOK /\ job[j] \in JobState
      /\ job[j].target \in Targets /\ job[j].seen \in Row
      /\ job[j].target = t => job[j].pc \notin {"claim", "current", "synced", "failed"}
  BY DEF IInv, TypeOK, RowOK, JobOK, JobState, Quiet
<1>2. UNCHANGED req
  BY DEF JobStep, Claim, CommitProcessing, Embedded, Stop, EmbedFails, Recheck, Insert,
         Finish, MarkDocument, MarkProjectDocuments, MarkProject, RecoverStopped,
         CommitCancelled, Recover, CommitFailed, JobRowGone, Select, Embed
<1>3. ASSUME EndJob(j), row'[t].status = "cancelled" PROVE Stays(t)
  BY <1>2, <1>3, IdleTyped, JobStays DEF EndJob
<1>4. ASSUME NEW pc, JobGoes(j, pc), row'[t].status = "cancelled",
             job[j].target = t => pc \notin {"claim", "current", "synced", "failed"}
      PROVE  Stays(t)
  <2> DEFINE new == [job[j] EXCEPT !.pc = pc]
  <2>1. new.pc = pc /\ new.target = job[j].target BY <1>1 DEF JobState
  <2>2. job' = [job EXCEPT ![j] = new] BY <1>4 DEF JobGoes
  <2> HIDE DEF new
  <2> QED BY <1>2, <1>4, <2>1, <2>2, JobStays
<1>5. ASSUME NEW pc, JobSees(j, pc), row'[t].status = "cancelled",
             job[j].target = t => pc \notin {"claim", "current", "synced", "failed"}
      PROVE  Stays(t)
  <2> DEFINE new == [job[j] EXCEPT !.pc = pc, !.seen = row[job[j].target]]
  <2>1. new.pc = pc /\ new.target = job[j].target BY <1>1 DEF JobState
  <2>2. job' = [job EXCEPT ![j] = new] BY <1>5 DEF JobSees
  <2> HIDE DEF new
  <2> QED BY <1>2, <1>5, <2>1, <2>2, JobStays
<1>6. ASSUME NEW pc \in {"stopped", "raised"}, Recovers(j, pc), row'[t].status = "cancelled"
      PROVE  Stays(t)
  <2> DEFINE new == [IdleJob EXCEPT !.pc = pc, !.target = job[j].target]
  <2>1. new.pc = pc BY IdleTyped DEF JobState
  <2>2. job' = [job EXCEPT ![j] = new] BY <1>6 DEF Recovers
  <2> HIDE DEF new
  <2> QED BY <1>2, <1>6, <2>1, <2>2, JobStays
<1>7. ASSUME NEW s \in Status, s # "absent", WriteStatus(job[j].target, job[j].seen, s),
             job[j].target = t => s = "cancelled"
      PROVE  row'[t].status = "cancelled"
  BY <1>1, <1>7, WriteTyped
<1>8. CASE Claim(j)
  BY <1>3, <1>5, <1>8 DEF Claim, StatusOf
<1>9. CASE CommitProcessing(j)
  BY <1>1, <1>4, <1>7, <1>9 DEF CommitProcessing
<1>10. CASE Embedded(j)
  BY <1>4, <1>10 DEF Embedded
<1>11. CASE Stop(j)
  BY <1>6, <1>11 DEF Stop
<1>12. CASE EmbedFails(j)
  BY <1>6, <1>12 DEF EmbedFails
<1>13. CASE Recheck(j)
  BY <1>4, <1>13 DEF Recheck
<1>14. CASE Insert(j)
  <2> DEFINE c == FirstOf(job[j].todo)
             new == [job[j] EXCEPT !.pc = "embed", !.created = TRUE,
                                   !.todo = job[j].todo \ {c}]
  <2>1. new.pc = "embed" BY <1>1 DEF JobState
  <2>2. UNCHANGED row /\ (job' = [job EXCEPT ![j] = new] \/ Recovers(j, "raised"))
    BY <1>14 DEF Insert
  <2> HIDE DEF new
  <2> QED BY <1>2, <1>6, <2>1, <2>2, JobStays
<1>15. CASE Finish(j)
  BY <1>5, <1>15 DEF Finish, Cancelled, StatusOf
<1>16. CASE MarkDocument(j)
  <2>1. t # "document" BY <1>1, <1>16 DEF MarkDocument
  <2>2. row'[t] = row[t] BY <1>1, <1>16, <2>1 DEF MarkDocument, RowOK
  <2> QED BY <1>3, <1>16, <2>2 DEF MarkDocument
<1>17. CASE MarkProjectDocuments(j)
  <2>1. t = "document" BY <1>1, <1>17 DEF MarkProjectDocuments
  <2>2. job[j].pc = "current" BY <1>17 DEF MarkProjectDocuments
  <2>3. job'[j].pc = "synced"
    BY <1>1, <1>17, GoesTyped DEF MarkProjectDocuments
  <2> QED BY <2>1, <2>2, <2>3
<1>18. CASE MarkProject(j)
  <2>1. job[j].target # t /\ job[j].target = "project"
    BY <1>1, <1>18 DEF MarkProject, SeenOK
  <2> QED BY <1>3, <1>7, <1>18, <2>1 DEF MarkProject
<1>19. CASE RecoverStopped(j)
  BY <1>5, <1>19 DEF RecoverStopped
<1>20. CASE CommitCancelled(j)
  BY <1>3, <1>7, <1>20 DEF CommitCancelled
<1>21. CASE Recover(j)
  BY <1>3, <1>5, <1>21 DEF Recover, Cancelled, StatusOf
<1>22. CASE CommitFailed(j)
  BY <1>1, <1>3, <1>7, <1>22 DEF CommitFailed
<1>23. CASE JobRowGone(j)
  BY <1>3, <1>23 DEF JobRowGone
<1>24. ASSUME NEW p \in Providers, Select(j, p) PROVE Stays(t)
  <2> DEFINE left == {c \in Present : <<c, p>> \notin vectors'}
             new == [job[j] EXCEPT !.pc = "embed", !.seen = NoRow, !.provider = p,
                                   !.todo = left]
  <2>1. UNCHANGED row /\ job' = [job EXCEPT ![j] = new] BY <1>24 DEF Select
  <2> HIDE DEF left
  <2>2. new.pc = "embed" BY <1>1 DEF JobState
  <2> HIDE DEF new
  <2> QED BY <1>2, <2>1, <2>2, JobStays
<1>25. ASSUME NEW p \in Providers, Embed(j, p) PROVE Stays(t)
  <2> DEFINE new == [job[j] EXCEPT !.pc = "recheck", !.provider = p]
  <2>1. new.pc = "recheck" BY <1>1 DEF JobState
  <2>2. UNCHANGED row /\ (job' = [job EXCEPT ![j] = new] \/ Recovers(j, "raised"))
    BY <1>25 DEF Embed
  <2> HIDE DEF new
  <2> QED BY <1>2, <1>6, <2>1, <2>2, JobStays
<1> QED BY <1>8, <1>9, <1>10, <1>11, <1>12, <1>13, <1>14, <1>15, <1>16, <1>17, <1>18,
           <1>19, <1>20, <1>21, <1>22, <1>23, <1>24, <1>25 DEF JobStep

\* No job that is late, still embedding, finishing or failing takes a cancel
\* back: a CANCELLED target nobody is about to overwrite stays so until a user
\* asks again or deletes it, or a sync of the whole project completes.
THEOREM CancelsAreFinal == Spec => CancelledIsStable
<1> DEFINE Allowed(t) ==
      \/ row'[t].status = "cancelled" /\ Quiet(t)'
      \/ row'[t].status = "absent"
      \/ \E q \in Requests : req[q].target = t /\ req'[q].pc = "schedule"
                               /\ req[q].pc # "schedule"
      \/ t = "document" /\ \E j \in Jobs : job[j].pc = "current"
                                             /\ job'[j].pc = "synced"
<1>1. ASSUME IInv, [Next]_vars, NEW t \in Targets, row[t].status = "cancelled", Quiet(t)
      PROVE  Allowed(t)
  <2>1. CASE UNCHANGED vars BY <1>1, <2>1 DEF vars, Quiet
  <2>2. ASSUME NEW q \in Requests, RequestStep(q) PROVE Allowed(t)
    BY <1>1, <2>2, RequestRespects DEF Stays, Asked
  <2>3. ASSUME NEW q \in Requests, NEW op \in Ops, NEW u \in Targets, Read(q, op, u)
        PROVE  Allowed(t)
    <3> DEFINE new == [pc |-> op, target |-> u, seen |-> row[u],
                       force |-> op \in {"rebuild", "retry"}]
    <3>1. req' = [req EXCEPT ![q] = new] /\ UNCHANGED <<row, job>>
      BY <2>3 DEF Read
    <3>2. new.target = u /\ new.seen = row[u] OBVIOUS
    <3> HIDE DEF new
    <3>3. req'[q] = new /\ \A p \in Requests : p # q => req'[p] = req[p]
      BY <1>1, <3>1 DEF IInv, TypeOK
    <3>4. ASSUME NEW p \in Requests
          PROVE  ~ /\ req'[p].target = t /\ req'[p].pc = "cancel"
                   /\ req'[p].seen.status \in Active
      <4>1. CASE p = q BY <1>1, <3>2, <3>3, <4>1
      <4>2. CASE p # q BY <1>1, <3>3, <4>2 DEF Quiet
      <4> QED BY <4>1, <4>2
    <3> QED BY <1>1, <3>1, <3>4 DEF Quiet
  <2>4. ASSUME NEW u \in Targets, Delete(u) PROVE Allowed(t)
    <3>1. /\ UNCHANGED <<req, job>>
          /\ row'[t] = IF t \in {u, "document"} THEN [row[t] EXCEPT !.status = "absent"]
                                                ELSE row[t]
      BY <2>4 DEF Delete
    <3>2. row[t] \in Row BY <1>1 DEF IInv, TypeOK
    <3>3. row'[t].status = "absent" \/ row'[t] = row[t] BY <3>1, <3>2
    <3> QED BY <1>1, <3>1, <3>3 DEF Quiet
  <2>5. ASSUME NEW j \in Jobs, JobStep(j) PROVE Allowed(t)
    BY <1>1, <2>5, JobRespects DEF Stays
  <2>6. ASSUME NEW j \in Jobs, BeginFails(j) PROVE Allowed(t)
    <3>1. UNCHANGED <<row, req>> /\ job' = [job EXCEPT ![j] = IdleJob]
      BY <2>6 DEF BeginFails, EndJob
    <3>2. Stays(t) BY <1>1, <3>1, IdleTyped, JobStays
    <3> QED BY <3>2 DEF Stays
  <2>7. CASE ApiRestart
    BY <1>1, <2>7, IdleTyped DEF ApiRestart, Quiet
  <2> QED BY <1>1, <2>1, <2>2, <2>3, <2>4, <2>5, <2>6, <2>7 DEF Next
<1>2. IInv /\ [Next]_vars => [\A t \in Targets : row[t].status = "cancelled" /\ Quiet(t)
                                 => Allowed(t)]_vars
  BY <1>1
<1> QED BY <1>2, Invariance, PTL DEF Spec, CancelledIsStable


-----------------------------------------------------------------------------
(* Whole documents *)

Whole == Present \X {First} \subseteq vectors

\* What one job at a time, with one provider, knows of its document: a forced
\* rebuild deletes vectors only of a document that is not shown COMPLETED, and
\* each chunk has its vector already or is still to be embedded.
JobWhole(j) ==
    /\ job[j].force => job[j].target = "document"
    /\ job[j].pc = "select" /\ job[j].force => row["document"].status # "completed"
    /\ job[j].pc \in {"embed", "recheck", "insert", "finish", "current", "synced"} =>
          /\ job[j].provider = First
          /\ \A c \in Present : <<c, First>> \in vectors \/ c \in job[j].todo
    /\ job[j].pc \in {"finish", "current", "synced"} => job[j].todo = {}

DocWhole == /\ row["document"].provider = First
            /\ row["document"].status = "completed" => Whole

\* Only a document is embedded anew whatever vectors it has.
ForceOK == \A q \in Requests : req[q].force => req[q].target = "document"

WholeInv == DocWhole /\ ForceOK /\ \A j \in Jobs : JobWhole(j)

Alone == Providers = {First} /\ \A i, j \in Jobs : i = j

\* A status other than COMPLETED is written.
LEMMA StatusWritten ==
  ASSUME RowOK, DocWhole, NEW t \in Targets, NEW seen \in Row, NEW s \in Status,
         s \notin {"absent", "completed"}, WriteStatus(t, seen, s), vectors \subseteq vectors'
  PROVE  /\ DocWhole' /\ Present' = Present
         /\ row'["document"].status = "completed" => row["document"].status = "completed"
<1>1. /\ RowOK' /\ \A u \in Targets : Exists(u)' <=> Exists(u)
      /\ \A u \in Targets : u # t => row'[u] = row[u]
      /\ row'[t].status \in {row[t].status, s}
  BY WriteTyped
<1>2. Present' = Present BY <1>1 DEF Present
<1>3. row'["document"].status \in {row["document"].status, s}
  BY <1>1
<1>4. row'["document"].provider = row["document"].provider
  <2>1. CASE t # "document" BY <1>1, <2>1
  <2>2. CASE t = "document"
    <3> DEFINE new == [seen EXCEPT !.status = s]
    <3>1. new.provider = seen.provider OBVIOUS
    <3>2. row' = [row EXCEPT !["document"] = Merged("document", seen, new)]
      BY <2>2 DEF WriteStatus
    <3>3. "provider" \in DOMAIN row["document"] BY DEF RowOK
    <3>4. Merged("document", seen, new).provider = row["document"].provider
      <4> HIDE DEF new
      <4> QED BY <3>1, <3>3 DEF Merged
    <3> HIDE DEF new
    <3> QED BY <3>2, <3>4 DEF RowOK
  <2> QED BY <2>1, <2>2
<1> QED BY <1>2, <1>3, <1>4 DEF DocWhole, Whole

\* A handler: what a job knows stays true.
LEMMA RequestWhole ==
  ASSUME IInv, WholeInv, NEW q \in Requests, RequestStep(q)
  PROVE  WholeInv'
<1>1. /\ RowOK /\ ReqOK /\ JobOK /\ DocWhole /\ ForceOK
      /\ req[q] \in ReqState /\ req[q].seen \in Row /\ req[q].target \in Targets
      /\ DOMAIN req = Requests /\ DOMAIN job = Jobs
  BY DEF IInv, TypeOK, RowOK, ReqOK, JobOK, ReqState, WholeInv
<1>2. ASSUME NEW s, req' = [req EXCEPT ![q] = s], s.force => s.target = "document"
      PROVE  ForceOK'
  BY <1>1, <1>2 DEF ForceOK
<1>3. ASSUME EndReq(q) PROVE ForceOK'
  <2>1. ~IdleReq.force BY DEF IdleReq
  <2> QED BY <1>2, <1>3, <2>1 DEF EndReq
<1>4. ASSUME NEW pc, ReqGoes(q, pc) PROVE ForceOK'
  <2> DEFINE s == [req[q] EXCEPT !.pc = pc, !.seen = NoRow]
  <2>1. s.force = req[q].force /\ s.target = req[q].target BY <1>1 DEF ReqState
  <2>2. req' = [req EXCEPT ![q] = s] BY <1>4 DEF ReqGoes
  <2> HIDE DEF s
  <2> QED BY <1>1, <1>2, <2>1, <2>2 DEF ForceOK
<1>5. CASE NothingToDo(q) \/ RequestRowGone(q)
  <2>1. EndReq(q) /\ UNCHANGED <<row, vectors, job>>
    BY <1>5 DEF NothingToDo, RequestRowGone
  <2> QED BY <1>3, <2>1 DEF WholeInv, DocWhole, Whole, JobWhole, Present, Exists
<1>6. ASSUME NEW s \in {"queued", "cancelling", "cancelled"},
             WriteStatus(req[q].target, req[q].seen, s), ForceOK', UNCHANGED <<vectors, job>>
      PROVE  WholeInv'
  <2>1. /\ DocWhole' /\ Present' = Present
        /\ row'["document"].status = "completed" => row["document"].status = "completed"
    BY <1>1, <1>6, StatusWritten
  <2> QED BY <1>6, <2>1 DEF WholeInv, JobWhole
<1>7. CASE Queue(q) \/ MarkCancelling(q) \/ MarkCancelled(q)
  BY <1>3, <1>4, <1>6, <1>7 DEF Queue, MarkCancelling, MarkCancelled
<1>8. CASE Revoke(q)
  <2> DEFINE s == [req[q] EXCEPT !.pc = "cancelled", !.seen = row[req[q].target]]
  <2>1. s.force = req[q].force /\ s.target = req[q].target BY <1>1 DEF ReqState
  <2>2. req' = [req EXCEPT ![q] = s] /\ UNCHANGED <<row, vectors, job>>
    BY <1>8 DEF Revoke
  <2> HIDE DEF s
  <2>3. ForceOK' BY <1>1, <1>2, <2>1, <2>2 DEF ForceOK
  <2> QED BY <2>2, <2>3 DEF WholeInv, DocWhole, Whole, JobWhole, Present, Exists
<1>9. ASSUME NEW j \in Jobs, Schedule(q, j) PROVE WholeInv'
  <2> DEFINE s == [IdleJob EXCEPT !.pc = "begin", !.target = req[q].target,
                                  !.force = req[q].force]
  <2>1. s.pc = "begin" /\ s.target = req[q].target /\ s.force = req[q].force
    BY DEF IdleJob
  <2>2. job' = [job EXCEPT ![j] = s] /\ EndReq(q) /\ UNCHANGED <<row, vectors>>
    BY <1>9 DEF Schedule
  <2> HIDE DEF s
  <2>3. \A i \in Jobs : JobWhole(i)'
    <3> SUFFICES ASSUME NEW i \in Jobs PROVE JobWhole(i)' OBVIOUS
    <3>1. CASE i = j
      BY <1>1, <2>1, <2>2, <3>1 DEF JobWhole, ForceOK
    <3>2. CASE i # j
      BY <1>1, <2>2, <3>2 DEF WholeInv, JobWhole, Present, Exists
    <3> QED BY <3>1, <3>2
  <2> QED BY <1>3, <2>2, <2>3 DEF WholeInv, DocWhole, Whole, Present, Exists
<1> QED BY <1>5, <1>7, <1>8, <1>9 DEF RequestStep

\* The only job keeps the invariant when it knows what it should.
LEMMA OnlyJob ==
  ASSUME WholeInv, Alone, NEW j \in Jobs, UNCHANGED req, DocWhole', JobWhole(j)'
  PROVE  WholeInv'
  BY DEF WholeInv, Alone, ForceOK

\* It knows nothing before it has selected chunks, and when it recovers.
LEMMA JobKnowsNothing ==
  ASSUME JobOK, NEW j \in Jobs, NEW s, job' = [job EXCEPT ![j] = s],
         s.force => s.target = "document",
         s.pc \in {"idle", "begin", "claim", "cancelled", "stopped", "raised", "failed"}
  PROVE  JobWhole(j)'
<1>1. job'[j] = s BY DEF JobOK
<1> QED BY <1>1 DEF JobWhole

LEMMA JobKeepsWhole ==
  ASSUME IInv, WholeInv, Alone, NEW j \in Jobs, JobStep(j)
  PROVE  WholeInv'
<1>1. /\ RowOK /\ JobOK /\ SeenOK /\ job[j] \in JobState /\ DOMAIN job = Jobs
      /\ job[j].target \in Targets /\ job[j].seen \in Row /\ job[j].todo \subseteq Chunks
      /\ DocWhole /\ JobWhole(j) /\ Providers = {First}
  BY DEF IInv, TypeOK, RowOK, JobOK, JobState, WholeInv, Alone
<1>2. UNCHANGED req
  BY DEF JobStep, Claim, CommitProcessing, Embedded, Stop, EmbedFails, Recheck, Insert,
         Finish, MarkDocument, MarkProjectDocuments, MarkProject, RecoverStopped,
         CommitCancelled, Recover, CommitFailed, JobRowGone, Select, Embed
<1>3. ASSUME EndJob(j) PROVE JobWhole(j)'
  <2>1. IdleJob.pc = "idle" /\ ~IdleJob.force BY DEF IdleJob
  <2> QED BY <1>1, <1>3, <2>1, JobKnowsNothing DEF EndJob
<1>4. ASSUME NEW pc \in {"stopped", "raised"}, Recovers(j, pc) PROVE JobWhole(j)'
  <2> DEFINE s == [IdleJob EXCEPT !.pc = pc, !.target = job[j].target]
  <2>1. s.pc = pc /\ ~s.force BY DEF IdleJob
  <2>2. job' = [job EXCEPT ![j] = s] BY <1>4 DEF Recovers
  <2> HIDE DEF s
  <2> QED BY <1>1, <2>1, <2>2, JobKnowsNothing
\* The row and the vectors are left alone, or a job's end is written.
<1>5. ASSUME UNCHANGED <<row, vectors>>, JobWhole(j)' PROVE WholeInv'
  <2>1. DocWhole' BY <1>1, <1>5 DEF DocWhole, Whole, Present, Exists
  <2> QED BY <1>2, <1>5, <2>1, OnlyJob
<1>6. ASSUME NEW pc \in {"claim", "cancelled", "failed", "current"}, JobSees(j, pc),
             UNCHANGED <<row, vectors>>, pc = "current" => job[j].pc = "finish"
      PROVE  WholeInv'
  <2> DEFINE s == [job[j] EXCEPT !.pc = pc, !.seen = row[job[j].target]]
  <2>1. /\ s.pc = pc /\ s.target = job[j].target /\ s.force = job[j].force
        /\ s.provider = job[j].provider /\ s.todo = job[j].todo
    BY <1>1 DEF JobState
  <2>2. job' = [job EXCEPT ![j] = s] BY <1>6 DEF JobSees
  <2> HIDE DEF s
  <2>3. job'[j] = s BY <1>1, <2>2
  <2>4. JobWhole(j)' BY <1>1, <1>6, <2>1, <2>3 DEF JobWhole, Present, Exists
  <2> QED BY <1>5, <1>6, <2>4
<1>7. ASSUME NEW pc, JobGoes(j, pc)
      PROVE  /\ job'[j].pc = pc /\ job'[j].target = job[j].target
             /\ job'[j].force = job[j].force /\ job'[j].provider = job[j].provider
             /\ job'[j].todo = job[j].todo
  <2> DEFINE s == [job[j] EXCEPT !.pc = pc]
  <2>1. /\ s.pc = pc /\ s.target = job[j].target /\ s.force = job[j].force
        /\ s.provider = job[j].provider /\ s.todo = job[j].todo
    BY <1>1 DEF JobState
  <2>2. job' = [job EXCEPT ![j] = s] BY <1>7 DEF JobGoes
  <2> HIDE DEF s
  <2> QED BY <1>1, <2>1, <2>2
<1>8. ASSUME NEW s \in {"cancelled", "failed"}, WriteStatus(job[j].target, job[j].seen, s),
             EndJob(j), UNCHANGED vectors
      PROVE  WholeInv'
  BY <1>1, <1>2, <1>3, <1>8, StatusWritten, OnlyJob
<1>9. CASE Claim(j)
  BY <1>3, <1>5, <1>6, <1>9 DEF Claim
<1>10. CASE CommitProcessing(j)
  <2>1. /\ job[j].pc = "claim" /\ WriteStatus(job[j].target, job[j].seen, "processing")
        /\ JobGoes(j, "select") /\ UNCHANGED vectors
    BY <1>10 DEF CommitProcessing
  <2>2. DocWhole' BY <1>1, <2>1, StatusWritten
  <2>3. row'[job[j].target].status = "processing"
    BY <1>1, <2>1, WriteTyped DEF SeenOK
  <2>4. JobWhole(j)' BY <1>1, <1>7, <2>1, <2>3 DEF JobWhole
  <2> QED BY <1>2, <2>2, <2>4, OnlyJob
<1>11. CASE Embedded(j)
  <2>1. JobWhole(j)' BY <1>1, <1>7, <1>11 DEF Embedded, JobWhole, Present, Exists
  <2> QED BY <1>5, <1>11, <2>1 DEF Embedded
<1>12. CASE Stop(j) \/ EmbedFails(j)
  BY <1>4, <1>5, <1>12 DEF Stop, EmbedFails
<1>13. CASE Recheck(j)
  <2>1. JobWhole(j)' BY <1>1, <1>7, <1>13 DEF Recheck, JobWhole, Present, Exists
  <2> QED BY <1>5, <1>13, <2>1 DEF Recheck
<1>14. CASE Insert(j)
  <2> DEFINE c == FirstOf(job[j].todo)
             v == <<c, job[j].provider>>
             s == [job[j] EXCEPT !.pc = "embed", !.created = TRUE,
                                 !.todo = job[j].todo \ {c}]
  <2>1. CASE c \in Present /\ v \notin vectors
    <3>1. /\ job' = [job EXCEPT ![j] = s] /\ vectors' = vectors \cup {v}
          /\ UNCHANGED row /\ job[j].pc = "insert"
      BY <1>14, <2>1 DEF Insert
    <3>2. /\ s.pc = "embed" /\ s.target = job[j].target /\ s.force = job[j].force
          /\ s.provider = job[j].provider /\ s.todo = job[j].todo \ {c}
      BY <1>1 DEF JobState
    <3> HIDE DEF s, c
    <3>3. job'[j] = s BY <1>1, <3>1
    <3>4. JobWhole(j)' BY <1>1, <3>1, <3>2, <3>3 DEF JobWhole, Present, Exists
    <3>5. DocWhole' BY <1>1, <3>1 DEF DocWhole, Whole, Present, Exists
    <3> QED BY <1>2, <3>4, <3>5, OnlyJob
  <2>2. CASE ~(c \in Present /\ v \notin vectors)
    BY <1>4, <1>5, <1>14, <2>2 DEF Insert
  <2> QED BY <2>1, <2>2
<1>15. CASE Finish(j)
  BY <1>6, <1>15 DEF Finish
\* What is marked COMPLETED has a vector for each chunk.
<1>16. job[j].pc = "current" => Whole /\ Done(job[j].provider) = Done(First)
  BY <1>1 DEF JobWhole, Whole
<1>17. CASE MarkDocument(j)
  <2> DEFINE m == Merged("document", job[j].seen, Done(First))
  <2>1. /\ row' = [row EXCEPT !["document"] = m] /\ Whole
        /\ EndJob(j) /\ UNCHANGED vectors /\ Exists("document")
    BY <1>16, <1>17 DEF MarkDocument
  <2>2. m.provider = First /\ m.status # "absent"
    <3>1. /\ DOMAIN row["document"] = {"status", "provider"}
          /\ Done(First).provider = First /\ Done(First).status = "completed"
      BY <1>1 DEF RowOK, Done
    <3>2. row["document"].provider = First BY <1>1 DEF DocWhole
    <3> QED BY <2>1, <3>1, <3>2 DEF Merged, Exists
  <2> HIDE DEF m
  <2>3. row'["document"] = m BY <1>1, <2>1 DEF RowOK
  <2>4. Present' = Present BY <2>1, <2>2, <2>3 DEF Present, Exists
  <2>5. DocWhole' BY <2>1, <2>2, <2>3, <2>4 DEF DocWhole, Whole
  <2> QED BY <1>2, <1>3, <2>1, <2>5, OnlyJob
<1>18. CASE MarkProjectDocuments(j)
  <2>1. /\ Whole /\ JobGoes(j, "synced") /\ UNCHANGED vectors /\ job[j].pc = "current"
        /\ row' = IF Present # {} THEN [row EXCEPT !["document"] = Done(First)] ELSE row
    BY <1>16, <1>18 DEF MarkProjectDocuments
  <2>2. Done(First).provider = First /\ Done(First).status = "completed" BY DEF Done
  <2>3. Present' = Present /\ DocWhole'
    <3>1. CASE Present # {}
      <4>1. row'["document"] = Done(First) BY <1>1, <2>1, <3>1 DEF RowOK
      <4>2. Present' = Present BY <2>2, <3>1, <4>1 DEF Present, Exists
      <4> QED BY <2>1, <2>2, <4>1, <4>2 DEF DocWhole, Whole
    <3>2. CASE Present = {}
      BY <1>1, <2>1, <3>2 DEF DocWhole, Whole, Present, Exists
    <3> QED BY <3>1, <3>2
  <2>4. JobWhole(j)' BY <1>1, <1>7, <2>1, <2>3 DEF JobWhole
  <2> QED BY <1>2, <2>3, <2>4, OnlyJob
<1>19. CASE MarkProject(j)
  <2>1. /\ WriteStatus("project", job[j].seen, "completed") /\ EndJob(j) /\ UNCHANGED vectors
    BY <1>19 DEF MarkProject
  <2>2. row'["document"] = row["document"] BY <1>1, <2>1, WriteTyped
  <2>3. DocWhole' BY <1>1, <2>1, <2>2 DEF DocWhole, Whole, Present, Exists
  <2> QED BY <1>2, <1>3, <2>1, <2>3, OnlyJob
<1>20. CASE RecoverStopped(j)
  BY <1>6, <1>20 DEF RecoverStopped
<1>21. CASE CommitCancelled(j) \/ CommitFailed(j)
  BY <1>8, <1>21 DEF CommitCancelled, CommitFailed
<1>22. CASE Recover(j)
  BY <1>3, <1>5, <1>6, <1>22 DEF Recover
<1>23. CASE JobRowGone(j)
  BY <1>3, <1>5, <1>23 DEF JobRowGone
<1>24. ASSUME NEW p \in Providers, Select(j, p) PROVE WholeInv'
  <2> DEFINE left == {c \in Present : <<c, p>> \notin vectors'}
             s == [job[j] EXCEPT !.pc = "embed", !.seen = NoRow, !.provider = p,
                                 !.todo = left]
  <2>1. /\ job' = [job EXCEPT ![j] = s] /\ UNCHANGED row /\ job[j].pc = "select"
        /\ vectors' = IF job[j].force THEN vectors \ (Chunks \X {p}) ELSE vectors
    BY <1>24 DEF Select
  <2>2. p = First BY <1>1
  <2> HIDE DEF left
  <2>3. /\ s.pc = "embed" /\ s.target = job[j].target /\ s.force = job[j].force
        /\ s.provider = p /\ s.todo = left
    BY <1>1 DEF JobState
  <2> HIDE DEF s
  <2>4. job'[j] = s BY <1>1, <2>1
  <2>5. Present' = Present BY <2>1 DEF Present, Exists
  <2>6. JobWhole(j)'
    BY <1>1, <2>1, <2>2, <2>3, <2>4, <2>5 DEF JobWhole, left
  <2>7. DocWhole' BY <1>1, <2>1, <2>5 DEF DocWhole, Whole, JobWhole
  <2> QED BY <1>2, <2>6, <2>7, OnlyJob
<1>25. ASSUME NEW p \in Providers, Embed(j, p) PROVE WholeInv'
  <2> DEFINE s == [job[j] EXCEPT !.pc = "recheck", !.provider = p]
  <2>1. /\ UNCHANGED <<row, vectors>> /\ job[j].pc = "embed"
        /\ job' = [job EXCEPT ![j] = s] \/ Recovers(j, "raised")
    BY <1>25 DEF Embed
  <2>2. /\ s.pc = "recheck" /\ s.target = job[j].target /\ s.force = job[j].force
        /\ s.provider = First /\ s.todo = job[j].todo
    BY <1>1 DEF JobState
  <2> HIDE DEF s
  <2>3. CASE job' = [job EXCEPT ![j] = s]
    <3>1. job'[j] = s BY <1>1, <2>3
    <3>2. JobWhole(j)' BY <1>1, <2>1, <2>2, <3>1 DEF JobWhole, Present, Exists
    <3> QED BY <1>5, <2>1, <3>2
  <2>4. CASE Recovers(j, "raised")
    BY <1>4, <1>5, <2>1, <2>4
  <2> QED BY <2>1, <2>3, <2>4
<1> QED BY <1>9, <1>10, <1>11, <1>12, <1>13, <1>14, <1>15, <1>17, <1>18, <1>19, <1>20,
           <1>21, <1>22, <1>23, <1>24, <1>25 DEF JobStep

\* Where a rebuild can lose vectors of a document that is shown COMPLETED: with
\* one provider and never two jobs at one time it cannot, whatever is cancelled,
\* resumed, deleted, restarted or fails.  With a second provider, or a second
\* job, the property is refuted.
THEOREM WholeAlone ==
  ASSUME Providers = {First}, \A i, j \in Jobs : i = j
  PROVE  Spec => []CompletedIsWhole
<1>0. Alone BY DEF Alone
<1>1. Init => WholeInv
  <2> SUFFICES ASSUME Init PROVE WholeInv OBVIOUS
  <2>1. row["document"] = Done(First) /\ vectors = Chunks \X {First}
    BY DEF Init
  <2>2. DocWhole BY <2>1 DEF DocWhole, Whole, Present, Done
  <2>3. ForceOK BY DEF Init, ForceOK, IdleReq
  <2>4. \A j \in Jobs : JobWhole(j)
    <3>1. \A j \in Jobs : job[j].pc = "idle" /\ ~job[j].force BY DEF Init, IdleJob
    <3> QED BY <3>1 DEF JobWhole
  <2> QED BY <2>2, <2>3, <2>4 DEF WholeInv
<1>2. IInv /\ WholeInv /\ [Next]_vars => WholeInv'
  <2> SUFFICES ASSUME IInv, WholeInv, [Next]_vars PROVE WholeInv' OBVIOUS
  <2>1. CASE UNCHANGED vars
    BY <2>1 DEF vars, WholeInv, DocWhole, ForceOK, JobWhole, Whole, Present, Exists
  <2>2. ASSUME NEW q \in Requests, RequestStep(q) PROVE WholeInv'
    BY <2>2, RequestWhole
  <2>3. ASSUME NEW q \in Requests, NEW op \in Ops, NEW t \in Targets, Read(q, op, t)
        PROVE  WholeInv'
    <3> DEFINE s == [pc |-> op, target |-> t, seen |-> row[t],
                     force |-> op \in {"rebuild", "retry"}]
    <3>1. req' = [req EXCEPT ![q] = s] /\ UNCHANGED <<row, vectors, job>>
      BY <2>3 DEF Read
    <3>2. s.force => s.target = "document" BY <2>3 DEF Read, TargetsOf
    <3> HIDE DEF s
    <3>3. ForceOK' BY <3>1, <3>2 DEF IInv, TypeOK, WholeInv, ForceOK
    <3> QED BY <3>1, <3>3 DEF WholeInv, DocWhole, JobWhole, Whole, Present, Exists
  <2>4. ASSUME NEW t \in Targets, Delete(t) PROVE WholeInv'
    <3>1. UNCHANGED <<req, job>> /\ row'["document"] = [row["document"] EXCEPT !.status = "absent"]
      BY <2>4 DEF Delete
    <3>2. /\ row'["document"].status = "absent"
          /\ row'["document"].provider = row["document"].provider
      BY <3>1 DEF IInv, TypeOK
    <3>3. Present' = {} BY <3>2 DEF Present, Exists
    <3> QED BY <3>1, <3>2, <3>3 DEF WholeInv, DocWhole, ForceOK, JobWhole, Whole
  <2>5. ASSUME NEW j \in Jobs, JobStep(j) PROVE WholeInv'
    BY <1>0, <2>5, JobKeepsWhole
  <2>6. ASSUME NEW j \in Jobs, BeginFails(j) PROVE WholeInv'
    <3>1. UNCHANGED <<row, vectors, req>> /\ job' = [job EXCEPT ![j] = IdleJob]
      BY <2>6 DEF BeginFails, EndJob
    <3>2. IdleJob.pc = "idle" /\ ~IdleJob.force BY DEF IdleJob
    <3>3. JobWhole(j)' BY <3>1, <3>2, JobKnowsNothing DEF IInv, TypeOK, JobOK
    <3>4. DocWhole' BY <3>1 DEF WholeInv, DocWhole, Whole, Present, Exists
    <3> QED BY <1>0, <3>1, <3>3, <3>4, OnlyJob
  <2>7. CASE ApiRestart
    <3>1. /\ UNCHANGED <<row, vectors>>
          /\ req' = [q \in Requests |-> IdleReq] /\ job' = [j \in Jobs |-> IdleJob]
      BY <2>7 DEF ApiRestart
    <3>2. ForceOK' BY <3>1 DEF ForceOK, IdleReq
    <3>3. \A j \in Jobs : job'[j].pc = "idle" /\ ~job'[j].force BY <3>1 DEF IdleJob
    <3>4. DocWhole' BY <3>1 DEF WholeInv, DocWhole, Whole, Present, Exists
    <3> QED BY <3>2, <3>3, <3>4 DEF WholeInv, JobWhole
  <2> QED BY <2>1, <2>2, <2>3, <2>4, <2>5, <2>6, <2>7 DEF Next
<1>3. WholeInv => CompletedIsWhole
  BY DEF WholeInv, DocWhole, Whole, CompletedIsWhole
<1> QED BY <1>1, <1>2, <1>3, Invariance, PTL DEF Spec

=============================================================================
