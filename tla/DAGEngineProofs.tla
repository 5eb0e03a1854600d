--------------------------- MODULE DAGEngineProofs ---------------------------
(***************************************************************************)
(* Theorems about DAGEngine, for every set of steps, every value of        *)
(* depends_on, any number of sessions, overlapping or not.                 *)
(***************************************************************************)
EXTENDS DAGEngine, TLAPS

\* A session at work has validated the graph, and its wave waits for nothing;
\* one that has not begun has settled nothing, one that returns joins what it
\* has of the terminal steps.
WorkIsValid ==
    \A s \in Sessions :
        /\ ses[s].pc \in Working =>
              /\ Valid
              /\ \A x \in ses[s].wave : deps[x] \subseteq ses[s].completed
        /\ ses[s].pc = "new" => ses[s].completed = {}
        /\ ses[s].pc = "returned" => ses[s].joined = Terminal \cap ses[s].outputs

IInv == TypeOK /\ NoStepLost /\ NeverDeadlocks /\ WorkIsValid

LEMMA DepsTyped == ASSUME TypeOK PROVE deps \in [Steps -> SUBSET (Steps \cup Missing)]
  BY EngineAssumption DEF TypeOK

\* A valid graph gives every nonempty set of unsettled steps one that can
\* go: otherwise the set would be a cycle.
LEMMA SomeStepEligible ==
  ASSUME TypeOK, Valid, NEW s \in Sessions, ses[s].pending # {},
         Steps = ses[s].pending \cup ses[s].completed
  PROVE  Eligible(s) # {}
<1> DEFINE P == ses[s].pending
<1>1. P \in (SUBSET DOMAIN deps) \ {{}}
  BY DepsTyped DEF TypeOK, SessionState
<1>2. SUFFICES ASSUME Eligible(s) = {} PROVE FALSE
  OBVIOUS
<1>3. \A x \in P : deps[x] \cap P # {}
  <2> SUFFICES ASSUME NEW x \in P, deps[x] \cap P = {} PROVE FALSE
    OBVIOUS
  <2>1. x \in Steps /\ deps[x] \subseteq Steps
    BY <1>1, DepsTyped DEF Valid, DependenciesExist
  <2>2. deps[x] \subseteq ses[s].completed
    BY <2>1
  <2> QED BY <2>2, <1>2 DEF Eligible
<1>4. HasCycle(deps)
  BY <1>1, <1>3 DEF HasCycle
<1> QED BY <1>4 DEF Valid

\* What one session's step has to establish.
SessionOK(r) ==
    /\ r \in SessionState
    /\ r.ok \subseteq r.wave /\ r.todo \subseteq r.wave /\ r.said \subseteq r.ok
    /\ r.pc # "persist" => r.todo = {}
    /\ r.pc \notin {"persist", "process"} => r.ok = {}
    /\ r.pending \cap (r.wave \cup r.completed) = {}
    /\ r.pc \in Working \cup {"returned"} =>
         /\ Steps = r.pending \cup r.wave \cup r.completed
         /\ r.pc \in {"loop", "returned"} => r.wave = {}
         /\ r.pc = "returned" => r.completed = Steps
    /\ r.pc # "deadlock"
    /\ r.pc \in Working => /\ Valid
                           /\ \A x \in r.wave : deps[x] \subseteq r.completed
    /\ r.pc = "new" => r.completed = {}
    /\ r.pc = "returned" => r.joined = Terminal \cap r.outputs

LEMMA IInvBySession ==
  IInv <=> /\ deps \in Graphs /\ rows \subseteq Row
           /\ flushed \in [Sessions -> SUBSET Row]
           /\ closed \in BOOLEAN /\ reopened \in BOOLEAN
           /\ ses \in [Sessions -> SessionState]
           /\ \A s \in Sessions : SessionOK(ses[s])
  BY DEF IInv, TypeOK, NoStepLost, NeverDeadlocks, WorkIsValid, SessionOK

LEMMA SessionWrite ==
  ASSUME IInv, UNCHANGED deps, NEW s \in Sessions, NEW r,
         SessionOK(r), ses' = [ses EXCEPT ![s] = r],
         rows' \subseteq Row, flushed' \in [Sessions -> SUBSET Row],
         closed' \in BOOLEAN, reopened' = reopened
  PROVE  IInv'
<1>1. ses' \in [Sessions -> SessionState]
  BY IInvBySession DEF SessionOK
<1>2. (Valid' <=> Valid) /\ Terminal' = Terminal
  BY DEF Valid, DependenciesExist, HasCycle, Terminal
<1>3. ASSUME NEW t \in Sessions PROVE SessionOK(ses[t])'
  <2>1. ses'[t] = IF t = s THEN r ELSE ses[t]
    BY IInvBySession
  <2>2. SessionOK(ses'[t])
    BY <2>1, IInvBySession
  <2> QED BY <1>2, <2>2 DEF SessionOK
<1>4. deps' \in Graphs
  BY IInvBySession
<1> QED
  BY <1>1, <1>3, <1>4 DEF IInv, TypeOK, NoStepLost, NeverDeadlocks, WorkIsValid,
     SessionOK

LEMMA RowsTyped ==
  ASSUME IInv, NEW s \in Sessions
  PROVE  /\ rows \cup flushed[s] \subseteq Row
         /\ [flushed EXCEPT ![s] = {}] \in [Sessions -> SUBSET Row]
  BY IInvBySession

LEMMA OverOK ==
  ASSUME IInv, NEW s \in Sessions, NEW pc \in {"raised", "completed", "ended"},
         ses[s].pc # "new"
  PROVE  SessionOK(Over(s, pc))
<1>1. SessionOK(ses[s])
  BY IInvBySession
<1> QED BY <1>1 DEF SessionOK, SessionState, Over, NewSession, Working

LEMMA BeginIInv ==
  ASSUME IInv, NEW s \in Sessions, NEW goOn \in Modes, Begin(s, goOn)
  PROVE  IInv'
<1> DEFINE new == IF Valid
                   THEN Resumed(s, goOn)
                   ELSE [NewSession EXCEPT !.pc = "raised", !.goOn = goOn]
<1>1. Done(s) \subseteq Steps /\ Spoken(rows) \subseteq Steps
  BY IInvBySession DEF Done, Succeeded, Spoken, Row
<1>2. goOn \in BOOLEAN
  BY EngineAssumption
<1>3. CASE Valid
  <2>1. SessionOK(new)
    BY <1>1, <1>2, <1>3 DEF SessionOK, SessionState, NewSession, Working, Resumed
  <2> QED BY <2>1, SessionWrite, IInvBySession DEF Begin
<1>4. CASE ~Valid
  <2>1. SessionOK(new)
    BY <1>2, <1>4 DEF SessionOK, SessionState, NewSession, Working
  <2> QED BY <2>1, SessionWrite, IInvBySession DEF Begin
<1> QED BY <1>3, <1>4

LEMMA ResolveIInv ==
  ASSUME IInv, NEW s \in Sessions, Resolve(s)
  PROVE  IInv'
<1>1. SessionOK(ses[s])
  BY IInvBySession
<1>2. Eligible(s) # {}
  <2>1. TypeOK /\ Valid /\ Steps = ses[s].pending \cup ses[s].completed
    BY <1>1 DEF IInv, Resolve, SessionOK, Working
  <2> QED BY <2>1, SomeStepEligible DEF Resolve
<1>3. PICK skipped \in SUBSET (Eligible(s) \cap Conditional) :
         ses' = [ses EXCEPT ![s] =
                    [@ EXCEPT !.pending = ses[s].pending \ Eligible(s),
                              !.completed = ses[s].completed \cup skipped,
                              !.wave = Eligible(s) \ skipped,
                              !.pc = CASE Eligible(s) = {} -> "deadlock"
                                       [] Eligible(s) \ skipped # {} -> "wave"
                                       [] OTHER -> "loop"]]
  BY DEF Resolve
<1> DEFINE pc == IF Eligible(s) \ skipped # {} THEN "wave" ELSE "loop"
           new == [ses[s] EXCEPT !.pending = ses[s].pending \ Eligible(s),
                                 !.completed = ses[s].completed \cup skipped,
                                 !.wave = Eligible(s) \ skipped,
                                 !.pc = pc]
<1>4. ses' = [ses EXCEPT ![s] = new]
  BY <1>2, <1>3
<1>5. ses[s].pc = "loop" /\ Eligible(s) \subseteq ses[s].pending
  BY DEF Resolve, Eligible
<1>6. \A x \in Eligible(s) : deps[x] \subseteq ses[s].completed
  BY DEF Eligible
<1>7. /\ new \in SessionState /\ new.pc = pc /\ new.wave = Eligible(s) \ skipped
      /\ new.pending = ses[s].pending \ Eligible(s)
      /\ new.completed = ses[s].completed \cup skipped
      /\ new.ok = ses[s].ok /\ new.todo = ses[s].todo
  BY <1>1, <1>5 DEF SessionOK, SessionState
<1>8. SessionOK(new)
  BY <1>1, <1>5, <1>6, <1>7 DEF SessionOK, Working
<1> QED BY <1>4, <1>8, SessionWrite, IInvBySession DEF Resolve

LEMMA RunWaveIInv ==
  ASSUME IInv, NEW s \in Sessions, RunWave(s)
  PROVE  IInv'
<1>1. SessionOK(ses[s])
  BY IInvBySession
<1>2. PICK ok, said \in SUBSET ses[s].wave :
         /\ said \subseteq ok
         /\ ses' = [ses EXCEPT ![s] = [@ EXCEPT !.pc = "persist", !.ok = ok,
                                              !.said = said,
                                              !.todo = ses[s].wave]]
  BY DEF RunWave
<1> DEFINE new == [ses[s] EXCEPT !.pc = "persist", !.ok = ok, !.said = said,
                                 !.todo = ses[s].wave]
<1>3. new \in SessionState
  BY <1>1 DEF SessionOK, SessionState
<1>4. /\ new.pc = "persist" /\ new.ok = ok /\ new.said = said
      /\ new.todo = ses[s].wave /\ new.wave = ses[s].wave
      /\ new.pending = ses[s].pending /\ new.completed = ses[s].completed
  BY <1>1 DEF SessionOK, SessionState
<1>5. ses[s].pc = "wave" /\ said \subseteq ok
  BY <1>2 DEF RunWave
<1> HIDE DEF new
<1>6. SessionOK(new)
  BY <1>1, <1>3, <1>4, <1>5 DEF SessionOK, Working
<1>7. ses' = [ses EXCEPT ![s] = new]
  BY <1>2 DEF new
<1> QED BY <1>6, <1>7, SessionWrite, IInvBySession DEF RunWave

LEMMA PersistIInv ==
  ASSUME IInv, NEW s \in Sessions, NEW x \in Steps,
         PersistRaises(s, x) \/ PersistStep(s, x)
  PROVE  IInv'
<1>1. SessionOK(ses[s])
  BY IInvBySession
<1>2. CASE PersistRaises(s, x)
  BY <1>2, OverOK, SessionWrite, IInvBySession DEF PersistRaises
<1>3. CASE PersistStep(s, x)
  <2> DEFINE pc  == IF ses[s].todo = {x} THEN "process" ELSE ses[s].pc
             new == [ses[s] EXCEPT !.todo = ses[s].todo \ {x}, !.pc = pc]
             row == [step |-> x, by |-> s, ok |-> x \in ses[s].ok,
                     text |-> x \in ses[s].said]
  <2>1. ses' = [ses EXCEPT ![s] = new]
    BY <1>3 DEF PersistStep
  <2>2. ses[s].pc = "persist"
    BY <1>3 DEF PersistStep
  <2>3. SessionOK(new)
    BY <1>1, <2>2 DEF SessionOK, SessionState, Working
  <2>4. row \in Row
    BY DEF Row
  <2>5. flushed' \in [Sessions -> SUBSET Row]
    BY <1>3, <2>4, IInvBySession DEF PersistStep
  <2> QED BY <1>3, <2>1, <2>3, <2>5, SessionWrite, IInvBySession DEF PersistStep
<1> QED BY <1>2, <1>3

LEMMA ProcessIInv ==
  ASSUME IInv, NEW s \in Sessions, ProcessResults(s) \/ StopOnError(s) \/ Return(s)
  PROVE  IInv'
<1>1. SessionOK(ses[s])
  BY IInvBySession
<1>2. CASE ProcessResults(s)
  <2> DEFINE new == [ses[s] EXCEPT !.pc = "loop", !.wave = {}, !.ok = {}, !.said = {},
                                   !.completed = ses[s].completed \cup ses[s].wave,
                                   !.outputs = ses[s].outputs \cup ses[s].said]
  <2>1. ses' = [ses EXCEPT ![s] = new]
    BY <1>2 DEF ProcessResults
  <2>2. ses[s].pc = "process"
    BY <1>2 DEF ProcessResults
  <2>3. new \in SessionState
    BY <1>1 DEF SessionOK, SessionState
  <2>4. /\ new.pc = "loop" /\ new.ok = {} /\ new.said = {} /\ new.wave = {}
        /\ new.todo = ses[s].todo /\ new.pending = ses[s].pending
        /\ new.completed = ses[s].completed \cup ses[s].wave
    BY <1>1 DEF SessionOK, SessionState
  <2> HIDE DEF new
  <2>5. SessionOK(new)
    BY <1>1, <2>2, <2>3, <2>4 DEF SessionOK, Working
  <2> QED BY <1>2, <2>1, <2>5, SessionWrite, IInvBySession DEF ProcessResults
<1>3. CASE StopOnError(s)
  BY <1>3, OverOK, RowsTyped, SessionWrite, IInvBySession DEF StopOnError
<1>4. CASE Return(s)
  <2> DEFINE new == [ses[s] EXCEPT !.pc = "returned",
                                   !.joined = Terminal \cap ses[s].outputs]
  <2>1. Terminal \cap ses[s].outputs \in SUBSET Steps
    BY DEF Terminal
  <2>2. SessionOK(new)
    BY <1>1, <1>4, <2>1 DEF SessionOK, SessionState, Working, Return
  <2>3. ses' = [ses EXCEPT ![s] = new]
    BY <1>4 DEF Return
  <2> QED BY <1>4, <2>2, <2>3, SessionWrite, IInvBySession DEF Return
<1> QED BY <1>2, <1>3, <1>4

LEMMA EndIInv ==
  ASSUME IInv, NEW s \in Sessions, Commit(s) \/ Rollback(s)
  PROVE  IInv'
<1>1. CASE Commit(s)
  <2> DEFINE pc == IF ses[s].pc = "returned" THEN "completed" ELSE "ended"
  <2>1. SessionOK(Over(s, pc))
    BY <1>1, OverOK DEF Commit
  <2>2. closed' \in BOOLEAN
    BY <1>1 DEF Commit
  <2> QED BY <1>1, <2>1, <2>2, RowsTyped, SessionWrite DEF Commit
<1>2. CASE Rollback(s)
  BY <1>2, OverOK, RowsTyped, SessionWrite, IInvBySession DEF Rollback, Live
<1> QED BY <1>1, <1>2

\* The write of the run's status leaves the engine alone.
LEMMA OverwriteIInv ==
  ASSUME IInv, Overwrite
  PROVE  IInv'
BY DEF Overwrite, IInv, TypeOK, NoStepLost, NeverDeadlocks, WorkIsValid, Valid,
   DependenciesExist, Terminal

LEMMA InitIInv == Init => IInv
<1>1. SessionOK(NewSession)
  BY DEF SessionOK, NewSession, SessionState, Working
<1>2. ASSUME Init PROVE /\ deps \in Graphs /\ rows \subseteq Row
                        /\ closed \in BOOLEAN /\ reopened \in BOOLEAN
                        /\ flushed \in [Sessions -> SUBSET Row]
                        /\ ses \in [Sessions -> SessionState]
                        /\ \A s \in Sessions : ses[s] = NewSession
  BY <1>1, <1>2 DEF Init, SessionOK
<1> QED BY <1>1, <1>2, IInvBySession

LEMMA NextIInv == IInv /\ [Next]_vars => IInv'
<1> SUFFICES ASSUME IInv, [Next]_vars PROVE IInv'
  OBVIOUS
<1>1. ASSUME NEW s \in Sessions, EngineStep(s) PROVE IInv'
  BY <1>1, ResolveIInv, RunWaveIInv, PersistIInv, ProcessIInv, EndIInv DEF EngineStep
<1>2. ASSUME NEW s \in Sessions, Rollback(s) PROVE IInv'
  BY <1>2, EndIInv
<1>3. ASSUME NEW s \in Sessions, NEW goOn \in Modes, Begin(s, goOn) PROVE IInv'
  BY <1>3, BeginIInv
<1>4. CASE UNCHANGED vars
  BY <1>4 DEF vars, IInv, TypeOK, NoStepLost, NeverDeadlocks, WorkIsValid, Valid,
     DependenciesExist, Terminal
<1> QED BY <1>1, <1>2, <1>3, <1>4, OverwriteIInv DEF Next

\* The invariant the theorems below follow from.
THEOREM Invariance == Spec => []IInv
  BY InitIInv, NextIInv, PTL DEF Spec

\* Every reachable state is well formed.
THEOREM TypeCorrect == Spec => []TypeOK
<1>1. IInv => TypeOK
  BY DEF IInv
<1> QED BY <1>1, Invariance, PTL

\* The loop of the engine loses no step, and returns with all of them settled.
THEOREM LosesNoStep == Spec => []NoStepLost
<1>1. IInv => NoStepLost
  BY DEF IInv
<1> QED BY <1>1, Invariance, PTL

\* "Deadlock detected in DAG" is dead code: validation at the start of a
\* session is enough, for every graph and every history of the run.
THEOREM DeadlockFree == Spec => []NeverDeadlocks
<1>1. IInv => NeverDeadlocks
  BY DEF IInv
<1> QED BY <1>1, Invariance, PTL

-----------------------------------------------------------------------------
(* The engine implements TopologicalOrder *)

\* How the write of one session's record shows in the abstract variables.
LEMMA MappedWrite ==
  ASSUME IInv, NEW s \in Sessions, NEW r \in SessionState, ses' = [ses EXCEPT ![s] = r]
  PROVE  /\ Settled' = [Settled EXCEPT ![s] = r.completed]
         /\ Phases' = [Phases EXCEPT ![s] = Phase(r.pc)]
         /\ Settled[s] = ses[s].completed /\ Phases[s] = Phase(ses[s].pc)
<1>1. ses \in [Sessions -> SessionState]
  BY IInvBySession
<1>2. \A t \in Sessions : ses'[t] = IF t = s THEN r ELSE ses[t]
  BY <1>1
<1>3. Settled' = [t \in Sessions |-> ses'[t].completed]
  BY DEF Settled
<1>4. Settled' = [t \in Sessions |-> IF t = s THEN r.completed ELSE ses[t].completed]
  BY <1>2, <1>3
<1>5. Settled' = [Settled EXCEPT ![s] = r.completed]
  BY <1>4 DEF Settled
<1>6. Phases' = [t \in Sessions |-> Phase(ses'[t].pc)]
  BY DEF Phases, Phase, Working
<1>7. Phases' = [t \in Sessions |-> IF t = s THEN Phase(r.pc) ELSE Phase(ses[t].pc)]
  BY <1>2, <1>6
<1>8. Phases' = [Phases EXCEPT ![s] = Phase(r.pc)]
  BY <1>7 DEF Phases
<1>9. Settled[s] = ses[s].completed
  BY DEF Settled
<1>10. Phases[s] = Phase(ses[s].pc)
  BY DEF Phases
<1> QED BY <1>5, <1>8, <1>9, <1>10

\* A record that keeps what is settled and the phase is not visible.
LEMMA MappedStutter ==
  ASSUME IInv, UNCHANGED deps, NEW s \in Sessions, NEW r \in SessionState,
         ses' = [ses EXCEPT ![s] = r],
         r.completed = ses[s].completed, Phase(r.pc) = Phase(ses[s].pc)
  PROVE  UNCHANGED Abstract!vars
<1>1. Settled' = Settled /\ Phases' = Phases
  BY MappedWrite DEF Settled, Phases
<1> QED BY <1>1 DEF Abstract!vars

\* A record that gives up.
LEMMA MappedAbort ==
  ASSUME IInv, UNCHANGED deps, NEW s \in Sessions, NEW r \in SessionState,
         ses' = [ses EXCEPT ![s] = r], r.completed = ses[s].completed,
         Phase(r.pc) = "aborted", Phase(ses[s].pc) \in {"new", "running", "done"}
  PROVE  Abstract!Next
<1>1. Settled' = Settled
  BY MappedWrite DEF Settled
<1>2. Abstract!Abort(s)
  BY <1>1, MappedWrite DEF Abstract!Abort
<1> QED BY <1>2 DEF Abstract!Next

LEMMA OverTyped ==
  ASSUME IInv, NEW s \in Sessions, NEW pc \in {"raised", "completed", "ended"}
  PROVE  /\ Over(s, pc) \in SessionState
         /\ Over(s, pc).pc = pc /\ Over(s, pc).completed = ses[s].completed
<1>1. ses[s] \in SessionState
  BY IInvBySession
<1> QED BY <1>1 DEF SessionState, Over, NewSession

LEMMA BeginMapped ==
  ASSUME IInv, NEW s \in Sessions, NEW goOn \in Modes, Begin(s, goOn)
  PROVE  Abstract!Next
<1>1. Done(s) \subseteq Steps /\ Spoken(rows) \subseteq Steps
  BY IInvBySession DEF Done, Succeeded, Spoken, Row
<1>2. goOn \in BOOLEAN /\ ses[s].pc = "new" /\ UNCHANGED deps
  BY EngineAssumption DEF Begin
<1>3. CASE Valid
  <2> DEFINE new == Resumed(s, goOn)
  <2>1. new \in SessionState /\ new.pc = "loop" /\ new.completed = Done(s)
    BY <1>1, <1>2 DEF SessionState, NewSession, Resumed
  <2>2. ses' = [ses EXCEPT ![s] = new]
    BY <1>3 DEF Begin
  <2> HIDE DEF new
  <2>3. /\ Settled' = [Settled EXCEPT ![s] = Done(s)]
        /\ Phases' = [Phases EXCEPT ![s] = "running"] /\ Phases[s] = "new"
    BY <1>2, <2>1, <2>2, MappedWrite DEF Phase, Working
  <2>4. Abstract!Begin(s)
    BY <1>1, <1>2, <2>3 DEF Abstract!Begin
  <2> QED BY <2>4 DEF Abstract!Next
<1>4. CASE ~Valid
  <2> DEFINE new == [NewSession EXCEPT !.pc = "raised", !.goOn = goOn]
  <2>1. new \in SessionState /\ new.pc = "raised" /\ new.completed = ses[s].completed
    BY <1>2, IInvBySession DEF SessionState, NewSession, SessionOK
  <2>2. ses' = [ses EXCEPT ![s] = new]
    BY <1>4 DEF Begin
  <2> HIDE DEF new
  <2> QED BY <1>2, <2>1, <2>2, MappedAbort DEF Phase, Working
<1> QED BY <1>3, <1>4

LEMMA ResolveMapped ==
  ASSUME IInv, NEW s \in Sessions, Resolve(s)
  PROVE  Abstract!Next
<1>1. SessionOK(ses[s])
  BY IInvBySession
<1>2. Eligible(s) # {}
  <2>1. TypeOK /\ Valid /\ Steps = ses[s].pending \cup ses[s].completed
    BY <1>1 DEF IInv, Resolve, SessionOK, Working
  <2> QED BY <2>1, SomeStepEligible DEF Resolve
<1>3. PICK skipped \in SUBSET (Eligible(s) \cap Conditional) :
         ses' = [ses EXCEPT ![s] =
                    [@ EXCEPT !.pending = ses[s].pending \ Eligible(s),
                              !.completed = ses[s].completed \cup skipped,
                              !.wave = Eligible(s) \ skipped,
                              !.pc = CASE Eligible(s) = {} -> "deadlock"
                                       [] Eligible(s) \ skipped # {} -> "wave"
                                       [] OTHER -> "loop"]]
  BY DEF Resolve
<1> DEFINE pc == IF Eligible(s) \ skipped # {} THEN "wave" ELSE "loop"
           new == [ses[s] EXCEPT !.pending = ses[s].pending \ Eligible(s),
                                 !.completed = ses[s].completed \cup skipped,
                                 !.wave = Eligible(s) \ skipped,
                                 !.pc = pc]
<1>4. ses' = [ses EXCEPT ![s] = new]
  BY <1>2, <1>3
<1>5. /\ ses[s].pc = "loop" /\ UNCHANGED deps
      /\ Eligible(s) \subseteq ses[s].pending
      /\ \A x \in skipped : deps[x] \subseteq ses[s].completed
  BY DEF Resolve, Eligible
<1>6. /\ new \in SessionState /\ new.pc \in {"loop", "wave"}
      /\ new.completed = ses[s].completed \cup skipped
  BY <1>1, <1>5 DEF SessionOK, SessionState
<1> HIDE DEF new
<1>a. /\ Settled' = [Settled EXCEPT ![s] = new.completed]
      /\ Phases' = [Phases EXCEPT ![s] = Phase(new.pc)]
      /\ Settled[s] = ses[s].completed /\ Phases[s] = Phase(ses[s].pc)
  BY <1>4, <1>6, MappedWrite
<1>b. Phase(new.pc) = "running" /\ Phase(ses[s].pc) = "running"
  BY <1>5, <1>6 DEF Phase, Working
<1>7. /\ Settled' = [Settled EXCEPT ![s] = Settled[s] \cup skipped]
      /\ Phases' = [Phases EXCEPT ![s] = "running"]
      /\ Phases[s] = "running" /\ Settled[s] = ses[s].completed
  BY <1>6, <1>a, <1>b
<1>8. Phases' = Phases
  BY <1>7 DEF Phases
<1>9. skipped \in SUBSET (Steps \ ses[s].completed)
  BY <1>1, <1>5 DEF SessionOK, SessionState
<1>10. Abstract!Settle(s)
  BY <1>5, <1>7, <1>8, <1>9 DEF Abstract!Settle
<1> QED BY <1>10 DEF Abstract!Next

LEMMA ProcessMapped ==
  ASSUME IInv, NEW s \in Sessions, ProcessResults(s)
  PROVE  Abstract!Next
<1>1. SessionOK(ses[s])
  BY IInvBySession
<1> DEFINE new == [ses[s] EXCEPT !.pc = "loop", !.wave = {}, !.ok = {}, !.said = {},
                                 !.completed = ses[s].completed \cup ses[s].wave,
                                 !.outputs = ses[s].outputs \cup ses[s].said]
           group == ses[s].wave \ ses[s].completed
<1>2. ses' = [ses EXCEPT ![s] = new] /\ ses[s].pc = "process" /\ UNCHANGED deps
  BY DEF ProcessResults
<1>3. /\ new \in SessionState /\ new.pc = "loop"
      /\ new.completed = ses[s].completed \cup group
  BY <1>1 DEF SessionOK, SessionState
<1> HIDE DEF new
<1>4. /\ Settled' = [Settled EXCEPT ![s] = Settled[s] \cup group]
      /\ Phases' = [Phases EXCEPT ![s] = "running"]
      /\ Phases[s] = "running" /\ Settled[s] = ses[s].completed
  BY <1>2, <1>3, MappedWrite DEF Phase, Working
<1>5. Phases' = Phases
  BY <1>4 DEF Phases
<1>6. /\ group \in SUBSET (Steps \ ses[s].completed)
      /\ \A x \in group : deps[x] \subseteq ses[s].completed
  BY <1>1, <1>2 DEF SessionOK, SessionState, Working
<1>7. Abstract!Settle(s)
  BY <1>2, <1>4, <1>5, <1>6 DEF Abstract!Settle
<1> QED BY <1>7 DEF Abstract!Next

LEMMA ReturnMapped ==
  ASSUME IInv, NEW s \in Sessions, Return(s)
  PROVE  Abstract!Next
<1>1. SessionOK(ses[s])
  BY IInvBySession
<1> DEFINE new == [ses[s] EXCEPT !.pc = "returned",
                                 !.joined = Terminal \cap ses[s].outputs]
<1>2. ses' = [ses EXCEPT ![s] = new] /\ ses[s].pc = "loop" /\ UNCHANGED deps
  BY DEF Return
<1>3. /\ new \in SessionState /\ new.pc = "returned"
      /\ new.completed = ses[s].completed
  BY <1>1 DEF SessionOK, SessionState, Terminal
<1>4. ses[s].completed = Steps
  BY <1>1 DEF SessionOK, Working, Return
<1> HIDE DEF new
<1>5. /\ Settled' = [Settled EXCEPT ![s] = ses[s].completed]
      /\ Phases' = [Phases EXCEPT ![s] = Phase("returned")]
      /\ Phases[s] = Phase("loop") /\ Settled[s] = ses[s].completed
  BY <1>2, <1>3, MappedWrite
<1>6. Settled' = Settled
  BY <1>5 DEF Settled
<1>7. Phase("returned") = "done" /\ Phase("loop") = "running"
  BY DEF Phase, Working
<1>8. Abstract!Finish(s)
  BY <1>2, <1>4, <1>5, <1>6, <1>7 DEF Abstract!Finish
<1> QED BY <1>8 DEF Abstract!Next

\* Running the wave and storing its results settle nothing yet.
LEMMA WaveMapped ==
  ASSUME IInv, NEW s \in Sessions,
         RunWave(s) \/ \E x \in Steps : PersistStep(s, x)
  PROVE  UNCHANGED Abstract!vars
<1>1. SessionOK(ses[s])
  BY IInvBySession
<1>2. CASE RunWave(s)
  <2>1. PICK ok, said \in SUBSET ses[s].wave :
           /\ said \subseteq ok
           /\ ses' = [ses EXCEPT ![s] = [@ EXCEPT !.pc = "persist", !.ok = ok,
                                                !.said = said,
                                                !.todo = ses[s].wave]]
    BY <1>2 DEF RunWave
  <2> DEFINE new == [ses[s] EXCEPT !.pc = "persist", !.ok = ok, !.said = said,
                                   !.todo = ses[s].wave]
  <2>2. /\ new \in SessionState /\ new.pc = "persist"
        /\ new.completed = ses[s].completed
    BY <1>1 DEF SessionOK, SessionState
  <2> QED
    BY <1>2, <2>1, <2>2, MappedStutter DEF Phase, Working, RunWave
<1>3. ASSUME NEW x \in Steps, PersistStep(s, x) PROVE UNCHANGED Abstract!vars
  <2> DEFINE pc  == IF ses[s].todo = {x} THEN "process" ELSE ses[s].pc
             new == [ses[s] EXCEPT !.todo = ses[s].todo \ {x}, !.pc = pc]
  <2>1. ses' = [ses EXCEPT ![s] = new] /\ ses[s].pc = "persist" /\ UNCHANGED deps
    BY <1>3 DEF PersistStep
  <2>2. /\ new \in SessionState /\ new.pc \in {"persist", "process"}
        /\ new.completed = ses[s].completed
    BY <1>1, <2>1 DEF SessionOK, SessionState
  <2> HIDE DEF new
  <2> QED BY <2>1, <2>2, MappedStutter DEF Phase, Working
<1> QED BY <1>2, <1>3

LEMMA OverMapped ==
  ASSUME IInv, NEW s \in Sessions,
         \/ StopOnError(s) \/ Commit(s) \/ Rollback(s)
         \/ \E x \in Steps : PersistRaises(s, x)
  PROVE  Abstract!Next \/ UNCHANGED Abstract!vars
<1>1. ses[s].pc \in {"new", "loop", "wave", "persist", "process", "returned",
                     "raised", "completed", "ended"}
  BY IInvBySession DEF SessionOK, SessionState
<1>2. CASE Commit(s)
  <2> DEFINE pc == IF ses[s].pc = "returned" THEN "completed" ELSE "ended"
  <2>1. /\ ses' = [ses EXCEPT ![s] = Over(s, pc)] /\ UNCHANGED deps
        /\ ses[s].pc \in {"returned", "raised"}
    BY <1>1, <1>2 DEF Commit
  <2>2. Phase(pc) = Phase(ses[s].pc)
    BY <2>1 DEF Phase, Working
  <2> QED BY <2>1, <2>2, OverTyped, MappedStutter
<1>3. ASSUME NEW pc \in {"raised", "ended"}, ses' = [ses EXCEPT ![s] = Over(s, pc)],
             UNCHANGED deps, ses[s].pc \notin {"new", "completed", "ended"}
      PROVE  Abstract!Next \/ UNCHANGED Abstract!vars
  <2>1. Phase(pc) = "aborted"
    BY DEF Phase, Working
  <2>2. Phase(ses[s].pc) \in {"running", "done", "aborted"}
    BY <1>1, <1>3 DEF Phase, Working
  <2>3. CASE Phase(ses[s].pc) = "aborted"
    BY <1>3, <2>1, <2>3, OverTyped, MappedStutter
  <2>4. CASE Phase(ses[s].pc) # "aborted"
    BY <1>3, <2>1, <2>2, <2>4, OverTyped, MappedAbort
  <2> QED BY <2>3, <2>4
<1>4. CASE StopOnError(s)
  BY <1>3, <1>4 DEF StopOnError
<1>5. CASE Rollback(s)
  BY <1>3, <1>5 DEF Rollback, Live
<1>6. CASE \E x \in Steps : PersistRaises(s, x)
  BY <1>3, <1>6 DEF PersistRaises
<1> QED BY <1>2, <1>4, <1>5, <1>6

LEMMA NextMapped == IInv /\ [Next]_vars => [Abstract!Next]_(Abstract!vars)
<1> SUFFICES ASSUME IInv, [Next]_vars PROVE Abstract!Next \/ UNCHANGED Abstract!vars
  BY DEF Abstract!vars
<1>1. ASSUME NEW s \in Sessions, EngineStep(s)
      PROVE  Abstract!Next \/ UNCHANGED Abstract!vars
  BY <1>1, ResolveMapped, WaveMapped, ProcessMapped, ReturnMapped, OverMapped
     DEF EngineStep
<1>2. ASSUME NEW s \in Sessions, Rollback(s)
      PROVE  Abstract!Next \/ UNCHANGED Abstract!vars
  BY <1>2, OverMapped
<1>3. ASSUME NEW s \in Sessions, NEW goOn \in Modes, Begin(s, goOn)
      PROVE  Abstract!Next
  BY <1>3, BeginMapped
<1>4. CASE UNCHANGED vars \/ Overwrite
  BY <1>4 DEF vars, Overwrite, Abstract!vars, Settled, Phases
<1> QED BY <1>1, <1>2, <1>3, <1>4 DEF Next

LEMMA InitMapped == Init => Abstract!Init
<1>1. NewSession.completed = {} /\ NewSession.pc = "new"
  BY DEF NewSession
<1> Phase("new") = "new"
  BY DEF Phase, Working
<1>2. ASSUME Init PROVE \A e \in Sessions : ses[e].completed = {} /\ Phase(ses[e].pc) = "new"
  BY <1>1, <1>2 DEF Init
<1>3. ASSUME Init PROVE Settled = [e \in Sessions |-> {}]
  BY <1>2, <1>3 DEF Settled
<1>4. ASSUME Init PROVE Phases = [e \in Sessions |-> "new"]
  BY <1>2, <1>4 DEF Phases
<1> QED BY <1>3, <1>4 DEF Abstract!Init

\* Every execution of the engine settles steps in the order of their
\* dependencies and returns only when all are settled, whatever the other
\* sessions of the run do at the same time.
THEOREM FollowsDependencies == Spec => DependencyOrder
  BY InitIInv, NextIInv, InitMapped, NextMapped, PTL
     DEF Spec, DependencyOrder, Abstract!Spec

-----------------------------------------------------------------------------
(* Sessions one after the other *)

\* What the session s at work, with record r and flushed rows f, knows of the
\* table: what was committed as COMPLETED is settled and not in its wave; it
\* has flushed one row of each step that it has executed and stored; and its
\* outputs are those of the rows it can see that are not empty.
KnowsTable(s, r, f) ==
    /\ r.wave \cap r.completed = {}
    /\ Succeeded(rows) \subseteq r.completed /\ Spoken(rows) \subseteq r.outputs
    /\ \A x \in f :
          /\ x.by = s /\ x.step \notin r.pending \cup Succeeded(rows)
          /\ x.step \in r.wave =>
                /\ x.step \notin r.todo /\ r.pc \in {"persist", "process"}
                /\ x.ok <=> x.step \in r.ok
                /\ x.text <=> x.step \in r.said
          /\ x.step \notin r.wave => /\ x.ok \/ r.goOn
                                     /\ x.text => x.step \in r.outputs
    /\ \A x, y \in f : x.step = y.step => x = y
    /\ r.outputs \subseteq Spoken(rows \cup f)
    /\ r.pc \in {"persist", "process"} =>
          \A x \in r.wave \ r.todo : \E y \in f : y.step = x

\* The rows that a session has flushed are its own, one of each step, and of
\* no step that was committed as COMPLETED.
FlushOK(s, f) ==
    /\ \A x \in f : x.by = s /\ x.step \notin Succeeded(rows)
    /\ \A x, y \in f : x.step = y.step => x = y

\* The sessions' records, one at a time.  Without continue_on_error there is
\* only the first session; a run that was ever COMPLETED has a session that
\* completed it; and no session fails with rows still flushed before COMPLETED
\* has been overwritten.
OneAtATime ==
    /\ \A s, t \in Sessions : Live(s) /\ Live(t) => s = t
    /\ \A s \in Sessions : ~Live(s) => flushed[s] = {}
    /\ \A s \in Sessions : ses[s].pc = "raised" /\ flushed[s] # {} => reopened
    /\ \A s \in Sessions : ses[s].pc = "new" => ses[s].goOn
    /\ \A s, t \in Sessions : ~ses[s].goOn /\ ~ses[t].goOn => s = t
    /\ closed => \A s \in Sessions : ~Live(s)
    /\ closed \/ reopened => \E s \in Sessions : ses[s].pc = "completed"
    /\ reopened => \A s \in Sessions : Live(s) => ses[s].goOn

\* Nothing but the failure of a session without continue_on_error commits rows
\* before the run is COMPLETED for the first time.
RowsOK ==
    /\ \A r \in rows : ses[r.by].pc # "new"
    /\ ~closed /\ ~reopened => \A r \in rows :
          ~ses[r.by].goOn /\ ses[r.by].pc \in {"raised", "ended"}
    /\ ~closed /\ ~reopened => \A r1, r2 \in rows : r1.step = r2.step => r1 = r2
    /\ \A r1, r2 \in rows : r1.step = r2.step /\ r1.ok /\ r2.ok => r1 = r2

AtWork == Working \cup {"returned"}

SInv ==
    /\ IInv /\ OneAtATime /\ RowsOK
    /\ \A s \in Sessions : FlushOK(s, flushed[s])
    /\ \A s \in Sessions : ses[s].pc \in AtWork => KnowsTable(s, ses[s], flushed[s])

\* A session at work that writes its record and flushes rows, or loses them.
LEMMA SerialWrite ==
  ASSUME SInv, IInv', NEW s \in Sessions, Live(s), NEW r, NEW f,
         ses' = [ses EXCEPT ![s] = r], flushed' = [flushed EXCEPT ![s] = f],
         UNCHANGED <<rows, closed, reopened>>,
         r.goOn = ses[s].goOn, r.pc # "new",
         r.pc \in {"completed", "ended"} => f = {},
         r.pc = "raised" => f = {} \/ reopened,
         r.pc \notin AtWork => f = {} \/ f = flushed[s],
         r.pc \in AtWork => KnowsTable(s, r, f),
         ses[s].pc \in {"raised", "ended"} => r.pc \in {"raised", "ended"}
  PROVE  SInv'
<1>1. /\ IInv /\ OneAtATime /\ RowsOK /\ FlushOK(s, flushed[s])
      /\ \A t \in Sessions : ses'[t] = IF t = s THEN r ELSE ses[t]
      /\ \A t \in Sessions : flushed'[t] = IF t = s THEN f ELSE flushed[t]
      /\ \A x \in rows : x.by \in Sessions
  BY IInvBySession DEF SInv, Row
<1>2. \A t \in Sessions : t # s => ~Live(t)
  BY <1>1 DEF OneAtATime
<1>3. OneAtATime'
  <2>1. ses[s].pc # "completed" /\ ~closed
    BY <1>1 DEF Live, OneAtATime
  <2>2. \A t \in Sessions : Live(t)' => t = s
    BY <1>1, <1>2 DEF Live
  <2>3. \A t \in Sessions : ~Live(t)' => flushed'[t] = {}
    BY <1>1, <1>2 DEF OneAtATime, Live
  <2>4. reopened => \E t \in Sessions : ses'[t].pc = "completed"
    BY <1>1, <2>1 DEF OneAtATime
  <2>5. \A t \in Sessions : ses'[t].pc = "raised" /\ flushed'[t] # {} => reopened
    BY <1>1 DEF OneAtATime
  <2>6. reopened => \A t \in Sessions : Live(t)' => ses'[t].goOn
    BY <1>1, <2>2 DEF OneAtATime
  <2>7. \A t, u \in Sessions : ~ses'[t].goOn /\ ~ses'[u].goOn => t = u
    BY <1>1 DEF OneAtATime
  <2>8. \A t \in Sessions : ses'[t].pc = "new" => ses'[t].goOn
    BY <1>1 DEF OneAtATime
  <2> QED BY <2>1, <2>2, <2>3, <2>4, <2>5, <2>6, <2>7, <2>8 DEF OneAtATime
<1>4. RowsOK'
  BY <1>1 DEF RowsOK
<1>5. ASSUME NEW t \in Sessions PROVE FlushOK(t, flushed[t])'
  <2>1. FlushOK(s, f)
    BY <1>1 DEF KnowsTable, FlushOK
  <2>2. FlushOK(t, flushed'[t])
    BY <1>1, <2>1 DEF SInv
  <2> QED BY <2>2 DEF FlushOK, Succeeded
<1>6. ASSUME NEW t \in Sessions, ses'[t].pc \in AtWork
      PROVE  KnowsTable(t, ses[t], flushed[t])'
  <2>1. t = s
    BY <1>1, <1>2, <1>6 DEF Live, AtWork, Working
  <2>2. ses'[t] = r /\ flushed'[t] = f
    BY <1>1, <2>1
  <2>3. KnowsTable(s, r, f)
    BY <1>6, <2>2
  <2>4. Succeeded(rows)' = Succeeded(rows) /\ Spoken(rows)' = Spoken(rows)
    BY DEF Succeeded, Spoken
  <2>5. Spoken(rows \cup flushed[t])' = Spoken(rows \cup f)
    BY <2>2 DEF Spoken
  <2> QED BY <2>1, <2>2, <2>3, <2>4, <2>5 DEF KnowsTable
<1> QED BY <1>3, <1>4, <1>5, <1>6 DEF SInv

LEMMA InWorkFacts ==
  ASSUME SInv, NEW s \in Sessions, ses[s].pc \in AtWork
  PROVE  /\ SessionOK(ses[s]) /\ Live(s) /\ ~closed
         /\ KnowsTable(s, ses[s], flushed[s])
         /\ \A x \in flushed[s] : x \in Row
BY IInvBySession DEF SInv, OneAtATime, Live, AtWork, Working

LEMMA BeginSerial ==
  ASSUME SInv, Overlap = FALSE, NEW s \in Sessions, NEW goOn \in Modes, Begin(s, goOn)
  PROVE  SInv'
<1>1. IInv'
  BY BeginIInv DEF SInv
<1> DEFINE new == IF Valid
                   THEN Resumed(s, goOn)
                   ELSE [NewSession EXCEPT !.pc = "raised", !.goOn = goOn]
<1>2. goOn \in BOOLEAN /\ Done(s) = Succeeded(rows)
  BY EngineAssumption DEF Done
<1>3. /\ new.goOn = goOn /\ new.pc \in {"loop", "raised"}
      /\ Valid => /\ new.pc = "loop" /\ new.pending = Steps \ Succeeded(rows)
                  /\ new.completed = Succeeded(rows)
                  /\ new.outputs = Spoken(rows) /\ new.wave = {}
      /\ ~Valid => new.pc = "raised"
  BY <1>2 DEF Resumed, NewSession
<1>4. ses' = [ses EXCEPT ![s] = new] /\ UNCHANGED <<rows, flushed, closed, reopened>>
  BY DEF Begin
<1> HIDE DEF new
<1>5. /\ IInv /\ OneAtATime /\ RowsOK /\ ses[s].pc = "new" /\ ~closed
      /\ \A t \in Sessions : ~Live(t) /\ flushed[t] = {}
      /\ goOn \/ \A t \in Sessions : ses[t].pc = "new"
  BY DEF SInv, Begin, OneAtATime
<1>6. /\ \A t \in Sessions : ses'[t] = IF t = s THEN new ELSE ses[t]
      /\ \A x \in rows : x.by \in Sessions
  BY <1>4, <1>5, IInvBySession DEF Row
<1>7. OneAtATime'
  <2>1. \A t \in Sessions : Live(t)' => t = s
    BY <1>5, <1>6 DEF Live
  <2>2. \A t, u \in Sessions : ~ses'[t].goOn /\ ~ses'[u].goOn => t = u
    BY <1>2, <1>3, <1>5, <1>6 DEF OneAtATime
  <2>3. reopened => \E t \in Sessions : ses'[t].pc = "completed"
    BY <1>5, <1>6 DEF OneAtATime
  <2>4. reopened => goOn
    BY <1>5 DEF OneAtATime
  <2>5. reopened => \A t \in Sessions : Live(t)' => ses'[t].goOn
    BY <1>3, <1>6, <2>1, <2>4
  <2>6. \A t \in Sessions : flushed'[t] = {}
    BY <1>4, <1>5
  <2>7. \A t \in Sessions : ses'[t].pc = "new" => ses'[t].goOn
    BY <1>3, <1>5, <1>6 DEF OneAtATime
  <2> QED BY <1>4, <1>5, <2>1, <2>2, <2>3, <2>5, <2>6, <2>7 DEF OneAtATime
<1>8. RowsOK'
  BY <1>3, <1>4, <1>5, <1>6 DEF RowsOK
<1>9. \A t \in Sessions : FlushOK(t, flushed[t])'
  BY <1>4, <1>5 DEF FlushOK
<1>10. ASSUME NEW t \in Sessions, ses'[t].pc \in AtWork
       PROVE  KnowsTable(t, ses[t], flushed[t])'
  <2>1. t = s
    BY <1>5, <1>6, <1>10 DEF Live, AtWork, Working
  <2>2. ses'[t] = new /\ flushed'[t] = {} /\ new.pc = "loop" /\ Valid
    BY <1>3, <1>4, <1>5, <1>6, <1>10, <2>1 DEF AtWork, Working
  <2>3. Succeeded(rows)' = Succeeded(rows) /\ Spoken(rows)' = Spoken(rows)
    BY <1>4 DEF Succeeded, Spoken
  <2>4. Spoken(rows \cup flushed[t])' = Spoken(rows)
    BY <1>4, <2>2 DEF Spoken
  <2> QED BY <1>3, <2>2, <2>3, <2>4 DEF KnowsTable
<1> QED BY <1>1, <1>7, <1>8, <1>9, <1>10 DEF SInv

LEMMA ResolveSerial ==
  ASSUME SInv, NEW s \in Sessions, Resolve(s)
  PROVE  SInv'
<1>1. IInv'
  BY ResolveIInv DEF SInv
<1>2. ses[s].pc = "loop" /\ ses[s].pc \in AtWork
  BY DEF Resolve, AtWork, Working
<1>3. /\ SessionOK(ses[s]) /\ Live(s)
      /\ KnowsTable(s, ses[s], flushed[s])
  BY <1>2, InWorkFacts
<1>4. PICK skipped \in SUBSET (Eligible(s) \cap Conditional) :
         ses' = [ses EXCEPT ![s] =
                    [@ EXCEPT !.pending = ses[s].pending \ Eligible(s),
                              !.completed = ses[s].completed \cup skipped,
                              !.wave = Eligible(s) \ skipped,
                              !.pc = CASE Eligible(s) = {} -> "deadlock"
                                       [] Eligible(s) \ skipped # {} -> "wave"
                                       [] OTHER -> "loop"]]
  BY DEF Resolve
<1> DEFINE pc == CASE Eligible(s) = {} -> "deadlock"
                   [] Eligible(s) \ skipped # {} -> "wave"
                   [] OTHER -> "loop"
           new == [ses[s] EXCEPT !.pending = ses[s].pending \ Eligible(s),
                                 !.completed = ses[s].completed \cup skipped,
                                 !.wave = Eligible(s) \ skipped,
                                 !.pc = pc]
<1>5. ses' = [ses EXCEPT ![s] = new]
  BY <1>4
<1>6. ses[s] \in SessionState /\ Eligible(s) \subseteq ses[s].pending
  BY <1>3 DEF SessionOK, Eligible
<1>7. pc \in {"deadlock", "wave", "loop"}
  OBVIOUS
<1> HIDE DEF pc
<1>8. /\ new.pc = pc /\ new.goOn = ses[s].goOn /\ new.todo = ses[s].todo
      /\ new.pending = ses[s].pending \ Eligible(s) /\ new.ok = ses[s].ok
      /\ new.completed = ses[s].completed \cup skipped
      /\ new.wave = Eligible(s) \ skipped /\ new.outputs = ses[s].outputs
  BY <1>6 DEF SessionState
<1> HIDE DEF new
<1>9. KnowsTable(s, new, flushed[s])
  BY <1>2, <1>3, <1>6, <1>7, <1>8 DEF KnowsTable, SessionOK
<1>10. flushed' = [flushed EXCEPT ![s] = flushed[s]] /\ UNCHANGED <<rows, closed, reopened>>
  BY IInvBySession DEF Resolve, SInv
<1> QED BY <1>1, <1>2, <1>3, <1>5, <1>7, <1>8, <1>9, <1>10, SerialWrite

LEMMA RunWaveSerial ==
  ASSUME SInv, NEW s \in Sessions, RunWave(s)
  PROVE  SInv'
<1>1. IInv'
  BY RunWaveIInv DEF SInv
<1>2. ses[s].pc = "wave" /\ ses[s].pc \in AtWork
  BY DEF RunWave, AtWork, Working
<1>3. /\ SessionOK(ses[s]) /\ Live(s)
      /\ KnowsTable(s, ses[s], flushed[s])
  BY <1>2, InWorkFacts
<1>4. PICK ok, said \in SUBSET ses[s].wave :
         /\ said \subseteq ok
         /\ ses' = [ses EXCEPT ![s] = [@ EXCEPT !.pc = "persist", !.ok = ok,
                                              !.said = said,
                                              !.todo = ses[s].wave]]
  BY DEF RunWave
<1> DEFINE new == [ses[s] EXCEPT !.pc = "persist", !.ok = ok, !.said = said,
                                 !.todo = ses[s].wave]
<1>5. ses' = [ses EXCEPT ![s] = new]
  BY <1>4
<1>6. /\ new.pc = "persist" /\ new.goOn = ses[s].goOn /\ new.todo = ses[s].wave
      /\ new.pending = ses[s].pending /\ new.completed = ses[s].completed
      /\ new.wave = ses[s].wave /\ new.outputs = ses[s].outputs
  BY <1>3 DEF SessionState, SessionOK
<1> HIDE DEF new
<1>7. KnowsTable(s, new, flushed[s])
  BY <1>2, <1>3, <1>6 DEF KnowsTable
<1>8. flushed' = [flushed EXCEPT ![s] = flushed[s]] /\ UNCHANGED <<rows, closed, reopened>>
  BY IInvBySession DEF RunWave, SInv
<1> QED BY <1>1, <1>2, <1>3, <1>5, <1>6, <1>7, <1>8, SerialWrite

\* What get_step_run finds for a step that is still to be stored: nothing the
\* session has flushed, nothing COMPLETED, and at most one committed row unless
\* COMPLETED has been overwritten.
LEMMA OneRowAtMost ==
  ASSUME SInv, NEW s \in Sessions, ses[s].pc = "persist", NEW x \in ses[s].todo
  PROVE  /\ ~reopened => \A r1, r2 \in Visible(s, x) : r1 = r2
         /\ ~AlreadyStored(s, x)
         /\ \A y \in flushed[s] : y.step # x
<1>1. ses[s].pc \in AtWork
  BY DEF AtWork, Working
<1>2. /\ SessionOK(ses[s]) /\ ~closed /\ RowsOK
      /\ KnowsTable(s, ses[s], flushed[s])
  BY <1>1, InWorkFacts DEF SInv
<1>3. x \in ses[s].wave /\ x \notin Succeeded(rows)
  BY <1>2 DEF SessionOK, KnowsTable
<1>4. \A y \in flushed[s] : y.step # x
  BY <1>2, <1>3 DEF KnowsTable
<1>5. \A y \in rows : y.step = x => ~y.ok
  BY <1>3 DEF Succeeded
<1> QED BY <1>2, <1>4, <1>5 DEF RowsOK, Visible, AlreadyStored

LEMMA OverFields ==
  ASSUME IInv, NEW s \in Sessions, NEW pc \in {"raised", "completed", "ended"}
  PROVE  Over(s, pc).pc = pc /\ Over(s, pc).goOn = ses[s].goOn
BY IInvBySession DEF Over, NewSession, SessionState

\* get_step_run raises: what was flushed waits for the commit of the failure.
LEMMA RaiseSerial ==
  ASSUME SInv, NEW s \in Sessions, NEW x \in Steps, PersistRaises(s, x)
  PROVE  SInv'
<1>1. IInv' /\ IInv
  BY PersistIInv DEF SInv
<1>2. ses[s].pc = "persist" /\ x \in ses[s].todo /\ Live(s)
  BY DEF PersistRaises, Live
<1>3. reopened
  BY <1>2, OneRowAtMost DEF PersistRaises
<1> DEFINE new == Over(s, "raised")
<1>4. new.pc = "raised" /\ new.goOn = ses[s].goOn
  BY <1>1, OverFields
<1>5. /\ ses' = [ses EXCEPT ![s] = new] /\ UNCHANGED <<rows, closed, reopened>>
      /\ flushed' = [flushed EXCEPT ![s] = flushed[s]]
  BY <1>1, IInvBySession DEF PersistRaises
<1> HIDE DEF new
<1>6. new.pc \notin AtWork
  BY <1>4 DEF AtWork, Working
<1> QED BY <1>1, <1>2, <1>3, <1>4, <1>5, <1>6, SerialWrite

LEMMA PersistSerial ==
  ASSUME SInv, NEW s \in Sessions, NEW x \in Steps,
         PersistRaises(s, x) \/ PersistStep(s, x)
  PROVE  SInv'
<1> SUFFICES ASSUME PersistStep(s, x) PROVE SInv'
  BY RaiseSerial
<1>1. IInv'
  BY PersistIInv DEF SInv
<1>2. ses[s].pc = "persist" /\ ses[s].pc \in AtWork /\ x \in ses[s].todo
  BY DEF PersistStep, AtWork, Working
<1>3. /\ SessionOK(ses[s]) /\ Live(s)
      /\ KnowsTable(s, ses[s], flushed[s])
  BY <1>2, InWorkFacts
<1>4. ~AlreadyStored(s, x) /\ \A y \in flushed[s] : y.step # x
  BY <1>2, OneRowAtMost
<1> DEFINE pc  == IF ses[s].todo = {x} THEN "process" ELSE ses[s].pc
           new == [ses[s] EXCEPT !.todo = ses[s].todo \ {x}, !.pc = pc]
           row == [step |-> x, by |-> s, ok |-> x \in ses[s].ok,
                   text |-> x \in ses[s].said]
           f   == flushed[s] \cup {row}
<1>6. ses' = [ses EXCEPT ![s] = new] /\ UNCHANGED <<rows, closed, reopened>>
  BY DEF PersistStep
<1>7. flushed' = [flushed EXCEPT ![s] = f]
  BY <1>4 DEF PersistStep
<1>8. /\ new.pc = pc /\ new.goOn = ses[s].goOn /\ new.todo = ses[s].todo \ {x}
      /\ new.pending = ses[s].pending /\ new.completed = ses[s].completed
      /\ new.wave = ses[s].wave /\ new.outputs = ses[s].outputs
      /\ new.ok = ses[s].ok /\ new.said = ses[s].said /\ pc \in {"persist", "process"}
  BY <1>2, <1>3 DEF SessionState, SessionOK
<1>9. /\ row.step = x /\ row.by = s /\ (row.ok <=> x \in ses[s].ok)
      /\ (row.text <=> x \in ses[s].said)
  OBVIOUS
<1>10. x \in ses[s].wave /\ x \notin ses[s].pending /\ x \notin Succeeded(rows)
  BY <1>2, <1>3 DEF SessionOK, KnowsTable
<1>11. Spoken(rows \cup flushed[s]) \subseteq Spoken(rows \cup f)
  BY DEF Spoken
<1> HIDE DEF new, row, pc
<1>12. KnowsTable(s, new, f)
  <2>1. /\ new.wave \cap new.completed = {}
        /\ Succeeded(rows) \subseteq new.completed
        /\ Spoken(rows) \subseteq new.outputs
        /\ new.outputs \subseteq Spoken(rows \cup f)
    BY <1>3, <1>8, <1>11 DEF KnowsTable
  <2>2. ASSUME NEW y \in f
        PROVE  /\ y.by = s /\ y.step \notin new.pending \cup Succeeded(rows)
               /\ y.step \in new.wave =>
                     /\ y.step \notin new.todo /\ new.pc \in {"persist", "process"}
                     /\ y.ok <=> y.step \in new.ok
                     /\ y.text <=> y.step \in new.said
               /\ y.step \notin new.wave => /\ y.ok \/ new.goOn
                                            /\ y.text => y.step \in new.outputs
    <3>1. CASE y \in flushed[s]
      BY <1>3, <1>8, <3>1 DEF KnowsTable
    <3>2. CASE y = row
      BY <1>8, <1>9, <1>10, <3>2
    <3> QED BY <3>1, <3>2
  <2>3. \A y, z \in f : y.step = z.step => y = z
    BY <1>3, <1>4, <1>9 DEF KnowsTable
  <2>4. \A z \in new.wave \ new.todo : \E y \in f : y.step = z
    BY <1>2, <1>3, <1>8, <1>9 DEF KnowsTable
  <2> HIDE DEF f
  <2> QED BY <2>1, <2>2, <2>3, <2>4 DEF KnowsTable
<1> HIDE DEF f
<1>13. /\ new.pc \in AtWork /\ new.goOn = ses[s].goOn
       /\ new.pc \notin {"new", "raised", "ended", "completed"}
  BY <1>8 DEF AtWork, Working
<1> QED BY <1>1, <1>2, <1>3, <1>6, <1>7, <1>12, <1>13, SerialWrite

LEMMA ProcessSerial ==
  ASSUME SInv, NEW s \in Sessions, ProcessResults(s)
  PROVE  SInv'
<1>1. IInv'
  BY ProcessIInv DEF SInv
<1>2. ses[s].pc = "process" /\ ses[s].pc \in AtWork
  BY DEF ProcessResults, AtWork, Working
<1>3. /\ SessionOK(ses[s]) /\ Live(s)
      /\ KnowsTable(s, ses[s], flushed[s])
  BY <1>2, InWorkFacts
<1> DEFINE new == [ses[s] EXCEPT !.pc = "loop", !.wave = {}, !.ok = {}, !.said = {},
                                 !.completed = ses[s].completed \cup ses[s].wave,
                                 !.outputs = ses[s].outputs \cup ses[s].said]
<1>4. ses' = [ses EXCEPT ![s] = new] /\ UNCHANGED <<rows, closed, reopened>>
  BY DEF ProcessResults
<1>5. flushed' = [flushed EXCEPT ![s] = flushed[s]]
  BY IInvBySession DEF ProcessResults, SInv
<1>6. /\ new.pc = "loop" /\ new.goOn = ses[s].goOn /\ new.wave = {}
      /\ new.pending = ses[s].pending
      /\ new.completed = ses[s].completed \cup ses[s].wave
      /\ new.outputs = ses[s].outputs \cup ses[s].said
  BY <1>3 DEF SessionState, SessionOK
<1> HIDE DEF new
<1>7. /\ ses[s].ok \subseteq ses[s].wave /\ ses[s].said \subseteq ses[s].wave
      /\ ses[s].todo = {}
  BY <1>2, <1>3 DEF SessionOK
<1>8. ses[s].said \subseteq Spoken(rows \cup flushed[s])
  BY <1>2, <1>3, <1>7 DEF KnowsTable, Spoken
<1>9. ses[s].goOn \/ ses[s].ok = ses[s].wave
  BY DEF ProcessResults
<1>10. ASSUME NEW x \in flushed[s]
       PROVE  /\ x.by = s /\ x.step \notin new.pending \cup Succeeded(rows)
              /\ x.ok \/ new.goOn
              /\ x.text => x.step \in new.outputs
  BY <1>3, <1>6, <1>9 DEF KnowsTable
<1>11. KnowsTable(s, new, flushed[s])
  BY <1>3, <1>6, <1>8, <1>10 DEF KnowsTable
<1> QED BY <1>1, <1>2, <1>3, <1>4, <1>5, <1>6, <1>11, SerialWrite

LEMMA ReturnSerial ==
  ASSUME SInv, NEW s \in Sessions, Return(s)
  PROVE  SInv'
<1>1. IInv'
  BY ProcessIInv DEF SInv
<1>2. ses[s].pc = "loop" /\ ses[s].pc \in AtWork
  BY DEF Return, AtWork, Working
<1>3. /\ SessionOK(ses[s]) /\ Live(s)
      /\ KnowsTable(s, ses[s], flushed[s])
  BY <1>2, InWorkFacts
<1> DEFINE new == [ses[s] EXCEPT !.pc = "returned",
                                 !.joined = Terminal \cap ses[s].outputs]
<1>4. ses' = [ses EXCEPT ![s] = new] /\ UNCHANGED <<rows, closed, reopened>>
  BY DEF Return
<1>5. flushed' = [flushed EXCEPT ![s] = flushed[s]]
  BY IInvBySession DEF Return, SInv
<1>6. /\ new.pc = "returned" /\ new.goOn = ses[s].goOn /\ new.todo = ses[s].todo
      /\ new.pending = ses[s].pending /\ new.completed = ses[s].completed
      /\ new.wave = ses[s].wave /\ new.outputs = ses[s].outputs
      /\ new.ok = ses[s].ok
  BY <1>3 DEF SessionState, SessionOK
<1> HIDE DEF new
<1>7. KnowsTable(s, new, flushed[s])
  BY <1>2, <1>3, <1>6 DEF KnowsTable
<1> QED BY <1>1, <1>2, <1>3, <1>4, <1>5, <1>6, <1>7, SerialWrite

LEMMA RollbackSerial ==
  ASSUME SInv, NEW s \in Sessions, Rollback(s)
  PROVE  SInv'
<1>1. IInv' /\ IInv
  BY EndIInv DEF SInv
<1> DEFINE new == Over(s, "ended")
<1>2. new.pc = "ended" /\ new.goOn = ses[s].goOn
  BY <1>1, OverFields
<1>3. /\ ses' = [ses EXCEPT ![s] = new] /\ UNCHANGED <<rows, closed, reopened>>
      /\ flushed' = [flushed EXCEPT ![s] = {}] /\ Live(s)
  BY DEF Rollback
<1> HIDE DEF new
<1>4. new.pc \notin AtWork
  BY <1>2 DEF AtWork, Working
<1> QED BY <1>1, <1>2, <1>3, <1>4, SerialWrite

\* Once a session has committed and no other is at work, what the table has
\* is all there is to show.
LEMMA SerialEnd ==
  ASSUME SInv, IInv', NEW s \in Sessions, Live(s), NEW r,
         ses' = [ses EXCEPT ![s] = r], r.goOn = ses[s].goOn,
         r.pc \in {"raised", "completed", "ended"},
         flushed' = [flushed EXCEPT ![s] = {}], reopened' = reopened,
         closed' => r.pc = "completed", RowsOK'
  PROVE  SInv'
<1>1. /\ OneAtATime
      /\ \A t \in Sessions : ses'[t] = IF t = s THEN r ELSE ses[t]
      /\ \A t \in Sessions : flushed'[t] = IF t = s THEN {} ELSE flushed[t]
  BY IInvBySession DEF SInv
<1>2. \A t \in Sessions : t # s => /\ ~Live(t) /\ ~Live(t)'
                                   /\ flushed[t] = {}
  BY <1>1 DEF OneAtATime, Live
<1>3. \A t \in Sessions : flushed'[t] = {}
  BY <1>1, <1>2
<1>4. OneAtATime'
  <2>1. ses[s].pc # "completed"
    BY DEF Live
  <2>2. closed' => \A t \in Sessions : ~Live(t)'
    BY <1>1, <1>2 DEF Live
  <2>3. closed' \/ reopened => \E t \in Sessions : ses'[t].pc = "completed"
    BY <1>1, <2>1 DEF OneAtATime
  <2>4. \A t, u \in Sessions : ~ses'[t].goOn /\ ~ses'[u].goOn => t = u
    BY <1>1 DEF OneAtATime
  <2>5. reopened => \A t \in Sessions : Live(t)' => ses'[t].goOn
    BY <1>1, <1>2 DEF OneAtATime
  <2> QED BY <1>1, <1>2, <1>3, <2>2, <2>3, <2>4, <2>5 DEF OneAtATime
<1>5. \A t \in Sessions : ses'[t].pc \notin AtWork
  BY <1>1, <1>2 DEF Live, AtWork, Working
<1>6. \A t \in Sessions : FlushOK(t, flushed[t])'
  BY <1>3 DEF FlushOK
<1> QED BY <1>4, <1>5, <1>6 DEF SInv

LEMMA StopSerial ==
  ASSUME SInv, NEW s \in Sessions, StopOnError(s)
  PROVE  SInv'
<1>1. IInv' /\ IInv
  BY ProcessIInv DEF SInv
<1>2. ses[s].pc = "process" /\ ses[s].pc \in AtWork /\ ~ses[s].goOn
  BY DEF StopOnError, AtWork, Working
<1>3. /\ Live(s) /\ ~closed /\ ~reopened /\ OneAtATime /\ RowsOK
      /\ KnowsTable(s, ses[s], flushed[s])
  BY <1>2, InWorkFacts DEF SInv, OneAtATime
<1> DEFINE new == Over(s, "raised")
<1>4. new.pc = "raised" /\ new.goOn = ses[s].goOn
  BY <1>1, OverFields
<1>5. /\ ses' = [ses EXCEPT ![s] = new] /\ rows' = rows \cup flushed[s]
      /\ flushed' = [flushed EXCEPT ![s] = {}] /\ UNCHANGED <<closed, reopened>>
  BY DEF StopOnError
<1> HIDE DEF new
<1>6. rows = {}
  <2> SUFFICES ASSUME NEW x \in rows PROVE FALSE
    OBVIOUS
  <2>1. x.by \in Sessions /\ ~ses[x.by].goOn /\ ses[x.by].pc \in {"raised", "ended"}
    BY <1>1, <1>3, IInvBySession DEF RowsOK, Row
  <2>2. x.by = s
    BY <1>2, <1>3, <2>1 DEF OneAtATime
  <2> QED BY <1>2, <2>1, <2>2
<1>7. rows' = flushed[s] /\ \A x \in flushed[s] : x.by = s
  BY <1>3, <1>5, <1>6 DEF KnowsTable
<1>8. ses'[s] = new
  BY <1>1, <1>5, IInvBySession
<1>9. RowsOK'
  BY <1>2, <1>3, <1>4, <1>7, <1>8 DEF RowsOK, KnowsTable
<1> QED BY <1>1, <1>3, <1>4, <1>5, <1>9, SerialEnd

LEMMA CommitSerial ==
  ASSUME SInv, NEW s \in Sessions, Commit(s)
  PROVE  SInv'
<1>1. IInv' /\ IInv /\ OneAtATime /\ RowsOK /\ FlushOK(s, flushed[s])
  BY EndIInv DEF SInv
<1>2. ses[s].pc \in {"returned", "raised"} /\ Live(s) /\ ~closed
  BY <1>1 DEF Commit, Live, IInv, NeverDeadlocks, OneAtATime
<1> DEFINE pc == IF ses[s].pc = "returned" THEN "completed" ELSE "ended"
           new == Over(s, pc)
<1>3. new.pc = pc /\ new.goOn = ses[s].goOn
  BY <1>1, OverFields
<1>4. /\ ses' = [ses EXCEPT ![s] = new] /\ rows' = rows \cup flushed[s]
      /\ flushed' = [flushed EXCEPT ![s] = {}]
      /\ closed' = (ses[s].pc = "returned") /\ reopened' = reopened
  BY <1>2 DEF Commit
<1> HIDE DEF new
<1>5. /\ \A t \in Sessions : ses'[t] = IF t = s THEN new ELSE ses[t]
      /\ \A x \in rows : x.by \in Sessions
      /\ \A x \in flushed[s] : x.by = s
  BY <1>1, <1>4, IInvBySession DEF Row, FlushOK
<1>6. \A x \in rows' : ses'[x.by].pc # "new"
  BY <1>1, <1>3, <1>4, <1>5 DEF RowsOK
<1>7. \A x, y \in rows' : x.step = y.step /\ x.ok /\ y.ok => x = y
  <2> SUFFICES ASSUME NEW x \in rows', NEW y \in rows', x.step = y.step, x.ok, y.ok
               PROVE  x = y
    OBVIOUS
  <2>1. \A u \in rows, v \in flushed[s] : u.ok => u.step # v.step
    BY <1>1 DEF FlushOK, Succeeded
  <2> QED BY <1>1, <1>4, <2>1 DEF RowsOK, FlushOK
<1>8. RowsOK'
  <2>1. CASE closed' \/ reopened'
    BY <1>6, <1>7, <2>1 DEF RowsOK
  <2>2. CASE ~closed' /\ ~reopened'
    <3>1. ses[s].pc = "raised" /\ ~reopened /\ flushed[s] = {} /\ new.pc = "ended"
      BY <1>1, <1>2, <1>3, <1>4, <2>2 DEF OneAtATime
    <3>2. rows' = rows
      BY <1>4, <3>1
    <3>3. \A x \in rows' : ~ses'[x.by].goOn /\ ses'[x.by].pc \in {"raised", "ended"}
      BY <1>1, <1>2, <1>3, <1>5, <3>1, <3>2 DEF RowsOK
    <3>4. \A x, y \in rows' : x.step = y.step => x = y
      BY <1>1, <1>2, <3>1, <3>2 DEF RowsOK
    <3> QED BY <1>6, <1>7, <3>3, <3>4 DEF RowsOK
  <2> QED BY <2>1, <2>2
<1>9. pc \in {"completed", "ended"} /\ (closed' => pc = "completed")
  BY <1>4
<1> QED BY <1>1, <1>2, <1>3, <1>4, <1>8, <1>9, SerialEnd

\* COMPLETED is overwritten: no session is live, and the one that completed the
\* run has gone on after errors.
LEMMA OverwriteSerial ==
  ASSUME SInv, Overwrite
  PROVE  SInv'
<1>1. /\ IInv' /\ OneAtATime /\ RowsOK /\ closed
      /\ reopened' = TRUE /\ closed' = FALSE /\ UNCHANGED <<rows, flushed, ses>>
  BY OverwriteIInv DEF SInv, Overwrite
<1>2. \A s \in Sessions : /\ ~Live(s) /\ ses[s].pc \notin AtWork
                          /\ Live(s)' <=> Live(s)
  BY <1>1 DEF OneAtATime, Live, AtWork, Working
<1>3. OneAtATime'
  BY <1>1, <1>2 DEF OneAtATime
<1>4. RowsOK'
  BY <1>1 DEF RowsOK
<1>5. \A s \in Sessions : FlushOK(s, flushed[s])'
  BY <1>1 DEF SInv, FlushOK, Succeeded
<1> QED BY <1>1, <1>2, <1>3, <1>4, <1>5 DEF SInv

LEMMA InitSerial == Init => SInv
<1> SUFFICES ASSUME Init PROVE SInv
  OBVIOUS
<1>1. \A s \in Sessions : ses[s].pc = "new" /\ ses[s].goOn /\ flushed[s] = {}
  BY DEF Init, NewSession
<1>2. OneAtATime
  BY <1>1 DEF Init, OneAtATime, Live
<1>3. RowsOK
  BY DEF Init, RowsOK
<1>4. \A s \in Sessions : ses[s].pc \notin AtWork
  BY <1>1 DEF AtWork, Working
<1>5. \A s \in Sessions : FlushOK(s, flushed[s])
  BY <1>1 DEF FlushOK
<1> QED BY <1>2, <1>3, <1>4, <1>5, InitIInv DEF SInv

LEMMA NextSerial ==
  ASSUME SInv, [Next]_vars, Overlap = FALSE
  PROVE  SInv'
<1>1. ASSUME NEW s \in Sessions, EngineStep(s) PROVE SInv'
  BY <1>1, ResolveSerial, RunWaveSerial, ProcessSerial, StopSerial, ReturnSerial,
     CommitSerial, PersistSerial DEF EngineStep
<1>2. ASSUME NEW s \in Sessions, Rollback(s) PROVE SInv'
  BY <1>2, RollbackSerial
<1>3. ASSUME NEW s \in Sessions, NEW goOn \in Modes, Begin(s, goOn) PROVE SInv'
  BY <1>3, BeginSerial
<1>4. CASE UNCHANGED vars
  <2>1. IInv'
    BY <1>4, NextIInv DEF SInv
  <2>2. OneAtATime' /\ RowsOK'
    BY <1>4 DEF vars, SInv, OneAtATime, RowsOK, Live
  <2>3. ASSUME NEW s \in Sessions, ses'[s].pc \in AtWork
        PROVE  KnowsTable(s, ses[s], flushed[s])'
    <3>1. KnowsTable(s, ses[s], flushed[s])
      BY <1>4, <2>3 DEF vars, SInv
    <3> QED BY <1>4, <3>1 DEF vars, KnowsTable, Succeeded, Spoken
  <2>4. \A s \in Sessions : FlushOK(s, flushed[s])'
    BY <1>4 DEF vars, SInv, FlushOK, Succeeded
  <2> QED BY <2>1, <2>2, <2>3, <2>4 DEF SInv
<1> QED BY <1>1, <1>2, <1>3, <1>4, OverwriteSerial DEF Next

LEMMA SerialInvariance ==
  ASSUME Overlap = FALSE
  PROVE  Spec => []SInv
<1>1. SInv /\ [Next]_vars => SInv'
  BY NextSerial
<1> QED BY <1>1, InitSerial, PTL DEF Spec

\* When a run's sessions follow one another, get_step_run meets two rows of a
\* step only after COMPLETED has been overwritten: a session that stored a row
\* next to a FAILED one and committed it has COMPLETED the run.
THEOREM ResumesReadRows ==
  ASSUME Overlap = FALSE
  PROVE  Spec => []RowsReadable
<1>1. SInv => RowsReadable
  BY OneRowAtMost DEF RowsReadable
<1> QED BY <1>1, SerialInvariance, PTL

\* ... no step is committed as COMPLETED twice, nor executed again by another
\* session once it is.
THEOREM NothingRepeated ==
  ASSUME Overlap = FALSE
  PROVE  Spec => []CommittedNotRepeated
<1>1. ASSUME SInv, NEW s \in Sessions, NEW r \in rows, r.ok,
             ses[s].pc \in {"wave", "persist", "process"}
      PROVE  r.step \notin ses[s].wave
  <2>1. ses[s].pc \in AtWork
    BY <1>1 DEF AtWork, Working
  <2>2. KnowsTable(s, ses[s], flushed[s])
    BY <1>1, <2>1 DEF SInv
  <2>3. r.step \in Succeeded(rows)
    BY <1>1 DEF Succeeded
  <2> QED BY <2>2, <2>3 DEF KnowsTable
<1>2. SInv => CommittedNotRepeated
  BY <1>1 DEF SInv, RowsOK, CommittedNotRepeated
<1> QED BY <1>2, SerialInvariance, PTL

\* ... without continue_on_error no step is started after one has failed,
\* however many steps of its wave were still to be stored.
THEOREM FailureStops ==
  ASSUME Overlap = FALSE
  PROVE  Spec => []StopsAtFailure
<1>1. ASSUME SInv, NEW s \in Sessions, ~ses[s].goOn,
             ses[s].pc \in {"loop", "wave", "returned"},
             NEW r \in rows \cup flushed[s], r.by = s
      PROVE  r.ok
  <2>1. ses[s].pc \in AtWork
    BY <1>1 DEF AtWork, Working
  <2>2. /\ ~closed /\ ~reopened /\ RowsOK
        /\ KnowsTable(s, ses[s], flushed[s])
    BY <1>1, <2>1, InWorkFacts DEF SInv, OneAtATime
  <2>3. r \in flushed[s]
    BY <1>1, <2>2 DEF RowsOK
  <2> QED BY <1>1, <2>2, <2>3 DEF KnowsTable
<1>2. SInv => StopsAtFailure
  BY <1>1 DEF StopsAtFailure
<1> QED BY <1>2, SerialInvariance, PTL

\* ... and an execution that returns joins what each step that no other
\* depends on has produced, in this session or in an earlier one.
THEOREM OutputHasAll ==
  ASSUME Overlap = FALSE
  PROVE  Spec => []OutputsComplete
<1>1. ASSUME SInv, NEW s \in Sessions, ses[s].pc = "returned"
      PROVE  ses[s].joined = {x \in Spoken(rows \cup flushed[s]) :
                                 \A y \in Steps : x \notin deps[y]}
  <2>1. ses[s].pc \in AtWork
    BY <1>1 DEF AtWork
  <2>2. SessionOK(ses[s]) /\ KnowsTable(s, ses[s], flushed[s])
    BY <1>1, <2>1, InWorkFacts
  <2>3. ses[s].wave = {} /\ ses[s].outputs \subseteq Steps
    BY <1>1, <2>2 DEF SessionOK, SessionState
  <2>4. Spoken(rows \cup flushed[s]) \subseteq ses[s].outputs
    BY <2>2, <2>3 DEF KnowsTable, Spoken
  <2>5. ses[s].outputs = Spoken(rows \cup flushed[s])
    BY <2>2, <2>4 DEF KnowsTable
  <2>6. ses[s].joined = Terminal \cap ses[s].outputs
    BY <1>1, <2>2 DEF SessionOK
  <2> QED BY <2>3, <2>5, <2>6 DEF Terminal
<1>2. SInv => OutputsComplete
  BY <1>1 DEF OutputsComplete
<1> QED BY <1>2, SerialInvariance, PTL
=============================================================================
