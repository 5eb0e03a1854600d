------------------------------ MODULE DAGEngine ------------------------------
(***************************************************************************)
(* DAGEngine.execute for one workflow run, in every session that executes  *)
(* or resumes it, and the workflow_step_runs rows it leaves.               *)
(*                                                                         *)
(* A session is one call of execute_run or resume_run with its database    *)
(* session: what it flushes is its own until it commits, which happens     *)
(* when the engine returns or raises, or never.  Prompts and events are    *)
(* not represented; an output is empty or not, and a condition may hold    *)
(* or not when it is evaluated.                                            *)
(***************************************************************************)
EXTENDS DependencyGraphs

CONSTANTS
    Steps,        \* the workflow's steps
    Missing,      \* ids of steps that do not exist (any more)
    Conditional,  \* the steps that have a condition
    Silent,       \* the steps that may succeed with an empty output
    Graphs,       \* the values of depends_on to consider
    Sessions,     \* executions and resumes of the run
    Modes,        \* values of continue_on_error
    Overlap       \* may a resume start while another session is at work?

ASSUME EngineAssumption ==
    /\ Missing \cap Steps = {}
    /\ Conditional \subseteq Steps /\ Silent \subseteq Steps
    /\ Graphs \subseteq [Steps -> SUBSET (Steps \cup Missing)]
    /\ Modes \subseteq BOOLEAN
    /\ Overlap \in BOOLEAN

\* text: the output the row stores is not empty
Row == [step: Steps, by: Sessions, ok: BOOLEAN, text: BOOLEAN]

VARIABLES
    deps,      \* workflow_steps.depends_on
    rows,      \* committed workflow_step_runs
    flushed,   \* the rows each session has flushed and not committed
    ses,       \* the local variables of each session's execute()
    closed,    \* the run is COMPLETED: no session starts
    reopened   \* history: COMPLETED has been overwritten

vars == <<deps, rows, flushed, ses, closed, reopened>>

NewSession == [pc |-> "new", goOn |-> TRUE, pending |-> {}, completed |-> {},
               outputs |-> {}, wave |-> {}, ok |-> {}, said |-> {},
               todo |-> {}, joined |-> {}]

SessionState == [pc: {"new", "loop", "wave", "persist", "process", "returned",
                      "raised", "deadlock", "completed", "ended"},
                 goOn: BOOLEAN, pending: SUBSET Steps, completed: SUBSET Steps,
                 outputs: SUBSET Steps, wave: SUBSET Steps, ok: SUBSET Steps,
                 said: SUBSET Steps, todo: SUBSET Steps, joined: SUBSET Steps]

\* What is left of a session that is over: what it had settled.
Over(s, pc) == [NewSession EXCEPT !.pc = pc, !.goOn = ses[s].goOn,
                                  !.completed = ses[s].completed,
                                  !.outputs = ses[s].outputs]

Working == {"loop", "wave", "persist", "process"}

Live(s) == ses[s].pc \notin {"new", "completed", "ended"}

Init ==
    /\ deps \in Graphs
    /\ rows = {}
    /\ flushed = [s \in Sessions |-> {}]
    /\ ses = [s \in Sessions |-> NewSession]
    /\ closed = FALSE
    /\ reopened = FALSE

Succeeded(table) == {r.step : r \in {x \in table : x.ok}}
Spoken(table)    == {r.step : r \in {x \in table : x.text}}

\* validate_dependencies
DependenciesExist == \A x \in Steps : deps[x] \subseteq Steps

\* Mutant: the check for cycles is left out.
ValidNoCycleCheck == DependenciesExist

\* ... and detect_cycles, which module CycleDetection opens.
Valid == DependenciesExist /\ ~HasCycle(deps)

\* Mutant: a resume starts from nothing.
DoneNothing(s) == {}

\* list_completed_for_run, when the session starts
Done(s) == Succeeded(rows)

\* Mutant: a resume forgets what earlier sessions have produced.
ResumedForgets(s, goOn) ==
    [NewSession EXCEPT !.pc = "loop", !.goOn = goOn,
                       !.pending = Steps \ Done(s),
                       !.completed = Done(s)]

\* The local variables with which the loop is entered; outputs has the steps
\* whose completed_outputs is not empty.
Resumed(s, goOn) ==
    [NewSession EXCEPT !.pc = "loop", !.goOn = goOn,
                       !.pending = Steps \ Done(s),
                       !.completed = Done(s), !.outputs = Spoken(rows)]

\* Mutant: enqueue_resume accepts a run whose status is COMPLETED.
BeginReopens(s, goOn) ==
    /\ ses[s].pc = "new"
    /\ Overlap \/ \A t \in Sessions : ~Live(t)
    /\ goOn \/ \A t \in Sessions : ses[t].pc = "new"
    /\ ses' = [ses EXCEPT ![s] =
                 IF Valid
                   THEN Resumed(s, goOn)
                   ELSE [NewSession EXCEPT !.pc = "raised", !.goOn = goOn]]
    /\ UNCHANGED <<deps, rows, flushed, closed, reopened>>

\* Only the first session is an execute_run; a resume always goes on, and
\* enqueue_resume accepts any run that is not COMPLETED.
Begin(s, goOn) ==
    /\ ses[s].pc = "new" /\ ~closed
    /\ Overlap \/ \A t \in Sessions : ~Live(t)
    /\ goOn \/ \A t \in Sessions : ses[t].pc = "new"
    /\ ses' = [ses EXCEPT ![s] =
                 IF Valid
                   THEN Resumed(s, goOn)
                   ELSE [NewSession EXCEPT !.pc = "raised", !.goOn = goOn]]
    /\ UNCHANGED <<deps, rows, flushed, closed, reopened>>

\* Mutant: one completed dependency is enough.
EligibleAny(s) ==
    {x \in ses[s].pending :
        deps[x] = {} \/ deps[x] \cap ses[s].completed # {}}

\* get_ready_steps and get_skipped_steps split the steps whose dependencies
\* are all completed by their condition; the loop raises "Deadlock detected
\* in DAG" when there is none.
Eligible(s) == {x \in ses[s].pending : deps[x] \subseteq ses[s].completed}

Resolve(s) ==
    /\ ses[s].pc = "loop" /\ ses[s].pending # {}
    /\ \E skipped \in SUBSET (Eligible(s) \cap Conditional) :
          LET ready == Eligible(s) \ skipped IN
          ses' = [ses EXCEPT ![s] =
                    [@ EXCEPT !.pending = ses[s].pending \ Eligible(s),
                              !.completed = ses[s].completed \cup skipped,
                              !.wave = ready,
                              !.pc = CASE Eligible(s) = {} -> "deadlock"
                                       [] ready # {} -> "wave"
                                       [] OTHER -> "loop"]]
    /\ UNCHANGED <<deps, rows, flushed, closed, reopened>>

\* gather(): every step of the wave ends, with or without a result, which
\* may be empty.
RunWave(s) ==
    /\ ses[s].pc = "wave"
    /\ \E ok \in SUBSET ses[s].wave : \E said \in SUBSET ok :
          /\ ok \ Silent \subseteq said
          /\ ses' = [ses EXCEPT ![s] =
                       [@ EXCEPT !.pc = "persist", !.ok = ok, !.said = said,
                                 !.todo = ses[s].wave]]
    /\ UNCHANGED <<deps, rows, flushed, closed, reopened>>

\* get_step_run: the rows of step x that session s can see.
Visible(s, x) == {r \in rows \cup flushed[s] : r.step = x}

\* scalar_one_or_none raises on a second row.
PersistRaises(s, x) ==
    /\ ses[s].pc = "persist" /\ x \in ses[s].todo
    /\ \E r1, r2 \in Visible(s, x) : r1 # r2
    /\ ses' = [ses EXCEPT ![s] = Over(s, "raised")]
    /\ UNCHANGED <<deps, rows, flushed, closed, reopened>>

AlreadyStored(s, x) == \E r \in Visible(s, x) : r.ok

PersistStep(s, x) ==
    /\ ses[s].pc = "persist" /\ x \in ses[s].todo
    /\ \A r1, r2 \in Visible(s, x) : r1 = r2
    /\ flushed' = IF AlreadyStored(s, x) THEN flushed
                  ELSE [flushed EXCEPT ![s] =
                          @ \cup {[step |-> x, by |-> s, ok |-> x \in ses[s].ok,
                                   text |-> x \in ses[s].said]}]
    /\ ses' = [ses EXCEPT ![s] =
                 [@ EXCEPT !.todo = ses[s].todo \ {x},
                           !.pc = IF ses[s].todo = {x} THEN "process"
                                                     ELSE ses[s].pc]]
    /\ UNCHANGED <<deps, rows, closed, reopened>>

\* Mutants: a failed step is not settled, is tried again, is overlooked.
ProcessResultsAs(s, settled, again) ==
    /\ ses[s].pc = "process"
    /\ ses' = [ses EXCEPT ![s] =
                 [@ EXCEPT !.pc = "loop", !.wave = {}, !.ok = {}, !.said = {},
                           !.completed = ses[s].completed \cup settled,
                           !.pending = ses[s].pending \cup again,
                           !.outputs = ses[s].outputs \cup ses[s].said]]
    /\ UNCHANGED <<deps, rows, flushed, closed, reopened>>
ProcessResultsOnlyOk(s) == ProcessResultsAs(s, ses[s].ok, {})
ProcessResultsRetries(s) ==
    ProcessResultsAs(s, ses[s].ok, ses[s].wave \ ses[s].ok)
ProcessResultsGoesOn(s) == ProcessResultsAs(s, ses[s].wave, {})

ProcessResults(s) ==
    /\ ses[s].pc = "process"
    /\ ses[s].goOn \/ ses[s].ok = ses[s].wave
    /\ ses' = [ses EXCEPT ![s] =
                 [@ EXCEPT !.pc = "loop", !.wave = {}, !.ok = {}, !.said = {},
                           !.completed = ses[s].completed \cup ses[s].wave,
                           !.outputs = ses[s].outputs \cup ses[s].said]]
    /\ UNCHANGED <<deps, rows, flushed, closed, reopened>>

\* continue_on_error is off: fail_committed, and the engine raises.
StopOnError(s) ==
    /\ ses[s].pc = "process" /\ ~ses[s].goOn /\ ses[s].ok # ses[s].wave
    /\ rows' = rows \cup flushed[s]
    /\ flushed' = [flushed EXCEPT ![s] = {}]
    /\ ses' = [ses EXCEPT ![s] = Over(s, "raised")]
    /\ UNCHANGED <<deps, closed, reopened>>

\* terminal_steps
Terminal == {x \in Steps : \A y \in Steps : x \notin deps[y]}

\* final_output joins the outputs of the terminal steps that are not empty.
Return(s) ==
    /\ ses[s].pc = "loop" /\ ses[s].pending = {}
    /\ ses' = [ses EXCEPT ![s] = [@ EXCEPT !.pc = "returned",
                                           !.joined = Terminal \cap ses[s].outputs]]
    /\ UNCHANGED <<deps, rows, flushed, closed, reopened>>

\* commit_complete or fail_with_error commits all the session has flushed.
Commit(s) ==
    /\ ses[s].pc \in {"returned", "raised", "deadlock"}
    /\ rows' = rows \cup flushed[s]
    /\ flushed' = [flushed EXCEPT ![s] = {}]
    /\ closed' = (closed \/ ses[s].pc = "returned")
    /\ ses' = [ses EXCEPT ![s] =
                 Over(s, IF ses[s].pc = "returned" THEN "completed" ELSE "ended")]
    /\ UNCHANGED <<deps, reopened>>

\* A cancel that read the run before it was COMPLETED writes CANCELED over it,
\* and so does FAILED the recovery from a refresh that fails after the commit
\* in commit_complete.
Overwrite ==
    /\ closed
    /\ closed' = FALSE
    /\ reopened' = TRUE
    /\ UNCHANGED <<deps, rows, flushed, ses>>

\* The run was canceled, the session broke, or the process died.
Rollback(s) ==
    /\ Live(s)
    /\ flushed' = [flushed EXCEPT ![s] = {}]
    /\ ses' = [ses EXCEPT ![s] = Over(s, "ended")]
    /\ UNCHANGED <<deps, rows, closed, reopened>>

EngineStep(s) ==
    \/ Resolve(s) \/ RunWave(s) \/ ProcessResults(s)
    \/ StopOnError(s) \/ Return(s) \/ Commit(s)
    \/ \E x \in Steps : PersistRaises(s, x) \/ PersistStep(s, x)

Next == \/ Overwrite
        \/ \E s \in Sessions : \/ EngineStep(s) \/ Rollback(s)
                               \/ \E goOn \in Modes : Begin(s, goOn)

Spec == Init /\ [][Next]_vars

\* The event loop keeps running a session, and model providers answer or
\* time out.
Fairness == \A s \in Sessions : WF_vars(EngineStep(s))

FairSpec == Spec /\ Fairness
-----------------------------------------------------------------------------
(* Properties *)

\* Well formed; results belong to the wave, and what is pending is neither
\* in it nor settled.
TypeOK ==
    /\ deps \in Graphs
    /\ rows \subseteq Row
    /\ flushed \in [Sessions -> SUBSET Row]
    /\ ses \in [Sessions -> SessionState]
    /\ closed \in BOOLEAN /\ reopened \in BOOLEAN
    /\ \A s \in Sessions :
          /\ ses[s].ok \subseteq ses[s].wave /\ ses[s].said \subseteq ses[s].ok
          /\ ses[s].todo \subseteq ses[s].wave
          /\ ses[s].pc # "persist" => ses[s].todo = {}
          /\ ses[s].pc \notin {"persist", "process"} => ses[s].ok = {}
          /\ ses[s].pending \cap (ses[s].wave \cup ses[s].completed) = {}

\* Once a session is past the validation, each step is pending, in the wave
\* or settled: the loop loses none, so it returns only with all settled.
NoStepLost ==
    \A s \in Sessions : ses[s].pc \in Working \cup {"returned"} =>
        /\ Steps = ses[s].pending \cup ses[s].wave \cup ses[s].completed
        /\ ses[s].pc \in {"loop", "returned"} => ses[s].wave = {}
        /\ ses[s].pc = "returned" => ses[s].completed = Steps

\* The check for a deadlock inside the loop never fires: a workflow that
\* passed validation always has an eligible step, whatever failed, was
\* skipped by its condition or was completed by an earlier session.
NeverDeadlocks == \A s \in Sessions : ses[s].pc # "deadlock"

\* get_step_run meets two rows of a step only in a run whose COMPLETED has
\* been overwritten.  A resume may store a second row next to a FAILED one,
\* but then it commits COMPLETED with it, so no later session reads the two.
\* After an overwrite and a resume one does: MultipleResultsFound fails it,
\* and every resume after it in which that step runs.
RowsReadable ==
    ~reopened => \A s \in Sessions : ses[s].pc = "persist" =>
        \A x \in ses[s].todo : \A r1, r2 \in Visible(s, x) : r1 = r2

\* A step is executed to success at most once as far as the table tells, and
\* what one session has committed as COMPLETED no other executes again.
CommittedNotRepeated ==
    /\ \A r1, r2 \in rows : r1.step = r2.step /\ r1.ok /\ r2.ok => r1 = r2
    /\ \A s \in Sessions : \A r \in rows :
          r.ok /\ r.by # s /\ ses[s].pc \in {"wave", "persist", "process"}
          => r.step \notin ses[s].wave

\* With continue_on_error off, a session starts nothing after a failed step.
StopsAtFailure ==
    \A s \in Sessions : ~ses[s].goOn /\ ses[s].pc \in {"loop", "wave", "returned"} =>
        \A r \in rows \cup flushed[s] : r.by = s => r.ok

\* The output joins what each step that no other depends on has produced, in
\* this session or in an earlier one that committed, whatever other sessions
\* have failed, lost or overwritten.
OutputsComplete ==
    \A s \in Sessions : ses[s].pc = "returned" =>
        ses[s].joined = {x \in Spoken(rows \cup flushed[s]) :
                            \A y \in Steps : x \notin deps[y]}

\* A session settles steps in the order of their dependencies, and returns
\* only with all of them settled.
Phase(pc) == CASE pc = "new" -> "new"
               [] pc \in Working -> "running"
               [] pc \in {"returned", "completed"} -> "done"
               [] pc \in {"raised", "deadlock", "ended"} -> "aborted"

Settled == [s \in Sessions |-> ses[s].completed]
Phases  == [s \in Sessions |-> Phase(ses[s].pc)]

Abstract == INSTANCE TopologicalOrder WITH
    Executions <- Sessions, graph <- deps, settled <- Settled, phase <- Phases

DependencyOrder == Abstract!Spec

\* Every execution ends, returned or raised, whatever its steps do.
ExecutionsEnd == \A s \in Sessions : Live(s) ~> ~Live(s)
=============================================================================
