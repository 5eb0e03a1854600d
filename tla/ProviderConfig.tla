--------------------------- MODULE ProviderConfig ---------------------------
(***************************************************************************)
(* The configuration of the model providers of one kind (chat or           *)
(* embeddings): its rows in provider_configs, the copy each API process    *)
(* keeps in memory, the updates that change both, the requests that merely *)
(* load it, and the seeding of a process that starts.                      *)
(*                                                                         *)
(* A process is an event loop: between two awaits nobody else touches its  *)
(* memory, and a step is a statement with the code up to the next one.  An *)
(* update saves row by row; the UPDATE of a row is flushed by the next     *)
(* statement, takes the row's lock and has the columns that differ from    *)
(* the row as it was selected.                                             *)
(***************************************************************************)
EXTENDS Naturals, Sequences, FiniteSets

CONSTANTS
    Processes,   \* API processes
    Requests,    \* requests that load or update the configuration
    Order,       \* the providers in the order of the enum
    Keyed,       \* those with an API key, which is encrypted anew each time
    Default,     \* settings.CHAT_PROVIDER
    Models,      \* values of the other columns
    DefaultModel,
    None,
    MaxBegun     \* bound: requests begun in a behaviour

Items     == DOMAIN Order
Configured == {Order[i] : i \in Items}
Actors    == Requests \cup Processes

ASSUME ConfigAssumption ==
    /\ Order \in Seq(Configured) /\ Order # <<>>
    /\ \A i, j \in Items : Order[i] = Order[j] => i = j
    /\ Keyed \subseteq Configured /\ Default \in Configured
    /\ DefaultModel \in Models
    /\ None \notin Models \cup Configured \cup Processes
    /\ Requests \cap Processes = {}
    /\ MaxBegun \in Nat

\* A configuration; without a model it stands for a row that is not there.
Config  == [active: BOOLEAN, model: Models]
Missing == [active |-> FALSE, model |-> None]
MaybeConfig == Config \cup {Missing}

VARIABLES
    rows,        \* provider_configs, committed
    memory,      \* chat_configs of each process
    mine,        \* rows an actor's transaction has written and not committed
    act,         \* the local state of each request and of each startup
    overlapped,  \* history: requests that met a related one
    begun        \* requests so far

configVars == <<rows, memory, mine, act, overlapped, begun>>

\* __init__: what settings say.
FromSettings == [p \in Configured |-> [active |-> p = Default, model |-> DefaultModel]]
NoRows       == [p \in Configured |-> Missing]

Rest == [pc |-> "rest", home |-> None, op |-> "read", target |-> None,
         model |-> None, at |-> 1, seen |-> Missing, want |-> Missing]
ActState ==
    [pc: {"rest", "load", "select", "flush", "commit", "up"},
     home: Processes \cup {None}, op: {"read", "update", "reject", "seed"},
     target: Configured \cup {None}, model: Models \cup {None}, at: Items,
     seen: MaybeConfig, want: MaybeConfig]

ConfigInit ==
    /\ rows       = NoRows
    /\ memory     = [x \in Processes |-> FromSettings]
    /\ mine       = [a \in Actors |-> NoRows]
    /\ act        = [a \in Actors |-> Rest]
    /\ overlapped = {}
    /\ begun      = 0

\* Mutant: each update saves the provider it activates first.
TargetFirst(a) ==
    LET t == CHOOSE i \in Items : act[a].target \in {None, Order[i]}
    IN  Order[((act[a].at + t - 2) % Len(Order)) + 1]

\* The row the actor has come to.
Item(a) == Order[act[a].at]

Goes(a, pc) == act' = [act EXCEPT ![a].pc = pc]

\* The loop goes on behind the row, or is through.
NextItem(a, end) ==
    LET state == [act[a] EXCEPT !.seen = Missing, !.want = Missing]
    IN  act' = [act EXCEPT ![a] = IF state.at < Len(Order)
                                  THEN [state EXCEPT !.pc = "select", !.at = act[a].at + 1]
                                  ELSE [state EXCEPT !.pc = end]]

Held(a, p)   == mine[a][p] # Missing
Free(a, p)   == \A b \in Actors \ {a} : ~Held(b, p)
Committed(a) == [p \in Configured |-> IF Held(a, p) THEN mine[a][p] ELSE rows[p]]
Released(a)  == mine' = [mine EXCEPT ![a] = NoRows]

-----------------------------------------------------------------------------
(* Startup: seed_defaults, then load_from_db *)

Start(x) ==
    /\ act[x].pc = "rest"
    /\ act' = [act EXCEPT ![x] = [Rest EXCEPT !.pc = "select", !.home = x, !.op = "seed"]]
    /\ memory' = [memory EXCEPT ![x] = FromSettings]
    /\ UNCHANGED <<rows, mine, overlapped, begun>>

SeedSelect(x) ==
    /\ act[x].pc = "select" /\ act[x].op = "seed"
    /\ IF rows[Item(x)] = Missing
       THEN act' = [act EXCEPT ![x].pc = "flush", ![x].want = memory[x][Item(x)]]
       ELSE NextItem(x, IF mine[x] = NoRows THEN "load" ELSE "commit")
    /\ UNCHANGED <<rows, memory, mine, overlapped, begun>>

\* INSERT waits for another insert of the key; once that is committed, the
\* unique constraint ends the startup.
SeedInsert(x) ==
    /\ act[x].pc = "flush" /\ act[x].op = "seed" /\ Free(x, Item(x))
    /\ IF rows[Item(x)] = Missing
       THEN /\ mine' = [mine EXCEPT ![x][Item(x)] = act[x].want]
            /\ NextItem(x, "commit")
       ELSE /\ Released(x)
            /\ act' = [act EXCEPT ![x] = Rest]
    /\ UNCHANGED <<rows, memory, overlapped, begun>>

SeedCommit(x) ==
    /\ act[x].pc = "commit" /\ act[x].op = "seed"
    /\ rows' = Committed(x) /\ Released(x)
    /\ Goes(x, "load")
    /\ UNCHANGED <<memory, overlapped, begun>>

-----------------------------------------------------------------------------
(* Requests *)

Serving(x) == act[x].pc = "up"

\* Two loads or updates of one process, or two updates of any.
Related(op, x, b) ==
    /\ b \in Requests /\ act[b].pc # "rest"
    /\ act[b].home = x \/ {op, act[b].op} = {"update"}

\* A GET, or the dependency of a request that needs the providers, loads; an
\* update loads first.  "reject" is an update with a dimension that is not
\* positive.
Begin(q, x, op, target, model) ==
    /\ act[q].pc = "rest" /\ Serving(x)
    /\ begun < MaxBegun /\ begun' = begun + 1
    /\ op = "read" => target = None /\ model = None
    /\ act' = [act EXCEPT ![q] = [Rest EXCEPT !.pc = "load", !.home = x, !.op = op,
                                              !.target = target, !.model = model]]
    /\ LET met == {b \in Requests \ {q} : Related(op, x, b)}
       IN  overlapped' = (overlapped \ {q}) \cup met \cup {r \in {q} : met # {}}
    /\ UNCHANGED <<rows, memory, mine>>

\* The provider an update is about: the one it names, or the active one.
Subjects(a, configs) ==
    IF act[a].target # None THEN {act[a].target}
    ELSE {Order[i] : i \in {j \in Items : /\ configs[Order[j]].active
                                          /\ \A k \in Items : configs[Order[k]].active => j <= k}}

\* Mutant: the update does not load what other processes have saved.
LoadedNothing(a) == memory[act[a].home]

\* load_from_db: a row replaces the entry of its provider.
Loaded(a) == [p \in Configured |-> IF rows[p] = Missing
                                  THEN memory[act[a].home][p] ELSE rows[p]]

\* The columns of the payload, and for an accepted one the switch.
Edited(a, configs, subject) ==
    [p \in Configured |->
        [active |-> IF act[a].op = "update" THEN p = subject ELSE configs[p].active,
         model  |-> IF p = subject /\ act[a].model # None
                    THEN act[a].model ELSE configs[p].model]]

\* load_from_db, and what follows it without an await.
Load(a) ==
    /\ act[a].pc = "load"
    /\ LET subjects == IF act[a].op \in {"update", "reject"}
                       THEN Subjects(a, Loaded(a)) ELSE {}
       IN /\ memory' = [memory EXCEPT ![act[a].home] =
                 IF subjects = {} THEN Loaded(a)
                 ELSE Edited(a, Loaded(a), CHOOSE p \in subjects : TRUE)]
          /\ act' = [act EXCEPT ![a] =
                 IF act[a].op = "seed" THEN [Rest EXCEPT !.pc = "up", !.home = a]
                 ELSE IF act[a].op = "update" /\ subjects # {}
                      THEN [@ EXCEPT !.pc = "select"]
                      ELSE Rest]
    /\ UNCHANGED <<rows, mine, overlapped, begun>>

\* _save_all_chat, _save_all_embeddings: get the row and give it what is in
\* memory by now, ...
Select(q) ==
    /\ act[q].pc = "select" /\ act[q].op = "update"
    /\ act' = [act EXCEPT ![q].pc = "flush", ![q].seen = rows[Item(q)],
                          ![q].want = memory[act[q].home][Item(q)]]
    /\ UNCHANGED <<rows, memory, mine, overlapped, begun>>

\* ... and the next statement flushes what has changed.
Differs(q) == act[q].want # act[q].seen \/ Item(q) \in Keyed

Column(q, c) ==
    IF act[q].want[c] = act[q].seen[c] THEN rows[Item(q)][c] ELSE act[q].want[c]

Flush(q) ==
    /\ act[q].pc = "flush" /\ act[q].op = "update"
    /\ IF Differs(q)
       THEN /\ Free(q, Item(q))
            /\ mine' = [mine EXCEPT ![q][Item(q)] =
                           [active |-> Column(q, "active"), model |-> Column(q, "model")]]
       ELSE UNCHANGED mine
    /\ NextItem(q, "commit")
    /\ UNCHANGED <<rows, memory, overlapped, begun>>

Commit(q) ==
    /\ act[q].pc = "commit" /\ act[q].op = "update"
    /\ rows' = Committed(q) /\ Released(q)
    /\ act' = [act EXCEPT ![q] = Rest]
    /\ UNCHANGED <<memory, overlapped, begun>>

\* The database fails the request: what it did to the memory stays.
Breaks(q) ==
    /\ act[q].pc \in {"load", "select", "flush", "commit"}
    /\ Released(q)
    /\ act' = [act EXCEPT ![q] = Rest]
    /\ UNCHANGED <<rows, memory, overlapped, begun>>

-----------------------------------------------------------------------------
StartupStep(x) ==
    Start(x) \/ SeedSelect(x) \/ SeedInsert(x) \/ SeedCommit(x) \/ Load(x)

RequestStep(q) ==
    Load(q) \/ Select(q) \/ Flush(q) \/ Commit(q)

User(q) ==
    \E x \in Processes, op \in {"read", "update", "reject"},
       target \in Configured \cup {None}, model \in Models \cup {None} :
          Begin(q, x, op, target, model)

ConfigNext ==
    \/ \E x \in Processes : StartupStep(x)
    \/ \E q \in Requests : User(q) \/ RequestStep(q) \/ Breaks(q)

ConfigSpec == ConfigInit /\ [][ConfigNext]_configVars
-----------------------------------------------------------------------------
(* Properties *)

\* Only who saves or seeds has written what it has not committed.
ConfigTypeOK ==
    /\ rows \in [Configured -> MaybeConfig]
    /\ memory \in [Processes -> [Configured -> Config]]
    /\ mine \in [Actors -> [Configured -> MaybeConfig]]
    /\ act \in [Actors -> ActState] /\ overlapped \subseteq Requests
    /\ begun \in 0..MaxBegun
    /\ \A a \in Actors, i \in Items :
          Held(a, Order[i]) => act[a].pc \in {"select", "flush", "commit"}

\* An update that nothing related overlaps does exactly what was asked,
\* whatever the process had in memory before, updates of other processes,
\* rejected ones and failed ones included: it changes the provider it is
\* about, makes that one the only active one, and gives every other row back
\* as it was.
SoloUpdateIsExact ==
    [][\A q \in Requests : Commit(q) /\ q \notin overlapped =>
          \E s \in Subjects(q, rows) :
             rows' = [p \in Configured |->
                         [active |-> p = s,
                          model  |-> IF p = s /\ act[q].model # None
                                     THEN act[q].model ELSE rows[p].model]]]_configVars

\* Updates and startups lock the rows in one order, so that no set of them
\* waits for each other.
WaitsFor(a, b) ==
    /\ a # b /\ act[a].pc = "flush" /\ Held(b, Item(a))
    /\ act[a].op = "update" => Differs(a)

NoLockCycle ==
    ~\E S \in SUBSET Actors : S # {} /\ \A a \in S : \E b \in S : WaitsFor(a, b)
=============================================================================
