-------------------------- MODULE ProviderFailover --------------------------
(***************************************************************************)
(* Calls of the model providers by concurrent requests of one process:     *)
(* run_with_failover, the circuit breaker the requests share, the retries  *)
(* of a workflow step around it, and streamed answers, which walk the same *)
(* chain without the breaker.                                              *)
(*                                                                         *)
(* A call of a provider is the only await: a step of a caller is the       *)
(* return of its call and all the code up to the next call.  Backoff only  *)
(* delays.  The breaker's deadlines are kept as the time that is left.     *)
(***************************************************************************)
EXTENDS Naturals, Sequences, FiniteSets

CONSTANTS
    Callers,     \* coroutines that may be calling providers at once
    Chain,       \* CHAT_PROVIDER_CHAIN (or EMBEDDING_PROVIDER_CHAIN), parsed
    MaxRetries,  \* PROVIDER_MAX_RETRIES
    Threshold,   \* PROVIDER_FAILURE_THRESHOLD
    Cooldown,    \* PROVIDER_COOLDOWN_SECONDS, in ticks of the clock
    MaxTries     \* max_retries of a workflow step

Positions == DOMAIN Chain
Providers == {Chain[i] : i \in Positions}

\* _parse_chain drops repeated names.
ASSUME FailoverAssumption ==
    /\ Chain \in Seq(Providers)
    /\ \A i, j \in Positions : Chain[i] = Chain[j] => i = j
    /\ MaxRetries \in Nat
    /\ {Threshold, Cooldown, MaxTries} \subseteq Nat \ {0}

VARIABLES
    failures,    \* ProviderCircuitBreaker._failures
    cooling,     \* what is left of _cooldowns: healthy when it is 0
    lost,        \* history: rounds lost since the provider's last success
    caller       \* the local state of each coroutine

failoverVars == <<failures, cooling, lost, caller>>

\* What a call may raise, and what classify_provider_error makes of it.
Raised == {"timeout", "connect", "network", "http402", "http429", "http5xx",
           "http401", "http4xx", "http", "lookup", "other"}

Category(exc) ==
    CASE exc = "timeout"                            -> "timeout"
      [] exc \in {"connect", "network", "http5xx", "http"} -> "unavailable"
      [] exc = "http402"                            -> "quota"
      [] exc = "http429"                            -> "rate_limit"
      [] exc = "http401"                            -> "authentication"
      [] exc = "http4xx"                            -> "invalid_request"
      [] OTHER                                      -> "response_error"

Categories == {Category(exc) : exc \in Raised}

Retryable(category) == category \in {"rate_limit", "quota", "timeout", "unavailable"}

\* A quota error is retryable for the chain, but not on the same provider.
WorthRepeating(category) == Retryable(category) /\ category # "quota"

Kinds == {"call", "step", "stream"}
Idle  == [pc |-> "idle", kind |-> "call", avail |-> {}, at |-> 0, retry |-> 0,
          tries |-> 0, failed |-> {}, spoke |-> FALSE]
CallerState ==
    [pc: {"idle", "calling", "answered", "raised"}, kind: Kinds,
     avail: SUBSET Positions, at: Positions \cup {0}, retry: 0..MaxRetries,
     tries: 0..MaxTries, failed: SUBSET Positions, spoke: BOOLEAN]

FailoverInit ==
    /\ failures = [p \in Providers |-> 0]
    /\ cooling  = [p \in Providers |-> 0]
    /\ lost     = [p \in Providers |-> 0]
    /\ caller   = [c \in Callers |-> Idle]

Provider(c) == Chain[caller[c].at]
Healthy(p)  == cooling'[p] = 0

\* Mutant: every provider of the chain gets a call.
ReachableAnyway(avail, i, kind) == {j \in avail : j > i}

\* The attempts after position i that get a call; a stream has no breaker.
Reachable(avail, i, kind) ==
    {j \in avail : j > i /\ (kind = "stream" \/ Healthy(Chain[j]))}

\* A result or an exception leaves the loop and its local state behind.
Ends(pc, state) ==
    [Idle EXCEPT !.pc = pc, !.kind = state.kind, !.tries = state.tries]

Raise(state) == Ends("raised", state)

\* The loop goes on behind position i: attempts in cooldown are noted as
\* failures, the first other one is called, and without one it raises
\* AllProvidersFailedError.  state has all failures up to i.
GoesOn(c, i, state) ==
    LET next   == Reachable(state.avail, i, state.kind)
        passed == {j \in state.avail : j > i /\ \A k \in next : j < k}
        record == [state EXCEPT !.retry = 0, !.failed = @ \cup passed]
    IN  IF next = {}
        THEN caller' = [caller EXCEPT ![c] = Raise(state)]
        ELSE \E j \in next :
                /\ \A k \in next : j <= k
                /\ caller' = [caller EXCEPT ![c] =
                                 [record EXCEPT !.pc = "calling", !.at = j]]

-----------------------------------------------------------------------------
(* The breaker *)

BreakerUnchanged == UNCHANGED <<failures, cooling, lost>>

\* Mutant: a success ends the cooldown and forgets no failure.
SuccessKeepsCount(p) ==
    /\ failures' = failures
    /\ cooling'  = [cooling EXCEPT ![p] = 0]
    /\ lost'     = [lost EXCEPT ![p] = 0]

\* Mutant: the pop of _cooldowns clears it for all.
SuccessClearsAll(p) ==
    /\ failures' = [failures EXCEPT ![p] = 0]
    /\ cooling'  = [q \in Providers |-> 0]
    /\ lost'     = [lost EXCEPT ![p] = 0]

Success(p) ==
    /\ failures' = [failures EXCEPT ![p] = 0]
    /\ cooling'  = [cooling EXCEPT ![p] = 0]
    /\ lost'     = [lost EXCEPT ![p] = 0]

Failure(p) ==
    LET opens == failures[p] + 1 >= Threshold IN
    /\ failures' = [failures EXCEPT ![p] = IF opens THEN 0 ELSE @ + 1]
    /\ cooling'  = [cooling EXCEPT ![p] = IF opens THEN Cooldown ELSE @]
    /\ lost'     = [lost EXCEPT ![p] = IF @ < Threshold THEN @ + 1 ELSE @]

\* Time passes; what matters is how it moves towards the deadlines.
Tick ==
    /\ \E p \in Providers : cooling[p] > 0
    /\ cooling' = [p \in Providers |-> IF cooling[p] = 0 THEN 0 ELSE cooling[p] - 1]
    /\ UNCHANGED <<failures, lost, caller>>

-----------------------------------------------------------------------------
(* run_with_failover *)

\* The attempts are the configurations with a model and a key, and for
\* Ollama a server that answers; a health check has a single one.
Begins(c, kind, tries) ==
    \E avail \in SUBSET Positions :
        GoesOn(c, 0, [Idle EXCEPT !.kind = kind, !.avail = avail, !.tries = tries])

Request(c) ==
    /\ caller[c].pc = "idle" /\ BreakerUnchanged
    /\ \E kind \in Kinds : Begins(c, kind, 0)

Calling(c) == caller[c].pc = "calling" /\ caller[c].kind # "stream"

Succeeds(c) ==
    /\ Calling(c)
    /\ Success(Provider(c))
    /\ caller' = [caller EXCEPT ![c] = Ends("answered", @)]

\* Mutant: the count of retries starts over.
RepeatsForever(c, e) ==
    /\ Calling(c) /\ WorthRepeating(e)
    /\ caller' = [caller EXCEPT ![c].retry = (@ + 1) % (MaxRetries + 1)]
    /\ BreakerUnchanged

Repeats(c, e) ==
    /\ Calling(c) /\ WorthRepeating(e) /\ caller[c].retry < MaxRetries
    /\ caller' = [caller EXCEPT ![c].retry = @ + 1]
    /\ BreakerUnchanged

\* The round is lost: one failure for the breaker, then the next provider.
FailsOver(c, e) ==
    /\ Calling(c) /\ Retryable(e)
    /\ WorthRepeating(e) => caller[c].retry = MaxRetries
    /\ Failure(Provider(c))
    /\ GoesOn(c, caller[c].at, [caller[c] EXCEPT !.failed = @ \cup {caller[c].at}])

\* An error that another provider would not cure is raised at once.
GivesUp(c, e) ==
    /\ Calling(c) /\ ~Retryable(e)
    /\ caller' = [caller EXCEPT ![c] = Raise(@)]
    /\ BreakerUnchanged

\* AIExecutor: any exception costs one of the step's tries.
TriesAgain(c) ==
    /\ caller[c].pc = "raised" /\ caller[c].kind = "step"
    /\ caller[c].tries + 1 < MaxTries
    /\ BreakerUnchanged
    /\ Begins(c, "step", caller[c].tries + 1)

\* The caller has its answer, or no try is left.
Over(c) ==
    \/ caller[c].pc = "answered"
    \/ caller[c].pc = "raised" /\ (caller[c].kind = "step" => caller[c].tries + 1 >= MaxTries)

Leaves(c) ==
    /\ Over(c)
    /\ caller' = [caller EXCEPT ![c] = Idle]
    /\ BreakerUnchanged

-----------------------------------------------------------------------------
(* stream_chat_response *)

Streaming(c) == caller[c].pc = "calling" /\ caller[c].kind = "stream"

Token(c) ==
    /\ Streaming(c)
    /\ caller' = [caller EXCEPT ![c].spoke = TRUE]
    /\ BreakerUnchanged

StreamEnds(c) ==
    /\ Streaming(c)
    /\ caller' = [caller EXCEPT ![c] = Ends("answered", @)]
    /\ BreakerUnchanged

\* After the first token nothing is retried: partial_generation.
StreamFails(c, e) ==
    /\ Streaming(c) /\ BreakerUnchanged
    /\ IF caller[c].spoke \/ ~Retryable(e)
       THEN caller' = [caller EXCEPT ![c] = Raise(@)]
       ELSE GoesOn(c, caller[c].at,
                   [caller[c] EXCEPT !.failed = @ \cup {caller[c].at}])

-----------------------------------------------------------------------------
\* What the event loop brings forward without anybody's doing.
CallerStep(c) ==
    \/ Succeeds(c) \/ TriesAgain(c)
    \/ \E e \in Categories : Repeats(c, e) \/ FailsOver(c, e) \/ GivesUp(c, e)

StreamStep(c) == Token(c) \/ StreamEnds(c) \/ \E e \in Categories : StreamFails(c, e)

FailoverNext ==
    \/ \E c \in Callers : Request(c) \/ CallerStep(c) \/ StreamStep(c) \/ Leaves(c)
    \/ Tick

FailoverSpec == FailoverInit /\ [][FailoverNext]_failoverVars

\* The clients have timeouts, so each call returns; and the clock goes on.
FailoverFairness ==
    /\ \A c \in Callers : WF_failoverVars(CallerStep(c))
    /\ WF_failoverVars(Tick)

FairFailoverSpec == FailoverSpec /\ FailoverFairness
-----------------------------------------------------------------------------
(* Properties *)

\* The local state of a request accounts for the chain: every available
\* attempt before the current one is among its failures (the basis of
\* fallback_used), no later one is unless all are, and only a stream speaks.
CallerOK(c) ==
    /\ caller[c] \in CallerState
    /\ caller[c].pc = "calling" =>
          /\ caller[c].at \in caller[c].avail
          /\ caller[c].failed = {j \in caller[c].avail : j < caller[c].at}
    /\ caller[c].spoke => Streaming(c)

FailoverTypeOK ==
    /\ failures \in [Providers -> 0..(Threshold - 1)]
    /\ cooling \in [Providers -> 0..Cooldown]
    /\ lost \in [Providers -> 0..Threshold]
    /\ DOMAIN caller = Callers /\ \A c \in Callers : CallerOK(c)

\* The breaker opens for a reason: a provider is in cooldown only after
\* Threshold rounds of retries lost on it, by whichever requests, with no
\* success in between.
CooldownEarned ==
    \A p \in Providers :
        /\ failures[p] <= lost[p]
        /\ cooling[p] > 0 => lost[p] = Threshold

\* A cooldown ends before its time only when a request whose call of that
\* very provider was still out gets its answer; nobody is sent to the
\* provider by it or by any failure elsewhere.
OnlySuccessCloses ==
    [][\A p \in Providers :
          cooling[p] > 0 /\ cooling'[p] = 0 /\ caller' # caller =>
             \E c \in Callers : /\ Calling(c) /\ Provider(c) = p
                                /\ caller'[c].pc = "answered"]_failoverVars

\* A provider is not shut out forever: while it cools down nobody new is sent
\* to it, so that late failures may prolong the cooldown only so often.
Recovers == \A p \in Providers : cooling[p] > 0 ~> cooling[p] = 0

\* Every request other than a stream is answered or told that it failed,
\* whatever the providers do and whatever the others do to the breaker.
RequestsEnd == \A c \in Callers : Calling(c) ~> Over(c)
=============================================================================
