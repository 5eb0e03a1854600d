--------------------------- MODULE ProviderProofs ---------------------------
(***************************************************************************)
(* For every chain, threshold and number of concurrent requests: the       *)
(* breaker opens only for a reason and closes early only on a success.     *)
(* For every set of processes and of requests: the updates and startups of *)
(* the provider configuration never wait for each other in a circle, and   *)
(* an update that meets no other does what was asked (SoloInv: a process   *)
(* that is up has found every row, so that a load is one of the table).    *)
(* The two halves together keep what each of them promises.                *)
(***************************************************************************)
EXTENDS Providers, TLAPS, WellFoundedInduction

-----------------------------------------------------------------------------
(* Failover *)

CooldownOK(p) ==
    /\ failures[p] <= lost[p]
    /\ cooling[p] > 0 => lost[p] = Threshold

FailoverInv == FailoverTypeOK /\ \A p \in Providers : CooldownOK(p)

LEMMA FailoverTyped ==
    /\ Positions \subseteq Nat \ {0} /\ MaxRetries \in Nat
    /\ Threshold \in Nat \ {0} /\ Cooldown \in Nat \ {0} /\ MaxTries \in Nat \ {0}
    /\ \A i \in Positions : Chain[i] \in Providers
  BY FailoverAssumption DEF Positions, Providers

LEMMA FailoverInitInv == FailoverInit => FailoverInv
<1> SUFFICES ASSUME FailoverInit PROVE FailoverInv
  OBVIOUS
<1>1. Idle \in CallerState /\ Idle.pc = "idle" /\ ~Idle.spoke
  BY FailoverTyped DEF Idle, CallerState, Kinds
<1>2. ASSUME NEW c \in Callers PROVE CallerOK(c)
  BY <1>1 DEF FailoverInit, CallerOK
<1> QED
  BY <1>2, FailoverTyped DEF FailoverInit, FailoverInv, FailoverTypeOK, CooldownOK

\* What the three parts of a step keep.
BreakerOK ==
    /\ failures \in [Providers -> 0..(Threshold - 1)]
    /\ cooling \in [Providers -> 0..Cooldown]
    /\ lost \in [Providers -> 0..Threshold]
    /\ \A p \in Providers : CooldownOK(p)

CallersOK == DOMAIN caller = Callers /\ \A c \in Callers : CallerOK(c)

LEMMA FailoverParts == FailoverInv <=> BreakerOK /\ CallersOK
  BY DEF FailoverInv, FailoverTypeOK, BreakerOK, CallersOK

LEMMA SuccessKeeps ==
    ASSUME BreakerOK, NEW p \in Providers, Success(p)
    PROVE  BreakerOK'
  BY FailoverTyped DEF BreakerOK, Success, CooldownOK

LEMMA FailureKeeps ==
    ASSUME BreakerOK, NEW p \in Providers, Failure(p)
    PROVE  BreakerOK'
<1> DEFINE n == IF lost[p] < Threshold THEN lost[p] + 1 ELSE lost[p]
<1>1. /\ failures[p] \in 0..(Threshold - 1) /\ lost[p] \in 0..Threshold
      /\ CooldownOK(p)
  BY DEF BreakerOK
<1>2. n \in 0..Threshold /\ failures[p] + 1 <= n /\ (lost[p] = Threshold => n = Threshold)
  BY <1>1, FailoverTyped DEF CooldownOK
<1>3. lost' = [lost EXCEPT ![p] = n]
  BY DEF Failure
<1> HIDE DEF n
<1>4. CASE failures[p] + 1 >= Threshold
  <2>1. /\ failures' = [failures EXCEPT ![p] = 0]
        /\ cooling'  = [cooling EXCEPT ![p] = Cooldown]
    BY <1>4 DEF Failure
  <2>2. n = Threshold
    BY <1>1, <1>2, <1>4, FailoverTyped
  <2> QED
    BY <1>3, <2>1, <2>2, FailoverTyped DEF BreakerOK, CooldownOK
<1>5. CASE ~(failures[p] + 1 >= Threshold)
  <2>1. /\ failures' = [failures EXCEPT ![p] = failures[p] + 1]
        /\ cooling'  = cooling
    BY <1>5 DEF Failure, BreakerOK
  <2> QED
    BY <1>1, <1>2, <1>3, <1>5, <2>1, FailoverTyped DEF BreakerOK, CooldownOK
<1> QED
  BY <1>4, <1>5

LEMMA BreakerUnchangedKeeps == ASSUME BreakerOK, BreakerUnchanged PROVE BreakerOK'
  BY DEF BreakerOK, BreakerUnchanged, CooldownOK

\* A step of one caller to a state that is all right.
LEMMA CallerStepKeeps ==
    ASSUME CallersOK, NEW c \in Callers, NEW s \in CallerState,
           caller' = [caller EXCEPT ![c] = s],
           s.pc = "calling" => /\ s.at \in s.avail
                               /\ s.failed = {j \in s.avail : j < s.at},
           s.spoke => s.pc = "calling" /\ s.kind = "stream"
    PROVE  CallersOK'
<1>1. /\ caller'[c] = s /\ DOMAIN caller' = Callers
      /\ \A d \in Callers \ {c} : caller'[d] = caller[d]
  BY DEF CallersOK
<1>2. ASSUME NEW d \in Callers PROVE CallerOK(d)'
  <2>1. CASE d = c
    BY <1>1, <2>1 DEF CallerOK, Streaming
  <2>2. CASE d # c
    BY <1>1, <2>2 DEF CallersOK, CallerOK, Streaming
  <2> QED
    BY <2>1, <2>2
<1> QED
  BY <1>1, <1>2 DEF CallersOK

LEMMA EndsTyped ==
    ASSUME NEW s \in CallerState, NEW pc \in {"answered", "raised"}
    PROVE  Ends(pc, s) \in CallerState /\ Ends(pc, s).pc = pc /\ ~Ends(pc, s).spoke
<1>1. Idle \in CallerState /\ ~Idle.spoke
  BY FailoverTyped DEF Idle, CallerState, Kinds
<1> QED
  BY <1>1 DEF Ends, CallerState

\* The loop that goes on keeps the account of the attempts before the next.
LEMMA GoesOnKeeps ==
    ASSUME CallersOK, NEW c \in Callers, NEW s \in CallerState,
           NEW i \in Positions \cup {0}, GoesOn(c, i, s),
           s.failed = {j \in s.avail : j <= i}, ~s.spoke
    PROVE  CallersOK'
<1> DEFINE next   == Reachable(s.avail, i, s.kind)
           passed == {j \in s.avail : j > i /\ \A k \in next : j < k}
           record == [s EXCEPT !.retry = 0, !.failed = s.failed \cup passed]
<1>1. CASE next = {}
  <2>1. caller' = [caller EXCEPT ![c] = Ends("raised", s)]
    BY <1>1 DEF GoesOn, Raise
  <2> QED
    BY <2>1, EndsTyped, CallerStepKeeps
<1>2. CASE next # {}
  <2>1. PICK j \in next :
           /\ \A k \in next : j <= k
           /\ caller' = [caller EXCEPT ![c] = [record EXCEPT !.pc = "calling", !.at = j]]
    BY <1>2 DEF GoesOn
  <2>2. /\ s.avail \subseteq Positions /\ j \in s.avail /\ j > i
        /\ i \in Nat /\ \A k \in s.avail : k \in Nat
    BY FailoverTyped DEF CallerState, Reachable
  <2>3. s.failed \cup passed = {k \in s.avail : k < j}
    BY <2>1, <2>2 DEF Reachable
  <2> DEFINE f == s.failed \cup passed
             r == [s EXCEPT !.retry = 0, !.failed = f, !.pc = "calling", !.at = j]
  <2>4. f \in SUBSET Positions
    BY <2>2, <2>3
  <2>5. caller' = [caller EXCEPT ![c] = r]
    BY <2>1
  <2>6. f = {k \in s.avail : k < j}
    BY <2>3
  <2>7. j \in Positions /\ 0 \in 0..MaxRetries
    BY <2>2, FailoverTyped
  <2> HIDE DEF f, next
  <2>8. /\ r \in CallerState /\ r.pc = "calling" /\ r.at = j /\ r.avail = s.avail
        /\ r.failed = f /\ ~r.spoke
    BY <2>4, <2>7 DEF CallerState
  <2> HIDE DEF r
  <2> QED
    BY <2>2, <2>5, <2>6, <2>8, CallerStepKeeps
<1> QED
  BY <1>1, <1>2

LEMMA CallerTyped ==
    ASSUME CallersOK, NEW c \in Callers
    PROVE  /\ caller[c] \in CallerState /\ CallerOK(c) /\ caller[c].avail \subseteq Positions
           /\ caller[c].at \in Nat /\ \A j \in caller[c].avail : j \in Nat
           /\ caller[c].pc = "calling" => /\ caller[c].at \in Positions
                                          /\ Provider(c) \in Providers
<1>1. caller[c] \in CallerState /\ CallerOK(c)
  BY DEF CallersOK, CallerOK
<1>2. caller[c].avail \subseteq Positions /\ caller[c].at \in Positions \cup {0}
  BY <1>1 DEF CallerState
<1>3. caller[c].at \in Nat /\ \A j \in caller[c].avail : j \in Nat
  <2>1. \A i \in Positions : i \in Nat
    BY FailoverTyped
  <2> QED
    BY <1>2, <2>1
<1>4. caller[c].pc = "calling" => caller[c].at \in Positions /\ Provider(c) \in Providers
  BY <1>1, <1>2, FailoverTyped DEF CallerOK, Provider
<1> QED
  BY <1>1, <1>2, <1>3, <1>4

\* Behind the current attempt, which has failed.
LEMMA NextKeeps ==
    ASSUME CallersOK, NEW c \in Callers, caller[c].pc = "calling", ~caller[c].spoke,
           GoesOn(c, caller[c].at, [caller[c] EXCEPT !.failed = @ \cup {caller[c].at}])
    PROVE  CallersOK'
<1> DEFINE f == caller[c].failed \cup {caller[c].at}
           s == [caller[c] EXCEPT !.failed = f]
<1>1. /\ caller[c] \in CallerState /\ caller[c].at \in caller[c].avail
      /\ caller[c].failed = {j \in caller[c].avail : j < caller[c].at}
      /\ caller[c].at \in Positions
  BY CallerTyped DEF CallerOK
<1>2. f = {j \in caller[c].avail : j <= caller[c].at} /\ f \in SUBSET Positions
  BY <1>1, CallerTyped
<1>3. GoesOn(c, caller[c].at, s)
  OBVIOUS
<1> HIDE DEF f
<1>4. s \in CallerState /\ s.failed = f /\ s.avail = caller[c].avail /\ ~s.spoke
  BY <1>1, <1>2 DEF CallerState
<1> HIDE DEF s
<1> QED
  BY <1>1, <1>2, <1>3, <1>4, GoesOnKeeps

LEMMA BeginsKeeps ==
    ASSUME CallersOK, NEW c \in Callers, NEW kind \in Kinds, NEW tries \in 0..MaxTries,
           Begins(c, kind, tries)
    PROVE  CallersOK'
<1>1. Idle \in CallerState /\ ~Idle.spoke /\ Idle.failed = {}
  BY FailoverTyped DEF Idle, CallerState, Kinds
<1>2. PICK avail \in SUBSET Positions :
         GoesOn(c, 0, [Idle EXCEPT !.kind = kind, !.avail = avail, !.tries = tries])
  BY DEF Begins
<1> DEFINE s == [Idle EXCEPT !.kind = kind, !.avail = avail, !.tries = tries]
<1>3. s \in CallerState /\ ~s.spoke /\ s.failed = {} /\ s.avail = avail
  BY <1>1 DEF CallerState
<1>4. s.failed = {j \in s.avail : j <= 0}
  BY <1>3, FailoverTyped
<1>5. GoesOn(c, 0, s)
  BY <1>2
<1> HIDE DEF s
<1> QED
  BY <1>3, <1>4, <1>5, GoesOnKeeps

LEMMA EndsKeeps ==
    ASSUME CallersOK, NEW c \in Callers, NEW pc \in {"answered", "raised"},
           caller' = [caller EXCEPT ![c] = Ends(pc, caller[c])]
    PROVE  CallersOK'
  BY CallerTyped, EndsTyped, CallerStepKeeps

LEMMA FailoverStepKeeps ==
    FailoverInv /\ [FailoverNext]_failoverVars => FailoverInv'
<1> SUFFICES ASSUME BreakerOK, CallersOK, [FailoverNext]_failoverVars
             PROVE  BreakerOK' /\ CallersOK'
  <2>1. FailoverInv' <=> BreakerOK' /\ CallersOK'
    BY DEF FailoverInv, FailoverTypeOK, BreakerOK, CallersOK
  <2> QED
    BY <2>1, FailoverParts
<1>1. ASSUME NEW c \in Callers, Request(c) PROVE BreakerOK' /\ CallersOK'
  BY <1>1, BeginsKeeps, BreakerUnchangedKeeps, FailoverTyped DEF Request
<1>2. ASSUME NEW c \in Callers, Succeeds(c) PROVE BreakerOK' /\ CallersOK'
  <2>1. caller' = [caller EXCEPT ![c] = Ends("answered", caller[c])]
    BY <1>2 DEF Succeeds
  <2> QED
    BY <1>2, <2>1, CallerTyped, SuccessKeeps, EndsKeeps DEF Succeeds, Calling
<1>3. ASSUME NEW c \in Callers, NEW e \in Categories, Repeats(c, e)
      PROVE  BreakerOK' /\ CallersOK'
  <2> DEFINE n == caller[c].retry + 1
             s == [caller[c] EXCEPT !.retry = n]
  <2>1. /\ caller[c] \in CallerState /\ CallerOK(c) /\ caller[c].pc = "calling"
        /\ caller[c].kind # "stream"
    BY <1>3, CallerTyped DEF Repeats, Calling
  <2>2. n \in 0..MaxRetries
    BY <1>3, <2>1, FailoverTyped DEF Repeats, CallerState
  <2>3. caller' = [caller EXCEPT ![c] = s]
    BY <1>3 DEF Repeats, CallersOK
  <2> HIDE DEF n
  <2>4. /\ s \in CallerState /\ s.at = caller[c].at /\ s.avail = caller[c].avail
        /\ s.failed = caller[c].failed /\ ~s.spoke /\ s.pc = "calling"
    BY <2>1, <2>2 DEF CallerState, CallerOK, Streaming
  <2> HIDE DEF s
  <2>5. CallersOK'
    BY <2>1, <2>3, <2>4, CallerStepKeeps DEF CallerOK
  <2> QED
    BY <1>3, <2>5, BreakerUnchangedKeeps DEF Repeats
<1>4. ASSUME NEW c \in Callers, NEW e \in Categories, FailsOver(c, e)
      PROVE  BreakerOK' /\ CallersOK'
  <2>1. ~caller[c].spoke /\ caller[c].pc = "calling" /\ Provider(c) \in Providers
    BY <1>4, CallerTyped DEF FailsOver, Calling, CallerOK, Streaming
  <2> QED
    BY <1>4, <2>1, FailureKeeps, NextKeeps DEF FailsOver
<1>5. ASSUME NEW c \in Callers, NEW e \in Categories, GivesUp(c, e)
      PROVE  BreakerOK' /\ CallersOK'
  <2>1. caller' = [caller EXCEPT ![c] = Ends("raised", caller[c])]
    BY <1>5 DEF GivesUp, Raise
  <2> QED
    BY <1>5, <2>1, EndsKeeps, BreakerUnchangedKeeps DEF GivesUp
<1>6. ASSUME NEW c \in Callers, TriesAgain(c) PROVE BreakerOK' /\ CallersOK'
  <2>1. caller[c].tries + 1 \in 0..MaxTries
    BY <1>6, CallerTyped, FailoverTyped DEF TriesAgain, CallerState
  <2> QED
    BY <1>6, <2>1, BeginsKeeps, BreakerUnchangedKeeps DEF TriesAgain, Kinds
<1>7. ASSUME NEW c \in Callers, Leaves(c) PROVE BreakerOK' /\ CallersOK'
  <2>1. Idle \in CallerState /\ ~Idle.spoke /\ Idle.pc = "idle"
    BY FailoverTyped DEF Idle, CallerState, Kinds
  <2>2. CallersOK'
    BY <1>7, <2>1, CallerStepKeeps DEF Leaves
  <2> QED
    BY <1>7, <2>2, BreakerUnchangedKeeps DEF Leaves
<1>8. ASSUME NEW c \in Callers, Token(c) PROVE BreakerOK' /\ CallersOK'
  <2> DEFINE s == [caller[c] EXCEPT !.spoke = TRUE]
  <2>1. /\ caller[c] \in CallerState /\ CallerOK(c) /\ caller[c].pc = "calling"
        /\ caller[c].kind = "stream"
    BY <1>8, CallerTyped DEF Token, Streaming
  <2>2. caller' = [caller EXCEPT ![c] = s]
    BY <1>8 DEF Token, CallersOK
  <2>3. /\ s \in CallerState /\ s.at = caller[c].at /\ s.avail = caller[c].avail
        /\ s.failed = caller[c].failed /\ s.pc = "calling" /\ s.kind = "stream"
    BY <2>1 DEF CallerState
  <2> HIDE DEF s
  <2>4. CallersOK'
    BY <2>1, <2>2, <2>3, CallerStepKeeps DEF CallerOK
  <2> QED
    BY <1>8, <2>4, BreakerUnchangedKeeps DEF Token
<1>9. ASSUME NEW c \in Callers, StreamEnds(c) PROVE BreakerOK' /\ CallersOK'
  <2>1. caller' = [caller EXCEPT ![c] = Ends("answered", caller[c])]
    BY <1>9 DEF StreamEnds
  <2> QED
    BY <1>9, <2>1, EndsKeeps, BreakerUnchangedKeeps DEF StreamEnds
<1>10. ASSUME NEW c \in Callers, NEW e \in Categories, StreamFails(c, e)
       PROVE  BreakerOK' /\ CallersOK'
  <2>1. BreakerOK' /\ caller[c].pc = "calling"
    BY <1>10, BreakerUnchangedKeeps DEF StreamFails, Streaming
  <2>2. CASE caller[c].spoke \/ ~Retryable(e)
    <3>1. caller' = [caller EXCEPT ![c] = Ends("raised", caller[c])]
      BY <1>10, <2>2 DEF StreamFails, Raise
    <3> QED
      BY <2>1, <3>1, EndsKeeps
  <2>3. CASE ~(caller[c].spoke \/ ~Retryable(e))
    BY <1>10, <2>1, <2>3, NextKeeps DEF StreamFails
  <2> QED
    BY <2>2, <2>3
<1>11. ASSUME Tick PROVE BreakerOK' /\ CallersOK'
  <2>1. CallersOK'
    BY <1>11 DEF Tick, CallersOK, CallerOK, Streaming
  <2>2. ASSUME NEW p \in Providers
        PROVE  cooling'[p] \in 0..Cooldown /\ (cooling'[p] > 0 => cooling[p] > 0)
    BY <1>11, FailoverTyped DEF Tick, BreakerOK
  <2>3. cooling' \in [Providers -> 0..Cooldown]
    BY <1>11, <2>2 DEF Tick
  <2> QED
    BY <1>11, <2>1, <2>2, <2>3 DEF Tick, BreakerOK, CooldownOK
<1>12. CASE UNCHANGED failoverVars
  BY <1>12 DEF failoverVars, BreakerOK, CallersOK, CooldownOK, CallerOK, Streaming
<1> QED
  BY <1>1, <1>2, <1>3, <1>4, <1>5, <1>6, <1>7, <1>8, <1>9, <1>10, <1>11, <1>12
     DEF FailoverNext, CallerStep, StreamStep

THEOREM FailoverInvHolds == FailoverSpec => []FailoverInv
  BY FailoverInitInv, FailoverStepKeeps, PTL DEF FailoverSpec

\* The local state of a request accounts for the chain: what was passed over
\* or has failed is exactly what was available before the current attempt.
THEOREM FailoverTypeCorrect == FailoverSpec => []FailoverTypeOK
<1>1. FailoverInv => FailoverTypeOK
  BY DEF FailoverInv
<1> QED
  BY <1>1, FailoverInvHolds, PTL

\* Whatever the requests and their order, a provider is in cooldown only after
\* Threshold lost rounds without a success in between.
THEOREM CooldownsAreEarned == FailoverSpec => []CooldownEarned
<1>1. FailoverInv => CooldownEarned
  BY DEF FailoverInv, CooldownOK, CooldownEarned
<1> QED
  BY <1>1, FailoverInvHolds, PTL

\* A cooldown ends early only by an answer of that very provider.
THEOREM SuccessClosesOnly == FailoverSpec => OnlySuccessCloses
<1> DEFINE Closes(p) == cooling[p] > 0 /\ cooling'[p] = 0 /\ caller' # caller
           Because(p) == \E c \in Callers : /\ Calling(c) /\ Provider(c) = p
                                            /\ caller'[c].pc = "answered"
<1>1. ASSUME FailoverInv, [FailoverNext]_failoverVars, NEW p \in Providers, Closes(p)
      PROVE  Because(p)
  <2>1. BreakerOK /\ CallersOK
    BY <1>1, FailoverParts
  <2>2. ~BreakerUnchanged
    BY <1>1, <2>1, FailoverTyped DEF BreakerUnchanged, BreakerOK
  <2>3. ASSUME NEW c \in Callers, NEW e \in Categories, FailsOver(c, e) PROVE FALSE
    <3>1. Provider(c) \in Providers
      BY <2>1, <2>3, CallerTyped DEF FailsOver, Calling
    <3>2. cooling' = cooling \/ cooling' = [cooling EXCEPT ![Provider(c)] = Cooldown]
      BY <2>1, <2>3 DEF FailsOver, Failure, BreakerOK
    <3> QED
      BY <1>1, <2>1, <3>1, <3>2, FailoverTyped DEF BreakerOK
  <2>4. PICK c \in Callers : Succeeds(c)
    BY <1>1, <2>2, <2>3
       DEF FailoverNext, CallerStep, StreamStep, Request, TriesAgain, Repeats, GivesUp,
           Leaves, Token, StreamEnds, StreamFails, Tick, BreakerUnchanged, failoverVars
  <2>5. Calling(c) /\ caller'[c].pc = "answered"
    <3>1. caller'[c] = Ends("answered", caller[c])
      BY <2>1, <2>4 DEF Succeeds, CallersOK
    <3> QED
      BY <2>1, <2>4, <3>1, CallerTyped, EndsTyped DEF Succeeds
  <2>6. Provider(c) = p
    <3>1. cooling' = [cooling EXCEPT ![Provider(c)] = 0]
      BY <2>4 DEF Succeeds, Success
    <3> QED
      BY <1>1, <2>1, <3>1, FailoverTyped DEF BreakerOK
  <2> QED
    BY <2>5, <2>6
<1>2. FailoverInv /\ [FailoverNext]_failoverVars =>
         [\A p \in Providers : Closes(p) => Because(p)]_failoverVars
  BY <1>1
<1> QED
  BY <1>2, FailoverInvHolds, PTL DEF FailoverSpec, OnlySuccessCloses

-----------------------------------------------------------------------------
(* Configuration *)

\* Who has locked the row at position i is behind it in its loop.
Behind(a, i) == act[a].pc = "commit" \/ (act[a].pc \in {"select", "flush"} /\ i < act[a].at)

Locks == \A a \in Actors, i \in Items : Held(a, Order[i]) => Behind(a, i)

\* A startup only seeds, a request never does; and a row that an update has
\* selected stays there, so that the columns it does not write are those of
\* a row.
ActorOK(a) ==
    /\ a \in Processes => act[a].op \in {"read", "seed"}
    /\ a \in Requests => act[a].op # "seed" /\ act[a].pc # "up"
    /\ act[a].pc = "load" /\ a \in Processes => act[a].op = "seed"
    /\ act[a].pc # "rest" => act[a].home \in Processes
    /\ act[a].pc = "flush" => act[a].want \in Config
    /\ act[a].pc = "flush" /\ act[a].op = "update" /\ act[a].seen # Missing
          => rows[Item(a)] # Missing

ConfigTyped ==
    /\ rows \in [Configured -> MaybeConfig]
    /\ memory \in [Processes -> [Configured -> Config]]
    /\ mine \in [Actors -> [Configured -> MaybeConfig]]
    /\ act \in [Actors -> ActState] /\ overlapped \subseteq Requests
    /\ begun \in 0..MaxBegun

ConfigInv == ConfigTyped /\ Locks /\ \A a \in Actors : ActorOK(a)

LEMMA ItemsTyped ==
    /\ Len(Order) \in Nat \ {0} /\ Items = 1..Len(Order)
    /\ \A i \in Items : Order[i] \in Configured
  BY ConfigAssumption DEF Items, Configured

LEMMA ItemsDiffer == \A i, j \in Items : Order[i] = Order[j] => i = j
  BY ConfigAssumption

LEMMA ConfigsTyped ==
    /\ Missing \in MaybeConfig /\ Missing \notin Config
    /\ \A c \in MaybeConfig \ {Missing} : c \in Config
    /\ \A c \in Config : c \in MaybeConfig /\ c # Missing
    /\ FromSettings \in [Configured -> Config] /\ NoRows \in [Configured -> MaybeConfig]
  BY ConfigAssumption DEF Missing, MaybeConfig, Config, FromSettings, NoRows

LEMMA RestTyped == Rest \in ActState
  BY ItemsTyped, ConfigsTyped DEF Rest, ActState

LEMMA ConfigInitInv == ConfigInit => ConfigInv
<1> SUFFICES ASSUME ConfigInit PROVE ConfigInv
  OBVIOUS
<1>1. ConfigTyped
  BY ConfigAssumption, RestTyped, ConfigsTyped DEF ConfigInit, ConfigTyped
<1>2. Locks
  BY ItemsTyped DEF ConfigInit, Locks, Held, NoRows
<1>3. ASSUME NEW a \in Actors PROVE ActorOK(a)
  BY <1>3 DEF ConfigInit, ActorOK, Rest
<1> QED
  BY <1>1, <1>2, <1>3 DEF ConfigInv

\* Only a, which takes the state s, moves; what it holds is m, and rows, once
\* there, stay.
LEMMA ActorStepKeeps ==
    ASSUME ConfigInv, NEW a \in Actors, NEW s \in ActState,
           NEW m \in [Configured -> MaybeConfig],
           act' = [act EXCEPT ![a] = s], mine' = [mine EXCEPT ![a] = m],
           rows' \in [Configured -> MaybeConfig],
           \A p \in Configured : rows[p] # Missing => rows'[p] # Missing,
           memory' \in [Processes -> [Configured -> Config]],
           overlapped' \subseteq Requests, begun' \in 0..MaxBegun,
           ActorOK(a)', \A i \in Items : m[Order[i]] # Missing => Behind(a, i)'
    PROVE  ConfigInv'
<1>1. /\ act'[a] = s /\ mine'[a] = m
      /\ \A b \in Actors \ {a} : act'[b] = act[b] /\ mine'[b] = mine[b]
  BY DEF ConfigInv, ConfigTyped
<1>2. ConfigTyped'
  BY DEF ConfigInv, ConfigTyped
<1>3. Locks'
  <2>1. ASSUME NEW b \in Actors, NEW i \in Items, Held(b, Order[i])' PROVE Behind(b, i)'
    <3>1. CASE b = a
      BY <1>1, <2>1, <3>1 DEF Held
    <3>2. CASE b # a
      BY <1>1, <2>1, <3>2 DEF ConfigInv, Locks, Held, Behind
    <3> QED
      BY <3>1, <3>2
  <2> QED
    BY <2>1 DEF Locks
<1>4. ASSUME NEW b \in Actors PROVE ActorOK(b)'
  <2>1. CASE b # a
    <3>1. Item(b) \in Configured /\ Item(b)' = Item(b)
      BY <1>1, <2>1, ItemsTyped DEF ConfigInv, ConfigTyped, ActState, Item
    <3> QED
      BY <1>1, <2>1, <3>1 DEF ConfigInv, ActorOK
  <2> QED
    BY <2>1
<1> QED
  BY <1>2, <1>3, <1>4 DEF ConfigInv

\* What the invariant says of an actor.
LEMMA ActorTyped ==
    ASSUME ConfigInv, NEW a \in Actors
    PROVE  /\ act[a] \in ActState /\ act[a].at \in Items /\ act[a].at \in 1..Len(Order)
           /\ Item(a) \in Configured /\ mine[a] \in [Configured -> MaybeConfig]
           /\ ActorOK(a) /\ \A i \in Items : Held(a, Order[i]) => Behind(a, i)
           /\ act[a].home \in Processes => memory[act[a].home] \in [Configured -> Config]
           /\ rows[Item(a)] \in MaybeConfig
<1>1. act[a] \in ActState
  BY DEF ConfigInv, ConfigTyped
<1>2. act[a].at \in Items
  BY <1>1 DEF ActState
<1>3. act[a].at \in 1..Len(Order) /\ Item(a) \in Configured
  BY <1>2, ItemsTyped DEF Item
<1> QED
  BY <1>1, <1>2, <1>3 DEF ConfigInv, ConfigTyped, Locks

\* An actor that goes elsewhere and holds what it held.
LEMMA LocalStepKeeps ==
    ASSUME ConfigInv, NEW a \in Actors, NEW s \in ActState,
           act' = [act EXCEPT ![a] = s], mine' = mine, rows' = rows,
           memory' \in [Processes -> [Configured -> Config]],
           overlapped' \subseteq Requests, begun' \in 0..MaxBegun,
           ActorOK(a)', \A i \in Items : Held(a, Order[i]) => Behind(a, i)'
    PROVE  ConfigInv'
<1>1. /\ mine' = [mine EXCEPT ![a] = mine[a]] /\ mine[a] \in [Configured -> MaybeConfig]
      /\ rows' \in [Configured -> MaybeConfig]
  BY DEF ConfigInv, ConfigTyped
<1> QED
  BY <1>1, ActorStepKeeps DEF Held

\* An actor that is at rest, or begins, or is through, and holds nothing.
LEMMA ReleasedKeeps ==
    ASSUME ConfigInv, NEW a \in Actors, NEW s \in ActState,
           act' = [act EXCEPT ![a] = s], Released(a),
           rows' \in [Configured -> MaybeConfig],
           \A p \in Configured : rows[p] # Missing => rows'[p] # Missing,
           memory' \in [Processes -> [Configured -> Config]],
           overlapped' \subseteq Requests, begun' \in 0..MaxBegun, ActorOK(a)'
    PROVE  ConfigInv'
<1>1. mine' = [mine EXCEPT ![a] = NoRows] /\ NoRows \in [Configured -> MaybeConfig]
  BY ConfigsTyped DEF Released
<1>2. \A i \in Items : NoRows[Order[i]] = Missing
  BY ItemsTyped DEF NoRows
<1> QED
  BY <1>1, <1>2, ActorStepKeeps

\* The state of a that is behind its row.
LEMMA NextItemState ==
    ASSUME ConfigInv, NEW a \in Actors, NEW end \in {"load", "commit"}, NextItem(a, end)
    PROVE  \E s \in ActState :
              /\ act' = [act EXCEPT ![a] = s] /\ act'[a] = s
              /\ s.home = act[a].home /\ s.op = act[a].op
              /\ s.target = act[a].target /\ s.model = act[a].model
              /\ \/ s.pc = "select" /\ s.at = act[a].at + 1
                 \/ s.pc = end /\ act[a].at = Len(Order)
<1>1. act[a] \in ActState /\ act[a].at \in 1..Len(Order) /\ act[a].at \in Items
  BY ActorTyped
<1> DEFINE state == [act[a] EXCEPT !.seen = Missing, !.want = Missing]
           n == act[a].at + 1
<1>2. /\ state \in ActState /\ state.at = act[a].at
      /\ state.home = act[a].home /\ state.op = act[a].op
      /\ state.target = act[a].target /\ state.model = act[a].model
  BY <1>1, ConfigsTyped DEF ActState
<1>3. act' = [act EXCEPT ![a] = IF state.at < Len(Order)
                               THEN [state EXCEPT !.pc = "select", !.at = n]
                               ELSE [state EXCEPT !.pc = end]]
  BY DEF NextItem
<1>4. act[a].at < Len(Order) => n \in Items
  BY <1>1, ItemsTyped
<1> HIDE DEF state
<1>5. CASE act[a].at < Len(Order)
  <2> DEFINE s == [state EXCEPT !.pc = "select", !.at = n]
  <2>1. act' = [act EXCEPT ![a] = s] /\ act'[a] = s
    BY <1>2, <1>3, <1>5 DEF ConfigInv, ConfigTyped
  <2>2. n \in Items
    BY <1>4, <1>5
  <2> HIDE DEF n
  <2>3. /\ s \in ActState /\ s.pc = "select" /\ s.at = n
        /\ s.home = act[a].home /\ s.op = act[a].op
        /\ s.target = act[a].target /\ s.model = act[a].model
    BY <1>2, <2>2 DEF ActState
  <2> HIDE DEF s
  <2> QED
    BY <2>1, <2>3 DEF n
<1>6. CASE ~(act[a].at < Len(Order))
  <2> DEFINE s == [state EXCEPT !.pc = end]
  <2>1. act' = [act EXCEPT ![a] = s] /\ act'[a] = s
    BY <1>2, <1>3, <1>6 DEF ConfigInv, ConfigTyped
  <2>2. /\ s \in ActState /\ s.pc = end /\ s.home = act[a].home /\ s.op = act[a].op
        /\ s.target = act[a].target /\ s.model = act[a].model
    BY <1>2 DEF ActState
  <2>3. act[a].at = Len(Order)
    BY <1>1, <1>6, ItemsTyped
  <2> HIDE DEF s
  <2> QED
    BY <2>1, <2>2, <2>3
<1> QED
  BY <1>5, <1>6

LEMMA StartKeeps == ASSUME ConfigInv, NEW x \in Processes, Start(x) PROVE ConfigInv'
<1> DEFINE s == [Rest EXCEPT !.pc = "select", !.home = x, !.op = "seed"]
<1>1. x \in Actors /\ x \notin Requests
  BY ConfigAssumption DEF Actors
<1>2. /\ s \in ActState /\ s.pc = "select" /\ s.home = x /\ s.op = "seed"
      /\ act' = [act EXCEPT ![x] = s] /\ act'[x] = s /\ act[x].pc = "rest"
  BY <1>1, RestTyped DEF Start, ActState, ConfigInv, ConfigTyped
<1> HIDE DEF s
<1>3. memory' \in [Processes -> [Configured -> Config]]
  BY ConfigsTyped DEF Start, ConfigInv, ConfigTyped
<1>4. \A i \in Items : ~Held(x, Order[i])
  BY <1>1, <1>2, ActorTyped DEF Behind
<1>5. ActorOK(x)'
  BY <1>1, <1>2 DEF ActorOK
<1> QED
  BY <1>1, <1>2, <1>3, <1>4, <1>5, LocalStepKeeps DEF Start, ConfigInv, ConfigTyped

LEMMA SeedSelectKeeps ==
    ASSUME ConfigInv, NEW x \in Processes, SeedSelect(x) PROVE ConfigInv'
<1>1. /\ x \in Actors /\ x \notin Requests /\ act[x].pc = "select" /\ act[x].op = "seed"
      /\ UNCHANGED <<rows, memory, mine, overlapped, begun>>
  BY ConfigAssumption DEF Actors, SeedSelect
<1>2. /\ act[x] \in ActState /\ Item(x) \in Configured
      /\ \A i \in Items : Held(x, Order[i]) => i < act[x].at
      /\ act[x].home \in Processes /\ act[x].at \in 1..Len(Order)
  BY <1>1, ActorTyped DEF Behind, ActorOK
<1>3. CASE rows[Item(x)] = Missing
  <2> DEFINE w == memory[x][Item(x)]
             s == [act[x] EXCEPT !.pc = "flush", !.want = w]
  <2>1. w \in Config /\ w \in MaybeConfig
    BY <1>2, ConfigsTyped DEF ConfigInv, ConfigTyped
  <2>2. act' = [act EXCEPT ![x] = s] /\ act'[x] = s
    BY <1>1, <1>3 DEF SeedSelect, ConfigInv, ConfigTyped
  <2> HIDE DEF w
  <2>3. /\ s \in ActState /\ s.pc = "flush" /\ s.want = w /\ s.seen = act[x].seen
        /\ s.home = act[x].home /\ s.op = "seed" /\ s.at = act[x].at
    BY <1>1, <1>2, <2>1 DEF ActState
  <2> HIDE DEF s
  <2>4. ActorOK(x)'
    BY <1>1, <1>2, <1>3, <2>1, <2>2, <2>3 DEF ActorOK
  <2>5. \A i \in Items : Held(x, Order[i]) => Behind(x, i)'
    BY <1>2, <2>2, <2>3 DEF Behind
  <2> QED
    BY <1>1, <2>2, <2>3, <2>4, <2>5, LocalStepKeeps DEF ConfigInv, ConfigTyped
<1>4. CASE rows[Item(x)] # Missing
  <2> DEFINE end == IF mine[x] = NoRows THEN "load" ELSE "commit"
  <2>1. end \in {"load", "commit"} /\ NextItem(x, end)
    BY <1>4 DEF SeedSelect
  <2>2. end = "load" => \A i \in Items : ~Held(x, Order[i])
    BY ItemsTyped DEF Held, NoRows
  <2> HIDE DEF end
  <2>3. PICK s \in ActState :
          /\ act' = [act EXCEPT ![x] = s] /\ act'[x] = s
          /\ s.home = act[x].home /\ s.op = act[x].op
          /\ \/ s.pc = "select" /\ s.at = act[x].at + 1
             \/ s.pc = end
    BY <1>1, <2>1, NextItemState
  <2>4. ActorOK(x)'
    BY <1>1, <1>2, <2>1, <2>3 DEF ActorOK
  <2>5. \A i \in Items : Held(x, Order[i]) => Behind(x, i)'
    BY <1>2, <2>1, <2>2, <2>3, ItemsTyped DEF Behind
  <2> QED
    BY <1>1, <2>3, <2>4, <2>5, LocalStepKeeps DEF ConfigInv, ConfigTyped
<1> QED
  BY <1>3, <1>4

\* A row is written, and the loop goes on behind it.
LEMMA WriteKeeps ==
    ASSUME ConfigInv, NEW a \in Actors, NEW row \in MaybeConfig, act[a].pc = "flush",
           mine' = [mine EXCEPT ![a][Item(a)] = row], NextItem(a, "commit"),
           UNCHANGED <<rows, memory, overlapped, begun>>
    PROVE  ConfigInv'
<1>1. /\ Item(a) \in Configured /\ mine[a] \in [Configured -> MaybeConfig]
      /\ act[a].at \in 1..Len(Order) /\ act[a].at \in Items /\ ActorOK(a)
      /\ \A i \in Items : Held(a, Order[i]) => i < act[a].at
  BY ActorTyped DEF Behind
<1> DEFINE m == [mine[a] EXCEPT ![Item(a)] = row]
<1>2. m \in [Configured -> MaybeConfig] /\ mine' = [mine EXCEPT ![a] = m]
  BY <1>1 DEF ConfigInv, ConfigTyped
<1>3. \A i \in Items : m[Order[i]] # Missing => i <= act[a].at
  <2>1. \A i \in Items : Order[i] = Item(a) => i = act[a].at
    BY <1>1, ItemsDiffer DEF Item
  <2>2. \A i \in Items : Order[i] # Item(a) => m[Order[i]] = mine[a][Order[i]]
    BY <1>1, ItemsTyped
  <2> QED
    BY <1>1, <2>1, <2>2, ItemsTyped DEF Held
<1> HIDE DEF m
<1>4. PICK s \in ActState :
        /\ act' = [act EXCEPT ![a] = s] /\ act'[a] = s
        /\ s.home = act[a].home /\ s.op = act[a].op
        /\ \/ s.pc = "select" /\ s.at = act[a].at + 1
           \/ s.pc = "commit"
  BY NextItemState
<1>5. ActorOK(a)'
  BY <1>1, <1>4 DEF ActorOK
<1>6. \A i \in Items : m[Order[i]] # Missing => Behind(a, i)'
  BY <1>1, <1>3, <1>4, ItemsTyped DEF Behind
<1> QED
  BY <1>2, <1>4, <1>5, <1>6, ActorStepKeeps DEF ConfigInv, ConfigTyped

LEMMA SeedInsertKeeps ==
    ASSUME ConfigInv, NEW x \in Processes, SeedInsert(x) PROVE ConfigInv'
<1>1. /\ x \in Actors /\ x \notin Requests /\ act[x].pc = "flush" /\ act[x].op = "seed"
      /\ UNCHANGED <<rows, memory, overlapped, begun>>
  BY ConfigAssumption DEF Actors, SeedInsert
<1>2. CASE rows[Item(x)] = Missing
  <2>1. act[x].want \in MaybeConfig
    BY <1>1, ActorTyped, ConfigsTyped DEF ActorOK
  <2> QED
    BY <1>1, <1>2, <2>1, WriteKeeps DEF SeedInsert
<1>3. CASE rows[Item(x)] # Missing
  <2>1. act' = [act EXCEPT ![x] = Rest] /\ act'[x] = Rest /\ Released(x)
    BY <1>1, <1>3 DEF SeedInsert, ConfigInv, ConfigTyped
  <2>2. ActorOK(x)'
    BY <1>1, <2>1 DEF ActorOK, Rest
  <2> QED
    BY <1>1, <2>1, <2>2, ReleasedKeeps, RestTyped DEF ConfigInv, ConfigTyped
<1> QED
  BY <1>2, <1>3

\* What an actor commits is typed, and no row goes.
LEMMA CommittedTyped ==
    ASSUME ConfigInv, NEW a \in Actors
    PROVE  /\ Committed(a) \in [Configured -> MaybeConfig]
           /\ \A p \in Configured : rows[p] # Missing => Committed(a)[p] # Missing
<1>1. mine[a] \in [Configured -> MaybeConfig] /\ rows \in [Configured -> MaybeConfig]
  BY DEF ConfigInv, ConfigTyped
<1> QED
  BY <1>1 DEF Committed, Held

LEMMA SeedCommitKeeps ==
    ASSUME ConfigInv, NEW x \in Processes, SeedCommit(x) PROVE ConfigInv'
<1> DEFINE s == [act[x] EXCEPT !.pc = "load"]
<1>1. /\ x \in Actors /\ x \notin Requests /\ act[x].pc = "commit" /\ act[x].op = "seed"
      /\ rows' = Committed(x) /\ Released(x)
      /\ UNCHANGED <<memory, overlapped, begun>>
  BY ConfigAssumption DEF Actors, SeedCommit
<1>2. act[x] \in ActState /\ act[x].home \in Processes
  BY <1>1, ActorTyped DEF ActorOK
<1>3. /\ act' = [act EXCEPT ![x] = s] /\ act'[x] = s
      /\ s \in ActState /\ s.pc = "load" /\ s.home = act[x].home /\ s.op = "seed"
  BY <1>1, <1>2 DEF SeedCommit, Goes, ConfigInv, ConfigTyped, ActState
<1> HIDE DEF s
<1>4. ActorOK(x)'
  BY <1>1, <1>2, <1>3 DEF ActorOK
<1> QED
  BY <1>1, <1>3, <1>4, CommittedTyped, ReleasedKeeps DEF ConfigInv, ConfigTyped

LEMMA BeginKeeps ==
    ASSUME ConfigInv, NEW q \in Requests, NEW x \in Processes,
           NEW op \in {"read", "update", "reject"}, NEW target \in Configured \cup {None},
           NEW model \in Models \cup {None}, Begin(q, x, op, target, model)
    PROVE  ConfigInv'
<1> DEFINE s == [Rest EXCEPT !.pc = "load", !.home = x, !.op = op,
                             !.target = target, !.model = model]
<1>1. q \in Actors /\ q \notin Processes /\ act[q].pc = "rest"
  BY ConfigAssumption DEF Actors, Begin
<1>2. /\ s \in ActState /\ s.pc = "load" /\ s.home = x /\ s.op = op
      /\ act' = [act EXCEPT ![q] = s] /\ act'[q] = s
      /\ UNCHANGED <<rows, memory, mine>>
  BY <1>1, RestTyped DEF Begin, ActState, ConfigInv, ConfigTyped
<1> HIDE DEF s
<1>3. ActorOK(q)' /\ \A i \in Items : ~Held(q, Order[i])
  BY <1>1, <1>2, ActorTyped DEF ActorOK, Behind
<1>4. overlapped' \subseteq Requests
  BY DEF Begin, ConfigInv, ConfigTyped
<1>5. begun' \in 0..MaxBegun
  BY ConfigAssumption DEF Begin, ConfigInv, ConfigTyped
<1> QED
  BY <1>1, <1>2, <1>3, <1>4, <1>5, LocalStepKeeps DEF ConfigInv, ConfigTyped

LEMMA LoadedTyped ==
    ASSUME ConfigInv, NEW a \in Actors, act[a].home \in Processes
    PROVE  Loaded(a) \in [Configured -> Config]
<1>1. /\ memory[act[a].home] \in [Configured -> Config]
      /\ rows \in [Configured -> MaybeConfig]
  BY DEF ConfigInv, ConfigTyped
<1>2. ASSUME NEW p \in Configured
      PROVE  (IF rows[p] = Missing THEN memory[act[a].home][p] ELSE rows[p]) \in Config
  BY <1>1, ConfigsTyped
<1> QED
  BY <1>2 DEF Loaded

LEMMA EditedTyped ==
    ASSUME ConfigInv, NEW a \in Actors, NEW configs \in [Configured -> Config], NEW subject
    PROVE  Edited(a, configs, subject) \in [Configured -> Config]
<1>1. act[a].model \in Models \cup {None}
  BY ActorTyped DEF ActState
<1>2. ASSUME NEW p \in Configured
      PROVE  /\ (IF act[a].op = "update" THEN p = subject ELSE configs[p].active) \in BOOLEAN
             /\ (IF p = subject /\ act[a].model # None
                 THEN act[a].model ELSE configs[p].model) \in Models
  <2>1. configs[p].active \in BOOLEAN /\ configs[p].model \in Models
    BY DEF Config
  <2>2. (p = subject) \in BOOLEAN
    OBVIOUS
  <2> QED
    BY <1>1, <2>1, <2>2
<1> QED
  BY <1>2 DEF Edited, Config

LEMMA LoadKeeps == ASSUME ConfigInv, NEW a \in Actors, Load(a) PROVE ConfigInv'
<1>1. /\ act[a].pc = "load" /\ UNCHANGED <<rows, mine, overlapped, begun>>
      /\ act[a] \in ActState /\ act[a].home \in Processes
      /\ \A i \in Items : ~Held(a, Order[i])
  BY ActorTyped DEF Load, Behind, ActorOK
<1> DEFINE subjects == IF act[a].op \in {"update", "reject"}
                       THEN Subjects(a, Loaded(a)) ELSE {}
           chosen == CHOOSE p \in subjects : TRUE
           loaded == IF subjects = {} THEN Loaded(a) ELSE Edited(a, Loaded(a), chosen)
           up == [Rest EXCEPT !.pc = "up", !.home = a]
           selects == [act[a] EXCEPT !.pc = "select"]
           s == IF act[a].op = "seed" THEN up
                ELSE IF act[a].op = "update" /\ subjects # {} THEN selects ELSE Rest
<1>2. loaded \in [Configured -> Config]
  BY <1>1, LoadedTyped, EditedTyped
<1>3. memory' = [memory EXCEPT ![act[a].home] = loaded] /\ act' = [act EXCEPT ![a] = s]
  BY DEF Load
<1> HIDE DEF subjects
<1>4. CASE act[a].op = "seed"
  <2>1. a \in Processes
    BY <1>4, ActorTyped DEF ActorOK, Actors
  <2>2. up \in ActState /\ up.pc = "up" /\ up.home = a /\ up.op = "read"
    BY <2>1, RestTyped DEF ActState, Rest
  <2>3. a \notin Requests
    BY <2>1, ConfigAssumption
  <2> HIDE DEF up
  <2>4. act'[a] = up
    BY <1>3, <1>4 DEF ConfigInv, ConfigTyped
  <2>5. ActorOK(a)'
    BY <2>1, <2>2, <2>3, <2>4 DEF ActorOK
  <2> HIDE DEF loaded
  <2> QED
    BY <1>1, <1>2, <1>3, <1>4, <2>2, <2>5, LocalStepKeeps DEF ConfigInv, ConfigTyped
<1>5. CASE act[a].op # "seed"
  <2>1. a \in Requests /\ a \notin Processes
    BY <1>1, <1>5, ActorTyped DEF ActorOK, Actors
  <2>2. /\ selects \in ActState /\ selects.pc = "select"
        /\ selects.home = act[a].home /\ selects.op = act[a].op
    BY <1>1 DEF ActState
  <2>3. s \in {selects, Rest} /\ s \in ActState
    BY <1>5, <2>2, RestTyped
  <2> HIDE DEF s, selects
  <2>4. act'[a] = s
    BY <1>3 DEF ConfigInv, ConfigTyped
  <2>5. ActorOK(a)'
    BY <1>1, <1>5, <2>1, <2>2, <2>3, <2>4 DEF ActorOK, Rest
  <2> HIDE DEF loaded
  <2> QED
    BY <1>1, <1>2, <1>3, <2>3, <2>5, LocalStepKeeps DEF ConfigInv, ConfigTyped
<1> QED
  BY <1>4, <1>5

LEMMA SelectKeeps == ASSUME ConfigInv, NEW q \in Requests, Select(q) PROVE ConfigInv'
<1> DEFINE seen == rows[Item(q)]
           want == memory[act[q].home][Item(q)]
           s == [act[q] EXCEPT !.pc = "flush", !.seen = seen, !.want = want]
<1>1. /\ q \in Actors /\ q \notin Processes /\ act[q].pc = "select" /\ act[q].op = "update"
      /\ UNCHANGED <<rows, memory, mine, overlapped, begun>>
  BY ConfigAssumption DEF Actors, Select
<1>2. /\ act[q] \in ActState /\ act[q].home \in Processes /\ Item(q) \in Configured
      /\ \A i \in Items : Held(q, Order[i]) => i < act[q].at
      /\ seen \in MaybeConfig /\ act[q].at \in Items
  BY <1>1, ActorTyped DEF ActorOK, Behind
<1>3. want \in Config /\ want \in MaybeConfig
  BY <1>2, ConfigsTyped DEF ConfigInv, ConfigTyped
<1>4. act' = [act EXCEPT ![q] = s] /\ act'[q] = s
  BY <1>1 DEF Select, ConfigInv, ConfigTyped
<1> HIDE DEF want, seen
<1>5. /\ s \in ActState /\ s.pc = "flush" /\ s.seen = seen /\ s.want = want
      /\ s.home = act[q].home /\ s.op = "update" /\ s.at = act[q].at
  BY <1>1, <1>2, <1>3 DEF ActState
<1> HIDE DEF s
<1>6. Item(q)' = Item(q)
  BY <1>4, <1>5 DEF Item
<1>7. ActorOK(q)'
  BY <1>1, <1>2, <1>3, <1>4, <1>5, <1>6 DEF ActorOK, seen
<1>8. \A i \in Items : Held(q, Order[i]) => Behind(q, i)'
  BY <1>2, <1>4, <1>5 DEF Behind
<1> QED
  BY <1>1, <1>4, <1>5, <1>7, <1>8, LocalStepKeeps DEF ConfigInv, ConfigTyped

LEMMA FlushKeeps == ASSUME ConfigInv, NEW q \in Requests, Flush(q) PROVE ConfigInv'
<1>1. /\ q \in Actors /\ q \notin Processes /\ act[q].pc = "flush" /\ act[q].op = "update"
      /\ UNCHANGED <<rows, memory, overlapped, begun>> /\ NextItem(q, "commit")
  BY ConfigAssumption DEF Actors, Flush
<1>2. /\ act[q].want \in Config /\ act[q].seen \in MaybeConfig
      /\ act[q].seen # Missing => rows[Item(q)] # Missing
      /\ Item(q) \in Configured /\ rows[Item(q)] \in MaybeConfig
      /\ mine[q] \in [Configured -> MaybeConfig] /\ mine[q][Item(q)] \in MaybeConfig
  BY <1>1, ActorTyped DEF ActorOK, ActState
<1>3. CASE Differs(q)
  <2> DEFINE row == [active |-> Column(q, "active"), model |-> Column(q, "model")]
  <2>1. Column(q, "active") \in BOOLEAN
    BY <1>2 DEF Column, Config, MaybeConfig, Missing
  <2>2. Column(q, "model") \in Models
    <3>1. act[q].want.model \in Models
      BY <1>2 DEF Config
    <3>2. CASE act[q].seen = Missing
      BY <3>1, <3>2, ConfigAssumption DEF Column, Missing
    <3>3. CASE act[q].seen # Missing
      <4>1. rows[Item(q)].model \in Models
        BY <1>2, <3>3, ConfigsTyped DEF Config
      <4> QED
        BY <3>1, <4>1 DEF Column
    <3> QED
      BY <3>2, <3>3
  <2>3. row \in MaybeConfig
    BY <2>1, <2>2 DEF MaybeConfig, Config
  <2>4. mine' = [mine EXCEPT ![q][Item(q)] = row]
    BY <1>3 DEF Flush
  <2> HIDE DEF row
  <2> QED
    BY <1>1, <2>3, <2>4, WriteKeeps
<1>4. CASE ~Differs(q)
  <2>1. mine' = mine
    BY <1>4 DEF Flush
  <2>2. mine' = [mine EXCEPT ![q][Item(q)] = mine[q][Item(q)]]
    BY <1>1, <1>2, <2>1 DEF ConfigInv, ConfigTyped
  <2> QED
    BY <1>1, <1>2, <2>2, WriteKeeps
<1> QED
  BY <1>3, <1>4

LEMMA CommitKeeps == ASSUME ConfigInv, NEW q \in Requests, Commit(q) PROVE ConfigInv'
<1>1. /\ q \in Actors /\ q \notin Processes /\ rows' = Committed(q) /\ Released(q)
      /\ act' = [act EXCEPT ![q] = Rest] /\ act'[q] = Rest
      /\ UNCHANGED <<memory, overlapped, begun>>
  BY ConfigAssumption DEF Actors, Commit, ConfigInv, ConfigTyped
<1>2. ActorOK(q)'
  BY <1>1 DEF ActorOK, Rest
<1> QED
  BY <1>1, <1>2, RestTyped, CommittedTyped, ReleasedKeeps DEF ConfigInv, ConfigTyped

LEMMA BreaksKeeps == ASSUME ConfigInv, NEW q \in Requests, Breaks(q) PROVE ConfigInv'
<1>1. /\ q \in Actors /\ q \notin Processes /\ Released(q)
      /\ act' = [act EXCEPT ![q] = Rest] /\ act'[q] = Rest
      /\ UNCHANGED <<rows, memory, overlapped, begun>>
  BY ConfigAssumption DEF Actors, Breaks, ConfigInv, ConfigTyped
<1>2. ActorOK(q)'
  BY <1>1 DEF ActorOK, Rest
<1> QED
  BY <1>1, <1>2, RestTyped, ReleasedKeeps DEF ConfigInv, ConfigTyped

LEMMA ConfigStepKeeps == ConfigInv /\ [ConfigNext]_configVars => ConfigInv'
<1> SUFFICES ASSUME ConfigInv, [ConfigNext]_configVars PROVE ConfigInv'
  OBVIOUS
<1>1. \A x \in Processes : StartupStep(x) => ConfigInv'
  BY StartKeeps, SeedSelectKeeps, SeedInsertKeeps, SeedCommitKeeps, LoadKeeps
     DEF StartupStep, Actors
<1>2. \A q \in Requests : User(q) \/ RequestStep(q) \/ Breaks(q) => ConfigInv'
  BY BeginKeeps, LoadKeeps, SelectKeeps, FlushKeeps, CommitKeeps, BreaksKeeps
     DEF User, RequestStep, Actors
<1>3. CASE UNCHANGED configVars
  BY <1>3 DEF configVars, ConfigInv, ConfigTyped, Locks, Held, Behind, ActorOK, Item
<1> QED
  BY <1>1, <1>2, <1>3 DEF ConfigNext

THEOREM ConfigInvHolds == ConfigSpec => []ConfigInv
  BY ConfigInitInv, ConfigStepKeeps, PTL DEF ConfigSpec

\* Rows, memories and the local states are of their types, and only who saves
\* or seeds has written what it has not committed.
THEOREM ConfigTypeCorrect == ConfigSpec => []ConfigTypeOK
<1>1. ConfigInv => ConfigTypeOK
  BY DEF ConfigInv, ConfigTyped, ConfigTypeOK, Locks, Behind
<1> QED
  BY <1>1, ConfigInvHolds, PTL

\* Any number of updates and startups, in any number of processes, never wait
\* for each other in a circle: who waits for a row is waited for only at rows
\* before it, so that of a set of waiting actors the one that has come furthest
\* waits for nobody among them.
THEOREM NoDeadlock == ConfigSpec => []NoLockCycle
<1>1. ASSUME ConfigInv, NEW a \in Actors, NEW b \in Actors, WaitsFor(a, b),
             act[b].pc = "flush"
      PROVE  act[a].at < act[b].at
  <2>1. act[a].at \in Items /\ Held(b, Order[act[a].at])
    BY <1>1, ActorTyped DEF WaitsFor, Item
  <2> QED
    BY <1>1, <2>1, ActorTyped DEF Behind
<1>2. ASSUME ConfigInv, NEW S \in SUBSET Actors, S # {},
             \A a \in S : \E b \in S : WaitsFor(a, b)
      PROVE  FALSE
  <2> DEFINE Left == {n \in Nat : \E a \in S : n = Len(Order) - act[a].at}
  <2>1. \A a \in S : act[a].at \in 1..Len(Order) /\ Len(Order) - act[a].at \in Nat
    BY <1>2, ActorTyped, ItemsTyped
  <2>2. Left # {} /\ Left \subseteq Nat
    BY <1>2, <2>1
  <2>3. PICK n \in Left : \A m \in Left : ~(<<m, n>> \in OpToRel(<, Nat))
    <3> HIDE DEF Left
    <3> QED
      BY <2>2, NatLessThanWellFounded, WFMin
  <2>4. \A m \in Left : ~(m < n)
    BY <2>2, <2>3 DEF OpToRel
  <2>5. PICK a \in S : n = Len(Order) - act[a].at
    BY <2>3
  <2>6. PICK b \in S : WaitsFor(a, b)
    BY <1>2
  <2>7. act[b].pc = "flush"
    BY <1>2 DEF WaitsFor
  <2>8. act[a].at < act[b].at
    BY <1>1, <1>2, <2>6, <2>7
  <2>9. Len(Order) - act[b].at \in Left
    BY <2>1
  <2> HIDE DEF Left
  <2> QED
    BY <2>1, <2>4, <2>5, <2>8, <2>9, ItemsTyped
<1>3. ConfigInv => NoLockCycle
  BY <1>2 DEF NoLockCycle
<1> QED
  BY <1>3, ConfigInvHolds, PTL

-----------------------------------------------------------------------------
(* A solo update is exact *)

\* Every provider has its row: so it is from the first seeding on.
AllRows == \A p \in Configured : rows[p] # Missing

\* What a startup leaves behind it: rows that are there, or that it inserts
\* where none is, and no other startup with it.
Seeded(x) ==
    /\ act[x].pc # "rest" => act[x].home = x
    /\ act[x].pc \in {"load", "up"} => AllRows
    /\ act[x].pc \in {"select", "flush", "commit"} =>
          \A i \in Items : Behind(x, i) => rows[Order[i]] # Missing \/ Held(x, Order[i])
    /\ \A p \in Configured : Held(x, p) =>
          /\ rows[p] = Missing
          /\ \A y \in Processes \ {x} : ~Held(y, p)

\* Requests run in processes that are up and save from the first row on, and
\* one that has met no related one is apart from all the others.
Apart(q) ==
    act[q].pc # "rest" =>
       /\ act[act[q].home].pc = "up"
       /\ act[q].pc = "load" => act[q].at = 1
       /\ \A b \in Requests \ {q} : act[b].pc # "rest" /\ q \notin overlapped =>
             act[b].home # act[q].home /\ ~(act[q].op = "update" /\ act[b].op = "update")

Saving(q) == act[q].pc \in {"select", "flush", "commit"} /\ act[q].op = "update"

\* A solo update that saves: its process's memory is the table as edited, and
\* behind it in the loop the table with what it holds is that memory.
Memory(q) == memory[act[q].home]

Exact(q) ==
    Saving(q) /\ q \notin overlapped =>
       /\ \E s \in Subjects(q, rows) : Memory(q) = Edited(q, rows, s)
       /\ \A i \in Items : Behind(q, i) => Committed(q)[Order[i]] = Memory(q)[Order[i]]
       /\ act[q].pc = "flush" =>
             act[q].seen = rows[Item(q)] /\ act[q].want = Memory(q)[Item(q)]

SoloInv == /\ ConfigInv
           /\ \A x \in Processes : Seeded(x)
           /\ \A q \in Requests : Apart(q) /\ Exact(q)

LEMMA RequestsAreActors ==
    /\ \A q \in Requests : q \in Actors /\ q \notin Processes
    /\ \A x \in Processes : x \in Actors /\ x \notin Requests
  BY ConfigAssumption DEF Actors

LEMMA EveryItem == \A p \in Configured : \E i \in Items : p = Order[i]
  BY DEF Configured

\* What the steps of a request touch: its own state, the memory of its
\* process, and with its commit the rows.
LEMMA RequestMoves ==
    ASSUME ConfigInv, NEW q \in Requests, RequestStep(q) \/ Breaks(q)
    PROVE  /\ \A a \in Actors \ {q} : act'[a] = act[a] /\ mine'[a] = mine[a]
           /\ act[q].pc # "rest"
           /\ act'[q].pc # "rest" => act'[q].home = act[q].home /\ act'[q].op = act[q].op
           /\ act'[q].pc # "load"
           /\ overlapped' = overlapped
           /\ \A x \in Processes \ {act[q].home} : memory'[x] = memory[x]
           /\ rows' = rows \/ Commit(q)
<1>0. /\ q \in Actors /\ q \notin Processes /\ act[q].op # "seed" /\ act[q] \in ActState
      /\ DOMAIN act = Actors /\ DOMAIN mine = Actors /\ DOMAIN memory = Processes
  BY RequestsAreActors, ActorTyped DEF ActorOK, ConfigInv, ConfigTyped
<1>1. CASE Load(q)
  <2> DEFINE selects == [act[q] EXCEPT !.pc = "select"]
  <2>1. act' = [act EXCEPT ![q] = selects] \/ act' = [act EXCEPT ![q] = Rest]
    BY <1>0, <1>1 DEF Load
  <2>2. selects.home = act[q].home /\ selects.op = act[q].op /\ selects.pc = "select"
    BY <1>0 DEF ActState
  <2>3. /\ \A a \in Actors \ {q} : act'[a] = act[a]
        /\ act'[q] = selects \/ act'[q] = Rest
    BY <1>0, <2>1
  <2>4. \E m : memory' = [memory EXCEPT ![act[q].home] = m]
    BY <1>1 DEF Load
  <2>5. act[q].pc # "rest" /\ UNCHANGED <<rows, mine, overlapped>>
    BY <1>1 DEF Load
  <2> HIDE DEF selects
  <2> QED BY <1>0, <2>2, <2>3, <2>4, <2>5 DEF Rest
<1>2. CASE Select(q)
  BY <1>0, <1>2 DEF Select, ActState
<1>3. CASE Flush(q)
  <2>1. PICK s : /\ act' = [act EXCEPT ![q] = s]
                 /\ s.home = act[q].home /\ s.op = act[q].op /\ s.pc # "load"
    <3> DEFINE t == [act[q] EXCEPT !.seen = Missing, !.want = Missing]
               t1 == [t EXCEPT !.pc = "select", !.at = act[q].at + 1]
               t2 == [t EXCEPT !.pc = "commit"]
    <3>1. /\ t1.home = act[q].home /\ t1.op = act[q].op
          /\ t2.home = act[q].home /\ t2.op = act[q].op
          /\ t1.pc = "select" /\ t2.pc = "commit"
      BY <1>0 DEF ActState
    <3>2. act' = [act EXCEPT ![q] = t1] \/ act' = [act EXCEPT ![q] = t2]
      BY <1>3 DEF Flush, NextItem
    <3> QED BY <3>1, <3>2
  <2>2. mine' = mine \/ \E m : mine' = [mine EXCEPT ![q] = m]
    <3>1. CASE Differs(q)
      <4> DEFINE c == [active |-> Column(q, "active"), model |-> Column(q, "model")]
      <4>1. mine' = [mine EXCEPT ![q] = [@ EXCEPT ![Item(q)] = c]]
        BY <1>3, <3>1 DEF Flush
      <4> HIDE DEF c
      <4> QED BY <4>1
    <3>2. CASE ~Differs(q) BY <1>3, <3>2 DEF Flush
    <3> QED BY <3>1, <3>2
  <2> QED BY <1>0, <1>3, <2>1, <2>2 DEF Flush
<1>4. CASE Commit(q)
  BY <1>0, <1>4 DEF Commit, Released, Rest
<1>5. CASE Breaks(q)
  BY <1>0, <1>5 DEF Breaks, Released, Rest
<1> QED BY <1>1, <1>2, <1>3, <1>4, <1>5 DEF RequestStep

\* What the steps of a startup touch.
LEMMA StartupMoves ==
    ASSUME ConfigInv, NEW x \in Processes, Seeded(x), StartupStep(x)
    PROVE  /\ \A a \in Actors \ {x} : act'[a] = act[a] /\ mine'[a] = mine[a]
           /\ act[x].pc # "up"
           /\ overlapped' = overlapped
           /\ \A y \in Processes \ {x} : memory'[y] = memory[y]
           /\ rows' = rows \/ SeedCommit(x)
<1>0. /\ x \in Actors /\ act[x] \in ActState
      /\ DOMAIN act = Actors /\ DOMAIN mine = Actors /\ DOMAIN memory = Processes
  BY RequestsAreActors, ActorTyped DEF ConfigInv, ConfigTyped
<1>1. CASE Start(x)
  BY <1>0, <1>1 DEF Start
<1>2. CASE SeedSelect(x)
  BY <1>0, <1>2 DEF SeedSelect, NextItem
<1>3. CASE SeedInsert(x)
  <2>1. (\E m : mine' = [mine EXCEPT ![x] = m]) /\ \E s : act' = [act EXCEPT ![x] = s]
    <3>1. CASE rows[Item(x)] = Missing
      <4>1. mine' = [mine EXCEPT ![x] = [@ EXCEPT ![Item(x)] = act[x].want]]
        BY <1>3, <3>1 DEF SeedInsert
      <4>2. NextItem(x, "commit")
        BY <1>3, <3>1 DEF SeedInsert
      <4> QED BY <4>1, <4>2 DEF NextItem
    <3>2. CASE rows[Item(x)] # Missing
      BY <1>3, <3>2 DEF SeedInsert, Released
    <3> QED BY <3>1, <3>2
  <2> QED BY <1>0, <1>3, <2>1 DEF SeedInsert
<1>4. CASE SeedCommit(x)
  BY <1>0, <1>4 DEF SeedCommit, Released, Goes
<1>5. CASE Load(x)
  BY <1>0, <1>5 DEF Load, Seeded
<1> QED BY <1>1, <1>2, <1>3, <1>4, <1>5 DEF StartupStep

-----------------------------------------------------------------------------
(* Seeding *)

\* Once every row is there, no startup holds one.
LEMMA SeedsHoldNothing ==
    ASSUME AllRows, NEW x \in Processes, Seeded(x)
    PROVE  \A p \in Configured : ~Held(x, p)
  BY DEF AllRows, Seeded

\* Rows that are there stay.
LEMMA RowsStay ==
    ASSUME ConfigInv, NEW a \in Actors
    PROVE  /\ Committed(a) \in [Configured -> MaybeConfig]
           /\ \A p \in Configured : Held(a, p) => Committed(a)[p] # Missing
           /\ \A p \in Configured : ~Held(a, p) => Committed(a)[p] = rows[p]
  BY CommittedTyped DEF Committed, Held, ConfigInv, ConfigTyped

\* A startup that has not moved, under rows of which only those it does not
\* hold are new.
LEMMA SeededStays ==
    ASSUME ConfigInv, NEW x \in Processes, Seeded(x), act'[x] = act[x], mine'[x] = mine[x],
           \A p \in Configured : rows[p] # Missing => rows'[p] # Missing,
           \A p \in Configured : Held(x, p) =>
              rows'[p] = Missing /\ \A y \in Processes \ {x} : ~Held(y, p)'
    PROVE  Seeded(x)'
<1>1. \A i \in Items : Order[i] \in Configured
  BY ItemsTyped
<1>2. \A p : Held(x, p)' <=> Held(x, p)
  BY DEF Held
<1>3. \A i \in Items : Behind(x, i)' <=> Behind(x, i)
  BY DEF Behind
<1>4. AllRows => AllRows'
  BY DEF AllRows
<1> QED BY <1>1, <1>2, <1>3, <1>4 DEF Seeded

LEMMA RequestKeepsSeeded ==
    ASSUME SoloInv, NEW q \in Requests, RequestStep(q) \/ Breaks(q), NEW x \in Processes
    PROVE  Seeded(x)'
<1>1. ConfigInv /\ x \in Actors \ {q} /\ Seeded(x)
  BY RequestsAreActors DEF SoloInv
<1>2. \A y \in Processes : act'[y] = act[y] /\ mine'[y] = mine[y]
  BY <1>1, RequestMoves, RequestsAreActors
<1>3. CASE rows' = rows
  BY <1>1, <1>2, <1>3, SeededStays DEF Seeded, Held
<1>4. CASE Commit(q)
  <2>1. act[q].home \in Processes /\ act[act[q].home].pc = "up"
    BY <1>1, <1>4, ActorTyped, RequestsAreActors DEF SoloInv, Apart, Commit, ActorOK
  <2>2. AllRows
    BY <2>1 DEF SoloInv, Seeded
  <2>3. rows' = Committed(q)
    BY <1>4 DEF Commit
  <2>4. \A p \in Configured : rows'[p] # Missing
    BY <1>1, <2>2, <2>3, RowsStay, RequestsAreActors DEF AllRows
  <2>5. \A p \in Configured : ~Held(x, p)
    BY <1>1, <2>2, SeedsHoldNothing
  <2> QED BY <1>1, <1>2, <2>4, <2>5, SeededStays
<1> QED BY <1>1, <1>3, <1>4, RequestMoves

LEMMA StartupKeepsOthersSeeded ==
    ASSUME SoloInv, NEW x \in Processes, StartupStep(x), NEW y \in Processes \ {x}
    PROVE  Seeded(y)'
<1>1. ConfigInv /\ y \in Actors \ {x} /\ x \in Actors /\ Seeded(x) /\ Seeded(y)
  BY RequestsAreActors DEF SoloInv
<1>2. \A z \in Processes \ {x} : act'[z] = act[z] /\ mine'[z] = mine[z]
  BY <1>1, StartupMoves, RequestsAreActors
<1>3. \A p \in Configured : rows[p] # Missing => rows'[p] # Missing
  <2>1. CASE rows' = rows BY <2>1
  <2>2. CASE SeedCommit(x) BY <1>1, <2>2, RowsStay DEF SeedCommit
  <2> QED BY <1>1, <2>1, <2>2, StartupMoves
<1>4. ASSUME NEW p \in Configured, Held(y, p)
      PROVE  rows'[p] = Missing /\ \A z \in Processes \ {y} : ~Held(z, p)'
  <2>1. rows[p] = Missing /\ \A z \in Processes \ {y} : ~Held(z, p)
    BY <1>1, <1>4 DEF Seeded
  <2>2. rows'[p] = Missing
    <3>1. CASE rows' = rows BY <2>1, <3>1
    <3>2. CASE SeedCommit(x) BY <1>1, <2>1, <3>2, RowsStay DEF SeedCommit
    <3> QED BY <1>1, <3>1, <3>2, StartupMoves
  <2>3. ~Held(x, p)'
    <3>1. CASE Start(x)
      BY <2>1, <3>1 DEF Start, Held
    <3>2. CASE SeedSelect(x)
      BY <2>1, <3>2 DEF SeedSelect, Held
    <3>3. CASE SeedInsert(x)
      <4>1. Item(x) # p
        BY <1>1, <1>4, <3>3 DEF SeedInsert, Free
      <4>2. CASE rows[Item(x)] = Missing
        <5>1. mine' = [mine EXCEPT ![x] = [@ EXCEPT ![Item(x)] = act[x].want]]
          BY <3>3, <4>2 DEF SeedInsert
        <5> QED BY <1>1, <2>1, <4>1, <5>1, ActorTyped DEF Held, ConfigInv, ConfigTyped
      <4>3. CASE rows[Item(x)] # Missing
        BY <1>1, <3>3, <4>3 DEF SeedInsert, Released, NoRows, Held, ConfigInv, ConfigTyped
      <4> QED BY <4>2, <4>3
    <3>4. CASE SeedCommit(x)
      BY <1>1, <3>4 DEF SeedCommit, Released, NoRows, Held, ConfigInv, ConfigTyped
    <3>5. CASE Load(x)
      BY <2>1, <3>5 DEF Load, Held
    <3> QED BY <3>1, <3>2, <3>3, <3>4, <3>5 DEF StartupStep
  <2> QED BY <1>2, <2>1, <2>2, <2>3 DEF Held
<1> QED BY <1>1, <1>2, <1>3, <1>4, SeededStays

\* Behind the loop is what was, and the row it leaves; at its end, every row.
LEMMA NextItemBehind ==
    ASSUME ConfigInv, NEW a \in Actors, act[a].pc \in {"select", "flush"},
           NEW end \in {"load", "commit"}, NextItem(a, end)
    PROVE  /\ \A i \in Items : Behind(a, i)' => Behind(a, i) \/ i = act[a].at
           /\ act'[a].pc \in {"load", "commit"} =>
                 \A i \in Items : Behind(a, i) \/ i = act[a].at
           /\ act'[a].pc \in {"select", end}
           /\ act'[a].home = act[a].home /\ act'[a].op = act[a].op
<1>1. act[a].at \in 1..Len(Order)
  BY ActorTyped
<1>2. PICK s \in ActState :
        /\ act' = [act EXCEPT ![a] = s] /\ act'[a] = s
        /\ s.home = act[a].home /\ s.op = act[a].op
        /\ \/ s.pc = "select" /\ s.at = act[a].at + 1
           \/ s.pc = end /\ act[a].at = Len(Order)
  BY NextItemState
<1> QED BY <1>1, <1>2, ItemsTyped DEF Behind

LEMMA StartupSeeds ==
    ASSUME SoloInv, NEW x \in Processes, StartupStep(x)
    PROVE  Seeded(x)'
<1>1. /\ ConfigInv /\ ConfigInv' /\ x \in Actors /\ Seeded(x)
      /\ act[x] \in ActState /\ act[x].at \in Items /\ Item(x) \in Configured
      /\ DOMAIN act = Actors /\ DOMAIN mine = Actors
      /\ mine[x] \in [Configured -> MaybeConfig]
  BY ActorTyped, RequestsAreActors, ConfigStepKeeps DEF SoloInv, ConfigNext, ConfigInv, ConfigTyped
<1>2. \A y \in Processes \ {x} : mine'[y] = mine[y]
  BY <1>1, StartupMoves, RequestsAreActors
<1>3. \A i \in Items : Order[i] \in Configured
  BY ItemsTyped
<1>4. CASE Start(x)
  <2> DEFINE s == [Rest EXCEPT !.pc = "select", !.home = x, !.op = "seed"]
  <2>1. s.pc = "select" /\ s.home = x /\ s.at = 1
    BY DEF Rest
  <2>2. act'[x] = s /\ UNCHANGED <<rows, mine>>
    BY <1>1, <1>4 DEF Start
  <2>3. \A i \in Items : ~Behind(x, i)'
    BY <2>1, <2>2, ItemsTyped DEF Behind
  <2> HIDE DEF s
  <2> QED BY <1>1, <2>1, <2>2, <2>3 DEF Seeded, Held
<1>5. CASE SeedSelect(x)
  <2>0. act[x].pc = "select" /\ UNCHANGED <<rows, mine>>
    BY <1>5 DEF SeedSelect
  <2>1. CASE rows[Item(x)] = Missing
    <3> DEFINE w == memory[x][Item(x)]
               s == [act[x] EXCEPT !.pc = "flush", !.want = w]
    <3>1. s.pc = "flush" /\ s.home = act[x].home /\ s.at = act[x].at
      BY <1>1 DEF ActState
    <3>2. act'[x] = s
      BY <1>1, <1>5, <2>1 DEF SeedSelect
    <3>3. \A i \in Items : Behind(x, i)' => Behind(x, i)
      BY <2>0, <3>1, <3>2 DEF Behind
    <3> HIDE DEF s
    <3> QED BY <1>1, <2>0, <3>1, <3>2, <3>3 DEF Seeded, Held
  <2>2. CASE rows[Item(x)] # Missing
    <3> DEFINE end == IF mine[x] = NoRows THEN "load" ELSE "commit"
    <3>1. end \in {"load", "commit"} /\ NextItem(x, end)
      BY <1>5, <2>2 DEF SeedSelect
    <3>2. end = "load" => \A p \in Configured : ~Held(x, p)
      BY DEF Held, NoRows
    <3> HIDE DEF end
    <3>3. /\ \A i \in Items : Behind(x, i)' => Behind(x, i) \/ i = act[x].at
          /\ act'[x].pc \in {"load", "commit"} =>
                \A i \in Items : Behind(x, i) \/ i = act[x].at
          /\ act'[x].pc \in {"select", end} /\ act'[x].home = act[x].home
      BY <1>1, <2>0, <3>1, NextItemBehind
    <3>4. \A i \in Items : Behind(x, i) \/ i = act[x].at =>
             rows[Order[i]] # Missing \/ Held(x, Order[i])
      BY <1>1, <2>0, <2>2 DEF Seeded, Item
    <3>5. act'[x].pc \in {"load", "up"} => AllRows'
      <4> SUFFICES ASSUME act'[x].pc = "load", NEW p \in Configured PROVE rows[p] # Missing
        BY <2>0, <3>1, <3>3 DEF AllRows
      <4>1. PICK i \in Items : p = Order[i]
        BY EveryItem
      <4> QED BY <3>2, <3>3, <3>4, <4>1
    <3>6. \A i \in Items : Behind(x, i)' => rows'[Order[i]] # Missing \/ Held(x, Order[i])'
      BY <2>0, <3>3, <3>4 DEF Held
    <3> QED BY <1>1, <2>0, <3>3, <3>5, <3>6 DEF Seeded, Held
  <2> QED BY <2>1, <2>2
<1>6. CASE SeedInsert(x)
  <2>0. act[x].pc = "flush" /\ UNCHANGED rows /\ act[x].want # Missing
    BY <1>1, <1>6, ActorTyped, ConfigsTyped DEF SeedInsert, ActorOK
  <2>1. CASE rows[Item(x)] = Missing
    <3>1. mine' = [mine EXCEPT ![x] = [@ EXCEPT ![Item(x)] = act[x].want]] /\ NextItem(x, "commit")
      BY <1>6, <2>1 DEF SeedInsert
    <3>2. /\ \A i \in Items : Behind(x, i)' => Behind(x, i) \/ i = act[x].at
          /\ act'[x].pc \in {"select", "commit"} /\ act'[x].home = act[x].home
      BY <1>1, <2>0, <3>1, NextItemBehind
    <3>3. \A p \in Configured : mine'[x][p] = IF p = Item(x) THEN act[x].want ELSE mine[x][p]
      BY <1>1, <3>1
    <3>4. \A i \in Items : Behind(x, i)' => rows'[Order[i]] # Missing \/ Held(x, Order[i])'
      BY <1>1, <1>3, <2>0, <3>2, <3>3 DEF Seeded, Held, Item
    <3>5. ASSUME NEW p \in Configured, Held(x, p)'
          PROVE  rows'[p] = Missing /\ \A y \in Processes \ {x} : ~Held(y, p)'
      <4>1. CASE p = Item(x)
        <5>1. \A y \in Processes \ {x} : ~Held(y, p)
          BY <1>1, <1>6, <4>1, RequestsAreActors DEF SeedInsert, Free
        <5> QED BY <1>2, <2>0, <2>1, <4>1, <5>1 DEF Held
      <4>2. CASE p # Item(x)
        BY <1>1, <1>2, <2>0, <3>3, <3>5, <4>2 DEF Seeded, Held
      <4> QED BY <4>1, <4>2
    <3> QED BY <1>1, <2>0, <3>2, <3>4, <3>5 DEF Seeded
  <2>2. CASE rows[Item(x)] # Missing
    <3>1. act'[x].pc = "rest" /\ mine'[x] = NoRows
      BY <1>1, <1>6, <2>2 DEF SeedInsert, Released, Rest
    <3> QED BY <3>1 DEF Seeded, Held, NoRows
  <2> QED BY <2>1, <2>2
<1>7. CASE SeedCommit(x)
  <2>1. /\ act[x].pc = "commit" /\ rows' = Committed(x) /\ mine'[x] = NoRows
        /\ act'[x].pc = "load" /\ act'[x].home = act[x].home
    BY <1>1, <1>7 DEF SeedCommit, Released, Goes, ActState
  <2>2. AllRows'
    <3> SUFFICES ASSUME NEW p \in Configured PROVE Committed(x)[p] # Missing
      BY <2>1 DEF AllRows
    <3>1. PICK i \in Items : p = Order[i]
      BY EveryItem
    <3>2. rows[p] # Missing \/ Held(x, p)
      BY <1>1, <2>1, <3>1 DEF Seeded, Behind
    <3> QED BY <1>1, <3>2, RowsStay
  <2> QED BY <1>1, <2>1, <2>2 DEF Seeded, Held, NoRows
<1>8. CASE Load(x)
  <2> DEFINE s == [Rest EXCEPT !.pc = "up", !.home = x]
  <2>1. act[x].pc = "load" /\ act[x].op = "seed" /\ UNCHANGED <<rows, mine>>
    BY <1>1, <1>8, ActorTyped DEF Load, ActorOK
  <2>2. act'[x] = s
    BY <1>1, <1>8, <2>1 DEF Load
  <2>3. s.pc = "up" /\ s.home = x
    BY DEF Rest
  <2> HIDE DEF s
  <2> QED BY <1>1, <2>1, <2>2, <2>3 DEF Seeded, Held, AllRows
<1> QED BY <1>4, <1>5, <1>6, <1>7, <1>8 DEF StartupStep

-----------------------------------------------------------------------------
(* Requests that meet no related one *)

LEMMA RequestKeepsApart ==
    ASSUME SoloInv, NEW q \in Requests, RequestStep(q) \/ Breaks(q), NEW p \in Requests
    PROVE  Apart(p)'
<1>1. ConfigInv /\ q \in Actors BY RequestsAreActors DEF SoloInv
<1>2. /\ \A x \in Processes : act'[x] = act[x]
      /\ \A b \in Requests : act'[b].pc # "rest" =>
            act[b].pc # "rest" /\ act'[b].home = act[b].home /\ act'[b].op = act[b].op
      /\ act'[p].pc = "load" => act'[p] = act[p]
      /\ overlapped' = overlapped
  BY <1>1, RequestMoves, RequestsAreActors
<1>3. act[p].pc # "rest" => act[p].home \in Processes
  BY <1>1, ActorTyped, RequestsAreActors DEF ActorOK
<1> QED BY <1>2, <1>3 DEF SoloInv, Apart

LEMMA StartupKeepsApart ==
    ASSUME SoloInv, NEW x \in Processes, StartupStep(x), NEW p \in Requests
    PROVE  Apart(p)'
<1>1. ConfigInv /\ Seeded(x) BY DEF SoloInv
<1>2. /\ \A b \in Requests : act'[b] = act[b]
      /\ \A y \in Processes : act[y].pc = "up" => act'[y] = act[y]
      /\ overlapped' = overlapped
  BY <1>1, StartupMoves, RequestsAreActors
<1>3. act[p].pc # "rest" => act[p].home \in Processes
  BY <1>1, ActorTyped, RequestsAreActors DEF ActorOK
<1> QED BY <1>2, <1>3 DEF SoloInv, Apart

\* What the beginning of a request does to the others: those it is related to
\* are overlapped from here on, and it is if there is one.
LEMMA BeginMoves ==
    ASSUME ConfigInv, NEW q \in Requests, NEW x \in Processes,
           NEW op \in {"read", "update", "reject"}, NEW target, NEW model,
           Begin(q, x, op, target, model)
    PROVE  /\ act[x].pc = "up" /\ UNCHANGED <<rows, memory, mine>>
           /\ \A a \in Actors \ {q} : act'[a] = act[a]
           /\ act'[q].pc = "load" /\ act'[q].home = x /\ act'[q].op = op /\ act'[q].at = 1
           /\ \A b \in Requests \ {q} : b \notin overlapped' =>
                 b \notin overlapped /\ ~Related(op, x, b)
           /\ q \notin overlapped' => \A b \in Requests \ {q} : ~Related(op, x, b)
<1> DEFINE s == [Rest EXCEPT !.pc = "load", !.home = x, !.op = op,
                             !.target = target, !.model = model]
           met == {b \in Requests \ {q} : Related(op, x, b)}
<1>1. s.pc = "load" /\ s.home = x /\ s.op = op /\ s.at = 1
  BY DEF Rest
<1>2. /\ act[x].pc = "up" /\ UNCHANGED <<rows, memory, mine>>
      /\ act' = [act EXCEPT ![q] = s]
      /\ overlapped' = (overlapped \ {q}) \cup met \cup {r \in {q} : met # {}}
  BY DEF Begin, Serving
<1>3. act'[q] = s /\ \A a \in Actors \ {q} : act'[a] = act[a]
  BY <1>2, RequestsAreActors DEF ConfigInv, ConfigTyped
<1>4. q \in overlapped' <=> met # {}
  BY <1>2
<1>5. \A b \in Requests \ {q} : b \in overlapped' <=> b \in overlapped \/ b \in met
  BY <1>2
<1> HIDE DEF s
<1> QED BY <1>1, <1>2, <1>3, <1>4, <1>5

LEMMA BeginKeepsApart ==
    ASSUME SoloInv, NEW q \in Requests, NEW x \in Processes,
           NEW op \in {"read", "update", "reject"}, NEW target, NEW model,
           Begin(q, x, op, target, model), NEW p \in Requests
    PROVE  Apart(p)'
<1>1. ConfigInv BY DEF SoloInv
<1>2. /\ act[x].pc = "up"
      /\ \A a \in Actors \ {q} : act'[a] = act[a]
      /\ act'[q].pc = "load" /\ act'[q].home = x /\ act'[q].op = op /\ act'[q].at = 1
      /\ \A b \in Requests \ {q} : b \notin overlapped' =>
            b \notin overlapped /\ ~Related(op, x, b)
      /\ q \notin overlapped' => \A b \in Requests \ {q} : ~Related(op, x, b)
  BY <1>1, BeginMoves
<1>3. \A y \in Processes : act'[y] = act[y]
  BY <1>2, RequestsAreActors
<1>4. \A b \in Requests \ {q} : act'[b] = act[b]
  BY <1>2, RequestsAreActors
<1>5. act[p].pc # "rest" => act[p].home \in Processes
  BY <1>1, ActorTyped, RequestsAreActors DEF ActorOK
<1>6. \A b \in Requests : ~Related(op, x, b) /\ act[b].pc # "rest" =>
         act[b].home # x /\ ~(op = "update" /\ act[b].op = "update")
  BY DEF Related
<1>7. CASE p = q
  BY <1>2, <1>3, <1>4, <1>6, <1>7 DEF Apart
<1>8. CASE p # q
  <2>1. Apart(p) BY DEF SoloInv
  <2>2. act'[p].pc # "rest" =>
          act'[act'[p].home].pc = "up" /\ (act'[p].pc = "load" => act'[p].at = 1)
    BY <1>3, <1>4, <1>5, <1>8, <2>1 DEF Apart
  <2>3. ASSUME NEW b \in Requests \ {p}, act'[p].pc # "rest", act'[b].pc # "rest",
               p \notin overlapped'
        PROVE  act'[b].home # act'[p].home /\ ~(act'[p].op = "update" /\ act'[b].op = "update")
    <3>1. CASE b = q BY <1>2, <1>4, <1>6, <1>8, <2>3, <3>1
    <3>2. CASE b # q BY <1>2, <1>4, <1>8, <2>1, <2>3, <3>2 DEF Apart
    <3> QED BY <3>1, <3>2
  <2> QED BY <2>2, <2>3 DEF Apart
<1> QED BY <1>7, <1>8

-----------------------------------------------------------------------------
(* What a solo update has saved *)

\* The rest of what Exact speaks of depends on the state of the request alone.
LEMMA SameEdits ==
    ASSUME NEW q, act'[q].target = act[q].target, act'[q].op = act[q].op,
           act'[q].model = act[q].model, rows' = rows
    PROVE  /\ Subjects(q, rows)' = Subjects(q, rows)
           /\ \A s : Edited(q, rows, s)' = Edited(q, rows, s)
  BY DEF Subjects, Edited

LEMMA ExactStays ==
    ASSUME NEW q \in Requests, Exact(q), act'[q] = act[q], mine'[q] = mine[q],
           rows' = rows, Saving(q) => memory'[act[q].home] = memory[act[q].home],
           q \in overlapped => q \in overlapped'
    PROVE  Exact(q)'
<1> SUFFICES ASSUME Saving(q)', q \notin overlapped'
             PROVE  /\ (\E s \in Subjects(q, rows) : Memory(q) = Edited(q, rows, s))'
                    /\ \A i \in Items : Behind(q, i)' =>
                          (Committed(q)[Order[i]] = Memory(q)[Order[i]])'
                    /\ act'[q].pc = "flush" =>
                          act'[q].seen = rows'[Item(q)'] /\ act'[q].want = Memory(q)'[Item(q)']
  BY DEF Exact
<1>1. Saving(q) /\ q \notin overlapped /\ Memory(q)' = Memory(q) /\ Item(q)' = Item(q)
  BY DEF Saving, Memory, Item
<1>2. Committed(q)' = Committed(q) /\ \A i \in Items : Behind(q, i)' <=> Behind(q, i)
  BY DEF Committed, Held, Behind
<1> QED BY <1>1, <1>2, SameEdits DEF Exact

\* The process of a request that is apart is up, and has every row.
LEMMA HomeIsUp ==
    ASSUME SoloInv, NEW q \in Requests, act[q].pc # "rest"
    PROVE  act[q].home \in Processes /\ act[act[q].home].pc = "up" /\ AllRows
<1>1. act[q].home \in Processes
  BY ActorTyped, RequestsAreActors DEF SoloInv, ActorOK
<1> QED BY <1>1 DEF SoloInv, Apart, Seeded

LEMMA StartupKeepsExact ==
    ASSUME SoloInv, NEW x \in Processes, StartupStep(x), NEW q \in Requests
    PROVE  Exact(q)'
<1>1. /\ ConfigInv /\ Seeded(x) /\ Exact(q) /\ x \in Actors
      /\ q \in Actors \ {x}
  BY RequestsAreActors DEF SoloInv
<1>2. /\ act'[q] = act[q] /\ mine'[q] = mine[q] /\ overlapped' = overlapped /\ act[x].pc # "up"
      /\ \A y \in Processes \ {x} : memory'[y] = memory[y]
      /\ rows' = rows \/ SeedCommit(x)
  BY <1>1, StartupMoves
<1>3. CASE ~Saving(q)
  BY <1>2, <1>3 DEF Exact, Saving
<1>4. CASE Saving(q)
  <2>1. act[q].home \in Processes \ {x} /\ AllRows
    BY <1>2, <1>4, HomeIsUp DEF Saving
  <2>2. rows' = rows
    <3>1. CASE SeedCommit(x)
      <4>1. rows \in [Configured -> MaybeConfig] /\ Committed(x) \in [Configured -> MaybeConfig]
        BY <1>1, RowsStay DEF ConfigInv, ConfigTyped
      <4>2. \A p \in Configured : Committed(x)[p] = rows[p]
        BY <1>1, <2>1, RowsStay, SeedsHoldNothing
      <4>3. Committed(x) = rows BY <4>1, <4>2
      <4> QED BY <3>1, <4>3 DEF SeedCommit
    <3> QED BY <1>2, <3>1
  <2> QED BY <1>1, <1>2, <2>1, <2>2, ExactStays
<1> QED BY <1>3, <1>4

LEMMA BeginKeepsExact ==
    ASSUME SoloInv, NEW r \in Requests, NEW x \in Processes,
           NEW op \in {"read", "update", "reject"}, NEW target, NEW model,
           Begin(r, x, op, target, model), NEW q \in Requests
    PROVE  Exact(q)'
<1>1. ConfigInv /\ Exact(q) BY DEF SoloInv
<1>2. CASE q = r
  BY <1>1, <1>2, BeginMoves DEF Exact, Saving
<1>3. CASE q # r
  BY <1>1, <1>3, BeginMoves, ExactStays, RequestsAreActors
<1> QED BY <1>2, <1>3

\* The steps of another request.
LEMMA OtherKeepsExact ==
    ASSUME SoloInv, NEW b \in Requests, RequestStep(b) \/ Breaks(b), NEW q \in Requests \ {b}
    PROVE  Exact(q)'
<1>1. ConfigInv /\ Exact(q) /\ Apart(q) /\ q \in Actors \ {b} /\ b \in Actors
  BY RequestsAreActors DEF SoloInv
<1>2. /\ act'[q] = act[q] /\ mine'[q] = mine[q] /\ overlapped' = overlapped
      /\ act[b].pc # "rest"
      /\ \A y \in Processes \ {act[b].home} : memory'[y] = memory[y]
      /\ rows' = rows \/ Commit(b)
  BY <1>1, RequestMoves
<1>3. CASE ~Saving(q) \/ q \in overlapped
  BY <1>2, <1>3 DEF Exact, Saving
<1>4. CASE Saving(q) /\ q \notin overlapped
  <2>1. act[q].home # act[b].home /\ act[b].op # "update" /\ act[q].home \in Processes
    BY <1>1, <1>2, <1>4, HomeIsUp DEF Apart, Saving
  <2>2. rows' = rows
    BY <1>2, <2>1 DEF Commit
  <2> QED BY <1>1, <1>2, <2>1, <2>2, ExactStays
<1> QED BY <1>3, <1>4

\* The load takes the whole table over, so that the edit is one of the table.
LEMMA LoadIsExact ==
    ASSUME SoloInv, NEW q \in Requests, Load(q)
    PROVE  Exact(q)'
<1> DEFINE subjects == IF act[q].op \in {"update", "reject"}
                       THEN Subjects(q, Loaded(q)) ELSE {}
           chosen == CHOOSE p \in subjects : TRUE
           edited == Edited(q, Loaded(q), chosen)
           selects == [act[q] EXCEPT !.pc = "select"]
<1>1. /\ ConfigInv /\ q \in Actors /\ act[q].op # "seed" /\ act[q].pc = "load"
      /\ UNCHANGED <<rows, mine, overlapped>>
      /\ act[q].home \in Processes /\ AllRows /\ act[q] \in ActState
      /\ DOMAIN memory = Processes /\ DOMAIN act = Actors
      /\ rows \in [Configured -> MaybeConfig]
      /\ \A i \in Items : ~Held(q, Order[i])
  BY RequestsAreActors, HomeIsUp, ActorTyped
     DEF SoloInv, Load, ActorOK, Behind, ConfigInv, ConfigTyped
<1>2. Loaded(q) = rows
  BY <1>1 DEF Loaded, AllRows
<1> SUFFICES ASSUME Saving(q)', q \notin overlapped' PROVE Exact(q)'
  BY DEF Exact
<1>3. act'[q].pc # "rest"
  BY DEF Saving
<1>4. act[q].op = "update" /\ subjects # {} /\ act'[q] = selects
  <2>1. act'[q] = IF act[q].op = "update" /\ subjects # {} THEN selects ELSE Rest
    BY <1>1 DEF Load
  <2> HIDE DEF subjects, selects
  <2> QED BY <1>3, <2>1 DEF Rest
<1>5. /\ selects.pc = "select" /\ selects.home = act[q].home /\ selects.op = act[q].op
      /\ selects.target = act[q].target /\ selects.model = act[q].model
      /\ selects.at = act[q].at
  BY <1>1 DEF ActState
<1>6. memory'[act[q].home] = edited
  BY <1>1, <1>4 DEF Load
<1>7. chosen \in Subjects(q, rows) /\ edited = Edited(q, rows, chosen)
  <2>1. subjects = Subjects(q, rows)
    BY <1>2, <1>4
  <2>2. chosen \in subjects
    BY <1>4
  <2> HIDE DEF subjects
  <2> QED BY <1>2, <2>1, <2>2
<1> HIDE DEF subjects, chosen, edited, selects
<1>8. (\E s \in Subjects(q, rows) : Memory(q) = Edited(q, rows, s))'
  <2>1. Memory(q)' = Edited(q, rows, chosen)
    BY <1>4, <1>5, <1>6, <1>7 DEF Memory
  <2> QED BY <1>1, <1>4, <1>5, <1>7, <2>1, SameEdits
<1>9. \A i \in Items : ~Behind(q, i)'
  <2>1. act[q].at = 1
    BY <1>1 DEF SoloInv, Apart
  <2> QED BY <1>4, <1>5, <2>1, ItemsTyped DEF Behind
<1> QED BY <1>4, <1>5, <1>8, <1>9 DEF Exact

LEMMA SelectIsExact ==
    ASSUME SoloInv, NEW q \in Requests, Select(q)
    PROVE  Exact(q)'
<1> DEFINE seen == rows[Item(q)]
           want == memory[act[q].home][Item(q)]
           s == [act[q] EXCEPT !.pc = "flush", !.seen = seen, !.want = want]
<1>1. /\ ConfigInv /\ Exact(q) /\ act[q] \in ActState /\ act[q].pc = "select"
      /\ act[q].op = "update" /\ DOMAIN act = Actors /\ q \in Actors
      /\ UNCHANGED <<rows, memory, mine, overlapped>>
  BY RequestsAreActors, ActorTyped DEF SoloInv, Select, ConfigInv, ConfigTyped
<1>2. /\ s.pc = "flush" /\ s.seen = seen /\ s.want = want /\ s.at = act[q].at
      /\ s.home = act[q].home /\ s.op = act[q].op
      /\ s.target = act[q].target /\ s.model = act[q].model
  BY <1>1 DEF ActState
<1>3. act'[q] = s
  BY <1>1 DEF Select
<1> HIDE DEF s
<1>4. Item(q)' = Item(q) /\ Memory(q)' = Memory(q) /\ Committed(q)' = Committed(q)
  BY <1>1, <1>2, <1>3 DEF Item, Memory, Committed, Held
<1>5. \A i \in Items : Behind(q, i)' => Behind(q, i)
  BY <1>1, <1>2, <1>3 DEF Behind
<1>6. Subjects(q, rows)' = Subjects(q, rows) /\ \A p : Edited(q, rows, p)' = Edited(q, rows, p)
  BY <1>1, <1>2, <1>3, SameEdits
<1>7. CASE q \in overlapped
  BY <1>1, <1>7 DEF Exact
<1>8. CASE q \notin overlapped
  <2>1. /\ \E p \in Subjects(q, rows) : Memory(q) = Edited(q, rows, p)
        /\ \A i \in Items : Behind(q, i) => Committed(q)[Order[i]] = Memory(q)[Order[i]]
    BY <1>1, <1>8 DEF Exact, Saving
  <2>2. act'[q].seen = rows'[Item(q)'] /\ act'[q].want = Memory(q)'[Item(q)']
    BY <1>1, <1>2, <1>3, <1>4 DEF Memory
  <2> QED BY <1>4, <1>5, <1>6, <2>1, <2>2 DEF Exact
<1> QED BY <1>7, <1>8

\* A write makes the row what the memory says, and no write is needed only
\* where it is.
LEMMA FlushIsExact ==
    ASSUME SoloInv, NEW q \in Requests, Flush(q)
    PROVE  Exact(q)'
<1>1. /\ ConfigInv /\ Exact(q) /\ act[q].pc = "flush" /\ act[q].op = "update"
      /\ q \in Actors /\ DOMAIN mine = Actors
      /\ UNCHANGED <<rows, memory, overlapped>> /\ NextItem(q, "commit")
      /\ act[q].want \in Config /\ Item(q) \in Configured
      /\ mine[q] \in [Configured -> MaybeConfig]
      /\ act[q].at \in Items /\ act[q].at \in 1..Len(Order)
      /\ \A i \in Items : Held(q, Order[i]) => Behind(q, i)
  BY RequestsAreActors, ActorTyped DEF SoloInv, Flush, ActorOK, ConfigInv, ConfigTyped
<1>2. PICK s \in ActState :
        /\ act' = [act EXCEPT ![q] = s] /\ act'[q] = s
        /\ s.home = act[q].home /\ s.op = act[q].op
        /\ s.target = act[q].target /\ s.model = act[q].model
        /\ \/ s.pc = "select" /\ s.at = act[q].at + 1
           \/ s.pc = "commit" /\ act[q].at = Len(Order)
  BY <1>1, NextItemState
<1>3. act'[q].target = act[q].target /\ act'[q].model = act[q].model /\ act'[q].pc # "flush"
  BY <1>2
<1>4. \A i \in Items : Behind(q, i)' => Behind(q, i) \/ i = act[q].at
  BY <1>1, NextItemBehind
<1>5. Memory(q)' = Memory(q)
  BY <1>1, <1>2 DEF Memory
<1>6. Subjects(q, rows)' = Subjects(q, rows) /\ \A p : Edited(q, rows, p)' = Edited(q, rows, p)
  BY <1>1, <1>2, <1>3, SameEdits
<1>7. CASE q \in overlapped
  BY <1>1, <1>7 DEF Exact
<1>8. CASE q \notin overlapped
  <2>1. /\ \E p \in Subjects(q, rows) : Memory(q) = Edited(q, rows, p)
        /\ \A i \in Items : Behind(q, i) => Committed(q)[Order[i]] = Memory(q)[Order[i]]
        /\ act[q].seen = rows[Item(q)] /\ act[q].want = Memory(q)[Item(q)]
    BY <1>1, <1>8 DEF Exact, Saving
  <2>2. Committed(q)'[Item(q)] = Memory(q)[Item(q)]
    <3>1. CASE Differs(q)
      <4>1. [active |-> Column(q, "active"), model |-> Column(q, "model")] = act[q].want
        BY <1>1, <2>1 DEF Column, Config
      <4>2. mine' = [mine EXCEPT ![q] = [@ EXCEPT ![Item(q)] = act[q].want]]
        BY <3>1, <4>1 DEF Flush
      <4>3. mine'[q][Item(q)] = act[q].want
        BY <1>1, <4>2
      <4>4. act[q].want # Missing
        BY <1>1, ConfigsTyped
      <4> QED BY <1>1, <2>1, <4>3, <4>4 DEF Committed, Held
    <3>2. CASE ~Differs(q)
      <4>1. mine' = mine /\ rows[Item(q)] = Memory(q)[Item(q)]
        BY <2>1, <3>2 DEF Flush, Differs
      <4>2. ~Held(q, Item(q))
        BY <1>1 DEF Item, Behind
      <4> QED BY <1>1, <4>1, <4>2 DEF Committed, Held
    <3> QED BY <3>1, <3>2
  <2>3. \A p \in Configured \ {Item(q)} : Committed(q)'[p] = Committed(q)[p]
    <3>1. CASE Differs(q)
      <4> DEFINE c == [active |-> Column(q, "active"), model |-> Column(q, "model")]
      <4>1. mine' = [mine EXCEPT ![q] = [@ EXCEPT ![Item(q)] = c]]
        BY <3>1 DEF Flush
      <4> HIDE DEF c
      <4>2. \A p \in Configured \ {Item(q)} : mine'[q][p] = mine[q][p]
        BY <1>1, <4>1
      <4> QED BY <1>1, <4>2 DEF Committed, Held
    <3>2. CASE ~Differs(q)
      BY <1>1, <3>2 DEF Flush, Committed, Held
    <3> QED BY <3>1, <3>2
  <2>4. \A i \in Items : Behind(q, i)' => Committed(q)'[Order[i]] = Memory(q)'[Order[i]]
    BY <1>4, <1>5, <2>1, <2>2, <2>3, ItemsTyped DEF Item
  <2> QED BY <1>3, <1>5, <1>6, <2>1, <2>4 DEF Exact
<1> QED BY <1>7, <1>8

LEMMA RequestKeepsExact ==
    ASSUME SoloInv, NEW q \in Requests, RequestStep(q) \/ Breaks(q)
    PROVE  \A p \in Requests : Exact(p)'
<1>1. CASE Commit(q) \/ Breaks(q)
  <2>1. act'[q].pc = "rest"
    BY <1>1, RequestsAreActors DEF Commit, Breaks, SoloInv, ConfigInv, ConfigTyped, Rest
  <2> QED BY <2>1, OtherKeepsExact DEF Exact, Saving
<1> QED BY <1>1, LoadIsExact, SelectIsExact, FlushIsExact, OtherKeepsExact DEF RequestStep

LEMMA SoloInitInv == ConfigInit => SoloInv
<1> SUFFICES ASSUME ConfigInit PROVE SoloInv
  OBVIOUS
<1>1. \A a \in Actors : act[a].pc = "rest" /\ mine[a] = NoRows
  BY DEF ConfigInit, Rest
<1>2. \A x \in Processes : Seeded(x)
  BY <1>1, RequestsAreActors DEF Seeded, Held, NoRows
<1>3. \A q \in Requests : Apart(q) /\ Exact(q)
  BY <1>1, RequestsAreActors DEF Apart, Exact, Saving
<1> QED BY <1>2, <1>3, ConfigInitInv DEF SoloInv

LEMMA SoloStepKeeps == SoloInv /\ [ConfigNext]_configVars => SoloInv'
<1> SUFFICES ASSUME SoloInv, [ConfigNext]_configVars PROVE SoloInv'
  OBVIOUS
<1>0. ConfigInv'
  BY ConfigStepKeeps DEF SoloInv
<1>1. ASSUME NEW x \in Processes, StartupStep(x) PROVE SoloInv'
  <2>1. \A y \in Processes : Seeded(y)'
    BY <1>1, StartupSeeds, StartupKeepsOthersSeeded
  <2> QED BY <1>0, <1>1, <2>1, StartupKeepsApart, StartupKeepsExact DEF SoloInv
<1>2. ASSUME NEW q \in Requests, RequestStep(q) \/ Breaks(q) PROVE SoloInv'
  BY <1>0, <1>2, RequestKeepsSeeded, RequestKeepsApart, RequestKeepsExact DEF SoloInv
<1>3. ASSUME NEW q \in Requests, NEW x \in Processes,
             NEW op \in {"read", "update", "reject"}, NEW target, NEW model,
             Begin(q, x, op, target, model)
      PROVE  SoloInv'
  <2>1. ASSUME NEW y \in Processes PROVE Seeded(y)'
    <3>1. /\ ConfigInv /\ Seeded(y) /\ act'[y] = act[y] /\ UNCHANGED <<rows, mine>>
      BY <1>3, BeginMoves, RequestsAreActors DEF SoloInv
    <3> QED BY <3>1 DEF Seeded, Held, Behind, AllRows
  <2> QED BY <1>0, <1>3, <2>1, BeginKeepsApart, BeginKeepsExact DEF SoloInv
<1>4. CASE UNCHANGED configVars
  <2>1. UNCHANGED <<rows, memory, mine, act, overlapped>>
    BY <1>4 DEF configVars
  <2>2. \A x \in Processes : Seeded(x)'
    BY <2>1 DEF SoloInv, Seeded, AllRows, Behind, Held
  <2>3. \A q \in Requests : Apart(q)'
    BY <2>1 DEF SoloInv, Apart
  <2>4. \A q \in Requests : Exact(q)'
    BY <2>1, ExactStays DEF SoloInv
  <2> QED BY <1>0, <2>2, <2>3, <2>4 DEF SoloInv
<1> QED BY <1>1, <1>2, <1>3, <1>4 DEF ConfigNext, User

\* An update that nothing related overlaps leaves the table as it was but for
\* what was asked of it, for any number of processes and providers and whatever
\* failed, was rejected or was seeded before: its process is up, so that every
\* row is there and the load takes all of them over, and nobody else changes
\* its memory or the table until it commits.
THEOREM SoloUpdatesAreExact == ConfigSpec => SoloUpdateIsExact
<1>1. ASSUME SoloInv, NEW q \in Requests, Commit(q), q \notin overlapped
      PROVE  \E s \in Subjects(q, rows) :
                rows' = [p \in Configured |->
                            [active |-> p = s,
                             model  |-> IF p = s /\ act[q].model # None
                                        THEN act[q].model ELSE rows[p].model]]
  <2>1. /\ act[q].pc = "commit" /\ act[q].op = "update" /\ rows' = Committed(q)
        /\ act[q].home \in Processes /\ ConfigInv /\ q \in Actors
    BY <1>1, HomeIsUp, RequestsAreActors DEF Commit, SoloInv
  <2>2. PICK s \in Subjects(q, rows) : Memory(q) = Edited(q, rows, s)
    BY <1>1, <2>1 DEF SoloInv, Exact, Saving
  <2>3. \A i \in Items : Committed(q)[Order[i]] = Memory(q)[Order[i]]
    BY <1>1, <2>1 DEF SoloInv, Exact, Saving, Behind
  <2>4. Committed(q) = Memory(q)
    <3>1. Committed(q) \in [Configured -> MaybeConfig] /\ Memory(q) \in [Configured -> Config]
      BY <2>1, RowsStay DEF Memory, ConfigInv, ConfigTyped
    <3>2. \A p \in Configured : Committed(q)[p] = Memory(q)[p]
      BY <2>3, EveryItem
    <3> QED BY <3>1, <3>2
  <2>5. Edited(q, rows, s) = [p \in Configured |->
                            [active |-> p = s,
                             model  |-> IF p = s /\ act[q].model # None
                                        THEN act[q].model ELSE rows[p].model]]
    BY <2>1 DEF Edited
  <2> QED BY <2>1, <2>2, <2>4, <2>5
<1>2. SoloInv /\ [ConfigNext]_configVars =>
        [\A q \in Requests : Commit(q) /\ q \notin overlapped =>
          \E s \in Subjects(q, rows) :
             rows' = [p \in Configured |->
                         [active |-> p = s,
                          model  |-> IF p = s /\ act[q].model # None
                                     THEN act[q].model ELSE rows[p].model]]]_configVars
  BY <1>1
<1> QED BY <1>2, SoloInitInv, SoloStepKeeps, PTL DEF ConfigSpec, SoloUpdateIsExact

-----------------------------------------------------------------------------
(* The two halves together *)

\* A step of both is one of each or leaves it alone, so that all that is true
\* of a half alone is true of it here.
THEOREM HalvesKept == PartsSpec => FailoverSpec /\ ConfigSpec
<1>1. PartsInit => FailoverInit /\ ConfigInit
  BY DEF PartsInit
<1>2. [PartsNext]_<<part, failoverVars, configVars>> =>
         [FailoverNext]_failoverVars /\ [ConfigNext]_configVars
  BY DEF PartsNext
<1> QED
  BY <1>1, <1>2, PTL DEF PartsSpec, FailoverSpec, ConfigSpec

\* Breakers, requests, rows, memories and updates are well formed together.
THEOREM ProvidersTypeCorrect == PartsSpec => []ProvidersTypeOK
<1>1. FailoverTypeOK /\ ConfigTypeOK => ProvidersTypeOK
  BY DEF ProvidersTypeOK
<1> QED
  BY <1>1, HalvesKept, FailoverTypeCorrect, ConfigTypeCorrect, PTL

=============================================================================
