------------------------ MODULE CycleDetectionProofs ------------------------
(***************************************************************************)
(* detect_cycles is right about every graph over every set of steps, and   *)
(* whatever the order in which Python iterates.                            *)
(*                                                                         *)
(* The calls under way are a path of the graph, so a step met again on the *)
(* stack closes a cycle.  The steps the search has finished depend on      *)
(* finished ones only, and every set of them has a member that depends on  *)
(* no other: a step is finished after its dependencies.                    *)
(***************************************************************************)
EXTENDS CycleDetection, SequenceTheorems, TLAPS

Finished == visited \ stack

NodesDiffer ==
    \A i, j \in DOMAIN calls : calls[i].node = calls[j].node => i = j

\* A call was made for a dependency of the call below it.
IsPath ==
    \A i \in DOMAIN calls : i + 1 \in DOMAIN calls =>
        calls[i + 1].node \in graph[calls[i].node]

LeftInGraph == \A i \in DOMAIN calls : calls[i].left \subseteq graph[calls[i].node]

\* What a call has gone through is finished, but for the call above it.
LeftIsRest ==
    \A i \in DOMAIN calls : \A d \in graph[calls[i].node] \ calls[i].left :
        d \in Finished \/ (i + 1 \in DOMAIN calls /\ d = calls[i + 1].node)

Closed == \A x \in Finished : graph[x] \subseteq Finished

Ordered ==
    \A c \in (SUBSET Finished) \ {{}} : \E x \in c : graph[x] \cap c = {}

IInv ==
    /\ TypeOK
    /\ stack \subseteq visited /\ Steps \ roots \subseteq visited
    /\ NodesDiffer /\ IsPath /\ LeftInGraph
    /\ verdict # "cycle" => LeftIsRest
    /\ Closed /\ Ordered
    /\ verdict = "cycle" => HasCycle(graph)
    /\ verdict = "acyclic" => Finished = Steps

LEMMA GraphTyped == ASSUME TypeOK PROVE graph \in [Steps -> SUBSET Steps]
  BY GraphsAssumption DEF TypeOK

LEMMA CallsTyped ==
  ASSUME TypeOK
  PROVE  /\ calls \in Seq(Frame) /\ Len(calls) \in Nat
         /\ DOMAIN calls = 1 .. Len(calls)
         /\ calls # <<>> => Len(calls) \in DOMAIN calls
         /\ \A i \in DOMAIN calls : calls[i].node \in Steps /\ calls[i] \in Frame
<1>1. calls \in Seq(Frame)
  BY DEF TypeOK
<1>2. Len(calls) \in Nat /\ DOMAIN calls = 1 .. Len(calls)
  BY <1>1, LenProperties
<1>3. calls # <<>> => Len(calls) \in DOMAIN calls
  BY <1>1, <1>2, EmptySeq
<1>4. \A i \in DOMAIN calls : calls[i] \in Frame
  BY <1>1, <1>2, ElementOfSeq
<1>5. \A i \in DOMAIN calls : calls[i].node \in Steps
  BY <1>4 DEF Frame
<1> QED BY <1>1, <1>2, <1>3, <1>4, <1>5

LEMMA UnderFrames ==
  ASSUME TypeOK, calls # <<>>, NEW n
  PROVE  /\ Under(n) \in Seq(Frame) /\ Len(Under(n)) = Len(calls)
         /\ DOMAIN Under(n) = DOMAIN calls
         /\ \A i \in DOMAIN calls :
               /\ Under(n)[i].node = calls[i].node
               /\ i # Len(calls) => Under(n)[i].left = calls[i].left
               /\ i = Len(calls) => Under(n)[i].left = calls[i].left \ {n}
<1> DEFINE top == [Top EXCEPT !.left = Top.left \ {n}]
<1>1. Top \in Frame
  BY CallsTyped DEF Top
<1>2. top \in Frame /\ top.node = Top.node /\ top.left = Top.left \ {n}
  BY <1>1 DEF Frame
<1>3. Under(n) = [calls EXCEPT ![Len(calls)] = top]
  BY DEF Under
<1> HIDE DEF top
<1>4. /\ Under(n) \in Seq(Frame) /\ Len(Under(n)) = Len(calls)
      /\ \A i \in 1 .. Len(calls) : Under(n)[i] = IF i = Len(calls) THEN top ELSE calls[i]
  BY <1>2, <1>3, CallsTyped, ExceptSeq
<1>5. DOMAIN Under(n) = DOMAIN calls
  BY <1>3
<1> QED BY <1>2, <1>4, <1>5, CallsTyped DEF Top

\* The step met again is on the path to itself.
LEMMA PathCloses ==
  ASSUME TypeOK, IsPath, calls # <<>>, NEW n \in stack, n \in graph[Top.node]
  PROVE  HasCycle(graph)
<1>1. PICK k \in DOMAIN calls : calls[k].node = n
  BY DEF TypeOK
<1>2. /\ Len(calls) \in Nat /\ k \in Nat /\ k <= Len(calls) /\ 1 <= k
      /\ DOMAIN calls = 1 .. Len(calls)
  BY CallsTyped
<1> DEFINE c == {calls[i].node : i \in k .. Len(calls)}
<1>3. \A i \in k .. Len(calls) : i \in DOMAIN calls
  BY <1>2
<1>4. c \in (SUBSET DOMAIN graph) \ {{}}
  <2>1. \A i \in k .. Len(calls) : calls[i].node \in Steps
    BY <1>3, CallsTyped
  <2>2. n \in c
    BY <1>1, <1>2
  <2> QED BY <2>1, <2>2, GraphTyped
<1>5. ASSUME NEW i \in k .. Len(calls) PROVE graph[calls[i].node] \cap c # {}
  <2>1. CASE i = Len(calls)
    <3>1. n \in c
      BY <1>1, <1>2
    <3> QED BY <3>1, <2>1 DEF Top
  <2>2. CASE i # Len(calls)
    <3>1. i \in DOMAIN calls /\ i + 1 \in DOMAIN calls /\ i + 1 \in k .. Len(calls)
      BY <1>2, <2>2
    <3>2. calls[i + 1].node \in c /\ calls[i + 1].node \in graph[calls[i].node]
      BY <3>1 DEF IsPath
    <3> QED BY <3>2
  <2> QED BY <2>1, <2>2
<1>6. \A x \in c : graph[x] \cap c # {}
  BY <1>5
<1> HIDE DEF c
<1> QED BY <1>4, <1>6 DEF HasCycle

-----------------------------------------------------------------------------
(* The calls of dfs *)

\* `under' is what dfs(n) is called on top of: the same calls, which may
\* have gone through n but through nothing else that is not done.
Beneath(under, n) ==
    /\ under \in Seq(Frame) /\ Len(under) = Len(calls)
    /\ DOMAIN under = DOMAIN calls
    /\ \A i \in DOMAIN calls :
          /\ under[i].node = calls[i].node
          /\ under[i].left \subseteq graph[calls[i].node]
          /\ \A d \in graph[calls[i].node] \ under[i].left :
                \/ d \in Finished
                \/ i + 1 \in DOMAIN calls /\ d = calls[i + 1].node
                \/ i = Len(calls) /\ d = n
    /\ calls # <<>> => n \in graph[Top.node]

LEMMA DfsMeetsStack ==
  ASSUME IInv, NEW n \in stack, NEW under, Beneath(under, n), UNCHANGED graph,
         roots' \subseteq roots, Steps \ roots' \subseteq visited,
         verdict' = "cycle", calls' = under, UNCHANGED <<visited, stack>>
  PROVE  IInv'
<1>1. TypeOK /\ calls # <<>>
  <2>1. TypeOK /\ DOMAIN calls # {}
    BY DEF IInv, TypeOK
  <2> QED BY <2>1, CallsTyped, EmptySeq
<1>2. HasCycle(graph)
  BY <1>1, PathCloses DEF IInv, Beneath
<1>3. stack = {under[i].node : i \in DOMAIN under}
  BY DEF IInv, TypeOK, Beneath
<1>4. TypeOK'
  BY <1>3 DEF IInv, TypeOK, Beneath
<1>5. NodesDiffer' /\ IsPath' /\ LeftInGraph'
  BY DEF IInv, NodesDiffer, IsPath, LeftInGraph, Beneath
<1>6. Closed' /\ Ordered'
  BY DEF IInv, Closed, Ordered, Finished
<1> QED BY <1>2, <1>4, <1>5, <1>6 DEF IInv

LEMMA DfsMeetsFinished ==
  ASSUME IInv, verdict = "searching", NEW n \in visited \ stack, NEW under,
         Beneath(under, n), UNCHANGED graph,
         roots' \subseteq roots, Steps \ roots' \subseteq visited,
         calls' = under, UNCHANGED <<visited, stack, verdict>>
  PROVE  IInv'
<1>1. stack = {under[i].node : i \in DOMAIN under}
  BY DEF IInv, TypeOK, Beneath
<1>2. TypeOK'
  BY <1>1 DEF IInv, TypeOK, Beneath
<1>3. NodesDiffer' /\ IsPath' /\ LeftInGraph'
  BY DEF IInv, NodesDiffer, IsPath, LeftInGraph, Beneath
<1>4. Closed' /\ Ordered'
  BY DEF IInv, Closed, Ordered, Finished
<1>5. LeftIsRest'
  <2>1. n \in Finished
    BY DEF Finished
  <2> QED BY <2>1 DEF LeftIsRest, Beneath, Finished
<1> QED BY <1>2, <1>3, <1>4, <1>5 DEF IInv

LEMMA DfsDescends ==
  ASSUME IInv, verdict = "searching", NEW n \in Steps, n \notin visited \cup stack,
         NEW under, Beneath(under, n), UNCHANGED <<graph, verdict>>,
         roots' \subseteq roots, Steps \ roots' \subseteq visited \cup {n},
         visited' = visited \cup {n}, stack' = stack \cup {n},
         calls' = Append(under, [node |-> n, left |-> graph[n]])
  PROVE  IInv'
<1> DEFINE frame == [node |-> n, left |-> graph[n]]
           top   == Len(calls) + 1
<1>1. frame \in Frame /\ frame.node = n /\ frame.left = graph[n]
  BY GraphTyped DEF IInv, Frame
<1>2. Len(calls) \in Nat /\ DOMAIN calls = 1 .. Len(calls) /\ TypeOK
      /\ (calls # <<>> => Len(calls) \in DOMAIN calls)
  BY CallsTyped DEF IInv
<1> HIDE DEF frame
<1>3. /\ calls' \in Seq(Frame)
      /\ DOMAIN calls' = DOMAIN calls \cup {top}
      /\ calls'[top] = frame
      /\ \A i \in DOMAIN calls : calls'[i] = under[i]
  <2>1. under \in Seq(Frame) /\ Len(under) = Len(calls) /\ calls' = Append(under, frame)
    BY DEF Beneath, frame
  <2> QED BY <1>1, <1>2, <2>1, AppendProperties
<1>4. Finished' = Finished
  BY DEF Finished
<1>5. \A i \in DOMAIN calls : calls'[i].node = calls[i].node /\ calls[i].node \in stack
  BY <1>2, <1>3 DEF Beneath, TypeOK
<1>6. stack' = {calls'[i].node : i \in DOMAIN calls'}
  <2>1. stack = {calls[i].node : i \in DOMAIN calls}
    BY <1>2 DEF TypeOK
  <2>2. \A i \in DOMAIN calls' : calls'[i].node \in stack'
    BY <1>1, <1>3, <1>5
  <2>3. \A x \in stack' : \E i \in DOMAIN calls' : calls'[i].node = x
    BY <1>1, <1>3, <1>5, <2>1
  <2> QED BY <2>2, <2>3
<1>7. TypeOK'
  BY <1>3, <1>6 DEF IInv, TypeOK
<1>8. NodesDiffer'
  <2>1. top \notin DOMAIN calls /\ calls'[top].node = n
    BY <1>1, <1>2, <1>3
  <2> QED BY <1>3, <1>5, <2>1 DEF IInv, NodesDiffer
<1>9. IsPath'
  <2> SUFFICES ASSUME NEW i \in DOMAIN calls', i + 1 \in DOMAIN calls'
               PROVE  calls'[i + 1].node \in graph[calls'[i].node]
    BY DEF IsPath
  <2>1. CASE i + 1 \in DOMAIN calls
    <3>1. i \in DOMAIN calls
      BY <1>2, <1>3, <2>1
    <3> QED BY <1>5, <2>1, <3>1 DEF IInv, IsPath
  <2>2. CASE i + 1 \notin DOMAIN calls
    <3>1. i = Len(calls) /\ i \in DOMAIN calls /\ i + 1 = top
      BY <1>2, <1>3, <2>2
    <3>2. n \in graph[calls[i].node]
      BY <1>2, <3>1, EmptySeq DEF Beneath, Top
    <3> QED BY <1>1, <1>3, <1>5, <3>1, <3>2
  <2> QED BY <2>1, <2>2
<1>10. LeftIsRest'
  <2> SUFFICES ASSUME NEW i \in DOMAIN calls', NEW d \in graph[calls'[i].node] \ calls'[i].left
               PROVE  \/ d \in Finished
                      \/ i + 1 \in DOMAIN calls' /\ d = calls'[i + 1].node
    BY <1>4 DEF LeftIsRest
  <2>1. CASE i = top
    BY <1>1, <1>3, <2>1
  <2>2. CASE i \in DOMAIN calls
    <3>1. d \in graph[calls[i].node] \ under[i].left
      BY <1>3, <1>5, <2>2
    <3>2. \/ d \in Finished
          \/ i + 1 \in DOMAIN calls /\ d = calls[i + 1].node
          \/ i = Len(calls) /\ d = n
      BY <2>2, <3>1 DEF Beneath
    <3> QED BY <1>1, <1>3, <1>5, <3>2
  <2> QED BY <1>3, <2>1, <2>2
<1>11. Closed' /\ Ordered'
  BY <1>4 DEF IInv, Closed, Ordered
<1>12. LeftInGraph'
  BY <1>1, <1>3, <1>5 DEF LeftInGraph, Beneath
<1> QED BY <1>4, <1>7, <1>8, <1>9, <1>10, <1>11, <1>12 DEF IInv

LEMMA DfsIInv ==
  ASSUME IInv, verdict = "searching", NEW n \in Steps, NEW under, Beneath(under, n),
         Dfs(n, under), UNCHANGED graph,
         roots' \subseteq roots, Steps \ roots' \subseteq visited \cup {n}
  PROVE  IInv'
<1>1. CASE n \in stack
  BY <1>1, DfsMeetsStack DEF Dfs, IInv
<1>2. CASE n \in visited \ stack
  BY <1>2, DfsMeetsFinished DEF Dfs, IInv
<1>3. CASE n \notin visited \cup stack
  BY <1>3, DfsDescends DEF Dfs, IInv
<1> QED BY <1>1, <1>2, <1>3

LEMMA CallRootIInv == ASSUME IInv, NEW n \in Steps, CallRoot(n) PROVE IInv'
<1>1. TypeOK /\ DOMAIN calls = {}
  BY CallsTyped, EmptySeq DEF IInv, CallRoot
<1>2. Beneath(calls, n)
  BY <1>1 DEF CallRoot, Beneath, TypeOK
<1> QED BY <1>2, DfsIInv DEF CallRoot, IInv

LEMMA CallDepIInv == ASSUME IInv, NEW n \in Steps, CallDep(n) PROVE IInv'
<1>1. /\ TypeOK /\ calls # <<>> /\ n \in Top.left /\ LeftIsRest /\ LeftInGraph
      /\ Len(calls) \in DOMAIN calls
  BY CallsTyped DEF IInv, CallDep
<1>2. n \in graph[Top.node]
  BY <1>1 DEF Top, LeftInGraph
<1>3. Beneath(Under(n), n)
  <2>1. ASSUME NEW i \in DOMAIN calls
        PROVE  /\ Under(n)[i].node = calls[i].node
               /\ Under(n)[i].left \subseteq graph[calls[i].node]
               /\ \A d \in graph[calls[i].node] \ Under(n)[i].left :
                     \/ d \in graph[calls[i].node] \ calls[i].left
                     \/ i = Len(calls) /\ d = n
    BY <1>1, UnderFrames DEF LeftInGraph
  <2> QED BY <1>1, <1>2, <2>1, UnderFrames DEF Beneath, LeftIsRest
<1> QED BY <1>3, DfsIInv DEF CallDep, IInv

LEMMA ReturnIInv == ASSUME IInv, Return PROVE IInv'
<1> DEFINE last == Len(calls)
           n    == Top.node
<1>1. /\ TypeOK /\ verdict = "searching" /\ LeftIsRest /\ calls[last].left = {}
      /\ last \in Nat /\ DOMAIN calls = 1 .. last /\ last \in DOMAIN calls
      /\ n = calls[last].node /\ n \in Steps
      /\ stack' = stack \ {n} /\ UNCHANGED <<graph, roots, visited, verdict>>
  BY CallsTyped DEF IInv, Return, Top
<1>2. /\ calls' \in Seq(Frame) /\ DOMAIN calls' = 1 .. last - 1
      /\ \A i \in 1 .. last - 1 : calls'[i] = calls[i]
  <2>1. \A i \in 1 .. last - 1 : calls[i] \in Frame
    BY <1>1, CallsTyped
  <2>2. calls' = SubSeq(calls, 1, last - 1)
    BY DEF Return
  <2>3. /\ calls' \in Seq(Frame) /\ Len(calls') = IF 1 <= last - 1 THEN last - 1 ELSE 0
        /\ \A i \in 1 .. last - 1 : calls'[i] = calls[i]
    <3>1. last - 1 \in Int /\ (last - 1) - 1 + 1 = last - 1 /\ 1 \in Int
      BY <1>1
    <3>2. /\ calls' \in Seq(Frame)
          /\ Len(calls') = IF 1 <= last - 1 THEN (last - 1) - 1 + 1 ELSE 0
          /\ \A i \in 1 .. (last - 1) - 1 + 1 : calls'[i] = calls[1 + i - 1]
      BY <2>1, <2>2, <3>1, SubSeqProperties
    <3>3. \A i \in 1 .. last - 1 : 1 + i - 1 = i
      BY <1>1
    <3> QED BY <3>1, <3>2, <3>3
  <2>4. Len(calls') = last - 1
    <3>1. last \in 1 .. last /\ last \in Nat
      BY <1>1
    <3>2. 1 <= last - 1 \/ last - 1 = 0
      BY <3>1
    <3> HIDE DEF last
    <3>3. CASE 1 <= last - 1
      BY <2>3, <3>3
    <3>4. CASE last - 1 = 0
      BY <2>3, <3>4
    <3> QED BY <3>2, <3>3, <3>4
  <2> QED BY <2>3, <2>4, LenProperties
<1>3. \A i \in DOMAIN calls' : i \in DOMAIN calls /\ i # last /\ calls'[i] = calls[i]
  BY <1>1, <1>2
<1>4. stack' = {calls'[i].node : i \in DOMAIN calls'}
  <2>1. stack = {calls[i].node : i \in DOMAIN calls}
    BY <1>1 DEF TypeOK
  <2>2. \A i \in DOMAIN calls' : calls'[i].node \in stack'
    BY <1>1, <1>3, <2>1 DEF IInv, NodesDiffer
  <2>3. ASSUME NEW x \in stack' PROVE \E i \in DOMAIN calls' : calls'[i].node = x
    <3>1. PICK i \in DOMAIN calls : calls[i].node = x
      BY <1>1, <2>1
    <3>2. i \in 1 .. last - 1
      BY <1>1, <3>1
    <3> QED BY <1>2, <3>1, <3>2
  <2> QED BY <2>2, <2>3
<1>5. n \in stack /\ n \in visited /\ Finished' = Finished \cup {n} /\ n \notin Finished
  BY <1>1 DEF IInv, TypeOK, Finished
<1>6. graph[n] \subseteq Finished
  BY <1>1 DEF LeftIsRest
<1>7. TypeOK'
  BY <1>1, <1>2, <1>4 DEF TypeOK
<1>8. NodesDiffer' /\ IsPath' /\ LeftInGraph'
  BY <1>1, <1>3 DEF IInv, NodesDiffer, IsPath, LeftInGraph
<1>9. LeftIsRest'
  <2> SUFFICES ASSUME NEW i \in DOMAIN calls', NEW d \in graph[calls'[i].node] \ calls'[i].left
               PROVE  \/ d \in Finished'
                      \/ i + 1 \in DOMAIN calls' /\ d = calls'[i + 1].node
    BY <1>1 DEF LeftIsRest
  <2>1. d \in Finished \/ (i + 1 \in DOMAIN calls /\ d = calls[i + 1].node)
    BY <1>1, <1>3 DEF LeftIsRest
  <2>2. ASSUME i + 1 \in DOMAIN calls PROVE i + 1 = last \/ i + 1 \in 1 .. last - 1
    BY <1>1, <1>2, <2>2
  <2> QED BY <1>1, <1>2, <1>5, <2>1, <2>2
<1>10. Closed'
  BY <1>1, <1>5, <1>6 DEF IInv, Closed
<1>11. Ordered'
  <2> SUFFICES ASSUME NEW c \in (SUBSET (Finished \cup {n})) \ {{}}
               PROVE  \E x \in c : graph[x] \cap c = {}
    BY <1>1, <1>5 DEF Ordered
  <2>1. CASE c \subseteq {n}
    BY <1>5, <1>6, <2>1
  <2>2. CASE ~(c \subseteq {n})
    <3>1. PICK x \in c \ {n} : graph[x] \cap (c \ {n}) = {}
      <4>1. c \ {n} \in (SUBSET Finished) \ {{}}
        BY <2>2
      <4> QED BY <4>1 DEF IInv, Ordered
    <3>2. graph[x] \subseteq Finished
      BY <3>1 DEF IInv, Closed
    <3> QED BY <1>5, <3>1, <3>2
  <2> QED BY <2>1, <2>2
<1>12. stack' \subseteq visited' /\ Steps \ roots' \subseteq visited'
  BY <1>1 DEF IInv
<1> QED BY <1>1, <1>7, <1>8, <1>9, <1>10, <1>11, <1>12 DEF IInv

LEMMA AcceptIInv == ASSUME IInv, Accept PROVE IInv'
<1>1. TypeOK /\ DOMAIN calls = {} /\ stack = {}
  <2>1. DOMAIN calls = {}
    BY CallsTyped, EmptySeq DEF IInv, Accept
  <2> QED BY <2>1 DEF IInv, TypeOK
<1>2. Finished = Steps
  BY <1>1 DEF IInv, Accept, Finished, TypeOK
<1> QED
  BY <1>2 DEF Accept, IInv, TypeOK, NodesDiffer, IsPath, LeftInGraph, LeftIsRest,
     Closed, Ordered, Finished

LEMMA InitIInv == Init => IInv
<1> SUFFICES ASSUME Init PROVE IInv
  OBVIOUS
<1>1. calls = <<>> /\ calls \in Seq(Frame) /\ DOMAIN calls = {} /\ Finished = {}
  BY EmptySeq DEF Init, Finished
<1> QED
  BY <1>1 DEF Init, IInv, TypeOK, NodesDiffer, IsPath, LeftInGraph, LeftIsRest,
     Closed, Ordered

LEMMA NextIInv == IInv /\ [Next]_vars => IInv'
<1> SUFFICES ASSUME IInv, [Next]_vars PROVE IInv'
  OBVIOUS
<1>1. CASE UNCHANGED vars
  BY <1>1 DEF vars, IInv, TypeOK, NodesDiffer, IsPath, LeftInGraph, LeftIsRest,
     Closed, Ordered, Finished
<1> QED BY <1>1, CallRootIInv, CallDepIInv, ReturnIInv, AcceptIInv DEF Next

-----------------------------------------------------------------------------
(* The theorems *)

\* The invariant the other theorems follow from.
THEOREM Invariance == Spec => []IInv
  BY InitIInv, NextIInv, PTL DEF Spec

\* A workflow that detect_cycles rejects has steps that all wait for one
\* another.
THEOREM Sound == Spec => []RejectsOnlyCycles
<1>1. IInv => RejectsOnlyCycles
  BY DEF IInv, RejectsOnlyCycles
<1> QED BY <1>1, Invariance, PTL

\* A workflow that it accepts has none: what DAGEngineProofs takes from the
\* validation of a session.
THEOREM Complete == Spec => []AcceptsOnlyAcyclic
<1>1. IInv => AcceptsOnlyAcyclic
  <2> SUFFICES ASSUME IInv, verdict = "acyclic", HasCycle(graph) PROVE FALSE
    BY DEF AcceptsOnlyAcyclic
  <2>1. Finished = Steps /\ DOMAIN graph = Steps
    BY GraphTyped DEF IInv
  <2>2. PICK c \in (SUBSET DOMAIN graph) \ {{}} : \A x \in c : graph[x] \cap c # {}
    BY DEF HasCycle
  <2> QED BY <2>1, <2>2 DEF IInv, Ordered
<1> QED BY <1>1, Invariance, PTL
=============================================================================
