----------------------------- MODULE PartsProofs -----------------------------
(***************************************************************************)
(* Two of the parts MCParts checks.  Chunking: for every text, size and    *)
(* overlap, what the loop has passed is kept, so that nothing is lost when *)
(* it returns.  WorkflowStream: for any number of steps, a stream that     *)
(* comes to its end has told its client the truth, and a reader that waits *)
(* for a frame has a task that goes on.                                    *)
(***************************************************************************)
EXTENDS Chunking, WorkflowStream, SequenceTheorems, TLAPS

-----------------------------------------------------------------------------
(* Chunking *)

\* The next window begins within overlap characters of the end of this one:
\* a passage that starts before it is in this window or an earlier one.
PassedKept ==
    \A i, j \in DOMAIN text :
       text[i] /\ text[j] /\ i <= j /\ j - i <= overlap /\ i <= start => PassageKept(i, j)

ChunkInv ==
    /\ ChunkTypeOK
    /\ \A k \in DOMAIN chunks : chunks[k].to - chunks[k].from < size
    /\ outcome \in {"called", "refused"} => chunks = <<>> /\ start = 0
    /\ outcome = "looping" => Len(chunks) <= start /\ PassedKept
    /\ PassagesKept

LEMMA TextTyped ==
    ASSUME ChunkTypeOK
    PROVE  /\ text \in Seq(BOOLEAN) /\ size \in Int /\ overlap \in Int
           /\ Len(text) \in Nat /\ DOMAIN text = 1..Len(text)
  BY ChunkAssumption DEF ChunkTypeOK

LEMMA EndBounds ==
    ASSUME ChunkTypeOK, outcome = "looping"
    PROVE  /\ End \in start + 1 .. Len(text)
           /\ End <= start + size
           /\ End < Len(text) => End = start + size
  BY TextTyped DEF ChunkTypeOK, Accepted, End

\* A chunk holds all that is no blank in its window, and is no longer.
LEMMA ChunkBounds ==
    ASSUME ChunkTypeOK, outcome = "looping", NEW chunk \in Stripped
    PROVE  /\ chunk \in Span
           /\ chunk.to - chunk.from < size
           /\ \A i \in Marks : chunk.from <= i /\ i <= chunk.to
<1>1. PICK f \in Marks, t \in Marks :
         /\ chunk = [from |-> f, to |-> t]
         /\ \A m \in Marks : f <= m /\ m <= t
  BY DEF Stripped
<1>2. f \in (start + 1)..End /\ t \in (start + 1)..End
  BY DEF Marks
<1> QED
  BY <1>1, <1>2, TextTyped, EndBounds DEF ChunkTypeOK, Span

LEMMA InitInv == ChunkInit => ChunkInv
<1> SUFFICES ASSUME ChunkInit PROVE ChunkInv
  OBVIOUS
<1>1. chunks \in Seq(Span) /\ DOMAIN chunks = {} /\ Len(chunks) = 0
  BY DEF ChunkInit
<1> QED
  BY <1>1 DEF ChunkInit, ChunkInv, ChunkTypeOK, PassagesKept

LEMMA EnterKeeps == ASSUME ChunkInv, Enter PROVE ChunkInv'
<1>0. /\ UNCHANGED <<text, size, overlap, start, chunks>>
      /\ chunks = <<>> /\ start = 0
  BY DEF ChunkInv, Enter
<1>1. /\ outcome' \in {"refused", "returned", "looping"}
      /\ outcome' = "looping" => Accepted /\ text # <<>>
      /\ outcome' = "returned" => text = <<>>
  BY DEF Enter
<1>2. ChunkTypeOK
  BY DEF ChunkInv
<1>3. outcome' = "looping" => start < Len(text)
  BY <1>0, <1>1, <1>2, TextTyped
<1>4. ChunkTypeOK'
  BY <1>0, <1>1, <1>2, <1>3 DEF ChunkTypeOK, Span, Accepted
<1>5. PassedKept'
  BY <1>0, <1>2, TextTyped DEF PassedKept
<1>6. outcome' = "returned" => DOMAIN text' = {}
  BY <1>0, <1>1
<1>7. PassagesKept'
  BY <1>0, <1>6 DEF PassagesKept
<1>8. DOMAIN chunks = {} /\ Len(chunks) = 0
  BY <1>0
<1> QED
  BY <1>0, <1>1, <1>4, <1>5, <1>7, <1>8 DEF ChunkInv

LEMMA WindowKeeps == ASSUME ChunkInv, Window PROVE ChunkInv'
<1>0. ChunkTypeOK /\ outcome = "looping"
  BY DEF ChunkInv, Window
<1>1. UNCHANGED <<text, size, overlap>>
  BY DEF Window
<1>2. /\ chunks' \in Seq(Span) /\ Len(chunks') <= Len(chunks) + 1
      /\ \A k \in DOMAIN chunks : k \in DOMAIN chunks' /\ chunks'[k] = chunks[k]
      /\ \A k \in DOMAIN chunks' : chunks'[k].to - chunks'[k].from < size
      /\ Marks # {} => \E k \in DOMAIN chunks' :
                          \A i \in Marks : chunks'[k].from <= i /\ i <= chunks'[k].to
  <2>1. chunks \in Seq(Span) /\ \A k \in DOMAIN chunks : chunks[k].to - chunks[k].from < size
    BY DEF ChunkInv, ChunkTypeOK
  <2>2. CASE Marks = {}
    <3>1. chunks' = chunks
      BY <2>2 DEF Window
    <3> QED
      BY <2>1, <2>2, <3>1
  <2>3. CASE Marks # {}
    <3>1. PICK chunk \in Stripped : chunks' = Append(chunks, chunk)
      BY <2>3 DEF Window
    <3>2. /\ chunk \in Span /\ chunk.to - chunk.from < size
          /\ \A i \in Marks : chunk.from <= i /\ i <= chunk.to
      BY <1>0, ChunkBounds
    <3> HIDE DEF Span
    <3>3. /\ chunks' \in Seq(Span) /\ Len(chunks') = Len(chunks) + 1
          /\ DOMAIN chunks' = DOMAIN chunks \cup {Len(chunks) + 1}
          /\ \A k \in DOMAIN chunks : chunks'[k] = chunks[k]
          /\ chunks'[Len(chunks) + 1] = chunk
      BY <2>1, <3>1, <3>2
    <3> QED
      BY <2>1, <3>2, <3>3
  <2> QED
    BY <2>2, <2>3
<1>3. ASSUME NEW i \in DOMAIN text, NEW j \in DOMAIN text, text[i], text[j], i <= j,
             \/ j - i <= overlap /\ i <= start
             \/ start < i /\ j <= End
      PROVE  PassageKept(i, j)'
  <2>1. CASE j - i <= overlap /\ i <= start
    <3>1. PassageKept(i, j)
      BY <1>0, <1>3, <2>1 DEF ChunkInv, PassedKept
    <3> QED
      BY <1>2, <3>1 DEF PassageKept
  <2>2. CASE start < i /\ j <= End
    <3>1. i \in Marks /\ j \in Marks
      BY <1>0, <1>3, <2>2, TextTyped, EndBounds DEF Marks, ChunkTypeOK
    <3> QED
      BY <1>2, <3>1 DEF PassageKept
  <2> QED
    BY <1>3, <2>1, <2>2
<1>4. CASE End >= Len(text)
  <2>1. outcome' = "returned" /\ UNCHANGED start
    BY <1>4 DEF Window
  <2>2. ChunkTypeOK'
    BY <1>0, <1>1, <1>2, <2>1 DEF ChunkTypeOK, Span, Accepted
  <2>3. Len(chunks') <= start' + 1
    BY <1>0, <1>2, <2>1 DEF ChunkInv, ChunkTypeOK
  <2>4. ASSUME NEW i \in DOMAIN text, NEW j \in DOMAIN text, text[i], text[j], i <= j,
               j - i <= overlap
        PROVE  PassageKept(i, j)'
    BY <1>0, <1>3, <1>4, <2>4, TextTyped, EndBounds DEF ChunkTypeOK
  <2>5. PassagesKept'
    BY <1>1, <1>2, <2>3, <2>4 DEF PassagesKept
  <2> QED
    BY <1>1, <1>2, <2>1, <2>2, <2>5 DEF ChunkInv
<1>5. CASE End < Len(text)
  <2>0. ~(End >= Len(text))
    BY <1>0, <1>5, TextTyped, EndBounds
  <2>1. outcome' = "looping" /\ start' = End - overlap
    BY <2>0 DEF Window, NextStart
  <2>2. start' \in Nat /\ start' > start /\ start' < Len(text)
    BY <1>0, <1>5, <2>1, TextTyped, EndBounds DEF ChunkTypeOK, Accepted
  <2>3. ChunkTypeOK'
    BY <1>0, <1>1, <1>2, <2>1, <2>2 DEF ChunkTypeOK, Span, Accepted
  <2>4. Len(chunks') <= start'
    BY <1>0, <1>2, <2>2 DEF ChunkInv, ChunkTypeOK
  <2>5. ASSUME NEW i \in DOMAIN text, NEW j \in DOMAIN text, text[i], text[j], i <= j,
               j - i <= overlap, i <= start'
        PROVE  PassageKept(i, j)'
    BY <1>0, <1>3, <2>1, <2>5, TextTyped, EndBounds DEF ChunkTypeOK
  <2>6. PassedKept'
    BY <1>1, <2>5 DEF PassedKept
  <2>7. PassagesKept'
    BY <1>1, <1>2, <2>1, <2>2, <2>4 DEF PassagesKept
  <2> QED
    BY <1>1, <1>2, <2>1, <2>3, <2>4, <2>6, <2>7 DEF ChunkInv
<1> QED
  BY <1>0, <1>4, <1>5, TextTyped, EndBounds

LEMMA StepKeeps == ChunkInv /\ [ChunkNext]_chunkVars => ChunkInv'
<1> SUFFICES ASSUME ChunkInv, [ChunkNext]_chunkVars PROVE ChunkInv'
  OBVIOUS
<1>1. CASE Enter
  BY <1>1, EnterKeeps
<1>2. CASE Window
  BY <1>2, WindowKeeps
<1>3. CASE UNCHANGED chunkVars
  BY <1>3 DEF chunkVars, ChunkInv, ChunkTypeOK, Span, Accepted, PassedKept,
              PassagesKept, PassageKept
<1> QED
  BY <1>1, <1>2, <1>3 DEF ChunkNext

\* The invariant of the loop.
THEOREM InvHolds == ChunkSpec => []ChunkInv
  BY InitInv, StepKeeps, PTL DEF ChunkSpec

\* The loop's variables are of their types, and it is entered only with a
\* size and an overlap that let it advance.
THEOREM ChunkTypeCorrect == ChunkSpec => []ChunkTypeOK
<1>1. ChunkInv => ChunkTypeOK
  BY DEF ChunkInv
<1> QED
  BY <1>1, InvHolds, PTL

\* Nothing of a document is lost at the boundary of two chunks: what is at
\* most one character longer than the overlap is whole in one of them.
THEOREM NothingLost == ChunkSpec => []PassagesKept
<1>1. ChunkInv => PassagesKept
  BY DEF ChunkInv
<1> QED
  BY <1>1, InvHolds, PTL

-----------------------------------------------------------------------------
(* WorkflowStream *)

\* What was put into the queue, got or not, and what was flushed, committed
\* or not.
Told == heard \o queue
Kept == events \o log

NoneTerminal(s) == \A k \in 1..Len(s) : s[k] \notin Terminal

EndsWith(s, frame) ==
    /\ s # <<>> /\ s[Len(s)] = frame
    /\ \A k \in 1..Len(s) - 1 : s[k] \notin Terminal

\* What is so between two steps of a task whose session works and whose
\* frames are read: an event in the log keeps the run from being deleted, so
\* that a task which has said `completed' or is about to say `failed' gets
\* there.
Progress ==
    /\ row = "unborn" <=> task \in {"queue", "start"}
    /\ row = "unborn" => events = <<>>
    /\ task \in {"queue", "start", "started", "announce", "engine", "complete",
                 "tell", "fail", "failed", "notice"} => NoneTerminal(Told)
    /\ task \in {"engine", "complete", "tell", "check", "commit", "fail"} =>
          row # "gone" /\ log # <<>>
    /\ task = "raised" => row = "gone" \/ (log # <<>> /\ NoneTerminal(Told))
    /\ task \in {"tell", "check", "commit"} => own = "completed"
    /\ task \in {"check", "commit", "confirm"} => EndsWith(Told, "completed")
    /\ task = "confirm" => settledAs = "completed" /\ log = <<>>
    /\ task = "failed" => settledAs = "failed" /\ log = <<>>
    /\ task = "notice" => settledAs = "canceled" \/ (settledAs = "failed" /\ log = <<>>)
    /\ task = "ended" =>
          \/ EndsWith(Told, "completed") /\ settledAs = "completed" /\ log = <<>>
          \/ /\ EndsWith(Told, "failed")
             /\ settledAs = "canceled" \/ (settledAs = "failed" /\ log = <<"failed">>)
    /\ row # "gone" => Told = Kept

StreamInv ==
    /\ StreamTypeOK
    /\ session = "broken" => task \in {"raised", "dead"}
    /\ session = "closed" => ~Subscribed
    /\ Subscribed /\ session = "open" => Progress
    /\ reader = "waiting" => Last \in Terminal
    /\ reader = "done" => task = "ended" /\ session = "closed"
    /\ ToldIsTrue

LEMMA FrameNames ==
    /\ \A f \in FrameKind : f \in Terminal <=> f \in {"completed", "failed"}
    /\ Terminal \subseteq FrameKind
    /\ "queued" \in FrameKind \ Terminal /\ "started" \in FrameKind \ Terminal
    /\ "step" \in FrameKind \ Terminal
    /\ "completed" \in FrameKind /\ "failed" \in FrameKind
  BY DEF FrameKind, Terminal

LEMMA Appended ==
    ASSUME NEW s \in Seq(FrameKind), NEW t \in Seq(FrameKind), NEW f \in FrameKind
    PROVE  /\ s \o Append(t, f) = Append(s \o t, f)
           /\ s \o t \in Seq(FrameKind)
<1>1. s \o t \in Seq(FrameKind)
  BY ConcatProperties
<1>2. <<f>> \in Seq(FrameKind)
  OBVIOUS
<1>3. Append(s \o t, f) = (s \o t) \o <<f>> /\ Append(t, f) = t \o <<f>>
  BY <1>1, AppendIsConcat
<1>4. (s \o t) \o <<f>> = s \o (t \o <<f>>)
  BY <1>2, ConcatAssociative
<1> QED
  BY <1>1, <1>3, <1>4

LEMMA Moved ==
    ASSUME NEW s \in Seq(FrameKind), NEW t \in Seq(FrameKind), t # <<>>
    PROVE  /\ Append(s, Head(t)) \o Tail(t) = s \o t
           /\ Append(s, Head(t)) \in Seq(FrameKind) /\ Tail(t) \in Seq(FrameKind)
<1> DEFINE u == Append(s, Head(t))
<1>1. Head(t) \in FrameKind /\ Tail(t) \in Seq(FrameKind) /\ Len(Tail(t)) = Len(t) - 1
      /\ \A i \in 1 .. Len(Tail(t)) : Tail(t)[i] = t[i + 1]
  BY HeadTailProperties
<1>2. /\ u \in Seq(FrameKind) /\ Len(u) = Len(s) + 1
      /\ \A i \in 1..Len(s) : u[i] = s[i]
      /\ u[Len(s) + 1] = Head(t)
  BY <1>1, AppendProperties
<1>3. /\ u \o Tail(t) \in Seq(FrameKind) /\ s \o t \in Seq(FrameKind)
      /\ Len(u \o Tail(t)) = Len(u) + Len(Tail(t)) /\ Len(s \o t) = Len(s) + Len(t)
      /\ \A i \in 1 .. Len(u) + Len(Tail(t)) : (u \o Tail(t))[i] =
             IF i <= Len(u) THEN u[i] ELSE Tail(t)[i - Len(u)]
      /\ \A i \in 1 .. Len(s) + Len(t) : (s \o t)[i] =
             IF i <= Len(s) THEN s[i] ELSE t[i - Len(s)]
  BY <1>1, <1>2, ConcatProperties
<1>4. Len(s) \in Nat /\ Len(t) \in Nat /\ Len(t) > 0 /\ Head(t) = t[1]
  BY EmptySeq, LenProperties
<1>5. Len(u \o Tail(t)) = Len(s \o t)
  BY <1>1, <1>2, <1>3, <1>4
<1>6. ASSUME NEW i \in 1..Len(s \o t) PROVE (u \o Tail(t))[i] = (s \o t)[i]
  <2>1. CASE i <= Len(s)
    BY <1>2, <1>3, <1>4, <1>5, <2>1
  <2>2. CASE i = Len(s) + 1
    BY <1>2, <1>3, <1>4, <1>5, <2>2
  <2>3. CASE i > Len(s) + 1
    <3>1. (u \o Tail(t))[i] = Tail(t)[i - Len(u)]
      BY <1>1, <1>2, <1>3, <1>4, <1>5, <2>3
    <3>2. i - Len(u) \in 1..Len(Tail(t)) /\ i - Len(u) + 1 = i - Len(s)
      BY <1>1, <1>2, <1>3, <1>4, <2>3
    <3>3. (s \o t)[i] = t[i - Len(s)]
      BY <1>3, <1>4, <2>3
    <3> QED
      BY <1>1, <3>1, <3>2, <3>3
  <2> QED
    BY <1>3, <1>4, <2>1, <2>2, <2>3
<1> HIDE DEF u
<1>7. u \o Tail(t) = s \o t
  BY <1>3, <1>5, <1>6, SeqEqual
<1> QED
  BY <1>1, <1>2, <1>7 DEF u

LEMMA TellsPlain ==
    ASSUME NEW s \in Seq(FrameKind), NEW f \in FrameKind \ Terminal, NoneTerminal(s)
    PROVE  NoneTerminal(Append(s, f))
  BY AppendProperties, LenProperties DEF NoneTerminal

LEMMA TellsTerminal ==
    ASSUME NEW s \in Seq(FrameKind), NEW f \in FrameKind, NoneTerminal(s)
    PROVE  EndsWith(Append(s, f), f)
<1>1. /\ Append(s, f) # <<>> /\ Len(Append(s, f)) = Len(s) + 1 /\ Len(s) \in Nat
      /\ \A i \in 1..Len(s) : Append(s, f)[i] = s[i]
      /\ Append(s, f)[Len(s) + 1] = f
  BY AppendProperties, LenProperties
<1> QED
  BY <1>1 DEF NoneTerminal, EndsWith

\* A reader that has got a terminal frame has got all.
LEMMA LastIsAll ==
    ASSUME NEW s \in Seq(FrameKind), NEW t \in Seq(FrameKind), NEW f,
           EndsWith(s \o t, f), s # <<>>, s[Len(s)] \in Terminal
    PROVE  s \o t = s /\ s[Len(s)] = f
<1>1. Len(s) \in Nat /\ Len(t) \in Nat /\ Len(s) > 0
  BY EmptySeq, LenProperties
<1>2. /\ Len(s \o t) = Len(s) + Len(t)
      /\ \A i \in 1 .. Len(s) + Len(t) : (s \o t)[i] =
             IF i <= Len(s) THEN s[i] ELSE t[i - Len(s)]
  BY ConcatProperties
<1>3. (s \o t)[Len(s)] = s[Len(s)]
  BY <1>1, <1>2
<1>4. ~(Len(s) \in 1..Len(s \o t) - 1)
  BY <1>3 DEF EndsWith
<1>5. Len(t) = 0
  BY <1>1, <1>2, <1>4
<1>6. t = <<>>
  BY <1>5, EmptySeq
<1> QED
  BY <1>3, <1>6, ConcatEmptySeq DEF EndsWith

LEMMA StreamTyped ==
    ASSUME StreamTypeOK
    PROVE  /\ Told \in Seq(FrameKind) /\ Kept \in Seq(FrameKind)
           /\ \A f \in FrameKind :
                 /\ heard \o Append(queue, f) = Append(Told, f)
                 /\ events \o Append(log, f) = Append(Kept, f)
                 /\ Append(queue, f) \in Seq(FrameKind)
                 /\ Append(log, f) \in Seq(FrameKind) /\ Append(log, f) # <<>>
<1>1. heard \in Seq(FrameKind) /\ queue \in Seq(FrameKind)
      /\ events \in Seq(FrameKind) /\ log \in Seq(FrameKind)
  BY DEF StreamTypeOK
<1>2. Told \in Seq(FrameKind) /\ Kept \in Seq(FrameKind)
  BY <1>1, ConcatProperties DEF Told, Kept
<1>3. ASSUME NEW f \in FrameKind
      PROVE  /\ heard \o Append(queue, f) = Append(heard \o queue, f)
             /\ events \o Append(log, f) = Append(events \o log, f)
  BY <1>1, Appended
<1>4. ASSUME NEW f \in FrameKind
      PROVE  /\ Append(queue, f) \in Seq(FrameKind)
             /\ Append(log, f) \in Seq(FrameKind) /\ Append(log, f) # <<>>
  BY <1>1, AppendProperties
<1> QED
  BY <1>2, <1>3, <1>4 DEF Told, Kept

LEMMA StreamBegins == StreamInit => StreamInv
<1>1. <<>> \in Seq(FrameKind) /\ <<>> \o <<>> = <<>>
  BY EmptySeq, ConcatEmptySeq
<1> QED
  BY <1>1, EmptySeq DEF StreamInit, StreamInv, StreamTypeOK, RowState, TaskState, Subscribed,
         Progress, NoneTerminal, Told, Kept, ToldIsTrue

\* While the task works no stream is done; nothing else of the invariant is
\* about the task of a session that is not read, or does not work.
LEMMA TaskFrame ==
    ASSUME StreamInv, ~TaskOver, Reading, StreamTypeOK', session' \in {session, "broken"},
           session' = "broken" => task' \in {"raised", "dead"},
           Subscribed /\ session = "open" /\ session' = "open" /\ Progress => Progress'
    PROVE  StreamInv'
  BY DEF StreamInv, Reading, TaskOver, ToldIsTrue, Subscribed, Last

LEMMA EmitKeeps ==
    ASSUME StreamInv, ~TaskOver, NEW f \in FrameKind, NEW next \in TaskState,
           NEW otherwise \in {"raised", "dead"}, Emit(f, next, otherwise),
           session = "broken" => next \in {"raised", "dead"},
           Subscribed /\ session = "open" /\ row # "gone" /\ Progress
              /\ log' = Append(log, f) /\ Told' = Append(Told, f) /\ Kept' = Append(Kept, f)
              /\ log' # <<>> /\ Told \in Seq(FrameKind) /\ own' = own /\ task' = next
              /\ row' = row /\ events' = events /\ settledAs' = settledAs /\ Told' = Kept'
              => Progress'
    PROVE  StreamInv'
<1>1. UNCHANGED <<row, seen, events, settledAs, reader, heard>>
  BY DEF Emit, Environment, Reading
<1>2. StreamTypeOK'
  BY <1>1, StreamTyped, EmptySeq DEF StreamInv, StreamTypeOK, Emit, BreaksIn, Goes, Flushed, TaskState
<1>3. session' \in {session, "broken"} /\ (session' = "broken" => task' \in {"raised", "dead"})
  BY DEF Emit, BreaksIn, Goes
<1>4. ASSUME Subscribed, session = "open", session' = "open", Progress PROVE Progress'
  <2>1. Inserts
    BY <1>4 DEF Emit, BreaksIn
  <2>2. log' = Append(log, f) /\ queue' = Append(queue, f) /\ task' = next /\ own' = own
    BY <1>4, <2>1 DEF Emit, Goes
  <2>3. Told' = Append(Told, f) /\ Kept' = Append(Kept, f)
    BY <1>1, <2>2, StreamTyped DEF Told, Kept, StreamInv
  <2>4. Told' = Kept' /\ row # "gone"
    BY <1>4, <2>1, <2>3 DEF Inserts, Progress
  <2> QED
    BY <1>1, <1>4, <2>2, <2>3, <2>4, StreamTyped DEF StreamInv
<1> QED
  BY <1>1, <1>2, <1>3, <1>4, TaskFrame DEF Reading

LEMMA EmitsKeep ==
    ASSUME StreamInv
    PROVE  /\ EmitQueued => StreamInv'
           /\ EmitStarted => StreamInv'
           /\ EmitStep => StreamInv'
           /\ EmitDone => StreamInv'
           /\ EmitFailed => StreamInv'
<1>1. ASSUME EmitQueued PROVE StreamInv'
  BY <1>1, EmitKeeps, TellsPlain, FrameNames
     DEF EmitQueued, TaskOver, TaskState, Progress, StreamInv
<1>2. ASSUME EmitStarted PROVE StreamInv'
  BY <1>2, EmitKeeps, TellsPlain, FrameNames
     DEF EmitStarted, TaskOver, TaskState, Progress, StreamInv
<1>3. ASSUME EmitStep PROVE StreamInv'
  BY <1>3, EmitKeeps, TellsPlain, FrameNames
     DEF EmitStep, TaskOver, TaskState, Progress, StreamInv
<1>4. ASSUME EmitDone PROVE StreamInv'
  <2>1. ASSUME Told \in Seq(FrameKind), NoneTerminal(Told)
        PROVE  EndsWith(Append(Told, "completed"), "completed")
    BY <2>1, TellsTerminal, FrameNames
  <2>3. ASSUME Progress, Told \in Seq(FrameKind), Told' = Append(Told, "completed"),
               Told' = Kept', log' = Append(log, "completed"), log' # <<>>, own' = own,
               task' = "check", row' = row, row # "gone", events' = events, settledAs' = settledAs
        PROVE  Progress'
    BY <1>4, <2>1, <2>3 DEF EmitDone, Progress
  <2>4. task = "tell" /\ Emit("completed", "check", "raised") /\ ~TaskOver
    BY <1>4 DEF EmitDone, TaskOver, StreamInv
  <2> QED
    BY <2>3, <2>4, EmitKeeps, FrameNames DEF TaskState, StreamInv
<1>5. ASSUME EmitFailed PROVE StreamInv'
  <2>1. ASSUME Told \in Seq(FrameKind), NoneTerminal(Told)
        PROVE  EndsWith(Append(Told, "failed"), "failed")
    BY <2>1, TellsTerminal, FrameNames
  <2>2. ASSUME log = <<>>, log' = Append(log, "failed") PROVE log' = <<"failed">>
    BY <2>2
  <2>3. ASSUME Progress, Told \in Seq(FrameKind), Told' = Append(Told, "failed"),
               Told' = Kept', log' = Append(log, "failed"), log' # <<>>, own' = own,
               task' = "ended", row' = row, row # "gone", events' = events, settledAs' = settledAs
        PROVE  Progress'
    BY <1>5, <2>1, <2>2, <2>3 DEF EmitFailed, Progress
  <2>4. task = "notice" /\ Emit("failed", "ended", "dead") /\ ~TaskOver
    BY <1>5 DEF EmitFailed, TaskOver, StreamInv
  <2> QED
    BY <2>3, <2>4, EmitKeeps, FrameNames DEF TaskState, StreamInv
<1> QED
  BY <1>1, <1>2, <1>3, <1>4, <1>5

\* A step of the task that commits nothing and says nothing.
LEMMA SilentKeeps ==
    ASSUME StreamInv, ~TaskOver, Reading, UNCHANGED <<row, events, log, session, queue>>,
           settledAs' \in {"none", "completed", "failed", "canceled"},
           own' \in {"none", "completed"}, seen' \in RowState \cup {"none"}, task' \in TaskState,
           session = "broken" => task' \in {"raised", "dead"},
           Subscribed /\ session = "open" /\ Progress /\ Told' = Told /\ Kept' = Kept
              => Progress'
    PROVE  StreamInv'
<1>1. Told' = Told /\ Kept' = Kept 
  BY DEF Told, Kept, Reading
<1>2. StreamTypeOK'
  BY <1>1 DEF StreamInv, StreamTypeOK, Reading
<1> QED
  BY <1>1, <1>2, TaskFrame DEF StreamInv

LEMMA CommitKeeps ==
    ASSUME StreamInv, ~TaskOver, Reading, NEW status \in RowState, NEW next \in TaskState,
           Commits(status, next), seen' \in RowState \cup {"none"}, session # "broken",
           settledAs' \in {"none", "completed", "failed", "canceled"},
           Subscribed /\ session = "open" /\ Progress /\ Told' = Told /\ Kept' = Kept
              /\ log' = <<>> /\ row' = status /\ task' = next /\ own' = "none" => Progress'
    PROVE  StreamInv'
<1>1. events \in Seq(FrameKind) /\ log \in Seq(FrameKind)
  BY DEF StreamInv, StreamTypeOK
<1>2. events \o log \in Seq(FrameKind)
  BY <1>1, ConcatProperties
<1>3. Told' = Told /\ Kept' = Kept
  BY <1>2, ConcatEmptySeq DEF Told, Kept, Commits, Flushed, Reading
<1>4. StreamTypeOK'
  BY <1>2, EmptySeq DEF StreamInv, StreamTypeOK, Commits, Flushed, Goes, Reading
<1> QED
  BY <1>3, <1>4, TaskFrame DEF StreamInv, Commits, Flushed, Goes

LEMMA RaisesKeep ==
    ASSUME StreamInv
    PROVE  /\ RefreshRunning => StreamInv'
           /\ EngineEnds => StreamInv'
           /\ RefreshCompleted => StreamInv'
           /\ RefreshCommitted => StreamInv'
           /\ RefreshFailedRun => StreamInv'
           /\ FlushCompleted => StreamInv'
           /\ RefreshFailing => StreamInv'
<1> USE DEF Environment, Raises, Goes, TaskOver, TaskState
<1>0. /\ own \in {"none", "completed"} /\ seen \in RowState \cup {"none"} /\ row \in RowState
      /\ settledAs \in {"none", "completed", "failed", "canceled"}
      /\ View \in RowState
      /\ session = "broken" => task \in {"raised", "dead"}
  BY DEF StreamInv, StreamTypeOK, View, RowState
<1>1. ASSUME RefreshRunning PROVE StreamInv'
  BY <1>0, <1>1, SilentKeeps DEF RefreshRunning, Refreshes, Progress
<1>2. ASSUME EngineEnds PROVE StreamInv'
  BY <1>0, <1>2, SilentKeeps DEF EngineEnds, Progress
<1>3. ASSUME RefreshCompleted PROVE StreamInv'
  BY <1>0, <1>3, SilentKeeps DEF RefreshCompleted, Refreshes, View, Progress
<1>4. ASSUME RefreshCommitted PROVE StreamInv'
  BY <1>0, <1>4, SilentKeeps DEF RefreshCommitted, Refreshes, Progress
<1>5. ASSUME RefreshFailedRun PROVE StreamInv'
  BY <1>0, <1>5, SilentKeeps DEF RefreshFailedRun, Refreshes, Progress
<1>6. ASSUME FlushCompleted PROVE StreamInv'
  BY <1>0, <1>6, SilentKeeps DEF FlushCompleted, Progress
<1>7. ASSUME RefreshFailing PROVE StreamInv'
  BY <1>0, <1>7, SilentKeeps DEF RefreshFailing, Refreshes, Progress
<1> QED
  BY <1>1, <1>2, <1>3, <1>4, <1>5, <1>6, <1>7

LEMMA StartKeeps == StreamInv /\ StartStream => StreamInv'
<1> SUFFICES ASSUME StreamInv, StartStream PROVE StreamInv'
  OBVIOUS
<1> USE DEF TaskOver, TaskState, RowState
<1>0. /\ own \in {"none", "completed"} /\ seen \in RowState \cup {"none"} /\ row \in RowState
      /\ settledAs \in {"none", "completed", "failed", "canceled"}
      /\ session = "broken" => task \in {"raised", "dead"}
  BY DEF StreamInv, StreamTypeOK
<1>1. CASE session = "open"
  BY <1>0, <1>1, CommitKeeps DEF StartStream, Progress
<1>2. CASE session # "open"
  BY <1>0, <1>2, SilentKeeps DEF StartStream, Raises, Goes
<1> QED
  BY <1>1, <1>2

LEMMA CommitsKeep ==
    ASSUME StreamInv
    PROVE  /\ CommitCompleted => StreamInv'
           /\ CommitFailed => StreamInv'
<1> USE DEF TaskOver, TaskState, RowState
<1>0. /\ own \in {"none", "completed"} /\ seen \in RowState \cup {"none"} /\ row \in RowState
      /\ settledAs \in {"none", "completed", "failed", "canceled"}
      /\ session = "broken" => task \in {"raised", "dead"}
  BY DEF StreamInv, StreamTypeOK
<1>1. ASSUME CommitCompleted PROVE StreamInv'
  BY <1>0, <1>1, CommitKeeps DEF CommitCompleted, Progress
<1>2. ASSUME CommitFailed PROVE StreamInv'
  BY <1>0, <1>2, CommitKeeps DEF CommitFailed, Progress
<1> QED
  BY <1>1, <1>2

LEMMA SessionKeeps == StreamInv /\ SessionFails => StreamInv'
<1> SUFFICES ASSUME StreamInv, SessionFails PROVE StreamInv'
  OBVIOUS
<1>1. StreamTypeOK'
  BY EmptySeq DEF StreamInv, StreamTypeOK, SessionFails, BreaksIn, Flushed, Goes, Environment,
                  Reading, TaskState
<1> QED
  BY <1>1, TaskFrame DEF SessionFails, BreaksIn, Goes

-----------------------------------------------------------------------------
(* The reader and the others *)

LEMMA GetKeeps == StreamInv /\ Get => StreamInv'
<1> SUFFICES ASSUME StreamInv, Get PROVE StreamInv'
  OBVIOUS
<1>1. heard \in Seq(FrameKind) /\ queue \in Seq(FrameKind) /\ queue # <<>>
  BY DEF StreamInv, StreamTypeOK, Get
<1>2. heard' \in Seq(FrameKind) /\ queue' \in Seq(FrameKind) /\ Told' = Told
  BY <1>1, Moved DEF Get, Told
<1>3. Head(queue) \in FrameKind /\ heard' # <<>>
  BY <1>1, HeadTailProperties, AppendProperties DEF Get
<1>4. StreamTypeOK'
  BY <1>2, <1>3 DEF StreamInv, StreamTypeOK, Get, Environment
<1>5. Progress => Progress'
  BY <1>2 DEF Progress, Kept, Get, Environment
<1> QED
  BY <1>4, <1>5 DEF StreamInv, Get, Environment, ToldIsTrue, Subscribed

LEMMA YieldedKeeps == StreamInv /\ Yielded => StreamInv'
<1> SUFFICES ASSUME StreamInv, Yielded PROVE StreamInv'
  OBVIOUS
<1>1. StreamTypeOK'
  BY DEF StreamInv, StreamTypeOK, Yielded, Environment
<1>2. Progress => Progress'
  BY DEF Progress, Told, Kept, Yielded, Environment
<1> QED
  BY <1>1, <1>2 DEF StreamInv, Yielded, Environment, ToldIsTrue, Subscribed, Last

\* All that was put into the queue has been read when a stream ends.
LEMMA AwaitKeeps == StreamInv /\ AwaitTask => StreamInv'
<1> SUFFICES ASSUME StreamInv, AwaitTask PROVE StreamInv'
  OBVIOUS
<1>1. StreamTypeOK'
  BY EmptySeq DEF StreamInv, StreamTypeOK, AwaitTask, Environment, Flushed
<1>2. ASSUME task = "ended" PROVE ToldIsTrue'
  <2>1. heard \in Seq(FrameKind) /\ queue \in Seq(FrameKind) /\ heard # <<>>
        /\ events \in Seq(FrameKind) /\ log \in Seq(FrameKind)
    BY DEF StreamInv, StreamTypeOK, AwaitTask
  <2>2. heard[Len(heard)] \in Terminal
    BY DEF StreamInv, AwaitTask, Last
  <2>3. Progress
    BY <1>2 DEF StreamInv, StreamTypeOK, AwaitTask, Subscribed
  <2>4. UNCHANGED <<row, events, heard, settledAs>>
    BY DEF AwaitTask, Environment
  <2>5. CASE EndsWith(Told, "completed") /\ settledAs = "completed" /\ log = <<>>
    <3>1. Told = heard /\ Last = "completed"
      BY <2>1, <2>2, <2>5, LastIsAll DEF Told, Last
    <3>2. Kept = events
      BY <2>1, <2>5, ConcatEmptySeq DEF Kept
    <3> QED
      BY <2>3, <2>4, <2>5, <3>1, <3>2 DEF ToldIsTrue, Last, Progress
  <2>6. CASE EndsWith(Told, "failed") /\ settledAs = "canceled"
    <3>1. Told = heard /\ Last = "failed"
      BY <2>1, <2>2, <2>6, LastIsAll DEF Told, Last
    <3> QED
      BY <2>4, <2>6, <3>1 DEF ToldIsTrue, Last
  <2>7. CASE EndsWith(Told, "failed") /\ settledAs = "failed" /\ log = <<"failed">>
    <3>1. Told = heard /\ Last = "failed"
      BY <2>1, <2>2, <2>7, LastIsAll DEF Told, Last
    <3>2. Kept = Append(events, "failed")
      BY <2>1, <2>7, AppendIsConcat, FrameNames DEF Kept
    <3> QED
      BY <2>3, <2>4, <2>7, <3>1, <3>2 DEF ToldIsTrue, Last, Progress
  <2> QED
    BY <1>2, <2>3, <2>5, <2>6, <2>7 DEF Progress
<1> QED
  BY <1>1, <1>2 DEF StreamInv, AwaitTask, Environment, ToldIsTrue, Subscribed

LEMMA LeaveKeeps == StreamInv /\ Leave => StreamInv'
<1> SUFFICES ASSUME StreamInv, Leave PROVE StreamInv'
  OBVIOUS
<1>1. StreamTypeOK'
  BY EmptySeq DEF StreamInv, StreamTypeOK, Leave, Environment, Flushed, TaskState
<1> QED
  BY <1>1 DEF StreamInv, Leave, Environment, ToldIsTrue, Subscribed, Flushed

LEMMA OthersKeep == StreamInv /\ Others => StreamInv'
<1> SUFFICES ASSUME StreamInv, Others PROVE StreamInv'
  OBVIOUS
<1>0. UNCHANGED <<own, seen, log, session, task, queue, reader, heard, settledAs>>
  BY DEF Others, CancelStreamed, ResumeStreamed, WorkerEnds, DeleteStreamed, OthersWrite, Rest
<1>1. ASSUME NEW status \in RowState \ {"unborn", "gone"}, OthersWrite(status) PROVE StreamInv'
  <2>1. StreamTypeOK'
    BY <1>0, <1>1 DEF StreamInv, StreamTypeOK, OthersWrite
  <2>2. Progress => Progress'
    BY <1>0, <1>1 DEF Progress, Told, Kept, OthersWrite, Born
  <2> QED
    BY <1>0, <1>1, <2>1, <2>2 DEF StreamInv, ToldIsTrue, Subscribed, Last, OthersWrite, Born
<1>2. ASSUME DeleteStreamed PROVE StreamInv'
  <2>1. StreamTypeOK'
    BY <1>0, <1>2, EmptySeq DEF StreamInv, StreamTypeOK, DeleteStreamed, RowState
  <2>2. Subscribed /\ Progress => Progress'
    BY <1>0, <1>2 DEF Progress, Told, Kept, DeleteStreamed, Subscribed
  <2> QED
    BY <1>0, <1>2, <2>1, <2>2 DEF StreamInv, ToldIsTrue, Subscribed, Last, DeleteStreamed
<1> QED
  BY <1>1, <1>2 DEF Others, CancelStreamed, ResumeStreamed, WorkerEnds, RowState

LEMMA StreamStepKeeps == StreamInv /\ [StreamNext]_streamVars => StreamInv'
<1> SUFFICES ASSUME StreamInv, [StreamNext]_streamVars PROVE StreamInv'
  OBVIOUS
<1>1. CASE TaskStep
  <2>1. CASE EmitQueued \/ EmitStarted \/ EmitStep \/ EmitDone \/ EmitFailed
    BY <2>1, EmitsKeep
  <2>2. CASE \/ RefreshRunning \/ EngineEnds \/ FlushCompleted \/ RefreshCompleted
             \/ RefreshCommitted \/ RefreshFailing \/ RefreshFailedRun
    BY <2>2, RaisesKeep
  <2>3. CASE StartStream \/ CommitCompleted \/ CommitFailed
    BY <2>3, StartKeeps, CommitsKeep
  <2> QED
    BY <1>1, <2>1, <2>2, <2>3 DEF TaskStep
<1>2. CASE SessionFails
  BY <1>2, SessionKeeps
<1>3. CASE ReaderStep
  BY <1>3, GetKeeps, YieldedKeeps, AwaitKeeps DEF ReaderStep
<1>4. CASE Leave
  BY <1>4, LeaveKeeps
<1>5. CASE Others
  BY <1>5, OthersKeep
<1>6. CASE UNCHANGED streamVars
  BY <1>6 DEF streamVars, StreamInv, StreamTypeOK, Subscribed, Progress, Told, Kept, Last,
              ToldIsTrue
<1> QED
  BY <1>1, <1>2, <1>3, <1>4, <1>5, <1>6 DEF StreamNext

\* The invariant of the streamed execution.
THEOREM StreamInvHolds == StreamSpec => []StreamInv
  BY StreamBegins, StreamStepKeeps, PTL DEF StreamSpec

\* The run, the session, the queue and the frames are of their types, whoever
\* writes the run.
THEOREM StreamTypeCorrect == StreamSpec => []StreamTypeOK
<1>1. StreamInv => StreamTypeOK
  BY DEF StreamInv
<1> QED
  BY <1>1, StreamInvHolds, PTL

\* What execute_and_emit puts into the queue before it commits, its commits
\* make true, unless the response does not come to its end.
THEOREM StreamsTellTheTruth == StreamSpec => []ToldIsTrue
<1>1. StreamInv => ToldIsTrue
  BY DEF StreamInv
<1> QED
  BY <1>1, StreamInvHolds, PTL


\* A reader that asks for another frame has had no terminal one; a task died
\* before its last frame only with its session or its run.
Waits ==
    /\ reader = "reading" => NoneTerminal(heard)
    /\ reader = "yielding" => \A k \in 1..Len(heard) - 1 : heard[k] \notin Terminal
    /\ Subscribed /\ session = "open" /\ task = "dead" => row = "gone"

LEMMA WaitsBegins == StreamInit => Waits
<1>1. Len(<<>>) = 0
  BY EmptySeq
<1> QED
  BY <1>1 DEF StreamInit, Waits, NoneTerminal, Subscribed

LEMMA DeathKeeps ==
    ASSUME StreamInv, Waits, TaskStep \/ SessionFails PROVE Waits'
<1>1. Reading
  BY DEF TaskStep, SessionFails, EmitQueued, EmitStarted, EmitStep, EmitDone, EmitFailed, Emit,
         StartStream, RefreshRunning, EngineEnds, FlushCompleted, RefreshCompleted,
         CommitCompleted, RefreshCommitted, RefreshFailing, CommitFailed, RefreshFailedRun
<1>2. session' = "open" /\ task' = "dead" /\ task # "dead" /\ session = "open" => row' = "gone"
  <2>1. ASSUME NEW f, NEW next, NEW otherwise, next # "dead", Emit(f, next, otherwise),
               session' = "open"
        PROVE  task' # "dead"
    BY <2>1 DEF Emit, BreaksIn, Goes
  <2>2. EmitQueued \/ EmitStarted \/ EmitStep \/ EmitDone \/ EmitFailed =>
           (session' = "open" => task' # "dead")
    BY <2>1 DEF EmitQueued, EmitStarted, EmitStep, EmitDone, EmitFailed
  <2>3. SessionFails => session' # "open"
    BY DEF SessionFails, BreaksIn
  <2>4. StartStream \/ EngineEnds \/ FlushCompleted \/ CommitCompleted \/ CommitFailed
          => task' # "dead"
    BY DEF StartStream, EngineEnds, FlushCompleted, CommitCompleted, CommitFailed, Commits,
           Raises, Goes
  <2>5. ASSUME \/ RefreshRunning \/ RefreshCompleted \/ RefreshCommitted
               \/ RefreshFailing \/ RefreshFailedRun
        PROVE  task' = "dead" /\ session = "open" => row' = "gone"
    BY <2>5 DEF RefreshRunning, RefreshCompleted, RefreshCommitted, RefreshFailing, RefreshFailedRun,
           Raises, Goes, Refreshes, Environment
  <2> QED
    BY <2>2, <2>3, <2>4, <2>5 DEF TaskStep
<1>3. task # "dead" /\ (session' = "open" => session = "open")
  BY DEF TaskStep, SessionFails, EmitQueued, EmitStarted, EmitStep, EmitDone, EmitFailed, Emit,
         StartStream, RefreshRunning, EngineEnds, FlushCompleted, RefreshCompleted,
         CommitCompleted, RefreshCommitted, RefreshFailing, CommitFailed, RefreshFailedRun,
         Commits, Raises, BreaksIn, TaskOver
<1> QED
  BY <1>1, <1>2, <1>3 DEF Waits, Reading, Subscribed

LEMMA ReadsKeep ==
    ASSUME StreamInv, Waits, ReaderStep \/ Leave PROVE Waits'
<1>0. /\ heard \in Seq(FrameKind) /\ queue \in Seq(FrameKind)
      /\ Len(heard) \in Nat
  BY LenProperties DEF StreamInv, StreamTypeOK
<1>1. CASE Get
  <2>1. Head(queue) \in FrameKind
    BY <1>0, <1>1, HeadTailProperties DEF Get
  <2>2. /\ Len(Append(heard, Head(queue))) = Len(heard) + 1
        /\ \A k \in 1..Len(heard) : Append(heard, Head(queue))[k] = heard[k]
    BY <1>0, <2>1, AppendProperties
  <2> QED
    BY <1>0, <1>1, <2>2 DEF Get, Waits, NoneTerminal, Subscribed, Environment
<1>2. CASE Yielded
  <2>1. reader' = "reading" => NoneTerminal(heard)
    BY <1>0, <1>2 DEF Yielded, Waits, NoneTerminal, Last
  <2> QED
    BY <1>2, <2>1 DEF Yielded, Waits, NoneTerminal, Subscribed, Environment
<1>3. CASE AwaitTask \/ Leave
  BY <1>3 DEF AwaitTask, Leave, Waits, Subscribed
<1> QED
  BY <1>1, <1>2, <1>3 DEF ReaderStep

LEMMA WaitsKept ==
    ASSUME StreamInv, Waits, [StreamNext]_streamVars PROVE Waits'
<1>1. CASE Others
  BY <1>1 DEF Others, CancelStreamed, ResumeStreamed, WorkerEnds, DeleteStreamed, OthersWrite,
       Rest, Born, Waits, NoneTerminal, Subscribed
<1>2. CASE UNCHANGED streamVars
  BY <1>2 DEF streamVars, Waits, NoneTerminal, Subscribed
<1> QED
  BY <1>1, <1>2, DeathKeeps, ReadsKeep DEF StreamNext

\* A reader that waits for a frame has a task that goes on: what a task says
\* last is a terminal frame, whoever cancels or resumes the run, unless the
\* database failed it or the run was deleted under it.
THEOREM ReadersAreServed == StreamSpec => []ReaderIsServed
<1>1. StreamInv /\ Waits => ReaderIsServed
  <2> SUFFICES ASSUME StreamInv, Waits, reader = "reading", queue = <<>>, TaskOver,
                      session # "broken", row # "gone"
               PROVE  FALSE
    BY DEF ReaderIsServed
  <2>1. session = "open" /\ Subscribed
    BY DEF StreamInv, StreamTypeOK, Subscribed
  <2>2. task = "ended"
    BY <2>1 DEF TaskOver, Waits
  <2>3. Told = heard /\ heard \in Seq(FrameKind)
    BY ConcatEmptySeq DEF Told, StreamInv, StreamTypeOK
  <2>4. EndsWith(heard, "completed") \/ EndsWith(heard, "failed")
    BY <2>1, <2>2, <2>3 DEF StreamInv, Progress
  <2>5. Len(heard) \in 1..Len(heard)
    BY <2>3, <2>4, EmptySeq, LenProperties DEF EndsWith
  <2> QED
    BY <2>4, <2>5 DEF Waits, NoneTerminal, EndsWith, Terminal
<1>2. StreamInit => StreamInv /\ Waits
  BY StreamBegins, WaitsBegins
<1>3. StreamInv /\ Waits /\ [StreamNext]_streamVars => (StreamInv /\ Waits)'
  BY StreamStepKeeps, WaitsKept
<1> QED
  BY <1>1, <1>2, <1>3, PTL DEF StreamSpec

=============================================================================
