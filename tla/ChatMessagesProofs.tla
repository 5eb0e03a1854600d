------------------------- MODULE ChatMessagesProofs -------------------------
(***************************************************************************)
(* For any number of turns, whichever fail, are dropped or meet the        *)
(* deletion of the chat: the transcript is whole, what tools did has its   *)
(* question, and a turn that met no other asks the model with the whole    *)
(* conversation, the question last.                                        *)
(***************************************************************************)
EXTENDS ChatMessages, TLAPS

\* From the history to the answer: who has got so far has the question.
Backed == {"kept", "history", "agent", "model", "list", "plan", "search", "query",
           "tools", "answer"}

HasQuestion(t) ==
    \E q \in messages : q.role = "user" /\ q.to = turn[t].to

BackedBy(t) ==
    \E q \in messages : q.role = "user" /\ q.to = turn[t].to /\ q.at <= turn[t].began

\* What holds of a turn and its messages.
TurnOK(t) ==
    /\ turn[t].pc = "idle" => \A m \in messages : m.by # t
    /\ turn[t].pc = "find" => turn[t].effects = 0 /\ turn[t].old.at <= turn[t].began
    /\ turn[t].pc = "question" => turn[t].to = t
    /\ turn[t].pc \in {"idle", "question"} => turn[t].effects = 0
    /\ turn[t].pc \in {"find", "saved"} => ~turn[t].flushed
    /\ turn[t].flushed => turn[t].to = t
    /\ turn[t].pc \in Backed /\ chat => turn[t].flushed \/ BackedBy(t)
    /\ turn[t].effects > 0 /\ chat => HasQuestion(t)
    /\ turn[t].kind = "create" /\ turn[t].effects = 0 /\ Asked(t) # {}
          => Answered(t) # {}
    /\ turn[t].pc \in {"saved", "completed"} /\ chat => Answered(t) # {}

MessagesOK ==
    /\ ~chat => messages = {}
    /\ \A a \in messages : a.role = "assistant" =>
          \E q \in messages : q.role = "user" /\ q.to = a.to /\ q.at <= a.at

ChatInv == ChatTypeOK /\ MessagesOK /\ \A t \in Turns : TurnOK(t)

LEMMA InitInv == ChatInit => ChatInv
<1> SUFFICES ASSUME ChatInit PROVE ChatInv
  OBVIOUS
<1>1. Unasked \in TurnState
  BY ChatAssumption DEF Unasked, TurnState, TurnKinds
<1>2. ChatTypeOK
  BY <1>1 DEF ChatInit, ChatTypeOK, Unasked
<1>3. ASSUME NEW t \in Turns PROVE TurnOK(t)
  BY DEF ChatInit, TurnOK, Unasked, Asked, Answered, Backed
<1> QED
  BY <1>2, <1>3 DEF ChatInit, ChatInv, MessagesOK

-----------------------------------------------------------------------------
(* Steps that leave the messages alone *)

\* What another turn relies on stays when messages only of t are added.
LEMMA OthersKeep ==
    ASSUME ChatInv, NEW t \in Turns, NEW u \in Turns \ {t},
           turn'[u] = turn[u], chat' = chat, messages \subseteq messages',
           \A m \in messages' \ messages : m.by = t
    PROVE  TurnOK(u)'
<1>1. TurnOK(u)
  BY DEF ChatInv
<1>2. Asked(u)' = Asked(u) /\ Answered(u)' = Answered(u)
  BY DEF Asked, Answered
<1>3. BackedBy(u) => BackedBy(u)'
  BY DEF BackedBy
<1>4. HasQuestion(u) => HasQuestion(u)'
  BY DEF HasQuestion
<1> QED
  BY <1>1, <1>2, <1>3, <1>4 DEF TurnOK

\* A step of t that leaves messages, chat and clock alone and takes its state
\* to s keeps the invariant when s is all right.
LEMMA QuietStep ==
    ASSUME ChatInv, NEW t \in Turns, NEW s \in TurnState,
           turn' = [turn EXCEPT ![t] = s],
           UNCHANGED <<chat, messages, clock>>,
           s.began = turn[t].began,
           s.flushed => chat /\ s.pc \notin Ended \cup {"idle"} /\ s.kind = "create",
           TurnOK(t)'
    PROVE  ChatInv'
<1>1. turn'[t] = s /\ \A u \in Turns \ {t} : turn'[u] = turn[u]
  BY DEF ChatInv, ChatTypeOK
<1>2. ChatTypeOK'
  <2>1. turn' \in [Turns -> TurnState]
    BY DEF ChatInv, ChatTypeOK
  <2>2. \A u \in Turns : /\ turn'[u].began <= clock
                        /\ turn'[u].flushed => /\ chat
                                               /\ turn'[u].pc \notin Ended \cup {"idle"}
                                               /\ turn'[u].kind = "create"
    BY <1>1 DEF ChatInv, ChatTypeOK, UnderWay
  <2> QED
    BY <2>1, <2>2 DEF ChatInv, ChatTypeOK, UnderWay
<1>3. MessagesOK'
  BY DEF ChatInv, MessagesOK
<1>4. \A u \in Turns \ {t} : TurnOK(u)'
  BY <1>1, OthersKeep
<1> QED
  BY <1>2, <1>3, <1>4 DEF ChatInv

\* Only pc changes, and the turn was Backed if it now is.
LEMMA Proceeding ==
    ASSUME ChatInv, NEW t \in Turns, NEW pc \in Backed \cup {"completed", "refused"},
           Proceeds(t, pc), UNCHANGED <<chat, messages, clock>>,
           pc \in Backed => turn[t].pc \in Backed,
           pc = "completed" => turn[t].pc = "saved",
           pc = "refused" => turn[t].pc = "find"
    PROVE  ChatInv'
<1> DEFINE s == [turn[t] EXCEPT !.pc = pc]
<1>1. turn[t] \in TurnState /\ TurnOK(t)
  BY DEF ChatInv, ChatTypeOK
<1>2. /\ s \in TurnState /\ s.pc = pc
      /\ s.kind = turn[t].kind /\ s.began = turn[t].began /\ s.old = turn[t].old
      /\ s.flushed = turn[t].flushed /\ s.to = turn[t].to
      /\ s.effects = turn[t].effects
  BY <1>1 DEF TurnState, Backed
<1>3. turn' = [turn EXCEPT ![t] = s] /\ turn'[t] = s
  BY DEF Proceeds, ChatInv, ChatTypeOK
<1>4. s.flushed => chat /\ s.pc \notin Ended \cup {"idle"} /\ s.kind = "create"
  BY <1>1, <1>2 DEF ChatInv, ChatTypeOK, TurnOK, Ended, Backed
<1> HIDE DEF s
<1>5. /\ BackedBy(t)' <=> BackedBy(t)
      /\ HasQuestion(t)' <=> HasQuestion(t)
      /\ Asked(t)' = Asked(t) /\ Answered(t)' = Answered(t)
  BY <1>2, <1>3 DEF BackedBy, HasQuestion, Asked, Answered
<1>6. TurnOK(t)'
  BY <1>1, <1>2, <1>3, <1>5 DEF TurnOK, Backed
<1> QED
  BY <1>2, <1>3, <1>4, <1>6, QuietStep

LEMMA ProceedsKeep ==
    ASSUME ChatInv, NEW t \in Turns,
           \/ RefreshQuestion(t) \/ ChooseAgent(t) \/ ModelAnswers(t) \/ ListDocuments(t)
           \/ PlanSearches(t) \/ EmbedQuery(t) \/ ToolsReport(t) \/ Complete(t)
    PROVE  ChatInv'
<1>1. CASE RefreshQuestion(t)
  BY <1>1, Proceeding DEF RefreshQuestion, Backed
<1>2. CASE ChooseAgent(t)
  BY <1>2, Proceeding DEF ChooseAgent, Backed
<1>3. CASE ModelAnswers(t)
  BY <1>3, Proceeding DEF ModelAnswers, Backed
<1>4. CASE ListDocuments(t)
  BY <1>4, Proceeding DEF ListDocuments, Backed
<1>5. CASE PlanSearches(t)
  BY <1>5, Proceeding DEF PlanSearches, Backed
<1>6. CASE EmbedQuery(t)
  BY <1>6, Proceeding DEF EmbedQuery, Backed
<1>7. CASE ToolsReport(t)
  BY <1>7, Proceeding DEF ToolsReport, Backed
<1>8. CASE Complete(t)
  BY <1>8, Proceeding DEF Complete, Backed
<1> QED
  BY <1>1, <1>2, <1>3, <1>4, <1>5, <1>6, <1>7, <1>8

LEMMA FindKeeps == ASSUME ChatInv, NEW t \in Turns, FindQuestion(t) PROVE ChatInv'
<1>1. CASE ~(turn[t].old \in messages /\ Previous(turn[t].old) # {})
  <2>1. Proceeds(t, "refused")
    BY <1>1 DEF FindQuestion
  <2> QED
    BY <2>1, Proceeding DEF FindQuestion, Backed
<1>2. CASE turn[t].old \in messages /\ Previous(turn[t].old) # {}
  <2>1. PICK q \in Previous(turn[t].old) :
           turn' = [turn EXCEPT ![t].pc = "history", ![t].to = q.to]
    BY <1>2 DEF FindQuestion
  <2>2. UNCHANGED <<chat, messages, clock>> /\ turn[t].pc = "find"
    BY DEF FindQuestion
  <2> DEFINE s == [turn[t] EXCEPT !.pc = "history", !.to = q.to]
  <2>3. turn[t] \in TurnState /\ TurnOK(t) /\ turn[t].old \in Message
    BY <1>2 DEF ChatInv, ChatTypeOK
  <2>4. q \in messages /\ q \in Message /\ q.role = "user" /\ q.at < turn[t].old.at
    BY <1>2, <2>1 DEF Previous, Earlier, ChatInv, ChatTypeOK
  <2>5. /\ s \in TurnState /\ s.pc = "history" /\ s.to = q.to
        /\ s.kind = turn[t].kind /\ s.began = turn[t].began
        /\ ~s.flushed /\ s.effects = 0
    BY <2>2, <2>3, <2>4 DEF TurnState, Message, TurnOK
  <2>6. turn' = [turn EXCEPT ![t] = s] /\ turn'[t] = s
    BY <2>1 DEF ChatInv, ChatTypeOK
  <2> HIDE DEF s
  <2>7. q.at <= s.began
    BY <2>2, <2>3, <2>4, <2>5 DEF TurnOK, TurnState, Message
  <2>8. BackedBy(t)'
    BY <2>2, <2>4, <2>5, <2>6, <2>7 DEF BackedBy
  <2>9. Asked(t)' = Asked(t) /\ Answered(t)' = Answered(t)
    BY <2>2 DEF Asked, Answered
  <2>10. TurnOK(t)'
    BY <2>2, <2>3, <2>5, <2>6, <2>8, <2>9 DEF TurnOK, TurnState
  <2> QED
    BY <2>2, <2>5, <2>6, <2>10, QuietStep
<1> QED
  BY <1>1, <1>2

LEMMA SaveQuestionKeeps ==
    ASSUME ChatInv, NEW t \in Turns, SaveQuestion(t) PROVE ChatInv'
<1> DEFINE s == [turn[t] EXCEPT !.pc = "history", !.flushed = TRUE]
<1>1. turn[t] \in TurnState /\ TurnOK(t)
  BY DEF ChatInv, ChatTypeOK
<1>2. turn[t].pc = "question" /\ turn[t].kind = "create" /\ chat
  BY DEF SaveQuestion
<1>3. /\ s \in TurnState /\ s.pc = "history" /\ s.kind = turn[t].kind
      /\ s.began = turn[t].began /\ s.flushed /\ s.to = t /\ s.effects = 0
  BY <1>1, <1>2 DEF TurnState, TurnOK
<1>4. turn' = [turn EXCEPT ![t] = s] /\ turn'[t] = s /\ UNCHANGED <<chat, messages, clock>>
  BY DEF SaveQuestion, ChatInv, ChatTypeOK
<1> HIDE DEF s
<1>5. Asked(t)' = Asked(t) /\ Answered(t)' = Answered(t)
  BY <1>4 DEF Asked, Answered
<1>6. TurnOK(t)'
  BY <1>1, <1>2, <1>3, <1>4, <1>5 DEF TurnOK
<1> QED
  BY <1>2, <1>3, <1>4, <1>6, QuietStep DEF Ended

LEMMA ReadHistoryKeeps ==
    ASSUME ChatInv, NEW t \in Turns, ReadHistory(t) PROVE ChatInv'
<1> DEFINE s == [turn[t] EXCEPT !.pc = "agent", !.context = History(t)]
<1>1. turn[t] \in TurnState /\ TurnOK(t) /\ turn[t].pc = "history"
  BY DEF ChatInv, ChatTypeOK, ReadHistory
<1>2. History(t) \subseteq Message
  BY <1>1 DEF History, FlushedBy, Question, Message, ChatInv, ChatTypeOK, TurnState
<1>3. /\ s \in TurnState /\ s.pc = "agent" /\ s.kind = turn[t].kind
      /\ s.began = turn[t].began /\ s.flushed = turn[t].flushed
      /\ s.to = turn[t].to /\ s.effects = turn[t].effects
  BY <1>1, <1>2 DEF TurnState
<1>4. turn' = [turn EXCEPT ![t] = s] /\ turn'[t] = s /\ UNCHANGED <<chat, messages, clock>>
  BY DEF ReadHistory, ChatInv, ChatTypeOK
<1> HIDE DEF s
<1>5. /\ BackedBy(t)' <=> BackedBy(t)
      /\ HasQuestion(t)' <=> HasQuestion(t)
      /\ Asked(t)' = Asked(t) /\ Answered(t)' = Answered(t)
  BY <1>3, <1>4 DEF BackedBy, HasQuestion, Asked, Answered
<1>6. TurnOK(t)'
  BY <1>1, <1>3, <1>4, <1>5 DEF TurnOK, Backed
<1> QED
  BY <1>1, <1>3, <1>4, <1>6, QuietStep DEF ChatInv, ChatTypeOK, Ended

\* A turn that ends without a commit keeps what it has committed.
LEMMA RollBackKeeps ==
    ASSUME ChatInv, NEW t \in Turns, NEW pc \in {"failed", "dropped"},
           turn[t].pc # "idle", RollsBack(t, pc)
    PROVE  ChatInv'
<1> DEFINE s == [turn[t] EXCEPT !.pc = pc, !.flushed = FALSE]
<1>1. turn[t] \in TurnState /\ TurnOK(t)
  BY DEF ChatInv, ChatTypeOK
<1>2. /\ s \in TurnState /\ s.pc = pc /\ s.kind = turn[t].kind
      /\ s.began = turn[t].began /\ ~s.flushed
      /\ s.to = turn[t].to /\ s.effects = turn[t].effects
  BY <1>1 DEF TurnState
<1>3. turn' = [turn EXCEPT ![t] = s] /\ turn'[t] = s /\ UNCHANGED <<chat, messages, clock>>
  BY DEF RollsBack, ChatInv, ChatTypeOK
<1> HIDE DEF s
<1>4. /\ HasQuestion(t)' <=> HasQuestion(t)
      /\ Asked(t)' = Asked(t) /\ Answered(t)' = Answered(t)
  BY <1>2, <1>3 DEF HasQuestion, Asked, Answered
<1>5. TurnOK(t)'
  BY <1>1, <1>2, <1>3, <1>4 DEF TurnOK, Backed
<1> QED
  BY <1>2, <1>3, <1>5, QuietStep

-----------------------------------------------------------------------------
(* Commits, requests and the deletion *)

\* A commit of t adds the messages in `added' and takes its state to s.
LEMMA CommitStep ==
    ASSUME ChatInv, NEW t \in Turns, NEW s \in TurnState, NEW added \in SUBSET Message,
           ~chat => added = {},
           \A m \in added : m.by = t /\ m.at <= clock,
           messages' = messages \cup added, UNCHANGED chat,
           clock' = clock + 1, turn' = [turn EXCEPT ![t] = s],
           s.began = clock + 1, ~s.flushed,
           \A a \in added : a.role = "assistant" =>
              \E q \in messages' : q.role = "user" /\ q.to = a.to /\ q.at <= a.at,
           TurnOK(t)'
    PROVE  ChatInv'
<1>0. clock \in Nat /\ \A m \in messages' : m.at \in Nat
  BY DEF ChatInv, ChatTypeOK, Message
<1>1. turn'[t] = s /\ \A u \in Turns \ {t} : turn'[u] = turn[u]
  BY DEF ChatInv, ChatTypeOK
<1>2. ChatTypeOK'
  <2>1. turn' \in [Turns -> TurnState]
    BY DEF ChatInv, ChatTypeOK
  <2>2. \A u \in Turns : turn[u].began \in Nat
    BY DEF ChatInv, ChatTypeOK, TurnState
  <2>3. ASSUME NEW u \in Turns
        PROVE  /\ turn'[u].began <= clock'
               /\ turn'[u].flushed => chat' /\ UnderWay(u)' /\ turn'[u].kind = "create"
    BY <1>0, <1>1, <2>2 DEF ChatInv, ChatTypeOK, UnderWay
  <2>4. messages' \subseteq Message /\ \A m \in messages' : m.at <= clock'
    BY <1>0 DEF ChatInv, ChatTypeOK
  <2>5. clock' \in Nat /\ chat' \in BOOLEAN
    BY <1>0 DEF ChatInv, ChatTypeOK
  <2> QED
    BY <2>1, <2>3, <2>4, <2>5 DEF ChatTypeOK
<1>3. MessagesOK'
  BY DEF ChatInv, MessagesOK
<1>4. \A u \in Turns \ {t} : TurnOK(u)'
  BY <1>1, OthersKeep
<1> QED
  BY <1>2, <1>3, <1>4 DEF ChatInv

\* The state that Recommences gives to t.
Fresh(s) == [s EXCEPT !.began = clock + 1, !.flushed = FALSE]

LEMMA Recommenced ==
    ASSUME ChatInv, NEW t \in Turns, NEW s \in TurnState, Recommences(t, s)
    PROVE  /\ Fresh(s) \in TurnState /\ Fresh(s).began = clock + 1 /\ ~Fresh(s).flushed
           /\ Fresh(s).pc = s.pc /\ Fresh(s).kind = s.kind
           /\ Fresh(s).to = s.to /\ Fresh(s).effects = s.effects
           /\ turn' = [turn EXCEPT ![t] = Fresh(s)] /\ turn'[t] = Fresh(s)
           /\ clock' = clock + 1
<1>1. clock + 1 \in Nat
  BY DEF ChatInv, ChatTypeOK
<1>2. /\ turn' = [turn EXCEPT ![t] = Fresh(s)] /\ turn'[t] = Fresh(s)
      /\ clock' = clock + 1
  BY DEF Recommences, Fresh, ChatInv, ChatTypeOK
<1>3. /\ Fresh(s) \in TurnState /\ Fresh(s).began = clock + 1 /\ ~Fresh(s).flushed
      /\ Fresh(s).pc = s.pc /\ Fresh(s).kind = s.kind
      /\ Fresh(s).to = s.to /\ Fresh(s).effects = s.effects
  BY <1>1 DEF Fresh, TurnState
<1> QED
  BY <1>2, <1>3

LEMMA KeepQuestionKeeps ==
    ASSUME ChatInv, NEW t \in Turns, KeepQuestion(t) PROVE ChatInv'
<1> DEFINE s == [turn[t] EXCEPT !.pc = "kept"]
           r == Fresh(s)
<1>1. turn[t] \in TurnState /\ TurnOK(t) /\ turn[t].began <= clock /\ clock \in Nat
  BY DEF ChatInv, ChatTypeOK
<1>2. /\ turn[t].pc = "question" /\ turn[t].kind = "stream" /\ chat
      /\ turn[t].to = t /\ turn[t].effects = 0
      /\ messages' = messages \cup {Question(t)} /\ Recommences(t, s) /\ UNCHANGED chat
  BY <1>1 DEF KeepQuestion, TurnOK
<1>3. s \in TurnState /\ s.pc = "kept" /\ s.kind = "stream" /\ s.to = t /\ s.effects = 0
  BY <1>1, <1>2 DEF TurnState
<1> HIDE DEF s
<1>4. /\ r \in TurnState /\ r.began = clock + 1 /\ ~r.flushed
      /\ r.pc = "kept" /\ r.kind = "stream" /\ r.to = t /\ r.effects = 0
      /\ turn' = [turn EXCEPT ![t] = r] /\ turn'[t] = r /\ clock' = clock + 1
  BY <1>2, <1>3, Recommenced
<1> HIDE DEF r
<1>5. /\ Question(t) \in Message /\ Question(t).by = t /\ Question(t).role = "user"
      /\ Question(t).to = t /\ Question(t).at <= clock
      /\ Question(t).at \in Nat
  BY <1>1 DEF Question, Message, TurnState
<1>6. BackedBy(t)'
  <2>1. Question(t) \in messages' /\ Question(t).at <= clock + 1
    BY <1>1, <1>2, <1>5
  <2> HIDE DEF Question
  <2> QED
    BY <1>4, <1>5, <2>1 DEF BackedBy
<1>7. TurnOK(t)'
  BY <1>4, <1>6 DEF TurnOK
<1>8. {Question(t)} \in SUBSET Message
  BY <1>5
<1> HIDE DEF Question
<1> QED
  BY <1>2, <1>4, <1>5, <1>7, <1>8, CommitStep

\* What the session of t has flushed.
LEMMA Flushed ==
    ASSUME ChatInv, NEW t \in Turns
    PROVE  /\ FlushedBy(t) \subseteq Message
           /\ turn[t].flushed => \E q \in FlushedBy(t) : q.at = turn[t].began
           /\ \A q \in FlushedBy(t) : /\ q.by = t /\ q.role = "user" /\ q.at <= clock
                                      /\ q.to = turn[t].to /\ turn[t].kind = "create"
<1>1. CASE ~turn[t].flushed
  BY <1>1 DEF FlushedBy
<1>2. CASE turn[t].flushed
  <2>1. /\ turn[t].began \in Nat /\ turn[t].began <= clock
        /\ turn[t].to = t /\ turn[t].kind = "create"
    BY <1>2 DEF ChatInv, ChatTypeOK, TurnOK, TurnState
  <2>2. FlushedBy(t) = {Question(t)}
    BY <1>2 DEF FlushedBy
  <2>3. /\ Question(t) \in Message
        /\ Question(t).by = t /\ Question(t).role = "user" /\ Question(t).to = t
        /\ Question(t).at = turn[t].began
    BY <2>1 DEF Question, Message
  <2> QED
    BY <2>1, <2>2, <2>3
<1> QED
  BY <1>1, <1>2

\* Once t commits what it has flushed, its question is in the chat.
LEMMA QuestionThere ==
    ASSUME ChatInv, NEW t \in Turns, turn[t].pc \in Backed, chat
    PROVE  \E q \in messages \cup FlushedBy(t) :
              q.role = "user" /\ q.to = turn[t].to /\ q.at <= turn[t].began
<1>1. TurnOK(t) /\ turn[t].began \in Nat
  BY DEF ChatInv, ChatTypeOK, TurnState
<1>2. CASE turn[t].flushed
  <2>1. PICK q \in FlushedBy(t) : q.at = turn[t].began
    BY <1>2, Flushed
  <2> QED
    BY <1>1, <2>1, Flushed
<1>3. CASE ~turn[t].flushed
  BY <1>1, <1>3 DEF TurnOK, BackedBy
<1> QED
  BY <1>2, <1>3

LEMMA ToolKeeps ==
    ASSUME ChatInv, NEW t \in Turns, ToolCommits(t) PROVE ChatInv'
<1> DEFINE s == [turn[t] EXCEPT !.effects = @ + 1]
           r == Fresh(s)
<1>1. turn[t] \in TurnState /\ TurnOK(t) /\ turn[t].began <= clock /\ clock \in Nat
  BY DEF ChatInv, ChatTypeOK
<1>2. /\ turn[t].pc = "tools" /\ turn[t].effects < MaxEffects
      /\ messages' = messages \cup FlushedBy(t) /\ Recommences(t, s) /\ UNCHANGED chat
  BY DEF ToolCommits
<1>3. /\ s \in TurnState /\ s.pc = "tools" /\ s.kind = turn[t].kind
      /\ s.to = turn[t].to /\ s.effects > 0
  BY <1>1, <1>2, ChatAssumption DEF TurnState
<1> HIDE DEF s
<1>4. /\ r \in TurnState /\ r.began = clock + 1 /\ ~r.flushed
      /\ r.pc = "tools" /\ r.to = turn[t].to /\ r.effects > 0
      /\ turn' = [turn EXCEPT ![t] = r] /\ turn'[t] = r /\ clock' = clock + 1
  BY <1>2, <1>3, Recommenced
<1> HIDE DEF r
<1>5. chat => BackedBy(t)' /\ HasQuestion(t)'
  <2> SUFFICES ASSUME chat PROVE BackedBy(t)' /\ HasQuestion(t)'
    OBVIOUS
  <2>1. PICK q \in messages \cup FlushedBy(t) :
           q.role = "user" /\ q.to = turn[t].to /\ q.at <= turn[t].began
    BY <1>2, QuestionThere DEF Backed
  <2>2. q.at \in Nat /\ turn[t].began \in Nat
    BY <1>1, Flushed DEF ChatInv, ChatTypeOK, Message, TurnState
  <2>3. q.at <= clock + 1
    BY <1>1, <2>1, <2>2
  <2> QED
    BY <1>2, <1>4, <2>1, <2>3 DEF BackedBy, HasQuestion
<1>6. TurnOK(t)'
  BY <1>2, <1>4, <1>5, ChatAssumption DEF TurnOK, TurnState
<1>7. \A m \in FlushedBy(t) : m.by = t /\ m.at <= clock /\ m.role = "user"
  BY Flushed
<1>8. ~chat => FlushedBy(t) = {}
  BY DEF ChatInv, ChatTypeOK, FlushedBy
<1> QED
  BY <1>2, <1>4, <1>6, <1>7, <1>8, CommitStep, Flushed

LEMMA SaveAnswerKeeps ==
    ASSUME ChatInv, NEW t \in Turns, SaveAnswer(t) PROVE ChatInv'
<1> DEFINE s == [turn[t] EXCEPT !.pc = "saved"]
           r == Fresh(s)
           added == FlushedBy(t) \cup {AnswerTo(t)}
<1>1. turn[t] \in TurnState /\ TurnOK(t) /\ turn[t].began <= clock /\ clock \in Nat
  BY DEF ChatInv, ChatTypeOK
<1>2. /\ turn[t].pc = "answer" /\ chat
      /\ messages' = messages \cup added /\ Recommences(t, s) /\ UNCHANGED chat
  BY DEF SaveAnswer
<1>3. s \in TurnState /\ s.pc = "saved" /\ s.to = turn[t].to /\ s.effects = turn[t].effects
  BY <1>1, <1>2 DEF TurnState
<1> HIDE DEF s
<1>4. /\ r \in TurnState /\ r.began = clock + 1 /\ ~r.flushed
      /\ r.pc = "saved" /\ r.to = turn[t].to
      /\ turn' = [turn EXCEPT ![t] = r] /\ turn'[t] = r /\ clock' = clock + 1
  BY <1>2, <1>3, Recommenced
<1> HIDE DEF r
<1>5. PICK q \in messages \cup FlushedBy(t) :
         q.role = "user" /\ q.to = turn[t].to /\ q.at <= turn[t].began
  BY <1>2, QuestionThere DEF Backed
<1>6. q \in Message /\ q.to \in Turns
  BY Flushed DEF ChatInv, ChatTypeOK, Message
<1>7. /\ AnswerTo(t) \in Message /\ AnswerTo(t).by = t /\ AnswerTo(t).role = "assistant"
      /\ AnswerTo(t).to = q.to /\ q.at <= AnswerTo(t).at /\ AnswerTo(t).at <= clock
  BY <1>1, <1>5, <1>6 DEF AnswerTo, Message, TurnState
<1>8. added \in SUBSET Message /\ \A m \in added : m.by = t /\ m.at <= clock
  BY <1>7, Flushed
<1>9. \A a \in added : a.role = "assistant" =>
          \E p \in messages' : p.role = "user" /\ p.to = a.to /\ p.at <= a.at
  <2>1. \A a \in added : a.role = "assistant" => a = AnswerTo(t)
    BY Flushed
  <2>2. q \in messages'
    BY <1>2
  <2> QED
    BY <1>5, <1>7, <2>1, <2>2
<1>10. TurnOK(t)'
  <2>1. HasQuestion(t)'
    BY <1>2, <1>4, <1>5 DEF HasQuestion
  <2>2. Answered(t)' # {}
    <3> HIDE DEF AnswerTo
    <3>1. AnswerTo(t) \in messages'
      BY <1>2
    <3> QED
      BY <1>7, <3>1 DEF Answered
  <2> QED
    BY <1>4, <2>1, <2>2 DEF TurnOK, Backed
<1> HIDE DEF added
<1> QED
  BY <1>2, <1>4, <1>8, <1>9, <1>10, CommitStep

\* A new turn; what the others are, but for `met', they stay.
LEMMA AskKeeps ==
    ASSUME ChatInv, NEW t \in Turns, NEW kind \in TurnKinds,
           NEW old \in messages \cup {NoMessage}, Ask(t, kind, old)
    PROVE  ChatInv'
<1> DEFINE pc == IF kind = "regenerate" THEN "find" ELSE "question"
           to == IF kind = "regenerate" THEN NoTurn ELSE t
           met == \E v \in Turns : UnderWay(v)
           s == [Unasked EXCEPT !.pc = pc, !.kind = kind, !.began = clock + 1, !.old = old,
                                !.to = to, !.met = met]
<1>1. /\ turn[t].pc = "idle" /\ TurnOK(t) /\ clock \in Nat /\ clock' = clock + 1
      /\ UNCHANGED <<chat, messages>>
      /\ turn' = [u \in Turns |-> IF u = t THEN s
                                  ELSE [turn[u] EXCEPT !.met = @ \/ UnderWay(u)]]
      /\ kind = "regenerate" => old \in messages
  BY DEF Ask, ChatInv, ChatTypeOK
<1>2. UnderWay(t) \in BOOLEAN /\ \A u \in Turns : UnderWay(u) \in BOOLEAN
  BY DEF UnderWay
<1>3. /\ s \in TurnState /\ s.kind = kind /\ s.began = clock + 1 /\ s.old = old
      /\ ~s.flushed /\ s.effects = 0 /\ s.pc = pc /\ s.to = to
  <2>1. old \in Message \cup {NoMessage}
    BY DEF ChatInv, ChatTypeOK
  <2>2. /\ Unasked \in TurnState /\ ~Unasked.flushed /\ Unasked.effects = 0
    BY ChatAssumption DEF Unasked, TurnState, TurnKinds
  <2>3. pc \in {"find", "question"} /\ to \in Turns \cup {NoTurn} /\ met \in BOOLEAN
    OBVIOUS
  <2>4. clock + 1 \in Nat
    BY DEF ChatInv, ChatTypeOK
  <2> HIDE DEF pc, to, met
  <2> QED
    BY <2>1, <2>2, <2>3, <2>4 DEF TurnState
<1> HIDE DEF s
<1>4. ASSUME NEW u \in Turns \ {t}
      PROVE  /\ turn'[u] \in TurnState /\ turn'[u].pc = turn[u].pc
             /\ turn'[u].kind = turn[u].kind /\ turn'[u].began = turn[u].began
             /\ turn'[u].old = turn[u].old /\ turn'[u].to = turn[u].to
             /\ turn'[u].flushed = turn[u].flushed /\ turn'[u].effects = turn[u].effects
  <2>1. turn[u] \in TurnState /\ turn'[u] = [turn[u] EXCEPT !.met = @ \/ UnderWay(u)]
    BY <1>1 DEF ChatInv, ChatTypeOK
  <2>2. (turn[u].met \/ UnderWay(u)) \in BOOLEAN
    OBVIOUS
  <2> QED
    BY <2>1, <2>2 DEF TurnState
<1>5. turn'[t] = s
  BY <1>1
<1>6. ChatTypeOK'
  <2>1. turn' \in [Turns -> TurnState]
    <3>1. \A u \in Turns : turn'[u] \in TurnState
      BY <1>3, <1>4, <1>5
    <3> QED
      BY <1>1, <3>1
  <2>2. ASSUME NEW u \in Turns
        PROVE  /\ turn'[u].began <= clock'
               /\ turn'[u].flushed => chat' /\ UnderWay(u)' /\ turn'[u].kind = "create"
    <3>1. turn[u].began \in Nat /\ turn[u].began <= clock
      BY DEF ChatInv, ChatTypeOK, TurnState
    <3>2. CASE u = t
      BY <1>1, <1>3, <1>5, <3>2
    <3>3. CASE u # t
      BY <1>1, <1>4, <3>1, <3>3 DEF ChatInv, ChatTypeOK, UnderWay
    <3> QED
      BY <3>2, <3>3
  <2>3. \A m \in messages : m.at \in Nat /\ m.at <= clock
    BY DEF ChatInv, ChatTypeOK, Message
  <2>4. messages' \subseteq Message /\ \A m \in messages' : m.at <= clock'
    BY <1>1, <2>3 DEF ChatInv, ChatTypeOK
  <2>5. clock' \in Nat /\ chat' \in BOOLEAN
    BY <1>1 DEF ChatInv, ChatTypeOK
  <2> QED
    BY <2>1, <2>2, <2>4, <2>5 DEF ChatTypeOK
<1>7. MessagesOK'
  BY <1>1 DEF ChatInv, MessagesOK
<1>8. TurnOK(t)'
  <2>1. Asked(t)' = {}
    BY <1>1 DEF Asked, TurnOK
  <2>2. kind = "regenerate" => old.at <= clock + 1
    <3>1. kind = "regenerate" => old.at \in Nat /\ old.at <= clock
      BY <1>1 DEF ChatInv, ChatTypeOK, Message
    <3> QED
      BY <1>1, <3>1
  <2> QED
    BY <1>3, <1>5, <2>1, <2>2 DEF TurnOK, Backed
<1>9. ASSUME NEW u \in Turns \ {t} PROVE TurnOK(u)'
  <2>1. TurnOK(u)
    BY DEF ChatInv
  <2>2. /\ BackedBy(u)' <=> BackedBy(u)
        /\ HasQuestion(u)' <=> HasQuestion(u)
        /\ Asked(u)' = Asked(u) /\ Answered(u)' = Answered(u)
    BY <1>1, <1>4 DEF BackedBy, HasQuestion, Asked, Answered
  <2>3. /\ chat' = chat /\ messages' = messages
        /\ turn'[u].pc = turn[u].pc /\ turn'[u].kind = turn[u].kind
        /\ turn'[u].began = turn[u].began /\ turn'[u].old = turn[u].old
        /\ turn'[u].to = turn[u].to /\ turn'[u].flushed = turn[u].flushed
        /\ turn'[u].effects = turn[u].effects
    BY <1>1, <1>4
  <2> QED
    BY <2>1, <2>2, <2>3 DEF TurnOK
<1> QED
  BY <1>6, <1>7, <1>8, <1>9 DEF ChatInv

LEMMA DeleteKeeps == ASSUME ChatInv, DeleteChat PROVE ChatInv'
<1>1. /\ \A t \in Turns : ~turn[t].flushed
      /\ ~chat' /\ chat' \in BOOLEAN /\ messages' = {} /\ UNCHANGED <<clock, turn>>
  BY DEF DeleteChat
<1>2. ChatTypeOK'
  BY <1>1 DEF ChatInv, ChatTypeOK
<1>3. ASSUME NEW t \in Turns PROVE TurnOK(t)'
  <2>1. TurnOK(t)
    BY DEF ChatInv
  <2> QED
    BY <1>1, <2>1 DEF TurnOK, Asked
<1> QED
  BY <1>1, <1>2, <1>3 DEF ChatInv, MessagesOK

LEMMA TurnStepKeeps ==
    ASSUME ChatInv, NEW t \in Turns, TurnStep(t) PROVE ChatInv'
<1>1. CASE Fail(t) \/ Drop(t) \/ SearchRaises(t)
  BY <1>1, RollBackKeeps DEF Fail, Drop, SearchRaises, UnderWay
<1> QED
  BY <1>1, ProceedsKeep, FindKeeps, SaveQuestionKeeps, KeepQuestionKeeps, ReadHistoryKeeps,
     ToolKeeps, SaveAnswerKeeps DEF TurnStep

LEMMA StepKeeps == ChatInv /\ [ChatNext]_chatVars => ChatInv'
<1> SUFFICES ASSUME ChatInv, [ChatNext]_chatVars PROVE ChatInv'
  OBVIOUS
<1>1. CASE UNCHANGED chatVars
  <2>1. \A t \in Turns : TurnOK(t)' <=> TurnOK(t)
    BY <1>1 DEF chatVars, TurnOK, BackedBy, HasQuestion, Asked, Answered
  <2> QED
    BY <1>1, <2>1 DEF chatVars, ChatInv, ChatTypeOK, MessagesOK, UnderWay
<1> QED
  BY <1>1, TurnStepKeeps, AskKeeps, DeleteKeeps DEF ChatNext

-----------------------------------------------------------------------------
(* A turn that meets no other *)

Alone(t)    == \A u \in Turns \ {t} : ~UnderWay(u)
Newest(t)   == \A m \in messages : m.at < turn[t].began
SaidLast(t) ==
    \E q \in messages :
       /\ q.by = t /\ q.role = "user"
       /\ \A m \in messages \ {q} : m.at < q.at
AsksLast(t) ==
    \E q \in turn[t].context :
       /\ q.by = t /\ q.role = "user"
       /\ turn[t].context = messages \cup {q}
       /\ \A m \in turn[t].context \ {q} : m.at < q.at

\* Up to the call of the agent the question is the last thing said, since
\* nobody else says anything.
SoloOK(t) ==
    /\ turn[t].pc = "find" => turn[t].kind = "regenerate"
    /\ turn[t].pc = "kept" => turn[t].kind = "stream"
    /\ UnderWay(t) /\ ~turn[t].met =>
          /\ Alone(t)
          /\ turn[t].pc = "question" => Newest(t)
          /\ turn[t].pc \in {"kept", "history"} /\ turn[t].kind = "stream" /\ chat
                => SaidLast(t)
          /\ turn[t].pc = "history" /\ turn[t].kind = "create" /\ chat
                => turn[t].flushed /\ Newest(t)
          /\ turn[t].pc = "agent" /\ turn[t].kind # "regenerate" /\ chat
                => AsksLast(t)

SoloInv == ChatInv /\ \A t \in Turns : SoloOK(t)

LEMMA SoloInit == ChatInit => SoloInv
<1> SUFFICES ASSUME ChatInit PROVE SoloInv
  OBVIOUS
<1>1. ASSUME NEW t \in Turns PROVE SoloOK(t)
  BY DEF ChatInit, SoloOK, Unasked, UnderWay
<1> QED
  BY <1>1, InitInv DEF SoloInv

\* What a commit does to the local states.
LEMMA CommitFrame ==
    ASSUME ChatInv, NEW t \in Turns, KeepQuestion(t) \/ ToolCommits(t) \/ SaveAnswer(t)
    PROVE  /\ turn'[t].met = turn[t].met /\ \A u \in Turns \ {t} : turn'[u] = turn[u]
           /\ turn'[t].pc = (IF KeepQuestion(t) THEN "kept"
                             ELSE IF ToolCommits(t) THEN "tools" ELSE "saved")
<1>1. ASSUME NEW s \in TurnState, Recommences(t, s)
      PROVE  /\ turn'[t].met = s.met /\ turn'[t].pc = s.pc
             /\ \A u \in Turns \ {t} : turn'[u] = turn[u]
  BY <1>1 DEF Recommences, ChatInv, ChatTypeOK, TurnState
<1>2. turn[t] \in TurnState
  BY DEF ChatInv, ChatTypeOK
<1>3. CASE KeepQuestion(t)
  <2>1. [turn[t] EXCEPT !.pc = "kept"] \in TurnState
    BY <1>2 DEF TurnState
  <2> QED
    BY <1>1, <1>2, <1>3, <2>1 DEF KeepQuestion, TurnState
<1>4. CASE ToolCommits(t) /\ ~KeepQuestion(t)
  <2>1. turn[t].effects + 1 \in 0..MaxEffects /\ turn[t].pc = "tools"
    BY <1>2, <1>4, ChatAssumption DEF ToolCommits, TurnState
  <2>2. PICK n \in 0..MaxEffects : Recommences(t, [turn[t] EXCEPT !.effects = n])
    BY <1>4, <2>1 DEF ToolCommits
  <2>3. /\ [turn[t] EXCEPT !.effects = n] \in TurnState
        /\ [turn[t] EXCEPT !.effects = n].met = turn[t].met
        /\ [turn[t] EXCEPT !.effects = n].pc = turn[t].pc
    BY <1>2 DEF TurnState
  <2> QED
    BY <1>1, <1>4, <2>1, <2>2, <2>3
<1>5. CASE SaveAnswer(t) /\ ~KeepQuestion(t) /\ ~ToolCommits(t)
  <2>1. [turn[t] EXCEPT !.pc = "saved"] \in TurnState
    BY <1>2 DEF TurnState
  <2> QED
    BY <1>1, <1>2, <1>5, <2>1 DEF SaveAnswer, TurnState
<1> QED
  BY <1>3, <1>4, <1>5

\* What a step of t does to the local states, whatever it is.
LEMMA TurnFrame ==
    ASSUME ChatInv, NEW t \in Turns, TurnStep(t)
    PROVE  /\ UnderWay(t) /\ turn'[t].met = turn[t].met
           /\ chat' = chat /\ \A u \in Turns \ {t} : turn'[u] = turn[u]
<1>0. turn[t] \in TurnState /\ turn \in [Turns -> TurnState]
  BY DEF ChatInv, ChatTypeOK
<1>1. CASE \/ RefreshQuestion(t) \/ ChooseAgent(t) \/ ModelAnswers(t) \/ ListDocuments(t)
           \/ PlanSearches(t) \/ EmbedQuery(t) \/ ToolsReport(t) \/ Complete(t)
  BY <1>0, <1>1 DEF RefreshQuestion, ChooseAgent, ModelAnswers, ListDocuments, PlanSearches,
                    EmbedQuery, ToolsReport, Complete, Proceeds, UnderWay, Ended, TurnState
<1>2. CASE SaveQuestion(t) \/ ReadHistory(t)
  BY <1>0, <1>2 DEF SaveQuestion, ReadHistory, UnderWay, Ended, TurnState
<1>3. CASE FindQuestion(t)
  BY <1>0, <1>3 DEF FindQuestion, Proceeds, UnderWay, Ended, TurnState
<1>4. CASE KeepQuestion(t) \/ ToolCommits(t) \/ SaveAnswer(t)
  BY <1>4, CommitFrame DEF KeepQuestion, ToolCommits, SaveAnswer, UnderWay, Ended
<1>5. CASE SearchRaises(t) \/ Fail(t) \/ Drop(t)
  BY <1>0, <1>5 DEF SearchRaises, Fail, Drop, RollsBack, UnderWay, Ended, TurnState
<1> QED
  BY <1>1, <1>2, <1>3, <1>4, <1>5 DEF TurnStep

\* Behind the call of the agent nothing but the first part is claimed.
LEMMA SoloLater ==
    ASSUME SoloInv, NEW t \in Turns, TurnStep(t),
           turn'[t].pc \notin {"find", "question", "kept", "history", "agent"}
    PROVE  SoloOK(t)'
  BY TurnFrame DEF SoloInv, SoloOK, UnderWay, Alone

LEMMA SoloTurn ==
    ASSUME SoloInv, NEW t \in Turns, TurnStep(t) PROVE SoloOK(t)'
<1>0. /\ turn[t] \in TurnState /\ turn \in [Turns -> TurnState]
      /\ SoloOK(t) /\ messages \subseteq Message
  BY DEF SoloInv, ChatInv, ChatTypeOK
<1>1. /\ UnderWay(t) /\ turn'[t].met = turn[t].met
      /\ chat' = chat /\ \A u \in Turns \ {t} : turn'[u] = turn[u]
      /\ ~turn[t].met => Alone(t) /\ Alone(t)'
  BY TurnFrame DEF SoloInv, SoloOK, UnderWay, Alone
<1>2. CASE \/ ChooseAgent(t) \/ ModelAnswers(t) \/ ListDocuments(t)
           \/ PlanSearches(t) \/ EmbedQuery(t) \/ ToolsReport(t) \/ Complete(t)
  <2>1. turn'[t].pc \notin {"find", "question", "kept", "history", "agent"}
    BY <1>0, <1>2 DEF ChooseAgent, ModelAnswers, ListDocuments, PlanSearches,
                      EmbedQuery, ToolsReport, Complete, Proceeds, TurnState
  <2> QED
    BY <2>1, SoloLater
<1>3. CASE ToolCommits(t) \/ SaveAnswer(t)
  <2>1. ~KeepQuestion(t)
    BY <1>3 DEF KeepQuestion, ToolCommits, SaveAnswer
  <2>2. turn'[t].pc \in {"tools", "saved"}
    BY <1>3, <2>1, CommitFrame DEF SoloInv
  <2> QED
    BY <2>2, SoloLater
<1>4. CASE SearchRaises(t) \/ Fail(t) \/ Drop(t)
  <2>1. turn'[t].pc \notin {"find", "question", "kept", "history", "agent"}
    BY <1>0, <1>4 DEF SearchRaises, Fail, Drop, RollsBack, TurnState
  <2> QED
    BY <2>1, SoloLater
<1>5. CASE FindQuestion(t)
  <2>1. turn'[t].pc \in {"history", "refused"} /\ turn'[t].kind = "regenerate"
    BY <1>0, <1>5 DEF FindQuestion, Proceeds, SoloOK, TurnState
  <2> QED
    BY <1>1, <2>1 DEF SoloOK
<1>6. CASE SaveQuestion(t)
  <2>1. /\ turn'[t].pc = "history" /\ turn'[t].kind = "create" /\ turn'[t].flushed
        /\ turn'[t].began = turn[t].began /\ messages' = messages /\ turn[t].pc = "question"
    BY <1>0, <1>6 DEF SaveQuestion, TurnState
  <2>2. Newest(t) => Newest(t)'
    BY <2>1 DEF Newest
  <2> QED
    BY <1>0, <1>1, <2>1, <2>2 DEF SoloOK
<1>7. CASE KeepQuestion(t)
  <2>1. /\ turn'[t].pc = "kept" /\ turn'[t].kind = "stream" /\ turn[t].pc = "question"
        /\ messages' = messages \cup {Question(t)}
    BY <1>0, <1>7 DEF KeepQuestion, Recommences, TurnState
  <2>2. /\ Question(t).by = t /\ Question(t).role = "user"
        /\ Question(t).at = turn[t].began
    BY DEF Question
  <2> HIDE DEF Question
  <2>3. Newest(t) => SaidLast(t)'
    BY <2>1, <2>2 DEF Newest, SaidLast
  <2> QED
    BY <1>0, <1>1, <2>1, <2>3 DEF SoloOK
<1>8. CASE RefreshQuestion(t)
  <2>1. /\ turn'[t].pc = "history" /\ turn'[t].kind = turn[t].kind
        /\ turn[t].pc = "kept" /\ messages' = messages
    BY <1>0, <1>8 DEF RefreshQuestion, Proceeds, TurnState
  <2>2. SaidLast(t) => SaidLast(t)'
    BY <2>1 DEF SaidLast
  <2>3. turn[t].kind = "stream"
    BY <1>0, <2>1 DEF SoloOK
  <2> QED
    BY <1>0, <1>1, <2>1, <2>2, <2>3 DEF SoloOK
<1>9. CASE ReadHistory(t)
  <2>1. /\ turn'[t].pc = "agent" /\ turn'[t].kind = turn[t].kind
        /\ turn'[t].context = messages \cup FlushedBy(t)
        /\ turn[t].pc = "history" /\ messages' = messages
    BY <1>0, <1>9 DEF ReadHistory, History, TurnState
  <2>2. turn[t].flushed /\ Newest(t) => AsksLast(t)'
    <3>1. /\ Question(t).by = t /\ Question(t).role = "user"
          /\ Question(t).at = turn[t].began
      BY DEF Question
    <3>2. turn[t].flushed => FlushedBy(t) = {Question(t)}
      BY DEF FlushedBy
    <3> HIDE DEF Question
    <3> QED
      BY <2>1, <3>1, <3>2 DEF Newest, AsksLast
  <2>3. ~turn[t].flushed /\ SaidLast(t) => AsksLast(t)'
    BY <2>1 DEF FlushedBy, SaidLast, AsksLast
  <2>4. turn[t].flushed => turn[t].kind = "create"
    BY DEF SoloInv, ChatInv, ChatTypeOK
  <2>5. turn[t].kind \in {"create", "stream", "regenerate"}
    BY <1>0 DEF TurnState, TurnKinds
  <2> QED
    BY <1>0, <1>1, <2>1, <2>2, <2>3, <2>4, <2>5 DEF SoloOK
<1> QED
  BY <1>2, <1>3, <1>4, <1>5, <1>6, <1>7, <1>8, <1>9 DEF TurnStep

LEMMA SoloOthers ==
    ASSUME SoloInv, NEW t \in Turns, TurnStep(t), NEW u \in Turns \ {t} PROVE SoloOK(u)'
<1>1. /\ UnderWay(t) /\ turn'[u] = turn[u] /\ SoloOK(u)
  BY TurnFrame DEF SoloInv
<1>2. UnderWay(u) => turn[u].met
  BY <1>1 DEF SoloOK, Alone
<1> QED
  BY <1>1, <1>2 DEF SoloOK, UnderWay

LEMMA SoloAsk ==
    ASSUME SoloInv, NEW t \in Turns, NEW kind \in TurnKinds,
           NEW old \in messages \cup {NoMessage}, Ask(t, kind, old), NEW u \in Turns
    PROVE  SoloOK(u)'
<1>0. /\ turn \in [Turns -> TurnState] /\ SoloOK(u) /\ clock \in Nat
      /\ \A m \in messages : m.at \in Nat /\ m.at <= clock
  BY DEF SoloInv, ChatInv, ChatTypeOK, Message
<1>1. CASE u # t
  <2>1. turn'[u] = [turn[u] EXCEPT !.met = @ \/ UnderWay(u)]
    BY <1>1 DEF Ask
  <2>2. /\ turn'[u].pc = turn[u].pc /\ turn'[u].kind = turn[u].kind
        /\ UnderWay(u) => turn'[u].met
    BY <1>0, <2>1 DEF TurnState
  <2> QED
    BY <1>0, <2>2 DEF SoloOK, UnderWay
<1>2. CASE u = t
  <2>1. /\ turn'[t].pc = (IF kind = "regenerate" THEN "find" ELSE "question")
        /\ turn'[t].kind = kind /\ turn'[t].began = clock + 1
        /\ turn'[t].met = (\E v \in Turns : UnderWay(v))
        /\ messages' = messages
    BY DEF Ask, Unasked
  <2>2. Newest(t)'
    BY <1>0, <2>1 DEF Newest
  <2>3. ~turn'[t].met => Alone(t)'
    <3>1. ASSUME NEW v \in Turns \ {t}, ~UnderWay(v) PROVE ~UnderWay(v)'
      <4>1. turn'[v] = [turn[v] EXCEPT !.met = @ \/ UnderWay(v)]
        BY DEF Ask
      <4> QED
        BY <1>0, <3>1, <4>1 DEF UnderWay, TurnState
    <3> QED
      BY <2>1, <3>1 DEF Alone
  <2> QED
    BY <1>2, <2>1, <2>2, <2>3 DEF SoloOK
<1> QED
  BY <1>1, <1>2

LEMMA SoloStep == SoloInv /\ [ChatNext]_chatVars => SoloInv'
<1> SUFFICES ASSUME SoloInv, [ChatNext]_chatVars PROVE SoloInv'
  OBVIOUS
<1>1. ChatInv'
  BY StepKeeps DEF SoloInv
<1>2. ASSUME NEW u \in Turns PROVE SoloOK(u)'
  <2>1. CASE UNCHANGED chatVars
    BY <2>1 DEF chatVars, SoloInv, SoloOK, UnderWay, Alone, Newest, SaidLast, AsksLast
  <2>2. CASE DeleteChat
    BY <2>2 DEF DeleteChat, SoloInv, SoloOK, UnderWay, Alone, Newest
  <2> QED
    BY <2>1, <2>2, SoloTurn, SoloOthers, SoloAsk DEF ChatNext
<1> QED
  BY <1>1, <1>2 DEF SoloInv

-----------------------------------------------------------------------------
(* The theorems *)

THEOREM InvHolds == ChatSpec => []SoloInv
  BY SoloInit, SoloStep, PTL DEF ChatSpec

\* A turn has flushed only a question of its own that is not committed, in a
\* chat that is there, and no message is later than the clock.
THEOREM ChatTypeCorrect == ChatSpec => []ChatTypeOK
<1>1. SoloInv => ChatTypeOK
  BY DEF SoloInv, ChatInv
<1> QED
  BY <1>1, InvHolds, PTL

\* Whatever fails, is dropped or is deleted in between, no answer is without
\* its question, no question of an untouched turn is without its answer, and
\* who was told `completed' has an answer.
THEOREM WholeTranscript == ChatSpec => []TranscriptIsWhole
<1>1. SoloInv => TranscriptIsWhole
  BY DEF SoloInv, ChatInv, MessagesOK, TurnOK, TranscriptIsWhole
<1> QED
  BY <1>1, InvHolds, PTL

\* What the tools of a turn did is never in the workspace without the question
\* in the chat.
THEOREM EffectsAsked == ChatSpec => []EffectsHaveQuestions
<1>1. ASSUME SoloInv, NEW t \in Turns, turn[t].effects > 0, chat
      PROVE  \E q \in messages : q.role = "user" /\ q.to = turn[t].to
  <2>1. TurnOK(t)
    BY <1>1 DEF SoloInv, ChatInv
  <2> QED
    BY <1>1, <2>1 DEF TurnOK, HasQuestion
<1>2. SoloInv => EffectsHaveQuestions
  BY <1>1 DEF EffectsHaveQuestions
<1> QED
  BY <1>2, InvHolds, PTL

\* A turn that meets no other asks the model with all that was said before it,
\* its own question last.
THEOREM SoloTurnAsksLast == ChatSpec => []SoloAsksLast
<1>1. SoloInv => SoloAsksLast
  BY DEF SoloInv, SoloOK, SoloAsksLast, AsksLast, UnderWay, Ended
<1> QED
  BY <1>1, InvHolds, PTL
=============================================================================
