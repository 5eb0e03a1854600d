---------------------------- MODULE ChatMessages ----------------------------
(***************************************************************************)
(* One chat: its messages, the turns that users take in it (a message, a   *)
(* streamed message, the regeneration of an answer), and its deletion.     *)
(*                                                                         *)
(* created_at is the start of the transaction that inserts a message, and  *)
(* a session is in a transaction from its first statement to its commit.   *)
(* A step is one statement, one call of a model or one commit of a tool.   *)
(***************************************************************************)
EXTENDS Naturals, FiniteSets

CONSTANTS
    Turns,       \* requests, each of which takes one turn
    NoTurn,
    MaxEffects   \* bound: commits of the tools in a turn

ASSUME ChatAssumption == NoTurn \notin Turns /\ MaxEffects \in Nat

VARIABLES
    chat,        \* whether the chat is there
    messages,    \* the committed messages
    clock,       \* transactions begun so far
    turn         \* the local state of each request

chatVars == <<chat, messages, clock, turn>>

\* `by' wrote it, `to' is the turn whose question it is or answers.
Message == [by: Turns, role: {"user", "assistant"}, at: Nat, to: Turns]
NoMessage == [by |-> NoTurn, role |-> "user", at |-> 0, to |-> NoTurn]

TurnKinds == {"create", "stream", "regenerate"}
Unasked == [pc |-> "idle", kind |-> "create", began |-> 0, flushed |-> FALSE,
            old |-> NoMessage, to |-> NoTurn, context |-> {}, effects |-> 0,
            met |-> FALSE]
TurnState ==
    [pc: {"idle", "find", "question", "kept", "history", "agent", "model",
          "list", "plan", "search", "query", "tools", "answer", "saved", "completed", "failed", "refused",
          "dropped"},
     kind: TurnKinds, began: Nat, flushed: BOOLEAN, old: Message \cup {NoMessage},
     to: Turns \cup {NoTurn}, context: SUBSET Message, effects: 0..MaxEffects,
     met: BOOLEAN]

ChatInit ==
    /\ chat = TRUE
    /\ messages = {}
    /\ clock = 0
    /\ turn = [t \in Turns |-> Unasked]

Ended    == {"completed", "failed", "refused", "dropped"}
UnderWay(t) == turn[t].pc \notin Ended \cup {"idle"}

\* now() in the transaction of the turn.
Question(t)   == [by |-> t, role |-> "user", at |-> turn[t].began, to |-> t]
AnswerTo(t)   == [by |-> t, role |-> "assistant", at |-> turn[t].began, to |-> turn[t].to]
FlushedBy(t)  == IF turn[t].flushed THEN {Question(t)} ELSE {}

Proceeds(t, pc) == turn' = [turn EXCEPT ![t].pc = pc]

\* Commit, and the refresh that follows begins the next transaction.
Recommences(t, state) ==
    /\ clock' = clock + 1
    /\ turn' = [turn EXCEPT ![t] = [state EXCEPT !.began = clock + 1, !.flushed = FALSE]]

-----------------------------------------------------------------------------
(* The request, up to the history *)

\* get_owned_chat, or the message to be regenerated; the first statement of
\* the session.  The turns under way meet the new one.
Ask(t, kind, old) ==
    /\ turn[t].pc = "idle" /\ chat
    /\ IF kind = "regenerate" THEN old \in messages /\ old.role = "assistant"
                              ELSE old = NoMessage
    /\ clock' = clock + 1
    /\ turn' = [u \in Turns |->
          IF u = t
          THEN [Unasked EXCEPT !.pc = IF kind = "regenerate" THEN "find" ELSE "question",
                               !.kind = kind, !.began = clock + 1, !.old = old,
                               !.to = IF kind = "regenerate" THEN NoTurn ELSE t,
                               !.met = \E v \in Turns : UnderWay(v)]
          ELSE [turn[u] EXCEPT !.met = @ \/ UnderWay(u)]]
    /\ UNCHANGED <<chat, messages>>

\* previous_user_message: the latest question strictly before the answer.
Earlier(m)  == {q \in messages : q.role = "user" /\ q.at < m.at}
Previous(m) == {q \in Earlier(m) : \A p \in Earlier(m) : p.at <= q.at}

FindQuestion(t) ==
    /\ turn[t].pc = "find"
    /\ IF turn[t].old \in messages /\ Previous(turn[t].old) # {}
       THEN \E q \in Previous(turn[t].old) :
               turn' = [turn EXCEPT ![t].pc = "history", ![t].to = q.to]
       ELSE Proceeds(t, "refused")
    /\ UNCHANGED <<chat, messages, clock>>

\* The insert takes a lock on the chat, which must be there.
SaveQuestion(t) ==
    /\ turn[t].pc = "question" /\ turn[t].kind = "create" /\ chat
    /\ turn' = [turn EXCEPT ![t].pc = "history", ![t].flushed = TRUE]
    /\ UNCHANGED <<chat, messages, clock>>

KeepQuestion(t) ==
    /\ turn[t].pc = "question" /\ turn[t].kind = "stream" /\ chat
    /\ messages' = messages \cup {Question(t)}
    /\ Recommences(t, [turn[t] EXCEPT !.pc = "kept"])
    /\ UNCHANGED chat

\* The refresh finds the row.
RefreshQuestion(t) ==
    /\ turn[t].pc = "kept" /\ chat
    /\ Proceeds(t, "history")
    /\ UNCHANGED <<chat, messages, clock>>

\* Mutant: the history is read before the question is flushed.
HistoryBefore(t) == messages

\* list_for_chat: what is committed, and what the session has flushed.
History(t) == messages \cup FlushedBy(t)

ReadHistory(t) ==
    /\ turn[t].pc = "history"
    /\ turn' = [turn EXCEPT ![t].pc = "agent", ![t].context = History(t)]
    /\ UNCHANGED <<chat, messages, clock>>

-----------------------------------------------------------------------------
(* The agent *)

\* The agent's name and the words of the question and the history decide: a
\* model, the workspace tools, a list of the documents, or a search of them.
ChooseAgent(t) ==
    /\ turn[t].pc = "agent"
    /\ \E pc \in {"model", "tools", "list", "plan"} : Proceeds(t, pc)
    /\ UNCHANGED <<chat, messages, clock>>

ModelAnswers(t) ==
    /\ turn[t].pc = "model"
    /\ Proceeds(t, "answer")
    /\ UNCHANGED <<chat, messages, clock>>

ListDocuments(t) ==
    /\ turn[t].pc = "list"
    /\ Proceeds(t, "answer")
    /\ UNCHANGED <<chat, messages, clock>>

\* A model plans the searches; without its answer the question is searched.
PlanSearches(t) ==
    /\ turn[t].pc = "plan"
    /\ Proceeds(t, "search")
    /\ UNCHANGED <<chat, messages, clock>>

\* The session is closed without a commit.
RollsBack(t, pc) ==
    /\ turn' = [turn EXCEPT ![t].pc = pc, ![t].flushed = FALSE]
    /\ UNCHANGED <<chat, messages, clock>>

\* An embedding of the first query, ...
EmbedQuery(t) ==
    /\ turn[t].pc = "search"
    /\ Proceeds(t, "query")
    /\ UNCHANGED <<chat, messages, clock>>

\* ... and RetrievalService hands the repository its own `self' as the session
\* and the session once more: a TypeError, whatever is searched.
SearchRaises(t) ==
    /\ turn[t].pc = "query"
    /\ RollsBack(t, "failed")

\* Mutant: tools have a session of their own.
ToolOwnSession(t) ==
    /\ turn[t].pc = "tools" /\ turn[t].effects < MaxEffects
    /\ turn' = [turn EXCEPT ![t].effects = @ + 1]
    /\ UNCHANGED <<chat, messages, clock>>

\* A tool commits what it has done, and with it the question.
ToolCommits(t) ==
    /\ turn[t].pc = "tools" /\ turn[t].effects < MaxEffects
    /\ messages' = messages \cup FlushedBy(t)
    /\ Recommences(t, [turn[t] EXCEPT !.effects = @ + 1])
    /\ UNCHANGED chat

ToolsReport(t) ==
    /\ turn[t].pc = "tools"
    /\ Proceeds(t, "answer")
    /\ UNCHANGED <<chat, messages, clock>>

-----------------------------------------------------------------------------
(* The answer *)

\* Mutant: the request ends without its commit.
AnswerNotCommitted(t) ==
    /\ turn[t].pc = "answer" /\ chat
    /\ Recommences(t, [turn[t] EXCEPT !.pc = "saved"])
    /\ UNCHANGED <<chat, messages>>

\* INSERT and commit of the answer.
SaveAnswer(t) ==
    /\ turn[t].pc = "answer" /\ chat
    /\ messages' = messages \cup FlushedBy(t) \cup {AnswerTo(t)}
    /\ Recommences(t, [turn[t] EXCEPT !.pc = "saved"])
    /\ UNCHANGED chat

\* The rows are refreshed, and the client has its 201 or `completed'.
Complete(t) ==
    /\ turn[t].pc = "saved" /\ chat
    /\ Proceeds(t, "completed")
    /\ UNCHANGED <<chat, messages, clock>>

\* A model, a tool or the database raises, the agent is unknown, or the chat
\* is gone.
Fail(t) == UnderWay(t) /\ RollsBack(t, "failed")

\* The client of a stream leaves, which cancels it, or the process ends.
Drop(t) == UnderWay(t) /\ RollsBack(t, "dropped")

\* DELETE of the chat waits for the inserts that refer to it.
DeleteChat ==
    /\ chat /\ \A t \in Turns : ~turn[t].flushed
    /\ chat' = FALSE /\ messages' = {}
    /\ UNCHANGED <<clock, turn>>

TurnStep(t) ==
    \/ FindQuestion(t) \/ SaveQuestion(t) \/ KeepQuestion(t) \/ RefreshQuestion(t)
    \/ ReadHistory(t) \/ ChooseAgent(t) \/ ModelAnswers(t) \/ ListDocuments(t)
    \/ PlanSearches(t) \/ EmbedQuery(t) \/ SearchRaises(t) \/ ToolCommits(t)
    \/ ToolsReport(t) \/ SaveAnswer(t) \/ Complete(t) \/ Fail(t) \/ Drop(t)

ChatNext ==
    \/ \E t \in Turns :
          \/ TurnStep(t)
          \/ \E kind \in TurnKinds, old \in messages \cup {NoMessage} : Ask(t, kind, old)
    \/ DeleteChat

ChatSpec == ChatInit /\ [][ChatNext]_chatVars
-----------------------------------------------------------------------------
(* Properties *)

\* A turn has flushed only what a message of its own, not yet kept, can be,
\* and no message is later than the clock.
ChatTypeOK ==
    /\ chat \in BOOLEAN /\ clock \in Nat
    /\ messages \subseteq Message /\ \A m \in messages : m.at <= clock
    /\ turn \in [Turns -> TurnState]
    /\ \A t \in Turns :
          /\ turn[t].began <= clock
          /\ turn[t].flushed => chat /\ UnderWay(t) /\ turn[t].kind = "create"

Asked(t)    == {q \in messages : q.by = t /\ q.role = "user"}
Answered(t) == {a \in messages : a.by = t /\ a.role = "assistant"}

\* Whatever fails half-way or is deleted meanwhile, the transcript is whole:
\* an answer is there with the question it answers, which is not later; the
\* question of a turn that was not streamed and whose tools did nothing is
\* there only with its answer; a client that was told `completed' finds its
\* answer; and a deleted chat stays empty.
TranscriptIsWhole ==
    /\ ~chat => messages = {}
    /\ \A a \in messages : a.role = "assistant" =>
          \E q \in messages : q.role = "user" /\ q.to = a.to /\ q.at <= a.at
    /\ \A t \in Turns :
          /\ turn[t].kind = "create" /\ turn[t].effects = 0 /\ Asked(t) # {}
                => Answered(t) # {}
          /\ turn[t].pc = "completed" /\ chat => Answered(t) # {}

\* What the tools of a turn have done to the workspace is never without the
\* question that asked for it, although both ride on other code's commits.
EffectsHaveQuestions ==
    \A t \in Turns : turn[t].effects > 0 /\ chat =>
        \E q \in messages : q.role = "user" /\ q.to = turn[t].to

\* In a conversation without overlapping turns the model is asked with the
\* whole conversation before it, the question last: the times, taken when
\* transactions begin, order turns as they were taken.
SoloAsksLast ==
    \A t \in Turns :
        turn[t].pc = "agent" /\ ~turn[t].met /\ turn[t].kind # "regenerate" /\ chat =>
            \E q \in turn[t].context :
                /\ q.by = t /\ q.role = "user"
                /\ turn[t].context = messages \cup {q}
                /\ \A m \in turn[t].context \ {q} : m.at < q.at

\* services/chat.py:309: a regeneration is refused when no user message is
\* available, that is, when the question of the answer is not in the chat.
RefusedWithoutQuestion ==
    \A t \in Turns : turn[t].pc = "refused" /\ turn[t].old \in messages =>
        ~\E q \in messages : q.role = "user" /\ q.to = turn[t].old.to
=============================================================================
