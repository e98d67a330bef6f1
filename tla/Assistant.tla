------------------------------ MODULE Assistant ------------------------------
(***************************************************************************)
(* AssistantService of src/library as units of work.  One question in a    *)
(* conversation takes three sessions: the history is read, the passages    *)
(* are retrieved, the turn is written; the services for embeddings and     *)
(* answers are called in between and may raise.                            *)
(***************************************************************************)
EXTENDS Corpus

ChatOf(q) == job[q].chat
MyChat(q) == <<"chat", q>>
Said(q, role) == <<"message", q, role>>
MessagesOf(db, s) == {k \in Table(db, "message") : db[k].chat = s}

(* create_session.                                                            *)
CreateSession(q) ==
  /\ Asks(q, "create_session")
  /\ pc[q] = "start"
  /\ Statement(q, "start", TRUE, Add(Sent(q), MyChat(q), [messages |-> "none"]), "commit")

RequireSession(q, at, next) ==
  Statement(q, at, ChatOf(q) \in DOMAIN Rows(q), Found(q, {ChatOf(q)}), next)

(* delete_session.                                                            *)
DeleteSession_LeavesTheMessages(q) ==
  /\ Asks(q, "delete_session")
  /\ \/ RequireSession(q, "start", "messages")
     \/ Statement(q, "messages", TRUE, Delete(Sent(q), {ChatOf(q)}), "commit")
DeleteSession(q) ==
  /\ Asks(q, "delete_session")
  /\ \/ RequireSession(q, "start", "messages")
     \/ LET said == MessagesOf(Rows(q), ChatOf(q))
        IN Statement(q, "messages", TRUE,
                     Delete(Found(q, said), said \cup {ChatOf(q)}), "commit")

-----------------------------------------------------------------------------
(* ask: the history.                                                          *)
AskHistory(q) ==
  \/ RequireSession(q, "start", "history")
  \/ Statement(q, "history", TRUE, Found(q, MessagesOf(Rows(q), ChatOf(q))), "heard")
  \/ Close(q, "heard", "embed_query")

(* ask: the passages.  note keeps them; without any the model is not asked.   *)
EmbedQuery(q) ==
  /\ pc[q] = "embed_query"
  /\ pc' = [pc EXCEPT ![q] = "search"]
  /\ UNCHANGED <<durable, working, unit, job, note, met>>
AskPassages(q) ==
  \/ EmbedQuery(q) \/ Raise(q, "embed_query")
  \/ Hits(q, "search", "unheard")
  \/ HitTitles(q, "found")
  \/ Close(q, "found", "complete")
  \/ Close(q, "unheard", "turn")
Complete(q) ==
  /\ pc[q] = "complete"
  /\ pc' = [pc EXCEPT ![q] = "turn"]
  /\ UNCHANGED <<durable, working, unit, job, note, met>>

(* _record_turn: both messages and the conversation's updated_at, in one unit. *)
Message(u, q, role) ==
  Add(u, Said(q, role), [chat |-> ChatOf(q), role |-> role,
                         sources |-> IF role = "user" THEN {} ELSE note[q]])
RecordTurn_LeavesTheChat(q) ==
  \/ Statement(q, "turn", ChatOf(q) \in DOMAIN Rows(q),
               Message(Found(q, {ChatOf(q)}), q, "user"), "user")
  \/ Statement(q, "user", TRUE, Message(Sent(q), q, "assistant"), "assistant")
  \/ Statement(q, "assistant", TRUE, Sent(q), "commit")
RecordTurn(q) ==
  \/ Statement(q, "turn", ChatOf(q) \in DOMAIN Rows(q),
               Message(Found(q, {ChatOf(q)}), q, "user"), "user")
  \/ Statement(q, "user", TRUE, Message(Sent(q), q, "assistant"), "assistant")
  \/ Statement(q, "assistant", TRUE, Touch(Sent(q), ChatOf(q)), "commit")

Ask(q) ==
  /\ Asks(q, "ask")
  /\ \/ AskHistory(q) \/ AskPassages(q) \/ Complete(q) \/ Raise(q, "complete")
     \/ RecordTurn(q)

Converse(q) == CreateSession(q) \/ DeleteSession(q) \/ Ask(q)

=============================================================================
