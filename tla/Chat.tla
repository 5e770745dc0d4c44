-------------------------------- MODULE Chat --------------------------------
(***************************************************************************)
(* Messages and read state: the handlers SendMessage, MarkRead,             *)
(* MarkDelivered and DeleteMessage of internal/chat, with match.Unmatch and *)
(* blocks, over one READ COMMITTED database.                               *)
(*                                                                         *)
(* A member of Senders is a goroutine that serves one SendMessage after     *)
(* another, a member of Readers one that serves MarkRead.  What a           *)
(* transaction has not committed is in its locals; pc tells which rows it   *)
(* has locked.                                                             *)
(***************************************************************************)
EXTENDS Naturals, FiniteSets

CONSTANTS
  Users, Conversations,
  Members,      \* Members[c]: the two users of the match of c
  Senders,      \* concurrent handlers of POST .../messages
  Readers,      \* concurrent handlers of MarkRead, REST or socket
  ClientIds,    \* clientMessageId values
  Texts,        \* message bodies
  Inputs,       \* the messages clients may send
  Blockable,    \* the blocks <<blocker, blocked>> that may come and go
  MaxMessages,  \* bound: the last message id
  MaxFaults     \* bound: how many handlers die

Body == [conv : Conversations, sender : Users, client : ClientIds, text : Texts]
Ids == 1..MaxMessages
NoInput == CHOOSE b \in Inputs : TRUE
Reading == {x \in Conversations \X Users : x[2] \in Members[x[1]]}
NoTarget == [id |-> 0, at |-> CHOOSE x \in Reading : TRUE]

ASSUME MembersAssumption ==
  Members \in [Conversations -> {{u, v} : u, v \in Users} \ {{u} : u \in Users}]
ASSUME SendsAssumption ==
  Inputs # {} /\ Inputs \subseteq {b \in Body : b.sender \in Members[b.conv]}
ASSUME BlocksAssumption == Blockable \subseteq Users \X Users
ASSUME HandlersAssumption == Senders \intersect Readers = {}
ASSUME ChatBoundsAssumption == MaxMessages \in Nat /\ MaxFaults \in Nat

VARIABLES
  \* the committed database
  messages,   \* messages, with the text they were sent with
  deleted,    \* ids with status DELETED and body NULL
  delivered,  \* ids whose receipt has delivered_at
  seen,       \* ids whose receipt has seen_at
  nextId,     \* the sequence of messages.id, which no rollback winds back
  active,     \* conversations with status ACTIVE, and so the match
  unmatching, \* conversations whose match row match.Unmatch has locked
  lastId,     \* conversations.last_message_id, or 0
  lastRead,   \* conversation_participants.last_read_message_id, or 0
  blocks,     \* user_blocks: <<blocker, blocked>>
  \* the locals of each handler
  pc,         \* the next statement; "done" between two requests
  input,      \* the message of a sender
  newId,      \* the id of the row it has inserted
  outcome,    \* what its client was answered
  target,     \* the message a reader reads up to, and as whom
  current,    \* the last_read_message_id it found
  \* observers
  told,       \* ids that were pushed to sockets and notified
  open,       \* the members were unblocked at some time since the request came
  faults

readState == <<delivered, seen, lastRead>>
status == <<active, unmatching>>
sendLocals == <<input, newId, outcome, open>>
readLocals == <<target, current>>
vars == <<messages, deleted, delivered, seen, nextId, active, unmatching,
          lastId, lastRead, blocks, pc, input, newId, outcome, target, current,
          told, open, faults>>

Messages == [id : Ids, conv : Conversations, sender : Users,
             client : ClientIds, text : Texts]
SendSteps == {"lookup", "access", "lock", "recheck", "insert", "commit",
              "emit", "done"}
ReadSteps == {"lockRead", "write", "done"}

TypeOK ==
  /\ messages \subseteq Messages
  /\ deleted \subseteq Ids /\ delivered \subseteq Ids /\ seen \subseteq Ids
  /\ nextId \in 1..(MaxMessages + 1)
  /\ active \subseteq Conversations
  /\ unmatching \subseteq active
  /\ lastId \in [Conversations -> {0} \union Ids]
  /\ lastRead \in [Reading -> {0} \union Ids]
  /\ blocks \subseteq Blockable
  /\ pc \in [Senders \union Readers -> SendSteps \union ReadSteps]
  /\ input \in [Senders -> Inputs]
  /\ newId \in [Senders -> {0} \union Ids]
  /\ outcome \in [Senders -> {"none", "sent", "conflict", "notFound", "failed"}]
  /\ target \in [Readers -> [id : {0} \union Ids, at : Reading]]
  /\ current \in [Readers -> {0} \union Ids]
  /\ told \subseteq Ids
  /\ open \in [Senders -> BOOLEAN]
  /\ faults \in 0..MaxFaults

-----------------------------------------------------------------------------
(* What the statements look at.                                            *)

Blocked(c) == \E e \in blocks : {e[1], e[2]} = Members[c]

\* activeConversationByUUIDTx finds c, as far as its WHERE clause goes.
Accessible(c) == c \in active /\ ~Blocked(c)

SameClientId(b) ==
  {m \in messages : m.sender = b.sender /\ m.client = b.client}

\* Bug: a repeated id is compared by its text only.
SameText(m, b) == m.text = b.text /\ m.id \notin deleted

\* Conversation, type and body agree; the body of a deleted message is NULL,
\* which agrees with nothing.
SameMessage(m, b) == m.conv = b.conv /\ m.text = b.text /\ m.id \notin deleted

HoldsConversation(r) == pc[r] \in {"recheck", "insert", "commit"}
HoldsCursor(q) == pc[q] = "write"

\* Bug: the conversation is read without FOR UPDATE.
ConversationUnlocked(r) == TRUE

\* Bug: a send that finds its message stored leaves the transaction open.
ConversationFreeLeaking(r) ==
  \A q \in Senders \ {r} :
    ~ /\ HoldsConversation(q) \/ outcome[q] = "sent"
      /\ input[q].conv = input[r].conv

\* SELECT ... FOR UPDATE OF c: no other sender has the conversation.
ConversationFree(r) ==
  \A q \in Senders \ {r} :
    ~(HoldsConversation(q) /\ input[q].conv = input[r].conv)

\* Bug: last_read_message_id is read without FOR UPDATE.
CursorUnlocked(q) == TRUE

\* The participant row, locked by no other reader.
CursorFree(q) ==
  \A p \in Readers \ {q} : ~(HoldsCursor(p) /\ target[p].at = target[q].at)

\* messages_client_message_unique.
Collides(m, b) == m.sender = b.sender /\ m.client = b.client

-----------------------------------------------------------------------------
(* SendMessage.                                                            *)

Goto(r, step) == pc' = [pc EXCEPT ![r] = step]

Finish(r, o) ==
  /\ Goto(r, "done")
  /\ outcome' = [outcome EXCEPT ![r] = o]
  /\ newId' = [newId EXCEPT ![r] = 0]
  /\ open' = [open EXCEPT ![r] = TRUE]
  /\ input' = [input EXCEPT ![r] =
       IF o \in {"sent", "conflict"} THEN @ ELSE NoInput]

\* A client posts a message, or posts it again.
Submit(r) ==
  /\ pc[r] = "done"
  /\ \E b \in Inputs :
       /\ input' = [input EXCEPT ![r] = b]
       /\ open' = [open EXCEPT ![r] = ~Blocked(b.conv)]
  /\ Goto(r, "lookup")
  /\ outcome' = [outcome EXCEPT ![r] = "none"]
  /\ UNCHANGED <<messages, deleted, readState, nextId, status, lastId, blocks,
                 newId, readLocals, told, faults>>

\* messageByClientID, before the transaction.
Lookup(r) ==
  /\ pc[r] = "lookup"
  /\ IF SameClientId(input[r]) = {}
     THEN Goto(r, "access") /\ UNCHANGED sendLocals
     ELSE \E m \in SameClientId(input[r]) :
            Finish(r, IF SameMessage(m, input[r]) THEN "sent" ELSE "conflict")
  /\ UNCHANGED <<messages, deleted, readState, nextId, status, lastId, blocks,
                 readLocals, told, faults>>

\* Bug: nobody looks at blocks.
AccessWithoutBlocks(r) ==
  /\ pc[r] = "access"
  /\ \/ input[r].conv \in active /\ Goto(r, "lock") /\ UNCHANGED sendLocals
     \/ Finish(r, "notFound")
  /\ UNCHANGED <<messages, deleted, readState, nextId, status, lastId, blocks,
                 readLocals, told, faults>>

\* activeConversationByUUIDTx takes its snapshot.  The account of a member,
\* suspended or deleted, may hide any conversation.
Access(r) ==
  /\ pc[r] = "access"
  /\ \/ /\ Accessible(input[r].conv)
        /\ Goto(r, "lock")
        /\ UNCHANGED sendLocals
     \/ Finish(r, "notFound")
  /\ UNCHANGED <<messages, deleted, readState, nextId, status, lastId, blocks,
                 readLocals, told, faults>>

\* The row lock is granted.  PostgreSQL looks again at the locked row, and at
\* no other: a conversation closed meanwhile is gone, a block is not seen.
Lock(r) ==
  /\ pc[r] = "lock"
  /\ ConversationFree(r)
  /\ IF input[r].conv \in active
     THEN Goto(r, "recheck") /\ UNCHANGED sendLocals
     ELSE Finish(r, "notFound")
  /\ UNCHANGED <<messages, deleted, readState, nextId, status, lastId, blocks,
                 readLocals, told, faults>>

\* messageByClientIDTx.  A repeated message is pushed to sockets once more.
Recheck(r) ==
  /\ pc[r] = "recheck"
  /\ IF SameClientId(input[r]) = {}
     THEN Goto(r, "insert") /\ UNCHANGED <<sendLocals, told>>
     ELSE \E m \in SameClientId(input[r]) :
            IF SameMessage(m, input[r])
            THEN Finish(r, "sent") /\ told' = told \union {m.id}
            ELSE Finish(r, "conflict") /\ UNCHANGED told
  /\ UNCHANGED <<messages, deleted, readState, nextId, status, lastId, blocks,
                 readLocals, faults>>

\* INSERT INTO messages takes an id; the unique index makes it wait for a
\* colliding row that is not committed and fail on one that is, and the
\* foreign key for whoever has locked the match.  A statement that finds no id
\* within the bound fails too.
Insert(r) ==
  /\ pc[r] = "insert"
  /\ input[r].conv \notin unmatching
  /\ \A q \in Senders \ {r} :
       ~(pc[q] = "commit" /\ Collides(input[q], input[r]))
  /\ nextId' = IF nextId \in Ids THEN nextId + 1 ELSE nextId
  /\ IF nextId \notin Ids \/ \E m \in messages : Collides(m, input[r])
     THEN Finish(r, "failed")
     ELSE /\ newId' = [newId EXCEPT ![r] = nextId]
          /\ Goto(r, "commit")
          /\ UNCHANGED <<input, outcome, open>>
  /\ UNCHANGED <<messages, deleted, readState, status, lastId, blocks,
                 readLocals, told, faults>>

\* COMMIT: the message, its receipt, and the end of the conversation.
Commit(r) ==
  LET b == input[r]
  IN  /\ pc[r] = "commit"
      /\ messages' = messages \union
           {[id |-> newId[r], conv |-> b.conv, sender |-> b.sender,
             client |-> b.client, text |-> b.text]}
      /\ lastId' = [lastId EXCEPT ![b.conv] = newId[r]]
      /\ Goto(r, "emit")
      /\ UNCHANGED <<deleted, readState, nextId, status, blocks, sendLocals,
                     readLocals, told, faults>>

\* Bug: the sockets are told only of messages that were stored before.
EmitNothing(r) ==
  /\ pc[r] = "emit"
  /\ Finish(r, "sent")
  /\ UNCHANGED <<messages, deleted, readState, nextId, status, lastId, blocks,
                 readLocals, told, faults>>

\* emitMessageCreated and NotifyChatMessage, after the commit.
Emit(r) ==
  /\ pc[r] = "emit"
  /\ told' = told \union {newId[r]}
  /\ Finish(r, "sent")
  /\ UNCHANGED <<messages, deleted, readState, nextId, status, lastId, blocks,
                 readLocals, faults>>

-----------------------------------------------------------------------------
(* MarkRead.                                                               *)

\* The conversation and the target are found; neither is locked.
StartRead(q) ==
  /\ pc[q] = "done"
  /\ \E m \in messages, x \in Reading :
       /\ m.conv = x[1]
       /\ Accessible(x[1])
       /\ target' = [target EXCEPT ![q] = [id |-> m.id, at |-> x]]
  /\ Goto(q, "lockRead")
  /\ UNCHANGED <<messages, deleted, readState, nextId, status, lastId, blocks,
                 sendLocals, current, told, faults>>

\* SELECT last_read_message_id ... FOR UPDATE.
LockRead(q) ==
  /\ pc[q] = "lockRead"
  /\ CursorFree(q)
  /\ current' = [current EXCEPT ![q] = lastRead[target[q].at]]
  /\ Goto(q, "write")
  /\ UNCHANGED <<messages, deleted, readState, nextId, status, lastId, blocks,
                 sendLocals, target, told, faults>>

EndRead(q) ==
  /\ Goto(q, "done")
  /\ target' = [target EXCEPT ![q] = NoTarget]
  /\ current' = [current EXCEPT ![q] = 0]

\* Both updates and the COMMIT: the cursor moves forward or not at all, and
\* every receipt up to the target is delivered and seen.
WriteRead(q) ==
  LET x == target[q].at
      n == target[q].id
      upTo == {m.id : m \in {y \in messages : /\ y.conv = x[1]
                                              /\ y.sender # x[2]
                                              /\ y.id <= n}}
  IN  /\ pc[q] = "write"
      /\ lastRead' = [lastRead EXCEPT ![x] = IF n > current[q] THEN n ELSE @]
      /\ seen' = seen \union upTo
      /\ delivered' = delivered \union upTo
      /\ EndRead(q)
      /\ UNCHANGED <<messages, deleted, nextId, status, lastId, blocks,
                     sendLocals, told, faults>>

-----------------------------------------------------------------------------
(* The rest: one transaction each that no other one depends on halfway.     *)

\* MarkDelivered by the receiver of an active message.
MarkDelivered(m) ==
  /\ Accessible(m.conv)
  /\ m.id \notin deleted
  /\ delivered' = delivered \union {m.id}
  /\ UNCHANGED <<messages, deleted, seen, nextId, status, lastId, lastRead,
                 blocks, pc, sendLocals, readLocals, told, faults>>

\* DeleteMessage by its sender, in a conversation that may be closed.
DeleteMessage(m) ==
  /\ deleted' = deleted \union {m.id}
  /\ UNCHANGED <<messages, readState, nextId, status, lastId, blocks, pc,
                 sendLocals, readLocals, told, faults>>

\* match.Unmatch locks the row of the match, which the foreign key of an
\* inserted message shares until its commit.
LockMatch(c) ==
  /\ c \in active \ unmatching
  /\ ~Blocked(c)
  /\ \A r \in Senders : ~(pc[r] = "commit" /\ input[r].conv = c)
  /\ unmatching' = unmatching \union {c}
  /\ UNCHANGED <<messages, deleted, readState, nextId, active, lastId, blocks,
                 pc, sendLocals, readLocals, told, faults>>

\* Its last statement waits for the conversation; then both rows commit.
CloseConversation(c) ==
  /\ c \in unmatching
  /\ \A r \in Senders : ~(HoldsConversation(r) /\ input[r].conv = c)
  /\ active' = active \ {c}
  /\ unmatching' = unmatching \ {c}
  /\ UNCHANGED <<messages, deleted, readState, nextId, lastId, blocks, pc,
                 sendLocals, readLocals, told, faults>>

\* A sender that has the conversation waits for the match, and Unmatch that
\* has the match waits for the conversation: PostgreSQL ends one of them.
DeadlockDetected(r) ==
  /\ pc[r] = "insert"
  /\ input[r].conv \in unmatching
  /\ \/ /\ Finish(r, "failed")
        /\ nextId' = IF nextId \in Ids THEN nextId + 1 ELSE nextId
        /\ UNCHANGED unmatching
     \/ /\ unmatching' = unmatching \ {input[r].conv}
        /\ UNCHANGED <<pc, sendLocals, nextId>>
  /\ UNCHANGED <<messages, deleted, readState, active, lastId, blocks,
                 readLocals, told, faults>>

\* BlockUser and UnblockUser lock nothing a sender waits for.
Block(e) ==
  /\ blocks' = blocks \union {e}
  /\ UNCHANGED <<messages, deleted, readState, nextId, status, lastId, pc,
                 sendLocals, readLocals, told, faults>>

Unblock(e) ==
  /\ e \in blocks
  /\ blocks' = blocks \ {e}
  /\ open' = [r \in Senders |->
       open[r] \/ (Blocked(input[r].conv) /\ ~Blocked(input[r].conv)')]
  /\ UNCHANGED <<messages, deleted, readState, nextId, status, lastId, pc,
                 input, newId, outcome, readLocals, told, faults>>

\* A handler dies or a statement fails: an open transaction rolls back.
Fail ==
  /\ faults < MaxFaults
  /\ faults' = faults + 1
  /\ \/ \E r \in Senders :
          /\ pc[r] # "done" /\ Finish(r, "failed")
          /\ UNCHANGED <<readLocals, unmatching>>
     \/ \E q \in Readers :
          /\ pc[q] # "done" /\ EndRead(q)
          /\ UNCHANGED <<sendLocals, unmatching>>
     \/ \E c \in unmatching :
          /\ unmatching' = unmatching \ {c}
          /\ UNCHANGED <<pc, sendLocals, readLocals>>
  /\ UNCHANGED <<messages, deleted, readState, nextId, active, lastId, blocks,
                 told>>

Init ==
  /\ messages = {}
  /\ deleted = {} /\ delivered = {} /\ seen = {}
  /\ nextId = 1
  /\ active = Conversations
  /\ unmatching = {}
  /\ lastId = [c \in Conversations |-> 0]
  /\ lastRead = [x \in Reading |-> 0]
  /\ blocks = {}
  /\ pc = [r \in Senders \union Readers |-> "done"]
  /\ input = [r \in Senders |-> NoInput]
  /\ newId = [r \in Senders |-> 0]
  /\ outcome = [r \in Senders |-> "none"]
  /\ target = [q \in Readers |-> NoTarget]
  /\ current = [q \in Readers |-> 0]
  /\ told = {}
  /\ open = [r \in Senders |-> TRUE]
  /\ faults = 0

\* The statements of a send that runs.
Send(r) ==
  \/ Lookup(r)
  \/ Access(r)
  \/ Lock(r)
  \/ Recheck(r)
  \/ Insert(r)
  \/ Commit(r)
  \/ Emit(r)
  \/ DeadlockDetected(r)

Next ==
  \/ \E r \in Senders : Submit(r) \/ Send(r)
  \/ \E q \in Readers : StartRead(q) \/ LockRead(q) \/ WriteRead(q)
  \/ \E m \in messages : MarkDelivered(m) \/ DeleteMessage(m)
  \/ \E c \in Conversations : LockMatch(c) \/ CloseConversation(c)
  \/ \E e \in Blockable : Block(e) \/ Unblock(e)
  \/ Fail

Spec == Init /\ [][Next]_vars

\* Handlers run, and PostgreSQL grants row locks in turn and breaks deadlocks.
Fairness ==
  /\ \A r \in Senders : WF_vars(Send(r)) /\ SF_vars(Lock(r) \/ Insert(r))
  /\ \A c \in Conversations : SF_vars(CloseConversation(c))

FairSpec == Spec /\ Fairness

-----------------------------------------------------------------------------
(* Safety.                                                                 *)

\* The cursor of a reader has nothing unread behind it: ids are committed in
\* the order of the conversation, so a message cannot turn up below a cursor
\* that has already passed it, where no later MarkRead and no unread count of
\* the receiver would find it.
NothingUnreadBehindCursor ==
  \A m \in messages, x \in Reading :
    /\ m.conv = x[1] /\ m.sender # x[2] /\ m.id <= lastRead[x]
    => m.id \in seen /\ m.id \in delivered

\* The last message of the chat list is the newest one of the conversation,
\* whichever of two sends commits first.
LastMessageIsNewest ==
  \A c \in Conversations :
    LET ids == {m.id : m \in {x \in messages : x.conv = c}}
    IN  /\ lastId[c] \in ids \union {0}
        /\ \A i \in ids : i <= lastId[c]

\* Who was told that a message is sent finds exactly one stored under his
\* client id, in the conversation and with the text he sent.
SentOnce ==
  \A r \in Senders :
    outcome[r] = "sent" =>
      \E m \in messages :
        /\ SameClientId(input[r]) = {m}
        /\ m.conv = input[r].conv /\ m.text = input[r].text

\* No message is stored of a sender whose conversation has been blocked since
\* before he sent it, without a moment's pause.
StandingBlockHolds ==
  \A r \in Senders : HoldsConversation(r) => open[r]

\* The reply to a repeated clientMessageId: "409 IDEMPOTENCY_KEY_CONFLICT:
\* treat as client bug" (docs/API_MOBILE.md:614), so a client that repeats
\* its own message word for word should not get it.
ConflictIsClientBug ==
  \A r \in Senders :
    outcome[r] = "conflict" =>
      \A m \in SameClientId(input[r]) :
        m.conv # input[r].conv \/ m.text # input[r].text

\* After an unmatching the conversation has its last message: a send that was
\* under way ends before it or is refused.
ClosedIsFinal ==
  [][\A m \in messages' \ messages : m.conv \in active]_vars

\* A cursor never moves back, whatever devices of one user race.
CursorAdvances ==
  [][\A x \in Reading : lastRead'[x] >= lastRead[x]]_vars

-----------------------------------------------------------------------------
(* The abstraction, and liveness.                                          *)

Promise == INSTANCE ChatLog WITH
  log <- messages, openConv <- active, cursor <- lastRead, seenIds <- seen,
  gone <- deleted

\* Every run is a run of ChatLog: each conversation is a log that grows at its
\* end while it is open and is read from its beginning.
ImplementsChatLog == Promise!CLSpec

\* Every send and every unmatching is answered.  Sends wait for conversations
\* and the unique index in no cycle; a send and an unmatching that take the
\* conversation and the match in opposite orders do wait for each other, until
\* the database ends one.
HandlersEnd ==
  /\ \A r \in Senders : pc[r] # "done" ~> pc[r] = "done"
  /\ \A c \in Conversations : c \in unmatching ~> c \notin unmatching

\* A stored message is pushed to its receiver, unless a handler died.
MessagesAreTold ==
  \A i \in Ids : (\E m \in messages : m.id = i) ~> i \in told \/ faults > 0
=============================================================================
