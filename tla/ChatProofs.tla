----------------------------- MODULE ChatProofs -----------------------------
(***************************************************************************)
(* Proofs about Chat, for any users, conversations, handlers, inputs,       *)
(* blocks and bounds.                                                      *)
(***************************************************************************)
EXTENDS Chat, TLAPS

-----------------------------------------------------------------------------
(* Type correctness.                                                       *)

Outcomes == {"none", "sent", "conflict", "notFound", "failed"}

LEMMA DefaultsExist == NoInput \in Inputs /\ NoTarget.at \in Reading
<1>1. NoInput \in Inputs
  BY SendsAssumption DEF NoInput
<1>2. <<NoInput.conv, NoInput.sender>> \in Reading
  BY <1>1, SendsAssumption DEF Body, Reading
<1>3. QED
  BY <1>1, <1>2 DEF NoTarget

\* What a statement of a sender, and one of a reader, may change at most, as
\* TypeOK types it.
SendersType ==
  /\ pc \in [Senders \union Readers -> SendSteps \union ReadSteps]
  /\ input \in [Senders -> Inputs]
  /\ newId \in [Senders -> {0} \union Ids]
  /\ outcome \in [Senders -> Outcomes]
  /\ open \in [Senders -> BOOLEAN]

ReadersType ==
  /\ pc \in [Senders \union Readers -> SendSteps \union ReadSteps]
  /\ target \in [Readers -> [id : {0} \union Ids, at : Reading]]
  /\ current \in [Readers -> {0} \union Ids]

LEMMA LocalsTyped == TypeOK => SendersType /\ ReadersType
  BY DEF TypeOK, SendersType, ReadersType, Outcomes

LEMMA FinishType ==
  ASSUME SendersType, NEW r \in Senders, NEW o \in Outcomes, Finish(r, o)
  PROVE  SendersType'
  BY DefaultsExist DEF SendersType, Finish, Goto, SendSteps

LEMMA GotoType ==
  ASSUME SendersType, NEW r \in Senders, NEW step \in SendSteps,
         Goto(r, step), UNCHANGED sendLocals
  PROVE  SendersType'
  BY DEF SendersType, Goto, sendLocals

LEMMA EndReadType ==
  ASSUME ReadersType, NEW q \in Readers, EndRead(q)
  PROVE  ReadersType'
  BY DefaultsExist DEF ReadersType, EndRead, Goto, ReadSteps, NoTarget

\* A sender that has inserted has the id of a row.
HasId == \A r \in Senders : pc[r] \in {"commit", "emit"} => newId[r] \in Ids

TypeInv == TypeOK /\ HasId

LEMMA TypeInit == Init => TypeInv
<1> SUFFICES ASSUME Init PROVE TypeInv
  OBVIOUS
<1>1. NoTarget \in [id : {0} \union Ids, at : Reading] /\ NoInput \in Inputs
  BY DefaultsExist DEF NoTarget
<1>2. 1 \in 1..(MaxMessages + 1) /\ 0 \in 0..MaxFaults
  BY ChatBoundsAssumption
<1>3. QED
  BY <1>1, <1>2 DEF Init, TypeInv, HasId, TypeOK, SendSteps

\* An id that is taken leaves the sequence one ahead.
LEMMA NextIdType ==
  ASSUME nextId \in 1..(MaxMessages + 1),
         nextId' = IF nextId \in Ids THEN nextId + 1 ELSE nextId
  PROVE  nextId' \in 1..(MaxMessages + 1)
  BY ChatBoundsAssumption DEF Ids

LEMMA TypeSend ==
  ASSUME TypeInv, NEW r \in Senders, Submit(r) \/ Send(r)
  PROVE  TypeOK'
<1>1. SendersType /\ TypeOK /\ HasId /\ nextId \in 1..(MaxMessages + 1)
  BY LocalsTyped DEF TypeInv, TypeOK
<1>2. \A o \in Outcomes : Finish(r, o) => SendersType'
  BY <1>1, FinishType
<1>3. \A step \in SendSteps :
        Goto(r, step) /\ UNCHANGED sendLocals => SendersType'
  BY <1>1, GotoType
<1>4. /\ {"sent", "conflict", "notFound", "failed"} \subseteq Outcomes
      /\ {"lookup", "access", "lock", "recheck", "insert", "commit", "emit"}
           \subseteq SendSteps
  BY DEF Outcomes, SendSteps
<1>5. ASSUME SendersType',
             UNCHANGED <<messages, deleted, readState, nextId, status, lastId,
                         blocks, readLocals, told, faults>>
      PROVE  TypeOK'
  BY <1>1, <1>5 DEF TypeOK, SendersType, Outcomes, readState, status, readLocals
<1>6. CASE Submit(r)
  <2>1. SendersType'
    BY <1>1, <1>4, <1>6 DEF Submit, Goto, SendersType, Outcomes
  <2>2. QED
    BY <2>1, <1>5, <1>6 DEF Submit
<1>7. CASE Lookup(r)
  BY <1>7, <1>2, <1>3, <1>4, <1>5 DEF Lookup
<1>8. CASE Access(r)
  BY <1>8, <1>2, <1>3, <1>4, <1>5 DEF Access
<1>9. CASE Lock(r)
  BY <1>9, <1>2, <1>3, <1>4, <1>5 DEF Lock
<1>10. CASE Recheck(r)
  <2>1. SendersType'
    BY <1>10, <1>2, <1>3, <1>4 DEF Recheck
  <2>2. told' \subseteq Ids
    BY <1>1, <1>10 DEF Recheck, SameClientId, TypeOK, Messages
  <2>3. QED
    BY <2>1, <2>2, <1>1, <1>10
    DEF Recheck, TypeOK, SendersType, Outcomes, readState, status, readLocals
<1>11. CASE Insert(r)
  <2>1. SendersType'
    <3>1. CASE Finish(r, "failed")
      BY <3>1, <1>2, <1>4
    <3>2. CASE /\ nextId \in Ids /\ newId' = [newId EXCEPT ![r] = nextId]
               /\ Goto(r, "commit") /\ UNCHANGED <<input, outcome, open>>
      BY <3>2, <1>1, <1>4 DEF SendersType, Goto
    <3>3. QED
      BY <1>11, <3>1, <3>2 DEF Insert
  <2>2. nextId' \in 1..(MaxMessages + 1)
    BY <1>1, <1>11, NextIdType DEF Insert
  <2>3. QED
    BY <2>1, <2>2, <1>1, <1>11
    DEF Insert, TypeOK, SendersType, Outcomes, readState, status, readLocals
<1>12. CASE Commit(r)
  <2>1. SendersType'
    BY <1>12, <1>3, <1>4 DEF Commit
  <2>2. input[r] \in Body /\ newId[r] \in Ids
    BY <1>1, <1>12, SendsAssumption DEF SendersType, HasId, Commit
  <2>3. messages' \subseteq Messages
    BY <1>1, <1>12, <2>2 DEF Commit, TypeOK, Messages, Body
  <2>4. lastId' \in [Conversations -> {0} \union Ids]
    BY <1>1, <1>12, <2>2 DEF Commit, TypeOK
  <2>5. QED
    BY <2>1, <2>3, <2>4, <1>1, <1>12
    DEF Commit, TypeOK, SendersType, Outcomes, readState, status, readLocals
<1>13. CASE Emit(r)
  <2>1. SendersType' /\ newId[r] \in Ids
    BY <1>1, <1>2, <1>4, <1>13 DEF Emit, HasId
  <2>2. QED
    BY <2>1, <1>1, <1>13
    DEF Emit, TypeOK, SendersType, Outcomes, readState, status, readLocals
<1>14. CASE DeadlockDetected(r)
  <2>1. SendersType'
    BY <1>14, <1>1, <1>2, <1>4 DEF DeadlockDetected, SendersType, sendLocals
  <2>2. nextId' \in 1..(MaxMessages + 1)
    BY <1>1, <1>14, NextIdType DEF DeadlockDetected
  <2>3. unmatching' \subseteq active'
    BY <1>1, <1>14 DEF DeadlockDetected, TypeOK
  <2>4. QED
    BY <2>1, <2>2, <2>3, <1>1, <1>14
    DEF DeadlockDetected, TypeOK, SendersType, Outcomes, readState, readLocals
<1>15. QED
  BY <1>6, <1>7, <1>8, <1>9, <1>10, <1>11, <1>12, <1>13, <1>14 DEF Send

LEMMA TypeRead ==
  ASSUME TypeOK, NEW q \in Readers, StartRead(q) \/ LockRead(q) \/ WriteRead(q)
  PROVE  TypeOK'
<1>1. ReadersType /\ \A m \in messages : m.id \in Ids
  BY LocalsTyped DEF TypeOK, Messages
<1>2. CASE StartRead(q)
  <2>1. ReadersType'
    BY <1>1, <1>2 DEF StartRead, Goto, ReadersType, ReadSteps
  <2>2. QED
    BY <2>1, <1>2
    DEF StartRead, TypeOK, ReadersType, readState, status, sendLocals
<1>3. CASE LockRead(q)
  <2>1. ReadersType'
    BY <1>1, <1>3 DEF LockRead, Goto, ReadersType, ReadSteps, TypeOK
  <2>2. QED
    BY <2>1, <1>3
    DEF LockRead, TypeOK, ReadersType, readState, status, sendLocals
<1>4. CASE WriteRead(q)
  <2>1. ReadersType'
    BY <1>1, <1>4, EndReadType DEF WriteRead
  <2>2. seen' \subseteq Ids /\ delivered' \subseteq Ids
    BY <1>1, <1>4 DEF WriteRead, TypeOK
  <2>3. lastRead' \in [Reading -> {0} \union Ids]
    BY <1>1, <1>4 DEF WriteRead, TypeOK, ReadersType
  <2>4. QED
    BY <2>1, <2>2, <2>3, <1>4 DEF WriteRead, TypeOK, ReadersType, status, sendLocals
<1>5. QED
  BY <1>2, <1>3, <1>4

\* What neither a send nor a MarkRead does.
Others ==
  \/ \E m \in messages : MarkDelivered(m) \/ DeleteMessage(m)
  \/ \E c \in Conversations : LockMatch(c) \/ CloseConversation(c)
  \/ \E e \in Blockable : Block(e) \/ Unblock(e)
  \/ Fail

LEMMA TypeOthers ==
  ASSUME TypeOK, Others
  PROVE  TypeOK'
<1>1. SendersType /\ ReadersType /\ \A m \in messages : m.id \in Ids
  BY LocalsTyped DEF TypeOK, Messages
<1>2. ASSUME NEW m \in messages, MarkDelivered(m) \/ DeleteMessage(m)
      PROVE  TypeOK'
  BY <1>1, <1>2
  DEF MarkDelivered, DeleteMessage, TypeOK, readState, status, sendLocals,
      readLocals
<1>3. ASSUME NEW c \in Conversations, LockMatch(c) \/ CloseConversation(c)
      PROVE  TypeOK'
  BY <1>3
  DEF LockMatch, CloseConversation, TypeOK, readState, sendLocals, readLocals
<1>4. ASSUME NEW e \in Blockable, Block(e) \/ Unblock(e)
      PROVE  TypeOK'
  <2>1. open' \in [Senders -> BOOLEAN]
    BY <1>4 DEF Block, Unblock, TypeOK, sendLocals
  <2>2. QED
    BY <2>1, <1>4
    DEF Block, Unblock, TypeOK, readState, status, sendLocals, readLocals
<1>5. CASE Fail
  <2>1. faults' \in 0..MaxFaults
    BY <1>5, ChatBoundsAssumption DEF Fail, TypeOK
  <2>2. unmatching' \subseteq active
    BY <1>5 DEF Fail, TypeOK
  <2>3. SendersType' /\ ReadersType'
    <3>1. ASSUME NEW r \in Senders, Finish(r, "failed"), UNCHANGED readLocals
          PROVE  SendersType' /\ ReadersType'
      BY <3>1, <1>1, FinishType
      DEF Outcomes, SendersType, ReadersType, readLocals
    <3>2. ASSUME NEW q \in Readers, EndRead(q), UNCHANGED sendLocals
          PROVE  SendersType' /\ ReadersType'
      BY <3>2, <1>1, EndReadType DEF SendersType, ReadersType, sendLocals
    <3>3. CASE UNCHANGED <<pc, sendLocals, readLocals>>
      BY <3>3, <1>1 DEF SendersType, ReadersType, sendLocals, readLocals
    <3>4. QED
      BY <3>1, <3>2, <3>3, <1>5 DEF Fail
  <2>4. QED
    BY <2>1, <2>2, <2>3, <1>5
    DEF Fail, TypeOK, SendersType, ReadersType, Outcomes, readState
<1>6. QED
  BY <1>2, <1>3, <1>4, <1>5 DEF Others

LEMMA NextCases ==
  ASSUME [Next]_vars
  PROVE  \/ \E r \in Senders : Submit(r) \/ Send(r)
         \/ \E q \in Readers : StartRead(q) \/ LockRead(q) \/ WriteRead(q)
         \/ Others
         \/ UNCHANGED vars
  BY DEF Next, Others

LEMMA TypeStep == TypeInv /\ [Next]_vars => TypeOK'
<1>1. TypeOK /\ UNCHANGED vars => TypeOK'
  BY DEF TypeOK, vars, readState, status, sendLocals, readLocals
<1>2. QED
  BY <1>1, NextCases, TypeSend, TypeRead, TypeOthers DEF TypeInv

-----------------------------------------------------------------------------
(* The senders and the messages they store.                                *)

OneHolder ==
  \A q, r \in Senders :
    HoldsConversation(q) /\ HoldsConversation(r)
      /\ input[q].conv = input[r].conv => q = r

HeldIsOpen ==
  \A r \in Senders : HoldsConversation(r) => input[r].conv \in active

\* An inserted row comes after all messages of its conversation and has a
\* client id that no message has.
InsertedIsNew ==
  \A r \in Senders : pc[r] = "commit" =>
    /\ newId[r] < nextId
    /\ \A m \in messages :
         /\ m.id # newId[r]
         /\ m.conv = input[r].conv => m.id < newId[r]
         /\ ~Collides(m, input[r])

InsertsDiffer ==
  \A q, r \in Senders : pc[q] = "commit" /\ pc[r] = "commit" /\ q # r =>
    newId[q] # newId[r] /\ ~Collides(input[q], input[r])

MessagesDiffer ==
  /\ \A m \in messages : m.id < nextId
  /\ \A m, n \in messages : m.id = n.id \/ Collides(m, n) => m = n

StoreInv ==
  /\ TypeInv
  /\ OneHolder
  /\ HeldIsOpen
  /\ InsertedIsNew
  /\ InsertsDiffer
  /\ MessagesDiffer
  /\ LastMessageIsNewest

LEMMA StoreInvInit == Init => StoreInv
  BY TypeInit
  DEF Init, StoreInv, OneHolder, HeldIsOpen, InsertedIsNew, InsertsDiffer,
      MessagesDiffer, LastMessageIsNewest, HoldsConversation

\* No row is locked, inserted or stored in the step.
Quiet ==
  /\ UNCHANGED <<messages, lastId>>
  /\ nextId <= nextId'
  /\ \A r \in Senders :
       /\ pc'[r] \in {"commit", "emit"} =>
            pc'[r] = pc[r] /\ newId'[r] = newId[r]
       /\ HoldsConversation(r)' =>
            /\ HoldsConversation(r) /\ input'[r] = input[r]
            /\ input[r].conv \in active'

LEMMA QuietKeepsStore ==
  ASSUME StoreInv, TypeOK', Quiet
  PROVE  StoreInv'
<1>1. HasId'
  BY DEF StoreInv, TypeInv, HasId, Quiet
<1>2. OneHolder' /\ HeldIsOpen' /\ LastMessageIsNewest'
  BY DEF StoreInv, OneHolder, HeldIsOpen, LastMessageIsNewest, Quiet
<1>3. \A r \in Senders : pc'[r] = "commit" =>
        pc[r] = "commit" /\ newId'[r] = newId[r] /\ input'[r] = input[r]
  BY DEF Quiet, HoldsConversation
<1>4. InsertsDiffer'
  BY <1>3 DEF StoreInv, InsertsDiffer, Collides
<1>5. /\ nextId \in Nat /\ nextId' \in Nat
      /\ \A m \in messages : m.id \in Nat
      /\ \A r \in Senders : newId[r] \in Nat
  BY ChatBoundsAssumption DEF StoreInv, TypeInv, TypeOK, Messages, Ids
<1>6. MessagesDiffer' /\ InsertedIsNew'
  BY <1>3, <1>5
  DEF StoreInv, MessagesDiffer, InsertedIsNew, Collides, Quiet
<1>7. QED
  BY <1>1, <1>2, <1>4, <1>6 DEF StoreInv, TypeInv

\* A send that ends is quiet, whatever it is answered.
LEMMA FinishIsQuiet ==
  ASSUME StoreInv, NEW r \in Senders, NEW o, Finish(r, o),
         UNCHANGED <<messages, lastId, active>>, nextId <= nextId'
  PROVE  Quiet
  BY DEF StoreInv, TypeInv, TypeOK, HeldIsOpen, Quiet, HoldsConversation,
         Finish, Goto

LEMMA MostStepsAreQuiet ==
  ASSUME StoreInv, [Next]_vars
  PROVE  \/ Quiet
         \/ \E r \in Senders :
              \/ Lock(r) /\ input[r].conv \in active
              \/ Insert(r) /\ pc'[r] = "commit"
              \/ Commit(r)
<1>1. /\ TypeOK /\ HeldIsOpen /\ nextId \in Nat
      /\ \A q \in Readers : q \notin Senders
  BY HandlersAssumption DEF StoreInv, TypeInv, TypeOK
<1> DEFINE Still == UNCHANGED <<messages, lastId, active>> /\ nextId <= nextId'
<1>2. UNCHANGED <<messages, lastId, nextId>> => nextId <= nextId'
  BY <1>1
<1>3. (nextId' = IF nextId \in Ids THEN nextId + 1 ELSE nextId)
        => nextId <= nextId'
  BY <1>1
<1>4. ASSUME UNCHANGED <<messages, lastId, active, nextId, input, newId>>,
             \A r \in Senders : pc'[r] = pc[r]
      PROVE  Quiet
  BY <1>1, <1>2, <1>4 DEF Quiet, HoldsConversation, HeldIsOpen
<1>5. ASSUME NEW r \in Senders, Submit(r)
      PROVE  Quiet
  BY <1>1, <1>2, <1>5
  DEF Submit, Goto, Quiet, HoldsConversation, HeldIsOpen, TypeOK, status
<1>6. ASSUME NEW r \in Senders, Lookup(r) \/ Access(r) \/ Recheck(r)
      PROVE  Quiet
  <2>1. CASE \E o : Finish(r, o)
    BY <2>1, <1>2, <1>6, FinishIsQuiet DEF Lookup, Access, Recheck, status
  <2>2. CASE UNCHANGED sendLocals
             /\ \/ pc[r] = "lookup" /\ Goto(r, "access")
                \/ pc[r] = "access" /\ Goto(r, "lock")
                \/ pc[r] = "recheck" /\ Goto(r, "insert")
    BY <2>2, <1>1, <1>2, <1>6
    DEF Lookup, Access, Recheck, Goto, Quiet, HoldsConversation, HeldIsOpen,
        TypeOK, status, sendLocals
  <2>3. QED
    BY <2>1, <2>2, <1>6 DEF Lookup, Access, Recheck
<1>7. ASSUME NEW r \in Senders, Lock(r), input[r].conv \notin active
      PROVE  Quiet
  BY <1>2, <1>7, FinishIsQuiet DEF Lock, status
<1>8. ASSUME NEW r \in Senders, Insert(r), pc'[r] # "commit"
      PROVE  Quiet
  <2>1. Finish(r, "failed")
    BY <1>1, <1>8 DEF Insert, Goto, TypeOK
  <2>2. QED
    BY <2>1, <1>3, <1>8, FinishIsQuiet DEF Insert, status
<1>9. ASSUME NEW r \in Senders, Emit(r) \/ DeadlockDetected(r)
      PROVE  Quiet
  <2>1. CASE \E o : Finish(r, o)
    BY <2>1, <1>2, <1>3, <1>9, FinishIsQuiet
    DEF Emit, DeadlockDetected, status, Finish
  <2>2. CASE UNCHANGED <<pc, sendLocals, nextId>>
    BY <2>2, <1>4, <1>9 DEF Emit, DeadlockDetected, status, sendLocals
  <2>3. QED
    BY <2>1, <2>2, <1>9 DEF Emit, DeadlockDetected
<1>10. ASSUME NEW q \in Readers, StartRead(q) \/ LockRead(q) \/ WriteRead(q)
       PROVE  Quiet
  <2>1. UNCHANGED <<messages, lastId, active, nextId, input, newId>>
    BY <1>10 DEF StartRead, LockRead, WriteRead, status, sendLocals
  <2>2. \A r \in Senders : pc'[r] = pc[r]
    BY <1>1, <1>10 DEF StartRead, LockRead, WriteRead, EndRead, Goto, TypeOK
  <2>3. QED
    BY <2>1, <2>2, <1>4
<1>11. CASE Others
  <2>1. ASSUME NEW c \in Conversations, CloseConversation(c)
        PROVE  Quiet
    BY <2>1, <1>1, <1>2
    DEF CloseConversation, Quiet, HoldsConversation, HeldIsOpen, sendLocals
  <2>2. ASSUME NEW r \in Senders, Finish(r, "failed"),
               UNCHANGED <<messages, lastId, active, nextId>>
        PROVE  Quiet
    BY <2>2, <1>2, FinishIsQuiet
  <2>3. ASSUME NEW q \in Readers, EndRead(q),
               UNCHANGED <<messages, lastId, active, nextId, sendLocals>>
        PROVE  Quiet
    <3>1. \A r \in Senders : pc'[r] = pc[r]
      BY <1>1, <2>3 DEF EndRead, Goto, TypeOK
    <3>2. QED
      BY <3>1, <2>3, <1>4 DEF sendLocals
  <2>4. CASE UNCHANGED <<messages, lastId, active, nextId, pc, input, newId>>
    BY <2>4, <1>4
  <2>5. \/ \E c \in Conversations : CloseConversation(c)
        \/ \E r \in Senders :
             /\ Finish(r, "failed")
             /\ UNCHANGED <<messages, lastId, active, nextId>>
        \/ \E q \in Readers :
             /\ EndRead(q)
             /\ UNCHANGED <<messages, lastId, active, nextId, sendLocals>>
        \/ UNCHANGED <<messages, lastId, active, nextId, pc, input, newId>>
    BY <1>11
    DEF Others, MarkDelivered, DeleteMessage, LockMatch, Block, Unblock, Fail,
        status, sendLocals
  <2>6. QED
    BY <2>1, <2>2, <2>3, <2>4, <2>5
<1>12. CASE UNCHANGED vars
  BY <1>12, <1>4 DEF vars, status, sendLocals
<1>13. QED
  BY <1>5, <1>6, <1>7, <1>8, <1>9, <1>10, <1>11, <1>12, NextCases DEF Send

\* A granted lock has no other holder, and its conversation is open.
LEMMA LockKeepsStore ==
  ASSUME StoreInv, TypeOK', NEW r \in Senders, Lock(r), input[r].conv \in active
  PROVE  StoreInv'
<1>1. /\ TypeOK /\ HasId /\ ConversationFree(r)
      /\ pc' = [pc EXCEPT ![r] = "recheck"]
      /\ UNCHANGED <<messages, nextId, active, lastId, input, newId>>
  BY DEF StoreInv, TypeInv, Lock, Goto, sendLocals, status
<1>2. /\ \A q \in Senders \ {r} : pc'[q] = pc[q]
      /\ pc'[r] = "recheck"
  BY <1>1 DEF TypeOK
<1>3. HasId' /\ InsertedIsNew' /\ InsertsDiffer'
  BY <1>1, <1>2 DEF StoreInv, HasId, InsertedIsNew, InsertsDiffer, Collides
<1>4. OneHolder' /\ HeldIsOpen'
  BY <1>1, <1>2
  DEF StoreInv, OneHolder, HeldIsOpen, HoldsConversation, ConversationFree
<1>5. MessagesDiffer' /\ LastMessageIsNewest'
  BY <1>1 DEF StoreInv, MessagesDiffer, LastMessageIsNewest, Collides
<1>6. QED
  BY <1>3, <1>4, <1>5 DEF StoreInv, TypeInv

\* An inserted row takes the largest id so far, and no other row collides.
LEMMA InsertKeepsStore ==
  ASSUME StoreInv, TypeOK', NEW r \in Senders, Insert(r), pc'[r] = "commit"
  PROVE  StoreInv'
<1>1. TypeOK /\ HasId /\ MessagesDiffer /\ nextId \in Nat
  BY DEF StoreInv, TypeInv, TypeOK
<1>2. /\ nextId \in Ids /\ nextId' = nextId + 1
      /\ ~ \E m \in messages : Collides(m, input[r])
      /\ newId' = [newId EXCEPT ![r] = nextId]
      /\ pc[r] = "insert" /\ pc' = [pc EXCEPT ![r] = "commit"]
      /\ UNCHANGED <<messages, active, lastId, input>>
  BY <1>1 DEF Insert, Finish, Goto, TypeOK, status
<1>3. /\ \A q \in Senders \ {r} : pc'[q] = pc[q] /\ newId'[q] = newId[q]
      /\ newId'[r] = nextId
  BY <1>1, <1>2 DEF TypeOK
<1>4. HasId'
  BY <1>1, <1>2, <1>3 DEF HasId
<1>5. OneHolder' /\ HeldIsOpen'
  BY <1>2, <1>3 DEF StoreInv, OneHolder, HeldIsOpen, HoldsConversation
<1>6. \A m \in messages : m.id \in Nat /\ m.id < nextId
  BY <1>1 DEF MessagesDiffer, TypeOK, Messages, Ids
<1>7. \A q \in Senders : newId[q] \in Nat
  BY <1>1 DEF TypeOK, Ids
<1>8. InsertedIsNew'
  BY <1>1, <1>2, <1>3, <1>6, <1>7 DEF StoreInv, InsertedIsNew, Collides
<1>9. InsertsDiffer'
  <2>1. \A q \in Senders \ {r} : pc[q] = "commit" =>
          /\ newId[q] # nextId
          /\ ~Collides(input[q], input[r]) /\ ~Collides(input[r], input[q])
    BY <1>1, <1>7 DEF StoreInv, InsertedIsNew, Insert, Collides
  <2>2. QED
    BY <2>1, <1>2, <1>3 DEF StoreInv, InsertsDiffer, Collides
<1>10. MessagesDiffer' /\ LastMessageIsNewest'
  BY <1>1, <1>2, <1>6
  DEF StoreInv, MessagesDiffer, LastMessageIsNewest, Collides
<1>11. QED
  BY <1>4, <1>5, <1>8, <1>9, <1>10 DEF StoreInv, TypeInv

NewMessage(r) ==
  [id |-> newId[r], conv |-> input[r].conv, sender |-> input[r].sender,
   client |-> input[r].client, text |-> input[r].text]

\* A commit adds a message at the end of an open conversation.
LEMMA CommitAppends ==
  ASSUME StoreInv, NEW r \in Senders, Commit(r)
  PROVE  /\ messages' = messages \union {NewMessage(r)}
         /\ lastId' = [lastId EXCEPT ![input[r].conv] = newId[r]]
         /\ input[r] \in Inputs /\ input[r].conv \in Conversations
         /\ input[r].conv \in active
         /\ newId[r] \in Ids /\ newId[r] \in Nat /\ newId[r] < nextId
         /\ \A m \in messages :
              /\ m.id # newId[r]
              /\ m.conv = input[r].conv => m.id < newId[r]
              /\ ~Collides(m, input[r])
<1>1. input[r] \in Inputs /\ newId[r] \in Ids
  BY DEF StoreInv, TypeInv, TypeOK, HasId, Commit
<1>2. input[r].conv \in Conversations /\ input[r].conv \in active
  BY <1>1, SendsAssumption
  DEF StoreInv, HeldIsOpen, HoldsConversation, Commit, Body
<1>3. QED
  BY <1>1, <1>2 DEF StoreInv, InsertedIsNew, Commit, NewMessage, Ids

LEMMA CommitKeepsStore ==
  ASSUME StoreInv, TypeOK', NEW r \in Senders, Commit(r)
  PROVE  StoreInv'
<1> DEFINE new == NewMessage(r)
           c == input[r].conv
<1>1. TypeOK /\ HasId
  BY DEF StoreInv, TypeInv
<1>2. /\ messages' = messages \union {new}
      /\ lastId' = [lastId EXCEPT ![c] = newId[r]]
      /\ c \in Conversations /\ newId[r] \in Nat /\ newId[r] < nextId
      /\ \A m \in messages :
           /\ m.id # newId[r]
           /\ m.conv = c => m.id < newId[r]
           /\ ~Collides(m, input[r])
  BY CommitAppends
<1>3. /\ pc[r] = "commit" /\ pc'[r] = "emit"
      /\ \A q \in Senders \ {r} : pc'[q] = pc[q]
      /\ UNCHANGED <<nextId, active, input, newId>>
  BY <1>1 DEF Commit, Goto, sendLocals, status, TypeOK
<1>4. /\ new.id = newId[r] /\ new.conv = c
      /\ \A b : Collides(new, b) <=> Collides(input[r], b)
      /\ \A m : Collides(m, new) <=> Collides(m, input[r])
  BY DEF NewMessage, Collides
<1>5. \A m \in messages : m.id \in Nat
  BY <1>1 DEF TypeOK, Messages, Ids
<1> HIDE DEF new, c
<1>6. HasId'
  BY <1>1, <1>3 DEF HasId
<1>7. OneHolder' /\ HeldIsOpen' /\ InsertsDiffer'
  BY <1>3
  DEF StoreInv, OneHolder, HeldIsOpen, InsertsDiffer, HoldsConversation, Collides
<1>8. InsertedIsNew'
  <2>1. ASSUME NEW q \in Senders, pc'[q] = "commit"
        PROVE  /\ pc[q] = "commit" /\ newId[r] # newId[q]
               /\ input[q].conv # c /\ ~Collides(input[r], input[q])
    <3>1. q # r /\ pc[q] = "commit"
      BY <1>3, <2>1
    <3>2. QED
      BY <3>1, <1>3
      DEF StoreInv, InsertsDiffer, OneHolder, HoldsConversation, c
  <2>2. ASSUME NEW q \in Senders, pc'[q] = "commit"
        PROVE  /\ newId[q] < nextId
               /\ \A m \in messages \union {new} :
                    /\ m.id # newId[q]
                    /\ m.conv = input[q].conv => m.id < newId[q]
                    /\ ~Collides(m, input[q])
    BY <2>1, <2>2, <1>4 DEF StoreInv, InsertedIsNew
  <2>3. QED
    BY <2>2, <1>2, <1>3 DEF InsertedIsNew, Collides
<1>9. MessagesDiffer'
  <2>1. \A m \in messages : ~Collides(new, m) /\ ~Collides(m, new)
    BY <1>2, <1>4 DEF Collides
  <2>2. QED
    BY <2>1, <1>2, <1>3, <1>4 DEF StoreInv, MessagesDiffer, Collides
<1>10. LastMessageIsNewest'
  <2>1. ASSUME NEW d \in Conversations
        PROVE  LET ids == {m.id : m \in {x \in messages' : x.conv = d}}
               IN  /\ lastId'[d] \in ids \union {0}
                   /\ \A i \in ids : i <= lastId'[d]
    <3>1. CASE d = c
      <4>1. lastId'[d] = newId[r]
        BY <3>1, <1>1, <1>2 DEF TypeOK
      <4>2. new \in messages' /\ new.conv = d
        BY <3>1, <1>2, <1>4
      <4>3. \A m \in messages' : m.conv = d => m.id <= newId[r]
        BY <3>1, <1>2, <1>4, <1>5
      <4>4. QED
        BY <4>1, <4>2, <4>3, <1>4
    <3>2. CASE d # c
      <4>1. lastId'[d] = lastId[d]
        BY <3>2, <1>1, <1>2 DEF TypeOK
      <4>2. \A m : (m \in messages' /\ m.conv = d)
                     <=> (m \in messages /\ m.conv = d)
        BY <3>2, <1>2, <1>4
      <4>3. QED
        BY <4>1, <4>2 DEF StoreInv, LastMessageIsNewest
    <3>3. QED
      BY <3>1, <3>2
  <2>2. QED
    BY <2>1 DEF LastMessageIsNewest
<1>11. QED
  BY <1>6, <1>7, <1>8, <1>9, <1>10 DEF StoreInv, TypeInv

LEMMA StoreInvKept == StoreInv /\ [Next]_vars => StoreInv'
<1>1. StoreInv /\ [Next]_vars => TypeOK'
  BY TypeStep DEF StoreInv
<1>2. QED
  BY <1>1, MostStepsAreQuiet, QuietKeepsStore, LockKeepsStore,
     InsertKeepsStore, CommitKeepsStore

LEMMA StoreInvAlways == Spec => []StoreInv
  BY StoreInvInit, StoreInvKept, PTL DEF Spec

\* Rows and the locals of the handlers have their types.
THEOREM TypeCorrect == Spec => []TypeOK
<1>1. StoreInv => TypeOK
  BY DEF StoreInv, TypeInv
<1>2. QED
  BY <1>1, StoreInvAlways, PTL

\* The chat list shows the newest message, whichever send commits first.
THEOREM LastMessageIsAlwaysNewest == Spec => []LastMessageIsNewest
<1>1. StoreInv => LastMessageIsNewest
  BY DEF StoreInv
<1>2. QED
  BY <1>1, StoreInvAlways, PTL

LEMMA OnlyCommitStores ==
  ASSUME StoreInv, [Next]_vars
  PROVE  \/ messages' = messages
         \/ \E r \in Senders : Commit(r)
  BY MostStepsAreQuiet DEF Quiet, Lock, Insert

\* Once a conversation is closed no message joins it: a send that was under
\* way has ended before or is refused.
THEOREM ClosedStaysFinal == Spec => ClosedIsFinal
<1>1. ASSUME StoreInv, [Next]_vars, NEW m \in messages' \ messages
      PROVE  m.conv \in active
  <2>1. PICK r \in Senders : Commit(r)
    BY <1>1, OnlyCommitStores
  <2>2. m = NewMessage(r) /\ input[r].conv \in active
    BY <1>1, <2>1, CommitAppends
  <2>3. QED
    BY <2>2 DEF NewMessage
<1>2. StoreInv /\ [Next]_vars
        => [\A m \in messages' \ messages : m.conv \in active]_vars
  BY <1>1
<1>3. QED
  BY <1>2, StoreInvAlways, PTL DEF Spec, ClosedIsFinal

-----------------------------------------------------------------------------
(* What senders are told.                                                  *)

Stored(b) ==
  \E m \in messages : /\ m.sender = b.sender /\ m.client = b.client
                      /\ m.conv = b.conv /\ m.text = b.text

SentIsStored ==
  \A r \in Senders : outcome[r] = "sent" \/ pc[r] = "emit" => Stored(input[r])

LEMMA SentIsStoredKept ==
  ASSUME StoreInv, SentIsStored, [Next]_vars
  PROVE  SentIsStored'
<1>1. TypeOK /\ \A q \in Readers : q \notin Senders
  BY HandlersAssumption DEF StoreInv, TypeInv
<1>2. messages \subseteq messages'
  BY OnlyCommitStores, CommitAppends
<1>3. \A b : Stored(b) => \E m \in messages' :
         /\ m.sender = b.sender /\ m.client = b.client
         /\ m.conv = b.conv /\ m.text = b.text
  BY <1>2 DEF Stored
<1>4. ASSUME NEW r \in Senders,
             \A q \in Senders \ {r} :
               UNCHANGED <<pc[q], outcome[q], input[q]>>,
             outcome'[r] = "sent" \/ pc'[r] = "emit" =>
               input'[r] = input[r] /\ Stored(input[r])
      PROVE  SentIsStored'
  BY <1>3, <1>4 DEF SentIsStored, Stored
<1>5. ASSUME UNCHANGED <<input, outcome>>, \A r \in Senders : pc'[r] = pc[r]
      PROVE  SentIsStored'
  BY <1>3, <1>5 DEF SentIsStored, Stored
<1>6. ASSUME NEW r \in Senders, Commit(r)
      PROVE  SentIsStored'
  <2>1. /\ \A q \in Senders \ {r} : pc'[q] = pc[q]
        /\ UNCHANGED <<input, outcome>>
    BY <1>1, <1>6 DEF Commit, Goto, sendLocals, TypeOK
  <2>2. NewMessage(r) \in messages'
    BY <1>6, CommitAppends
  <2>3. Stored(input[r])'
    BY <2>1, <2>2 DEF Stored, NewMessage
  <2>4. QED
    BY <1>3, <2>1, <2>3 DEF SentIsStored, Stored
<1>7. ASSUME NEW r \in Senders, Submit(r) \/ Access(r) \/ Lock(r) \/ Insert(r)
      PROVE  SentIsStored'
  <2>1. \A q \in Senders \ {r} : UNCHANGED <<pc[q], outcome[q], input[q]>>
    BY <1>1, <1>7
    DEF Submit, Access, Lock, Insert, Finish, Goto, TypeOK, sendLocals
  <2>2. pc'[r] # "emit" /\ (outcome'[r] = "sent"
           => outcome[r] = "sent" /\ input'[r] = input[r])
    BY <1>1, <1>7
    DEF Submit, Access, Lock, Insert, Finish, Goto, TypeOK, sendLocals
  <2>3. QED
    BY <2>1, <2>2, <1>4 DEF SentIsStored
<1>8. ASSUME NEW r \in Senders, Lookup(r) \/ Recheck(r)
      PROVE  SentIsStored'
  <2>1. \A q \in Senders \ {r} : UNCHANGED <<pc[q], outcome[q], input[q]>>
    BY <1>1, <1>8 DEF Lookup, Recheck, Finish, Goto, TypeOK, sendLocals
  <2>2. \A m \in SameClientId(input[r]) :
          SameMessage(m, input[r]) => Stored(input[r])
    BY DEF SameClientId, SameMessage, Stored
  <2>3. CASE \E m \in SameClientId(input[r]) :
               Finish(r, IF SameMessage(m, input[r]) THEN "sent" ELSE "conflict")
    <3>1. PICK m \in SameClientId(input[r]) :
            Finish(r, IF SameMessage(m, input[r]) THEN "sent" ELSE "conflict")
      BY <2>3
    <3>2. /\ pc'[r] = "done"
          /\ outcome'[r] = IF SameMessage(m, input[r]) THEN "sent" ELSE "conflict"
          /\ input'[r] = input[r]
      BY <1>1, <3>1 DEF Finish, Goto, TypeOK
    <3>3. QED
      BY <2>1, <2>2, <3>2, <1>4
  <2>4. CASE UNCHANGED sendLocals
             /\ (Goto(r, "access") \/ Goto(r, "insert"))
    <3>1. /\ pc'[r] # "emit" /\ UNCHANGED <<outcome, input>>
      BY <1>1, <2>4 DEF Goto, sendLocals, TypeOK
    <3>2. QED
      BY <2>1, <3>1, <1>4 DEF SentIsStored
  <2>5. QED
    BY <2>3, <2>4, <1>8 DEF Lookup, Recheck
<1>9. ASSUME NEW r \in Senders, Emit(r)
      PROVE  SentIsStored'
  <2>1. /\ \A q \in Senders \ {r} : UNCHANGED <<pc[q], outcome[q], input[q]>>
        /\ input'[r] = input[r] /\ pc[r] = "emit"
    BY <1>1, <1>9 DEF Emit, Finish, Goto, TypeOK
  <2>2. QED
    BY <2>1, <1>4 DEF SentIsStored
<1>10. ASSUME NEW r \in Senders, Finish(r, "failed")
       PROVE  SentIsStored'
  <2>1. /\ \A q \in Senders \ {r} : UNCHANGED <<pc[q], outcome[q], input[q]>>
        /\ pc'[r] = "done" /\ outcome'[r] = "failed"
    BY <1>1, <1>10 DEF Finish, Goto, TypeOK
  <2>2. QED
    BY <2>1, <1>4
<1>11. ASSUME NEW q \in Readers,
              StartRead(q) \/ LockRead(q) \/ WriteRead(q)
                \/ (EndRead(q) /\ UNCHANGED sendLocals)
       PROVE  SentIsStored'
  BY <1>1, <1>5, <1>11
  DEF StartRead, LockRead, WriteRead, EndRead, Goto, TypeOK, sendLocals
<1>12. \/ UNCHANGED <<pc, input, outcome>>
       \/ \E r \in Senders :
            \/ Submit(r) \/ Lookup(r) \/ Access(r) \/ Lock(r) \/ Recheck(r)
            \/ Insert(r) \/ Commit(r) \/ Emit(r) \/ Finish(r, "failed")
       \/ \E q \in Readers :
            \/ StartRead(q) \/ LockRead(q) \/ WriteRead(q)
            \/ EndRead(q) /\ UNCHANGED sendLocals
  BY NextCases
  DEF Send, DeadlockDetected, Others, MarkDelivered, DeleteMessage, LockMatch,
      CloseConversation, Block, Unblock, Fail, vars, sendLocals
<1>13. QED
  BY <1>5, <1>6, <1>7, <1>8, <1>9, <1>10, <1>11, <1>12

\* Who was told that a message is sent finds one stored under his client id,
\* where he sent it and as he wrote it.
THEOREM SentIsAlwaysOnce == Spec => []SentOnce
<1>1. Init => SentIsStored
  BY DEF Init, SentIsStored
<1>2. StoreInv /\ SentIsStored /\ [Next]_vars => SentIsStored'
  BY SentIsStoredKept
<1>3. StoreInv /\ SentIsStored => SentOnce
  BY DEF StoreInv, MessagesDiffer, Collides, SentIsStored, Stored, SentOnce,
         SameClientId
<1>4. QED
  BY <1>1, <1>2, <1>3, StoreInvAlways, PTL DEF Spec

-----------------------------------------------------------------------------
(* Blocks.                                                                 *)

\* open stays right: a request that has not been open is blocked still, and a
\* sender that got past its access check has been open.
OpenIsRight ==
  /\ \A r \in Senders : open[r] \/ Blocked(input[r].conv)
  /\ \A r \in Senders :
       pc[r] \in {"lock", "recheck", "insert", "commit", "emit"} => open[r]

LEMMA OpenIsRightKept ==
  ASSUME TypeOK, OpenIsRight, [Next]_vars
  PROVE  OpenIsRight'
<1>1. \A q \in Readers : q \notin Senders
  BY HandlersAssumption
<1>2. ASSUME UNCHANGED <<input, open>>, \A c : Blocked(c) => Blocked(c)',
             \A r \in Senders :
               pc'[r] \in {"lock", "recheck", "insert", "commit", "emit"} =>
                 \/ pc[r] \in {"lock", "recheck", "insert", "commit", "emit"}
                 \/ ~Blocked(input[r].conv)
      PROVE  OpenIsRight'
  BY <1>2 DEF OpenIsRight
<1>3. UNCHANGED blocks => \A c : Blocked(c)' <=> Blocked(c)
  BY DEF Blocked
<1>4. ASSUME NEW r \in Senders, NEW o, Finish(r, o), UNCHANGED blocks
      PROVE  OpenIsRight'
  <2>1. /\ \A q \in Senders \ {r} : UNCHANGED <<pc[q], input[q], open[q]>>
        /\ pc'[r] = "done" /\ open'[r] = TRUE
    BY <1>4 DEF TypeOK, Finish, Goto
  <2>2. QED
    BY <2>1, <1>3, <1>4 DEF OpenIsRight
<1>5. ASSUME NEW r \in Senders, Submit(r)
      PROVE  OpenIsRight'
  <2>1. /\ \A q \in Senders \ {r} : UNCHANGED <<pc[q], input[q], open[q]>>
        /\ pc'[r] = "lookup" /\ UNCHANGED blocks
    BY <1>5 DEF TypeOK, Submit, Goto
  <2>2. open'[r] \/ Blocked(input'[r].conv)
    BY <1>5 DEF TypeOK, Submit
  <2>3. QED
    BY <2>1, <2>2, <1>3 DEF OpenIsRight
<1>6. ASSUME NEW r \in Senders, NEW step, Goto(r, step),
             UNCHANGED <<sendLocals, blocks>> \/ UNCHANGED <<input, open, blocks>>,
             pc[r] \in {"lock", "recheck", "insert", "commit"}
               \/ step = "access" \/ ~Blocked(input[r].conv)
      PROVE  OpenIsRight'
  <2>1. \A q \in Senders : q # r => pc'[q] = pc[q]
    BY <1>6 DEF TypeOK, Goto
  <2>2. pc'[r] = step
    BY <1>6 DEF TypeOK, Goto
  <2>3. QED
    BY <2>1, <2>2, <1>2, <1>3, <1>6 DEF sendLocals
<1>7. ASSUME NEW r \in Senders, Send(r)
      PROVE  OpenIsRight'
  <2>1. blocks' = blocks
    BY <1>7 DEF Send, Lookup, Access, Lock, Recheck, Insert, Commit, Emit,
                DeadlockDetected
  <2>2. CASE \E o : Finish(r, o)
    BY <2>1, <2>2, <1>4
  <2>3. CASE UNCHANGED <<pc, sendLocals>>
    BY <2>1, <2>3, <1>2, <1>3 DEF sendLocals
  <2>4. CASE Lookup(r) /\ Goto(r, "access") /\ UNCHANGED sendLocals
    BY <2>1, <2>4, <1>6
  <2>5. CASE Access(r) /\ Accessible(input[r].conv) /\ Goto(r, "lock")
             /\ UNCHANGED sendLocals
    BY <2>1, <2>5, <1>6 DEF Accessible
  <2>6. CASE \E step : /\ pc[r] \in {"lock", "recheck", "insert", "commit"}
                       /\ Goto(r, step) /\ UNCHANGED <<input, open>>
    BY <2>1, <2>6, <1>6
  <2>7. QED
    BY <2>2, <2>3, <2>4, <2>5, <2>6, <1>7
    DEF Send, Lookup, Access, Lock, Recheck, Insert, Commit, Emit,
        DeadlockDetected, sendLocals
<1>8. ASSUME NEW q \in Readers,
             StartRead(q) \/ LockRead(q) \/ WriteRead(q)
               \/ (EndRead(q) /\ UNCHANGED <<sendLocals, blocks>>)
      PROVE  OpenIsRight'
  <2>1. UNCHANGED <<input, open, blocks>> /\ \A r \in Senders : pc'[r] = pc[r]
    BY <1>1, <1>8
    DEF StartRead, LockRead, WriteRead, EndRead, Goto, TypeOK, sendLocals
  <2>2. QED
    BY <2>1, <1>2, <1>3
<1>9. ASSUME NEW e \in Blockable, Block(e)
      PROVE  OpenIsRight'
  <2>1. UNCHANGED <<pc, input, open>> /\ \A c : Blocked(c) => Blocked(c)'
    BY <1>9 DEF Block, Blocked, sendLocals
  <2>2. QED
    BY <2>1, <1>2
<1>10. ASSUME NEW e \in Blockable, Unblock(e)
       PROVE  OpenIsRight'
  <2>1. UNCHANGED <<pc, input>>
    BY <1>10 DEF Unblock
  <2>2. ASSUME NEW r \in Senders
        PROVE  open'[r] = (open[r] \/ (Blocked(input[r].conv)
                                        /\ ~Blocked(input[r].conv)'))
    BY <1>10 DEF Unblock
  <2>3. QED
    BY <2>1, <2>2 DEF OpenIsRight
<1>11. CASE UNCHANGED <<pc, input, open, blocks>>
  BY <1>2, <1>3, <1>11
<1>12. \/ UNCHANGED <<pc, input, open, blocks>>
       \/ \E r \in Senders :
            Submit(r) \/ Send(r) \/ (Finish(r, "failed") /\ UNCHANGED blocks)
       \/ \E q \in Readers :
            \/ StartRead(q) \/ LockRead(q) \/ WriteRead(q)
            \/ EndRead(q) /\ UNCHANGED <<sendLocals, blocks>>
       \/ \E e \in Blockable : Block(e) \/ Unblock(e)
  BY NextCases
  DEF Others, MarkDelivered, DeleteMessage, LockMatch, CloseConversation, Fail,
      vars, sendLocals
<1>13. QED
  BY <1>4, <1>5, <1>7, <1>8, <1>9, <1>10, <1>11, <1>12

\* No message is stored of a sender who was blocked from before he sent it
\* until it was stored.
THEOREM StandingBlocksHold == Spec => []StandingBlockHolds
<1>1. Init => OpenIsRight
  BY DEF Init, OpenIsRight
<1>2. TypeOK /\ OpenIsRight /\ [Next]_vars => OpenIsRight'
  BY OpenIsRightKept
<1>3. OpenIsRight => StandingBlockHolds
  BY DEF OpenIsRight, StandingBlockHolds, HoldsConversation
<1>4. QED
  BY <1>1, <1>2, <1>3, TypeCorrect, PTL DEF Spec

-----------------------------------------------------------------------------
(* The readers and their cursors.                                          *)

TargetIsStored ==
  \A q \in Readers : pc[q] \in {"lockRead", "write"} =>
    \E m \in messages : m.id = target[q].id /\ m.conv = target[q].at[1]

CursorIsStored ==
  \A x \in Reading :
    \/ lastRead[x] = 0
    \/ \E m \in messages : m.id = lastRead[x] /\ m.conv = x[1]

OneReader ==
  \A p, q \in Readers :
    HoldsCursor(p) /\ HoldsCursor(q) /\ target[p].at = target[q].at => p = q

CurrentIsCursor ==
  \A q \in Readers : HoldsCursor(q) => current[q] = lastRead[target[q].at]

ReadInv ==
  /\ StoreInv
  /\ TargetIsStored
  /\ CursorIsStored
  /\ OneReader
  /\ CurrentIsCursor
  /\ NothingUnreadBehindCursor

LEMMA ReadInvInit == Init => ReadInv
<1>1. Init => /\ TargetIsStored /\ CursorIsStored /\ OneReader
              /\ CurrentIsCursor /\ NothingUnreadBehindCursor
  BY DEF Init, TargetIsStored, CursorIsStored, OneReader, CurrentIsCursor,
         NothingUnreadBehindCursor, HoldsCursor
<1>2. QED
  BY <1>1, StoreInvInit DEF ReadInv

\* A step of no reader, or the end of one.
ReadersIdle ==
  /\ UNCHANGED <<lastRead, seen>>
  /\ delivered \subseteq delivered'
  /\ \A q \in Readers : pc'[q] # "done" =>
       UNCHANGED <<pc[q], target[q], current[q]>>

LEMMA OnlyReadersRead ==
  ASSUME TypeOK, [Next]_vars
  PROVE  \/ ReadersIdle
         \/ \E q \in Readers : StartRead(q) \/ LockRead(q) \/ WriteRead(q)
<1>1. \A r \in Senders : r \notin Readers
  BY HandlersAssumption
<1>2. ASSUME UNCHANGED <<lastRead, seen, readLocals>>,
             delivered \subseteq delivered', \A q \in Readers : pc'[q] = pc[q]
      PROVE  ReadersIdle
  BY <1>2 DEF ReadersIdle, readLocals
<1>3. ASSUME NEW r \in Senders,
             Submit(r) \/ Send(r)
               \/ (Finish(r, "failed") /\ UNCHANGED <<readState, readLocals>>)
      PROVE  ReadersIdle
  <2>1. UNCHANGED <<readState, readLocals>>
    BY <1>3 DEF Submit, Send, Lookup, Access, Lock, Recheck, Insert, Commit,
                Emit, DeadlockDetected
  <2>2. \E step : pc' = pc \/ pc' = [pc EXCEPT ![r] = step]
    BY <1>3 DEF Submit, Send, Lookup, Access, Lock, Recheck, Insert, Commit,
                Emit, DeadlockDetected, Finish, Goto
  <2>3. \A q \in Readers : pc'[q] = pc[q]
    BY <1>1, <2>2 DEF TypeOK
  <2>4. QED
    BY <2>1, <2>3, <1>2 DEF readState
<1>4. ASSUME NEW q \in Readers, EndRead(q), UNCHANGED readState
      PROVE  ReadersIdle
  BY <1>4 DEF EndRead, Goto, TypeOK, ReadersIdle, readState
<1>5. CASE /\ UNCHANGED <<lastRead, seen, readLocals, pc>>
           /\ delivered \subseteq delivered'
  BY <1>2, <1>5
<1>6. \/ UNCHANGED <<lastRead, seen, readLocals, pc>>
           /\ delivered \subseteq delivered'
      \/ \E r \in Senders :
           Submit(r) \/ Send(r)
             \/ (Finish(r, "failed") /\ UNCHANGED <<readState, readLocals>>)
      \/ \E q \in Readers :
           \/ StartRead(q) \/ LockRead(q) \/ WriteRead(q)
           \/ EndRead(q) /\ UNCHANGED readState
  BY NextCases
  DEF Others, MarkDelivered, DeleteMessage, LockMatch, CloseConversation,
      Block, Unblock, Fail, vars, readState, readLocals
<1>7. QED
  BY <1>3, <1>4, <1>5, <1>6

\* While no reader runs, messages can be added only beyond every cursor.
LEMMA IdleKeepsCursors ==
  ASSUME ReadInv, StoreInv', ReadersIdle, [Next]_vars
  PROVE  ReadInv'
<1>1. TypeOK /\ messages \subseteq messages'
  BY OnlyCommitStores, CommitAppends DEF ReadInv, StoreInv, TypeInv
<1>2. \A q \in Readers :
        HoldsCursor(q)' =>
          HoldsCursor(q) /\ UNCHANGED <<target[q], current[q]>>
  BY DEF ReadersIdle, HoldsCursor
<1>3. TargetIsStored' /\ CursorIsStored'
  BY <1>1 DEF ReadInv, TargetIsStored, CursorIsStored, ReadersIdle
<1>4. OneReader' /\ CurrentIsCursor'
  BY <1>2 DEF ReadInv, OneReader, CurrentIsCursor, ReadersIdle
<1>5. NothingUnreadBehindCursor'
  <2>1. ASSUME NEW m \in messages' \ messages, NEW x \in Reading, m.conv = x[1]
        PROVE  ~(m.id <= lastRead[x])
    <3>1. PICK r \in Senders : Commit(r)
      BY <2>1, OnlyCommitStores DEF ReadInv
    <3>2. /\ m.id = newId[r] /\ m.conv = input[r].conv
          /\ newId[r] \in Ids
          /\ \A n \in messages : n.conv = input[r].conv => n.id < newId[r]
      BY <2>1, <3>1, CommitAppends DEF ReadInv, NewMessage
    <3>3. lastRead[x] < newId[r]
      <4>1. CASE lastRead[x] = 0
        BY <3>2, <4>1, ChatBoundsAssumption DEF Ids
      <4>2. CASE \E n \in messages : n.id = lastRead[x] /\ n.conv = x[1]
        BY <2>1, <3>2, <4>2
      <4>3. QED
        BY <4>1, <4>2 DEF ReadInv, CursorIsStored
    <3>4. lastRead[x] \in Nat /\ newId[r] \in Nat
      BY <1>1, <3>2 DEF TypeOK, Ids
    <3>5. QED
      BY <3>2, <3>3, <3>4
  <2>2. QED
    BY <2>1 DEF ReadInv, NothingUnreadBehindCursor, ReadersIdle
<1>6. QED
  BY <1>3, <1>4, <1>5 DEF ReadInv

\* The write of a reader, with what its lock tells of the cursor.
LEMMA WriteReadMoves ==
  ASSUME ReadInv, NEW q \in Readers, WriteRead(q)
  PROVE  LET x == target[q].at
             n == target[q].id
             upTo == {m.id : m \in {y \in messages : /\ y.conv = x[1]
                                                     /\ y.sender # x[2]
                                                     /\ y.id <= n}}
         IN  /\ x \in Reading /\ n \in Nat /\ lastRead[x] \in Nat
             /\ \E m \in messages : m.id = n /\ m.conv = x[1]
             /\ lastRead' = [lastRead EXCEPT ![x] = IF n > @ THEN n ELSE @]
             /\ seen' = seen \union upTo
             /\ delivered' = delivered \union upTo
             /\ UNCHANGED <<messages, active, deleted>>
<1> DEFINE x == target[q].at
           n == target[q].id
<1>1. TypeOK
  BY DEF ReadInv, StoreInv, TypeInv
<1>2. x \in Reading /\ n \in Nat /\ lastRead[x] \in Nat
  BY <1>1 DEF TypeOK, Ids
<1>3. pc[q] = "write" /\ UNCHANGED <<messages, active, deleted>>
  BY DEF WriteRead, status
<1>4. current[q] = lastRead[x]
  BY <1>3 DEF ReadInv, CurrentIsCursor, HoldsCursor
<1>5. \E m \in messages : m.id = n /\ m.conv = x[1]
  BY <1>3 DEF ReadInv, TargetIsStored
<1>6. QED
  BY <1>2, <1>3, <1>4, <1>5 DEF WriteRead

LEMMA ReadKeepsCursors ==
  ASSUME ReadInv, StoreInv', NEW q \in Readers,
         StartRead(q) \/ LockRead(q) \/ WriteRead(q)
  PROVE  ReadInv'
<1>1. TypeOK
  BY DEF ReadInv, StoreInv, TypeInv
<1>2. CASE StartRead(q)
  <2>1. /\ \A p \in Readers \ {q} : UNCHANGED <<pc[p], target[p]>>
        /\ pc'[q] = "lockRead"
        /\ UNCHANGED <<messages, lastRead, seen, delivered, current>>
    BY <1>1, <1>2 DEF StartRead, Goto, TypeOK, readState
  <2>2. \E m \in messages : m.id = target'[q].id /\ m.conv = target'[q].at[1]
    BY <1>1, <1>2 DEF StartRead, TypeOK
  <2>3. TargetIsStored'
    BY <2>1, <2>2 DEF ReadInv, TargetIsStored
  <2>4. OneReader' /\ CurrentIsCursor'
    BY <2>1 DEF ReadInv, OneReader, CurrentIsCursor, HoldsCursor
  <2>5. CursorIsStored' /\ NothingUnreadBehindCursor'
    BY <2>1 DEF ReadInv, CursorIsStored, NothingUnreadBehindCursor
  <2>6. QED
    BY <2>3, <2>4, <2>5 DEF ReadInv
<1>3. CASE LockRead(q)
  <2>1. /\ \A p \in Readers \ {q} : UNCHANGED <<pc[p], current[p]>>
        /\ pc[q] = "lockRead" /\ pc'[q] = "write" /\ CursorFree(q)
        /\ current'[q] = lastRead[target[q].at]
        /\ UNCHANGED <<messages, lastRead, seen, delivered, target>>
    BY <1>1, <1>3 DEF LockRead, Goto, TypeOK, readState
  <2>2. TargetIsStored'
    BY <2>1 DEF ReadInv, TargetIsStored
  <2>3. OneReader' /\ CurrentIsCursor'
    BY <2>1 DEF ReadInv, OneReader, CurrentIsCursor, HoldsCursor, CursorFree
  <2>4. CursorIsStored' /\ NothingUnreadBehindCursor'
    BY <2>1 DEF ReadInv, CursorIsStored, NothingUnreadBehindCursor
  <2>5. QED
    BY <2>2, <2>3, <2>4 DEF ReadInv
<1>4. CASE WriteRead(q)
  <2> DEFINE x == target[q].at
             n == target[q].id
             upTo == {m.id : m \in {y \in messages : /\ y.conv = x[1]
                                                     /\ y.sender # x[2]
                                                     /\ y.id <= n}}
  <2>1. /\ x \in Reading /\ n \in Nat /\ lastRead[x] \in Nat
        /\ \E m \in messages : m.id = n /\ m.conv = x[1]
        /\ lastRead' = [lastRead EXCEPT ![x] = IF n > @ THEN n ELSE @]
        /\ seen' = seen \union upTo
        /\ delivered' = delivered \union upTo
        /\ UNCHANGED messages
    BY <1>4, WriteReadMoves
  <2>2. /\ \A p \in Readers \ {q} : UNCHANGED <<pc[p], target[p], current[p]>>
        /\ pc[q] = "write" /\ pc'[q] = "done"
    BY <1>1, <1>4 DEF WriteRead, EndRead, Goto, TypeOK
  <2>3. \A m \in messages :
          m.conv = x[1] /\ m.sender # x[2] /\ m.id <= n => m.id \in upTo
    OBVIOUS
  <2>4. lastRead'[x] \in {n, lastRead[x]}
        /\ \A y \in Reading \ {x} : lastRead'[y] = lastRead[y]
    BY <1>1, <2>1 DEF TypeOK
  <2> HIDE DEF n, upTo
  <2>5. TargetIsStored'
    BY <2>1, <2>2 DEF ReadInv, TargetIsStored
  <2>6. CursorIsStored'
    BY <2>1, <2>4 DEF ReadInv, CursorIsStored
  <2>7. OneReader'
    BY <2>2 DEF ReadInv, OneReader, HoldsCursor
  <2>8. CurrentIsCursor'
    <3>1. \A p \in Readers \ {q} : HoldsCursor(p) => target[p].at # x
      BY <2>2 DEF ReadInv, OneReader, HoldsCursor
    <3>2. \A p \in Readers : target[p].at \in Reading
      BY <1>1 DEF TypeOK
    <3>3. QED
      BY <2>2, <2>4, <3>1, <3>2 DEF ReadInv, CurrentIsCursor, HoldsCursor
  <2>9. NothingUnreadBehindCursor'
    BY <2>1, <2>3, <2>4 DEF ReadInv, NothingUnreadBehindCursor
  <2>10. QED
    BY <2>5, <2>6, <2>7, <2>8, <2>9 DEF ReadInv
<1>5. QED
  BY <1>2, <1>3, <1>4

LEMMA ReadInvKept == ReadInv /\ [Next]_vars => ReadInv'
<1>1. ReadInv => StoreInv /\ TypeOK
  BY DEF ReadInv, StoreInv, TypeInv
<1>2. QED
  BY <1>1, StoreInvKept, OnlyReadersRead, IdleKeepsCursors, ReadKeepsCursors

LEMMA ReadInvAlways == Spec => []ReadInv
  BY ReadInvInit, ReadInvKept, PTL DEF Spec

\* Nothing that a user has not seen is behind his cursor: no message turns up
\* where he, and the count of what he has not read, will not look again.
THEOREM NeverUnreadBehindCursor == Spec => []NothingUnreadBehindCursor
<1>1. ReadInv => NothingUnreadBehindCursor
  BY DEF ReadInv
<1>2. QED
  BY <1>1, ReadInvAlways, PTL

\* A cursor never moves back, whatever devices of one user race.
THEOREM CursorsOnlyAdvance == Spec => CursorAdvances
<1>1. ASSUME ReadInv, [Next]_vars, NEW x \in Reading
      PROVE  lastRead'[x] >= lastRead[x]
  <2>1. lastRead[x] \in Nat /\ TypeOK
    BY <1>1 DEF ReadInv, StoreInv, TypeInv, TypeOK, Ids
  <2>2. CASE lastRead' = lastRead
    BY <2>1, <2>2
  <2>3. ASSUME NEW q \in Readers, WriteRead(q)
        PROVE  lastRead'[x] >= lastRead[x]
    <3>1. PICK y \in Reading, n \in Nat :
            lastRead' = [lastRead EXCEPT ![y] = IF n > @ THEN n ELSE @]
      BY <1>1, <2>3, WriteReadMoves
    <3>2. QED
      BY <2>1, <3>1 DEF TypeOK
  <2>4. QED
    BY <1>1, <2>1, <2>2, <2>3, OnlyReadersRead
    DEF ReadersIdle, StartRead, LockRead, readState
<1>2. ReadInv /\ [Next]_vars
        => [\A x \in Reading : lastRead'[x] >= lastRead[x]]_vars
  BY <1>1
<1>3. QED
  BY <1>2, ReadInvAlways, PTL DEF Spec, CursorAdvances

-----------------------------------------------------------------------------
(* Refinement.                                                             *)

LEMMA CommitIsAppend ==
  ASSUME ReadInv, NEW r \in Senders, Commit(r)
  PROVE  Promise!CLNext
<1> DEFINE new == NewMessage(r)
<1>1. /\ messages' = messages \union {new}
      /\ input[r].conv \in active
      /\ \A m \in messages : /\ m.conv = input[r].conv => m.id < newId[r]
                             /\ ~Collides(m, input[r])
  BY CommitAppends DEF ReadInv
<1>2. UNCHANGED <<active, lastRead, seen, deleted>>
  BY DEF Commit, status, readState
<1>3. /\ new.id = newId[r] /\ new.conv = input[r].conv
      /\ new.sender = input[r].sender /\ new.client = input[r].client
  BY DEF NewMessage
<1> HIDE DEF new
<1>4. Promise!Append(new)
  BY <1>1, <1>2, <1>3 DEF Promise!Append, Collides
<1>5. QED
  BY <1>1, <1>4 DEF Promise!CLNext, Promise!Append

LEMMA WriteReadIsRead ==
  ASSUME ReadInv, NEW q \in Readers, WriteRead(q)
  PROVE  Promise!CLNext
<1> DEFINE x == target[q].at
<1>1. PICK m \in messages : m.id = target[q].id /\ m.conv = x[1]
  BY WriteReadMoves
<1>2. /\ x \in Reading
      /\ lastRead' = [lastRead EXCEPT ![x] = IF m.id > @ THEN m.id ELSE @]
      /\ seen' = seen \union
           {y.id : y \in {z \in messages : /\ z.conv = m.conv
                                           /\ z.sender # x[2]
                                           /\ z.id <= m.id}}
      /\ UNCHANGED <<messages, active, deleted>>
  BY <1>1, WriteReadMoves
<1> HIDE DEF x
<1>3. \E y \in Reading : Promise!Read(y, m)
  BY <1>1, <1>2 DEF Promise!Read
<1>4. QED
  BY <1>3 DEF Promise!CLNext, Promise!Read

LEMMA StepIsChatLogStep ==
  ASSUME ReadInv, [Next]_vars
  PROVE  [Promise!CLNext]_(Promise!clVars)
<1>1. CASE UNCHANGED <<messages, active, lastRead, seen, deleted>>
  BY <1>1 DEF Promise!clVars
<1>2. ASSUME NEW r \in Senders, Commit(r) PROVE Promise!CLNext
  BY <1>2, CommitIsAppend
<1>3. ASSUME NEW q \in Readers, WriteRead(q) PROVE Promise!CLNext
  BY <1>3, WriteReadIsRead
<1>4. ASSUME NEW c \in Conversations, CloseConversation(c)
      PROVE  Promise!CLNext
  <2>1. c \in active
    BY <1>4 DEF CloseConversation, ReadInv, StoreInv, TypeInv, TypeOK
  <2>2. Promise!Close(c)
    BY <1>4 DEF CloseConversation, Promise!Close, readState
  <2>3. QED
    BY <2>1, <2>2 DEF Promise!CLNext, Promise!Close
<1>5. ASSUME NEW m \in messages, DeleteMessage(m) PROVE Promise!CLNext
  <2>1. Promise!Delete(m)
    BY <1>5 DEF DeleteMessage, Promise!Delete, readState, status
  <2>2. QED
    BY <2>1 DEF Promise!CLNext, Promise!Delete
<1>6. \/ UNCHANGED <<messages, active, lastRead, seen, deleted>>
      \/ \E r \in Senders : Commit(r)
      \/ \E q \in Readers : WriteRead(q)
      \/ \E c \in Conversations : CloseConversation(c)
      \/ \E m \in messages : DeleteMessage(m)
  BY NextCases
  DEF Submit, Send, Lookup, Access, Lock, Recheck, Insert, Emit,
      DeadlockDetected, StartRead, LockRead, Others, MarkDelivered, LockMatch,
      Block, Unblock, Fail, vars, readState, status
<1>7. QED
  BY <1>1, <1>2, <1>3, <1>4, <1>5, <1>6

\* Chat implements ChatLog: a conversation is a log that grows at its end
\* while it is open and is read from its beginning.
THEOREM ChatImplementsChatLog == Spec => ImplementsChatLog
<1>1. Init => Promise!CLInit
  BY DEF Init, Promise!CLInit
<1>2. ReadInv /\ [Next]_vars => [Promise!CLNext]_(Promise!clVars)
  BY StepIsChatLogStep
<1>3. QED
  BY <1>1, <1>2, ReadInvAlways, PTL DEF Spec, ImplementsChatLog, Promise!CLSpec
=============================================================================
