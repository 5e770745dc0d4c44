--------------------------- MODULE MatchingProofs ---------------------------
(***************************************************************************)
(* Proofs about Matching, for any users, requests, bodies, plans and dates. *)
(***************************************************************************)
EXTENDS Matching, FiniteSetTheorems, TLAPS

-----------------------------------------------------------------------------
(* Type correctness.                                                       *)

\* Two different users make a pair, so every body is about a pair.
LEMMA BodyPair ==
  ASSUME NEW b \in Inputs
  PROVE  /\ b \in Body
         /\ b.actor # b.target
         /\ Pair(b) \in Pairs
<1>1. b \in Body /\ b.actor # b.target
  BY InputsAssumption
<1>2. Pair(b) # {b.actor} /\ \A u \in Users : Pair(b) # {u}
  BY <1>1 DEF Pair
<1>3. QED
  BY <1>1, <1>2 DEF Pair, Pairs, Body

\* The locals of the requests, as TypeOK types them.
LocalsType ==
  /\ pc \in [Requests -> Steps]
  /\ input \in [Requests -> Inputs]
  /\ date \in [Requests -> Days]
  /\ quota \in [Requests -> Nat]
  /\ seen \in [Requests -> Nat]
  /\ created \in [Requests -> BOOLEAN]
  /\ outcome \in [Requests -> Outcomes]
  /\ open \in [Requests -> BOOLEAN]

LEMMA FinishType ==
  ASSUME TypeOK, NEW r \in Requests, NEW o \in Outcomes, Finish(r, o)
  PROVE  LocalsType'
  BY DaysAssumption DEF TypeOK, LocalsType, Finish, Steps

LEMMA NewRowType ==
  ASSUME TypeOK, NEW r \in Requests
  PROVE  /\ NewRow(r) \in Rows
         /\ IsPositive(input[r].kind) => UsageKey(r) \in UsageKeys
<1>1. input[r] \in Body
  BY BodyPair DEF TypeOK
<1>2. QED
  BY <1>1 DEF TypeOK, NewRow, Rows, UsageKey, UsageKeys, Body, IsPositive

LEMMA AnswerType == \A p : Answer(p) \in Outcomes
  BY DEF Answer, Outcomes, Accepted

\* A replay ends the request.
LEMMA ReplayFinishes ==
  ASSUME NEW r \in Requests, Replay(r)
  PROVE  \E o \in Outcomes : Finish(r, o)
  BY AnswerType DEF Replay, Outcomes, Accepted

\* Only a positive action is charged.
ChargesPositive ==
  \A r \in Requests : pc[r] = "consume" => IsPositive(input[r].kind)

LEMMA TypeInit == Init => TypeOK
<1> SUFFICES ASSUME Init PROVE TypeOK
  OBVIOUS
<1>1. input \in [Requests -> Inputs]
  BY DEF Init
<1>2. 1 \in Days /\ InitialPlan \in Plans /\ 0 \in 0..MaxFaults
  BY DaysAssumption, PlansAssumption, FaultsAssumption
<1>3. QED
  BY <1>1, <1>2 DEF Init, TypeOK, Steps, Outcomes

\* The statements of one request.
LEMMA TypeServe ==
  ASSUME TypeOK, ChargesPositive, NEW r \in Requests, Serve(r)
  PROVE  TypeOK'
<1>1. input[r] \in Inputs /\ input[r] \in Body /\ Pair(input[r]) \in Pairs
  BY BodyPair DEF TypeOK
<1>2. LocalsType
  BY DEF TypeOK, LocalsType
<1>3. \A o \in Outcomes : Finish(r, o) => LocalsType'
  BY FinishType
<1>4. \A step \in Steps :
        Goto(r, step) /\ UNCHANGED <<locals, outcome, open>> => LocalsType'
  BY <1>2 DEF Goto, LocalsType, locals
<1>5. Replay(r) => LocalsType'
  BY <1>3, ReplayFinishes
<1>6. {"check", "lock", "recheck", "consume", "insert", "reciprocal", "commit",
       "notify"} \subseteq Steps
      /\ {"notAllowed", "limitReached", "failed", "matched"} \subseteq Outcomes
  BY DEF Steps, Outcomes, Accepted
<1>7. UNCHANGED <<dbVars, announced, faults>> /\ LocalsType' => TypeOK'
  BY DEF TypeOK, LocalsType, dbVars
<1>8. CASE Lookup(r)
  BY <1>8, <1>4, <1>5, <1>6, <1>7 DEF Lookup
<1>9. CASE Check(r)
  BY <1>9, <1>3, <1>4, <1>6, <1>7 DEF Check
<1>10. CASE LockPair(r)
  BY <1>10, <1>4, <1>6, <1>7 DEF LockPair
<1>11. CASE Recheck(r)
  <2>1. CASE Replay(r)
    BY <2>1, <1>11, <1>5, <1>7 DEF Recheck
  <2>2. CASE ~Replay(r)
    <3>1. today \in Days /\ plan[input[r].actor] \in Plans
      BY <1>1 DEF TypeOK, Body
    <3>2. IsPositive(input[r].kind)
            => Limit[plan[input[r].actor]][input[r].kind] \in Nat
      BY <3>1, PlansAssumption DEF IsPositive
    <3>3. /\ pc' \in [Requests -> Steps]
          /\ date' \in [Requests -> Days]
          /\ quota' \in [Requests -> Nat]
      BY <2>2, <1>11, <1>2, <1>6, <3>1, <3>2
      DEF Recheck, Replay, Goto, LocalsType
    <3>4. LocalsType'
      BY <2>2, <1>11, <1>2, <3>3 DEF Recheck, LocalsType
    <3>5. QED
      BY <3>4, <1>11, <1>7 DEF Recheck
  <2>3. QED
    BY <2>1, <2>2
<1>12. CASE Consume(r)
  <2>1. used[UsageKey(r)] \in Nat
    BY <1>12, NewRowType DEF TypeOK, ChargesPositive, Consume
  <2>2. CASE \E o \in Outcomes : Finish(r, o)
    BY <2>2, <1>12, <1>3, <1>7 DEF Consume
  <2>3. CASE /\ Goto(r, "insert")
             /\ seen' = [seen EXCEPT ![r] = used[UsageKey(r)]]
             /\ UNCHANGED <<input, date, quota, created, outcome, open>>
    <3>1. LocalsType'
      BY <2>1, <2>3, <1>2, <1>6 DEF Goto, LocalsType
    <3>2. QED
      BY <3>1, <1>12, <1>7 DEF Consume
  <2>4. QED
    BY <2>2, <2>3, <1>12, <1>6 DEF Consume
<1>13. CASE Insert(r)
  BY <1>13, <1>3, <1>4, <1>6, <1>7 DEF Insert
<1>14. CASE Reciprocal(r)
  <2>1. LocalsType'
    BY <1>14, <1>2, <1>6 DEF Reciprocal, Goto, LocalsType
  <2>2. QED
    BY <2>1, <1>14, <1>7 DEF Reciprocal
<1>15. CASE Commit(r)
  <2>1. LocalsType'
    BY <1>15, <1>3, <1>4, <1>6, AnswerType DEF Commit
  <2>2. actions' \subseteq Rows
    BY <1>15, NewRowType DEF Commit, TypeOK
  <2>3. used' \in [UsageKeys -> Nat]
    <3>1. seen[r] + 1 \in Nat
      BY DEF TypeOK
    <3>2. QED
      BY <1>15, <3>1 DEF Commit, TypeOK
  <2>4. /\ matches' \in [Pairs -> {"NONE", "ACTIVE", "UNMATCHED"}]
        /\ conversations' \in [Pairs -> {"NONE", "ACTIVE", "CLOSED"}]
    BY <1>15 DEF Commit, TypeOK
  <2>5. UNCHANGED <<blocks, plan, today, announced, faults>>
    BY <1>15 DEF Commit
  <2>6. QED
    BY <2>1, <2>2, <2>3, <2>4, <2>5 DEF TypeOK, LocalsType
<1>16. CASE Notify(r)
  <2>1. LocalsType'
    BY <1>16, <1>3, <1>6 DEF Notify
  <2>2. announced' \in [Pairs -> Nat]
    BY <1>16, <1>1 DEF Notify, TypeOK
  <2>3. QED
    BY <2>1, <2>2, <1>16 DEF Notify, TypeOK, LocalsType, dbVars
<1>17. QED
  BY <1>8, <1>9, <1>10, <1>11, <1>12, <1>13, <1>14, <1>15, <1>16 DEF Serve

\* A new request, a lost one, and the other writers.
LEMMA TypeOthers ==
  ASSUME TypeOK, Next, \A r \in Requests : ~Serve(r)
  PROVE  TypeOK'
<1>1. ASSUME NEW r \in Requests, Submit(r)
      PROVE  TypeOK'
  <2>1. \A b \in Inputs : (~Blocked(Pair(b))) \in BOOLEAN
    BY DEF Blocked
  <2>2. /\ input' \in [Requests -> Inputs]
        /\ open' \in [Requests -> BOOLEAN]
    BY <1>1, <2>1 DEF Submit, TypeOK
  <2>3. /\ pc' \in [Requests -> Steps]
        /\ outcome' \in [Requests -> Outcomes]
    BY <1>1 DEF Submit, TypeOK, Goto, Steps, Outcomes
  <2>4. QED
    BY <1>1, <2>2, <2>3 DEF Submit, TypeOK, dbVars
<1>2. ASSUME NEW r \in Requests, NotifyFails(r) \/ Fail(r)
      PROVE  TypeOK'
  <2>1. PICK o \in Outcomes : Finish(r, o)
    BY <1>2 DEF NotifyFails, Fail, Outcomes, Accepted
  <2>2. LocalsType'
    BY <2>1, FinishType
  <2>3. faults' \in 0..MaxFaults
    BY <1>2, FaultsAssumption DEF NotifyFails, Fail, TypeOK
  <2>4. UNCHANGED <<dbVars, announced>>
    BY <1>2 DEF NotifyFails, Fail
  <2>5. QED
    BY <2>2, <2>3, <2>4 DEF TypeOK, LocalsType, dbVars
<1>3. ASSUME NEW u \in Users, NEW p \in Pairs, Unmatch(u, p)
      PROVE  TypeOK'
  BY <1>3 DEF Unmatch, TypeOK, locals
<1>4. ASSUME NEW u \in Blockers, NEW v \in Users, Block(u, v) \/ Unblock(u, v)
      PROVE  TypeOK'
  <2>1. blocks' \subseteq Users \X Users
    BY <1>4, EnvironmentAssumption DEF Block, Unblock, TypeOK
  <2>2. open' \in [Requests -> BOOLEAN]
    BY <1>4 DEF Block, Unblock, TypeOK
  <2>3. QED
    BY <1>4, <2>1, <2>2 DEF Block, Unblock, TypeOK, locals
<1>5. ASSUME NEW u \in Subscribers, ChangePlan(u)
      PROVE  TypeOK'
  BY <1>5 DEF ChangePlan, TypeOK, locals
<1>6. ASSUME NextDay
      PROVE  TypeOK'
  BY <1>6 DEF NextDay, TypeOK, locals
<1>7. QED
  BY <1>1, <1>2, <1>3, <1>4, <1>5, <1>6 DEF Next

LEMMA TypeStutter == TypeOK /\ UNCHANGED vars => TypeOK'
  BY DEF TypeOK, vars

-----------------------------------------------------------------------------
(* Locks.  A request changes only its own locals, and comes to hold a lock  *)
(* only through the statement that waits for it.                           *)

\* A step of the handler of r, whatever its result.
Moves(r) == Submit(r) \/ Serve(r) \/ NotifyFails(r) \/ Fail(r)

SameLocals(q) ==
  /\ pc'[q] = pc[q]
  /\ input'[q] = input[q]
  /\ date'[q] = date[q]
  /\ quota'[q] = quota[q]
  /\ seen'[q] = seen[q]
  /\ created'[q] = created[q]

\* The usage rows in use and the rows about to be committed are not shared.
UsageRowExclusive ==
  \A r, q \in Requests :
    HoldsUsageRow(r) /\ HoldsUsageRow(q) /\ r # q
      => UsageKey(r) # UsageKey(q)
InsertExclusive ==
  \A r, q \in Requests :
    HasInserted(r) /\ HasInserted(q) /\ r # q
      => ~Collides(NewRow(q), input[r])

LocksInv ==
  /\ ChargesPositive
  /\ PairLockExclusive
  /\ UsageRowExclusive
  /\ InsertExclusive

LEMMA FinishMoves ==
  ASSUME TypeOK, NEW r \in Requests, NEW o, Finish(r, o)
  PROVE  pc'[r] = "done" /\ \A q \in Requests \ {r} : SameLocals(q)
  BY DEF TypeOK, Finish, SameLocals

LEMMA MovesOne ==
  ASSUME TypeOK, NEW r \in Requests, Moves(r)
  PROVE  \A q \in Requests \ {r} : SameLocals(q)
<1>1. CASE \E o : Finish(r, o)
  BY <1>1, FinishMoves
<1>2. CASE Submit(r)
  BY <1>2 DEF Submit, Goto, SameLocals, TypeOK
<1>3. CASE UNCHANGED locals /\ \E step : Goto(r, step)
  BY <1>3 DEF Goto, SameLocals, TypeOK, locals
<1>4. CASE Recheck(r) /\ ~Replay(r)
  BY <1>4 DEF Recheck, Replay, Goto, SameLocals, TypeOK
<1>5. CASE Consume(r) /\ Goto(r, "insert")
  <2>1. CASE \E o : Finish(r, o)
    BY <2>1, <1>1
  <2>2. CASE /\ seen' = [seen EXCEPT ![r] = used[UsageKey(r)]]
             /\ UNCHANGED <<input, date, quota, created>>
    BY <2>2, <1>5 DEF Goto, SameLocals, TypeOK
  <2>3. QED
    BY <1>5, <2>1, <2>2 DEF Consume
<1>6. CASE Reciprocal(r)
  BY <1>6 DEF Reciprocal, Goto, SameLocals, TypeOK
<1>7. Lookup(r) \/ Check(r) \/ LockPair(r) \/ Insert(r) \/ Commit(r)
        => (\E o : Finish(r, o)) \/ (UNCHANGED locals /\ \E step : Goto(r, step))
  BY ReplayFinishes DEF Lookup, Check, LockPair, Insert, Commit, locals
<1>8. Consume(r) => (\E o : Finish(r, o)) \/ Goto(r, "insert")
  BY DEF Consume
<1>9. Recheck(r) => (\E o : Finish(r, o)) \/ ~Replay(r)
  BY ReplayFinishes
<1>10. Notify(r) \/ NotifyFails(r) \/ Fail(r) => \E o : Finish(r, o)
  BY DEF Notify, NotifyFails, Fail
<1>11. QED
  BY <1>1, <1>2, <1>3, <1>4, <1>5, <1>6, <1>7, <1>8, <1>9, <1>10
  DEF Moves, Serve

\* How a handler gets from one statement to the next while it holds locks.
LEMMA LockMoves ==
  ASSUME TypeOK, NEW r \in Requests, Moves(r)
  PROVE  /\ HoldsPairLock(r)' =>
              /\ input'[r] = input[r]
              /\ HoldsPairLock(r) \/ (pc[r] = "lock" /\ PairLockFree(r))
         /\ HoldsUsageRow(r)' =>
              /\ date'[r] = date[r]
              /\ HoldsUsageRow(r) \/ (pc[r] = "consume" /\ UsageRowFree(r))
         /\ HasInserted(r)' =>
              \/ HasInserted(r)
              \/ /\ pc[r] = "insert"
                 /\ \A q \in Requests \ {r} :
                      ~(HasInserted(q) /\ Collides(NewRow(q), input[r]))
                 /\ ~ \E row \in actions : Collides(row, input[r])
         /\ pc'[r] = "consume" => IsPositive(input'[r].kind)
<1>1. CASE pc'[r] \in {"done", "lookup", "check", "lock", "notify"}
  BY <1>1 DEF HoldsPairLock, HoldsUsageRow, HasInserted
<1>2. CASE \E o : Finish(r, o)
  BY <1>1, <1>2, FinishMoves
<1>3. CASE LockPair(r)
  BY <1>3 DEF LockPair, Goto, locals, TypeOK, HoldsPairLock, HoldsUsageRow, HasInserted
<1>4. CASE Recheck(r) /\ ~Replay(r)
  BY <1>4 DEF Recheck, Replay, Goto, TypeOK, HoldsPairLock, HoldsUsageRow, HasInserted
<1>5. CASE Consume(r) /\ ~ \E o : Finish(r, o)
  BY <1>5 DEF Consume, Goto, TypeOK, HoldsPairLock, HoldsUsageRow, HasInserted
<1>6. CASE Insert(r) /\ ~ \E o : Finish(r, o)
  BY <1>6 DEF Insert, Goto, TypeOK, HoldsPairLock, HoldsUsageRow, HasInserted, locals
<1>7. CASE Reciprocal(r)
  BY <1>7 DEF Reciprocal, Goto, TypeOK, HoldsPairLock, HoldsUsageRow, HasInserted
<1>8. CASE Submit(r) \/ Lookup(r) \/ Check(r) \/ Commit(r)
  <2>1. (\E o : Finish(r, o)) \/ pc'[r] \in {"lookup", "check", "lock", "notify"}
    BY <1>8, ReplayFinishes DEF Submit, Lookup, Check, Commit, Goto, TypeOK
  <2>2. QED
    BY <2>1, <1>1, <1>2
<1>9. Recheck(r) => (\E o : Finish(r, o)) \/ ~Replay(r)
  BY ReplayFinishes
<1>10. Notify(r) \/ NotifyFails(r) \/ Fail(r) => \E o : Finish(r, o)
  BY DEF Notify, NotifyFails, Fail
<1>11. QED
  BY <1>2, <1>3, <1>4, <1>5, <1>6, <1>7, <1>8, <1>9, <1>10 DEF Moves, Serve

\* A step of no handler leaves the locals, the actions and the counters alone.
LEMMA OthersMove ==
  ASSUME Next, \A r \in Requests : ~Moves(r)
  PROVE  /\ UNCHANGED <<pc, locals, outcome, actions, used, announced>>
         /\ \/ UNCHANGED matches
            \/ \E p \in Pairs : /\ matches[p] = "ACTIVE"
                               /\ matches' = [matches EXCEPT ![p] = "UNMATCHED"]
<1>1. ASSUME NEW u \in Users, NEW p \in Pairs, Unmatch(u, p)
      PROVE  /\ UNCHANGED <<pc, locals, outcome, actions, used, announced>>
             /\ matches[p] = "ACTIVE"
             /\ matches' = [matches EXCEPT ![p] = "UNMATCHED"]
  BY <1>1 DEF Unmatch
<1>2. ASSUME \/ \E u \in Blockers, v \in Users : Block(u, v) \/ Unblock(u, v)
             \/ \E u \in Subscribers : ChangePlan(u)
             \/ NextDay
      PROVE  UNCHANGED <<pc, locals, outcome, actions, used, announced, matches>>
  BY <1>2 DEF Block, Unblock, ChangePlan, NextDay
<1>3. QED
  BY <1>1, <1>2 DEF Next, Moves

LEMMA LocksKept ==
  ASSUME TypeOK, LocksInv, [Next]_vars
  PROVE  LocksInv'
<1>1. CASE UNCHANGED <<pc, locals>>
  BY <1>1
  DEF LocksInv, ChargesPositive, PairLockExclusive, UsageRowExclusive,
      InsertExclusive, HoldsPairLock, HoldsUsageRow, HasInserted, UsageKey,
      NewRow, Collides, locals
<1>2. ASSUME NEW r \in Requests, Moves(r)
      PROVE  LocksInv'
  <2>1. \A q \in Requests \ {r} : SameLocals(q)
    BY <1>2, MovesOne
  <2>2. ChargesPositive'
    BY <1>2, <2>1, LockMoves DEF LocksInv, ChargesPositive, SameLocals
  <2>3. PairLockExclusive'
    <3>1. \A q \in Requests \ {r} :
            HoldsPairLock(r)' /\ HoldsPairLock(q)'
              => Pair(input'[r]) # Pair(input'[q])
      BY <1>2, <2>1, LockMoves
      DEF LocksInv, PairLockExclusive, SameLocals, HoldsPairLock, PairLockFree
    <3>2. QED
      BY <2>1, <3>1
      DEF LocksInv, PairLockExclusive, SameLocals, HoldsPairLock
  <2>4. /\ HoldsUsageRow(r)' => HoldsPairLock(r)'
        /\ HasInserted(r)' => HoldsPairLock(r)'
    BY DEF HoldsUsageRow, HasInserted, HoldsPairLock
  <2>5. UsageRowExclusive'
    <3>1. \A q \in Requests \ {r} :
            HoldsUsageRow(r)' /\ HoldsUsageRow(q)'
              => UsageKey(r)' # UsageKey(q)'
      <4> SUFFICES ASSUME NEW q \in Requests \ {r},
                          HoldsUsageRow(r)', HoldsUsageRow(q)'
                   PROVE  UsageKey(r)' # UsageKey(q)'
        OBVIOUS
      <4>1. HoldsUsageRow(r) \/ UsageRowFree(r)
        BY <1>2, LockMoves DEF HoldsUsageRow
      <4>2. UsageKey(r)' = UsageKey(r)
        BY <1>2, <2>4, LockMoves DEF UsageKey, HoldsUsageRow, HoldsPairLock
      <4>3. HoldsUsageRow(q) /\ UsageKey(q)' = UsageKey(q)
        BY <2>1 DEF SameLocals, UsageKey, HoldsUsageRow
      <4>4. QED
        BY <4>1, <4>2, <4>3 DEF LocksInv, UsageRowExclusive, UsageRowFree
    <3>2. QED
      BY <2>1, <3>1
      DEF LocksInv, UsageRowExclusive, SameLocals, HoldsUsageRow, UsageKey
  <2>6. InsertExclusive'
    <3>1. \A q \in Requests \ {r} :
            HasInserted(r)' /\ HasInserted(q)'
              => /\ ~Collides(NewRow(q), input[r])'
                 /\ ~Collides(NewRow(r), input[q])'
      <4> SUFFICES ASSUME NEW q \in Requests \ {r},
                          HasInserted(r)', HasInserted(q)'
                   PROVE  /\ ~Collides(NewRow(q), input[r])'
                          /\ ~Collides(NewRow(r), input[q])'
        OBVIOUS
      <4>1. HasInserted(r) \/ ~(HasInserted(q) /\ Collides(NewRow(q), input[r]))
        BY <1>2, LockMoves DEF HasInserted
      <4>2. HasInserted(q) /\ input'[q] = input[q] /\ input'[r] = input[r]
        BY <1>2, <2>1, <2>4, LockMoves DEF SameLocals, HasInserted, HoldsPairLock
      <4>3. ~Collides(NewRow(q), input[r])
        BY <4>1, <4>2 DEF LocksInv, InsertExclusive
      <4>4. QED
        BY <4>2, <4>3 DEF Collides, NewRow
    <3>2. QED
      BY <2>1, <3>1
      DEF LocksInv, InsertExclusive, SameLocals, HasInserted, Collides, NewRow
  <2>7. QED
    BY <2>2, <2>3, <2>5, <2>6 DEF LocksInv
<1>3. QED
  BY <1>1, <1>2, OthersMove DEF vars, locals

LEMMA TypeKept ==
  ASSUME TypeOK, ChargesPositive, [Next]_vars
  PROVE  TypeOK'
  BY TypeServe, TypeOthers, TypeStutter

LEMMA LocksInit == Init => LocksInv
  BY DEF Init, LocksInv, ChargesPositive, PairLockExclusive, UsageRowExclusive,
         InsertExclusive, HoldsPairLock, HoldsUsageRow, HasInserted

\* Every value stays in its table's or its program variable's domain.
THEOREM TypeCorrect == Spec => []TypeOK
<1>1. Init => TypeOK /\ LocksInv
  BY TypeInit, LocksInit
<1>2. TypeOK /\ LocksInv /\ [Next]_vars => (TypeOK /\ LocksInv)'
  BY TypeKept, LocksKept DEF LocksInv
<1>3. QED
  BY <1>1, <1>2, PTL DEF Spec

\* One transaction at a time works on a pair of users.
THEOREM PairLockIsExclusive == Spec => []PairLockExclusive
<1>1. Init => TypeOK /\ LocksInv
  BY TypeInit, LocksInit
<1>2. TypeOK /\ LocksInv /\ [Next]_vars => (TypeOK /\ LocksInv)'
  BY TypeKept, LocksKept DEF LocksInv
<1>3. LocksInv => PairLockExclusive
  BY DEF LocksInv
<1>4. QED
  BY <1>1, <1>2, <1>3, PTL DEF Spec

-----------------------------------------------------------------------------
(* Rows.  A row is written only by the commit of a transaction that has     *)
(* held the lock of its pair, and no stored row collides with it.          *)

RowsUnique == \A x, y \in actions : Collides(x, y) => x = y
InsertedFresh ==
  \A r \in Requests :
    HasInserted(r) => \A row \in actions : ~Collides(row, input[r])
RowsInv == RowsUnique /\ InsertedFresh

LEMMA WritesAtCommit ==
  ASSUME NEW r \in Requests, Moves(r)
  PROVE  Commit(r) \/ UNCHANGED <<actions, used, matches>>
  BY DEF Moves, Serve, Submit, Lookup, Check, LockPair, Recheck, Consume,
         Insert, Reciprocal, Notify, NotifyFails, Fail, dbVars

\* A commit ends the transaction.
LEMMA CommitEnds ==
  ASSUME TypeOK, NEW r \in Requests, Commit(r)
  PROVE  /\ pc[r] = "commit"
         /\ pc'[r] \in {"notify", "done"}
         /\ input'[r] = input[r]
         /\ HasInserted(r) /\ ~HasInserted(r)'
         /\ HoldsPairLock(r) /\ ~HoldsPairLock(r)'
         /\ ~HoldsUsageRow(r)'
         /\ IsPositive(input[r].kind) => HoldsUsageRow(r)
<1>1. pc[r] = "commit" /\ pc'[r] \in {"notify", "done"} /\ input'[r] = input[r]
  BY DEF Commit, Goto, Finish, TypeOK, locals
<1>2. QED
  BY <1>1 DEF HasInserted, HoldsPairLock, HoldsUsageRow

LEMMA RowsInit == Init => RowsInv
  BY DEF Init, RowsInv, RowsUnique, InsertedFresh, HasInserted

LEMMA RowsKept ==
  ASSUME TypeOK, LocksInv, RowsInv, [Next]_vars
  PROVE  RowsInv'
<1>1. CASE UNCHANGED <<pc, locals, actions>>
  BY <1>1 DEF RowsInv, RowsUnique, InsertedFresh, HasInserted, Collides, locals
<1>2. ASSUME NEW r \in Requests, Moves(r), UNCHANGED actions
      PROVE  RowsInv'
  <2>1. RowsUnique'
    BY <1>2 DEF RowsInv, RowsUnique, Collides
  <2>2. \A q \in Requests \ {r} : SameLocals(q)
    BY <1>2, MovesOne
  <2>3. HasInserted(r)' =>
          /\ input'[r] = input[r]
          /\ HasInserted(r) \/ ~ \E row \in actions : Collides(row, input[r])
    BY <1>2, LockMoves DEF HasInserted, HoldsPairLock
  <2>4. InsertedFresh'
    BY <1>2, <2>2, <2>3
    DEF RowsInv, InsertedFresh, SameLocals, HasInserted, Collides
  <2>5. QED
    BY <2>1, <2>4 DEF RowsInv
<1>3. ASSUME NEW r \in Requests, Commit(r)
      PROVE  RowsInv'
  <2>1. actions' = actions \union {NewRow(r)}
    BY <1>3 DEF Commit
  <2>2. \A q \in Requests \ {r} : SameLocals(q)
    BY <1>3, MovesOne DEF Moves, Serve
  <2>3. \A row \in actions :
          ~Collides(row, NewRow(r)) /\ ~Collides(NewRow(r), row)
    BY <1>3, CommitEnds DEF RowsInv, InsertedFresh, Collides, NewRow
  <2>4. RowsUnique'
    BY <2>1, <2>3 DEF RowsInv, RowsUnique, Collides
  <2>5. \A q \in Requests \ {r} :
          HasInserted(q) => ~Collides(NewRow(r), input[q])
    BY <1>3, CommitEnds DEF LocksInv, InsertExclusive
  <2>6. InsertedFresh'
    <3>1. \A q \in Requests \ {r} : HasInserted(q)' =>
            \A row \in actions' : ~Collides(row, input'[q])
      BY <2>1, <2>2, <2>5 DEF RowsInv, InsertedFresh, SameLocals, HasInserted
    <3>2. QED
      BY <1>3, <3>1, CommitEnds DEF InsertedFresh, HasInserted, Collides
  <2>7. QED
    BY <2>4, <2>6 DEF RowsInv
<1>4. QED
  BY <1>1, <1>2, <1>3, OthersMove, WritesAtCommit DEF vars, locals

-----------------------------------------------------------------------------
(* Matches.  At its commit a transaction knows whether the other side has   *)
(* liked back: nobody else can commit an action about the pair meanwhile.  *)

CreatedRight ==
  \A r \in Requests :
    pc[r] = "commit"
      => (created[r] <=> IsPositive(input[r].kind) /\ Reciprocated(input[r]))
MatchInv == MutualLikesMatch /\ CreatedRight

\* Two different users make a pair.
LEMMA UsersPair ==
  ASSUME NEW u \in Users, NEW v \in Users, u # v
  PROVE  {u, v} \in Pairs
<1>1. \A w \in Users : {u, v} # {w}
  OBVIOUS
<1>2. QED
  BY <1>1 DEF Pairs

LEMMA MatchInit == Init => MatchInv
<1> SUFFICES ASSUME Init PROVE MatchInv
  OBVIOUS
<1>1. \A u, v \in Users : ~Positive(u, v)
  BY DEF Init, Positive
<1>2. \A u, v \in Users : u # v => matches[{u, v}] = "NONE"
  BY UsersPair DEF Init
<1>3. \A r \in Requests : pc[r] # "commit"
  BY DEF Init
<1>4. QED
  BY <1>1, <1>2, <1>3 DEF MatchInv, MutualLikesMatch, CreatedRight

\* Before its commit the pair of a transaction has no match.
LEMMA NoMatchYet ==
  ASSUME TypeOK, RowsInv, MatchInv, NEW r \in Requests, HasInserted(r)
  PROVE  /\ ~Positive(input[r].actor, input[r].target)
         /\ matches[Pair(input[r])] = "NONE"
<1>1. input[r] \in Body /\ input[r].actor # input[r].target
  BY BodyPair DEF TypeOK
<1>2. ~Positive(input[r].actor, input[r].target)
  BY DEF RowsInv, InsertedFresh, Collides, Positive
<1>3. QED
  BY <1>1, <1>2 DEF MatchInv, MutualLikesMatch, Pair, Body

LEMMA ReciprocatedIsPositive ==
  \A b : Reciprocated(b) <=> Positive(b.target, b.actor)
  BY DEF Reciprocated, Positive

LEMMA CommitPositive ==
  ASSUME NEW r \in Requests, Commit(r), NEW u, NEW v
  PROVE  Positive(u, v)' <=>
           \/ Positive(u, v)
           \/ /\ u = input[r].actor /\ v = input[r].target
              /\ IsPositive(input[r].kind)
<1>1. actions' = actions \union {NewRow(r)}
  BY DEF Commit
<1>2. /\ NewRow(r).actor = input[r].actor
      /\ NewRow(r).target = input[r].target
      /\ NewRow(r).kind = input[r].kind
  BY DEF NewRow
<1>3. QED
  BY <1>1, <1>2 DEF Positive, IsPositive

\* Only the reciprocity check leads to a commit.
LEMMA CommitNext ==
  ASSUME TypeOK, NEW r \in Requests, Moves(r), pc'[r] = "commit"
  PROVE  Reciprocal(r) /\ input'[r] = input[r]
<1>1. ~ \E o : Finish(r, o)
  BY FinishMoves
<1>2. ~Replay(r)
  BY <1>1, ReplayFinishes
<1>3. \A step : Goto(r, step) => step = "commit"
  BY DEF Goto, TypeOK
<1>4. QED
  BY <1>1, <1>2, <1>3
  DEF Moves, Serve, Submit, Lookup, Check, LockPair, Recheck, Consume, Insert,
      Reciprocal, Commit, Notify, NotifyFails, Fail

LEMMA MatchKept ==
  ASSUME TypeOK, LocksInv, RowsInv, MatchInv, [Next]_vars
  PROVE  MatchInv'
<1>1. ASSUME UNCHANGED <<pc, locals, actions>>,
             \/ UNCHANGED matches
             \/ \E p \in Pairs : /\ matches[p] = "ACTIVE"
                                /\ matches' = [matches EXCEPT ![p] = "UNMATCHED"]
      PROVE  MatchInv'
  <2>1. \A u, v : Positive(u, v)' <=> Positive(u, v)
    BY <1>1 DEF Positive
  <2>2. \A p \in Pairs : matches'[p] = "NONE" <=> matches[p] = "NONE"
    BY <1>1 DEF TypeOK
  <2>3. MutualLikesMatch'
    BY <2>1, <2>2, UsersPair DEF MatchInv, MutualLikesMatch
  <2>4. CreatedRight'
    BY <1>1 DEF MatchInv, CreatedRight, Reciprocated, locals
  <2>5. QED
    BY <2>3, <2>4 DEF MatchInv
<1>2. ASSUME NEW r \in Requests, Moves(r), UNCHANGED <<actions, matches>>
      PROVE  MatchInv'
  <2>1. MutualLikesMatch'
    BY <1>2 DEF MatchInv, MutualLikesMatch, Positive
  <2>2. \A q \in Requests \ {r} : SameLocals(q)
    BY <1>2, MovesOne
  <2>3. \A q \in Requests \ {r} : pc'[q] = "commit" =>
          (created'[q] <=> IsPositive(input'[q].kind) /\ Reciprocated(input'[q]))
    BY <1>2, <2>2 DEF MatchInv, CreatedRight, SameLocals
  <2>4. pc'[r] = "commit" =>
          (created'[r] <=> IsPositive(input'[r].kind) /\ Reciprocated(input'[r]))
    <3> SUFFICES ASSUME pc'[r] = "commit"
                 PROVE  created'[r] <=> IsPositive(input'[r].kind)
                                        /\ Reciprocated(input'[r])
      OBVIOUS
    <3>1. Reciprocal(r) /\ input'[r] = input[r]
      BY <1>2, CommitNext
    <3>2. HasInserted(r)
      BY <3>1 DEF Reciprocal, HasInserted
    <3>3. matches[Pair(input[r])] = "NONE"
      BY <3>2, NoMatchYet
    <3>4. QED
      BY <3>1, <3>3 DEF Reciprocal, TypeOK
  <2>5. CreatedRight'
    BY <1>2, <2>3, <2>4 DEF CreatedRight, Reciprocated
  <2>6. QED
    BY <2>1, <2>5 DEF MatchInv
<1>3. ASSUME NEW r \in Requests, Commit(r)
      PROVE  MatchInv'
  <2> DEFINE x == input[r].actor
             y == input[r].target
             mutual == IsPositive(input[r].kind) /\ Positive(y, x)
  <2>1. x \in Users /\ y \in Users /\ x # y /\ Pair(input[r]) = {x, y}
    <3>1. input[r] \in Inputs
      BY DEF TypeOK
    <3>2. QED
      BY <3>1, BodyPair DEF Body, Pair
  <2>2. ~Positive(x, y) /\ matches[{x, y}] = "NONE"
    BY <1>3, <2>1, CommitEnds, NoMatchYet
  <2>3. created[r] <=> mutual
    BY <1>3, CommitEnds, ReciprocatedIsPositive DEF MatchInv, CreatedRight
  <2>4. \A p \in Pairs : matches'[p] # "NONE" <=>
          matches[p] # "NONE" \/ (mutual /\ p = {x, y})
    BY <1>3, <2>1, <2>3 DEF Commit, TypeOK
  <2>5. \A u, v : Positive(u, v)' <=>
          Positive(u, v) \/ (u = x /\ v = y /\ IsPositive(input[r].kind))
    BY <1>3, CommitPositive
  <2>6. MutualLikesMatch'
    <3> SUFFICES ASSUME NEW u \in Users, NEW v \in Users, u # v
                 PROVE  matches'[{u, v}] # "NONE"
                          <=> Positive(u, v)' /\ Positive(v, u)'
      BY DEF MutualLikesMatch
    <3>1. matches[{u, v}] # "NONE" <=> Positive(u, v) /\ Positive(v, u)
      BY DEF MatchInv, MutualLikesMatch
    <3>2. {u, v} = {x, y} <=> (u = x /\ v = y) \/ (u = y /\ v = x)
      OBVIOUS
    <3>3. {u, v} \in Pairs
      BY UsersPair
    <3>4. QED
      BY <2>1, <2>2, <2>4, <2>5, <3>1, <3>2, <3>3
  <2>7. CreatedRight'
    <3>1. \A q \in Requests \ {r} : SameLocals(q)
      BY <1>3, MovesOne DEF Moves, Serve
    <3>2. ASSUME NEW q \in Requests \ {r}, pc[q] = "commit"
          PROVE  \A u, v : u = input[q].target /\ v = input[q].actor
                   => (Positive(u, v)' <=> Positive(u, v))
      <4>1. Pair(input[q]) # {x, y}
        BY <1>3, <2>1, <3>2, CommitEnds
        DEF LocksInv, PairLockExclusive, HoldsPairLock
      <4>2. ~(input[q].target = x /\ input[q].actor = y)
        BY <4>1 DEF Pair
      <4>3. QED
        BY <2>5, <4>2
    <3>3. QED
      BY <1>3, <3>1, <3>2, CommitEnds
      DEF MatchInv, CreatedRight, SameLocals, Reciprocated, Positive
  <2>8. QED
    BY <2>6, <2>7 DEF MatchInv
<1>4. QED
  BY <1>1, <1>2, <1>3, OthersMove, WritesAtCommit DEF vars, locals

\* The inductive invariant of pairs and matches.
PairInv == TypeOK /\ LocksInv /\ RowsInv /\ MatchInv

LEMMA PairInvInit == Init => PairInv
  BY TypeInit, LocksInit, RowsInit, MatchInit DEF PairInv

LEMMA PairInvKept == PairInv /\ [Next]_vars => PairInv'
<1> SUFFICES ASSUME PairInv, [Next]_vars PROVE PairInv'
  OBVIOUS
<1>1. TypeOK /\ LocksInv /\ ChargesPositive /\ RowsInv /\ MatchInv
  BY DEF PairInv, LocksInv
<1>2. TypeOK' /\ LocksInv' /\ RowsInv' /\ MatchInv'
  BY <1>1, TypeKept, LocksKept, RowsKept, MatchKept
<1>3. QED
  BY <1>2 DEF PairInv

LEMMA PairInvAlways == Spec => []PairInv
  BY PairInvInit, PairInvKept, PTL DEF Spec

\* Two users who like each other have a match, and only they, whatever
\* CreateAction, Unmatch, blocks and failures do in between.
THEOREM MutualLikesAlwaysMatch == Spec => []MutualLikesMatch
<1>1. PairInv => MutualLikesMatch
  BY DEF PairInv, MatchInv
<1>2. QED
  BY <1>1, PairInvAlways, PTL

\* No client id is stored for two actions of a user, nor is a pair of users.
THEOREM ClientIdsAreUnique == Spec => []ClientIdNamesOneAction
<1>1. PairInv => ClientIdNamesOneAction
  BY DEF PairInv, RowsInv, RowsUnique, Collides, ClientIdNamesOneAction
<1>2. QED
  BY <1>1, PairInvAlways, PTL

-----------------------------------------------------------------------------
(* Quotas.  The holder of a usage row knows its value, and the value is     *)
(* below a limit some plan grants.                                         *)

SeenRight ==
  \A r \in Requests :
    HoldsUsageRow(r) => seen[r] = used[UsageKey(r)] /\ seen[r] < quota[r]
QuotaFromPlan ==
  \A r \in Requests :
    pc[r] = "consume" \/ HoldsUsageRow(r)
      => \E p \in Plans : quota[r] = Limit[p][input[r].kind]
CountsActions == IsFiniteSet(actions) /\ UsageCountsActions
UsedWithinLimit ==
  \A k \in UsageKeys : \E p \in Plans : used[k] <= Limit[p][k[2]]
UsageInv == SeenRight /\ QuotaFromPlan /\ CountsActions /\ UsedWithinLimit

\* How a handler comes by its usage row.
LEMMA UsageMoves ==
  ASSUME TypeOK, ChargesPositive, NEW r \in Requests, Moves(r)
  PROVE  /\ HoldsUsageRow(r)' =>
              /\ quota'[r] = quota[r] /\ input'[r] = input[r] /\ date'[r] = date[r]
              /\ \/ HoldsUsageRow(r) /\ seen'[r] = seen[r]
                 \/ /\ pc[r] = "consume"
                    /\ seen'[r] = used[UsageKey(r)] /\ seen'[r] < quota[r]
         /\ pc'[r] = "consume" =>
              \E p \in Plans : quota'[r] = Limit[p][input'[r].kind]
<1>1. CASE \E o : Finish(r, o)
  BY <1>1, FinishMoves DEF HoldsUsageRow
<1>2. CASE ~ \E o : Finish(r, o)
  <2>1. ~Replay(r)
    BY <1>2, ReplayFinishes
  <2>2. CASE Recheck(r)
    <3>1. input[r] \in Inputs
      BY DEF TypeOK
    <3>2. input[r].actor \in Users
      BY <3>1, BodyPair DEF Body
    <3>3. plan[input[r].actor] \in Plans
      BY <3>2 DEF TypeOK
    <3>4. QED
      BY <2>1, <2>2, <3>3 DEF Recheck, Replay, Goto, TypeOK, HoldsUsageRow
  <2>3. CASE Consume(r)
    BY <1>2, <2>3
    DEF Consume, Goto, TypeOK, HoldsUsageRow, WithinQuota, UsageKey
  <2>4. CASE Insert(r) \/ Reciprocal(r)
    BY <1>2, <2>4
    DEF Insert, Reciprocal, Goto, TypeOK, HoldsUsageRow, locals
  <2>5. CASE Submit(r) \/ Lookup(r) \/ Check(r) \/ LockPair(r) \/ Commit(r)
    BY <1>2, <2>1, <2>5
    DEF Submit, Lookup, Check, LockPair, Commit, Goto, TypeOK, HoldsUsageRow
  <2>6. ~(Notify(r) \/ NotifyFails(r) \/ Fail(r))
    BY <1>2 DEF Notify, NotifyFails, Fail
  <2>7. QED
    BY <2>2, <2>3, <2>4, <2>5, <2>6 DEF Moves, Serve
<1>3. QED
  BY <1>1, <1>2

LEMMA UsageInit == Init => UsageInv
<1> SUFFICES ASSUME Init PROVE UsageInv
  OBVIOUS
<1>1. \A k \in UsageKeys : PositiveRows(k) = {}
  BY DEF Init, PositiveRows
<1>2. CountsActions
  BY <1>1, FS_EmptySet DEF Init, CountsActions, UsageCountsActions
<1>3. \A k \in UsageKeys : Limit[InitialPlan][k[2]] \in Nat
  BY PlansAssumption DEF UsageKeys
<1>4. UsedWithinLimit
  BY <1>3, PlansAssumption DEF Init, UsedWithinLimit
<1>5. QED
  BY <1>2, <1>4 DEF Init, UsageInv, SeenRight, QuotaFromPlan, HoldsUsageRow

\* The counter and the rows of a day after a commit.
LEMMA CommitCounts ==
  ASSUME TypeOK, RowsInv, UsageInv, NEW r \in Requests, Commit(r)
  PROVE  CountsActions'
<1>1. actions' = actions \union {NewRow(r)} /\ HasInserted(r)
  BY CommitEnds DEF Commit
<1>2. NewRow(r) \notin actions
  BY <1>1 DEF RowsInv, InsertedFresh, Collides, NewRow
<1>3. IsFiniteSet(actions')
  BY <1>1, FS_AddElement DEF UsageInv, CountsActions
<1>4. ASSUME NEW k \in UsageKeys
      PROVE  used'[k] = Cardinality(PositiveRows(k))'
  <2>1. IsFiniteSet(PositiveRows(k)) /\ used[k] = Cardinality(PositiveRows(k))
    BY FS_Subset DEF UsageInv, CountsActions, UsageCountsActions, PositiveRows
  <2>2. CASE IsPositive(input[r].kind) /\ k = UsageKey(r)
    <3>1. PositiveRows(k)' = PositiveRows(k) \union {NewRow(r)}
      BY <1>1, <2>2 DEF PositiveRows, NewRow, UsageKey
    <3>2. NewRow(r) \notin PositiveRows(k)
      BY <1>2 DEF PositiveRows
    <3>3. Cardinality(PositiveRows(k)') = used[k] + 1
      BY <2>1, <3>1, <3>2, FS_AddElement, ZenonT(60)
    <3>4. used'[k] = used[k] + 1
      BY <2>2, CommitEnds DEF Commit, TypeOK, UsageInv, SeenRight
    <3>5. QED
      BY <3>3, <3>4
  <2>3. CASE ~(IsPositive(input[r].kind) /\ k = UsageKey(r))
    <3>1. k[2] \in PositiveKinds
          /\ k = <<k[1], k[2], k[3]>>
      BY DEF UsageKeys
    <3>2. ~(/\ NewRow(r).actor = k[1] /\ NewRow(r).kind = k[2]
            /\ NewRow(r).day = k[3])
      BY <2>3, <3>1 DEF NewRow, UsageKey, IsPositive
    <3>3. PositiveRows(k)' = PositiveRows(k)
      BY <1>1, <3>2 DEF PositiveRows
    <3>4. used'[k] = used[k]
      BY <2>3 DEF Commit, TypeOK
    <3>5. QED
      BY <2>1, <3>3, <3>4
  <2>4. QED
    BY <2>2, <2>3
<1>5. QED
  BY <1>3, <1>4 DEF CountsActions, UsageCountsActions

LEMMA UsageKept ==
  ASSUME TypeOK, LocksInv, RowsInv, UsageInv, [Next]_vars
  PROVE  UsageInv'
<1>1. CASE UNCHANGED <<pc, locals, actions, used>>
  BY <1>1
  DEF UsageInv, SeenRight, QuotaFromPlan, CountsActions, UsageCountsActions,
      UsedWithinLimit, PositiveRows, HoldsUsageRow, UsageKey, locals
<1>2. ASSUME NEW r \in Requests, Moves(r)
      PROVE  QuotaFromPlan'
  <2>1. \A q \in Requests \ {r} : SameLocals(q)
    BY <1>2, MovesOne
  <2>2. pc'[r] = "consume" \/ HoldsUsageRow(r)' =>
          \E p \in Plans : quota'[r] = Limit[p][input'[r].kind]
    BY <1>2, UsageMoves DEF LocksInv, UsageInv, QuotaFromPlan, HoldsUsageRow
  <2>3. QED
    BY <2>1, <2>2 DEF UsageInv, QuotaFromPlan, SameLocals, HoldsUsageRow
<1>3. ASSUME NEW r \in Requests, Moves(r), UNCHANGED <<actions, used>>
      PROVE  UsageInv'
  <2>1. \A q \in Requests \ {r} : SameLocals(q)
    BY <1>3, MovesOne
  <2>2. HoldsUsageRow(r)' =>
          seen'[r] = used[UsageKey(r)'] /\ seen'[r] < quota'[r]
    BY <1>3, UsageMoves
    DEF LocksInv, UsageInv, SeenRight, HoldsUsageRow, UsageKey
  <2>3. SeenRight'
    BY <1>3, <2>1, <2>2
    DEF UsageInv, SeenRight, SameLocals, HoldsUsageRow, UsageKey
  <2>4. CountsActions' /\ UsedWithinLimit'
    BY <1>3
    DEF UsageInv, CountsActions, UsageCountsActions, UsedWithinLimit, PositiveRows
  <2>5. QED
    BY <1>2, <1>3, <2>3, <2>4 DEF UsageInv
<1>4. ASSUME NEW r \in Requests, Commit(r)
      PROVE  UsageInv'
  <2>1. Moves(r)
    BY <1>4 DEF Moves, Serve
  <2>2. \A q \in Requests \ {r} : SameLocals(q)
    BY <2>1, MovesOne
  <2>3. ASSUME NEW q \in Requests \ {r}, HoldsUsageRow(q)
        PROVE  used'[UsageKey(q)] = used[UsageKey(q)]
    <3>1. IsPositive(input[r].kind) => UsageKey(q) # UsageKey(r)
      BY <1>4, <2>3, CommitEnds DEF LocksInv, UsageRowExclusive
    <3>2. UsageKey(q) \in UsageKeys
      BY <2>3, NewRowType DEF HoldsUsageRow
    <3>3. QED
      BY <1>4, <3>1, <3>2 DEF Commit, TypeOK
  <2>4. SeenRight'
    <3>1. \A q \in Requests \ {r} : HoldsUsageRow(q)' =>
            seen'[q] = used'[UsageKey(q)'] /\ seen'[q] < quota'[q]
      BY <2>2, <2>3 DEF UsageInv, SeenRight, SameLocals, HoldsUsageRow, UsageKey
    <3>2. ~HoldsUsageRow(r)'
      BY <1>4, CommitEnds
    <3>3. QED
      BY <3>1, <3>2 DEF SeenRight, HoldsUsageRow, UsageKey
  <2>5. UsedWithinLimit'
    <3> SUFFICES ASSUME NEW k \in UsageKeys
                 PROVE  \E p \in Plans : used'[k] <= Limit[p][k[2]]
      BY DEF UsedWithinLimit
    <3>1. CASE IsPositive(input[r].kind) /\ k = UsageKey(r)
      <4>1. used'[k] = seen[r] + 1 /\ seen[r] < quota[r]
        BY <1>4, <3>1, CommitEnds DEF Commit, TypeOK, UsageInv, SeenRight
      <4>2. PICK p \in Plans : quota[r] = Limit[p][input[r].kind]
        BY <1>4, <3>1, CommitEnds DEF UsageInv, QuotaFromPlan
      <4>3. k[2] = input[r].kind
        BY <3>1 DEF UsageKey
      <4>4. seen[r] \in Nat /\ quota[r] \in Nat
        BY DEF TypeOK
      <4>5. QED
        BY <4>1, <4>2, <4>3, <4>4
    <3>2. CASE ~(IsPositive(input[r].kind) /\ k = UsageKey(r))
      BY <1>4, <3>2 DEF Commit, TypeOK, UsageInv, UsedWithinLimit
    <3>3. QED
      BY <3>1, <3>2
  <2>6. QED
    BY <1>2, <1>4, <2>1, <2>4, <2>5, CommitCounts DEF UsageInv
<1>5. QED
  BY <1>1, <1>3, <1>4, OthersMove, WritesAtCommit DEF vars, locals

LEMMA UsageAlways == Spec => [](PairInv /\ UsageInv)
<1>1. Init => PairInv /\ UsageInv
  BY PairInvInit, UsageInit
<1>2. PairInv /\ UsageInv /\ [Next]_vars => (PairInv /\ UsageInv)'
  BY PairInvKept, UsageKept DEF PairInv
<1>3. QED
  BY <1>1, <1>2, PTL DEF Spec

\* The usage counter of a day is the number of its positive actions, whatever
\* likes of one user race, replay, fail or roll back.
THEOREM UsageAlwaysCounts == Spec => []UsageCountsActions
<1>1. UsageInv => UsageCountsActions
  BY DEF UsageInv, CountsActions
<1>2. QED
  BY <1>1, UsageAlways, PTL

\* No day gets more positive actions than the best plan allows.
THEOREM DailyLimitAlwaysHolds == Spec => []DailyLimitHolds
<1>1. UsageInv => DailyLimitHolds
  BY DEF UsageInv, CountsActions, UsageCountsActions, UsedWithinLimit,
         DailyLimitHolds
<1>2. QED
  BY <1>1, UsageAlways, PTL

-----------------------------------------------------------------------------
(* Announcements.                                                          *)

NotifierFresh ==
  \A r \in Requests : pc[r] = "notify" =>
    matches[Pair(input[r])] # "NONE" /\ announced[Pair(input[r])] = 0
OneNotifier ==
  \A r, q \in Requests :
    pc[r] = "notify" /\ pc[q] = "notify" /\ r # q
      => Pair(input[r]) # Pair(input[q])
AnnounceInv == AnnouncedOnce /\ NotifierFresh /\ OneNotifier

\* Only a commit that made a match leads to an announcement.
LEMMA NotifyNext ==
  ASSUME TypeOK, NEW r \in Requests, Moves(r), pc'[r] = "notify"
  PROVE  Commit(r) /\ created[r]
<1>1. ~ \E o : Finish(r, o)
  BY FinishMoves
<1>2. ~Replay(r)
  BY <1>1, ReplayFinishes
<1>3. \A step : Goto(r, step) => step = "notify"
  BY DEF Goto, TypeOK
<1>4. QED
  BY <1>1, <1>2, <1>3
  DEF Moves, Serve, Submit, Lookup, Check, LockPair, Recheck, Consume, Insert,
      Reciprocal, Commit, Notify, NotifyFails, Fail, MustAnnounce

LEMMA AnnounceKept ==
  ASSUME PairInv, AnnounceInv, [Next]_vars
  PROVE  AnnounceInv'
<1> USE DEF PairInv
<1>1. ASSUME UNCHANGED <<pc, locals, announced>>,
             \/ UNCHANGED matches
             \/ \E p \in Pairs : /\ matches[p] = "ACTIVE"
                                /\ matches' = [matches EXCEPT ![p] = "UNMATCHED"]
      PROVE  AnnounceInv'
  <2>1. \A p \in Pairs : matches'[p] = "NONE" <=> matches[p] = "NONE"
    BY <1>1 DEF TypeOK
  <2>2. \A r \in Requests : Pair(input[r]) \in Pairs
    BY BodyPair DEF TypeOK
  <2>3. QED
    BY <1>1, <2>1, <2>2
    DEF AnnounceInv, AnnouncedOnce, NotifierFresh, OneNotifier, locals
<1>2. ASSUME NEW r \in Requests, Moves(r), ~Commit(r), ~Notify(r)
      PROVE  AnnounceInv'
  <2>1. pc'[r] # "notify"
    BY <1>2, NotifyNext
  <2>2. \A q \in Requests \ {r} : SameLocals(q)
    BY <1>2, MovesOne
  <2>3. UNCHANGED <<matches, announced>>
    BY <1>2
    DEF Moves, Serve, Submit, Lookup, Check, LockPair, Recheck, Consume,
        Insert, Reciprocal, NotifyFails, Fail, dbVars
  <2>4. QED
    BY <2>1, <2>2, <2>3
    DEF AnnounceInv, AnnouncedOnce, NotifierFresh, OneNotifier, SameLocals
<1>3. ASSUME NEW r \in Requests, Notify(r)
      PROVE  AnnounceInv'
  <2>1. Moves(r)
    BY <1>3 DEF Moves, Serve
  <2>2. \A q \in Requests \ {r} : SameLocals(q)
    BY <2>1, MovesOne
  <2>3. pc'[r] # "notify" /\ pc[r] = "notify"
    BY <1>3, FinishMoves DEF Notify
  <2>4. /\ UNCHANGED matches
        /\ announced' = [announced EXCEPT ![Pair(input[r])] = @ + 1]
    BY <1>3 DEF Notify, dbVars
  <2>5. Pair(input[r]) \in Pairs
    BY BodyPair DEF TypeOK
  <2>6. \A q \in Requests : Pair(input[q]) \in Pairs
    BY BodyPair DEF TypeOK
  <2>7. AnnouncedOnce'
    BY <2>3, <2>4, <2>5 DEF AnnounceInv, AnnouncedOnce, NotifierFresh, TypeOK
  <2>8. NotifierFresh' /\ OneNotifier'
    BY <2>2, <2>3, <2>4, <2>6
    DEF AnnounceInv, NotifierFresh, OneNotifier, SameLocals, TypeOK
  <2>9. QED
    BY <2>7, <2>8 DEF AnnounceInv
<1>4. ASSUME NEW r \in Requests, Commit(r)
      PROVE  AnnounceInv'
  <2>1. Moves(r)
    BY <1>4 DEF Moves, Serve
  <2>2. \A q \in Requests \ {r} : SameLocals(q)
    BY <2>1, MovesOne
  <2>3. /\ UNCHANGED announced
        /\ matches' = IF created[r]
                      THEN [matches EXCEPT ![Pair(input[r])] = "ACTIVE"]
                      ELSE matches
    BY <1>4 DEF Commit
  <2>4. matches[Pair(input[r])] = "NONE" /\ input'[r] = input[r]
    BY <1>4, CommitEnds, NoMatchYet
  <2>5. \A q \in Requests : Pair(input[q]) \in Pairs
    BY BodyPair DEF TypeOK
  <2>6. announced[Pair(input[r])] = 0
    BY <2>4, <2>5 DEF AnnounceInv, AnnouncedOnce, TypeOK
  <2>7. \A p \in Pairs : matches[p] # "NONE" => matches'[p] # "NONE"
    BY <2>3 DEF TypeOK
  <2>8. AnnouncedOnce'
    BY <2>3, <2>7 DEF AnnounceInv, AnnouncedOnce
  <2>9. pc'[r] = "notify" => created[r]
    BY <2>1, NotifyNext
  <2>10. NotifierFresh'
    BY <2>2, <2>3, <2>4, <2>5, <2>6, <2>7, <2>9
    DEF AnnounceInv, NotifierFresh, SameLocals, TypeOK
  <2>11. OneNotifier'
    BY <2>2, <2>4 DEF AnnounceInv, NotifierFresh, OneNotifier, SameLocals
  <2>12. QED
    BY <2>8, <2>10, <2>11 DEF AnnounceInv
<1>5. QED
  BY <1>1, <1>2, <1>3, <1>4, OthersMove DEF vars, locals

\* A match is announced at most once, and never before it exists.
THEOREM AlwaysAnnouncedOnce == Spec => []AnnouncedOnce
<1>1. Init => PairInv /\ AnnounceInv
  BY PairInvInit
  DEF Init, AnnounceInv, AnnouncedOnce, NotifierFresh, OneNotifier
<1>2. PairInv /\ AnnounceInv /\ [Next]_vars => (PairInv /\ AnnounceInv)'
  BY PairInvKept, AnnounceKept
<1>3. AnnounceInv => AnnouncedOnce
  BY DEF AnnounceInv
<1>4. QED
  BY <1>1, <1>2, <1>3, PTL DEF Spec

-----------------------------------------------------------------------------
(* Blocks and answers.                                                     *)

\* A handler answers its own request only.
LEMMA AnswersOne ==
  ASSUME TypeOK, NEW r \in Requests, Moves(r)
  PROVE  \A q \in Requests \ {r} : outcome'[q] = outcome[q] /\ open'[q] = open[q]
<1>1. CASE \E o : Finish(r, o)
  BY <1>1 DEF Finish, TypeOK
<1>2. CASE Submit(r)
  BY <1>2 DEF Submit, TypeOK
<1>3. CASE UNCHANGED <<outcome, open>>
  BY <1>3
<1>4. (\E o : Finish(r, o)) \/ Submit(r) \/ UNCHANGED <<outcome, open>>
  BY ReplayFinishes
  DEF Moves, Serve, Lookup, Check, LockPair, Recheck, Consume, Insert, Reciprocal,
      Commit, Notify, NotifyFails, Fail
<1>5. QED
  BY <1>1, <1>2, <1>3, <1>4

\* A request that found no moment without a block still faces one, and has not
\* come past the check.
StillBlocked ==
  \A r \in Requests : ~open[r] => Blocked(Pair(input[r]))
PastCheckOpen ==
  \A r \in Requests : pc[r] = "lock" \/ HoldsPairLock(r) => open[r]
BlockInv == StillBlocked /\ PastCheckOpen

\* What a handler does to the observer of its own request.
LEMMA OpenMoves ==
  ASSUME TypeOK, StillBlocked, NEW r \in Requests, Moves(r)
  PROVE  /\ ~open'[r] => Blocked(Pair(input'[r]))
         /\ pc'[r] = "lock" \/ HoldsPairLock(r)' =>
              open'[r] \/ (open'[r] = open[r] /\ (pc[r] = "lock" \/ HoldsPairLock(r)))
<1>1. CASE \E o : Finish(r, o)
  BY <1>1 DEF Finish, TypeOK
<1>2. CASE Submit(r)
  BY <1>2 DEF Submit, Goto, TypeOK, HoldsPairLock
<1>3. CASE Check(r) /\ ~ \E o : Finish(r, o)
  BY <1>3 DEF Check, Goto, StillBlocked, TypeOK, locals
<1>4. CASE Lookup(r) /\ ~Replay(r)
  BY <1>4 DEF Lookup, Replay, Goto, StillBlocked, TypeOK, locals, HoldsPairLock
<1>5. CASE LockPair(r)
  BY <1>5 DEF LockPair, Goto, StillBlocked, TypeOK, locals
<1>6. CASE Recheck(r) /\ ~Replay(r)
  BY <1>6 DEF Recheck, Replay, Goto, StillBlocked, TypeOK, HoldsPairLock
<1>7. CASE Consume(r) /\ ~ \E o : Finish(r, o)
  BY <1>7 DEF Consume, Goto, StillBlocked, TypeOK, HoldsPairLock
<1>8. CASE (Insert(r) \/ Commit(r)) /\ ~ \E o : Finish(r, o)
  BY <1>8 DEF Insert, Commit, Goto, StillBlocked, TypeOK, locals, HoldsPairLock
<1>9. CASE Reciprocal(r)
  BY <1>9 DEF Reciprocal, Goto, StillBlocked, TypeOK, HoldsPairLock
<1>10. Replay(r) \/ Notify(r) \/ NotifyFails(r) \/ Fail(r) => \E o : Finish(r, o)
  BY ReplayFinishes DEF Notify, NotifyFails, Fail
<1>11. QED
  BY <1>1, <1>2, <1>3, <1>4, <1>5, <1>6, <1>7, <1>8, <1>9, <1>10 DEF Moves, Serve

\* Who lifts the last block of a pair opens it for every request about it.
LEMMA UnblockOpens ==
  ASSUME TypeOK, StillBlocked, NEW u, NEW v, Unblock(u, v)
  PROVE  StillBlocked'
<1> SUFFICES ASSUME NEW r \in Requests, ~open'[r]
             PROVE  Blocked(Pair(input[r]))'
  BY DEF StillBlocked, Unblock
<1>1. ~open[r] /\ (Pair(input[r]) = {u, v} => <<v, u>> \in blocks)
  BY DEF Unblock
<1>2. input' = input /\ blocks' = blocks \ {<<u, v>>}
  BY DEF Unblock, locals
<1>3. PICK e \in blocks : {e[1], e[2]} = Pair(input[r])
  BY <1>1 DEF StillBlocked, Blocked
<1>4. CASE e # <<u, v>>
  BY <1>2, <1>3, <1>4 DEF Blocked, Pair
<1>5. CASE e = <<u, v>>
  <2>1. Pair(input[r]) = {u, v} /\ u # v
    <3>1. Pair(input[r]) = {u, v}
      BY <1>3, <1>5
    <3>2. input[r].actor # input[r].target
      BY BodyPair DEF TypeOK
    <3> QED BY <3>1, <3>2 DEF Pair
  <2>2. <<v, u>> \in blocks'
    BY <1>1, <1>2, <2>1
  <2>3. QED
    BY <1>2, <2>1, <2>2 DEF Blocked, Pair
<1>6. QED
  BY <1>4, <1>5

LEMMA BlockKept ==
  ASSUME TypeOK, BlockInv, [Next]_vars
  PROVE  BlockInv'
<1>1. ASSUME UNCHANGED <<pc, input, open>>, blocks \subseteq blocks'
      PROVE  BlockInv'
  BY <1>1 DEF BlockInv, StillBlocked, PastCheckOpen, Blocked, Pair, HoldsPairLock
<1>2. ASSUME NEW r \in Requests, Moves(r)
      PROVE  BlockInv'
  <2>1. \A q \in Requests \ {r} : SameLocals(q) /\ open'[q] = open[q]
    BY <1>2, MovesOne, AnswersOne
  <2>2. UNCHANGED blocks
    BY <1>2
    DEF Moves, Serve, Submit, Lookup, Check, LockPair, Recheck, Consume, Insert,
        Reciprocal, Commit, Notify, NotifyFails, Fail, dbVars
  <2>3. /\ ~open'[r] => Blocked(Pair(input'[r]))
        /\ pc'[r] = "lock" \/ HoldsPairLock(r)' =>
             open'[r] \/ (open'[r] = open[r] /\ (pc[r] = "lock" \/ HoldsPairLock(r)))
    BY <1>2, OpenMoves DEF BlockInv
  <2>4. StillBlocked'
    BY <2>1, <2>2, <2>3 DEF BlockInv, StillBlocked, SameLocals, Blocked, Pair
  <2>5. PastCheckOpen'
    BY <2>1, <2>3 DEF BlockInv, PastCheckOpen, SameLocals, HoldsPairLock
  <2>6. QED
    BY <2>4, <2>5 DEF BlockInv
<1>3. ASSUME NEW u \in Blockers, NEW v \in Users, Unblock(u, v)
      PROVE  BlockInv'
  <2>1. StillBlocked'
    BY <1>3, UnblockOpens DEF BlockInv
  <2>2. PastCheckOpen'
    BY <1>3 DEF Unblock, BlockInv, PastCheckOpen, HoldsPairLock, TypeOK
  <2>3. QED
    BY <2>1, <2>2 DEF BlockInv
<1>4. ASSUME \/ \E u \in Users, p \in Pairs : Unmatch(u, p)
             \/ \E u \in Blockers, v \in Users : Block(u, v)
             \/ \E u \in Subscribers : ChangePlan(u)
             \/ NextDay
      PROVE  UNCHANGED <<pc, input, open>> /\ blocks \subseteq blocks'
  BY <1>4 DEF Unmatch, Block, ChangePlan, NextDay, locals
<1>5. QED
  BY <1>1, <1>2, <1>3, <1>4 DEF Next, Moves, vars

\* No transaction of CreateAction begins for a pair that has been blocked, without
\* a pause, since before the request came, although no lock protects the check.
THEOREM StandingBlocksAlwaysHold == Spec => []StandingBlockHolds
<1>1. Init => TypeOK /\ LocksInv /\ BlockInv
  BY TypeInit, LocksInit
  DEF Init, BlockInv, StillBlocked, PastCheckOpen, HoldsPairLock
<1>2. TypeOK /\ LocksInv /\ BlockInv /\ [Next]_vars => (TypeOK /\ LocksInv /\ BlockInv)'
  BY TypeKept, LocksKept, BlockKept DEF LocksInv
<1>3. BlockInv => StandingBlockHolds
  BY DEF BlockInv, PastCheckOpen, StandingBlockHolds
<1>4. QED
  BY <1>1, <1>2, <1>3, PTL DEF Spec

\* The action of a request is in the database.
Stored(r) ==
  \E row \in actions : /\ row.actor = input[r].actor
                       /\ row.target = input[r].target
                       /\ row.kind = input[r].kind
AnnouncersStored == \A r \in Requests : pc[r] = "notify" => Stored(r)
AnswerInv == AcceptedIsStored /\ AnnouncersStored

LEMMA AnswersStored ==
  ASSUME TypeOK, AnswerInv, NEW r \in Requests, Moves(r), outcome'[r] \in Accepted
  PROVE  Stored(r)'
<1>1. ASSUME Replay(r), UNCHANGED actions
      PROVE  Stored(r)'
  <2>1. \A o : Finish(r, o) => input' = input /\ o = outcome'[r]
    BY DEF Finish, TypeOK
  <2>2. PICK row \in SameClientId(input[r]) \union SamePair(input[r]) :
          SameMeaning(row, input[r])
    BY <1>1, <2>1 DEF Replay, Accepted
  <2>3. input' = input
    BY <1>1, <2>1 DEF Replay
  <2>4. QED
    BY <1>1, <2>2, <2>3 DEF SameClientId, SamePair, SameMeaning, Stored
<1>2. CASE Commit(r)
  <2>1. NewRow(r) \in actions' /\ input'[r] = input[r]
    BY <1>2, CommitEnds DEF Commit
  <2>2. QED
    BY <2>1 DEF NewRow, Stored
<1>3. CASE Notify(r) \/ NotifyFails(r)
  <2>1. Stored(r) /\ UNCHANGED <<actions, input>>
    BY <1>3 DEF Notify, NotifyFails, Finish, dbVars, AnswerInv, AnnouncersStored
  <2>2. QED
    BY <2>1 DEF Stored
<1>4. CASE outcome'[r] = outcome[r] /\ UNCHANGED <<actions, input>>
  BY <1>4 DEF AnswerInv, AcceptedIsStored, Stored
<1>5. \A o : Finish(r, o) => outcome'[r] = o
  BY DEF Finish, TypeOK
<1>6. ~Submit(r) /\ ~Fail(r)
  BY <1>5 DEF Submit, Fail, Accepted, TypeOK
<1>7. Lookup(r) => (Replay(r) /\ UNCHANGED actions) \/ UNCHANGED <<outcome, actions, input>>
  BY DEF Lookup, locals, dbVars
<1>8. Recheck(r) => (Replay(r) /\ UNCHANGED actions) \/ UNCHANGED <<outcome, actions, input>>
  BY DEF Recheck, dbVars
<1>9. Check(r) \/ LockPair(r) \/ Consume(r) \/ Insert(r) \/ Reciprocal(r)
        => UNCHANGED <<outcome, actions, input>>
  BY <1>5 DEF Check, LockPair, Consume, Insert, Reciprocal, locals, dbVars, Accepted
<1>10. QED
  BY <1>1, <1>2, <1>3, <1>4, <1>6, <1>7, <1>8, <1>9 DEF Moves, Serve

LEMMA AnswerKept ==
  ASSUME TypeOK, AnswerInv, [Next]_vars
  PROVE  AnswerInv'
<1>1. CASE UNCHANGED <<pc, locals, outcome, actions>>
  BY <1>1 DEF AnswerInv, AcceptedIsStored, AnnouncersStored, Stored, locals
<1>2. ASSUME NEW r \in Requests, Moves(r)
      PROVE  AnswerInv'
  <2>1. actions \subseteq actions'
    BY <1>2, WritesAtCommit DEF Commit
  <2>2. \A q \in Requests \ {r} : SameLocals(q) /\ outcome'[q] = outcome[q]
    BY <1>2, MovesOne, AnswersOne
  <2>3. outcome'[r] \in Accepted => Stored(r)'
    BY <1>2, AnswersStored
  <2>4. pc'[r] = "notify" => Stored(r)'
    <3> SUFFICES ASSUME pc'[r] = "notify" PROVE Stored(r)'
      OBVIOUS
    <3>1. Commit(r)
      BY <1>2, NotifyNext
    <3>2. NewRow(r) \in actions' /\ input'[r] = input[r]
      BY <3>1, CommitEnds DEF Commit
    <3>3. QED
      BY <3>2 DEF NewRow, Stored
  <2>5. AcceptedIsStored' /\ AnnouncersStored'
    BY <2>1, <2>2, <2>3, <2>4
    DEF AnswerInv, AcceptedIsStored, AnnouncersStored, Stored, SameLocals
  <2>6. QED
    BY <2>5 DEF AnswerInv
<1>3. QED
  BY <1>1, <1>2, OthersMove DEF vars, locals

\* Who is told that his action is recorded, or that it matched, finds it in the
\* database with his target and his kind, replayed or new (CreateAction).
THEOREM AcceptedIsAlwaysStored == Spec => []AcceptedIsStored
<1>1. Init => TypeOK /\ LocksInv /\ AnswerInv
  BY TypeInit, LocksInit
  DEF Init, AnswerInv, AcceptedIsStored, AnnouncersStored, Accepted
<1>2. TypeOK /\ LocksInv /\ AnswerInv /\ [Next]_vars => (TypeOK /\ LocksInv /\ AnswerInv)'
  BY TypeKept, LocksKept, AnswerKept DEF LocksInv
<1>3. AnswerInv => AcceptedIsStored
  BY DEF AnswerInv
<1>4. QED
  BY <1>1, <1>2, <1>3, PTL DEF Spec

-----------------------------------------------------------------------------
(* Refinement.                                                             *)

\* A row says what its actor decided about its target.
LEMMA DecisionOfRow ==
  ASSUME NEW rows, NEW row \in rows,
         \A x, y \in rows : x.actor = y.actor /\ x.target = y.target => x = y
  PROVE  Decision(rows, row.actor, row.target) = row.kind
  BY DEF Decision

LEMMA NoDecision ==
  ASSUME NEW rows, NEW u, NEW v,
         ~ \E row \in rows : row.actor = u /\ row.target = v
  PROVE  Decision(rows, u, v) = "NONE"
  BY DEF Decision

\* Adding a row about one side changes what is decided of that side alone.
LEMMA DecisionAdded ==
  ASSUME NEW rows, NEW new, NEW u, NEW v,
         \A x, y \in rows \union {new} :
           x.actor = y.actor /\ x.target = y.target => x = y
  PROVE  Decision(rows \union {new}, u, v) =
           IF u = new.actor /\ v = new.target THEN new.kind
           ELSE Decision(rows, u, v)
<1>1. CASE u = new.actor /\ v = new.target
  BY <1>1, DecisionOfRow
<1>2. CASE ~(u = new.actor /\ v = new.target)
  <2>1. CASE \E row \in rows : row.actor = u /\ row.target = v
    <3>1. PICK row \in rows : row.actor = u /\ row.target = v
      BY <2>1
    <3>2. Decision(rows, u, v) = row.kind
      BY <3>1, DecisionOfRow
    <3>3. Decision(rows \union {new}, u, v) = row.kind
      BY <3>1, DecisionOfRow
    <3>4. QED
      BY <1>2, <3>2, <3>3
  <2>2. CASE ~ \E row \in rows : row.actor = u /\ row.target = v
    BY <1>2, <2>2, NoDecision
  <2>3. QED
    BY <2>1, <2>2
<1>3. QED
  BY <1>1, <1>2

\* A row about a pair that has none yet is one decision of PairMatch.
LEMMA CommitIsDecide ==
  ASSUME PairInv, NEW r \in Requests, Commit(r)
  PROVE  Promise!Decide(input[r].actor, input[r].target, input[r].kind)
<1> DEFINE x == input[r].actor
           y == input[r].target
           Sides == {s \in Users \X Users : s[1] # s[2]}
           Decided(rows) == [s \in Sides |-> Decision(rows, s[1], s[2])]
<1> USE DEF PairInv
<1>1. x \in Users /\ y \in Users /\ x # y /\ Pair(input[r]) = {x, y}
  <2>1. input[r] \in Inputs
    BY DEF TypeOK
  <2>2. QED
    BY <2>1, BodyPair DEF Body, Pair
<1>2. /\ actions' = actions \union {NewRow(r)}
      /\ matches' = IF created[r] THEN [matches EXCEPT ![{x, y}] = "ACTIVE"]
                    ELSE matches
  BY <1>1 DEF Commit
<1>3. /\ NewRow(r).actor = x /\ NewRow(r).target = y
      /\ NewRow(r).kind = input[r].kind
  BY DEF NewRow
<1>4. \A p, q \in actions' : p.actor = q.actor /\ p.target = q.target => p = q
  <2>1. RowsInv'
    BY RowsKept DEF Next, Serve
  <2>2. QED
    BY <2>1 DEF RowsInv, RowsUnique, Collides
<1>5. \A u, v : Decision(actions', u, v) =
        IF u = x /\ v = y THEN input[r].kind ELSE Decision(actions, u, v)
  BY <1>2, <1>3, <1>4, DecisionAdded
<1>6. Decided(actions') = [Decided(actions) EXCEPT ![<<x, y>>] = input[r].kind]
  <2>1. \A s \in Sides : s = <<s[1], s[2]>>
    OBVIOUS
  <2>2. \A s \in Sides :
          Decided(actions')[s] =
            IF s = <<x, y>> THEN input[r].kind ELSE Decided(actions)[s]
    BY <1>5, <2>1
  <2>3. QED
    BY <2>2
<1>7. Decided(actions)[<<x, y>>] = "NONE"
  <2>1. ~ \E row \in actions : row.actor = x /\ row.target = y
    BY CommitEnds DEF RowsInv, InsertedFresh, Collides
  <2>2. Decision(actions, x, y) = "NONE"
    BY <2>1, NoDecision
  <2>3. QED
    BY <1>1, <2>2
<1>8. Decided(actions)[<<y, x>>] \in Promise!Likes <=> Positive(y, x)
  <2>1. CASE \E row \in actions : row.actor = y /\ row.target = x
    <3>1. PICK row \in actions : row.actor = y /\ row.target = x
      BY <2>1
    <3>2. Decision(actions, y, x) = row.kind
      BY <3>1, DecisionOfRow DEF RowsInv, RowsUnique, Collides
    <3>3. Positive(y, x) <=> IsPositive(row.kind)
      BY <3>1 DEF Positive, RowsInv, RowsUnique, Collides
    <3>4. QED
      BY <1>1, <3>2, <3>3 DEF IsPositive, PositiveKinds, Promise!Likes
  <2>2. CASE ~ \E row \in actions : row.actor = y /\ row.target = x
    BY <1>1, <2>2, NoDecision DEF Positive, Promise!Likes
  <2>3. QED
    BY <2>1, <2>2
<1>9. created[r] <=> input[r].kind \in Promise!Likes /\ Positive(y, x)
  BY CommitEnds, ReciprocatedIsPositive
  DEF MatchInv, CreatedRight, IsPositive, PositiveKinds, Promise!Likes
<1>10. QED
  BY <1>1, <1>2, <1>6, <1>7, <1>8, <1>9
  DEF Promise!Decide, Promise!Sides, Promise!PairOf

LEMMA PairsAgree ==
  Pairs = Promise!UserPairs
<1>1. ASSUME NEW p \in Pairs
      PROVE  p \in Promise!UserPairs
  <2>1. PICK u \in Users, v \in Users : p = {u, v} /\ u # v
    BY DEF Pairs
  <2> DEFINE s == <<u, v>>
  <2>2. s \in Promise!Sides /\ p = Promise!PairOf(s[1], s[2])
    BY <2>1 DEF Promise!Sides, Promise!PairOf
  <2> HIDE DEF s
  <2>3. QED
    BY <2>2 DEF Promise!UserPairs
<1>2. ASSUME NEW p \in Promise!UserPairs
      PROVE  p \in Pairs
  <2>1. PICK s \in Promise!Sides : p = Promise!PairOf(s[1], s[2])
    BY DEF Promise!UserPairs
  <2>2. s[1] \in Users /\ s[2] \in Users /\ s[1] # s[2] /\ p = {s[1], s[2]}
    BY <2>1 DEF Promise!Sides, Promise!PairOf
  <2>3. QED
    BY <2>2, UsersPair
<1>3. QED
  BY <1>1, <1>2

LEMMA StepIsPairMatchStep ==
  ASSUME PairInv, [Next]_vars
  PROVE  [Promise!PMNext]_(Promise!pmVars)
<1>1. CASE UNCHANGED <<actions, matches>>
  BY <1>1 DEF Promise!pmVars
<1>2. ASSUME NEW r \in Requests, Commit(r)
      PROVE  Promise!PMNext
  <2>1. /\ input[r].actor \in Users /\ input[r].target \in Users
        /\ input[r].kind \in Promise!Likes \union {"PASS"}
    BY BodyPair
    DEF PairInv, TypeOK, Body, Kinds, PositiveKinds, Promise!Likes
  <2>2. Promise!Decide(input[r].actor, input[r].target, input[r].kind)
    BY <1>2, CommitIsDecide
  <2>3. \E u, v \in Users, kind \in Promise!Likes \union {"PASS"} :
          Promise!Decide(u, v, kind)
    BY <2>1, <2>2 DEF Promise!Decide
  <2>4. QED
    BY <2>3 DEF Promise!PMNext
<1>3. ASSUME UNCHANGED actions,
             NEW p \in Pairs, matches[p] = "ACTIVE",
             matches' = [matches EXCEPT ![p] = "UNMATCHED"]
      PROVE  Promise!PMNext
  <2>1. p \in Promise!UserPairs
    BY PairsAgree
  <2>2. QED
    BY <1>3, <2>1 DEF Promise!PMNext, Promise!Undo
<1>4. QED
  BY <1>1, <1>2, <1>3, OthersMove, WritesAtCommit DEF vars

\* Matching implements PairMatch: decisions are final, a match appears in the
\* step that stores the second like, and an unmatched pair stays unmatched.
THEOREM MatchingImplementsPairMatch == Spec => ImplementsPairMatch
<1>1. Init => Promise!PMInit
  <2> SUFFICES ASSUME Init PROVE Promise!PMInit
    OBVIOUS
  <2>1. \A u, v : Decision(actions, u, v) = "NONE"
    BY NoDecision DEF Init
  <2>2. Pairs = Promise!UserPairs
    BY PairsAgree
  <2>3. QED
    BY <2>1, <2>2 DEF Init, Promise!PMInit, Promise!Sides
<1>2. PairInv /\ [Next]_vars => [Promise!PMNext]_(Promise!pmVars)
  BY StepIsPairMatchStep
<1>3. QED
  BY <1>1, <1>2, PairInvAlways, PTL DEF Spec, ImplementsPairMatch, Promise!PMSpec
=============================================================================
