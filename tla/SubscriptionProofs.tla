------------------------- MODULE SubscriptionProofs -------------------------
(***************************************************************************)
(* Proofs about Subscription, for any users, calls, reviewers, references,  *)
(* plan terms and length of time.                                          *)
(***************************************************************************)
EXTENDS Subscription, TLAPS

-----------------------------------------------------------------------------
(* Type correctness.                                                       *)

\* The locals and the answers of the reviewers, as TypeOK types them.
ReviewersType ==
  /\ pc \in [Reviewers -> {"lock", "extend", "write", "commit", "done"}]
  /\ payment \in [Reviewers -> Payments]
  /\ verdict \in [Reviewers -> Verdicts]
  /\ readAt \in [Reviewers -> Times]
  /\ startsAt \in [Reviewers -> Nat]
  /\ outcome \in [Reviewers -> {"none", "ok", "conflict", "failed"}]

LEMMA TimesAreNaturals == Times \subseteq Nat /\ 0 \in Times
  BY TimeAssumption DEF Times

LEMMA FinishType ==
  ASSUME ReviewersType, NEW r \in Reviewers,
         NEW o \in {"none", "ok", "conflict", "failed"}, Finish(r, o)
  PROVE  ReviewersType'
  BY TimesAreNaturals DEF ReviewersType, Finish, Goto

\* The period a reviewer is about to store has a beginning and an end.
LEMMA NewSubscriptionType ==
  ASSUME TypeOK, NEW r \in Reviewers
  PROVE  /\ NewSubscription(r) \in Subscriptions
         /\ bought[payment[r]] \in Nat \ {0}
         /\ NewSubscription(r).payment = payment[r]
         /\ NewSubscription(r).user = owner[payment[r]]
         /\ NewSubscription(r).starts = startsAt[r]
         /\ NewSubscription(r).expires = startsAt[r] + bought[payment[r]]
         /\ startsAt[r] < NewSubscription(r).expires
<1>1. /\ payment[r] \in Payments /\ startsAt[r] \in Nat
      /\ bought[payment[r]] \in Nat \ {0} /\ owner[payment[r]] \in Users
  BY TermsAssumption DEF TypeOK
<1>2. QED
  BY <1>1 DEF NewSubscription, Subscriptions

LEMMA TypeInit == Init => TypeOK
<1> SUFFICES ASSUME Init PROVE TypeOK
  OBVIOUS
<1>1. /\ owner \in [Payments -> Users]
      /\ reference \in [Payments -> References]
      /\ payment \in [Reviewers -> Payments]
  BY DEF Init
<1>2. 0 \in Times /\ 0 \in 0..MaxFaults /\ FirstTerm \in Terms
  BY TimesAreNaturals, PaymentFaultsAssumption, TermsAssumption
<1>3. QED
  BY <1>1, <1>2 DEF Init, TypeOK, Statuses, Verdicts

LEMMA TypeKept == TypeOK /\ [Next]_vars => TypeOK'
<1> SUFFICES ASSUME TypeOK, [Next]_vars PROVE TypeOK'
  OBVIOUS
<1>1. ReviewersType
  BY DEF TypeOK, ReviewersType
<1>2. ASSUME NEW t \in Payments, ReadPlan(t) PROVE TypeOK'
  BY <1>2 DEF TypeOK, ReadPlan, Statuses, locals
<1>3. ASSUME NEW t \in Payments, InsertPayment(t) PROVE TypeOK'
  BY <1>3 DEF TypeOK, InsertPayment, Statuses, locals
<1>4. ASSUME NEW r \in Reviewers, Review(r) PROVE TypeOK'
  BY <1>4 DEF TypeOK, Review, Goto, payments
<1>5. ASSUME NEW r \in Reviewers, LockPayment(r) PROVE TypeOK'
  <2>1. ReviewersType'
    <3>1. CASE status[payment[r]] = "PENDING"
      BY <3>1, <1>1, <1>5 DEF LockPayment, Goto, ReviewersType, TypeOK
    <3>2. CASE status[payment[r]] # "PENDING"
      BY <3>2, <1>1, <1>5, FinishType DEF LockPayment
    <3>3. QED
      BY <3>1, <3>2
  <2>2. QED
    BY <2>1, <1>5 DEF LockPayment, payments, TypeOK, ReviewersType
<1>6. ASSUME NEW r \in Reviewers, Extend(r) PROVE TypeOK'
  <2>1. \A e \in {s.expires : s \in Unexpired(owner[payment[r]], readAt[r])}
                  \union {readAt[r]} : e \in Nat
    BY TimesAreNaturals DEF TypeOK, Subscriptions, Unexpired
  <2>2. ReviewersType'
    BY <2>1, <1>1, <1>6 DEF Extend, Goto, ReviewersType
  <2>3. QED
    BY <2>2, <1>6 DEF Extend, payments, TypeOK, ReviewersType
<1>7. ASSUME NEW r \in Reviewers, Write(r) PROVE TypeOK'
  BY <1>7 DEF TypeOK, Write, Goto, payments, locals
<1>8. ASSUME NEW r \in Reviewers, Commit(r) PROVE TypeOK'
  <2>1. ReviewersType'
    BY <1>1, <1>8, FinishType DEF Commit
  <2>2. subs' \subseteq Subscriptions
    BY <1>8, NewSubscriptionType DEF Commit, TypeOK
  <2>3. reviews' \subseteq Reviews
    BY <1>8 DEF Commit, TypeOK, Reviews
  <2>4. status' \in [Payments -> Statuses]
    BY <1>8 DEF Commit, TypeOK, Statuses
  <2>5. QED
    BY <2>1, <2>2, <2>3, <2>4, <1>8 DEF Commit, TypeOK, ReviewersType
<1>9. ASSUME NEW r \in Reviewers, Fail(r) PROVE TypeOK'
  <2>1. ReviewersType'
    BY <1>1, <1>9, FinishType DEF Fail
  <2>2. faults' \in 0..MaxFaults
    BY <1>9, PaymentFaultsAssumption DEF Fail, TypeOK
  <2>3. QED
    BY <2>1, <2>2, <1>9 DEF Fail, payments, TypeOK, ReviewersType
<1>10. CASE EditPlan
  BY <1>10 DEF TypeOK, EditPlan, payments, locals
<1>11. CASE Tick
  BY <1>11, TimeAssumption DEF TypeOK, Tick, Times, payments, locals
<1>12. CASE UNCHANGED vars
  BY <1>12 DEF TypeOK, vars
<1>13. QED
  BY <1>2, <1>3, <1>4, <1>5, <1>6, <1>7, <1>8, <1>9, <1>10, <1>11, <1>12
  DEF Next, Serve

\* Rows, periods and the locals of the handlers have their types.
THEOREM TypeCorrect == Spec => []TypeOK
  BY TypeInit, TypeKept, PTL DEF Spec

-----------------------------------------------------------------------------
(* Who may decide a request.                                               *)

OneHolder ==
  \A q, r \in Reviewers :
    HoldsPayment(q) /\ HoldsPayment(r) /\ payment[q] = payment[r] => q = r

HeldIsPending ==
  \A r \in Reviewers : HoldsPayment(r) => status[payment[r]] = "PENDING"

OnlyApprovalsExtend ==
  \A r \in Reviewers : pc[r] = "extend" => verdict[r] = "APPROVED"

OneOpenPerUser ==
  \A p, t \in Payments :
    status[p] = "PENDING" /\ status[t] = "PENDING" /\ owner[p] = owner[t]
      => p = t

ReferencePaysOnce ==
  \A p, t \in Payments :
    IsRow(p) /\ IsRow(t) /\ reference[p] = reference[t] => p = t

\* A review that is under way has not been answered.
RunningIsUnanswered ==
  \A r \in Reviewers : pc[r] # "done" => outcome[r] = "none"

ReviewInv ==
  /\ TypeOK
  /\ OneHolder
  /\ HeldIsPending
  /\ OnlyApprovalsExtend
  /\ OneOpenPerUser
  /\ ReferencePaysOnce
  /\ RunningIsUnanswered

LEMMA ReviewInvInit == Init => ReviewInv
  BY TypeInit
  DEF Init, ReviewInv, OneHolder, HeldIsPending, OnlyApprovalsExtend,
      OneOpenPerUser, ReferencePaysOnce, RunningIsUnanswered, HoldsPayment,
      IsRow, Verdicts

\* A review that ends lets its request go, and no other.
LEMMA FinishKeepsHolders ==
  ASSUME ReviewInv, NEW r \in Reviewers, NEW o, Finish(r, o)
  PROVE  /\ OneHolder'
         /\ OnlyApprovalsExtend'
         /\ RunningIsUnanswered'
         /\ ~HoldsPayment(r)'
         /\ \A q \in Reviewers \ {r} : HoldsPayment(q)' <=> HoldsPayment(q)
  BY DEF ReviewInv, TypeOK, OneHolder, OnlyApprovalsExtend,
         RunningIsUnanswered, HoldsPayment, Finish, Goto

LEMMA ReviewInvKept == ReviewInv /\ [Next]_vars => ReviewInv'
<1> SUFFICES ASSUME ReviewInv, [Next]_vars PROVE ReviewInv'
  OBVIOUS
<1>1. TypeOK /\ TypeOK'
  BY TypeKept DEF ReviewInv
<1> DEFINE RowsKept == UNCHANGED <<status, owner, reference>>
           HoldersKept == UNCHANGED <<pc, payment, verdict, outcome>>
<1>2. RowsKept => OneOpenPerUser' /\ ReferencePaysOnce'
  BY DEF ReviewInv, OneOpenPerUser, ReferencePaysOnce, IsRow
<1>3. HoldersKept =>
        OneHolder' /\ OnlyApprovalsExtend' /\ RunningIsUnanswered'
  BY DEF ReviewInv, OneHolder, OnlyApprovalsExtend, RunningIsUnanswered,
         HoldsPayment
<1>4. HoldersKept /\ RowsKept => HeldIsPending'
  BY DEF ReviewInv, HeldIsPending, HoldsPayment
<1>5. ASSUME NEW t \in Payments, ReadPlan(t) PROVE ReviewInv'
  <2>1. HoldersKept
    BY <1>5 DEF ReadPlan, locals
  <2>2. /\ status[t] = "unused"
        /\ status' = [status EXCEPT ![t] = "draft"]
        /\ \A p \in Payments \ {t} : /\ owner'[p] = owner[p]
                                     /\ reference'[p] = reference[p]
    BY <1>5, <1>1 DEF ReadPlan, TypeOK
  <2>3. HeldIsPending'
    BY <2>1, <2>2, <1>1 DEF ReviewInv, HeldIsPending, HoldsPayment, TypeOK
  <2>4. OneOpenPerUser' /\ ReferencePaysOnce'
    BY <2>2, <1>1
    DEF ReviewInv, OneOpenPerUser, ReferencePaysOnce, IsRow, Verdicts, TypeOK
  <2>5. QED
    BY <1>1, <1>3, <2>1, <2>3, <2>4 DEF ReviewInv
<1>6. ASSUME NEW t \in Payments, InsertPayment(t) PROVE ReviewInv'
  <2>1. HoldersKept /\ UNCHANGED <<owner, reference>>
    BY <1>6 DEF InsertPayment, locals
  <2>2. /\ status[t] = "draft"
        /\ status' = [status EXCEPT ![t] =
             IF \E p \in Payments : TakesPlaceOf(p, t)
             THEN "refused" ELSE "PENDING"]
    BY <1>6 DEF InsertPayment
  <2>3. HeldIsPending'
    BY <2>1, <2>2, <1>1 DEF ReviewInv, HeldIsPending, HoldsPayment, TypeOK
  <2>4. OneOpenPerUser'
    BY <2>1, <2>2, <1>1 DEF ReviewInv, OneOpenPerUser, TakesPlaceOf, TypeOK
  <2>5. ReferencePaysOnce'
    BY <2>1, <2>2, <1>1
    DEF ReviewInv, ReferencePaysOnce, TakesPlaceOf, IsRow, Verdicts, TypeOK
  <2>6. QED
    BY <1>1, <1>3, <2>1, <2>3, <2>4, <2>5 DEF ReviewInv
<1>7. ASSUME NEW r \in Reviewers, Review(r) PROVE ReviewInv'
  <2>1. \A q \in Reviewers :
          HoldsPayment(q)' => HoldsPayment(q) /\ payment'[q] = payment[q]
    BY <1>7, <1>1 DEF Review, Goto, HoldsPayment, TypeOK
  <2>2. OneHolder' /\ HeldIsPending'
    BY <2>1, <1>7 DEF ReviewInv, OneHolder, HeldIsPending, Review, payments
  <2>3. OnlyApprovalsExtend' /\ RunningIsUnanswered'
    BY <1>7, <1>1
    DEF ReviewInv, OnlyApprovalsExtend, RunningIsUnanswered, Review, Goto,
        TypeOK
  <2>4. QED
    BY <1>1, <1>2, <1>7, <2>2, <2>3 DEF ReviewInv, Review, payments
<1>8. ASSUME NEW r \in Reviewers, LockPayment(r) PROVE ReviewInv'
  <2>1. RowsKept
    BY <1>8 DEF LockPayment, payments
  <2>2. CASE status[payment[r]] = "PENDING"
    <3>1. /\ PaymentFree(r) /\ pc[r] = "lock"
          /\ pc' = [pc EXCEPT ![r] =
               IF verdict[r] = "APPROVED" THEN "extend" ELSE "write"]
          /\ UNCHANGED <<payment, verdict, outcome>>
      BY <1>8, <2>2 DEF LockPayment, Goto
    <3>2. OneHolder'
      BY <3>1, <1>1 DEF ReviewInv, OneHolder, HoldsPayment, PaymentFree, TypeOK
    <3>3. HeldIsPending'
      BY <3>1, <2>1, <2>2, <1>1
      DEF ReviewInv, HeldIsPending, HoldsPayment, TypeOK
    <3>4. OnlyApprovalsExtend' /\ RunningIsUnanswered'
      BY <3>1, <1>1
      DEF ReviewInv, OnlyApprovalsExtend, RunningIsUnanswered, TypeOK
    <3>5. QED
      BY <1>1, <1>2, <2>1, <3>2, <3>3, <3>4 DEF ReviewInv
  <2>3. CASE status[payment[r]] # "PENDING"
    <3>1. /\ \E o : Finish(r, o)
          /\ UNCHANGED payment
      BY <1>8, <2>3 DEF LockPayment, Finish
    <3>2. HeldIsPending'
      BY <3>1, <2>1, FinishKeepsHolders DEF ReviewInv, HeldIsPending
    <3>3. QED
      BY <1>1, <1>2, <2>1, <3>1, <3>2, FinishKeepsHolders DEF ReviewInv
  <2>4. QED
    BY <2>2, <2>3
<1>9. ASSUME NEW r \in Reviewers, Extend(r) \/ Write(r) PROVE ReviewInv'
  <2>1. /\ pc[r] \in {"extend", "write"}
        /\ \E step \in {"write", "commit"} : pc' = [pc EXCEPT ![r] = step]
        /\ UNCHANGED <<payment, verdict, outcome>> /\ RowsKept
    BY <1>9 DEF Extend, Write, Goto, payments, locals
  <2>2. \A q \in Reviewers : HoldsPayment(q)' <=> HoldsPayment(q)
    BY <2>1, <1>1 DEF HoldsPayment, TypeOK
  <2>3. OneHolder' /\ HeldIsPending'
    BY <2>1, <2>2 DEF ReviewInv, OneHolder, HeldIsPending
  <2>4. OnlyApprovalsExtend' /\ RunningIsUnanswered'
    BY <2>1, <1>1
    DEF ReviewInv, OnlyApprovalsExtend, RunningIsUnanswered, TypeOK
  <2>5. QED
    BY <1>1, <1>2, <2>1, <2>3, <2>4 DEF ReviewInv
<1>10. ASSUME NEW r \in Reviewers, Commit(r) PROVE ReviewInv'
  <2>1. /\ pc[r] = "commit" /\ Finish(r, "ok")
        /\ status' = [status EXCEPT ![payment[r]] = verdict[r]]
        /\ UNCHANGED <<owner, reference, payment>>
    BY <1>10 DEF Commit, Finish
  <2>2. /\ payment[r] \in Payments
        /\ verdict[r] \in Verdicts
        /\ status[payment[r]] = "PENDING"
    BY <2>1, <1>1 DEF ReviewInv, HeldIsPending, HoldsPayment, TypeOK
  <2>3. HeldIsPending'
    <3>1. \A q \in Reviewers \ {r} : HoldsPayment(q) => payment[q] # payment[r]
      BY <2>1 DEF ReviewInv, OneHolder, HoldsPayment
    <3>2. QED
      BY <3>1, <2>1, <1>1, FinishKeepsHolders
      DEF ReviewInv, HeldIsPending, TypeOK
  <2>4. OneOpenPerUser'
    BY <2>1, <2>2, <1>1 DEF ReviewInv, OneOpenPerUser, Verdicts, TypeOK
  <2>5. ReferencePaysOnce'
    BY <2>1, <2>2, <1>1 DEF ReviewInv, ReferencePaysOnce, IsRow, TypeOK
  <2>6. QED
    BY <1>1, <2>1, <2>3, <2>4, <2>5, FinishKeepsHolders DEF ReviewInv
<1>11. ASSUME NEW r \in Reviewers, Fail(r) PROVE ReviewInv'
  <2>1. Finish(r, "failed") /\ UNCHANGED payment /\ RowsKept
    BY <1>11 DEF Fail, Finish, payments
  <2>2. HeldIsPending'
    BY <2>1, FinishKeepsHolders DEF ReviewInv, HeldIsPending
  <2>3. QED
    BY <1>1, <1>2, <2>1, <2>2, FinishKeepsHolders DEF ReviewInv
<1>12. CASE EditPlan \/ Tick \/ UNCHANGED vars
  <2>1. HoldersKept /\ RowsKept
    BY <1>12 DEF EditPlan, Tick, vars, payments, locals
  <2>2. QED
    BY <1>1, <1>2, <1>3, <1>4, <2>1 DEF ReviewInv
<1>13. QED
  BY <1>5, <1>6, <1>7, <1>8, <1>9, <1>10, <1>11, <1>12 DEF Next, Serve

-----------------------------------------------------------------------------
(* What a review knows when it sells.                                      *)

ReadsInTime ==
  /\ \A t \in Payments : submitted[t] <= now
  /\ \A r \in Reviewers : readAt[r] <= now
  /\ \A r \in Reviewers : HoldsPayment(r) => submitted[payment[r]] <= readAt[r]

\* An approval in hand starts where all that its user has bought ends.
StartsAtTheEnd ==
  \A r \in Reviewers : HoldsSubscriptions(r) =>
    LET mine == {s \in subs : s.user = owner[payment[r]]}
    IN  /\ readAt[r] <= startsAt[r]
        /\ \A s \in mine : s.expires <= startsAt[r]
        /\ startsAt[r] = readAt[r] \/ \E s \in mine : s.expires = startsAt[r]

StartInv == ReviewInv /\ ReadsInTime /\ StartsAtTheEnd

LEMMA StartInvInit == Init => StartInv
<1>1. Init => ReadsInTime /\ StartsAtTheEnd
  BY DEF Init, ReadsInTime, StartsAtTheEnd, HoldsPayment, HoldsSubscriptions
<1>2. QED
  BY <1>1, ReviewInvInit DEF StartInv

\* Time does not go back, and only a commit writes what was sold.
LEMMA OthersSellNothing ==
  ASSUME TypeOK, [Next]_vars
  PROVE  /\ now \in Nat /\ now' \in Nat /\ now <= now'
         /\ \/ UNCHANGED <<subs, reviews>>
            \/ \E r \in Reviewers : Commit(r)
<1>1. now \in Nat
  BY TimesAreNaturals DEF TypeOK
<1>2. now' = now \/ now' = now + 1
  BY DEF Next, Serve, ReadPlan, InsertPayment, Review, LockPayment, Extend,
         Write, Commit, Fail, EditPlan, Tick, vars
<1>3. UNCHANGED <<subs, reviews>> \/ \E r \in Reviewers : Commit(r)
  BY DEF Next, Serve, ReadPlan, InsertPayment, Review, LockPayment, Extend,
         Write, Fail, EditPlan, Tick, vars
<1>4. QED
  BY <1>1, <1>2, <1>3

LEMMA ReadsInTimeKept ==
  ASSUME StartInv, [Next]_vars
  PROVE  ReadsInTime'
<1>1. ReviewInv /\ TypeOK /\ TypeOK' /\ ReadsInTime
  BY TypeKept DEF StartInv, ReviewInv
<1>2. /\ now \in Nat /\ now' \in Nat /\ now <= now'
      /\ \A t \in Payments : submitted[t] \in Nat
      /\ \A r \in Reviewers : readAt[r] \in Nat
  BY <1>1, OthersSellNothing, TimesAreNaturals DEF TypeOK
<1>3. CASE UNCHANGED <<submitted, readAt, payment>>
           /\ \A r \in Reviewers : HoldsPayment(r)' => HoldsPayment(r)
  BY <1>1, <1>2, <1>3 DEF ReadsInTime
<1>4. ASSUME NEW t \in Payments, ReadPlan(t) PROVE ReadsInTime'
  <2>1. /\ submitted' = [submitted EXCEPT ![t] = now] /\ now' = now
        /\ UNCHANGED <<readAt, payment, pc>> /\ status[t] = "unused"
    BY <1>4 DEF ReadPlan, locals
  <2>2. \A r \in Reviewers : HoldsPayment(r) => payment[r] # t
    BY <2>1, <1>1 DEF ReviewInv, HeldIsPending
  <2>3. \A r \in Reviewers : HoldsPayment(r)' <=> HoldsPayment(r)
    BY <2>1 DEF HoldsPayment
  <2>4. QED
    BY <2>1, <2>2, <2>3, <1>1, <1>2 DEF ReadsInTime, TypeOK
<1>5. ASSUME NEW r \in Reviewers, Review(r) PROVE ReadsInTime'
  <2>1. \A q \in Reviewers :
          HoldsPayment(q)' => HoldsPayment(q) /\ payment'[q] = payment[q]
    BY <1>5, <1>1 DEF Review, Goto, HoldsPayment, TypeOK
  <2>2. QED
    BY <2>1, <1>1, <1>2, <1>5 DEF Review, payments, ReadsInTime
<1>6. ASSUME NEW r \in Reviewers, LockPayment(r) PROVE ReadsInTime'
  <2>1. CASE status[payment[r]] = "PENDING"
    <3>1. /\ readAt' = [readAt EXCEPT ![r] = now]
          /\ UNCHANGED <<now, submitted, payment>>
          /\ \A q \in Reviewers \ {r} : pc'[q] = pc[q]
      BY <1>6, <2>1, <1>1 DEF LockPayment, Goto, payments, TypeOK
    <3>2. \A q \in Reviewers \ {r} : HoldsPayment(q)' <=> HoldsPayment(q)
      BY <3>1 DEF HoldsPayment
    <3>3. QED
      BY <3>1, <3>2, <1>1, <1>2 DEF ReadsInTime, TypeOK
  <2>2. CASE status[payment[r]] # "PENDING"
    <3>1. /\ \E o : Finish(r, o)
          /\ readAt' = [readAt EXCEPT ![r] = 0]
          /\ UNCHANGED <<now, submitted, payment>>
      BY <1>6, <2>2 DEF LockPayment, payments, Finish
    <3>2. QED
      BY <3>1, <1>1, <1>2, FinishKeepsHolders DEF ReadsInTime, TypeOK
  <2>3. QED
    BY <2>1, <2>2
<1>7. ASSUME NEW r \in Reviewers, Commit(r) \/ Fail(r) PROVE ReadsInTime'
  <2>1. /\ \E o : Finish(r, o)
        /\ readAt' = [readAt EXCEPT ![r] = 0]
        /\ UNCHANGED <<now, submitted, payment>>
    BY <1>7 DEF Commit, Fail, payments, Finish
  <2>2. QED
    BY <2>1, <1>1, <1>2, FinishKeepsHolders DEF ReadsInTime, TypeOK
<1>8. ASSUME NEW r \in Reviewers, Extend(r) \/ Write(r) PROVE ReadsInTime'
  <2>1. /\ UNCHANGED <<submitted, readAt, payment>>
        /\ pc[r] \in {"extend", "write"}
        /\ \E step : pc' = [pc EXCEPT ![r] = step]
    BY <1>8 DEF Extend, Write, Goto, payments, locals
  <2>2. \A q \in Reviewers : HoldsPayment(q)' => HoldsPayment(q)
    BY <2>1, <1>1 DEF HoldsPayment, TypeOK
  <2>3. QED
    BY <2>1, <2>2, <1>3
<1>9. ASSUME NEW t \in Payments, InsertPayment(t) PROVE ReadsInTime'
  BY <1>9, <1>3 DEF InsertPayment, locals, HoldsPayment
<1>10. CASE EditPlan \/ Tick \/ UNCHANGED vars
  BY <1>10, <1>3 DEF EditPlan, Tick, vars, payments, locals, HoldsPayment
<1>11. QED
  BY <1>4, <1>5, <1>6, <1>7, <1>8, <1>9, <1>10 DEF Next, Serve

LEMMA StartsAtTheEndKept ==
  ASSUME StartInv, [Next]_vars
  PROVE  StartsAtTheEnd'
<1>1. ReviewInv /\ TypeOK /\ StartsAtTheEnd /\ ReadsInTime
  BY DEF StartInv, ReviewInv
<1> DEFINE SameApprovals(R) ==
      /\ UNCHANGED <<subs, owner>>
      /\ \A q \in R : HoldsSubscriptions(q)' =>
           /\ HoldsSubscriptions(q)
           /\ UNCHANGED <<payment[q], readAt[q], startsAt[q]>>
<1>2. SameApprovals(Reviewers) => StartsAtTheEnd'
  BY <1>1 DEF StartsAtTheEnd
<1>3. ASSUME NEW t \in Payments, ReadPlan(t) PROVE StartsAtTheEnd'
  <2>1. /\ status[t] = "unused"
        /\ \A p \in Payments \ {t} : owner'[p] = owner[p]
        /\ UNCHANGED <<subs, pc, locals>>
    BY <1>3, <1>1 DEF ReadPlan, TypeOK
  <2>2. \A q \in Reviewers : HoldsSubscriptions(q)' =>
          HoldsSubscriptions(q) /\ owner'[payment[q]] = owner[payment[q]]
    BY <2>1, <1>1
    DEF ReviewInv, HeldIsPending, HoldsSubscriptions, HoldsPayment, TypeOK,
        locals
  <2>3. QED
    BY <2>1, <2>2, <1>1 DEF StartsAtTheEnd, locals
<1>4. ASSUME NEW t \in Payments, InsertPayment(t) PROVE StartsAtTheEnd'
  BY <1>4, <1>2 DEF InsertPayment, locals, HoldsSubscriptions
<1>5. ASSUME NEW r \in Reviewers, Review(r) PROVE StartsAtTheEnd'
  <2>1. SameApprovals(Reviewers)
    BY <1>5, <1>1 DEF Review, Goto, HoldsSubscriptions, payments, TypeOK
  <2>2. QED
    BY <2>1, <1>2
<1>6. ASSUME NEW r \in Reviewers, LockPayment(r) PROVE StartsAtTheEnd'
  <2>1. SameApprovals(Reviewers)
    <3>1. CASE status[payment[r]] = "PENDING"
      BY <3>1, <1>6, <1>1
      DEF LockPayment, Goto, HoldsSubscriptions, payments, TypeOK
    <3>2. CASE status[payment[r]] # "PENDING"
      BY <3>2, <1>6, <1>1
      DEF LockPayment, Finish, Goto, HoldsSubscriptions, payments, TypeOK
    <3>3. QED
      BY <3>1, <3>2
  <2>2. QED
    BY <2>1, <1>2
<1>7. ASSUME NEW r \in Reviewers, Extend(r) PROVE StartsAtTheEnd'
  <2> DEFINE u == owner[payment[r]]
             ends == {s.expires : s \in Unexpired(u, readAt[r])}
  <2>1. PICK e \in ends \union {readAt[r]} :
          /\ \A f \in ends : f <= e
          /\ startsAt' = [startsAt EXCEPT ![r] = e]
    BY <1>7 DEF Extend
  <2>2. /\ pc' = [pc EXCEPT ![r] = "write"]
        /\ UNCHANGED <<subs, owner, payment, verdict, readAt>>
    BY <1>7 DEF Extend, Goto, payments
  <2>3. /\ readAt[r] \in Nat /\ \A s \in subs : s.expires \in Nat
    BY <1>1, TimesAreNaturals DEF TypeOK, Subscriptions
  <2>4. readAt[r] <= e
    BY <2>1, <2>3 DEF Unexpired
  <2>5. \A s \in subs : s.user = u => s.expires <= e
    <3>1. ASSUME NEW s \in subs, s.user = u PROVE s.expires <= e
      <4>1. CASE s.expires > readAt[r]
        BY <4>1, <3>1, <2>1 DEF Unexpired
      <4>2. CASE ~(s.expires > readAt[r])
        <5>1. s.expires <= readAt[r] /\ e \in Nat
          BY <4>2, <2>1, <2>3 DEF Unexpired
        <5>2. QED
          BY <5>1, <2>3, <2>4
      <4>3. QED
        BY <4>1, <4>2
    <3>2. QED
      BY <3>1
  <2>6. e = readAt[r] \/ \E s \in subs : s.user = u /\ s.expires = e
    BY <2>1 DEF Unexpired
  <2>7. \A q \in Reviewers \ {r} :
          /\ HoldsSubscriptions(q)' => HoldsSubscriptions(q)
          /\ startsAt'[q] = startsAt[q]
    BY <2>1, <2>2, <1>1 DEF HoldsSubscriptions, TypeOK
  <2>8. startsAt'[r] = e
    BY <2>1, <1>1 DEF TypeOK
  <2> HIDE DEF u, ends
  <2>9. QED
    BY <2>2, <2>4, <2>5, <2>6, <2>7, <2>8, <1>1 DEF StartsAtTheEnd, u
<1>8. ASSUME NEW r \in Reviewers, Write(r) PROVE StartsAtTheEnd'
  <2>1. SameApprovals(Reviewers)
    BY <1>8, <1>1 DEF Write, Goto, HoldsSubscriptions, payments, locals, TypeOK
  <2>2. QED
    BY <2>1, <1>2
<1>9. ASSUME NEW r \in Reviewers, Commit(r) PROVE StartsAtTheEnd'
  <2>1. /\ pc[r] = "commit" /\ Finish(r, "ok") /\ owner' = owner
        /\ subs' = subs \/ subs' = subs \union {NewSubscription(r)}
    BY <1>9 DEF Commit
  <2>2. \A q \in Reviewers : HoldsSubscriptions(q)' =>
          /\ q # r /\ HoldsSubscriptions(q)
          /\ UNCHANGED <<payment[q], readAt[q], startsAt[q]>>
    BY <2>1, <1>1 DEF Finish, Goto, HoldsSubscriptions, TypeOK
  <2>3. \A q \in Reviewers \ {r} :
          HoldsSubscriptions(q) => owner[payment[q]] # owner[payment[r]]
    BY <2>1, <1>1
    DEF ReviewInv, OneHolder, HeldIsPending, OneOpenPerUser,
        HoldsSubscriptions, HoldsPayment, TypeOK
  <2>4. NewSubscription(r).user = owner[payment[r]]
    BY NewSubscriptionType, <1>1
  <2>5. QED
    BY <2>1, <2>2, <2>3, <2>4, <1>1 DEF StartsAtTheEnd
<1>10. ASSUME NEW r \in Reviewers, Fail(r) PROVE StartsAtTheEnd'
  <2>1. SameApprovals(Reviewers)
    BY <1>10, <1>1 DEF Fail, Finish, Goto, HoldsSubscriptions, payments, TypeOK
  <2>2. QED
    BY <2>1, <1>2
<1>11. CASE EditPlan \/ Tick \/ UNCHANGED vars
  BY <1>11, <1>2
  DEF EditPlan, Tick, vars, payments, locals, HoldsSubscriptions
<1>12. QED
  BY <1>3, <1>4, <1>5, <1>6, <1>7, <1>8, <1>9, <1>10, <1>11 DEF Next, Serve

LEMMA StartInvKept == StartInv /\ [Next]_vars => StartInv'
  BY ReviewInvKept, ReadsInTimeKept, StartsAtTheEndKept DEF StartInv

LEMMA StartInvAlways == Spec => []StartInv
  BY StartInvInit, StartInvKept, PTL DEF Spec

-----------------------------------------------------------------------------
(* Sales, reviews and answers.                                             *)

\* A commit decides a request that was open.
LEMMA CommitDecides ==
  ASSUME StartInv, NEW r \in Reviewers, Commit(r)
  PROVE  /\ payment[r] \in Payments /\ verdict[r] \in Verdicts
         /\ status[payment[r]] = "PENDING"
         /\ status' = [status EXCEPT ![payment[r]] = verdict[r]]
         /\ UNCHANGED <<now, owner, reference, bought, submitted, payment, verdict>>
         /\ subs' = IF verdict[r] = "APPROVED"
                    THEN subs \union {NewSubscription(r)} ELSE subs
         /\ outcome' = [outcome EXCEPT ![r] = "ok"]
         /\ verdict[r] = "APPROVED" => HoldsSubscriptions(r)
  BY DEF StartInv, ReviewInv, TypeOK, HeldIsPending, HoldsPayment,
         HoldsSubscriptions, Commit, Finish

\* Without a commit no request is decided, and a row stays what it is.
LEMMA OthersDecideNothing ==
  ASSUME TypeOK, [Next]_vars, ~ \E r \in Reviewers : Commit(r)
  PROVE  /\ UNCHANGED <<subs, reviews>>
         /\ \A t \in Payments :
              IF IsRow(t)
              THEN UNCHANGED <<status[t], owner[t], reference[t], bought[t],
                               submitted[t]>>
              ELSE status'[t] \notin Verdicts
<1>1. CASE UNCHANGED payments
  BY <1>1, OthersSellNothing DEF payments, IsRow
<1>2. ASSUME NEW t \in Payments, ReadPlan(t) \/ InsertPayment(t)
      PROVE  \A p \in Payments :
               IF IsRow(p)
               THEN UNCHANGED <<status[p], owner[p], reference[p], bought[p],
                                submitted[p]>>
               ELSE status'[p] \notin Verdicts
  BY <1>2 DEF ReadPlan, InsertPayment, IsRow, Verdicts, TypeOK
<1>3. UNCHANGED payments
        \/ \E t \in Payments : ReadPlan(t) \/ InsertPayment(t)
  BY DEF Next, Serve, Review, LockPayment, Extend, Write, Fail, EditPlan, Tick,
         vars, payments
<1>4. QED
  BY <1>1, <1>2, <1>3, OthersSellNothing

LEMMA ApprovalSellsOnceKept ==
  ASSUME StartInv, ApprovalSellsOnce, [Next]_vars
  PROVE  ApprovalSellsOnce'
<1>1. TypeOK
  BY DEF StartInv, ReviewInv
<1>2. ASSUME NEW r \in Reviewers, Commit(r) PROVE ApprovalSellsOnce'
  <2> DEFINE new == NewSubscription(r)
  <2>1. /\ new.payment = payment[r] /\ new.user = owner[payment[r]]
        /\ new.expires = new.starts + bought[payment[r]]
    BY NewSubscriptionType, <1>1
  <2>2. /\ payment[r] \in Payments /\ verdict[r] \in Verdicts
        /\ status[payment[r]] = "PENDING"
        /\ status' = [status EXCEPT ![payment[r]] = verdict[r]]
        /\ UNCHANGED <<owner, bought, payment>>
        /\ subs' = IF verdict[r] = "APPROVED" THEN subs \union {new} ELSE subs
    BY <1>2, CommitDecides
  <2> HIDE DEF new
  <2>3. Sold(payment[r]) = {}
    BY <2>2 DEF ApprovalSellsOnce
  <2>4. ASSUME NEW t \in Payments, t # payment[r]
        PROVE  Sold(t)' = Sold(t) /\ status'[t] = status[t]
    BY <2>1, <2>2, <2>4, <1>1 DEF Sold, TypeOK
  <2>5. status'[payment[r]] = verdict[r]
    BY <2>2, <1>1 DEF TypeOK
  <2>6. Sold(payment[r])' = IF verdict[r] = "APPROVED" THEN {new} ELSE {}
    BY <2>1, <2>2, <2>3 DEF Sold
  <2>7. QED
    BY <2>1, <2>2, <2>4, <2>5, <2>6 DEF ApprovalSellsOnce
<1>3. CASE ~ \E r \in Reviewers : Commit(r)
  <2>1. \A t \in Payments : Sold(t)' = Sold(t)
    BY <1>1, <1>3, OthersDecideNothing DEF Sold
  <2>2. subs' = subs
    BY <1>1, <1>3, OthersDecideNothing
  <2>3. ASSUME NEW t \in Payments, IsRow(t)
        PROVE  /\ status'[t] = status[t] /\ owner'[t] = owner[t]
               /\ bought'[t] = bought[t]
    BY <1>1, <1>3, <2>3, OthersDecideNothing
  <2>4. ASSUME NEW t \in Payments, ~IsRow(t)
        PROVE  status[t] \notin Verdicts /\ status'[t] \notin Verdicts
    BY <1>1, <1>3, <2>4, OthersDecideNothing DEF IsRow
  <2>5. QED
    BY <2>1, <2>2, <2>3, <2>4 DEF ApprovalSellsOnce, Verdicts
<1>4. QED
  BY <1>2, <1>3

LEMMA ReviewedOnceKept ==
  ASSUME StartInv, ReviewedOnce, [Next]_vars
  PROVE  ReviewedOnce'
<1>1. TypeOK
  BY DEF StartInv, ReviewInv
<1> DEFINE Trail(t) == {v \in reviews : v.payment = t}
<1>2. ASSUME NEW r \in Reviewers, Commit(r) PROVE ReviewedOnce'
  <2> DEFINE new == [payment |-> payment[r], action |-> verdict[r], by |-> r]
  <2>1. /\ payment[r] \in Payments /\ verdict[r] \in Verdicts
        /\ status[payment[r]] = "PENDING"
        /\ status' = [status EXCEPT ![payment[r]] = verdict[r]]
        /\ payment' = payment
    BY <1>2, CommitDecides
  <2>2. reviews' = reviews \union {new}
    BY <1>2 DEF Commit
  <2>3. new.payment = payment[r] /\ new.action = verdict[r]
    OBVIOUS
  <2> HIDE DEF new
  <2>4. Trail(payment[r]) = {}
    BY <2>1 DEF ReviewedOnce, Verdicts
  <2>5. Trail(payment[r])' = {new} /\ status'[payment[r]] = verdict[r]
    BY <2>1, <2>2, <2>3, <2>4, <1>1 DEF TypeOK
  <2>6. \A t \in Payments \ {payment[r]} :
          Trail(t)' = Trail(t) /\ status'[t] = status[t]
    BY <2>1, <2>2, <2>3, <1>1 DEF TypeOK
  <2> HIDE DEF Trail
  <2>7. \A t \in Payments :
          IF status[t] \in Verdicts
          THEN \E v \in Trail(t) : Trail(t) = {v} /\ v.action = status[t]
          ELSE Trail(t) = {}
    BY DEF ReviewedOnce, Trail
  <2>8. \A t \in Payments :
          IF status'[t] \in Verdicts
          THEN \E v \in Trail(t)' : Trail(t)' = {v} /\ v.action = status'[t]
          ELSE Trail(t)' = {}
    BY <2>1, <2>3, <2>5, <2>6, <2>7
  <2>9. QED
    BY <2>8 DEF ReviewedOnce, Trail
<1>3. CASE ~ \E r \in Reviewers : Commit(r)
  <2>1. reviews' = reviews
    BY <1>1, <1>3, OthersDecideNothing
  <2>2. \A t \in Payments :
          status'[t] \in Verdicts \/ status[t] \in Verdicts
            => status'[t] = status[t]
    BY <1>1, <1>3, OthersDecideNothing DEF IsRow
  <2>3. QED
    BY <2>1, <2>2 DEF ReviewedOnce
<1>4. QED
  BY <1>2, <1>3

LEMMA AnswerHoldsKept ==
  ASSUME StartInv, AnswerHolds, [Next]_vars
  PROVE  AnswerHolds'
<1>1. TypeOK
  BY DEF StartInv, ReviewInv
<1>2. ASSUME NEW r \in Reviewers, Commit(r) PROVE AnswerHolds'
  BY <1>1, <1>2, CommitDecides DEF AnswerHolds, TypeOK, Verdicts
<1>3. CASE ~ \E r \in Reviewers : Commit(r)
  <2>1. \A t \in Payments : status[t] \in Verdicts => status'[t] = status[t]
    BY <1>1, <1>3, OthersDecideNothing DEF IsRow
  <2>2. ASSUME NEW q \in Reviewers, outcome'[q] = "ok"
        PROVE  /\ UNCHANGED <<payment[q], verdict[q]>>
               /\ status[payment[q]] = verdict[q]
    <3>1. CASE UNCHANGED <<payment, verdict, outcome>>
      BY <2>2, <3>1 DEF AnswerHolds
    <3>2. ASSUME NEW r \in Reviewers, Review(r)
          PROVE  /\ UNCHANGED <<payment[q], verdict[q]>>
                 /\ status[payment[q]] = verdict[q]
      BY <1>1, <2>2, <3>2 DEF Review, AnswerHolds, TypeOK
    <3>3. ASSUME NEW r \in Reviewers, LockPayment(r) \/ Fail(r)
          PROVE  /\ UNCHANGED <<payment[q], verdict[q]>>
                 /\ status[payment[q]] = verdict[q]
      BY <1>1, <2>2, <3>3 DEF LockPayment, Fail, Finish, AnswerHolds, TypeOK
    <3>4. QED
      BY <1>3, <3>1, <3>2, <3>3
      DEF Next, Serve, ReadPlan, InsertPayment, Extend, Write, EditPlan, Tick,
          vars, locals
  <2>3. QED
    BY <1>1, <2>1, <2>2 DEF AnswerHolds, TypeOK
<1>4. QED
  BY <1>2, <1>3

\* An approved request has one subscription, of the length bought, and no
\* other has one: concurrent approvals and rejections never sell it twice.
THEOREM ApprovalAlwaysSellsOnce == Spec => []ApprovalSellsOnce
<1>1. Init => ApprovalSellsOnce
  BY DEF Init, ApprovalSellsOnce, Sold
<1>2. StartInv /\ ApprovalSellsOnce /\ [Next]_vars => ApprovalSellsOnce'
  BY ApprovalSellsOnceKept
<1>3. QED
  BY <1>1, <1>2, StartInvAlways, PTL DEF Spec

\* Each decided request has one review, with the verdict that stands.
THEOREM AlwaysReviewedOnce == Spec => []ReviewedOnce
<1>1. Init => ReviewedOnce
  BY DEF Init, ReviewedOnce, Verdicts
<1>2. StartInv /\ ReviewedOnce /\ [Next]_vars => ReviewedOnce'
  BY ReviewedOnceKept
<1>3. QED
  BY <1>1, <1>2, StartInvAlways, PTL DEF Spec

\* A reviewer who is told "ok" finds the request decided that way for good.
THEOREM AnswersAlwaysHold == Spec => []AnswerHolds
<1>1. Init => AnswerHolds
  BY DEF Init, AnswerHolds
<1>2. StartInv /\ AnswerHolds /\ [Next]_vars => AnswerHolds'
  BY AnswerHoldsKept
<1>3. QED
  BY <1>1, <1>2, StartInvAlways, PTL DEF Spec

-----------------------------------------------------------------------------
(* Periods.                                                                *)

\* A user who has paid for some day ahead has paid for every day before it.
NoGapAhead ==
  \A s \in subs : \A day \in now..(s.expires - 1) :
    \E x \in subs : x.user = s.user /\ x.starts <= day /\ day < x.expires

\* A commit sells nothing, or a period after all the others of its user, which
\* follows the last of them or starts in the past.
LEMMA CommitExtends ==
  ASSUME StartInv, NEW r \in Reviewers, Commit(r)
  PROVE  LET new == NewSubscription(r)
         IN  /\ new \in Subscriptions /\ new.starts < new.expires
             /\ \/ subs' = subs
                \/ /\ subs' = subs \union {new}
                   /\ \A s \in subs :
                        s.user = new.user => s.expires <= new.starts
                   /\ \/ new.starts <= now
                      \/ \E s \in subs : /\ s.user = new.user
                                         /\ s.expires = new.starts
<1> DEFINE new == NewSubscription(r)
<1>1. TypeOK /\ StartsAtTheEnd /\ ReadsInTime
  BY DEF StartInv, ReviewInv
<1>2. /\ new \in Subscriptions /\ new.starts < new.expires
      /\ new.user = owner[payment[r]] /\ new.starts = startsAt[r]
  BY <1>1, NewSubscriptionType
<1>3. /\ subs' = IF verdict[r] = "APPROVED" THEN subs \union {new} ELSE subs
      /\ verdict[r] = "APPROVED" => HoldsSubscriptions(r)
  BY CommitDecides
<1>4. readAt[r] <= now
  BY <1>1 DEF ReadsInTime
<1> HIDE DEF new
<1>5. CASE HoldsSubscriptions(r)
  BY <1>1, <1>2, <1>3, <1>4, <1>5 DEF StartsAtTheEnd, new
<1>6. CASE ~HoldsSubscriptions(r)
  BY <1>2, <1>3, <1>6 DEF new
<1>7. QED
  BY <1>5, <1>6 DEF new

LEMMA PeriodsKept ==
  ASSUME StartInv, PeriodsDisjoint, NoGapAhead, [Next]_vars
  PROVE  PeriodsDisjoint' /\ NoGapAhead'
<1>1. TypeOK
  BY DEF StartInv, ReviewInv
<1>2. /\ now \in Nat /\ now' \in Nat /\ now <= now'
      /\ \A s \in subs : s.starts \in Nat /\ s.expires \in Nat
  BY <1>1, OthersSellNothing DEF TypeOK, Subscriptions
<1>3. CASE subs' = subs
  <2>1. PeriodsDisjoint'
    BY <1>3 DEF PeriodsDisjoint
  <2>2. \A s \in subs : now'..(s.expires - 1) \subseteq now..(s.expires - 1)
    BY <1>2
  <2>3. NoGapAhead'
    BY <1>3, <2>2 DEF NoGapAhead
  <2>4. QED
    BY <2>1, <2>3
<1>4. ASSUME NEW r \in Reviewers, Commit(r), subs' # subs
      PROVE  PeriodsDisjoint' /\ NoGapAhead'
  <2> DEFINE new == NewSubscription(r)
  <2>1. /\ new \in Subscriptions /\ new.starts < new.expires
        /\ subs' = subs \union {new}
        /\ \A s \in subs : s.user = new.user => s.expires <= new.starts
        /\ \/ new.starts <= now
           \/ \E s \in subs : s.user = new.user /\ s.expires = new.starts
    BY <1>4, CommitExtends
  <2>2. now' = now
    BY <1>4, CommitDecides
  <2>3. new.starts \in Nat /\ new.expires \in Nat
    BY <2>1 DEF Subscriptions
  <2> HIDE DEF new
  <2>4. PeriodsDisjoint'
    BY <2>1 DEF PeriodsDisjoint
  <2>5. ASSUME NEW day \in now..(new.expires - 1)
        PROVE  \E x \in subs' :
                 x.user = new.user /\ x.starts <= day /\ day < x.expires
    <3>1. CASE new.starts <= day
      BY <1>2, <2>1, <2>3, <3>1
    <3>2. CASE day < new.starts
      <4>1. PICK s \in subs : s.user = new.user /\ s.expires = new.starts
        BY <1>2, <2>1, <2>3, <3>2
      <4>2. day \in now..(s.expires - 1)
        BY <1>2, <2>3, <3>2, <4>1
      <4>3. QED
        BY <2>1, <4>1, <4>2 DEF NoGapAhead
    <3>3. QED
      BY <1>2, <2>3, <3>1, <3>2
  <2>6. NoGapAhead'
    BY <2>1, <2>2, <2>5 DEF NoGapAhead
  <2>7. QED
    BY <2>4, <2>6
<1>5. QED
  BY <1>1, <1>3, <1>4, OthersSellNothing

LEMMA PeriodsInit == Init => PeriodsDisjoint /\ NoGapAhead
  BY DEF Init, PeriodsDisjoint, NoGapAhead

LEMMA PeriodsAlways == Spec => [](StartInv /\ PeriodsDisjoint /\ NoGapAhead)
<1>1. Init => StartInv /\ PeriodsDisjoint /\ NoGapAhead
  BY StartInvInit, PeriodsInit
<1>2. StartInv /\ PeriodsDisjoint /\ NoGapAhead /\ [Next]_vars
        => (StartInv /\ PeriodsDisjoint /\ NoGapAhead)'
  BY StartInvKept, PeriodsKept
<1>3. QED
  BY <1>1, <1>2, PTL DEF Spec

\* No day is sold twice to a user, whoever approves his requests and when.
THEOREM PeriodsAlwaysDisjoint == Spec => []PeriodsDisjoint
  BY PeriodsAlways, PTL

\* A user with paid time ahead has a period that runs now.
THEOREM PremiumAsLongAsPaid == Spec => []PremiumWhilePaid
<1>1. StartInv /\ NoGapAhead => PremiumWhilePaid
  <2> SUFFICES ASSUME StartInv, NoGapAhead, NEW s \in subs, now < s.expires
               PROVE  Active(s.user) # {}
    BY DEF PremiumWhilePaid
  <2>1. now \in Nat /\ s.expires \in Nat
    BY TimesAreNaturals DEF StartInv, ReviewInv, TypeOK, Subscriptions
  <2>2. now \in now..(s.expires - 1)
    BY <2>1
  <2>3. PICK x \in subs : x.user = s.user /\ x.starts <= now /\ now < x.expires
    BY <2>2 DEF NoGapAhead
  <2>4. x \in Active(s.user)
    BY <2>3 DEF Active
  <2>5. QED
    BY <2>4
<1>2. QED
  BY <1>1, PeriodsAlways, PTL

-----------------------------------------------------------------------------
(* Refinement.                                                             *)

IsLast(e, ends) == e \in ends /\ \A f \in ends : f <= e

Ends(u) == {s.expires : s \in {x \in subs : x.user = u}} \union {0}

\* Without it PaidThrough would have nothing to choose.
LastEndExists == \A u \in Users : \E e \in Ends(u) : IsLast(e, Ends(u))

LEMMA LastIsChosen ==
  ASSUME NEW ends, ends \subseteq Nat, NEW e, IsLast(e, ends)
  PROVE  (CHOOSE x \in ends : \A f \in ends : f <= x) = e
<1> DEFINE P(x) == \A f \in ends : f <= x
<1>1. e \in ends /\ P(e)
  BY DEF IsLast
<1>2. \A x \in ends : P(x) => x = e
  BY <1>1
<1>3. QED
  BY <1>1, <1>2

LEMMA PaidThroughIsLast ==
  ASSUME TypeOK, LastEndExists, NEW u \in Users
  PROVE  PaidThrough(u) \in Nat /\ IsLast(PaidThrough(u), Ends(u))
<1>1. Ends(u) \subseteq Nat
  BY DEF TypeOK, Subscriptions, Ends
<1>2. PICK e \in Ends(u) : IsLast(e, Ends(u))
  BY DEF LastEndExists
<1>3. PaidThrough(u) = (CHOOSE x \in Ends(u) : \A f \in Ends(u) : f <= x)
  BY DEF PaidThrough, Ends
<1>4. QED
  BY <1>1, <1>2, <1>3, LastIsChosen

\* A sale moves the end of what its user has paid for, and no other's.
LEMMA CommitMovesEnd ==
  ASSUME StartInv, LastEndExists, NEW r \in Reviewers, Commit(r),
         verdict[r] = "APPROVED"
  PROVE  /\ LastEndExists'
         /\ \A v \in Users :
              PaidThrough(v)' =
                IF v = owner[payment[r]]
                THEN Promise!Later(PaidThrough(v), readAt[r]) + bought[payment[r]]
                ELSE PaidThrough(v)
<1> DEFINE new == NewSubscription(r)
           u == owner[payment[r]]
<1>1. TypeOK /\ TypeOK'
  BY TypeKept DEF StartInv, ReviewInv, Next, Serve
<1>2. /\ HoldsSubscriptions(r)
      /\ subs' = subs \union {new}
      /\ u \in Users
  BY <1>1, CommitDecides DEF TypeOK
<1>3. /\ new.user = u /\ startsAt[r] < new.expires
      /\ new.expires = startsAt[r] + bought[payment[r]]
      /\ new \in Subscriptions
  BY <1>1, NewSubscriptionType
<1>4. /\ readAt[r] <= startsAt[r]
      /\ \A f \in Ends(u) : f <= startsAt[r]
      /\ startsAt[r] = readAt[r] \/ startsAt[r] \in Ends(u)
      /\ startsAt[r] \in Nat /\ readAt[r] \in Nat /\ new.expires \in Nat
  BY <1>1, <1>2, <1>3, TimesAreNaturals
  DEF StartInv, StartsAtTheEnd, Ends, TypeOK, Subscriptions
<1> HIDE DEF new, u
<1>5. PaidThrough(u) \in Nat /\ IsLast(PaidThrough(u), Ends(u))
  BY <1>1, <1>2, PaidThroughIsLast
<1>6. startsAt[r] = Promise!Later(PaidThrough(u), readAt[r])
  BY <1>4, <1>5 DEF IsLast, Promise!Later
<1>7. \A v \in Users : /\ Ends(v) \subseteq Nat
                       /\ Ends(v)' = IF v = u THEN Ends(v) \union {new.expires}
                                     ELSE Ends(v)
  BY <1>1, <1>2, <1>3 DEF Ends, TypeOK, Subscriptions
<1>8. \A v \in Users :
        IsLast(IF v = u THEN new.expires ELSE PaidThrough(v), Ends(v)')
  <2>1. IsLast(new.expires, Ends(u) \union {new.expires})
    BY <1>2, <1>3, <1>4, <1>7 DEF IsLast
  <2>2. \A v \in Users : IsLast(PaidThrough(v), Ends(v))
    BY <1>1, PaidThroughIsLast
  <2>3. QED
    BY <1>7, <2>1, <2>2
<1>9. LastEndExists'
  <2>1. \A v \in Users : \E e \in Ends(v)' : IsLast(e, Ends(v)')
    BY <1>8 DEF IsLast
  <2>2. QED
    BY <2>1 DEF LastEndExists, IsLast
<1>10. ASSUME NEW v \in Users
       PROVE  PaidThrough(v)' =
                IF v = u THEN new.expires ELSE PaidThrough(v)
  <2>1. Ends(v)' \subseteq Nat
    BY <1>4, <1>7
  <2>2. PaidThrough(v)' = (CHOOSE x \in Ends(v)' : \A f \in Ends(v)' : f <= x)
    BY DEF PaidThrough, Ends
  <2>3. QED
    BY <1>8, <2>1, <2>2, LastIsChosen
<1>11. QED
  BY <1>3, <1>6, <1>9, <1>10 DEF u

LEMMA LastEndKept ==
  ASSUME StartInv, LastEndExists, [Next]_vars
  PROVE  LastEndExists'
<1>1. CASE subs' = subs
  BY <1>1 DEF LastEndExists, Ends, IsLast
<1>2. ASSUME NEW r \in Reviewers, Commit(r), subs' # subs
      PROVE  LastEndExists'
  BY <1>2, CommitDecides, CommitMovesEnd
<1>3. QED
  BY <1>1, <1>2, OthersSellNothing DEF StartInv, ReviewInv

OnlyRequest(t) ==
  \A p \in Payments \ {t} :
    UNCHANGED <<status[p], owner[p], reference[p], bought[p], submitted[p]>>

\* What becomes of the bills with status s when only request t changes.
LEMMA BillsKept ==
  ASSUME NEW t \in Payments, OnlyRequest(t)
  PROVE  \A s : status[t] # s /\ status'[t] # s
                  => BillsThatAre(s)' = BillsThatAre(s)
  BY DEF OnlyRequest, BillsThatAre, Bill

LEMMA BillAdded ==
  ASSUME NEW t \in Payments, OnlyRequest(t),
         UNCHANGED <<owner[t], reference[t], bought[t], submitted[t]>>
  PROVE  \A s : status[t] # s /\ status'[t] = s
                  => BillsThatAre(s)' = BillsThatAre(s) \union {Bill(t)}
  BY DEF OnlyRequest, BillsThatAre, Bill

LEMMA BillRemoved ==
  ASSUME NEW t \in Payments, OnlyRequest(t)
  PROVE  \A s : status[t] = s /\ status'[t] # s
                  => /\ Bill(t) \in BillsThatAre(s)
                     /\ BillsThatAre(s)' = BillsThatAre(s) \ {Bill(t)}
<1>1. \A p : Bill(p).payment = p
  BY DEF Bill
<1>2. \A p \in Payments \ {t} : Bill(p)' = Bill(p) /\ status'[p] = status[p]
  BY DEF OnlyRequest, Bill
<1>3. QED
  BY <1>1, <1>2 DEF BillsThatAre

LEMMA PaidThroughKept ==
  ASSUME UNCHANGED subs
  PROVE  \A u : PaidThrough(u)' = PaidThrough(u)
  BY DEF PaidThrough

\* A new row is a bill that takes nobody's place.
LEMMA InsertIsSubmit ==
  ASSUME StartInv, NEW t \in Payments, InsertPayment(t)
  PROVE  [Promise!PTNext]_(Promise!ptVars)
<1>1. TypeOK /\ ReadsInTime /\ \A u : PaidThrough(u)' = PaidThrough(u)
  BY PaidThroughKept DEF StartInv, ReviewInv, InsertPayment
<1>2. /\ status[t] = "draft"
      /\ status' = [status EXCEPT ![t] =
           IF \E p \in Payments : TakesPlaceOf(p, t)
           THEN "refused" ELSE "PENDING"]
      /\ UNCHANGED <<now, owner, reference, bought, submitted>>
  BY DEF InsertPayment
<1>3. /\ \A p \in Payments \ {t} : status'[p] = status[p]
      /\ status'[t] = IF \E p \in Payments : TakesPlaceOf(p, t)
                      THEN "refused" ELSE "PENDING"
      /\ Bill(t)' = Bill(t)
  BY <1>1, <1>2 DEF TypeOK, Bill
<1>4. /\ BillsThatAre("APPROVED")' = BillsThatAre("APPROVED")
      /\ BillsThatAre("REJECTED")' = BillsThatAre("REJECTED")
      /\ BillsThatAre("PENDING")' =
           IF status'[t] = "PENDING"
           THEN BillsThatAre("PENDING") \union {Bill(t)}
           ELSE BillsThatAre("PENDING")
  <2>1. OnlyRequest(t)
    BY <1>2, <1>3 DEF OnlyRequest
  <2>2. status[t] = "draft" /\ status'[t] \in {"refused", "PENDING"}
    BY <1>2, <1>3
  <2>3. QED
    BY <2>1, <2>2, <1>2, BillsKept, BillAdded
<1>5. CASE \E p \in Payments : TakesPlaceOf(p, t)
  BY <1>1, <1>2, <1>3, <1>4, <1>5 DEF Promise!ptVars
<1>6. CASE ~ \E p \in Payments : TakesPlaceOf(p, t)
  <2>1. /\ Bill(t).payment = t /\ Bill(t).payer = owner[t]
        /\ Bill(t).reference = reference[t] /\ Bill(t).since = submitted[t]
    BY DEF Bill
  <2>2. ASSUME NEW st \in {"PENDING", "APPROVED", "REJECTED"},
               NEW x \in BillsThatAre(st)
        PROVE  /\ x.payment # t /\ x.reference # reference[t]
               /\ st = "PENDING" => x.payer # owner[t]
    <3>1. PICK p \in Payments : status[p] = st /\ x = Bill(p)
      BY DEF BillsThatAre
    <3>2. x.payment = p /\ x.reference = reference[p] /\ x.payer = owner[p]
      BY <3>1 DEF Bill
    <3>3. ~TakesPlaceOf(p, t) /\ IsRow(p) /\ p # t
      BY <1>2, <1>6, <3>1 DEF IsRow, Verdicts
    <3>4. QED
      BY <3>1, <3>2, <3>3 DEF TakesPlaceOf
  <2>3. Promise!Submit(Bill(t))
    BY <1>1, <1>2, <1>3, <1>4, <1>6, <2>1, <2>2 DEF Promise!Submit, ReadsInTime
  <2>4. Bill(t) \in BillsThatAre("PENDING")'
    BY <1>3, <1>4, <1>6
  <2>5. QED
    BY <2>3, <2>4 DEF Promise!PTNext, Promise!Submit
<1>7. QED
  BY <1>5, <1>6

\* A commit accepts the bill, from the day it was looked at, or refuses it.
LEMMA CommitIsVerdict ==
  ASSUME StartInv, LastEndExists, NEW r \in Reviewers, Commit(r)
  PROVE  Promise!PTNext
<1> DEFINE t == payment[r]
<1>1. TypeOK /\ ReadsInTime
  BY DEF StartInv, ReviewInv
<1>2. /\ t \in Payments /\ verdict[r] \in Verdicts /\ status[t] = "PENDING"
      /\ status' = [status EXCEPT ![t] = verdict[r]]
      /\ UNCHANGED <<now, owner, reference, bought, submitted, payment>>
      /\ verdict[r] # "APPROVED" => subs' = subs
  BY CommitDecides
<1>3. /\ submitted[t] <= readAt[r] /\ readAt[r] <= now
      /\ submitted[t] \in Nat /\ readAt[r] \in Nat /\ now \in Nat
  <2>1. HoldsPayment(r)
    BY DEF Commit, HoldsPayment
  <2>2. QED
    BY <1>1, <1>2, <2>1, TimesAreNaturals DEF ReadsInTime, TypeOK
<1> HIDE DEF t
<1>4. /\ \A p \in Payments \ {t} : status'[p] = status[p]
      /\ status'[t] = verdict[r]
      /\ Bill(t)' = Bill(t)
  BY <1>1, <1>2 DEF TypeOK, Bill, t
<1>5. /\ Bill(t) \in BillsThatAre("PENDING")
      /\ BillsThatAre("PENDING")' = BillsThatAre("PENDING") \ {Bill(t)}
      /\ \A v \in Verdicts :
           BillsThatAre(v)' = IF v = verdict[r]
                              THEN BillsThatAre(v) \union {Bill(t)}
                              ELSE BillsThatAre(v)
  <2>1. OnlyRequest(t)
    BY <1>2, <1>4 DEF OnlyRequest
  <2>2. QED
    BY <2>1, <1>2, <1>4, BillsKept, BillAdded, BillRemoved DEF Verdicts
<1>6. /\ Bill(t).payer = owner[t] /\ Bill(t).days = bought[t]
      /\ Bill(t).since = submitted[t]
  BY DEF Bill
<1>7. CASE verdict[r] = "APPROVED"
  <2>1. [u \in Users |-> PaidThrough(u)]' =
          [[u \in Users |-> PaidThrough(u)] EXCEPT ![owner[t]] =
             Promise!Later(@, readAt[r]) + bought[t]]
    BY <1>7, CommitMovesEnd DEF t
  <2>2. readAt[r] \in submitted[t]..now
    BY <1>3
  <2>3. Promise!Accept(Bill(t))
    BY <1>2, <1>5, <1>6, <1>7, <2>1, <2>2 DEF Promise!Accept, Verdicts
  <2>4. QED
    BY <1>5, <2>3 DEF Promise!PTNext, Promise!Accept
<1>8. CASE verdict[r] = "REJECTED"
  <2>1. \A u : PaidThrough(u)' = PaidThrough(u)
    BY <1>2, <1>8, PaidThroughKept
  <2>2. Promise!Refuse(Bill(t))
    BY <1>2, <1>5, <1>8, <2>1 DEF Promise!Refuse, Verdicts
  <2>3. QED
    BY <1>5, <2>2 DEF Promise!PTNext, Promise!Refuse
<1>9. QED
  BY <1>2, <1>7, <1>8 DEF Verdicts

LEMMA StepIsPaidTimeStep ==
  ASSUME StartInv, LastEndExists, [Next]_vars
  PROVE  [Promise!PTNext]_(Promise!ptVars)
<1>1. CASE UNCHANGED <<payments, subs>>
  <2>1. /\ \A u : PaidThrough(u)' = PaidThrough(u)
        /\ \A s : BillsThatAre(s)' = BillsThatAre(s)
    BY <1>1 DEF PaidThrough, BillsThatAre, Bill, payments
  <2>2. now' = now \/ now' = now + 1
    BY DEF Next, Serve, ReadPlan, InsertPayment, Review, LockPayment, Extend,
           Write, Commit, Fail, EditPlan, Tick, vars
  <2>3. CASE now' = now
    BY <2>1, <2>3 DEF Promise!ptVars
  <2>4. CASE now' = now + 1
    BY <2>1, <2>4 DEF Promise!PTNext, Promise!Tick
  <2>5. QED
    BY <2>2, <2>3, <2>4
<1>2. ASSUME NEW t \in Payments, ReadPlan(t)
      PROVE  [Promise!PTNext]_(Promise!ptVars)
  <2>1. /\ OnlyRequest(t)
        /\ status[t] = "unused" /\ status'[t] = "draft"
        /\ UNCHANGED <<now, subs>>
    BY <1>2 DEF ReadPlan, OnlyRequest, StartInv, ReviewInv, TypeOK
  <2>2. \A s \in {"PENDING", "APPROVED", "REJECTED"} :
          BillsThatAre(s)' = BillsThatAre(s)
    BY <2>1, BillsKept
  <2>3. QED
    BY <2>1, <2>2, PaidThroughKept DEF Promise!ptVars
<1>3. ASSUME NEW t \in Payments, InsertPayment(t)
      PROVE  [Promise!PTNext]_(Promise!ptVars)
  BY <1>3, InsertIsSubmit
<1>4. ASSUME NEW r \in Reviewers, Commit(r)
      PROVE  [Promise!PTNext]_(Promise!ptVars)
  BY <1>4, CommitIsVerdict
<1>5. \/ UNCHANGED <<payments, subs>>
      \/ \E t \in Payments : ReadPlan(t) \/ InsertPayment(t)
      \/ \E r \in Reviewers : Commit(r)
  BY DEF Next, Serve, Review, LockPayment, Extend, Write, Fail, EditPlan, Tick,
         vars, payments
<1>6. QED
  BY <1>1, <1>2, <1>3, <1>4, <1>5

LEMMA StartIsPaidTimeStart == Init => LastEndExists /\ Promise!PTInit
<1> SUFFICES ASSUME Init PROVE LastEndExists /\ Promise!PTInit
  OBVIOUS
<1>1. \A u : Ends(u) = {0} /\ IsLast(0, Ends(u))
  BY DEF Init, Ends, IsLast
<1>2. \A u : PaidThrough(u) = 0
  BY DEF Init, PaidThrough
<1>3. \A s \in {"PENDING", "APPROVED", "REJECTED"} : BillsThatAre(s) = {}
  BY DEF Init, BillsThatAre
<1>4. QED
  BY <1>1, <1>2, <1>3 DEF Init, LastEndExists, Promise!PTInit

\* Subscription implements PaidTime: a reference is decided once, and an
\* approval adds the days bought to the end of the time already paid for.
THEOREM SubscriptionImplementsPaidTime == Spec => ImplementsPaidTime
<1>1. Init => StartInv /\ LastEndExists /\ Promise!PTInit
  BY StartInvInit, StartIsPaidTimeStart
<1>2. StartInv /\ LastEndExists /\ [Next]_vars => (StartInv /\ LastEndExists)'
  BY StartInvKept, LastEndKept
<1>3. StartInv /\ LastEndExists /\ [Next]_vars
        => [Promise!PTNext]_(Promise!ptVars)
  BY StepIsPaidTimeStep
<1>4. QED
  BY <1>1, <1>2, <1>3, PTL DEF Spec, ImplementsPaidTime, Promise!PTSpec
=============================================================================
