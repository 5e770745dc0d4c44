---------------------------- MODULE Subscription ----------------------------
(***************************************************************************)
(* Manual payments and the subscriptions they buy: the handlers             *)
(* CreateManualPaymentRequest, ApprovePaymentRequest and                    *)
(* RejectPaymentRequest of internal/subscription, run by users and          *)
(* reviewers at the same time over one READ COMMITTED database.             *)
(*                                                                         *)
(* A member of Payments is one call of CreateManualPaymentRequest and the   *)
(* row it inserts; a member of Reviewers is a goroutine that serves one     *)
(* review after another.  What a transaction has written is in its locals   *)
(* until it commits, and pc says which row locks it holds.                  *)
(***************************************************************************)
EXTENDS Naturals, FiniteSets

CONSTANTS
  Users,       \* accounts that pay
  Payments,    \* calls of CreateManualPaymentRequest
  Reviewers,   \* concurrent handlers of approve and reject
  References,  \* paymentReference values (with their provider)
  Terms,       \* durations a plan may have, in days
  FirstTerm,   \* the duration of the plan at the start
  MaxTime,     \* bound: the last day of the model
  MaxFaults    \* bound: how many handlers die

ASSUME TermsAssumption == Terms \subseteq Nat \ {0} /\ FirstTerm \in Terms
ASSUME TimeAssumption == MaxTime \in Nat
ASSUME PaymentFaultsAssumption == MaxFaults \in Nat

Verdicts == {"APPROVED", "REJECTED"}
Times == 0..MaxTime

VARIABLES
  \* the committed database
  now,        \* the clock, in days
  term,       \* subscription_plans.duration_days
  status,     \* manual_payment_requests.status, and how far the call is
  owner,      \* user_id
  reference,  \* payment_reference
  bought,     \* duration_days_snapshot
  submitted,  \* submitted_at
  subs,       \* user_subscriptions
  reviews,    \* payment_review_actions, and admin_audit_logs beside it
  \* the locals of each reviewer
  pc,         \* the next statement; "done" between two reviews
  payment,    \* the request under review
  verdict,    \* the endpoint called
  readAt,     \* now := time.Now()
  startsAt,   \* nextSubscriptionStartTx
  outcome,    \* what the reviewer was answered
  \* observer
  faults      \* handlers that died so far

payments == <<status, owner, reference, bought, submitted>>
locals == <<payment, verdict, readAt, startsAt>>
vars == <<now, term, status, owner, reference, bought, submitted, subs,
          reviews, pc, payment, verdict, readAt, startsAt, outcome, faults>>

Subscriptions ==
  [payment : Payments, user : Users, starts : Nat, expires : Nat,
   by : Reviewers]
Reviews == [payment : Payments, action : Verdicts, by : Reviewers]

\* "unused" and "draft" are calls before their row, "refused" ones without it.
Statuses == {"unused", "draft", "refused", "PENDING"} \union Verdicts
IsRow(t) == status[t] \in {"PENDING"} \union Verdicts

TypeOK ==
  /\ now \in Times
  /\ term \in Terms
  /\ status \in [Payments -> Statuses]
  /\ owner \in [Payments -> Users]
  /\ reference \in [Payments -> References]
  /\ bought \in [Payments -> Terms]
  /\ submitted \in [Payments -> Times]
  /\ subs \subseteq Subscriptions
  /\ reviews \subseteq Reviews
  /\ pc \in [Reviewers -> {"lock", "extend", "write", "commit", "done"}]
  /\ payment \in [Reviewers -> Payments]
  /\ verdict \in [Reviewers -> Verdicts]
  /\ readAt \in [Reviewers -> Times]
  /\ startsAt \in [Reviewers -> Nat]
  /\ outcome \in [Reviewers -> {"none", "ok", "conflict", "failed"}]
  /\ faults \in 0..MaxFaults

-----------------------------------------------------------------------------
(* Row locks and unique indexes.                                           *)

HoldsPayment(r) == pc[r] \in {"extend", "write", "commit"}
HoldsSubscriptions(r) ==
  verdict[r] = "APPROVED" /\ pc[r] \in {"write", "commit"}

\* Bug: the payment request is read without FOR UPDATE.
PaymentUnlocked(r) == TRUE

\* lockPaymentRequestTx waits until no other review has the row.
PaymentFree(r) ==
  \A q \in Reviewers \ {r} : ~(HoldsPayment(q) /\ payment[q] = payment[r])

Unexpired(u, at) == {s \in subs : s.user = u /\ s.expires > at}

\* lockActiveSubscriptionsTx waits for the rows another approval has locked.
SubscriptionsFree(r) ==
  \A q \in Reviewers \ {r} :
    ~ /\ HoldsSubscriptions(q)
      /\ Unexpired(owner[payment[q]], readAt[q])
           \intersect Unexpired(owner[payment[r]], readAt[r]) # {}

\* Bug: no unique index on open requests, only the reference is unique.
TakesPlaceOfReference(p, t) == IsRow(p) /\ reference[p] = reference[t]

\* The row p keeps the row of t out: manual_payment_requests_reference_unique
\* and manual_payment_requests_one_open_per_user.
TakesPlaceOf(p, t) ==
  \/ IsRow(p) /\ reference[p] = reference[t]
  \/ status[p] = "PENDING" /\ owner[p] = owner[t]

-----------------------------------------------------------------------------
(* CreateManualPaymentRequest.                                             *)

\* A user asks for the plan: its terms are copied into the new row.
ReadPlan(t) ==
  /\ status[t] = "unused"
  /\ status' = [status EXCEPT ![t] = "draft"]
  /\ \E u \in Users : owner' = [owner EXCEPT ![t] = u]
  /\ \E x \in References : reference' = [reference EXCEPT ![t] = x]
  /\ submitted' = [submitted EXCEPT ![t] = now]
  /\ bought' = [bought EXCEPT ![t] = term]
  /\ UNCHANGED <<now, term, subs, reviews, pc, locals, outcome, faults>>

\* The INSERT, a transaction of its own.  It waits for a row that a review
\* has updated but not committed, then passes or breaks a unique index.
InsertPayment(t) ==
  /\ status[t] = "draft"
  /\ \A r \in Reviewers :
       ~(pc[r] = "commit" /\ TakesPlaceOf(payment[r], t))
  /\ status' = [status EXCEPT ![t] =
       IF \E p \in Payments : TakesPlaceOf(p, t) THEN "refused" ELSE "PENDING"]
  /\ UNCHANGED <<now, term, owner, reference, bought, submitted, subs,
                 reviews, pc, locals, outcome, faults>>

-----------------------------------------------------------------------------
(* ApprovePaymentRequest and RejectPaymentRequest.                         *)

Goto(r, step) == pc' = [pc EXCEPT ![r] = step]

\* The review ends with answer o, and its locals go.
Finish(r, o) ==
  /\ Goto(r, "done")
  /\ outcome' = [outcome EXCEPT ![r] = o]
  /\ readAt' = [readAt EXCEPT ![r] = 0]
  /\ startsAt' = [startsAt EXCEPT ![r] = 0]
  /\ UNCHANGED <<payment, verdict>>

\* A reviewer calls an endpoint for a request of any status.
Review(r) ==
  /\ pc[r] = "done"
  /\ \E t \in Payments :
       IsRow(t) /\ payment' = [payment EXCEPT ![r] = t]
  /\ \E v \in Verdicts : verdict' = [verdict EXCEPT ![r] = v]
  /\ Goto(r, "lock")
  /\ outcome' = [outcome EXCEPT ![r] = "none"]
  /\ UNCHANGED <<now, term, payments, subs, reviews, readAt, startsAt, faults>>

\* Bug: a request that is decided at all answers "ok".
LockPaymentAnyVerdict(r) ==
  LET s == status[payment[r]]
  IN  /\ pc[r] = "lock"
      /\ PaymentFree(r)
      /\ IF s = "PENDING"
         THEN /\ Goto(r, IF verdict[r] = "APPROVED" THEN "extend" ELSE "write")
              /\ readAt' = [readAt EXCEPT ![r] = now]
              /\ UNCHANGED <<payment, verdict, startsAt, outcome>>
         ELSE Finish(r, "ok")
      /\ UNCHANGED <<now, term, payments, subs, reviews, faults>>

\* The row is locked and its status read: a request that has this verdict
\* already is left alone, one that has the other verdict is a conflict.
LockPayment(r) ==
  LET s == status[payment[r]]
  IN  /\ pc[r] = "lock"
      /\ PaymentFree(r)
      /\ IF s = "PENDING"
         THEN /\ Goto(r, IF verdict[r] = "APPROVED" THEN "extend" ELSE "write")
              /\ readAt' = [readAt EXCEPT ![r] = now]
              /\ UNCHANGED <<payment, verdict, startsAt, outcome>>
         ELSE Finish(r, IF s = verdict[r] THEN "ok" ELSE "conflict")
      /\ UNCHANGED <<now, term, payments, subs, reviews, faults>>

\* Bug: the new period starts now, whatever is paid already.
ExtendFromNow(r) ==
  /\ pc[r] = "extend"
  /\ SubscriptionsFree(r)
  /\ startsAt' = [startsAt EXCEPT ![r] = readAt[r]]
  /\ Goto(r, "write")
  /\ UNCHANGED <<now, term, payments, subs, reviews, payment, verdict, readAt,
                 outcome, faults>>

\* Bug: the new period starts the day after the last one ends.
ExtendWithGap(r) ==
  /\ pc[r] = "extend"
  /\ SubscriptionsFree(r)
  /\ \E e \in {s.expires + 1 : s \in Unexpired(owner[payment[r]], readAt[r])}
                \union {readAt[r]} :
       /\ \A s \in Unexpired(owner[payment[r]], readAt[r]) : s.expires < e
       /\ startsAt' = [startsAt EXCEPT ![r] = e]
  /\ Goto(r, "write")
  /\ UNCHANGED <<now, term, payments, subs, reviews, payment, verdict, readAt,
                 outcome, faults>>

\* lockActiveSubscriptionsTx, then nextSubscriptionStartTx: the new period
\* starts where the last unexpired one ends, or now.
Extend(r) ==
  LET ends == {s.expires : s \in Unexpired(owner[payment[r]], readAt[r])}
  IN  /\ pc[r] = "extend"
      /\ SubscriptionsFree(r)
      /\ \E e \in ends \union {readAt[r]} :
           /\ \A f \in ends : f <= e
           /\ startsAt' = [startsAt EXCEPT ![r] = e]
      /\ Goto(r, "write")
      /\ UNCHANGED <<now, term, payments, subs, reviews, payment, verdict,
                     readAt, outcome, faults>>

\* The rows are written; others wait for them, and see them at the commit.
Write(r) ==
  /\ pc[r] = "write"
  /\ Goto(r, "commit")
  /\ UNCHANGED <<now, term, payments, subs, reviews, locals, outcome, faults>>

NewSubscription(r) ==
  [payment |-> payment[r], user |-> owner[payment[r]],
   starts |-> startsAt[r], expires |-> startsAt[r] + bought[payment[r]],
   by |-> r]

\* COMMIT: the subscription, the status, the review and its audit row.
Commit(r) ==
  /\ pc[r] = "commit"
  /\ status' = [status EXCEPT ![payment[r]] = verdict[r]]
  /\ subs' = IF verdict[r] = "APPROVED"
             THEN subs \union {NewSubscription(r)} ELSE subs
  /\ reviews' = reviews \union
       {[payment |-> payment[r], action |-> verdict[r], by |-> r]}
  /\ Finish(r, "ok")
  /\ UNCHANGED <<now, term, owner, reference, bought, submitted, faults>>

\* The process dies, or a statement fails: the transaction rolls back.
Fail(r) ==
  /\ pc[r] # "done"
  /\ faults < MaxFaults
  /\ faults' = faults + 1
  /\ Finish(r, "failed")
  /\ UNCHANGED <<now, term, payments, subs, reviews>>

-----------------------------------------------------------------------------
(* The environment.                                                        *)

\* A deployment changes the plan.
EditPlan ==
  /\ \E d \in Terms \ {term} : term' = d
  /\ UNCHANGED <<now, payments, subs, reviews, pc, locals, outcome, faults>>

Tick ==
  /\ now < MaxTime
  /\ now' = now + 1
  /\ UNCHANGED <<term, payments, subs, reviews, pc, locals, outcome, faults>>

Init ==
  /\ now = 0
  /\ term = FirstTerm
  /\ status = [t \in Payments |-> "unused"]
  /\ owner \in {[t \in Payments |-> u] : u \in Users}
  /\ reference \in {[t \in Payments |-> x] : x \in References}
  /\ bought = [t \in Payments |-> FirstTerm]
  /\ submitted = [t \in Payments |-> 0]
  /\ subs = {}
  /\ reviews = {}
  /\ pc = [r \in Reviewers |-> "done"]
  /\ payment \in {[r \in Reviewers |-> t] : t \in Payments}
  /\ verdict = [r \in Reviewers |-> "APPROVED"]
  /\ readAt = [r \in Reviewers |-> 0]
  /\ startsAt = [r \in Reviewers |-> 0]
  /\ outcome = [r \in Reviewers |-> "none"]
  /\ faults = 0

\* The statements of a review that runs.
Serve(r) == LockPayment(r) \/ Extend(r) \/ Write(r) \/ Commit(r)

Next ==
  \/ \E t \in Payments : ReadPlan(t) \/ InsertPayment(t)
  \/ \E r \in Reviewers : Review(r) \/ Serve(r) \/ Fail(r)
  \/ EditPlan
  \/ Tick

Spec == Init /\ [][Next]_vars

-----------------------------------------------------------------------------
(* Safety.                                                                 *)

Sold(t) == {s \in subs : s.payment = t}

\* A payment buys once and in full: each approved request has one
\* subscription, of the length the user was shown when he asked, whatever
\* became of the plan; no other request has one.  Two admins who approve the
\* same request, or approve and reject it, cannot sell it twice.
ApprovalSellsOnce ==
  \A t \in Payments :
    IF status[t] = "APPROVED"
    THEN \E s \in subs : /\ Sold(t) = {s}
                         /\ s.user = owner[t]
                         /\ s.expires = s.starts + bought[t]
    ELSE Sold(t) = {}

\* The review trail is the history of the request: one entry, with the
\* verdict that stands, for each decided request.
ReviewedOnce ==
  \A t \in Payments :
    LET trail == {v \in reviews : v.payment = t}
    IN  IF status[t] \in Verdicts
        THEN \E v \in trail : trail = {v} /\ v.action = status[t]
        ELSE trail = {}

\* No day is paid for twice: the periods of a user are disjoint, even when
\* the requests behind them were submitted and approved concurrently.
PeriodsDisjoint ==
  \A s, x \in subs :
    s.user = x.user /\ s # x => s.expires <= x.starts \/ x.expires <= s.starts

\* activeSubscription: what the entitlements of u are taken from.
Active(u) ==
  {s \in subs : s.user = u /\ s.starts <= now /\ now < s.expires}

\* A user is premium as long as there is paid time ahead: extensions leave no
\* gap in which the entitlements fall back to the free ones.
PremiumWhilePaid ==
  \A s \in subs : now < s.expires => Active(s.user) # {}

\* An admin told "ok" finds the request decided that way.
AnswerHolds ==
  \A r \in Reviewers : outcome[r] = "ok" => status[payment[r]] = verdict[r]

-----------------------------------------------------------------------------
(* The abstraction.                                                        *)

PaidThrough(u) ==
  LET ends == {s.expires : s \in {x \in subs : x.user = u}} \union {0}
  IN  CHOOSE e \in ends : \A f \in ends : f <= e

Bill(t) ==
  [payment |-> t, payer |-> owner[t], reference |-> reference[t],
   days |-> bought[t], since |-> submitted[t]]
BillsThatAre(s) == {Bill(t) : t \in {p \in Payments : status[p] = s}}

Promise == INSTANCE PaidTime WITH
  clock <- now,
  open <- BillsThatAre("PENDING"),
  accepted <- BillsThatAre("APPROVED"),
  refused <- BillsThatAre("REJECTED"),
  through <- [u \in Users |-> PaidThrough(u)]

\* Every run is a run of PaidTime: a reference is decided once, and an
\* approval adds the days bought to the end of the time already paid for.
ImplementsPaidTime == Promise!PTSpec
=============================================================================
