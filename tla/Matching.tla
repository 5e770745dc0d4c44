------------------------------ MODULE Matching ------------------------------
(***************************************************************************)
(* Likes, daily quotas, matches, unmatching and blocks: the handlers        *)
(* discovery.CreateAction, subscription.ConsumeActionUsageTx,               *)
(* match.Unmatch and discovery/safety Block and Unblock over one READ       *)
(* COMMITTED database.                                                      *)
(*                                                                         *)
(* A member of Requests is a goroutine that serves one CreateAction after   *)
(* another.  pc says which statement it runs next.  The rows of a           *)
(* transaction that has not committed are the locals of its request: no     *)
(* other request reads them, and a request that ends early drops them.      *)
(* A lock a transaction takes is held until the transaction ends, so the    *)
(* holder of a lock is known from pc, and no variable repeats it.           *)
(***************************************************************************)
EXTENDS Naturals, FiniteSets

CONSTANTS
  Users,         \* accounts
  Requests,      \* concurrent handlers of POST /discovery/actions
  ClientIds,     \* clientActionId values
  Inputs,        \* the request bodies clients may send
  Plans,         \* entitlement snapshots a user can have
  InitialPlan,   \* the one a user without a subscription has
  Limit,         \* Limit[plan][feature]: positive actions a day
  Days,          \* the UTC dates of the model, 1..N
  Blockers,      \* the users who block and unblock others
  Subscribers,   \* the users whose plan changes
  MaxFaults      \* bound: how many requests die or fail to notify

PositiveKinds == {"LIKE", "SUPER_LIKE"}
Kinds == PositiveKinds \union {"PASS"}
Body == [actor : Users, target : Users, kind : Kinds, client : ClientIds]

ASSUME InputsAssumption ==
  Inputs \subseteq {b \in Body : b.actor # b.target}
ASSUME PlansAssumption ==
  /\ InitialPlan \in Plans
  /\ Limit \in [Plans -> [PositiveKinds -> Nat]]
ASSUME DaysAssumption == Days \subseteq Nat /\ 1 \in Days
ASSUME EnvironmentAssumption ==
  Blockers \subseteq Users /\ Subscribers \subseteq Users
ASSUME FaultsAssumption == MaxFaults \in Nat

Pairs == {{u, v} : u, v \in Users} \ {{u} : u \in Users}
Rows == [actor : Users, target : Users, kind : Kinds, client : ClientIds,
         day : Days]
UsageKeys == Users \X PositiveKinds \X Days

VARIABLES
  \* the committed database
  actions,        \* discovery_actions, a set of Rows
  matches,        \* matches.status of a pair, "NONE" without a row
  conversations,  \* conversations.status of a pair, "NONE" without a row
  used,           \* user_feature_usage.used_count of <<user, feature, date>>
  blocks,         \* user_blocks: <<blocker, blocked>>
  plan,           \* the entitlement snapshot in force for a user
  today,          \* the UTC date
  \* the locals of each request
  pc,             \* the next statement; "done" between two requests
  input,          \* the body being served
  date,           \* actionDate
  quota,          \* limit, read from the entitlements
  seen,           \* usage.UsedCount, read under the row lock
  created,        \* the transaction inserted the match row
  outcome,        \* what the client was answered
  \* observers
  announced,      \* how often NotifyNewMatch ran for a pair
  open,           \* the pair was unblocked at some time since the request came
  faults          \* faults injected so far

dbVars == <<actions, matches, conversations, used, blocks, plan, today>>
locals == <<input, date, quota, seen, created>>
vars == <<actions, matches, conversations, used, blocks, plan, today,
          pc, input, date, quota, seen, created, outcome,
          announced, open, faults>>

Steps == {"lookup", "check", "lock", "recheck", "consume", "insert",
          "reciprocal", "commit", "notify", "done"}
Accepted == {"matched", "recorded"}
Outcomes == Accepted \union
  {"none", "keyConflict", "alreadyExists", "notAllowed", "limitReached",
   "failed"}

TypeOK ==
  /\ actions \subseteq Rows
  /\ matches \in [Pairs -> {"NONE", "ACTIVE", "UNMATCHED"}]
  /\ conversations \in [Pairs -> {"NONE", "ACTIVE", "CLOSED"}]
  /\ used \in [UsageKeys -> Nat]
  /\ blocks \subseteq Users \X Users
  /\ plan \in [Users -> Plans]
  /\ today \in Days
  /\ pc \in [Requests -> Steps]
  /\ input \in [Requests -> Inputs]
  /\ date \in [Requests -> Days]
  /\ quota \in [Requests -> Nat]
  /\ seen \in [Requests -> Nat]
  /\ created \in [Requests -> BOOLEAN]
  /\ outcome \in [Requests -> Outcomes]
  /\ announced \in [Pairs -> Nat]
  /\ open \in [Requests -> BOOLEAN]
  /\ faults \in 0..MaxFaults

-----------------------------------------------------------------------------
(* What the statements of a request look at.                               *)

Pair(b) == {b.actor, b.target}
IsPositive(kind) == kind \in PositiveKinds
UsageKey(r) == <<input[r].actor, input[r].kind, date[r]>>

\* The row the transaction of r inserts into discovery_actions.
NewRow(r) ==
  [actor |-> input[r].actor, target |-> input[r].target,
   kind |-> input[r].kind, client |-> input[r].client, day |-> date[r]]

SameClientId(b) ==
  {row \in actions : row.actor = b.actor /\ row.client = b.client}
SamePair(b) ==
  {row \in actions : row.actor = b.actor /\ row.target = b.target}

\* Bug: the replay compares the target and forgets the action type.
SameTarget(row, b) == row.target = b.target

\* A row answers a repeated request only if target and type agree.
SameMeaning(row, b) == row.target = b.target /\ row.kind = b.kind

Reciprocated(b) ==
  \E row \in actions : /\ row.actor = b.target
                       /\ row.target = b.actor
                       /\ IsPositive(row.kind)

Blocked(p) == \E e \in blocks : {e[1], e[2]} = p

Answer(p) == IF matches[p] = "ACTIVE" THEN "matched" ELSE "recorded"

-----------------------------------------------------------------------------
(* Locks.                                                                  *)

HoldsPairLock(r) ==
  pc[r] \in {"recheck", "consume", "insert", "reciprocal", "commit"}
HoldsUsageRow(r) ==
  IsPositive(input[r].kind) /\ pc[r] \in {"insert", "reciprocal", "commit"}
HasInserted(r) == pc[r] \in {"reciprocal", "commit"}

\* Bug: pg_advisory_xact_lock keyed by (actor, target) in that order, so that
\* the two directions of a pair do not exclude each other.
PairLockFreeDirected(r) ==
  \A q \in Requests \ {r} :
    ~ (/\ HoldsPairLock(q)
       /\ input[q].actor = input[r].actor /\ input[q].target = input[r].target)

\* lockPair: no other transaction holds the advisory lock of the pair.
PairLockFree(r) ==
  \A q \in Requests \ {r} :
    ~ (HoldsPairLock(q) /\ Pair(input[q]) = Pair(input[r]))

\* Bug: the usage row is read without FOR UPDATE.
UsageRowUnlocked(r) == TRUE

\* Bug: a transaction that stops at its limit keeps its row lock.
UsageRowFreeLeaking(r) ==
  \A q \in Requests \ {r} :
    ~ (/\ HoldsUsageRow(q) \/ outcome[q] = "limitReached"
       /\ UsageKey(q) = UsageKey(r))

\* The usage row, inserted or locked by no other running transaction.
UsageRowFree(r) ==
  \A q \in Requests \ {r} :
    ~ (HoldsUsageRow(q) /\ UsageKey(q) = UsageKey(r))

\* The two unique indexes of discovery_actions.
Collides(row, b) ==
  row.actor = b.actor /\ (row.target = b.target \/ row.client = b.client)

-----------------------------------------------------------------------------
(* discovery.CreateAction, one action per statement other requests can      *)
(* come between.                                                           *)

\* The request ends with answer o; its locks, uncommitted rows and locals go.
Finish(r, o) ==
  /\ pc' = [pc EXCEPT ![r] = "done"]
  /\ outcome' = [outcome EXCEPT ![r] = o]
  /\ date' = [date EXCEPT ![r] = 1]
  /\ quota' = [quota EXCEPT ![r] = 0]
  /\ seen' = [seen EXCEPT ![r] = 0]
  /\ created' = [created EXCEPT ![r] = FALSE]
  /\ open' = [open EXCEPT ![r] = TRUE]
  /\ UNCHANGED input

Goto(r, step) == pc' = [pc EXCEPT ![r] = step]

\* A client sends a body that passes normalizeActionRequest.
Submit(r) ==
  /\ pc[r] = "done"
  /\ \E b \in Inputs :
       /\ input' = [input EXCEPT ![r] = b]
       /\ open' = [open EXCEPT ![r] = ~Blocked(Pair(b))]
  /\ Goto(r, "lookup")
  /\ outcome' = [outcome EXCEPT ![r] = "none"]
  /\ UNCHANGED <<dbVars, date, quota, seen, created, announced, faults>>

\* What a row found under the client id or the pair answers.
Replay(r) ==
  LET b == input[r]
  IN  IF SameClientId(b) # {}
      THEN \E row \in SameClientId(b) :
             Finish(r, IF SameMeaning(row, b) THEN Answer(Pair(b))
                                              ELSE "keyConflict")
      ELSE \E row \in SamePair(b) :
             Finish(r, IF SameMeaning(row, b) THEN Answer(Pair(b))
                                              ELSE "alreadyExists")

\* findActionByClientID and findActionByPair, before the transaction.
Lookup(r) ==
  /\ pc[r] = "lookup"
  /\ IF SameClientId(input[r]) \union SamePair(input[r]) # {}
     THEN Replay(r)
     ELSE Goto(r, "check") /\ UNCHANGED <<locals, outcome, open>>
  /\ UNCHANGED <<dbVars, announced, faults>>

\* Bug: a request goes on without looking at blocks.
CheckWithoutBlocks(r) ==
  /\ pc[r] = "check"
  /\ Goto(r, "lock")
  /\ UNCHANGED <<dbVars, locals, outcome, open, announced, faults>>

\* isBlockedEitherDirection and CheckTargetDiscoverable.  Readiness, distance
\* and preferences may refuse any target.
Check(r) ==
  /\ pc[r] = "check"
  /\ \/ /\ ~Blocked(Pair(input[r]))
        /\ Goto(r, "lock")
        /\ UNCHANGED <<locals, outcome, open>>
     \/ Finish(r, "notAllowed")
  /\ UNCHANGED <<dbVars, announced, faults>>

\* The transaction begins: pg_advisory_xact_lock waits for the pair.
LockPair(r) ==
  /\ pc[r] = "lock"
  /\ PairLockFree(r)
  /\ Goto(r, "recheck")
  /\ UNCHANGED <<dbVars, locals, outcome, open, announced, faults>>

\* The lookups again, under the pair lock; then actionDate, and for a
\* positive action the entitlements.
Recheck(r) ==
  /\ pc[r] = "recheck"
  /\ IF SameClientId(input[r]) \union SamePair(input[r]) # {}
     THEN Replay(r)
     ELSE /\ Goto(r, IF IsPositive(input[r].kind) THEN "consume" ELSE "insert")
          /\ date' = [date EXCEPT ![r] = today]
          /\ quota' = [quota EXCEPT ![r] =
               IF IsPositive(input[r].kind)
               THEN Limit[plan[input[r].actor]][input[r].kind] ELSE 0]
          /\ UNCHANGED <<input, seen, created, outcome, open>>
  /\ UNCHANGED <<dbVars, announced, faults>>

\* Bug: one more action than the limit passes.
WithinQuotaPlusOne(r) == used[UsageKey(r)] <= quota[r]

\* limit <= 0 and UsedCount >= limit refuse.
WithinQuota(r) == used[UsageKey(r)] < quota[r]

\* ConsumeActionUsageTx.  The upsert and SELECT ... FOR UPDATE wait for the
\* usage row; the row is written back as the count read plus one.
Consume(r) ==
  /\ pc[r] = "consume"
  /\ IF quota[r] = 0
     THEN Finish(r, "limitReached")
     ELSE /\ UsageRowFree(r)
          /\ IF WithinQuota(r)
             THEN /\ Goto(r, "insert")
                  /\ seen' = [seen EXCEPT ![r] = used[UsageKey(r)]]
                  /\ UNCHANGED <<input, date, quota, created, outcome, open>>
             ELSE Finish(r, "limitReached")
  /\ UNCHANGED <<dbVars, announced, faults>>

\* INSERT INTO discovery_actions.  A unique index makes it wait for a row
\* that collides and is not committed, and fail on one that is.
Insert(r) ==
  /\ pc[r] = "insert"
  /\ \A q \in Requests \ {r} : ~(HasInserted(q) /\ Collides(NewRow(q), input[r]))
  /\ IF \E row \in actions : Collides(row, input[r])
     THEN Finish(r, "failed")
     ELSE Goto(r, "reciprocal") /\ UNCHANGED <<locals, outcome, open>>
  /\ UNCHANGED <<dbVars, announced, faults>>

\* hasReciprocalPositiveActionTx, and ensureMatchTx up to its commit.
Reciprocal(r) ==
  /\ pc[r] = "reciprocal"
  /\ Goto(r, "commit")
  /\ created' = [created EXCEPT ![r] =
       /\ IsPositive(input[r].kind)
       /\ Reciprocated(input[r])
       /\ matches[Pair(input[r])] = "NONE"]
  /\ UNCHANGED <<dbVars, input, date, quota, seen, outcome, open, announced,
                 faults>>

\* Bug: everyone who is answered "matched" announces the match.
MustAnnounceMatched(r) ==
  created[r] \/ matches[Pair(input[r])] = "ACTIVE" \/ Reciprocated(input[r])

\* Bug: only a super like announces the match it completes.
MustAnnounceSuperLike(r) == created[r] /\ input[r].kind = "SUPER_LIKE"

\* newMatchUUID is set.
MustAnnounce(r) == created[r]

\* COMMIT: the action row, the usage row, and the rows of a new match.
Commit(r) ==
  LET p == Pair(input[r])
  IN  /\ pc[r] = "commit"
      /\ actions' = actions \union {NewRow(r)}
      /\ used' = IF IsPositive(input[r].kind)
                 THEN [used EXCEPT ![UsageKey(r)] = seen[r] + 1] ELSE used
      /\ matches' = IF created[r] THEN [matches EXCEPT ![p] = "ACTIVE"]
                    ELSE matches
      /\ conversations' =
           IF created[r] /\ conversations[p] = "NONE"
           THEN [conversations EXCEPT ![p] = "ACTIVE"] ELSE conversations
      /\ IF MustAnnounce(r)
         THEN Goto(r, "notify") /\ UNCHANGED <<locals, outcome, open>>
         ELSE Finish(r, Answer(p))
      /\ UNCHANGED <<blocks, plan, today, announced, faults>>

\* After the commit, NotifyNewMatch for the pair.
Notify(r) ==
  /\ pc[r] = "notify"
  /\ announced' = [announced EXCEPT ![Pair(input[r])] = @ + 1]
  /\ Finish(r, "matched")
  /\ UNCHANGED <<dbVars, faults>>

\* NotifyNewMatch returns an error, which is only logged.
NotifyFails(r) ==
  /\ pc[r] = "notify"
  /\ faults < MaxFaults
  /\ faults' = faults + 1
  /\ Finish(r, "matched")
  /\ UNCHANGED <<dbVars, announced>>

\* The process dies, or the database refuses a statement: an open transaction
\* rolls back, and the client hears nothing or an error.
Fail(r) ==
  /\ pc[r] # "done"
  /\ faults < MaxFaults
  /\ faults' = faults + 1
  /\ Finish(r, "failed")
  /\ UNCHANGED <<dbVars, announced>>

-----------------------------------------------------------------------------
(* The other writers of the same tables.                                   *)

\* Bug: unmatching deletes the row, so that a later like matches again.
UnmatchDeletes(u, p) ==
  /\ u \in p
  /\ ~Blocked(p)
  /\ matches[p] = "ACTIVE"
  /\ matches' = [matches EXCEPT ![p] = "NONE"]
  /\ conversations' = [conversations EXCEPT ![p] = "NONE"]
  /\ UNCHANGED <<actions, used, blocks, plan, today, pc, locals, outcome,
                 announced, open, faults>>

\* match.Unmatch of an active match.  The row is locked while it is read, and
\* a block either way hides it; unmatching twice changes nothing.
Unmatch(u, p) ==
  /\ u \in p
  /\ ~Blocked(p)
  /\ matches[p] = "ACTIVE"
  /\ matches' = [matches EXCEPT ![p] = "UNMATCHED"]
  /\ conversations' = [conversations EXCEPT ![p] = "CLOSED"]
  /\ UNCHANGED <<actions, used, blocks, plan, today, pc, locals, outcome,
                 announced, open, faults>>

\* BlockUser of discovery and of safety: one upsert.
Block(u, v) ==
  /\ u # v
  /\ blocks' = blocks \union {<<u, v>>}
  /\ UNCHANGED <<actions, matches, conversations, used, plan, today, pc,
                 locals, outcome, announced, open, faults>>

\* UnblockUser deletes one direction.
Unblock(u, v) ==
  /\ <<u, v>> \in blocks
  /\ blocks' = blocks \ {<<u, v>>}
  /\ open' = [r \in Requests |->
       open[r] \/ (Pair(input[r]) = {u, v} /\ <<v, u>> \notin blocks)]
  /\ UNCHANGED <<actions, matches, conversations, used, plan, today, pc,
                 locals, outcome, announced, faults>>

\* A subscription starts or expires.
ChangePlan(u) ==
  /\ \E p \in Plans \ {plan[u]} : plan' = [plan EXCEPT ![u] = p]
  /\ UNCHANGED <<actions, matches, conversations, used, blocks, today, pc,
                 locals, outcome, announced, open, faults>>

\* Midnight, UTC.
NextDay ==
  /\ today + 1 \in Days
  /\ today' = today + 1
  /\ UNCHANGED <<actions, matches, conversations, used, blocks, plan, pc,
                 locals, outcome, announced, open, faults>>

-----------------------------------------------------------------------------
Init ==
  /\ actions = {}
  /\ matches = [p \in Pairs |-> "NONE"]
  /\ conversations = [p \in Pairs |-> "NONE"]
  /\ used = [k \in UsageKeys |-> 0]
  /\ blocks = {}
  /\ plan = [u \in Users |-> InitialPlan]
  /\ today = 1
  /\ pc = [r \in Requests |-> "done"]
  /\ input \in {[r \in Requests |-> b] : b \in Inputs}
  /\ date = [r \in Requests |-> 1]
  /\ quota = [r \in Requests |-> 0]
  /\ seen = [r \in Requests |-> 0]
  /\ created = [r \in Requests |-> FALSE]
  /\ outcome = [r \in Requests |-> "none"]
  /\ announced = [p \in Pairs |-> 0]
  /\ open = [r \in Requests |-> TRUE]
  /\ faults = 0

\* The statements of a request that runs.
Serve(r) ==
  \/ Lookup(r)
  \/ Check(r)
  \/ LockPair(r)
  \/ Recheck(r)
  \/ Consume(r)
  \/ Insert(r)
  \/ Reciprocal(r)
  \/ Commit(r)
  \/ Notify(r)

Next ==
  \/ \E r \in Requests : Submit(r) \/ Serve(r) \/ NotifyFails(r) \/ Fail(r)
  \/ \E u \in Users, p \in Pairs : Unmatch(u, p)
  \/ \E u \in Blockers, v \in Users : Block(u, v) \/ Unblock(u, v)
  \/ \E u \in Subscribers : ChangePlan(u)
  \/ NextDay

Spec == Init /\ [][Next]_vars

\* The scheduler runs every goroutine, and PostgreSQL grants a lock to those
\* who queue for it in turn, so one who waits is not overtaken for ever.
Fairness ==
  \A r \in Requests :
    WF_vars(Serve(r)) /\ SF_vars(LockPair(r) \/ Consume(r) \/ Insert(r))

FairSpec == Spec /\ Fairness

-----------------------------------------------------------------------------
(* Safety.                                                                 *)

\* The lock of a pair has one holder: two CreateAction transactions about the
\* same two users never overlap, whichever direction each is in.
PairLockExclusive ==
  \A r, q \in Requests :
    HoldsPairLock(r) /\ HoldsPairLock(q) /\ r # q
      => Pair(input[r]) # Pair(input[q])

Positive(u, v) ==
  \E row \in actions : row.actor = u /\ row.target = v /\ IsPositive(row.kind)

\* Two users who like each other have a match, and only they: neither of two
\* likes that cross in flight may miss the other, and no unmatching, block,
\* retry or lost process makes a match row appear or go away otherwise.
MutualLikesMatch ==
  \A u, v \in Users :
    u # v => (matches[{u, v}] # "NONE" <=> Positive(u, v) /\ Positive(v, u))

\* A client id stands for one action of its actor, whichever requests race.
ClientIdNamesOneAction ==
  \A x, y \in actions : x.actor = y.actor /\ x.client = y.client => x = y

PositiveRows(k) ==
  {row \in actions : row.actor = k[1] /\ row.kind = k[2] /\ row.day = k[3]}

\* The usage counter of a day is the number of positive actions of that day:
\* concurrent likes of one user lose no update, and a like that rolled back
\* or was replayed is not charged.
UsageCountsActions ==
  \A k \in UsageKeys : used[k] = Cardinality(PositiveRows(k))

\* No day has more positive actions than the best plan allows.
DailyLimitHolds ==
  \A k \in UsageKeys :
    \E p \in Plans : Cardinality(PositiveRows(k)) <= Limit[p][k[2]]

\* A match is announced at most once, and never before it exists.
AnnouncedOnce ==
  \A p \in Pairs :
    /\ announced[p] <= 1
    /\ announced[p] = 1 => matches[p] # "NONE"

\* A request whose pair has been blocked since before it came, without a
\* moment's pause, never gets to write an action.
StandingBlockHolds ==
  \A r \in Requests : HoldsPairLock(r) => open[r]

\* Who was told that an action is accepted finds it in the database.
AcceptedIsStored ==
  \A r \in Requests :
    outcome[r] \in Accepted
      => \E row \in actions : /\ row.actor = input[r].actor
                              /\ row.target = input[r].target
                              /\ row.kind = input[r].kind

\* The reply to a reused clientActionId: "Reusing the same key with a
\* different target/action returns IDEMPOTENCY_KEY_CONFLICT"
\* (docs/API_MOBILE.md:294).
ReusedKeyIsRefused ==
  \A r, q \in Requests :
    /\ outcome[r] \in Accepted /\ outcome[q] \in Accepted
    /\ input[r].actor = input[q].actor /\ input[r].client = input[q].client
    => SameMeaning(input[r], input[q])

-----------------------------------------------------------------------------
(* The abstraction, and liveness.                                          *)

\* What rows say u decided about v.
Decision(rows, u, v) ==
  IF \E row \in rows : row.actor = u /\ row.target = v
  THEN (CHOOSE row \in rows : row.actor = u /\ row.target = v).kind
  ELSE "NONE"

\* The decisions and matches a client can see, as PairMatch has them.
Promise == INSTANCE PairMatch WITH
  decided <- [s \in {x \in Users \X Users : x[1] # x[2]} |->
                Decision(actions, s[1], s[2])],
  match <- matches

\* Every run is a run of PairMatch: a decision is taken once and stays, the
\* second of two likes makes the match in the step that stores it, and an
\* unmatched pair stays unmatched.
ImplementsPairMatch == Promise!PMSpec

\* Every request is answered: no set of requests waits on each other's locks.
RequestsEnd ==
  \A r \in Requests : pc[r] # "done" ~> pc[r] = "done"

\* Every match is announced, unless a process or a notification failed.
MatchesAreAnnounced ==
  \A p \in Pairs : matches[p] # "NONE" ~> announced[p] = 1 \/ faults > 0
=============================================================================
