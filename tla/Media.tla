------------------------------- MODULE Media -------------------------------
(***************************************************************************)
(* Profile photos and intro videos (internal/media): an upload stores the   *)
(* file, inserts the rows and enqueues a task; a worker makes the variants  *)
(* and publishes the medium or marks it failed; the owner chooses and       *)
(* deletes.  Every handler of the API and the task of every medium is an    *)
(* actor.  A transaction that decides on what it read before it writes is   *)
(* two steps, with the rows it has locked in between; one that only writes  *)
(* what it has locked is one step.                                          *)
(*                                                                          *)
(* "refresh" is the call of RefreshDiscoveryEligibility that ends most      *)
(* operations on photos: module Discoverability models it.                  *)
(***************************************************************************)
EXTENDS Integers, FiniteSets

CONSTANTS
  Users,
  MediaIds,          \* every user_media row there may be
  Owner,             \* MediaIds -> Users
  Purpose,           \* MediaIds -> {"PROFILE_PHOTO", "INTRO_VIDEO"}
  Published,         \* the photos that are READY at the start
  Primary,           \* those of them that are primary
  Handlers,          \* requests the API handles
  NoMedium,
  MaxProfilePhotos,  \* cfg.MaxProfilePhotos
  AutoApprove,       \* cfg.AutoApprove
  MaxAttempts,       \* runs of a task: 1 + asynq.MaxRetry
  MaxFaults          \* bound: failing calls and dying processes

ASSUME OwnerAssumption == Users # {} /\ Owner \in [MediaIds -> Users]
ASSUME PurposeAssumption == Purpose \in [MediaIds -> {"PROFILE_PHOTO", "INTRO_VIDEO"}]
ASSUME PublishedAssumption ==
  /\ Published \subseteq {m \in MediaIds : Purpose[m] = "PROFILE_PHOTO"}
  /\ Primary \subseteq Published
  /\ \A m, n \in Primary : Owner[m] = Owner[n] => m = n
  /\ \A m \in Published : \E n \in Primary : Owner[n] = Owner[m]
  /\ \A u \in Users : LET photos == {m \in Published : Owner[m] = u} IN
       IsFiniteSet(photos) /\ Cardinality(photos) <= MaxProfilePhotos
ASSUME ActorsAssumption == Handlers \intersect MediaIds = {} /\ NoMedium \notin MediaIds
ASSUME MediaBoundsAssumption ==
  /\ MaxProfilePhotos \in Nat /\ MaxAttempts \in Nat \ {0} /\ MaxFaults \in Nat
  /\ AutoApprove \in BOOLEAN

VARIABLES
  media,     \* user_media: status, approval, primary flag, deleted_at
  variants,  \* user_media_variants: the types each medium has a row for
  objects,   \* the files in storage: <<medium, type>>
  at,        \* what each actor does next; "idle" has not begun, "done" has ended
  on,        \* the medium a handler works on
  who,       \* the user a handler works for
  rows,      \* the media an actor listed when it began to lock, then those it holds
  heir,      \* the photo an actor is about to make primary
  tries,     \* runs of a task
  failed,    \* actors that are giving the medium up: an upload, or a run of its task
  faults,
  abandoned  \* observer: media whose upload or task a dying process was at, whose
             \* failure the database refused to record, whose last run failed before
             \* it knew its row, or whose file stayed after all

mediaVars == <<media, variants, objects, rows, heir, tries, failed>>
callVars == <<at, on, who, faults, abandoned>>

Actors == Handlers \union MediaIds

NoRow == [status |-> "NONE", approval |-> "PENDING", primary |-> FALSE, deleted |-> FALSE]

\* The variants a published medium has.
Finished(m) ==
  IF Purpose[m] = "PROFILE_PHOTO" THEN {"ORIGINAL", "DISPLAY", "THUMBNAIL"}
                                  ELSE {"ORIGINAL", "THUMBNAIL", "TRANSCODED"}

IsPhoto(m) == Purpose[m] = "PROFILE_PHOTO"

Live(u, purpose) ==
  {m \in MediaIds : /\ Owner[m] = u /\ Purpose[m] = purpose
                    /\ media[m].status # "NONE" /\ ~media[m].deleted}

\* The row the partial unique index user_media_one_primary_profile_photo holds.
IsPrimary(m) == media[m].primary /\ m \in Live(Owner[m], "PROFILE_PHOTO")

\* What discovery and promotion take for a photo that can be shown.
Usable(m) == /\ IsPhoto(m) /\ media[m].status = "READY"
             /\ media[m].approval = "APPROVED" /\ ~media[m].deleted

HoldsRows == {"insert", "retire"}
Free(a, wanted) ==
  \A b \in Actors \ {a} : at[b] \in HoldsRows => rows[b] \intersect wanted = {}

Goto(a, step) == at' = [at EXCEPT ![a] = step]

\* The medium an actor is about: a task its own.
Medium(a) == IF a \in MediaIds THEN a ELSE on[a]

\* Who retires a photo waits for the heir, which an upload has locked that waits
\* for the photo: PostgreSQL ends one of the two with an error.
Deadlocked(h, a) ==
  /\ at[a] = "retire" /\ heir[a] \in rows[h]
  /\ \/ at[h] = "lock" /\ rows[a] \intersect rows[h] # {}
     \/ at[h] = "insert" /\ rows[a] \intersect Live(who[h], "PROFILE_PHOTO") # {}

-----------------------------------------------------------------------------
(* UploadPhoto and UploadIntroVideo *)

\* The file is in storage; the transaction begins to lock what is live.
StoreUpload(h, m) ==
  /\ at[h] = "idle" /\ media[m].status = "NONE" /\ <<m, "ORIGINAL">> \notin objects
  /\ on' = [on EXCEPT ![h] = m] /\ who' = [who EXCEPT ![h] = Owner[m]]
  /\ objects' = objects \union {<<m, "ORIGINAL">>}
  /\ rows' = [rows EXCEPT ![h] = Live(Owner[m], Purpose[m])]
  /\ Goto(h, "lock")
  /\ UNCHANGED <<media, variants, heir, tries, failed, faults, abandoned>>

\* A plausible bug: what is counted is what was listed before the wait.
LockLiveCountsListed(h) ==
  /\ at[h] = "lock" /\ Free(h, rows[h])
  /\ rows' = [rows EXCEPT ![h] = @ \intersect Live(Owner[on[h]], Purpose[on[h]])]
  /\ Goto(h, IF IsPhoto(on[h]) /\ Cardinality(rows[h]) >= MaxProfilePhotos THEN "undo" ELSE "insert")
  /\ heir' = [heir EXCEPT ![h] = IF rows[h] = {} THEN on[h] ELSE NoMedium]
  /\ UNCHANGED <<media, variants, objects, on, who, tries, failed, faults, abandoned>>

\* A plausible bug: over the limit the upload answers at once, its file forgotten.
LockLiveRefusesAtOnce(h) ==
  LET m == on[h]
      live == Live(Owner[m], Purpose[m])
  IN /\ at[h] = "lock" /\ Free(h, rows[h])
     /\ rows' = [rows EXCEPT ![h] = @ \intersect live]
     /\ Goto(h, IF IsPhoto(m) /\ Cardinality(live) >= MaxProfilePhotos THEN "done" ELSE "insert")
     /\ heir' = [heir EXCEPT ![h] = IF live = {} THEN m ELSE NoMedium]
     /\ UNCHANGED <<media, variants, objects, on, who, tries, failed, faults, abandoned>>

\* SELECT ... FOR UPDATE waits for those rows, keeps the ones that are still
\* live, and the count sees what has been committed by then.
LockLive(h) ==
  LET m == on[h]
      live == Live(Owner[m], Purpose[m])
  IN /\ at[h] = "lock"
     /\ \/ /\ Free(h, rows[h])
           /\ rows' = [rows EXCEPT ![h] = @ \intersect live]
           /\ Goto(h, IF IsPhoto(m) /\ Cardinality(live) >= MaxProfilePhotos THEN "undo" ELSE "insert")
           /\ heir' = [heir EXCEPT ![h] = IF live = {} THEN m ELSE NoMedium]
        \/ /\ \E a \in Actors : Deadlocked(h, a)
           /\ Goto(h, "undo")
           /\ rows' = [rows EXCEPT ![h] = {}] /\ UNCHANGED heir
     /\ UNCHANGED <<media, variants, objects, on, who, tries, failed, faults, abandoned>>

\* A plausible bug: a status the others do not know.
InsertNew(m, primary) ==
  [status |-> "NEW", approval |-> "PENDING", primary |-> primary, deleted |-> FALSE]

Insert(m, primary) ==
  [status |-> "UPLOADED", approval |-> "PENDING", primary |-> primary, deleted |-> FALSE]

\* The new photo takes the primary flag from the others, if there was none or
\* it is asked to.  The unique index refuses it when a row the UPDATE did not
\* see has become primary.
CreatePhotoRows(h, requestPrimary) ==
  LET m == on[h]
      isPrimary == heir[h] = m \/ requestPrimary
      others == Live(Owner[m], "PROFILE_PHOTO")
  IN /\ at[h] = "insert" /\ IsPhoto(m)
     /\ \/ /\ isPrimary => Free(h, others)
           /\ media' = [n \in MediaIds |->
                IF n = m THEN Insert(m, isPrimary)
                ELSE IF n \in others /\ isPrimary THEN [media[n] EXCEPT !.primary = FALSE]
                ELSE media[n]]
           /\ variants' = [variants EXCEPT ![m] = {"ORIGINAL"}]
           /\ Goto(h, "queue")
        \/ /\ isPrimary
           /\ \/ Free(h, others) /\ \E n \in others \ rows[h] : media[n].primary
              \/ \E a \in Actors : Deadlocked(h, a)
           /\ Goto(h, "undo")
           /\ UNCHANGED <<media, variants>>
     /\ rows' = [rows EXCEPT ![h] = {}] /\ heir' = [heir EXCEPT ![h] = NoMedium]
     /\ UNCHANGED <<objects, on, who, tries, failed, faults, abandoned>>

\* A new intro video deletes the old one in the same transaction.
CreateIntroRows(h) ==
  LET m == on[h]
      others == Live(Owner[m], "INTRO_VIDEO")
  IN /\ at[h] = "insert" /\ ~IsPhoto(m) /\ Free(h, others)
     /\ \/ /\ media' = [n \in MediaIds |->
                IF n = m THEN Insert(m, FALSE)
                ELSE IF n \in others
                     THEN [media[n] EXCEPT !.status = "DELETED", !.deleted = TRUE]
                ELSE media[n]]
           /\ variants' = [variants EXCEPT ![m] = {"ORIGINAL"}]
           /\ Goto(h, "queue")
        \/ /\ others \ rows[h] # {}
           /\ Goto(h, "undo")
           /\ UNCHANGED <<media, variants>>
     /\ rows' = [rows EXCEPT ![h] = {}] /\ heir' = [heir EXCEPT ![h] = NoMedium]
     /\ UNCHANGED <<objects, on, who, tries, failed, faults, abandoned>>

\* The transaction fails for another reason and is undone.
TransactionFails(h) ==
  /\ at[h] \in {"lock", "insert"} /\ faults < MaxFaults /\ faults' = faults + 1
  /\ Goto(h, "undo")
  /\ rows' = [rows EXCEPT ![h] = {}] /\ heir' = [heir EXCEPT ![h] = NoMedium]
  /\ UNCHANGED <<media, variants, objects, on, who, tries, failed, abandoned>>

\* The rows are not there: the file goes again, unless that fails too.
UndoUpload(h) ==
  /\ at[h] = "undo"
  /\ \/ objects' = objects \ {<<on[h], "ORIGINAL">>} /\ UNCHANGED <<faults, abandoned>>
     \/ /\ faults < MaxFaults /\ faults' = faults + 1
        /\ abandoned' = abandoned \union {on[h]} /\ UNCHANGED objects
  /\ Goto(h, "done") /\ rows' = [rows EXCEPT ![h] = {}]
  /\ UNCHANGED <<media, variants, on, who, heir, tries, failed>>

Enqueue(h) ==
  /\ at[h] = "queue"
  /\ at' = [at EXCEPT ![h] = "done", ![on[h]] = "queued"]
  /\ UNCHANGED <<mediaVars, on, who, faults, abandoned>>

\* A plausible bug: the error of the queue is only logged.
EnqueueFailsLogged(h) ==
  /\ at[h] = "queue" /\ faults < MaxFaults /\ faults' = faults + 1
  /\ \E task \in {"idle", "queued"} : at' = [at EXCEPT ![h] = "done", ![on[h]] = task]
  /\ UNCHANGED <<mediaVars, on, who, abandoned>>

\* The queue answers with an error; it may have taken the task all the same.
EnqueueFails(h) ==
  /\ at[h] = "queue" /\ faults < MaxFaults /\ faults' = faults + 1
  /\ \E task \in {"idle", "queued"} : at' = [at EXCEPT ![h] = "fail", ![on[h]] = task]
  /\ UNCHANGED <<mediaVars, on, who, abandoned>>

-----------------------------------------------------------------------------
(* Delete, failMediaAfterCommit and markFailed lock the row, and if it was    *)
(* the primary photo choose the first usable one, which they do not lock.     *)

\* promotePrimaryPhoto orders by sort_order, which the owner sets freely
\* (Reorder): any usable photo may come first.
Heirs(m) ==
  LET usable == {n \in Live(Owner[m], "PROFILE_PHOTO") \ {m} : Usable(n)}
  IN IF IsPhoto(m) /\ media[m].primary /\ usable # {} THEN usable ELSE {NoMedium}

\* A plausible bug: the row is read without FOR UPDATE.
LockAndChooseUnlocked(a, m, step) ==
  /\ \E n \in Heirs(m) : heir' = [heir EXCEPT ![a] = n]
  /\ Goto(a, step)
  /\ UNCHANGED <<media, variants, objects, rows, tries, faults, abandoned>>

LockAndChoose(a, m, step) ==
  /\ Free(a, {m})
  /\ \E n \in Heirs(m) : heir' = [heir EXCEPT ![a] = n]
  /\ rows' = [rows EXCEPT ![a] = {m}]
  /\ Goto(a, step)
  /\ UNCHANGED <<media, variants, objects, tries, faults, abandoned>>

Delete(h, m) ==
  /\ at[h] = "idle" /\ m \in Live(Owner[m], Purpose[m])
  /\ LockAndChoose(h, m, "retire")
  /\ on' = [on EXCEPT ![h] = m] /\ who' = [who EXCEPT ![h] = Owner[m]]
  /\ UNCHANGED failed

FailMediaAfterCommit(h) ==
  /\ at[h] = "fail" /\ h \in Handlers
  /\ LockAndChoose(h, on[h], "retire")
  /\ failed' = failed \union {h}
  /\ UNCHANGED <<on, who>>

MarkFailed(m) ==
  /\ at[m] = "fail" /\ m \in MediaIds
  /\ LockAndChoose(m, m, "retire")
  /\ UNCHANGED <<on, who, failed>>

Retired(a, m) ==
  IF a \in failed
  THEN [media[m] EXCEPT !.status = "FAILED", !.approval = "REJECTED", !.primary = FALSE]
  ELSE [media[m] EXCEPT !.status = "DELETED", !.deleted = TRUE, !.primary = FALSE]

\* What follows a run of a task, or ends a request.
Return(a) ==
  Goto(a, IF a \in failed \intersect MediaIds /\ tries[a] < MaxAttempts THEN "queued" ELSE "done")

\* The index has another primary photo than the one that gives the flag up.
Taken(a) ==
  /\ IsPhoto(Medium(a)) /\ heir[a] \in Live(Owner[Medium(a)], "PROFILE_PHOTO")
  /\ \E n \in MediaIds \ {Medium(a), heir[a]} : IsPrimary(n) /\ Owner[n] = Owner[Medium(a)]

\* The heir becomes primary, deleted or not by then: the UPDATE names only its id.
CommitRetire(a) ==
  LET m == Medium(a) IN
  /\ at[a] = "retire" /\ Free(a, {heir[a]}) /\ ~Taken(a)
  /\ media' = [k \in MediaIds |->
       IF k = m THEN Retired(a, m)
       ELSE IF k = heir[a] THEN [media[k] EXCEPT !.primary = TRUE]
       ELSE media[k]]
  /\ IF IsPhoto(m) THEN Goto(a, "refresh") ELSE Return(a)
  /\ rows' = [rows EXCEPT ![a] = {}] /\ heir' = [heir EXCEPT ![a] = NoMedium]
  /\ UNCHANGED <<variants, objects, on, who, tries, failed, faults, abandoned>>

\* The index or the deadlock detector refuses the promotion, and with it the
\* transaction.  The error of markFailed and failMediaAfterCommit is ignored, so
\* the medium may stay as it is for good.
RetireRefused(a) ==
  /\ at[a] = "retire"
  /\ \/ Free(a, {heir[a]}) /\ Taken(a)
     \/ \E h \in Handlers : Deadlocked(h, a)
  /\ Return(a)
  /\ abandoned' = IF a \in failed THEN abandoned \union {Medium(a)} ELSE abandoned
  /\ rows' = [rows EXCEPT ![a] = {}] /\ heir' = [heir EXCEPT ![a] = NoMedium]
  /\ UNCHANGED <<media, variants, objects, on, who, tries, failed, faults>>

\* SetPrimary asks only for a live photo, whatever its status.
SetPrimary(h, m) ==
  LET photos == Live(Owner[m], "PROFILE_PHOTO") IN
  /\ at[h] = "idle" /\ m \in photos /\ Free(h, photos)
  /\ media' = [n \in MediaIds |->
       IF n \in photos THEN [media[n] EXCEPT !.primary = (n = m)] ELSE media[n]]
  /\ on' = [on EXCEPT ![h] = m] /\ who' = [who EXCEPT ![h] = Owner[m]]
  /\ Goto(h, "refresh")
  /\ UNCHANGED <<variants, objects, rows, heir, tries, failed, faults, abandoned>>

-----------------------------------------------------------------------------
(* ProcessPhoto and ProcessIntroVideo *)

Begin(m) ==
  /\ at[m] = "queued" /\ Free(m, {m})
  /\ IF media[m].deleted \/ media[m].status = "DELETED"
     THEN Goto(m, "done") /\ UNCHANGED media
     ELSE Goto(m, "make") /\ media' = [media EXCEPT ![m].status = "PROCESSING"]
  /\ tries' = [tries EXCEPT ![m] = @ + 1] /\ failed' = failed \ {m}
  /\ UNCHANGED <<variants, objects, rows, heir, on, who, faults, abandoned>>

\* The row is locked and read when the transaction fails: the run has a medium
\* to mark as failed.
BeginFails(m) ==
  /\ at[m] = "queued" /\ Free(m, {m})
  /\ ~media[m].deleted /\ media[m].status # "DELETED"
  /\ faults < MaxFaults /\ faults' = faults + 1
  /\ tries' = [tries EXCEPT ![m] = @ + 1] /\ failed' = failed \union {m}
  /\ Goto(m, "fail")
  /\ UNCHANGED <<media, variants, objects, rows, heir, on, who, abandoned>>

\* The transaction cannot begin, or the row cannot be locked: media.ID is 0 still,
\* for which markFailed does nothing.  The queue runs the task again, or archives
\* it with the medium as it was, and without a refresh.
BeginLost(m) ==
  /\ at[m] = "queued" /\ faults < MaxFaults /\ faults' = faults + 1
  /\ tries' = [tries EXCEPT ![m] = @ + 1]
  /\ IF tries[m] + 1 < MaxAttempts
     THEN UNCHANGED <<at, abandoned>>
     ELSE Goto(m, "done") /\ abandoned' = abandoned \union {m}
  /\ UNCHANGED <<media, variants, objects, rows, heir, failed, on, who>>

Make(m, types) ==
  /\ at[m] = "make"
  /\ objects' = objects \union ({m} \X types)
  /\ UNCHANGED <<media, variants, rows, heir, tries, on, who, faults, abandoned>>

FirstVariant(m) == IF IsPhoto(m) THEN "DISPLAY" ELSE "THUMBNAIL"

\* A plausible bug: after an error the run goes on to publish.
MakeFailsGoesOn(m) ==
  /\ \E types \in {{}, {FirstVariant(m)}} : Make(m, types)
  /\ Goto(m, "publish") /\ UNCHANGED failed

\* The file cannot be opened or is too long, or a command or the storage fails
\* at the first or the second variant.
MakeFails(m) ==
  /\ \E types \in {{}, {FirstVariant(m)}} : Make(m, types)
  /\ failed' = failed \union {m} /\ Goto(m, "fail")

MakeAll(m) == Make(m, Finished(m)) /\ Goto(m, "publish") /\ UNCHANGED failed

\* The UPDATE names only the id: it is not looked at again whether the medium
\* has been deleted, or marked failed by the upload, in the meantime.
Publish(m) ==
  /\ at[m] = "publish" /\ Free(m, {m})
  /\ variants' = [variants EXCEPT ![m] = @ \union Finished(m)]
  /\ media' = [media EXCEPT ![m].status = "READY",
                            ![m].approval = IF AutoApprove THEN "APPROVED" ELSE "PENDING"]
  /\ Goto(m, IF IsPhoto(m) THEN "refresh" ELSE "done")
  /\ UNCHANGED <<objects, rows, heir, tries, failed, on, who, faults, abandoned>>

PublishFails(m) ==
  /\ at[m] = "publish" /\ faults < MaxFaults /\ faults' = faults + 1
  /\ failed' = failed \union {m} /\ Goto(m, "fail")
  /\ UNCHANGED <<media, variants, objects, rows, heir, tries, on, who, abandoned>>

\* A process dies: its transaction is undone.  The queue runs a task again
\* whose worker died, while it has runs left.  (So does a call fail whose error
\* is ignored, such as those of markFailed.)
Die(a) ==
  /\ at[a] \notin {"idle", "queued", "done"}
  /\ faults < MaxFaults /\ faults' = faults + 1
  /\ Goto(a, IF a \in MediaIds /\ tries[a] < MaxAttempts THEN "queued" ELSE "done")
  /\ abandoned' = abandoned \union {Medium(a)}
  /\ rows' = [rows EXCEPT ![a] = {}] /\ heir' = [heir EXCEPT ![a] = NoMedium]
  /\ UNCHANGED <<media, variants, objects, tries, failed, on, who>>

-----------------------------------------------------------------------------
MediaInit ==
  /\ media = [m \in MediaIds |-> IF m \in Published
       THEN [status |-> "READY", approval |-> "APPROVED", primary |-> m \in Primary, deleted |-> FALSE]
       ELSE NoRow]
  /\ variants = [m \in MediaIds |-> IF m \in Published THEN Finished(m) ELSE {}]
  /\ objects = UNION {{m} \X Finished(m) : m \in Published}
  /\ at = [a \in Actors |-> IF a \in Published THEN "done" ELSE "idle"]
  /\ on = [h \in Handlers |-> NoMedium]
  /\ who = [h \in Handlers |-> CHOOSE u \in Users : TRUE]
  /\ rows = [a \in Actors |-> {}]
  /\ heir = [a \in Actors |-> NoMedium]
  /\ tries = [m \in MediaIds |-> 0]
  /\ failed = {}
  /\ faults = 0 /\ abandoned = {}

\* An upload after its file is in storage.
UploadGoesOn(h) ==
  \/ LockLive(h)
  \/ \E p \in BOOLEAN : CreatePhotoRows(h, p)
  \/ CreateIntroRows(h)
  \/ TransactionFails(h)
  \/ UndoUpload(h)
  \/ Enqueue(h)
  \/ EnqueueFails(h)
  \/ FailMediaAfterCommit(h)

Process(m) ==
  \/ Begin(m) \/ BeginFails(m) \/ MakeAll(m) \/ MakeFails(m) \/ Publish(m) \/ PublishFails(m)
  \/ MarkFailed(m) \/ CommitRetire(m)

-----------------------------------------------------------------------------
MediaTypeOK ==
  /\ media \in [MediaIds -> [status : {"NONE", "UPLOADED", "PROCESSING", "READY", "FAILED", "DELETED"},
                             approval : {"PENDING", "APPROVED", "REJECTED"},
                             primary : BOOLEAN, deleted : BOOLEAN]]
  /\ variants \in [MediaIds -> SUBSET {"ORIGINAL", "DISPLAY", "THUMBNAIL", "TRANSCODED"}]
  /\ objects \subseteq MediaIds \X {"ORIGINAL", "DISPLAY", "THUMBNAIL", "TRANSCODED"}
  /\ rows \in [Actors -> SUBSET MediaIds] /\ heir \in [Actors -> MediaIds \union {NoMedium}]
  /\ tries \in [MediaIds -> 0 .. MaxAttempts] /\ failed \subseteq Actors /\ faults \in 0 .. MaxFaults

\* Whatever fails and whoever dies, in whichever order the storage, the
\* database and the worker are reached: a row of a variant names a file that is
\* there, and a medium that is READY has every variant the clients ask for.
WhatIsReadyCanBeServed ==
  \A m \in MediaIds :
    /\ {m} \X variants[m] \subseteq objects
    /\ media[m].status = "READY" => Finished(m) \subseteq variants[m]

\* When nobody is at work, no medium is left UPLOADED or PROCESSING with no
\* task to come: each upload is READY, FAILED or deleted, whatever calls failed,
\* unless a process died with it, its failure could not be recorded, or the last
\* run of its task failed before it had read the row.  (In that case the code has
\* no medium to mark, and leaves it UPLOADED.)
UploadsSettle ==
  (\A a \in Actors : at[a] \in {"idle", "done"}) =>
    \A m \in MediaIds :
      \/ media[m].status \in {"NONE", "READY", "FAILED"} \/ media[m].deleted
      \/ m \in abandoned

\* However an upload was refused, by the limit, the index or a deadlock, it takes
\* its file back: when nobody is at work, every file in storage belongs to a row,
\* unless the process that stored it died, or could not remove it.
OrphansAreRemoved ==
  (\A a \in Actors : at[a] \in {"idle", "done"}) =>
    \A file \in objects : media[file[1]].status # "NONE" \/ file[1] \in abandoned

\* A user has one primary photo at most, and not because the unique index says
\* so: who gives up a photo that is still there finds no other primary photo
\* when he promotes the next, whatever was chosen, uploaded or deleted since he
\* looked.  The index only refuses who gives up what another has deleted.
OnePrimary ==
  /\ \A m, n \in MediaIds : IsPrimary(m) /\ IsPrimary(n) /\ Owner[m] = Owner[n] => m = n
  /\ \A a \in Actors : at[a] = "retire" /\ ~media[Medium(a)].deleted => ~Taken(a)

\* The limit of photos holds, for however many uploads at once, for every user
\* who still has a photo that was there before them: it is that row the uploads
\* lock in turn before they count.  (Without one they have nothing to lock.)
PhotoLimitHolds ==
  \A p \in Published : ~media[p].deleted =>
    Cardinality(Live(Owner[p], "PROFILE_PHOTO")) <= MaxProfilePhotos
=============================================================================
