------------------------ MODULE DiscoverabilityProofs ------------------------
(***************************************************************************)
(* Theorems about Discoverability and Media, for any users, media, handlers *)
(* and bounds.                                                              *)
(***************************************************************************)
EXTENDS Discoverability, FiniteSetTheorems, TLAPS

-----------------------------------------------------------------------------
(* The media: what an upload and a task know of their medium. *)

Steps == {"idle", "lock", "insert", "undo", "queue", "fail", "retire", "refresh", "write", "done",
          "queued", "make", "publish", "feed", "detail", "impression", "photo", "row", "match", "authorize"}
TaskSteps == {"idle", "queued", "make", "publish", "fail", "retire", "refresh", "write", "done"}

Types ==
  /\ MediaTypeOK
  /\ at \in [Actors -> Steps]
  /\ on \in [Handlers -> MediaIds \union {NoMedium}]
  /\ who \in [Handlers -> Users]

Before == {"lock", "insert", "undo"}
Uploading == Before \union {"queue"}

\* Until its task is enqueued an upload has its medium for itself.
Uploads(h) ==
  LET m == on[h] IN
  /\ at[h] \notin {"queued", "make", "publish"}
  /\ at[h] \in Uploading \union {"fail", "retire"} => m \in MediaIds /\ who[h] = Owner[m]
  /\ at[h] \in Before => media[m].status = "NONE" /\ <<m, "ORIGINAL">> \in objects
  /\ at[h] \in {"queue", "fail", "retire"} => media[m].status # "NONE"
  /\ at[h] \in Uploading => at[m] = "idle" /\ tries[m] = 0

UploadsApart ==
  \A g, h \in Handlers : at[g] \in Uploading /\ at[h] \in Uploading /\ on[g] = on[h] => g = h

\* A handler that will enqueue the task of a medium, or mark it failed.
Carries(h, m) ==
  on[h] = m /\ (at[h] \in {"queue", "fail"} \/ (at[h] = "retire" /\ h \in failed))

Settled(m) ==
  \/ media[m].status \in {"NONE", "READY", "FAILED"}
  \/ media[m].deleted
  \/ m \in abandoned

Tasks(m) ==
  /\ at[m] \in TaskSteps
  /\ media[m].status = "NONE" => at[m] = "idle" /\ tries[m] = 0 /\ variants[m] = {}
  /\ media[m].status = "DELETED" => media[m].deleted
  /\ at[m] = "queued" => tries[m] < MaxAttempts
  /\ at[m] \in {"fail", "retire"} => m \in failed
  /\ at[m] = "publish" => \A t \in Finished(m) : <<m, t>> \in objects
  /\ \A t \in variants[m] : <<m, t>> \in objects
  /\ media[m].status = "READY" => Finished(m) \subseteq variants[m]
  /\ \/ Settled(m)
     \/ at[m] \in {"queued", "make", "publish", "fail", "retire"}
     \/ \E h \in Handlers : Carries(h, m)

HeirsBelong ==
  \A a \in Actors : at[a] = "retire" /\ heir[a] # NoMedium =>
    IsPhoto(Medium(a)) /\ IsPhoto(heir[a]) /\ Owner[heir[a]] = Owner[Medium(a)]

MediaInv ==
  /\ Types
  /\ \A h \in Handlers : Uploads(h)
  /\ UploadsApart
  /\ \A m \in MediaIds : Tasks(m)
  /\ HeirsBelong

\* What an UPDATE sets of a row.
Rows == [status : {"NONE", "UPLOADED", "PROCESSING", "READY", "FAILED", "DELETED"},
         approval : {"PENDING", "APPROVED", "REJECTED"}, primary : BOOLEAN, deleted : BOOLEAN]

LEMMA PrimaryUpdate ==
  ASSUME NEW r \in Rows, NEW p \in BOOLEAN
  PROVE LET x == [r EXCEPT !.primary = p] IN
        /\ x \in Rows /\ x.status = r.status /\ x.approval = r.approval /\ x.deleted = r.deleted
        /\ x.primary = p
BY DEF Rows

LEMMA StatusUpdate ==
  ASSUME NEW r \in Rows, NEW status \in {"PROCESSING"}
  PROVE LET x == [r EXCEPT !.status = status] IN
        x \in Rows /\ x.status = status /\ x.deleted = r.deleted /\ x.primary = r.primary
BY DEF Rows

LEMMA PublishUpdate ==
  ASSUME NEW r \in Rows, NEW approval \in {"PENDING", "APPROVED"}
  PROVE LET x == [r EXCEPT !.status = "READY", !.approval = approval] IN
        x \in Rows /\ x.status = "READY" /\ x.deleted = r.deleted /\ x.primary = r.primary
BY DEF Rows

LEMMA DeleteUpdate ==
  ASSUME NEW r \in Rows
  PROVE /\ LET x == [r EXCEPT !.status = "DELETED", !.deleted = TRUE] IN
           x \in Rows /\ x.status = "DELETED" /\ x.deleted
        /\ LET x == [r EXCEPT !.status = "DELETED", !.deleted = TRUE, !.primary = FALSE] IN
           x \in Rows /\ x.status = "DELETED" /\ x.deleted
        /\ LET x == [r EXCEPT !.status = "FAILED", !.approval = "REJECTED", !.primary = FALSE] IN
           x \in Rows /\ x.status = "FAILED" /\ x.deleted = r.deleted
BY DEF Rows

-----------------------------------------------------------------------------
\* What a step leaves alone.
SameMedium(m) ==
  /\ media'[m].status = media[m].status /\ media'[m].deleted = media[m].deleted
  /\ variants'[m] = variants[m] /\ tries'[m] = tries[m] /\ at'[m] = at[m]
  /\ m \in failed => m \in failed'
  /\ m \in abandoned => m \in abandoned'
  /\ \A t : <<m, t>> \in objects => <<m, t>> \in objects'

SameHandler(h) ==
  at'[h] = at[h] /\ on'[h] = on[h] /\ who'[h] = who[h] /\ (h \in failed => h \in failed')

LEMMA MediumKept ==
  ASSUME NEW m \in MediaIds, Tasks(m), SameMedium(m),
         \A h \in Handlers : Carries(h, m) => Carries(h, m)'
  PROVE Tasks(m)'
BY DEF Tasks, SameMedium, Settled

\* The media of M and the handlers of H move, the others do not.
LEMMA StepKeepsMediaInv ==
  ASSUME MediaInv, Types', HeirsBelong', NEW M \in SUBSET MediaIds, NEW H \in SUBSET Handlers,
         \A m \in MediaIds \ M : SameMedium(m),
         \A m \in M : Tasks(m)',
         \A h \in Handlers \ H : SameHandler(h),
         \A h \in H : Uploads(h)',
         \A h \in H, m \in MediaIds \ M : Carries(h, m) => Carries(h, m)',
         \A h \in H, g \in Handlers :
           h # g /\ at'[h] \in Uploading /\ at'[g] \in Uploading => on'[h] # on'[g],
         \A h \in Handlers \ H : on[h] \in M =>
           /\ at[h] \in Uploading => at'[on[h]] = "idle" /\ tries'[on[h]] = 0
           /\ at[h] \in Before => media'[on[h]].status = "NONE" /\ <<on[h], "ORIGINAL">> \in objects'
           /\ at[h] \in {"queue", "fail", "retire"} => media'[on[h]].status # "NONE"
  PROVE MediaInv'
<1>1. ASSUME NEW m \in MediaIds PROVE Tasks(m)'
  <2>1. CASE m \in M
    BY <2>1
  <2>2. CASE m \notin M
    <3>1. \A h \in Handlers : Carries(h, m) => Carries(h, m)'
      BY <2>2 DEF Carries, SameHandler
    <3> QED BY <2>2, <3>1, MediumKept DEF MediaInv
  <2> QED BY <2>1, <2>2
<1>2. ASSUME NEW h \in Handlers PROVE Uploads(h)'
  <2>1. CASE h \in H
    BY <2>1
  <2>2. CASE h \notin H
    <3>1. SameHandler(h) /\ Uploads(h)
      BY <2>2 DEF MediaInv
    <3>2. CASE on[h] \in M
      BY <2>2, <3>1, <3>2 DEF Uploads, SameHandler, Uploading, Before
    <3>3. CASE on[h] \in MediaIds \ M
      <4>1. SameMedium(on[h])
        BY <3>3
      <4> QED BY <3>1, <4>1 DEF Uploads, SameHandler, SameMedium, Uploading, Before
    <3>4. CASE on[h] \notin MediaIds
      BY <3>1, <3>4 DEF Uploads, SameHandler, Uploading, Before
    <3> QED BY <3>2, <3>3, <3>4
  <2> QED BY <2>1, <2>2
<1>3. UploadsApart'
  BY DEF MediaInv, UploadsApart, SameHandler
<1> QED BY <1>1, <1>2, <1>3 DEF MediaInv

-----------------------------------------------------------------------------
LEMMA ActorsApart ==
  /\ Handlers \subseteq Actors /\ MediaIds \subseteq Actors /\ NoMedium \notin MediaIds
  /\ \A h \in Handlers, m \in MediaIds : h # m
BY ActorsAssumption DEF Actors

\* A handler goes on from one step to the next and leaves the rows alone.
LEMMA HandlerMoves ==
  ASSUME MediaInv, NEW h \in Handlers, NEW step \in Steps, at' = [at EXCEPT ![h] = step],
         Types', HeirsBelong', Uploads(h)',
         \A m \in MediaIds : SameMedium(m) /\ (Carries(h, m) => Carries(h, m)'),
         \A g \in Handlers \ {h} : on'[g] = on[g] /\ who'[g] = who[g] /\ (g \in failed => g \in failed'),
         step \in Uploading => \/ at[h] \in Uploading /\ on'[h] = on[h]
                               \/ \A g \in Handlers \ {h} : at[g] \in Uploading => on[g] # on'[h]
  PROVE MediaInv'
<1>1. at'[h] = step /\ \A a \in Actors \ {h} : at'[a] = at[a]
  BY ActorsApart DEF MediaInv, Types
<1>2. \A g \in Handlers \ {h} : SameHandler(g)
  BY <1>1, ActorsApart DEF SameHandler
<1>3. \A g \in Handlers : h # g /\ at'[h] \in Uploading /\ at'[g] \in Uploading => on'[h] # on'[g]
  BY <1>1, ActorsApart DEF MediaInv, UploadsApart
<1>4. \A g \in {h}, k \in Handlers :
        g # k /\ at'[g] \in Uploading /\ at'[k] \in Uploading => on'[g] # on'[k]
  BY <1>3
<1>5. /\ \A m \in MediaIds \ {} : SameMedium(m)
      /\ \A m \in {} : Tasks(m)'
      /\ \A g \in {h} : Uploads(g)'
      /\ \A g \in {h}, m \in MediaIds \ {} : Carries(g, m) => Carries(g, m)'
      /\ {} \in SUBSET MediaIds /\ {h} \in SUBSET Handlers
  OBVIOUS
<1> QED BY <1>2, <1>4, <1>5, StepKeepsMediaInv

LEMMA StoreUploadKeepsMediaInv ==
  ASSUME MediaInv, NEW h \in Handlers, NEW m \in MediaIds, StoreUpload(h, m)
  PROVE MediaInv'
<1> USE ActorsApart
<1>1. at'[h] = "lock" /\ on'[h] = m /\ who'[h] = Owner[m] /\ at'[m] = at[m]
  BY DEF StoreUpload, Goto, MediaInv, Types
<1>2. Types'
  <2>1. objects' \subseteq MediaIds \X {"ORIGINAL", "DISPLAY", "THUMBNAIL", "TRANSCODED"}
    BY DEF StoreUpload, MediaInv, Types, MediaTypeOK
  <2>2. rows' \in [Actors -> SUBSET MediaIds]
    BY DEF StoreUpload, MediaInv, Types, MediaTypeOK, Live
  <2>3. at' \in [Actors -> Steps] /\ who' \in [Handlers -> Users]
    BY OwnerAssumption DEF StoreUpload, MediaInv, Types, Goto, Steps
  <2> QED BY <2>1, <2>2, <2>3 DEF StoreUpload, MediaInv, Types, MediaTypeOK
<1>3. HeirsBelong'
  BY <1>1 DEF StoreUpload, MediaInv, Types, HeirsBelong, Medium, Goto
<1>4. at[m] = "idle" /\ tries[m] = 0
  BY DEF StoreUpload, MediaInv, Tasks
<1>5. Uploads(h)'
  BY <1>1, <1>4 DEF StoreUpload, Uploads, Uploading, Before
<1>6. \A n \in MediaIds : SameMedium(n) /\ ~Carries(h, n)
  BY DEF StoreUpload, Goto, SameMedium, Carries, MediaInv, Types
<1>7. \A g \in Handlers \ {h} : at[g] \in Uploading => on[g] # m
  BY DEF StoreUpload, MediaInv, Uploads, Uploading
<1> QED
  BY <1>1, <1>2, <1>3, <1>5, <1>6, <1>7, HandlerMoves DEF StoreUpload, Goto, Steps, MediaInv, Types

LEMMA LockLiveKeepsMediaInv ==
  ASSUME MediaInv, NEW h \in Handlers, LockLive(h)
  PROVE MediaInv'
<1> USE ActorsApart
<1>1. PICK step \in {"undo", "insert"} : at' = [at EXCEPT ![h] = step]
  BY DEF LockLive, Goto
<1>2. at'[h] = step /\ at[h] = "lock" /\ on[h] \in MediaIds
  BY <1>1 DEF LockLive, MediaInv, Types, Uploads, Uploading, Before
<1>3. Types'
  <2>1. rows' \in [Actors -> SUBSET MediaIds]
    <3>1. \E R \in SUBSET MediaIds : rows' = [rows EXCEPT ![h] = R]
      <4>1. rows[h] \intersect Live(Owner[on[h]], Purpose[on[h]]) \in SUBSET MediaIds
        BY DEF MediaInv, Types, MediaTypeOK
      <4> QED BY <4>1 DEF LockLive
    <3> QED BY <3>1 DEF MediaInv, Types, MediaTypeOK
  <2>2. heir' = heir \/ \E n \in MediaIds \union {NoMedium} : heir' = [heir EXCEPT ![h] = n]
    BY <1>2 DEF LockLive
  <2>3. heir' \in [Actors -> MediaIds \union {NoMedium}]
    BY <2>2 DEF MediaInv, Types, MediaTypeOK
  <2> QED BY <1>1, <2>1, <2>3 DEF LockLive, MediaInv, Types, MediaTypeOK, Steps
<1>4. HeirsBelong'
  BY <1>1, <1>2 DEF LockLive, MediaInv, Types, MediaTypeOK, HeirsBelong, Medium
<1>5. Uploads(h)'
  <2>1. at'[on[h]] = at[on[h]]
    BY <1>1, <1>2 DEF MediaInv, Types
  <2> QED BY <1>2, <2>1 DEF LockLive, MediaInv, Uploads, Uploading, Before
<1>6. \A n \in MediaIds : SameMedium(n) /\ ~Carries(h, n)
  BY <1>1, <1>2 DEF LockLive, SameMedium, Carries, MediaInv, Types
<1> QED
  BY <1>1, <1>2, <1>3, <1>4, <1>5, <1>6, HandlerMoves DEF LockLive, Steps, Uploading, Before

LEMMA TransactionFailsKeepsMediaInv ==
  ASSUME MediaInv, NEW h \in Handlers, TransactionFails(h)
  PROVE MediaInv'
<1> USE ActorsApart
<1>1. /\ at' = [at EXCEPT ![h] = "undo"] /\ at[h] \in {"lock", "insert"} /\ on[h] \in MediaIds
      /\ UNCHANGED <<media, variants, objects, on, who, tries, failed, abandoned>>
  BY DEF TransactionFails, Goto, MediaInv, Uploads, Uploading, Before
<1>2. at'[h] = "undo" /\ \A a \in Actors \ {h} : at'[a] = at[a]
  BY <1>1 DEF MediaInv, Types
<1>3. /\ rows' \in [Actors -> SUBSET MediaIds] /\ heir' \in [Actors -> MediaIds \union {NoMedium}]
      /\ \A a \in Actors \ {h} : heir'[a] = heir[a]
  BY DEF TransactionFails, MediaInv, Types, MediaTypeOK
<1>4. faults' \in 0 .. MaxFaults
  BY MediaBoundsAssumption DEF TransactionFails, MediaInv, Types, MediaTypeOK
<1>5. Types'
  BY <1>1, <1>3, <1>4 DEF MediaInv, Types, MediaTypeOK, Steps
<1>6. HeirsBelong'
  BY <1>1, <1>2, <1>3 DEF MediaInv, HeirsBelong, Medium
<1>7. Uploads(h)'
  BY <1>1, <1>2 DEF MediaInv, Uploads, Uploading, Before
<1>8. \A n \in MediaIds : SameMedium(n) /\ ~Carries(h, n)
  BY <1>1, <1>2 DEF SameMedium, Carries
<1> QED BY <1>1, <1>5, <1>6, <1>7, <1>8, HandlerMoves DEF Steps, Uploading, Before

\* An upload and the medium it has for itself.
LEMMA PairMoves ==
  ASSUME MediaInv, Types', HeirsBelong', NEW h \in Handlers, NEW m \in MediaIds,
         on[h] = m, at[h] \in Uploading, on'[h] = m, Uploads(h)', Tasks(m)',
         media'[m].status = "NONE" => media[m].status = "NONE",
         \A n \in MediaIds \ {m} : SameMedium(n),
         \A g \in Handlers \ {h} : SameHandler(g)
  PROVE MediaInv'
<1>1. \A g \in Handlers \ {h} : at[g] \in Uploading => on[g] # m
  BY DEF MediaInv, UploadsApart
<1>2. \A g \in Handlers \ {h} : on[g] = m /\ at[g] \in {"queue", "fail", "retire"} => media'[m].status # "NONE"
  BY DEF MediaInv, Uploads
<1>3. \A g \in Handlers \ {h} : at'[g] \in Uploading => on'[g] # m
  BY <1>1 DEF SameHandler
<1>4. /\ \A n \in {m} : Tasks(n)'
      /\ \A g \in {h} : Uploads(g)'
      /\ \A g \in {h}, n \in MediaIds \ {m} : Carries(g, n) => Carries(g, n)'
      /\ \A g \in {h}, k \in Handlers :
           g # k /\ at'[g] \in Uploading /\ at'[k] \in Uploading => on'[g] # on'[k]
      /\ {m} \in SUBSET MediaIds /\ {h} \in SUBSET Handlers
  BY <1>3 DEF Carries
<1>5. \A g \in Handlers \ {h} : on[g] \in {m} =>
        /\ at[g] \in Uploading => at'[on[g]] = "idle" /\ tries'[on[g]] = 0
        /\ at[g] \in Before => media'[on[g]].status = "NONE" /\ <<on[g], "ORIGINAL">> \in objects'
        /\ at[g] \in {"queue", "fail", "retire"} => media'[on[g]].status # "NONE"
  BY <1>1, <1>2 DEF Uploading
<1> QED BY <1>4, <1>5, StepKeepsMediaInv

LEMMA CreatePhotoRowsKeepsMediaInv ==
  ASSUME MediaInv, NEW h \in Handlers, NEW p \in BOOLEAN, CreatePhotoRows(h, p)
  PROVE MediaInv'
<1> USE ActorsApart
<1>1. at[h] = "insert" /\ Uploads(h) /\ on[h] \in MediaIds
  BY DEF CreatePhotoRows, MediaInv, Uploads, Uploading, Before
<1>2. PICK m \in MediaIds : m = on[h]
  BY <1>1
<1>3. PICK step \in {"queue", "undo"} :
        /\ at' = [at EXCEPT ![h] = step]
        /\ step = "undo" => UNCHANGED <<media, variants>>
        /\ step = "queue" => \E primary \in BOOLEAN :
             /\ variants' = [variants EXCEPT ![m] = {"ORIGINAL"}]
             /\ media' = [n \in MediaIds |->
                  IF n = m THEN Insert(m, primary)
                  ELSE IF n \in Live(Owner[m], "PROFILE_PHOTO") /\ primary
                  THEN [media[n] EXCEPT !.primary = FALSE] ELSE media[n]]
  BY <1>2 DEF CreatePhotoRows, Goto
<1>4. /\ at'[h] = step /\ at'[m] = "idle" /\ tries[m] = 0 /\ at[m] = "idle"
      /\ \A a \in Actors \ {h} : at'[a] = at[a]
  BY <1>1, <1>2, <1>3 DEF MediaInv, Types, Uploads, Uploading, Before
<1>5. /\ rows' \in [Actors -> SUBSET MediaIds] /\ heir' \in [Actors -> MediaIds \union {NoMedium}]
      /\ at' \in [Actors -> Steps]
  BY <1>3 DEF CreatePhotoRows, MediaInv, Types, MediaTypeOK, Steps
<1>6. HeirsBelong'
  BY <1>4 DEF CreatePhotoRows, MediaInv, Types, MediaTypeOK, HeirsBelong, Medium
<1>7. UNCHANGED <<objects, on, who, tries, failed, faults, abandoned>>
  BY DEF CreatePhotoRows
<1>8. \A g \in Handlers \ {h} : SameHandler(g)
  BY <1>4, <1>7 DEF SameHandler
<1>9. CASE step = "undo"
  <2>1. UNCHANGED <<media, variants>>
    BY <1>3, <1>9
  <2>2. Types'
    BY <1>5, <1>7, <2>1 DEF MediaInv, Types, MediaTypeOK
  <2>3. Uploads(h)'
    BY <1>1, <1>2, <1>4, <1>7, <1>9, <2>1 DEF Uploads, Uploading, Before
  <2>4. \A n \in MediaIds : SameMedium(n) /\ ~Carries(h, n)
    BY <1>1, <1>4, <1>7, <2>1 DEF SameMedium, Carries
  <2> QED BY <1>1, <1>3, <1>6, <1>7, <2>2, <2>3, <2>4, HandlerMoves DEF Uploading, Before, Steps
<1>10. CASE step = "queue"
  <2>1. PICK primary \in BOOLEAN :
          /\ variants' = [variants EXCEPT ![m] = {"ORIGINAL"}]
          /\ media' = [n \in MediaIds |->
               IF n = m THEN Insert(m, primary)
               ELSE IF n \in Live(Owner[m], "PROFILE_PHOTO") /\ primary
               THEN [media[n] EXCEPT !.primary = FALSE] ELSE media[n]]
    BY <1>3, <1>10
  <2>2. Types'
    <3>1. variants' \in [MediaIds -> SUBSET {"ORIGINAL", "DISPLAY", "THUMBNAIL", "TRANSCODED"}]
      BY <2>1 DEF MediaInv, Types, MediaTypeOK
    <3>2. media' \in [MediaIds -> [status : {"NONE", "UPLOADED", "PROCESSING", "READY", "FAILED", "DELETED"},
                                   approval : {"PENDING", "APPROVED", "REJECTED"},
                                   primary : BOOLEAN, deleted : BOOLEAN]]
      <4>1. Insert(m, primary) \in Rows /\ \A n \in MediaIds : media[n] \in Rows
        BY DEF MediaInv, Types, MediaTypeOK, Insert, Rows
      <4>2. \A n \in MediaIds : [media[n] EXCEPT !.primary = FALSE] \in Rows
        BY <4>1, PrimaryUpdate
      <4> QED BY <2>1, <4>1, <4>2 DEF Rows
    <3> QED BY <1>5, <1>7, <3>1, <3>2 DEF MediaInv, Types, MediaTypeOK
  <2>3. \A n \in MediaIds \ {m} : SameMedium(n)
    BY <1>4, <1>7, <2>1 DEF SameMedium, MediaInv, Types, MediaTypeOK
  <2>4. media'[m].status = "UPLOADED" /\ variants'[m] = {"ORIGINAL"}
    BY <2>1 DEF Insert, MediaInv, Types, MediaTypeOK
  <2>5. Uploads(h)'
    BY <1>1, <1>2, <1>4, <1>7, <1>10, <2>4 DEF Uploads, Uploading, Before
  <2>6. Tasks(m)'
    <3>1. Carries(h, m)'
      BY <1>2, <1>4, <1>7, <1>10 DEF Carries
    <3> QED BY <1>1, <1>2, <1>4, <1>7, <2>4, <3>1 DEF Tasks, Uploads, TaskSteps, Before
  <2> QED BY <1>1, <1>2, <1>6, <1>7, <1>8, <2>2, <2>3, <2>4, <2>5, <2>6, PairMoves DEF Uploading, Before
<1> QED BY <1>3, <1>9, <1>10

LEMMA CreateIntroRowsKeepsMediaInv ==
  ASSUME MediaInv, NEW h \in Handlers, CreateIntroRows(h)
  PROVE MediaInv'
<1> USE ActorsApart
<1>1. at[h] = "insert" /\ Uploads(h) /\ on[h] \in MediaIds
  BY DEF CreateIntroRows, MediaInv, Uploads, Uploading, Before
<1>2. PICK m \in MediaIds : m = on[h]
  BY <1>1
<1>3. PICK others \in SUBSET MediaIds : others = Live(Owner[m], "INTRO_VIDEO")
  BY DEF Live
<1>4. PICK step \in {"queue", "undo"} :
        /\ at' = [at EXCEPT ![h] = step]
        /\ step = "undo" => UNCHANGED <<media, variants>>
        /\ step = "queue" =>
             /\ variants' = [variants EXCEPT ![m] = {"ORIGINAL"}]
             /\ media' = [n \in MediaIds |->
                  IF n = m THEN Insert(m, FALSE)
                  ELSE IF n \in others
                  THEN [media[n] EXCEPT !.status = "DELETED", !.deleted = TRUE] ELSE media[n]]
  BY <1>2, <1>3 DEF CreateIntroRows, Goto
<1>5. /\ at'[h] = step /\ at'[m] = "idle" /\ tries[m] = 0 /\ at[m] = "idle"
      /\ \A a \in Actors \ {h} : at'[a] = at[a]
  BY <1>1, <1>2, <1>4 DEF MediaInv, Types, Uploads, Uploading, Before
<1>6. /\ rows' \in [Actors -> SUBSET MediaIds] /\ heir' \in [Actors -> MediaIds \union {NoMedium}]
      /\ at' \in [Actors -> Steps]
  BY <1>4 DEF CreateIntroRows, MediaInv, Types, MediaTypeOK, Steps
<1>7. HeirsBelong'
  BY <1>5, ZenonT(60) DEF CreateIntroRows, MediaInv, Types, MediaTypeOK, HeirsBelong, Medium
<1>8. UNCHANGED <<objects, on, who, tries, failed, faults, abandoned>>
  BY DEF CreateIntroRows
<1>9. \A g \in Handlers \ {h} : SameHandler(g)
  BY <1>5, <1>8 DEF SameHandler
<1>10. CASE step = "undo"
  <2>1. UNCHANGED <<media, variants>>
    BY <1>4, <1>10
  <2>2. Types'
    BY <1>6, <1>8, <2>1 DEF MediaInv, Types, MediaTypeOK
  <2>3. Uploads(h)'
    BY <1>1, <1>2, <1>5, <1>8, <1>10, <2>1 DEF Uploads, Uploading, Before
  <2>4. \A n \in MediaIds : SameMedium(n) /\ ~Carries(h, n)
    BY <1>1, <1>5, <1>8, <2>1 DEF SameMedium, Carries
  <2> QED BY <1>1, <1>4, <1>7, <1>8, <2>2, <2>3, <2>4, HandlerMoves DEF Uploading, Before, Steps
<1>11. CASE step = "queue"
  <2>1. /\ variants' = [variants EXCEPT ![m] = {"ORIGINAL"}]
        /\ media' = [n \in MediaIds |->
             IF n = m THEN Insert(m, FALSE)
             ELSE IF n \in others
             THEN [media[n] EXCEPT !.status = "DELETED", !.deleted = TRUE] ELSE media[n]]
    BY <1>4, <1>11
  <2>2. \A n \in MediaIds : media[n] \in Rows
    BY DEF MediaInv, Types, MediaTypeOK, Rows
  <2>3. Types'
    <3>1. variants' \in [MediaIds -> SUBSET {"ORIGINAL", "DISPLAY", "THUMBNAIL", "TRANSCODED"}]
      BY <2>1 DEF MediaInv, Types, MediaTypeOK
    <3>2. Insert(m, FALSE) \in Rows
      BY DEF Insert, Rows
    <3>3. \A n \in MediaIds : [media[n] EXCEPT !.status = "DELETED", !.deleted = TRUE] \in Rows
      BY <2>2, DeleteUpdate
    <3>4. media' \in [MediaIds -> Rows]
      BY <2>1, <2>2, <3>2, <3>3
    <3> QED BY <1>6, <1>8, <3>1, <3>4 DEF MediaInv, Types, MediaTypeOK, Rows
  <2>4. \A n \in MediaIds \ ({m} \union others) : SameMedium(n)
    BY <1>5, <1>8, <2>1 DEF SameMedium, MediaInv, Types, MediaTypeOK
  <2>5. media'[m].status = "UPLOADED" /\ variants'[m] = {"ORIGINAL"}
    BY <2>1 DEF Insert, MediaInv, Types, MediaTypeOK
  <2>6. \A n \in others \ {m} : /\ media'[n].status = "DELETED" /\ media'[n].deleted /\ media[n].status # "NONE"
                               /\ variants'[n] = variants[n]
    BY <1>3, <2>1, <2>2, DeleteUpdate, ZenonT(60) DEF Live, MediaInv, Types, MediaTypeOK
  <2>7. Uploads(h)'
    BY <1>1, <1>2, <1>5, <1>8, <1>11, <2>5 DEF Uploads, Uploading, Before
  <2>8. Tasks(m)'
    <3>1. Carries(h, m)'
      BY <1>2, <1>5, <1>8, <1>11 DEF Carries
    <3> QED BY <1>1, <1>2, <1>5, <1>8, <2>5, <3>1 DEF Tasks, Uploads, TaskSteps, Before
  <2>9. \A n \in others \ {m} : Tasks(n)'
    BY <1>5, <1>8, <2>6 DEF Tasks, Settled, MediaInv
  <2>10. \A g \in Handlers \ {h} : at[g] \in Uploading => on[g] # m
    BY <1>1, <1>2 DEF MediaInv, UploadsApart, Uploading, Before
  <2>11. \A g \in Handlers \ {h} : on[g] \in {m} \union others =>
           /\ at[g] \in Uploading => at'[on[g]] = "idle" /\ tries'[on[g]] = 0
           /\ at[g] \in Before => media'[on[g]].status = "NONE" /\ <<on[g], "ORIGINAL">> \in objects'
           /\ at[g] \in {"queue", "fail", "retire"} => media'[on[g]].status # "NONE"
    BY <1>5, <1>8, <2>5, <2>6, <2>10 DEF MediaInv, Uploads, Uploading
  <2>12. /\ \A n \in {m} \union others : Tasks(n)'
         /\ \A g \in {h} : Uploads(g)'
         /\ \A g \in {h}, n \in MediaIds \ ({m} \union others) : Carries(g, n) => Carries(g, n)'
         /\ {m} \union others \in SUBSET MediaIds /\ {h} \in SUBSET Handlers
    BY <1>2, <2>7, <2>8, <2>9 DEF Carries
  <2>13. \A g \in {h}, k \in Handlers :
           g # k /\ at'[g] \in Uploading /\ at'[k] \in Uploading => on'[g] # on'[k]
    BY <1>2, <1>5, <1>8, <2>10
  <2> QED BY <1>7, <1>9, <2>3, <2>4, <2>11, <2>12, <2>13, StepKeepsMediaInv, ZenonT(60)
<1> QED BY <1>4, <1>10, <1>11

LEMMA UndoUploadKeepsMediaInv ==
  ASSUME MediaInv, NEW h \in Handlers, UndoUpload(h)
  PROVE MediaInv'
<1> USE ActorsApart
<1>1. PICK m \in MediaIds : at[h] = "undo" /\ m = on[h] /\ media[m].status = "NONE"
  BY DEF UndoUpload, MediaInv, Uploads, Uploading, Before
<1>2. at'[h] = "done" /\ \A a \in Actors \ {h} : at'[a] = at[a]
  BY DEF UndoUpload, Goto, MediaInv, Types
<1>3. UNCHANGED <<media, variants, on, who, tries, failed, heir>> /\ abandoned \subseteq abandoned'
  BY DEF UndoUpload
<1>4. objects' \subseteq objects /\ \A n \in MediaIds \ {m} : \A t : <<n, t>> \in objects => <<n, t>> \in objects'
  BY <1>1 DEF UndoUpload
<1>5. Types'
  <2>1. at' \in [Actors -> Steps] /\ rows' \in [Actors -> SUBSET MediaIds] /\ faults' \in 0 .. MaxFaults
    BY MediaBoundsAssumption DEF UndoUpload, Goto, MediaInv, Types, MediaTypeOK, Steps
  <2> QED BY <1>3, <1>4, <2>1 DEF MediaInv, Types, MediaTypeOK
<1>6. HeirsBelong'
  BY <1>2, <1>3 DEF MediaInv, HeirsBelong, Medium
<1>7. Uploads(h)'
  BY <1>2 DEF Uploads, Uploading, Before
<1>8. Tasks(m)'
  BY <1>1, <1>2, <1>3 DEF MediaInv, Tasks, Settled
<1>9. /\ \A n \in MediaIds \ {m} : SameMedium(n)
      /\ \A g \in Handlers \ {h} : SameHandler(g)
  BY <1>2, <1>3, <1>4 DEF SameMedium, SameHandler
<1> QED BY <1>1, <1>3, <1>5, <1>6, <1>7, <1>8, <1>9, PairMoves DEF Uploading, Before

LEMMA EnqueueKeepsMediaInv ==
  ASSUME MediaInv, NEW h \in Handlers, Enqueue(h) \/ EnqueueFails(h)
  PROVE MediaInv'
<1> USE ActorsApart
<1>1. PICK m \in MediaIds :
        at[h] = "queue" /\ m = on[h] /\ tries[m] = 0 /\ at[m] = "idle" /\ media[m].status # "NONE"
  BY DEF Enqueue, EnqueueFails, MediaInv, Uploads, Uploading, Before
<1>2. PICK step \in {"done", "fail"}, task \in {"idle", "queued"} :
        /\ at' = [at EXCEPT ![h] = step, ![m] = task]
        /\ step = "done" => task = "queued"
  BY <1>1 DEF Enqueue, EnqueueFails
<1>3. at'[h] = step /\ at'[m] = task /\ \A a \in Actors \ {h, m} : at'[a] = at[a]
  BY <1>2 DEF MediaInv, Types
<1>4. UNCHANGED <<media, variants, objects, rows, heir, tries, failed, on, who, abandoned>>
  BY DEF Enqueue, EnqueueFails, mediaVars
<1>5. Types'
  <2>1. at' \in [Actors -> Steps] /\ faults' \in 0 .. MaxFaults
    BY <1>2, MediaBoundsAssumption, SMTT(60) DEF Enqueue, EnqueueFails, MediaInv, Types, MediaTypeOK, Steps
  <2> QED BY <1>4, <2>1 DEF MediaInv, Types, MediaTypeOK
<1>6. HeirsBelong'
  BY <1>3, <1>4 DEF MediaInv, HeirsBelong, Medium
<1>7. Uploads(h)'
  BY <1>1, <1>3, <1>4 DEF MediaInv, Uploads, Uploading, Before
<1>8. Tasks(m)'
  <2>1. task = "queued" \/ Carries(h, m)'
    BY <1>1, <1>2, <1>3, <1>4 DEF Carries
  <2> QED BY <1>1, <1>3, <1>4, <2>1, MediaBoundsAssumption DEF MediaInv, Tasks, TaskSteps
<1>9. /\ \A n \in MediaIds \ {m} : SameMedium(n)
      /\ \A g \in Handlers \ {h} : SameHandler(g)
  BY <1>3, <1>4 DEF SameMedium, SameHandler
<1> QED BY <1>1, <1>4, <1>5, <1>6, <1>7, <1>8, <1>9, PairMoves DEF Uploading

\* The heir is a photo of the same owner, and there is one for a photo only.
LEMMA Choosing ==
  ASSUME MediaInv, NEW a \in Actors, NEW m \in MediaIds, LockAndChoose(a, m, "retire"),
         Medium(a)' = m, \A b \in Actors \ {a} : Medium(b)' = Medium(b)
  PROVE /\ at' = [at EXCEPT ![a] = "retire"]
        /\ at'[a] = "retire" /\ \A b \in Actors \ {a} : at'[b] = at[b]
        /\ UNCHANGED <<media, variants, objects, tries, faults, abandoned>>
        /\ at' \in [Actors -> Steps] /\ rows' \in [Actors -> SUBSET MediaIds]
        /\ heir' \in [Actors -> MediaIds \union {NoMedium}]
        /\ HeirsBelong'
<1> USE ActorsApart
<1>1. PICK n \in Heirs(m) : heir' = [heir EXCEPT ![a] = n]
  BY DEF LockAndChoose
<1>2. n = NoMedium \/ (n \in MediaIds /\ IsPhoto(n) /\ IsPhoto(m) /\ Owner[n] = Owner[m])
  BY DEF Heirs, Live, IsPhoto
<1>3. /\ at' = [at EXCEPT ![a] = "retire"]
      /\ at'[a] = "retire" /\ \A b \in Actors \ {a} : at'[b] = at[b]
      /\ at' \in [Actors -> Steps] /\ rows' \in [Actors -> SUBSET MediaIds]
  BY DEF LockAndChoose, Goto, MediaInv, Types, MediaTypeOK, Steps
<1>4. heir' \in [Actors -> MediaIds \union {NoMedium}]
  BY <1>1, <1>2 DEF MediaInv, Types, MediaTypeOK
<1>5. heir'[a] = n /\ \A b \in Actors \ {a} : heir'[b] = heir[b]
  BY <1>1 DEF MediaInv, Types, MediaTypeOK
<1>6. HeirsBelong'
  BY <1>2, <1>3, <1>5 DEF MediaInv, HeirsBelong
<1> QED BY <1>3, <1>4, <1>6 DEF LockAndChoose

LEMMA DeleteKeepsMediaInv ==
  ASSUME MediaInv, NEW h \in Handlers, NEW m \in MediaIds, Delete(h, m)
  PROVE MediaInv'
<1> USE ActorsApart
<1>1. /\ LockAndChoose(h, m, "retire") /\ at[h] = "idle" /\ media[m].status # "NONE" /\ failed' = failed
      /\ on'[h] = m /\ who'[h] = Owner[m]
      /\ \A g \in Handlers \ {h} : on'[g] = on[g] /\ who'[g] = who[g]
      /\ on' \in [Handlers -> MediaIds \union {NoMedium}] /\ who' \in [Handlers -> Users]
  BY OwnerAssumption DEF Delete, Live, MediaInv, Types
<1>2. Medium(h)' = m /\ \A b \in Actors \ {h} : Medium(b)' = Medium(b)
  BY <1>1 DEF Medium, Actors
<1>3. /\ at' = [at EXCEPT ![h] = "retire"] /\ at'[h] = "retire" /\ HeirsBelong'
      /\ \A b \in Actors \ {h} : at'[b] = at[b]
      /\ UNCHANGED <<media, variants, objects, tries, faults, abandoned>>
      /\ at' \in [Actors -> Steps] /\ rows' \in [Actors -> SUBSET MediaIds]
      /\ heir' \in [Actors -> MediaIds \union {NoMedium}]
  BY <1>1, <1>2, Choosing
<1>4. Types'
  BY <1>1, <1>3 DEF MediaInv, Types, MediaTypeOK
<1>5. Uploads(h)'
  BY <1>1, <1>3 DEF Uploads, Uploading, Before
<1>6. \A n \in MediaIds : SameMedium(n) /\ ~Carries(h, n)
  BY <1>1, <1>3 DEF SameMedium, Carries
<1> QED BY <1>1, <1>3, <1>4, <1>5, <1>6, HandlerMoves DEF Uploading, Before, Steps

LEMMA GivingUpKeepsMediaInv ==
  ASSUME MediaInv, NEW h \in Handlers, FailMediaAfterCommit(h)
  PROVE MediaInv'
<1> USE ActorsApart
<1>1. PICK m \in MediaIds : /\ m = on[h] /\ media[m].status # "NONE" /\ who[h] = Owner[m] /\ at[h] = "fail"
                           /\ LockAndChoose(h, m, "retire")
  BY DEF FailMediaAfterCommit, MediaInv, Uploads
<1>2. failed' = failed \union {h} /\ UNCHANGED <<on, who>>
  BY DEF FailMediaAfterCommit
<1>3. Medium(h)' = m /\ \A b \in Actors \ {h} : Medium(b)' = Medium(b)
  BY <1>1, <1>2 DEF Medium
<1>4. /\ at' = [at EXCEPT ![h] = "retire"] /\ at'[h] = "retire" /\ HeirsBelong'
      /\ \A b \in Actors \ {h} : at'[b] = at[b]
      /\ UNCHANGED <<media, variants, objects, tries, faults, abandoned>>
      /\ at' \in [Actors -> Steps] /\ rows' \in [Actors -> SUBSET MediaIds]
      /\ heir' \in [Actors -> MediaIds \union {NoMedium}]
  BY <1>1, <1>3, Choosing
<1>5. Types'
  BY <1>2, <1>4 DEF MediaInv, Types, MediaTypeOK
<1>6. Uploads(h)'
  BY <1>1, <1>2, <1>4 DEF Uploads, Uploading, Before
<1>7. \A n \in MediaIds : SameMedium(n) /\ (Carries(h, n) => Carries(h, n)')
  BY <1>1, <1>2, <1>4 DEF SameMedium, Carries
<1> QED BY <1>1, <1>2, <1>4, <1>5, <1>6, <1>7, HandlerMoves DEF Uploading, Before, Steps

\* A step of the task of a medium, which no upload has for itself any more.
LEMMA TaskMoves ==
  ASSUME MediaInv, Types', HeirsBelong', NEW m \in MediaIds, at[m] # "idle", Tasks(m)',
         media'[m].status # "NONE",
         \A n \in MediaIds \ {m} : SameMedium(n),
         \A h \in Handlers : SameHandler(h)
  PROVE MediaInv'
<1>1. \A h \in Handlers : on[h] = m => at[h] \notin Uploading
  BY DEF MediaInv, Uploads
<1>2. /\ \A n \in {m} : Tasks(n)'
      /\ \A h \in {} : Uploads(h)'
      /\ \A h \in {}, n \in MediaIds \ {m} : Carries(h, n) => Carries(h, n)'
      /\ \A h \in {}, k \in Handlers :
           h # k /\ at'[h] \in Uploading /\ at'[k] \in Uploading => on'[h] # on'[k]
      /\ {m} \in SUBSET MediaIds /\ {} \in SUBSET Handlers
      /\ \A h \in Handlers \ {} : SameHandler(h)
  OBVIOUS
<1>3. \A h \in Handlers \ {} : on[h] \in {m} =>
        /\ at[h] \in Uploading => at'[on[h]] = "idle" /\ tries'[on[h]] = 0
        /\ at[h] \in Before => media'[on[h]].status = "NONE" /\ <<on[h], "ORIGINAL">> \in objects'
        /\ at[h] \in {"queue", "fail", "retire"} => media'[on[h]].status # "NONE"
  BY <1>1 DEF Uploading
<1> QED BY <1>2, <1>3, StepKeepsMediaInv

LEMMA MarkFailedKeepsMediaInv ==
  ASSUME MediaInv, NEW m \in MediaIds, MarkFailed(m)
  PROVE MediaInv'
<1> USE ActorsApart
<1>1. LockAndChoose(m, m, "retire") /\ at[m] = "fail" /\ media[m].status # "NONE" /\ UNCHANGED <<on, who, failed>>
  BY DEF MarkFailed, MediaInv, Tasks
<1>2. Medium(m)' = m /\ \A b \in Actors \ {m} : Medium(b)' = Medium(b)
  BY <1>1 DEF Medium
<1>3. /\ at'[m] = "retire" /\ HeirsBelong'
      /\ \A b \in Actors \ {m} : at'[b] = at[b]
      /\ UNCHANGED <<media, variants, objects, tries, faults, abandoned>>
      /\ at' \in [Actors -> Steps] /\ rows' \in [Actors -> SUBSET MediaIds]
      /\ heir' \in [Actors -> MediaIds \union {NoMedium}]
  BY <1>1, <1>2, Choosing
<1>4. Types'
  BY <1>1, <1>3 DEF MediaInv, Types, MediaTypeOK
<1>5. Tasks(m)'
  BY <1>1, <1>3 DEF MediaInv, Tasks, TaskSteps
<1>6. /\ \A n \in MediaIds \ {m} : SameMedium(n)
      /\ \A h \in Handlers : SameHandler(h)
  BY <1>1, <1>3 DEF SameMedium, SameHandler
<1> QED BY <1>1, <1>3, <1>4, <1>5, <1>6, TaskMoves

\* A run that has runs left goes back to the queue.
LEMMA Returning ==
  ASSUME MediaInv, NEW a \in Actors, Return(a)
  PROVE /\ at' \in [Actors -> Steps] /\ \A b \in Actors \ {a} : at'[b] = at[b]
        /\ at'[a] = "done" \/ (at'[a] = "queued" /\ a \in MediaIds /\ tries[a] < MaxAttempts)
BY ActorsApart DEF Return, Goto, MediaInv, Types, Steps

\* What CommitRetire does to the rows.
LEMMA Retiring ==
  ASSUME MediaInv, NEW a \in Actors, NEW m \in MediaIds, m = Medium(a), CommitRetire(a)
  PROVE /\ media' \in [MediaIds -> Rows]
        /\ media'[m].status = "FAILED" \/ (media'[m].status = "DELETED" /\ media'[m].deleted)
        /\ a \in failed => media'[m].status = "FAILED"
        /\ \A n \in MediaIds \ {m} : media'[n].status = media[n].status /\ media'[n].deleted = media[n].deleted
                                     /\ media'[n].approval = media[n].approval
                                     /\ (n # heir[a] => media'[n] = media[n])
<1>1. media' = [k \in MediaIds |-> IF k = m THEN Retired(a, m)
                                   ELSE IF k = heir[a] THEN [media[k] EXCEPT !.primary = TRUE]
                                   ELSE media[k]]
  BY DEF CommitRetire, Medium
<1>2. \A n \in MediaIds : media[n] \in Rows
  BY DEF MediaInv, Types, MediaTypeOK, Rows
<1>3. /\ Retired(a, m) \in Rows
      /\ Retired(a, m).status = "FAILED" \/ (Retired(a, m).status = "DELETED" /\ Retired(a, m).deleted)
      /\ a \in failed => Retired(a, m).status = "FAILED"
  BY <1>2, DeleteUpdate DEF Retired
<1>4. \A n \in MediaIds : LET x == [media[n] EXCEPT !.primary = TRUE] IN
        x \in Rows /\ x.status = media[n].status /\ x.deleted = media[n].deleted /\ x.approval = media[n].approval
  BY <1>2, PrimaryUpdate
<1> QED BY <1>1, <1>2, <1>3, <1>4

\* Who retires a medium has one that is there.
LEMMA RetiredIsThere ==
  ASSUME MediaInv, NEW a \in Actors, at[a] = "retire"
  PROVE Medium(a) \in MediaIds /\ media[Medium(a)].status # "NONE"
<1> USE ActorsApart
<1>1. CASE a \in MediaIds
  BY <1>1 DEF MediaInv, Tasks, Medium
<1>2. CASE a \in Handlers
  BY <1>2 DEF MediaInv, Uploads, Uploading, Before, Medium
<1> QED BY <1>1, <1>2 DEF Actors

LEMMA CommitRetireKeepsMediaInv ==
  ASSUME MediaInv, NEW a \in Actors, CommitRetire(a)
  PROVE MediaInv'
<1> USE ActorsApart
<1>1. PICK m \in MediaIds : m = Medium(a) /\ at[a] = "retire" /\ media[m].status # "NONE"
  BY RetiredIsThere DEF CommitRetire
<1>2. /\ media' \in [MediaIds -> Rows]
      /\ media'[m].status = "FAILED" \/ (media'[m].status = "DELETED" /\ media'[m].deleted)
      /\ \A n \in MediaIds \ {m} : media'[n].status = media[n].status /\ media'[n].deleted = media[n].deleted
  BY <1>1, Retiring
<1>3. UNCHANGED <<variants, objects, on, who, tries, failed, faults, abandoned>>
  BY DEF CommitRetire
<1>4. /\ at' \in [Actors -> Steps] /\ \A b \in Actors \ {a} : at'[b] = at[b]
      /\ at'[a] \in {"refresh", "done"} \/ (at'[a] = "queued" /\ a \in MediaIds /\ tries[a] < MaxAttempts)
  <2>1. CASE Return(a)
    BY <2>1, Returning
  <2>2. CASE Goto(a, "refresh")
    BY <2>2 DEF Goto, MediaInv, Types, Steps
  <2> QED BY <2>1, <2>2 DEF CommitRetire
<1>5. Types'
  <2>1. rows' \in [Actors -> SUBSET MediaIds] /\ heir' \in [Actors -> MediaIds \union {NoMedium}]
    BY DEF CommitRetire, MediaInv, Types, MediaTypeOK
  <2> QED BY <1>2, <1>3, <1>4, <2>1 DEF MediaInv, Types, MediaTypeOK, Rows
<1>6. HeirsBelong'
  <2>1. \A b \in Actors \ {a} : heir'[b] = heir[b]
    BY DEF CommitRetire, MediaInv, Types, MediaTypeOK
  <2> QED BY <1>3, <1>4, <2>1 DEF MediaInv, HeirsBelong, Medium
<1>7. \A n \in MediaIds \ {m} : n # a => SameMedium(n)
  BY <1>2, <1>3, <1>4 DEF SameMedium
<1>8. \A h \in Handlers \ {a} : SameHandler(h)
  BY <1>3, <1>4 DEF SameHandler
<1>9. CASE a \in MediaIds
  <2>1. a = m
    BY <1>1, <1>9 DEF Medium
  <2>2. Tasks(m)'
    BY <1>2, <1>3, <1>4, <2>1 DEF MediaInv, Tasks, Settled, TaskSteps
  <2> QED BY <1>1, <1>2, <1>5, <1>6, <1>7, <1>8, <1>9, <2>1, <2>2, TaskMoves
<1>10. CASE a \in Handlers
  <2>1. Tasks(m)'
    BY <1>1, <1>2, <1>3, <1>4, <1>10 DEF MediaInv, Tasks, Settled
  <2>2. Uploads(a)'
    BY <1>4, <1>10 DEF Uploads, Uploading, Before
  <2>3. on[a] = m
    BY <1>1, <1>10 DEF Medium
  <2>4. \A h \in Handlers \ {a} : on[h] \in {m} =>
          /\ at[h] \in Uploading => at'[on[h]] = "idle" /\ tries'[on[h]] = 0
          /\ at[h] \in Before => media'[on[h]].status = "NONE" /\ <<on[h], "ORIGINAL">> \in objects'
          /\ at[h] \in {"queue", "fail", "retire"} => media'[on[h]].status # "NONE"
    BY <1>1, <1>2, <1>3, <1>4, <1>10 DEF MediaInv, Uploads
  <2>5. /\ \A n \in {m} : Tasks(n)'
        /\ \A h \in {a} : Uploads(h)'
        /\ \A h \in {a}, n \in MediaIds \ {m} : Carries(h, n) => Carries(h, n)'
        /\ \A h \in {a}, k \in Handlers :
             h # k /\ at'[h] \in Uploading /\ at'[k] \in Uploading => on'[h] # on'[k]
        /\ {m} \in SUBSET MediaIds /\ {a} \in SUBSET Handlers
        /\ \A n \in MediaIds \ {m} : SameMedium(n)
    BY <1>4, <1>7, <1>10, <2>1, <2>2, <2>3 DEF Carries, Uploading, Before
  <2> QED BY <1>5, <1>6, <1>8, <2>4, <2>5, StepKeepsMediaInv, ZenonT(60)
<1> QED BY <1>9, <1>10 DEF Actors

LEMMA SetPrimaryKeepsMediaInv ==
  ASSUME MediaInv, NEW h \in Handlers, NEW m \in MediaIds, SetPrimary(h, m)
  PROVE MediaInv'
<1> USE ActorsApart
<1>1. \A n \in MediaIds : media[n] \in Rows
  BY DEF MediaInv, Types, MediaTypeOK, Rows
<1>2. \A n \in MediaIds : \A p \in BOOLEAN : LET x == [media[n] EXCEPT !.primary = p] IN
        x \in Rows /\ x.status = media[n].status /\ x.deleted = media[n].deleted
  BY <1>1, PrimaryUpdate
<1>3. /\ media' \in [MediaIds -> Rows]
      /\ \A n \in MediaIds : media'[n].status = media[n].status /\ media'[n].deleted = media[n].deleted
  <2>1. media' = [n \in MediaIds |->
          IF n \in Live(Owner[m], "PROFILE_PHOTO") THEN [media[n] EXCEPT !.primary = (n = m)] ELSE media[n]]
    BY DEF SetPrimary
  <2>2. ASSUME NEW n \in MediaIds
        PROVE media'[n] \in Rows /\ media'[n].status = media[n].status /\ media'[n].deleted = media[n].deleted
    <3>1. PICK p \in BOOLEAN : p = (n = m)
      OBVIOUS
    <3>2. media'[n] = media[n] \/ media'[n] = [media[n] EXCEPT !.primary = p]
      BY <2>1, <3>1
    <3> QED BY <1>1, <1>2, <3>2
  <2> QED BY <2>1, <2>2
<1>4. /\ at' = [at EXCEPT ![h] = "refresh"] /\ at[h] = "idle"
      /\ at'[h] = "refresh" /\ \A b \in Actors \ {h} : at'[b] = at[b]
      /\ \A g \in Handlers \ {h} : on'[g] = on[g] /\ who'[g] = who[g]
      /\ UNCHANGED <<variants, objects, rows, heir, tries, failed, faults, abandoned>>
  BY DEF SetPrimary, Goto, MediaInv, Types
<1>5. Types'
  <2>1. /\ at' \in [Actors -> Steps] /\ on' \in [Handlers -> MediaIds \union {NoMedium}]
        /\ who' \in [Handlers -> Users]
    BY OwnerAssumption DEF SetPrimary, Goto, MediaInv, Types, Steps
  <2> QED BY <1>3, <1>4, <2>1 DEF MediaInv, Types, MediaTypeOK, Rows
<1>6. HeirsBelong'
  BY <1>4 DEF MediaInv, HeirsBelong, Medium, Actors
<1>7. Uploads(h)'
  BY <1>4 DEF Uploads, Uploading, Before
<1>8. \A n \in MediaIds : SameMedium(n) /\ ~Carries(h, n)
  BY <1>3, <1>4 DEF SameMedium, Carries
<1> QED BY <1>4, <1>5, <1>6, <1>7, <1>8, HandlerMoves DEF Uploading, Before, Steps

-----------------------------------------------------------------------------
LEMMA BeginKeepsMediaInv ==
  ASSUME MediaInv, NEW m \in MediaIds, Begin(m)
  PROVE MediaInv'
<1> USE ActorsApart
<1>1. at[m] = "queued" /\ Tasks(m) /\ media[m] \in Rows /\ tries[m] \in Nat /\ tries[m] < MaxAttempts
  BY DEF Begin, MediaInv, Tasks, Types, MediaTypeOK, Rows
<1>2. /\ tries' \in [MediaIds -> 0 .. MaxAttempts]
      /\ \A n \in MediaIds \ {m} : tries'[n] = tries[n]
  BY <1>1, MediaBoundsAssumption DEF Begin, MediaInv, Types, MediaTypeOK
<1>3. /\ failed' = failed \ {m}
      /\ UNCHANGED <<variants, objects, rows, heir, on, who, faults, abandoned>>
  BY DEF Begin
<1>4. PICK step \in {"done", "make"} :
        /\ at' = [at EXCEPT ![m] = step]
        /\ step = "done" => media' = media /\ (media[m].deleted \/ media[m].status = "DELETED")
        /\ step = "make" => media' = [media EXCEPT ![m].status = "PROCESSING"]
  BY DEF Begin, Goto
<1>5. at' \in [Actors -> Steps] /\ at'[m] = step /\ \A b \in Actors \ {m} : at'[b] = at[b]
  BY <1>4 DEF MediaInv, Types, Steps
<1>6. media' \in [MediaIds -> Rows] /\ \A n \in MediaIds \ {m} : media'[n] = media[n]
  <2> DEFINE x == [media[m] EXCEPT !.status = "PROCESSING"]
  <2>1. x \in Rows
    BY <1>1, StatusUpdate
  <2>2. media \in [MediaIds -> Rows] /\ (media' = media \/ media' = [media EXCEPT ![m] = x])
    BY <1>4 DEF MediaInv, Types, MediaTypeOK, Rows
  <2> HIDE DEF x
  <2> QED BY <2>1, <2>2
<1>7. media'[m].status # "NONE" /\ (step = "make" => media'[m].status = "PROCESSING")
  <2>1. media[m].status # "NONE"
    BY <1>1 DEF Tasks
  <2> QED BY <1>1, <1>4, <2>1, StatusUpdate DEF MediaInv, Types, MediaTypeOK
<1>8. Types'
  BY <1>2, <1>3, <1>5, <1>6 DEF MediaInv, Types, MediaTypeOK, Rows
<1>9. HeirsBelong'
  BY <1>3, <1>5 DEF MediaInv, HeirsBelong, Medium
<1>10. Tasks(m)'
  <2>1. CASE step = "done"
    BY <1>1, <1>3, <1>4, <1>5, <1>7, <2>1 DEF Tasks, Settled, TaskSteps
  <2>2. CASE step = "make"
    BY <1>1, <1>3, <1>5, <1>7, <2>2 DEF Tasks, TaskSteps
  <2> QED BY <2>1, <2>2
<1>11. /\ \A n \in MediaIds \ {m} : SameMedium(n)
       /\ \A h \in Handlers : SameHandler(h)
  BY <1>2, <1>3, <1>5, <1>6 DEF SameMedium, SameHandler
<1> QED BY <1>1, <1>7, <1>8, <1>9, <1>10, <1>11, TaskMoves

\* A run whose first transaction fails leaves the medium as it is, and goes on to
\* mark it, or back to the queue, or has been the last.
LEMMA FailingRuns ==
  ASSUME MediaInv, NEW m \in MediaIds, BeginFails(m) \/ BeginLost(m)
  PROVE /\ at[m] = "queued" /\ UNCHANGED <<media, variants, objects, rows, heir, on, who>>
        /\ tries' \in [MediaIds -> 0 .. MaxAttempts] /\ faults' \in 0 .. MaxFaults
        /\ \A n \in MediaIds \ {m} : tries'[n] = tries[n]
        /\ failed \subseteq failed' /\ failed' \subseteq Actors /\ abandoned \subseteq abandoned'
        /\ \E step \in {"queued", "done", "fail"} :
             /\ Goto(m, step) /\ at'[m] = step /\ \A b \in Actors \ {m} : at'[b] = at[b]
             /\ step = "queued" => tries'[m] < MaxAttempts
             /\ step = "fail" => m \in failed'
             /\ step = "done" => m \in abandoned'
<1> USE ActorsApart
<1>1. at[m] = "queued" /\ tries[m] \in Nat /\ tries[m] < MaxAttempts
  BY DEF BeginFails, BeginLost, MediaInv, Tasks, Types, MediaTypeOK
<1>2. /\ tries' \in [MediaIds -> 0 .. MaxAttempts] /\ tries'[m] = tries[m] + 1
      /\ \A n \in MediaIds \ {m} : tries'[n] = tries[n]
  <2>1. tries \in [MediaIds -> 0 .. MaxAttempts] /\ tries' = [tries EXCEPT ![m] = tries[m] + 1]
    BY DEF BeginFails, BeginLost, MediaInv, Types, MediaTypeOK
  <2>2. tries[m] + 1 \in 0 .. MaxAttempts
    BY <1>1, MediaBoundsAssumption
  <2> QED BY <2>1, <2>2
<1>3. faults' \in 0 .. MaxFaults
  BY MediaBoundsAssumption DEF BeginFails, BeginLost, MediaInv, Types, MediaTypeOK
<1>4. /\ failed \subseteq failed' /\ failed' \subseteq Actors /\ abandoned \subseteq abandoned'
      /\ UNCHANGED <<media, variants, objects, rows, heir, on, who>>
  BY DEF BeginFails, BeginLost, MediaInv, Types, MediaTypeOK
<1>5. PICK step \in {"queued", "done", "fail"} :
        /\ Goto(m, step)
        /\ step = "queued" => tries[m] + 1 < MaxAttempts
        /\ step = "fail" => m \in failed'
        /\ step = "done" => m \in abandoned'
  <2>1. CASE BeginFails(m)
    BY <2>1 DEF BeginFails
  <2>2. CASE BeginLost(m) /\ tries[m] + 1 < MaxAttempts
    <3>1. Goto(m, "queued")
      BY <1>1, <2>2 DEF BeginLost, Goto, MediaInv, Types
    <3> QED BY <2>2, <3>1
  <2>3. CASE BeginLost(m) /\ ~(tries[m] + 1 < MaxAttempts)
    BY <2>3 DEF BeginLost
  <2> QED BY <2>1, <2>2, <2>3
<1>6. at'[m] = step /\ \A b \in Actors \ {m} : at'[b] = at[b]
  BY <1>5 DEF Goto, MediaInv, Types
<1> QED BY <1>1, <1>2, <1>3, <1>4, <1>5, <1>6

LEMMA FailingRunsKeepMediaInv ==
  ASSUME MediaInv, NEW m \in MediaIds, BeginFails(m) \/ BeginLost(m)
  PROVE MediaInv'
<1> USE ActorsApart
<1>1. /\ at[m] = "queued" /\ UNCHANGED <<media, variants, objects, rows, heir, on, who>>
      /\ tries' \in [MediaIds -> 0 .. MaxAttempts] /\ faults' \in 0 .. MaxFaults
      /\ \A n \in MediaIds \ {m} : tries'[n] = tries[n]
      /\ failed \subseteq failed' /\ failed' \subseteq Actors /\ abandoned \subseteq abandoned'
  BY FailingRuns
<1>2. PICK step \in {"queued", "done", "fail"} :
        /\ Goto(m, step) /\ at'[m] = step /\ \A b \in Actors \ {m} : at'[b] = at[b]
        /\ step = "queued" => tries'[m] < MaxAttempts
        /\ step = "fail" => m \in failed'
        /\ step = "done" => m \in abandoned'
  BY FailingRuns
<1>3. Tasks(m) /\ media[m].status # "NONE"
  BY <1>1 DEF MediaInv, Tasks
<1>4. Types'
  <2>1. at' \in [Actors -> Steps]
    BY <1>2 DEF Goto, MediaInv, Types, Steps
  <2> QED BY <1>1, <2>1 DEF MediaInv, Types, MediaTypeOK
<1>5. HeirsBelong'
  BY <1>1, <1>2 DEF MediaInv, HeirsBelong, Medium
<1>6. Tasks(m)'
  BY <1>1, <1>2, <1>3 DEF Tasks, Settled, TaskSteps
<1>7. /\ \A n \in MediaIds \ {m} : SameMedium(n)
      /\ \A h \in Handlers : SameHandler(h)
  BY <1>1, <1>2 DEF SameMedium, SameHandler
<1> QED BY <1>1, <1>3, <1>4, <1>5, <1>6, <1>7, TaskMoves

LEMMA MakeKeepsMediaInv ==
  ASSUME MediaInv, NEW m \in MediaIds, MakeAll(m) \/ MakeFails(m)
  PROVE MediaInv'
<1> USE ActorsApart
<1>1. PICK types \in SUBSET {"ORIGINAL", "DISPLAY", "THUMBNAIL", "TRANSCODED"}, step \in {"publish", "fail"} :
        /\ objects' = objects \union ({m} \X types) /\ at' = [at EXCEPT ![m] = step]
        /\ step = "publish" => types = Finished(m) /\ failed' = failed
        /\ step = "fail" => failed' = failed \union {m}
  BY DEF MakeAll, MakeFails, Make, Goto, Finished, FirstVariant
<1>2. /\ at[m] = "make" /\ Tasks(m) /\ media[m].status # "NONE"
      /\ UNCHANGED <<media, variants, rows, heir, tries, on, who, faults, abandoned>>
  BY DEF MakeAll, MakeFails, Make, MediaInv, Tasks
<1>3. at' \in [Actors -> Steps] /\ at'[m] = step /\ \A b \in Actors \ {m} : at'[b] = at[b]
  BY <1>1 DEF MediaInv, Types, Steps
<1>4. /\ failed \subseteq failed' /\ failed' \subseteq Actors
      /\ objects \subseteq objects' /\ objects' \subseteq MediaIds \X {"ORIGINAL", "DISPLAY", "THUMBNAIL", "TRANSCODED"}
  BY <1>1 DEF MediaInv, Types, MediaTypeOK
<1>5. Types'
  BY <1>2, <1>3, <1>4 DEF MediaInv, Types, MediaTypeOK
<1>6. HeirsBelong'
  BY <1>2, <1>3 DEF MediaInv, HeirsBelong, Medium
<1>7. Tasks(m)'
  <2>1. step = "publish" => \A t \in Finished(m) : <<m, t>> \in objects'
    BY <1>1
  <2>2. step = "fail" => m \in failed'
    BY <1>1
  <2> QED BY <1>2, <1>3, <1>4, <2>1, <2>2 DEF Tasks, TaskSteps
<1>8. /\ \A n \in MediaIds \ {m} : SameMedium(n)
      /\ \A h \in Handlers : SameHandler(h)
  BY <1>2, <1>3, <1>4 DEF SameMedium, SameHandler
<1> QED BY <1>2, <1>5, <1>6, <1>7, <1>8, TaskMoves

LEMMA PublishKeepsMediaInv ==
  ASSUME MediaInv, NEW m \in MediaIds, Publish(m)
  PROVE MediaInv'
<1> USE ActorsApart
<1>1. /\ at[m] = "publish" /\ Tasks(m) /\ media[m] \in Rows /\ \A t \in Finished(m) : <<m, t>> \in objects
      /\ UNCHANGED <<objects, rows, heir, tries, failed, on, who, faults, abandoned>>
  BY DEF Publish, MediaInv, Tasks, Types, MediaTypeOK, Rows
<1>2. /\ variants' \in [MediaIds -> SUBSET {"ORIGINAL", "DISPLAY", "THUMBNAIL", "TRANSCODED"}]
      /\ variants'[m] = variants[m] \union Finished(m)
      /\ \A n \in MediaIds \ {m} : variants'[n] = variants[n]
  BY DEF Publish, MediaInv, Types, MediaTypeOK, Finished
<1>3. PICK step \in {"refresh", "done"} : at' = [at EXCEPT ![m] = step]
  BY DEF Publish, Goto
<1>4. at' \in [Actors -> Steps] /\ at'[m] = step /\ \A b \in Actors \ {m} : at'[b] = at[b]
  BY <1>3 DEF MediaInv, Types, Steps
<1>5. PICK approval \in {"PENDING", "APPROVED"} :
        media' = [media EXCEPT ![m] = [media[m] EXCEPT !.status = "READY", !.approval = approval]]
  BY DEF Publish, MediaInv, Types, MediaTypeOK
<1>6. /\ media' \in [MediaIds -> Rows] /\ media'[m].status = "READY"
      /\ \A n \in MediaIds \ {m} : media'[n] = media[n]
  <2> DEFINE x == [media[m] EXCEPT !.status = "READY", !.approval = approval]
  <2>1. x \in Rows /\ x.status = "READY"
    BY <1>1, PublishUpdate
  <2>2. media' = [media EXCEPT ![m] = x] /\ media \in [MediaIds -> Rows]
    BY <1>5 DEF MediaInv, Types, MediaTypeOK, Rows
  <2> HIDE DEF x
  <2> QED BY <2>1, <2>2
<1>7. Types'
  BY <1>1, <1>2, <1>4, <1>6 DEF MediaInv, Types, MediaTypeOK, Rows
<1>8. HeirsBelong'
  BY <1>1, <1>4 DEF MediaInv, HeirsBelong, Medium
<1>9. Tasks(m)'
  BY <1>1, <1>2, <1>4, <1>6 DEF Tasks, Settled, TaskSteps
<1>10. /\ \A n \in MediaIds \ {m} : SameMedium(n)
       /\ \A h \in Handlers : SameHandler(h)
  BY <1>1, <1>2, <1>4, <1>6 DEF SameMedium, SameHandler
<1> QED BY <1>1, <1>6, <1>7, <1>8, <1>9, <1>10, TaskMoves

LEMMA PublishFailsKeepsMediaInv ==
  ASSUME MediaInv, NEW m \in MediaIds, PublishFails(m)
  PROVE MediaInv'
<1> USE ActorsApart
<1>1. /\ at[m] = "publish" /\ Tasks(m) /\ media[m].status # "NONE" /\ failed' = failed \union {m}
      /\ UNCHANGED <<media, variants, objects, rows, heir, tries, on, who, abandoned>>
  BY DEF PublishFails, MediaInv, Tasks
<1>2. at' \in [Actors -> Steps] /\ at'[m] = "fail" /\ \A b \in Actors \ {m} : at'[b] = at[b]
  BY DEF PublishFails, Goto, MediaInv, Types, Steps
<1>3. faults' \in 0 .. MaxFaults
  BY MediaBoundsAssumption DEF PublishFails, MediaInv, Types, MediaTypeOK
<1>4. Types'
  BY <1>1, <1>2, <1>3 DEF MediaInv, Types, MediaTypeOK
<1>5. HeirsBelong'
  BY <1>1, <1>2 DEF MediaInv, HeirsBelong, Medium
<1>6. Tasks(m)'
  BY <1>1, <1>2 DEF Tasks, TaskSteps
<1>7. /\ \A n \in MediaIds \ {m} : SameMedium(n)
      /\ \A h \in Handlers : SameHandler(h)
  BY <1>1, <1>2 DEF SameMedium, SameHandler
<1> QED BY <1>1, <1>4, <1>5, <1>6, <1>7, TaskMoves

\* Whoever dies, or is refused, stops there: the run of a task may come back.
Ends(a) ==
  /\ at[a] \notin {"idle", "queued", "done"}
  /\ \/ Goto(a, "done")
     \/ Goto(a, "queued") /\ a \in MediaIds /\ tries[a] < MaxAttempts
  /\ rows' = [rows EXCEPT ![a] = {}] /\ heir' = [heir EXCEPT ![a] = NoMedium]
  /\ faults' \in 0 .. MaxFaults
  /\ abandoned \subseteq abandoned'
  /\ Medium(a) \in abandoned' \/ (a \in Handlers \ failed /\ at[a] = "retire")
  /\ UNCHANGED <<media, variants, objects, tries, failed, on, who>>

LEMMA EndsKeepsMediaInv ==
  ASSUME MediaInv, NEW a \in Actors, Ends(a)
  PROVE MediaInv'
<1> USE ActorsApart
<1>1. /\ at[a] \notin {"idle", "queued", "done"}
      /\ UNCHANGED <<media, variants, objects, tries, failed, on, who>>
      /\ abandoned \subseteq abandoned'
      /\ Medium(a) \in abandoned' \/ (a \in Handlers \ failed /\ at[a] = "retire")
  BY DEF Ends
<1>2. /\ at' \in [Actors -> Steps] /\ \A b \in Actors \ {a} : at'[b] = at[b]
      /\ at'[a] = "done" \/ (at'[a] = "queued" /\ a \in MediaIds /\ tries[a] < MaxAttempts)
  BY DEF Ends, Goto, MediaInv, Types, Steps
<1>3. /\ faults' \in 0 .. MaxFaults /\ rows' \in [Actors -> SUBSET MediaIds]
      /\ heir' \in [Actors -> MediaIds \union {NoMedium}] /\ \A b \in Actors \ {a} : heir'[b] = heir[b]
  BY DEF Ends, MediaInv, Types, MediaTypeOK
<1>4. Types'
  BY <1>1, <1>2, <1>3 DEF MediaInv, Types, MediaTypeOK
<1>5. HeirsBelong'
  BY <1>1, <1>2, <1>3 DEF MediaInv, HeirsBelong, Medium
<1>6. CASE a \in MediaIds
  <2>1. Tasks(a) /\ Medium(a) = a
    BY <1>6 DEF MediaInv, Medium
  <2>2. Tasks(a)'
    BY <1>1, <1>2, <2>1 DEF Tasks, Settled, TaskSteps
  <2>3. /\ \A n \in MediaIds \ {a} : SameMedium(n)
        /\ \A h \in Handlers : SameHandler(h)
    BY <1>1, <1>2, <1>6 DEF SameMedium, SameHandler
  <2>4. at[a] # "idle" /\ media'[a].status # "NONE"
    BY <1>1, <2>1 DEF Tasks
  <2> QED BY <1>4, <1>5, <1>6, <2>2, <2>3, <2>4, TaskMoves
<1>7. CASE a \in Handlers
  <2> DEFINE M == {on[a]} \intersect abandoned' \intersect MediaIds
  <2>1. Medium(a) = on[a] /\ at'[a] = "done" /\ \A n \in MediaIds : at'[n] = at[n]
    BY <1>2, <1>7 DEF Medium
  <2>2. \A n \in MediaIds : SameMedium(n)
    BY <1>1, <2>1 DEF SameMedium
  <2>3. \A n \in M : Tasks(n)'
    BY <1>1, <2>1 DEF MediaInv, Tasks, Settled
  <2>4. \A g \in Handlers \ {a} : SameHandler(g)
    BY <1>1, <1>2 DEF SameHandler
  <2>5. Uploads(a)'
    BY <2>1 DEF Uploads, Uploading, Before
  <2>6. \A h \in Handlers \ {a} : on[h] \in M =>
          /\ at[h] \in Uploading => at'[on[h]] = "idle" /\ tries'[on[h]] = 0
          /\ at[h] \in Before => media'[on[h]].status = "NONE" /\ <<on[h], "ORIGINAL">> \in objects'
          /\ at[h] \in {"queue", "fail", "retire"} => media'[on[h]].status # "NONE"
    BY <1>1, <2>1 DEF MediaInv, Uploads
  <2>7. /\ \A n \in MediaIds \ M : SameMedium(n)
        /\ \A h \in {a} : Uploads(h)'
        /\ \A h \in {a}, n \in MediaIds \ M : Carries(h, n) => Carries(h, n)'
        /\ \A h \in {a}, k \in Handlers :
             h # k /\ at'[h] \in Uploading /\ at'[k] \in Uploading => on'[h] # on'[k]
        /\ M \in SUBSET MediaIds /\ {a} \in SUBSET Handlers
    BY <1>1, <1>7, <2>1, <2>2, <2>5 DEF Carries, Uploading, Before
  <2> HIDE DEF M
  <2> QED BY <1>4, <1>5, <2>3, <2>4, <2>6, <2>7, StepKeepsMediaInv, ZenonT(60)
<1> QED BY <1>6, <1>7 DEF Actors

LEMMA DieEnds ==
  ASSUME MediaInv, NEW a \in Actors, Die(a)
  PROVE Ends(a)
<1>1. faults' \in 0 .. MaxFaults
  BY MediaBoundsAssumption DEF Die, MediaInv, Types, MediaTypeOK
<1> QED BY <1>1 DEF Die, Ends, Goto

LEMMA RefusedEnds ==
  ASSUME MediaInv, NEW a \in Actors, RetireRefused(a)
  PROVE Ends(a)
<1>1. faults' \in 0 .. MaxFaults
  BY DEF RetireRefused, MediaInv, Types, MediaTypeOK
<1>2. a \in MediaIds => a \in failed
  BY DEF RetireRefused, MediaInv, Tasks
<1> QED BY <1>1, <1>2 DEF RetireRefused, Return, Goto, Ends, Actors

-----------------------------------------------------------------------------
(* The steps around the media. *)

Aside == Steps \ (Uploading \union {"queued", "make", "publish", "fail", "retire"})

\* What an owner or a viewer does leaves the media alone.
LEMMA AsideKeepsMediaInv ==
  ASSUME MediaInv, NEW h \in Handlers, at[h] \notin {"queue", "fail", "retire"},
         NEW step \in Aside, Goto(h, step),
         UNCHANGED <<mediaVars, abandoned>>, faults' \in 0 .. MaxFaults,
         on' \in [Handlers -> MediaIds \union {NoMedium}], who' \in [Handlers -> Users],
         \A g \in Handlers \ {h} : on'[g] = on[g] /\ who'[g] = who[g]
  PROVE MediaInv'
<1> USE ActorsApart
<1>1. /\ UNCHANGED <<media, variants, objects, rows, heir, tries, failed, abandoned>>
      /\ at' = [at EXCEPT ![h] = step] /\ at' \in [Actors -> Steps]
      /\ at'[h] = step /\ \A b \in Actors \ {h} : at'[b] = at[b]
  BY DEF mediaVars, Goto, Aside, MediaInv, Types
<1>2. Types'
  BY <1>1 DEF MediaInv, Types, MediaTypeOK
<1>3. HeirsBelong'
  BY <1>1 DEF MediaInv, HeirsBelong, Medium, Aside, Actors
<1>4. Uploads(h)'
  BY <1>1 DEF Uploads, Aside, Uploading, Before
<1>5. \A n \in MediaIds : SameMedium(n) /\ ~Carries(h, n)
  BY <1>1 DEF SameMedium, Carries
<1>6. step \in Steps /\ step \notin Uploading
  BY DEF Aside
<1> QED BY <1>1, <1>2, <1>3, <1>4, <1>5, <1>6, HandlerMoves

LEMMA OwnerKeepsMediaInv ==
  ASSUME MediaInv, NEW h \in Handlers, OwnerStep(h)
  PROVE MediaInv'
<1>1. PICK u \in Users, next \in {"refresh", "done"} :
        /\ at[h] = "idle" /\ Goto(h, next)
        /\ who' = [who EXCEPT ![h] = u] \/ who' = who
        /\ UNCHANGED <<mediaVars, on, faults, abandoned>>
  BY ZenonT(60) DEF OwnerStep, UpdateProfile, UpdateInterests, UpdatePrompts, UpdateLifestyle, Save, CompleteProfile,
         UpdatePreferences, UpdateLocation, DeleteAccount, Block, Unmatch, Asked, Owns
<1>2. /\ faults' \in 0 .. MaxFaults /\ on' \in [Handlers -> MediaIds \union {NoMedium}]
      /\ who' \in [Handlers -> Users]
      /\ \A g \in Handlers \ {h} : on'[g] = on[g] /\ who'[g] = who[g]
  BY <1>1 DEF MediaInv, Types, MediaTypeOK
<1>3. next \in Aside /\ at[h] \notin {"queue", "fail", "retire"} /\ UNCHANGED <<mediaVars, abandoned>>
  BY <1>1 DEF Aside, Steps, Uploading, Before
<1> QED BY <1>1, <1>2, <1>3, AsideKeepsMediaInv

LEMMA ViewerKeepsMediaInv ==
  ASSUME MediaInv, NEW h \in Handlers, ViewerStep(h)
  PROVE MediaInv'
<1>1. PICK next \in {"feed", "detail", "impression", "done", "row", "match", "authorize", "photo"} :
        /\ at[h] \in {"idle", "feed", "impression", "detail", "photo", "row", "authorize", "match"}
        /\ Goto(h, next) /\ UNCHANGED <<mediaVars, faults, abandoned>>
        /\ who' = who \/ \E u \in Users : who' = [who EXCEPT ![h] = u]
        /\ on' = on \/ \E m \in MediaIds : on' = [on EXCEPT ![h] = m]
  <2>1. CASE \E viewer, u \in Users, op \in {"feed", "detail", "impression"} : AskReadiness(h, viewer, op, u)
    BY <2>1 DEF AskReadiness, Asked, Views
  <2>2. CASE \E viewer \in Users, m \in MediaIds : ServeVariant(h, viewer, m)
    BY <2>2 DEF ServeVariant, Asked, Views
  <2>3. CASE Feed(h) \/ CreateImpressions(h) \/ ProfileRow(h) \/ MatchAuthorizes(h)
    BY <2>3 DEF Feed, CreateImpressions, ProfileRow, MatchAuthorizes, Show, Views
  <2>4. CASE CheckTarget(h) \/ DiscoveryAuthorizes(h)
    BY <2>4 DEF CheckTarget, DiscoveryAuthorizes, Show, Views
  <2> QED BY <2>1, <2>2, <2>3, <2>4 DEF ViewerStep
<1>2. on' \in [Handlers -> MediaIds \union {NoMedium}] /\ \A g \in Handlers \ {h} : on'[g] = on[g]
  BY <1>1 DEF MediaInv, Types
<1>3. who' \in [Handlers -> Users] /\ \A g \in Handlers \ {h} : who'[g] = who[g]
  BY <1>1 DEF MediaInv, Types
<1>4. /\ next \in Aside /\ at[h] \notin {"queue", "fail", "retire"} /\ UNCHANGED <<mediaVars, abandoned>>
      /\ faults' \in 0 .. MaxFaults
  BY <1>1 DEF Aside, Steps, Uploading, Before, MediaInv, Types, MediaTypeOK
<1> QED BY <1>1, <1>2, <1>3, <1>4, AsideKeepsMediaInv

LEMMA RefreshKeepsMediaInv ==
  ASSUME MediaInv, NEW a \in Actors, Refresh(a)
  PROVE MediaInv'
<1> USE ActorsApart
<1>1. /\ at[a] \in {"refresh", "write"} /\ UNCHANGED <<mediaVars, on, who, abandoned>>
      /\ Goto(a, "write") \/ Return(a)
  BY DEF Refresh, RefreshRead, RefreshWrite, RefreshFails
<1>2. faults' \in 0 .. MaxFaults
  BY MediaBoundsAssumption
     DEF Refresh, RefreshRead, RefreshWrite, RefreshFails, MediaInv, Types, MediaTypeOK
<1>3. PICK step \in {"write", "done", "queued"} :
        Goto(a, step) /\ (step = "queued" => a \in MediaIds /\ tries[a] < MaxAttempts)
  BY <1>1 DEF Return
<1>4. CASE a \in Handlers
  <2>1. step \in Aside /\ at[a] \notin {"queue", "fail", "retire"}
    BY <1>1, <1>3, <1>4 DEF Aside, Steps, Uploading, Before
  <2>2. /\ on' \in [Handlers -> MediaIds \union {NoMedium}] /\ who' \in [Handlers -> Users]
        /\ \A g \in Handlers \ {a} : on'[g] = on[g] /\ who'[g] = who[g]
    BY <1>1 DEF MediaInv, Types
  <2> QED BY <1>1, <1>2, <1>3, <1>4, <2>1, <2>2, AsideKeepsMediaInv
<1>5. CASE a \in MediaIds
  <2>1. /\ UNCHANGED <<media, variants, objects, rows, heir, tries, failed, on, who, abandoned>>
        /\ at' \in [Actors -> Steps] /\ at'[a] = step /\ \A b \in Actors \ {a} : at'[b] = at[b]
    BY <1>1, <1>3 DEF mediaVars, Goto, MediaInv, Types, Steps
  <2>2. Types'
    BY <1>2, <2>1 DEF MediaInv, Types, MediaTypeOK
  <2>3. HeirsBelong'
    BY <2>1 DEF MediaInv, HeirsBelong, Medium
  <2>4. Tasks(a)
    BY <1>5 DEF MediaInv
  <2>5. Settled(a) \/ \E h \in Handlers : Carries(h, a)'
    BY <1>1, <1>5, <2>1, <2>4 DEF Tasks, Carries
  <2>6. Tasks(a)'
    BY <1>1, <1>3, <2>1, <2>4, <2>5 DEF Tasks, Settled, TaskSteps
  <2>7. /\ \A n \in MediaIds \ {a} : SameMedium(n)
        /\ \A h \in Handlers : SameHandler(h)
    BY <1>5, <2>1 DEF SameMedium, SameHandler
  <2>8. at[a] # "idle" /\ media'[a].status # "NONE"
    BY <1>1, <2>1, <2>4 DEF Tasks
  <2> QED BY <1>5, <2>2, <2>3, <2>6, <2>7, <2>8, TaskMoves
<1> QED BY <1>4, <1>5 DEF Actors

LEMMA NothingKeepsMediaInv ==
  ASSUME MediaInv, UNCHANGED <<media, variants, objects, at, on, who, rows, heir, tries, failed, faults, abandoned>>
  PROVE MediaInv'
<1>1. Types'
  BY DEF MediaInv, Types, MediaTypeOK
<1>2. UploadsApart' /\ HeirsBelong' /\ \A h \in Handlers : Uploads(h)'
  BY DEF MediaInv, UploadsApart, HeirsBelong, Medium, Uploads
<1>3. \A m \in MediaIds : Tasks(m)'
  BY DEF MediaInv, Tasks, Settled, Carries
<1> QED BY <1>1, <1>2, <1>3 DEF MediaInv

LEMMA InitMediaInv == Init => MediaInv
<1> SUFFICES ASSUME Init PROVE MediaInv
  OBVIOUS
<1> USE ActorsApart DEF Init, MediaInit
<1>1. Types
  <2>1. media \in [MediaIds -> Rows]
    BY DEF NoRow, Rows
  <2>2. variants \in [MediaIds -> SUBSET {"ORIGINAL", "DISPLAY", "THUMBNAIL", "TRANSCODED"}]
    BY DEF Finished
  <2>3. objects \subseteq MediaIds \X {"ORIGINAL", "DISPLAY", "THUMBNAIL", "TRANSCODED"}
    BY PublishedAssumption DEF Finished
  <2>4. /\ at \in [Actors -> Steps] /\ on \in [Handlers -> MediaIds \union {NoMedium}]
        /\ rows \in [Actors -> SUBSET MediaIds] /\ heir \in [Actors -> MediaIds \union {NoMedium}]
    BY DEF Steps
  <2>5. who \in [Handlers -> Users]
    BY OwnerAssumption
  <2>6. tries \in [MediaIds -> 0 .. MaxAttempts] /\ faults \in 0 .. MaxFaults /\ failed = {}
    BY MediaBoundsAssumption
  <2> QED BY <2>1, <2>2, <2>3, <2>4, <2>5, <2>6 DEF Types, MediaTypeOK, Rows
<1>2. \A h \in Handlers : at[h] = "idle"
  BY PublishedAssumption
<1>3. UploadsApart /\ \A h \in Handlers : Uploads(h)
  BY <1>2 DEF UploadsApart, Uploads, Uploading, Before
<1>4. HeirsBelong
  BY DEF HeirsBelong
<1>5. ASSUME NEW m \in MediaIds PROVE Tasks(m)
  <2>1. CASE m \in Published
    <3>1. media[m].status = "READY" /\ variants[m] = Finished(m) /\ at[m] = "done"
      BY <2>1
    <3>2. \A t \in Finished(m) : <<m, t>> \in objects
      BY <2>1
    <3> QED BY <3>1, <3>2 DEF Tasks, Settled, TaskSteps
  <2>2. CASE m \notin Published
    <3>1. media[m].status = "NONE" /\ variants[m] = {} /\ at[m] = "idle" /\ tries[m] = 0
      BY <2>2 DEF NoRow
    <3> QED BY <3>1 DEF Tasks, Settled, TaskSteps
  <2> QED BY <2>1, <2>2
<1> QED BY <1>1, <1>3, <1>4, <1>5 DEF MediaInv

LEMMA StepMediaInv == MediaInv /\ [Next]_vars => MediaInv'
<1> SUFFICES ASSUME MediaInv, [Next]_vars PROVE MediaInv'
  OBVIOUS
<1>1. ASSUME NEW h \in Handlers, UploadGoesOn(h) PROVE MediaInv'
  BY <1>1, LockLiveKeepsMediaInv, CreatePhotoRowsKeepsMediaInv, CreateIntroRowsKeepsMediaInv,
     TransactionFailsKeepsMediaInv, UndoUploadKeepsMediaInv, EnqueueKeepsMediaInv, GivingUpKeepsMediaInv
     DEF UploadGoesOn
<1>2. ASSUME NEW m \in MediaIds, Process(m) PROVE MediaInv'
  BY <1>2, ActorsApart, BeginKeepsMediaInv, FailingRunsKeepMediaInv, MakeKeepsMediaInv, PublishKeepsMediaInv,
     PublishFailsKeepsMediaInv, MarkFailedKeepsMediaInv, CommitRetireKeepsMediaInv DEF Process
<1>3. CASE MediaStep
  BY <1>1, <1>2, <1>3, ActorsApart, StoreUploadKeepsMediaInv, CommitRetireKeepsMediaInv, DeleteKeepsMediaInv,
     SetPrimaryKeepsMediaInv, FailingRunsKeepMediaInv, EndsKeepsMediaInv, DieEnds, RefusedEnds DEF MediaStep
<1>4. CASE \E h \in Handlers : OwnerStep(h) \/ ViewerStep(h)
  BY <1>4, OwnerKeepsMediaInv, ViewerKeepsMediaInv
<1>5. CASE \E a \in Actors : Refresh(a)
  BY <1>5, RefreshKeepsMediaInv
<1>6. CASE \E u \in Users : Age(u)
  BY <1>6, NothingKeepsMediaInv DEF Age, mediaVars, callVars
<1>7. CASE UNCHANGED vars
  BY <1>7, NothingKeepsMediaInv DEF vars
<1> QED BY <1>3, <1>4, <1>5, <1>6, <1>7 DEF Next

LEMMA AlwaysMediaInv == Spec => []MediaInv
BY InitMediaInv, StepMediaInv, PTL DEF Spec

\* Files before rows, rows before READY, and no file of a medium that has a row
\* is ever removed: whatever fails in between, what is READY can be served.
THEOREM WhatIsReadyIsAlwaysServed == Spec => []WhatIsReadyCanBeServed
<1>1. MediaInv => WhatIsReadyCanBeServed
  <2> SUFFICES ASSUME MediaInv, NEW m \in MediaIds
               PROVE /\ {m} \X variants[m] \subseteq objects
                     /\ media[m].status = "READY" => Finished(m) \subseteq variants[m]
    BY DEF WhatIsReadyCanBeServed
  <2>1. Tasks(m)
    BY DEF MediaInv
  <2> QED BY <2>1 DEF Tasks
<1> QED BY <1>1, AlwaysMediaInv, PTL

\* A medium that is UPLOADED or PROCESSING has somebody at work for it: its
\* task, or the request that will enqueue it or mark the medium failed.  Only a
\* death, a failure that cannot be recorded, or a last run that has not read the
\* row (markFailed for the ID 0) ends that work before it is done.
THEOREM UploadsAlwaysSettle == Spec => []UploadsSettle
<1>1. MediaInv => UploadsSettle
  <2> SUFFICES ASSUME MediaInv, \A a \in Actors : at[a] \in {"idle", "done"}, NEW m \in MediaIds
               PROVE \/ media[m].status \in {"NONE", "READY", "FAILED"} \/ media[m].deleted
                     \/ m \in abandoned
    BY DEF UploadsSettle
  <2>1. Tasks(m) /\ at[m] \in {"idle", "done"} /\ \A h \in Handlers : at[h] \in {"idle", "done"}
    BY ActorsApart DEF MediaInv
  <2> QED BY <2>1 DEF Tasks, Settled, Carries
<1> QED BY <1>1, AlwaysMediaInv, PTL

-----------------------------------------------------------------------------
(* The photos of a user: which is primary, and how many there are. *)

Photos(u) == Live(u, "PROFILE_PHOTO")

\* Who retires a medium holds its row, and no row is held twice.
Locks ==
  /\ \A a \in Actors : at[a] = "retire" => rows[a] = {Medium(a)}
  /\ \A a, b \in Actors :
       a # b /\ at[a] \in HoldsRows /\ at[b] \in HoldsRows => rows[a] \intersect rows[b] = {}

OneEach == \A m, n \in MediaIds : IsPrimary(m) /\ IsPrimary(n) /\ Owner[m] = Owner[n] => m = n

\* Who has an heir holds the photo that is primary, unless it was deleted before.
Giving ==
  \A a \in Actors : at[a] = "retire" /\ heir[a] # NoMedium /\ ~media[Medium(a)].deleted =>
    media[Medium(a)].primary

\* An upload has listed every photo that was there before it; who inserts has
\* counted, and holds the row that keeps the next one from counting.
Limits ==
  \A p \in Published :
    /\ media[p].status # "NONE"
    /\ ~media[p].deleted =>
         /\ IsFiniteSet(Photos(Owner[p])) /\ Cardinality(Photos(Owner[p])) <= MaxProfilePhotos
         /\ \A h \in Handlers :
              at[h] \in {"lock", "insert"} /\ IsPhoto(on[h]) /\ Owner[on[h]] = Owner[p] =>
                /\ p \in rows[h]
                /\ at[h] = "insert" => Cardinality(Photos(Owner[p])) < MaxProfilePhotos

PhotosInv == Locks /\ OneEach /\ Giving /\ Limits

\* Nobody comes to hold rows, or to wait for them.
Holding == HoldsRows \union {"lock"}
HoldersSame ==
  \A b \in Actors : at'[b] \in Holding =>
    at'[b] = at[b] /\ rows'[b] = rows[b] /\ heir'[b] = heir[b] /\ Medium(b)' = Medium(b)

\* No photo appears, and none that is deleted comes back.
NoNewPhoto ==
  \A n \in MediaIds : IsPhoto(n) =>
    /\ media'[n].status = "NONE" <=> media[n].status = "NONE"
    /\ media[n].deleted => media'[n].deleted

SameFlags == \A n \in MediaIds : IsPhoto(n) => media'[n].primary = media[n].primary

LEMMA HoldersKeepLocks == Locks /\ HoldersSame => Locks'
BY DEF Locks, HoldersSame, Holding, HoldsRows

LEMMA FewerPhotos ==
  ASSUME NoNewPhoto, NEW u, IsFiniteSet(Photos(u))
  PROVE /\ IsFiniteSet(Photos(u)') /\ Cardinality(Photos(u)') <= Cardinality(Photos(u))
        /\ Cardinality(Photos(u)') \in Nat /\ Cardinality(Photos(u)) \in Nat
<1>1. Photos(u)' \subseteq Photos(u)
  BY DEF NoNewPhoto, Photos, Live, IsPhoto
<1> QED BY <1>1, FS_Subset, FS_CardinalityType

LEMMA PublishedArePhotos == \A p \in Published : p \in MediaIds /\ IsPhoto(p) /\ Owner[p] \in Users
BY PublishedAssumption, OwnerAssumption DEF IsPhoto

LEMMA HoldersKeepLimits ==
  ASSUME Limits, HoldersSame, NoNewPhoto
  PROVE Limits'
<1> SUFFICES ASSUME NEW p \in Published
             PROVE /\ media'[p].status # "NONE"
                   /\ ~media'[p].deleted =>
                        /\ IsFiniteSet(Photos(Owner[p])') /\ Cardinality(Photos(Owner[p])') <= MaxProfilePhotos
                        /\ \A h \in Handlers :
                             at'[h] \in {"lock", "insert"} /\ IsPhoto(on'[h]) /\ Owner[on'[h]] = Owner[p] =>
                               /\ p \in rows'[h]
                               /\ at'[h] = "insert" => Cardinality(Photos(Owner[p])') < MaxProfilePhotos
  BY DEF Limits, IsPhoto
<1>1. media'[p].status # "NONE"
  BY PublishedArePhotos DEF NoNewPhoto, Limits
<1>2. ASSUME ~media'[p].deleted
      PROVE /\ IsFiniteSet(Photos(Owner[p])') /\ Cardinality(Photos(Owner[p])') <= MaxProfilePhotos
            /\ \A h \in Handlers :
                 at'[h] \in {"lock", "insert"} /\ IsPhoto(on'[h]) /\ Owner[on'[h]] = Owner[p] =>
                   /\ p \in rows'[h]
                   /\ at'[h] = "insert" => Cardinality(Photos(Owner[p])') < MaxProfilePhotos
  <2>1. ~media[p].deleted
    BY <1>2, PublishedArePhotos DEF NoNewPhoto
  <2>2. IsFiniteSet(Photos(Owner[p])) /\ Cardinality(Photos(Owner[p])) <= MaxProfilePhotos
    BY <2>1 DEF Limits
  <2>3. /\ IsFiniteSet(Photos(Owner[p])') /\ Cardinality(Photos(Owner[p])') <= Cardinality(Photos(Owner[p]))
        /\ Cardinality(Photos(Owner[p])') \in Nat /\ Cardinality(Photos(Owner[p])) \in Nat
    BY <2>2, FewerPhotos
  <2>4. ASSUME NEW h \in Handlers, at'[h] \in {"lock", "insert"}, IsPhoto(on'[h]), Owner[on'[h]] = Owner[p]
        PROVE p \in rows'[h] /\ (at'[h] = "insert" => Cardinality(Photos(Owner[p])') < MaxProfilePhotos)
    <3>1. at'[h] = at[h] /\ rows'[h] = rows[h] /\ on'[h] = on[h]
      BY <2>4, ActorsApart DEF HoldersSame, Holding, HoldsRows, Medium
    <3>2. p \in rows[h] /\ (at[h] = "insert" => Cardinality(Photos(Owner[p])) < MaxProfilePhotos)
      BY <2>1, <2>4, <3>1 DEF Limits
    <3> QED BY <2>3, <3>1, <3>2, MediaBoundsAssumption
  <2> QED BY <2>2, <2>3, <2>4, MediaBoundsAssumption
<1> QED BY <1>1, <1>2

\* Most steps leave all of this alone.
LEMMA CalmKeepsPhotosInv ==
  ASSUME MediaInv, PhotosInv, HoldersSame, NoNewPhoto, SameFlags
  PROVE PhotosInv'
<1>1. Locks'
  BY HoldersKeepLocks DEF PhotosInv
<1>2. \A m \in MediaIds : IsPrimary(m)' => IsPrimary(m)
  BY DEF IsPrimary, Live, SameFlags, NoNewPhoto, IsPhoto
<1>3. OneEach'
  BY <1>2 DEF PhotosInv, OneEach
<1>4. Giving'
  <2> SUFFICES ASSUME NEW a \in Actors, at'[a] = "retire", heir'[a] # NoMedium, ~media'[Medium(a)'].deleted
               PROVE media'[Medium(a)'].primary
    BY DEF Giving
  <2>1. at[a] = "retire" /\ heir[a] # NoMedium /\ Medium(a)' = Medium(a)
    BY DEF HoldersSame, Holding, HoldsRows
  <2>2. Medium(a) \in MediaIds /\ IsPhoto(Medium(a))
    BY <2>1, RetiredIsThere DEF MediaInv, HeirsBelong
  <2> QED BY <2>1, <2>2 DEF PhotosInv, Giving, NoNewPhoto, SameFlags
<1>5. Limits'
  BY HoldersKeepLimits DEF PhotosInv
<1> QED BY <1>1, <1>3, <1>4, <1>5 DEF PhotosInv

\* An actor that goes on to no row, or away from it.
LEMMA OneMoves ==
  ASSUME MediaInv, NEW a \in Actors, NEW step, step \notin Holding, Goto(a, step),
         \A b \in Actors \ {a} : rows'[b] = rows[b] /\ heir'[b] = heir[b],
         \A h \in Handlers \ {a} : on'[h] = on[h]
  PROVE HoldersSame
<1>1. at'[a] = step /\ \A b \in Actors \ {a} : at'[b] = at[b]
  BY DEF Goto, MediaInv, Types
<1>2. \A b \in Actors \ {a} : Medium(b)' = Medium(b)
  BY DEF Medium, Actors
<1> QED BY <1>1, <1>2 DEF HoldersSame

LEMMA SameMediaIsCalm == media' = media => NoNewPhoto /\ SameFlags
BY DEF NoNewPhoto, SameFlags

LEMMA PhotosKeptIsCalm ==
  ASSUME MediaInv, PhotosInv, HoldersSame, \A n \in MediaIds : IsPhoto(n) => media'[n] = media[n]
  PROVE PhotosInv'
BY CalmKeepsPhotosInv DEF NoNewPhoto, SameFlags

LEMMA StoreUploadKeepsPhotosInv ==
  ASSUME MediaInv, PhotosInv, NEW h \in Handlers, NEW m \in MediaIds, StoreUpload(h, m)
  PROVE PhotosInv'
<1> USE ActorsApart
<1>1. /\ at'[h] = "lock" /\ on'[h] = m /\ rows'[h] = Live(Owner[m], Purpose[m])
      /\ \A b \in Actors \ {h} : at'[b] = at[b] /\ rows'[b] = rows[b] /\ heir'[b] = heir[b]
      /\ \A g \in Handlers \ {h} : on'[g] = on[g]
      /\ media' = media
  BY DEF StoreUpload, Goto, MediaInv, Types, MediaTypeOK
<1>2. \A b \in Actors \ {h} : Medium(b)' = Medium(b)
  BY <1>1 DEF Medium, Actors
<1>3. Locks' /\ OneEach' /\ Giving'
  BY <1>1, <1>2 DEF PhotosInv, Locks, OneEach, Giving, HoldsRows, IsPrimary, Live
<1>4. \A u : Photos(u)' = Photos(u)
  BY <1>1 DEF Photos, Live
<1>5. ASSUME NEW p \in Published, ~media[p].deleted, IsPhoto(m), Owner[m] = Owner[p] PROVE p \in rows'[h]
  <2>1. p \in MediaIds /\ IsPhoto(p) /\ media[p].status # "NONE"
    BY PublishedArePhotos DEF PhotosInv, Limits
  <2> QED BY <1>1, <1>5, <2>1 DEF Live, IsPhoto
<1>6. Limits'
  BY <1>1, <1>4, <1>5 DEF PhotosInv, Limits, IsPhoto
<1> QED BY <1>3, <1>6 DEF PhotosInv

LEMMA LockLiveKeepsPhotosInv ==
  ASSUME MediaInv, PhotosInv, NEW h \in Handlers, LockLive(h)
  PROVE PhotosInv'
<1> USE ActorsApart
<1>1. CASE Goto(h, "undo")
  <2>1. \A b \in Actors \ {h} : rows'[b] = rows[b] /\ heir'[b] = heir[b]
    BY DEF LockLive, MediaInv, Types, MediaTypeOK
  <2>2. HoldersSame
    BY <1>1, <2>1, OneMoves DEF LockLive, Holding, HoldsRows
  <2> QED BY <2>2, SameMediaIsCalm, CalmKeepsPhotosInv DEF LockLive
<1>2. CASE ~Goto(h, "undo")
  <2> DEFINE m == on[h]
             live == Live(Owner[m], Purpose[m])
  <2>1. /\ at[h] = "lock" /\ Free(h, rows[h]) /\ rows' = [rows EXCEPT ![h] = @ \intersect live]
        /\ Goto(h, "insert") /\ ~(IsPhoto(m) /\ Cardinality(live) >= MaxProfilePhotos)
        /\ heir' = [heir EXCEPT ![h] = IF live = {} THEN m ELSE NoMedium]
        /\ UNCHANGED <<media, on>>
    BY <1>2 DEF LockLive
  <2>2. /\ at'[h] = "insert" /\ rows'[h] = rows[h] \intersect live
        /\ \A b \in Actors \ {h} : at'[b] = at[b] /\ rows'[b] = rows[b] /\ heir'[b] = heir[b]
    BY <2>1 DEF Goto, MediaInv, Types, MediaTypeOK
  <2>3. \A b \in Actors : Medium(b)' = Medium(b)
    BY <2>1 DEF Medium
  <2>4. \A a \in Actors : at'[a] = "retire" => rows'[a] = {Medium(a)'}
    BY <2>2, <2>3 DEF PhotosInv, Locks
  <2>5. ASSUME NEW a \in Actors, NEW b \in Actors, a # b, at'[a] \in HoldsRows, at'[b] \in HoldsRows
        PROVE rows'[a] \intersect rows'[b] = {}
    <3>1. CASE a # h /\ b # h
      BY <2>2, <2>5, <3>1 DEF PhotosInv, Locks
    <3>2. CASE a = h
      BY <2>1, <2>2, <2>5, <3>2 DEF Free
    <3>3. CASE b = h
      BY <2>1, <2>2, <2>5, <3>3 DEF Free
    <3> QED BY <3>1, <3>2, <3>3
  <2>6. Locks'
    BY <2>4, <2>5 DEF Locks
  <2>7. OneEach' /\ Giving'
    BY <2>1, <2>2, <2>3 DEF PhotosInv, OneEach, Giving, IsPrimary, Live
  <2>8. \A u : Photos(u)' = Photos(u)
    BY <2>1 DEF Photos, Live
  <2>9. ASSUME NEW p \in Published, ~media[p].deleted, IsPhoto(m), Owner[m] = Owner[p]
        PROVE p \in rows'[h] /\ Cardinality(Photos(Owner[p])) < MaxProfilePhotos
    <3>1. p \in MediaIds /\ IsPhoto(p) /\ media[p].status # "NONE" /\ p \in rows[h]
          /\ IsFiniteSet(Photos(Owner[p]))
      BY <2>1, <2>9, PublishedArePhotos DEF PhotosInv, Limits
    <3>2. live = Photos(Owner[p]) /\ p \in live
      BY <2>9, <3>1 DEF Photos, Live, IsPhoto
    <3>3. Cardinality(live) \in Nat
      BY <3>1, <3>2, FS_CardinalityType
    <3> HIDE DEF live
    <3> QED BY <2>1, <2>2, <2>9, <3>1, <3>2, <3>3, MediaBoundsAssumption
  <2>10. Limits'
    BY <2>1, <2>2, <2>8, <2>9 DEF PhotosInv, Limits, IsPhoto
  <2> QED BY <2>6, <2>7, <2>10 DEF PhotosInv
<1> QED BY <1>1, <1>2

\* What is left of the photos of a user after an insert: one more at most.
LEMMA OneMorePhoto ==
  ASSUME MediaInv, NEW m \in MediaIds, NEW u, IsFiniteSet(Photos(u)),
         \A n \in MediaIds \ {m} : IsPhoto(n) => media'[n].status = media[n].status /\ media'[n].deleted = media[n].deleted
  PROVE /\ IsFiniteSet(Photos(u)') /\ Cardinality(Photos(u)') \in Nat /\ Cardinality(Photos(u)) \in Nat
        /\ Cardinality(Photos(u)') <= Cardinality(Photos(u)) + 1
        /\ Owner[m] # u => Cardinality(Photos(u)') <= Cardinality(Photos(u))
<1>1. Photos(u)' \subseteq Photos(u) \union {m}
  BY DEF Photos, Live, IsPhoto
<1>2. /\ IsFiniteSet(Photos(u) \union {m}) /\ Cardinality(Photos(u)) \in Nat
      /\ Cardinality(Photos(u) \union {m}) <= Cardinality(Photos(u)) + 1
      /\ Cardinality(Photos(u) \union {m}) \in Nat
  <2>1. Cardinality(Photos(u)) \in Nat
    BY FS_CardinalityType
  <2>2. /\ IsFiniteSet(Photos(u) \union {m})
        /\ \/ Cardinality(Photos(u) \union {m}) = Cardinality(Photos(u))
           \/ Cardinality(Photos(u) \union {m}) = Cardinality(Photos(u)) + 1
    BY FS_AddElement
  <2> QED BY <2>1, <2>2
<1>3. /\ IsFiniteSet(Photos(u)') /\ Cardinality(Photos(u)') <= Cardinality(Photos(u) \union {m})
      /\ Cardinality(Photos(u)') \in Nat
  BY <1>1, <1>2, FS_Subset, FS_CardinalityType
<1>4. ASSUME Owner[m] # u PROVE Cardinality(Photos(u)') <= Cardinality(Photos(u))
  <2>1. Photos(u)' \subseteq Photos(u)
    BY <1>1, <1>4 DEF Photos, Live
  <2> QED BY <2>1, FS_Subset
<1> QED BY <1>2, <1>3, <1>4

LEMMA CreatePhotoRowsKeepsPhotosInv ==
  ASSUME MediaInv, PhotosInv, NEW h \in Handlers, NEW p \in BOOLEAN, CreatePhotoRows(h, p)
  PROVE PhotosInv'
<1> USE ActorsApart
<1>1. PICK m \in MediaIds, isPrimary \in BOOLEAN :
        /\ m = on[h] /\ isPrimary = (heir[h] = m \/ p)
        /\ media[m].status = "NONE" /\ at[h] = "insert" /\ IsPhoto(m)
  BY DEF CreatePhotoRows, MediaInv, Uploads, Uploading, Before
<1> DEFINE others == Live(Owner[m], "PROFILE_PHOTO")
<1>2. PICK step \in {"queue", "undo"} :
        /\ Goto(h, step)
        /\ step = "undo" => media' = media
        /\ step = "queue" => /\ isPrimary => Free(h, others)
                             /\ media' = [n \in MediaIds |->
                                  IF n = m THEN Insert(m, isPrimary)
                                  ELSE IF n \in others /\ isPrimary THEN [media[n] EXCEPT !.primary = FALSE]
                                  ELSE media[n]]
  BY <1>1 DEF CreatePhotoRows
<1>3. \A b \in Actors \ {h} : rows'[b] = rows[b] /\ heir'[b] = heir[b]
  BY DEF CreatePhotoRows, MediaInv, Types, MediaTypeOK
<1>4. HoldersSame
  BY <1>2, <1>3, OneMoves DEF CreatePhotoRows, Holding, HoldsRows
<1>5. on' = on
  BY DEF CreatePhotoRows
<1>6. CASE step = "undo"
  BY <1>2, <1>4, <1>6, SameMediaIsCalm, CalmKeepsPhotosInv
<1>7. CASE step = "queue"
  <2>1. /\ media'[m] = Insert(m, isPrimary)
        /\ \A n \in MediaIds \ {m} :
             /\ media'[n].status = media[n].status /\ media'[n].deleted = media[n].deleted
             /\ media'[n].primary = IF n \in others /\ isPrimary THEN FALSE ELSE media[n].primary
    <3>1. \A n \in MediaIds : LET x == [media[n] EXCEPT !.primary = FALSE] IN
            x.status = media[n].status /\ x.deleted = media[n].deleted /\ x.primary = FALSE
      BY PrimaryUpdate DEF MediaInv, Types, MediaTypeOK, Rows
    <3> HIDE DEF others
    <3> QED BY <1>1, <1>2, <1>7, <3>1, ZenonT(60)
  <2>2. Locks'
    BY <1>4, HoldersKeepLocks DEF PhotosInv
  <2>3. OneEach'
    <3> SUFFICES ASSUME NEW k \in MediaIds, NEW n \in MediaIds, IsPrimary(k)', IsPrimary(n)', Owner[k] = Owner[n]
                 PROVE k = n
      BY DEF OneEach, IsPrimary
    <3>1. \A i \in MediaIds \ {m} : IsPrimary(i)' => IsPrimary(i) /\ ~(isPrimary /\ Owner[i] = Owner[m])
      BY <2>1 DEF IsPrimary, Live
    <3>2. IsPrimary(m)' => isPrimary
      BY <2>1 DEF IsPrimary, Insert
    <3> QED BY <3>1, <3>2 DEF PhotosInv, OneEach
  <2>4. Giving'
    <3> SUFFICES ASSUME NEW a \in Actors, at'[a] = "retire", heir'[a] # NoMedium, ~media'[Medium(a)'].deleted
                 PROVE media'[Medium(a)'].primary
      BY DEF Giving
    <3>1. at[a] = "retire" /\ heir[a] # NoMedium /\ Medium(a)' = Medium(a) /\ a # h
      BY <1>1, <1>4 DEF HoldersSame, Holding, HoldsRows
    <3>2. Medium(a) \in MediaIds /\ media[Medium(a)].status # "NONE" /\ IsPhoto(Medium(a))
      BY <3>1, RetiredIsThere DEF MediaInv, HeirsBelong
    <3>3. Medium(a) # m /\ ~media[Medium(a)].deleted
      BY <1>1, <2>1, <3>1, <3>2
    <3>4. media[Medium(a)].primary /\ rows[a] = {Medium(a)}
      BY <3>1, <3>3 DEF PhotosInv, Giving, Locks
    <3>5. Medium(a) \in others => ~isPrimary
      BY <1>2, <1>7, <3>1, <3>4 DEF Free, HoldsRows
    <3> QED BY <2>1, <3>1, <3>2, <3>3, <3>4, <3>5
  <2>5. Limits'
    <3> SUFFICES ASSUME NEW q \in Published
                 PROVE /\ media'[q].status # "NONE"
                       /\ ~media'[q].deleted =>
                            /\ IsFiniteSet(Photos(Owner[q])') /\ Cardinality(Photos(Owner[q])') <= MaxProfilePhotos
                            /\ \A g \in Handlers :
                                 at'[g] \in {"lock", "insert"} /\ IsPhoto(on'[g]) /\ Owner[on'[g]] = Owner[q] =>
                                   /\ q \in rows'[g]
                                   /\ at'[g] = "insert" => Cardinality(Photos(Owner[q])') < MaxProfilePhotos
      BY DEF Limits, IsPhoto
    <3>1. q \in MediaIds /\ q # m /\ media[q].status # "NONE"
      BY <1>1, PublishedArePhotos DEF PhotosInv, Limits
    <3>2. media'[q].status # "NONE"
      BY <2>1, <3>1
    <3>3. ASSUME ~media'[q].deleted
          PROVE /\ IsFiniteSet(Photos(Owner[q])') /\ Cardinality(Photos(Owner[q])') <= MaxProfilePhotos
                /\ \A g \in Handlers :
                     at'[g] \in {"lock", "insert"} /\ IsPhoto(on'[g]) /\ Owner[on'[g]] = Owner[q] =>
                       /\ q \in rows'[g]
                       /\ at'[g] = "insert" => Cardinality(Photos(Owner[q])') < MaxProfilePhotos
      <4>1. ~media[q].deleted
        BY <2>1, <3>1, <3>3
      <4>2. /\ IsFiniteSet(Photos(Owner[q])) /\ Cardinality(Photos(Owner[q])) <= MaxProfilePhotos
            /\ \A g \in Handlers :
                 at[g] \in {"lock", "insert"} /\ IsPhoto(on[g]) /\ Owner[on[g]] = Owner[q] =>
                   /\ q \in rows[g]
                   /\ at[g] = "insert" => Cardinality(Photos(Owner[q])) < MaxProfilePhotos
        BY <4>1 DEF PhotosInv, Limits
      <4>3. /\ IsFiniteSet(Photos(Owner[q])') /\ Cardinality(Photos(Owner[q])') \in Nat
            /\ Cardinality(Photos(Owner[q])) \in Nat
            /\ Cardinality(Photos(Owner[q])') <= Cardinality(Photos(Owner[q])) + 1
            /\ Owner[m] # Owner[q] => Cardinality(Photos(Owner[q])') <= Cardinality(Photos(Owner[q]))
        BY <1>1, <2>1, <4>2, OneMorePhoto
      <4>4. Owner[m] = Owner[q] => Cardinality(Photos(Owner[q])) < MaxProfilePhotos /\ q \in rows[h]
        BY <1>1, <4>2
      <4>5. Cardinality(Photos(Owner[q])') <= MaxProfilePhotos
        BY <4>2, <4>3, <4>4, MediaBoundsAssumption
      <4>6. ASSUME NEW g \in Handlers, at'[g] \in {"lock", "insert"}, IsPhoto(on'[g]), Owner[on'[g]] = Owner[q]
            PROVE q \in rows'[g] /\ (at'[g] = "insert" => Cardinality(Photos(Owner[q])') < MaxProfilePhotos)
        <5>1. at'[g] = at[g] /\ rows'[g] = rows[g] /\ on'[g] = on[g]
          BY <1>4, <1>5, <4>6 DEF HoldersSame, Holding, HoldsRows
        <5>2. q \in rows[g] /\ (at[g] = "insert" => Cardinality(Photos(Owner[q])) < MaxProfilePhotos)
          BY <4>2, <4>6, <5>1
        <5>3. g # h
          BY <1>2, <1>7, <4>6 DEF Goto, MediaInv, Types
        <5>4. at[g] = "insert" => Owner[m] # Owner[q]
          BY <1>1, <4>4, <5>2, <5>3 DEF PhotosInv, Locks, HoldsRows
        <5> QED BY <4>3, <5>1, <5>2, <5>4, MediaBoundsAssumption
      <4> QED BY <4>3, <4>5, <4>6
    <3> QED BY <3>2, <3>3
  <2> QED BY <2>2, <2>3, <2>4, <2>5 DEF PhotosInv
<1> QED BY <1>6, <1>7

LEMMA CreateIntroRowsKeepsPhotosInv ==
  ASSUME MediaInv, PhotosInv, NEW h \in Handlers, CreateIntroRows(h)
  PROVE PhotosInv'
<1> USE ActorsApart
<1>1. PICK m \in MediaIds : m = on[h] /\ ~IsPhoto(m)
  BY DEF CreateIntroRows, MediaInv, Uploads, Uploading, Before
<1>2. \A n \in MediaIds : IsPhoto(n) => media'[n] = media[n]
  BY <1>1 DEF CreateIntroRows, Live, IsPhoto
<1>3. PICK step \in {"queue", "undo"} : Goto(h, step)
  BY DEF CreateIntroRows
<1>4. \A b \in Actors \ {h} : rows'[b] = rows[b] /\ heir'[b] = heir[b]
  BY DEF CreateIntroRows, MediaInv, Types, MediaTypeOK
<1>5. HoldersSame
  BY <1>3, <1>4, OneMoves DEF CreateIntroRows, Holding, HoldsRows
<1> QED BY <1>2, <1>5, PhotosKeptIsCalm, CalmKeepsPhotosInv

\* Who gives a medium up takes its row, and looks while he holds it.
LEMMA ChoosingKeepsPhotosInv ==
  ASSUME MediaInv, PhotosInv, NEW a \in Actors, NEW m \in MediaIds, LockAndChoose(a, m, "retire"),
         Medium(a)' = m, \A h \in Handlers \ {a} : on'[h] = on[h]
  PROVE PhotosInv'
<1> USE ActorsApart
<1>1. /\ at'[a] = "retire" /\ rows'[a] = {m} /\ Free(a, {m}) /\ heir'[a] \in Heirs(m)
      /\ \A b \in Actors \ {a} : at'[b] = at[b] /\ rows'[b] = rows[b] /\ heir'[b] = heir[b]
      /\ media' = media
  BY DEF LockAndChoose, Goto, MediaInv, Types, MediaTypeOK
<1>2. \A b \in Actors \ {a} : Medium(b)' = Medium(b)
  BY <1>1 DEF Medium, Actors
<1>3. Locks'
  <2>1. \A b \in Actors : at'[b] = "retire" => rows'[b] = {Medium(b)'}
    BY <1>1, <1>2 DEF PhotosInv, Locks
  <2>2. ASSUME NEW b \in Actors, NEW c \in Actors, b # c, at'[b] \in HoldsRows, at'[c] \in HoldsRows
        PROVE rows'[b] \intersect rows'[c] = {}
    BY <1>1, <2>2 DEF PhotosInv, Locks, Free
  <2> QED BY <2>1, <2>2 DEF Locks
<1>4. heir'[a] # NoMedium => media[m].primary
  BY <1>1 DEF Heirs
<1>5. OneEach' /\ Giving'
  BY <1>1, <1>2, <1>4 DEF PhotosInv, OneEach, Giving, IsPrimary, Live
<1>6. \A u : Photos(u)' = Photos(u)
  BY <1>1 DEF Photos, Live
<1>7. \A h \in Handlers : at'[h] \in {"lock", "insert"} => h # a /\ on'[h] = on[h]
  BY <1>1
<1>8. Limits'
  BY <1>1, <1>6, <1>7 DEF PhotosInv, Limits, IsPhoto
<1> QED BY <1>3, <1>5, <1>8 DEF PhotosInv

LEMMA GivingUpKeepsPhotosInv ==
  ASSUME MediaInv, PhotosInv, NEW a \in Actors, NEW m \in MediaIds,
         \/ a \in Handlers /\ Delete(a, m)
         \/ a \in Handlers /\ FailMediaAfterCommit(a)
         \/ MarkFailed(a)
  PROVE PhotosInv'
<1> USE ActorsApart
<1>1. CASE a \in Handlers /\ Delete(a, m)
  <2>1. on'[a] = m /\ \A h \in Handlers \ {a} : on'[h] = on[h]
    BY <1>1 DEF Delete, MediaInv, Types
  <2>2. Medium(a)' = m
    BY <1>1, <2>1 DEF Medium
  <2> QED BY <1>1, <2>1, <2>2, ChoosingKeepsPhotosInv DEF Delete
<1>2. CASE a \in Handlers /\ FailMediaAfterCommit(a)
  <2>1. PICK n \in MediaIds : n = on[a]
    BY <1>2 DEF FailMediaAfterCommit, MediaInv, Uploads
  <2>2. Medium(a)' = n /\ \A h \in Handlers \ {a} : on'[h] = on[h]
    BY <1>2, <2>1 DEF FailMediaAfterCommit, Medium
  <2> QED BY <1>2, <2>1, <2>2, ChoosingKeepsPhotosInv DEF FailMediaAfterCommit
<1>3. CASE MarkFailed(a)
  <2>1. a \in MediaIds /\ Medium(a)' = a /\ \A h \in Handlers \ {a} : on'[h] = on[h]
    BY <1>3 DEF MarkFailed, Medium
  <2> QED BY <1>3, <2>1, ChoosingKeepsPhotosInv DEF MarkFailed
<1> QED BY <1>1, <1>2, <1>3

\* The heir takes the flag from the photo that gives it up, and the index sees
\* to it that nobody else has it.
LEMMA CommitRetireKeepsPhotosInv ==
  ASSUME MediaInv, PhotosInv, NEW a \in Actors, CommitRetire(a)
  PROVE PhotosInv'
<1> USE ActorsApart
<1>1. PICK m \in MediaIds : m = Medium(a) /\ at[a] = "retire" /\ media[m].status # "NONE" /\ ~Taken(a)
  BY RetiredIsThere DEF CommitRetire
<1>2. /\ media' \in [MediaIds -> Rows]
      /\ media'[m].status \in {"FAILED", "DELETED"} /\ (media[m].deleted => media'[m].deleted)
      /\ ~media'[m].primary
      /\ \A n \in MediaIds \ {m} :
           /\ media'[n].status = media[n].status /\ media'[n].deleted = media[n].deleted
           /\ media'[n].primary = IF n = heir[a] THEN TRUE ELSE media[n].primary
  <2>1. media' = [k \in MediaIds |-> IF k = m THEN Retired(a, m)
                                     ELSE IF k = heir[a] THEN [media[k] EXCEPT !.primary = TRUE]
                                     ELSE media[k]]
    BY <1>1 DEF CommitRetire
  <2>2. \A n \in MediaIds : media[n] \in Rows
    BY DEF MediaInv, Types, MediaTypeOK, Rows
  <2>3. /\ Retired(a, m) \in Rows /\ Retired(a, m).status \in {"FAILED", "DELETED"}
        /\ media[m].deleted => Retired(a, m).deleted
        /\ ~Retired(a, m).primary
    BY <2>2 DEF Retired, Rows
  <2>4. \A n \in MediaIds : LET x == [media[n] EXCEPT !.primary = TRUE] IN
          x \in Rows /\ x.status = media[n].status /\ x.deleted = media[n].deleted /\ x.primary = TRUE
    BY <2>2, PrimaryUpdate
  <2>5. media' \in [MediaIds -> Rows] /\ media'[m] = Retired(a, m)
    BY <2>1, <2>2, <2>3, <2>4
  <2>6. \A n \in MediaIds \ {m} :
          media'[n] = IF n = heir[a] THEN [media[n] EXCEPT !.primary = TRUE] ELSE media[n]
    BY <2>1
  <2> QED BY <2>3, <2>4, <2>5, <2>6
<1>3. \A b \in Actors \ {a} : rows'[b] = rows[b] /\ heir'[b] = heir[b]
  BY DEF CommitRetire, MediaInv, Types, MediaTypeOK
<1>4. PICK step \in {"refresh", "queued", "done"} : Goto(a, step)
  BY DEF CommitRetire, Return
<1>5. HoldersSame /\ at'[a] = step
  <2>1. HoldersSame
    BY <1>3, <1>4, OneMoves DEF CommitRetire, Holding, HoldsRows
  <2> QED BY <1>4, <2>1 DEF Goto, MediaInv, Types
<1>6. Locks' /\ Limits'
  <2>1. NoNewPhoto
    BY <1>1, <1>2 DEF NoNewPhoto
  <2> QED BY <1>5, <2>1, HoldersKeepLocks, HoldersKeepLimits DEF PhotosInv
<1>7. OneEach'
  <2> SUFFICES ASSUME NEW k \in MediaIds, NEW n \in MediaIds, IsPrimary(k)', IsPrimary(n)', Owner[k] = Owner[n]
               PROVE k = n
    BY DEF OneEach, IsPrimary
  <2>1. ~IsPrimary(m)'
    BY <1>2 DEF IsPrimary
  <2>2. \A i \in MediaIds : IsPrimary(i)' /\ i # heir[a] => IsPrimary(i)
    BY <1>2, <2>1 DEF IsPrimary, Live
  <2>3. ASSUME NEW i \in MediaIds, NEW j \in MediaIds, i = heir[a], IsPrimary(i)', IsPrimary(j)', Owner[i] = Owner[j]
        PROVE i = j
    <3>1. i # m /\ j # m
      BY <2>1, <2>3
    <3>2. IsPhoto(m) /\ IsPhoto(i) /\ Owner[i] = Owner[m]
      BY <1>1, <2>3 DEF MediaInv, HeirsBelong
    <3>3. i \in Live(Owner[m], "PROFILE_PHOTO")
      BY <1>2, <2>3, <3>1, <3>2 DEF IsPrimary, Live
    <3>4. j # i => IsPrimary(j) /\ Owner[j] = Owner[m]
      BY <2>2, <2>3, <3>2
    <3> QED BY <1>1, <2>3, <3>1, <3>2, <3>3, <3>4 DEF Taken
  <2> QED BY <2>2, <2>3 DEF PhotosInv, OneEach
<1>8. Giving'
  <2> SUFFICES ASSUME NEW b \in Actors, at'[b] = "retire", heir'[b] # NoMedium, ~media'[Medium(b)'].deleted
               PROVE media'[Medium(b)'].primary
    BY DEF Giving
  <2>1. at[b] = "retire" /\ heir[b] # NoMedium /\ Medium(b)' = Medium(b) /\ b # a
    BY <1>5 DEF HoldersSame, Holding, HoldsRows
  <2>2. Medium(b) \in MediaIds /\ Medium(b) # m
    BY <1>1, <2>1, RetiredIsThere DEF PhotosInv, Locks, HoldsRows
  <2> QED BY <1>2, <2>1, <2>2 DEF PhotosInv, Giving
<1> QED BY <1>6, <1>7, <1>8 DEF PhotosInv

LEMMA SetPrimaryKeepsPhotosInv ==
  ASSUME MediaInv, PhotosInv, NEW h \in Handlers, NEW m \in MediaIds, SetPrimary(h, m)
  PROVE PhotosInv'
<1> USE ActorsApart
<1> DEFINE photos == Live(Owner[m], "PROFILE_PHOTO")
<1>1. \A n \in MediaIds :
        /\ media'[n].status = media[n].status /\ media'[n].deleted = media[n].deleted
        /\ media'[n].primary = IF n \in photos THEN n = m ELSE media[n].primary
  <2>1. media' = [n \in MediaIds |-> IF n \in photos THEN [media[n] EXCEPT !.primary = (n = m)] ELSE media[n]]
    BY DEF SetPrimary
  <2> HIDE DEF photos
  <2>2. \A n \in MediaIds : media[n] \in Rows
    BY DEF MediaInv, Types, MediaTypeOK, Rows
  <2>3. SUFFICES ASSUME NEW n \in MediaIds
                 PROVE /\ media'[n].status = media[n].status /\ media'[n].deleted = media[n].deleted
                       /\ media'[n].primary = IF n \in photos THEN n = m ELSE media[n].primary
    OBVIOUS
  <2>4. PICK p \in BOOLEAN : p = (n = m)
    OBVIOUS
  <2>5. LET x == [media[n] EXCEPT !.primary = p] IN
          x.status = media[n].status /\ x.deleted = media[n].deleted /\ x.primary = p
    BY <2>2, PrimaryUpdate
  <2> QED BY <2>1, <2>4, <2>5
<1>2. HoldersSame
  <2>1. \A b \in Actors \ {h} : rows'[b] = rows[b] /\ heir'[b] = heir[b]
    BY DEF SetPrimary
  <2>2. \A g \in Handlers \ {h} : on'[g] = on[g]
    BY DEF SetPrimary, MediaInv, Types
  <2> QED BY <2>1, <2>2, OneMoves DEF SetPrimary, Holding, HoldsRows
<1>3. Locks' /\ Limits'
  <2>1. NoNewPhoto
    BY <1>1 DEF NoNewPhoto
  <2> QED BY <1>2, <2>1, HoldersKeepLocks, HoldersKeepLimits DEF PhotosInv
<1>4. OneEach'
  <2>1. \A n \in MediaIds : IsPrimary(n)' => IF Owner[n] = Owner[m] THEN n = m ELSE IsPrimary(n)
    BY <1>1 DEF IsPrimary, Live
  <2> QED BY <2>1 DEF PhotosInv, OneEach
<1>5. Giving'
  <2> SUFFICES ASSUME NEW b \in Actors, at'[b] = "retire", heir'[b] # NoMedium, ~media'[Medium(b)'].deleted
               PROVE media'[Medium(b)'].primary
    BY DEF Giving
  <2>1. at[b] = "retire" /\ heir[b] # NoMedium /\ Medium(b)' = Medium(b) /\ b # h
    BY <1>2 DEF HoldersSame, Holding, HoldsRows, SetPrimary
  <2>2. Medium(b) \in MediaIds /\ rows[b] = {Medium(b)}
    BY <2>1, RetiredIsThere DEF PhotosInv, Locks
  <2>3. Medium(b) \notin photos
    BY <2>1, <2>2 DEF SetPrimary, Free, HoldsRows
  <2> QED BY <1>1, <2>1, <2>2, <2>3 DEF PhotosInv, Giving
<1> QED BY <1>3, <1>4, <1>5 DEF PhotosInv

LEMMA UploadKeepsPhotosInv ==
  ASSUME MediaInv, PhotosInv, NEW h \in Handlers,
         TransactionFails(h) \/ UndoUpload(h) \/ Enqueue(h) \/ EnqueueFails(h)
  PROVE PhotosInv'
<1> USE ActorsApart
<1>1. media' = media /\ on' = on
  BY DEF TransactionFails, UndoUpload, Enqueue, EnqueueFails, mediaVars
<1>2. CASE TransactionFails(h) \/ UndoUpload(h)
  <2>1. \A b \in Actors \ {h} : rows'[b] = rows[b] /\ heir'[b] = heir[b]
    BY <1>2 DEF TransactionFails, UndoUpload, MediaInv, Types, MediaTypeOK
  <2>2. HoldersSame
    BY <1>1, <1>2, <2>1, OneMoves DEF TransactionFails, UndoUpload, Holding, HoldsRows
  <2> QED BY <1>1, <2>2, PhotosKeptIsCalm
<1>3. CASE Enqueue(h) \/ EnqueueFails(h)
  <2>1. PICK step \in {"done", "fail"}, task \in {"idle", "queued"} :
          at' = [at EXCEPT ![h] = step, ![on[h]] = task]
    BY <1>3 DEF Enqueue, EnqueueFails
  <2>2. rows' = rows /\ heir' = heir /\ \A b \in Actors : Medium(b)' = Medium(b)
    BY <1>1, <1>3 DEF Enqueue, EnqueueFails, mediaVars, Medium
  <2>3. \A b \in Actors : at'[b] = at[b] \/ at'[b] \in {step, task}
    BY <2>1 DEF MediaInv, Types
  <2>4. HoldersSame
    BY <2>2, <2>3 DEF HoldersSame, Holding, HoldsRows
  <2> QED BY <1>1, <2>4, PhotosKeptIsCalm
<1> QED BY <1>2, <1>3

LEMMA TaskKeepsPhotosInv ==
  ASSUME MediaInv, PhotosInv, NEW m \in MediaIds,
         Begin(m) \/ MakeAll(m) \/ MakeFails(m) \/ Publish(m) \/ PublishFails(m)
  PROVE PhotosInv'
<1> USE ActorsApart
<1>1. at[m] \in {"queued", "make", "publish"} /\ UNCHANGED <<rows, heir, on>>
  BY DEF Begin, MakeAll, MakeFails, Make, Publish, PublishFails
<1>2. PICK step \in {"done", "make", "publish", "fail", "refresh"} : Goto(m, step)
  BY DEF Begin, MakeAll, MakeFails, Publish, PublishFails
<1>3. HoldersSame
  BY <1>1, <1>2, OneMoves DEF Holding, HoldsRows
<1>4. media[m].status # "NONE"
  BY <1>1 DEF MediaInv, Tasks
<1>5. \A n \in MediaIds : media[n] \in Rows
  BY DEF MediaInv, Types, MediaTypeOK, Rows
<1>6. \A n \in MediaIds :
        /\ media'[n].status = "NONE" <=> media[n].status = "NONE"
        /\ media'[n].deleted = media[n].deleted /\ media'[n].primary = media[n].primary
  <2>1. CASE media' = media
    BY <2>1
  <2>2. CASE media' = [media EXCEPT ![m].status = "PROCESSING"]
    BY <1>4, <1>5, <2>2, StatusUpdate
  <2>3. CASE Publish(m)
    <3>1. PICK approval \in {"PENDING", "APPROVED"} :
            media' = [media EXCEPT ![m].status = "READY", ![m].approval = approval]
      BY <2>3 DEF Publish
    <3>2. media'[m] = [media[m] EXCEPT !.status = "READY", !.approval = approval]
      BY <3>1 DEF MediaInv, Types, MediaTypeOK
    <3>3. \A n \in MediaIds \ {m} : media'[n] = media[n]
      BY <3>1 DEF MediaInv, Types, MediaTypeOK
    <3>4. /\ media'[m].status = "READY" /\ media'[m].deleted = media[m].deleted
          /\ media'[m].primary = media[m].primary
      BY <1>5, <3>2 DEF Rows
    <3> QED BY <1>4, <3>3, <3>4
  <2> QED BY <2>1, <2>2, <2>3 DEF Begin, MakeAll, MakeFails, Make, PublishFails
<1> QED BY <1>3, <1>6, CalmKeepsPhotosInv DEF NoNewPhoto, SameFlags

LEMMA FailingRunsKeepPhotosInv ==
  ASSUME MediaInv, PhotosInv, NEW m \in MediaIds, BeginFails(m) \/ BeginLost(m)
  PROVE PhotosInv'
<1>1. UNCHANGED <<media, rows, heir, on>> /\ \E step \in {"queued", "done", "fail"} : Goto(m, step)
  BY FailingRuns
<1>2. HoldersSame
  BY <1>1, ActorsApart, OneMoves DEF Holding, HoldsRows
<1> QED BY <1>1, <1>2, PhotosKeptIsCalm

\* Whoever stops, reads, writes the flag, or has nothing to do with media.
LEMMA ElsewhereKeepsPhotosInv ==
  ASSUME MediaInv, PhotosInv, NEW a \in Actors,
         \/ Ends(a)
         \/ a \in Handlers /\ (OwnerStep(a) \/ ViewerStep(a))
         \/ Refresh(a)
  PROVE PhotosInv'
<1> USE ActorsApart
<1>1. CASE Ends(a)
  <2>1. \A b \in Actors \ {a} : rows'[b] = rows[b] /\ heir'[b] = heir[b]
    BY <1>1 DEF Ends, MediaInv, Types, MediaTypeOK
  <2>2. HoldersSame
    BY <1>1, <2>1, OneMoves DEF Ends, Holding, HoldsRows
  <2> QED BY <1>1, <2>2, PhotosKeptIsCalm DEF Ends
<1>2. CASE a \in Handlers /\ OwnerStep(a)
  <2>1. PICK next \in {"refresh", "done"} : Goto(a, next) /\ UNCHANGED <<mediaVars, on>>
    BY <1>2 DEF OwnerStep, UpdateProfile, UpdateInterests, UpdatePrompts, UpdateLifestyle, Save, CompleteProfile,
         UpdatePreferences, UpdateLocation, DeleteAccount, Block, Unmatch, Owns
  <2>2. HoldersSame
    BY <2>1, OneMoves DEF mediaVars, Holding, HoldsRows
  <2> QED BY <2>1, <2>2, PhotosKeptIsCalm DEF mediaVars
<1>3. CASE a \in Handlers /\ ViewerStep(a)
  <2>1. PICK next \in {"feed", "detail", "impression", "done", "row", "match", "authorize", "photo"} :
          /\ Goto(a, next) /\ UNCHANGED mediaVars
          /\ on' = on \/ \E m \in MediaIds : on' = [on EXCEPT ![a] = m]
    <3>1. CASE \E viewer, u \in Users, op \in {"feed", "detail", "impression"} : AskReadiness(a, viewer, op, u)
      BY <3>1 DEF AskReadiness, Views
    <3>2. CASE \E viewer \in Users, m \in MediaIds : ServeVariant(a, viewer, m)
      BY <3>2 DEF ServeVariant, Views
    <3>3. CASE Feed(a) \/ CreateImpressions(a) \/ ProfileRow(a) \/ MatchAuthorizes(a)
      BY <3>3 DEF Feed, CreateImpressions, ProfileRow, MatchAuthorizes, Show, Views
    <3>4. CASE CheckTarget(a) \/ DiscoveryAuthorizes(a)
      BY <3>4 DEF CheckTarget, DiscoveryAuthorizes, Show, Views
    <3> QED BY <1>3, <3>1, <3>2, <3>3, <3>4 DEF ViewerStep
  <2>2. \A h \in Handlers \ {a} : on'[h] = on[h]
    BY <2>1 DEF MediaInv, Types
  <2>3. HoldersSame
    BY <2>1, <2>2, OneMoves DEF mediaVars, Holding, HoldsRows
  <2> QED BY <2>1, <2>3, PhotosKeptIsCalm DEF mediaVars
<1>4. CASE Refresh(a)
  <2>1. PICK next \in {"write", "queued", "done"} : Goto(a, next) /\ UNCHANGED <<mediaVars, on>>
    BY <1>4 DEF Refresh, RefreshRead, RefreshWrite, RefreshFails, Return
  <2>2. HoldersSame
    BY <2>1, OneMoves DEF mediaVars, Holding, HoldsRows
  <2> QED BY <2>1, <2>2, PhotosKeptIsCalm DEF mediaVars
<1> QED BY <1>1, <1>2, <1>3, <1>4

LEMMA StepPhotosInv == MediaInv /\ PhotosInv /\ [Next]_vars => PhotosInv'
<1> SUFFICES ASSUME MediaInv, PhotosInv, [Next]_vars PROVE PhotosInv'
  OBVIOUS
<1> USE ActorsApart
<1>1. ASSUME NEW h \in Handlers, UploadGoesOn(h) PROVE PhotosInv'
  <2>1. FailMediaAfterCommit(h) => PhotosInv'
    <3>1. FailMediaAfterCommit(h) => on[h] \in MediaIds
      BY DEF FailMediaAfterCommit, MediaInv, Uploads
    <3> QED BY <3>1, GivingUpKeepsPhotosInv
  <2> QED BY <1>1, <2>1, LockLiveKeepsPhotosInv, CreatePhotoRowsKeepsPhotosInv, CreateIntroRowsKeepsPhotosInv,
             UploadKeepsPhotosInv DEF UploadGoesOn
<1>2. ASSUME NEW m \in MediaIds, Process(m) PROVE PhotosInv'
  BY <1>2, TaskKeepsPhotosInv, FailingRunsKeepPhotosInv, GivingUpKeepsPhotosInv, CommitRetireKeepsPhotosInv DEF Process
<1>3. CASE MediaStep
  BY <1>1, <1>2, <1>3, StoreUploadKeepsPhotosInv, CommitRetireKeepsPhotosInv, GivingUpKeepsPhotosInv,
     SetPrimaryKeepsPhotosInv, FailingRunsKeepPhotosInv, ElsewhereKeepsPhotosInv, DieEnds, RefusedEnds DEF MediaStep
<1>4. CASE (\E h \in Handlers : OwnerStep(h) \/ ViewerStep(h)) \/ (\E a \in Actors : Refresh(a))
  BY <1>4, ElsewhereKeepsPhotosInv
<1>5. CASE (\E u \in Users : Age(u)) \/ UNCHANGED vars
  <2>1. UNCHANGED <<media, at, rows, heir, on>>
    BY <1>5 DEF Age, mediaVars, callVars, vars
  <2>2. HoldersSame
    BY <2>1 DEF HoldersSame, Medium
  <2> QED BY <2>1, <2>2, PhotosKeptIsCalm
<1> QED BY <1>3, <1>4, <1>5 DEF Next

LEMMA InitPhotosInv == Init => PhotosInv
<1> SUFFICES ASSUME Init PROVE PhotosInv
  OBVIOUS
<1>1. \A a \in Actors : at[a] \in {"idle", "done"}
  BY DEF Init, MediaInit
<1>2. Locks /\ Giving
  BY <1>1 DEF Locks, Giving, HoldsRows
<1>3. /\ \A m \in MediaIds : media[m].primary => m \in Primary
      /\ \A m \in MediaIds : media[m].status # "NONE" <=> m \in Published
      /\ \A m \in MediaIds : ~media[m].deleted
  BY PublishedAssumption DEF Init, MediaInit, NoRow
<1>4. OneEach
  BY <1>3, PublishedAssumption DEF OneEach, IsPrimary
<1>5. ASSUME NEW p \in Published
      PROVE IsFiniteSet(Photos(Owner[p])) /\ Cardinality(Photos(Owner[p])) <= MaxProfilePhotos
  <2>1. Photos(Owner[p]) = {m \in Published : Owner[m] = Owner[p]}
    BY <1>3, PublishedAssumption DEF Photos, Live
  <2>2. Owner[p] \in Users
    BY PublishedArePhotos
  <2> QED BY <2>1, <2>2, PublishedAssumption
<1>6. Limits
  BY <1>1, <1>3, <1>5, ActorsApart, PublishedArePhotos DEF Limits
<1> QED BY <1>2, <1>4, <1>6 DEF PhotosInv

LEMMA AlwaysPhotosInv == Spec => [](MediaInv /\ PhotosInv)
<1>1. Init => MediaInv /\ PhotosInv
  BY InitMediaInv, InitPhotosInv
<1>2. (MediaInv /\ PhotosInv) /\ [Next]_vars => (MediaInv /\ PhotosInv)'
  BY StepMediaInv, StepPhotosInv
<1> QED BY <1>1, <1>2, PTL DEF Spec

\* The lock on the row that gives the flag up, not the unique index, keeps the
\* primary photo the only one.
THEOREM AlwaysOnePrimary == Spec => []OnePrimary
<1>1. MediaInv /\ PhotosInv => OnePrimary
  <2> SUFFICES ASSUME MediaInv, PhotosInv, NEW a \in Actors, at[a] = "retire", ~media[Medium(a)].deleted, Taken(a)
               PROVE FALSE
    BY DEF OnePrimary, PhotosInv, OneEach
  <2>1. IsPhoto(Medium(a)) /\ heir[a] # NoMedium /\ Medium(a) \in MediaIds
    BY RetiredIsThere, ActorsApart DEF Taken, Live
  <2>2. IsPrimary(Medium(a))
    BY <2>1, RetiredIsThere DEF IsPrimary, Live, IsPhoto, PhotosInv, Giving
  <2> QED BY <2>1, <2>2 DEF Taken, PhotosInv, OneEach
<1> QED BY <1>1, AlwaysPhotosInv, PTL

\* A photo that was there before the uploads is the row they lock in turn: each
\* counts what the one before it has inserted.
THEOREM PhotoLimitAlwaysHolds == Spec => []PhotoLimitHolds
<1>1. PhotosInv => PhotoLimitHolds
  BY DEF PhotosInv, Limits, PhotoLimitHolds, Photos
<1> QED BY <1>1, AlwaysPhotosInv, PTL

-----------------------------------------------------------------------------
(* Files without a row. *)

\* A file whose medium has no row is the original of an upload that goes on.
FilesInv ==
  \A m \in MediaIds : media[m].status = "NONE" /\ m \notin abandoned =>
    \A t : <<m, t>> \in objects => /\ t = "ORIGINAL"
                                   /\ \E h \in Handlers : at[h] \in Before /\ on[h] = m

\* No file or medium without a row is new, and an upload stops before its rows
\* only if they are there, the file is not, or it has been abandoned.
NoNewOrphan ==
  \A m \in MediaIds : media'[m].status = "NONE" =>
    media[m].status = "NONE" /\ \A t : <<m, t>> \in objects' => <<m, t>> \in objects
GoesOn(h) ==
  \/ at'[h] \in Before /\ on'[h] = on[h]
  \/ media'[on[h]].status # "NONE"
  \/ on[h] \in abandoned'
  \/ \A t : <<on[h], t>> \notin objects'

LEMMA FilesKept ==
  ASSUME FilesInv, abandoned \subseteq abandoned', NoNewOrphan,
         \A h \in Handlers : at[h] \in Before => GoesOn(h)
  PROVE FilesInv'
<1> SUFFICES ASSUME NEW m \in MediaIds, media'[m].status = "NONE", m \notin abandoned',
                    NEW t, <<m, t>> \in objects'
             PROVE t = "ORIGINAL" /\ \E h \in Handlers : at'[h] \in Before /\ on'[h] = m
  BY DEF FilesInv
<1>1. media[m].status = "NONE" /\ m \notin abandoned /\ <<m, t>> \in objects
  BY DEF NoNewOrphan
<1>2. t = "ORIGINAL" /\ \E h \in Handlers : at[h] \in Before /\ on[h] = m
  BY <1>1 DEF FilesInv
<1>3. PICK h \in Handlers : at[h] \in Before /\ on[h] = m
  BY <1>2
<1>4. at'[h] \in Before /\ on'[h] = m
  BY <1>3 DEF GoesOn
<1> QED BY <1>2, <1>4

\* An actor moves that is not in an upload, and the rows stay.
LEMMA AsideKeepsFilesInv ==
  ASSUME MediaInv, FilesInv, NEW a \in Actors, a \in Handlers => at[a] \notin Before,
         \A b \in Actors \ {a} : at'[b] = at[b],
         \A h \in Handlers \ {a} : on'[h] = on[h],
         abandoned \subseteq abandoned', NoNewOrphan
  PROVE FilesInv'
<1>1. \A h \in Handlers : at[h] \in Before => GoesOn(h)
  BY ActorsApart DEF GoesOn
<1> QED BY <1>1, FilesKept

LEMMA StoreUploadKeepsFilesInv ==
  ASSUME MediaInv, FilesInv, NEW h \in Handlers, NEW m \in MediaIds, StoreUpload(h, m)
  PROVE FilesInv'
<1> USE ActorsApart
<1>1. /\ at'[h] = "lock" /\ on'[h] = m /\ at[h] = "idle"
      /\ \A b \in Actors \ {h} : at'[b] = at[b]
      /\ \A g \in Handlers \ {h} : on'[g] = on[g]
      /\ UNCHANGED <<media, abandoned>> /\ objects' = objects \union {<<m, "ORIGINAL">>}
  BY DEF StoreUpload, Goto, MediaInv, Types
<1> SUFFICES ASSUME NEW n \in MediaIds, media'[n].status = "NONE", n \notin abandoned',
                    NEW t, <<n, t>> \in objects'
             PROVE t = "ORIGINAL" /\ \E g \in Handlers : at'[g] \in Before /\ on'[g] = n
  BY DEF FilesInv
<1>2. CASE <<n, t>> \in objects
  <2>1. t = "ORIGINAL" /\ \E g \in Handlers : at[g] \in Before /\ on[g] = n
    BY <1>1, <1>2 DEF FilesInv
  <2>2. PICK g \in Handlers : at[g] \in Before /\ on[g] = n
    BY <2>1
  <2>3. g # h
    BY <1>1, <2>2 DEF Before
  <2> QED BY <1>1, <2>1, <2>2, <2>3
<1>3. CASE <<n, t>> \notin objects
  BY <1>1, <1>3 DEF Before
<1> QED BY <1>2, <1>3

LEMMA UploadKeepsFilesInv ==
  ASSUME MediaInv, FilesInv, NEW h \in Handlers,
         \/ LockLive(h) \/ (\E p \in BOOLEAN : CreatePhotoRows(h, p)) \/ CreateIntroRows(h)
         \/ TransactionFails(h) \/ UndoUpload(h)
  PROVE FilesInv'
<1> USE ActorsApart
<1>1. at[h] \in Before /\ on[h] \in MediaIds /\ media[on[h]].status = "NONE"
  BY DEF LockLive, CreatePhotoRows, CreateIntroRows, TransactionFails, UndoUpload, MediaInv, Uploads, Uploading, Before
<1>2. PICK step \in {"insert", "undo", "queue", "done"} : Goto(h, step)
  BY DEF LockLive, CreatePhotoRows, CreateIntroRows, TransactionFails, UndoUpload
<1>3. at'[h] = step /\ \A b \in Actors \ {h} : at'[b] = at[b]
  BY <1>2 DEF Goto, MediaInv, Types
<1>4. on' = on /\ abandoned \subseteq abandoned' /\ objects' \subseteq objects
  BY DEF LockLive, CreatePhotoRows, CreateIntroRows, TransactionFails, UndoUpload
<1>5. \A n \in MediaIds : media'[n].status = "NONE" => media[n].status = "NONE"
  <2>1. \A n \in MediaIds : media[n] \in Rows
    BY DEF MediaInv, Types, MediaTypeOK, Rows
  <2>2. CASE media' = media
    BY <2>2
  <2>3. CASE \E p \in BOOLEAN : CreatePhotoRows(h, p) /\ media' # media
    <3>1. PICK p \in BOOLEAN, others \in SUBSET MediaIds : media' = [n \in MediaIds |->
            IF n = on[h] THEN Insert(on[h], p)
            ELSE IF n \in others THEN [media[n] EXCEPT !.primary = FALSE] ELSE media[n]]
      <4>1. PICK p \in BOOLEAN : CreatePhotoRows(h, p) /\ media' # media
        BY <2>3
      <4> DEFINE isPrimary == heir[h] = on[h] \/ p
                 others == {n \in Live(Owner[on[h]], "PROFILE_PHOTO") : isPrimary}
      <4>2. media' = [n \in MediaIds |->
              IF n = on[h] THEN Insert(on[h], isPrimary)
              ELSE IF n \in others THEN [media[n] EXCEPT !.primary = FALSE] ELSE media[n]]
        BY <4>1 DEF CreatePhotoRows
      <4>3. isPrimary \in BOOLEAN /\ others \in SUBSET MediaIds
        BY DEF Live
      <4> QED BY <4>2, <4>3
    <3>2. \A n \in MediaIds : n \in others => [media[n] EXCEPT !.primary = FALSE].status = media[n].status
      BY <2>1 DEF Rows
    <3> QED BY <1>1, <3>1, <3>2
  <2>4. CASE CreateIntroRows(h) /\ media' # media
    <3>1. media' = [n \in MediaIds |->
            IF n = on[h] THEN Insert(on[h], FALSE)
            ELSE IF n \in Live(Owner[on[h]], "INTRO_VIDEO")
                 THEN [media[n] EXCEPT !.status = "DELETED", !.deleted = TRUE] ELSE media[n]]
      BY <2>4 DEF CreateIntroRows
    <3>2. \A n \in MediaIds : [media[n] EXCEPT !.status = "DELETED", !.deleted = TRUE].status = "DELETED"
      BY <2>1 DEF Rows
    <3> QED BY <1>1, <3>1, <3>2
  <2> QED BY <2>2, <2>3, <2>4 DEF LockLive, TransactionFails, UndoUpload
<1>6. GoesOn(h)
  <2>1. CASE step \in Before
    BY <1>3, <1>4, <2>1 DEF GoesOn
  <2>2. CASE step = "queue"
    <3>1. (\E p \in BOOLEAN : CreatePhotoRows(h, p)) \/ CreateIntroRows(h)
      BY <1>3, <2>2 DEF LockLive, TransactionFails, UndoUpload, Goto, MediaInv, Types
    <3>2. ASSUME \E p \in BOOLEAN : CreatePhotoRows(h, p) PROVE media'[on[h]].status # "NONE"
      <4>1. PICK p \in BOOLEAN : CreatePhotoRows(h, p)
        BY <3>2
      <4>2. ~Goto(h, "undo")
        BY <1>3, <2>2 DEF Goto, MediaInv, Types
      <4>3. \E primary : media'[on[h]] = Insert(on[h], primary)
        BY <1>1, <4>1, <4>2 DEF CreatePhotoRows
      <4> QED BY <4>3 DEF Insert
    <3>3. ASSUME CreateIntroRows(h) PROVE media'[on[h]].status # "NONE"
      <4>1. ~Goto(h, "undo")
        BY <1>3, <2>2 DEF Goto, MediaInv, Types
      <4>2. media'[on[h]] = Insert(on[h], FALSE)
        BY <1>1, <3>3, <4>1 DEF CreateIntroRows
      <4> QED BY <4>2 DEF Insert
    <3> QED BY <3>1, <3>2, <3>3 DEF GoesOn
  <2>3. CASE step = "done"
    <3>1. UndoUpload(h)
      BY <1>3, <2>3 DEF LockLive, CreatePhotoRows, CreateIntroRows, TransactionFails, Goto, MediaInv, Types
    <3>2. CASE on[h] \in abandoned'
      BY <3>2 DEF GoesOn
    <3>3. CASE on[h] \notin abandoned'
      <4>1. objects' = objects \ {<<on[h], "ORIGINAL">>} /\ on[h] \notin abandoned
        BY <1>4, <3>1, <3>3 DEF UndoUpload
      <4>2. \A t : <<on[h], t>> \in objects => t = "ORIGINAL"
        BY <1>1, <4>1 DEF FilesInv
      <4> QED BY <4>1, <4>2 DEF GoesOn
    <3> QED BY <3>2, <3>3
  <2> QED BY <2>1, <2>2, <2>3 DEF Before
<1>7. \A g \in Handlers : at[g] \in Before => GoesOn(g)
  <2>1. \A g \in Handlers \ {h} : at[g] \in Before => GoesOn(g)
    BY <1>3, <1>4 DEF GoesOn
  <2> QED BY <1>6, <2>1
<1> QED BY <1>4, <1>5, <1>7, FilesKept DEF NoNewOrphan

LEMMA EnqueueKeepsFilesInv ==
  ASSUME MediaInv, FilesInv, NEW h \in Handlers, Enqueue(h) \/ EnqueueFails(h)
  PROVE FilesInv'
<1> USE ActorsApart
<1>1. UNCHANGED <<media, objects, on, abandoned>> /\ at[h] = "queue" /\ on[h] \in MediaIds
  BY DEF Enqueue, EnqueueFails, mediaVars, MediaInv, Uploads, Uploading
<1>2. PICK step \in {"done", "fail"}, task \in {"idle", "queued"} :
        at' = [at EXCEPT ![h] = step, ![on[h]] = task]
  BY DEF Enqueue, EnqueueFails
<1>3. \A g \in Handlers \ {h} : at'[g] = at[g]
  BY <1>1, <1>2 DEF MediaInv, Types
<1>4. \A g \in Handlers : at[g] \in Before => GoesOn(g)
  BY <1>1, <1>3 DEF GoesOn, Before
<1> QED BY <1>1, <1>4, FilesKept DEF NoNewOrphan

\* Delete, MarkFailed and FailMediaAfterCommit choose; what they retire has a row.
LEMMA RetiringKeepsFilesInv ==
  ASSUME MediaInv, FilesInv, NEW a \in Actors,
         \/ a \in Handlers /\ \E m \in MediaIds : Delete(a, m)
         \/ FailMediaAfterCommit(a) \/ MarkFailed(a)
         \/ CommitRetire(a)
  PROVE FilesInv'
<1> USE ActorsApart
<1>1. /\ at[a] \in {"idle", "fail", "retire"} /\ objects' = objects /\ abandoned' = abandoned
      /\ \A h \in Handlers \ {a} : on'[h] = on[h]
  BY DEF Delete, FailMediaAfterCommit, MarkFailed, LockAndChoose, CommitRetire, MediaInv, Types
<1>2. PICK step \in {"retire", "refresh", "queued", "done"} : Goto(a, step)
  BY DEF Delete, FailMediaAfterCommit, MarkFailed, LockAndChoose, CommitRetire, Return
<1>3. \A b \in Actors \ {a} : at'[b] = at[b]
  BY <1>2 DEF Goto, MediaInv, Types
<1>4. \A n \in MediaIds : media'[n].status = "NONE" => media[n].status = "NONE"
  <2>1. CASE media' = media
    BY <2>1
  <2>2. CASE CommitRetire(a)
    <3>1. media' = [k \in MediaIds |->
            IF k = Medium(a) THEN Retired(a, Medium(a))
            ELSE IF k = heir[a] THEN [media[k] EXCEPT !.primary = TRUE] ELSE media[k]]
      BY <2>2 DEF CommitRetire
    <3>2. \A n \in MediaIds : media[n] \in Rows
      BY DEF MediaInv, Types, MediaTypeOK, Rows
    <3>3. \A n \in MediaIds : [media[n] EXCEPT !.primary = TRUE].status = media[n].status
      BY <3>2 DEF Rows
    <3>4. \A n \in MediaIds : Retired(a, n).status # "NONE"
      BY <3>2 DEF Rows, Retired
    <3> QED BY <3>1, <3>3, <3>4
  <2> QED BY <2>1, <2>2 DEF Delete, FailMediaAfterCommit, MarkFailed, LockAndChoose
<1> QED BY <1>1, <1>3, <1>4, AsideKeepsFilesInv DEF NoNewOrphan, Before

LEMMA SetPrimaryKeepsFilesInv ==
  ASSUME MediaInv, FilesInv, NEW h \in Handlers, NEW m \in MediaIds, SetPrimary(h, m)
  PROVE FilesInv'
<1> USE ActorsApart
<1>1. /\ at[h] = "idle" /\ UNCHANGED <<objects, abandoned>>
      /\ \A b \in Actors \ {h} : at'[b] = at[b]
      /\ \A g \in Handlers \ {h} : on'[g] = on[g]
  BY DEF SetPrimary, Goto, MediaInv, Types
<1>2. \A n \in MediaIds : media'[n].status = media[n].status
  <2>1. \A n \in MediaIds : media'[n] = media[n] \/ \E p \in BOOLEAN : media'[n] = [media[n] EXCEPT !.primary = p]
    BY DEF SetPrimary
  <2>2. \A n \in MediaIds : media[n] \in Rows
    BY DEF MediaInv, Types, MediaTypeOK, Rows
  <2>3. \A n \in MediaIds, p \in BOOLEAN : [media[n] EXCEPT !.primary = p].status = media[n].status
    BY <2>2 DEF Rows
  <2> QED BY <2>1, <2>3
<1> QED BY <1>1, <1>2, AsideKeepsFilesInv DEF NoNewOrphan, Before

LEMMA TaskKeepsFilesInv ==
  ASSUME MediaInv, FilesInv, NEW m \in MediaIds,
         Begin(m) \/ MakeAll(m) \/ MakeFails(m) \/ Publish(m) \/ PublishFails(m)
  PROVE FilesInv'
<1> USE ActorsApart
<1>1. at[m] \in {"queued", "make", "publish"} /\ UNCHANGED <<on, abandoned>>
  BY DEF Begin, MakeAll, MakeFails, Make, Publish, PublishFails
<1>2. PICK step \in {"done", "make", "publish", "fail", "refresh"} : Goto(m, step)
  BY DEF Begin, MakeAll, MakeFails, Publish, PublishFails
<1>3. \A b \in Actors \ {m} : at'[b] = at[b]
  BY <1>2 DEF Goto, MediaInv, Types
<1>4. media[m].status # "NONE"
  BY <1>1 DEF MediaInv, Tasks
<1>5. \A n \in MediaIds \ {m} : media'[n] = media[n] /\ \A t : <<n, t>> \in objects' => <<n, t>> \in objects
  BY DEF Begin, MakeAll, MakeFails, Make, Publish, PublishFails, MediaInv, Types, MediaTypeOK
<1>6. media'[m].status # "NONE"
  <2>1. media[m] \in Rows
    BY DEF MediaInv, Types, MediaTypeOK, Rows
  <2>2. CASE media' = media
    BY <1>4, <2>2
  <2>3. CASE media' = [media EXCEPT ![m].status = "PROCESSING"]
    BY <2>1, <2>3, StatusUpdate DEF MediaInv, Types, MediaTypeOK
  <2>4. CASE Publish(m)
    <3>1. PICK approval \in {"PENDING", "APPROVED"} :
            media' = [media EXCEPT ![m].status = "READY", ![m].approval = approval]
      BY <2>4 DEF Publish
    <3>2. media'[m] = [media[m] EXCEPT !.status = "READY", !.approval = approval]
      BY <3>1 DEF MediaInv, Types, MediaTypeOK
    <3> QED BY <2>1, <3>2, PublishUpdate
  <2> QED BY <2>2, <2>3, <2>4 DEF Begin, MakeAll, MakeFails, Make, PublishFails
<1>7. NoNewOrphan
  BY <1>5, <1>6 DEF NoNewOrphan
<1> QED BY <1>1, <1>3, <1>7, AsideKeepsFilesInv

LEMMA FailingRunsKeepFilesInv ==
  ASSUME MediaInv, FilesInv, NEW m \in MediaIds, BeginFails(m) \/ BeginLost(m)
  PROVE FilesInv'
<1>1. UNCHANGED <<media, objects, on>> /\ abandoned \subseteq abandoned'
  BY FailingRuns
<1>2. \A b \in Actors \ {m} : at'[b] = at[b]
  BY FailingRuns
<1> QED BY <1>1, <1>2, ActorsApart, AsideKeepsFilesInv DEF NoNewOrphan

\* Whoever stops, reads, writes the flag, or has nothing to do with media.
LEMMA ElsewhereKeepsFilesInv ==
  ASSUME MediaInv, FilesInv, NEW a \in Actors,
         \/ Ends(a)
         \/ a \in Handlers /\ (OwnerStep(a) \/ ViewerStep(a))
         \/ Refresh(a)
  PROVE FilesInv'
<1> USE ActorsApart
<1>1. CASE Ends(a)
  <2>1. UNCHANGED <<media, objects, on>> /\ abandoned \subseteq abandoned'
    BY <1>1 DEF Ends
  <2>2. \A b \in Actors \ {a} : at'[b] = at[b]
    BY <1>1 DEF Ends, Goto, MediaInv, Types
  <2>3. \A h \in Handlers : at[h] \in Before => GoesOn(h)
    BY <1>1, <2>1, <2>2 DEF Ends, Medium, GoesOn, Before
  <2> QED BY <2>1, <2>3, FilesKept DEF NoNewOrphan
<1>2. CASE (a \in Handlers /\ (OwnerStep(a) \/ ViewerStep(a))) \/ Refresh(a)
  <2>1. /\ at[a] \notin Before /\ (\E next \in Steps : Goto(a, next))
        /\ UNCHANGED <<mediaVars, abandoned>>
        /\ on' = on \/ \E m \in MediaIds : on' = [on EXCEPT ![a] = m]
    <3>1. CASE OwnerStep(a)
      BY <3>1 DEF OwnerStep, UpdateProfile, UpdateInterests, UpdatePrompts, UpdateLifestyle, Save, CompleteProfile,
           UpdatePreferences, UpdateLocation, DeleteAccount, Block, Unmatch, Owns, Asked, Steps, Before
    <3>2. CASE \E viewer, u \in Users, op \in {"feed", "detail", "impression"} : AskReadiness(a, viewer, op, u)
      BY <3>2 DEF AskReadiness, Asked, Views, Steps, Before
    <3>3. CASE \E viewer \in Users, m \in MediaIds : ServeVariant(a, viewer, m)
      BY <3>3 DEF ServeVariant, Asked, Views, Steps, Before
    <3>4. CASE Feed(a) \/ CreateImpressions(a) \/ ProfileRow(a) \/ MatchAuthorizes(a)
      BY <3>4 DEF Feed, CreateImpressions, ProfileRow, MatchAuthorizes, Show, Views, Steps, Before
    <3>5. CASE CheckTarget(a) \/ DiscoveryAuthorizes(a)
      BY <3>5 DEF CheckTarget, DiscoveryAuthorizes, Show, Views, Steps, Before
    <3>6. CASE Refresh(a)
      BY <3>6 DEF Refresh, RefreshRead, RefreshWrite, RefreshFails, Return, Steps, Before
    <3> QED BY <1>2, <3>1, <3>2, <3>3, <3>4, <3>5, <3>6 DEF ViewerStep
  <2>2. \A b \in Actors \ {a} : at'[b] = at[b]
    BY <2>1 DEF Goto, MediaInv, Types
  <2>3. \A h \in Handlers \ {a} : on'[h] = on[h]
    BY <2>1 DEF MediaInv, Types
  <2>4. UNCHANGED <<media, objects>> /\ abandoned \subseteq abandoned'
    BY <2>1 DEF mediaVars
  <2> QED BY <2>1, <2>2, <2>3, <2>4, AsideKeepsFilesInv DEF NoNewOrphan
<1> QED BY <1>1, <1>2

LEMMA StepFilesInv == MediaInv /\ FilesInv /\ [Next]_vars => FilesInv'
<1> SUFFICES ASSUME MediaInv, FilesInv, [Next]_vars PROVE FilesInv'
  OBVIOUS
<1> USE ActorsApart
<1>1. ASSUME NEW h \in Handlers, UploadGoesOn(h) PROVE FilesInv'
  BY <1>1, UploadKeepsFilesInv, EnqueueKeepsFilesInv, RetiringKeepsFilesInv DEF UploadGoesOn
<1>2. ASSUME NEW m \in MediaIds, Process(m) PROVE FilesInv'
  BY <1>2, TaskKeepsFilesInv, FailingRunsKeepFilesInv, RetiringKeepsFilesInv DEF Process
<1>3. CASE MediaStep
  BY <1>1, <1>2, <1>3, StoreUploadKeepsFilesInv, RetiringKeepsFilesInv, SetPrimaryKeepsFilesInv,
     FailingRunsKeepFilesInv,
     ElsewhereKeepsFilesInv, DieEnds, RefusedEnds DEF MediaStep
<1>4. CASE (\E h \in Handlers : OwnerStep(h) \/ ViewerStep(h)) \/ (\E a \in Actors : Refresh(a))
  BY <1>4, ElsewhereKeepsFilesInv
<1>5. CASE (\E u \in Users : Age(u)) \/ UNCHANGED vars
  <2>1. UNCHANGED <<media, objects, at, on, abandoned>>
    BY <1>5 DEF Age, mediaVars, callVars, vars
  <2> QED BY <2>1 DEF FilesInv
<1> QED BY <1>3, <1>4, <1>5 DEF Next

LEMMA InitFilesInv == Init => FilesInv
<1> SUFFICES ASSUME Init PROVE FilesInv
  OBVIOUS
<1>1. \A m \in MediaIds : media[m].status = "NONE" <=> m \notin Published
  BY DEF Init, MediaInit, NoRow
<1>2. \A m, t : <<m, t>> \in objects => m \in Published
  BY DEF Init, MediaInit
<1> QED BY <1>1, <1>2 DEF FilesInv

\* Each of the ways an upload is refused leads to the removal of its file, and
\* nobody but the upload writes the file of a medium without a row.
THEOREM OrphansAreAlwaysRemoved == Spec => []OrphansAreRemoved
<1>1. MediaInv /\ FilesInv => OrphansAreRemoved
  <2> SUFFICES ASSUME MediaInv, FilesInv, \A a \in Actors : at[a] \in {"idle", "done"},
                      NEW file \in objects, media[file[1]].status = "NONE", file[1] \notin abandoned
               PROVE FALSE
    BY DEF OrphansAreRemoved
  <2>1. file[1] \in MediaIds /\ file = <<file[1], file[2]>>
    BY DEF MediaInv, Types, MediaTypeOK
  <2>2. \E h \in Handlers : at[h] \in Before
    BY <2>1 DEF FilesInv
  <2> QED BY <2>2, ActorsApart DEF Before
<1>2. MediaInv /\ FilesInv /\ [Next]_vars => (MediaInv /\ FilesInv)'
  BY StepMediaInv, StepFilesInv
<1> QED BY <1>1, <1>2, InitMediaInv, InitFilesInv, PTL DEF Spec

-----------------------------------------------------------------------------
(* Types around the media. *)

FactTypes ==
  /\ filled \in [Users -> SUBSET Parts]
  /\ active \subseteq Users /\ show \subseteq Users /\ closed \subseteq Users /\ flag \subseteq Users
  /\ taste \in [Users -> Tastes]
  /\ location \in [Users -> {"NONE", "COARSE", "FRESH", "STALE"}]
  /\ seen \in [Actors -> BOOLEAN]
  /\ shown \in [Handlers -> SUBSET Users] /\ whom \in [Handlers -> Users] /\ torn \subseteq Users

LEMMA SubjectsAreUsers == MediaInv => \A a \in Actors : Subject(a) \in Users
BY OwnerAssumption DEF MediaInv, Types, Subject, Actors

LEMMA OwnerKeepsFactTypes ==
  ASSUME FactTypes, NEW h \in Handlers, OwnerStep(h)
  PROVE FactTypes'
<1> USE DEF Owns, viewVars
<1>1. ASSUME NEW u \in Users, NEW parts \in SUBSET Parts, NEW next, Save(h, u, parts, next) PROVE FactTypes'
  <2>1. filled' \in [Users -> SUBSET Parts]
    BY <1>1 DEF Save, FactTypes
  <2> QED BY <1>1, <2>1 DEF Save, FactTypes
<1>2. ASSUME NEW u \in Users, \/ \E fields \in Patches : UpdateProfile(h, u, fields)
                              \/ UpdateInterests(h, u) \/ UpdatePrompts(h, u) \/ UpdateLifestyle(h, u)
      PROVE FactTypes'
  <2>1. Patches \subseteq SUBSET Parts /\ {"interests"} \subseteq Parts /\ {"prompts"} \subseteq Parts
    BY DEF Patches, Parts
  <2> QED BY <1>1, <1>2, <2>1 DEF UpdateProfile, UpdateInterests, UpdatePrompts, UpdateLifestyle
<1>3. ASSUME NEW u \in Users, CompleteProfile(h, u) \/ DeleteAccount(h, u) PROVE FactTypes'
  BY <1>3 DEF CompleteProfile, DeleteAccount, FactTypes
<1>4. ASSUME NEW u \in Users, NEW visible \in BOOLEAN, NEW wants \in Tastes,
             UpdatePreferences(h, u, visible, wants) PROVE FactTypes'
  <2>1. taste' \in [Users -> Tastes] /\ show' \subseteq Users
    BY <1>4 DEF UpdatePreferences, FactTypes
  <2> QED BY <1>4, <2>1 DEF UpdatePreferences, FactTypes
<1>5. ASSUME NEW u \in Users, NEW source \in {"GPS", "IP"}, UpdateLocation(h, u, source) PROVE FactTypes'
  <2>1. location' \in [Users -> {"NONE", "COARSE", "FRESH", "STALE"}]
    BY <1>5 DEF UpdateLocation, FactTypes
  <2> QED BY <1>5, <2>1 DEF UpdateLocation, FactTypes
<1>6. ASSUME NEW u \in Users, NEW v \in Users, Block(h, u, v) \/ Unmatch(h, u, v) PROVE FactTypes'
  BY <1>6 DEF Block, Unmatch, FactTypes, factVars
<1> QED BY <1>2, <1>3, <1>4, <1>5, <1>6 DEF OwnerStep

LEMMA ViewerKeepsFactTypes ==
  ASSUME MediaInv, FactTypes, NEW h \in Handlers, ViewerStep(h)
  PROVE FactTypes'
<1> USE DEF Views, factVars
<1>1. ASSUME NEW users \in SUBSET Users, NEW next, Show(h, users, next) PROVE FactTypes'
  BY <1>1 DEF Show, FactTypes
<1>2. CASE \E viewer, u \in Users, op \in {"feed", "detail", "impression"} : AskReadiness(h, viewer, op, u)
  BY <1>2 DEF AskReadiness, FactTypes
<1>3. CASE \E viewer \in Users, m \in MediaIds : ServeVariant(h, viewer, m)
  BY <1>3, OwnerAssumption DEF ServeVariant, FactTypes
<1>4. {whom[h]} \subseteq Users /\ {u \in Users : Discoverable(who[h], u)} \subseteq Users
  BY DEF FactTypes
<1>5. CASE Feed(h) \/ CreateImpressions(h)
  BY <1>1, <1>4, <1>5 DEF Feed, CreateImpressions
<1>6. CASE CheckTarget(h)
  BY <1>1, <1>4, <1>6 DEF CheckTarget
<1>7. CASE ProfileRow(h) \/ DiscoveryAuthorizes(h) \/ MatchAuthorizes(h)
  BY <1>1, <1>4, <1>7 DEF ProfileRow, DiscoveryAuthorizes, MatchAuthorizes
<1> QED BY <1>2, <1>3, <1>5, <1>6, <1>7 DEF ViewerStep

LEMMA RefreshKeepsFactTypes ==
  ASSUME MediaInv, FactTypes, NEW a \in Actors, Refresh(a)
  PROVE FactTypes'
<1> USE DEF factVars, viewVars
<1>1. Subject(a) \in Users
  BY SubjectsAreUsers
<1>2. PICK e \in BOOLEAN : e = Eligible(Subject(a))
  BY DEF Eligible
<1>3. CASE RefreshRead(a)
  <2>1. seen' = [seen EXCEPT ![a] = e]
    BY <1>2, <1>3 DEF RefreshRead
  <2>2. seen' \in [Actors -> BOOLEAN]
    BY <2>1 DEF FactTypes
  <2> QED BY <1>3, <2>2 DEF RefreshRead, FactTypes
<1>4. CASE RefreshWrite(a) \/ RefreshFails(a)
  <2>1. flag' \subseteq Users /\ torn' \subseteq Users
    BY <1>1, <1>4 DEF RefreshWrite, RefreshFails, FactTypes
  <2> QED BY <1>4, <2>1 DEF RefreshWrite, RefreshFails, FactTypes
<1> QED BY <1>3, <1>4 DEF Refresh

LEMMA StepFactTypes == MediaInv /\ FactTypes /\ [Next]_vars => FactTypes'
<1> SUFFICES ASSUME MediaInv, FactTypes, [Next]_vars PROVE FactTypes'
  OBVIOUS
<1>1. CASE MediaStep
  <2>1. torn' = torn \/ \E a \in Actors : torn' = torn \union {Subject(a)}
    BY <1>1, ActorsApart DEF MediaStep, Subject
  <2>2. torn' \subseteq Users
    BY <2>1, SubjectsAreUsers DEF FactTypes
  <2> QED BY <1>1, <2>2 DEF MediaStep, AroundMedia, factVars, viewVars, FactTypes
<1>2. CASE \E h \in Handlers : OwnerStep(h) \/ ViewerStep(h)
  BY <1>2, OwnerKeepsFactTypes, ViewerKeepsFactTypes
<1>3. CASE \E a \in Actors : Refresh(a)
  BY <1>3, RefreshKeepsFactTypes
<1>4. CASE \E u \in Users : Age(u)
  BY <1>4 DEF Age, FactTypes, viewVars
<1>5. CASE UNCHANGED vars
  BY <1>5 DEF vars, FactTypes
<1> QED BY <1>1, <1>2, <1>3, <1>4, <1>5 DEF Next

LEMMA InitFactTypes == Init => FactTypes
<1> SUFFICES ASSUME Init PROVE FactTypes
  OBVIOUS
<1>1. SetUp \subseteq Users
  BY OwnerAssumption, PublishedAssumption DEF SetUp
<1>2. whom \in [Handlers -> Users]
  BY OwnerAssumption DEF Init, MediaInit
<1>3. taste \in [Users -> Tastes] /\ seen \in [Actors -> BOOLEAN] /\ shown \in [Handlers -> SUBSET Users]
  BY TastesAssumption DEF Init
<1>4. /\ filled \in [Users -> SUBSET Parts]
      /\ location \in [Users -> {"NONE", "COARSE", "FRESH", "STALE"}]
  BY DEF Init
<1> QED BY <1>1, <1>2, <1>3, <1>4 DEF Init, FactTypes

LEMMA AlwaysTyped == Spec => [](MediaInv /\ FactTypes)
<1>1. Init => MediaInv /\ FactTypes
  BY InitMediaInv, InitFactTypes
<1>2. (MediaInv /\ FactTypes) /\ [Next]_vars => (MediaInv /\ FactTypes)'
  BY StepMediaInv, StepFactTypes
<1> QED BY <1>1, <1>2, PTL DEF Spec

\* Type correctness of the media and of who is shown.
THEOREM DiscoverabilityTypes == Spec => []TypeOK
<1>1. MediaInv /\ FactTypes => TypeOK
  BY DEF MediaInv, Types, FactTypes, TypeOK
<1> QED BY <1>1, AlwaysTyped, PTL

-----------------------------------------------------------------------------
(* The flag. *)

\* An actor on its way to a refresh for its subject: a task that has not begun is,
\* while nobody else has written to the medium its upload inserted.
Due(a) ==
  \/ at[a] \in {"refresh", "write"}
  \/ /\ a \in MediaIds /\ IsPhoto(a)
     /\ \/ at[a] \in {"make", "publish", "fail", "retire"}
        \/ at[a] = "queued" /\ media[a].status = "UPLOADED" /\ ~media[a].deleted
  \/ /\ a \in Handlers /\ on[a] \in MediaIds /\ IsPhoto(on[a])
     /\ \/ at[a] \in {"fail", "retire"}
        \/ at[a] = "queue" /\ media[on[a]].status = "UPLOADED" /\ ~media[on[a]].deleted

\* What the flag says is right, or known to be out of date, or a refresh is due.
Told(u) ==
  \/ u \in torn
  \/ u \in flag <=> Eligible(u)
  \/ \E a \in Actors : Due(a) /\ Subject(a) = u

FlagInv == \A u \in Users : Told(u)

\* For the users of U the step sees to it, for the others nothing changes.
LEMMA StepKeepsFlagInv ==
  ASSUME FlagInv, NEW U \in SUBSET Users,
         \A u \in U : Told(u)',
         \A u \in Users \ U :
           /\ Eligible(u)' <=> Eligible(u)
           /\ u \in flag' <=> u \in flag
           /\ u \in torn => u \in torn'
           /\ \A a \in Actors : Due(a) /\ Subject(a) = u => \E b \in Actors : Due(b)' /\ Subject(b)' = u
  PROVE FlagInv'
<1> SUFFICES ASSUME NEW u \in Users PROVE Told(u)'
  BY DEF FlagInv
<1>1. CASE u \in U
  BY <1>1
<1>2. CASE u \notin U
  <2>1. Told(u)
    BY DEF FlagInv
  <2> QED BY <1>2, <2>1 DEF Told
<1> QED BY <1>1, <1>2

SameFacts(u) ==
  /\ u \in closed' <=> u \in closed
  /\ u \in active' <=> u \in active
  /\ u \in show' <=> u \in show
  /\ location'[u] = location[u]
  /\ u \in flag' <=> u \in flag
  /\ u \in torn => u \in torn'

\* A step of the actors of A that concerns facts and photos of the users of U.
LEMMA ActorsKeepFlagInv ==
  ASSUME MediaInv, FlagInv, NEW A \in SUBSET Actors, NEW U \in SUBSET Users,
         \A u \in Users \ U : SameFacts(u),
         \A u \in U : Told(u)',
         \A b \in Actors \ A : at'[b] = at[b],
         \A g \in Handlers \ A : on'[g] = on[g] /\ who'[g] = who[g],
         \A n \in MediaIds : IsPhoto(n) /\ Owner[n] \notin U => media'[n] = media[n],
         \A a \in A : Due(a) /\ Subject(a) \notin U =>
           \E b \in Actors : Due(b)' /\ Subject(b)' = Subject(a)
  PROVE FlagInv'
<1> USE ActorsApart
<1>1. ASSUME NEW u \in Users \ U PROVE Eligible(u)' <=> Eligible(u)
  <2>1. PrimaryUsable(u)' <=> PrimaryUsable(u)
    BY DEF PrimaryUsable, Usable, IsPhoto
  <2> QED BY <2>1 DEF SameFacts, Eligible
<1>2. ASSUME NEW u \in Users \ U, NEW a \in Actors, Due(a), Subject(a) = u
      PROVE \E b \in Actors : Due(b)' /\ Subject(b)' = u
  <2>1. CASE a \in A
    BY <1>2, <2>1
  <2>2. CASE a \notin A /\ a \in MediaIds
    <3>1. Subject(a)' = u /\ at'[a] = at[a] /\ (IsPhoto(a) => media'[a] = media[a])
      BY <1>2, <2>2 DEF Subject
    <3> QED BY <1>2, <2>2, <3>1 DEF Due
  <2>3. CASE a \notin A /\ a \in Handlers
    <3>1. Subject(a)' = u /\ at'[a] = at[a] /\ on'[a] = on[a] /\ who[a] = u
      BY <1>2, <2>3 DEF Subject
    <3>2. at[a] = "queue" => Owner[on[a]] = u
      BY <2>3, <3>1 DEF MediaInv, Uploads, Uploading
    <3>3. at[a] = "queue" /\ on[a] \in MediaIds /\ IsPhoto(on[a]) => media'[on[a]] = media[on[a]]
      BY <3>2
    <3> QED BY <1>2, <2>3, <3>1, <3>3 DEF Due
  <2> QED BY <2>1, <2>2, <2>3 DEF Actors
<1>3. \A u \in Users \ U :
           /\ Eligible(u)' <=> Eligible(u)
           /\ u \in flag' <=> u \in flag
           /\ u \in torn => u \in torn'
           /\ \A a \in Actors : Due(a) /\ Subject(a) = u => \E b \in Actors : Due(b)' /\ Subject(b)' = u
  BY <1>1, <1>2 DEF SameFacts
<1> QED BY <1>3, StepKeepsFlagInv

\* What the storage, the transactions and the tasks do changes no other fact.
LEMMA MediaKeepsFacts ==
  ASSUME AroundMedia, torn \subseteq torn'
  PROVE \A u \in Users : SameFacts(u)
BY DEF AroundMedia, factVars, SameFacts

\* Nobody's photo changes, and whoever was on the way to a refresh still is.
LEMMA QuietKeepsFlagInv ==
  ASSUME MediaInv, FlagInv, NEW a \in Actors, \A u \in Users : SameFacts(u),
         \A b \in Actors \ {a} : at'[b] = at[b],
         \A g \in Handlers \ {a} : on'[g] = on[g] /\ who'[g] = who[g],
         \A n \in MediaIds : IsPhoto(n) => media'[n] = media[n],
         Due(a) => Due(a)' /\ Subject(a)' = Subject(a)
  PROVE FlagInv'
<1>1. /\ {a} \in SUBSET Actors /\ {} \in SUBSET Users
      /\ \A u \in Users \ {} : SameFacts(u)
      /\ \A u \in {} : Told(u)'
      /\ \A n \in MediaIds : IsPhoto(n) /\ Owner[n] \notin {} => media'[n] = media[n]
      /\ \A b \in {a} : Due(b) /\ Subject(b) \notin {} => \E c \in Actors : Due(c)' /\ Subject(c)' = Subject(b)
  OBVIOUS
<1> QED BY <1>1, ActorsKeepFlagInv

\* The facts or the photos of u change, and u is told by what the step does.
LEMMA ToldKeepsFlagInv ==
  ASSUME MediaInv, FlagInv, NEW a \in Actors, NEW u \in Users,
         \A v \in Users \ {u} : SameFacts(v),
         \A b \in Actors \ {a} : at'[b] = at[b],
         \A g \in Handlers \ {a} : on'[g] = on[g] /\ who'[g] = who[g],
         \A n \in MediaIds : IsPhoto(n) /\ Owner[n] # u => media'[n] = media[n],
         Due(a) => Subject(a) = u,
         Told(u)'
  PROVE FlagInv'
<1>1. /\ {a} \in SUBSET Actors /\ {u} \in SUBSET Users
      /\ \A v \in {u} : Told(v)'
      /\ \A n \in MediaIds : IsPhoto(n) /\ Owner[n] \notin {u} => media'[n] = media[n]
      /\ \A b \in {a} : Due(b) /\ Subject(b) \notin {u} => \E c \in Actors : Due(c)' /\ Subject(c)' = Subject(b)
  OBVIOUS
<1> QED BY <1>1, ActorsKeepFlagInv

\* The handler is not on the way to a refresh until it has changed a row.
LEMMA UploadKeepsFlagInv ==
  ASSUME MediaInv, FlagInv, NEW h \in Handlers, AroundMedia, torn' = torn,
         \/ \E m \in MediaIds : StoreUpload(h, m) \/ Delete(h, m)
         \/ LockLive(h) \/ CreateIntroRows(h) \/ TransactionFails(h) \/ UndoUpload(h)
  PROVE FlagInv'
<1> USE ActorsApart
<1>1. at[h] \in {"idle", "lock", "insert", "undo"} /\ ~Due(h)
  BY DEF StoreUpload, Delete, LockLive, CreateIntroRows, TransactionFails, UndoUpload, Due
<1>2. \A b \in Actors \ {h} : at'[b] = at[b]
  BY DEF StoreUpload, Delete, LockAndChoose, LockLive, CreateIntroRows, TransactionFails, UndoUpload, Goto, MediaInv, Types
<1>3. \A g \in Handlers \ {h} : on'[g] = on[g] /\ who'[g] = who[g]
  BY DEF StoreUpload, Delete, LockLive, CreateIntroRows, TransactionFails, UndoUpload, MediaInv, Types
<1>4. \A n \in MediaIds : IsPhoto(n) => media'[n] = media[n]
  <2>1. CASE CreateIntroRows(h)
    BY <2>1 DEF CreateIntroRows, Live, IsPhoto
  <2> QED BY <2>1 DEF StoreUpload, Delete, LockAndChoose, LockLive, TransactionFails, UndoUpload
<1> QED BY <1>1, <1>2, <1>3, <1>4, MediaKeepsFacts, QuietKeepsFlagInv

LEMMA CreatePhotoRowsKeepsFlagInv ==
  ASSUME MediaInv, FlagInv, NEW h \in Handlers, AroundMedia, torn' = torn,
         NEW p \in BOOLEAN, CreatePhotoRows(h, p)
  PROVE FlagInv'
<1> USE ActorsApart
<1>1. PICK m \in MediaIds : m = on[h] /\ at[h] = "insert" /\ IsPhoto(m) /\ who[h] = Owner[m]
  BY DEF CreatePhotoRows, MediaInv, Uploads, Uploading, Before
<1>2. ~Due(h) /\ UNCHANGED <<on, who>>
  BY <1>1 DEF CreatePhotoRows, Due
<1>3. PICK step \in {"queue", "undo"} :
        /\ at' = [at EXCEPT ![h] = step]
        /\ step = "undo" => media' = media
        /\ step = "queue" => \E primary \in BOOLEAN :
             media' = [n \in MediaIds |->
                  IF n = m THEN Insert(m, primary)
                  ELSE IF n \in Live(Owner[m], "PROFILE_PHOTO") /\ primary
                  THEN [media[n] EXCEPT !.primary = FALSE] ELSE media[n]]
  BY <1>1 DEF CreatePhotoRows, Goto
<1>4. at'[h] = step /\ \A b \in Actors \ {h} : at'[b] = at[b]
  BY <1>3 DEF MediaInv, Types
<1>5. CASE step = "undo"
  BY <1>2, <1>3, <1>4, <1>5, MediaKeepsFacts, QuietKeepsFlagInv
<1>6. CASE step = "queue"
  <2>1. /\ ~media'[m].deleted /\ media'[m].status = "UPLOADED"
        /\ \A n \in MediaIds : IsPhoto(n) /\ Owner[n] # Owner[m] => media'[n] = media[n]
    BY <1>3, <1>6 DEF Insert, Live
  <2>2. Due(h)' /\ Subject(h)' = Owner[m]
    BY <1>1, <1>2, <1>4, <1>6, <2>1 DEF Due, Subject
  <2>3. Told(Owner[m])' /\ Owner[m] \in Users
    BY <2>2, OwnerAssumption DEF Told
  <2> QED BY <1>2, <1>4, <2>1, <2>3, MediaKeepsFacts, ToldKeepsFlagInv
<1> QED BY <1>5, <1>6

LEMMA EnqueueKeepsFlagInv ==
  ASSUME MediaInv, FlagInv, NEW h \in Handlers, AroundMedia, torn' = torn, Enqueue(h) \/ EnqueueFails(h)
  PROVE FlagInv'
<1> USE ActorsApart
<1>1. PICK m \in MediaIds : at[h] = "queue" /\ m = on[h] /\ at[m] = "idle" /\ who[h] = Owner[m]
  BY DEF Enqueue, EnqueueFails, MediaInv, Uploads, Uploading, Before
<1>2. PICK step \in {"done", "fail"}, task \in {"idle", "queued"} :
        /\ at' = [at EXCEPT ![h] = step, ![m] = task]
        /\ step = "done" => task = "queued"
  BY <1>1 DEF Enqueue, EnqueueFails
<1>3. at'[h] = step /\ at'[m] = task /\ \A b \in Actors \ {h, m} : at'[b] = at[b]
  BY <1>2 DEF MediaInv, Types
<1>4. UNCHANGED <<media, on, who>>
  BY DEF Enqueue, EnqueueFails, mediaVars
<1>5. ~Due(m)
  BY <1>1 DEF Due
<1>6. Due(h) => \E b \in Actors : Due(b)' /\ Subject(b)' = Subject(h)
  <2>1. CASE step = "fail"
    BY <1>1, <1>3, <1>4, <2>1 DEF Due, Subject
  <2>2. CASE step = "done"
    <3>1. Due(h) => Due(m)' /\ Subject(m)' = Subject(h)
      BY <1>1, <1>2, <1>3, <1>4, <2>2 DEF Due, Subject
    <3> QED BY <3>1
  <2> QED BY <2>1, <2>2
<1>7. /\ {h, m} \in SUBSET Actors /\ {} \in SUBSET Users
      /\ \A u \in Users \ {} : SameFacts(u)
      /\ \A u \in {} : Told(u)'
      /\ \A n \in MediaIds : IsPhoto(n) /\ Owner[n] \notin {} => media'[n] = media[n]
      /\ \A g \in Handlers \ {h, m} : on'[g] = on[g] /\ who'[g] = who[g]
      /\ \A a \in {h, m} : Due(a) /\ Subject(a) \notin {} => \E c \in Actors : Due(c)' /\ Subject(c)' = Subject(a)
  BY <1>4, <1>5, <1>6, MediaKeepsFacts
<1> QED BY <1>3, <1>7, ActorsKeepFlagInv

\* The way to the refresh goes on.
LEMMA GoingOnKeepsFlagInv ==
  ASSUME MediaInv, FlagInv, AroundMedia, torn' = torn,
         \/ \E h \in Handlers : FailMediaAfterCommit(h)
         \/ \E m \in MediaIds :
             MarkFailed(m) \/ BeginFails(m) \/ MakeAll(m) \/ MakeFails(m) \/ PublishFails(m)
  PROVE FlagInv'
<1> USE ActorsApart
<1>1. PICK a \in Actors :
        /\ \/ a \in Handlers /\ FailMediaAfterCommit(a)
           \/ a \in MediaIds /\ (MarkFailed(a) \/ BeginFails(a) \/ MakeAll(a) \/ MakeFails(a) \/ PublishFails(a))
  OBVIOUS
<1>2. UNCHANGED <<media, on, who>>
  BY <1>1 DEF FailMediaAfterCommit, MarkFailed, LockAndChoose, BeginFails, MakeAll, MakeFails, Make, PublishFails
<1>3. PICK step \in {"publish", "fail", "retire"} :
        at' = [at EXCEPT ![a] = step] /\ (a \in Handlers => step = "retire" /\ at[a] = "fail")
  BY <1>1 DEF FailMediaAfterCommit, MarkFailed, LockAndChoose, BeginFails, MakeAll, MakeFails, Make, PublishFails, Goto
<1>4. at[a] \in {"queued", "make", "publish", "fail"}
  BY <1>1 DEF FailMediaAfterCommit, MarkFailed, BeginFails, MakeAll, MakeFails, Make, PublishFails
<1>5. at'[a] = step /\ \A b \in Actors \ {a} : at'[b] = at[b]
  BY <1>3 DEF MediaInv, Types
<1>6. Due(a) => Due(a)' /\ Subject(a)' = Subject(a)
  BY <1>2, <1>3, <1>4, <1>5 DEF Due, Subject
<1> QED BY <1>2, <1>5, <1>6, MediaKeepsFacts, QuietKeepsFlagInv

\* Who comes to the refresh of u tells him.
LEMMA RefreshTells ==
  ASSUME NEW a \in Actors, NEW u \in Users, at'[a] = "refresh", Subject(a)' = u
  PROVE Told(u)'
BY DEF Told, Due

LEMMA CommitRetireKeepsFlagInv ==
  ASSUME MediaInv, FlagInv, NEW a \in Actors, AroundMedia, torn' = torn, CommitRetire(a)
  PROVE FlagInv'
<1> USE ActorsApart
<1>1. PICK m \in MediaIds : m = Medium(a) /\ at[a] = "retire" /\ Subject(a) = Owner[m]
  <2>1. CASE a \in MediaIds
    BY <2>1 DEF CommitRetire, Medium, Subject
  <2>2. CASE a \in Handlers
    <3>1. Uploads(a) /\ at[a] = "retire"
      BY <2>2 DEF CommitRetire, MediaInv
    <3>2. on[a] \in MediaIds /\ who[a] = Owner[on[a]]
      BY <3>1 DEF Uploads
    <3> QED BY <2>2, <3>1, <3>2 DEF Medium, Subject
  <2> QED BY <2>1, <2>2 DEF Actors
<1>2. \A n \in MediaIds \ {m} : n # heir[a] => media'[n] = media[n]
  <2>1. m = Medium(a)
    BY <1>1
  <2> QED BY <2>1, Retiring
<1>3. UNCHANGED <<on, who>> /\ Subject(a)' = Subject(a)
  BY DEF CommitRetire, Subject
<1>4. IF IsPhoto(m) THEN Goto(a, "refresh") ELSE Return(a)
  BY <1>1 DEF CommitRetire, Medium
<1>5. \A b \in Actors \ {a} : at'[b] = at[b]
  BY <1>4, Returning DEF Goto, MediaInv, Types
<1>6. CASE IsPhoto(m)
  <2>1. at'[a] = "refresh"
    BY <1>4, <1>6 DEF Goto, MediaInv, Types
  <2>2. \A n \in MediaIds : IsPhoto(n) /\ Owner[n] # Owner[m] => media'[n] = media[n]
    BY <1>1, <1>2 DEF MediaInv, HeirsBelong, Types, MediaTypeOK
  <2>3. Owner[m] \in Users /\ Told(Owner[m])'
    BY <1>1, <1>3, <2>1, OwnerAssumption, RefreshTells
  <2> QED BY <1>1, <1>3, <1>5, <2>2, <2>3, MediaKeepsFacts, ToldKeepsFlagInv
<1>7. CASE ~IsPhoto(m)
  <2>1. heir[a] = NoMedium
    BY <1>1, <1>7 DEF MediaInv, HeirsBelong
  <2>2. \A n \in MediaIds : IsPhoto(n) => media'[n] = media[n]
    BY <1>2, <1>7, <2>1
  <2>3. ~Due(a)
    BY <1>1, <1>7 DEF Due, Medium
  <2> QED BY <1>3, <1>5, <2>2, <2>3, MediaKeepsFacts, QuietKeepsFlagInv
<1> QED BY <1>6, <1>7

LEMMA SetPrimaryKeepsFlagInv ==
  ASSUME MediaInv, FlagInv, NEW h \in Handlers, NEW m \in MediaIds, AroundMedia, torn' = torn, SetPrimary(h, m)
  PROVE FlagInv'
<1> USE ActorsApart
<1>1. /\ at[h] = "idle" /\ at'[h] = "refresh" /\ \A b \in Actors \ {h} : at'[b] = at[b]
      /\ who'[h] = Owner[m] /\ \A g \in Handlers \ {h} : on'[g] = on[g] /\ who'[g] = who[g]
  BY DEF SetPrimary, Goto, MediaInv, Types
<1>2. \A n \in MediaIds : IsPhoto(n) /\ Owner[n] # Owner[m] => media'[n] = media[n]
  BY DEF SetPrimary, Live
<1>3. ~Due(h) /\ Subject(h)' = Owner[m]
  BY <1>1 DEF Due, Subject
<1>4. Owner[m] \in Users /\ Told(Owner[m])'
  BY <1>1, <1>3, OwnerAssumption, RefreshTells
<1> QED BY <1>1, <1>2, <1>3, <1>4, MediaKeepsFacts, ToldKeepsFlagInv

\* A photo that is taken up again, or published, concerns its owner.
LEMMA TaskKeepsFlagInv ==
  ASSUME MediaInv, FlagInv, NEW m \in MediaIds, AroundMedia, torn' = torn, Begin(m) \/ Publish(m)
  PROVE FlagInv'
<1> USE ActorsApart
<1>1. PICK step \in {"done", "make", "refresh"} : at' = [at EXCEPT ![m] = step]
  BY DEF Begin, Publish, Goto
<1>2. at'[m] = step /\ \A b \in Actors \ {m} : at'[b] = at[b]
  BY <1>1 DEF MediaInv, Types
<1>3. /\ UNCHANGED <<on, who>> /\ Subject(m) = Owner[m] /\ Subject(m)' = Owner[m] /\ Owner[m] \in Users
      /\ at[m] \in {"queued", "publish"}
  BY OwnerAssumption DEF Begin, Publish, Subject
<1>4. \A n \in MediaIds \ {m} : media'[n] = media[n]
  BY DEF Begin, Publish, MediaInv, Types, MediaTypeOK
<1>5. CASE IsPhoto(m) /\ step # "done"
  <2>1. Due(m)'
    BY <1>2, <1>5 DEF Due
  <2>2. Told(Owner[m])'
    BY <1>3, <2>1 DEF Told
  <2> QED BY <1>2, <1>3, <1>4, <2>2, MediaKeepsFacts, ToldKeepsFlagInv
<1>6. CASE IsPhoto(m) /\ step = "done"
  <2>1. media' = media /\ media[m].deleted /\ at[m] = "queued"
    <3>1. at'[m] = "done"
      BY <1>2, <1>6
    <3>2. ~Publish(m)
      BY <1>6, <3>1 DEF Publish, Goto, MediaInv, Types
    <3>3. Begin(m) /\ Tasks(m)
      BY <3>2 DEF MediaInv
    <3> QED BY <3>1, <3>3 DEF Begin, Goto, Tasks, MediaInv, Types
  <2>2. ~Due(m)
    BY <2>1 DEF Due
  <2> QED BY <1>2, <1>3, <2>1, <2>2, MediaKeepsFacts, QuietKeepsFlagInv
<1>7. CASE ~IsPhoto(m)
  <2>1. ~Due(m)
    BY <1>3, <1>7 DEF Due
  <2>2. \A n \in MediaIds : IsPhoto(n) => media'[n] = media[n]
    BY <1>4, <1>7
  <2> QED BY <1>2, <1>3, <2>1, <2>2, MediaKeepsFacts, QuietKeepsFlagInv
<1> QED BY <1>5, <1>6, <1>7

\* A run that is lost is run again, or its photo is known to be out of date, unless
\* somebody else has written to it.
LEMMA BeginLostKeepsFlagInv ==
  ASSUME MediaInv, FlagInv, NEW m \in MediaIds, AroundMedia, BeginLost(m),
         torn' = IF at'[m] = "done" /\ IsPhoto(m) /\ media[m].status = "UPLOADED"
                 THEN torn \union {Owner[m]} ELSE torn
  PROVE FlagInv'
<1> USE ActorsApart
<1>1. /\ at[m] = "queued" /\ UNCHANGED <<media, on, who>>
      /\ \A b \in Actors \ {m} : at'[b] = at[b]
      /\ at'[m] \in {"queued", "done"}
  <2>1. at'[m] \in {"queued", "done"}
    BY DEF BeginLost, Goto, MediaInv, Types
  <2> QED BY <2>1, FailingRuns
<1>2. Subject(m) = Owner[m] /\ Subject(m)' = Owner[m] /\ Owner[m] \in Users /\ torn \subseteq torn'
  BY OwnerAssumption DEF Subject
<1>3. CASE at'[m] = "done" /\ IsPhoto(m) /\ media[m].status = "UPLOADED"
  <2>1. Told(Owner[m])'
    BY <1>3 DEF Told
  <2> QED BY <1>1, <1>2, <2>1, MediaKeepsFacts, ToldKeepsFlagInv
<1>4. CASE ~(at'[m] = "done" /\ IsPhoto(m) /\ media[m].status = "UPLOADED")
  <2>1. Due(m) => Due(m)'
    BY <1>1, <1>4 DEF Due
  <2> QED BY <1>1, <1>2, <2>1, MediaKeepsFacts, QuietKeepsFlagInv
<1> QED BY <1>3, <1>4

LEMMA EndsKeepsFlagInv ==
  ASSUME MediaInv, FlagInv, NEW a \in Actors, AroundMedia, Ends(a), torn' = torn \union {Subject(a)}
  PROVE FlagInv'
<1>1. /\ \A b \in Actors \ {a} : at'[b] = at[b]
      /\ UNCHANGED <<media, on, who>>
  BY DEF Ends, Goto, MediaInv, Types
<1>2. PICK u \in Users : u = Subject(a) /\ Told(u)'
  <2>1. PICK u \in Users : u = Subject(a)
    BY SubjectsAreUsers
  <2>2. u \in torn'
    BY <2>1
  <2>3. Told(u)'
    BY <2>2 DEF Told
  <2> QED BY <2>1, <2>3
<1> QED BY <1>1, <1>2, MediaKeepsFacts, ToldKeepsFlagInv

LEMMA OwnerKeepsFlagInv ==
  ASSUME MediaInv, FactTypes, FlagInv, NEW h \in Handlers, OwnerStep(h)
  PROVE FlagInv'
<1> USE ActorsApart
<1>1. PICK u \in Users :
        \/ \E fields \in Patches : UpdateProfile(h, u, fields)
        \/ UpdateInterests(h, u) \/ UpdatePrompts(h, u) \/ UpdateLifestyle(h, u)
        \/ CompleteProfile(h, u)
        \/ \E visible \in BOOLEAN, wants \in Tastes : UpdatePreferences(h, u, visible, wants)
        \/ \E source \in {"GPS", "IP"} : UpdateLocation(h, u, source)
        \/ DeleteAccount(h, u)
        \/ \E v \in Users : Block(h, u, v) \/ Unmatch(h, u, v)
  BY DEF OwnerStep
<1>2. PICK next \in {"refresh", "done"} :
        /\ at[h] = "idle" /\ Goto(h, next) /\ UNCHANGED <<media, on, torn>>
        /\ who' = [who EXCEPT ![h] = u] \/ (who' = who /\ next = "done")
  BY <1>1 DEF UpdateProfile, UpdateInterests, UpdatePrompts, UpdateLifestyle, Save, CompleteProfile,
         UpdatePreferences, UpdateLocation, DeleteAccount, Block, Unmatch, Asked, Owns, mediaVars
<1>3. /\ at'[h] = next /\ \A b \in Actors \ {h} : at'[b] = at[b]
      /\ \A g \in Handlers \ {h} : on'[g] = on[g] /\ who'[g] = who[g]
      /\ who'[h] = u \/ next = "done"
      /\ ~Due(h)
  BY <1>2 DEF Goto, MediaInv, Types, Due
<1>4. CASE \/ \E fields \in Patches : UpdateProfile(h, u, fields)
           \/ UpdateInterests(h, u) \/ UpdatePrompts(h, u) \/ UpdateLifestyle(h, u)
           \/ \E v \in Users : Block(h, u, v) \/ Unmatch(h, u, v)
  <2>1. UNCHANGED <<active, show, location, closed, flag>>
    BY <1>4 DEF UpdateProfile, UpdateInterests, UpdatePrompts, UpdateLifestyle, Save, Block, Unmatch, factVars
  <2>2. \A v \in Users : SameFacts(v)
    BY <1>2, <2>1 DEF SameFacts
  <2> QED BY <1>2, <1>3, <2>2, QuietKeepsFlagInv
<1>5. CASE \/ CompleteProfile(h, u)
           \/ \E visible \in BOOLEAN, wants \in Tastes : UpdatePreferences(h, u, visible, wants)
           \/ \E source \in {"GPS", "IP"} : UpdateLocation(h, u, source)
  <2>1. \A v \in Users \ {u} : SameFacts(v)
    BY <1>2, <1>5 DEF CompleteProfile, UpdatePreferences, UpdateLocation, SameFacts, FactTypes
  <2>2. at'[h] = "refresh" /\ who'[h] = u
    BY <1>5 DEF CompleteProfile, UpdatePreferences, UpdateLocation, Owns, Goto, MediaInv, Types
  <2>3. Told(u)'
    BY <2>2, RefreshTells DEF Subject
  <2> QED BY <1>2, <1>3, <2>1, <2>3, ToldKeepsFlagInv
<1>6. CASE DeleteAccount(h, u)
  <2>1. /\ UNCHANGED <<active, show, location>> /\ u \in closed' /\ u \notin flag'
        /\ \A v \in Users \ {u} : (v \in closed' <=> v \in closed) /\ (v \in flag' <=> v \in flag)
    BY <1>6 DEF DeleteAccount
  <2>2. \A v \in Users \ {u} : SameFacts(v)
    BY <1>2, <2>1 DEF SameFacts
  <2>3. Told(u)'
    BY <2>1 DEF Told, Eligible
  <2> QED BY <1>2, <1>3, <2>2, <2>3, ToldKeepsFlagInv
<1> QED BY <1>1, <1>4, <1>5, <1>6

LEMMA ViewerKeepsFlagInv ==
  ASSUME MediaInv, FlagInv, NEW h \in Handlers, ViewerStep(h)
  PROVE FlagInv'
<1> USE ActorsApart
<1>1. /\ at[h] \in {"idle", "feed", "impression", "detail", "photo", "row", "authorize", "match"}
      /\ Views(h)
      /\ \E next : Goto(h, next)
  <2>1. CASE \E viewer, u \in Users, op \in {"feed", "detail", "impression"} : AskReadiness(h, viewer, op, u)
    BY <2>1 DEF AskReadiness, Asked
  <2>2. CASE \E viewer \in Users, m \in MediaIds : ServeVariant(h, viewer, m)
    BY <2>2 DEF ServeVariant, Asked
  <2>3. CASE Feed(h) \/ CreateImpressions(h) \/ ProfileRow(h) \/ MatchAuthorizes(h)
    BY <2>3 DEF Feed, CreateImpressions, ProfileRow, MatchAuthorizes, Show
  <2>4. CASE CheckTarget(h) \/ DiscoveryAuthorizes(h)
    BY <2>4 DEF CheckTarget, DiscoveryAuthorizes, Show
  <2> QED BY <2>1, <2>2, <2>3, <2>4 DEF ViewerStep
<1>2. \A g \in Handlers \ {h} : on'[g] = on[g] /\ who'[g] = who[g]
  BY DEF ViewerStep, AskReadiness, Feed, CreateImpressions, CheckTarget, ProfileRow, ServeVariant,
         DiscoveryAuthorizes, MatchAuthorizes, Show, MediaInv, Types
<1>3. \A b \in Actors \ {h} : at'[b] = at[b]
  BY <1>1 DEF Goto, MediaInv, Types
<1>4. ~Due(h) /\ media' = media /\ \A u \in Users : SameFacts(u)
  BY <1>1 DEF Due, Views, mediaVars, factVars, SameFacts
<1> QED BY <1>2, <1>3, <1>4, QuietKeepsFlagInv

LEMMA RefreshKeepsFlagInv ==
  ASSUME MediaInv, FlagInv, NEW a \in Actors, Refresh(a)
  PROVE FlagInv'
<1> USE ActorsApart
<1>1. UNCHANGED <<media, on, who, closed, active, show, location>>
  BY DEF Refresh, RefreshRead, RefreshWrite, RefreshFails, mediaVars, factVars
<1>2. \A b \in Actors \ {a} : at'[b] = at[b]
  BY Returning DEF Refresh, RefreshRead, RefreshWrite, RefreshFails, Goto, MediaInv, Types
<1>3. PICK u \in Users : u = Subject(a) /\ u = Subject(a)'
  BY <1>1, SubjectsAreUsers DEF Subject
<1>4. Eligible(u)' <=> Eligible(u)
  BY <1>1 DEF Eligible, PrimaryUsable, Usable
<1>5. CASE RefreshRead(a)
  <2>1. Due(a)' /\ \A v \in Users : SameFacts(v)
    BY <1>1, <1>5 DEF RefreshRead, Goto, MediaInv, Types, Due, SameFacts
  <2> QED BY <1>1, <1>2, <1>3, <2>1, QuietKeepsFlagInv
<1>6. CASE RefreshWrite(a) \/ RefreshFails(a)
  <2>1. \A v \in Users \ {u} : SameFacts(v)
    BY <1>1, <1>3, <1>6 DEF RefreshWrite, RefreshFails, SameFacts
  <2>2. u \in torn' \/ (u \in flag' <=> Eligible(u))
    BY <1>3, <1>6 DEF RefreshWrite, RefreshFails
  <2>3. Told(u)'
    BY <1>4, <2>2 DEF Told
  <2> QED BY <1>1, <1>2, <1>3, <2>1, <2>3, ToldKeepsFlagInv
<1> QED BY <1>5, <1>6 DEF Refresh

LEMMA AgeKeepsFlagInv ==
  ASSUME MediaInv, FactTypes, FlagInv, NEW u \in Users, Age(u)
  PROVE FlagInv'
<1>1. u \in torn' /\ \A v \in Users \ {u} : SameFacts(v)
  BY DEF Age, SameFacts, FactTypes
<1>2. Told(u)' /\ \A v \in {u} : Told(v)'
  BY <1>1 DEF Told
<1>3. UNCHANGED <<media, at, on, who>>
  BY DEF Age, mediaVars, callVars
<1>4. /\ {} \in SUBSET Actors /\ {u} \in SUBSET Users
      /\ \A v \in {u} : Told(v)'
      /\ \A b \in Actors \ {} : at'[b] = at[b]
      /\ \A g \in Handlers \ {} : on'[g] = on[g] /\ who'[g] = who[g]
      /\ \A n \in MediaIds : IsPhoto(n) /\ Owner[n] \notin {u} => media'[n] = media[n]
      /\ \A a \in {} : Due(a) /\ Subject(a) \notin {u} => \E b \in Actors : Due(b)' /\ Subject(b)' = Subject(a)
  BY <1>2, <1>3
<1> QED BY <1>1, <1>4, ActorsKeepFlagInv

LEMMA NothingKeepsFlagInv ==
  ASSUME FlagInv, UNCHANGED vars
  PROVE FlagInv'
BY DEF vars, FlagInv, Told, Eligible, PrimaryUsable, Usable, Due, Subject

LEMMA StepFlagInv == MediaInv /\ FactTypes /\ FlagInv /\ [Next]_vars => FlagInv'
<1> SUFFICES ASSUME MediaInv, FactTypes, FlagInv, [Next]_vars PROVE FlagInv'
  OBVIOUS
<1> USE ActorsApart
<1>1. ASSUME NEW h \in Handlers, UploadGoesOn(h), AroundMedia, torn' = torn PROVE FlagInv'
  BY <1>1, UploadKeepsFlagInv, CreatePhotoRowsKeepsFlagInv, EnqueueKeepsFlagInv, GoingOnKeepsFlagInv
     DEF UploadGoesOn
<1>2. ASSUME NEW m \in MediaIds, Process(m), AroundMedia, torn' = torn PROVE FlagInv'
  BY <1>2, TaskKeepsFlagInv, GoingOnKeepsFlagInv, CommitRetireKeepsFlagInv DEF Process
<1>3. CASE MediaStep
  BY <1>1, <1>2, <1>3, UploadKeepsFlagInv, CommitRetireKeepsFlagInv, SetPrimaryKeepsFlagInv, EndsKeepsFlagInv,
     BeginLostKeepsFlagInv, DieEnds, RefusedEnds DEF MediaStep
<1>4. CASE \E h \in Handlers : OwnerStep(h) \/ ViewerStep(h)
  BY <1>4, OwnerKeepsFlagInv, ViewerKeepsFlagInv
<1>5. CASE \E a \in Actors : Refresh(a)
  BY <1>5, RefreshKeepsFlagInv
<1>6. CASE \E u \in Users : Age(u)
  BY <1>6, AgeKeepsFlagInv
<1>7. CASE UNCHANGED vars
  BY <1>7, NothingKeepsFlagInv
<1> QED BY <1>3, <1>4, <1>5, <1>6, <1>7 DEF Next

LEMMA InitFlagInv == Init => FlagInv
<1> SUFFICES ASSUME Init, NEW u \in Users PROVE Told(u)
  BY DEF FlagInv
<1>1. u \in SetUp => PrimaryUsable(u)
  <2> SUFFICES ASSUME u \in SetUp PROVE PrimaryUsable(u)
    OBVIOUS
  <2>1. PICK n \in Primary : Owner[n] = u
    BY PublishedAssumption DEF SetUp
  <2>2. /\ n \in MediaIds /\ IsPhoto(n) /\ media[n].status = "READY" /\ media[n].approval = "APPROVED"
        /\ ~media[n].deleted /\ media[n].primary
    BY PublishedAssumption DEF Init, MediaInit, IsPhoto
  <2> QED BY <2>1, <2>2 DEF PrimaryUsable, Usable
<1>2. u \in SetUp => location[u] = "FRESH"
  BY DEF Init
<1>3. u \in flag <=> Eligible(u)
  BY <1>1, <1>2 DEF Init, Eligible
<1> QED BY <1>3 DEF Told

\* Each operation that changes a fact of a user, or a photo, has left a refresh
\* on its way, of its own or of the task it enqueued: until that one has written
\* the flag, or has been lost, the user is not quiet.  The task of a new photo
\* keeps that promise by its refresh, unless its last run ends before it has read
\* the row.
THEOREM FlagIsAlwaysRight == Spec => []FlagIsRight
<1>1. FlagInv => FlagIsRight
  BY DEF FlagInv, FlagIsRight, Told, Quiet, Due
<1>2. Init => FlagInv
  BY InitFlagInv
<1> QED BY <1>1, <1>2, AlwaysTyped, StepFlagInv, PTL DEF Spec

\* Whatever shows somebody has asked for the facts in the same query, whatever
\* the flag says.
THEOREM OnlyDiscoverableAreShown == Spec => ShownIsDiscoverable
<1> DEFINE Fair == \A h \in Handlers : \A u \in shown'[h] \ shown[h] :
       \/ at[h] = "row"
       \/ Eligible(u) /\ ~Blocked(who[h], u) /\ u \in taste[who[h]] /\ who[h] \in taste[u]
       \/ at[h] = "match" /\ MatchShows(who[h], u)
<1>1. MediaInv /\ FactTypes /\ [Next]_vars => [Fair]_vars
  <2> SUFFICES ASSUME FactTypes, Next, NEW h \in Handlers, NEW u \in shown'[h] \ shown[h]
               PROVE \/ at[h] = "row"
                     \/ Eligible(u) /\ ~Blocked(who[h], u) /\ u \in taste[who[h]] /\ who[h] \in taste[u]
                     \/ at[h] = "match" /\ MatchShows(who[h], u)
    BY DEF vars
  <2>1. PICK g \in Handlers : ViewerStep(g)
    <3>1. shown' # shown
      OBVIOUS
    <3>2. ~MediaStep
      BY <3>1 DEF MediaStep, AroundMedia, viewVars
    <3>3. \A g \in Handlers : ~OwnerStep(g)
      <4> SUFFICES ASSUME NEW g \in Handlers, OwnerStep(g) PROVE shown' = shown
        BY <3>1
      <4> QED BY ZenonT(60) DEF OwnerStep, UpdateProfile, UpdateInterests, UpdatePrompts, UpdateLifestyle, Save,
                     CompleteProfile, UpdatePreferences, UpdateLocation, DeleteAccount, Owns, Block, Unmatch, viewVars
    <3>4. \A a \in Actors : ~Refresh(a)
      BY <3>1 DEF Refresh, RefreshRead, RefreshWrite, RefreshFails, viewVars
    <3>5. \A v \in Users : ~Age(v)
      BY <3>1 DEF Age, viewVars
    <3> QED BY <3>2, <3>3, <3>4, <3>5 DEF Next
  <2>2. PICK users, next : Show(g, users, next)
    BY <2>1 DEF ViewerStep, AskReadiness, ServeVariant, Feed, CreateImpressions, CheckTarget, ProfileRow,
                DiscoveryAuthorizes, MatchAuthorizes
  <2>3. g = h /\ shown'[h] = users
    BY <2>2 DEF Show, FactTypes
  <2>4. CASE Feed(h) \/ CreateImpressions(h) \/ CheckTarget(h)
    <3>1. Discoverable(who[h], u)
      BY <2>3, <2>4 DEF Feed, CreateImpressions, CheckTarget, Show, FactTypes
    <3> QED BY <3>1 DEF Discoverable
  <2>5. CASE ProfileRow(h)
    BY <2>5 DEF ProfileRow
  <2>6. CASE DiscoveryAuthorizes(h) \/ MatchAuthorizes(h)
    BY <2>3, <2>6 DEF DiscoveryAuthorizes, MatchAuthorizes, Show, FactTypes
  <2>7. CASE \/ \E viewer, v \in Users, op \in {"feed", "detail", "impression"} : AskReadiness(h, viewer, op, v)
             \/ \E viewer \in Users, m \in MediaIds : ServeVariant(h, viewer, m)
    BY <2>7 DEF AskReadiness, ServeVariant
  <2> QED BY <2>1, <2>3, <2>4, <2>5, <2>6, <2>7 DEF ViewerStep
<1>2. Spec => [][Fair]_vars
  BY <1>1, AlwaysTyped, PTL DEF Spec
<1> QED BY <1>2 DEF ShownIsDiscoverable
=============================================================================
