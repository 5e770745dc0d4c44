-------------------------- MODULE Discoverability --------------------------
(***************************************************************************)
(* Who is shown to whom (internal/profile, discovery, location, and what    *)
(* auth.DeleteAccount does to them), composed with Media.                   *)
(*                                                                          *)
(* profiles.discovery_eligible is a cached answer.  After most changes the  *)
(* service reads the facts in one query and writes the flag in another, so  *)
(* the flag can be out of date: by a refresh that another overtook, by one  *)
(* that failed, by a location that has aged.  The queries that show a       *)
(* person look at the flag and at the facts.                                *)
(***************************************************************************)
EXTENDS Media

CONSTANTS
  Fields,         \* the columns of profiles that a complete profile needs
  Tastes,         \* sets of users some preferences (ages, genders, distance) admit
  Matches,        \* pairs of users an active match may join
  Aging,          \* bound: users whose location may age
  Drafts,         \* users whose profile is not complete at the start
  Scenarios       \* bound: what each handler may be asked for, and by whom

ASSUME FieldsAssumption == Fields \intersect {"interests", "prompts"} = {}
ASSUME TastesAssumption == Tastes \subseteq SUBSET Users /\ Users \in Tastes
ASSUME MatchesAssumption == Matches \subseteq {{u, v} : u, v \in Users}
ASSUME AgingAssumption == Aging \subseteq Users
ASSUME ScenariosAssumption == \A s \in Scenarios : DOMAIN s = Handlers
ASSUME DraftsAssumption == Drafts \subseteq Users

VARIABLES
  filled,     \* the parts of each profile that are there
  active,     \* users whose profile_status is ACTIVE
  show,       \* users with show_me_in_discovery
  taste,      \* whom the preferences of each user admit
  location,   \* user_locations: its precision and its age
  closed,     \* deleted accounts
  flag,       \* users with discovery_eligible
  blocks,     \* user_blocks: <<blocker, blocked>>
  matched,    \* pairs of users with an active match
  seen,       \* what a refresh has read of the facts
  whom,       \* the user a viewer's request is about
  shown,      \* the users it was shown
  scenario,   \* the bound that was chosen
  torn        \* observer: users whose flag a refresh left out of date, or a task
              \* that ended before it could ask for one

factVars == <<filled, active, show, taste, location, closed>>
viewVars == <<whom, shown, scenario>>
relations == <<blocks, matched>>
vars == <<media, variants, objects, at, on, who, rows, heir, tries, failed, faults, abandoned,
          filled, active, show, taste, location, closed, flag, blocks, matched,
          seen, whom, shown, scenario, torn>>

\* What a profile must have before it is complete.
Parts == Fields \union {"interests", "prompts"}

PrimaryUsable(u) == \E m \in MediaIds : Owner[m] = u /\ Usable(m) /\ media[m].primary

\* The facts: what RefreshDiscoveryEligibility and Readiness both ask for.
Eligible(u) ==
  /\ u \notin closed /\ u \in active /\ u \in show
  /\ location[u] = "FRESH"
  /\ PrimaryUsable(u)

Blocked(u, v) == <<u, v>> \in blocks \/ <<v, u>> \in blocks

\* A plausible bug: the facts about the other are those of his flag.
DiscoverableByFlag(viewer, u) ==
  /\ viewer # u
  /\ viewer \notin closed /\ viewer \in active \intersect show \intersect flag
  /\ location[viewer] = "FRESH"
  /\ u \in flag
  /\ ~Blocked(viewer, u)
  /\ u \in taste[viewer] /\ viewer \in taste[u]

\* The query behind the feed, a profile's detail, impressions and actions:
\* the facts again, of both, and both flags.
Discoverable(viewer, u) ==
  /\ viewer # u
  /\ viewer \notin closed /\ viewer \in active \intersect show \intersect flag
  /\ location[viewer] = "FRESH"
  /\ u \in flag /\ Eligible(u)
  /\ \E m \in MediaIds : /\ Owner[m] = u /\ Usable(m) /\ media[m].primary
                         /\ {"DISPLAY", "THUMBNAIL"} \subseteq variants[m]
  /\ ~Blocked(viewer, u)
  /\ u \in taste[viewer] /\ viewer \in taste[u]

\* match.CanViewProfileMedia: an active match, the owner there, no block.
MatchShows(viewer, u) == {viewer, u} \in matched /\ u \notin closed /\ ~Blocked(viewer, u)

Asked(h, op, u) == at[h] = "idle" /\ <<op, u>> \in scenario[h]

-----------------------------------------------------------------------------
(* The owner's side.  Each operation is one transaction under the lock of the *)
(* row it changes.                                                            *)

Owns(h, u, next) ==
  /\ u \notin closed
  /\ who' = [who EXCEPT ![h] = u] /\ Goto(h, next)
  /\ UNCHANGED <<mediaVars, on, faults, abandoned, relations, seen, viewVars, torn>>

\* An active profile that would miss a part is not saved.
Save(h, u, parts, next) ==
  /\ Asked(h, "fill", u)
  /\ u \in active => Parts \subseteq filled[u] \union parts
  /\ filled' = [filled EXCEPT ![u] = @ \union parts]
  /\ Owns(h, u, next)
  /\ UNCHANGED <<active, show, taste, location, closed, flag>>

\* A PATCH may set any of the fields, to a value that counts, and empties none.
Patches == SUBSET Fields

UpdateProfile(h, u, fields) == fields \in Patches /\ Save(h, u, fields, "refresh")
UpdateInterests(h, u) == Save(h, u, {"interests"}, "refresh")
UpdatePrompts(h, u) == Save(h, u, {"prompts"}, "done")
UpdateLifestyle(h, u) == Save(h, u, {}, "done")

CompleteProfile(h, u) ==
  /\ Asked(h, "complete", u) /\ Parts \subseteq filled[u]
  /\ active' = active \union {u}
  /\ Owns(h, u, "refresh")
  /\ UNCHANGED <<filled, show, taste, location, closed, flag>>

\* A plausible bug: as for prompts, no refresh.
UpdatePreferencesQuietly(h, u, visible, wants) ==
  /\ Asked(h, "prefer", u)
  /\ show' = IF visible THEN show \union {u} ELSE show \ {u}
  /\ taste' = [taste EXCEPT ![u] = wants]
  /\ Owns(h, u, "done")
  /\ UNCHANGED <<filled, active, location, closed, flag>>

UpdatePreferences(h, u, visible, wants) ==
  /\ Asked(h, "prefer", u)
  /\ show' = IF visible THEN show \union {u} ELSE show \ {u}
  /\ taste' = [taste EXCEPT ![u] = wants]
  /\ Owns(h, u, "refresh")
  /\ UNCHANGED <<filled, active, location, closed, flag>>

\* GPS and MANUAL are precise and consented to, IP is neither.
UpdateLocation(h, u, source) ==
  /\ Asked(h, "locate", u)
  /\ location' = [location EXCEPT ![u] = IF source = "IP" THEN "COARSE" ELSE "FRESH"]
  /\ Owns(h, u, "refresh")
  /\ UNCHANGED <<filled, active, show, taste, closed, flag>>

DeleteAccount(h, u) ==
  /\ Asked(h, "close", u)
  /\ closed' = closed \union {u} /\ flag' = flag \ {u}
  /\ Owns(h, u, "done")
  /\ UNCHANGED <<filled, active, show, taste, location>>

\* LocationMaxAgeDays pass without an update.  Nothing refreshes the flag.
Age(u) ==
  /\ u \in Aging /\ location[u] = "FRESH" /\ location' = [location EXCEPT ![u] = "STALE"]
  /\ torn' = torn \union {u}
  /\ UNCHANGED <<mediaVars, callVars, filled, active, show, taste, closed, flag, relations,
                 seen, viewVars>>

\* The block and the end of a match are operations of safety and match.
Block(h, u, v) ==
  /\ Asked(h, "block", u) /\ u # v
  /\ blocks' = blocks \union {<<u, v>>}
  /\ Goto(h, "done")
  /\ UNCHANGED <<mediaVars, on, who, faults, abandoned, factVars, flag, matched, seen, viewVars, torn>>

Unmatch(h, u, v) ==
  /\ Asked(h, "unmatch", u) /\ {u, v} \in matched
  /\ matched' = matched \ {{u, v}}
  /\ Goto(h, "done")
  /\ UNCHANGED <<mediaVars, on, who, faults, abandoned, factVars, flag, blocks, seen, viewVars, torn>>

-----------------------------------------------------------------------------
(* RefreshDiscoveryEligibility *)

Subject(a) == IF a \in MediaIds THEN Owner[a] ELSE who[a]

RefreshRead(a) ==
  /\ at[a] = "refresh"
  /\ seen' = [seen EXCEPT ![a] = Eligible(Subject(a))]
  /\ Goto(a, "write")
  /\ UNCHANGED <<mediaVars, on, who, faults, abandoned, factVars, flag, relations, viewVars, torn>>

RefreshWrite(a) ==
  LET u == Subject(a) IN
  /\ at[a] = "write"
  /\ flag' = IF seen[a] THEN flag \union {u} ELSE flag \ {u}
  /\ torn' = IF seen[a] = Eligible(u) THEN torn \ {u} ELSE torn \union {u}
  /\ Return(a)
  /\ UNCHANGED <<mediaVars, on, who, faults, abandoned, factVars, relations, seen, viewVars>>

\* Either query fails: media goes on as if nothing were, the others answer
\* with the error, and nothing is tried again.
RefreshFails(a) ==
  /\ at[a] \in {"refresh", "write"} /\ faults < MaxFaults /\ faults' = faults + 1
  /\ torn' = torn \union {Subject(a)}
  /\ Return(a)
  /\ UNCHANGED <<mediaVars, on, who, abandoned, factVars, flag, relations, seen, viewVars>>

-----------------------------------------------------------------------------
(* The viewer's side.                                                       *)

Views(h) == UNCHANGED <<mediaVars, faults, abandoned, factVars, flag, relations, seen, torn>>

\* Readiness of the viewer, asked first by everything that shows somebody.
AskReadiness(h, viewer, op, u) ==
  /\ Asked(h, op, viewer) /\ (viewer = u <=> op = "feed")
  /\ who' = [who EXCEPT ![h] = viewer] /\ whom' = [whom EXCEPT ![h] = u]
  /\ Goto(h, IF Eligible(viewer) THEN op ELSE "done")
  /\ Views(h) /\ UNCHANGED <<on, shown, scenario>>

Show(h, users, next) ==
  /\ shown' = [shown EXCEPT ![h] = users]
  /\ Goto(h, next)
  /\ Views(h) /\ UNCHANGED <<on, who, whom, scenario>>

Feed(h) == at[h] = "feed" /\ Show(h, {u \in Users : Discoverable(who[h], u)}, "done")

\* The insert says that the candidate was shown; an error of the check ends it.
CreateImpressions(h) ==
  at[h] = "impression" /\ Show(h, {whom[h]} \intersect {u \in Users : Discoverable(who[h], u)}, "done")

\* CheckTargetDiscoverable, with what follows it: the photo, or one more query
\* for the detail.
CheckTarget(h) ==
  LET ok == Discoverable(who[h], whom[h]) IN
  \/ at[h] = "detail" /\ Show(h, {}, IF ok THEN "row" ELSE "done")
  \/ at[h] = "photo" /\ Show(h, IF ok THEN {whom[h]} ELSE {}, IF ok THEN "done" ELSE "match")

\* ProfileDetail reads the profile in a query of its own, which asks only for
\* the photo.
ProfileRow(h) ==
  at[h] = "row" /\ Show(h, IF PrimaryUsable(whom[h]) THEN {whom[h]} ELSE {}, "done")

\* ServeVariant to somebody else: the row, then the authorizers in their
\* order, discovery with a look at the photo of its own.
ServeVariant(h, viewer, m) ==
  /\ Asked(h, "serve", viewer) /\ viewer # Owner[m] /\ Usable(m)
  /\ on' = [on EXCEPT ![h] = m]
  /\ who' = [who EXCEPT ![h] = viewer] /\ whom' = [whom EXCEPT ![h] = Owner[m]]
  /\ Goto(h, "authorize")
  /\ Views(h) /\ UNCHANGED <<shown, scenario>>

DiscoveryAuthorizes(h) ==
  /\ at[h] = "authorize"
  /\ Show(h, {}, IF Usable(on[h]) /\ Eligible(who[h]) THEN "photo" ELSE "match")

MatchAuthorizes(h) ==
  at[h] = "match" /\ Show(h, IF MatchShows(who[h], whom[h]) THEN {whom[h]} ELSE {}, "done")

-----------------------------------------------------------------------------
\* Whoever has a published photo at the start has been set up, but for the
\* parts and the completion that a draft misses.
SetUp == {Owner[m] : m \in Published}

Init ==
  /\ MediaInit
  /\ filled = [u \in Users |-> IF u \in SetUp \ Drafts THEN Parts ELSE Parts \ {"prompts"}]
  /\ active = SetUp \ Drafts /\ show = SetUp /\ flag = SetUp \ Drafts
  /\ taste = [u \in Users |-> Users]
  /\ location = [u \in Users |-> IF u \in SetUp THEN "FRESH" ELSE "NONE"]
  /\ closed = {} /\ blocks = {} /\ matched = Matches
  /\ seen = [a \in Actors |-> FALSE]
  /\ whom = who
  /\ shown = [h \in Handlers |-> {}]
  /\ torn = {} /\ scenario \in Scenarios

AroundMedia == UNCHANGED <<factVars, flag, relations, seen, viewVars>>

MediaStep ==
  /\ AroundMedia
  /\ \/ /\ \/ \E h \in Handlers :
                \/ \E m \in MediaIds : Asked(h, "upload", Owner[m]) /\ StoreUpload(h, m)
                \/ UploadGoesOn(h) \/ CommitRetire(h)
                \/ \E m \in MediaIds : Asked(h, "delete", Owner[m]) /\ Delete(h, m)
                \/ \E m \in MediaIds : Asked(h, "primary", Owner[m]) /\ SetPrimary(h, m)
           \/ \E m \in MediaIds : Process(m)
        /\ UNCHANGED torn
     \/ \E m \in MediaIds :
          /\ BeginLost(m)
          /\ torn' = IF at'[m] = "done" /\ IsPhoto(m) /\ media[m].status = "UPLOADED"
                     THEN torn \union {Owner[m]} ELSE torn
     \/ \E a \in Actors : (Die(a) \/ RetireRefused(a)) /\ torn' = torn \union {Subject(a)}

\* A handler takes up a request when it is idle.  (Asked says so as well: here the
\* guard spares the enumeration of requests.)
OwnerStep(h) ==
  /\ at[h] = "idle"
  /\ \E u \in Users :
       \/ \E fields \in Patches : UpdateProfile(h, u, fields)
       \/ UpdateInterests(h, u) \/ UpdatePrompts(h, u) \/ UpdateLifestyle(h, u)
       \/ CompleteProfile(h, u)
       \/ \E visible \in BOOLEAN, wants \in Tastes : UpdatePreferences(h, u, visible, wants)
       \/ \E source \in {"GPS", "IP"} : UpdateLocation(h, u, source)
       \/ DeleteAccount(h, u)
       \/ \E v \in Users : Block(h, u, v) \/ Unmatch(h, u, v)

ViewerStep(h) ==
  \/ /\ at[h] = "idle"
     /\ \E viewer \in Users :
          \/ \E u \in Users, op \in {"feed", "detail", "impression"} : AskReadiness(h, viewer, op, u)
          \/ \E m \in MediaIds : ServeVariant(h, viewer, m)
  \/ Feed(h) \/ CreateImpressions(h) \/ CheckTarget(h) \/ ProfileRow(h)
  \/ DiscoveryAuthorizes(h) \/ MatchAuthorizes(h)

Refresh(a) == RefreshRead(a) \/ RefreshWrite(a) \/ RefreshFails(a)

Next ==
  \/ MediaStep
  \/ \E h \in Handlers : OwnerStep(h) \/ ViewerStep(h)
  \/ \E a \in Actors : Refresh(a)
  \/ \E u \in Users : Age(u)

Spec == Init /\ [][Next]_vars

-----------------------------------------------------------------------------
TypeOK ==
  /\ MediaTypeOK
  /\ filled \in [Users -> SUBSET Parts]
  /\ active \subseteq Users /\ show \subseteq Users /\ closed \subseteq Users /\ flag \subseteq Users
  /\ taste \in [Users -> Tastes]
  /\ location \in [Users -> {"NONE", "COARSE", "FRESH", "STALE"}]
  /\ seen \in [Actors -> BOOLEAN] /\ shown \in [Handlers -> SUBSET Users] /\ torn \subseteq Users

\* Nobody is shown, in the feed, an impression, or a photo to a stranger, who at
\* that moment has hidden, left, no photo, no fresh location, a block with the
\* viewer or preferences that exclude him, whatever the flag says.  A match
\* sees photos of whoever is there and not blocked.  (ProfileDetail is not
\* covered: it reads the profile after the check.)
ShownIsDiscoverable ==
  [][\A h \in Handlers : \A u \in shown'[h] \ shown[h] :
       \/ at[h] = "row"
       \/ Eligible(u) /\ ~Blocked(who[h], u) /\ u \in taste[who[h]] /\ who[h] \in taste[u]
       \/ at[h] = "match" /\ MatchShows(who[h], u)]_vars

Quiet(u) == \A a \in Actors : at[a] \in {"idle", "done"} \/ Subject(a) # u

\* The flag can be relied on as far as the code can make it so: when nothing
\* is under way for a user, and no refresh was overtaken or lost, no new photo of
\* his was given up before a run had read it, and the location has not aged since
\* the last refresh, it says what the facts say.  Each operation that changes a
\* fact has refreshed it.
FlagIsRight ==
  \A u \in Users \ torn : Quiet(u) => (u \in flag <=> Eligible(u))
=============================================================================
