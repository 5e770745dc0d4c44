------------------------- MODULE MCDiscoverability -------------------------
(***************************************************************************)
(* An instance of Discoverability for TLC: an owner of two published photos *)
(* and a third to come, a viewer who has been set up and uploads two intro  *)
(* videos, a draft who has still to complete his profile, and a newcomer.   *)
(***************************************************************************)
EXTENDS Discoverability, TLC

CONSTANTS owner, viewer, draft, newcomer, p1, p2, p3, v1, d1, w1, w2, n1, n2, h1, h2, h3, h4

OwnerOf == (p1 :> owner) @@ (p2 :> owner) @@ (p3 :> owner) @@ (v1 :> viewer) @@ (d1 :> draft)
           @@ (w1 :> viewer) @@ (w2 :> viewer) @@ (n1 :> newcomer) @@ (n2 :> newcomer)
PurposeOf == [m \in MediaIds |-> IF m \in {w1, w2} THEN "INTRO_VIDEO" ELSE "PROFILE_PHOTO"]
TwoTastes == {Users, {}}
OneMatch == {{owner, viewer}}

Do(user, operations) == operations \X {user}
Ask(first, second, third) == (h1 :> first) @@ (h2 :> second) @@ (h3 :> third)

\* A photo is uploaded while the owner hides, under the eyes of the feed.
Hiding == Ask(Do(owner, {"upload"}), Do(owner, {"prefer"}), Do(viewer, {"feed"}))
\* The primary photo is chosen, deleted and replaced from two sides.
Choosing == Ask(Do(owner, {"primary", "delete"}), Do(owner, {"primary", "delete", "upload"}), {})
\* A stranger or a match looks while the owner takes away what he looks at.
Looking == Ask(Do(owner, {"delete", "prefer", "close"}), Do(owner, {"block", "unmatch"}),
               Do(viewer, {"serve", "detail", "impression"}))
\* A profile is completed while the location comes and goes.
Completing == Ask(Do(draft, {"fill"}), Do(draft, {"complete", "locate"}), Do(draft, {"complete", "locate"}))
\* Two intro videos are uploaded at once.
Filming == Ask(Do(viewer, {"upload"}), Do(viewer, {"upload"}), {})
\* The first two photos of a user are uploaded at once.
Starting == Ask(Do(newcomer, {"upload"}), Do(newcomer, {"upload"}), {})

\* A photo is uploaded, and as many calls fail as its task has runs.
Failing == Ask(Do(owner, {"upload"}), {}, {})

AllScenarios == {Hiding, Choosing, Looking, Completing, Filming, Starting, Failing}

\* Bound: elsewhere one call fails.
FewFaults == faults <= 1 \/ scenario = Failing

\* The media that two handlers upload at once can be exchanged for each other, and so
\* can these handlers, with what they are asked for.
Exchange == n1 :> n2 @@ n2 :> n1 @@ w1 :> w2 @@ w2 :> w1
Twins == {m @@ h : m \in {Exchange, [x \in DOMAIN Exchange |-> x]}, h \in Permutations({h1, h2})}

-----------------------------------------------------------------------------
(* An instance about the photos of one user. *)

CONSTANTS p4, p5

OwnerOnly == [m \in MediaIds |-> owner]
PhotosOnly == [m \in MediaIds |-> "PROFILE_PHOTO"]
AskAll(first, second, third, fourth) ==
  Ask(Do(owner, first), Do(owner, second), Do(owner, third)) @@ (h4 :> Do(owner, fourth))

\* Two uploads at the limit, while a photo is deleted; and a photo that is
\* published, chosen to follow another, deleted before it does, and given up.
Crowding == AskAll({"upload"}, {"upload"}, {"delete"}, {})
Following == AskAll({"upload"}, {"delete"}, {"delete"}, {"primary"})

PhotoScenarios == {Crowding, Following}

\* The photos nobody has seen yet, and those that are published and not primary,
\* can be exchanged for each other.
Uploaded == {p3, p5}
Secondary == {p2, p4}
Alike == {[m \in Uploaded \union Secondary |-> IF m \in Uploaded THEN f[m] ELSE g[m]] :
            f \in Permutations(Uploaded), g \in Permutations(Secondary)}

\* A refresh changes nothing the two invariants are about: it may as well go first.
Refreshing(a) == at[a] \in {"refresh", "write"}
RefreshFirst == \A a \in Actors : Refreshing(a) => \E b \in Actors : Refreshing(b) /\ at'[b] # at[b]
=============================================================================
