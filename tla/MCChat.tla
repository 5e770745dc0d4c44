------------------------------- MODULE MCChat -------------------------------
(***************************************************************************)
(* Instances of Chat for TLC: alice has a conversation with bob and one     *)
(* with carol, so that a key can be used again in the same and in another.  *)
(***************************************************************************)
EXTENDS Chat, TLC

CONSTANTS alice, bob, carol, ab, ac, s1, s2, d1, d2, k1, k2, hi, yo

Say(conv, sender, client, text) ==
  [conv |-> conv, sender |-> sender, client |-> client, text |-> text]

OnePair == ab :> {alice, bob}
TwoPairs == ab :> {alice, bob} @@ ac :> {alice, carol}

\* alice and bob talk to each other.
TalkInputs ==
  {Say(ab, alice, k1, hi), Say(ab, bob, k1, hi)}

\* alice uses one key three times, in two conversations.
KeyInputs ==
  {Say(ab, alice, k1, hi), Say(ab, alice, k1, yo), Say(ac, alice, k1, hi)}

OneBlock == {<<bob, alice>>}

HandlerSymmetry == Permutations(Senders) \union Permutations(Readers)

-----------------------------------------------------------------------------
(* A behaviour is one of one of the instances.                              *)

VARIABLE part

\* Two members talk and read in one conversation, until it is closed; or alice
\* uses her key, under blocks and a failure, and nobody reads.
InputsOf == [p \in {"talk", "keys"} |->
  {NoInput} \union IF p = "talk" THEN TalkInputs ELSE KeyInputs]
Within ==
  /\ part = "talk" => /\ faults = 0 /\ blocks = {} /\ delivered \subseteq seen
                      /\ ac \in active /\ ac \notin unmatching
  /\ part = "keys" => \A d \in Readers : target[d] = NoTarget
  /\ part \in {"talk", "keys"} => \A s \in Senders : input[s] \in InputsOf[part]

EveryInput == TalkInputs \union KeyInputs

Start(parts) == Init /\ part \in parts
Step == Next /\ UNCHANGED part /\ Within'

TalkOrKeys == Start({"talk", "keys"}) /\ [][Step]_<<vars, part>>
Conflicts == Start({"conflict"}) /\ [][Step]_<<vars, part>>
Answers == Start({"answers"}) /\ [][Step]_<<vars, part>> /\ Fairness
=============================================================================
