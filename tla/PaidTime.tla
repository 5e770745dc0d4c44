------------------------------ MODULE PaidTime ------------------------------
(***************************************************************************)
(* What a user buys with manual payments, without handlers or rows.  A      *)
(* reference pays once and a user has one payment open at a time.  Each     *)
(* payment is decided once.  An accepted one moves the end of the time its  *)
(* payer has paid for by exactly the days on offer when it was submitted,   *)
(* counted from that end or, if it is past, from a moment between           *)
(* submission and now.  Subscription implements it.                        *)
(***************************************************************************)
EXTENDS Naturals

CONSTANTS Users, Payments, References, Terms

VARIABLES
  clock,
  open, accepted, refused,  \* sets of bills
  through                   \* through[u]: the end of the time u has paid for

ptVars == <<clock, open, accepted, refused, through>>

Bills == [payment : Payments, payer : Users, reference : References,
          days : Terms, since : Nat]

Later(x, y) == IF x >= y THEN x ELSE y

PTInit ==
  /\ clock = 0
  /\ open = {} /\ accepted = {} /\ refused = {}
  /\ through = [u \in Users |-> 0]

\* b \in Bills, a set TLC cannot enumerate, is left to the refinement mapping.
Submit(b) ==
  /\ b.since <= clock
  /\ \A x \in open \union accepted \union refused :
       x.payment # b.payment /\ x.reference # b.reference
  /\ \A x \in open : x.payer # b.payer
  /\ open' = open \union {b}
  /\ UNCHANGED <<clock, accepted, refused, through>>

Accept(b) ==
  /\ open' = open \ {b}
  /\ accepted' = accepted \union {b}
  /\ \E at \in b.since..clock :
       through' = [through EXCEPT ![b.payer] = Later(@, at) + b.days]
  /\ UNCHANGED <<clock, refused>>

Refuse(b) ==
  /\ open' = open \ {b}
  /\ refused' = refused \union {b}
  /\ UNCHANGED <<clock, accepted, through>>

Tick ==
  /\ clock' = clock + 1
  /\ UNCHANGED <<open, accepted, refused, through>>

PTNext ==
  \/ \E b \in open' : Submit(b)
  \/ \E b \in open : Accept(b) \/ Refuse(b)
  \/ Tick

PTSpec == PTInit /\ [][PTNext]_ptVars
=============================================================================
