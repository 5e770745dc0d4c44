------------------------------ MODULE ChatLog ------------------------------
(***************************************************************************)
(* What a conversation promises its two members, without transactions: an   *)
(* open conversation is a log that grows at its end only, a client id adds  *)
(* to it once, a closed one grows no more, and reading up to a message      *)
(* marks every message of the other member before it as seen.  Chat         *)
(* implements it.                                                          *)
(***************************************************************************)
EXTENDS Naturals

CONSTANTS Conversations, Reading   \* <<c, u>> for the members u of c

VARIABLES
  log,      \* the messages, records with conv, id, sender, client and text
  openConv, \* the conversations that are open
  cursor,   \* cursor[<<c, u>>]: the last message u has read in c, or 0
  seenIds,  \* the messages their receiver has read
  gone      \* the messages their sender has deleted

clVars == <<log, openConv, cursor, seenIds, gone>>

CLInit ==
  /\ log = {}
  /\ openConv = Conversations
  /\ cursor = [x \in Reading |-> 0]
  /\ seenIds = {}
  /\ gone = {}

Append(m) ==
  /\ m.conv \in openConv
  /\ \A x \in log :
       /\ x.conv = m.conv => x.id < m.id
       /\ ~(x.sender = m.sender /\ x.client = m.client)
  /\ log' = log \union {m}
  /\ UNCHANGED <<openConv, cursor, seenIds, gone>>

Close(c) ==
  /\ openConv' = openConv \ {c}
  /\ UNCHANGED <<log, cursor, seenIds, gone>>

\* A member, who may have read further already, reads up to m.
Read(x, m) ==
  LET u == x[2]
  IN  /\ m.conv = x[1]
      /\ cursor' = [cursor EXCEPT ![x] = IF m.id > @ THEN m.id ELSE @]
      /\ seenIds' = seenIds \union
           {y.id : y \in {z \in log : /\ z.conv = m.conv /\ z.sender # u
                                      /\ z.id <= m.id}}
      /\ UNCHANGED <<log, openConv, gone>>

Delete(m) ==
  /\ gone' = gone \union {m.id}
  /\ UNCHANGED <<log, openConv, cursor, seenIds>>

CLNext ==
  \/ \E m \in log' : Append(m)
  \/ \E c \in openConv : Close(c)
  \/ \E m \in log : Delete(m) \/ \E x \in Reading : Read(x, m)

CLSpec == CLInit /\ [][CLNext]_clVars
=============================================================================
