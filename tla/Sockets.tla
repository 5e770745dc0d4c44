------------------------------ MODULE Sockets ------------------------------
(***************************************************************************)
(* The hub of the chat's sockets (internal/chat/hub.go, handler.go).  Each  *)
(* socket has a reader, which answers errors through the socket's own       *)
(* channel and blocks while it is full, and a WritePump, which empties it   *)
(* until it is closed or a write fails.  The hub puts events into the       *)
(* channels of a user's sockets under its mutex and drops them where the    *)
(* channel is full.  A send on a closed channel, and closing one twice,     *)
(* stops the process.                                                       *)
(***************************************************************************)
EXTENDS Integers, FiniteSets

CONSTANTS
  Sockets,
  UserOf,         \* Sockets -> users
  ChannelSize,    \* clientSendBuffer
  TypingKeys      \* user, conversation and event, of those who type

ASSUME SocketsAssumption == ChannelSize \in Nat \ {0}

VARIABLES
  hub,        \* the sockets registered
  channel,    \* events waiting in each channel
  closed,     \* channels that are closed
  reader,     \* where each reader is
  pump,       \* where each WritePump is
  broken,     \* connections that are closed or lost
  typing,     \* keys of typingSeen younger than typingThrottleTTL
  panicked    \* observer

socketsVars == <<hub, channel, closed, reader, pump, broken, typing, panicked>>

ReaderGoes(s, step) == reader' = [reader EXCEPT ![s] = step]

-----------------------------------------------------------------------------
(* The hub: one step each, under its mutex. *)

RegisterSocket(s) ==
  /\ reader[s] = "none"
  /\ hub' = hub \union {s}
  /\ ReaderGoes(s, "reading") /\ pump' = [pump EXCEPT ![s] = "running"]
  /\ UNCHANGED <<channel, closed, broken, typing, panicked>>

\* A plausible bug: the socket stays in the map.
UnregisterKept(s) ==
  /\ reader[s] = "leaving"
  /\ closed' = closed \union {s} /\ UNCHANGED hub
  /\ panicked' = (panicked \/ (s \in hub /\ s \in closed))
  /\ ReaderGoes(s, "gone")
  /\ UNCHANGED <<channel, pump, broken, typing>>

\* Deferred by the handler: only who is in the map is closed.
UnregisterSocket(s) ==
  /\ reader[s] = "leaving"
  /\ hub' = hub \ {s}
  /\ closed' = IF s \in hub THEN closed \union {s} ELSE closed
  /\ panicked' = (panicked \/ (s \in hub /\ s \in closed))
  /\ ReaderGoes(s, "gone")
  /\ UNCHANGED <<channel, pump, broken, typing>>

\* To every socket of the user that has room.
Deliver(u) ==
  LET those == {s \in hub : UserOf[s] = u} IN
  /\ channel' = [s \in Sockets |->
       IF s \in those /\ channel[s] < ChannelSize THEN channel[s] + 1 ELSE channel[s]]
  /\ panicked' = (panicked \/ those \intersect closed # {})

SendToUser(u) ==
  /\ Deliver(u)
  /\ UNCHANGED <<hub, closed, reader, pump, broken, typing>>

\* AllowTypingEvent, and the event to the other; the key is seen until its TTL ends.
TypingEvent(key, u) ==
  /\ key \notin typing /\ typing' = typing \union {key}
  /\ Deliver(u)
  /\ UNCHANGED <<hub, closed, reader, pump, broken>>

TypingForgotten(key) ==
  /\ key \in typing /\ typing' = typing \ {key}
  /\ UNCHANGED <<hub, channel, closed, reader, pump, broken, panicked>>

-----------------------------------------------------------------------------
(* The reader of a socket *)

\* An event that is answered: an error, or one that is not supported.
Receive(s) ==
  /\ reader[s] = "reading" /\ s \notin broken
  /\ ReaderGoes(s, "reply")
  /\ UNCHANGED <<hub, channel, closed, pump, broken, typing, panicked>>

\* Not under the mutex, and it waits for room.
Reply(s) ==
  /\ reader[s] = "reply" /\ (channel[s] < ChannelSize \/ s \in closed)
  /\ channel' = IF s \in closed THEN channel ELSE [channel EXCEPT ![s] = @ + 1]
  /\ panicked' = (panicked \/ s \in closed)
  /\ ReaderGoes(s, "reading")
  /\ UNCHANGED <<hub, closed, pump, broken, typing>>

\* The connection ends, or the client sends what is no event.
ReadFails(s) ==
  /\ reader[s] = "reading" /\ ReaderGoes(s, "leaving")
  /\ UNCHANGED <<hub, channel, closed, pump, broken, typing, panicked>>

\* conn.Close, deferred before Unregister and so run after it; or the net.
Break(s) ==
  /\ reader[s] # "none" /\ s \notin broken /\ broken' = broken \union {s}
  /\ UNCHANGED <<hub, channel, closed, reader, pump, typing, panicked>>

-----------------------------------------------------------------------------
(* WritePump *)

Write(s) ==
  /\ pump[s] = "running" /\ channel[s] > 0
  /\ channel' = [channel EXCEPT ![s] = @ - 1]
  /\ \/ s \notin broken /\ UNCHANGED <<pump, broken>>
     \/ pump' = [pump EXCEPT ![s] = "gone"] /\ broken' = broken \union {s}
  /\ UNCHANGED <<hub, closed, reader, typing, panicked>>

\* A plausible bug: the pump ends when there is nothing to write.
PumpEndsWhenEmpty(s) ==
  /\ pump[s] = "running" /\ channel[s] = 0
  /\ pump' = [pump EXCEPT ![s] = "gone"]
  /\ UNCHANGED <<hub, channel, closed, reader, broken, typing, panicked>>

PumpEnds(s) ==
  /\ pump[s] = "running" /\ s \in closed /\ channel[s] = 0
  /\ pump' = [pump EXCEPT ![s] = "gone"]
  /\ UNCHANGED <<hub, channel, closed, reader, broken, typing, panicked>>

-----------------------------------------------------------------------------
SocketsInit ==
  /\ hub = {} /\ closed = {} /\ broken = {} /\ typing = {} /\ panicked = FALSE
  /\ channel = [s \in Sockets |-> 0]
  /\ reader = [s \in Sockets |-> "none"] /\ pump = [s \in Sockets |-> "none"]

SocketsNext ==
  \/ \E s \in Sockets :
       \/ RegisterSocket(s) \/ UnregisterSocket(s) \/ Receive(s) \/ Reply(s) \/ ReadFails(s)
       \/ Break(s) \/ Write(s) \/ PumpEnds(s)
       \/ SendToUser(UserOf[s])
       \/ \E key \in TypingKeys : TypingEvent(key, UserOf[s])
  \/ \E key \in TypingKeys : TypingForgotten(key)

SocketsSpec == SocketsInit /\ [][SocketsNext]_socketsVars

-----------------------------------------------------------------------------
\* Nobody sends on a closed channel or closes one twice, the hub only knows
\* sockets whose reader still runs, and each of the others has a closed channel,
\* so that its WritePump ends.
NeverSendsOnClosed ==
  /\ ~panicked
  /\ \A s \in Sockets :
       /\ s \in hub <=> reader[s] \in {"reading", "reply", "leaving"}
       /\ s \in closed <=> reader[s] = "gone"

\* The read loop waits for room in its own channel (client.send <-), with nobody
\* else to make room than the WritePump: as long as the connection lives that one
\* runs, so only the reader of a lost connection can wait for ever.
ReadersAreServed ==
  \A s \in Sockets :
    /\ channel[s] <= ChannelSize
    /\ reader[s] = "reply" /\ channel[s] = ChannelSize => pump[s] = "running" \/ s \in broken
=============================================================================
