-------------------------------- MODULE Push --------------------------------
(***************************************************************************)
(* Notifications and their pushes (internal/notification).  A caller makes  *)
(* the row of each notification and enqueues its push; a worker looks at    *)
(* the settings, at the receipt of a chat message and at the devices, sends *)
(* to each device in turn and logs what became of it.  The queue runs the   *)
(* task again when it ends with an error.  Meanwhile devices register and   *)
(* lose their tokens, settings change, and a socket may deliver first.      *)
(***************************************************************************)
EXTENDS Integers, FiniteSets, Sequences

CONSTANTS
  Notes,          \* notifications: one for each event and receiver
  Receiver,       \* Notes -> users
  ChatNotes,      \* those of chat messages
  Calls,          \* calls of NotifyNewMatch and NotifyChatMessage
  Notified,       \* Calls -> the notes a call makes, in their order
  Devices,        \* rows of devices
  User,           \* Devices -> users
  PushTokens,     \* FCM tokens: one for each phone
  NoPushToken,
  PushRuns,       \* runs of a task: 1 + cfg.GetPushMaxRetry()
  MaxPushFaults   \* bound: failing calls and dying processes

ASSUME PushAssumption ==
  /\ ChatNotes \subseteq Notes /\ NoPushToken \notin PushTokens
  /\ DOMAIN Receiver = Notes /\ DOMAIN User = Devices /\ DOMAIN Notified = Calls
  /\ PushRuns \in Nat \ {0} /\ MaxPushFaults \in Nat

VARIABLES
  note,        \* notifications: "none", "unread", "read"
  calling,     \* what each call has still to do
  push,        \* where the push task of each note is
  pushRuns,    \* how often it has run
  todo,        \* the devices a run has listed and not yet come to
  outcome,     \* the device a run is at, and what the provider said
  retry,       \* notes whose run has met a temporary error
  unwanted,    \* users whose settings or quiet hours forbid a push now
  delivered,   \* chat messages delivered or seen
  registered,  \* the token of each device that may be pushed to
  logs,        \* push_delivery_logs: <<note, device, what became of it>>
  pushFaults,
  sends,       \* observer: messages the provider took, for each note and device
  listed       \* observer: the devices the last run has listed

callsVars == <<note, calling>>
workVars == <<push, pushRuns, todo, outcome, retry, logs, sends, listed>>
worldVars == <<unwanted, delivered, registered>>
pushVars == <<callsVars, workVars, worldVars, pushFaults>>

PushFault == pushFaults < MaxPushFaults /\ pushFaults' = pushFaults + 1

Step(n, next) == push' = [push EXCEPT ![n] = next]
Nowhere == [device |-> NoPushToken, said |-> "nothing"]

-----------------------------------------------------------------------------
(* NotifyNewMatch, NotifyChatMessage *)

\* createOrGetNotification: the row of the dedupe key, new or old.
CreateNote(k) ==
  LET n == Head(calling[k].left) IN
  /\ calling[k].step = "create" /\ calling[k].left # <<>>
  /\ note' = IF note[n] = "none" THEN [note EXCEPT ![n] = "unread"] ELSE note
  /\ calling' = [calling EXCEPT ![k].step = "enqueue"]
  /\ UNCHANGED <<workVars, worldVars, pushFaults>>

\* enqueuePush: the queue refuses a task that is still there under the same id,
\* and one that it has given up; one that has ended is begun anew.
EnqueuePush(k) ==
  LET n == Head(calling[k].left) IN
  /\ calling[k].step = "enqueue"
  /\ IF push[n] \in {"none", "done"}
     THEN Step(n, "queued") /\ pushRuns' = [pushRuns EXCEPT ![n] = 0]
     ELSE UNCHANGED <<push, pushRuns>>
  /\ calling' = [calling EXCEPT ![k] = [step |-> "create", left |-> Tail(@.left)]]
  /\ UNCHANGED <<note, todo, outcome, retry, logs, sends, listed, worldVars, pushFaults>>

\* The first error ends the call, and the notes that are left are not made.
CallFails(k) ==
  /\ calling[k].left # <<>> /\ PushFault
  /\ calling' = [calling EXCEPT ![k] = [step |-> "create", left |-> <<>>]]
  /\ UNCHANGED <<note, workVars, worldVars>>

-----------------------------------------------------------------------------
(* ProcessSendPush *)

RunEnds(n, next) ==
  /\ Step(n, next)
  /\ todo' = [todo EXCEPT ![n] = {}] /\ outcome' = [outcome EXCEPT ![n] = Nowhere]
  /\ retry' = retry \ {n}

\* An error: again, or given up.
Again(n) == IF pushRuns[n] < PushRuns THEN "queued" ELSE "archived"

Skip(n) == logs' = logs \union {<<n, NoPushToken, "SKIPPED">>} /\ RunEnds(n, "done")
GoOn(n, next) == Step(n, next) /\ UNCHANGED <<todo, outcome, retry, logs>>

\* The settings of the receiver, as one query reads them.
Wanted(n) == Receiver[n] \notin unwanted

CheckSettings(n) ==
  /\ push[n] = "queued"
  /\ IF Wanted(n) THEN GoOn(n, "receipt") ELSE Skip(n)
  /\ pushRuns' = [pushRuns EXCEPT ![n] = @ + 1]
  /\ UNCHANGED <<callsVars, sends, listed, worldVars, pushFaults>>

CheckReceipt(n) ==
  /\ push[n] = "receipt"
  /\ IF n \in ChatNotes /\ n \in delivered THEN Skip(n) ELSE GoOn(n, "devices")
  /\ UNCHANGED <<callsVars, pushRuns, sends, listed, worldVars, pushFaults>>

Active(u) == {d \in Devices : User[d] = u /\ registered[d] # NoPushToken}

ListDevices(n) ==
  /\ push[n] = "devices"
  /\ listed' = [listed EXCEPT ![n] = Active(Receiver[n])]
  /\ IF Active(Receiver[n]) = {} THEN Skip(n)
     ELSE /\ todo' = [todo EXCEPT ![n] = Active(Receiver[n])]
          /\ Step(n, "next")
          /\ UNCHANGED <<outcome, retry, logs>>
  /\ UNCHANGED <<callsVars, pushRuns, sends, worldVars, pushFaults>>

\* A plausible bug: it is not asked whether this device has had it.
SentLogNever(n, d) == <<n, d>> \in {}

SentLogExists(n, d) == <<n, d, "SENT">> \in logs

\* The next device, or the end of the run.
NextDevice(n) ==
  /\ push[n] = "next"
  /\ \/ \E d \in todo[n] :
          /\ todo' = [todo EXCEPT ![n] = @ \ {d}]
          /\ IF SentLogExists(n, d) THEN UNCHANGED <<push, outcome>>
             ELSE Step(n, "send") /\ outcome' = [outcome EXCEPT ![n].device = d]
          /\ UNCHANGED retry
     \/ todo[n] = {} /\ RunEnds(n, IF n \in retry THEN Again(n) ELSE "done")
  /\ UNCHANGED <<callsVars, pushRuns, logs, sends, listed, worldVars, pushFaults>>

\* The provider takes the message, or says that the token is invalid, that it
\* is busy, or that it refuses.
Send(n) ==
  /\ push[n] = "send"
  /\ sends' = [sends EXCEPT ![n][outcome[n].device] = @ + 1]
  /\ outcome' = [outcome EXCEPT ![n].said = "SENT"]
  /\ Step(n, "log")
  /\ UNCHANGED <<callsVars, pushRuns, todo, retry, logs, listed, worldVars, pushFaults>>

SendFails(n) ==
  /\ push[n] = "send" /\ PushFault
  /\ \E said \in {"INVALID", "BUSY", "REFUSED"} :
       /\ outcome' = [outcome EXCEPT ![n].said = said]
       /\ retry' = IF said = "BUSY" THEN retry \union {n} ELSE retry
  /\ Step(n, "log")
  /\ UNCHANGED <<callsVars, pushRuns, todo, logs, sends, listed, worldVars>>

\* markDeviceInvalid, of the row whatever token it has by now; logSent, logFailed.
MarkInvalid(n) ==
  registered' = IF outcome[n].said = "INVALID"
                THEN [registered EXCEPT ![outcome[n].device] = NoPushToken] ELSE registered

LogOutcome(n) ==
  /\ push[n] = "log"
  /\ MarkInvalid(n)
  /\ logs' = logs \union {<<n, outcome[n].device, outcome[n].said>>}
  /\ outcome' = [outcome EXCEPT ![n] = Nowhere]
  /\ Step(n, "next")
  /\ UNCHANGED <<callsVars, pushRuns, todo, sends, listed, unwanted, delivered, pushFaults>>

\* A plausible bug: the error that is returned is that of the last device.
LogDeliveryLastError(n) ==
  /\ LogOutcome(n)
  /\ retry' = IF outcome[n].said = "SENT" THEN retry \ {n} ELSE retry

LogDelivery(n) == LogOutcome(n) /\ UNCHANGED retry

\* A query fails or the worker dies, with a device marked invalid or not.
PushFails(n) ==
  /\ push[n] \in {"receipt", "devices", "next", "send", "log"} /\ PushFault
  /\ RunEnds(n, Again(n))
  /\ IF push[n] = "log" THEN MarkInvalid(n) \/ UNCHANGED registered ELSE UNCHANGED registered
  /\ UNCHANGED <<callsVars, pushRuns, logs, sends, listed, unwanted, delivered>>

-----------------------------------------------------------------------------
(* The devices, the settings, the socket and the reader.                    *)

World == UNCHANGED <<callsVars, workVars, pushFaults>>

\* upsertDevice of a sign-in: a token is taken from every other device.
TakeToken(d, t) ==
  registered' = [e \in Devices |->
    IF e = d THEN t ELSE IF registered[e] = t THEN NoPushToken ELSE registered[e]]

\* UpsertFCMToken, which does the same, and a sign-in with a token.
Register(d, t) ==
  /\ registered[d] # t /\ TakeToken(d, t)
  /\ World /\ UNCHANGED <<unwanted, delivered>>

\* DeleteFCMToken, a logout, a sign-in without a token.
Unregister(d) ==
  /\ registered[d] # NoPushToken
  /\ registered' = [registered EXCEPT ![d] = NoPushToken]
  /\ World /\ UNCHANGED <<unwanted, delivered>>

\* UpdateSettings, or the clock at the ends of the quiet hours.
ChangeSettings(u) ==
  /\ unwanted' = IF u \in unwanted THEN unwanted \ {u} ELSE unwanted \union {u}
  /\ World /\ UNCHANGED <<delivered, registered>>

\* MarkDelivered or MarkRead of the chat.
Acknowledge(n) ==
  /\ n \in ChatNotes /\ note[n] # "none"
  /\ delivered' = delivered \union {n}
  /\ World /\ UNCHANGED <<unwanted, registered>>

\* MarkRead keeps the time of the first, under the lock of the row.
MarkNoteRead(n) ==
  /\ note[n] = "unread" /\ note' = [note EXCEPT ![n] = "read"]
  /\ UNCHANGED <<calling, workVars, worldVars, pushFaults>>

MarkAllRead(u) ==
  LET unread == {n \in Notes : Receiver[n] = u /\ note[n] = "unread"} IN
  /\ unread # {}
  /\ note' = [n \in Notes |-> IF n \in unread THEN "read" ELSE note[n]]
  /\ UNCHANGED <<calling, workVars, worldVars, pushFaults>>

-----------------------------------------------------------------------------
Users == {Receiver[n] : n \in Notes}

PushInit ==
  /\ note = [n \in Notes |-> "none"]
  /\ calling = [k \in Calls |-> [step |-> "create", left |-> Notified[k]]]
  /\ push = [n \in Notes |-> "none"] /\ pushRuns = [n \in Notes |-> 0]
  /\ todo = [n \in Notes |-> {}] /\ outcome = [n \in Notes |-> Nowhere] /\ retry = {}
  /\ unwanted = {} /\ delivered = {} /\ registered \in [Devices -> PushTokens \union {NoPushToken}]
  /\ \A d, e \in Devices : registered[d] = registered[e] => d = e \/ registered[d] = NoPushToken
  /\ logs = {} /\ pushFaults = 0
  /\ sends = [n \in Notes |-> [d \in Devices |-> 0]] /\ listed = [n \in Notes |-> {}]

ProcessSendPush(n) ==
  \/ CheckSettings(n) \/ CheckReceipt(n) \/ ListDevices(n) \/ NextDevice(n)
  \/ Send(n) \/ SendFails(n) \/ LogDelivery(n) \/ PushFails(n)

PushNext ==
  \/ \E k \in Calls : CreateNote(k) \/ EnqueuePush(k) \/ CallFails(k)
  \/ \E n \in Notes : ProcessSendPush(n) \/ Acknowledge(n) \/ MarkNoteRead(n)
  \/ \E d \in Devices : Unregister(d) \/ \E t \in PushTokens : Register(d, t)
  \/ \E u \in Users : ChangeSettings(u) \/ MarkAllRead(u)

PushSpec == PushInit /\ [][PushNext]_pushVars

-----------------------------------------------------------------------------
\* A device gets a notification once, and once more for each failure at most,
\* however often the event is told and the task is run.
PushedOnce ==
  \A n \in Notes, d \in Devices : sends[n][d] <= 1 + pushFaults

\* A push that has ended without an error was skipped, or each device its last
\* run listed has had it or refused it: one that was only busy is not forgotten
\* over the others.
EndedPushIsAnswered ==
  \A n \in Notes : push[n] = "done" =>
    \/ <<n, NoPushToken, "SKIPPED">> \in logs
    \/ \A d \in listed[n] : \E said \in {"SENT", "INVALID", "REFUSED"} : <<n, d, said>> \in logs
=============================================================================
