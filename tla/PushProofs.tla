----------------------------- MODULE PushProofs -----------------------------
(***************************************************************************)
(* Theorems about Push, for any notifications, calls, devices, tokens, runs *)
(* and failures.  A notification has one task, so its runs follow one       *)
(* another: a device without a SENT log has been sent to only by runs that  *)
(* failed between the send and its log, and a run accounts for every device *)
(* it has listed before it ends without an error.                           *)
(***************************************************************************)
EXTENDS Push, TLAPS

Sending == {"send", "log"}
AmidDevices == {"next"} \union Sending
PushSteps == {"none", "queued", "receipt", "devices", "done", "archived"} \union AmidDevices
Replies == {"nothing", "SENT", "INVALID", "BUSY", "REFUSED"}
Outcomes == [device : Devices \union {NoPushToken}, said : Replies]

PushTypes ==
  /\ push \in [Notes -> PushSteps]
  /\ todo \in [Notes -> SUBSET Devices]
  /\ listed \in [Notes -> SUBSET Devices]
  /\ outcome \in [Notes -> Outcomes]
  /\ sends \in [Notes -> [Devices -> Nat]]
  /\ pushFaults \in Nat

\* A run is at one device, which no log says has had the message before it is
\* sent, and whose reply is there when the run comes to the log.
AtDevice(n) ==
  /\ push[n] \in Sending => outcome[n].device \in Devices
  /\ push[n] = "send" => ~SentLogExists(n, outcome[n].device)
  /\ push[n] = "log" =>
       /\ outcome[n].said # "nothing"
       /\ outcome[n].said = "BUSY" => n \in retry

\* The provider has taken the message of this run, and no log says so yet.
Unlogged(n, d) == push[n] = "log" /\ outcome[n].device = d /\ outcome[n].said = "SENT"

SentOrFailed(n) ==
  \A d \in Devices :
    /\ sends[n][d] <= pushFaults + 1
    /\ SentLogExists(n, d) \/ Unlogged(n, d) \/ sends[n][d] <= pushFaults

Answered(n, d) == \E said \in {"SENT", "INVALID", "REFUSED"} : <<n, d, said>> \in logs

\* The devices a run has listed are before it, at it, answered, or to be tried
\* again.
ListedIsAccounted(n) ==
  push[n] \in AmidDevices =>
    \A d \in listed[n] :
      \/ d \in todo[n] \/ Answered(n, d) \/ n \in retry
      \/ push[n] \in Sending /\ outcome[n].device = d

EndedIsAnswered(n) ==
  push[n] = "done" =>
    <<n, NoPushToken, "SKIPPED">> \in logs \/ \A d \in listed[n] : Answered(n, d)

NoteInv(n) == AtDevice(n) /\ SentOrFailed(n) /\ ListedIsAccounted(n) /\ EndedIsAnswered(n)

PushInv == PushTypes /\ \A n \in Notes : NoteInv(n)

-----------------------------------------------------------------------------
\* What is kept of a notification stays as it is.
Keeps(m) ==
  /\ push'[m] = push[m] /\ todo'[m] = todo[m] /\ outcome'[m] = outcome[m]
  /\ listed'[m] = listed[m] /\ (m \in retry' <=> m \in retry)
  /\ \A d \in Devices : sends'[m][d] = sends[m][d]
  /\ \A x, said : <<m, x, said>> \in logs' <=> <<m, x, said>> \in logs

LEMMA KeptNotes ==
  ASSUME PushTypes, PushTypes', NEW m \in Notes, NoteInv(m), Keeps(m), pushFaults <= pushFaults'
  PROVE NoteInv(m)'
<1>1. \A d : SentLogExists(m, d)' <=> SentLogExists(m, d)
  BY DEF Keeps, SentLogExists
<1>2. \A d : Answered(m, d)' <=> Answered(m, d)
  BY DEF Keeps, Answered
<1>3. AtDevice(m)'
  BY <1>1 DEF NoteInv, AtDevice, Keeps
<1>4. SentOrFailed(m)'
  <2> SUFFICES ASSUME NEW d \in Devices
               PROVE /\ sends'[m][d] <= pushFaults' + 1
                     /\ SentLogExists(m, d)' \/ Unlogged(m, d)' \/ sends'[m][d] <= pushFaults'
    BY DEF SentOrFailed
  <2>1. sends[m][d] \in Nat /\ sends'[m][d] = sends[m][d] /\ pushFaults \in Nat /\ pushFaults' \in Nat
    BY DEF PushTypes, Keeps
  <2>2. Unlogged(m, d)' <=> Unlogged(m, d)
    BY DEF Unlogged, Keeps
  <2> QED BY <1>1, <2>1, <2>2 DEF NoteInv, SentOrFailed
<1>5. ListedIsAccounted(m)'
  BY <1>2 DEF NoteInv, ListedIsAccounted, Keeps
<1>6. EndedIsAnswered(m)'
  BY <1>2 DEF NoteInv, EndedIsAnswered, Keeps
<1> QED BY <1>3, <1>4, <1>5, <1>6 DEF NoteInv

\* A step of a run: it keeps the types and its own part of the invariant, and
\* leaves the other notifications alone.
RunStep(n) ==
  /\ PushTypes' /\ NoteInv(n)' /\ pushFaults <= pushFaults'
  /\ \A m \in Notes \ {n} : Keeps(m)

LEMMA RunStepKeepsInv ==
  ASSUME PushInv, NEW n \in Notes, RunStep(n)
  PROVE PushInv'
BY KeptNotes DEF PushInv, RunStep

\* The end of a run, which is not "done" unless all is answered.
LEMMA EndingRuns ==
  ASSUME PushInv, NEW n \in Notes, NEW next \in {"done", "queued", "archived"}, RunEnds(n, next),
         logs \subseteq logs', \A x \in logs' \ logs : x[1] = n /\ x[3] = "SKIPPED",
         UNCHANGED <<sends, listed>>, pushFaults' \in Nat, pushFaults <= pushFaults',
         push[n] = "log" => pushFaults < pushFaults',
         next = "done" => \/ <<n, NoPushToken, "SKIPPED">> \in logs'
                          \/ \A d \in listed[n] : Answered(n, d)
  PROVE RunStep(n)
<1>1. PushTypes'
  BY DEF PushInv, PushTypes, RunEnds, Step, Nowhere, Outcomes, Replies, PushSteps
<1>2. push'[n] = next
  BY DEF PushInv, PushTypes, RunEnds, Step
<1>3. AtDevice(n)' /\ ListedIsAccounted(n)'
  BY <1>2 DEF AtDevice, ListedIsAccounted, Sending, AmidDevices
<1>4. \A m, d, said : said # "SKIPPED" => (<<m, d, said>> \in logs' <=> <<m, d, said>> \in logs)
  OBVIOUS
<1>5. SentOrFailed(n)'
  <2> SUFFICES ASSUME NEW d \in Devices
               PROVE /\ sends'[n][d] <= pushFaults' + 1
                     /\ SentLogExists(n, d)' \/ sends'[n][d] <= pushFaults'
    BY DEF SentOrFailed
  <2>1. sends[n][d] \in Nat /\ pushFaults \in Nat
    BY DEF PushInv, PushTypes
  <2>2. SentLogExists(n, d)' <=> SentLogExists(n, d)
    BY <1>4 DEF SentLogExists
  <2>3. Unlogged(n, d) => pushFaults < pushFaults'
    BY DEF Unlogged
  <2> QED BY <2>1, <2>2, <2>3 DEF PushInv, NoteInv, SentOrFailed
<1>6. EndedIsAnswered(n)'
  <2>1. \A d : Answered(n, d)' <=> Answered(n, d)
    BY <1>4 DEF Answered
  <2> QED BY <1>2, <2>1 DEF EndedIsAnswered
<1>7. \A m \in Notes \ {n} : Keeps(m)
  BY DEF Keeps, PushInv, PushTypes, RunEnds, Step
<1>8. pushFaults <= pushFaults'
  OBVIOUS
<1> QED BY <1>1, <1>3, <1>5, <1>6, <1>7, <1>8 DEF RunStep, NoteInv

LEMMA SkippingRuns ==
  ASSUME PushInv, NEW n \in Notes, Skip(n), push[n] # "log", UNCHANGED <<sends, listed, pushFaults>>
  PROVE RunStep(n)
<1>1. RunEnds(n, "done") /\ logs' = logs \union {<<n, NoPushToken, "SKIPPED">>}
  BY DEF Skip
<1>2. /\ logs \subseteq logs' /\ \A x \in logs' \ logs : x[1] = n /\ x[3] = "SKIPPED"
      /\ <<n, NoPushToken, "SKIPPED">> \in logs'
  BY <1>1
<1>3. pushFaults' \in Nat /\ pushFaults <= pushFaults'
  BY DEF PushInv, PushTypes
<1> QED BY <1>1, <1>2, <1>3, EndingRuns

\* A run goes on to a step that is not at a device.
LEMMA GoingOn ==
  ASSUME PushInv, NEW n \in Notes, push[n] \in {"queued", "receipt"},
         NEW next \in {"receipt", "devices"}, GoOn(n, next),
         UNCHANGED <<sends, listed, pushFaults>>
  PROVE RunStep(n)
<1>1. PushTypes' /\ push'[n] = next
  BY DEF PushInv, PushTypes, GoOn, Step, PushSteps
<1>2. NoteInv(n)'
  BY <1>1
  DEF PushInv, NoteInv, AtDevice, SentOrFailed, ListedIsAccounted, EndedIsAnswered,
      SentLogExists, Unlogged, Sending, AmidDevices, GoOn
<1>3. \A m \in Notes \ {n} : Keeps(m)
  BY DEF Keeps, PushInv, PushTypes, GoOn, Step
<1> QED BY <1>1, <1>2, <1>3 DEF RunStep, PushInv, PushTypes

-----------------------------------------------------------------------------
(* The statements of a run. *)

LEMMA ChecksKeep ==
  ASSUME PushInv, NEW n \in Notes, CheckSettings(n) \/ CheckReceipt(n)
  PROVE RunStep(n)
BY SkippingRuns, GoingOn DEF CheckSettings, CheckReceipt

LEMMA ListingKeeps ==
  ASSUME PushInv, NEW n \in Notes, ListDevices(n)
  PROVE RunStep(n)
<1> DEFINE these == Active(Receiver[n])
<1>1. these \subseteq Devices
  BY DEF Active
<1> HIDE DEF these
<1>2. CASE these = {}
  <2>1. PushTypes'
    <3>1. Skip(n) /\ listed' = [listed EXCEPT ![n] = these] /\ UNCHANGED <<sends, pushFaults>>
      BY <1>2 DEF ListDevices, these
    <3>2. Nowhere \in Outcomes
      BY DEF Nowhere, Outcomes, Replies
    <3>3. outcome' = [outcome EXCEPT ![n] = Nowhere]
      BY <3>1 DEF Skip, RunEnds
    <3>4. outcome' \in [Notes -> Outcomes]
      BY <3>2, <3>3 DEF PushInv, PushTypes
    <3>5. push' \in [Notes -> PushSteps] /\ todo' \in [Notes -> SUBSET Devices]
      BY <3>1 DEF Skip, RunEnds, Step, PushInv, PushTypes, PushSteps
    <3> QED BY <1>1, <3>1, <3>4, <3>5 DEF PushInv, PushTypes
  <2>2. push'[n] = "done" /\ <<n, NoPushToken, "SKIPPED">> \in logs'
    BY <1>2 DEF ListDevices, these, Skip, RunEnds, Step, PushInv, PushTypes
  <2>3. \A d : SentLogExists(n, d)' <=> SentLogExists(n, d)
    BY <1>2 DEF ListDevices, these, Skip, SentLogExists
  <2>4. NoteInv(n)'
    BY <2>2, <2>3 DEF ListDevices, PushInv, NoteInv, AtDevice, SentOrFailed, Unlogged,
       ListedIsAccounted, EndedIsAnswered, Sending, AmidDevices
  <2>5. \A m \in Notes \ {n} : Keeps(m)
    BY <1>2 DEF ListDevices, these, Skip, RunEnds, Step, Keeps, PushInv, PushTypes
  <2> QED BY <2>1, <2>4, <2>5 DEF RunStep, ListDevices, PushInv, PushTypes
<1>3. CASE these # {}
  <2>1. PushTypes'
    BY <1>1, <1>3 DEF ListDevices, these, Step, PushInv, PushTypes, PushSteps, AmidDevices
  <2>2. push'[n] = "next" /\ listed'[n] = these /\ todo'[n] = these
    BY <1>3 DEF ListDevices, these, Step, PushInv, PushTypes
  <2>3. NoteInv(n)'
    BY <1>3, <2>2 DEF ListDevices, these, PushInv, NoteInv, AtDevice, SentOrFailed, SentLogExists,
       Unlogged, ListedIsAccounted, EndedIsAnswered, Sending, AmidDevices
  <2>4. \A m \in Notes \ {n} : Keeps(m)
    BY <1>3 DEF ListDevices, these, Step, Keeps, PushInv, PushTypes
  <2> QED BY <2>1, <2>3, <2>4 DEF RunStep, ListDevices, PushInv, PushTypes
<1> QED BY <1>2, <1>3

LEMMA NextDeviceKeeps ==
  ASSUME PushInv, NEW n \in Notes, NextDevice(n)
  PROVE RunStep(n)
<1> USE DEF PushInv, PushTypes
<1>1. CASE todo[n] = {} /\ RunEnds(n, IF n \in retry THEN Again(n) ELSE "done")
  <2> DEFINE next == IF n \in retry THEN Again(n) ELSE "done"
  <2>1. next \in {"done", "queued", "archived"}
    BY DEF Again
  <2>2. next = "done" => n \notin retry
    BY DEF Again
  <2>3. n \notin retry => \A d \in listed[n] : Answered(n, d)
    BY <1>1 DEF NextDevice, NoteInv, ListedIsAccounted, Sending, AmidDevices
  <2>4. RunEnds(n, next)
    BY <1>1
  <2> HIDE DEF next
  <2>5. /\ push[n] = "next" /\ UNCHANGED <<logs, sends, listed, pushFaults>>
        /\ pushFaults' \in Nat /\ pushFaults <= pushFaults'
    BY DEF NextDevice
  <2> QED BY <2>1, <2>2, <2>3, <2>4, <2>5, EndingRuns
<1>2. ASSUME NEW d \in todo[n], todo' = [todo EXCEPT ![n] = @ \ {d}], UNCHANGED retry,
             SentLogExists(n, d), UNCHANGED <<push, outcome>>
      PROVE RunStep(n)
  <2>1. Answered(n, d)
    BY <1>2 DEF SentLogExists, Answered
  <2>2. PushTypes'
    BY <1>2 DEF NextDevice
  <2>3. NoteInv(n)'
    BY <1>2, <2>1 DEF NextDevice, NoteInv, AtDevice, SentOrFailed, SentLogExists, Unlogged, Answered,
       ListedIsAccounted, EndedIsAnswered
  <2>4. \A m \in Notes \ {n} : Keeps(m)
    BY <1>2 DEF NextDevice, Keeps
  <2> QED BY <2>2, <2>3, <2>4 DEF RunStep, NextDevice
<1>3. ASSUME NEW d \in todo[n], todo' = [todo EXCEPT ![n] = @ \ {d}], UNCHANGED retry,
             ~SentLogExists(n, d), Step(n, "send"), outcome' = [outcome EXCEPT ![n].device = d]
      PROVE RunStep(n)
  <2>1. PushTypes'
    BY <1>3, SMTT(60) DEF NextDevice, Step, PushSteps, AmidDevices, Sending, Outcomes
  <2>2. push'[n] = "send" /\ outcome'[n].device = d /\ d \in Devices
    BY <1>3 DEF Step, Outcomes
  <2>3. push[n] = "next" /\ UNCHANGED <<logs, sends, listed, retry, pushFaults>>
    BY <1>3 DEF NextDevice
  <2>4. AtDevice(n)'
    BY <1>3, <2>2, <2>3 DEF AtDevice, SentLogExists
  <2>5. SentOrFailed(n)'
    BY <2>3 DEF NoteInv, SentOrFailed, SentLogExists, Unlogged
  <2>6. ListedIsAccounted(n)'
    BY <1>3, <2>2, <2>3 DEF NoteInv, ListedIsAccounted, Answered, AmidDevices, Sending
  <2>7. NoteInv(n)'
    BY <2>2, <2>4, <2>5, <2>6 DEF NoteInv, EndedIsAnswered
  <2>8. \A m \in Notes \ {n} : Keeps(m)
    BY <1>3 DEF NextDevice, Step, Keeps
  <2> QED BY <2>1, <2>3, <2>7, <2>8 DEF RunStep
<1> QED BY <1>1, <1>2, <1>3 DEF NextDevice

LEMMA SendingKeeps ==
  ASSUME PushInv, NEW n \in Notes, Send(n)
  PROVE RunStep(n)
<1> DEFINE at == outcome[n].device
<1>1. push[n] = "send" /\ at \in Devices /\ ~SentLogExists(n, at)
  BY DEF Send, PushInv, NoteInv, AtDevice, Sending
<1>2. sends[n][at] <= pushFaults /\ sends[n][at] \in Nat /\ pushFaults \in Nat
  BY <1>1 DEF PushInv, PushTypes, NoteInv, SentOrFailed, Unlogged
<1>3. PushTypes'
  <2>1. "SENT" \in Replies
    BY DEF Replies
  <2>2. outcome' \in [Notes -> Outcomes]
    BY <2>1 DEF Send, PushInv, PushTypes, Outcomes
  <2>3. push' \in [Notes -> PushSteps]
    BY DEF Send, Step, PushInv, PushTypes, PushSteps, AmidDevices, Sending
  <2>4. sends' \in [Notes -> [Devices -> Nat]]
    BY <1>1, <1>2 DEF Send, PushInv, PushTypes
  <2>5. UNCHANGED <<todo, listed, pushFaults>>
    BY DEF Send
  <2> QED BY <2>2, <2>3, <2>4, <2>5 DEF PushInv, PushTypes
<1>4. /\ push'[n] = "log" /\ outcome'[n].device = at /\ outcome'[n].said = "SENT"
      /\ sends'[n][at] = sends[n][at] + 1
      /\ \A d \in Devices \ {at} : sends'[n][d] = sends[n][d]
  BY <1>1 DEF Send, Step, PushInv, PushTypes, Outcomes
<1> HIDE DEF at
<1>5. SentOrFailed(n)'
  BY <1>1, <1>2, <1>4 DEF Send, PushInv, NoteInv, SentOrFailed, SentLogExists, Unlogged
<1>6. ListedIsAccounted(n)'
  BY <1>1, <1>4 DEF Send, PushInv, NoteInv, ListedIsAccounted, Answered, AmidDevices, Sending, at
<1>7. NoteInv(n)'
  BY <1>1, <1>4, <1>5, <1>6 DEF NoteInv, AtDevice, EndedIsAnswered
<1>8. \A m \in Notes \ {n} : Keeps(m)
  BY DEF Send, Step, Keeps, PushInv, PushTypes
<1> QED BY <1>3, <1>7, <1>8 DEF RunStep, Send, PushInv, PushTypes

LEMMA FailedSendsKeep ==
  ASSUME PushInv, NEW n \in Notes, SendFails(n)
  PROVE RunStep(n)
<1> USE DEF PushInv, PushTypes
<1>1. PICK said \in {"INVALID", "BUSY", "REFUSED"} :
        /\ outcome' = [outcome EXCEPT ![n].said = said]
        /\ retry' = IF said = "BUSY" THEN retry \union {n} ELSE retry
  BY DEF SendFails
<1>2. PushTypes' /\ pushFaults <= pushFaults'
  <2>1. said \in Replies
    BY DEF Replies
  <2>2. outcome' \in [Notes -> Outcomes]
    BY <1>1, <2>1 DEF Outcomes
  <2>3. push' \in [Notes -> PushSteps]
    BY DEF SendFails, Step, PushSteps, AmidDevices, Sending
  <2>4. UNCHANGED <<todo, listed, sends>> /\ pushFaults' = pushFaults + 1
    BY DEF SendFails, PushFault
  <2> QED BY <2>2, <2>3, <2>4
<1>3. /\ push[n] = "send" /\ push'[n] = "log"
      /\ outcome'[n].device = outcome[n].device /\ outcome'[n].said = said
  BY <1>1 DEF SendFails, Step, Outcomes
<1>4. AtDevice(n)'
  BY <1>1, <1>3 DEF AtDevice, NoteInv, Sending
<1>5. SentOrFailed(n)'
  <2>1. \A d \in Devices : sends[n][d] \in Nat /\ (SentLogExists(n, d) \/ sends[n][d] <= pushFaults)
    BY <1>3 DEF NoteInv, SentOrFailed, Unlogged
  <2> QED BY <2>1 DEF SendFails, PushFault, NoteInv, SentOrFailed, SentLogExists
<1>6. ListedIsAccounted(n)'
  BY <1>1, <1>3 DEF SendFails, NoteInv, ListedIsAccounted, Answered, AmidDevices, Sending
<1>7. NoteInv(n)'
  BY <1>3, <1>4, <1>5, <1>6 DEF NoteInv, EndedIsAnswered
<1>8. \A m \in Notes \ {n} : Keeps(m)
  BY <1>1 DEF SendFails, Step, Keeps
<1> QED BY <1>2, <1>7, <1>8 DEF RunStep

LEMMA LoggingKeeps ==
  ASSUME PushInv, NEW n \in Notes, LogDelivery(n)
  PROVE RunStep(n)
<1> USE DEF PushInv, PushTypes
<1> DEFINE d0 == outcome[n].device
           said == outcome[n].said
<1>1. /\ push[n] = "log" /\ d0 \in Devices /\ said \in Replies \ {"nothing"}
      /\ said = "BUSY" => n \in retry
  BY DEF LogDelivery, LogOutcome, NoteInv, AtDevice, Sending, Outcomes
<1>2. logs' = logs \union {<<n, d0, said>>} /\ UNCHANGED <<retry, sends, listed, todo, pushFaults>>
  BY DEF LogDelivery, LogOutcome
<1>3. PushTypes' /\ push'[n] = "next"
  BY DEF LogDelivery, LogOutcome, Step, PushSteps, AmidDevices, Outcomes, Replies, Nowhere
<1>4. \A m \in Notes \ {n} : Keeps(m)
  BY DEF LogDelivery, LogOutcome, Step, Keeps
<1> HIDE DEF d0, said
<1>5. SentOrFailed(n)'
  <2>1. \A d \in Devices : Unlogged(n, d) => SentLogExists(n, d)'
    BY <1>1, <1>2 DEF Unlogged, SentLogExists, d0, said
  <2>2. \A d \in Devices : SentLogExists(n, d) => SentLogExists(n, d)'
    BY <1>2 DEF SentLogExists
  <2> QED BY <1>2, <2>1, <2>2 DEF NoteInv, SentOrFailed
<1>6. ListedIsAccounted(n)'
  <2>1. \A d : Answered(n, d) => Answered(n, d)'
    BY <1>2 DEF Answered
  <2>2. said \in {"SENT", "INVALID", "REFUSED"} \/ n \in retry
    BY <1>1 DEF Replies
  <2>3. <<n, d0, said>> \in logs'
    BY <1>2
  <2>4. \A d : d = d0 => Answered(n, d)' \/ n \in retry
    BY <2>2, <2>3 DEF Answered
  <2>5. \A d \in listed[n] : d \in todo[n] \/ Answered(n, d) \/ n \in retry \/ d = d0
    BY <1>1 DEF NoteInv, ListedIsAccounted, AmidDevices, Sending, d0
  <2>6. UNCHANGED <<todo, listed, retry>>
    BY <1>2
  <2>7. \A d \in listed'[n] : d \in todo'[n] \/ Answered(n, d)' \/ n \in retry'
    BY <2>1, <2>4, <2>5, <2>6
  <2> QED BY <2>7 DEF ListedIsAccounted
<1>7. NoteInv(n)'
  BY <1>3, <1>5, <1>6 DEF NoteInv, AtDevice, EndedIsAnswered, Sending
<1> QED BY <1>2, <1>3, <1>4, <1>7 DEF RunStep

LEMMA FailingRunsKeep ==
  ASSUME PushInv, NEW n \in Notes, PushFails(n)
  PROVE RunStep(n)
<1>1. Again(n) \in {"queued", "archived"}
  BY DEF Again
<1>2. pushFaults' \in Nat /\ pushFaults < pushFaults'
  BY DEF PushFails, PushFault, PushInv, PushTypes
<1>3. pushFaults <= pushFaults'
  BY <1>2 DEF PushInv, PushTypes
<1> HIDE DEF Again
<1> QED BY <1>1, <1>2, <1>3, EndingRuns DEF PushFails

LEMMA RunsKeepInv ==
  ASSUME PushInv, NEW n \in Notes, ProcessSendPush(n)
  PROVE PushInv'
BY RunStepKeepsInv, ChecksKeep, ListingKeeps, NextDeviceKeeps, SendingKeeps, FailedSendsKeep,
   LoggingKeeps, FailingRunsKeep DEF ProcessSendPush

-----------------------------------------------------------------------------
(* Everything else. *)

\* A task that is enqueued anew has no listed device to account for.
LEMMA EnqueuingKeepsInv ==
  ASSUME PushInv, NEW k \in Calls, EnqueuePush(k)
  PROVE PushInv'
<1> DEFINE n == Head(calling[k].left)
<1>1. CASE UNCHANGED push
  BY <1>1 DEF EnqueuePush, PushInv, PushTypes, NoteInv, AtDevice, SentOrFailed, SentLogExists, Unlogged,
     ListedIsAccounted, Answered, EndedIsAnswered
<1>2. CASE push' = [push EXCEPT ![n] = "queued"] /\ push[n] \in {"none", "done"}
  <2> HIDE DEF n
  <2>1. PushTypes'
    BY <1>2 DEF EnqueuePush, PushInv, PushTypes, PushSteps
  <2>2. \A m \in Notes : push'[m] = push[m] \/ (push'[m] = "queued" /\ push[m] \in {"none", "done"})
    BY <1>2 DEF PushInv, PushTypes
  <2>3. \A m \in Notes : NoteInv(m)'
    BY <2>2 DEF EnqueuePush, PushInv, PushTypes, NoteInv, AtDevice, SentOrFailed, SentLogExists, Unlogged,
       ListedIsAccounted, Answered, EndedIsAnswered, Sending, AmidDevices
  <2> QED BY <2>1, <2>3 DEF PushInv
<1> QED BY <1>1, <1>2 DEF EnqueuePush, Step

LEMMA QuietKeepsInv ==
  ASSUME PushInv, UNCHANGED <<push, todo, outcome, retry, logs, sends, listed>>,
         pushFaults' \in Nat, pushFaults <= pushFaults'
  PROVE PushInv'
<1>1. PushTypes' /\ \A n \in Notes : Keeps(n)
  BY DEF PushInv, PushTypes, Keeps
<1> QED BY <1>1, KeptNotes DEF PushInv

LEMMA PushInvHolds == PushSpec => []PushInv
<1>1. PushInit => PushInv
  BY DEF PushInit, PushInv, PushTypes, PushSteps, Outcomes, Replies, Nowhere, NoteInv, AtDevice,
     SentOrFailed, ListedIsAccounted, EndedIsAnswered, Sending, AmidDevices
<1>2. PushInv /\ [PushNext]_pushVars => PushInv'
  <2> SUFFICES ASSUME PushInv, [PushNext]_pushVars PROVE PushInv'
    OBVIOUS
  <2>1. pushFaults \in Nat
    BY DEF PushInv, PushTypes
  <2>2. ASSUME NEW k \in Calls, CreateNote(k) \/ CallFails(k) PROVE PushInv'
    BY <2>1, <2>2, QuietKeepsInv DEF CreateNote, CallFails, PushFault, workVars
  <2>3. ASSUME NEW k \in Calls, EnqueuePush(k) PROVE PushInv'
    BY <2>3, EnqueuingKeepsInv
  <2>4. ASSUME NEW n \in Notes, ProcessSendPush(n) PROVE PushInv'
    BY <2>4, RunsKeepInv
  <2>5. ASSUME NEW n \in Notes, Acknowledge(n) \/ MarkNoteRead(n) PROVE PushInv'
    BY <2>1, <2>5, QuietKeepsInv DEF Acknowledge, MarkNoteRead, World, workVars
  <2>6. ASSUME NEW d \in Devices, Unregister(d) \/ \E t \in PushTokens : Register(d, t) PROVE PushInv'
    BY <2>1, <2>6, QuietKeepsInv DEF Unregister, Register, World, workVars
  <2>7. ASSUME NEW u \in Users, ChangeSettings(u) \/ MarkAllRead(u) PROVE PushInv'
    BY <2>1, <2>7, QuietKeepsInv DEF ChangeSettings, MarkAllRead, World, workVars
  <2>8. ASSUME UNCHANGED pushVars PROVE PushInv'
    BY <2>1, <2>8, QuietKeepsInv DEF pushVars, workVars
  <2> QED BY <2>2, <2>3, <2>4, <2>5, <2>6, <2>7, <2>8 DEF PushNext
<1> QED BY <1>1, <1>2, PTL DEF PushSpec

\* A device gets a notification once, and once more for each failure at most,
\* however often the event is told and the task is run (processDevices).
THEOREM PushesGoOutOnce == PushSpec => []PushedOnce
<1>1. PushInv => PushedOnce
  BY DEF PushInv, PushTypes, NoteInv, SentOrFailed, PushedOnce
<1> QED BY <1>1, PushInvHolds, PTL

\* A run that ends without an error was skipped, or each device it listed has
\* had the push or refused it (ProcessSendPush).
THEOREM EndedPushesAreAnswered == PushSpec => []EndedPushIsAnswered
<1>1. PushInv => EndedPushIsAnswered
  BY DEF PushInv, NoteInv, EndedIsAnswered, Answered, EndedPushIsAnswered
<1> QED BY <1>1, PushInvHolds, PTL
=============================================================================
