-------------------------------- MODULE Otp --------------------------------
(***************************************************************************)
(* One-time passwords of one identifier (internal/otp): a request passes    *)
(* the limits kept in redis, stores a code and enqueues its delivery; a     *)
(* worker delivers it; verifications compare with the newest code that is   *)
(* not consumed.  Nothing here runs in a transaction: every statement is a  *)
(* step, and what a verification has read is used after others have written.*)
(***************************************************************************)
EXTENDS Integers, FiniteSets

CONSTANTS
  MaxCodes,      \* requests that get past the limits
  MaxGuesses,    \* cfg.MaxAttempts
  MaxPerHour,    \* cfg.MaxPerIdentifierHour
  Deliveries,    \* runs of a delivery task: 1 + asynq.MaxRetry
  Verifiers,     \* handlers of verifications
  OtpBounds      \* bounds, of which a behaviour has one: how many codes there
                 \* are, who verifies, and how many calls fail or processes die

ASSUME OtpAssumption ==
  /\ MaxCodes \in Nat /\ MaxGuesses \in Nat \ {0} /\ MaxPerHour \in Nat
  /\ Deliveries \in Nat \ {0}
  /\ OtpBounds \subseteq [codes : 0 .. MaxCodes, verifiers : SUBSET Verifiers, faults : Nat]

Codes == 1 .. MaxCodes    \* in the order of created_at

VARIABLES
  codes,       \* otp_codes
  cooldown,    \* the key rl:otp:cooldown:<identifier> is there
  hourly,      \* rl:otp:identifier:hour:<identifier>: its count, and whether it expires
  asking,      \* where the request of each code is
  delivery,    \* where the delivery task of each code is
  runs,        \* how often it has run
  verifying,   \* where each verification is
  looked,      \* the code and attempt_count it has read, and the code it was given
  otpFaults,
  otpBound,    \* the bound of this behaviour
  messages,    \* observer: messages the provider took
  guesses,     \* observer: wrong guesses answered, for each code
  accepted,    \* observer: verifications accepted, for each code
  overlapped   \* observer: codes two verifications looked at at once

limits == <<cooldown, hourly>>
requests == <<asking, limits>>
tasks == <<delivery, runs, messages>>
verifications == <<verifying, looked, guesses, accepted, overlapped>>
otpVars == <<codes, requests, tasks, verifications, otpFaults, otpBound>>

Fault == otpFaults < otpBound.faults /\ otpFaults' = otpFaults + 1
NoFault == UNCHANGED otpFaults
NoRow(c) == codes[c].status = "NONE"
Mark(c, status) == codes' = [codes EXCEPT ![c].status = status]

-----------------------------------------------------------------------------
(* Request *)

\* SETNX: the key stays whatever becomes of the request.  The others find it
\* and are turned away.  (Bound: the hour's count stops one past its limit.)
TakeCooldown(c) ==
  /\ asking[c] = "idle" /\ c <= otpBound.codes /\ ~cooldown /\ hourly.count <= MaxPerHour
  /\ \A d \in Codes : d < c => asking[d] # "idle"
  /\ cooldown' = TRUE
  /\ asking' = [asking EXCEPT ![c] = "count"]
  /\ UNCHANGED <<codes, hourly, tasks, verifications, otpFaults>>

\* INCR, and EXPIRE if the key is new.  The error of EXPIRE is ignored: the
\* key then stays for good.
CountRequest(c) ==
  /\ asking[c] = "count"
  /\ \E expires \in (IF hourly.count = 0 THEN BOOLEAN ELSE {hourly.expires}) :
       /\ hourly' = [count |-> hourly.count + 1, expires |-> expires]
       /\ IF hourly.count = 0 /\ ~expires THEN Fault ELSE NoFault
  /\ asking' = [asking EXCEPT ![c] = IF hourly.count < MaxPerHour THEN "create" ELSE "idle"]
  /\ UNCHANGED <<codes, cooldown, tasks, verifications>>

CreateCode(c) ==
  /\ asking[c] = "create"
  /\ Mark(c, "PENDING")
  /\ asking' = [asking EXCEPT ![c] = "enqueue"]
  /\ UNCHANGED <<limits, tasks, verifications, otpFaults>>

EnqueueDelivery(c) ==
  /\ asking[c] = "enqueue"
  /\ delivery' = [delivery EXCEPT ![c] = "queued"]
  /\ asking' = [asking EXCEPT ![c] = "mark"]
  /\ UNCHANGED <<codes, limits, runs, messages, verifications, otpFaults>>

\* The queue answers with an error, though it may have taken the task.
EnqueueDeliveryFails(c) ==
  /\ asking[c] = "enqueue" /\ Fault
  /\ \E task \in {"none", "queued"} : delivery' = [delivery EXCEPT ![c] = task]
  /\ Mark(c, "FAILED")
  /\ asking' = [asking EXCEPT ![c] = "done"]
  /\ UNCHANGED <<limits, runs, messages, verifications>>

\* Whatever the worker has written in the meantime.
MarkQueued(c) ==
  /\ asking[c] = "mark"
  /\ Mark(c, "QUEUED")
  /\ asking' = [asking EXCEPT ![c] = "done"]
  /\ UNCHANGED <<limits, tasks, verifications, otpFaults>>

\* A statement fails, or the process dies: nothing is undone.
RequestFails(c) ==
  /\ asking[c] \in {"count", "create", "enqueue", "mark"} /\ Fault
  /\ asking' = [asking EXCEPT ![c] = "done"]
  /\ UNCHANGED <<codes, limits, tasks, verifications>>

CooldownEnds ==
  /\ cooldown /\ cooldown' = FALSE
  /\ UNCHANGED <<codes, asking, hourly, tasks, verifications, otpFaults>>

HourEnds ==
  /\ hourly.count > 0 /\ hourly.expires
  /\ hourly' = [count |-> 0, expires |-> FALSE]
  /\ UNCHANGED <<codes, asking, cooldown, tasks, verifications, otpFaults>>

-----------------------------------------------------------------------------
(* ProcessDeliverOTP *)

RunAgain(c) == IF runs[c] < Deliveries THEN "queued" ELSE "done"

BeginDelivery(c) ==
  /\ delivery[c] = "queued"
  /\ runs' = [runs EXCEPT ![c] = @ + 1]
  /\ \/ codes[c].expired /\ Mark(c, "EXPIRED") /\ delivery' = [delivery EXCEPT ![c] = "done"]
     \/ /\ ~codes[c].expired /\ codes[c].consumed
        /\ delivery' = [delivery EXCEPT ![c] = "done"] /\ UNCHANGED codes
     \/ /\ ~codes[c].expired /\ ~codes[c].consumed
        /\ delivery' = [delivery EXCEPT ![c] = "send"] /\ Mark(c, "SENDING")
  /\ UNCHANGED <<requests, messages, verifications, otpFaults>>

\* Before the message is sent, a read or an UPDATE of the code fails.
BeginDeliveryFails(c) ==
  /\ delivery[c] = "queued" /\ Fault
  /\ runs' = [runs EXCEPT ![c] = @ + 1]
  /\ delivery' = [delivery EXCEPT ![c] = IF runs[c] + 1 < Deliveries THEN "queued" ELSE "done"]
  /\ UNCHANGED <<codes, requests, messages, verifications>>

SendOTP(c) ==
  /\ delivery[c] = "send"
  /\ messages' = [messages EXCEPT ![c] = @ + 1]
  /\ delivery' = [delivery EXCEPT ![c] = "log"]
  /\ UNCHANGED <<codes, requests, runs, verifications, otpFaults>>

\* An error of the provider; the message may be out all the same.
ProviderFails(c) ==
  /\ delivery[c] = "send" /\ Fault
  /\ \E out \in {0, 1} : messages' = [messages EXCEPT ![c] = @ + out]
  /\ Mark(c, "FAILED")
  /\ delivery' = [delivery EXCEPT ![c] = RunAgain(c)]
  /\ UNCHANGED <<requests, runs, verifications>>

\* A plausible bug: the task ends with the error of an earlier run.
MarkSentAgain(c) ==
  /\ delivery[c] = "log"
  /\ Mark(c, "SENT")
  /\ delivery' = [delivery EXCEPT ![c] = RunAgain(c)]
  /\ UNCHANGED <<requests, runs, messages, verifications, otpFaults>>

\* The log, and the status.
MarkSent(c) ==
  /\ delivery[c] = "log"
  /\ Mark(c, "SENT")
  /\ delivery' = [delivery EXCEPT ![c] = "done"]
  /\ UNCHANGED <<requests, runs, messages, verifications, otpFaults>>

\* A statement fails or the worker dies: the queue runs the task again.
DeliveryFails(c) ==
  /\ delivery[c] \in {"send", "log"} /\ Fault
  /\ delivery' = [delivery EXCEPT ![c] = RunAgain(c)]
  /\ UNCHANGED <<codes, requests, runs, messages, verifications>>

-----------------------------------------------------------------------------
(* Verify *)

Open == {c \in Codes : ~NoRow(c) /\ ~codes[c].consumed}
Newest == {c \in Open : \A d \in Open : d <= c}

\* A user has the codes that were sent to him, or guesses (0).
Known == {c \in Codes : messages[c] > 0} \union {0}

Nothing == [code |-> 0, attempts |-> 0, given |-> 0]

Look(v, given) ==
  /\ verifying[v] = "idle" /\ v \in otpBound.verifiers /\ given \in Known
  /\ \E c \in Newest :
       \/ codes[c].expired /\ Mark(c, "EXPIRED") /\ UNCHANGED verifications
       \/ /\ ~codes[c].expired /\ codes[c].attempts < MaxGuesses
          /\ looked' = [looked EXCEPT ![v] = [code |-> c, attempts |-> codes[c].attempts, given |-> given]]
          /\ verifying' = [verifying EXCEPT ![v] = "write"]
          /\ overlapped' = IF \E w \in Verifiers : verifying[w] = "write" /\ looked[w].code = c
                           THEN overlapped \union {c} ELSE overlapped
          /\ UNCHANGED <<codes, guesses, accepted>>
  /\ UNCHANGED <<requests, tasks, otpFaults>>

Leave(v, step) ==
  /\ verifying' = [verifying EXCEPT ![v] = step] /\ looked' = [looked EXCEPT ![v] = Nothing]

\* A plausible bug: the last attempt is refused before it is counted.
RefuseUncounted(v) ==
  LET c == looked[v].code IN
  /\ verifying[v] = "write" /\ looked[v].given # c
  /\ IF looked[v].attempts + 1 >= MaxGuesses THEN UNCHANGED codes
     ELSE codes' = [codes EXCEPT ![c].attempts = looked[v].attempts + 1]
  /\ guesses' = [guesses EXCEPT ![c] = @ + 1]
  /\ Leave(v, "idle")
  /\ UNCHANGED <<requests, tasks, otpFaults, accepted, overlapped>>

\* One more than was read, not one more than is there.
Refuse(v) ==
  LET c == looked[v].code IN
  /\ verifying[v] = "write" /\ looked[v].given # c
  /\ codes' = [codes EXCEPT ![c].attempts = looked[v].attempts + 1]
  /\ guesses' = [guesses EXCEPT ![c] = @ + 1]
  /\ Leave(v, "idle")
  /\ UNCHANGED <<requests, tasks, otpFaults, accepted, overlapped>>

\* The error of the UPDATE is dropped: the guess is answered and not counted.
CountFails(v) ==
  LET c == looked[v].code IN
  /\ verifying[v] = "write" /\ looked[v].given # c /\ Fault
  /\ guesses' = [guesses EXCEPT ![c] = @ + 1]
  /\ Leave(v, "idle")
  /\ UNCHANGED <<codes, requests, tasks, accepted, overlapped>>

\* WHERE consumed_at IS NULL, but not asked whether that held.
Accept(v) ==
  LET c == looked[v].code IN
  /\ verifying[v] = "write" /\ looked[v].given = c
  /\ codes' = [codes EXCEPT ![c].consumed = TRUE]
  /\ accepted' = [accepted EXCEPT ![c] = @ + 1]
  /\ Leave(v, "done")
  /\ UNCHANGED <<requests, tasks, otpFaults, guesses, overlapped>>

\* The UPDATE answers with an error, and so does the verification: the code may
\* be consumed all the same.
ConsumeFails(v) ==
  LET c == looked[v].code IN
  /\ verifying[v] = "write" /\ looked[v].given = c /\ Fault
  /\ \/ UNCHANGED codes
     \/ codes' = [codes EXCEPT ![c].consumed = TRUE]
  /\ Leave(v, "idle")
  /\ UNCHANGED <<requests, tasks, guesses, accepted, overlapped>>

ExpireCode(c) ==
  /\ ~NoRow(c) /\ ~codes[c].expired
  /\ codes' = [codes EXCEPT ![c].expired = TRUE]
  /\ UNCHANGED <<requests, tasks, verifications, otpFaults>>

-----------------------------------------------------------------------------
OtpInit ==
  /\ codes = [c \in Codes |-> [status |-> "NONE", attempts |-> 0, expired |-> FALSE, consumed |-> FALSE]]
  /\ cooldown = FALSE /\ hourly = [count |-> 0, expires |-> FALSE]
  /\ asking = [c \in Codes |-> "idle"]
  /\ delivery = [c \in Codes |-> "none"] /\ runs = [c \in Codes |-> 0]
  /\ verifying = [v \in Verifiers |-> "idle"]
  /\ looked = [v \in Verifiers |-> Nothing]
  /\ otpFaults = 0 /\ otpBound \in OtpBounds
  /\ messages = [c \in Codes |-> 0] /\ guesses = [c \in Codes |-> 0]
  /\ accepted = [c \in Codes |-> 0] /\ overlapped = {}

OtpStep ==
  \/ \E c \in Codes :
       \/ TakeCooldown(c) \/ CountRequest(c) \/ CreateCode(c) \/ EnqueueDelivery(c)
       \/ EnqueueDeliveryFails(c) \/ MarkQueued(c) \/ RequestFails(c)
       \/ BeginDelivery(c) \/ BeginDeliveryFails(c) \/ SendOTP(c) \/ ProviderFails(c) \/ MarkSent(c) \/ DeliveryFails(c)
       \/ ExpireCode(c)
  \/ CooldownEnds \/ HourEnds
  \/ \E v \in Verifiers :
       \/ \E given \in Codes \union {0} : Look(v, given)
       \/ Refuse(v) \/ CountFails(v) \/ Accept(v) \/ ConsumeFails(v)

OtpNext == OtpStep /\ UNCHANGED otpBound

OtpSpec == OtpInit /\ [][OtpNext]_otpVars

-----------------------------------------------------------------------------
\* A code whose verifications did not overlap is accepted once at most, and every
\* wrong guess is in attempt_count, but for one at most with each call that failed:
\* no more than MaxAttempts are answered, and one more for each failure.
\* (Overlapping ones can each be accepted, and can set the count back.)
GuessesAreCounted ==
  \A c \in Codes \ overlapped :
    /\ accepted[c] <= 1
    /\ codes[c].attempts <= MaxGuesses
    /\ guesses[c] \in codes[c].attempts .. codes[c].attempts + otpFaults

\* A code goes out once, and once more for each failure at most; and when its
\* request and its delivery have ended without one, it has gone out, unless it
\* expired before.
DeliveredOnce ==
  \A c \in Codes :
    /\ messages[c] <= 1 + otpFaults
    /\ (asking[c] = "done" /\ delivery[c] \in {"none", "done"} /\ otpFaults = 0)
       => messages[c] = 1 \/ codes[c].expired
=============================================================================
