------------------------------ MODULE OtpProofs ------------------------------
(***************************************************************************)
(* Theorems about Otp, for any number of codes, guesses, deliveries,        *)
(* verifiers and failures.                                                  *)
(***************************************************************************)
EXTENDS Otp, TLAPS

Statuses == {"NONE", "PENDING", "QUEUED", "SENDING", "SENT", "FAILED", "EXPIRED"}
CodeRows == [status : Statuses, attempts : Nat, expired : BOOLEAN, consumed : BOOLEAN]
Looks == [code : Int, attempts : Nat, given : Int]

OtpTypes ==
  /\ codes \in [Codes -> CodeRows]
  /\ asking \in [Codes -> {"idle", "count", "create", "enqueue", "mark", "done"}]
  /\ delivery \in [Codes -> {"none", "queued", "send", "log", "done"}]
  /\ verifying \in [Verifiers -> {"idle", "write", "done"}]
  /\ looked \in [Verifiers -> Looks]
  /\ otpFaults \in Nat
  /\ messages \in [Codes -> Nat] /\ guesses \in [Codes -> Nat] /\ accepted \in [Codes -> Nat]

-----------------------------------------------------------------------------
(* The guesses. *)

At(v, c) == verifying[v] = "write" /\ looked[v].code = c

\* A code nobody has looked at during the verification of another: what its one
\* verification has read is still there.
Alone(c) ==
  /\ \A v, w \in Verifiers : At(v, c) /\ At(w, c) => v = w
  /\ \A v \in Verifiers : At(v, c) =>
       /\ looked[v].attempts = codes[c].attempts /\ looked[v].attempts < MaxGuesses
       /\ ~codes[c].consumed
  /\ accepted[c] = 0 \/ (accepted[c] = 1 /\ codes[c].consumed)
  /\ codes[c].attempts <= MaxGuesses
  /\ codes[c].attempts <= guesses[c] /\ guesses[c] <= codes[c].attempts + otpFaults

GuessInv ==
  /\ \A v \in Verifiers : verifying[v] = "write" => looked[v].code \in Codes
  /\ \A c \in Codes \ overlapped : Alone(c)

\* A code keeps what GuessInv says of it.
SameCounts ==
  \A c \in Codes : /\ codes'[c].attempts = codes[c].attempts
                   /\ codes'[c].consumed = codes[c].consumed

LEMMA MarkKeeps ==
  ASSUME OtpTypes, NEW c \in Codes, NEW status \in Statuses, Mark(c, status)
  PROVE /\ codes' \in [Codes -> CodeRows] /\ SameCounts
        /\ \A d \in Codes : codes'[d].expired = codes[d].expired
BY DEF OtpTypes, Mark, CodeRows, SameCounts

LEMMA CountsKeepGuessInv ==
  ASSUME OtpTypes, GuessInv, SameCounts, UNCHANGED verifications,
         otpFaults <= otpFaults', otpFaults' \in Nat
  PROVE GuessInv'
<1>1. \A c \in Codes : codes[c].attempts \in Nat /\ guesses[c] \in Nat
  BY DEF OtpTypes, CodeRows
<1>2. otpFaults \in Nat
  BY DEF OtpTypes
<1> QED BY <1>1, <1>2 DEF GuessInv, Alone, At, SameCounts, verifications

LEMMA LookingKeepsGuessInv ==
  ASSUME OtpTypes, GuessInv, NEW v \in Verifiers, NEW given \in Codes \union {0}, Look(v, given)
  PROVE OtpTypes' /\ GuessInv'
<1>1. PICK c \in Newest :
       \/ codes[c].expired /\ Mark(c, "EXPIRED") /\ UNCHANGED verifications
       \/ /\ ~codes[c].expired /\ codes[c].attempts < MaxGuesses
          /\ looked' = [looked EXCEPT ![v] = [code |-> c, attempts |-> codes[c].attempts, given |-> given]]
          /\ verifying' = [verifying EXCEPT ![v] = "write"]
          /\ overlapped' = IF \E w \in Verifiers : verifying[w] = "write" /\ looked[w].code = c
                           THEN overlapped \union {c} ELSE overlapped
          /\ UNCHANGED <<codes, guesses, accepted>>
  BY DEF Look
<1>2. c \in Codes /\ ~codes[c].consumed /\ codes[c].attempts \in Nat
  BY <1>1 DEF Newest, Open, OtpTypes, CodeRows
<1>3. UNCHANGED <<requests, tasks, otpFaults>>
  BY DEF Look
<1>4. CASE codes[c].expired
  <2>1. Mark(c, "EXPIRED") /\ UNCHANGED verifications
    BY <1>1, <1>4
  <2>2. codes' \in [Codes -> CodeRows] /\ SameCounts
    BY <1>2, <2>1, MarkKeeps DEF Statuses
  <2>3. OtpTypes'
    BY <1>3, <2>1, <2>2 DEF OtpTypes, requests, tasks, verifications
  <2> QED BY <1>3, <2>1, <2>2, <2>3, CountsKeepGuessInv DEF OtpTypes
<1>5. CASE ~codes[c].expired
  <2> DEFINE x == [code |-> c, attempts |-> codes[c].attempts, given |-> given]
  <2>1. x \in Looks /\ x.code = c /\ x.attempts = codes[c].attempts
    BY <1>2 DEF Looks, Codes
  <2>2. /\ looked' = [looked EXCEPT ![v] = x]
        /\ verifying' = [verifying EXCEPT ![v] = "write"]
        /\ overlapped' = IF \E w \in Verifiers : verifying[w] = "write" /\ looked[w].code = c
                         THEN overlapped \union {c} ELSE overlapped
        /\ UNCHANGED <<codes, guesses, accepted>> /\ codes[c].attempts < MaxGuesses
    BY <1>1, <1>5
  <2> HIDE DEF x
  <2>3. OtpTypes'
    BY <1>3, <2>1, <2>2 DEF OtpTypes, requests, tasks
  <2>4. At(v, c)' /\ looked'[v].attempts = codes[c].attempts
    BY <2>1, <2>2 DEF At, OtpTypes
  <2>5. \A d \in Codes : \A w \in Verifiers :
          At(w, d)' => (w = v /\ d = c) \/ (w # v /\ At(w, d) /\ looked'[w] = looked[w])
    BY <2>1, <2>2 DEF At, OtpTypes
  <2>6. \A d \in Codes \ overlapped' : Alone(d)'
    <3> SUFFICES ASSUME NEW d \in Codes, d \notin overlapped' PROVE Alone(d)'
      OBVIOUS
    <3>1. Alone(d)
      BY <2>2 DEF GuessInv
    <3>2. d = c => \A w \in Verifiers : ~At(w, c)
      BY <2>2 DEF At
    <3>3. otpFaults' = otpFaults
      BY <1>3
    <3> QED BY <1>2, <2>2, <2>4, <2>5, <3>1, <3>2, <3>3 DEF Alone
  <2> QED BY <1>2, <2>1, <2>2, <2>3, <2>6 DEF GuessInv, OtpTypes
<1> QED BY <1>4, <1>5

\* A verification leaves its code, to which it has written.
LEMMA LeavingVerifications ==
  ASSUME OtpTypes, GuessInv, NEW v \in Verifiers, NEW step \in {"idle", "done"}, Leave(v, step)
  PROVE /\ verifying' \in [Verifiers -> {"idle", "write", "done"}] /\ looked' \in [Verifiers -> Looks]
        /\ \A w \in Verifiers : \A c : At(w, c)' => w # v /\ At(w, c) /\ looked'[w] = looked[w]
<1>1. Nothing \in Looks
  BY DEF Nothing, Looks
<1> HIDE DEF Nothing
<1> QED BY <1>1 DEF Leave, OtpTypes, At

LEMMA WritingKeepsGuessInv ==
  ASSUME OtpTypes, GuessInv, NEW v \in Verifiers,
         Refuse(v) \/ CountFails(v) \/ Accept(v) \/ ConsumeFails(v)
  PROVE OtpTypes' /\ GuessInv'
<1>1. PICK c \in Codes : At(v, c)
  BY DEF Refuse, CountFails, Accept, ConsumeFails, At, GuessInv
<1>2. PICK step \in {"idle", "done"} : Leave(v, step)
  BY DEF Refuse, CountFails, Accept, ConsumeFails
<1>3. /\ verifying' \in [Verifiers -> {"idle", "write", "done"}] /\ looked' \in [Verifiers -> Looks]
      /\ \A w \in Verifiers : \A d : At(w, d)' => w # v /\ At(w, d) /\ looked'[w] = looked[w]
  BY <1>2, LeavingVerifications
<1>4. UNCHANGED <<requests, tasks, overlapped>> /\ otpFaults' \in {otpFaults, otpFaults + 1}
  BY DEF Refuse, CountFails, Accept, ConsumeFails, Fault
<1>5. c \notin overlapped => Alone(c)
  BY <1>1 DEF GuessInv
<1>6. c \notin overlapped =>
        /\ \A w \in Verifiers : ~At(w, c)'
        /\ looked[v].attempts = codes[c].attempts /\ looked[v].attempts < MaxGuesses
        /\ ~codes[c].consumed /\ accepted[c] = 0 /\ codes[c].attempts <= guesses[c]
        /\ guesses[c] <= codes[c].attempts + otpFaults
  BY <1>1, <1>3, <1>5 DEF Alone
<1>7. \A w \in Verifiers : verifying'[w] = "write" => looked'[w].code \in Codes
  BY <1>3 DEF GuessInv, At
<1>8. /\ looked[v].attempts \in Nat /\ MaxGuesses \in Nat /\ otpFaults \in Nat
      /\ \A d \in Codes : codes[d].attempts \in Nat /\ guesses[d] \in Nat /\ accepted[d] \in Nat
  BY <1>1, OtpAssumption DEF OtpTypes, Looks, CodeRows
\* The other codes keep what they have, and c what it needs: that is enough.
<1>9. ASSUME codes' \in [Codes -> CodeRows], guesses' \in [Codes -> Nat], accepted' \in [Codes -> Nat],
             \A d \in Codes \ {c} : /\ codes'[d] = codes[d] /\ guesses'[d] = guesses[d]
                                    /\ accepted'[d] = accepted[d],
             c \notin overlapped => Alone(c)'
      PROVE OtpTypes' /\ GuessInv'
  <2>1. OtpTypes'
    BY <1>3, <1>4, <1>8, <1>9 DEF OtpTypes, requests, tasks
  <2>2. \A d \in Codes \ {c} : Alone(d) => Alone(d)'
    BY <1>3, <1>4, <1>8, <1>9 DEF Alone
  <2> QED BY <1>4, <1>7, <1>9, <2>1, <2>2 DEF GuessInv
<1>10. ASSUME guesses' = [guesses EXCEPT ![c] = @ + 1]
       PROVE /\ guesses' \in [Codes -> Nat] /\ guesses'[c] = guesses[c] + 1
             /\ \A d \in Codes \ {c} : guesses'[d] = guesses[d]
  BY <1>8, <1>10 DEF OtpTypes
<1>11. ASSUME codes' = [codes EXCEPT ![c].consumed = TRUE]
       PROVE /\ codes' \in [Codes -> CodeRows]
             /\ codes'[c].attempts = codes[c].attempts /\ codes'[c].consumed
             /\ \A d \in Codes \ {c} : codes'[d] = codes[d]
  <2>1. [codes[c] EXCEPT !.consumed = TRUE] \in CodeRows
    BY DEF OtpTypes, CodeRows
  <2>2. codes' = [codes EXCEPT ![c] = [codes[c] EXCEPT !.consumed = TRUE]]
    BY <1>11
  <2> QED BY <2>1, <2>2 DEF OtpTypes, CodeRows
<1>12. CASE Refuse(v)
  <2>1. /\ codes' = [codes EXCEPT ![c].attempts = looked[v].attempts + 1]
        /\ guesses' = [guesses EXCEPT ![c] = @ + 1] /\ accepted' = accepted
        /\ otpFaults' = otpFaults
    BY <1>1, <1>12 DEF Refuse, At
  <2>2. codes' \in [Codes -> CodeRows]
    BY <1>8, <2>1 DEF OtpTypes, CodeRows
  <2>3. /\ codes'[c].attempts = looked[v].attempts + 1 /\ codes'[c].consumed = codes[c].consumed
        /\ \A d \in Codes \ {c} : codes'[d] = codes[d]
    BY <2>1 DEF OtpTypes, CodeRows
  <2>4. c \notin overlapped => Alone(c)'
    BY <1>5, <1>6, <1>8, <1>10, <2>1, <2>3 DEF Alone
  <2> QED BY <1>9, <1>10, <2>1, <2>2, <2>3, <2>4 DEF OtpTypes
<1>13. CASE CountFails(v)
  <2>1. /\ guesses' = [guesses EXCEPT ![c] = @ + 1] /\ UNCHANGED <<codes, accepted>>
        /\ otpFaults' = otpFaults + 1
    BY <1>1, <1>13 DEF CountFails, At, Fault
  <2>2. c \notin overlapped => Alone(c)'
    BY <1>5, <1>6, <1>8, <1>10, <2>1 DEF Alone
  <2> QED BY <1>9, <1>10, <2>1, <2>2 DEF OtpTypes
<1>14. CASE Accept(v)
  <2>1. /\ codes' = [codes EXCEPT ![c].consumed = TRUE]
        /\ accepted' = [accepted EXCEPT ![c] = @ + 1] /\ guesses' = guesses
        /\ otpFaults' = otpFaults
    BY <1>1, <1>14 DEF Accept, At
  <2>2. /\ accepted' \in [Codes -> Nat] /\ accepted'[c] = accepted[c] + 1
        /\ \A d \in Codes \ {c} : accepted'[d] = accepted[d]
    BY <1>8, <2>1 DEF OtpTypes
  <2>3. c \notin overlapped => Alone(c)'
    BY <1>5, <1>6, <1>8, <1>11, <2>1, <2>2 DEF Alone
  <2> QED BY <1>9, <1>11, <2>1, <2>2, <2>3 DEF OtpTypes
<1>15. CASE ConsumeFails(v)
  <2>1. UNCHANGED <<guesses, accepted>> /\ otpFaults' = otpFaults + 1
        /\ \/ UNCHANGED codes
           \/ codes' = [codes EXCEPT ![c].consumed = TRUE]
    BY <1>1, <1>15 DEF ConsumeFails, At, Fault
  <2>2. /\ codes' \in [Codes -> CodeRows] /\ codes'[c].attempts = codes[c].attempts
        /\ \A d \in Codes \ {c} : codes'[d] = codes[d]
    BY <1>11, <2>1 DEF OtpTypes
  <2>3. c \notin overlapped => Alone(c)'
    BY <1>5, <1>6, <1>8, <2>1, <2>2 DEF Alone
  <2> QED BY <1>9, <2>1, <2>2, <2>3 DEF OtpTypes
<1> QED BY <1>12, <1>13, <1>14, <1>15

-----------------------------------------------------------------------------
(* The messages. *)

\* A code has one task, which is there once its request has enqueued it.  It has
\* gone out no more often than the task has failed, and once more when it is
\* sent and not yet logged, or done.
Delivered(c) ==
  /\ asking[c] \in {"idle", "count", "create", "enqueue"} => delivery[c] = "none"
  /\ asking[c] = "mark" \/ (asking[c] = "done" /\ otpFaults = 0) => delivery[c] # "none"
  /\ delivery[c] = "none" => messages[c] = 0
  /\ delivery[c] \in {"queued", "send"} => messages[c] <= otpFaults
  /\ delivery[c] = "log" => messages[c] >= 1
  /\ messages[c] <= 1 + otpFaults
  /\ delivery[c] = "done" /\ otpFaults = 0 => messages[c] = 1 \/ codes[c].expired
  /\ codes[c].consumed => messages[c] >= 1

\* Who gives a code has been sent it.
GivenWasSent ==
  \A v \in Verifiers : verifying[v] = "write" /\ looked[v].given \in Codes =>
    messages[looked[v].given] >= 1

SentInv == GivenWasSent /\ \A c \in Codes : Delivered(c)

OtpInv == OtpTypes /\ GuessInv /\ SentInv

\* What is kept of a code stays as it is.
KeepsCode(d) ==
  /\ asking'[d] = asking[d] /\ delivery'[d] = delivery[d] /\ messages'[d] = messages[d]
  /\ codes'[d].expired = codes[d].expired /\ codes'[d].consumed = codes[d].consumed

\* A step of the request or of the task of one code.
CodeStep(c) ==
  /\ OtpTypes' /\ Delivered(c)' /\ otpFaults <= otpFaults' /\ messages[c] <= messages'[c]
  /\ \A d \in Codes \ {c} : KeepsCode(d)
  /\ SameCounts /\ UNCHANGED verifications

LEMMA CodeStepKeepsInv ==
  ASSUME OtpInv, NEW c \in Codes, CodeStep(c)
  PROVE OtpInv'
<1>1. GuessInv'
  BY CountsKeepGuessInv DEF OtpInv, CodeStep, OtpTypes
<1>2. \A d \in Codes : Delivered(d)'
  BY DEF CodeStep, OtpInv, SentInv, Delivered, KeepsCode, OtpTypes
<1>3. \A d \in Codes : messages[d] <= messages'[d] /\ messages[d] \in Nat /\ messages'[d] \in Nat
  BY DEF CodeStep, KeepsCode, OtpInv, OtpTypes
<1>4. GivenWasSent'
  BY <1>3 DEF CodeStep, verifications, OtpInv, SentInv, GivenWasSent
<1> QED BY <1>1, <1>2, <1>4 DEF CodeStep, OtpInv, SentInv

LEMMA RequestsKeepInv ==
  ASSUME OtpInv, NEW c \in Codes,
         \/ TakeCooldown(c) \/ CountRequest(c) \/ CreateCode(c) \/ EnqueueDelivery(c)
         \/ EnqueueDeliveryFails(c) \/ MarkQueued(c) \/ RequestFails(c)
  PROVE OtpInv'
<1> USE DEF OtpInv, SentInv, Delivered, KeepsCode, tasks, limits
<1>1. ASSUME UNCHANGED <<codes, tasks, verifications>>, otpFaults' \in {otpFaults, otpFaults + 1},
             NEW step \in {"idle", "count", "create", "done"}, asking' = [asking EXCEPT ![c] = step],
             \/ asking[c] \in {"idle", "count"} /\ step # "done"
             \/ step = "done" /\ otpFaults' = otpFaults + 1
      PROVE OtpInv'
  <2>1. OtpTypes'
    BY <1>1 DEF OtpTypes, verifications
  <2>2. Delivered(c)'
    BY <1>1 DEF OtpTypes
  <2> QED BY <1>1, <2>1, <2>2, CodeStepKeepsInv DEF CodeStep, SameCounts, OtpTypes
<1>2. ASSUME NEW status \in Statuses, Mark(c, status), UNCHANGED <<runs, messages, verifications>>,
             NEW step \in {"enqueue", "done"}, asking' = [asking EXCEPT ![c] = step],
             NEW task \in {"none", "queued"}, delivery' = [delivery EXCEPT ![c] = task],
             asking[c] \in {"create", "enqueue"}, otpFaults' \in {otpFaults, otpFaults + 1},
             step = "enqueue" => task = "none", step = "done" => otpFaults' = otpFaults + 1
      PROVE OtpInv'
  <2>1. codes' \in [Codes -> CodeRows] /\ SameCounts /\ \A d \in Codes : codes'[d].expired = codes[d].expired
    BY <1>2, MarkKeeps
  <2>2. OtpTypes'
    <3>1. asking' \in [Codes -> {"idle", "count", "create", "enqueue", "mark", "done"}]
      BY <1>2 DEF OtpTypes
    <3>2. delivery' \in [Codes -> {"none", "queued", "send", "log", "done"}]
      BY <1>2 DEF OtpTypes
    <3>3. otpFaults' \in Nat
      BY <1>2 DEF OtpTypes
    <3> QED BY <1>2, <2>1, <3>1, <3>2, <3>3 DEF OtpTypes, verifications
  <2>3. Delivered(c)'
    BY <1>2, <2>1 DEF OtpTypes, SameCounts
  <2> QED BY <1>2, <2>1, <2>2, <2>3, CodeStepKeepsInv DEF CodeStep, SameCounts, OtpTypes
<1>3. CASE TakeCooldown(c)
  BY <1>1, <1>3 DEF TakeCooldown
<1>4. CASE CountRequest(c)
  <2>1. UNCHANGED <<codes, tasks, verifications>> /\ otpFaults' \in {otpFaults, otpFaults + 1}
        /\ asking[c] = "count"
    BY <1>4 DEF CountRequest, Fault, NoFault
  <2>2. PICK step \in {"idle", "create"} : asking' = [asking EXCEPT ![c] = step]
    BY <1>4 DEF CountRequest
  <2> QED BY <1>1, <2>1, <2>2
<1>5. CASE CreateCode(c)
  <2>1. delivery' = [delivery EXCEPT ![c] = "none"]
    BY <1>5 DEF CreateCode, OtpTypes
  <2> QED BY <1>2, <1>5, <2>1 DEF CreateCode, Statuses
<1>6. CASE EnqueueDelivery(c)
  <2>1. OtpTypes'
    BY <1>6 DEF EnqueueDelivery, OtpTypes, verifications
  <2>2. Delivered(c)'
    BY <1>6 DEF EnqueueDelivery, OtpTypes
  <2> QED BY <1>6, <2>1, <2>2, CodeStepKeepsInv DEF EnqueueDelivery, CodeStep, SameCounts, OtpTypes
<1>7. CASE EnqueueDeliveryFails(c)
  BY <1>2, <1>7 DEF EnqueueDeliveryFails, Fault, Statuses
<1>8. CASE MarkQueued(c)
  <2>1. codes' \in [Codes -> CodeRows] /\ SameCounts /\ \A d \in Codes : codes'[d].expired = codes[d].expired
    BY <1>8, MarkKeeps DEF MarkQueued, Statuses
  <2>2. OtpTypes'
    BY <1>8, <2>1 DEF MarkQueued, OtpTypes, verifications
  <2>3. Delivered(c)'
    BY <1>8, <2>1 DEF MarkQueued, OtpTypes, SameCounts
  <2> QED BY <1>8, <2>1, <2>2, <2>3, CodeStepKeepsInv, SMTT(60) DEF MarkQueued, CodeStep, SameCounts, OtpTypes
<1>9. CASE RequestFails(c)
  BY <1>1, <1>9 DEF RequestFails, Fault
<1> QED BY <1>3, <1>4, <1>5, <1>6, <1>7, <1>8, <1>9

\* A run of the task: what it writes to the code is its status, and what it sends
\* fits where it comes from and where it goes.
DeliveryMoves(c) ==
  /\ UNCHANGED <<asking, verifications>>
  /\ SameCounts /\ codes' \in [Codes -> CodeRows] /\ \A d \in Codes : codes'[d].expired = codes[d].expired
  /\ \E sent \in {0, 1} : messages' = [messages EXCEPT ![c] = @ + sent]
  /\ \E task \in {"queued", "send", "log", "done"} : delivery' = [delivery EXCEPT ![c] = task]
  /\ otpFaults' \in {otpFaults, otpFaults + 1}
  /\ delivery[c] \in {"queued", "send", "log"}

LEMMA DeliveryMovesKeepInv ==
  ASSUME OtpInv, NEW c \in Codes, DeliveryMoves(c), Delivered(c)'
  PROVE OtpInv'
<1>1. OtpTypes' /\ messages[c] <= messages'[c]
  BY DEF OtpInv, OtpTypes, DeliveryMoves, verifications
<1> QED BY <1>1, CodeStepKeepsInv DEF DeliveryMoves, CodeStep, KeepsCode, SameCounts, OtpInv, OtpTypes

LEMMA DeliveriesKeepInv ==
  ASSUME OtpInv, NEW c \in Codes,
         \/ BeginDelivery(c) \/ BeginDeliveryFails(c)
         \/ SendOTP(c) \/ ProviderFails(c) \/ MarkSent(c) \/ DeliveryFails(c)
  PROVE OtpInv'
<1>1. messages[c] \in Nat /\ otpFaults \in Nat /\ Delivered(c)
  BY DEF OtpInv, OtpTypes, SentInv
<1>2. UNCHANGED codes => SameCounts /\ codes' \in [Codes -> CodeRows]
        /\ \A d \in Codes : codes'[d].expired = codes[d].expired
  BY DEF SameCounts, OtpInv, OtpTypes
<1>3. \A status \in Statuses : Mark(c, status) => SameCounts /\ codes' \in [Codes -> CodeRows]
        /\ \A d \in Codes : codes'[d].expired = codes[d].expired
  BY MarkKeeps DEF OtpInv
<1>4. UNCHANGED messages => \E sent \in {0, 1} : messages' = [messages EXCEPT ![c] = @ + sent]
  BY DEF OtpInv, OtpTypes
<1>5. RunAgain(c) \in {"queued", "done"}
  BY DEF RunAgain
<1> HIDE DEF RunAgain
<1>6. CASE BeginDelivery(c)
  <2>1. DeliveryMoves(c)
    BY <1>2, <1>3, <1>4, <1>6 DEF BeginDelivery, DeliveryMoves, requests, Statuses
  <2>2. messages' = messages /\ otpFaults' = otpFaults /\ asking' = asking /\ delivery[c] = "queued"
        /\ \/ delivery'[c] = "send"
           \/ delivery'[c] = "done" /\ (codes[c].expired \/ codes[c].consumed)
    BY <1>6 DEF BeginDelivery, requests, OtpInv, OtpTypes
  <2>3. Delivered(c)'
    BY <1>1, <2>1, <2>2 DEF Delivered, DeliveryMoves, SameCounts
  <2> QED BY <2>1, <2>3, DeliveryMovesKeepInv
<1>7. CASE SendOTP(c)
  <2>1. DeliveryMoves(c)
    BY <1>2, <1>7 DEF SendOTP, DeliveryMoves, requests
  <2>2. Delivered(c)'
    BY <1>1, <1>7 DEF SendOTP, Delivered, requests, OtpInv, OtpTypes
  <2> QED BY <2>1, <2>2, DeliveryMovesKeepInv
<1>8. CASE ProviderFails(c)
  <2>1. DeliveryMoves(c)
    BY <1>3, <1>5, <1>8 DEF ProviderFails, Fault, DeliveryMoves, requests, Statuses
  <2>2. Delivered(c)'
    BY <1>1, <1>5, <1>8, <2>1 DEF ProviderFails, Fault, Delivered, requests, OtpInv, OtpTypes,
       DeliveryMoves, SameCounts
  <2> QED BY <2>1, <2>2, DeliveryMovesKeepInv
<1>9. CASE MarkSent(c)
  <2>1. DeliveryMoves(c)
    BY <1>3, <1>4, <1>9 DEF MarkSent, DeliveryMoves, requests, Statuses
  <2>2. Delivered(c)'
    BY <1>1, <1>9, <2>1 DEF MarkSent, Delivered, requests, OtpInv, OtpTypes, DeliveryMoves, SameCounts
  <2> QED BY <2>1, <2>2, DeliveryMovesKeepInv
<1>10. CASE DeliveryFails(c)
  <2>1. DeliveryMoves(c)
    BY <1>2, <1>4, <1>5, <1>10 DEF DeliveryFails, Fault, DeliveryMoves, requests
  <2>2. Delivered(c)'
    BY <1>1, <1>5, <1>10 DEF DeliveryFails, Fault, Delivered, requests, OtpInv, OtpTypes
  <2> QED BY <2>1, <2>2, DeliveryMovesKeepInv
<1>11. CASE BeginDeliveryFails(c)
  <2>1. /\ delivery[c] = "queued" /\ UNCHANGED <<codes, requests, messages, verifications>>
        /\ otpFaults' = otpFaults + 1
        /\ \E task \in {"queued", "done"} : delivery' = [delivery EXCEPT ![c] = task]
    BY <1>11 DEF BeginDeliveryFails, Fault
  <2>2. DeliveryMoves(c)
    BY <1>2, <1>4, <2>1 DEF DeliveryMoves, requests
  <2>3. Delivered(c)'
    BY <1>1, <2>1 DEF Delivered, requests, OtpInv, OtpTypes
  <2> QED BY <2>2, <2>3, DeliveryMovesKeepInv
<1> QED BY <1>6, <1>7, <1>8, <1>9, <1>10, <1>11

LEMMA VerifyingKeepsInv ==
  ASSUME OtpInv, NEW v \in Verifiers,
         \/ \E given \in Codes \union {0} : Look(v, given)
         \/ Refuse(v) \/ CountFails(v) \/ Accept(v) \/ ConsumeFails(v)
  PROVE OtpInv'
<1>1. OtpTypes' /\ GuessInv'
  BY LookingKeepsGuessInv, WritingKeepsGuessInv DEF OtpInv
<1>2. UNCHANGED <<asking, delivery, messages>> /\ otpFaults' \in {otpFaults, otpFaults + 1}
  BY DEF Look, Refuse, CountFails, Accept, ConsumeFails, Fault, requests, tasks
<1>3. \A c \in Codes : codes'[c].expired = codes[c].expired
                      /\ (codes'[c].consumed => codes[c].consumed \/ messages[c] >= 1)
  <2>1. ASSUME NEW given \in Codes \union {0}, Look(v, given)
        PROVE \A c \in Codes : codes'[c].expired = codes[c].expired /\ codes'[c].consumed = codes[c].consumed
    BY <2>1, MarkKeeps DEF Look, Newest, Open, Statuses, SameCounts, OtpInv
  <2>2. CASE Refuse(v)
    BY <2>2 DEF Refuse, OtpInv, OtpTypes, CodeRows
  <2>3. CASE Accept(v) \/ ConsumeFails(v)
    <3>1. PICK c \in Codes : c = looked[v].code
      BY <2>3 DEF Accept, ConsumeFails, OtpInv, GuessInv
    <3>2. /\ UNCHANGED codes \/ codes' = [codes EXCEPT ![c].consumed = TRUE]
          /\ messages[c] >= 1
      BY <2>3, <3>1 DEF Accept, ConsumeFails, OtpInv, SentInv, GivenWasSent
    <3> QED BY <3>2 DEF OtpInv, OtpTypes, CodeRows
  <2>4. CASE CountFails(v)
    BY <2>4 DEF CountFails
  <2> QED BY <2>1, <2>2, <2>3, <2>4
<1>4. \A c \in Codes : Delivered(c)'
  BY <1>2, <1>3 DEF OtpInv, OtpTypes, SentInv, Delivered
<1>5. GivenWasSent'
  <2>1. ASSUME NEW given \in Codes \union {0}, Look(v, given)
        PROVE GivenWasSent'
    <3>1. \A w \in Verifiers : (verifying'[w] = verifying[w] /\ looked'[w] = looked[w])
                               \/ (w = v /\ looked'[w].given = given)
      BY <2>1 DEF Look, verifications, OtpInv, OtpTypes
    <3>2. given \in Codes => messages[given] >= 1
      BY <2>1 DEF Look, Known, Codes, OtpInv, OtpTypes
    <3> QED BY <1>2, <3>1, <3>2 DEF OtpInv, SentInv, GivenWasSent
  <2>2. ASSUME NEW step \in {"idle", "done"}, Leave(v, step)
        PROVE GivenWasSent'
    <3>1. \A w \in Verifiers : (verifying'[w] = verifying[w] /\ looked'[w] = looked[w])
                               \/ verifying'[w] # "write"
      BY <2>2 DEF Leave, OtpInv, OtpTypes
    <3> QED BY <1>2, <3>1 DEF OtpInv, SentInv, GivenWasSent
  <2> QED BY <2>1, <2>2 DEF Refuse, CountFails, Accept, ConsumeFails
<1> QED BY <1>1, <1>4, <1>5 DEF OtpInv, SentInv

LEMMA ClockKeepsInv ==
  ASSUME OtpInv, (\E c \in Codes : ExpireCode(c)) \/ CooldownEnds \/ HourEnds \/ UNCHANGED otpVars
  PROVE OtpInv'
<1>1. UNCHANGED <<asking, delivery, messages, otpFaults, verifications>>
  BY DEF ExpireCode, CooldownEnds, HourEnds, otpVars, requests, tasks
<1>2. /\ codes' \in [Codes -> CodeRows] /\ SameCounts
      /\ \A c \in Codes : codes[c].expired => codes'[c].expired
  <2>1. ASSUME NEW c \in Codes, ExpireCode(c)
        PROVE codes' = [codes EXCEPT ![c].expired = TRUE]
    BY <2>1 DEF ExpireCode
  <2>2. ASSUME NEW c \in Codes, codes' = [codes EXCEPT ![c].expired = TRUE]
        PROVE <1>2!:
    BY <2>2, ZenonT(60) DEF OtpInv, OtpTypes, CodeRows, SameCounts
  <2>3. ASSUME UNCHANGED codes
        PROVE <1>2!:
    BY <2>3 DEF OtpInv, OtpTypes, SameCounts
  <2>4. (\E c \in Codes : ExpireCode(c)) \/ UNCHANGED codes
    BY DEF CooldownEnds, HourEnds, otpVars
  <2> QED BY <2>1, <2>2, <2>3, <2>4
<1>3. OtpTypes'
  BY <1>1, <1>2 DEF OtpInv, OtpTypes, verifications
<1>4. GuessInv'
  BY <1>1, <1>2, <1>3, CountsKeepGuessInv DEF OtpInv, OtpTypes
<1>5. SentInv'
  BY <1>1, <1>2 DEF OtpInv, SentInv, GivenWasSent, Delivered, SameCounts, verifications
<1> QED BY <1>3, <1>4, <1>5 DEF OtpInv

LEMMA OtpInvHolds == OtpSpec => []OtpInv
<1>1. OtpInit => OtpInv
  BY OtpAssumption
  DEF OtpInit, OtpInv, OtpTypes, CodeRows, Statuses, Looks, Nothing, GuessInv, Alone, At, SentInv,
      GivenWasSent, Delivered
<1>2. OtpInv /\ [OtpNext]_otpVars => OtpInv'
  BY RequestsKeepInv, DeliveriesKeepInv, VerifyingKeepsInv, ClockKeepsInv DEF OtpNext, OtpStep
<1> QED BY <1>1, <1>2, PTL DEF OtpSpec

\* A code that no two verifications looked at at once is accepted once at most,
\* and its wrong guesses are all in attempt_count, but for one at most with each
\* call that failed (Verify).
THEOREM GuessesAreAlwaysCounted == OtpSpec => []GuessesAreCounted
<1>1. OtpInv => GuessesAreCounted
  BY DEF OtpInv, OtpTypes, CodeRows, GuessInv, Alone, GuessesAreCounted
<1> QED BY <1>1, OtpInvHolds, PTL

\* A code goes out once, and once more for each failure at most; without a
\* failure it goes out, unless it expired before (Request, ProcessDeliverOTP).
THEOREM CodesGoOutOnce == OtpSpec => []DeliveredOnce
<1>1. OtpInv => DeliveredOnce
  BY DEF OtpInv, OtpTypes, SentInv, Delivered, DeliveredOnce
<1> QED BY <1>1, OtpInvHolds, PTL
=============================================================================
