----------------------------- MODULE MCServices -----------------------------
(***************************************************************************)
(* The services that share no state, next to each other: a behaviour is one *)
(* of one of them, while the others stay where they began.                  *)
(***************************************************************************)
EXTENDS Otp, Accounts, AdminSessions, Push, Reports, Sockets, TLC

CONSTANTS v1, v2, s1, s2, r1, r2, r3, l1, l2, a1, a2, a3, m1, k1, k2, ua, ub,
          da, db, dc, t1, t2, f1, f2, profile, match, x1, x2, w1, w2, key

VARIABLE part

\* Two verifications of one code, with a failure; one after the other, with two;
\* and two codes one after the other, without.
TwoGuessers == {[codes |-> 1, verifiers |-> {v1, v2}, faults |-> 1],
                [codes |-> 1, verifiers |-> {v1}, faults |-> 2],
                [codes |-> 2, verifiers |-> {v1}, faults |-> 0]}

MCReceiver == m1 :> ua
MCUser == da :> ua @@ db :> ua @@ dc :> ub
MCNotified == k1 :> <<m1>> @@ k2 :> <<m1>>
MCReported == [p \in People \X Targets |->
  IF p[2] = profile THEN ub ELSE IF p[1] = ua THEN ub ELSE ua]
MCUserOf == w1 :> ua @@ w2 :> ua

OtpRests == UNCHANGED otpVars
AccountsRest == UNCHANGED accountsVars
AdminRests == UNCHANGED adminVars
PushRests == UNCHANGED pushVars
ReportsRest == UNCHANGED reportsVars
SocketsRest == UNCHANGED socketsVars

\* Handlers that do the same are taken up in their order.
Used(handlers, idle) ==
  \A i, j \in DOMAIN handlers : i < j /\ idle[handlers[i]] => idle[handlers[j]]

InOrder ==
  /\ Used(<<a1, a2, a3>>, [r \in AdminRequests |-> request[r].step = "idle"])
  /\ Used(<<l1, l2>>, [l \in Logins |-> login[l].step = "idle"])
  /\ Used(<<r1, r2, r3>>, [r \in Requests |-> doing[r] = "idle"])
  /\ Used(<<s1, s2>>, [s \in SignIns |-> signing[s] = "idle"])
  /\ Used(<<k1, k2>>, [k \in Calls |-> calling[k] = [step |-> "create", left |-> Notified[k]]])
  /\ Used(<<f1, f2>>, [f \in Filings |-> filing[f].step = "idle"])
  /\ Used(<<w1, w2>>, [s \in Sockets |-> reader[s] = "none"])

\* The two phones of one user, and the tokens, can be exchanged for each other.
Alike == {d @@ t : d \in Permutations({da, db}), t \in Permutations({t1, t2})}

Parts == {"otp", "accounts", "admin", "push", "reports", "sockets"}

\* The parts that rest begin in one state.
Init ==
  /\ part \in Parts
  /\ OtpInit /\ AccountsInit /\ AdminInit /\ PushInit /\ ReportsInit /\ SocketsInit
  /\ part # "otp" => otpBound.faults = 1
  /\ part # "push" => registered = [d \in Devices |-> NoPushToken]

Next ==
  /\ UNCHANGED part
  /\ \/ /\ part = "otp" /\ OtpNext
        /\ AccountsRest /\ AdminRests /\ PushRests /\ ReportsRest /\ SocketsRest
     \/ /\ part = "accounts" /\ AccountsNext
        /\ OtpRests /\ AdminRests /\ PushRests /\ ReportsRest /\ SocketsRest
     \/ /\ part = "admin" /\ AdminNext
        /\ OtpRests /\ AccountsRest /\ PushRests /\ ReportsRest /\ SocketsRest
     \/ /\ part = "push" /\ PushNext
        /\ OtpRests /\ AccountsRest /\ AdminRests /\ ReportsRest /\ SocketsRest
     \/ /\ part = "reports" /\ ReportsNext
        /\ OtpRests /\ AccountsRest /\ AdminRests /\ PushRests /\ SocketsRest
     \/ /\ part = "sockets" /\ SocketsNext
        /\ OtpRests /\ AccountsRest /\ AdminRests /\ PushRests /\ ReportsRest

servicesVars == <<part, otpVars, accountsVars, adminVars, pushVars, reportsVars, socketsVars>>

Spec == Init /\ [][Next]_servicesVars

\* The admins alone.
AdminSpec == Init /\ part = "admin" /\ [][Next]_servicesVars
=============================================================================
