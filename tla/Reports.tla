------------------------------ MODULE Reports ------------------------------
(***************************************************************************)
(* Reports, moderation cases and blocks (internal/safety).  CreateReport    *)
(* looks at its target outside the transaction, and then, inside, at the    *)
(* reports there are, at the open case of the target, which it locks or     *)
(* creates, and writes report, count, action and block.  Two partial unique *)
(* indexes stand behind it.  Nothing in the code closes a case or a report. *)
(***************************************************************************)
EXTENDS Integers, FiniteSets

CONSTANTS
  People,     \* users
  Targets,    \* users, profiles, messages, media and matches that are reported
  Reported,   \* [People \X Targets -> People \union {NoPerson}]: whom a report of
              \* a target by somebody is about; NoPerson: it is none of his
  NoPerson,
  Reasons,
  Filings,    \* handlers of CreateReport; each names its report and its case
  NoFiling

ASSUME ReportsAssumption ==
  /\ NoPerson \notin People /\ NoFiling \notin Filings
  /\ Reported \in [People \X Targets -> People \union {NoPerson}]

VARIABLES
  reach,     \* pairs <<reporter, target>> that pass validateReportTargetAccess
  filing,    \* each filing: step, request, the open report or case it has found
  reports,   \* reports that are committed: the key, and the case
  cases,     \* moderation_cases that are committed: the key, and report_count
  blocks     \* user_blocks: <<blocker, blocked>> -> its report_id

reportsVars == <<reach, filing, reports, cases, blocks>>

NoRequest == [by |-> NoPerson, target |-> NoFiling, reason |-> NoFiling, block |-> FALSE]
NewFiling == [step |-> "idle", request |-> NoRequest, found |-> NoFiling]
NoReport == [by |-> NoPerson, target |-> NoFiling, reason |-> NoFiling, case |-> NoFiling]
NoCase == [subject |-> NoPerson, target |-> NoFiling, count |-> 0]
NoBlock == "no block"

Filed == {f \in Filings : reports[f] # NoReport}
CaseSet == {f \in Filings : cases[f] # NoCase}

\* The key of reports_open_dedupe_unique, and that of
\* moderation_cases_open_target_unique.
ReportKey(r) == <<r.by, r.target, r.reason>>
CaseKey(q) == <<Reported[<<q.by, q.target>>], q.target>>
OpenReports(q) == {f \in Filed : ReportKey(reports[f]) = ReportKey(q)}
OpenCases(q) == {c \in CaseSet : <<cases[c].subject, cases[c].target>> = CaseKey(q)}

Goes(f, step, found) ==
  filing' = [filing EXCEPT ![f] = [step |-> step, request |-> filing[f].request, found |-> found]]
GoTo(f, step) == Goes(f, step, filing[f].found)
FilingEnds(f) == filing' = [filing EXCEPT ![f] = [NewFiling EXCEPT !.step = "done"]]

-----------------------------------------------------------------------------
(* What is there to report: a user comes into contact with a target, by an   *)
(* impression, an action, a match or a conversation; targets are deleted.    *)

Meet(u, t) ==
  /\ Reported[<<u, t>>] \notin {NoPerson, u} /\ reach' = reach \union {<<u, t>>}
  /\ UNCHANGED <<filing, reports, cases, blocks>>

Vanish(t) ==
  /\ reach' = {p \in reach : p[2] # t}
  /\ UNCHANGED <<filing, reports, cases, blocks>>

-----------------------------------------------------------------------------
(* CreateReport *)

\* A message, a medium or a match is found, is not the reporter's own, and he is
\* in the conversation or the match, or has met the owner; a user or a profile
\* he has met.
InReach(u, t) == <<u, t>> \in reach /\ Reported[<<u, t>>] \notin {NoPerson, u}

Validate(f, u, t, reason, block) ==
  /\ filing[f].step = "idle" /\ InReach(u, t)
  /\ filing' = [filing EXCEPT ![f] = [step |-> "look", found |-> NoFiling,
       request |-> [by |-> u, target |-> t, reason |-> reason, block |-> block]]]
  /\ UNCHANGED <<reach, reports, cases, blocks>>

\* Of the same reporter, target and reason.
LookForReport(f) ==
  LET open == OpenReports(filing[f].request) IN
  /\ filing[f].step = "look"
  /\ \/ open = {} /\ GoTo(f, "case")
     \/ \E g \in open : Goes(f, "answer", g)
  /\ UNCHANGED <<reach, reports, cases, blocks>>

\* ON CONFLICT, the report of the block there was stays where the new one has none.
BlockFor(by, blocked, report) ==
  blocks' = [blocks EXCEPT ![<<by, blocked>>] = IF report = NoFiling /\ @ # NoBlock THEN @ ELSE report]

\* There was a report: nothing but the block is written.
AnswerExisting(f) ==
  LET q == filing[f].request IN
  /\ filing[f].step = "answer"
  /\ IF q.block THEN BlockFor(q.by, Reported[<<q.by, q.target>>], filing[f].found) ELSE UNCHANGED blocks
  /\ FilingEnds(f)
  /\ UNCHANGED <<reach, reports, cases>>

\* SELECT FOR UPDATE: waits for whoever holds the case.
CaseFree(c) == \A f \in Filings : ~(filing[f].step = "file" /\ filing[f].found = c)

FindCase(f) ==
  LET open == OpenCases(filing[f].request) IN
  /\ filing[f].step = "case"
  /\ \/ open = {} /\ GoTo(f, "insert")
     \/ \E c \in open : CaseFree(c) /\ Goes(f, "file", c)
  /\ UNCHANGED <<reach, reports, cases, blocks>>

\* A plausible bug: the index is missing.
InsertUnindexed(f) ==
  /\ filing[f].step = "insert"
  /\ Goes(f, "file", f)
  /\ UNCHANGED <<reach, reports, cases, blocks>>

\* The INSERT waits while another transaction has inserted the same key, and
\* fails when that one has committed.
InsertCase(f) ==
  LET q == filing[f].request IN
  /\ filing[f].step = "insert"
  /\ \A g \in Filings : filing[g].step = "file" => CaseKey(filing[g].request) # CaseKey(q)
  /\ IF OpenCases(q) = {}
     THEN Goes(f, "file", f)
     ELSE FilingEnds(f)
  /\ UNCHANGED <<reach, reports, cases, blocks>>

\* Report, count, action and block, and the COMMIT; or the index of the reports
\* refuses, and the whole transaction is undone.
File(f) ==
  LET q == filing[f].request
      c == filing[f].found
      subject == Reported[<<q.by, q.target>>]
  IN
  /\ filing[f].step = "file"
  /\ IF OpenReports(q) = {}
     THEN /\ reports' = [reports EXCEPT ![f] =
               [by |-> q.by, target |-> q.target, reason |-> q.reason, case |-> c]]
          /\ cases' = [cases EXCEPT ![c] =
               [subject |-> subject, target |-> q.target, count |-> @.count + 1]]
          /\ IF q.block THEN BlockFor(q.by, subject, f) ELSE UNCHANGED blocks
     ELSE UNCHANGED <<reports, cases, blocks>>
  /\ FilingEnds(f)
  /\ UNCHANGED reach

\* A statement fails or the process dies: rolled back.
FilingAborts(f) ==
  /\ filing[f].step \in {"look", "answer", "case", "insert", "file"}
  /\ FilingEnds(f)
  /\ UNCHANGED <<reach, reports, cases, blocks>>

-----------------------------------------------------------------------------
(* BlockUser, UnblockUser *)

BlockPerson(u, w) ==
  /\ u # w /\ BlockFor(u, w, NoFiling)
  /\ UNCHANGED <<reach, filing, reports, cases>>

UnblockPerson(u, w) ==
  /\ blocks[<<u, w>>] # NoBlock /\ blocks' = [blocks EXCEPT ![<<u, w>>] = NoBlock]
  /\ UNCHANGED <<reach, filing, reports, cases>>

-----------------------------------------------------------------------------
ReportsInit ==
  /\ reach = {} /\ filing = [f \in Filings |-> NewFiling]
  /\ reports = [f \in Filings |-> NoReport] /\ cases = [f \in Filings |-> NoCase]
  /\ blocks = [p \in People \X People |-> NoBlock]

CreateReport(f) ==
  \/ \E u \in People, t \in Targets, reason \in Reasons, block \in BOOLEAN :
       Validate(f, u, t, reason, block)
  \/ LookForReport(f) \/ AnswerExisting(f) \/ FindCase(f) \/ InsertCase(f) \/ File(f)
  \/ FilingAborts(f)

ReportsNext ==
  \/ \E f \in Filings : CreateReport(f)
  \/ \E t \in Targets : Vanish(t) \/ \E u \in People : Meet(u, t)
  \/ \E u, w \in People : BlockPerson(u, w) \/ UnblockPerson(u, w)

ReportsSpec == ReportsInit /\ [][ReportsNext]_reportsVars

-----------------------------------------------------------------------------
\* A target has one open case about one person, every report is in the case of
\* its target and of the person it is about, report_count counts them, a reporter
\* reports a target once for one reason, and a block that names a report names
\* one its owner made about the blocked.
CasesCountReports ==
  /\ \A c, d \in CaseSet :
       cases[c].subject = cases[d].subject /\ cases[c].target = cases[d].target => c = d
  /\ \A f \in Filed : LET r == reports[f] IN
       /\ r.case \in OpenCases(r)
       /\ OpenReports(r) = {f}
  /\ \A c \in CaseSet : cases[c].count = Cardinality({f \in Filed : reports[f].case = c})
  /\ \A u, w \in People : blocks[<<u, w>>] \notin {NoBlock, NoFiling} =>
       LET r == reports[blocks[<<u, w>>]] IN r.by = u /\ Reported[<<r.by, r.target>>] = w
=============================================================================
