---------------------------- MODULE ReportsProofs ----------------------------
(***************************************************************************)
(* A theorem about Reports, for any people, targets, reasons and filings.   *)
(***************************************************************************)
EXTENDS Reports, FiniteSetTheorems, TLAPS

Working == {"look", "answer", "case", "insert", "file"}
AnyRequest == [by : People \union {NoPerson}, target : Targets \union {NoFiling},
               reason : Reasons \union {NoFiling}, block : BOOLEAN]
FilingStates == [step : Working \union {"idle", "done"}, request : AnyRequest,
                 found : Filings \union {NoFiling}]

ReportsTypes ==
  /\ filing \in [Filings -> FilingStates]
  /\ reports \in [Filings -> [by : People \union {NoPerson}, target : Targets \union {NoFiling},
                              reason : Reasons \union {NoFiling}, case : Filings \union {NoFiling}]]
  /\ cases \in [Filings -> [subject : People \union {NoPerson}, target : Targets \union {NoFiling},
                            count : Nat]]
  /\ blocks \in [People \X People -> Filings \union {NoFiling, NoBlock}]

InCase(c) == {f \in Filed : reports[f].case = c}

\* What is committed.
OneCaseEach ==
  \A c, d \in CaseSet : cases[c].subject = cases[d].subject /\ cases[c].target = cases[d].target => c = d
ReportsStand == \A f \in Filed : reports[f].case \in OpenCases(reports[f]) /\ OpenReports(reports[f]) = {f}
CountsAreRight == \A c \in CaseSet : IsFiniteSet(InCase(c)) /\ cases[c].count = Cardinality(InCase(c))
StoreInv == OneCaseEach /\ ReportsStand /\ CountsAreRight

Names(b, u, w) ==
  b \notin {NoBlock, NoFiling} =>
    reports[b].by = u /\ Reported[<<reports[b].by, reports[b].target>>] = w
BlocksName == \A u, w \in People : Names(blocks[<<u, w>>], u, w)

\* What a filing knows: it has stored nothing before its COMMIT, its report is
\* somebody's about somebody, the report it has found is there, and the case it
\* holds is there too, or is its own and no other is.
Proper(q) ==
  /\ q.by \in People /\ q.target \in Targets /\ q.reason \in Reasons
  /\ Reported[<<q.by, q.target>>] \in People
Knows(f) ==
  LET q == filing[f].request
      c == filing[f].found
  IN /\ f \in Filed \union CaseSet => filing[f].step = "done"
     /\ filing[f].step \in Working => Proper(q)
     /\ filing[f].step = "answer" => c \in OpenReports(q)
     /\ filing[f].step = "file" => \/ c \in OpenCases(q)
                                   \/ c = f /\ OpenCases(q) = {}

\* Two transactions that hold or have inserted a case hold different ones: an
\* index entry that is not committed excludes as the lock of a row does.
CasesAreHeldOnce ==
  \A f, g \in Filings :
    /\ filing[f].step = "file" /\ filing[g].step = "file"
    /\ CaseKey(filing[f].request) = CaseKey(filing[g].request)
    => f = g

ReportsInv ==
  /\ ReportsTypes /\ StoreInv /\ BlocksName
  /\ \A f \in Filings : Knows(f)
  /\ CasesAreHeldOnce

-----------------------------------------------------------------------------
\* A filing goes on and stores nothing but a block.
LEMMA FilingGoesOn ==
  ASSUME ReportsInv, NEW f \in Filings, NEW x \in FilingStates,
         filing' = [filing EXCEPT ![f] = x], UNCHANGED <<reports, cases>>,
         blocks' \in [People \X People -> Filings \union {NoFiling, NoBlock}], BlocksName',
         Knows(f)',
         x.step = "file" => \A g \in Filings \ {f} :
           filing[g].step = "file" => CaseKey(filing[g].request) # CaseKey(x.request)
  PROVE ReportsInv'
<1>1. ReportsTypes'
  BY DEF ReportsInv, ReportsTypes
<1>2. StoreInv'
  BY DEF ReportsInv, StoreInv, OneCaseEach, ReportsStand, CountsAreRight, InCase, Filed, CaseSet,
         OpenCases, OpenReports
<1>3. \A g \in Filings \ {f} : filing'[g] = filing[g]
  BY DEF ReportsInv, ReportsTypes
<1>4. \A g \in Filings : Knows(g)'
  BY <1>3 DEF ReportsInv, Knows, Filed, CaseSet, OpenCases, OpenReports
<1>5. filing'[f] = x
  BY DEF ReportsInv, ReportsTypes
<1>6. CasesAreHeldOnce'
  BY <1>3, <1>5 DEF ReportsInv, CasesAreHeldOnce
<1> QED BY <1>1, <1>2, <1>4, <1>6 DEF ReportsInv

\* A block that names no report, or one of its owner about the blocked.
LEMMA BlockingKeepsNames ==
  ASSUME ReportsInv, NEW u \in People, NEW w \in People, NEW b \in Filings \union {NoFiling},
         BlockFor(u, w, b), UNCHANGED reports, Names(b, u, w)
  PROVE /\ blocks' \in [People \X People -> Filings \union {NoFiling, NoBlock}]
        /\ BlocksName'
<1>1. PICK x \in {b, blocks[<<u, w>>]} : blocks' = [blocks EXCEPT ![<<u, w>>] = x]
  BY DEF BlockFor, ReportsInv, ReportsTypes
<1>2. Names(x, u, w) /\ x \in Filings \union {NoFiling, NoBlock}
  BY <1>1 DEF ReportsInv, BlocksName, ReportsTypes
<1>3. blocks' \in [People \X People -> Filings \union {NoFiling, NoBlock}]
  BY <1>1, <1>2 DEF ReportsInv, ReportsTypes
<1>4. \A v, y \in People : blocks'[<<v, y>>] = IF v = u /\ y = w THEN x ELSE blocks[<<v, y>>]
  BY <1>1 DEF ReportsInv, ReportsTypes
<1>5. BlocksName'
  BY <1>2, <1>4 DEF ReportsInv, BlocksName, Names
<1> QED BY <1>3, <1>5

LEMMA EndedFiling ==
  [NewFiling EXCEPT !.step = "done"] =
    [step |-> "done", request |-> NoRequest, found |-> NoFiling]
  BY DEF NewFiling

LEMMA EndedFilingTyped ==
  [step |-> "done", request |-> NoRequest, found |-> NoFiling] \in FilingStates
  BY DEF FilingStates, NoRequest, AnyRequest

LEMMA EndingKeepsInv ==
  ASSUME ReportsInv, NEW f \in Filings, FilingEnds(f), UNCHANGED <<reports, cases>>,
         blocks' \in [People \X People -> Filings \union {NoFiling, NoBlock}], BlocksName'
  PROVE ReportsInv'
<1> DEFINE x == [step |-> "done", request |-> NoRequest, found |-> NoFiling]
<1>1. x \in FilingStates /\ x.step = "done"
  BY EndedFilingTyped
<1>2. filing' = [filing EXCEPT ![f] = x]
  BY EndedFiling DEF FilingEnds
<1> HIDE DEF x
<1>3. filing'[f] = x
  BY <1>2 DEF ReportsInv, ReportsTypes
<1>4. Knows(f)'
  BY <1>1, <1>3 DEF Knows, Working
<1> QED BY <1>1, <1>2, <1>4, FilingGoesOn

-----------------------------------------------------------------------------
\* Before it holds a case, a filing reads.
LEMMA ValidateKeepsInv ==
  ASSUME ReportsInv, NEW f \in Filings, NEW u \in People, NEW t \in Targets, NEW reason \in Reasons,
         NEW block \in BOOLEAN, Validate(f, u, t, reason, block)
  PROVE ReportsInv'
<1> DEFINE q == [by |-> u, target |-> t, reason |-> reason, block |-> block]
           x == [step |-> "look", request |-> q, found |-> NoFiling]
<1>1. x \in FilingStates /\ x.step = "look" /\ x.request = q
  BY DEF FilingStates, AnyRequest, Working, ReportsInv, ReportsTypes
<1>2. Proper(q)
  BY ReportsAssumption DEF Proper, Validate, InReach
<1>3. filing' = [filing EXCEPT ![f] = x]
  BY DEF Validate
<1> HIDE DEF x, q
<1>4. filing'[f] = x
  BY <1>3 DEF ReportsInv, ReportsTypes
<1>5. Knows(f)'
  BY <1>1, <1>2, <1>4 DEF Knows, Validate, ReportsInv, Filed, CaseSet, Working
<1>6. UNCHANGED <<reports, cases, blocks>>
  BY DEF Validate
<1>7. BlocksName' /\ blocks' \in [People \X People -> Filings \union {NoFiling, NoBlock}]
  BY <1>6 DEF ReportsInv, ReportsTypes, BlocksName, Names
<1> QED BY <1>1, <1>3, <1>5, <1>6, <1>7, FilingGoesOn

\* The request stays; what was found is the case or the report looked up.
LEMMA MovingKeepsInv ==
  ASSUME ReportsInv, NEW f \in Filings, NEW step \in Working, NEW c \in Filings \union {NoFiling},
         filing[f].step \in Working,
         Goes(f, step, c),
         UNCHANGED <<reports, cases, blocks>>,
         step = "answer" => c \in OpenReports(filing[f].request),
         step = "file" => \/ c \in OpenCases(filing[f].request)
                          \/ c = f /\ OpenCases(filing[f].request) = {},
         step = "file" => \A g \in Filings \ {f} : filing[g].step = "file" =>
           CaseKey(filing[g].request) # CaseKey(filing[f].request)
  PROVE ReportsInv'
<1> DEFINE x == [step |-> step, request |-> filing[f].request, found |-> c]
<1>1. x \in FilingStates /\ x.step = step /\ x.request = filing[f].request /\ x.found = c
  BY DEF FilingStates, ReportsInv, ReportsTypes
<1>2. filing' = [filing EXCEPT ![f] = x]
  BY DEF Goes
<1> HIDE DEF x
<1>3. filing'[f] = x
  BY <1>2 DEF ReportsInv, ReportsTypes
<1>4. f \notin Filed \union CaseSet /\ Proper(filing[f].request)
  BY DEF ReportsInv, Knows, Working
<1>5. Knows(f)'
  BY <1>1, <1>3, <1>4 DEF Knows, Filed, CaseSet, OpenCases, OpenReports, Working
<1>6. BlocksName' /\ blocks' \in [People \X People -> Filings \union {NoFiling, NoBlock}]
  BY DEF ReportsInv, ReportsTypes, BlocksName, Names
<1>7. x.step = "file" => \A g \in Filings \ {f} :
        filing[g].step = "file" => CaseKey(filing[g].request) # CaseKey(x.request)
  BY <1>1
<1> QED BY <1>1, <1>2, <1>5, <1>6, <1>7, FilingGoesOn

LEMMA ReadingKeepsInv ==
  ASSUME ReportsInv, NEW f \in Filings, LookForReport(f) \/ FindCase(f) \/ InsertCase(f)
  PROVE ReportsInv'
<1> DEFINE q == filing[f].request
<1>1. ASSUME NEW step, GoTo(f, step)
      PROVE Goes(f, step, filing[f].found)
  BY <1>1 DEF GoTo
<1>2. filing[f].found \in Filings \union {NoFiling}
  BY DEF ReportsInv, ReportsTypes, FilingStates
<1>3. UNCHANGED <<reports, cases, blocks>>
  BY DEF LookForReport, FindCase, InsertCase
<1>4. CASE LookForReport(f)
  <2>1. CASE GoTo(f, "case")
    BY <1>1, <1>2, <1>3, <1>4, <2>1, MovingKeepsInv DEF LookForReport, Working
  <2>2. ASSUME NEW g \in OpenReports(q), Goes(f, "answer", g)
        PROVE ReportsInv'
    <3>1. g \in Filings
      BY DEF OpenReports, Filed
    <3> QED BY <1>3, <1>4, <2>2, <3>1, MovingKeepsInv DEF LookForReport, Working
  <2> QED BY <1>4, <2>1, <2>2 DEF LookForReport
<1>5. CASE FindCase(f)
  <2>1. CASE GoTo(f, "insert")
    BY <1>1, <1>2, <1>3, <1>5, <2>1, MovingKeepsInv DEF FindCase, Working
  <2>2. ASSUME NEW c \in OpenCases(q), CaseFree(c), Goes(f, "file", c)
        PROVE ReportsInv'
    <3>1. c \in Filings
      BY DEF OpenCases, CaseSet
    <3>2. ASSUME NEW g \in Filings \ {f}, filing[g].step = "file",
                 CaseKey(filing[g].request) = CaseKey(q)
          PROVE FALSE
      <4>1. OpenCases(filing[g].request) = OpenCases(q)
        BY <3>2 DEF OpenCases
      <4>2. filing[g].found \in OpenCases(q)
        BY <2>2, <3>2, <4>1 DEF ReportsInv, Knows
      <4>3. filing[g].found = c
        BY <4>2 DEF OpenCases, CaseKey, ReportsInv, StoreInv, OneCaseEach
      <4> QED BY <2>2, <3>2, <4>3 DEF CaseFree
    <3> QED BY <1>3, <1>5, <2>2, <3>1, <3>2, MovingKeepsInv DEF FindCase, Working
  <2> QED BY <1>5, <2>1, <2>2 DEF FindCase
<1>6. CASE InsertCase(f)
  <2>1. CASE OpenCases(q) = {}
    BY <1>3, <1>6, <2>1, MovingKeepsInv DEF InsertCase, Working
  <2>2. CASE OpenCases(q) # {}
    <3>1. FilingEnds(f)
      BY <1>6, <2>2 DEF InsertCase
    <3> QED BY <1>3, <3>1, EndingKeepsInv DEF ReportsInv, ReportsTypes, BlocksName, Names
  <2> QED BY <2>1, <2>2
<1> QED BY <1>4, <1>5, <1>6

LEMMA AnsweringKeepsInv ==
  ASSUME ReportsInv, NEW f \in Filings, AnswerExisting(f) \/ FilingAborts(f)
  PROVE ReportsInv'
<1>1. FilingEnds(f) /\ UNCHANGED <<reports, cases>>
  BY DEF AnswerExisting, FilingAborts
<1>2. CASE UNCHANGED blocks
  BY <1>1, <1>2, EndingKeepsInv DEF ReportsInv, ReportsTypes, BlocksName, Names
<1>3. CASE AnswerExisting(f) /\ filing[f].request.block
  <2> DEFINE q == filing[f].request
             w == Reported[<<q.by, q.target>>]
             g == filing[f].found
  <2>1. g \in OpenReports(q) /\ q.by \in People /\ w \in People /\ g \in Filings
    BY <1>3 DEF AnswerExisting, ReportsInv, Knows, Proper, Working, OpenReports, Filed
  <2>2. Names(g, q.by, w)
    BY <2>1 DEF OpenReports, ReportKey, Names
  <2>3. BlockFor(q.by, w, g)
    BY <1>3 DEF AnswerExisting
  <2> HIDE DEF q, w, g
  <2> QED BY <1>1, <2>1, <2>2, <2>3, BlockingKeepsNames, EndingKeepsInv
<1> QED BY <1>2, <1>3 DEF AnswerExisting, FilingAborts

-----------------------------------------------------------------------------
\* The COMMIT of a report.
LEMMA FilingStores ==
  ASSUME ReportsInv, NEW f \in Filings, File(f), OpenReports(filing[f].request) = {}
  PROVE ReportsInv'
<1>1. PICK q \in AnyRequest, c \in Filings, w \in People :
        /\ q = filing[f].request /\ c = filing[f].found /\ w = Reported[<<q.by, q.target>>]
        /\ c \in OpenCases(q) \/ (c = f /\ OpenCases(q) = {})
  <2>1. filing[f].step = "file" /\ Proper(filing[f].request)
    BY DEF File, ReportsInv, Knows, Working
  <2>2. filing[f].found \in Filings
    BY <2>1 DEF ReportsInv, Knows, OpenCases, CaseSet
  <2> QED BY <2>1, <2>2 DEF Proper, ReportsInv, ReportsTypes, FilingStates, Knows
<1>2. filing[f].step = "file" /\ q.by \in People /\ q.target \in Targets /\ q.reason \in Reasons
  BY <1>1 DEF File, ReportsInv, Knows, Proper, Working
<1>3. f \notin Filed /\ f \notin CaseSet
  BY <1>2 DEF ReportsInv, Knows
<1>4. PICK r, n, new :
        /\ r = [by |-> q.by, target |-> q.target, reason |-> q.reason, case |-> c]
        /\ n = [subject |-> w, target |-> q.target, count |-> cases[c].count + 1]
        /\ new = [step |-> "done", request |-> NoRequest, found |-> NoFiling]
  OBVIOUS
<1>5. /\ reports' = [reports EXCEPT ![f] = r] /\ cases' = [cases EXCEPT ![c] = n]
      /\ filing' = [filing EXCEPT ![f] = new]
      /\ (q.block /\ BlockFor(q.by, w, f)) \/ UNCHANGED blocks
  BY <1>1, <1>4, EndedFiling DEF File, FilingEnds
<1>6. /\ r.by = q.by /\ r.target = q.target /\ r.reason = q.reason /\ r.case = c /\ r # NoReport
      /\ n.subject = w /\ n.target = q.target /\ n.count = cases[c].count + 1 /\ n # NoCase
      /\ new.step = "done" /\ new \in FilingStates
      /\ r \in [by : People \union {NoPerson}, target : Targets \union {NoFiling},
                reason : Reasons \union {NoFiling}, case : Filings \union {NoFiling}]
      /\ n \in [subject : People \union {NoPerson}, target : Targets \union {NoFiling}, count : Nat]
  BY <1>1, <1>2, <1>4, EndedFilingTyped, ReportsAssumption DEF NoReport, NoCase, ReportsInv, ReportsTypes
<1>7. CaseKey(q) = <<w, q.target>> /\ CaseKey(r) = CaseKey(q) /\ ReportKey(r) = ReportKey(q)
      /\ OpenReports(q) = {}
  BY <1>1, <1>6 DEF CaseKey, ReportKey
<1>8. /\ reports'[f] = r /\ \A g \in Filings \ {f} : reports'[g] = reports[g]
      /\ cases'[c] = n /\ \A g \in Filings \ {c} : cases'[g] = cases[g]
      /\ filing'[f] = new /\ \A g \in Filings \ {f} : filing'[g] = filing[g]
  BY <1>1, <1>5 DEF ReportsInv, ReportsTypes
<1>9. Filed' = Filed \union {f} /\ CaseSet' = CaseSet \union {c}
  BY <1>1, <1>6, <1>8 DEF Filed, CaseSet
<1>10. \A d \in CaseSet : cases'[d].subject = cases[d].subject /\ cases'[d].target = cases[d].target
  BY <1>1, <1>3, <1>6, <1>7, <1>8 DEF OpenCases, CaseSet
<1>11. \A d \in CaseSet' : <<cases'[d].subject, cases'[d].target>> = CaseKey(q) <=> d = c
  <2>1. \A d \in CaseSet : <<cases[d].subject, cases[d].target>> = CaseKey(q) => d = c
    BY <1>1, <1>7 DEF OpenCases, ReportsInv, StoreInv, OneCaseEach
  <2> QED BY <1>6, <1>7, <1>8, <1>9, <1>10, <2>1
<1>12. OneCaseEach'
  <2> SUFFICES ASSUME NEW d \in CaseSet', NEW e \in CaseSet',
                      cases'[d].subject = cases'[e].subject, cases'[d].target = cases'[e].target
               PROVE d = e
    BY DEF OneCaseEach
  <2>1. CASE d \in CaseSet /\ e \in CaseSet
    BY <1>10, <2>1 DEF ReportsInv, StoreInv, OneCaseEach
  <2>2. CASE d = c \/ e = c
    BY <1>11, <2>2
  <2> QED BY <1>9, <2>1, <2>2
<1>13. ASSUME NEW g \in Filed
       PROVE /\ reports'[g] = reports[g] /\ g # f
             /\ reports[g].case \in OpenCases(reports[g])' /\ OpenReports(reports[g])' = {g}
  <2>1. reports'[g] = reports[g] /\ g # f
    BY <1>3, <1>8 DEF Filed
  <2>2. reports[g].case \in OpenCases(reports[g]) /\ OpenReports(reports[g]) = {g}
    BY DEF ReportsInv, StoreInv, ReportsStand
  <2>3. reports[g].case \in OpenCases(reports[g])'
    BY <1>9, <1>10, <2>1, <2>2 DEF OpenCases, CaseKey
  <2>4. ReportKey(r) # ReportKey(reports[g])
    BY <1>7 DEF OpenReports
  <2>5. \A k \in Filed : reports'[k] = reports[k]
    BY <1>3, <1>8 DEF Filed
  <2>6. OpenReports(reports[g])' = {g}
    BY <1>8, <1>9, <2>1, <2>2, <2>4, <2>5 DEF OpenReports
  <2> QED BY <2>1, <2>2, <2>3, <2>6
<1>14. ReportsStand'
  <2>1. c \in OpenCases(r)'
    BY <1>7, <1>9, <1>11 DEF OpenCases, CaseKey
  <2>2. OpenReports(r)' = {f}
    BY <1>7, <1>8, <1>9, <1>13 DEF OpenReports, ReportKey
  <2> QED BY <1>6, <1>8, <1>9, <1>13, <2>1, <2>2 DEF ReportsStand
<1>15. CountsAreRight'
  <2>1. ASSUME NEW d \in CaseSet, d # c
        PROVE InCase(d)' = InCase(d)
    BY <1>6, <1>8, <1>9, <1>13, <2>1 DEF InCase
  <2>2. InCase(c)' = InCase(c) \union {f} /\ f \notin InCase(c)
    BY <1>3, <1>6, <1>8, <1>9, <1>13 DEF InCase
  <2>3. IsFiniteSet(InCase(c)) /\ cases[c].count = Cardinality(InCase(c))
    <3>1. CASE c \in CaseSet
      BY <3>1 DEF ReportsInv, StoreInv, CountsAreRight
    <3>2. CASE c \notin CaseSet
      <4>1. InCase(c) = {}
        BY <3>2 DEF InCase, OpenCases, ReportsInv, StoreInv, ReportsStand
      <4>2. cases[c].count = 0
        BY <1>1, <3>2 DEF CaseSet, NoCase
      <4> QED BY <4>1, <4>2, FS_EmptySet
    <3> QED BY <3>1, <3>2
  <2>4. /\ IsFiniteSet(InCase(c)')
        /\ Cardinality(InCase(c)') = Cardinality(InCase(c)) + 1
    BY <2>2, <2>3, FS_AddElement
  <2> QED BY <1>6, <1>8, <1>9, <2>1, <2>3, <2>4 DEF ReportsInv, StoreInv, CountsAreRight, CaseSet
<1>16. blocks' \in [People \X People -> Filings \union {NoFiling, NoBlock}] /\ BlocksName'
  <2>1. ASSUME NEW u \in People, NEW v \in People
        PROVE LET b == blocks[<<u, v>>] IN
              b \notin {NoBlock, NoFiling} =>
                reports'[b].by = u /\ Reported[<<reports'[b].by, reports'[b].target>>] = v
    <3> DEFINE b == blocks[<<u, v>>]
    <3>1. SUFFICES ASSUME b \notin {NoBlock, NoFiling}
                   PROVE reports'[b].by = u /\ Reported[<<reports'[b].by, reports'[b].target>>] = v
      OBVIOUS
    <3>2. b \in Filings /\ Names(b, u, v)
      BY <3>1 DEF ReportsInv, ReportsTypes, BlocksName
    <3>3. b \in Filed
      BY <3>1, <3>2, ReportsAssumption DEF Names, Filed, NoReport
    <3> QED BY <1>13, <3>1, <3>2, <3>3 DEF Names
  <2>2. CASE UNCHANGED blocks
    BY <2>1, <2>2 DEF ReportsInv, ReportsTypes, BlocksName, Names
  <2>3. CASE BlockFor(q.by, w, f)
    <3>1. PICK x \in {f, blocks[<<q.by, w>>]} : blocks' = [blocks EXCEPT ![<<q.by, w>>] = x]
      BY <2>3 DEF BlockFor, ReportsInv, ReportsTypes
    <3>2. x \in Filings \union {NoFiling, NoBlock}
      BY <1>2, <3>1 DEF ReportsInv, ReportsTypes
    <3>3. \A u, v \in People : blocks'[<<u, v>>] = IF u = q.by /\ v = w THEN x ELSE blocks[<<u, v>>]
      BY <3>1 DEF ReportsInv, ReportsTypes
    <3>4. reports'[f].by = q.by /\ Reported[<<reports'[f].by, reports'[f].target>>] = w
      BY <1>1, <1>6, <1>8
    <3>5. BlocksName'
      BY <1>2, <2>1, <3>1, <3>3, <3>4 DEF BlocksName, Names
    <3> QED BY <3>1, <3>2, <3>5 DEF ReportsInv, ReportsTypes
  <2> QED BY <1>5, <2>2, <2>3
<1>17. ASSUME NEW g \in Filings PROVE Knows(g)'
  <2>1. CASE g = f
    BY <1>6, <1>8, <2>1 DEF Knows, Working
  <2>2. CASE g # f
    <3> DEFINE p == filing[g].request
    <3>1. filing'[g] = filing[g] /\ Knows(g)
      BY <1>8, <2>2 DEF ReportsInv
    <3>2. g \in Filed' \union CaseSet' => g \in Filed \union CaseSet
      BY <1>1, <1>9, <2>2 DEF OpenCases
    <3>3. OpenReports(p) \subseteq OpenReports(p)'
      BY <3>1, <1>9, <1>13 DEF OpenReports
    <3>4. OpenCases(p) \subseteq OpenCases(p)'
      BY <3>1, <1>9, <1>10 DEF OpenCases, CaseKey
    <3>5. ASSUME filing[g].step = "file" PROVE OpenCases(p)' = OpenCases(p)
      <4>1. CaseKey(p) # CaseKey(q)
        BY <1>1, <1>2, <2>2, <3>5 DEF ReportsInv, CasesAreHeldOnce
      <4>2. c \notin OpenCases(p)'
        BY <3>1, <1>9, <1>11, <4>1 DEF OpenCases, CaseKey
      <4> QED BY <3>1, <1>9, <1>10, <3>4, <4>2 DEF OpenCases, CaseKey
    <3> QED BY <3>1, <3>2, <3>3, <3>4, <3>5 DEF Knows
  <2> QED BY <2>1, <2>2
<1>18. CasesAreHeldOnce'
  BY <1>6, <1>8 DEF ReportsInv, CasesAreHeldOnce
<1>19. ReportsTypes'
  BY <1>5, <1>6, <1>16 DEF ReportsInv, ReportsTypes
<1> QED BY <1>12, <1>14, <1>15, <1>16, <1>17, <1>18, <1>19 DEF ReportsInv, StoreInv

LEMMA ReportsInvHolds == ReportsSpec => []ReportsInv
<1>1. ReportsInit => ReportsInv
  <2> SUFFICES ASSUME ReportsInit PROVE ReportsInv
    OBVIOUS
  <2>1. ReportsTypes
    <3>1. NewFiling \in FilingStates
      BY DEF FilingStates, AnyRequest, NewFiling, NoRequest
    <3>2. filing \in [Filings -> FilingStates]
      BY <3>1 DEF ReportsInit
    <3>3. blocks \in [People \X People -> Filings \union {NoFiling, NoBlock}]
      BY DEF ReportsInit
    <3>4. reports \in [Filings -> [by : People \union {NoPerson}, target : Targets \union {NoFiling},
                                   reason : Reasons \union {NoFiling}, case : Filings \union {NoFiling}]]
      BY DEF ReportsInit, NoReport
    <3>5. cases \in [Filings -> [subject : People \union {NoPerson}, target : Targets \union {NoFiling},
                                 count : Nat]]
      BY DEF ReportsInit, NoCase
    <3> QED BY <3>2, <3>3, <3>4, <3>5 DEF ReportsTypes
  <2>2. Filed = {} /\ CaseSet = {}
    BY DEF ReportsInit, Filed, CaseSet
  <2>3. StoreInv
    BY <2>2 DEF StoreInv, OneCaseEach, ReportsStand, CountsAreRight
  <2>4. BlocksName
    BY DEF ReportsInit, BlocksName, Names
  <2>5. (\A f \in Filings : Knows(f)) /\ CasesAreHeldOnce
    BY <2>2 DEF ReportsInit, Knows, CasesAreHeldOnce, NewFiling, Working
  <2> QED BY <2>1, <2>3, <2>4, <2>5 DEF ReportsInv
<1>2. ReportsInv /\ [ReportsNext]_reportsVars => ReportsInv'
  <2> SUFFICES ASSUME ReportsInv, [ReportsNext]_reportsVars PROVE ReportsInv'
    OBVIOUS
  <2>1. ASSUME NEW f \in Filings, CreateReport(f) PROVE ReportsInv'
    <3>1. ASSUME NEW u \in People, NEW t \in Targets, NEW reason \in Reasons, NEW block \in BOOLEAN,
                 Validate(f, u, t, reason, block)
          PROVE ReportsInv'
      BY <3>1, ValidateKeepsInv
    <3>2. CASE LookForReport(f) \/ FindCase(f) \/ InsertCase(f)
      BY <3>2, ReadingKeepsInv
    <3>3. CASE AnswerExisting(f) \/ FilingAborts(f)
      BY <3>3, AnsweringKeepsInv
    <3>4. CASE File(f)
      <4>1. CASE OpenReports(filing[f].request) = {}
        BY <3>4, <4>1, FilingStores
      <4>2. CASE OpenReports(filing[f].request) # {}
        <5>1. FilingEnds(f) /\ UNCHANGED <<reports, cases, blocks>>
          BY <3>4, <4>2 DEF File
        <5> QED BY <5>1, EndingKeepsInv DEF ReportsInv, ReportsTypes, BlocksName, Names
      <4> QED BY <4>1, <4>2
    <3> QED BY <2>1, <3>1, <3>2, <3>3, <3>4 DEF CreateReport
  <2>2. ASSUME UNCHANGED <<filing, reports, cases>>,
               blocks' \in [People \X People -> Filings \union {NoFiling, NoBlock}], BlocksName'
        PROVE ReportsInv'
    <3>1. StoreInv'
      BY <2>2 DEF ReportsInv, StoreInv, OneCaseEach, ReportsStand, CountsAreRight, InCase, Filed, CaseSet,
                  OpenCases, OpenReports
    <3>2. \A f \in Filings : Knows(f)'
      BY <2>2 DEF ReportsInv, Knows, Filed, CaseSet, OpenCases, OpenReports
    <3>3. CasesAreHeldOnce'
      BY <2>2 DEF ReportsInv, CasesAreHeldOnce
    <3> QED BY <2>2, <3>1, <3>2, <3>3 DEF ReportsInv, ReportsTypes
  <2>3. ASSUME UNCHANGED <<filing, reports, cases, blocks>> PROVE ReportsInv'
    BY <2>2, <2>3 DEF ReportsInv, ReportsTypes, BlocksName, Names
  <2>4. ASSUME NEW t \in Targets, Vanish(t) \/ \E u \in People : Meet(u, t) PROVE ReportsInv'
    BY <2>3, <2>4 DEF Vanish, Meet
  <2>5. ASSUME NEW u \in People, NEW w \in People, BlockPerson(u, w) PROVE ReportsInv'
    <3>1. Names(NoFiling, u, w)
      BY DEF Names
    <3> QED BY <2>2, <2>5, <3>1, BlockingKeepsNames DEF BlockPerson
  <2>6. ASSUME NEW u \in People, NEW w \in People, UnblockPerson(u, w) PROVE ReportsInv'
    <3>1. blocks' = [blocks EXCEPT ![<<u, w>>] = NoBlock] /\ UNCHANGED <<filing, reports, cases>>
      BY <2>6 DEF UnblockPerson
    <3>2. \A v, y \in People : blocks'[<<v, y>>] \in {NoBlock, blocks[<<v, y>>]}
      BY <3>1 DEF ReportsInv, ReportsTypes
    <3>3. BlocksName'
      BY <3>1, <3>2 DEF ReportsInv, BlocksName, Names
    <3> QED BY <2>2, <3>1, <3>3 DEF ReportsInv, ReportsTypes
  <2>7. CASE UNCHANGED reportsVars
    BY <2>3, <2>7 DEF reportsVars
  <2> QED BY <2>1, <2>4, <2>5, <2>6, <2>7 DEF ReportsNext
<1> QED BY <1>1, <1>2, PTL DEF ReportsSpec

\* A target has one open case about one person, report_count counts its reports,
\* a reporter reports a target once for one reason, and a block names a report of
\* its owner about the blocked, however filings race, block or fail.
THEOREM CasesAlwaysCountReports == ReportsSpec => []CasesCountReports
<1>1. ReportsInv => CasesCountReports
  BY DEF ReportsInv, StoreInv, OneCaseEach, ReportsStand, CountsAreRight, InCase, BlocksName, Names,
         CasesCountReports
<1> QED BY <1>1, ReportsInvHolds, PTL
=============================================================================
