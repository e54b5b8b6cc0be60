---------------------------- MODULE ServingProofs ----------------------------
(* The proofs about what the server does beside sync: the reports, the       *)
(* senses a phone holds, and the root server.                                *)
EXTENDS Reports, SensePack, RootServer, TLAPS

-----------------------------------------------------------------------------
(* What holds of the reports for any readers, sweepers and operators.       *)
(* A sweep may only move what is still in the inbox: its list is pruned      *)
(* whenever another one commits, and everything follows from that.          *)

Sweep == [stage : {"rest", "began", "taken"}, arrived : SUBSET Reports,
          held : SUBSET ReportId, served : SUBSET Roots]
TriageRequest == [stage : {"none", "looking", "done", "not found"}, id : ReportId,
                  verdict : Verdicts \cup {"new"}, misses : 0 .. 2, sees : BOOLEAN]
ReportRow == [id : ReportId, report : Reports, verdict : Verdicts \cup {"new"}, root : Roots \cup {NoRoot}]

\* The types the argument needs.
Typed ==
    /\ landed \subseteq Reports /\ inbox \subseteq landed /\ served \subseteq Roots
    /\ table \subseteq ReportRow /\ \A row \in table : row.report \in landed
    /\ sweep \in [Sweepers -> Sweep]
    /\ triage \in [Operators -> TriageRequest]

\* A row's id says whose it is.
Named == \A row \in table : row.id[1] = row.report

\* What a sweep will move is in the inbox still.
Pending == \A w \in Sweepers : sweep[w].arrived \subseteq inbox

\* A statement that sees a row has one to see, and one under way has missed once at most.
Seen ==
    \A o \in Operators :
        /\ triage[o].sees => RowOf(triage[o].id) # {}
        /\ triage[o].stage = "looking" => triage[o].misses \in 0 .. 1

ReportsInv == Typed /\ NeitherLostNorDoubled /\ Named /\ Pending /\ Seen /\ VerdictStands

-----------------------------------------------------------------------------
\* A report has one row, so an id has one.
LEMMA OneRow ==
  ASSUME ReportsInv, NEW a \in table, NEW b \in table, a.id = b.id
  PROVE  a = b
  BY DEF ReportsInv, Named, NeitherLostNorDoubled

LEMMA ReportsInitially == PInit => ReportsInv
<1> SUFFICES ASSUME PInit PROVE ReportsInv
  OBVIOUS
<1>1. NoSweep \in Sweep
  BY DEF NoSweep, Sweep
<1>2. ReportId # {}
  <2>1. PICK r \in Reports, w \in Sweepers : TRUE
    BY ReportsAssumption
  <2>2. <<r, w>> \in ReportId
    BY <2>1 DEF ReportId
  <2> QED
    BY <2>2
<1>3. NoTriage \in TriageRequest /\ ~NoTriage.sees /\ NoTriage.stage = "none"
  BY <1>2 DEF NoTriage, TriageRequest
<1>4. sweep \in [Sweepers -> Sweep] /\ triage \in [Operators -> TriageRequest]
  BY <1>1, <1>3 DEF PInit
<1>5. Typed
  BY <1>4 DEF PInit, Typed
<1>6. Pending
  BY DEF PInit, Pending, NoSweep
<1>7. Seen
  BY <1>3 DEF PInit, Seen
<1>8. VerdictStands
  BY DEF PInit, VerdictStands
<1> QED
  BY <1>5, <1>6, <1>7, <1>8 DEF PInit, ReportsInv, NeitherLostNorDoubled, Named

LEMMA ApplyReportKeeps ==
  ASSUME ReportsInv, NEW r \in Reports, ApplyReport(r)
  PROVE  ReportsInv'
<1> USE DEF ReportsInv, ApplyReport
<1>1. Typed' /\ Named'
  BY DEF Typed, Named
<1>2. NeitherLostNorDoubled'
  <2>1. \A row \in table : row.report # r
    <3> SUFFICES ASSUME NEW row \in table, row.report = r PROVE FALSE
      OBVIOUS
    <3> QED
      BY DEF NeitherLostNorDoubled, Typed
  <2> QED
    BY <2>1 DEF NeitherLostNorDoubled
<1>3. Pending' /\ Seen' /\ VerdictStands'
  BY DEF Pending, Seen, VerdictStands, RowOf
<1> QED
  BY <1>1, <1>2, <1>3

\* Steps that leave the inbox and the table alone.
LEMMA Elsewhere ==
  ASSUME ReportsInv, UNCHANGED <<landed, inbox, table, said>>, served' \subseteq Roots,
         sweep' \in [Sweepers -> Sweep], triage' \in [Operators -> TriageRequest],
         Pending', Seen'
  PROVE  ReportsInv'
  BY DEF ReportsInv, Typed, NeitherLostNorDoubled, Named, VerdictStands, RowOf

LEMMA ReseedKeeps ==
  ASSUME ReportsInv, NEW roots \in SUBSET Roots, Reseed(roots)
  PROVE  ReportsInv'
<1>1. Pending' /\ Seen'
  BY DEF Reseed, ReportsInv, Pending, Seen, RowOf
<1> QED
  BY <1>1, Elsewhere DEF Reseed, ReportsInv, Typed

LEMMA SweepReportsKeeps ==
  ASSUME ReportsInv, NEW w \in Sweepers, SweepReports(w)
  PROVE  ReportsInv'
<1> DEFINE begun == [stage |-> "began", arrived |-> inbox, held |-> {row.id : row \in table}, served |-> served]
<1>1. begun \in Sweep
  <2>1. {row.id : row \in table} \subseteq ReportId
    BY DEF ReportsInv, Typed, ReportRow
  <2> QED
    BY <2>1 DEF ReportsInv, Typed, Sweep
<1>2. sweep' = [sweep EXCEPT ![w] = begun] /\ sweep \in [Sweepers -> Sweep]
  BY DEF SweepReports, ReportsInv, Typed
<1>3. sweep' \in [Sweepers -> Sweep] /\ \A v \in Sweepers : sweep'[v].arrived \subseteq inbox
  BY <1>1, <1>2 DEF ReportsInv, Pending
<1>4. Pending' /\ Seen'
  BY <1>3 DEF SweepReports, ReportsInv, Pending, Seen, RowOf
<1> QED
  BY <1>3, <1>4, Elsewhere DEF SweepReports, ReportsInv, Typed

LEMMA TakeRowsKeeps ==
  ASSUME ReportsInv, NEW w \in Sweepers, TakeRows(w)
  PROVE  ReportsInv'
<1>1. sweep \in [Sweepers -> Sweep] /\ sweep' = [sweep EXCEPT ![w].stage = "taken"]
  BY DEF TakeRows, ReportsInv, Typed
<1>2. sweep' \in [Sweepers -> Sweep] /\ \A v \in Sweepers : sweep'[v].arrived = sweep[v].arrived
  BY <1>1 DEF Sweep
<1>3. Pending' /\ Seen'
  BY <1>2 DEF TakeRows, ReportsInv, Pending, Seen, RowOf
<1> QED
  BY <1>2, <1>3, Elsewhere DEF TakeRows, ReportsInv, Typed

LEMMA SweepAbortsKeeps ==
  ASSUME ReportsInv, NEW w \in Sweepers, SweepAborts(w)
  PROVE  ReportsInv'
<1>1. sweep \in [Sweepers -> Sweep] /\ sweep' = [sweep EXCEPT ![w] = NoSweep]
  BY DEF SweepAborts, ReportsInv, Typed
<1>2. sweep' \in [Sweepers -> Sweep] /\ \A v \in Sweepers : sweep'[v].arrived \subseteq sweep[v].arrived
  BY <1>1 DEF Sweep, NoSweep
<1>3. Pending' /\ Seen'
  BY <1>2 DEF SweepAborts, ReportsInv, Pending, Seen, RowOf
<1> QED
  BY <1>2, <1>3, Elsewhere DEF SweepAborts, ReportsInv, Typed

\* The rows a sweep writes are those it deleted and one for each report it moves.
LEMMA SweepCommitsKeeps ==
  ASSUME ReportsInv, NEW w \in Sweepers, SweepCommits(w)
  PROVE  ReportsInv'
<1> DEFINE arrived == sweep[w].arrived
<1>1. /\ sweep \in [Sweepers -> Sweep] /\ triage \in [Operators -> TriageRequest]
      /\ landed \subseteq Reports /\ inbox \subseteq landed /\ arrived \subseteq inbox
      /\ sweep[w].served \subseteq Roots
  BY DEF ReportsInv, Typed, Pending, Sweep
<1>2. table' = table \cup Arriving(w) /\ inbox' = inbox \ arrived /\ UNCHANGED <<landed, served, said>>
  BY DEF SweepCommits, Rewritten, HeldRows, InboxAfter
<1>3. \A row \in Arriving(w) : /\ row \in ReportRow /\ row.report \in arrived
                               /\ row.id = <<row.report, w>>
  <2> SUFFICES ASSUME NEW r \in arrived
               PROVE  LET row == [id |-> <<r, w>>, report |-> r, verdict |-> "new",
                                  root |-> IF VoteOf[r] \in sweep[w].served THEN VoteOf[r] ELSE NoRoot]
                      IN  row \in ReportRow /\ row.report \in arrived /\ row.id = <<row.report, w>>
    BY DEF Arriving
  <2>1. r \in Reports /\ VoteOf[r] \in Roots \cup {NoRoot}
    BY <1>1, ReportsAssumption
  <2>2. <<r, w>> \in ReportId
    BY <2>1 DEF ReportId
  <2> QED
    BY <2>1, <2>2 DEF ReportRow
<1>4. \A r \in arrived : \E row \in Arriving(w) : row.report = r
  <2> TAKE r \in arrived
  <2> DEFINE row == [id |-> <<r, w>>, report |-> r, verdict |-> "new",
                     root |-> IF VoteOf[r] \in sweep[w].served THEN VoteOf[r] ELSE NoRoot]
  <2>1. row \in Arriving(w)
    BY DEF Arriving
  <2> QED
    BY <2>1
<1>5. \A a, b \in Arriving(w) : a.report = b.report => a = b
  BY DEF Arriving
<1>6. \A v \in Sweepers : sweep'[v] \in Sweep /\ sweep'[v].arrived \subseteq inbox'
  <2> SUFFICES ASSUME NEW v \in Sweepers PROVE sweep'[v] \in Sweep /\ sweep'[v].arrived \subseteq inbox'
    OBVIOUS
  <2>1. CASE v = w
    BY <2>1 DEF SweepCommits, NoSweep, Sweep
  <2>2. CASE v # w
    <3>1. sweep'[v] = [sweep[v] EXCEPT !.arrived = @ \ sweep[w].arrived, !.held = @ \ sweep[w].held]
      BY <2>2 DEF SweepCommits
    <3>2. sweep[v] \in Sweep /\ sweep[v].arrived \subseteq inbox
      BY DEF ReportsInv, Typed, Pending
    <3> QED
      BY <3>1, <3>2, <1>2 DEF Sweep
  <2> QED
    BY <2>1, <2>2
<1>7. sweep' \in [Sweepers -> Sweep] /\ Pending'
  BY <1>6 DEF SweepCommits, Pending
<1>8. \A o \in Operators : /\ triage'[o] \in TriageRequest /\ triage'[o].id = triage[o].id
                           /\ triage'[o].sees => triage[o].sees
                           /\ triage'[o].stage = triage[o].stage /\ triage'[o].misses = triage[o].misses
  BY <1>1 DEF SweepCommits, TriageRequest
<1>9. triage' \in [Operators -> TriageRequest]
  BY <1>8 DEF SweepCommits
<1>10. Typed' /\ Named'
  BY <1>1, <1>2, <1>3, <1>7, <1>9 DEF ReportsInv, Typed, Named
<1>11. NeitherLostNorDoubled'
  <2>1. \A row \in table : row.report \notin arrived
    BY <1>1 DEF ReportsInv, NeitherLostNorDoubled
  <2>2. \A r \in landed : r \in inbox' \/ \E row \in table' : row.report = r
    BY <1>2, <1>4 DEF ReportsInv, NeitherLostNorDoubled
  <2>3. \A row \in table' : row.report \notin inbox'
    BY <1>2, <1>3 DEF ReportsInv, NeitherLostNorDoubled
  <2>4. \A a, b \in table' : a.report = b.report => a = b
    BY <1>2, <1>3, <1>5, <2>1 DEF ReportsInv, NeitherLostNorDoubled
  <2> QED
    BY <2>2, <2>3, <2>4, <1>2 DEF NeitherLostNorDoubled
<1>12. Seen'
  <2> SUFFICES ASSUME NEW o \in Operators
               PROVE  /\ triage'[o].sees => \E row \in table' : row.id = triage'[o].id
                      /\ triage'[o].stage = "looking" => triage'[o].misses \in 0 .. 1
    BY DEF Seen, RowOf
  <2>1. triage'[o].sees => \E row \in table : row.id = triage[o].id
    BY <1>8 DEF ReportsInv, Seen, RowOf
  <2>2. triage[o].stage = "looking" => triage[o].misses \in 0 .. 1
    BY DEF ReportsInv, Seen
  <2> QED
    BY <2>1, <2>2, <1>2, <1>8
<1>13. VerdictStands'
  BY <1>2 DEF ReportsInv, VerdictStands, RowOf
<1> QED
  BY <1>7, <1>10, <1>11, <1>12, <1>13 DEF ReportsInv

LEMMA TriageKeeps ==
  ASSUME ReportsInv, NEW o \in Operators, NEW id \in ReportId, NEW verdict \in Verdicts, Triage(o, id, verdict)
  PROVE  ReportsInv'
<1> DEFINE asked == [stage |-> "looking", id |-> id, verdict |-> verdict, misses |-> 0, sees |-> TRUE]
<1>1. asked \in TriageRequest
  BY DEF TriageRequest
<1>2. triage' = [triage EXCEPT ![o] = asked] /\ triage \in [Operators -> TriageRequest]
  BY DEF Triage, ReportsInv, Typed
<1>3. triage' \in [Operators -> TriageRequest]
  BY <1>1, <1>2
<1>4. Pending' /\ Seen'
  BY <1>2 DEF Triage, ReportsInv, Pending, Seen, RowOf
<1> QED
  BY <1>3, <1>4, Elsewhere DEF Triage, ReportsInv, Typed

LEMMA MissesKeeps ==
  ASSUME ReportsInv, NEW o \in Operators, Misses(o)
  PROVE  ReportsInv'
<1>1. triage \in [Operators -> TriageRequest] /\ triage[o] \in TriageRequest
  BY DEF ReportsInv, Typed
<1> DEFINE missed == [triage[o] EXCEPT !.misses = @ + 1,
                        !.stage = IF triage[o].misses = 1 THEN "not found" ELSE @,
                        !.sees = RowOf(triage[o].id) # {}]
<1>2. triage' = [triage EXCEPT ![o] = missed]
  BY <1>1 DEF Misses
<1>3. triage[o].misses \in 0 .. 1
  BY DEF Misses, ReportsInv, Seen
<1>4. missed \in TriageRequest /\ missed.id = triage[o].id /\ (missed.sees => RowOf(missed.id) # {})
  <2>1. (RowOf(triage[o].id) # {}) \in BOOLEAN /\ triage[o].misses + 1 \in 0 .. 2
    BY <1>3
  <2>2. (IF triage[o].misses = 1 THEN "not found" ELSE triage[o].stage) \in {"none", "looking", "done", "not found"}
    BY <1>1 DEF TriageRequest
  <2>3. missed = [triage[o] EXCEPT !.misses = triage[o].misses + 1,
                    !.stage = IF triage[o].misses = 1 THEN "not found" ELSE triage[o].stage,
                    !.sees = RowOf(triage[o].id) # {}]
    BY <1>1 DEF TriageRequest
  <2> DEFINE m == triage[o].misses + 1
             st == IF triage[o].misses = 1 THEN "not found" ELSE triage[o].stage
             b == RowOf(triage[o].id) # {}
  <2> HIDE DEF m, st, b
  <2>4. /\ [triage[o] EXCEPT !.misses = m, !.stage = st, !.sees = b] \in TriageRequest
        /\ [triage[o] EXCEPT !.misses = m, !.stage = st, !.sees = b].id = triage[o].id
        /\ [triage[o] EXCEPT !.misses = m, !.stage = st, !.sees = b].sees = b
    <3>1. triage[o] \in TriageRequest /\ m \in 0 .. 2 /\ b \in BOOLEAN
          /\ st \in {"none", "looking", "done", "not found"}
      BY <1>1, <2>1, <2>2 DEF m, st, b
    <3> DEFINE t == triage[o]
    <3>2. t \in TriageRequest
      BY <3>1
    <3> HIDE DEF t
    <3>3. /\ [t EXCEPT !.misses = m, !.stage = st, !.sees = b] \in TriageRequest
          /\ [t EXCEPT !.misses = m, !.stage = st, !.sees = b].id = t.id
          /\ [t EXCEPT !.misses = m, !.stage = st, !.sees = b].sees = b
      BY <3>1, <3>2 DEF TriageRequest
    <3> QED
      BY <3>3 DEF t
  <2>5. missed = [triage[o] EXCEPT !.misses = m, !.stage = st, !.sees = b]
    BY <2>3 DEF m, st, b
  <2> HIDE DEF missed
  <2>6. missed \in TriageRequest /\ missed.id = triage[o].id /\ missed.sees = b
    BY <2>4, <2>5
  <2> QED
    BY <2>6 DEF b
<1>8. missed.stage = "looking" => missed.misses \in 0 .. 1
  <2>1. missed.stage = IF triage[o].misses = 1 THEN "not found" ELSE triage[o].stage
    BY <1>1 DEF TriageRequest
  <2>2. missed.misses = triage[o].misses + 1
    BY <1>1 DEF TriageRequest
  <2> QED
    BY <2>1, <2>2, <1>3
<1>5. triage' \in [Operators -> TriageRequest]
  BY <1>1, <1>2, <1>4
<1>6. Seen'
  <2> SUFFICES ASSUME NEW p \in Operators
               PROVE  /\ triage'[p].sees => RowOf(triage'[p].id) # {}
                      /\ triage'[p].stage = "looking" => triage'[p].misses \in 0 .. 1
    BY DEF Misses, Seen, RowOf
  <2>1. CASE p = o
    BY <2>1, <1>1, <1>2, <1>4, <1>8
  <2>2. CASE p # o
    BY <2>2, <1>1, <1>2 DEF ReportsInv, Seen
  <2> QED
    BY <2>1, <2>2
<1>7. Pending'
  BY DEF Misses, ReportsInv, Pending
<1> QED
  BY <1>5, <1>6, <1>7, Elsewhere DEF Misses, ReportsInv, Typed

LEMMA UpdatesKeeps ==
  ASSUME ReportsInv, NEW o \in Operators, Updates(o)
  PROVE  ReportsInv'
<1> DEFINE id == triage[o].id
           verdict == triage[o].verdict
           Judged(row) == IF row.id = id THEN [row EXCEPT !.verdict = verdict] ELSE row
<1>0. /\ triage \in [Operators -> TriageRequest] /\ triage[o] \in TriageRequest
      /\ table \subseteq ReportRow
  BY DEF ReportsInv, Typed
<1>1. RowOf(id) # {} /\ verdict \in Verdicts \cup {"new"}
  BY <1>0 DEF Updates, ReportsInv, Seen, TriageRequest
<1>2. table' = {Judged(row) : row \in table} /\ UNCHANGED <<landed, inbox, served, sweep>>
  BY DEF Updates
<1>3. \A row \in table : /\ Judged(row) \in ReportRow /\ Judged(row).id = row.id
                         /\ Judged(row).report = row.report /\ Judged(row).root = row.root
                         /\ row.id = id => Judged(row).verdict = verdict
                         /\ row.id # id => Judged(row) = row
  BY <1>0, <1>1 DEF ReportRow
<1> HIDE DEF Judged, id, verdict
<1>4. \A row \in table' : \E old \in table : row = Judged(old)
  BY <1>2
<1>5. triage' \in [Operators -> TriageRequest] /\ \A p \in Operators :
         triage'[p].sees = triage[p].sees /\ triage'[p].id = triage[p].id
         /\ (triage'[p].stage = "looking" => triage[p].stage = "looking") /\ triage'[p].misses = triage[p].misses
  BY <1>0 DEF Updates, TriageRequest
<1>6. Typed' /\ Named' /\ Pending'
  BY <1>2, <1>3, <1>4, <1>5 DEF ReportsInv, Typed, Named, Pending
<1>7. \A row \in table : \E new \in table' : new = Judged(row)
  BY <1>2
<1>8. NeitherLostNorDoubled'
  <2>1. \A r \in landed : r \in inbox \/ \E row \in table' : row.report = r
    BY <1>3, <1>7 DEF ReportsInv, NeitherLostNorDoubled
  <2>2. \A row \in table' : row.report \notin inbox
    BY <1>3, <1>4 DEF ReportsInv, NeitherLostNorDoubled
  <2>3. \A a, b \in table' : a.report = b.report => a = b
    BY <1>3, <1>4 DEF ReportsInv, NeitherLostNorDoubled
  <2> QED
    BY <2>1, <2>2, <2>3, <1>2 DEF NeitherLostNorDoubled
<1>9. Seen'
  <2> SUFFICES ASSUME NEW p \in Operators
               PROVE  /\ triage'[p].sees => \E row \in table' : row.id = triage[p].id
                      /\ triage'[p].stage = "looking" => triage'[p].misses \in 0 .. 1
    BY <1>5 DEF Seen, RowOf
  <2> QED
    BY <1>3, <1>5, <1>7 DEF ReportsInv, Seen, RowOf
<1>10. VerdictStands'
  <2>1. said' = [i \in DOMAIN said \cup {id} |-> IF i = id THEN verdict ELSE said[i]]
    BY DEF Updates, id, verdict
  <2> SUFFICES ASSUME NEW i \in DOMAIN said \cup {id}
               PROVE  \E row \in table' : row.id = i /\ row.verdict = said'[i]
    BY <2>1 DEF VerdictStands, RowOf
  <2>2. CASE i = id
    <3>1. PICK row \in table : row.id = id
      BY <1>1 DEF RowOf
    <3> QED
      BY <3>1, <2>1, <2>2, <1>3, <1>7
  <2>3. CASE i # id
    <3>1. i \in DOMAIN said /\ said'[i] = said[i]
      BY <2>1, <2>3
    <3>2. PICK row \in table : row.id = i /\ row.verdict = said[i]
      BY <3>1 DEF ReportsInv, VerdictStands, RowOf
    <3> QED
      BY <3>1, <3>2, <2>3, <1>3, <1>7
  <2> QED
    BY <2>2, <2>3
<1> QED
  BY <1>6, <1>8, <1>9, <1>10 DEF ReportsInv

LEMMA ReportsStep == ReportsInv /\ [PNext]_pvars => ReportsInv'
<1> SUFFICES ASSUME ReportsInv, [PNext]_pvars PROVE ReportsInv'
  OBVIOUS
<1>1. ASSUME NEW r \in Reports, ApplyReport(r) PROVE ReportsInv'
  BY <1>1, ApplyReportKeeps
<1>2. ASSUME NEW roots \in SUBSET Roots, Reseed(roots) PROVE ReportsInv'
  BY <1>2, ReseedKeeps
<1>3. ASSUME NEW w \in Sweepers, SweepReports(w) \/ TakeRows(w) \/ SweepCommits(w) \/ SweepAborts(w)
      PROVE ReportsInv'
  BY <1>3, SweepReportsKeeps, TakeRowsKeeps, SweepCommitsKeeps, SweepAbortsKeeps
<1>4. ASSUME NEW o \in Operators, NEW id \in ReportId, NEW verdict \in Verdicts, Triage(o, id, verdict)
      PROVE ReportsInv'
  BY <1>4, TriageKeeps
<1>5. ASSUME NEW o \in Operators, Updates(o) \/ Misses(o) PROVE ReportsInv'
  BY <1>5, UpdatesKeeps, MissesKeeps
<1>6. CASE UNCHANGED pvars
  BY <1>6 DEF pvars, ReportsInv, Typed, NeitherLostNorDoubled, Named, Pending, Seen, VerdictStands, RowOf
<1> QED
  BY <1>1, <1>2, <1>3, <1>4, <1>5, <1>6 DEF PNext

-----------------------------------------------------------------------------
\* For any readers, sweepers and operators, a report that landed is in one place
\* and only once.
THEOREM OneOfEachReport == PSpec => []NeitherLostNorDoubled
<1>1. ReportsInv => NeitherLostNorDoubled
  BY DEF ReportsInv
<1> QED
  BY <1>1, ReportsInitially, ReportsStep, PTL DEF PSpec

\* No sweep undoes a verdict an operator was told is recorded.
THEOREM VerdictsAreKept == PSpec => []VerdictStands
<1>1. ReportsInv => VerdictStands
  BY DEF ReportsInv
<1> QED
  BY <1>1, ReportsInitially, ReportsStep, PTL DEF PSpec

\* A row keeps its id, its report and whether it is a vote through every step.
THEOREM VotesAreKept == PSpec => VoteStaysAVote
<1> DEFINE Kept == \A row \in table : \E new \in table' :
                      new.id = row.id /\ new.report = row.report /\ new.root = row.root
<1>1. ReportsInv /\ [PNext]_pvars => [Kept]_pvars
  <2> SUFFICES ASSUME ReportsInv, PNext PROVE Kept
    OBVIOUS
  <2>1. ASSUME NEW w \in Sweepers, SweepCommits(w) PROVE Kept
    <3>1. table \subseteq table'
      BY <2>1 DEF SweepCommits, Rewritten, HeldRows
    <3> QED
      BY <3>1
  <2>2. ASSUME NEW o \in Operators, Updates(o) PROVE Kept
    <3> SUFFICES ASSUME NEW row \in table
                 PROVE  \E new \in table' : new.id = row.id /\ new.report = row.report /\ new.root = row.root
      OBVIOUS
    <3> DEFINE new == IF row.id = triage[o].id THEN [row EXCEPT !.verdict = triage[o].verdict] ELSE row
    <3>1. new \in table'
      BY <2>2 DEF Updates
    <3>2. row \in ReportRow
      BY DEF ReportsInv, Typed
    <3>3. new.id = row.id /\ new.report = row.report /\ new.root = row.root
      BY <3>2 DEF ReportRow
    <3> QED
      BY <3>1, <3>3
  <2>3. CASE UNCHANGED table
    BY <2>3
  <2> QED
    BY <2>1, <2>2, <2>3 DEF PNext, ApplyReport, Reseed, SweepReports, TakeRows, SweepAborts, Triage, Misses
<1>2. PSpec => []ReportsInv
  BY ReportsInitially, ReportsStep, PTL DEF PSpec
<1> QED
  BY <1>1, <1>2, PTL DEF PSpec, VoteStaysAVote

-----------------------------------------------------------------------------
(* What a phone holds is what its version says, for any logs, revisions and  *)
(* callers: a fetch carries a version and the rows it was read with, from    *)
(* the one snapshot to the one transaction.                                  *)

\* Whatever a log may hold.
Row == UNION {{log[i] : i \in DOMAIN log} : log \in Logs}
Pack == [revision : Nat, digest : SUBSET Row]
FetchStages == {"rest", "looking", "asking", "told", "wanted", "versioned", "body"}
FetchPlace == [stage : FetchStages, pack : Pack, snapshot : SUBSET Row]

SenseTypeOK ==
    /\ senses \subseteq Row /\ revision \in Nat
    /\ fetch \in [Fetchers -> FetchPlace]

\* A version and the rows it was read with.
Together(p) == p.stage \in {"versioned", "body"} => p.pack.digest = p.snapshot

Labelled ==
    /\ SenseTypeOK
    /\ \A c \in Fetchers : Together(fetch[c])
    /\ PackIsWhatItSays
    /\ held.version # NoPack => Visible(held.rows) # {}

-----------------------------------------------------------------------------
(* What a seed leaves comes from its log. *)
LEMMA ReplacedRows == ASSUME NEW log \in Logs PROVE Replaced(log) \subseteq Row
  BY DEF Replaced, Row

LEMMA AtRestFits == AtRest \in FetchPlace /\ Together(AtRest) /\ NoPack \in Pack /\ NoPack.revision = 0
<1>1. NoPack \in Pack /\ NoPack.revision = 0
  BY DEF NoPack, Version, Pack
<1>2. AtRest = [stage |-> "rest", pack |-> NoPack, snapshot |-> {}]
  BY DEF AtRest
<1> HIDE DEF NoPack
<1> QED BY <1>1, <1>2 DEF FetchPlace, FetchStages, Together

(* One fetch moves on, with its version and its rows together. *)
LEMMA OneFetchMoves ==
  ASSUME Labelled, NEW c \in Fetchers, NEW p \in FetchPlace, Together(p), fetch' = [fetch EXCEPT ![c] = p]
  PROVE  fetch' \in [Fetchers -> FetchPlace] /\ \A d \in Fetchers : Together(fetch'[d])
  BY DEF Labelled, SenseTypeOK

THEOREM LabelledInit == SenseInit => Labelled
<1> SUFFICES ASSUME SenseInit PROVE Labelled
  OBVIOUS
<1>1. SenseTypeOK /\ \A c \in Fetchers : Together(fetch[c])
  BY AtRestFits DEF SenseInit, SenseTypeOK
<1>2. held.version = NoPack
  BY DEF SenseInit, Nothing
<1> QED BY <1>1, <1>2 DEF Labelled, PackIsWhatItSays

(* A fetch that reads or waits leaves the phone as it is. *)
LEMMA FetchKeepsLabelled ==
  ASSUME Labelled, NEW c \in Fetchers, NEW p \in FetchPlace, Together(p), fetch' = [fetch EXCEPT ![c] = p],
         UNCHANGED <<senses, revision, held>>
  PROVE  Labelled'
<1>1. fetch' \in [Fetchers -> FetchPlace] /\ \A d \in Fetchers : Together(fetch'[d])
  BY OneFetchMoves
<1>2. PackIsWhatItSays' /\ (held.version # NoPack => Visible(held.rows) # {})'
  BY DEF Labelled, PackIsWhatItSays, Visible
<1>3. SenseTypeOK'
  BY <1>1 DEF Labelled, SenseTypeOK
<1>4. (\A d \in Fetchers : Together(fetch[d]))'
  BY <1>1 DEF Together
<1> QED BY <1>2, <1>3, <1>4 DEF Labelled

LEMMA InstallKeepsLabelled ==
  ASSUME Labelled, NEW c \in Fetchers, Install(c)
  PROVE  Labelled'
<1>1. fetch[c] \in FetchPlace /\ fetch[c].pack.digest = fetch[c].snapshot /\ fetch[c].stage = "body"
  BY DEF Labelled, SenseTypeOK, Together, Install
<1>2. fetch' \in [Fetchers -> FetchPlace] /\ \A d \in Fetchers : Together(fetch'[d])
  BY AtRestFits, OneFetchMoves DEF Install, Done
<1>3. SenseTypeOK' /\ (\A d \in Fetchers : Together(fetch[d]))'
  BY <1>2 DEF Labelled, SenseTypeOK, Install, Together
<1>4. CASE Visible(fetch[c].snapshot) = {}
  <2>1. held' = held
    BY <1>4 DEF Install
  <2> QED BY <1>3, <2>1 DEF Labelled, PackIsWhatItSays, Visible
<1>5. CASE Visible(fetch[c].snapshot) # {}
  <2>1. held' = [rows |-> fetch[c].snapshot, basis |-> fetch[c].pack.revision, version |-> fetch[c].pack]
    BY <1>5 DEF Install
  <2>2. PackIsWhatItSays'
    BY <1>1, <2>1 DEF PackIsWhatItSays
  <2>3. (held.version # NoPack => Visible(held.rows) # {})'
    BY <1>5, <2>1 DEF Visible
  <2> QED BY <1>3, <2>2, <2>3 DEF Labelled
<1> QED BY <1>4, <1>5

THEOREM LabelledNext == Labelled /\ [SenseNext]_sensevars => Labelled'
<1> SUFFICES ASSUME Labelled, [SenseNext]_sensevars PROVE Labelled'
  OBVIOUS
<1>0. /\ senses \subseteq Row /\ revision \in Nat /\ fetch \in [Fetchers -> FetchPlace]
      /\ \A d \in Fetchers : fetch[d] \in FetchPlace /\ Together(fetch[d])
  BY DEF Labelled, SenseTypeOK
<1>1. ASSUME NEW log \in Logs, Seed(log) PROVE Labelled'
  <2>1. senses' \subseteq Row /\ UNCHANGED <<revision, fetch, held>>
    BY <1>0, <1>1, ReplacedRows DEF Seed
  <2> QED BY <1>0, <2>1 DEF Labelled, SenseTypeOK, PackIsWhatItSays, Visible, Together
<1>2. CASE Deploy \/ GapPasses \/ UNCHANGED sensevars
  <2>1. revision' \in Nat /\ UNCHANGED <<senses, fetch, held>>
    BY <1>0, <1>2 DEF Deploy, GapPasses, sensevars
  <2> QED BY <1>0, <2>1 DEF Labelled, SenseTypeOK, PackIsWhatItSays, Visible, Together
<1>3. CASE Killed
  <2>1. fetch' \in [Fetchers -> FetchPlace] /\ (\A d \in Fetchers : Together(fetch[d]))' /\ UNCHANGED <<senses, revision, held>>
    BY <1>3, AtRestFits DEF Killed, Together
  <2> QED BY <1>0, <2>1 DEF Labelled, SenseTypeOK, PackIsWhatItSays, Visible
<1>4. ASSUME NEW c \in Fetchers, NEW stage \in {"looking", "asking", "wanted"}, To(c, stage),
             UNCHANGED <<senses, revision, held>>
      PROVE  Labelled'
  <2> DEFINE p == [fetch[c] EXCEPT !.stage = stage]
  <2>1. p \in FetchPlace /\ Together(p)
    BY <1>0, <1>4 DEF FetchPlace, FetchStages, Together
  <2>2. fetch' = [fetch EXCEPT ![c] = p]
    BY <1>4 DEF To
  <2> HIDE DEF p
  <2> QED BY <1>4, <2>1, <2>2, FetchKeepsLabelled
<1>5. ASSUME NEW c \in Fetchers, fetch' = [fetch EXCEPT ![c] = AtRest], UNCHANGED <<senses, revision, held>>
      PROVE  Labelled'
  BY <1>5, AtRestFits, FetchKeepsLabelled
<1>6. CASE Open
  <2>1. Panel \in Fetchers /\ To(Panel, "asking") /\ UNCHANGED <<senses, revision, held>>
    BY <1>6 DEF Open, Fetchers
  <2> QED BY <1>4, <2>1
<1>7. ASSUME NEW c \in Fetchers, Resume(c) \/ Look(c) \/ OnOffer(c) \/ Fail(c) PROVE Labelled'
  <2>1. CASE Resume(c)
    BY <1>4, <2>1 DEF Resume
  <2>2. CASE Look(c)
    BY <1>4, <1>5, <2>2 DEF Look
  <2>3. CASE OnOffer(c)
    BY <1>4, <1>5, <2>3 DEF OnOffer, Done
  <2>4. CASE Fail(c)
    BY <1>5, <2>4 DEF Fail, Done
  <2> QED BY <1>7, <2>1, <2>2, <2>3, <2>4
<1>8. ASSUME NEW c \in Fetchers, AskVersion(c) PROVE Labelled'
  <2>1. PICK tag \in {Version(revision, senses), NoPack} :
              fetch' = [fetch EXCEPT ![c] = [@ EXCEPT !.stage = "told", !.pack = tag]]
    BY <1>8 DEF AskVersion
  <2> DEFINE p == [fetch[c] EXCEPT !.stage = "told", !.pack = tag]
  <2>2. tag \in Pack
    BY <1>0, AtRestFits DEF Version, Pack
  <2>3. p \in FetchPlace /\ Together(p)
    BY <1>0, <2>2 DEF FetchPlace, FetchStages, Together
  <2>4. fetch' = [fetch EXCEPT ![c] = p]
    BY <2>1
  <2> HIDE DEF p
  <2> QED BY <1>8, <2>3, <2>4, FetchKeepsLabelled DEF AskVersion
<1>9. ASSUME NEW c \in Fetchers, ReadVersion(c) PROVE Labelled'
  <2> DEFINE p == [stage |-> "versioned", pack |-> Version(revision, senses), snapshot |-> senses]
  <2>1. p \in FetchPlace /\ Together(p)
    BY <1>0 DEF FetchPlace, FetchStages, Together, Version, Pack
  <2>2. fetch' = [fetch EXCEPT ![c] = p]
    BY <1>9 DEF ReadVersion
  <2> HIDE DEF p
  <2> QED BY <1>9, <2>1, <2>2, FetchKeepsLabelled DEF ReadVersion
<1>10. ASSUME NEW c \in Fetchers, ReadRows(c) PROVE Labelled'
  <2> DEFINE p == [fetch[c] EXCEPT !.stage = "body"]
  <2>1. fetch[c].stage = "versioned"
    BY <1>10 DEF ReadRows
  <2>2. p \in FetchPlace /\ Together(p)
    BY <1>0, <2>1 DEF FetchPlace, FetchStages, Together
  <2>3. fetch' = [fetch EXCEPT ![c] = p]
    BY <1>10 DEF ReadRows, To
  <2> HIDE DEF p
  <2> QED BY <1>10, <2>2, <2>3, FetchKeepsLabelled DEF ReadRows
<1>11. ASSUME NEW c \in Fetchers, Install(c) PROVE Labelled'
  BY <1>11, InstallKeepsLabelled
<1> QED BY <1>1, <1>2, <1>3, <1>6, <1>7, <1>8, <1>9, <1>10, <1>11 DEF SenseNext

(* A version a phone records names the very rows and basis it holds. *)
THEOREM PacksAreWhatTheySay == SenseSpec => []PackIsWhatItSays
<1>1. Labelled => PackIsWhatItSays
  BY DEF Labelled
<1> QED BY <1>1, LabelledInit, LabelledNext, PTL DEF SenseSpec

(* No install leaves a reader with nothing to see. *)
THEOREM ReadersAreNeverLeftBlank == SenseSpec => NeverBlank
<1>1. ASSUME Labelled, [SenseNext]_sensevars
      PROVE  [Visible(held.rows) # {} \/ held'.version # NoPack => Visible(held'.rows) # {}]_sensevars
  <2> SUFFICES ASSUME SenseNext, Visible(held.rows) # {} \/ held'.version # NoPack PROVE Visible(held'.rows) # {}
    BY <1>1
  <2>1. ASSUME NEW c \in Fetchers, Install(c) PROVE held' = held \/ Visible(held'.rows) # {}
    BY <2>1 DEF Install, Visible
  <2>2. held' = held \/ Visible(held'.rows) # {}
    BY <2>1 DEF SenseNext, Seed, Deploy, GapPasses, Open, Killed, Resume, Look, AskVersion, OnOffer,
                ReadVersion, ReadRows, Fail
  <2>3. held' = held => Visible(held'.rows) # {}
    BY <1>1 DEF Labelled
  <2> QED BY <2>2, <2>3
<1> QED BY <1>1, LabelledInit, LabelledNext, PTL DEF SenseSpec, NeverBlank

-----------------------------------------------------------------------------
(* The limiter's bound, for any callers, requests, burst and map size.  What *)
(* a bucket is worth is counted together with what has been spent from it:   *)
(* no update, sweep or late request makes the two worth more than the burst, *)
(* what came back, and the lateness of the requests that made a bucket.      *)
(* And a batch, which holds an item for every word it has come to and no     *)
(* other, until it is answered whole or refused.                             *)

Bucket == [tokens : Int, seen : Nat]
RequestStages == {"unsent", "at the gate", "routed", "batch", "answered"}
RequestPlace == [stage : RequestStages, now : Nat, items : Seq(Nat), status : Nat]

RootdTypeOK ==
    /\ clock \in Nat
    /\ DOMAIN buckets \subseteq Callers /\ buckets \in [DOMAIN buckets -> Bucket]
    /\ request \in [Requests -> RequestPlace]
    /\ spent \in [Callers -> Nat] /\ late \in [Callers -> Nat]

\* No bucket has seen what is yet to come, and no request holds it.
NotAhead(tracked) ==
    /\ \A c \in DOMAIN tracked : tracked[c].seen <= clock
    /\ \A r \in Requests : request[r].now <= clock

\* A bucket and what was spent from it; and a caller without one, who has one
\* coming that is full.
Worth(tracked, lateness) ==
    /\ \A c \in DOMAIN tracked :
         /\ spent[c] + tracked[c].tokens <= Burst + tracked[c].seen + lateness[c]
         /\ tracked[c].tokens + (clock - tracked[c].seen) >= 0
    /\ \A c \in Callers \ DOMAIN tracked : spent[c] <= clock + lateness[c]

Limited == RootdTypeOK /\ NotAhead(buckets) /\ Worth(buckets, late)

-----------------------------------------------------------------------------
(* What a word is answered is a status. *)
LEMMA StatusIsNumber == ASSUME NEW word PROVE StatusOf(word) \in Nat
  BY DEF StatusOf

(* A request that is answered keeps the clock it read. *)
LEMMA AnswerMoves ==
  ASSUME request \in [Requests -> RequestPlace], NEW r \in Requests, NEW status \in Nat, NEW items \in Seq(Nat),
         Answer(r, status, items)
  PROVE  \E p \in RequestPlace : p.now = request[r].now /\ request' = [request EXCEPT ![r] = p]
<1> DEFINE p == [request[r] EXCEPT !.stage = "answered", !.status = status, !.items = items]
<1>1. p \in RequestPlace /\ p.now = request[r].now
  BY DEF RequestPlace, RequestStages
<1>2. request' = [request EXCEPT ![r] = p]
  BY DEF Answer
<1> HIDE DEF p
<1> QED BY <1>1, <1>2

(* And so does one that moves on. *)
LEMMA StageMoves ==
  ASSUME request \in [Requests -> RequestPlace], NEW r \in Requests, NEW stage \in RequestStages,
         request' = [request EXCEPT ![r] = [@ EXCEPT !.stage = stage]]
  PROVE  \E p \in RequestPlace : p.now = request[r].now /\ request' = [request EXCEPT ![r] = p]
<1> DEFINE p == [request[r] EXCEPT !.stage = stage]
<1>1. p \in RequestPlace /\ p.now = request[r].now
  BY DEF RequestPlace, RequestStages
<1>2. request' = [request EXCEPT ![r] = p]
  OBVIOUS
<1> HIDE DEF p
<1> QED BY <1>1, <1>2

(* One request moves, and no other. *)
LEMMA OneRequestMoves ==
  ASSUME request \in [Requests -> RequestPlace], NEW r \in Requests, NEW p \in RequestPlace,
         request' = [request EXCEPT ![r] = p]
  PROVE  request' \in [Requests -> RequestPlace] /\ request'[r] = p /\ \A q \in Requests \ {r} : request'[q] = request[q]
  OBVIOUS

(* The bound follows: a bucket is never worth less than what is yet to come *)
(* back to it.                                                              *)
LEMMA LimitedBounds == ASSUME Limited PROVE RateBound
<1> SUFFICES ASSUME NEW c \in Callers PROVE spent[c] <= Burst + clock + late[c]
  BY DEF RateBound
<1>1. CASE c \in DOMAIN buckets
  <2>1. buckets[c].tokens \in Int /\ buckets[c].seen \in Nat
    BY <1>1 DEF Limited, RootdTypeOK, Bucket
  <2> QED BY <1>1, <2>1, LimitAssumption DEF Limited, RootdTypeOK, Worth
<1>2. CASE c \notin DOMAIN buckets
  BY <1>2, LimitAssumption DEF Limited, RootdTypeOK, Worth
<1> QED BY <1>1, <1>2

(* A sweep forgets only buckets that a full one is not worth more than. *)
LEMMA SweepKeepsWorth ==
  ASSUME Limited, NEW now \in Nat, now <= clock
  PROVE  /\ DOMAIN Swept(now) \subseteq Callers /\ Swept(now) \in [DOMAIN Swept(now) -> Bucket]
         /\ DOMAIN Swept(now) \subseteq DOMAIN buckets
         /\ NotAhead(Swept(now)) /\ Worth(Swept(now), late)
<1> DEFINE tracked == Swept(now)
<1>1. DOMAIN tracked = {d \in DOMAIN buckets : ~Refilled(buckets[d], now)}
  BY DEF Swept
<1>2. \A c \in DOMAIN tracked : c \in DOMAIN buckets /\ tracked[c] = buckets[c]
  BY <1>1 DEF Swept
<1>3. tracked \in [DOMAIN tracked -> Bucket] /\ DOMAIN tracked \subseteq Callers
  BY <1>1, <1>2 DEF Swept, Limited, RootdTypeOK
<1>4. ASSUME NEW c \in Callers \ DOMAIN tracked PROVE spent[c] <= clock + late[c]
  <2>1. CASE c \in DOMAIN buckets
    <3>1. buckets[c].tokens \in Int /\ buckets[c].seen \in Nat
      BY <2>1 DEF Limited, RootdTypeOK, Bucket
    <3>2. buckets[c].tokens + (now - buckets[c].seen) >= Burst
      BY <1>1, <1>4, <2>1 DEF Refilled
    <3>3. spent[c] + buckets[c].tokens <= Burst + buckets[c].seen + late[c]
      BY <2>1 DEF Limited, Worth
    <3>4. spent[c] \in Nat /\ late[c] \in Nat /\ clock \in Nat /\ Burst \in Nat
      BY LimitAssumption DEF Limited, RootdTypeOK
    <3> QED BY <3>1, <3>2, <3>3, <3>4
  <2>2. CASE c \notin DOMAIN buckets
    BY <2>2, <1>4 DEF Limited, Worth
  <2> QED BY <2>1, <2>2
<1>5. Worth(tracked, late)
  BY <1>2, <1>4 DEF Limited, Worth
<1>6. NotAhead(tracked)
  BY <1>2 DEF Limited, NotAhead
<1> QED BY <1>1, <1>3, <1>5, <1>6

(* The bucket a request is held against is as good as any: one that was     *)
(* there, or a full one whose lateness is put down.                         *)
LEMMA TrackedKeepsWorth ==
  ASSUME Limited, NEW c \in Callers, NEW now \in Nat, now <= clock,
         NEW lateness,
         lateness = (IF c \in DOMAIN buckets THEN late ELSE [late EXCEPT ![c] = @ + (clock - now)])
  PROVE  /\ lateness \in [Callers -> Nat]
         /\ c \in DOMAIN Tracked(c, now) /\ DOMAIN Tracked(c, now) \subseteq Callers
         /\ Tracked(c, now) \in [DOMAIN Tracked(c, now) -> Bucket]
         /\ NotAhead(Tracked(c, now)) /\ Worth(Tracked(c, now), lateness)
<1> DEFINE tracked == Tracked(c, now)
<1>0. clock \in Nat /\ Burst \in Nat /\ late \in [Callers -> Nat] /\ spent \in [Callers -> Nat]
  BY LimitAssumption DEF Limited, RootdTypeOK
<1>1. lateness \in [Callers -> Nat]
  BY <1>0
<1>2. CASE c \in DOMAIN buckets
  BY <1>1, <1>2 DEF Tracked, Limited, RootdTypeOK
<1>3. CASE c \notin DOMAIN buckets
  <2> DEFINE kept == IF Cardinality(DOMAIN buckets) >= MaxTracked THEN Swept(now) ELSE buckets
  <2>1. /\ DOMAIN kept \subseteq Callers /\ kept \in [DOMAIN kept -> Bucket] /\ c \notin DOMAIN kept
        /\ NotAhead(kept) /\ Worth(kept, late)
    BY <1>3, SweepKeepsWorth DEF Limited, RootdTypeOK
  <2>2. tracked = [d \in DOMAIN kept \cup {c} |-> IF d = c THEN [tokens |-> Burst, seen |-> now] ELSE kept[d]]
    BY <1>3 DEF Tracked
  <2> HIDE DEF kept
  <2>3. DOMAIN tracked = DOMAIN kept \cup {c} /\ tracked[c] = [tokens |-> Burst, seen |-> now]
    BY <2>2
  <2>4. \A d \in DOMAIN kept : tracked[d] = kept[d]
    BY <2>1, <2>2
  <2> HIDE DEF tracked
  <2>5. tracked \in [DOMAIN tracked -> Bucket] /\ DOMAIN tracked \subseteq Callers
    <3>1. \A d \in DOMAIN tracked : tracked[d] \in Bucket
      BY <1>0, <2>1, <2>3, <2>4 DEF Bucket
    <3>2. tracked = [d \in DOMAIN tracked |-> tracked[d]]
      BY <2>2, <2>3
    <3> QED BY <2>1, <2>3, <3>1, <3>2
  <2>6. lateness[c] = late[c] + (clock - now) /\ \A d \in Callers \ {c} : lateness[d] = late[d]
    BY <1>0, <1>3
  <2>7. spent[c] <= clock + late[c]
    BY <2>1 DEF Worth
  <2>8. spent[c] + tracked[c].tokens <= Burst + tracked[c].seen + lateness[c]
    BY <1>0, <2>3, <2>6, <2>7
  <2>9. tracked[c].tokens + (clock - tracked[c].seen) >= 0 /\ tracked[c].seen <= clock
    BY <1>0, <2>3
  <2>10. Worth(tracked, lateness)
    BY <2>1, <2>3, <2>4, <2>6, <2>8, <2>9 DEF Worth
  <2>11. NotAhead(tracked)
    BY <2>1, <2>3, <2>4, <2>9 DEF NotAhead
  <2> QED BY <1>1, <2>3, <2>5, <2>10, <2>11 DEF tracked
<1> QED BY <1>2, <1>3

(* What came back since is worth no more than it was counted for, though the *)
(* request's clock be behind the bucket's.                                   *)
LEMMA ToppedKeepsWorth ==
  ASSUME NEW b \in Bucket, NEW now \in Nat, now <= clock, clock \in Nat, b.seen <= clock,
         NEW room \in Int, b.tokens <= Burst + b.seen + room, b.tokens + (clock - b.seen) >= 0
  PROVE  /\ Topped(b, now) \in Bucket /\ Topped(b, now).seen = now
         /\ Topped(b, now).tokens <= Burst + now + room
         /\ Topped(b, now).tokens + (clock - now) >= 0
<1>1. Burst \in Nat /\ b.tokens \in Int /\ b.seen \in Nat
  BY LimitAssumption DEF Bucket
<1> QED BY <1>1, LimitAssumption DEF Topped, Least, Bucket

THEOREM LimitedInit == RootdInit => Limited
<1> SUFFICES ASSUME RootdInit PROVE Limited
  OBVIOUS
<1>1. DOMAIN buckets = {} /\ buckets = [c \in DOMAIN buckets |-> buckets[c]]
  BY DEF RootdInit
<1>2. Unsent \in RequestPlace
  BY DEF Unsent, RequestPlace, RequestStages
<1> QED BY <1>1, <1>2 DEF RootdInit, Limited, RootdTypeOK, NotAhead, Worth, Unsent

(* Of the steps only Allow touches a bucket. *)
LEMMA AllowKeepsLimited ==
  ASSUME Limited, NEW r \in Requests, Allow(r)
  PROVE  Limited'
<1> DEFINE c == CallerOf[r]
           now == request[r].now
           tracked == Tracked(c, now)
           b == Topped(tracked[c], now)
<1>1. c \in Callers /\ now \in Nat /\ now <= clock /\ clock \in Nat /\ Burst \in Nat
  BY LimitAssumption DEF Limited, RootdTypeOK, NotAhead, RequestPlace, RequestStages
<1>2. late' = IF c \in DOMAIN buckets THEN late ELSE [late EXCEPT ![c] = @ + (clock - now)]
  BY DEF Allow
<1>3. /\ late' \in [Callers -> Nat]
      /\ c \in DOMAIN tracked /\ DOMAIN tracked \subseteq Callers /\ tracked \in [DOMAIN tracked -> Bucket]
      /\ NotAhead(tracked) /\ Worth(tracked, late')
  <2> HIDE DEF c, now
  <2> QED BY <1>1, <1>2, TrackedKeepsWorth
<1>4. tracked[c] \in Bucket /\ tracked[c].tokens \in Int /\ tracked[c].seen \in Nat
  BY <1>3 DEF Bucket
<1>5. spent \in [Callers -> Nat] /\ spent[c] \in Nat /\ late'[c] \in Nat
  BY <1>1, <1>3 DEF Limited, RootdTypeOK
<1>6. /\ b \in Bucket /\ b.seen = now
      /\ b.tokens <= Burst + now + (late'[c] - spent[c])
      /\ b.tokens + (clock - now) >= 0
  <2>1. /\ tracked[c].seen <= clock /\ tracked[c].tokens + (clock - tracked[c].seen) >= 0
        /\ tracked[c].tokens <= Burst + tracked[c].seen + (late'[c] - spent[c])
    BY <1>1, <1>3, <1>4, <1>5 DEF NotAhead, Worth
  <2> HIDE DEF tracked, c, now
  <2> QED BY <1>1, <1>4, <1>5, <2>1, ToppedKeepsWorth
<1>7. clock' = clock /\ request' \in [Requests -> RequestPlace] /\ \A q \in Requests : request'[q].now = request[q].now
  <2>1. request \in [Requests -> RequestPlace] /\ request[r] \in RequestPlace
    BY DEF Limited, RootdTypeOK
  <2>2. PICK p \in RequestPlace : p.now = request[r].now /\ request' = [request EXCEPT ![r] = p]
    <3>1. CASE Answer(r, 429, <<>>) \/ Answer(r, 401, <<>>)
      <4>1. <<>> \in Seq(Nat)
        OBVIOUS
      <4>2. PICK status \in Nat : Answer(r, status, <<>>)
        BY <3>1
      <4> QED BY <2>1, <4>1, <4>2, AnswerMoves
    <3>2. CASE request' = [request EXCEPT ![r] = [@ EXCEPT !.stage = "routed"]]
      BY <2>1, <3>2, StageMoves DEF RequestStages
    <3> QED BY <3>1, <3>2 DEF Allow
  <2> QED BY <2>1, <2>2, OneRequestMoves DEF Allow
<1>8. CASE b.tokens < 1
  <2>1. buckets' = [tracked EXCEPT ![c] = b] /\ spent' = spent
    BY <1>8 DEF Allow
  <2> HIDE DEF c, now, tracked, b
  <2>2. DOMAIN buckets' = DOMAIN tracked /\ buckets' \in [DOMAIN buckets' -> Bucket]
    BY <1>3, <1>6, <2>1
  <2>3. buckets'[c] = b /\ \A d \in DOMAIN tracked \ {c} : buckets'[d] = tracked[d]
    BY <1>3, <2>1
  <2>4. b.tokens \in Int
    BY <1>6 DEF Bucket
  <2>5. spent[c] + b.tokens <= Burst + b.seen + late'[c]
    BY <1>1, <1>5, <1>6, <2>4
  <2>6. NotAhead(buckets)'
    BY <1>1, <1>3, <1>6, <1>7, <2>2, <2>3 DEF Limited, NotAhead
  <2>7. Worth(buckets, late)'
    BY <1>3, <1>6, <1>7, <2>1, <2>2, <2>3, <2>5 DEF Worth
  <2>8. RootdTypeOK'
    BY <1>1, <1>3, <1>5, <1>7, <2>1, <2>2 DEF RootdTypeOK
  <2> QED BY <2>6, <2>7, <2>8 DEF Limited
<1>9. CASE ~(b.tokens < 1)
  <2>1. buckets' = [tracked EXCEPT ![c] = [b EXCEPT !.tokens = @ - 1]] /\ spent' = [spent EXCEPT ![c] = @ + 1]
    BY <1>9 DEF Allow
  <2> HIDE DEF c, now, tracked, b
  <2>2. b.tokens \in Int /\ b.tokens >= 1
    BY <1>6, <1>9 DEF Bucket
  <2> DEFINE less == [b EXCEPT !.tokens = @ - 1]
  <2>3. less \in Bucket /\ less.tokens = b.tokens - 1 /\ less.seen = now
    BY <1>6, <2>2 DEF Bucket
  <2>4. DOMAIN buckets' = DOMAIN tracked /\ buckets'[c] = less /\ \A d \in DOMAIN tracked \ {c} : buckets'[d] = tracked[d]
    BY <1>3, <2>1
  <2>5. buckets' \in [DOMAIN buckets' -> Bucket]
    BY <1>3, <2>1, <2>3
  <2>6. spent' \in [Callers -> Nat] /\ spent'[c] = spent[c] + 1 /\ \A d \in Callers \ {c} : spent'[d] = spent[d]
    BY <1>1, <1>5, <2>1
  <2> HIDE DEF less
  <2>7. spent'[c] + less.tokens <= Burst + less.seen + late'[c]
    BY <1>1, <1>5, <1>6, <2>2, <2>3, <2>6
  <2>8. less.tokens + (clock - less.seen) >= 0 /\ less.seen <= clock
    BY <1>1, <1>6, <2>2, <2>3
  <2>9. NotAhead(buckets)'
    BY <1>1, <1>3, <1>7, <2>4, <2>8 DEF Limited, NotAhead
  <2>10. Worth(buckets, late)'
    BY <1>3, <1>7, <2>4, <2>6, <2>7, <2>8 DEF Worth
  <2>11. RootdTypeOK'
    BY <1>1, <1>3, <1>7, <2>4, <2>5, <2>6 DEF RootdTypeOK
  <2> QED BY <2>9, <2>10, <2>11 DEF Limited
<1> QED BY <1>8, <1>9

(* Every other step leaves the limiter alone, or lets time pass. *)
LEMMA OthersKeepLimited ==
  ASSUME Limited, UNCHANGED <<buckets, spent, late>>, clock' \in Nat, clock' >= clock,
         request' \in [Requests -> RequestPlace], \A r \in Requests : request'[r].now <= clock'
  PROVE  Limited'
<1>1. RootdTypeOK'
  BY DEF Limited, RootdTypeOK
<1>2. \A c \in DOMAIN buckets : buckets[c].tokens \in Int /\ buckets[c].seen \in Nat
  BY DEF Limited, RootdTypeOK, Bucket
<1>3. clock \in Nat /\ Burst \in Nat /\ \A c \in Callers : spent[c] \in Nat /\ late[c] \in Nat
  BY LimitAssumption DEF Limited, RootdTypeOK
<1>4. NotAhead(buckets)'
  BY <1>2, <1>3 DEF Limited, NotAhead
<1>5. Worth(buckets, late)'
  <2>1. \A c \in DOMAIN buckets : buckets[c].tokens + (clock' - buckets[c].seen) >= 0
    BY <1>2, <1>3 DEF Limited, Worth
  <2>2. \A c \in Callers \ DOMAIN buckets : spent[c] <= clock' + late[c]
    BY <1>3 DEF Limited, Worth
  <2> QED BY <2>1, <2>2 DEF Limited, Worth
<1> QED BY <1>1, <1>4, <1>5 DEF Limited

(* The routes answer with a status, and the clock a request read stays. *)
LEMMA RoutesKeepRequests ==
  ASSUME Limited, NEW r \in Requests, Arrive(r) \/ Resolve(r) \/ OpenBatch(r) \/ NextWord(r)
  PROVE  /\ UNCHANGED <<clock, buckets, spent, late>>
         /\ request' \in [Requests -> RequestPlace] /\ \A q \in Requests : request'[q].now <= clock
<1>1. /\ request \in [Requests -> RequestPlace] /\ request[r] \in RequestPlace /\ request[r].items \in Seq(Nat)
      /\ clock \in Nat /\ \A q \in Requests : request[q].now <= clock
  BY DEF Limited, RootdTypeOK, NotAhead, RequestPlace
<1>2. <<>> \in Seq(Nat) /\ "batch" \in RequestStages /\ \A n \in {200, 400, 404, 500} : n \in Nat
  BY DEF RequestStages
<1>3. SUFFICES UNCHANGED <<clock, buckets, spent, late>>
               /\ \E p \in RequestPlace : p.now <= clock /\ request' = [request EXCEPT ![r] = p]
  BY <1>1, OneRequestMoves
<1>4. \A status \in Nat, items \in Seq(Nat) :
        Answer(r, status, items) => \E p \in RequestPlace : p.now <= clock /\ request' = [request EXCEPT ![r] = p]
  <2> SUFFICES ASSUME NEW status \in Nat, NEW items \in Seq(Nat), Answer(r, status, items)
               PROVE  \E p \in RequestPlace : p.now <= clock /\ request' = [request EXCEPT ![r] = p]
    OBVIOUS
  <2>1. PICK p \in RequestPlace : p.now = request[r].now /\ request' = [request EXCEPT ![r] = p]
    BY <1>1, AnswerMoves
  <2> QED BY <1>1, <2>1
<1>5. CASE Arrive(r)
  <2>1. request' = [request EXCEPT ![r] = [@ EXCEPT !.stage = "at the gate", !.now = clock]]
          => \E p \in RequestPlace : p.now <= clock /\ request' = [request EXCEPT ![r] = p]
    <3> DEFINE p == [request[r] EXCEPT !.stage = "at the gate", !.now = clock]
    <3>1. p \in RequestPlace /\ p.now = clock
      BY <1>1 DEF RequestPlace, RequestStages
    <3>2. p.now <= clock
      BY <1>1, <3>1
    <3>3. request' = [request EXCEPT ![r] = [@ EXCEPT !.stage = "at the gate", !.now = clock]]
            => request' = [request EXCEPT ![r] = p]
      OBVIOUS
    <3> HIDE DEF p
    <3> QED BY <3>1, <3>2, <3>3
  <2> QED BY <1>2, <1>4, <1>5, <2>1 DEF Arrive
<1>6. CASE Resolve(r)
  <2>1. PICK status : status \in Nat /\ Answer(r, status, <<>>)
    BY <1>2, <1>6, StatusIsNumber DEF Resolve
  <2> QED BY <1>2, <1>4, <1>6, <2>1 DEF Resolve
<1>7. CASE OpenBatch(r)
  <2>1. request' = [request EXCEPT ![r] = [@ EXCEPT !.stage = "batch"]]
          => \E p \in RequestPlace : p.now <= clock /\ request' = [request EXCEPT ![r] = p]
    BY <1>1, <1>2, StageMoves
  <2> QED BY <1>2, <1>4, <1>7, <2>1 DEF OpenBatch
<1>8. CASE NextWord(r)
  <2> DEFINE items == Append(request[r].items, StatusOf(Asks[r].words[Len(request[r].items) + 1]))
  <2>1. items \in Seq(Nat)
    BY <1>1, StatusIsNumber
  <2>2. UNCHANGED <<clock, buckets, spent, late>>
    BY <1>8 DEF NextWord
  <2>3. \/ Answer(r, 200, request[r].items) \/ Answer(r, 500, <<>>)
        \/ request' = [request EXCEPT ![r] = [@ EXCEPT !.items = items]]
    BY <1>8 DEF NextWord
  <2> HIDE DEF items
  <2>4. request' = [request EXCEPT ![r] = [@ EXCEPT !.items = items]]
          => \E p \in RequestPlace : p.now <= clock /\ request' = [request EXCEPT ![r] = p]
    <3> DEFINE p == [request[r] EXCEPT !.items = items]
    <3>1. p \in RequestPlace /\ p.now = request[r].now
      BY <1>1, <2>1 DEF RequestPlace, RequestStages
    <3> QED BY <1>1, <3>1
  <2>5. CASE Answer(r, 200, request[r].items)
    <3>1. 200 \in Nat /\ request[r].items \in Seq(Nat)
      BY <1>1
    <3>2. \E p \in RequestPlace : p.now <= clock /\ request' = [request EXCEPT ![r] = p]
      BY <3>1, <1>4, <2>5
    <3> QED BY <2>2, <3>2
  <2>6. CASE Answer(r, 500, <<>>)
    <3>1. 500 \in Nat /\ <<>> \in Seq(Nat)
      OBVIOUS
    <3>2. \E p \in RequestPlace : p.now <= clock /\ request' = [request EXCEPT ![r] = p]
      BY <3>1, <1>4, <2>6
    <3> QED BY <2>2, <3>2
  <2>7. CASE request' = [request EXCEPT ![r] = [@ EXCEPT !.items = items]]
    BY <2>2, <2>4, <2>7
  <2> QED BY <2>3, <2>5, <2>6, <2>7
<1> QED BY <1>5, <1>6, <1>7, <1>8

THEOREM LimitedNext == Limited /\ [RootdNext]_rootdvars => Limited'
<1> SUFFICES ASSUME Limited, [RootdNext]_rootdvars PROVE Limited'
  OBVIOUS
<1>0. /\ clock \in Nat /\ clock >= clock /\ request \in [Requests -> RequestPlace]
      /\ \A r \in Requests : request[r].now \in Nat /\ request[r].now <= clock
  <2>1. clock \in Nat /\ request \in [Requests -> RequestPlace] /\ \A r \in Requests : request[r].now <= clock
    BY DEF Limited, RootdTypeOK, NotAhead
  <2>2. \A r \in Requests : request[r] \in RequestPlace
    BY <2>1
  <2> QED BY <2>1, <2>2 DEF RequestPlace
<1>1. CASE Tick
  <2>1. clock' = clock + 1 /\ request' = request /\ UNCHANGED <<buckets, spent, late>>
    BY <1>1 DEF Tick
  <2>2. \A r \in Requests : request'[r].now <= clock'
    BY <1>0, <2>1
  <2> QED BY <1>0, <2>1, <2>2, OthersKeepLimited
<1>2. CASE Break \/ Mend \/ UNCHANGED rootdvars
  BY <1>0, <1>2, OthersKeepLimited DEF Break, Mend, rootdvars
<1>3. ASSUME NEW r \in Requests, Arrive(r) \/ Resolve(r) \/ OpenBatch(r) \/ NextWord(r) PROVE Limited'
  BY <1>0, <1>3, RoutesKeepRequests, OthersKeepLimited
<1>4. ASSUME NEW r \in Requests, Allow(r) PROVE Limited'
  BY <1>4, AllowKeepsLimited
<1> QED BY <1>1, <1>2, <1>3, <1>4 DEF RootdNext

(* The rate a caller is let through at is bounded, whoever else calls. *)
THEOREM RateIsBounded == RootdSpec => []RateBound
<1>1. Limited => RateBound
  BY LimitedBounds
<1> QED BY <1>1, LimitedInit, LimitedNext, PTL DEF RootdSpec

-----------------------------------------------------------------------------
(* A batch, as far as it has come: an item for each word seen to, in order,  *)
(* with the status the word has by itself.                                   *)
SoFar(r, items) ==
    /\ Asks[r].words \in Seq(Word)
    /\ items \in Seq(Nat) /\ Len(items) <= Len(Asks[r].words)
    /\ \A i \in 1 .. Len(items) : items[i] = StatusOf(Asks[r].words[i])

Whole(r, items) == items = [i \in DOMAIN Asks[r].words |-> StatusOf(Asks[r].words[i])]

BatchInv ==
    /\ Limited /\ BatchIsWhole
    /\ \A r \in Requests :
         /\ request[r].stage \in {"unsent", "at the gate", "routed"} => request[r].items = <<>>
         /\ request[r].stage = "batch" => Asks[r].route = "batch" /\ SoFar(r, request[r].items)

(* What one request comes to, when the others stand where they stood.  A step *)
(* that answers a batch with 200 answers it whole.                            *)
LEMMA OneRequest ==
  ASSUME BatchInv, Limited', NEW r \in Requests, NEW p,
         request' = [request EXCEPT ![r] = p],
         p.stage \in {"unsent", "at the gate", "routed"} => p.items = <<>>,
         p.stage = "batch" => Asks[r].route = "batch" /\ SoFar(r, p.items),
         p.stage = "answered" /\ p.status = 200 /\ Asks[r].route = "batch" =>
           Whole(r, p.items)
  PROVE  BatchInv'
<1>1. request \in [Requests -> RequestPlace] BY DEF BatchInv, Limited, RootdTypeOK
<1>2. request'[r] = p /\ \A q \in Requests \ {r} : request'[q] = request[q] BY <1>1
<1>3. BatchIsWhole'
  <2> SUFFICES ASSUME NEW q \in Requests, request'[q].stage = "answered",
                      request'[q].status = 200, Asks[q].route = "batch"
               PROVE  Whole(q, request'[q].items)
    BY DEF BatchIsWhole, Whole
  <2>1. CASE q = r BY <1>2, <2>1
  <2>2. CASE q # r
    <3>0. request'[q] = request[q] BY <1>2, <2>2
    <3>1. request[q].stage = "answered" /\ request[q].status = 200 BY <3>0
    <3>2. Whole(q, request[q].items) BY <3>1 DEF BatchInv, BatchIsWhole, Whole
    <3> QED BY <1>2, <2>2, <3>2
  <2> QED BY <2>1, <2>2
<1>4. \A q \in Requests :
        /\ request'[q].stage \in {"unsent", "at the gate", "routed"} => request'[q].items = <<>>
        /\ request'[q].stage = "batch" => Asks[q].route = "batch" /\ SoFar(q, request'[q].items)
  BY <1>2 DEF BatchInv
<1> QED BY <1>3, <1>4 DEF BatchInv, SoFar

LEMMA AnsweredRequest ==
  ASSUME BatchInv, Limited', NEW r \in Requests, NEW status, NEW items, Answer(r, status, items),
         status = 200 /\ Asks[r].route = "batch" =>
           Whole(r, items)
  PROVE  BatchInv'
<1> DEFINE p == [request[r] EXCEPT !.stage = "answered", !.status = status, !.items = items]
<1>1. request[r] \in RequestPlace BY DEF BatchInv, Limited, RootdTypeOK
<1>2. p.stage = "answered" /\ p.status = status /\ p.items = items BY <1>1 DEF RequestPlace
<1>3. request' = [request EXCEPT ![r] = p] BY DEF Answer
<1> HIDE DEF p
<1> QED BY <1>2, <1>3, OneRequest

LEMMA NextBatchInv == BatchInv /\ [RootdNext]_rootdvars => BatchInv'
<1> SUFFICES ASSUME BatchInv, [RootdNext]_rootdvars PROVE BatchInv' OBVIOUS
<1>0. Limited' BY LimitedNext DEF BatchInv
<1>1. \A r \in Requests : request[r] \in RequestPlace /\ request[r].items \in Seq(Nat)
  BY DEF BatchInv, Limited, RootdTypeOK, RequestPlace
<1>2. CASE Tick \/ Break \/ Mend \/ UNCHANGED rootdvars
  <2>1. request' = request BY <1>2 DEF Tick, Break, Mend, rootdvars
  <2> QED BY <1>0, <2>1 DEF BatchInv, BatchIsWhole, SoFar
<1>3. ASSUME NEW r \in Requests, Arrive(r) PROVE BatchInv'
  <2> DEFINE p == [request[r] EXCEPT !.stage = "at the gate", !.now = clock]
  <2>1. p.stage = "at the gate" /\ p.items = request[r].items BY <1>1 DEF RequestPlace
  <2>2. request' = [request EXCEPT ![r] = p] /\ request[r].items = <<>>
    BY <1>3 DEF Arrive, BatchInv
  <2> HIDE DEF p
  <2> QED BY <1>0, <2>1, <2>2, OneRequest
<1>4. ASSUME NEW r \in Requests, Allow(r) PROVE BatchInv'
  <2>1. CASE Answer(r, 429, <<>>) \/ Answer(r, 401, <<>>)
    BY <1>0, <2>1, AnsweredRequest
  <2>2. CASE request' = [request EXCEPT ![r] = [@ EXCEPT !.stage = "routed"]]
    <3> DEFINE p == [request[r] EXCEPT !.stage = "routed"]
    <3>1. p.stage = "routed" /\ p.items = request[r].items BY <1>1 DEF RequestPlace
    <3>2. request' = [request EXCEPT ![r] = p] /\ request[r].items = <<>>
      BY <1>4, <2>2 DEF Allow, BatchInv
    <3> HIDE DEF p
    <3> QED BY <1>0, <3>1, <3>2, OneRequest
  <2> QED BY <1>4, <2>1, <2>2 DEF Allow
<1>5. ASSUME NEW r \in Requests, Resolve(r) PROVE BatchInv'
  <2>1. Asks[r].route # "batch" BY <1>5 DEF Resolve
  <2>2. \E status : Answer(r, status, <<>>) BY <1>5 DEF Resolve
  <2> QED BY <1>0, <2>1, <2>2, AnsweredRequest
<1>6. ASSUME NEW r \in Requests, OpenBatch(r) PROVE BatchInv'
  <2>1. request[r].stage = "routed" /\ Asks[r].route = "batch" BY <1>6 DEF OpenBatch
  <2>2. CASE Answer(r, 400, <<>>) BY <1>0, <2>2, AnsweredRequest
  <2>3. CASE Asks[r].words # NoBody /\ request' = [request EXCEPT ![r] = [@ EXCEPT !.stage = "batch"]]
    <3> DEFINE p == [request[r] EXCEPT !.stage = "batch"]
    <3>1. p.stage = "batch" /\ p.items = request[r].items BY <1>1 DEF RequestPlace
    <3>2. request' = [request EXCEPT ![r] = p] /\ request[r].items = <<>>
      BY <2>1, <2>3 DEF BatchInv
    <3>3. Asks[r].words \in Seq(Word) BY <2>3, BodyAssumption
    <3>4. SoFar(r, <<>>)
      <4>1. <<>> \in Seq(Nat) /\ Len(<<>>) = 0 OBVIOUS
      <4>2. Len(Asks[r].words) \in Nat BY <3>3
      <4> QED BY <3>3, <4>1, <4>2 DEF SoFar
    <3> HIDE DEF p
    <3> QED BY <1>0, <2>1, <3>1, <3>2, <3>4, OneRequest
  <2> QED BY <1>6, <2>2, <2>3 DEF OpenBatch
<1>7. ASSUME NEW r \in Requests, NextWord(r) PROVE BatchInv'
  <2> DEFINE done == request[r].items
             words == Asks[r].words
             status == StatusOf(words[Len(done) + 1])
             items == Append(done, status)
             p == [request[r] EXCEPT !.items = items]
  <2>1. request[r].stage = "batch" /\ Asks[r].route = "batch" /\ SoFar(r, done)
    BY <1>7 DEF NextWord, BatchInv
  <2>2. /\ words \in Seq(Word) /\ done \in Seq(Nat)
        /\ Len(done) <= Len(words)
        /\ \A i \in 1 .. Len(done) : done[i] = StatusOf(words[i])
    BY <2>1 DEF SoFar
  <2>3. CASE Len(done) = Len(words) /\ Answer(r, 200, done)
    <3>1. Whole(r, done)
      <4> HIDE DEF done, words
      <4>1. DOMAIN done = DOMAIN words /\ DOMAIN words = 1 .. Len(done) BY <2>2, <2>3
      <4>2. done = [i \in DOMAIN done |-> done[i]] BY <2>2
      <4>3. done = [i \in DOMAIN words |-> StatusOf(words[i])] BY <2>2, <4>1, <4>2
      <4> QED BY <4>3 DEF Whole, words
    <3> QED BY <1>0, <2>3, <3>1, AnsweredRequest
  <2>4. CASE Answer(r, 500, <<>>) BY <1>0, <2>4, AnsweredRequest
  <2>5. CASE Len(done) # Len(words) /\ request' = [request EXCEPT ![r] = p]
    <3>1. status \in Nat BY StatusIsNumber
    <3>2. p.stage = "batch" /\ p.items = items BY <1>1, <2>1 DEF RequestPlace
    <3>3. SoFar(r, items)
      <4> HIDE DEF done, words, status
      <4>1. /\ items \in Seq(Nat) /\ Len(items) = Len(done) + 1 /\ items[Len(done) + 1] = status
            /\ \A i \in 1 .. Len(done) : items[i] = done[i]
        BY <2>2, <3>1
      <4>2. Len(done) \in Nat /\ Len(words) \in Nat BY <2>2
      <4>3. Len(items) <= Len(words) BY <2>2, <2>5, <4>1, <4>2
      <4> HIDE DEF items
      <4>4. ASSUME NEW i \in 1 .. Len(items) PROVE items[i] = StatusOf(words[i])
        <5>1. CASE i = Len(done) + 1 BY <4>1, <5>1 DEF status
        <5>2. CASE i \in 1 .. Len(done) BY <2>2, <4>1, <5>2
        <5> QED BY <4>1, <4>2, <5>1, <5>2
      <4> QED BY <2>2, <4>1, <4>3, <4>4 DEF SoFar, words
    <3> HIDE DEF p
    <3> QED BY <1>0, <2>1, <2>5, <3>2, <3>3, OneRequest
  <2> QED BY <1>7, <2>3, <2>4, <2>5 DEF NextWord
<1> QED BY <1>2, <1>3, <1>4, <1>5, <1>6, <1>7 DEF RootdNext

(* A batch answered 200 has an item for each word, in its order. *)
THEOREM BatchesAreWhole == RootdSpec => []BatchIsWhole
<1>1. RootdInit => BatchInv
  <2> SUFFICES ASSUME RootdInit PROVE BatchInv OBVIOUS
  <2>1. Limited BY LimitedInit
  <2>2. \A r \in Requests : request[r].stage = "unsent" /\ request[r].items = <<>>
    BY DEF RootdInit, Unsent
  <2> QED BY <2>1, <2>2 DEF BatchInv, BatchIsWhole
<1>2. BatchInv => BatchIsWhole BY DEF BatchInv
<1> QED BY <1>1, <1>2, NextBatchInv, PTL DEF RootdSpec
=============================================================================
