------------------------------- MODULE Reports -------------------------------
(* A reader's report on its way to the operator: into report_inbox with the *)
(* op that carried it, into reports by a sweep that rewrites the whole      *)
(* table, and triaged there (server/internal/store/sync.go and admin.go).   *)
(* Postgres is READ COMMITTED: a statement sees what was committed when it  *)
(* began, waits for a row another transaction has taken, and then acts on   *)
(* what became of it.  A sweep deletes every row and writes it anew, so a   *)
(* statement that began before it commits finds the row gone.               *)
EXTENDS Naturals, FiniteSets

CONSTANTS
    Reports,         \* what readers write
    Roots,
    VoteOf,          \* the root a report is exactly a thumb on, or NoRoot
    NoRoot,
    Sweepers,        \* the processes that sweep: one, or two across a deploy
    Operators,
    Verdicts         \* what an operator may say of a report

ASSUME ReportsAssumption ==
    /\ VoteOf \in [Reports -> Roots \cup {NoRoot}] /\ NoRoot \notin Roots
    /\ Reports # {} /\ Sweepers # {}

VARIABLES
    landed,          \* reports whose op was applied
    inbox,           \* report_inbox
    table,           \* reports: [id, report, verdict, root]
    served,          \* the roots root_senses has
    sweep,           \* each sweeper's statement
    triage,          \* each operator's request
    said             \* what operators were told was recorded: id -> verdict

pvars == <<landed, inbox, table, served, sweep, triage, said>>

ReportId == Reports \X Sweepers
NoSweep == [stage |-> "rest", arrived |-> {}, held |-> {}, served |-> {}]
NoTriage == [stage |-> "none", id |-> CHOOSE i \in ReportId : TRUE, verdict |-> "new", misses |-> 0, sees |-> FALSE]

RowOf(id) == {row \in table : row.id = id}

-----------------------------------------------------------------------------
\* applyReport, committed with the op.
ApplyReport(r) ==
    /\ r \notin landed
    /\ landed' = landed \cup {r}
    /\ inbox' = inbox \cup {r}
    /\ UNCHANGED <<table, served, sweep, triage, said>>

\* ReplaceSenses commits: which roots are served changes at once.
Reseed(roots) ==
    /\ served' = roots
    /\ UNCHANGED <<landed, inbox, table, sweep, triage, said>>

\* An inner join: a report that is no vote on a served root is not picked up.
SweepVotes(w) ==
    /\ sweep[w].stage = "rest"
    /\ sweep' = [sweep EXCEPT ![w] = [stage |-> "began", arrived |-> {r \in inbox : VoteOf[r] \in served},
                                      held |-> {row.id : row \in table}, served |-> served]]
    /\ UNCHANGED <<landed, inbox, table, served, triage, said>>

\* sweepReportsSQL begins: its snapshot of the three tables.
SweepReports(w) ==
    /\ sweep[w].stage = "rest"
    /\ sweep' = [sweep EXCEPT ![w] = [stage |-> "began", arrived |-> inbox,
                                      held |-> {row.id : row \in table}, served |-> served]]
    /\ UNCHANGED <<landed, inbox, table, served, triage, said>>

\* Its two DELETEs: every row of the snapshot that is still there, once no other
\* sweep holds it.
TakeRows(w) ==
    /\ sweep[w].stage = "began"
    /\ \A v \in Sweepers \ {w} : sweep[v].stage = "taken" =>
          /\ sweep[v].arrived \cap sweep[w].arrived = {}
          /\ sweep[v].held \cap sweep[w].held = {}
    /\ sweep' = [sweep EXCEPT ![w].stage = "taken"]
    /\ UNCHANGED <<landed, inbox, table, served, triage, said>>

\* The rows it puts in place of those it holds.
Arriving(w) ==
    {[id |-> <<r, w>>, report |-> r, verdict |-> "new",
      root |-> IF VoteOf[r] \in sweep[w].served THEN VoteOf[r] ELSE NoRoot] : r \in sweep[w].arrived}

HeldRows(w) == {row \in table : row.id \in sweep[w].held}

\* The held rows are written without their triage.
ArrivingAndForgotten(w) == Arriving(w) \cup {[row EXCEPT !.verdict = "new"] : row \in HeldRows(w)}

\* Whether a held row is a vote is asked again.
ArrivingAndRejudged(w) ==
    Arriving(w) \cup {[row EXCEPT !.root = IF VoteOf[row.report] \in sweep[w].served THEN @ ELSE NoRoot] : row \in HeldRows(w)}

\* An arrived row gets an id and the triage columns' defaults and is a vote if
\* the snapshot has its root; a held row keeps its own.
Rewritten(w) == Arriving(w) \cup HeldRows(w)

\* The inbox is emptied, and not of the rows the sweep read only.
InboxEmptied(w) == {}

InboxAfter(w) == inbox \ sweep[w].arrived

\* Its INSERT, and the commit.  Every other statement under way loses sight of
\* the rows this one replaced.
SweepCommits(w) ==
    /\ sweep[w].stage = "taken"
    /\ table' = (table \ HeldRows(w)) \cup Rewritten(w)
    /\ inbox' = InboxAfter(w)
    /\ sweep' = [v \in Sweepers |->
                   IF v = w THEN NoSweep
                   ELSE [sweep[v] EXCEPT !.arrived = @ \ sweep[w].arrived, !.held = @ \ sweep[w].held]]
    /\ triage' = [o \in Operators |->
                    [triage[o] EXCEPT !.sees = @ /\ triage[o].id \notin sweep[w].held]]
    /\ UNCHANGED <<landed, served, said>>

\* Cancelled at the end of the drain, or the connection is lost.
SweepAborts(w) ==
    /\ sweep[w].stage # "rest"
    /\ sweep' = [sweep EXCEPT ![w] = NoSweep]
    /\ UNCHANGED <<landed, inbox, table, served, triage, said>>

-----------------------------------------------------------------------------
\* TriageReport: an UPDATE begins, of a report the operator's list shows.
Triage(o, id, verdict) ==
    /\ triage[o].stage # "looking" /\ RowOf(id) # {}
    /\ triage' = [triage EXCEPT ![o] = [stage |-> "looking", id |-> id, verdict |-> verdict,
                                        misses |-> 0, sees |-> TRUE]]
    /\ UNCHANGED <<landed, inbox, table, served, sweep, said>>

\* It waits while a sweep has the row.
RowFree(id) == \A w \in Sweepers : sweep[w].stage = "taken" => id \notin sweep[w].held

Updates(o) ==
    /\ triage[o].stage = "looking" /\ triage[o].sees /\ RowFree(triage[o].id)
    /\ table' = {IF row.id = triage[o].id THEN [row EXCEPT !.verdict = triage[o].verdict] ELSE row : row \in table}
    /\ triage' = [triage EXCEPT ![o].stage = "done"]
    /\ said' = [id \in DOMAIN said \cup {triage[o].id} |->
                  IF id = triage[o].id THEN triage[o].verdict ELSE said[id]]
    /\ UNCHANGED <<landed, inbox, served, sweep>>

\* It touched no row: a second statement, with a snapshot of its own, then 404.
Misses(o) ==
    /\ triage[o].stage = "looking" /\ ~triage[o].sees
    /\ triage' = [triage EXCEPT ![o].misses = @ + 1,
                                ![o].stage = IF triage[o].misses = 1 THEN "not found" ELSE @,
                                ![o].sees = RowOf(triage[o].id) # {}]
    /\ UNCHANGED <<landed, inbox, table, served, sweep, said>>

-----------------------------------------------------------------------------
PInit ==
    /\ landed = {} /\ inbox = {} /\ table = {} /\ said = <<>>
    /\ served = Roots
    /\ sweep = [w \in Sweepers |-> NoSweep]
    /\ triage = [o \in Operators |-> NoTriage]

PNext ==
    \/ \E r \in Reports : ApplyReport(r)
    \/ \E roots \in SUBSET Roots : Reseed(roots)
    \/ \E w \in Sweepers : SweepReports(w) \/ TakeRows(w) \/ SweepCommits(w) \/ SweepAborts(w)
    \/ \E o \in Operators, id \in ReportId, verdict \in Verdicts : Triage(o, id, verdict)
    \/ \E o \in Operators : Updates(o) \/ Misses(o)

PSpec == PInit /\ [][PNext]_pvars

-----------------------------------------------------------------------------
\* However sweeps and triage interleave, a report that landed is in the inbox or
\* in the table and in one place only: cmd/api/main.go fears that "two of these
\* racing could lose or double a report".
NeitherLostNorDoubled ==
    /\ \A r \in landed : r \in inbox \/ \E row \in table : row.report = r
    /\ \A row \in table : row.report \notin inbox
    /\ \A a, b \in table : a.report = b.report => a = b

\* sync.go, sweepReportsSQL: "a sweep that forgot them would undo every
\* operator's verdict on its next tick".  What an operator was told is recorded
\* is what the table says, until another operator says otherwise.
VerdictStands ==
    \A id \in DOMAIN said : \E row \in RowOf(id) : row.verdict = said[id]

\* "a reseed that later drops a root leaves the votes on it counted as votes",
\* and an id an operator has seen stays that report's.
VoteStaysAVote ==
    [][\A row \in table : \E new \in table' :
          new.id = row.id /\ new.report = row.report /\ new.root = row.root]_pvars

\* A report is in the operations view once a sweep puts it there.
ReportsAreRead == \A r \in Reports : r \in landed ~> \E row \in table : row.report = r
=============================================================================
