------------------------------ MODULE RootDraft ------------------------------
(* The drafting of senses (server/cmd/rootdraft): one provider call for each *)
(* root a run takes, several at once, every answer a row appended to a log   *)
(* whose last row for a root is the current one.  A run may be killed and    *)
(* started again over the same log.                                          *)
EXTENDS Integers, Sequences, FiniteSets, SequencesExt

CONSTANTS
    CorpusRoots,     \* the roots of corpus.db, commonest first
    Strays,          \* names a -roots list may carry that the corpus does not have
    Workers,         \* -workers
    Limits,          \* what -limit may be; 0 is none
    MaxRuns          \* bound: runs started

ASSUME DraftAssumption ==
    /\ Workers \in Nat \ {0} /\ Limits \subseteq Nat
    /\ CorpusRoots \in Seq(Range(CorpusRoots)) /\ IsInjective(CorpusRoots)
    /\ IsFiniteSet(Strays)

VARIABLES
    log,             \* the rows: [root, plain]; plain: no quote in any field
    draft,           \* the run under way
    runs             \* runs started so far

dvars == <<log, draft, runs>>

Root == Range(CorpusRoots)
NoRun == [stage |-> "idle", force |-> FALSE, all |-> FALSE, want |-> {}, limit |-> 0,
          todo |-> {}, skipped |-> {}, asked |-> {}, did |-> {}, fell |-> {}, refused |-> {}]
Drafting(force, all, want, limit, todo, skipped) ==
    [stage |-> "drafting", force |-> force, all |-> all, want |-> want, limit |-> limit,
     todo |-> todo, skipped |-> skipped, asked |-> {}, did |-> {}, fell |-> {}, refused |-> {}]

\* alreadyDone: every root with a row, whichever.
Done(rows) == {rows[i].root : i \in DOMAIN rows}
\* readTSV is encoding/csv, which refuses a quote inside a bare field.
Readable(rows) == \A i \in DOMAIN rows : rows[i].plain

\* What a run may be over: every root, commonest first, or those -roots names,
\* in the order it names them.  A name it repeats is not modelled.
Lists(only) == IF only = {} THEN {CorpusRoots} ELSE SetToSeqs(only)

\* The places of the list that are not done, and those the loop comes to: it
\* breaks at the first new root past -limit, and a limit of 0 is none.
NewAt(list, done) == {i \in DOMAIN list : list[i] \notin done}
Reached(list, done, limit) ==
    {i \in DOMAIN list : limit = 0 \/ Cardinality({k \in NewAt(list, done) : k <= i}) <= limit}
Taken(list, done, limit) == {list[i] : i \in Reached(list, done, limit) \cap NewAt(list, done)}
Passed(list, done, limit) == {list[i] : i \in Reached(list, done, limit) \ NewAt(list, done)}

\* begin and the settling of the todo list.
Begin(only, limit, force) ==
    /\ draft.stage = "idle" /\ runs < MaxRuns
    /\ force \/ Readable(log)
    /\ \E list \in Lists(only) :
         LET done == IF force THEN {} ELSE Done(log)
         IN  draft' = Drafting(force, only = {}, Range(list), limit,
                               Taken(list, done, limit), Passed(list, done, limit))
    /\ runs' = runs + 1
    /\ UNCHANGED log

\* subjectFor finds nothing to say of a root the corpus does not have.
HasSubject(r) == r \in Root

\* A root is struck off the list only when it is answered.
AskUnclaimed(r) ==
    /\ draft.stage = "drafting" /\ r \in draft.todo /\ HasSubject(r)
    /\ Cardinality(draft.asked) < Workers
    /\ draft' = [draft EXCEPT !.asked = @ \cup {r}]
    /\ UNCHANGED <<log, runs>>

\* A worker passes the gate, gathers the root's subject and asks; a root the
\* corpus does not have is blamed with no reply, as a provider's refusal is.
Ask(r) ==
    /\ draft.stage = "drafting" /\ r \in draft.todo
    /\ Cardinality(draft.asked) < Workers
    /\ draft' = IF HasSubject(r)
                THEN [draft EXCEPT !.todo = @ \ {r}, !.asked = @ \cup {r}]
                ELSE [draft EXCEPT !.todo = @ \ {r}, !.fell = @ \cup {r}, !.refused = @ \cup {r}]
    /\ UNCHANGED <<log, runs>>

\* The one object, complete and citing no verse: a row in one write under the lock.
Row(r, plain) ==
    /\ r \in draft.asked
    /\ log' = Append(log, [root |-> r, plain |-> plain])
    /\ draft' = [draft EXCEPT !.asked = @ \ {r}, !.did = @ \cup {r}]
    /\ UNCHANGED runs

\* A provider's refusal is counted and not named.
BlameUnnamed(r, refused) ==
    /\ r \in draft.asked
    /\ draft' = [draft EXCEPT !.asked = @ \ {r}, !.fell = IF refused THEN @ ELSE @ \cup {r},
                              !.refused = IF refused THEN @ \cup {r} ELSE @]
    /\ UNCHANGED <<log, runs>>

\* No body came back, or one that is not the object asked for.
Blame(r, refused) ==
    /\ r \in draft.asked
    /\ draft' = [draft EXCEPT !.asked = @ \ {r}, !.fell = @ \cup {r},
                              !.refused = IF refused THEN @ \cup {r} ELSE @]
    /\ UNCHANGED <<log, runs>>

\* tally: what the run did is said, and the run is over.
Tally ==
    /\ draft.stage = "drafting" /\ draft.todo = {} /\ draft.asked = {}
    /\ draft' = NoRun
    /\ UNCHANGED <<log, runs>>

\* Killed mid-flight; what was asked is paid for and lost.
KillDraft ==
    /\ draft.stage = "drafting"
    /\ draft' = NoRun
    /\ UNCHANGED <<log, runs>>

DInit ==
    /\ log = <<>> /\ draft = NoRun /\ runs = 0

DNext ==
    \/ \E only \in SUBSET (Root \cup Strays), limit \in Limits, force \in BOOLEAN : Begin(only, limit, force)
    \/ \E r \in Root \cup Strays : Ask(r)
    \/ \E r \in Root, plain \in BOOLEAN : Row(r, plain)
    \/ \E r \in Root, refused \in BOOLEAN : Blame(r, refused)
    \/ Tally
    \/ KillDraft

DSpec == DInit /\ [][DNext]_dvars

-----------------------------------------------------------------------------
\* main.go: "a root already done is skipped unless -force", whatever was killed
\* in between and however many workers share the log, and no row is lost.
NotPaidForTwice ==
    [][/\ log' # log => draft.force \/ Last(log').root \notin Done(log)
       /\ log' # log => SubSeq(log', 1, Len(log)) = log]_dvars

\* tally, when a run that was not killed comes to report: a root it wanted is
\* drafted, already there, named for the re-run or left by -limit, and only one
\* of them; what has no row is what was named or left; -limit counts new roots
\* and, over the whole corpus, never leaves out one commoner than one it took.
TallyAddsUp ==
    draft.stage = "drafting" /\ draft.todo = {} /\ draft.asked = {} =>
        LET taken == draft.did \cup draft.fell
            left  == draft.want \ (taken \cup draft.skipped)
            place(r) == CHOOSE i \in DOMAIN CorpusRoots : CorpusRoots[i] = r
        IN  /\ draft.did \cap draft.fell = {} /\ taken \cap draft.skipped = {}
            /\ ~draft.force => draft.want \ Done(log) = draft.fell \cup (left \ Done(log))
            /\ draft.limit # 0 /\ left \ Done(log) # {} => Cardinality(taken) = draft.limit
            /\ draft.limit = 0 => left = {}
            /\ draft.all /\ ~draft.force =>
                  \A l \in left \ Done(log), t \in taken : place(t) < place(l)
=============================================================================
