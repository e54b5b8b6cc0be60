------------------------------ MODULE SensePack ------------------------------
(* The senses of the roots: seeded whole into Postgres (cmd/senseseed,      *)
(* store.ReplaceSenses), read and versioned in one snapshot (store.Senses,  *)
(* api.senses) and installed by a phone (app/lib/data/senses.dart), on its  *)
(* own for the first pack and when a reader presses for the others.         *)
EXTENDS Naturals, Sequences, FiniteSets

CONSTANTS
    Known,           \* the roots the server's corpus records
    Recorded,        \* those the phone's corpus does
    Prose,           \* what may be written of a root
    Unfit,           \* prose a seed refuses: blank, in one language, or with a verse
    Logs,            \* drafting logs: sequences of [root, text]
    Resumes,         \* foregrounds of the app that may be in flight together
    Panel,           \* the panel in Settings
    NoFetch,
    MaxRevision, MaxSeeds

ASSUME ProseAssumption == Unfit \cap Prose = {}

VARIABLES
    senses,          \* root_senses: a set of [root, text], one for a root
    revision,        \* provenanceRevision of the server that is deployed
    seeds,           \* how many seeds have been run
    fetch,           \* each caller's place in its fetch, and what it has read
    fetching,        \* _fetchingSenses: whose future it is
    recent,          \* _lastSenses is within the gap
    held             \* the phone: root_notes, their basis, and sense_pack

sensevars == <<senses, revision, seeds, fetch, fetching, recent, held>>
Fetchers == Resumes \cup {Panel}

\* packVersion: the revision of the prose about the prose, and a digest no two
\* tables share.
Version(rev, rows) == [revision |-> rev, digest |-> rows]
NoPack == Version(0, {})
AtRest == [stage |-> "rest", pack |-> NoPack, snapshot |-> {}]
Nothing == [rows |-> {}, basis |-> 0, version |-> NoPack]

-----------------------------------------------------------------------------
(* senseseed *)

Fits(log) == log # <<>> /\ \A i \in DOMAIN log : log[i].root \in Known /\ log[i].text \in Prose

\* The last row of a root in the log.
Replaced(log) ==
    {log[i] : i \in {j \in DOMAIN log : \A k \in (j + 1) .. Len(log) : log[k].root # log[j].root}}

\* load refuses the log over any one row; ReplaceSenses is one transaction.
Seed(log) ==
    /\ seeds < MaxSeeds
    /\ seeds' = seeds + 1
    /\ senses' = IF Fits(log) THEN Replaced(log) ELSE senses
    /\ UNCHANGED <<revision, fetch, fetching, recent, held>>

\* A server that words the basis otherwise.
Deploy ==
    /\ revision < MaxRevision
    /\ revision' = revision + 1
    /\ UNCHANGED <<senses, seeds, fetch, fetching, recent, held>>

-----------------------------------------------------------------------------
(* The phone *)

To(c, stage) == fetch' = [fetch EXCEPT ![c] = [@ EXCEPT !.stage = stage]]

\* whenComplete clears _fetchingSenses, whosever it is by then.
Done(c) ==
    /\ fetch' = [fetch EXCEPT ![c] = AtRest]
    /\ fetching' = IF c = Panel THEN fetching ELSE NoFetch

\* theFirstSenses: one run at a time and one in a gap, then a query is awaited.
Resume(c) ==
    /\ c \in Resumes /\ fetch[c].stage = "rest"
    /\ fetching = NoFetch /\ ~recent
    /\ To(c, "looking")
    /\ UNCHANGED <<senses, revision, seeds, fetching, recent, held>>

\* The query is answered: a phone that holds a pack is done.
Look(c) ==
    /\ fetch[c].stage = "looking"
    /\ IF held.version # NoPack
       THEN fetch' = [fetch EXCEPT ![c] = AtRest] /\ UNCHANGED <<fetching, recent>>
       ELSE To(c, "asking") /\ fetching' = c /\ recent' = TRUE
    /\ UNCHANGED <<senses, revision, seeds, held>>

GapPasses == recent /\ recent' = FALSE /\ UNCHANGED <<senses, revision, seeds, fetch, fetching, held>>

\* The panel is opened, or asks again.
Open ==
    /\ fetch[Panel].stage = "rest"
    /\ To(Panel, "asking")
    /\ UNCHANGED <<senses, revision, seeds, fetching, recent, held>>

\* api.senses, HEAD: the version; or what is between drops the header.
AskVersion(c) ==
    /\ fetch[c].stage = "asking"
    /\ \E tag \in {Version(revision, senses), NoPack} :
         fetch' = [fetch EXCEPT ![c] = [@ EXCEPT !.stage = "told", !.pack = tag]]
    /\ UNCHANGED <<senses, revision, seeds, fetching, recent, held>>

\* sensesOnOffer: nothing when the version is the one held, and nothing when
\* there is no header and a pack is held.
OnOffer(c) ==
    /\ fetch[c].stage = "told"
    /\ IF held.version = NoPack \/ fetch[c].pack \notin {NoPack, held.version}
       THEN To(c, "wanted") /\ UNCHANGED fetching
       ELSE Done(c)
    /\ UNCHANGED <<senses, revision, seeds, recent, held>>

\* store.Senses: the version statement fixes the snapshot.
ReadVersion(c) ==
    /\ fetch[c].stage = "wanted"
    /\ fetch' = [fetch EXCEPT ![c] = [stage |-> "versioned", pack |-> Version(revision, senses), snapshot |-> senses]]
    /\ UNCHANGED <<senses, revision, seeds, fetching, recent, held>>

\* The rows are read as they are by now.
ReadPresentRows(c) ==
    /\ fetch[c].stage = "versioned"
    /\ fetch' = [fetch EXCEPT ![c] = [@ EXCEPT !.stage = "body", !.snapshot = senses]]
    /\ UNCHANGED <<senses, revision, seeds, fetching, recent, held>>

\* The rows statement reads the snapshot the version was read in.
ReadRows(c) ==
    /\ fetch[c].stage = "versioned"
    /\ To(c, "body")
    /\ UNCHANGED <<senses, revision, seeds, fetching, recent, held>>

Visible(rows) == {row \in rows : row.root \in Recorded}

\* What arrived is installed without a look at what can be read of it.
InstallUnseen(c) ==
    /\ fetch[c].stage = "body"
    /\ held' = [rows |-> fetch[c].snapshot, basis |-> fetch[c].pack.revision, version |-> fetch[c].pack]
    /\ Done(c)
    /\ UNCHANGED <<senses, revision, seeds, recent>>

\* installSenses: one transaction, rolled back when no sense could be seen.
Install(c) ==
    /\ fetch[c].stage = "body"
    /\ held' = IF Visible(fetch[c].snapshot) = {} THEN held
               ELSE [rows |-> fetch[c].snapshot, basis |-> fetch[c].pack.revision, version |-> fetch[c].pack]
    /\ Done(c)
    /\ UNCHANGED <<senses, revision, seeds, recent>>

\* No answer, or not the contract's; and a panel that is closed.
Fail(c) ==
    /\ fetch[c].stage \in {"asking", "wanted", "versioned", "body"}
    /\ Done(c)
    /\ UNCHANGED <<senses, revision, seeds, recent, held>>

\* The app is killed: what was in flight is gone, and a transaction with it.
Killed ==
    /\ fetch' = [c \in Fetchers |-> AtRest] /\ fetching' = NoFetch /\ recent' = FALSE
    /\ UNCHANGED <<senses, revision, seeds, held>>

SenseInit ==
    /\ senses = {} /\ revision = 1 /\ seeds = 0
    /\ fetch = [c \in Fetchers |-> AtRest] /\ fetching = NoFetch /\ recent = FALSE
    /\ held = Nothing

SenseNext ==
    \/ \E log \in Logs : Seed(log)
    \/ Deploy
    \/ GapPasses
    \/ Open
    \/ Killed
    \/ \E c \in Fetchers :
         Resume(c) \/ Look(c) \/ AskVersion(c) \/ OnOffer(c) \/ ReadVersion(c) \/ ReadRows(c) \/ Install(c) \/ Fail(c)

SenseSpec == SenseInit /\ [][SenseNext]_sensevars
-----------------------------------------------------------------------------
\* store.go, Senses: the version a phone records names the very rows and the
\* very basis it installed.  Were it another's, "the phone's next HEAD matches,
\* answers 304, and it keeps the wrong prose under the right version forever".
PackIsWhatItSays ==
    held.version # NoPack => held.rows = held.version.digest /\ held.basis = held.version.revision

\* senses.dart, _writePack: "the reader ends up with senses they can SEE": no
\* install leaves a reader who had one with none, or a pack recorded of which
\* this corpus can show nothing, after which nothing would be offered again.
NeverBlank ==
    [][Visible(held.rows) # {} \/ held'.version # NoPack => Visible(held'.rows) # {}]_sensevars

\* flush.dart, theFirstSenses: "two resumed events inside one fetch window"
\* start one download.  The guard is read before a query is awaited and set
\* after it, so both of two events that fall inside the query pass.
OneFetchAtATime ==
    Cardinality({c \in Resumes : fetch[c].stage \notin {"rest", "looking"}}) <= 1
=============================================================================
