---------------------------- MODULE Recitations ----------------------------
(* One recitation's word timings on their way into corpus.db: quran-align's *)
(* tuples, the ingest that counts them (server/cmd/ingest/verify.go), the   *)
(* ETL that turns them into rows (server/cmd/etl/load.go) and the gate over *)
(* the rows (server/cmd/etl/check.go).  Both programs read the tuples with  *)
(* internal/timings.  A tuple is <<from, to, start, end>>: zero-based slots *)
(* of the aligner, `to` exclusive, and milliseconds.                        *)
EXTENDS Integers, Sequences, FiniteSets, SequencesExt

CONSTANTS
    Ayas,            \* the ayas of the sura, in reciting order: 1..n
    Recordings,      \* the recitations a run may meet: functions from Ayas to
                     \* [words, raw, doubled]: the words the text has, the aligner's
                     \* tuples, and the word it numbers as two slots, 0 for none
    MaxUntimed,      \* maxUntimedWords of load.go
    NoAya            \* in place of the tuples: the file has no such aya

VARIABLES
    recording,       \* the recitation under way
    rstage,          \* "fetched", "verified", "loaded", "checked", or "idle"
    report,          \* what the ingest's manifest says of it
    loaded           \* what the ETL holds of it

rvars == <<recording, rstage, report, loaded>>

Least(S) == CHOOSE x \in S : \A y \in S : x <= y
Greatest(S) == CHOOSE x \in S : \A y \in S : x >= y
Total(f, S) == FoldFunctionOnSet(LAMBDA a, b : a + b, 0, f, S)

-----------------------------------------------------------------------------
(* internal/timings *)

\* The tuples are a walk over the slots: four numbers each, never empty, never back.
IsWalk(raw) ==
    \A i \in DOMAIN raw :
        /\ Len(raw[i]) = 4
        /\ 0 <= raw[i][1] /\ raw[i][1] < raw[i][2]
        /\ i > 1 => raw[i][1] >= raw[i - 1][2]

Aligned(raw) == UNION {raw[i][1] .. (raw[i][2] - 1) : i \in DOMAIN raw}

Slots(raw, words) == Greatest({words} \cup {raw[i][2] : i \in DOMAIN raw})

\* The aligner may number one slot more than the text has words, and no more.
Reconciles(raw, words) == IsWalk(raw) /\ Slots(raw, words) <= words + 1

\* The spare slot is always taken to be the last.
SplitAtTheEnd(raw, words) == Slots(raw, words) - (IF Slots(raw, words) = words THEN 0 ELSE 1)

\* Where the two numberings part: the first slot nothing aligned, or the last.
Split(raw, words) ==
    LET slots == Slots(raw, words)
        free  == (0 .. slots - 1) \ Aligned(raw)
    IN  CASE slots = words -> slots
          [] slots # words /\ free = {} -> slots - 1
          [] OTHER -> Least(free)

WordOf(raw, words, slot) ==
    LET w == IF slot >= Split(raw, words) THEN slot ELSE slot + 1
    IN  IF w < 1 THEN (IF words < 1 THEN words ELSE 1) ELSE IF w > words THEN words ELSE w

Spans(raw, words) ==
    [i \in DOMAIN raw |-> [first |-> WordOf(raw, words, raw[i][1]),
                           last  |-> WordOf(raw, words, raw[i][2] - 1),
                           start |-> raw[i][3], end |-> raw[i][4]]]

Timed(spans) == UNION {spans[i].first .. spans[i].last : i \in DOMAIN spans}

-----------------------------------------------------------------------------
(* What the voice said.  The aligner numbers the words as the text does, or *)
(* one of them twice; and any of its slots may have nothing aligned to it.  *)

\* The slots are those of such a numbering: no third segmentation.
Numbered(r) ==
    \A i \in DOMAIN r.raw : r.raw[i][2] <= r.words + (IF r.doubled = 0 THEN 0 ELSE 1)

\* The slot from which on a slot is the word before the one it looks like.
Parting(r) == IF r.doubled = 0 THEN r.words ELSE r.doubled

\* The word a slot was said over.
Said(r, s) == IF s < Parting(r) THEN s + 1 ELSE s

\* The slot the silences point at: the first, or the last slot of all where there
\* is none.  With the last slot silent nothing shows that a word was doubled.
SilentAt(r) ==
    LET silent == (0 .. r.words) \ Aligned(r.raw)
    IN  IF r.words \in silent THEN r.words ELSE Least(silent \cup {r.words})

\* Where the silences point away from the doubled word, the slots in between.
InDoubt(r, s) == (s < SilentAt(r)) # (s < Parting(r))

ASSUME RecordingAssumption ==
    /\ IsFiniteSet(Ayas) /\ Ayas = 1 .. Cardinality(Ayas)
    /\ \A rec \in Recordings : \A a \in Ayas :
        /\ rec[a].words \in Nat \ {0} /\ rec[a].doubled \in 0 .. rec[a].words
        /\ rec[a].raw = NoAya \/ rec[a].raw \in Seq(Seq(Int))

-----------------------------------------------------------------------------
(* The three readers of them *)

\* The words counted by the slots that were aligned.
VerifyBySlots(rec) ==
    LET uneven  == {a \in Ayas : rec[a].raw # NoAya /\ ~Reconciles(rec[a].raw, rec[a].words)}
        untimed == [a \in Ayas |-> rec[a].words - Cardinality(Aligned(rec[a].raw))]
    IN  IF uneven # {} \/ \E a \in Ayas : rec[a].raw = NoAya THEN [kept |-> FALSE, untimed |-> 0]
        ELSE [kept |-> TRUE, untimed |-> Total(untimed, Ayas)]

\* verify.go: a missing aya refuses at once, a numbering that disagrees refuses
\* at the end, and what is left is counted.
VerifyRecitation(rec) ==
    LET missing == \E a \in Ayas : rec[a].raw = NoAya
        uneven  == {a \in Ayas : rec[a].raw # NoAya /\ ~Reconciles(rec[a].raw, rec[a].words)}
        untimed == [a \in Ayas |-> rec[a].words -
                      Cardinality((1 .. rec[a].words) \cap Timed(Spans(rec[a].raw, rec[a].words)))]
    IN  IF missing \/ uneven # {} THEN [kept |-> FALSE, untimed |-> 0]
        ELSE [kept |-> TRUE, untimed |-> Total(untimed, Ayas)]

\* The aligner's times as they are.
TimesAsTheyCame(spans, aya) ==
    FlattenSeq([i \in DOMAIN spans |->
        [k \in 1 .. (spans[i].last - spans[i].first + 1) |->
            [aya |-> aya, word |-> spans[i].first + k - 1, start |-> spans[i].start, end |-> spans[i].end]]])

\* load.go: starts never fall back inside an aya, an end never precedes its
\* start, and a span over several words is one row for each.
NormalizeSegments(spans, aya) ==
    LET start(i) == Greatest({0} \cup {spans[j].start : j \in 1 .. i})
        end(i)   == Greatest({start(i), spans[i].end})
    IN  FlattenSeq([i \in DOMAIN spans |->
            [k \in 1 .. (spans[i].last - spans[i].first + 1) |->
                [aya |-> aya, word |-> spans[i].first + k - 1, start |-> start(i), end |-> end(i)]]])

LoadRecitation(rec) ==
    LET silent   == \E a \in Ayas : rec[a].raw = NoAya \/ rec[a].raw = <<>>
        uneven   == \E a \in Ayas : rec[a].raw # NoAya /\ ~Reconciles(rec[a].raw, rec[a].words)
        rows(a)  == NormalizeSegments(Spans(rec[a].raw, rec[a].words), a)
        untimed  == [a \in Ayas |-> rec[a].words -
                       Cardinality({rows(a)[i].word : i \in DOMAIN rows(a)})]
    IN  IF silent \/ uneven \/ Total(untimed, Ayas) > MaxUntimed
        THEN [kept |-> FALSE, untimed |-> 0, rows |-> <<>>, passed |-> FALSE]
        ELSE [kept |-> TRUE, untimed |-> Total(untimed, Ayas),
              rows |-> FlattenSeq([a \in Ayas |-> rows(a)]), passed |-> FALSE]

\* check.go: every row names a word of the corpus, and no row of an aya starts
\* before an earlier row of it.
CheckSegments(rec, rows) ==
    /\ \A i \in DOMAIN rows : rows[i].word \in 1 .. rec[rows[i].aya].words
    /\ \A i, j \in DOMAIN rows :
          i < j /\ rows[i].aya = rows[j].aya => rows[i].start <= rows[j].start

-----------------------------------------------------------------------------
Nothing == [kept |-> FALSE, untimed |-> 0]

RInit ==
    /\ recording \in Recordings
    /\ rstage = "fetched"
    /\ report = Nothing
    /\ loaded = [kept |-> FALSE, untimed |-> 0, rows |-> <<>>, passed |-> FALSE]

ReadByIngest ==
    /\ rstage = "fetched"
    /\ report' = VerifyRecitation(recording)
    /\ rstage' = "verified"
    /\ UNCHANGED <<recording, loaded>>

\* The ETL reads the directory, not the manifest: what the ingest refused is read too.
ReadByEtl ==
    /\ rstage = "verified"
    /\ loaded' = LoadRecitation(recording)
    /\ rstage' = "loaded"
    /\ UNCHANGED <<recording, report>>

\* A build with no recitation left is refused as well.
ReadByGate ==
    /\ rstage = "loaded"
    /\ loaded' = [loaded EXCEPT !.passed = loaded.kept /\ CheckSegments(recording, loaded.rows)]
    /\ rstage' = "checked"
    /\ UNCHANGED <<recording, report>>

RNext == ReadByIngest \/ ReadByEtl \/ ReadByGate
RSpec == RInit /\ [][RNext]_rvars

-----------------------------------------------------------------------------
(* Properties *)

\* verify.go, countSegments: "this count and the ETL's cannot drift apart the
\* way they once did".  The three programs that judge a recitation agree: what
\* the ETL keeps the ingest kept, both report the same number of words with no
\* timing, and the rows pass the gate: none makes the highlight jump back or
\* names a word the text does not have.
JudgesAgree ==
    loaded.kept =>
        /\ rstage \in {"loaded", "checked"} => report.kept /\ report.untimed = loaded.untimed
        /\ rstage = "checked" => loaded.passed

\* timings.go, Spans: a time lands on the words it was said over, and when it
\* does not.  The code finds the doubled word by the first slot nothing was
\* aligned to.  That is right when it is the word's second half, whatever is
\* silent after it, or when the last word is carried on; an untimed slot before
\* it, an untimed last slot, or two timed halves, put the parting elsewhere.
\* Exactly the tuples that begin or end in between are then shown wrongly, that
\* end by one word; every other lights the words it was said over.
TimesOnTheirWord ==
    rstage \in {"loaded", "checked"} /\ loaded.kept =>
        \A a \in Ayas : Numbered(recording[a]) =>
            LET r     == recording[a]
                spans == Spans(r.raw, r.words)
            IN  \A i \in DOMAIN spans :
                    LET from == r.raw[i][1]
                        to   == r.raw[i][2] - 1
                    IN  /\ spans[i].first .. spans[i].last = {Said(r, s) : s \in from .. to}
                              <=> ~InDoubt(r, from) /\ ~InDoubt(r, to)
                        /\ InDoubt(r, from) => spans[i].first - Said(r, from) \in {-1, 1}
                        /\ InDoubt(r, to) => spans[i].last - Said(r, to) \in {-1, 1}
=============================================================================
