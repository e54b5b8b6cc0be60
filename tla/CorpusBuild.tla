----------------------------- MODULE CorpusBuild -----------------------------
(* How corpus.db comes to be: the ingest that downloads into data/raw/ and  *)
(* vouches for it in a manifest (server/cmd/ingest), and the ETL that reads *)
(* data/raw/, gates what it read and writes the database (server/cmd/etl).  *)
(* Either may be killed between two steps and run again.  A sura is one aya *)
(* of some words; its file, as the host answers it, is "good", "short" (cut *)
(* at a page, its aya missing) or "odd" (one word more than the text has).  *)
EXTENDS Integers, Sequences, FiniteSets, SequencesExt

CONSTANTS
    Suras,           \* all of them, a sequence
    Words,           \* how many words each has: Range(Suras) -> Nat
    Named,           \* what -suras may say: sequences of suras, <<>> for nothing
    Morphologies,    \* the morphology files a person may have put there: sequences
                     \* of [sura, word, seg, root, lemma, role]
    NotRoots,        \* values of ROOT: with a letter no root is made of
    Retries          \* -retries

Segments == [sura : Range(Suras), word : Nat, seg : Nat, root : STRING, lemma : STRING, role : STRING]

ASSUME CorpusAssumption ==
    /\ Suras \in Seq(Range(Suras)) /\ IsInjective(Suras)
    /\ Words \in [Range(Suras) -> Nat]
    /\ Named \subseteq Seq(Range(Suras))
    /\ Morphologies \subseteq Seq(Segments)

VARIABLES
    disk,            \* what each path under data/raw/ holds
    timings,         \* whether the timings of a licensed package were extracted
    manifest,        \* data/manifest.json
    run,             \* the ingest under way
    morphology,      \* the one file the ingest does not download
    build,           \* the ETL under way
    db               \* corpus.db: [words |-> ...], Torn or NoDb

bvars == <<disk, timings, manifest, run, morphology, build, db>>

Sura == Range(Suras)
File == Sura \cup {"package", "chapters", "pages"}
Idle == [stage |-> "idle", list |-> <<>>, force |-> FALSE, todo |-> <<>>, tries |-> 0, held |-> "none"]
Fetching(list, force, todo) ==
    [stage |-> "fetching", list |-> list, force |-> force, todo |-> todo, tries |-> 0, held |-> "none"]
NoDb == [words |-> <<>>, torn |-> FALSE]
Torn == [words |-> <<>>, torn |-> TRUE]
Resting == [stage |-> "idle", words |-> <<>>]

\* What a saved sura reads as: no aya at all, or an aya of so many words.
TextOf(s, content) ==
    CASE content = "good" -> Words[s] [] content = "odd" -> Words[s] + 1 [] OTHER -> 0

\* The lines of a morphology that are segments of one word, and where a line comes among them.
Located(lines, s, w) == {i \in DOMAIN lines : lines[i].sura = s /\ lines[i].word = w}
Standing(segs, i) == Cardinality({j \in segs : j <= i})
WordsOf(lines, s) == {lines[i].word : i \in {j \in DOMAIN lines : lines[j].sura = s}}

-----------------------------------------------------------------------------
(* server/cmd/ingest *)

\* The suras chapters.json lists; one that is cut lacks the last.
Chapters(content) == IF content = "good" THEN Suras ELSE SubSeq(Suras, 1, Len(Suras) - 1)

\* A list is the whole corpus by its length.
Whole(list) == Len(list) = Len(Suras)

BeginRun(list, force) ==
    /\ run.stage = "idle"
    /\ run' = Fetching(list, force, <<"package", "chapters">>)
    /\ UNCHANGED <<disk, timings, manifest, morphology, build, db>>

\* What -suras named, or, when it named nothing, every chapter there is.
Wanted(content) == IF run.list = <<>> THEN Chapters(content) ELSE run.list

\* A run over a few suras is let over a complete manifest.
AcceptsAnyRun(f, content) ==
    f \in {"package", "pages"} => content = "good"

\* What run does with a path once it is there: extractTimings refuses a package
\* without its licence, readChapters one with no chapter and is followed by
\* refusePartialOverwrite, and an index that does not link every page has
\* changed shape.
Accepts(f, content) ==
    CASE f \in {"package", "pages"} -> content = "good"
      [] f = "chapters" -> /\ Chapters(content) # <<>>
                           /\ Whole(Wanted(content)) \/ ~manifest.complete
      [] OTHER -> TRUE

\* The suras to fetch are settled once the chapters are read.
Proceed(f, content) ==
    /\ run' = CASE ~Accepts(f, content) -> Idle
                [] Accepts(f, content) /\ f # "chapters" -> Fetching(run.list, run.force, Tail(run.todo))
                [] OTHER -> LET list == Wanted(content)
                            IN  Fetching(list, run.force,
                                         list \o (IF Whole(list) THEN <<"pages">> ELSE <<>>))
    /\ timings' = (timings \/ (f = "package" /\ content = "good"))

\* download: a path that holds something is not asked for again.
Skip ==
    /\ run.stage = "fetching" /\ run.todo # <<>> /\ run.held = "none"
    /\ ~run.force /\ disk[Head(run.todo)] # "absent"
    /\ Proceed(Head(run.todo), disk[Head(run.todo)])
    /\ UNCHANGED <<disk, manifest, morphology, build, db>>

Asking == /\ run.stage = "fetching" /\ run.todo # <<>> /\ run.held = "none"
          /\ run.force \/ disk[Head(run.todo)] = "absent"

\* fetcher.get: a 429, a 5xx or a broken connection is tried again; the last
\* attempt, or a plain refusal, ends the run.
Retry ==
    /\ Asking
    /\ \/ run.tries < Retries /\ run' = [run EXCEPT !.tries = @ + 1]
       \/ run' = Idle
    /\ UNCHANGED <<disk, timings, manifest, morphology, build, db>>

\* save: the answer goes to path.part, which nothing reads, and is renamed.
WritePart(content) ==
    /\ Asking
    /\ content = "odd" => Head(run.todo) \in Sura
    /\ run' = [run EXCEPT !.held = content]
    /\ UNCHANGED <<disk, timings, manifest, morphology, build, db>>
Rename ==
    /\ run.stage = "fetching" /\ run.held # "none"
    /\ disk' = [disk EXCEPT ![Head(run.todo)] = run.held]
    /\ Proceed(Head(run.todo), run.held)
    /\ UNCHANGED <<manifest, morphology, build, db>>

\* verify reads the directory back, what this run did not fetch included.  An
\* aya the morphology does not have is not compared.
Vouched(list) ==
    /\ Whole(list) => disk["chapters"] = "good"
    /\ Range(list) \subseteq Range(Chapters(disk["chapters"]))
    /\ \A s \in Range(list) :
          LET n == TextOf(s, disk[s]) IN
          /\ n > 0
          /\ WordsOf(morphology, s) # {} => Cardinality(WordsOf(morphology, s)) = n

\* Whether a recitation is left is up to Recitations.
SaveManifest(recited) ==
    /\ run.stage = "fetching" /\ run.todo = <<>>
    /\ manifest' = IF Vouched(run.list) /\ recited
                   THEN [complete |-> Whole(run.list), of |-> [s \in Range(run.list) |-> disk[s]]]
                   ELSE manifest
    /\ run' = Idle
    /\ UNCHANGED <<disk, timings, morphology, build, db>>

\* Killed: between two requests, or with a .part half written.
KillIngest ==
    /\ run.stage # "idle"
    /\ run' = Idle
    /\ UNCHANGED <<disk, timings, manifest, morphology, build, db>>

-----------------------------------------------------------------------------
(* server/cmd/etl *)

Rooted(lines, segs) == {i \in segs : lines[i].root # "" /\ lines[i].root \notin NotRoots}
First(segs) == CHOOSE i \in segs : \A j \in segs : i <= j
Roles(lines, segs) ==
    [k \in 1 .. Cardinality(segs) |-> lines[CHOOSE i \in segs : Standing(segs, i) = k].role]

\* The root of one segment and the lemma of another.
FirstRootFirstLemma(lines, segs) ==
    LET rooted == Rooted(lines, segs)
        named  == {i \in segs : lines[i].lemma # ""}
    IN  [root  |-> IF rooted = {} THEN "" ELSE lines[First(rooted)].root,
         lemma |-> IF named = {} THEN "" ELSE lines[First(named)].lemma,
         irab  |-> Roles(lines, segs)]

\* loadMorphology, one word: its segments in the file's order, and the root of
\* the first segment whose root is one, with the lemma of that segment.
WordMorph(lines, segs) ==
    LET rooted == Rooted(lines, segs)
    IN  [root  |-> IF rooted = {} THEN "" ELSE lines[First(rooted)].root,
         lemma |-> IF rooted = {} THEN "" ELSE lines[First(rooted)].lemma,
         irab  |-> Roles(lines, segs)]

\* Load fails on a segment that arrives out of its place, and on a sura whose
\* words the morphology counts differently; an aya it does not have is let by.
Loads ==
    /\ disk["chapters"] # "absent" /\ timings
    /\ \A s \in Sura : disk[s] # "absent"
    /\ \A s \in Sura : LET n == Cardinality(WordsOf(morphology, s)) IN
          /\ n # 0 /\ TextOf(s, disk[s]) > 0 => TextOf(s, disk[s]) = n
          /\ \A w \in WordsOf(morphology, s) :
                LET segs == Located(morphology, s, w) IN \A i \in segs : morphology[i].seg = Standing(segs, i)

Load(s) == [w \in 1 .. TextOf(s, disk[s]) |-> WordMorph(morphology, Located(morphology, s, w))]

\* checkIrab: every word has parsing.
CheckIrab(words) == \A s \in Sura : \A w \in DOMAIN words[s] : words[s][w].irab # <<>>

\* checkLemmas: a root comes with its lemma.
CheckLemmas(words) ==
    \A s \in Sura : \A w \in DOMAIN words[s] : words[s][w].root # "" => words[s][w].lemma # ""

\* Check, of what is modelled here: every aya is there, and the two above.
Check(words) == (\A s \in Sura : words[s] # <<>>) /\ CheckIrab(words) /\ CheckLemmas(words)

\* What Load or Check refuses leaves the last corpus.db alone.
BuildCorpus ==
    /\ build.stage = "idle" /\ Loads
    /\ LET words == [s \in Sura |-> Load(s)]
       IN  Check(words) /\ build' = [stage |-> "checked", words |-> words]
    /\ UNCHANGED <<disk, timings, manifest, run, morphology, db>>

\* Write removes the file and fills a new one with the journal off.
WriteBegins ==
    /\ build.stage = "checked"
    /\ db' = Torn
    /\ build' = [build EXCEPT !.stage = "writing"]
    /\ UNCHANGED <<disk, timings, manifest, run, morphology>>
WriteEnds ==
    /\ build.stage = "writing"
    /\ db' = [words |-> build.words, torn |-> FALSE]
    /\ build' = Resting
    /\ UNCHANGED <<disk, timings, manifest, run, morphology>>
KillBuild ==
    /\ build.stage # "idle"
    /\ build' = Resting
    /\ UNCHANGED <<disk, timings, manifest, run, morphology, db>>

-----------------------------------------------------------------------------
BInit ==
    /\ disk = [f \in File |-> "absent"]
    /\ timings = FALSE
    /\ manifest = [complete |-> FALSE, of |-> <<>>]
    /\ run = Idle
    /\ morphology \in Morphologies
    /\ build = Resting
    /\ db = NoDb

BNext ==
    \/ \E list \in Named, force \in BOOLEAN : BeginRun(list, force)
    \/ Skip
    \/ Retry
    \/ \E content \in {"good", "short", "odd"} : WritePart(content)
    \/ Rename
    \/ \E recited \in BOOLEAN : SaveManifest(recited)
    \/ KillIngest
    \/ BuildCorpus
    \/ WriteBegins
    \/ WriteEnds
    \/ KillBuild

BSpec == BInit /\ [][BNext]_bvars

-----------------------------------------------------------------------------
\* main.go, refusePartialOverwrite: a run over some suras never replaces the
\* manifest that stands for the whole corpus, though it looks before it fetches
\* a sura and writes after; and no manifest vouches for a sura cut at a page.
CompleteStands ==
    [][manifest' # manifest =>
          /\ manifest.complete => manifest'.complete
          /\ manifest'.complete => DOMAIN manifest'.of = Sura
          /\ \A s \in DOMAIN manifest'.of : manifest'.of[s] \notin {"absent", "short"}]_bvars

\* In a corpus.db that was written out, every word carries the segments the
\* morphology files under its place, all of them, each role at the number its
\* segment has, and the root and the lemma it shows come from one and the same
\* segment.  Load lets an aya by that the morphology does not have, and counts
\* words without asking which ones they are: the gate makes up for both.
ParsingIsTheWordsOwn ==
    db.words # <<>> => \A s \in Sura :
        /\ DOMAIN db.words[s] = WordsOf(morphology, s)
        /\ \A w \in DOMAIN db.words[s] :
              LET segs == Located(morphology, s, w)
                  word == db.words[s][w]
              IN  /\ DOMAIN word.irab = {morphology[i].seg : i \in segs}
                  /\ \A i \in segs : word.irab[morphology[i].seg] = morphology[i].role
                  /\ word.root # "" => \E i \in segs :
                        morphology[i].root = word.root /\ morphology[i].lemma = word.lemma /\ word.lemma # ""
=============================================================================
