# Wird in TLA+

Wird is a Quran reading and prayer app: a Flutter app that works offline, a Go
API over Postgres that keeps a reader's devices in step, and the Arabic root
engine and content pipelines that make the corpus. This directory holds
specifications of its distributed core, of the servers beside it and of the
programs that make its content, TLC configurations that check them on small
instances, and theorems proved with TLAPS for every instance.

All paths below are relative to `src/`.

## 1. The system

| Part | Where | State | Operations |
|---|---|---|---|
| Server half of sync | `server/internal/store/sync.go`, `server/internal/api/sync.go`, migrations 00001, 00003 | the sequence `change_seq`; six tables of reader rows, each row with its `seq`; `op_log` | `attempt` (lock, op id, effect, commit), eleven op kinds, `Changes` |
| Device half of sync | `app/lib/data/{outbox,sync,flush,kept_repo}.dart` | the reader's own tables, `outbox`, `sync_state.cursor` | `enqueue`, `syncNow` (`pending`, push, `settle`, pull, `_apply`, `_saveCursor`), `retry`, `discard` |
| Accounts | `app/lib/data/auth.dart`, `server/internal/auth/auth.go`, `server/internal/store/store.go` | `auth_tokens`, `local_reader`; `users`, `deleted_readers` | `begin`/`complete`, `signOut`, `token`/`_refresh`/`_exchange`, `_handOver`, `deleteAccount`; `ReaderFor`, `DeleteReader` |
| Reader writes on the device | `app/lib/data/db.dart`, `sets.dart` | sets, prayers, understood ayas, positions, preferences | a row and its op in one SQLite transaction |
| Reports | `server/internal/store/{sync,admin}.go`, `server/cmd/api` | `report_inbox`, `reports` | `applyReport`, `SweepReports`, `TriageReport` |
| Senses | `server/cmd/senseseed`, `server/internal/{store,api}/senses.go`, `app/lib/data/{senses,flush}.dart` | `root_senses`; on the phone `root_notes`, `sense_pack` | `load`/`ReplaceSenses`; version, HEAD and GET; `sensesOnOffer`, `installSenses`, `theFirstSenses`, the panel |
| rootd, the root server | `jidhr/cmd/rootd` | the limiter's map, one bucket per caller | `allow`, the key, word, batch and letters |
| Jidhr, the root engine | `jidhr/pkg/root`, `server/cmd/jidhrcorpus` | the corpus file; the index of a `MemoryStore` | write the file, index it, `Resolve` down its ladder |
| Ingest and ETL | `server/cmd/{ingest,etl}` | `data/raw/`, the manifest, `corpus.db` | download, verify, vouch; load, check, write |
| Word timings | `server/internal/timings`, `server/cmd/{ingest,etl}` | the tuples of an aligner, the rows of `segments` | `Spans`; verify, normalise, check |
| French glosses | `server/cmd/etl` | pages of cards, the words of an aya | parse, align, pin, check |
| Checking a sense | `server/internal/rootsense`, `server/cmd/rootcheck` | a file of proposals, a calibration | `Check`, `Bar`; order, build, cost |
| Drafting senses | `server/cmd/rootdraft` | a log of rows | settle the list, ask, append, tally |
| Corpus on the phone | `app/lib/data/db.dart` | `wird.db`, `.next`, `.bak` | install; upgrade carrying the reader's rows over |
| Recitation | `app/lib/data/audio.dart` | one player, a turn counter, the kept place, a file cache | play, pause, resume, prefetch, evict |
| Prayer | `app/lib/features/prayer/` | cursor, pace timers, plan, trail | walk, step, lose and regain the voice |
| Voice follow | `app/lib/features/prayer/alignment.dart`, `app/lib/data/speech.dart` | expected words, hypotheses | match, advance |
| Screens, serving | `app/lib/features/*`, `server/internal/{httpx,site}`, `server/cmd/adminweb` | none that lasts | drawing, plain handlers |

How they interact. The app writes a row and its op together and never waits for
the network. The Flusher (`flush.dart`) starts `syncNow` when the app is launched,
comes to the foreground or leaves it, one at a time. `POST /v1/sync`
carries the queue and answers one verdict per op; the server lands each op in a
transaction of its own. `GET /v1/changes` carries the reader's rows past a
cursor, tombstones included. Every request goes through `AuthHeader`, which
signs it with the token of the moment and, on a 401, refreshes and sends it once
more; the server's middleware mints the reader's row the first time it sees a
token. Signing in as somebody else empties the device of the last reader.

A report rides to the server as an op and waits in the inbox for the API's own
ticker to sweep it. A person seeds the senses; a phone asks by HEAD whether
there is a pack it lacks and fetches it whole. The content is a chain of files:
ingest writes `data/raw/` and vouches for it, ETL reads that into `corpus.db`,
`jidhrcorpus` reads `corpus.db` and Postgres into the file rootd is started on;
`rootdraft` asks rootd and a provider and appends to a log, `rootcheck` judges
what the log proposes and `senseseed` puts it into Postgres.

What is hard in it:

* **two orders**: a sequence number is drawn when a statement runs and seen when
  its transaction commits;
* **unreliable answers**: a request may land and its answer be lost, may go on
  after the device gave up on it, may be sent again while it still runs; COMMIT
  itself may fail to be acknowledged;
* **two devices, two clocks**: ops arrive in any order, dated by the devices;
* **a budget**: backoff, ten attempts, parked ops that the reader sends again;
* **awaits**: a flush reads the queue, the token and the cursor at different
  moments, while the reader signs out, hands over or deletes the account;
* **a shared identity**: no row on the device says whose it is;
* **snapshots and rows** (READ COMMITTED): a sweep rewrites the table it read
  while an operator updates a row of it and a reseed changes what a vote is;
* **a check, an await, a set**: what `theFirstSenses` asked is old when it acts;
* **a stale clock**: a request reads the time and then waits for the mutex;
* **killed programs** started again over the files the last run left;
* **an order nobody chose**: the map of a Go program decides which of two roots
  arrives first at the index.

What makes each part correct. *Server sync*: a cursor never passes a row its
device lacks; an op's effect lands once; parents precede children; ordinals are
dense. *Device sync*: no write is lost, devices that caught up agree, what is
forgotten stays forgotten, the queue drains. *Accounts*: the token and the
reading are one reader's, a hand-over mixes nothing, a deleted account stays
deleted. *Reports*: a sweep neither loses nor doubles a report, nor undoes
triage. *Senses*: the version a phone holds names exactly what it installed, and
no install leaves a reader blank. *rootd*: a caller gets burst and rate and no
more; a batch is whole or refused. *Root engine*: what the corpus attests is
found, what is guessed is said to be, and two runs agree. *Ingest and ETL*: a
manifest vouches for what is on disk, a partial run never replaces a whole one,
a word's parsing is its own. *Word timings, French glosses*: a time or a gloss
stands on the word it was made for; where a doubled word is put in the wrong place,
only the times in between move, and by one word. *Sense check*: what the order recommends passes, the report and the
bundle differ only where they read the file differently, no two roots share a
sentence.
*Drafting*: no root is paid for twice and the tally accounts for each. *Corpus on
the phone*: the app always finds a whole corpus with the reader's rows in it.
*Recitation*: only the current turn touches the bar. *Prayer*: pace and voice
never both step the same word. *Voice follow*: the matcher equals its definition.
`PROJECT.json` lists the hazards behind these at the lines where they bite.

## 2. The modules

| Module | What it is |
|---|---|
| `ChangeStream` | request handlers landing ops under the advisory lock, and devices paging through the stream with a cursor |
| `Feed` | the abstract promise: one append-only feed per reader, and devices that walk it |
| `ChangeStreamFeed` | `ChangeStream` with a history of what was published; the refinement mapping to `Feed`; fairness; delivery |
| `Sync` | one reader's devices and the server: outbox, flush, verdicts, timestamps, reconciliation |
| `SyncRefusals` | `Sync` with the set of ops ever refused, for the meaning of "refused" |
| `Account` | one device, several readers, their tokens and their accounts |
| `Reports` | the inbox, sweepers and operators over one table, statement by statement |
| `SensePack` | seeds and deploys on the server; a phone's fetches, one on its own and one in Settings |
| `RootServer` | rootd's gate, limiter and routes over a store that may fail |
| `RootEngine` | from the corpus file to an answer, every rung of `Resolve` |
| `CorpusBuild` | ingest and ETL over the files they share, killed anywhere |
| `Recitations` | one recitation through the three programs that judge its timings |
| `FrenchGlosses` | a page of cards pinned to the words of an aya |
| `RootSense` | `Check`, its bar, and the commands order, build and cost |
| `RootDraft` | runs of the drafting program over one log |
| `ChangeStreamProofs`, `FeedProofs`, `SyncProofs`, `AccountProofs` | the theorems about the modules they are named after; `FeedProofs` has the refinement |
| `ServingProofs` | the theorems about `Reports`, `SensePack` and `RootServer` |
| `ContentProofs` | the theorems about `CorpusBuild`, `RootSense`, `RootDraft`, `Recitations` and `FrenchGlosses` |
| `AnswerProofs` | the theorems about `RootEngine` |
| `DataLemmas` | induction over sets, recursions, lists laid end to end, sums: what the last two cite |
| `MC*` and `*.cfg` | the instances TLC checks |

**`ChangeStream`** is the small-step model: `attempt` is `Begin`, `LockReader`
(blocking), `Duplicate` or `RecordOp`, one `Write` per statement of the op's
effect, then `Commit` or `Rollback`; `Commit` may be told or not told to the
caller, and `Rollback` stands for a refusal, an error and a lost connection
alike: to the stream they are the same. Any handler may take any op at any time,
so a request sent again while it still runs, or after it landed, is included. An
op is the sequence of rows it writes (`OpRows`): a `set_prayed` is its set and
then its prayer. What a row says is left out, and whether an upsert's
`updated_at` guard lets it through is a free choice. A device's pull is three
steps, `Pull` (the answer is cut), `Apply` and `SaveCursor`; `Lose` is a lost
answer and also a kill between any two of them. A page is any prefix by `seq` of
what is pending, of at most `ChangePage` rows.

**`Sync`** takes the server's transactions as single steps: an op is landed by
one `Serve`, a page is one step. `ChangeStream` is the justification of that: it
shows commits to be in number order and pulls to be gapless. `Sync` keeps what
that module leaves out, the data: each op carries the device's clock, `RowAfter`
is the SQL of the upserts (`kept_upsert` behind `updated_at <`, `kept_delete` with
`GREATEST`, `COALESCE`), `Reconcile` is the device's rule for an arriving row. A
flush walks `idle`, then `push` and `wait` round after round, then `got` and
`applied`, with `sent` and the retry budget as in `syncNow`; `GiveUp` may end it at
any place and leave its request running on the server (`orphan`). A verdict is
`applied`, `duplicate`, `refused` or `failed`; `failed` covers a rolled back op
and one that committed without acknowledgement. Time is one tick per local
write, seen by each device with its own `Skew`.

**`Account`** is one device and the accounts. A token is a reader, the second of
the sign-in (`auth_time`, kept by a refresh) and a serial number; whether it has
expired is decided by the clock at any use, so a refresh may start at any use.
The flush holds the queue it read, the cursor it read and the bearer of its
request as locals, exactly as `syncNow` and the interceptor do, so everything
the reader does in between can overtake it. `LetIn` is `ReaderFor`: it mints the
`users` row, under the subject's lock, unless the sign-in is older than the
deletion; `Land` writes under the row's id, which the deletion's cascade may
have removed meanwhile (`OfTheUser` is the foreign key). A deletion is
`StartDelete`, `DeleteMe` on the server, `DeleteDone` or `DeleteFails` on the
device.

How the three compose. `Account` and `Sync` both look at the same flush, each
keeping what the other abstracts: who, and what. `ChangeStream` is under both.
Only `ChangeStreamFeed` is a formal composition; joining `Account` with `Sync`
would multiply the state without adding a question.

**`Reports`** takes Postgres at its word. `SweepReports` is the moment the
statement takes its snapshot of the inbox, the table and the roots served;
`TakeRows` is its DELETEs, which wait while another sweep holds one of those
rows; `SweepCommits` puts the rewritten rows in place and makes every statement
that began before lose sight of the old ones; `SweepAborts` is a cancelled
context or a lost connection. A triage is `Triage` (the UPDATE begins), then
`Updates`, or `Misses`: a second statement with its own snapshot, then 404.
`Reseed` is `ReplaceSenses` as a report sees it.

**`SensePack`** keeps for each caller its place in a fetch and what it has read so
far: `Resume`, `Look` (the awaited query), `AskVersion` (HEAD), `OnOffer`,
`ReadVersion` and `ReadRows` (two statements of one snapshot), `Install`, with
`Fail` and `Killed` in between. A version is the revision of the wording and a
digest, which here is the set of rows itself: the digest is taken to tell tables
apart. `Deploy` changes the revision under a phone that holds a pack.

**`RootServer`** measures time in the tokens that come back in it, so a bucket holds
whole numbers. `Arrive` reads the clock, `Allow` is `limiter.allow` under its
mutex followed by the key; in between the clock may tick and others may take
the mutex, so what a request holds may be older than what the bucket holds. Then
`Resolve`, or `OpenBatch` and a `NextWord` for every word, over a store that
`Break`s and `Mend`s.

**`RootEngine`** writes a form as a sequence of signs, letters in
transliteration with vowel marks, dagger alef and pause marks, fewer than the
alphabet has; the tables of affixes and templates are the code's, over these
letters. `WriteCorpus` is `jidhrcorpus`, `Index` is `NewMemoryStore`, with the
order of arrival left free (`SetToSeqs`), and `rung` walks
`Resolve`: surface, lookup, strip, attested, pattern. The last proposes shapes and
never a root.

**`CorpusBuild`** is the disk: each path holds nothing, a sound file, one cut short
or an odd one; `.part` and rename are two steps, `KillIngest` and `KillBuild` may
fall between any two. `SaveManifest` verifies the directory as it then is.
`Load` reads the morphology into words and `Check` gates it before `corpus.db` is
removed and rewritten with its journal off (`Torn`).

**`RootDraft`** is the list a run settles from the log it can read, the workers
behind their gate, and `Row` and `Blame` under the lock; `Tally` ends a run and
`KillDraft` breaks one off. **`Recitations`**, **`FrenchGlosses`** and
**`RootSense`** are pipelines without state of their own: an input is chosen in
`Init`, each program is one step that computes its output with the code's
algorithm, and the properties relate the outputs of different programs.
In `RootSense` each command reads the file of proposals its own way: `-order` and
`-cost` look a root up as it stands and pass by a row they cannot read
(`FoundAsItStands`), `ReadCandidates` trims the cells and refuses the whole file for
a row of one column (`FoundTrimmed`, `Refused`). In `Recitations` a recording is the
text's words, the aligner's tuples and the word it numbers twice, which the code
does not see; any of its slots may have nothing aligned to it.
`ParseTLDPage` and `AlignLCS` are the code's pass and table as recursive functions
over pairs of places; a score is a fraction,
compared by cross-multiplication, where the code has float64.

`MCContent` and `MCServing` each hold programs that share no state: a variable
(`program`, `part`) picks one in the initial state and the others stay still, so
the state spaces add up and are not multiplied.

### The names of the code in the model

`PROJECT.json` maps every definition to its lines. The variables keep the
code's names where there is one: `outbox`, `cursor`, `sent`, `opLog`,
`changeSeq`, `deletedAt`, `maxAttempts`, `ChangePage`. `waits` is a
`retry_after` still to come and `dead` a `dead_at`. Variables called history in
a module's declarations (`landed`, `told`, `written`, `discarded`, `charged`,
`crossed`, `published`, `refusedOnce`, `said`, `spent`, `late`) are not in the code
and guard nothing; the properties need them. Some modules hold, next to an operation, a wrong form
of it (`NoLockTaken`, `LastToArriveWins`, `ArrivingAndForgotten`, `SweptAll`,
`FirstRootFirstLemma`, ...): it is used by no action, and says which mistake a property was seen to catch.

## 3. What is checked

Every pass run finishes with the whole state space explored. Types are an
invariant of `change_stream`; elsewhere they are part of the inductive invariants
of section 4.

| Run | Instance | Shows |
|---|---|---|
| `change_stream` | two readers, two handlers, four ops (two prayers of one set range and another, a keep, a mark), pages of one row, five numbers | `NothingMissed`, `ExactlyOnce`, `ParentFirst`, `OrdinalsDense` |
| `feed` | one reader, two handlers, three ops, one of them an edit of another's row, three numbers | `ImplementsFeed` (refinement), `Delivered` (liveness) |
| `sync_outbox` | two devices, one position, two writes, two attempts, the phone's clock two ahead where one is allowed, requests of up to two ops that outlive their caller | `NoWriteLost`, `OneAttemptPerFlush` |
| `sync_agree` | two devices in step: an item kept by one and forgotten by both, none of its ops thrown away; two writes of an item, or of a mark and a preference, ops thrown away too; or two of the preference with requests that outlive their callers (`AnItemOrTwoRegisters`) | `CaughtUpAgrees`, `StaysForgotten` |
| `sync_drains` | one device, one item kept and forgotten, two attempts, orphaned requests | `Drains` (liveness) |
| `account` | two readers, one write, two users rows; two seconds and two tokens, or three tokens while nobody is deleted (`TwoSecondsOrThreeTokens`) | `DeletedStaysDeleted`, `SignedInAsHolder`, `CleanHandOver`, `OnlyHandOverForgets` |
| `serving` | reports: two sweepers, one operator, a vote and a prose report, one root; senses: two resumes and the panel, two revisions, two seeds of three logs; rootd: four requests of two callers, burst two, one tracked caller, batches of three, clock to two | `NeitherLostNorDoubled`, `VerdictStands`, `VoteStaysAVote`, `ReportsAreRead` (liveness); `PackIsWhatItSays`, `NeverBlank`; `RateBound`, `BatchIsWhole` |
| `content` | timings: two ayas, one of them of three words with any word doubled and any slots silent, walks of up to three tuples, two clocks; French: two ayas on one page or two, cells lost; senses: three roots, two shapes, files of two proposals, a root padded, unknown or alone on its row; build: two suras, three words, five morphologies, one retry; drafting: three roots and a stray, two workers, two runs; engine: words from three pools, two counts of uses, with and without entries | `JudgesAgree`, `TimesOnTheirWord`; `FrenchIsTheWordsOwn`, `AsManyAsPossible`; `OrderIsEnough`, `CostIsWhatShips`, `NoSharedProse`; `CompleteStands`, `ParsingIsTheWordsOwn`; `NotPaidForTwice`, `TallyAddsUp`; `WordFindsItsRoot`, `NeverAGuess`, `SameOnEveryRun`, `StripsWhatWasAdded`, `PatternsReadBack` |
| `refusals`, `skew`, `in_the_air`, `first_senses` | see section 5 | counterexamples |

Why the bounds are enough for the question asked.

* A stream goes wrong with two commits out of order and one cursor between
  them: two handlers of one reader, and pages of one row, so that every row is
  a place where a page may end. The second reader is there so that the lock of
  one is not what orders the other. Five numbers let a keep be written after
  both prayers and a rollback burn a number.
* Last-write-wins goes wrong with two writes; a tombstone with three (keep,
  forget, and what another device still holds of it).
* The retry budget goes wrong at its edge: two attempts give a failed one, the
  last one, and a retried one. One attempt is used where the question is not
  about the budget.
* A hand-over needs two readers and, to come back, three tokens. A deletion
  needs two seconds (before, after) and a second users row for the reader who
  comes back. An op of a reader is followed through by one write: the readers
  are symmetric.
* A sweep goes wrong with one other sweep and one operator between its
  snapshot and its commit; a third sweeper only repeats the second.
* A pack goes wrong with a seed or a deploy between two reads, so two of each.
* A limiter goes wrong at an empty bucket, at a full map and with a late
  request: a burst of two, one tracked caller of two, and a clock that may move
  twice while a request waits.
* The pipelines are checked over inputs, and each family of inputs holds the
  case its property is about: slots numbered one off, an empty aya, a card lost,
  a repeated word, a twin sentence, a segment out of place, a root whose lemma is
  elsewhere, a dagger alef, two roots of one spelling.

Symmetry is used for handlers, for devices with equal clocks and for readers,
and only in runs without liveness. Every bound is a CONSTANT in a guard
(`MaxSeq`, `MaxWrites`, `MaxOrphan`, `MaxSecond`, `MaxTokens`, `MaxUsers`,
`MaxSeeds`, `MaxRevision`, `MaxClock`, `MaxRuns`; `Retries`, `MaxTracked` and
`MaxBatch` are the code's own) or one of the two constraints named in the table.
Deadlock is checked in the runs about sync and accounts: those models may not
stop, because a device can always start to ask the server again. It is not in
`content`, `serving` and `first_senses`: a pipeline ends when its last program
has, and a rootd that has answered all it was sent is at rest.

### Fairness

`FairSpec` of `Sync`. `StartFlush` is weakly fair: the Flusher starts one at every
launch, resume and pause (`flush.dart`), so this assumes a phone that is opened
again and again, and more than two minutes (`gap`) apart.
`Push`, `Settle`, `Pull`, `Apply` and `SaveCursor` are strongly fair, because a
flush may be broken off (`GiveUp`) anywhere and what is assumed is only that it
is not broken off at the same place every time. For every length of what is
left of a request, `Serve` is strongly fair at that length: a request that is
sent again and again gets further some time. `BackoffOver` is weakly fair: the
clock runs. Nothing is assumed of verdicts, so a server may fail an op for ever,
and nothing of the reader, who may never open settings. `ChangeStreamFeed` makes
the same assumption of a device's pull (`Online`) and none at all of handlers: a
handler may hang with the lock, and `Delivered` is about committed rows.

`Sweeping` of `MCServing`. `main.go`'s `every` runs the sweep, waits and runs it
again for as long as the process lives, so that some sweep begins is weakly
fair. A sweep may be cancelled at the end of a drain or lose its connection; that
some sweep takes its rows, and that some sweep commits, is strongly fair: not
every sweep of every process is cut off at that place.

## 4. What is proved

The theorems are `Spec => []Inv`, or `Spec => [][...]_vars` from the same
invariants, for any constants that meet the modules' named assumptions
(`ConstantsAssumption` and `ParentAssumption`; `KeysApart` and `SyncAssumption`;
`AccountAssumption`, `ReportsAssumption`, `ProseAssumption`; `LimitAssumption` and
`BodyAssumption`; `CorpusAssumption`, `DraftAssumption`, `SenseAssumption`,
`RecordingAssumption`, `JidhrAssumption`, `FrenchAssumption`, `MeantAssumption`),
each of which TLC evaluates. Mostly they are types: a
corpus lists no sura and no root twice, a key is of one kind of row, a batch is
a list of words, a root is three letters, a mushaf is finite, an aya's tuples are
lists of numbers. Two say what an input of the program is about. `JidhrAssumption`: each of the mushaf's words has an
Arabic letter and no foreign one. `MeantAssumption`: what a page means, and that no
aya is on two, which `glosses_fr.go:57` says of today's pages. They use no other axiom. Two hypotheses stand in
the theorems themselves, because the code does not guarantee them:
`ClocksAgree` (all devices have one skew), without which `CaughtUpAgrees` is
false, as the run `skew` shows; and `NamedOnce` (no `-suras` list names a sura twice),
without which `CompleteStands` is false: a repeat makes a part as long as the whole.

| Theorem | Says | Rests on |
|---|---|---|
| `TypeCorrect` | types; an idle handler holds nothing | itself |
| `LockExcludes` | of one reader's handlers at most one is past `lockReader` | `TypeOK` |
| `LandsOnce` | `ExactlyOnce` | `OnceInv`, `LockHeld` |
| `StreamInvariant`, `NeverMisses`, `CommitOrder` | `NothingMissed`; `CommitsInOrder`, which no run needs to repeat | `StreamInv`, `LockHeld` |
| `ParentInvariant`, `SetBeforePrayer` | `ParentFirst` | `ParentInv`, `StreamInv` |
| `SetsAreNumbered` | `OrdinalsDense` | `OrdinalInv`, `ParentInv`, `LockHeld` |
| `HistoryInvariant`, `StreamImplementsFeed` | `ImplementsFeed`: the stream with its history is a `Feed` | `FeedInv`, `StreamInv`, `ParentInv` |
| `NothingIsLost` | `NoWriteLost` | `LossInv` |
| `OneAttempt` | `OneAttemptPerFlush` | `AttemptInv` |
| `ForgottenStays` | `StaysForgotten`, when the clocks agree | `RowInv` |
| `CaughtUpDevicesAgree` | `CaughtUpAgrees`, when the clocks agree | `AgreeInv` |
| `AlwaysSignedInAsHolder` | `SignedInAsHolder` | inductive as it stands |
| `DeletionHolds` | `DeletedStaysDeleted` | `DeletionInv` |
| `SigningOutForgetsNothing` | `OnlyHandOverForgets` | `ForgetInv` |
| `HandOverIsClean` | `CleanHandOver` | `CleanInv` |
| `OneOfEachReport`, `VerdictsAreKept`, `VotesAreKept` | `NeitherLostNorDoubled`, `VerdictStands`, `VoteStaysAVote` | `ReportsInv` |
| `PacksAreWhatTheySay`, `ReadersAreNeverLeftBlank` | `PackIsWhatItSays`, `NeverBlank` | `Labelled` |
| `RateIsBounded` | `RateBound` | `Limited` |
| `BatchesAreWhole` | `BatchIsWhole` | `BatchInv` |
| `CompleteManifestStands` | `CompleteStands`, when no list repeats a sura | `IngestInv` |
| `WordsCarryTheirParsing` | `ParsingIsTheWordsOwn` | `EtlInv` |
| `ReportAndBundleAgree`, `ProseIsShippedOnce` | `CostIsWhatShips`, `NoSharedProse` | `SenseInv` |
| `DoneRootsAreSkipped`, `EveryRootIsAccountedFor` | `NotPaidForTwice`, `TallyAddsUp` | `DraftInv` |
| `SpansFollowTheVoice` | `TimesOnTheirWord` | `JudgedAsRead`: what is kept is a walk; the argument is about `Split` |
| `JudgesAreOne` | `JudgesAgree` | `JudgedAsRead` |
| `SortingIsEnough` | `OrderIsEnough` | no invariant: the argument is about the operators |
| `FrenchGoesFurthest`, `FrenchIsOwn` | `AsManyAsPossible`, `FrenchIsTheWordsOwn` | `FrenchInv` |
| `WordsFindTheirRoots`, `AnswersAreTheSame`, `NoAnswerIsAGuess` | `WordFindsItsRoot`, `SameOnEveryRun`, `NeverAGuess` | `JInv` |
| `StemsAreProposed`, `RootsAreReadBack` | `StripsWhatWasAdded`, `PatternsReadBack` | `JInv`, for the types |

`NothingMissed` is not inductive: nothing in it forbids a staged row with a
number below a cursor. `StreamInv` adds that staged rows belong to their
handler's reader, that no number is used before it is drawn or twice, that a
staged number is above all visible numbers and all cursors of its reader
(`CommitsInOrder`), and that a page in hand carries every row between the saved
cursor and its own, unless a later commit moved the row past it (`PageHonest`).
`CommitsInOrder` in turn needs the lock: a commit moves visible numbers up, and
no other handler of that reader may then have something staged
(`AloneWithItsReader`). That is the argument of `lockReader`'s comment, with the
cursor's half of it made explicit.

`ExactlyOnce` rests on the op log saying exactly what is committed, and on no
handler writing an op that is already in it, which again is the lock: the
conflict on `op_log`'s key is met after the lock is taken.

`ParentFirst` needs the set to sort before its prayer wherever the two are:
committed, staged, one of each, or in a page (`ParentInv`).

`OrdinalsDense` is a count: a handler's draft for the set it stages is one more than
its reader has (`OrdinalInv`), and stays so until it commits, because the lock
keeps every other commit of that reader out. A set edited again keeps its
ordinal, so what a commit adds to the committed sets is what was numbered.

`ImplementsFeed` maps the history of what was published, and the cursor as a place
in it, to `Feed`. A commit maps to one publication: the entries it appends are a
listing of its staged rows by number (`ListingExists`), above everything
published before. A pull, an apply and a saved cursor map to a device's walk:
what a page carries up to the place it ends is, of each row, the last version
published up to there (`FeedInv` with `PageHonest`). Everything else is a stutter.

`NoWriteLost` rests on an answer in hand being true (`AnswersAreTrue`): an op
leaves its outbox by the reader's hand or because of an answer, and the op log
only grows.

`OneAttemptPerFlush`: what a flush charged was sent in it, and what it may still be
told of was sent and not charged (`ChargedOnce`); a second round asks only for
what no round has sent.

`StaysForgotten` and `CaughtUpAgrees` rest on what a row can be, wherever it is
(`Explained`): an item's row is its one keep or a tombstone dated later, a
register's row is one of the writes. With one clock the tombstone is then always
the later row, so that the device's rule "strictly newer" lets it in and
nothing out of it. `AgreeInv` compares rows by what one has of another
(`Covers`): the server's row covers every op in the log, a device's row covers the
server's for every number its cursor has passed, and what a device shows beyond the
server is its own writing, which is in its outbox or thrown away. A device with
an empty outbox and its cursor at the end is left with equality.

`DeletedStaysDeleted` needs to know, of a request that is past the middleware,
that its reader's account is the one it was let into or is gone
(`LetInStands`, `UsersApart`: ids are not reused and no two accounts share one),
that a request still waiting for its token has none (`WaitsUnsigned`), and the
shapes of the flush's locals.

`OnlyHandOverForgets` needs the flush's locals by the place it has come to
(`FlushKeeps`): an op it counts as landed is in its bearer's account, or that
account was deleted since. `CleanInv` says whose each local is, as long as no
hand-over met anything in the air (`crossed`): tokens are the holder's, ops are
theirs or from before anybody signed in, and a place in the stream, kept, in
flight or about to be saved, has nothing of theirs below it that the device or the
page in hand lacks.

`ReportsInv` says what a statement under way is still worth: what a sweep has seen
in the inbox is in the inbox still, because a commit takes from every other
sweep what it moved (`Pending`); an id names its report, so no two sweeps make
rows that collide (`Named`); and a triage that sees its row has one to update
(`Seen`). With that, a sweep's commit moves each report it saw once, and
rewrites a held row with the verdict it has by then.

`PackIsWhatItSays` is carried by the fetch: between the version and the body what
a caller has read names its own rows (`Labelled`), because both are of one snapshot.
`NeverBlank` is the rollback of `installSenses`.

`RateBound` is inductive once a bucket is counted together with what was spent
from it (`Worth`), and a caller without one as having a full one coming. The
sweep keeps that because it forgets only what a fresh bucket equals, a late
request because it gains by the bucket's own clock. `NotAhead` says that no
bucket and no request has read a clock still to come.

`BatchInv` is the batch as far as it has come: an item for every word seen to, in
order, each the status the word has by itself; a store that is down answers the
request at once, so no such item is ever a 500.

`CompleteStands` is about a look and a write far apart. `IngestInv`: once a run is
past the look, its list is as long as the corpus or the manifest is not
complete, and nothing but a run's end changes the manifest. A list as long as the
corpus with no repeats is the corpus (`WholeIsAll`, counting injections).

`ParsingIsTheWordsOwn`: `Load` lets segments through only in the order of their
numbers, so the number a segment carries is its place among its word's segments
(`PlacesAreNumbers`), and the list of roles, made by place, is right by number.
What is in `corpus.db` was loaded from a morphology that does not change
(`EtlInv`), through the gate.

`CostIsWhatShips`: `SenseInv` keeps the report and the bundle equal to what they were
computed from. What the report reads is what the builder reads but for padded
roots, so a row's twins in the one are among its twins in the other, and a row that
clears its own terms has no more twins than itself exactly when it is all of them
(`TwinsAreCounted`). A row the report calls shippable and the builder drops with its
French in place therefore has a twin the report did not read, which is padded.
`NoSharedProse`: a row is a twin of itself, so a row with a single twin shares
its prose with no other (`OneOrNone`); and what fails for its specificity alone
fits more roots than the bar, both being numbers (`OthersAreCounted`,
`BarIsANumber`).

`DraftInv` puts every root a run took in one of four hands; without `-force` the
roots with rows are those drafted or skipped; the limit was met exactly when a
root was left; and over the whole corpus what is left ranks below all that was
taken (`CommonestFirst`). A row moves its root from one hand to another just as
it makes it done.

`TimesOnTheirWord`: `Split` is where the silences point, whatever is silent
(`SplitIsTheSilence`): the first silent slot, or the last slot of all. A slot is shown
as the text numbers it up to there and one word back from there on
(`ShownAt`), and was said likewise up to and from the doubled word. Both take slots
in a row to words in a row (`SaidInARow`), so they agree on a tuple exactly when they
agree on its two ends (`AlikeByTheEnds`, `TupleIsShown`). That a kept recording is a walk
comes from the judges (`KeptAsLoaded`, `KeptIsWalked`).

**Induction over data.** An induction theorem that takes a predicate as an
operator cannot be used here, but induction can be had from a set: what is to
be proved becomes the set of the numbers, finite sets or places it holds of, and
that set is shown to be everything. `FromZeroUp`, `OneByOne` (finite sets, an element
at a time), `FromTheEnds` (the alignment's grid) and `FromTheLastCell` (a page) are
of this kind and rest on `LeastNumber` and `SmallestSubset`. A recursive function is
a CHOOSE until it is shown to exist: `RecursionIsSound` does it once, for a step that
looks only at places of lower rank. `FlattenSeq` and the folded sums get from it
the equations the theorems below use. The prover takes functions of one argument,
so a recursion over two places is one over pairs.

`JudgesAgree`: a row stands on a word once per span, so a sum of what the ayas leave
untimed, counted by ingest per aya, is the count ETL makes of rows laid end to
end (`RowListsAre`, `FlattenIsLaidOut`), and a list that both kept has the gate's
order because each aya's spans go forward and the ayas go up (`RowsPass`).

`OrderIsEnough`: what a clause is credited with beside others is at most what it
explains alone, the first is credited with all of that, and more stems explain
no less (`MoreExplainsMore`, a monotone sum). So if a clause passes the order term
anywhere it passes it first, and nothing else in a verdict looks at the order.

`AsManyAsPossible`: by induction from the ends of the grid, `dp` at two places is at
once what `walk` pairs from there (`WalkMakesThatMany`) and no less than what any
pairing in order does (`NoneHasMore`): past two places of one letter a pairing has
one pair less at most, and where the letters differ it passes one of them by.

`FrenchIsTheWordsOwn` is about a parser that loses its place. A card counts for four
cells; when its transliteration was lost the fourth is the next card's label, or
the ref of the next aya, whose cards are then read under the wrong aya. But an aya
gets cards only under a ref of its own (`OpenedByItsRef`), so the one whose ref was
skipped gets none, and the gate, which wants French in every aya, refuses the
corpus (`PastACard`, `CarriedIsMeant`). With an aya on two pages the second page would
hide the gap, which is why `MeantAssumption` is needed.

`JInv` is what holds of the engine as a word goes down: the corpus file is what
`jidhrcorpus` makes of the database, or refused; each key of the index goes through
the roots written under it, in order of use (`CorpusRight`, `IndexRight`); and what a
word has been found not to be on the rungs above (`Passed`). `EnteredIsRight` is why
the map's order does not matter: `MostUsed` is a line (`MostUsedIsALine`, from the
alphabet's order), and a finite set along a line is gone through in one way only
(`LineIsGoneThrough`). `WordFindsItsRoot` then needs that a spelling's key is a key of
that spelling after its pause marks and spaces are trimmed (`KeysAreOfTheSpelling`),
and that only an empty form has an empty key for a word (`WordHasItsKey`).

`StripsWhatWasAdded`: what is reached by one more peel stays reached
(`ReachedStays`), three peels reach under any conjunction, article and ending
(`WornIsReached`), and `LeastPeeled` is a line over the spans. `PatternsReadBack`: each
shape has its three radicals at three places in order (`IsShape`, checked shape by
shape), a root put there stands there (`DerivedIs`) and is among its own readings;
a shape written with one letter for two is read at the places of the two left and
the second of them again.

Only model-checked, and why: liveness. `Delivered`, `Drains` and `ReportsAreRead` are
about fairness and ENABLED, which the prover does not reason about. Every other
property of a passing run is a theorem. The four counterexample runs refute what
they check. Recursion is written as recursive functions and folds, and no module
here declares a RECURSIVE operator.

## 5. Where the code and its words part

1. **A refusal is not final** (`refusals`). `kept_delete` is refused when the row
   is not there, also when the keep before it merely failed and waits out its
   backoff. The device parks the delete, and Retry lands it after the keep has
   landed. `server/internal/store/sync.go:51` calls a refusal "a write that will
   never succeed however often it is sent".
2. **A forgotten item stays on the device whose clock is ahead** (`skew`).
   `GREATEST` dates the tombstone with the item's own time, and the device takes
   a row only when it is strictly newer (`sync.dart:295`).
3. **A flush is signed with another reader's token** (`in_the_air`). `onRequest`
   takes the token the device has when the request leaves (`auth.dart:499`). A flush
   reads the first reader's queue; before its request is signed, a second reader's
   sign-in hands the device over and wipes the outbox; the request leaves with the
   second reader's token and the ops land in their account, which is what
   emptying the outbox is meant to prevent (`auth.dart:420`). The run has two
   tokens, one for each sign-in. The retry after a 401 takes the token of the moment
   too (`auth.dart:518`): it is in the model as `SignAnew`, and with a third token it
   is a second way to the same end, which this run does not show.
   `CleanHandOver` says what does hold: a hand-over that met nothing in the air is
   clean.
4. **Two downloads of the first pack** (`first_senses`). `theFirstSenses` reads
   its guards, awaits a query, and only then records its fetch
   (`flush.dart:145`), so two resumed events that meet in the query both pass,
   which is what its comment (`flush.dart:132`) says the guard prevents. The
   packs are whole all the same: `PackIsWhatItSays` holds.

Two more are inside the statement of a property that holds, which says exactly
where the code is right and by how much it is wrong elsewhere.

* `TimesOnTheirWord`: `timings.go:116` says of a doubled word that the index too many
  "is the one nothing aligned", and takes the first such index. It is the
  second half of the doubled word when nothing before it is silent. With an
  earlier slot untimed, both halves timed, or the last slot of all untimed (the
  numbering then shows no surplus), the parting is put elsewhere, and a tuple that
  begins or ends between the two lights the word next to the one it was said over.
  The recording is kept all the same.
* `CostIsWhatShips`: `-cost` and `-build` read one file in two ways (`cost.go:37`,
  `build.go:124`). A root with space around it ships and is never called shippable, and
  it may also take down a row that is; a row of one column is passed by in the report
  and refuses the whole build.

Met while modelling, and not worth a run of their own: `cost.go`'s report says the
senses the order term takes "fail nothing else", but its switch has not asked them
about twins, nor about other roots they fit, by then; a row of `rootdraft` with a quote in a
bare field cannot be read back, though a killed run is said to leave nothing to
clean up; the limiter's map outgrows `maxTrackedCallers` while nobody in it has
refilled; `-suras 1-113,1` counts as the whole Quran by its number of entries
(`main.go:108`, `verify.go:188`), so that run is let over a complete manifest and its
own is marked complete without sura 114; an
operator whose report was swept twice under them is answered 404; the tally counts
a root the corpus does not have as a provider's refusal.

## 6. Not modelled, and why

Within the modelled parts. *Sync*: the contents of rows beyond their times; the
shapes old builds send (`set_recorded`, `set_prayed` without a range); the 200-op
and one-megabyte limits of a push; pruning of `op_log` after ninety days
(`store.go:411`); the cursor reset of a build that learns a new kind
(`sync.dart:396`); clocks that step back, and the local time an outbox row is
compared by (`outbox.dart:128`). In `Sync`, sets and prayers are insert-only rows
and behave as marks do. *Accounts*: PKCE, state and JWT verification, taken as
given; a refresh whose answer is lost or late (`auth.dart:302`, `334`, `342`) and
a deletion answered after another reader took the device (`279`); JSON and
cursor parsing. *Senses*: the 304; two seeds at once, each of which deletes what
it sees, so that a mixed pack is left. *Reports*: what they say. *Engine and
rootd*: meanings and languages, the health route, the drain. *Content*: the licence
notices, translations and revelation order, `checkSenses`, which no sense reaches
any more, names given twice in `-roots`, a French clause left blank, the stemmer,
and the commands that only print.

Whole parts: those of section 7 are planned. Screens, the operations pages, app
links, download links, Lane's files and plain handlers keep no state that two
actors share, and are left out for good; so are the native recogniser, the
microphone and the platform's audio engine, which will appear only as what they
may answer.

## 7. Plan

In order of importance. First the extensions of what stands:

1. `Sync`: the limit of `pending` before ops already sent are left out, a push
   too large to be answered, the cursor reset, clocks that step back between a
   keep and its forget.
2. `ChangeStream`: pruning of the op log, with ops that outlive the window.

3. `SensePack`: two seeds at once.

Then new modules, each with its MC module:

4. `CorpusUpgrade`: copy, carry, two renames, a kill after any of them, the next
   launch. Always a whole corpus; never a reader's row lost.
5. `Playback`: turns, awaits and errors over one player; the cache with files
   pinned against eviction.
6. `PrayerPace` and `SetWalk`: voice and pace over one cursor; the walk over sets.
7. `Alignment`: the matcher as operators against a declarative definition.

Proofs, next in line: that `Sync`'s single steps are what `ChangeStream` allows (a
pull of one is a pull of the other); the safety half of what each new module
promises.
