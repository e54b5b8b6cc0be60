---------------------------- MODULE ContentProofs ----------------------------
(* The batch programs that make corpus.db and the senses, each in a section *)
(* of its own: the ingest's manifest, a word's own parsing, the sense that  *)
(* ships and its cost, the drafting of senses, the recitations.             *)
EXTENDS CorpusBuild, RootDraft, RootSense, Recitations, FrenchGlosses, DataLemmas, TLAPS,
        FiniteSetTheorems, SequenceTheorems

-----------------------------------------------------------------------------
(* The ingest.  A complete manifest is safe because the look at it comes    *)
(* after the run knows what it wants and before anything of it is fetched:  *)
(* from there on the run is over the whole corpus, or the manifest it may   *)
(* replace is not complete, and nothing but a run that ends replaces it.    *)

\* No list names a sura twice.  -suras may (parseSuras drops nothing), and a
\* list with a repeat can have as many entries as the corpus has suras.
NamedOnce == \A list \in Named : IsInjective(list)

Opening == {<<"package", "chapters">>, <<"chapters">>}

IngestInv ==
    run.stage = "fetching" =>
        /\ run.todo \in Opening \/ Whole(run.list) \/ ~manifest.complete
        /\ run.list \in Seq(Sura) /\ (NamedOnce => IsInjective(run.list))

(* The first numbers, counted. *)
LEMMA UpTo == ASSUME NEW n \in Nat PROVE IsFiniteSet(1 .. n) /\ Cardinality(1 .. n) = n
  BY FS_Interval

(* A list as long as the corpus that names nothing twice names all of it. *)
LEMMA WholeIsAll ==
  ASSUME NEW list \in Seq(Sura), IsInjective(list), Whole(list)
  PROVE  Range(list) = Sura
<1> DEFINE n == Len(list)
<1>1. n \in Nat /\ n = Len(Suras)
  BY DEF Whole
<1>2. /\ IsFiniteSet(1 .. n) /\ Cardinality(1 .. n) = n
  BY <1>1, UpTo
<1>3. Suras \in [1 .. n -> Sura] /\ list \in [1 .. n -> Sura]
  BY <1>1, CorpusAssumption, LenProperties DEF Sura
<1>4. Suras \in Surjection(1 .. n, Sura)
  BY <1>3 DEF Surjection, Sura, Range
<1>5. IsFiniteSet(Sura) /\ Cardinality(Sura) <= n
  BY <1>2, <1>4, FS_Surjection
<1>6. list \in Injection(1 .. n, Sura)
  BY <1>3 DEF Injection, IsInjective
<1>7. n <= Cardinality(Sura)
  BY <1>2, <1>5, <1>6, FS_Injection
<1>8. Cardinality(Sura) = n
  BY <1>1, <1>5, <1>7, FS_CardinalityType
<1>9. list \in Surjection(1 .. n, Sura)
  BY <1>2, <1>5, <1>6, <1>8, FS_Injection
<1> QED BY <1>3, <1>9 DEF Surjection, Range

(* What chapters.json lists is a list of suras that names each once. *)
LEMMA ChaptersAreSuras ==
  ASSUME NEW content
  PROVE  Chapters(content) \in Seq(Sura) /\ IsInjective(Chapters(content))
<1> DEFINE cut == SubSeq(Suras, 1, Len(Suras) - 1)
<1>1. Suras \in Seq(Sura) /\ IsInjective(Suras)
  BY CorpusAssumption DEF Sura
<1>2. Len(Suras) \in Nat /\ DOMAIN Suras = 1 .. Len(Suras)
  BY <1>1, LenProperties
<1>3. CASE Len(Suras) = 0
  <2>1. cut = <<>>
    BY <1>1, <1>2, <1>3, SubSeqEmpty
  <2> QED BY <1>1, <2>1 DEF Chapters, IsInjective
<1>4. CASE Len(Suras) > 0
  <2>1. /\ cut \in Seq(Sura)
        /\ DOMAIN cut = 1 .. (Len(Suras) - 1)
        /\ \A i \in 1 .. (Len(Suras) - 1) : cut[i] = Suras[i]
    BY <1>1, <1>2, <1>4, SubSeqProperties
  <2>2. IsInjective(cut)
    BY <1>1, <1>2, <2>1 DEF IsInjective
  <2> QED BY <1>1, <2>1, <2>2 DEF Chapters
<1> QED BY <1>2, <1>3, <1>4

(* A run that goes on with a path has settled its list, or not yet read one. *)
LEMMA ProceedKeeps ==
  ASSUME IngestInv, run.stage = "fetching", NEW f, f = Head(run.todo), NEW content,
         Proceed(f, content), UNCHANGED manifest
  PROVE  IngestInv'
<1>1. CASE ~Accepts(f, content)
  BY <1>1 DEF Proceed, Idle, IngestInv
<1>2. CASE Accepts(f, content) /\ f # "chapters"
  <2>1. run' = Fetching(run.list, run.force, Tail(run.todo))
    BY <1>2 DEF Proceed
  <2>2. run'.list = run.list /\ run'.todo = Tail(run.todo)
    BY <2>1 DEF Fetching
  <2>3. run.todo \in Opening => run'.todo \in Opening
    <3>1. run.todo = <<"package", "chapters">> => Tail(run.todo) = <<"chapters">>
      OBVIOUS
    <3>2. run.todo # <<"chapters">>
      BY <1>2
    <3> QED BY <2>2, <3>1, <3>2 DEF Opening
  <2> QED BY <2>2, <2>3 DEF IngestInv, Whole
<1>3. CASE Accepts(f, content) /\ f = "chapters"
  <2> DEFINE list == Wanted(content)
  <2>1. run'.list = list
    BY <1>3 DEF Proceed, Fetching
  <2>2. Whole(list) \/ ~manifest.complete
    BY <1>3 DEF Accepts
  <2>3. list \in Seq(Sura) /\ (NamedOnce => IsInjective(list))
    BY ChaptersAreSuras DEF Wanted, IngestInv
  <2> QED BY <2>1, <2>2, <2>3 DEF IngestInv, Whole
<1> QED BY <1>1, <1>2, <1>3

(* The list of every run under way. *)
LEMMA IngestStep == ASSUME IngestInv, [BNext]_bvars PROVE IngestInv'
<1>1. ASSUME NEW list \in Named, NEW force \in BOOLEAN, BeginRun(list, force) PROVE IngestInv'
  <2>1. run'.list = list /\ run'.todo \in Opening
    BY <1>1 DEF BeginRun, Fetching, Opening
  <2>2. list \in Seq(Sura) /\ (NamedOnce => IsInjective(list))
    BY CorpusAssumption DEF NamedOnce, Sura
  <2> QED BY <2>1, <2>2 DEF IngestInv
<1>2. CASE Skip
  BY <1>2, ProceedKeeps DEF Skip
<1>3. CASE Retry
  <2>1. CASE run' = Idle
    BY <2>1 DEF Idle, IngestInv
  <2>2. CASE run' = [run EXCEPT !.tries = @ + 1]
    <3>1. run'.stage = run.stage /\ run'.list = run.list /\ run'.todo = run.todo
      BY <2>2, <1>3 DEF Retry, Asking
    <3> QED BY <3>1, <1>3 DEF IngestInv, Whole, Retry
  <2> QED BY <1>3, <2>1, <2>2 DEF Retry
<1>4. ASSUME NEW content \in {"good", "short", "odd"}, WritePart(content) PROVE IngestInv'
  <2>1. run'.stage = run.stage /\ run'.list = run.list /\ run'.todo = run.todo
    BY <1>4 DEF WritePart
  <2> QED BY <2>1, <1>4 DEF IngestInv, Whole, WritePart
<1>5. CASE Rename
  BY <1>5, ProceedKeeps DEF Rename
<1>6. ASSUME NEW recited \in BOOLEAN, SaveManifest(recited) PROVE IngestInv'
  BY <1>6 DEF SaveManifest, Idle, IngestInv
<1>7. CASE KillIngest
  BY <1>7 DEF KillIngest, Idle, IngestInv
<1>8. CASE BuildCorpus \/ WriteBegins \/ WriteEnds \/ KillBuild
  BY <1>8 DEF BuildCorpus, WriteBegins, WriteEnds, KillBuild, IngestInv, Whole
<1>9. CASE UNCHANGED bvars
  BY <1>9 DEF bvars, IngestInv, Whole
<1> QED BY <1>1, <1>2, <1>3, <1>4, <1>5, <1>6, <1>7, <1>8, <1>9 DEF BNext

(* What a run that ends writes down, the list being settled. *)
LEMMA ManifestStep ==
  ASSUME IngestInv, NamedOnce, NEW recited \in BOOLEAN, SaveManifest(recited), manifest' # manifest
  PROVE  /\ manifest.complete => manifest'.complete
         /\ manifest'.complete => DOMAIN manifest'.of = Sura
         /\ \A s \in DOMAIN manifest'.of : manifest'.of[s] \notin {"absent", "short"}
<1>1. /\ run.stage = "fetching" /\ run.todo = <<>> /\ Vouched(run.list)
      /\ manifest' = [complete |-> Whole(run.list), of |-> [s \in Range(run.list) |-> disk[s]]]
  BY DEF SaveManifest
<1>2. manifest'.complete = Whole(run.list) /\ manifest'.of = [s \in Range(run.list) |-> disk[s]]
  BY <1>1
<1>3. run.todo \notin Opening
  BY <1>1 DEF Opening
<1>4. manifest.complete => manifest'.complete
  BY <1>1, <1>2, <1>3 DEF IngestInv
<1>5. ASSUME manifest'.complete PROVE DOMAIN manifest'.of = Sura
  BY <1>1, <1>2, <1>5, WholeIsAll DEF IngestInv
<1>6. ASSUME NEW s \in DOMAIN manifest'.of PROVE manifest'.of[s] \notin {"absent", "short"}
  <2>1. s \in Range(run.list) /\ manifest'.of[s] = disk[s]
    BY <1>2, <1>6
  <2>2. TextOf(s, disk[s]) > 0
    BY <1>1, <2>1 DEF Vouched
  <2> QED BY <2>1, <2>2 DEF TextOf
<1> QED BY <1>4, <1>5, <1>6

(* main.go: where no list names a sura twice, a complete manifest is only    *)
(* ever replaced by a complete one, complete is of all the suras, and no    *)
(* manifest vouches for a sura cut at a page.                                *)
THEOREM CompleteManifestStands == NamedOnce => (BSpec => CompleteStands)
<1> SUFFICES ASSUME NamedOnce PROVE BSpec => CompleteStands
  OBVIOUS
<1>1. BInit => IngestInv
  BY DEF BInit, Idle, IngestInv
<1>2. IngestInv /\ [BNext]_bvars => IngestInv'
  BY IngestStep
<1>3. IngestInv /\ [BNext]_bvars =>
        [manifest' # manifest =>
          /\ manifest.complete => manifest'.complete
          /\ manifest'.complete => DOMAIN manifest'.of = Sura
          /\ \A s \in DOMAIN manifest'.of : manifest'.of[s] \notin {"absent", "short"}]_bvars
  <2> SUFFICES ASSUME IngestInv, BNext, manifest' # manifest
               PROVE  /\ manifest.complete => manifest'.complete
                      /\ manifest'.complete => DOMAIN manifest'.of = Sura
                      /\ \A s \in DOMAIN manifest'.of : manifest'.of[s] \notin {"absent", "short"}
    BY DEF bvars
  <2>1. PICK recited \in BOOLEAN : SaveManifest(recited)
    BY DEF BNext, BeginRun, Skip, Retry, WritePart, Rename, KillIngest, BuildCorpus, WriteBegins,
           WriteEnds, KillBuild
  <2> QED BY <2>1, ManifestStep
<1> QED BY <1>1, <1>2, <1>3, PTL DEF BSpec, CompleteStands

-----------------------------------------------------------------------------
(* The ETL.  The loader counts words and does not ask which they are; that  *)
(* every word has parsing makes the words of a sura a part of the words the *)
(* morphology has of it, and that they are as many makes them all of them.  *)
(* A segment's place in its word is its number, by the loader's refusal of  *)
(* any other order.                                                         *)

\* What ParsingIsTheWordsOwn says of the words of a corpus, and of one of them.
WordIsOwn(lines, s, w, word) ==
    LET segs == Located(lines, s, w)
    IN  /\ DOMAIN word.irab = {lines[i].seg : i \in segs}
        /\ \A i \in segs : word.irab[lines[i].seg] = lines[i].role
        /\ word.root # "" => \E i \in segs :
              lines[i].root = word.root /\ lines[i].lemma = word.lemma /\ word.lemma # ""
Parsed(lines, words) ==
    \A s \in Sura : /\ DOMAIN words[s] = WordsOf(lines, s)
                    /\ \A w \in DOMAIN words[s] : WordIsOwn(lines, s, w, words[s][w])

EtlInv ==
    /\ morphology \in Seq(Segments)
    /\ build.stage # "idle" => Parsed(morphology, build.words)
    /\ db.words # <<>> => Parsed(morphology, db.words)

(* The lines of a sequence are finitely many. *)
LEMMA LinesAreFinite ==
  ASSUME NEW S, NEW lines \in Seq(S)
  PROVE  IsFiniteSet(DOMAIN lines) /\ DOMAIN lines \subseteq Nat
<1>1. Len(lines) \in Nat /\ DOMAIN lines = 1 .. Len(lines)
  BY LenProperties
<1> QED BY <1>1, UpTo

(* Where a line comes among the segments of its word: each at a place of its *)
(* own, and the places are the first numbers.                                *)
LEMMA PlacesAreNumbers ==
  ASSUME NEW segs, IsFiniteSet(segs), segs \subseteq Nat
  PROVE  /\ Cardinality(segs) \in Nat
         /\ \A i \in segs : Standing(segs, i) \in 1 .. Cardinality(segs)
         /\ \A i, j \in segs : i < j => Standing(segs, i) < Standing(segs, j)
         /\ \A i, j \in segs : Standing(segs, i) = Standing(segs, j) => i = j
         /\ \A k \in 1 .. Cardinality(segs) : \E i \in segs : Standing(segs, i) = k
<1> DEFINE n == Cardinality(segs)
           upTo(i) == {j \in segs : j <= i}
<1>1. n \in Nat
  BY FS_CardinalityType
<1>2. ASSUME NEW i \in segs
      PROVE  IsFiniteSet(upTo(i)) /\ Standing(segs, i) = Cardinality(upTo(i)) /\ Standing(segs, i) \in 1 .. n
  <2>1. IsFiniteSet(upTo(i)) /\ Cardinality(upTo(i)) <= n /\ Cardinality(upTo(i)) \in Nat
    <3>1. upTo(i) \in SUBSET segs
      OBVIOUS
    <3>2. IsFiniteSet(upTo(i)) /\ Cardinality(upTo(i)) <= n
      BY <3>1, FS_Subset
    <3> QED BY <3>2, FS_CardinalityType
  <2>2. i \in upTo(i)
    OBVIOUS
  <2>3. Cardinality(upTo(i)) # 0
    BY <2>1, <2>2, FS_EmptySet
  <2> QED BY <1>1, <2>1, <2>3 DEF Standing
<1>3. ASSUME NEW i \in segs, NEW j \in segs, i < j PROVE Standing(segs, i) < Standing(segs, j)
  <2>1. upTo(i) \in SUBSET upTo(j) /\ j \in upTo(j) /\ j \notin upTo(i)
    <3>1. i \in Nat /\ j \in Nat /\ \A x \in segs : x \in Nat
      OBVIOUS
    <3>2. ASSUME NEW x \in segs, x <= i PROVE x <= j
      BY <1>3, <3>1, <3>2
    <3>3. ~(j <= i) /\ j <= j
      BY <1>3, <3>1
    <3> QED BY <3>2, <3>3
  <2>2. Cardinality(upTo(i)) <= Cardinality(upTo(j))
        /\ (Cardinality(upTo(i)) = Cardinality(upTo(j)) => upTo(i) = upTo(j))
    BY <1>2, <2>1, FS_Subset
  <2> QED BY <1>2, <2>1, <2>2
<1>4. ASSUME NEW i \in segs, NEW j \in segs, Standing(segs, i) = Standing(segs, j) PROVE i = j
  <2>1. \A k \in segs : Standing(segs, k) \in 1 .. n
    BY <1>2
  <2> HIDE DEF n
  <2>2. Standing(segs, i) \in Int /\ i \in Int /\ j \in Int
    BY <2>1
  <2>3. ~(i < j) /\ ~(j < i)
    BY <1>3, <1>4, <2>2
  <2> QED BY <2>2, <2>3
<1>5. ASSUME NEW k \in 1 .. n PROVE \E i \in segs : Standing(segs, i) = k
  <2> DEFINE f == [i \in segs |-> Standing(segs, i)]
  <2>1. f \in [segs -> 1 .. n]
    BY <1>2
  <2>2. f \in Injection(segs, 1 .. n)
    BY <1>4, <2>1 DEF Injection, IsInjective
  <2>3. f \in Surjection(segs, 1 .. n)
    BY <1>1, <2>2, UpTo, FS_Injection
  <2> QED BY <2>3 DEF Surjection
<1> QED BY <1>1, <1>2, <1>3, <1>4, <1>5

(* The first of them. *)
LEMMA FirstIsOne ==
  ASSUME NEW segs, IsFiniteSet(segs), segs \subseteq Nat, segs # {}
  PROVE  First(segs) \in segs
<1>1. /\ Cardinality(segs) \in Nat
      /\ \A i \in segs : Standing(segs, i) \in 1 .. Cardinality(segs)
      /\ \A i, j \in segs : i < j => Standing(segs, i) < Standing(segs, j)
      /\ \A k \in 1 .. Cardinality(segs) : \E i \in segs : Standing(segs, i) = k
  BY PlacesAreNumbers
<1>2. PICK i \in segs : Standing(segs, i) = 1
  <2>1. Cardinality(segs) # 0
    BY FS_EmptySet
  <2>2. 1 \in 1 .. Cardinality(segs)
    BY <1>1, <2>1
  <2> QED BY <1>1, <2>2
<1>3. ASSUME NEW j \in segs PROVE i <= j
  <2>1. i \in Int /\ j \in Int
    OBVIOUS
  <2>3. ~(Standing(segs, j) < 1)
    BY <1>1
  <2>4. ~(j < i)
    BY <1>1, <1>2, <2>3
  <2> QED BY <2>1, <2>4
<1> QED BY <1>3 DEF First

(* The roles of a word, by the numbers of its segments. *)
LEMMA RolesByNumber ==
  ASSUME NEW lines, NEW segs, IsFiniteSet(segs), segs \subseteq Nat,
         \A i \in segs : lines[i].seg = Standing(segs, i)
  PROVE  /\ DOMAIN Roles(lines, segs) = {lines[i].seg : i \in segs}
         /\ \A i \in segs : Roles(lines, segs)[lines[i].seg] = lines[i].role
<1> DEFINE at(k) == CHOOSE i \in segs : Standing(segs, i) = k
<1>1. DOMAIN Roles(lines, segs) = 1 .. Cardinality(segs)
  BY DEF Roles
<1>2. {lines[i].seg : i \in segs} = 1 .. Cardinality(segs)
  <2>1. {lines[i].seg : i \in segs} = {Standing(segs, i) : i \in segs}
    OBVIOUS
  <2>2. /\ \A i \in segs : Standing(segs, i) \in 1 .. Cardinality(segs)
        /\ \A k \in 1 .. Cardinality(segs) : \E i \in segs : Standing(segs, i) = k
    BY PlacesAreNumbers
  <2>3. {Standing(segs, i) : i \in segs} = 1 .. Cardinality(segs)
    BY <2>2
  <2> QED BY <2>1, <2>3
<1>3. ASSUME NEW i \in segs PROVE Roles(lines, segs)[lines[i].seg] = lines[i].role
  <2> DEFINE k == Standing(segs, i)
  <2>1. k \in 1 .. Cardinality(segs)
    BY PlacesAreNumbers
  <2>2. at(k) \in segs /\ Standing(segs, at(k)) = k
    OBVIOUS
  <2>3. at(k) = i
    BY <2>2, PlacesAreNumbers
  <2>4. Roles(lines, segs)[k] = lines[at(k)].role
    BY <2>1 DEF Roles
  <2> QED BY <2>3, <2>4
<1> QED BY <1>1, <1>2, <1>3

(* The roles a word is given are the roles its own lines give it. *)
LEMMA MorphIrab == ASSUME NEW lines, NEW segs PROVE WordMorph(lines, segs).irab = Roles(lines, segs)
  BY DEF WordMorph

(* The root and the lemma of a word are of its first rooted segment. *)
LEMMA RootOfOne ==
  ASSUME NEW lines, NEW segs, IsFiniteSet(segs), segs \subseteq Nat, WordMorph(lines, segs).root # ""
  PROVE  \E i \in segs : /\ lines[i].root = WordMorph(lines, segs).root
                         /\ lines[i].lemma = WordMorph(lines, segs).lemma
<1> DEFINE rooted == Rooted(lines, segs)
<1>1. rooted # {} /\ WordMorph(lines, segs).root = lines[First(rooted)].root
      /\ WordMorph(lines, segs).lemma = lines[First(rooted)].lemma
  BY DEF WordMorph
<1>2. rooted \in SUBSET segs /\ rooted \subseteq Nat
  BY DEF Rooted
<1>3. First(rooted) \in rooted
  BY <1>1, <1>2, FS_Subset, FirstIsOne
<1> QED BY <1>1, <1>2, <1>3

(* What the gate lets by is parsed from the morphology. *)
LEMMA BuiltIsParsed ==
  ASSUME morphology \in Seq(Segments), Loads, NEW words, words = [s \in Sura |-> Load(s)], Check(words)
  PROVE  Parsed(morphology, words)
<1> SUFFICES ASSUME NEW s \in Sura
             PROVE  /\ DOMAIN words[s] = WordsOf(morphology, s)
                    /\ \A w \in DOMAIN words[s] : WordIsOwn(morphology, s, w, words[s][w])
  BY DEF Parsed
<1> DEFINE n == TextOf(s, disk[s])
           own == WordsOf(morphology, s)
           segs(w) == Located(morphology, s, w)
<1>1. n \in Nat
  BY CorpusAssumption DEF TextOf, Sura
<1>2. DOMAIN words[s] = 1 .. n /\ \A w \in 1 .. n : words[s][w] = WordMorph(morphology, segs(w))
  BY DEF Load
<1>3. IsFiniteSet(DOMAIN morphology) /\ DOMAIN morphology \subseteq Nat
  BY LinesAreFinite
<1>4. ASSUME NEW w PROVE IsFiniteSet(segs(w)) /\ segs(w) \subseteq Nat
  <2>1. segs(w) \in SUBSET DOMAIN morphology
    BY DEF Located
  <2> QED BY <1>3, <2>1, FS_Subset
<1>5. n # 0
  <2>1. words[s] # <<>>
    BY DEF Check
  <2> QED BY <1>2, <2>1
<1>6. ASSUME NEW w \in 1 .. n PROVE w \in own
  <2>1. words[s][w].irab # <<>>
    BY <1>2 DEF Check, CheckIrab
  <2>2. words[s][w].irab = Roles(morphology, segs(w))
    BY <1>2, MorphIrab
  <2>3. segs(w) # {}
    <3> SUFFICES ASSUME segs(w) = {} PROVE FALSE
      OBVIOUS
    <3>1. Cardinality(segs(w)) = 0
      BY FS_EmptySet
    <3>2. Roles(morphology, segs(w)) = <<>>
      BY <3>1 DEF Roles
    <3> QED BY <2>1, <2>2, <3>2
  <2> QED BY <2>3 DEF Located, WordsOf
<1>7. IsFiniteSet(own)
  <2> DEFINE lines == {j \in DOMAIN morphology : morphology[j].sura = s}
             f == [i \in lines |-> morphology[i].word]
  <2>1. IsFiniteSet(lines)
    BY <1>3, FS_Subset
  <2>2. f \in Surjection(lines, own)
    BY DEF Surjection, WordsOf
  <2> QED BY <2>1, <2>2, FS_Surjection
<1>8. 1 .. n = own
  <2>1. own # {}
    BY <1>1, <1>5, <1>6
  <2>2. Cardinality(own) # 0
    BY <1>7, <2>1, FS_EmptySet
  <2>3. Cardinality(own) = n
    BY <1>1, <1>5, <2>2 DEF Loads
  <2>4. 1 .. n \in SUBSET own
    BY <1>6
  <2> QED BY <1>1, <1>7, <2>3, <2>4, UpTo, FS_Subset
<1>9. ASSUME NEW w \in 1 .. n PROVE WordIsOwn(morphology, s, w, words[s][w])
  <2> DEFINE word == words[s][w]
  <2>1. word = WordMorph(morphology, segs(w)) /\ word.irab = Roles(morphology, segs(w))
    BY <1>2, MorphIrab
  <2>2. \A i \in segs(w) : morphology[i].seg = Standing(segs(w), i)
    BY <1>6 DEF Loads
  <2>3. /\ DOMAIN word.irab = {morphology[i].seg : i \in segs(w)}
        /\ \A i \in segs(w) : word.irab[morphology[i].seg] = morphology[i].role
    <3>1. IsFiniteSet(segs(w)) /\ segs(w) \subseteq Nat
      BY <1>4
    <3> HIDE DEF segs, word
    <3>2. /\ DOMAIN Roles(morphology, segs(w)) = {morphology[i].seg : i \in segs(w)}
          /\ \A i \in segs(w) : Roles(morphology, segs(w))[morphology[i].seg] = morphology[i].role
      BY <2>2, <3>1, RolesByNumber
    <3> QED BY <2>1, <3>2
  <2>4. word.root # "" => word.lemma # ""
    BY <1>2 DEF Check, CheckLemmas
  <2>5. word.root # "" => \E i \in segs(w) : morphology[i].root = word.root /\ morphology[i].lemma = word.lemma
    BY <1>4, <2>1, RootOfOne
  <2> QED BY <2>3, <2>4, <2>5 DEF WordIsOwn
<1> QED BY <1>2, <1>8, <1>9

(* build/: every corpus.db that was written out is parsed from the          *)
(* morphology, through kills of the ETL and whatever the ingest did before. *)
THEOREM WordsCarryTheirParsing == BSpec => []ParsingIsTheWordsOwn
<1>1. BInit => EtlInv
  BY CorpusAssumption DEF BInit, EtlInv, Resting, NoDb
<1>2. EtlInv /\ [BNext]_bvars => EtlInv'
  <2> SUFFICES ASSUME EtlInv, [BNext]_bvars PROVE EtlInv'
    OBVIOUS
  <2>1. CASE BuildCorpus
    <3> DEFINE words == [s \in Sura |-> Load(s)]
    <3>1. Loads /\ Check(words) /\ build' = [stage |-> "checked", words |-> words] /\ UNCHANGED <<db, morphology>>
      BY <2>1 DEF BuildCorpus
    <3>2. Parsed(morphology, words)
      BY <3>1, BuiltIsParsed DEF EtlInv
    <3> HIDE DEF words
    <3>3. build'.words = words
      BY <3>1
    <3> QED BY <3>1, <3>2, <3>3 DEF EtlInv
  <2>2. CASE WriteBegins
    <3>1. build.stage = "checked" /\ db'.words = <<>> /\ build'.words = build.words /\ morphology' = morphology
      BY <2>2 DEF WriteBegins, Torn
    <3> QED BY <3>1 DEF EtlInv
  <2>3. CASE WriteEnds
    <3>1. build.stage = "writing" /\ db'.words = build.words /\ build'.stage = "idle" /\ morphology' = morphology
      BY <2>3 DEF WriteEnds, Resting
    <3> QED BY <3>1 DEF EtlInv
  <2>4. CASE KillBuild
    <3>1. db' = db /\ build'.stage = "idle" /\ morphology' = morphology
      BY <2>4 DEF KillBuild, Resting
    <3> QED BY <3>1 DEF EtlInv
  <2>5. CASE UNCHANGED <<morphology, build, db>>
    BY <2>5 DEF EtlInv
  <2> QED BY <2>1, <2>2, <2>3, <2>4, <2>5 DEF BNext, bvars, BeginRun, Skip, Retry, WritePart, Rename,
             SaveManifest, KillIngest
<1>3. EtlInv => ParsingIsTheWordsOwn
  BY DEF EtlInv, ParsingIsTheWordsOwn, Parsed, WordIsOwn
<1> QED BY <1>1, <1>2, <1>3, PTL DEF BSpec

-----------------------------------------------------------------------------
(* The senses.  A row is a twin of itself, so a row with a single twin      *)
(* shares its prose with no other that is read; and what the report reads   *)
(* is what the builder reads but for the roots with space around them.      *)

SenseInv ==
    /\ ordered \in Seq(Range(ordered)) /\ file \in Seq(Range(file))
    /\ sstage \in {"built", "costed"} => bundle = Build(corpus, ordered, Bar(corpus))
    /\ sstage = "costed" => cost = Cost(corpus, ordered, Bar(corpus))

(* A function on the first numbers is a sequence of its values. *)
LEMMA IsOverItsRange ==
  ASSUME NEW n \in Nat, NEW f, f = [i \in 1 .. n |-> f[i]]
  PROVE  f \in Seq(Range(f))
<1>1. f \in [1 .. n -> Range(f)]
  BY DEF Range
<1> QED BY <1>1

(* What the steps of the command leave true. *)
LEMMA SenseStep == ASSUME SenseInv, [SNext]_svars PROVE SenseInv'
<1>1. CASE Order
  <2>1. /\ ordered' = [i \in DOMAIN file |-> OrderRow(corpus, file[i])]
        /\ sstage' = "ordered" /\ file' = file
    BY <1>1 DEF Order
  <2>2. Len(file) \in Nat /\ DOMAIN file = 1 .. Len(file)
    BY LenProperties DEF SenseInv
  <2>3. ordered' = [i \in 1 .. Len(file) |-> ordered'[i]]
    BY <2>1, <2>2
  <2>4. ordered' \in Seq(Range(ordered'))
    BY <2>2, <2>3, IsOverItsRange
  <2> QED BY <2>1, <2>4 DEF SenseInv
<1>2. CASE BuildBundle
  <2>1. /\ bundle' = Build(corpus, ordered, Bar(corpus)) /\ sstage' = "built"
        /\ corpus' = corpus /\ ordered' = ordered /\ file' = file
    BY <1>2 DEF BuildBundle
  <2> QED BY <2>1 DEF SenseInv
<1>3. CASE ReportCost
  <2>1. /\ cost' = Cost(corpus, ordered, Bar(corpus)) /\ sstage = "built" /\ sstage' = "costed"
        /\ bundle' = bundle /\ corpus' = corpus /\ ordered' = ordered /\ file' = file
    BY <1>3 DEF ReportCost
  <2> QED BY <2>1 DEF SenseInv
<1>4. CASE UNCHANGED svars
  BY <1>4 DEF svars, SenseInv
<1> QED BY <1>1, <1>2, <1>3, <1>4 DEF SNext

(* It holds of every reachable state. *)
LEMMA SenseHolds == SSpec => []SenseInv
<1>1. SInit => SenseInv
  BY SenseAssumption DEF SInit, SenseInv
<1>2. SenseInv /\ [SNext]_svars => SenseInv'
  BY SenseStep
<1> QED BY <1>1, <1>2, PTL DEF SSpec

(* A set of one or none has no two members. *)
LEMMA OneOrNone ==
  ASSUME NEW S, IsFiniteSet(S), NEW i \in S
  PROVE  Cardinality(S) <= 1 <=> S = {i}
<1>1. Cardinality(S) \in Nat /\ Cardinality({i}) = 1 /\ IsFiniteSet({i})
  BY FS_CardinalityType, FS_Singleton
<1>2. {i} \in SUBSET S
  OBVIOUS
<1>3. 1 <= Cardinality(S) /\ (Cardinality(S) = 1 => S = {i})
  BY <1>1, <1>2, FS_Subset
<1> QED BY <1>1, <1>3

(* Of the rows a command reads, the twins of a row that clears every term of *)
(* its own root are itself alone, or there are two of them.                 *)
LEMMA TwinsAreCounted ==
  ASSUME NEW ev, NEW rows, rows \in Seq(Range(rows)), NEW read \in SUBSET DOMAIN rows, NEW i \in read, NEW bar,
         Verified(Verdict(ev, rows[i].root, rows[i].en), bar)
  PROVE  Cardinality(Twins(ev, rows, read, i, bar)) <= 1 <=> Twins(ev, rows, read, i, bar) = {i}
<1>1. Len(rows) \in Nat /\ DOMAIN rows = 1 .. Len(rows)
  BY LenProperties
<1>2. IsFiniteSet(DOMAIN rows)
  BY <1>1, UpTo
<1> DEFINE twins == Twins(ev, rows, read, i, bar)
<1>3. twins \in SUBSET DOMAIN rows /\ i \in twins
  BY DEF Twins
<1> HIDE DEF twins
<1>4. IsFiniteSet(twins)
  BY <1>2, <1>3, FS_Subset
<1> QED BY <1>3, <1>4, OneOrNone DEF twins

(* build.go, cost.go: the report and the bundle read the file in two ways,  *)
(* and for every corpus, file and calibration they part over nothing but a  *)
(* root with space around it, a row with no French and a row of one column. *)
THEOREM ReportAndBundleAgree == SSpec => []CostIsWhatShips
<1>1. SenseInv => CostIsWhatShips
  <2> SUFFICES ASSUME SenseInv, sstage = "costed"
               PROVE  IF Refused(ordered) THEN bundle = {}
                      ELSE /\ \A i \in bundle : i \in cost.shippable <=> ~ordered[i].padded
                           /\ \A i \in cost.shippable \ bundle :
                                 \/ ordered[i].fr = <<>>
                                 \/ \E j \in DOMAIN ordered :
                                      /\ ordered[j].padded /\ FoundTrimmed(ordered[j])
                                      /\ Content(ordered[j].en) = Content(ordered[i].en)
    BY DEF CostIsWhatShips
  <2> DEFINE bar == Bar(corpus)
             T == ReadTrimmed(ordered)
             C == ReadAsItStands(ordered)
             v(i) == Verified(Verdict(corpus, ordered[i].root, ordered[i].en), bar)
             twins(read, i) == Twins(corpus, ordered, read, i, bar)
             rare(i) == OtherRootsVerified(corpus, ordered[i].root, ordered[i].en, bar)
                           <= SpecificityBar(corpus, bar)
  <2>1. bundle = {i \in T : ~Refused(ordered) /\ v(i) /\ Cardinality(twins(T, i)) <= 1 /\ rare(i) /\ ordered[i].fr # <<>>}
    BY DEF SenseInv, Build
  <2>2. cost.shippable = {i \in C : v(i) /\ Cardinality(twins(C, i)) <= 1 /\ rare(i)}
    <3> DEFINE w(i) == Verdict(corpus, ordered[i].root, ordered[i].en)
               few(i) == Cardinality(twins(C, i)) <= 1
    <3>1. cost = Cost(corpus, ordered, bar)
      BY DEF SenseInv
    <3>2. cost.shippable = {i \in C : BorneOut(w(i), bar) /\ Unordered(w(i), bar) /\ w(i).leads /\ few(i) /\ rare(i)}
      BY <3>1 DEF Cost
    <3>3. \A i : v(i) <=> BorneOut(w(i), bar) /\ Unordered(w(i), bar) /\ w(i).leads
      BY DEF Verified, Unordered
    <3> HIDE DEF bar, C, v, w, few, rare
    <3>4. cost.shippable = {i \in C : v(i) /\ few(i) /\ rare(i)}
      BY <3>2, <3>3
    <3> QED BY <3>4 DEF few
  <2>3. T \in SUBSET DOMAIN ordered /\ C = {i \in T : ~ordered[i].padded} /\ \A i \in T : FoundTrimmed(ordered[i])
    BY DEF ReadTrimmed, ReadAsItStands, FoundTrimmed, FoundAsItStands
  <2>4. /\ \A i : twins(C, i) = {j \in twins(T, i) : ~ordered[j].padded}
        /\ \A i : \A j \in twins(T, i) : j \in T /\ Content(ordered[j].en) = Content(ordered[i].en)
    <3> HIDE DEF T, C, bar
    <3> QED BY <2>3 DEF Twins
  <2>5. ordered \in Seq(Range(ordered))
    BY DEF SenseInv
  <2>6. ASSUME NEW i \in T, v(i) PROVE Cardinality(twins(T, i)) <= 1 <=> twins(T, i) = {i}
    <3> HIDE DEF T, bar
    <3> QED BY <2>3, <2>5, <2>6, TwinsAreCounted
  <2>7. ASSUME NEW i \in C, v(i) PROVE Cardinality(twins(C, i)) <= 1 <=> twins(C, i) = {i}
    <3>1. C \in SUBSET DOMAIN ordered
      BY <2>3
    <3> HIDE DEF C, bar
    <3> QED BY <2>5, <2>7, <3>1, TwinsAreCounted
  <2> HIDE DEF bar, T, C, v, twins, rare
  <2>8. ASSUME NEW i \in bundle PROVE i \in cost.shippable <=> ~ordered[i].padded
    <3>1. i \in T /\ v(i) /\ rare(i) /\ twins(T, i) = {i}
      BY <2>1, <2>6
    <3>2. ASSUME ~ordered[i].padded PROVE i \in cost.shippable
      <4>1. i \in C
        BY <2>3, <3>1, <3>2
      <4>2. twins(C, i) = {i}
        BY <2>4, <3>1, <3>2
      <4> QED BY <2>2, <2>7, <3>1, <4>1, <4>2
    <3>3. ASSUME i \in cost.shippable PROVE ~ordered[i].padded
      BY <2>2, <2>3, <3>3
    <3> QED BY <3>2, <3>3
  <2>9. ASSUME ~Refused(ordered), NEW i \in cost.shippable \ bundle, ordered[i].fr # <<>>
        PROVE  \E j \in DOMAIN ordered : /\ ordered[j].padded /\ FoundTrimmed(ordered[j])
                                          /\ Content(ordered[j].en) = Content(ordered[i].en)
    <3>1. i \in C /\ i \in T /\ v(i) /\ rare(i) /\ twins(C, i) = {i}
      BY <2>2, <2>3, <2>7
    <3>2. twins(T, i) # {i}
      BY <2>1, <2>6, <2>9, <3>1
    <3>3. PICK j \in twins(T, i) : j \notin twins(C, i)
      BY <2>4, <3>1, <3>2
    <3>4. ordered[j].padded /\ j \in T /\ Content(ordered[j].en) = Content(ordered[i].en)
      BY <2>4, <3>3
    <3> QED BY <2>3, <3>4
  <2>10. Refused(ordered) => bundle = {}
    BY <2>1
  <2> QED BY <2>8, <2>9, <2>10
<1> QED BY <1>1, SenseHolds, PTL

(* The greatest of finitely many numbers. *)
LEMMA HasGreatest ==
  ASSUME NEW S, IsFiniteSet(S), S \subseteq Nat, S # {}
  PROVE  \E i \in S : \A j \in S : j <= i
<1>1. /\ Cardinality(S) \in Nat
      /\ \A i \in S : Standing(S, i) \in 1 .. Cardinality(S)
      /\ \A i, j \in S : i < j => Standing(S, i) < Standing(S, j)
      /\ \A k \in 1 .. Cardinality(S) : \E i \in S : Standing(S, i) = k
  BY PlacesAreNumbers
<1>2. PICK i \in S : Standing(S, i) = Cardinality(S)
  <2>1. Cardinality(S) # 0
    BY FS_EmptySet
  <2>2. Cardinality(S) \in 1 .. Cardinality(S)
    BY <1>1, <2>1
  <2> QED BY <1>1, <2>2
<1>3. ASSUME NEW j \in S PROVE j <= i
  <2>1. i \in Int /\ j \in Int
    OBVIOUS
  <2>2. ~(Standing(S, i) < Standing(S, j))
    BY <1>1, <1>2
  <2>3. ~(i < j)
    BY <1>1, <2>2
  <2> QED BY <2>1, <2>3
<1> QED BY <1>3

(* The greatest of a set with a greatest element is one of its elements. *)
LEMMA MaxIsOne ==
  ASSUME NEW S, IsFiniteSet(S), S \subseteq Nat, S # {}
  PROVE  Max(S) \in S
<1>1. PICK i \in S : \A j \in S : j <= i
  BY HasGreatest
<1>2. \A j \in S : i >= j
  BY <1>1
<1> QED BY <1>2 DEF Max

(* Whether a sense is too common is a question about two numbers. *)
LEMMA OthersAreCounted ==
  ASSUME NEW ev, NEW own, NEW sense, NEW bar
  PROVE  OtherRootsVerified(ev, own, sense, bar) \in Nat
<1> DEFINE others == {r \in Roots \ {own} : Verified(Verdict(ev, r, sense), bar)}
<1>1. others \in SUBSET Roots
  OBVIOUS
<1>2. IsFiniteSet(others)
  BY <1>1, SenseAssumption, FS_Subset
<1> QED BY <1>2, FS_CardinalityType DEF OtherRootsVerified

(* The bar a sense must clear is a number. *)
LEMMA BarIsANumber ==
  ASSUME NEW ev, NEW bar
  PROVE  SpecificityBar(ev, bar) \in Nat
<1> DEFINE right == {d \in Range(Calibration) : d.right}
           f == [c \in right |-> OtherRootsVerified(ev, c.root, c.sense, bar)]
           fits == {OtherRootsVerified(ev, c.root, c.sense, bar) : c \in right}
<1>1. IsFiniteSet(right)
  <2>1. Len(Calibration) \in Nat /\ DOMAIN Calibration = 1 .. Len(Calibration)
    BY SenseAssumption, LenProperties
  <2>2. IsFiniteSet(DOMAIN Calibration)
    BY <2>1, UpTo
  <2>3. Calibration \in Surjection(DOMAIN Calibration, Range(Calibration))
    BY <2>1, SenseAssumption, LenProperties DEF Surjection, Range
  <2>4. IsFiniteSet(Range(Calibration))
    BY <2>2, <2>3, FS_Surjection
  <2>5. right \in SUBSET Range(Calibration)
    OBVIOUS
  <2> QED BY <2>4, <2>5, FS_Subset
<1>2. f \in Surjection(right, fits)
  BY DEF Surjection
<1>3. IsFiniteSet(fits)
  BY <1>1, <1>2, FS_Surjection
<1>4. IsFiniteSet(fits \cup {0})
  BY <1>3, FS_AddElement
<1>5. fits \subseteq Nat
  BY OthersAreCounted
<1>6. {0} \cup fits = fits \cup {0}
  OBVIOUS
<1> HIDE DEF fits
<1> DEFINE all == {0} \cup fits
<1>7. IsFiniteSet(all) /\ all \subseteq Nat /\ all # {}
  BY <1>4, <1>5, <1>6
<1> HIDE DEF all
<1>8. Max(all) \in Nat
  BY <1>7, MaxIsOne
<1> QED BY <1>8 DEF SpecificityBar, fits, all

(* build.go: one prose never ships for two roots, and a proposal that fails *)
(* a term of its own takes no other down with it.                           *)
THEOREM ProseIsShippedOnce == SSpec => []NoSharedProse
<1>1. SenseInv => NoSharedProse
  <2> SUFFICES ASSUME SenseInv, sstage \in {"built", "costed"}, NEW i \in DOMAIN ordered
               PROVE  LET v(j) == /\ FoundTrimmed(ordered[j])
                                  /\ Verified(Verdict(corpus, ordered[j].root, ordered[j].en), Bar(corpus))
                          alike == {j \in DOMAIN ordered \ {i} : Content(ordered[j].en) = Content(ordered[i].en)}
                          alone == ordered[i].fr # <<>> /\ v(i) /\ \A j \in alike : ~v(j)
                      IN  /\ i \in bundle => alone
                          /\ alone /\ i \notin bundle /\ ~Refused(ordered) =>
                                OtherRootsVerified(corpus, ordered[i].root, ordered[i].en, Bar(corpus))
                                    > SpecificityBar(corpus, Bar(corpus))
    BY DEF NoSharedProse
  <2> DEFINE bar == Bar(corpus)
             read == ReadTrimmed(ordered)
             w(j) == Verified(Verdict(corpus, ordered[j].root, ordered[j].en), bar)
             v(j) == FoundTrimmed(ordered[j]) /\ w(j)
             same(j) == Content(ordered[j].en) = Content(ordered[i].en)
             twins == Twins(corpus, ordered, read, i, bar)
             fits == OtherRootsVerified(corpus, ordered[i].root, ordered[i].en, bar)
             most == SpecificityBar(corpus, bar)
  <2>0. \A j \in DOMAIN ordered : j \in read <=> FoundTrimmed(ordered[j])
    BY DEF ReadTrimmed
  <2>1. i \in bundle <=> /\ FoundTrimmed(ordered[i]) /\ ~Refused(ordered) /\ w(i)
                         /\ Cardinality(twins) <= 1 /\ fits <= most /\ ordered[i].fr # <<>>
    <3> HIDE DEF bar, w, twins, fits, most, read
    <3>1. bundle = Build(corpus, ordered, bar)
      BY DEF SenseInv, bar
    <3>2. i \in Build(corpus, ordered, bar) <=>
             i \in read /\ ~Refused(ordered) /\ w(i) /\ Cardinality(twins) <= 1 /\ fits <= most /\ ordered[i].fr # <<>>
      BY DEF Build, w, twins, fits, most, read
    <3> QED BY <2>0, <3>1, <3>2
  <2>2. twins = {j \in DOMAIN ordered : same(j) /\ v(j)}
    BY DEF Twins, ReadTrimmed
  <2>3. v(i) => (Cardinality(twins) <= 1 <=> twins = {i})
    <3>1. ordered \in Seq(Range(ordered)) /\ read \in SUBSET DOMAIN ordered
      BY DEF SenseInv, ReadTrimmed
    <3> HIDE DEF bar, read
    <3> QED BY <2>0, <3>1, TwinsAreCounted
  <2>5. fits \in Nat /\ most \in Nat
    BY OthersAreCounted, BarIsANumber
  <2>6. ~(fits <= most) => fits > most
    BY <2>5
  <2> HIDE DEF bar, twins, fits, most, read, w
  <2>7. v(i) => (twins = {i} <=> \A j \in {k \in DOMAIN ordered \ {i} : same(k)} : ~v(j))
    BY <2>2
  <2> QED BY <2>1, <2>3, <2>6, <2>7 DEF bar, fits, most, w
<1> QED BY <1>1, SenseHolds, PTL

-----------------------------------------------------------------------------
(* The drafting.  The roots a run takes are settled when it begins, and     *)
(* from then on each of them is in one of four hands; a row makes its root  *)
(* done just when the root leaves the hands that may still be paid for.     *)

Name == Root \cup Strays
DraftRun == [stage : {"idle", "drafting"}, force : BOOLEAN, all : BOOLEAN, want : SUBSET Name, limit : Nat,
             todo : SUBSET Name, skipped : SUBSET Name, asked : SUBSET Name,
             did : SUBSET Name, fell : SUBSET Name, refused : SUBSET Name]
LogRow == [root : Root, plain : BOOLEAN]

\* All that a run took on, and what it left that no row answers.
Hands(d) == d.todo \cup d.asked \cup d.did \cup d.fell
Unmet(rows, d) == d.want \ (Hands(d) \cup d.skipped \cup Done(rows))

InOneHand(d) ==
    /\ d.todo \cap (d.asked \cup d.did \cup d.fell) = {}
    /\ d.asked \cap (d.did \cup d.fell) = {}
    /\ d.did \cap d.fell = {}
    /\ Hands(d) \cap d.skipped = {}
    /\ Hands(d) \cup d.skipped \subseteq d.want
Paid(rows, d) ==
    ~d.force => /\ d.did \cup d.skipped \subseteq Done(rows)
                /\ (d.todo \cup d.asked \cup d.fell) \cap Done(rows) = {}
UpToLimit(rows, d) ==
    /\ d.limit = 0 => d.want = Hands(d) \cup d.skipped
    /\ d.limit # 0 /\ Unmet(rows, d) # {} => Cardinality(Hands(d)) = d.limit
Rank(r) == CHOOSE i \in DOMAIN CorpusRoots : CorpusRoots[i] = r
CommonestFirst(rows, d) ==
    d.all /\ ~d.force => \A l \in Unmet(rows, d), t \in Hands(d) : Rank(t) < Rank(l)

DraftInv ==
    /\ log \in Seq(LogRow) /\ draft \in DraftRun
    /\ draft.asked # {} => draft.stage = "drafting"
    /\ draft.stage = "drafting" =>
         InOneHand(draft) /\ Paid(log, draft) /\ UpToLimit(log, draft) /\ CommonestFirst(log, draft)

(* A new row makes its root done, and no other. *)
LEMMA DoneWithRow ==
  ASSUME NEW rows \in Seq(LogRow), NEW row \in LogRow
  PROVE  Done(Append(rows, row)) = Done(rows) \cup {row.root}
<1> DEFINE more == Append(rows, row)
<1>1. Len(rows) \in Nat /\ DOMAIN rows = 1 .. Len(rows)
  BY LenProperties
<1>2. /\ DOMAIN more = 1 .. (Len(rows) + 1)
      /\ \A i \in 1 .. Len(rows) : more[i] = rows[i]
      /\ more[Len(rows) + 1] = row
  BY <1>1, AppendProperties
<1>3. Done(more) \subseteq Done(rows) \cup {row.root}
  BY <1>1, <1>2 DEF Done
<1>4. Done(rows) \cup {row.root} \subseteq Done(more)
  BY <1>1, <1>2 DEF Done
<1> QED BY <1>3, <1>4

(* A run is over a list of names, none twice. *)
LEMMA ListsAreOfNames ==
  ASSUME NEW only \in SUBSET (Root \cup Strays), NEW list \in Lists(only)
  PROVE  /\ Len(list) \in Nat /\ list \in [1 .. Len(list) -> Name] /\ IsInjective(list)
         /\ DOMAIN list = 1 .. Len(list)
         /\ only = {} => list = CorpusRoots
<1>1. CASE only = {}
  <2>1. list = CorpusRoots
    BY <1>1 DEF Lists
  <2>2. Len(list) \in Nat /\ list \in [1 .. Len(list) -> Root]
    BY <2>1, DraftAssumption, LenProperties DEF Root
  <2> QED BY <2>1, <2>2, DraftAssumption DEF Name
<1>2. CASE only # {}
  <2> DEFINE n == Cardinality(only)
  <2>1. IsFiniteSet(Root)
    <3>1. Len(CorpusRoots) \in Nat /\ CorpusRoots \in [1 .. Len(CorpusRoots) -> Root]
      BY DraftAssumption, LenProperties DEF Root
    <3>2. CorpusRoots \in Surjection(1 .. Len(CorpusRoots), Root)
      BY <3>1 DEF Surjection, Root, Range
    <3> QED BY <3>1, <3>2, UpTo, FS_Surjection
  <2>2. n \in Nat
    BY <2>1, DraftAssumption, FS_Union, FS_Subset, FS_CardinalityType
  <2>3. list \in [1 .. n -> only] /\ \A i, j \in 1 .. n : i # j => list[i] # list[j]
    BY <1>2 DEF Lists, SetToSeqs
  <2> HIDE DEF n
  <2>4. list \in Seq(only) /\ Len(list) = n
    BY <2>2, <2>3
  <2>5. IsInjective(list)
    BY <2>2, <2>3 DEF IsInjective
  <2>6. list \in [1 .. n -> Name] /\ DOMAIN list = 1 .. n
    BY <2>3 DEF Name
  <2> QED BY <1>2, <2>2, <2>4, <2>5, <2>6
<1> QED BY <1>1, <1>2

(* What a run settles to take on and to pass by, by the places of its list. *)
LEMMA TakenAndPassed ==
  ASSUME NEW only \in SUBSET (Root \cup Strays), NEW list \in Lists(only), NEW done, NEW limit \in Nat
  PROVE  /\ Taken(list, done, limit) \cap done = {}
         /\ Passed(list, done, limit) \subseteq done
         /\ Taken(list, done, limit) \cup Passed(list, done, limit) \subseteq Range(list)
         /\ limit = 0 => Range(list) = Taken(list, done, limit) \cup Passed(list, done, limit)
         /\ Range(list) \subseteq Name
<1>1. /\ Len(list) \in Nat /\ list \in [1 .. Len(list) -> Name]
      /\ DOMAIN list = 1 .. Len(list)
  BY ListsAreOfNames
<1>2. Taken(list, done, limit) \cap done = {} /\ Passed(list, done, limit) \subseteq done
  BY DEF Taken, Passed, NewAt, Reached
<1>3. Taken(list, done, limit) \cup Passed(list, done, limit) \subseteq Range(list)
  BY DEF Taken, Passed, NewAt, Reached, Range
<1>4. ASSUME limit = 0 PROVE Range(list) \subseteq Taken(list, done, limit) \cup Passed(list, done, limit)
  <2>1. Reached(list, done, limit) = DOMAIN list
    BY <1>4 DEF Reached
  <2> QED BY <2>1 DEF Taken, Passed, Range
<1>5. Range(list) \subseteq Name
  BY <1>1 DEF Range
<1> QED BY <1>2, <1>3, <1>4, <1>5

(* A new root the run does not come to: the run took as many as -limit, and *)
(* every one of them stands before it in the list.                          *)
LEMMA LeftBeyondLimit ==
  ASSUME NEW only \in SUBSET (Root \cup Strays), NEW list \in Lists(only), NEW done, NEW limit \in Nat,
         limit # 0, NEW i \in NewAt(list, done), list[i] \notin Taken(list, done, limit)
  PROVE  /\ Cardinality(Taken(list, done, limit)) = limit
         /\ \A t \in Taken(list, done, limit) : \E k \in DOMAIN list : list[k] = t /\ k < i
<1> DEFINE new == NewAt(list, done)
           within == {k \in new : Standing(new, k) <= limit}
<1>1. /\ Len(list) \in Nat /\ list \in [1 .. Len(list) -> Name]
      /\ DOMAIN list = 1 .. Len(list) /\ IsInjective(list)
  BY ListsAreOfNames
<1>2. IsFiniteSet(new) /\ new \subseteq Nat /\ new \subseteq DOMAIN list
  <2>1. new \in SUBSET (1 .. Len(list))
    BY <1>1 DEF NewAt
  <2> QED BY <1>1, <2>1, UpTo, FS_Subset
<1> HIDE DEF new
<1>3. /\ Cardinality(new) \in Nat
      /\ \A k \in new : Standing(new, k) \in 1 .. Cardinality(new)
      /\ \A k, m \in new : k < m => Standing(new, k) < Standing(new, m)
      /\ \A k, m \in new : Standing(new, k) = Standing(new, m) => k = m
      /\ \A k \in 1 .. Cardinality(new) : \E m \in new : Standing(new, m) = k
  BY <1>2, PlacesAreNumbers
<1>4. Taken(list, done, limit) = {list[k] : k \in within}
  BY <1>2 DEF Taken, Reached, Standing, new
<1>5. i \in new /\ Standing(new, i) > limit
  <2>1. i \in new
    BY DEF new
  <2>2. ~(Standing(new, i) <= limit)
    BY <1>4, <2>1
  <2> QED BY <1>3, <2>1, <2>2
<1>6. ASSUME NEW k \in within PROVE k < i
  <2>1. Standing(new, k) < Standing(new, i)
    BY <1>3, <1>5
  <2>2. k \in Int /\ i \in Int
    BY <1>2, <1>5
  <2>3. k # i /\ ~(i < k)
    BY <1>3, <1>5, <2>1
  <2> QED BY <2>2, <2>3
<1>7. Cardinality(within) = limit /\ IsFiniteSet(within)
  <2> DEFINE f == [k \in within |-> Standing(new, k)]
  <2>1. f \in [within -> 1 .. limit]
    BY <1>3
  <2>2. ASSUME NEW k \in 1 .. limit PROVE \E m \in within : f[m] = k
    <3>1. k \in 1 .. Cardinality(new)
      BY <1>3, <1>5
    <3> QED BY <1>3, <3>1
  <2>3. f \in Surjection(within, 1 .. limit)
    BY <2>1, <2>2 DEF Surjection
  <2>4. f \in Injection(within, 1 .. limit)
    BY <1>3, <2>1 DEF Injection, IsInjective
  <2>5. IsFiniteSet(1 .. limit) /\ Cardinality(1 .. limit) = limit
    BY UpTo
  <2> QED BY <2>3, <2>4, <2>5, FS_Injection
<1>8. Cardinality(Taken(list, done, limit)) = limit
  <2> DEFINE g == [k \in within |-> list[k]]
             T == Taken(list, done, limit)
  <2>1. g \in Surjection(within, T)
    BY <1>4 DEF Surjection
  <2>2. g \in Injection(within, T)
    BY <1>1, <1>2, <1>4 DEF Injection, IsInjective
  <2>3. IsFiniteSet(T)
    BY <1>7, <2>1, FS_Surjection
  <2> HIDE DEF g, T
  <2>4. Cardinality(T) = Cardinality(within)
    BY <2>1, <2>2, <2>3, FS_Injection
  <2> QED BY <1>7, <2>4 DEF T
<1> QED BY <1>2, <1>4, <1>6, <1>8

(* What holds of a run that has just settled its list. *)
LEMMA BegunKeeps ==
  ASSUME DraftInv, NEW only \in SUBSET (Root \cup Strays), NEW limit \in Limits, NEW force \in BOOLEAN,
         Begin(only, limit, force)
  PROVE  DraftInv'
<1>1. PICK list \in Lists(only) :
        draft' = Drafting(force, only = {}, Range(list), limit,
                          Taken(list, IF force THEN {} ELSE Done(log), limit),
                          Passed(list, IF force THEN {} ELSE Done(log), limit))
  BY DEF Begin
<1> DEFINE done == IF force THEN {} ELSE Done(log)
           T == Taken(list, done, limit)
           P == Passed(list, done, limit)
<1>2. limit \in Nat /\ log' = log /\ log \in Seq(LogRow)
  BY DraftAssumption DEF DraftInv, Begin
<1>3. /\ T \cap done = {} /\ P \subseteq done /\ T \cup P \subseteq Range(list)
      /\ limit = 0 => Range(list) = T \cup P
      /\ Range(list) \subseteq Name
  BY <1>2, TakenAndPassed
<1>4. ASSUME NEW l \in Range(list), l \notin T, l \notin P, l \notin done
      PROVE  \E i \in NewAt(list, done) : list[i] = l
  <2> HIDE DEF done
  <2>1. PICK i \in DOMAIN list : list[i] = l
    BY DEF Range
  <2> QED BY <1>4, <2>1 DEF NewAt
<1>5. ASSUME limit # 0, NEW i \in NewAt(list, done), list[i] \notin T
      PROVE  /\ Cardinality(T) = limit
             /\ \A t \in T : \E k \in DOMAIN list : list[k] = t /\ k < i
  BY <1>2, <1>5, LeftBeyondLimit
<1>6. /\ draft'.stage = "drafting" /\ draft'.force = force /\ draft'.all = (only = {})
      /\ draft'.want = Range(list) /\ draft'.limit = limit /\ draft'.todo = T /\ draft'.skipped = P
      /\ draft'.asked = {} /\ draft'.did = {} /\ draft'.fell = {}
  BY <1>1 DEF Drafting
<1>7. NewAt(list, done) \subseteq DOMAIN list
  BY DEF NewAt
<1>8. ~force => done = Done(log)
  OBVIOUS
<1>9. done \subseteq Done(log)
  OBVIOUS
<1> HIDE DEF done, T, P
<1>10. draft' \in DraftRun
  <2>1. T \in SUBSET Name /\ P \in SUBSET Name /\ Range(list) \in SUBSET Name
    BY <1>3
  <2> QED BY <1>1, <1>2, <2>1 DEF Drafting, DraftRun, T, P, done
<1>11. Hands(draft)' = T
  BY <1>6 DEF Hands
<1>12. InOneHand(draft)'
  BY <1>3, <1>6, <1>11 DEF InOneHand
<1>13. Paid(log, draft)'
  BY <1>2, <1>3, <1>6, <1>8 DEF Paid
<1>14. ASSUME NEW l \in Unmet(log, draft)' PROVE l \in Range(list) /\ l \notin T /\ l \notin P /\ l \notin done
  BY <1>2, <1>6, <1>9, <1>11 DEF Unmet
<1>15. UpToLimit(log, draft)'
  <2>1. ASSUME limit # 0, NEW l \in Unmet(log, draft)' PROVE Cardinality(T) = limit
    BY <1>4, <1>5, <1>14, <2>1
  <2> QED BY <1>3, <1>6, <1>11, <2>1 DEF UpToLimit
<1>16. CommonestFirst(log, draft)'
  <2> SUFFICES ASSUME only = {}, ~force, NEW l \in Unmet(log, draft)', NEW t \in T
               PROVE  Rank(t) < Rank(l)
    BY <1>6, <1>11 DEF CommonestFirst
  <2>1. PICK i \in NewAt(list, done) : list[i] = l
    BY <1>4, <1>14
  <2>2. limit # 0
    BY <1>3, <1>14
  <2>3. PICK k \in DOMAIN list : list[k] = t /\ k < i
    BY <1>5, <1>14, <2>1, <2>2
  <2>4. list = CorpusRoots /\ i \in DOMAIN CorpusRoots
    BY <1>7, ListsAreOfNames
  <2>5. Rank(t) = k
    BY <2>3, <2>4, DraftAssumption DEF Rank, IsInjective
  <2>6. Rank(l) = i
    BY <2>1, <2>4, DraftAssumption DEF Rank, IsInjective
  <2> QED BY <2>3, <2>5, <2>6
<1> QED BY <1>2, <1>6, <1>10, <1>12, <1>13, <1>15, <1>16 DEF DraftInv

(* A root changes hands: what was taken on stays what it was. *)
LEMMA HandsHold ==
  ASSUME NEW rows, NEW d, NEW e, NEW more, Hands(e) = Hands(d),
         e.want = d.want, e.limit = d.limit, e.skipped = d.skipped, e.all = d.all, e.force = d.force,
         Done(rows) \subseteq Done(more), UpToLimit(rows, d), CommonestFirst(rows, d)
  PROVE  UpToLimit(more, e) /\ CommonestFirst(more, e)
<1>1. Unmet(more, e) \subseteq Unmet(rows, d)
  BY DEF Unmet
<1>2. UpToLimit(more, e)
  BY <1>1 DEF UpToLimit
<1>3. CommonestFirst(more, e)
  BY <1>1 DEF CommonestFirst
<1> QED BY <1>2, <1>3

(* The steps of a run under way, by the hands a root leaves and comes to. *)
LEMMA AskKeeps ==
  ASSUME DraftInv, NEW r \in Root \cup Strays, Ask(r) PROVE DraftInv'
<1>1. /\ log' = log /\ draft.stage = "drafting" /\ r \in draft.todo /\ draft \in DraftRun
      /\ log \in Seq(LogRow)
      /\ InOneHand(draft) /\ Paid(log, draft) /\ UpToLimit(log, draft) /\ CommonestFirst(log, draft)
  BY DEF DraftInv, Ask
<1>2. CASE HasSubject(r)
  <2>1. draft' = [draft EXCEPT !.todo = @ \ {r}, !.asked = @ \cup {r}]
    BY <1>2 DEF Ask
  <2>2. /\ draft'.stage = draft.stage /\ draft'.force = draft.force /\ draft'.all = draft.all
        /\ draft'.want = draft.want /\ draft'.limit = draft.limit /\ draft'.skipped = draft.skipped
        /\ draft'.todo = draft.todo \ {r} /\ draft'.asked = draft.asked \cup {r}
        /\ draft'.did = draft.did /\ draft'.fell = draft.fell
    BY <1>1, <2>1 DEF DraftRun
  <2>3. draft' \in DraftRun
    BY <1>1, <2>1 DEF DraftRun, Name
  <2>4. Hands(draft)' = Hands(draft)
    BY <1>1, <2>2 DEF Hands
  <2>5. InOneHand(draft)'
    BY <1>1, <2>2, <2>4 DEF InOneHand
  <2>6. Paid(log, draft)'
    BY <1>1, <2>2 DEF Paid
  <2>7. UpToLimit(log, draft)' /\ CommonestFirst(log, draft)'
    BY <1>1, <2>2, <2>4, HandsHold
  <2> QED BY <1>1, <2>2, <2>3, <2>5, <2>6, <2>7 DEF DraftInv
<1>3. CASE ~HasSubject(r)
  <2>1. draft' = [draft EXCEPT !.todo = @ \ {r}, !.fell = @ \cup {r}, !.refused = @ \cup {r}]
    BY <1>3 DEF Ask
  <2>2. /\ draft'.stage = draft.stage /\ draft'.force = draft.force /\ draft'.all = draft.all
        /\ draft'.want = draft.want /\ draft'.limit = draft.limit /\ draft'.skipped = draft.skipped
        /\ draft'.todo = draft.todo \ {r} /\ draft'.asked = draft.asked
        /\ draft'.did = draft.did /\ draft'.fell = draft.fell \cup {r}
    BY <1>1, <2>1 DEF DraftRun
  <2>3. draft' \in DraftRun
    BY <1>1, <2>1 DEF DraftRun, Name
  <2>4. Hands(draft)' = Hands(draft)
    BY <1>1, <2>2 DEF Hands
  <2>5. InOneHand(draft)'
    BY <1>1, <2>2, <2>4 DEF InOneHand
  <2>6. Paid(log, draft)'
    BY <1>1, <2>2 DEF Paid
  <2>7. UpToLimit(log, draft)' /\ CommonestFirst(log, draft)'
    BY <1>1, <2>2, <2>4, HandsHold
  <2> QED BY <1>1, <2>2, <2>3, <2>5, <2>6, <2>7 DEF DraftInv
<1> QED BY <1>2, <1>3

(* A root that gets its row leaves the invariant as it was. *)
LEMMA RowKeeps ==
  ASSUME DraftInv, NEW r \in Root, NEW plain \in BOOLEAN, draft.stage = "drafting", Row(r, plain)
  PROVE  DraftInv'
<1>1. /\ r \in draft.asked /\ draft \in DraftRun /\ log \in Seq(LogRow)
      /\ InOneHand(draft) /\ Paid(log, draft) /\ UpToLimit(log, draft) /\ CommonestFirst(log, draft)
      /\ draft' = [draft EXCEPT !.asked = @ \ {r}, !.did = @ \cup {r}]
      /\ log' = Append(log, [root |-> r, plain |-> plain])
  BY DEF DraftInv, Row
<1>2. [root |-> r, plain |-> plain] \in LogRow
  BY DEF LogRow
<1>3. log' \in Seq(LogRow) /\ Done(log)' = Done(log) \cup {r}
  BY <1>1, <1>2, DoneWithRow, AppendProperties
<1>4. /\ draft'.stage = draft.stage /\ draft'.force = draft.force /\ draft'.all = draft.all
      /\ draft'.want = draft.want /\ draft'.limit = draft.limit /\ draft'.skipped = draft.skipped
      /\ draft'.todo = draft.todo /\ draft'.asked = draft.asked \ {r}
      /\ draft'.did = draft.did \cup {r} /\ draft'.fell = draft.fell
  BY <1>1 DEF DraftRun
<1>5. draft' \in DraftRun
  BY <1>1 DEF DraftRun, Name
<1>6. Hands(draft)' = Hands(draft)
  BY <1>1, <1>4 DEF Hands
<1>7. InOneHand(draft)'
  BY <1>1, <1>4, <1>6 DEF InOneHand
<1>8. Paid(log, draft)'
  BY <1>1, <1>3, <1>4 DEF Paid, InOneHand
<1>9. UpToLimit(log, draft)' /\ CommonestFirst(log, draft)'
  BY <1>1, <1>3, <1>4, <1>6, HandsHold
<1> QED BY <1>1, <1>3, <1>4, <1>5, <1>7, <1>8, <1>9 DEF DraftInv

(* So does a root that gets the reason it has none. *)
LEMMA BlameKeeps ==
  ASSUME DraftInv, NEW r \in Root, NEW refused \in BOOLEAN, draft.stage = "drafting", Blame(r, refused)
  PROVE  DraftInv'
<1>1. /\ r \in draft.asked /\ draft \in DraftRun /\ log \in Seq(LogRow) /\ log' = log
      /\ InOneHand(draft) /\ Paid(log, draft) /\ UpToLimit(log, draft) /\ CommonestFirst(log, draft)
      /\ draft' = [draft EXCEPT !.asked = @ \ {r}, !.fell = @ \cup {r},
                                !.refused = IF refused THEN @ \cup {r} ELSE @]
  BY DEF DraftInv, Blame
<1>2. /\ draft'.stage = draft.stage /\ draft'.force = draft.force /\ draft'.all = draft.all
      /\ draft'.want = draft.want /\ draft'.limit = draft.limit /\ draft'.skipped = draft.skipped
      /\ draft'.todo = draft.todo /\ draft'.asked = draft.asked \ {r}
      /\ draft'.did = draft.did /\ draft'.fell = draft.fell \cup {r}
  BY <1>1 DEF DraftRun
<1>3. draft' \in DraftRun
  BY <1>1 DEF DraftRun, Name
<1>4. Hands(draft)' = Hands(draft)
  BY <1>1, <1>2 DEF Hands
<1>5. InOneHand(draft)'
  BY <1>1, <1>2, <1>4 DEF InOneHand
<1>6. Paid(log, draft)'
  BY <1>1, <1>2 DEF Paid
<1>7. UpToLimit(log, draft)' /\ CommonestFirst(log, draft)'
  <2>1. Done(log) \subseteq Done(log')
    BY <1>1
  <2> HIDE <1>1
  <2>2. UpToLimit(log, draft) /\ CommonestFirst(log, draft)
    BY <1>1
  <2> QED BY <1>2, <1>4, <2>1, <2>2, HandsHold
<1> QED BY <1>1, <1>3, <1>5, <1>6, <1>7 DEF DraftInv

(* Every step of the run keeps the invariant. *)
LEMMA DraftStep == ASSUME DraftInv, [DNext]_dvars PROVE DraftInv'
<1>1. ASSUME NEW only \in SUBSET (Root \cup Strays), NEW limit \in Limits, NEW force \in BOOLEAN,
             Begin(only, limit, force)
      PROVE  DraftInv'
  BY <1>1, BegunKeeps
<1>2. ASSUME NEW r \in Root \cup Strays, Ask(r) PROVE DraftInv'
  BY <1>2, AskKeeps
<1>3. ASSUME NEW r \in Root, NEW plain \in BOOLEAN, Row(r, plain) PROVE DraftInv'
  <2>1. draft.stage = "drafting"
    BY <1>3 DEF Row, DraftInv
  <2> QED BY <1>3, <2>1, RowKeeps
<1>4. ASSUME NEW r \in Root, NEW refused \in BOOLEAN, Blame(r, refused) PROVE DraftInv'
  <2>1. draft.stage = "drafting"
    BY <1>4 DEF Blame, DraftInv
  <2> QED BY <1>4, <2>1, BlameKeeps
<1>5. NoRun \in DraftRun /\ NoRun.stage = "idle" /\ NoRun.asked = {}
  BY DEF NoRun, DraftRun
<1>6. CASE Tally \/ KillDraft
  BY <1>5, <1>6 DEF Tally, KillDraft, DraftInv
<1>7. CASE UNCHANGED dvars
  <2>1. log' = log /\ draft' = draft
    BY <1>7 DEF dvars
  <2> QED BY <2>1 DEF DraftInv
<1> QED BY <1>1, <1>2, <1>3, <1>4, <1>6, <1>7 DEF DNext

(* It holds of every reachable state. *)
LEMMA DraftHolds == DSpec => []DraftInv
<1>1. DInit => DraftInv
  BY EmptySeq DEF DInit, DraftInv, NoRun, DraftRun
<1>2. DraftInv /\ [DNext]_dvars => DraftInv'
  BY DraftStep
<1> QED BY <1>1, <1>2, PTL DEF DSpec

(* main.go: "a root already done is skipped unless -force", and no row is   *)
(* lost, for any corpus, any workers and any kills and runs over one log.   *)
THEOREM DoneRootsAreSkipped == DSpec => NotPaidForTwice
<1>1. DraftInv /\ [DNext]_dvars =>
        [/\ log' # log => draft.force \/ Last(log').root \notin Done(log)
         /\ log' # log => SubSeq(log', 1, Len(log)) = log]_dvars
  <2> SUFFICES ASSUME DraftInv, DNext, log' # log
               PROVE  /\ draft.force \/ Last(log').root \notin Done(log)
                      /\ SubSeq(log', 1, Len(log)) = log
    BY DEF dvars
  <2>1. PICK r \in Root, plain \in BOOLEAN : Row(r, plain)
    BY DEF DNext, Begin, Ask, Blame, Tally, KillDraft
  <2> DEFINE row == [root |-> r, plain |-> plain]
  <2>2. log' = Append(log, row) /\ r \in draft.asked /\ log \in Seq(LogRow) /\ row \in LogRow
    BY <2>1 DEF Row, DraftInv, LogRow
  <2>3. row.root = r
    OBVIOUS
  <2> HIDE DEF row
  <2>4. /\ log' \in Seq(LogRow) /\ Len(log') = Len(log) + 1
        /\ log'[Len(log) + 1] = row
        /\ Len(log) \in Nat
        /\ \A i \in 1 .. Len(log) : log'[i] = log[i]
    BY <2>2, AppendProperties, LenProperties
  <2>5. Last(log') = row
    BY <2>4 DEF Last
  <2>6. draft.force \/ r \notin Done(log)
    BY <2>2 DEF DraftInv, Paid
  <2>7. SubSeq(log', 1, Len(log)) = log
    <3>1. \A i \in 1 .. Len(log) : log'[i] \in LogRow
      BY <2>4, LenProperties
    <3>2. /\ SubSeq(log', 1, Len(log)) \in Seq(LogRow)
          /\ Len(SubSeq(log', 1, Len(log))) = Len(log)
          /\ \A i \in 1 .. Len(log) : SubSeq(log', 1, Len(log))[i] = log'[i]
      BY <2>4, <3>1, SubSeqProperties
    <3> QED BY <2>2, <2>4, <3>2, SeqEqual
  <2> QED BY <2>3, <2>5, <2>6, <2>7
<1> QED BY <1>1, DraftHolds, PTL DEF DSpec, NotPaidForTwice

(* tally: what a run that was not killed reports adds up to what it was     *)
(* asked for, for any list, any -limit and any corpus.                      *)
THEOREM EveryRootIsAccountedFor == DSpec => []TallyAddsUp
<1>1. DraftInv => TallyAddsUp
  <2> SUFFICES ASSUME DraftInv, draft.stage = "drafting", draft.todo = {}, draft.asked = {}
               PROVE  LET taken == draft.did \cup draft.fell
                          left  == draft.want \ (taken \cup draft.skipped)
                          place(r) == CHOOSE i \in DOMAIN CorpusRoots : CorpusRoots[i] = r
                      IN  /\ draft.did \cap draft.fell = {} /\ taken \cap draft.skipped = {}
                          /\ ~draft.force => draft.want \ Done(log) = draft.fell \cup (left \ Done(log))
                          /\ draft.limit # 0 /\ left \ Done(log) # {} => Cardinality(taken) = draft.limit
                          /\ draft.limit = 0 => left = {}
                          /\ draft.all /\ ~draft.force =>
                                \A l \in left \ Done(log), t \in taken : place(t) < place(l)
    BY DEF TallyAddsUp
  <2> DEFINE taken == draft.did \cup draft.fell
             left  == draft.want \ (taken \cup draft.skipped)
  <2>1. InOneHand(draft) /\ Paid(log, draft) /\ UpToLimit(log, draft) /\ CommonestFirst(log, draft)
    BY DEF DraftInv
  <2>2. Hands(draft) = taken
    BY DEF Hands
  <2>3. Unmet(log, draft) = left \ Done(log)
    BY <2>2 DEF Unmet
  <2>4. draft.did \cap draft.fell = {} /\ taken \cap draft.skipped = {} /\ taken \cup draft.skipped \subseteq draft.want
    BY <2>1, <2>2 DEF InOneHand
  <2>5. ~draft.force => draft.want \ Done(log) = draft.fell \cup (left \ Done(log))
    BY <2>1, <2>4 DEF Paid
  <2>6. draft.limit = 0 => left = {}
    BY <2>1, <2>2 DEF UpToLimit
  <2>7. draft.limit # 0 /\ left \ Done(log) # {} => Cardinality(taken) = draft.limit
    BY <2>1, <2>2, <2>3 DEF UpToLimit
  <2>8. draft.all /\ ~draft.force => \A l \in left \ Done(log), t \in taken : Rank(t) < Rank(l)
    BY <2>1, <2>2, <2>3 DEF CommonestFirst
  <2> QED BY <2>4, <2>5, <2>6, <2>7, <2>8 DEF Rank
<1> QED BY <1>1, DraftHolds, PTL

-----------------------------------------------------------------------------
(* The walks of the aligner: where their slots end, and the words in a row  *)
(* that a tuple lies over.                                                  *)

(* The greatest of a set is the one that is. *)
LEMMA GreatestIs ==
  ASSUME NEW S, S \subseteq Int, NEW m \in S, \A x \in S : x <= m
  PROVE  Greatest(S) = m
<1>1. \A x \in S : x \in Int
  OBVIOUS
<1>2. \A x \in S : m >= x
  BY <1>1
<1>3. Greatest(S) \in S /\ \A y \in S : Greatest(S) >= y
  BY <1>2 DEF Greatest
<1>4. Greatest(S) \in Int /\ m \in Int /\ Greatest(S) <= m /\ Greatest(S) >= m
  BY <1>1, <1>3
<1> HIDE <1>1
<1> QED BY <1>4

(* And so is the least. *)
LEMMA LeastIs ==
  ASSUME NEW S, S \subseteq Int, NEW m \in S, \A x \in S : m <= x
  PROVE  Least(S) = m
<1>1. Least(S) \in S /\ \A y \in S : Least(S) <= y
  BY DEF Least
<1>2. Least(S) \in Int /\ m \in Int /\ Least(S) <= m /\ m <= Least(S)
  BY <1>1
<1> HIDE <1>1
<1> QED BY <1>2

(* The least of one number. *)
LEMMA LeastOfOne == ASSUME NEW k \in Int PROVE Least({k}) = k
  BY DEF Least

(* A tuple runs over slots that are aligned. *)
LEMMA TupleIsAligned ==
  ASSUME NEW raw \in Seq(Seq(Int)), IsWalk(raw), NEW i \in DOMAIN raw
  PROVE  /\ raw[i][1] \in Nat /\ raw[i][2] \in Nat /\ raw[i][2] - 1 \in Nat
         /\ raw[i][1] <= raw[i][2] - 1
         /\ raw[i][1] .. (raw[i][2] - 1) \subseteq Aligned(raw)
<1>1. raw[i] \in Seq(Int) /\ Len(raw[i]) = 4
  BY LenProperties DEF IsWalk
<1>2. raw[i][1] \in Int /\ raw[i][2] \in Int
  <2>1. raw[i] \in [1 .. 4 -> Int]
    BY <1>1, LenProperties
  <2>2. 1 \in 1 .. 4 /\ 2 \in 1 .. 4
    OBVIOUS
  <2> QED BY <2>1, <2>2
<1>3. 0 <= raw[i][1] /\ raw[i][1] < raw[i][2]
  BY DEF IsWalk
<1>4. raw[i][1] .. (raw[i][2] - 1) \subseteq Aligned(raw)
  BY DEF Aligned
<1> QED BY <1>2, <1>3, <1>4

(* Where the slots end, when the last of them is the text's last word or past it. *)
LEMMA SlotsAre ==
  ASSUME NEW raw \in Seq(Seq(Int)), IsWalk(raw), NEW words \in Nat, NEW n \in Nat,
         Aligned(raw) \subseteq 0 .. n - 1, n = words \/ (n > words /\ n - 1 \in Aligned(raw))
  PROVE  Slots(raw, words) = n
<1> DEFINE S == {words} \cup {raw[i][2] : i \in DOMAIN raw}
<1>1. ASSUME NEW i \in DOMAIN raw PROVE raw[i][2] \in Int /\ raw[i][2] <= n
  <2> DEFINE a == raw[i][1]
             b == raw[i][2]
  <2>1. a \in Nat /\ b \in Nat /\ a <= b - 1 /\ a .. (b - 1) \subseteq Aligned(raw)
    BY TupleIsAligned
  <2> HIDE DEF a, b
  <2>2. b - 1 \in a .. (b - 1)
    BY <2>1
  <2>3. b - 1 \in 0 .. n - 1
    BY <2>1, <2>2
  <2>4. b \in Int /\ b <= n
    BY <2>1, <2>3
  <2> QED BY <2>4 DEF b
<1>2. S \subseteq Int /\ \A x \in S : x <= n
  BY <1>1
<1>3. n \in S
  <2>1. CASE n = words
    BY <2>1
  <2>2. CASE n > words /\ n - 1 \in Aligned(raw)
    <3>1. PICK i \in DOMAIN raw : n - 1 \in raw[i][1] .. (raw[i][2] - 1)
      BY <2>2 DEF Aligned
    <3> DEFINE a == raw[i][1]
               b == raw[i][2]
    <3>2. a \in Nat /\ b \in Nat
      BY TupleIsAligned
    <3>3. b \in Int /\ b <= n
      BY <1>1
    <3>4. b \in {raw[j][2] : j \in DOMAIN raw}
      OBVIOUS
    <3>5. n - 1 \in a .. (b - 1)
      BY <3>1
    <3> HIDE DEF a, b
    <3>6. b = n
      BY <3>2, <3>3, <3>5
    <3> QED BY <3>4, <3>6
  <2> QED BY <2>1, <2>2
<1> HIDE DEF S
<1>4. Greatest(S) = n
  BY <1>2, <1>3, GreatestIs
<1> QED BY <1>4 DEF S, Slots

(* Slots is past every tuple.  The walk is finite, so the greatest is one of its ends. *)
LEMMA SlotsReach ==
  ASSUME NEW raw \in Seq(Seq(Int)), IsWalk(raw), NEW words \in Nat, NEW i \in DOMAIN raw
  PROVE  raw[i][2] - 1 < Slots(raw, words)
<1> DEFINE ends == {raw[j][2] : j \in DOMAIN raw}
           S == {words} \cup ends
           f == [j \in DOMAIN raw |-> raw[j][2]]
<1>1. \A j \in DOMAIN raw : raw[j][2] \in Nat
  BY TupleIsAligned
<1>2. IsFiniteSet(DOMAIN raw)
  <2>1. Len(raw) \in Nat /\ DOMAIN raw = 1 .. Len(raw)
    BY LenProperties
  <2> QED BY <2>1, UpTo
<1>3. f \in Surjection(DOMAIN raw, ends)
  BY DEF Surjection
<1>4. IsFiniteSet(ends)
  BY <1>2, <1>3, FS_Surjection
<1>5. IsFiniteSet(ends \cup {words}) /\ ends \cup {words} = S
  BY <1>4, FS_AddElement
<1>6. S \subseteq Nat /\ S # {} /\ raw[i][2] \in S
  BY <1>1
<1>7. Slots(raw, words) = Greatest(S)
  BY DEF Slots
<1> HIDE DEF S, ends
<1>8. PICK m \in S : \A x \in S : x <= m
  BY <1>5, <1>6, HasGreatest
<1>9. Greatest(S) = m
  <2>1. S \subseteq Int
    BY <1>6
  <2> QED BY <2>1, <1>8, GreatestIs
<1>10. raw[i][2] <= m /\ raw[i][2] \in Nat /\ m \in Nat
  BY <1>6, <1>8
<1> QED BY <1>7, <1>9, <1>10

(* Words in a row, one on from their slots. *)
LEMMA OneOn ==
  ASSUME NEW a \in Int, NEW b \in Int
  PROVE  {s + 1 : s \in a .. b} = (a + 1) .. (b + 1)
<1>1. ASSUME NEW w \in (a + 1) .. (b + 1) PROVE w \in {s + 1 : s \in a .. b}
  <2>1. w - 1 \in a .. b /\ (w - 1) + 1 = w
    OBVIOUS
  <2> QED BY <2>1
<1>2. ASSUME NEW s \in a .. b PROVE s + 1 \in (a + 1) .. (b + 1)
  OBVIOUS
<1> QED BY <1>1, <1>2

-----------------------------------------------------------------------------
(* The judges of a recitation.  Rows are spans taken apart: the words of the *)
(* rows are the words of the spans, which is why the ingest's count and the *)
(* ETL's are one count; a row starts where the latest start so far is.      *)

(* Whatever slot it is asked about, a word of the text is the answer. *)
LEMMA WordIsOfTheText ==
  ASSUME NEW raw, NEW words \in Nat \ {0}, NEW slot \in Int
  PROVE  WordOf(raw, words, slot) \in 1 .. words
<1> DEFINE w == IF slot >= Split(raw, words) THEN slot ELSE slot + 1
<1>1. w \in Int
  OBVIOUS
<1> HIDE DEF w
<1>2. WordOf(raw, words, slot) = IF w < 1 THEN (IF words < 1 THEN words ELSE 1) ELSE IF w > words THEN words ELSE w
  BY DEF WordOf, w
<1> QED BY <1>1, <1>2

(* A span: words of a text of n, and two times. *)
Span(n) == [first : 1 .. n, last : 1 .. n, start : Int, end : Int]

LEMMA SpansAreSpans ==
  ASSUME NEW raw \in Seq(Seq(Int)), IsWalk(raw), NEW words \in Nat \ {0}
  PROVE  Spans(raw, words) \in Seq(Span(words)) /\ Len(Spans(raw, words)) = Len(raw)
<1>1. Len(raw) \in Nat /\ DOMAIN raw = 1 .. Len(raw)
  BY LenProperties
<1>2. ASSUME NEW i \in DOMAIN raw
      PROVE  raw[i][1] \in Int /\ raw[i][2] - 1 \in Int /\ raw[i][3] \in Int /\ raw[i][4] \in Int
  <2>1. raw[i] \in Seq(Int) /\ Len(raw[i]) = 4
    BY LenProperties DEF IsWalk
  <2>2. raw[i] \in [1 .. 4 -> Int]
    BY <2>1, LenProperties
  <2>3. 1 \in 1 .. 4 /\ 2 \in 1 .. 4 /\ 3 \in 1 .. 4 /\ 4 \in 1 .. 4
    OBVIOUS
  <2> QED BY <2>2, <2>3
<1>3. ASSUME NEW i \in DOMAIN raw PROVE Spans(raw, words)[i] \in Span(words)
  BY <1>2, WordIsOfTheText DEF Spans, Span
<1>4. Spans(raw, words) = [i \in 1 .. Len(raw) |-> Spans(raw, words)[i]]
  BY <1>1 DEF Spans
<1> HIDE DEF Span
<1>5. Spans(raw, words) \in [1 .. Len(raw) -> Span(words)]
  BY <1>1, <1>3, <1>4
<1> QED BY <1>1, <1>5, FunctionIsList

(* The latest start among the first i spans. *)
StartBy(spans, i) == Greatest({0} \cup {spans[j].start : j \in 1 .. i})

LEMMA StartsGoOn ==
  ASSUME NEW n, NEW spans \in Seq(Span(n)), NEW i \in 1 .. Len(spans), NEW j \in 1 .. Len(spans), i <= j
  PROVE  StartBy(spans, i) \in Int /\ StartBy(spans, j) \in Int /\ StartBy(spans, i) <= StartBy(spans, j)
<1> DEFINE S(k) == {0} \cup {spans[m].start : m \in 1 .. k}
<1>1. ASSUME NEW k \in 1 .. Len(spans)
      PROVE  S(k) \subseteq Int /\ Greatest(S(k)) \in S(k) /\ \A x \in S(k) : x <= Greatest(S(k))
  <2>1. Len(spans) \in Nat /\ k \in Nat
    BY LenProperties
  <2>2. \A m \in 1 .. k : m \in 1 .. Len(spans)
    BY <2>1
  <2>3. \A m \in 1 .. k : spans[m] \in Span(n)
    BY <2>2, LenProperties
  <2>4. \A m \in 1 .. k : spans[m].start \in Int
    BY <2>3 DEF Span
  <2>5. IsFiniteSet(S(k))
    <3>1. IsFiniteSet(1 .. k)
      BY <2>1, UpTo
    <3> DEFINE f == [m \in 1 .. k |-> spans[m].start]
               img == {spans[m].start : m \in 1 .. k}
    <3>2. f \in Surjection(1 .. k, img)
      BY DEF Surjection
    <3> HIDE DEF f, img
    <3>3. IsFiniteSet(img)
      BY <3>1, <3>2, FS_Surjection
    <3>4. IsFiniteSet(img \cup {0})
      BY <3>3, FS_AddElement
    <3>5. S(k) = img \cup {0}
      BY DEF img
    <3> QED BY <3>4, <3>5
  <2>6. S(k) \subseteq Int /\ S(k) # {}
    BY <2>4
  <2> HIDE DEF S
  <2>7. PICK x \in S(k) : \A y \in S(k) : y <= x
    BY <2>5, <2>6, IntegersHaveAGreatest
  <2>8. Greatest(S(k)) = x
    BY <2>6, <2>7, GreatestIs
  <2> QED BY <2>6, <2>7, <2>8
<1>2. S(i) \subseteq S(j)
  <2>1. \A m \in 1 .. i : m \in 1 .. j
    BY LenProperties
  <2> QED BY <2>1
<1>3. Greatest(S(i)) \in S(j) /\ Greatest(S(i)) \in Int /\ Greatest(S(j)) \in Int
  BY <1>1, <1>2
<1> HIDE DEF S
<1>4. Greatest(S(i)) <= Greatest(S(j))
  BY <1>1, <1>3
<1> QED BY <1>3, <1>4 DEF StartBy, S

(* The rows of one span, and of one aya by span. *)
RowsOf(spans, aya, i) ==
    [k \in 1 .. (spans[i].last - spans[i].first + 1) |->
        [aya |-> aya, word |-> spans[i].first + k - 1, start |-> StartBy(spans, i),
         end |-> Greatest({StartBy(spans, i), spans[i].end})]]
Blocks(spans, aya) == [i \in DOMAIN spans |-> RowsOf(spans, aya, i)]

\* B holds, span by span, rows over the span's words from the latest start so far.
AreBlocks(B, S, spans, aya, n) ==
    /\ B \in Seq(Seq(S)) /\ Len(B) = Len(spans)
    /\ \A i \in 1 .. Len(spans) :
          /\ spans[i].first \in 1 .. n /\ spans[i].last \in 1 .. n
          /\ \A k \in 1 .. Len(B[i]) :
                /\ B[i][k].aya = aya
                /\ B[i][k].start = StartBy(spans, i)
                /\ B[i][k].word \in spans[i].first .. spans[i].last
          /\ \A w \in spans[i].first .. spans[i].last :
                \E k \in 1 .. Len(B[i]) : B[i][k].word = w

LEMMA BlocksAreLists ==
  ASSUME NEW n \in Nat, NEW spans \in Seq(Span(n)), NEW aya
  PROVE  \E S : AreBlocks(Blocks(spans, aya), S, spans, aya, n)
<1> DEFINE R(i) == RowsOf(spans, aya, i)
           long(i) == spans[i].last - spans[i].first + 1
           S == UNION {{R(i)[k] : k \in 1 .. long(i)} : i \in 1 .. Len(spans)}
<1>1. Len(spans) \in Nat /\ DOMAIN spans = 1 .. Len(spans)
  BY LenProperties
<1>2. ASSUME NEW i \in 1 .. Len(spans)
      PROVE  spans[i].first \in 1 .. n /\ spans[i].last \in 1 .. n
  <2>1. spans[i] \in Span(n)
    BY LenProperties
  <2> QED BY <2>1 DEF Span
<1>3. ASSUME NEW i \in 1 .. Len(spans)
      PROVE  /\ R(i) \in Seq(S)
             /\ DOMAIN R(i) = 1 .. long(i)
             /\ \A k \in 1 .. long(i) : k \in 1 .. Len(R(i))
             /\ \A k \in 1 .. Len(R(i)) : k \in 1 .. long(i)
  <2> DEFINE m == IF long(i) < 0 THEN 0 ELSE long(i)
  <2>1. m \in Nat /\ 1 .. m = 1 .. long(i)
    BY <1>2
  <2>2. R(i) = [k \in 1 .. m |-> R(i)[k]]
    BY <2>1 DEF RowsOf
  <2>3. \A k \in 1 .. m : R(i)[k] \in S
    BY <2>1
  <2> HIDE DEF S, m
  <2>4. R(i) \in [1 .. m -> S]
    BY <2>2, <2>3
  <2> HIDE DEF R
  <2>5. R(i) \in Seq(S) /\ Len(R(i)) = m /\ DOMAIN R(i) = 1 .. m
    BY <2>1, <2>4, FunctionIsList
  <2> QED BY <2>1, <2>5
<1>4. ASSUME NEW i \in 1 .. Len(spans), NEW k \in 1 .. Len(R(i))
      PROVE  /\ R(i)[k].aya = aya /\ R(i)[k].start = StartBy(spans, i)
             /\ R(i)[k].word \in spans[i].first .. spans[i].last
  <2>1. k \in 1 .. long(i) /\ spans[i].first \in Int /\ spans[i].last \in Int
    <3>1. spans[i].first \in 1 .. n /\ spans[i].last \in 1 .. n
      BY <1>2
    <3> HIDE DEF R, S, long
    <3>2. k \in 1 .. long(i)
      BY <1>3
    <3> QED BY <3>1, <3>2
  <2>2. /\ R(i)[k].aya = aya /\ R(i)[k].start = StartBy(spans, i)
        /\ R(i)[k].word = spans[i].first + k - 1
    BY <2>1 DEF RowsOf
  <2> QED BY <2>1, <2>2
<1>5. ASSUME NEW i \in 1 .. Len(spans), NEW w \in spans[i].first .. spans[i].last
      PROVE  \E k \in 1 .. Len(R(i)) : R(i)[k].word = w
  <2> DEFINE k == w - spans[i].first + 1
  <2>1. k \in 1 .. long(i) /\ spans[i].first + k - 1 = w
    BY <1>2
  <2>2. R(i)[k].word = w
    BY <2>1 DEF RowsOf
  <2>3. k \in 1 .. Len(R(i))
    BY <1>3, <2>1
  <2> QED BY <2>2, <2>3
<1>6. \A i \in 1 .. Len(spans) : Blocks(spans, aya)[i] = R(i)
  BY <1>1 DEF Blocks
<1>7. Blocks(spans, aya) \in [1 .. Len(spans) -> Seq(S)]
  <2> HIDE DEF S, R
  <2>1. Blocks(spans, aya) = [i \in 1 .. Len(spans) |-> R(i)]
    BY <1>1 DEF Blocks, R
  <2> QED BY <1>3, <2>1
<1>8. Blocks(spans, aya) \in Seq(Seq(S)) /\ Len(Blocks(spans, aya)) = Len(spans)
  <2> HIDE DEF S, R, long
  <2> QED BY <1>1, <1>7, FunctionIsList
<1> DEFINE B == Blocks(spans, aya)
<1> HIDE DEF S, R, B
<1>9. ASSUME NEW i \in 1 .. Len(spans)
      PROVE  /\ spans[i].first \in 1 .. n /\ spans[i].last \in 1 .. n
             /\ \A k \in 1 .. Len(B[i]) :
                   /\ B[i][k].aya = aya
                   /\ B[i][k].start = StartBy(spans, i)
                   /\ B[i][k].word \in spans[i].first .. spans[i].last
             /\ \A w \in spans[i].first .. spans[i].last :
                   \E k \in 1 .. Len(B[i]) : B[i][k].word = w
  <2>1. B[i] = R(i)
    BY <1>6 DEF B
  <2> QED BY <1>2, <1>4, <1>5, <2>1
<1>10. B \in Seq(Seq(S)) /\ Len(B) = Len(spans)
  BY <1>8 DEF B
<1>11. AreBlocks(B, S, spans, aya, n)
  BY <1>9, <1>10 DEF AreBlocks
<1> QED BY <1>11 DEF B

(* The rows of an aya are of it, on words of the text, in the order of their *)
(* starts, and for each word of a span.                                     *)
LEMMA RowsOfAnAya ==
  ASSUME NEW n \in Nat, NEW spans \in Seq(Span(n)), NEW aya,
         NEW rows, rows = NormalizeSegments(spans, aya)
  PROVE  /\ Len(rows) \in Nat /\ rows \in [1 .. Len(rows) -> {rows[i] : i \in DOMAIN rows}]
         /\ \A i \in 1 .. Len(rows) : rows[i].aya = aya /\ rows[i].word \in 1 .. n
         /\ \A i, j \in 1 .. Len(rows) : i < j => rows[i].start <= rows[j].start
         /\ {rows[i].word : i \in DOMAIN rows} = Timed(spans)
         /\ Timed(spans) \subseteq 1 .. n
<1> DEFINE B == Blocks(spans, aya)
<1>0. PICK S : AreBlocks(B, S, spans, aya, n)
  BY BlocksAreLists
<1>1. /\ B \in Seq(Seq(S)) /\ Len(B) = Len(spans)
      /\ \A i \in 1 .. Len(spans) :
             /\ spans[i].first \in 1 .. n /\ spans[i].last \in 1 .. n
             /\ \A k \in 1 .. Len(B[i]) :
                   /\ B[i][k].aya = aya
                   /\ B[i][k].start = StartBy(spans, i)
                   /\ B[i][k].word \in spans[i].first .. spans[i].last
             /\ \A w \in spans[i].first .. spans[i].last :
                   \E k \in 1 .. Len(B[i]) : B[i][k].word = w
  <2> HIDE DEF B
  <2> QED BY <1>0 DEF AreBlocks
<1>2. rows = FlattenSeq(B)
  BY DEF NormalizeSegments, Blocks, RowsOf, StartBy
<1> HIDE DEF B
<1>3. PICK at : rows \in Seq(S) /\ LaidOut(rows, B, Len(B), at)
  BY <1>1, <1>2, FlattenIsLaidOut
<1>4. Len(rows) \in Nat /\ DOMAIN rows = 1 .. Len(rows) /\ rows \in [1 .. Len(rows) -> {rows[i] : i \in DOMAIN rows}]
  <2>1. Len(rows) \in Nat /\ rows \in [1 .. Len(rows) -> S]
    BY <1>3, LenProperties
  <2> QED BY <2>1
<1>5. Len(spans) \in Nat /\ DOMAIN spans = 1 .. Len(spans)
  BY LenProperties
<1>6. ASSUME NEW i \in 1 .. Len(rows)
      PROVE  /\ at[i][1] \in 1 .. Len(spans)
             /\ rows[i].aya = aya /\ rows[i].start = StartBy(spans, at[i][1])
             /\ rows[i].word \in spans[at[i][1]].first .. spans[at[i][1]].last
             /\ rows[i].word \in 1 .. n
  <2>1. /\ at[i][1] \in 1 .. Len(spans) /\ at[i][2] \in 1 .. Len(B[at[i][1]])
        /\ rows[i] = B[at[i][1]][at[i][2]]
    BY <1>1, <1>3 DEF LaidOut
  <2> DEFINE b == at[i][1]
             o == at[i][2]
  <2> HIDE DEF b, o
  <2>2. b \in 1 .. Len(spans) /\ o \in 1 .. Len(B[b]) /\ rows[i] = B[b][o]
    BY <2>1 DEF b, o
  <2>3. /\ rows[i].aya = aya /\ rows[i].start = StartBy(spans, b)
        /\ rows[i].word \in spans[b].first .. spans[b].last
        /\ spans[b].first \in 1 .. n /\ spans[b].last \in 1 .. n
    BY <1>1, <2>2
  <2>4. rows[i].word \in 1 .. n
    BY <2>3
  <2> QED BY <2>2, <2>3, <2>4 DEF b
<1>7. ASSUME NEW i \in 1 .. Len(rows), NEW j \in 1 .. Len(rows), i < j
      PROVE  rows[i].start <= rows[j].start
  <2>1. at[i][1] < at[j][1] \/ at[i][1] = at[j][1]
    BY <1>3, <1>7 DEF LaidOut
  <2>2. at[i][1] <= at[j][1]
    BY <1>5, <1>6, <2>1
  <2>3. StartBy(spans, at[i][1]) <= StartBy(spans, at[j][1])
    BY <1>6, <2>2, StartsGoOn
  <2> QED BY <1>6, <2>3
<1>8. ASSUME NEW w \in Timed(spans)
      PROVE  w \in 1 .. n /\ \E i \in DOMAIN rows : rows[i].word = w
  <2>1. PICK b \in 1 .. Len(spans) : w \in spans[b].first .. spans[b].last
    BY <1>5 DEF Timed
  <2>2. PICK o \in 1 .. Len(B[b]) : B[b][o].word = w
    BY <1>1, <2>1
  <2>3. PICK i \in 1 .. Len(rows) : at[i] = <<b, o>>
    BY <1>1, <1>3, <2>1, <2>2 DEF LaidOut
  <2>4. rows[i] = B[b][o]
    <3>1. at[i][1] = b /\ at[i][2] = o
      BY <2>3
    <3>2. rows[i] = B[at[i][1]][at[i][2]]
      BY <1>3 DEF LaidOut
    <3> QED BY <3>1, <3>2
  <2>5. i \in DOMAIN rows /\ rows[i].word = w
    BY <1>4, <2>2, <2>4
  <2>6. w \in 1 .. n
    BY <1>6, <2>5
  <2> QED BY <2>5, <2>6
<1>9. ASSUME NEW i \in DOMAIN rows PROVE rows[i].word \in Timed(spans)
  <2>1. i \in 1 .. Len(rows)
    BY <1>4
  <2>2. at[i][1] \in DOMAIN spans /\ rows[i].word \in spans[at[i][1]].first .. spans[at[i][1]].last
    BY <1>5, <1>6, <2>1
  <2> QED BY <2>2 DEF Timed
<1>10. {rows[i].word : i \in DOMAIN rows} = Timed(spans) /\ Timed(spans) \subseteq 1 .. n
  BY <1>8, <1>9
<1> QED BY <1>4, <1>6, <1>7, <1>10

\* The recitation is one both readers go through with: every aya is in the file
\* and its tuples are a walk.
WalkedWhole(rec) ==
    /\ rec \in Recordings
    /\ \A a \in Ayas : rec[a].raw # NoAya /\ rec[a].raw \in Seq(Seq(Int)) /\ IsWalk(rec[a].raw)

WordsIn(rows) == {rows[i].word : i \in DOMAIN rows}
RowLists(rec) == [a \in Ayas |-> NormalizeSegments(Spans(rec[a].raw, rec[a].words), a)]

\* Rows in the order of their starts, all of one aya and of words it has.
OfOneAya(rec, a, rows) ==
    /\ Len(rows) \in Nat /\ rows \in [1 .. Len(rows) -> {rows[i] : i \in DOMAIN rows}]
    /\ \A i \in 1 .. Len(rows) : rows[i].aya = a /\ rows[i].word \in 1 .. rec[a].words
    /\ \A i, j \in 1 .. Len(rows) : i < j => rows[i].start <= rows[j].start

(* The rows of one aya of a recitation. *)
LEMMA RowListsAre ==
  ASSUME NEW rec, WalkedWhole(rec), NEW a \in Ayas, NEW rows, rows = RowLists(rec)[a]
  PROVE  /\ OfOneAya(rec, a, rows)
         /\ WordsIn(rows) = Timed(Spans(rec[a].raw, rec[a].words))
         /\ Timed(Spans(rec[a].raw, rec[a].words)) \subseteq 1 .. rec[a].words
<1> DEFINE n == rec[a].words
           spans == Spans(rec[a].raw, n)
<1>1. n \in Nat \ {0}
  BY RecordingAssumption DEF WalkedWhole
<1>2. rec[a].raw \in Seq(Seq(Int)) /\ IsWalk(rec[a].raw)
  BY DEF WalkedWhole
<1> HIDE DEF n
<1>3. spans \in Seq(Span(n))
  BY <1>1, <1>2, SpansAreSpans
<1>4. rows = NormalizeSegments(spans, a)
  BY DEF RowLists, n
<1> HIDE DEF spans
<1>5. n \in Nat
  BY <1>1
<1>6. /\ Len(rows) \in Nat /\ rows \in [1 .. Len(rows) -> {rows[i] : i \in DOMAIN rows}]
      /\ \A i \in 1 .. Len(rows) : rows[i].aya = a /\ rows[i].word \in 1 .. n
      /\ \A i, j \in 1 .. Len(rows) : i < j => rows[i].start <= rows[j].start
      /\ {rows[i].word : i \in DOMAIN rows} = Timed(spans)
      /\ Timed(spans) \subseteq 1 .. n
  BY <1>3, <1>4, <1>5, RowsOfAnAya
<1>7. OfOneAya(rec, a, rows)
  BY <1>6 DEF OfOneAya, n
<1>8. WordsIn(rows) = Timed(spans) /\ Timed(spans) \subseteq 1 .. n
  BY <1>6 DEF WordsIn
<1> QED BY <1>7, <1>8 DEF spans, n

(* The count of the rows is the count of the spans. *)
LEMMA OneCount ==
  ASSUME NEW rec, WalkedWhole(rec)
  PROVE  [a \in Ayas |-> rec[a].words - Cardinality({RowLists(rec)[a][i].word : i \in DOMAIN RowLists(rec)[a]})]
            = [a \in Ayas |-> rec[a].words -
                  Cardinality((1 .. rec[a].words) \cap Timed(Spans(rec[a].raw, rec[a].words)))]
<1> SUFFICES ASSUME NEW a \in Ayas
             PROVE  {RowLists(rec)[a][i].word : i \in DOMAIN RowLists(rec)[a]}
                       = (1 .. rec[a].words) \cap Timed(Spans(rec[a].raw, rec[a].words))
  OBVIOUS
<1> DEFINE rows == RowLists(rec)[a]
           timed == Timed(Spans(rec[a].raw, rec[a].words))
           n == rec[a].words
<1>0. WordsIn(rows) = timed /\ timed \subseteq 1 .. n
  BY RowListsAre
<1>1. {rows[i].word : i \in DOMAIN rows} = timed /\ timed \subseteq 1 .. n
  BY <1>0 DEF WordsIn
<1> HIDE DEF rows, timed, n
<1>2. {rows[i].word : i \in DOMAIN rows} = (1 .. n) \cap timed
  BY <1>1
<1> QED BY <1>2 DEF rows, timed, n

(* The rows of a recitation pass the gate, whatever its tuples are. *)
LEMMA RowsPass ==
  ASSUME NEW rec, WalkedWhole(rec)
  PROVE  CheckSegments(rec, FlattenSeq(RowLists(rec)))
<1> DEFINE L == RowLists(rec)
           n == Cardinality(Ayas)
           S == UNION {{L[a][i] : i \in DOMAIN L[a]} : a \in Ayas}
<1>1. n \in Nat /\ Ayas = 1 .. n
  BY RecordingAssumption, FS_CardinalityType
<1>2. ASSUME NEW a \in Ayas
      PROVE  /\ Len(L[a]) \in Nat /\ L[a] \in Seq(S)
             /\ \A i \in 1 .. Len(L[a]) : L[a][i].aya = a /\ L[a][i].word \in 1 .. rec[a].words
             /\ \A i, j \in 1 .. Len(L[a]) : i < j => L[a][i].start <= L[a][j].start
  <2> DEFINE rows == L[a]
  <2>1. /\ Len(rows) \in Nat /\ rows \in [1 .. Len(rows) -> {rows[i] : i \in DOMAIN rows}]
        /\ \A i \in 1 .. Len(rows) : rows[i].aya = a /\ rows[i].word \in 1 .. rec[a].words
        /\ \A i, j \in 1 .. Len(rows) : i < j => rows[i].start <= rows[j].start
    <3>1. rows = RowLists(rec)[a]
      OBVIOUS
    <3> HIDE DEF L, S, rows
    <3>2. OfOneAya(rec, a, rows)
      BY <3>1, RowListsAre
    <3> QED BY <3>2 DEF OfOneAya
  <2>2. {rows[i] : i \in DOMAIN rows} \subseteq S
    OBVIOUS
  <2> HIDE DEF S, rows
  <2>3. rows \in [1 .. Len(rows) -> S]
    BY <2>1, <2>2
  <2>4. rows \in Seq(S)
    BY <2>1, <2>3, FunctionIsList
  <2> QED BY <2>1, <2>4 DEF rows
<1>3. L = [a \in 1 .. n |-> L[a]]
  BY <1>1 DEF RowLists
<1> HIDE DEF L, S, n
<1>4. L \in [1 .. n -> Seq(S)]
  BY <1>1, <1>2, <1>3
<1>5. L \in Seq(Seq(S)) /\ Len(L) = n
  BY <1>1, <1>4, FunctionIsList
<1> DEFINE rows == FlattenSeq(L)
<1>6. PICK at : rows \in Seq(S) /\ LaidOut(rows, L, n, at)
  BY <1>5, FlattenIsLaidOut
<1> HIDE DEF rows
<1>7. Len(rows) \in Nat /\ DOMAIN rows = 1 .. Len(rows)
  BY <1>6, LenProperties
<1>8. ASSUME NEW i \in 1 .. Len(rows)
      PROVE  /\ at[i][1] \in Ayas /\ at[i][2] \in 1 .. Len(L[at[i][1]])
             /\ rows[i] = L[at[i][1]][at[i][2]]
             /\ rows[i].aya = at[i][1] /\ rows[i].word \in 1 .. rec[at[i][1]].words
  <2> DEFINE b == at[i][1]
             o == at[i][2]
  <2>1. b \in Ayas /\ o \in 1 .. Len(L[b]) /\ rows[i] = L[b][o]
    BY <1>1, <1>6 DEF LaidOut
  <2> HIDE DEF b, o
  <2>2. rows[i].aya = b /\ rows[i].word \in 1 .. rec[b].words
    BY <1>2, <2>1
  <2> QED BY <2>1, <2>2 DEF b, o
<1>9. ASSUME NEW i \in 1 .. Len(rows), NEW j \in 1 .. Len(rows), i < j, rows[i].aya = rows[j].aya
      PROVE  rows[i].start <= rows[j].start
  <2>1. at[i][1] = at[j][1]
    BY <1>8, <1>9
  <2>2. at[i][2] < at[j][2]
    <3>1. at[i][1] \in Int
      BY <1>1, <1>8
    <3>2. at[i][1] < at[j][1] \/ (at[i][1] = at[j][1] /\ at[i][2] < at[j][2])
      BY <1>6, <1>9 DEF LaidOut
    <3> QED BY <2>1, <3>1, <3>2
  <2> DEFINE b == at[i][1]
             o == at[i][2]
             q == at[j][2]
  <2>3. /\ b \in Ayas /\ o \in 1 .. Len(L[b]) /\ q \in 1 .. Len(L[b])
        /\ rows[i] = L[b][o] /\ rows[j] = L[b][q] /\ o < q
    BY <1>8, <2>1, <2>2
  <2> HIDE DEF b, o, q
  <2> QED BY <1>2, <2>3
<1>10. CheckSegments(rec, rows)
  BY <1>7, <1>8, <1>9 DEF CheckSegments
<1> QED BY <1>10 DEF rows, L

LEMMA ReadHasFields == ASSUME NEW rec PROVE DOMAIN LoadRecitation(rec) = {"kept", "untimed", "rows", "passed"}
<1> DEFINE read == LoadRecitation(rec)
           none == [kept |-> FALSE, untimed |-> 0, rows |-> <<>>, passed |-> FALSE]
<1>1. \E t, r : read = none \/ read = [kept |-> TRUE, untimed |-> t, rows |-> r, passed |-> FALSE]
  BY DEF LoadRecitation
<1> HIDE DEF read
<1>2. DOMAIN read = {"kept", "untimed", "rows", "passed"}
  BY <1>1
<1> QED BY <1>2 DEF read

(* What the ETL keeps are walks over whole ayas. *)
LEMMA KeptIsWalked ==
  ASSUME NEW rec, LoadRecitation(rec).kept, NEW a \in Ayas
  PROVE  rec[a].raw # NoAya /\ IsWalk(rec[a].raw)
<1> DEFINE silent == \E c \in Ayas : rec[c].raw = NoAya \/ rec[c].raw = <<>>
           unevenAt == \E c \in Ayas : rec[c].raw # NoAya /\ ~Reconciles(rec[c].raw, rec[c].words)
           rows(c) == NormalizeSegments(Spans(rec[c].raw, rec[c].words), c)
           left == [c \in Ayas |-> rec[c].words - Cardinality({rows(c)[i].word : i \in DOMAIN rows(c)})]
           flat == FlattenSeq([c \in Ayas |-> rows(c)])
<1>1. LoadRecitation(rec) =
        IF silent \/ unevenAt \/ Total(left, Ayas) > MaxUntimed
        THEN [kept |-> FALSE, untimed |-> 0, rows |-> <<>>, passed |-> FALSE]
        ELSE [kept |-> TRUE, untimed |-> Total(left, Ayas), rows |-> flat, passed |-> FALSE]
  BY DEF LoadRecitation
<1>2. ~silent /\ ~unevenAt
  <2> HIDE DEF left, flat, silent, unevenAt
  <2> QED BY <1>1
<1> QED BY <1>2 DEF Reconciles

(* What the ETL keeps, the ingest kept, with the same count; and it passes. *)
LEMMA KeptByBoth ==
  ASSUME NEW rec \in Recordings, LoadRecitation(rec).kept
  PROVE  /\ VerifyRecitation(rec).kept
         /\ VerifyRecitation(rec).untimed = LoadRecitation(rec).untimed
         /\ CheckSegments(rec, LoadRecitation(rec).rows)
<1> DEFINE silent == \E a \in Ayas : rec[a].raw = NoAya \/ rec[a].raw = <<>>
           unevenAt == \E a \in Ayas : rec[a].raw # NoAya /\ ~Reconciles(rec[a].raw, rec[a].words)
           rows(a) == NormalizeSegments(Spans(rec[a].raw, rec[a].words), a)
           left == [a \in Ayas |-> rec[a].words - Cardinality({rows(a)[i].word : i \in DOMAIN rows(a)})]
           missing == \E a \in Ayas : rec[a].raw = NoAya
           uneven == {a \in Ayas : rec[a].raw # NoAya /\ ~Reconciles(rec[a].raw, rec[a].words)}
           untimed == [a \in Ayas |-> rec[a].words -
                         Cardinality((1 .. rec[a].words) \cap Timed(Spans(rec[a].raw, rec[a].words)))]
           list == [a \in Ayas |-> rows(a)]
           refused == silent \/ unevenAt \/ Total(left, Ayas) > MaxUntimed
           flat == FlattenSeq(list)
<1>1. LoadRecitation(rec) =
        IF refused THEN [kept |-> FALSE, untimed |-> 0, rows |-> <<>>, passed |-> FALSE]
        ELSE [kept |-> TRUE, untimed |-> Total(left, Ayas), rows |-> flat, passed |-> FALSE]
  BY DEF LoadRecitation
<1>2. VerifyRecitation(rec) =
        IF missing \/ uneven # {} THEN [kept |-> FALSE, untimed |-> 0]
        ELSE [kept |-> TRUE, untimed |-> Total(untimed, Ayas)]
  BY DEF VerifyRecitation
<1>3. ~refused
  <2> HIDE DEF refused, left, flat
  <2> QED BY <1>1
<1>4. ~silent /\ ~unevenAt
  <2> HIDE DEF left
  <2> QED BY <1>3
<1>5. WalkedWhole(rec)
  BY <1>4, RecordingAssumption DEF WalkedWhole, Reconciles
<1>6. ~missing /\ uneven = {}
  BY <1>4
<1>7. left = untimed
  <2>1. [a \in Ayas |-> rec[a].words - Cardinality({RowLists(rec)[a][i].word : i \in DOMAIN RowLists(rec)[a]})] = untimed
    BY <1>5, OneCount
  <2>2. \A a \in Ayas : RowLists(rec)[a] = rows(a)
    BY DEF RowLists
  <2> HIDE DEF rows
  <2>3. left = [a \in Ayas |-> rec[a].words - Cardinality({RowLists(rec)[a][i].word : i \in DOMAIN RowLists(rec)[a]})]
    BY <2>2
  <2> QED BY <2>1, <2>3
<1>8. list = RowLists(rec)
  BY DEF RowLists
<1>9. CheckSegments(rec, flat)
  <2> HIDE DEF list
  <2> QED BY <1>5, <1>8, RowsPass
<1> HIDE DEF refused, left, untimed, missing, uneven, flat
<1> QED BY <1>1, <1>2, <1>3, <1>6, <1>7, <1>9

\* What the ingest reported and the ETL holds is what each makes of the recording.
JudgedAsRead ==
    /\ recording \in Recordings
    /\ rstage \in {"verified", "loaded", "checked"} => report = VerifyRecitation(recording)
    /\ rstage \in {"fetched", "verified"} => loaded.kept = FALSE
    /\ rstage = "loaded" => loaded = LoadRecitation(recording)
    /\ rstage = "checked" =>
          loaded = [LoadRecitation(recording) EXCEPT
                       !.passed = LoadRecitation(recording).kept /\ CheckSegments(recording, LoadRecitation(recording).rows)]
    /\ rstage \in {"fetched", "verified", "loaded", "checked"}

LEMMA JudgedHolds == RSpec => []JudgedAsRead
<1>1. RInit => JudgedAsRead
  BY DEF RInit, JudgedAsRead
<1>2. JudgedAsRead /\ [RNext]_rvars => JudgedAsRead'
  <2> SUFFICES ASSUME JudgedAsRead, [RNext]_rvars PROVE JudgedAsRead'
    OBVIOUS
  <2>1. CASE ReadByIngest
    BY <2>1 DEF ReadByIngest, JudgedAsRead
  <2>2. CASE ReadByEtl
    BY <2>2 DEF ReadByEtl, JudgedAsRead
  <2>3. CASE ReadByGate
    BY <2>3 DEF ReadByGate, JudgedAsRead
  <2>4. CASE UNCHANGED rvars
    BY <2>4 DEF rvars, JudgedAsRead
  <2> QED BY <2>1, <2>2, <2>3, <2>4 DEF RNext
<1> QED BY <1>1, <1>2, PTL DEF RSpec

(* verify.go and load.go: "this count and the ETL's cannot drift apart the *)
(* way they once did".  For any text and any tuples, what the ETL keeps the *)
(* ingest kept with the same count, and the gate passes every row of it.    *)
THEOREM JudgesAreOne == RSpec => []JudgesAgree
<1>1. JudgedAsRead => JudgesAgree
  <2> SUFFICES ASSUME JudgedAsRead, loaded.kept
               PROVE  /\ rstage \in {"loaded", "checked"} => report.kept /\ report.untimed = loaded.untimed
                      /\ rstage = "checked" => loaded.passed
    BY DEF JudgesAgree
  <2> DEFINE read == LoadRecitation(recording)
  <2>1. DOMAIN read = {"kept", "untimed", "rows", "passed"}
    BY ReadHasFields
  <2> HIDE DEF read
  <2>2. CASE rstage = "loaded"
    <3>1. recording \in Recordings /\ loaded = read /\ report = VerifyRecitation(recording)
      BY <2>2 DEF JudgedAsRead, read
    <3> QED BY <2>2, <3>1, KeptByBoth DEF read
  <2>3. CASE rstage = "checked"
    <3>1. /\ recording \in Recordings /\ report = VerifyRecitation(recording)
          /\ loaded = [read EXCEPT !.passed = read.kept /\ CheckSegments(recording, read.rows)]
      BY <2>3 DEF JudgedAsRead, read
    <3>2. /\ loaded.kept = read.kept /\ loaded.untimed = read.untimed
          /\ loaded.passed = (read.kept /\ CheckSegments(recording, read.rows))
      BY <2>1, <3>1
    <3>3. read.kept
      BY <3>2
    <3>4. report.kept /\ report.untimed = read.untimed /\ CheckSegments(recording, read.rows)
      BY <3>1, <3>3, KeptByBoth DEF read
    <3> QED BY <3>2, <3>3, <3>4
  <2>4. rstage \in {"loaded", "checked"}
    BY DEF JudgedAsRead
  <2> QED BY <2>2, <2>3, <2>4
<1> QED BY <1>1, JudgedHolds, PTL

-----------------------------------------------------------------------------
(* The voice.  Split is the slot the silences point at; a slot is shown as  *)
(* the text numbers it up to there and one word back from there on, and was *)
(* said likewise up to and from the doubled word.  Both are words in a row, *)
(* so the two agree on a tuple exactly when they agree on its two ends.     *)

(* What is kept was kept by the ETL's reading, and that reading is of a walk. *)
LEMMA KeptAsLoaded ==
  ASSUME JudgedAsRead, rstage \in {"loaded", "checked"}, loaded.kept
  PROVE  recording \in Recordings /\ LoadRecitation(recording).kept
<1> DEFINE read == LoadRecitation(recording)
<1>1. "kept" \in DOMAIN read
  BY ReadHasFields
<1> HIDE DEF read
<1>2. CASE rstage = "loaded"
  BY <1>2 DEF JudgedAsRead, read
<1>3. CASE rstage = "checked"
  <2>1. loaded = [read EXCEPT !.passed = read.kept /\ CheckSegments(recording, read.rows)]
    BY <1>3 DEF JudgedAsRead, read
  <2>2. loaded.kept = read.kept
    BY <1>1, <2>1
  <2> QED BY <2>2 DEF JudgedAsRead, read
<1> QED BY <1>2, <1>3

(* The slots of tuples that end by m lie below it. *)
LEMMA AlignedBelow ==
  ASSUME NEW raw \in Seq(Seq(Int)), IsWalk(raw), NEW m \in Nat, \A i \in DOMAIN raw : raw[i][2] <= m
  PROVE  Aligned(raw) \subseteq 0 .. m - 1
<1> SUFFICES ASSUME NEW i \in DOMAIN raw, NEW s \in raw[i][1] .. (raw[i][2] - 1) PROVE s \in 0 .. m - 1
  BY DEF Aligned
<1> DEFINE a == raw[i][1]
           b == raw[i][2]
<1>1. a \in Nat /\ b \in Nat /\ b <= m /\ s \in a .. (b - 1)
  BY TupleIsAligned
<1> HIDE DEF a, b
<1> QED BY <1>1

(* Where Split puts the parting. *)
LEMMA SplitIsTheSilence ==
  ASSUME NEW r, r.raw \in Seq(Seq(Int)), IsWalk(r.raw), r.words \in Nat \ {0}, Aligned(r.raw) \subseteq 0 .. r.words
  PROVE  /\ Split(r.raw, r.words) = SilentAt(r) /\ SilentAt(r) \in 0 .. r.words
         /\ SilentAt(r) = 0 => 0 \notin Aligned(r.raw)
<1> DEFINE raw == r.raw
           n == r.words
           A == Aligned(raw)
           silent == (0 .. n) \ A
           slots == Slots(raw, n)
           free == (0 .. slots - 1) \ A
           e == SilentAt(r)
<1>0. raw \in Seq(Seq(Int)) /\ IsWalk(raw) /\ n \in Nat /\ n # 0 /\ A \subseteq 0 .. n
  OBVIOUS
<1>1. e = IF n \in silent THEN n ELSE Least(silent \cup {n})
  BY DEF SilentAt
<1>2. Split(raw, n) = CASE slots = n -> slots
                        [] slots # n /\ free = {} -> slots - 1
                        [] OTHER -> Least(free)
  BY DEF Split
<1> HIDE DEF raw, n, e
<1>3. CASE n \notin A
  <2>1. A \subseteq 0 .. n - 1
    BY <1>0, <1>3
  <2>2. slots = n
    BY <1>0, <2>1, SlotsAre
  <2>3. n \in silent
    BY <1>0, <1>3
  <2>4. e = n
    BY <1>1, <2>3
  <2> HIDE DEF slots, free
  <2>5. Split(raw, n) = n
    BY <1>2, <2>2
  <2> QED BY <1>0, <2>4, <2>5 DEF raw, n, e
<1>4. CASE n \in A
  <2>1. A \subseteq 0 .. (n + 1) - 1 /\ (n + 1) - 1 \in A /\ n + 1 \in Nat /\ n + 1 > n
    BY <1>0, <1>4
  <2>2. slots = n + 1
    BY <1>0, <2>1, SlotsAre
  <2>3. free = silent
    BY <1>0, <2>2
  <2>4. n \notin silent
    BY <1>4
  <2>5. e = Least(silent \cup {n})
    BY <1>1, <2>4
  <2>6. silent \subseteq 0 .. n /\ silent \cap A = {}
    OBVIOUS
  <2> HIDE DEF slots, free, silent
  <2>7. CASE silent = {}
    <3>1. e = n
      <4>1. silent \cup {n} = {n}
        BY <2>7
      <4> QED BY <1>0, <2>5, <4>1, LeastOfOne
    <3>2. slots # n /\ slots - 1 = n
      BY <1>0, <2>2
    <3>3. Split(raw, n) = n
      BY <1>2, <2>3, <2>7, <3>2
    <3> QED BY <1>0, <3>1, <3>3 DEF raw, n, e
  <2>8. CASE silent # {}
    <3>1. silent \subseteq Nat
      BY <1>0, <2>6
    <3>2. PICK m \in silent : \A y \in silent : m <= y
      BY <2>8, <3>1, LeastNumber
    <3>3. Least(silent) = m
      <4>1. silent \subseteq Int /\ m \in silent
        BY <3>1, <3>2
      <4> QED BY <3>2, <4>1, LeastIs
    <3>4. m \in 0 .. n
      BY <2>6, <3>2
    <3>5. Least(silent \cup {n}) = m
      <4>1. silent \cup {n} \subseteq Int
        BY <1>0, <3>1
      <4>2. m \in silent \cup {n} /\ \A y \in silent \cup {n} : m <= y
        BY <1>0, <3>2, <3>4
      <4> QED BY <4>1, <4>2, LeastIs
    <3>6. slots # n /\ free # {}
      BY <1>0, <2>2, <2>3, <2>8
    <3>7. Split(raw, n) = m
      BY <1>2, <2>3, <3>3, <3>6
    <3>8. e = m /\ m \notin A
      BY <2>5, <2>6, <3>5
    <3> QED BY <3>4, <3>7, <3>8 DEF raw, n, e
  <2> QED BY <2>7, <2>8
<1> QED BY <1>3, <1>4

(* The word of slot s when the numberings part at slot p, as it is shown and as it was said. *)
At(p, s) == IF s < p THEN s + 1 ELSE s

LEMMA ShownAt ==
  ASSUME NEW raw, NEW n \in Nat \ {0}, NEW e \in 0 .. n, Split(raw, n) = e,
         NEW s \in 0 .. n, e = 0 => s # 0
  PROVE  WordOf(raw, n, s) = At(e, s)
<1>1. s \in Int /\ e \in Int /\ n \in Int /\ 0 <= s /\ s <= n /\ 0 <= e /\ e <= n /\ 1 <= n
  OBVIOUS
<1> DEFINE w == IF s >= e THEN s ELSE s + 1
<1>2. WordOf(raw, n, s) = IF w < 1 THEN (IF n < 1 THEN n ELSE 1) ELSE IF w > n THEN n ELSE w
  BY DEF WordOf
<1>3. w \in Int /\ 1 <= w /\ w <= n
  BY <1>1
<1>4. w = At(e, s)
  BY <1>1 DEF At
<1> HIDE DEF w
<1> QED BY <1>1, <1>2, <1>3, <1>4

(* The words of slots a to b are words in a row. *)
LEMMA SaidInARow ==
  ASSUME NEW p \in Int, NEW a \in Int, NEW b \in Int, a <= b
  PROVE  {At(p, s) : s \in a .. b} = At(p, a) .. At(p, b) /\ At(p, a) <= At(p, b)
         /\ At(p, a) \in Int /\ At(p, b) \in Int
<1>1. At(p, a) \in Int /\ At(p, b) \in Int /\ At(p, a) <= At(p, b)
  BY DEF At
<1>2. ASSUME NEW s \in a .. b PROVE At(p, s) \in At(p, a) .. At(p, b)
  BY DEF At
<1>3. ASSUME NEW w \in At(p, a) .. At(p, b) PROVE \E s \in a .. b : At(p, s) = w
  <2>1. w \in Int /\ At(p, a) <= w /\ w <= At(p, b)
    BY <1>1
  <2>2. CASE w - 1 \in a .. b /\ w - 1 < p
    <3>1. At(p, w - 1) = w
      BY <2>1, <2>2 DEF At
    <3> QED BY <2>2, <3>1
  <2>3. CASE w \in a .. b /\ ~(w < p)
    <3>1. At(p, w) = w
      BY <2>1, <2>3 DEF At
    <3> QED BY <2>3, <3>1
  <2>4. (w - 1 \in a .. b /\ w - 1 < p) \/ (w \in a .. b /\ ~(w < p))
    BY <2>1 DEF At
  <2> QED BY <2>2, <2>3, <2>4
<1> QED BY <1>1, <1>2, <1>3

(* Two partings show the same words exactly when both ends are on one side of both. *)
LEMMA AlikeByTheEnds ==
  ASSUME NEW e \in Int, NEW p \in Int, NEW a \in Int, NEW b \in Int, a <= b
  PROVE  /\ At(e, a) .. At(e, b) = {At(p, s) : s \in a .. b}
              <=> ((a < e <=> a < p) /\ (b < e <=> b < p))
         /\ (a < e) # (a < p) => At(e, a) - At(p, a) \in {-1, 1}
         /\ (b < e) # (b < p) => At(e, b) - At(p, b) \in {-1, 1}
<1> DEFINE ea == At(e, a)
           eb == At(e, b)
           pa == At(p, a)
           pb == At(p, b)
<1>1. ea \in Int /\ eb \in Int /\ ea <= eb
  BY SaidInARow
<1>2. pa \in Int /\ pb \in Int /\ pa <= pb /\ {At(p, s) : s \in a .. b} = pa .. pb
  BY SaidInARow
<1>3. (ea = pa <=> (a < e <=> a < p)) /\ (eb = pb <=> (b < e <=> b < p))
  BY DEF At
<1>4. (a < e) # (a < p) => ea - pa \in {-1, 1}
  BY DEF At
<1>5. (b < e) # (b < p) => eb - pb \in {-1, 1}
  BY DEF At
<1> HIDE DEF ea, eb, pa, pb
<1>6. ASSUME ea .. eb = pa .. pb PROVE ea = pa /\ eb = pb
  <2>1. ea \in ea .. eb /\ eb \in ea .. eb /\ pa \in pa .. pb /\ pb \in pa .. pb
    BY <1>1, <1>2
  <2>2. ea \in pa .. pb /\ eb \in pa .. pb /\ pa \in ea .. eb /\ pb \in ea .. eb
    BY <1>6, <2>1
  <2> QED BY <1>1, <1>2, <2>2
<1>7. ea .. eb = {At(p, s) : s \in a .. b} <=> (ea = pa /\ eb = pb)
  BY <1>2, <1>6
<1> QED BY <1>3, <1>4, <1>5, <1>7 DEF ea, eb, pa, pb

(* timings.go, Spans, of one tuple of a recording that reconciles. *)
LEMMA TupleIsShown ==
  ASSUME NEW r, r.raw \in Seq(Seq(Int)), IsWalk(r.raw), r.words \in Nat \ {0},
         r.doubled \in 0 .. r.words, Numbered(r), NEW i \in DOMAIN r.raw
  PROVE  LET from == r.raw[i][1]
             to   == r.raw[i][2] - 1
             span == Spans(r.raw, r.words)[i]
         IN  /\ span.first .. span.last = {Said(r, s) : s \in from .. to} <=> ~InDoubt(r, from) /\ ~InDoubt(r, to)
             /\ InDoubt(r, from) => span.first - Said(r, from) \in {-1, 1}
             /\ InDoubt(r, to) => span.last - Said(r, to) \in {-1, 1}
<1> DEFINE raw == r.raw
           n == r.words
           a == raw[i][1]
           b == raw[i][2] - 1
           e == SilentAt(r)
           p == Parting(r)
<1>1. Spans(raw, n)[i].first = WordOf(raw, n, a) /\ Spans(raw, n)[i].last = WordOf(raw, n, b)
  BY DEF Spans
<1>2. a \in Nat /\ b \in Nat /\ a <= b /\ a .. b \subseteq Aligned(raw)
  BY TupleIsAligned
<1>3. Aligned(raw) \subseteq 0 .. n
  <2> DEFINE m == IF r.doubled = 0 THEN n ELSE n + 1
  <2>1. m \in Nat /\ m <= n + 1
    OBVIOUS
  <2>2. \A j \in DOMAIN raw : raw[j][2] <= m
    <3> SUFFICES ASSUME NEW j \in DOMAIN raw PROVE raw[j][2] <= m
      OBVIOUS
    <3>1. raw[j][2] <= n + (IF r.doubled = 0 THEN 0 ELSE 1)
      BY DEF Numbered
    <3>2. n + (IF r.doubled = 0 THEN 0 ELSE 1) = m
      OBVIOUS
    <3> QED BY <3>1, <3>2
  <2> HIDE DEF m
  <2>3. Aligned(raw) \subseteq 0 .. m - 1
    BY <2>1, <2>2, AlignedBelow
  <2> QED BY <2>1, <2>3
<1>4. Split(raw, n) = e /\ e \in 0 .. n /\ (e = 0 => 0 \notin Aligned(raw))
  BY <1>3, SplitIsTheSilence
<1>5. p \in 0 .. n
  BY DEF Parting
<1>6. \A s : Said(r, s) = At(p, s)
  BY DEF Said, At
<1>7. \A s : InDoubt(r, s) <=> ((s < e) # (s < p))
  BY DEF InDoubt
<1>8. n \in Nat \ {0}
  OBVIOUS
<1> HIDE DEF raw, n, a, b, e, p
<1>9. a \in a .. b /\ b \in a .. b /\ a \in Aligned(raw) /\ b \in Aligned(raw)
  BY <1>2
<1>10. WordOf(raw, n, a) = At(e, a)
  <2>1. a \in 0 .. n /\ (e = 0 => a # 0)
    BY <1>3, <1>4, <1>9
  <2> QED BY <1>4, <1>8, <2>1, ShownAt
<1>11. WordOf(raw, n, b) = At(e, b)
  <2>1. b \in 0 .. n /\ (e = 0 => b # 0)
    BY <1>3, <1>4, <1>9
  <2> QED BY <1>4, <1>8, <2>1, ShownAt
<1>12. e \in Int /\ p \in Int /\ a \in Int /\ b \in Int /\ a <= b
  BY <1>2, <1>4, <1>5, <1>8
<1>13. /\ At(e, a) .. At(e, b) = {At(p, s) : s \in a .. b}
              <=> ((a < e <=> a < p) /\ (b < e <=> b < p))
       /\ (a < e) # (a < p) => At(e, a) - At(p, a) \in {-1, 1}
       /\ (b < e) # (b < p) => At(e, b) - At(p, b) \in {-1, 1}
  BY <1>12, AlikeByTheEnds
<1>14. {Said(r, s) : s \in a .. b} = {At(p, s) : s \in a .. b}
  BY <1>6
<1>15. InDoubt(r, a) <=> ~(a < e <=> a < p)
  BY <1>7, <1>12
<1>16. InDoubt(r, b) <=> ~(b < e <=> b < p)
  BY <1>7, <1>12
<1>17. /\ At(e, a) .. At(e, b) = {Said(r, s) : s \in a .. b} <=> ~InDoubt(r, a) /\ ~InDoubt(r, b)
  BY <1>13, <1>14, <1>15, <1>16
<1>18. InDoubt(r, a) => At(e, a) - Said(r, a) \in {-1, 1}
  BY <1>6, <1>7, <1>13
<1>19. InDoubt(r, b) => At(e, b) - Said(r, b) \in {-1, 1}
  BY <1>6, <1>7, <1>13
<1> QED BY <1>1, <1>10, <1>11, <1>17, <1>18, <1>19 DEF raw, n, a, b

(* timings.go, Spans: for any text, any walk over it and any word numbered  *)
(* twice, whatever slots are silent, a kept tuple lights the words it was   *)
(* said over unless an end of it lies between the silence and that word;    *)
(* then it does not, and that end is off by one word.                       *)
THEOREM SpansFollowTheVoice == RSpec => []TimesOnTheirWord
<1>1. JudgedAsRead => TimesOnTheirWord
  <2> SUFFICES ASSUME JudgedAsRead, rstage \in {"loaded", "checked"}, loaded.kept,
                      NEW a \in Ayas, Numbered(recording[a]), NEW i \in DOMAIN Spans(recording[a].raw, recording[a].words)
               PROVE  LET r     == recording[a]
                          spans == Spans(r.raw, r.words)
                          from  == r.raw[i][1]
                          to    == r.raw[i][2] - 1
                      IN  /\ spans[i].first .. spans[i].last = {Said(r, s) : s \in from .. to}
                                <=> ~InDoubt(r, from) /\ ~InDoubt(r, to)
                          /\ InDoubt(r, from) => spans[i].first - Said(r, from) \in {-1, 1}
                          /\ InDoubt(r, to) => spans[i].last - Said(r, to) \in {-1, 1}
    BY DEF TimesOnTheirWord
  <2>1. recording \in Recordings /\ LoadRecitation(recording).kept
    BY KeptAsLoaded
  <2>2. recording[a].raw # NoAya /\ IsWalk(recording[a].raw)
    BY <2>1, KeptIsWalked
  <2>3. /\ recording[a].raw \in Seq(Seq(Int)) /\ recording[a].words \in Nat \ {0}
        /\ recording[a].doubled \in 0 .. recording[a].words
    BY <2>1, <2>2, RecordingAssumption
  <2>4. i \in DOMAIN recording[a].raw
    BY DEF Spans
  <2> DEFINE r == recording[a]
  <2>5. /\ r.raw \in Seq(Seq(Int)) /\ IsWalk(r.raw) /\ r.words \in Nat \ {0}
        /\ r.doubled \in 0 .. r.words /\ Numbered(r) /\ i \in DOMAIN r.raw
    BY <2>2, <2>3, <2>4
  <2> HIDE DEF r
  <2>6. LET from == r.raw[i][1]
            to   == r.raw[i][2] - 1
            span == Spans(r.raw, r.words)[i]
        IN  /\ span.first .. span.last = {Said(r, s) : s \in from .. to} <=> ~InDoubt(r, from) /\ ~InDoubt(r, to)
            /\ InDoubt(r, from) => span.first - Said(r, from) \in {-1, 1}
            /\ InDoubt(r, to) => span.last - Said(r, to) \in {-1, 1}
    BY <2>5, TupleIsShown
  <2> QED BY <2>6 DEF r
<1> QED BY <1>1, JudgedHolds, PTL

-----------------------------------------------------------------------------
(* The order of the clauses.  What a clause is credited with is no more than *)
(* what it explains alone, and the first is credited with all of that; and   *)
(* nothing else in a verdict looks at the order.                             *)

IsRow(row) ==
    /\ row = [root |-> row.root, padded |-> row.padded, en |-> row.en, fr |-> row.fr]
    /\ row.en \in Seq(SUBSET Stems) /\ row.fr \in Seq(Range(row.fr))

\* b explains all that a does.
ExplainsAll(ev, root, a, b) ==
    /\ Explained(ev, root, a) \in Nat /\ Explained(ev, root, b) \in Nat
    /\ Explained(ev, root, a) <= Explained(ev, root, b)

(* More stems explain no less. *)
LEMMA MoreExplainsMore ==
  ASSUME NEW ev \in Evidence, NEW root \in Roots, NEW a, NEW b, a \subseteq b
  PROVE  ExplainsAll(ev, root, a, b)
<1> DEFINE occ(c, s) == Occurrences(Agreed(ev, root, c, s))
           f == [s \in Shapes |-> occ(a, s)]
           g == [s \in Shapes |-> occ(b, s)]
<1>1. ASSUME NEW s \in Shapes PROVE occ(a, s) \in Nat /\ occ(b, s) \in Nat /\ occ(a, s) <= occ(b, s)
  <2> DEFINE A == Agreed(ev, root, a, s)
             B == Agreed(ev, root, b, s)
             na == [x \in A |-> x.n]
             nb == [x \in B |-> x.n]
  <2>1. A \in SUBSET B
    BY DEF Agreed, Agrees
  <2>2. B \in SUBSET ev[root][s]
    BY DEF Agreed, Answerable
  <2>3. IsFiniteSet(B) /\ \A x \in B : x.n \in Nat
    BY <2>2, SenseAssumption, FS_Subset
  <2> HIDE DEF A, B
  <2>4. (\A x \in A : na[x] \in Nat /\ na[x] <= nb[x]) /\ (\A x \in B : nb[x] \in Nat) /\ DOMAIN na = A /\ DOMAIN nb = B
    BY <2>1, <2>3
  <2> HIDE DEF na, nb
  <2>5. /\ SumFunctionOnSet(na, A) \in Nat /\ SumFunctionOnSet(nb, B) \in Nat
        /\ SumFunctionOnSet(na, A) <= SumFunctionOnSet(nb, B)
    BY <2>1, <2>3, <2>4, SumIsMonotone
  <2>6. occ(a, s) = SumFunctionOnSet(na, A) /\ occ(b, s) = SumFunctionOnSet(nb, B)
    BY <2>4 DEF Occurrences, SumFunction, A, B, na, nb
  <2> QED BY <2>5, <2>6
<1> HIDE DEF occ
<1>2. (\A s \in Shapes : f[s] \in Nat /\ f[s] <= g[s]) /\ (\A s \in Shapes : g[s] \in Nat) /\ DOMAIN f = Shapes /\ DOMAIN g = Shapes
  BY <1>1
<1> HIDE DEF f, g
<1>3. /\ SumFunctionOnSet(f, Shapes) \in Nat /\ SumFunctionOnSet(g, Shapes) \in Nat
      /\ SumFunctionOnSet(f, Shapes) <= SumFunctionOnSet(g, Shapes)
  BY <1>2, SenseAssumption, SumIsMonotone
<1>4. Explained(ev, root, a) = SumFunctionOnSet(f, Shapes) /\ Explained(ev, root, b) = SumFunctionOnSet(g, Shapes)
  BY <1>2 DEF Explained, SumFunction, f, g, occ
<1> QED BY <1>3, <1>4 DEF ExplainsAll

(* The clauses as they come in a heaviest-first order of them. *)
IsOrdered(ev, row, after, at) ==
    LET n == Len(row.en)
    IN  /\ n \in Nat /\ at \in [1 .. n -> 1 .. n]
        /\ \A i, j \in 1 .. n : at[i] = at[j] => i = j
        /\ \A i \in 1 .. n : \E k \in 1 .. n : at[k] = i
        /\ after.en = [k \in 1 .. n |-> row.en[at[k]]]
        /\ after.fr = [k \in DOMAIN row.fr |-> row.fr[at[k]]]
        /\ after.root = row.root
        /\ \A k \in 1 .. n : Explained(ev, row.root, row.en[at[k]]) <= Explained(ev, row.root, row.en[at[1]])

LEMMA HeaviestFirst ==
  ASSUME NEW ev \in Evidence, NEW row, IsRow(row), FoundAsItStands(row), Len(row.en) >= 2,
         row.fr = <<>> \/ Len(row.fr) = Len(row.en)
  PROVE  \E at : IsOrdered(ev, row, OrderRow(ev, row), at)
<1> DEFINE n == Len(row.en)
           D == 1 .. n
           alone(i) == Explained(ev, row.root, row.en[i])
           place(i) == Cardinality({j \in 1 .. n : alone(j) > alone(i) \/ (alone(j) = alone(i) /\ j <= i)})
           pick(k) == CHOOSE i \in 1 .. n : place(i) = k
           R == {p \in D \X D : alone(p[1]) > alone(p[2]) \/ (alone(p[1]) = alone(p[2]) /\ p[1] <= p[2])}
           at == [k \in D |-> pick(k)]
           after == OrderRow(ev, row)
<1>1. n \in Nat /\ IsFiniteSet(D) /\ Cardinality(D) = n
  BY LenProperties, UpTo DEF IsRow
<1>2. \A i \in D : alone(i) \in Nat
  BY MoreExplainsMore DEF FoundAsItStands, ExplainsAll
<1> HIDE DEF n, alone
<1>3. IsLine(R, D)
  <2>1. \A i, j \in D : <<i, j>> \in R <=> alone(i) > alone(j) \/ (alone(i) = alone(j) /\ i <= j)
    OBVIOUS
  <2>2. \A i \in D : i \in Int
    BY <1>1
  <2> HIDE DEF R, D
  <2> QED BY <1>2, <2>1, <2>2 DEF IsLine
<1>4. ArePlaces([i \in D |-> Cardinality(NoLater(R, D, i))], R, D)
  <2> HIDE DEF R, D
  <2> QED BY <1>1, <1>3, PlacesInALine
<1>5. ASSUME NEW i \in D PROVE place(i) = Cardinality(NoLater(R, D, i))
  <2>1. NoLater(R, D, i) = {j \in 1 .. n : alone(j) > alone(i) \/ (alone(j) = alone(i) /\ j <= i)}
    BY DEF NoLater
  <2> QED BY <2>1
<1> DEFINE where == [i \in D |-> place(i)]
<1>6. ArePlaces(where, R, D)
  <2>1. where = [i \in D |-> Cardinality(NoLater(R, D, i))]
    <3> HIDE DEF place, R, D
    <3> QED BY <1>5
  <2> QED BY <1>4, <2>1
<1>7. /\ \A i \in D : place(i) \in 1 .. n
      /\ \A i, j \in D : place(i) <= place(j) <=> <<i, j>> \in R
      /\ \A i, j \in D : place(i) = place(j) => i = j
      /\ \A k \in 1 .. n : \E i \in D : place(i) = k
  <2> HIDE DEF place, R, D
  <2> QED BY <1>1, <1>6 DEF ArePlaces
<1> HIDE DEF place, R
<1>8. \A k \in D : pick(k) \in D /\ place(pick(k)) = k
  BY <1>7
<1> HIDE DEF pick
<1>9. /\ at \in [D -> D]
      /\ \A i, j \in D : at[i] = at[j] => i = j
  BY <1>8
<1>10. ASSUME NEW i \in D PROVE \E k \in D : at[k] = i
  <2>1. place(i) \in D /\ pick(place(i)) \in D /\ place(pick(place(i))) = place(i)
    BY <1>7, <1>8
  <2>2. pick(place(i)) = i
    BY <1>7, <2>1
  <2> QED BY <2>1, <2>2
<1>11. ASSUME NEW k \in D PROVE alone(at[k]) <= alone(at[1])
  <2>1. 1 \in D /\ 1 <= k
    BY <1>1
  <2>2. pick(1) \in D /\ pick(k) \in D /\ place(pick(1)) = 1 /\ place(pick(k)) = k
    BY <1>8, <2>1
  <2>3. <<pick(1), pick(k)>> \in R
    BY <1>7, <2>1, <2>2
  <2>4. alone(pick(1)) > alone(pick(k)) \/ alone(pick(1)) = alone(pick(k))
    BY <2>3 DEF R
  <2>5. alone(pick(1)) \in Nat /\ alone(pick(k)) \in Nat
    BY <1>2, <2>2
  <2> QED BY <2>1, <2>4, <2>5
<1>12. after = [row EXCEPT !.en = [k \in 1 .. n |-> row.en[pick(k)]],
                           !.fr = [k \in DOMAIN row.fr |-> row.fr[pick(k)]]]
  BY <1>1 DEF OrderRow, pick, place, alone, n
<1>13. /\ after.en = [k \in 1 .. n |-> row.en[pick(k)]]
       /\ after.fr = [k \in DOMAIN row.fr |-> row.fr[pick(k)]]
       /\ after.root = row.root
  <2>1. DOMAIN row = {"root", "padded", "en", "fr"}
    BY DEF IsRow
  <2> HIDE DEF after
  <2> QED BY <1>12, <2>1
<1>14. after.en = [k \in 1 .. n |-> row.en[at[k]]]
  BY <1>13
<1>15. after.fr = [k \in DOMAIN row.fr |-> row.fr[at[k]]]
  <2>1. DOMAIN row.fr \subseteq D
    <3>1. row.fr = <<>> \/ DOMAIN row.fr = D
      BY LenProperties DEF IsRow, n
    <3>2. DOMAIN <<>> = {}
      OBVIOUS
    <3> QED BY <3>1, <3>2
  <2> QED BY <1>13, <2>1
<1> HIDE DEF at, after
<1>16. IsOrdered(ev, row, after, at)
  BY <1>1, <1>9, <1>10, <1>11, <1>13, <1>14, <1>15 DEF IsOrdered, n, alone
<1> QED BY <1>16 DEF after

SameClaim(v, w) == [v EXCEPT !.leads = TRUE] = [w EXCEPT !.leads = TRUE]
LeadsBy(ev, root, p) ==
    Verdict(ev, root, p).hit > 0 =>
       Verdict(ev, root, p).leads = \A i \in DOMAIN p : Covered(ev, root, p)[i] <= Covered(ev, root, p)[1]

(* A verdict is of the clauses, not of their order; except for which leads. *)
LEMMA VerdictOfTheClauses ==
  ASSUME NEW ev, NEW root, NEW p, NEW q, Range(p) = Range(q)
  PROVE  SameClaim(Verdict(ev, root, p), Verdict(ev, root, q)) /\ LeadsBy(ev, root, p)
<1>1. Content(p) = Content(q)
  BY DEF Content
<1>2. Dispersion(ev, root, p) = Dispersion(ev, root, q)
  <2> DEFINE used == Used(ev, root, Content(p))
             measured(s) == {t \in Content(s) \ used :
                               \E i \in DOMAIN s : t \in s[i] /\ (s[i] \cap used # {} \/ ~Company(ev, t, used))}
  <2> HIDE DEF used
  <2>1. \A s : measured(s) = {t \in Content(s) \ used :
                                \E c \in Range(s) : t \in c /\ (c \cap used # {} \/ ~Company(ev, t, used))}
    BY DEF Range
  <2>2. measured(p) = measured(q)
    BY <1>1, <2>1
  <2>3. Dispersion(ev, root, p) = Min({NoUngrounded} \cup {Cardinality(RootsOf(ev, t)) : t \in measured(p)})
    BY DEF Dispersion, used
  <2>4. Dispersion(ev, root, q) = Min({NoUngrounded} \cup {Cardinality(RootsOf(ev, t)) : t \in measured(q)})
    BY <1>1 DEF Dispersion, used
  <2> HIDE DEF measured
  <2> QED BY <2>2, <2>3, <2>4
<1> DEFINE stems == Content(p)
           slots == ShapesOf(ev, root)
           both == Plus(Recall(ev, root, stems), <<Cardinality(Used(ev, root, stems)), Cardinality(stems)>>)
           hit == Cardinality({s \in slots : Agreed(ev, root, stems, s) # {}})
           score == IF both[1] = 0 THEN <<0, 1>>
                    ELSE <<2 * Recall(ev, root, stems)[1] * <<Cardinality(Used(ev, root, stems)), Cardinality(stems)>>[1], both[1]>>
           said == <<Explained(ev, root, stems), Tested(ev, root)>>
           rest == <<Branch(ev, root, stems), Tested(ev, root)>>
           rides == Dispersion(ev, root, p)
           none == [hit |-> 0, score |-> <<0, 1>>, coverage |-> <<0, 1>>, dispersion |-> 0,
                    branch |-> <<0, 1>>, leads |-> FALSE]
           leads(s) == \A i \in DOMAIN s : Covered(ev, root, s)[i] <= Covered(ev, root, s)[1]
           of(s) == [hit |-> hit, score |-> score, coverage |-> said, dispersion |-> rides, branch |-> rest, leads |-> leads(s)]
<1>3. Verdict(ev, root, p) = IF stems = {} \/ slots = {} THEN none ELSE of(p)
  BY DEF Verdict
<1>4. Verdict(ev, root, q) = IF stems = {} \/ slots = {} THEN none ELSE of(q)
  BY <1>1, <1>2 DEF Verdict
<1>5. none.hit = 0
  OBVIOUS
<1> HIDE DEF stems, slots, hit, score, said, rest, rides, leads
<1>6. [of(p) EXCEPT !.leads = TRUE] = [of(q) EXCEPT !.leads = TRUE]
  <2>1. \A a, b, v : [[hit |-> hit, score |-> score, coverage |-> said, dispersion |-> rides, branch |-> rest, leads |-> a] EXCEPT !.leads = v]
             = [[hit |-> hit, score |-> score, coverage |-> said, dispersion |-> rides, branch |-> rest, leads |-> b] EXCEPT !.leads = v]
    OBVIOUS
  <2> QED BY <2>1, Zenon
<1>7. of(p).leads = leads(p)
  <2>1. \A a : [hit |-> hit, score |-> score, coverage |-> said, dispersion |-> rides, branch |-> rest, leads |-> a].leads = a
    OBVIOUS
  <2> QED BY <2>1, Zenon
<1> HIDE DEF none, of
<1>8. CASE stems = {} \/ slots = {}
  <2>1. Verdict(ev, root, p) = none /\ Verdict(ev, root, q) = none /\ ~(none.hit > 0)
    BY <1>3, <1>4, <1>5, <1>8
  <2> QED BY <2>1 DEF SameClaim, LeadsBy
<1>9. CASE ~(stems = {} \/ slots = {})
  <2>1. Verdict(ev, root, p) = of(p) /\ Verdict(ev, root, q) = of(q)
    BY <1>3, <1>4, <1>9
  <2> QED BY <1>6, <1>7, <2>1 DEF leads, SameClaim, LeadsBy
<1> QED BY <1>8, <1>9

Beside(en, fr, places, e, f) == Cardinality({k \in places : e \in en[k] /\ fr[k] = f})

\* A French clause is as often beside an English word as it was.
FrenchGoesAlong(row, after) ==
    \A e \in Stems, f \in Range(row.fr) :
        Beside(row.en, row.fr, DOMAIN row.en, e, f) = Beside(after.en, after.fr, DOMAIN row.en, e, f)

(* What ordering is to do for one row. *)
RowIsEnough(ev, row, after) ==
    LET was == Verdict(ev, row.root, row.en)
        is  == Verdict(ev, after.root, after.en)
        whole == row.fr = <<>> \/ Len(row.fr) = Len(row.en)
    IN  /\ FoundAsItStands(row) =>
             /\ whole /\ is.hit > 0 => is.leads
             /\ SameClaim(is, was)
        /\ Len(row.fr) = Len(row.en) => FrenchGoesAlong(row, after)

LEMMA AsWritten ==
  ASSUME NEW ev \in Evidence, NEW row, IsRow(row),
         ~FoundAsItStands(row) \/ Len(row.en) < 2 \/ (row.fr # <<>> /\ Len(row.fr) # Len(row.en))
  PROVE  RowIsEnough(ev, row, row)
<1> DEFINE is == Verdict(ev, row.root, row.en)
<1>1. ASSUME FoundAsItStands(row), row.fr = <<>> \/ Len(row.fr) = Len(row.en), is.hit > 0 PROVE is.leads
  <2>1. Len(row.en) < 2 /\ Len(row.en) \in Nat /\ DOMAIN row.en = 1 .. Len(row.en)
    BY <1>1, LenProperties DEF IsRow
  <2>2. ASSUME NEW i \in DOMAIN row.en
        PROVE  Covered(ev, row.root, row.en)[i] <= Covered(ev, row.root, row.en)[1]
    <3>1. i = 1
      BY <2>1
    <3>2. Covered(ev, row.root, row.en)[1] \in Nat
      BY <1>1, <3>1, MoreExplainsMore DEF Covered, FoundAsItStands, ExplainsAll
    <3> QED BY <3>1, <3>2
  <2>3. is.leads = \A i \in DOMAIN row.en : Covered(ev, row.root, row.en)[i] <= Covered(ev, row.root, row.en)[1]
    <3>1. LeadsBy(ev, row.root, row.en)
      BY VerdictOfTheClauses
    <3> QED BY <1>1, <3>1 DEF LeadsBy
  <2> QED BY <2>2, <2>3
<1>2. SameClaim(is, is)
  BY DEF SameClaim
<1>3. FrenchGoesAlong(row, row)
  BY DEF FrenchGoesAlong
<1> HIDE DEF is
<1> QED BY <1>1, <1>2, <1>3 DEF RowIsEnough, is

LEMMA AsSorted ==
  ASSUME NEW ev \in Evidence, NEW row, IsRow(row), FoundAsItStands(row), NEW after, NEW at, IsOrdered(ev, row, after, at), Len(row.en) >= 2
  PROVE  RowIsEnough(ev, row, after)
<1> DEFINE n == Len(row.en)
           root == row.root
<1>1. /\ n \in Nat /\ DOMAIN row.en = 1 .. n /\ root \in Roots
      /\ at \in [1 .. n -> 1 .. n]
      /\ \A i, j \in 1 .. n : at[i] = at[j] => i = j
      /\ \A i \in 1 .. n : \E k \in 1 .. n : at[k] = i
      /\ after.en = [k \in 1 .. n |-> row.en[at[k]]]
      /\ after.fr = [k \in DOMAIN row.fr |-> row.fr[at[k]]]
      /\ after.root = root
  BY LenProperties DEF IsOrdered, IsRow, FoundAsItStands
<1>2. \A k \in 1 .. n : Explained(ev, root, row.en[at[k]]) <= Explained(ev, root, row.en[at[1]])
  BY DEF IsOrdered
<1>3. 1 \in 1 .. n
  BY <1>1
<1> HIDE DEF n, root
<1>4. Range(after.en) = Range(row.en)
  <2>1. ASSUME NEW c \in Range(row.en) PROVE c \in Range(after.en)
    <3>1. PICK i \in 1 .. n : c = row.en[i]
      BY <1>1 DEF Range
    <3>2. PICK k \in 1 .. n : at[k] = i
      BY <1>1
    <3> QED BY <1>1, <3>1, <3>2 DEF Range
  <2>2. ASSUME NEW c \in Range(after.en) PROVE c \in Range(row.en)
    <3>1. PICK k \in DOMAIN after.en : c = after.en[k]
      BY DEF Range
    <3>2. k \in 1 .. n /\ c = row.en[at[k]] /\ at[k] \in DOMAIN row.en
      BY <1>1, <3>1
    <3> QED BY <3>2 DEF Range
  <2> QED BY <2>1, <2>2
<1> DEFINE is == Verdict(ev, root, after.en)
           was == Verdict(ev, root, row.en)
           cover == Covered(ev, root, after.en)
<1>5. SameClaim(is, was)
  BY <1>4, VerdictOfTheClauses
<1>6. is.hit > 0 => is.leads = \A i \in DOMAIN after.en : cover[i] <= cover[1]
  <2>1. LeadsBy(ev, root, after.en)
    BY VerdictOfTheClauses
  <2> QED BY <2>1 DEF LeadsBy
<1>7. ASSUME NEW i \in DOMAIN after.en PROVE cover[i] <= cover[1]
  <2> DEFINE alone(k) == Explained(ev, root, row.en[at[k]])
             earlier(k) == UNION {after.en[j] : j \in 1 .. (k - 1)}
  <2>1. i \in 1 .. n /\ DOMAIN after.en = 1 .. n
    BY <1>1
  <2>2. cover[i] = Explained(ev, root, row.en[at[i]] \ earlier(i)) /\ cover[1] = Explained(ev, root, row.en[at[1]] \ earlier(1))
    BY <1>1, <1>3, <2>1 DEF Covered
  <2>3. row.en[at[1]] \ earlier(1) = row.en[at[1]]
    OBVIOUS
  <2> HIDE DEF earlier, cover
  <2>4. cover[i] \in Nat /\ alone(i) \in Nat /\ cover[i] <= alone(i)
    <3>1. ExplainsAll(ev, root, row.en[at[i]] \ earlier(i), row.en[at[i]])
      BY <1>1, MoreExplainsMore
    <3> QED BY <2>2, <3>1 DEF ExplainsAll
  <2>5. alone(1) \in Nat
    <3>1. ExplainsAll(ev, root, row.en[at[1]], row.en[at[1]])
      BY <1>1, MoreExplainsMore
    <3> QED BY <3>1 DEF ExplainsAll
  <2>6. cover[1] = alone(1) /\ alone(i) <= alone(1)
    BY <1>2, <2>1, <2>2, <2>3
  <2> HIDE DEF alone
  <2> QED BY <2>4, <2>5, <2>6
<1>8. ASSUME Len(row.fr) = n, NEW e, NEW f
      PROVE  Beside(row.en, row.fr, DOMAIN row.en, e, f) = Beside(after.en, after.fr, DOMAIN row.en, e, f)
  <2> DEFINE X == {k \in DOMAIN row.en : e \in row.en[k] /\ row.fr[k] = f}
             Y == {k \in DOMAIN row.en : e \in after.en[k] /\ after.fr[k] = f}
             h == [k \in Y |-> at[k]]
  <2>1. DOMAIN row.fr = 1 .. n
    BY <1>8, LenProperties DEF IsRow
  <2>2. \A k \in 1 .. n : at[k] \in 1 .. n /\ (k \in Y <=> at[k] \in X)
    <3> SUFFICES ASSUME NEW k \in 1 .. n PROVE at[k] \in 1 .. n /\ (k \in Y <=> at[k] \in X)
      OBVIOUS
    <3>1. at[k] \in 1 .. n /\ after.en[k] = row.en[at[k]] /\ after.fr[k] = row.fr[at[k]]
      BY <1>1, <2>1
    <3> QED BY <1>1, <3>1
  <2>3. X \in SUBSET (1 .. n) /\ Y \in SUBSET (1 .. n)
    BY <1>1
  <2>4. IsFiniteSet(X) /\ IsFiniteSet(Y)
    BY <1>1, <2>3, UpTo, FS_Subset
  <2> HIDE DEF X, Y
  <2>5. h \in Bijection(Y, X)
    <3>1. h \in [Y -> X]
      BY <2>2, <2>3
    <3>2. \A k, l \in Y : h[k] = h[l] => k = l
      BY <1>1, <2>3
    <3>3. \A i \in X : \E k \in Y : h[k] = i
      <4> SUFFICES ASSUME NEW i \in X PROVE \E k \in Y : h[k] = i
        OBVIOUS
      <4>1. PICK k \in 1 .. n : at[k] = i
        BY <1>1, <2>3
      <4> QED BY <2>2, <4>1
    <3> QED BY <3>1, <3>2, <3>3 DEF Bijection, Injection, Surjection, IsInjective
  <2>6. Cardinality(Y) = Cardinality(X)
    BY <2>4, <2>5, FS_Bijection DEF ExistsBijection
  <2> QED BY <2>6 DEF X, Y, Beside
<1>9. Verdict(ev, after.root, after.en) = is /\ Verdict(ev, row.root, row.en) = was
  BY <1>1 DEF root
<1>10. is.hit > 0 => is.leads
  BY <1>6, <1>7
<1>11. Len(row.fr) = n => FrenchGoesAlong(row, after)
  BY <1>8 DEF FrenchGoesAlong
<1> HIDE DEF is, was
<1> QED BY <1>5, <1>9, <1>10, <1>11 DEF RowIsEnough, n

LEMMA OrderedRow ==
  ASSUME NEW ev \in Evidence, NEW row, IsRow(row)
  PROVE  RowIsEnough(ev, row, OrderRow(ev, row))
<1>1. CASE ~FoundAsItStands(row) \/ Len(row.en) < 2 \/ (row.fr # <<>> /\ Len(row.fr) # Len(row.en))
  <2>1. OrderRow(ev, row) = row
    BY <1>1 DEF OrderRow
  <2> QED BY <1>1, <2>1, AsWritten
<1>2. CASE ~(~FoundAsItStands(row) \/ Len(row.en) < 2 \/ (row.fr # <<>> /\ Len(row.fr) # Len(row.en)))
  <2>1. Len(row.en) \in Nat
    BY LenProperties DEF IsRow
  <2>2. Len(row.en) >= 2
    BY <1>2, <2>1
  <2>3. PICK at : IsOrdered(ev, row, OrderRow(ev, row), at)
    BY <1>2, <2>2, HeaviestFirst
  <2>4. FoundAsItStands(row)
    BY <1>2
  <2> QED BY <2>2, <2>3, <2>4, AsSorted
<1> QED BY <1>1, <1>2

\* The corpus and the file are of the inputs, and -order has been over the file.
OrderInv ==
    /\ corpus \in Evidence /\ file \in Proposals
    /\ sstage = "ordered" => ordered = [i \in DOMAIN file |-> OrderRow(corpus, file[i])]

(* order.go: sorting the clauses by what each explains alone is enough for  *)
(* the check, which credits a clause only with what no earlier clause said; *)
(* no other term of the verdict moves, and the French goes with its English. *)
THEOREM SortingIsEnough == SSpec => []OrderIsEnough
<1>1. SInit => OrderInv
  BY DEF SInit, OrderInv
<1>2. OrderInv /\ [SNext]_svars => OrderInv'
  BY DEF OrderInv, SNext, Order, BuildBundle, ReportCost, svars
<1>3. OrderInv => OrderIsEnough
  <2> SUFFICES ASSUME OrderInv, sstage = "ordered" PROVE OrderIsEnough
    BY DEF OrderIsEnough
  <2>1. ASSUME NEW i \in DOMAIN file PROVE RowIsEnough(corpus, file[i], ordered[i])
    <3>1. corpus \in Evidence /\ ordered[i] = OrderRow(corpus, file[i])
      BY DEF OrderInv
    <3>2. IsRow(file[i])
      <4>1. file \in Proposals /\ file[i] \in Range(file)
        BY DEF OrderInv, Range
      <4> QED BY <4>1, SenseAssumption DEF IsRow
    <3> QED BY <3>1, <3>2, OrderedRow
  <2>2. \A i \in DOMAIN file : RowIsEnough(corpus, file[i], ordered[i])
    BY <2>1
  <2> QED BY <2>2, Zenon DEF OrderIsEnough, RowIsEnough, SameClaim, FrenchGoesAlong, Beside
<1> QED BY <1>1, <1>2, <1>3, PTL DEF SSpec

-----------------------------------------------------------------------------
(* The French.  dp counts the pairs of a best pairing of the rests, walk     *)
(* makes that many, and a pairing that keeps the order has no more.          *)

Grid(a, b) == (1 .. Len(a) + 1) \X (1 .. Len(b) + 1)

\* d and w have at two places what alignLCS computes there from the next ones.
CountsHere(a, b, d, i, j) ==
    /\ i > Len(a) \/ j > Len(b) => d[<<i, j>>] = 0
    /\ i <= Len(a) /\ j <= Len(b) /\ a[i] = b[j] => d[<<i, j>>] = d[<<i + 1, j + 1>>] + 1
    /\ i <= Len(a) /\ j <= Len(b) /\ a[i] # b[j] =>
          d[<<i, j>>] = IF d[<<i + 1, j>>] >= d[<<i, j + 1>>] THEN d[<<i + 1, j>>] ELSE d[<<i, j + 1>>]
CountsFrom(a, b, d) ==
    /\ d \in [Grid(a, b) -> Nat]
    /\ \A i \in 1 .. Len(a) + 1, j \in 1 .. Len(b) + 1 : CountsHere(a, b, d, i, j)

Paired(w, i, j) == [w EXCEPT ![i] = j]
WalksHere(a, b, d, w, i, j) ==
    /\ i <= Len(a) /\ j <= Len(b) /\ a[i] = b[j] => w[<<i, j>>] = Paired(w[<<i + 1, j + 1>>], i, j)
    /\ i <= Len(a) /\ j <= Len(b) /\ a[i] # b[j] /\ d[<<i, j + 1>>] >= d[<<i + 1, j>>] =>
          w[<<i, j>>] = w[<<i, j + 1>>]
    /\ i <= Len(a) /\ (j > Len(b) \/ (a[i] # b[j] /\ ~(d[<<i, j + 1>>] >= d[<<i + 1, j>>]))) =>
          w[<<i, j>>] = Paired(w[<<i + 1, j>>], i, 0)
WalksAlong(a, b, d, w) ==
    /\ w \in [Grid(a, b) -> [1 .. Len(a) -> 0 .. Len(b)]]
    /\ \A i \in 1 .. Len(a) + 1, j \in 1 .. Len(b) + 1 : WalksHere(a, b, d, w, i, j)

\* One step of the two recursions.
CountAt(a, b, i, j, d) ==
    IF i > Len(a) \/ j > Len(b) THEN 0
    ELSE IF a[i] = b[j] THEN d[<<i + 1, j + 1>>] + 1
    ELSE IF d[<<i + 1, j>>] >= d[<<i, j + 1>>] THEN d[<<i + 1, j>>] ELSE d[<<i, j + 1>>]
CountStep(a, b, at, d) == CountAt(a, b, at[1], at[2], d)
WalkAt(a, b, d, i, j, w) ==
    IF i > Len(a) THEN [k \in 1 .. Len(a) |-> 0]
    ELSE IF j <= Len(b) /\ a[i] = b[j] THEN Paired(w[<<i + 1, j + 1>>], i, j)
    ELSE IF j <= Len(b) /\ d[<<i, j + 1>>] >= d[<<i + 1, j>>] THEN w[<<i, j + 1>>]
    ELSE Paired(w[<<i + 1, j>>], i, 0)
WalkStep(a, b, d, at, w) == WalkAt(a, b, d, at[1], at[2], w)

\* How far two places are from the ends.
Left(a, b) == [at \in Grid(a, b) |-> (Len(a) + 1 - at[1]) + (Len(b) + 1 - at[2])]

LEMMA NextOnTheGrid ==
  ASSUME NEW a, NEW b, Len(a) \in Nat, Len(b) \in Nat, NEW at \in Grid(a, b)
  PROVE  /\ at[1] \in Int /\ at[2] \in Int /\ at = <<at[1], at[2]>>
         /\ at[1] \in 1 .. Len(a) + 1 /\ at[2] \in 1 .. Len(b) + 1
         /\ Left(a, b)[at] \in 0 .. Len(a) + Len(b)
         /\ at[1] <= Len(a) =>
               <<at[1] + 1, at[2]>> \in Grid(a, b) /\ Left(a, b)[<<at[1] + 1, at[2]>>] < Left(a, b)[at]
         /\ at[2] <= Len(b) =>
               <<at[1], at[2] + 1>> \in Grid(a, b) /\ Left(a, b)[<<at[1], at[2] + 1>>] < Left(a, b)[at]
         /\ at[1] <= Len(a) /\ at[2] <= Len(b) =>
               <<at[1] + 1, at[2] + 1>> \in Grid(a, b) /\ Left(a, b)[<<at[1] + 1, at[2] + 1>>] < Left(a, b)[at]
<1> DEFINE i == at[1]
           j == at[2]
           n == Len(a)
           m == Len(b)
           G == (1 .. n + 1) \X (1 .. m + 1)
           Rest(x, y) == (n + 1 - x) + (m + 1 - y)
<1>1. i \in 1 .. n + 1 /\ j \in 1 .. m + 1 /\ at = <<i, j>>
  BY DEF Grid
<1>2. \A x \in 1 .. n + 1, y \in 1 .. m + 1 : <<x, y>> \in G /\ Left(a, b)[<<x, y>>] = Rest(x, y)
  BY DEF Left, Grid
<1>3. n \in Nat /\ m \in Nat
  OBVIOUS
<1> HIDE DEF i, j, n, m, G
<1>4. i \in Int /\ j \in Int /\ Rest(i, j) \in 0 .. n + m
  BY <1>1, <1>3
<1>5. i <= n => i + 1 \in 1 .. n + 1 /\ Rest(i + 1, j) < Rest(i, j) /\ (j <= m => Rest(i + 1, j + 1) < Rest(i, j))
  BY <1>1, <1>3
<1>6. j <= m => j + 1 \in 1 .. m + 1 /\ Rest(i, j + 1) < Rest(i, j)
  BY <1>1, <1>3
<1> HIDE DEF Rest
<1>7. Left(a, b)[at] = Rest(i, j)
  BY <1>1, <1>2
<1>8. i <= n => <<i + 1, j>> \in G /\ Left(a, b)[<<i + 1, j>>] < Left(a, b)[at]
  BY <1>1, <1>2, <1>5, <1>7
<1>9. j <= m => <<i, j + 1>> \in G /\ Left(a, b)[<<i, j + 1>>] < Left(a, b)[at]
  BY <1>1, <1>2, <1>6, <1>7
<1>10. i <= n /\ j <= m => <<i + 1, j + 1>> \in G /\ Left(a, b)[<<i + 1, j + 1>>] < Left(a, b)[at]
  BY <1>1, <1>2, <1>5, <1>6, <1>7
<1> QED BY <1>1, <1>4, <1>7, <1>8, <1>9, <1>10 DEF i, j, n, m, G, Grid

LEMMA CountsAreThere ==
  ASSUME NEW a, NEW b, Len(a) \in Nat, Len(b) \in Nat
  PROVE  \E d \in [Grid(a, b) -> Nat] : \A at \in Grid(a, b) : d[at] = CountStep(a, b, at, d)
<1> DEFINE D == Grid(a, b)
           V == Nat
           n == Len(a) + Len(b)
           F == [p \in D \X [D -> V] |-> CountStep(a, b, p[1], p[2])]
<1>1. n \in Nat /\ Left(a, b) \in [D -> 0 .. n]
  <2>1. \A at \in D : Left(a, b)[at] \in 0 .. n
    BY NextOnTheGrid
  <2>2. Left(a, b) = [at \in D |-> Left(a, b)[at]]
    BY DEF Left
  <2> HIDE DEF D
  <2> QED BY <2>1, <2>2
<1>2. ASSUME NEW at \in D, NEW g \in [D -> V] PROVE CountStep(a, b, at, g) \in V
  <2>1. /\ at[1] <= Len(a) => <<at[1] + 1, at[2]>> \in D
        /\ at[2] <= Len(b) => <<at[1], at[2] + 1>> \in D
        /\ at[1] <= Len(a) /\ at[2] <= Len(b) => <<at[1] + 1, at[2] + 1>> \in D
        /\ at[1] \in Int /\ at[2] \in Int
    BY NextOnTheGrid
  <2> HIDE DEF D
  <2> QED BY <2>1 DEF CountStep, CountAt
<1>3. F \in [D \X [D -> V] -> V]
  <2> HIDE DEF D, V
  <2> QED BY <1>2
<1>4. ASSUME NEW at \in D, NEW g \in [D -> V], NEW h \in [D -> V],
             \A e \in D : Left(a, b)[e] < Left(a, b)[at] => g[e] = h[e]
      PROVE  F[<<at, g>>] = F[<<at, h>>]
  <2>1. /\ at[1] \in Int /\ at[2] \in Int
        /\ at[1] <= Len(a) => g[<<at[1] + 1, at[2]>>] = h[<<at[1] + 1, at[2]>>]
        /\ at[2] <= Len(b) => g[<<at[1], at[2] + 1>>] = h[<<at[1], at[2] + 1>>]
        /\ at[1] <= Len(a) /\ at[2] <= Len(b) => g[<<at[1] + 1, at[2] + 1>>] = h[<<at[1] + 1, at[2] + 1>>]
    BY <1>4, NextOnTheGrid
  <2>2. CountStep(a, b, at, g) = CountStep(a, b, at, h)
    <3> HIDE DEF D
    <3> QED BY <2>1 DEF CountStep, CountAt
  <2> HIDE DEF D, V
  <2> QED BY <2>2
<1>5. \E g \in [D -> V] : \A at \in D : g[at] = F[<<at, g>>]
  <2>1. \A at \in D : \A g, h \in [D -> V] :
           (\A e \in D : Left(a, b)[e] < Left(a, b)[at] => g[e] = h[e]) => F[<<at, g>>] = F[<<at, h>>]
    BY <1>4
  <2>2. V # {}
    OBVIOUS
  <2>3. IsRecursion(F, D, V, Left(a, b), n)
    <3> HIDE DEF F, D, V, n
    <3> QED BY <1>1, <1>3, <2>1, <2>2 DEF IsRecursion
  <2> HIDE DEF F, D, V, n
  <2> QED BY <2>3, RecursionIsSound
<1> HIDE DEF D, V
<1> QED BY <1>5 DEF D, V

LEMMA WalkIsThere ==
  ASSUME NEW a, NEW b, Len(a) \in Nat, Len(b) \in Nat, NEW d
  PROVE  \E w \in [Grid(a, b) -> [1 .. Len(a) -> 0 .. Len(b)]] : \A at \in Grid(a, b) : w[at] = WalkStep(a, b, d, at, w)
<1> DEFINE D == Grid(a, b)
           V == [1 .. Len(a) -> 0 .. Len(b)]
           n == Len(a) + Len(b)
           F == [p \in D \X [D -> V] |-> WalkStep(a, b, d, p[1], p[2])]
<1>1. n \in Nat /\ Left(a, b) \in [D -> 0 .. n]
  <2>1. \A at \in D : Left(a, b)[at] \in 0 .. n
    BY NextOnTheGrid
  <2>2. Left(a, b) = [at \in D |-> Left(a, b)[at]]
    BY DEF Left
  <2> HIDE DEF D
  <2> QED BY <2>1, <2>2
<1>0. [k \in 1 .. Len(a) |-> 0] \in V /\ \A f \in V, j \in 0 .. Len(b) : \A i : Paired(f, i, j) \in V
  <2>1. 0 \in 0 .. Len(b)
    OBVIOUS
  <2> QED BY <2>1 DEF Paired
<1>2. ASSUME NEW at \in D, NEW g \in [D -> V] PROVE WalkStep(a, b, d, at, g) \in V
  <2>1. /\ at[1] <= Len(a) => <<at[1] + 1, at[2]>> \in D
        /\ at[2] <= Len(b) => <<at[1], at[2] + 1>> \in D
        /\ at[1] <= Len(a) /\ at[2] <= Len(b) => <<at[1] + 1, at[2] + 1>> \in D
        /\ at[1] \in Int /\ at[2] \in Int /\ at[2] \in 1 .. Len(b) + 1
    BY NextOnTheGrid
  <2>2. 0 \in 0 .. Len(b) /\ (at[2] <= Len(b) => at[2] \in 0 .. Len(b))
    BY <2>1
  <2>3. \A e \in D : g[e] \in V
    OBVIOUS
  <2> HIDE DEF D, V
  <2> QED BY <1>0, <2>1, <2>2, <2>3 DEF WalkStep, WalkAt
<1>3. F \in [D \X [D -> V] -> V]
  <2> HIDE DEF D, V
  <2> QED BY <1>2
<1>4. ASSUME NEW at \in D, NEW g \in [D -> V], NEW h \in [D -> V],
             \A e \in D : Left(a, b)[e] < Left(a, b)[at] => g[e] = h[e]
      PROVE  F[<<at, g>>] = F[<<at, h>>]
  <2>1. /\ at[1] \in Int /\ at[2] \in Int
        /\ at[1] <= Len(a) => g[<<at[1] + 1, at[2]>>] = h[<<at[1] + 1, at[2]>>]
        /\ at[2] <= Len(b) => g[<<at[1], at[2] + 1>>] = h[<<at[1], at[2] + 1>>]
        /\ at[1] <= Len(a) /\ at[2] <= Len(b) => g[<<at[1] + 1, at[2] + 1>>] = h[<<at[1] + 1, at[2] + 1>>]
    BY <1>4, NextOnTheGrid
  <2>2. WalkStep(a, b, d, at, g) = WalkStep(a, b, d, at, h)
    <3> HIDE DEF D, V
    <3> QED BY <2>1 DEF WalkStep, WalkAt
  <2> HIDE DEF D, V
  <2> QED BY <2>2
<1>5. \E g \in [D -> V] : \A at \in D : g[at] = F[<<at, g>>]
  <2>1. \A at \in D : \A g, h \in [D -> V] :
           (\A e \in D : Left(a, b)[e] < Left(a, b)[at] => g[e] = h[e]) => F[<<at, g>>] = F[<<at, h>>]
    BY <1>4
  <2>2. V # {}
    BY <1>0
  <2>3. IsRecursion(F, D, V, Left(a, b), n)
    <3> HIDE DEF F, D, V, n
    <3> QED BY <1>1, <1>3, <2>1, <2>2 DEF IsRecursion
  <2> HIDE DEF F, D, V, n
  <2> QED BY <2>3, RecursionIsSound
<1> HIDE DEF D, V
<1> QED BY <1>5 DEF D, V

\* What holds of a place when it holds of all that are nearer the ends holds of all.
LEMMA FromTheEnds ==
  ASSUME NEW a, NEW b, Len(a) \in Nat, Len(b) \in Nat, NEW T,
         \A at \in Grid(a, b) : (\A e \in Grid(a, b) : Left(a, b)[e] < Left(a, b)[at] => e \in T) => at \in T
  PROVE  Grid(a, b) \subseteq T
<1> SUFFICES ASSUME NEW off \in Grid(a, b), off \notin T PROVE FALSE
  OBVIOUS
<1> DEFINE D == Grid(a, b)
           Out == {Left(a, b)[at] : at \in {e \in D : e \notin T}}
<1>1. \A at \in D : Left(a, b)[at] \in Nat
  <2>1. \A at \in D : Left(a, b)[at] \in 0 .. Len(a) + Len(b)
    BY NextOnTheGrid
  <2> QED BY <2>1
<1>2. PICK x \in Out : \A y \in Out : x <= y
  <2>1. Out \subseteq Nat /\ Out # {}
    BY <1>1
  <2> HIDE DEF Out
  <2> QED BY <2>1, LeastNumber
<1>3. PICK at \in D : at \notin T /\ x = Left(a, b)[at]
  OBVIOUS
<1>4. ASSUME NEW e \in D, Left(a, b)[e] < Left(a, b)[at], e \notin T PROVE FALSE
  <2>1. Left(a, b)[e] \in Out
    BY <1>4
  <2>2. x <= Left(a, b)[e]
    BY <1>2, <2>1
  <2> HIDE DEF Out
  <2> QED BY <1>1, <1>3, <1>4, <2>2
<1> QED BY <1>3, <1>4

LEMMA CountLooksNearer ==
  ASSUME NEW a, NEW b, Len(a) \in Nat, Len(b) \in Nat, NEW at \in Grid(a, b), NEW g, NEW h,
         \A e \in Grid(a, b) : Left(a, b)[e] < Left(a, b)[at] => g[e] = h[e]
  PROVE  CountStep(a, b, at, g) = CountStep(a, b, at, h)
<1>1. /\ at[1] \in Int /\ at[2] \in Int
      /\ at[1] <= Len(a) => g[<<at[1] + 1, at[2]>>] = h[<<at[1] + 1, at[2]>>]
      /\ at[2] <= Len(b) => g[<<at[1], at[2] + 1>>] = h[<<at[1], at[2] + 1>>]
      /\ at[1] <= Len(a) /\ at[2] <= Len(b) => g[<<at[1] + 1, at[2] + 1>>] = h[<<at[1] + 1, at[2] + 1>>]
  BY NextOnTheGrid
<1> QED BY <1>1 DEF CountStep, CountAt

LEMMA WalkLooksNearer ==
  ASSUME NEW a, NEW b, Len(a) \in Nat, Len(b) \in Nat, NEW d, NEW at \in Grid(a, b), NEW g, NEW h,
         \A e \in Grid(a, b) : Left(a, b)[e] < Left(a, b)[at] => g[e] = h[e]
  PROVE  WalkStep(a, b, d, at, g) = WalkStep(a, b, d, at, h)
<1>1. /\ at[1] \in Int /\ at[2] \in Int
      /\ at[1] <= Len(a) => g[<<at[1] + 1, at[2]>>] = h[<<at[1] + 1, at[2]>>]
      /\ at[2] <= Len(b) => g[<<at[1], at[2] + 1>>] = h[<<at[1], at[2] + 1>>]
      /\ at[1] <= Len(a) /\ at[2] <= Len(b) => g[<<at[1] + 1, at[2] + 1>>] = h[<<at[1] + 1, at[2] + 1>>]
  BY NextOnTheGrid
<1> QED BY <1>1 DEF WalkStep, WalkAt

\* What alignLCS computes.
LEMMA AlignedAlong ==
  ASSUME NEW a, NEW b, Len(a) \in Nat, Len(b) \in Nat
  PROVE  \E d, w : CountsFrom(a, b, d) /\ WalksAlong(a, b, d, w) /\ AlignLCS(a, b) = w[<<1, 1>>]
<1> DEFINE D == Grid(a, b)
           IsCounts(d) == d = [at \in D |-> CountStep(a, b, at, d)]
           dc == CHOOSE d : IsCounts(d)
           IsWalked(w) == w = [at \in D |-> WalkStep(a, b, dc, at, w)]
           wc == CHOOSE w : IsWalked(w)
<1>1. AlignLCS(a, b) = wc[<<1, 1>>]
  BY DEF AlignLCS, Grid, CountStep, WalkStep, CountAt, WalkAt, Paired
<1>2. PICK d0 \in [D -> Nat] : \A at \in D : d0[at] = CountStep(a, b, at, d0)
  BY CountsAreThere
<1>3. IsCounts(dc)
  <2>1. IsCounts(d0)
    <3> HIDE DEF D
    <3> QED BY <1>2
  <2> HIDE DEF IsCounts
  <2> QED BY <2>1
<1>4. \A at \in D : dc[at] = CountStep(a, b, at, dc)
  <2> HIDE DEF dc, D
  <2> QED BY <1>3
<1>5. PICK w0 \in [D -> [1 .. Len(a) -> 0 .. Len(b)]] : \A at \in D : w0[at] = WalkStep(a, b, dc, at, w0)
  <2> HIDE DEF dc
  <2> QED BY WalkIsThere
<1>6. IsWalked(wc)
  <2>1. IsWalked(w0)
    <3> HIDE DEF D, dc
    <3> QED BY <1>5
  <2> HIDE DEF IsWalked
  <2> QED BY <2>1
<1>7. \A at \in D : wc[at] = WalkStep(a, b, dc, at, wc)
  <2> HIDE DEF dc, D, wc
  <2> QED BY <1>6
<1>8. DOMAIN dc = D /\ DOMAIN wc = D
  <2> HIDE DEF dc, D, wc
  <2> QED BY <1>3, <1>6
<1> HIDE DEF dc, wc
<1>9. \A at \in D : dc[at] = d0[at]
  <2> DEFINE T == {at \in D : dc[at] = d0[at]}
  <2>1. ASSUME NEW at \in D, \A e \in D : Left(a, b)[e] < Left(a, b)[at] => e \in T PROVE at \in T
    <3>1. \A e \in D : Left(a, b)[e] < Left(a, b)[at] => dc[e] = d0[e]
      BY <2>1
    <3>2. CountStep(a, b, at, dc) = CountStep(a, b, at, d0)
      BY <3>1, CountLooksNearer
    <3> QED BY <1>2, <1>4, <3>2
  <2> HIDE DEF T
  <2>2. D \subseteq T
    BY <2>1, FromTheEnds
  <2> QED BY <2>2 DEF T
<1>10. \A at \in D : wc[at] = w0[at]
  <2> DEFINE T == {at \in D : wc[at] = w0[at]}
  <2>1. ASSUME NEW at \in D, \A e \in D : Left(a, b)[e] < Left(a, b)[at] => e \in T PROVE at \in T
    <3>1. \A e \in D : Left(a, b)[e] < Left(a, b)[at] => wc[e] = w0[e]
      BY <2>1
    <3>2. WalkStep(a, b, dc, at, wc) = WalkStep(a, b, dc, at, w0)
      BY <3>1, WalkLooksNearer
    <3> QED BY <1>5, <1>7, <3>2
  <2> HIDE DEF T
  <2>2. D \subseteq T
    BY <2>1, FromTheEnds
  <2> QED BY <2>2 DEF T
<1>11. dc \in [D -> Nat] /\ wc \in [D -> [1 .. Len(a) -> 0 .. Len(b)]]
  <2>1. dc = [at \in D |-> dc[at]] /\ wc = [at \in D |-> wc[at]]
    <3> HIDE DEF D
    <3> QED BY <1>3, <1>4, <1>6, <1>7
  <2> HIDE DEF D
  <2> QED BY <1>2, <1>5, <1>9, <1>10, <2>1
<1>12. CountsFrom(a, b, dc)
  <2>1. \A i \in 1 .. Len(a) + 1, j \in 1 .. Len(b) + 1 : dc[<<i, j>>] = CountAt(a, b, i, j, dc)
    <3>1. \A i \in 1 .. Len(a) + 1, j \in 1 .. Len(b) + 1 : <<i, j>> \in D
      BY DEF Grid
    <3>2. \A i, j : CountStep(a, b, <<i, j>>, dc) = CountAt(a, b, i, j, dc)
      BY DEF CountStep
    <3> HIDE DEF D
    <3> QED BY <1>4, <3>1, <3>2
  <2> HIDE DEF D
  <2>2. ASSUME NEW i \in 1 .. Len(a) + 1, NEW j \in 1 .. Len(b) + 1 PROVE CountsHere(a, b, dc, i, j)
    <3>1. dc[<<i, j>>] = CountAt(a, b, i, j, dc) /\ i \in Int /\ j \in Int
      BY <2>1
    <3> QED BY <3>1 DEF CountsHere, CountAt
  <2> QED BY <1>11, <2>2 DEF CountsFrom, D
<1>13. WalksAlong(a, b, dc, wc)
  <2>1. \A i \in 1 .. Len(a) + 1, j \in 1 .. Len(b) + 1 : wc[<<i, j>>] = WalkAt(a, b, dc, i, j, wc)
    <3>1. \A i \in 1 .. Len(a) + 1, j \in 1 .. Len(b) + 1 : <<i, j>> \in D
      BY DEF Grid
    <3>2. \A i, j : WalkStep(a, b, dc, <<i, j>>, wc) = WalkAt(a, b, dc, i, j, wc)
      BY DEF WalkStep
    <3> HIDE DEF D
    <3> QED BY <1>7, <3>1, <3>2
  <2> HIDE DEF D
  <2>2. ASSUME NEW i \in 1 .. Len(a) + 1, NEW j \in 1 .. Len(b) + 1 PROVE WalksHere(a, b, dc, wc, i, j)
    <3>1. wc[<<i, j>>] = WalkAt(a, b, dc, i, j, wc) /\ i \in Int /\ j \in Int
      BY <2>1
    <3> QED BY <3>1 DEF WalksHere, WalkAt
  <2> QED BY <1>11, <2>2 DEF WalksAlong, D
<1> QED BY <1>1, <1>12, <1>13

Hit(f, i, n) == {k \in i .. n : f[k] # 0}
HitsAfter(f, g, i, j, n) ==
    /\ j # 0 => Hit(g, i, n) = Hit(f, i + 1, n) \cup {i} /\ i \notin Hit(f, i + 1, n)
    /\ j = 0 => Hit(g, i, n) = Hit(f, i + 1, n)

LEMMA PairedOne ==
  ASSUME NEW n \in Nat, NEW m \in Nat, NEW f \in [1 .. n -> 0 .. m], NEW i \in 1 .. n, NEW j \in 0 .. m
  PROVE  HitsAfter(f, Paired(f, i, j), i, j, n)
<1> DEFINE g == Paired(f, i, j)
<1>1. g[i] = j /\ \A k \in i + 1 .. n : g[k] = f[k]
  BY DEF Paired
<1> HIDE DEF g
<1>2. (\A k \in i .. n : k = i \/ k \in i + 1 .. n) /\ i \in i .. n /\ i \notin i + 1 .. n
      /\ \A k \in i + 1 .. n : k \in i .. n
  OBVIOUS
<1>3. Hit(g, i, n) = Hit(f, i + 1, n) \cup (IF j # 0 THEN {i} ELSE {})
  BY <1>1, <1>2 DEF Hit
<1>4. i \notin Hit(f, i + 1, n)
  BY <1>2 DEF Hit
<1> QED BY <1>3, <1>4 DEF g, HitsAfter

LEMMA HitsAreFinite ==
  ASSUME NEW n \in Nat, NEW i \in Int, NEW f
  PROVE  IsFiniteSet(Hit(f, i, n)) /\ Cardinality(Hit(f, i, n)) \in Nat
<1>1. IsFiniteSet(i .. n)
  BY FS_Interval
<1>2. Hit(f, i, n) \subseteq i .. n
  BY DEF Hit
<1>3. IsFiniteSet(Hit(f, i, n))
  BY <1>1, <1>2, FS_Subset
<1> QED BY <1>3, FS_CardinalityType

LEMMA WalkMakesThatMany ==
  ASSUME NEW a, NEW b, Len(a) \in Nat, Len(b) \in Nat, NEW d, NEW w, CountsFrom(a, b, d), WalksAlong(a, b, d, w)
  PROVE  \A at \in Grid(a, b) : Cardinality(Hit(w[at], at[1], Len(a))) = d[at]
<1> DEFINE D == Grid(a, b)
           n == Len(a)
           m == Len(b)
           T == {at \in D : Cardinality(Hit(w[at], at[1], n)) = d[at]}
<1>1. ASSUME NEW at \in D, \A e \in D : Left(a, b)[e] < Left(a, b)[at] => e \in T PROVE at \in T
  <2> DEFINE i == at[1]
             j == at[2]
  <2>1. /\ i \in Int /\ j \in Int /\ at = <<i, j>> /\ i \in 1 .. n + 1 /\ j \in 1 .. m + 1
        /\ i <= n => <<i + 1, j>> \in T
        /\ j <= m => <<i, j + 1>> \in T
        /\ i <= n /\ j <= m => <<i + 1, j + 1>> \in T
    <3> HIDE DEF T
    <3> QED BY <1>1, NextOnTheGrid
  <2> HIDE DEF i, j
  <2>2. CountsHere(a, b, d, i, j) /\ WalksHere(a, b, d, w, i, j)
    BY <2>1 DEF CountsFrom, WalksAlong
  <2>3. (\A e \in D : w[e] \in [1 .. n -> 0 .. m] /\ d[e] \in Nat) /\ n \in Nat /\ m \in Nat
    BY DEF CountsFrom, WalksAlong
  <2>4. \A x, y : <<x, y>> \in T => <<x, y>> \in D /\ Cardinality(Hit(w[<<x, y>>], x, n)) = d[<<x, y>>]
    OBVIOUS
  <2>5. Cardinality(Hit(w[<<i, j>>], i, n)) = d[<<i, j>>] => at \in T
    BY <2>1
  <2> HIDE DEF T, D, n, m
  <2>6. CASE i > n
    <3>1. Hit(w[<<i, j>>], i, n) = {}
      BY <2>1, <2>3, <2>6 DEF Hit
    <3>2. d[<<i, j>>] = 0
      BY <2>2, <2>6 DEF CountsHere, n
    <3> QED BY <2>5, <3>1, <3>2, FS_EmptySet
  <2>7. CASE i <= n /\ j <= m /\ a[i] = b[j]
    <3> DEFINE f == w[<<i + 1, j + 1>>]
    <3>1. w[<<i, j>>] = Paired(f, i, j) /\ d[<<i, j>>] = d[<<i + 1, j + 1>>] + 1
      BY <2>2, <2>7 DEF CountsHere, WalksHere, n, m
    <3>2. Cardinality(Hit(f, i + 1, n)) = d[<<i + 1, j + 1>>] /\ f \in [1 .. n -> 0 .. m] /\ d[<<i + 1, j + 1>>] \in Nat
      BY <2>1, <2>3, <2>4, <2>7
    <3> HIDE DEF f
    <3>3. i \in 1 .. n /\ j \in 0 .. m /\ j # 0 /\ i + 1 \in Int
      BY <2>1, <2>3, <2>7
    <3>4. Hit(Paired(f, i, j), i, n) = Hit(f, i + 1, n) \cup {i} /\ i \notin Hit(f, i + 1, n)
      <4>1. HitsAfter(f, Paired(f, i, j), i, j, n)
        BY <2>3, <3>2, <3>3, PairedOne
      <4> QED BY <3>3, <4>1 DEF HitsAfter
    <3>5. IsFiniteSet(Hit(f, i + 1, n))
      BY <2>3, <3>3, HitsAreFinite
    <3>6. Cardinality(Hit(f, i + 1, n) \cup {i}) = Cardinality(Hit(f, i + 1, n)) + 1
      BY <3>4, <3>5, FS_AddElement
    <3> QED BY <2>5, <3>1, <3>2, <3>4, <3>6
  <2>8. CASE i <= n /\ j <= m /\ a[i] # b[j] /\ d[<<i, j + 1>>] >= d[<<i + 1, j>>]
    <3>1. w[<<i, j>>] = w[<<i, j + 1>>]
      BY <2>2, <2>8 DEF WalksHere, n, m
    <3>2. d[<<i, j + 1>>] \in Nat /\ d[<<i + 1, j>>] \in Nat
      BY <2>1, <2>3, <2>4, <2>8
    <3>3. d[<<i, j>>] = IF d[<<i + 1, j>>] >= d[<<i, j + 1>>] THEN d[<<i + 1, j>>] ELSE d[<<i, j + 1>>]
      BY <2>2, <2>8 DEF CountsHere, n, m
    <3>4. d[<<i, j>>] = d[<<i, j + 1>>]
      BY <2>8, <3>2, <3>3
    <3>5. Cardinality(Hit(w[<<i, j + 1>>], i, n)) = d[<<i, j + 1>>]
      BY <2>1, <2>4, <2>8
    <3> QED BY <2>5, <3>1, <3>4, <3>5
  <2>9. CASE i <= n /\ (j > m \/ (a[i] # b[j] /\ ~(d[<<i, j + 1>>] >= d[<<i + 1, j>>])))
    <3> DEFINE f == w[<<i + 1, j>>]
    <3>1. w[<<i, j>>] = Paired(f, i, 0)
      BY <2>2, <2>9 DEF WalksHere, n, m
    <3>2. Cardinality(Hit(f, i + 1, n)) = d[<<i + 1, j>>] /\ f \in [1 .. n -> 0 .. m]
      BY <2>1, <2>3, <2>4, <2>9
    <3>3. i \in 1 .. n /\ 0 \in 0 .. m /\ i + 1 \in 1 .. n + 1
      BY <2>1, <2>3, <2>9
    <3>4. Hit(Paired(f, i, 0), i, n) = Hit(f, i + 1, n)
      <4> HIDE DEF f
      <4>1. HitsAfter(f, Paired(f, i, 0), i, 0, n)
        BY <2>3, <3>2, <3>3, PairedOne
      <4> QED BY <4>1 DEF HitsAfter
    <3>5. d[<<i, j>>] = d[<<i + 1, j>>]
      <4>1. CASE j > m
        <5>1. CountsHere(a, b, d, i + 1, j)
          BY <2>1, <3>3 DEF CountsFrom, n, m
        <5> QED BY <2>2, <4>1, <5>1 DEF CountsHere, m
      <4>2. CASE j <= m
        <5>1. a[i] # b[j] /\ ~(d[<<i, j + 1>>] >= d[<<i + 1, j>>])
          BY <2>1, <2>3, <2>9, <4>2
        <5>2. d[<<i, j>>] = IF d[<<i + 1, j>>] >= d[<<i, j + 1>>] THEN d[<<i + 1, j>>] ELSE d[<<i, j + 1>>]
          BY <2>2, <2>9, <4>2, <5>1 DEF CountsHere, n, m
        <5>3. d[<<i, j + 1>>] \in Nat /\ d[<<i + 1, j>>] \in Nat
          BY <2>1, <2>3, <2>4, <2>9, <4>2
        <5> QED BY <5>1, <5>2, <5>3
      <4> QED BY <2>1, <2>3, <4>1, <4>2
    <3> HIDE DEF f
    <3> QED BY <2>5, <3>1, <3>2, <3>4, <3>5
  <2> QED BY <2>1, <2>3, <2>6, <2>7, <2>8, <2>9
<1> HIDE DEF T
<1>2. D \subseteq T
  BY <1>1, FromTheEnds
<1> QED BY <1>2 DEF T

\* A pairing of a's places with places of b: of one letter and in order.
Pairs(p, a, b) ==
    /\ p \in [1 .. Len(a) -> 0 .. Len(b)]
    /\ \A k \in 1 .. Len(a) : p[k] # 0 => b[p[k]] = a[k]
    /\ \A k, l \in 1 .. Len(a) : k < l /\ p[k] # 0 /\ p[l] # 0 => p[k] < p[l]
Ahead(p, i, j, n) == {k \in i .. n : p[k] >= j}

LEMMA AheadIsFinite ==
  ASSUME NEW n \in Nat, NEW i \in Int, NEW j, NEW p
  PROVE  IsFiniteSet(Ahead(p, i, j, n)) /\ Cardinality(Ahead(p, i, j, n)) \in Nat
<1>1. IsFiniteSet(i .. n)
  BY FS_Interval
<1>2. Ahead(p, i, j, n) \subseteq i .. n
  BY DEF Ahead
<1>3. IsFiniteSet(Ahead(p, i, j, n))
  BY <1>1, <1>2, FS_Subset
<1> QED BY <1>3, FS_CardinalityType

\* Past two places of one letter a pairing has one pair less at most.
LEMMA AtMostOneHere ==
  ASSUME NEW a, NEW b, Len(a) \in Nat, Len(b) \in Nat, NEW p, Pairs(p, a, b),
         NEW i \in 1 .. Len(a), NEW j \in 1 .. Len(b)
  PROVE  \E x : Ahead(p, i, j, Len(a)) \subseteq Ahead(p, i + 1, j + 1, Len(a)) \cup {x}
<1> DEFINE n == Len(a)
           m == Len(b)
<1>1. /\ \A k \in 1 .. n : p[k] \in 0 .. m
      /\ \A k, l \in 1 .. n : k < l /\ p[k] # 0 /\ p[l] # 0 => p[k] < p[l]
      /\ n \in Nat /\ m \in Nat
  BY DEF Pairs
<1> HIDE DEF n, m
<1>0. i \in 1 .. n /\ j \in 1 .. m /\ i \in Nat /\ j \in Nat
  BY DEF n, m
<1>2. CASE p[i] >= j
  <2>1. ASSUME NEW k \in Ahead(p, i, j, n), k # i PROVE k \in Ahead(p, i + 1, j + 1, n)
    <3>1. k \in 1 .. n /\ i < k /\ p[k] >= j /\ k \in i + 1 .. n
      BY <1>0, <1>1, <2>1 DEF Ahead
    <3>2. p[i] < p[k]
      BY <1>0, <1>1, <1>2, <3>1
    <3>3. p[k] >= j + 1
      BY <1>0, <1>1, <1>2, <3>1, <3>2
    <3> QED BY <3>1, <3>3 DEF Ahead
  <2> QED BY <2>1 DEF n
<1>3. CASE ~(p[i] >= j) /\ \E x \in i .. n : p[x] = j
  <2>1. PICK x \in i .. n : p[x] = j
    BY <1>3
  <2>2. ASSUME NEW k \in Ahead(p, i, j, n), k # x PROVE k \in Ahead(p, i + 1, j + 1, n)
    <3>1. k \in 1 .. n /\ x \in 1 .. n /\ p[k] >= j /\ k # i /\ k \in i .. n
      BY <1>0, <1>1, <1>3, <2>1, <2>2 DEF Ahead
    <3>2. k \in i + 1 .. n
      BY <1>0, <1>1, <3>1
    <3>3. p[k] # j
      BY <1>0, <1>1, <2>1, <2>2, <3>1
    <3>4. p[k] >= j + 1
      BY <1>0, <1>1, <3>1, <3>3
    <3> QED BY <3>2, <3>4 DEF Ahead
  <2> QED BY <2>2 DEF n
<1>4. CASE ~(p[i] >= j) /\ ~\E x \in i .. n : p[x] = j
  <2>1. ASSUME NEW k \in Ahead(p, i, j, n) PROVE k \in Ahead(p, i + 1, j + 1, n)
    <3>1. k \in 1 .. n /\ p[k] >= j /\ p[k] # j /\ k # i /\ k \in i .. n
      BY <1>0, <1>1, <1>4, <2>1 DEF Ahead
    <3>2. k \in i + 1 .. n
      BY <1>0, <1>1, <3>1
    <3>4. p[k] >= j + 1
      BY <1>0, <1>1, <3>1
    <3> QED BY <3>2, <3>4 DEF Ahead
  <2> QED BY <2>1 DEF n
<1> QED BY <1>2, <1>3, <1>4

\* Where the letters differ a pairing passes one of the two places by.
LEMMA OneIsPassedBy ==
  ASSUME NEW a, NEW b, Len(a) \in Nat, Len(b) \in Nat, NEW p, Pairs(p, a, b),
         NEW i \in 1 .. Len(a), NEW j \in 1 .. Len(b), a[i] # b[j]
  PROVE  \/ Ahead(p, i, j, Len(a)) \subseteq Ahead(p, i + 1, j, Len(a))
         \/ Ahead(p, i, j, Len(a)) \subseteq Ahead(p, i, j + 1, Len(a))
<1> DEFINE n == Len(a)
           m == Len(b)
<1>1. /\ \A k \in 1 .. n : p[k] \in 0 .. m /\ (p[k] # 0 => b[p[k]] = a[k])
      /\ \A k, l \in 1 .. n : k < l /\ p[k] # 0 /\ p[l] # 0 => p[k] < p[l]
      /\ n \in Nat /\ m \in Nat
  BY DEF Pairs
<1> HIDE DEF n, m
<1>0. i \in 1 .. n /\ j \in 1 .. m /\ i \in Nat /\ j \in Nat /\ j # 0
  BY DEF n, m
<1>2. CASE ~(p[i] >= j)
  <2>1. ASSUME NEW k \in Ahead(p, i, j, n) PROVE k \in Ahead(p, i + 1, j, n)
    <3>1. k \in i .. n /\ p[k] >= j /\ k # i
      BY <1>2, <2>1 DEF Ahead
    <3>2. k \in i + 1 .. n
      BY <1>0, <1>1, <3>1
    <3> QED BY <3>1, <3>2 DEF Ahead
  <2> QED BY <2>1 DEF n
<1>3. CASE p[i] >= j
  <2>1. p[i] # j
    BY <1>0, <1>1
  <2>2. p[i] >= j + 1
    BY <1>0, <1>1, <1>3, <2>1
  <2>3. ASSUME NEW k \in Ahead(p, i, j, n) PROVE k \in Ahead(p, i, j + 1, n)
    <3>1. k \in i .. n /\ k \in 1 .. n /\ p[k] >= j
      BY <1>0, <1>1, <2>3 DEF Ahead
    <3>2. CASE k = i
      BY <2>2, <3>1, <3>2 DEF Ahead
    <3>3. CASE k # i
      <4>1. i < k
        BY <1>0, <1>1, <3>1, <3>3
      <4>2. p[i] < p[k]
        BY <1>0, <1>1, <1>3, <3>1, <4>1
      <4>3. p[k] >= j + 1
        BY <1>0, <1>1, <2>2, <3>1, <4>2
      <4> QED BY <3>1, <4>3 DEF Ahead
    <3> QED BY <3>2, <3>3
  <2> QED BY <2>3 DEF n
<1> QED BY <1>2, <1>3

LEMMA NoneHasMore ==
  ASSUME NEW a, NEW b, Len(a) \in Nat, Len(b) \in Nat, NEW d, CountsFrom(a, b, d), NEW p, Pairs(p, a, b)
  PROVE  \A at \in Grid(a, b) : Cardinality(Ahead(p, at[1], at[2], Len(a))) <= d[at]
<1> DEFINE D == Grid(a, b)
           n == Len(a)
           m == Len(b)
           T == {at \in D : Cardinality(Ahead(p, at[1], at[2], n)) <= d[at]}
<1>1. ASSUME NEW at \in D, \A e \in D : Left(a, b)[e] < Left(a, b)[at] => e \in T PROVE at \in T
  <2> DEFINE i == at[1]
             j == at[2]
             C(x, y) == Cardinality(Ahead(p, x, y, n))
  <2>1. /\ i \in Int /\ j \in Int /\ at = <<i, j>> /\ i \in 1 .. n + 1 /\ j \in 1 .. m + 1
        /\ i <= n => <<i + 1, j>> \in T
        /\ j <= m => <<i, j + 1>> \in T
        /\ i <= n /\ j <= m => <<i + 1, j + 1>> \in T
    <3> HIDE DEF T
    <3> QED BY <1>1, NextOnTheGrid
  <2> HIDE DEF i, j
  <2>2. CountsHere(a, b, d, i, j)
    BY <2>1 DEF CountsFrom
  <2>3. (\A e \in D : d[e] \in Nat) /\ n \in Nat /\ m \in Nat
    BY DEF CountsFrom
  <2>4. \A x, y : <<x, y>> \in T => <<x, y>> \in D /\ C(x, y) <= d[<<x, y>>]
    OBVIOUS
  <2>5. C(i, j) <= d[<<i, j>>] => at \in T
    BY <2>1
  <2>0. \A x \in Int : \A y : IsFiniteSet(Ahead(p, x, y, n)) /\ C(x, y) \in Nat
    BY AheadIsFinite
  <2>00. \A k \in 1 .. n : p[k] \in 0 .. m
    BY DEF Pairs
  <2> HIDE DEF T, D, C
  <2>6. CASE i > n \/ j > m
    <3>1. Ahead(p, i, j, n) = {}
      BY <2>00, <2>1, <2>3, <2>6 DEF Ahead
    <3>2. d[<<i, j>>] = 0
      BY <2>2, <2>6 DEF CountsHere
    <3>3. C(i, j) = 0
      BY <3>1, FS_EmptySet DEF C
    <3> QED BY <2>5, <3>2, <3>3
  <2>7. CASE i <= n /\ j <= m /\ a[i] = b[j]
    <3>0. i \in 1 .. n /\ j \in 1 .. m
      BY <2>1, <2>3, <2>7
    <3>1. PICK x : Ahead(p, i, j, n) \subseteq Ahead(p, i + 1, j + 1, n) \cup {x}
      BY <3>0, AtMostOneHere
    <3>2. C(i, j) <= C(i + 1, j + 1) + 1
      <4> DEFINE R == Ahead(p, i + 1, j + 1, n)
      <4>1. IsFiniteSet(R) /\ Cardinality(R) \in Nat
        BY <2>0, <2>1 DEF C
      <4>2. IsFiniteSet(R \cup {x}) /\ (Cardinality(R \cup {x}) = Cardinality(R) \/ Cardinality(R \cup {x}) = Cardinality(R) + 1)
        BY <4>1, FS_AddElement
      <4>3. C(i, j) <= Cardinality(R \cup {x})
        BY <3>1, <4>2, FS_Subset DEF C
      <4>4. C(i, j) \in Nat /\ C(i + 1, j + 1) = Cardinality(R)
        BY <2>0, <2>1 DEF C
      <4> HIDE DEF R
      <4> QED BY <4>1, <4>2, <4>3, <4>4
    <3>3. d[<<i, j>>] = d[<<i + 1, j + 1>>] + 1
      BY <2>2, <2>7 DEF CountsHere
    <3>4. C(i + 1, j + 1) <= d[<<i + 1, j + 1>>] /\ d[<<i + 1, j + 1>>] \in Nat
      BY <2>1, <2>3, <2>4, <2>7
    <3>5. C(i, j) \in Nat /\ C(i + 1, j + 1) \in Nat
      BY <2>0, <2>1
    <3> QED BY <2>5, <3>2, <3>3, <3>4, <3>5
  <2>8. CASE i <= n /\ j <= m /\ a[i] # b[j]
    <3>0. i \in 1 .. n /\ j \in 1 .. m
      BY <2>1, <2>3, <2>8
    <3>1. \/ Ahead(p, i, j, n) \subseteq Ahead(p, i + 1, j, n)
          \/ Ahead(p, i, j, n) \subseteq Ahead(p, i, j + 1, n)
      BY <2>8, <3>0, OneIsPassedBy
    <3>2. C(i, j) <= C(i + 1, j) \/ C(i, j) <= C(i, j + 1)
      <4>1. IsFiniteSet(Ahead(p, i + 1, j, n)) /\ IsFiniteSet(Ahead(p, i, j + 1, n))
        BY <2>0, <2>1
      <4> QED BY <3>1, <4>1, FS_Subset DEF C
    <3>3. d[<<i, j>>] = IF d[<<i + 1, j>>] >= d[<<i, j + 1>>] THEN d[<<i + 1, j>>] ELSE d[<<i, j + 1>>]
      BY <2>2, <2>8 DEF CountsHere
    <3>4. /\ C(i + 1, j) <= d[<<i + 1, j>>] /\ d[<<i + 1, j>>] \in Nat
          /\ C(i, j + 1) <= d[<<i, j + 1>>] /\ d[<<i, j + 1>>] \in Nat
      BY <2>1, <2>3, <2>4, <2>8
    <3>5. C(i, j) \in Nat /\ C(i + 1, j) \in Nat /\ C(i, j + 1) \in Nat
      BY <2>0, <2>1
    <3> QED BY <2>5, <3>2, <3>3, <3>4, <3>5
  <2> QED BY <2>1, <2>3, <2>6, <2>7, <2>8
<1> HIDE DEF T
<1>2. D \subseteq T
  BY <1>1, FromTheEnds
<1> QED BY <1>2 DEF T

\* What alignLCS pairs is as many as any pairing in order does.
LEMMA AlignedMost ==
  ASSUME NEW a, NEW b, Len(a) \in Nat, Len(b) \in Nat
  PROVE  /\ AlignLCS(a, b) \in [1 .. Len(a) -> 0 .. Len(b)]
         /\ \A p : Pairs(p, a, b) =>
               Cardinality({k \in 1 .. Len(a) : p[k] # 0}) <= Cardinality({k \in 1 .. Len(a) : AlignLCS(a, b)[k] # 0})
<1>1. PICK d, w : CountsFrom(a, b, d) /\ WalksAlong(a, b, d, w) /\ AlignLCS(a, b) = w[<<1, 1>>]
  BY AlignedAlong
<1>2. <<1, 1>> \in Grid(a, b) /\ <<1, 1>>[1] = 1 /\ <<1, 1>>[2] = 1
  BY DEF Grid
<1>3. w[<<1, 1>>] \in [1 .. Len(a) -> 0 .. Len(b)] /\ d[<<1, 1>>] \in Nat
  BY <1>1, <1>2 DEF WalksAlong, CountsFrom
<1>4. Cardinality(Hit(w[<<1, 1>>], 1, Len(a))) = d[<<1, 1>>]
  BY <1>1, <1>2, WalkMakesThatMany
<1>5. ASSUME NEW p, Pairs(p, a, b)
      PROVE  Cardinality({k \in 1 .. Len(a) : p[k] # 0}) <= d[<<1, 1>>]
  <2>1. Cardinality(Ahead(p, 1, 1, Len(a))) <= d[<<1, 1>>]
    BY <1>1, <1>2, <1>5, NoneHasMore
  <2>2. \A k \in 1 .. Len(a) : p[k] \in 0 .. Len(b)
    BY <1>5 DEF Pairs
  <2>3. {k \in 1 .. Len(a) : p[k] # 0} = Ahead(p, 1, 1, Len(a))
    BY <2>2 DEF Ahead
  <2> QED BY <2>1, <2>3
<1> QED BY <1>1, <1>3, <1>4, <1>5 DEF Hit

\* A page that can be read, and the cards it can hold.
Legible(cells) ==
    cells \in Seq(Range(cells)) /\ \A c \in Range(cells) : c[2] # "" /\ (c[1] = "ref" => c[3] \in {0} \cup Verses)
CardAt(cells, i) == [arabic |-> cells[i + 1][2], french |-> cells[i + 2][2]]
Cards(cells) == {CardAt(cells, i) : i \in 1 .. Len(cells) - 2}

\* One step of the pass over the cells.
Starts(cells, i, aya) ==
    /\ aya # 0 /\ cells[i][1] = "label"
    /\ i + 2 <= Len(cells) /\ cells[i + 1][1] = "arabic"
Dealt(deal, aya, card) == [deal EXCEPT ![aya] = <<card>> \o @]
ReadAt(cells, i, aya, f) ==
    IF i > Len(cells) THEN [v \in Verses |-> <<>>]
    ELSE IF cells[i][1] = "ref" THEN f[<<i + 1, cells[i][3]>>]
    ELSE IF Starts(cells, i, aya) THEN Dealt(f[<<i + 4, aya>>], aya, CardAt(cells, i))
    ELSE f[<<i + 1, aya>>]
ReadStep(cells, at, f) == ReadAt(cells, at[1], at[2], f)
Spots(cells) == (1 .. Len(cells) + 4) \X ({0} \cup Verses)
Unread(cells) == [at \in Spots(cells) |-> Len(cells) + 4 - at[1]]

LEMMA LegibleHasLength == ASSUME NEW cells, Legible(cells) PROVE Len(cells) \in Nat /\ cells \in Seq(Range(cells))
<1>1. cells \in Seq(Range(cells))
  BY DEF Legible
<1> QED BY <1>1, LenProperties

LEMMA NextSpots ==
  ASSUME NEW cells, Legible(cells), NEW at \in Spots(cells)
  PROVE  /\ Len(cells) \in Nat /\ at[1] \in Nat /\ at[1] >= 1 /\ at[2] \in {0} \cup Verses
         /\ Unread(cells)[at] \in 0 .. Len(cells) + 3
         /\ at[1] <= Len(cells) =>
               /\ cells[at[1]][1] = "ref" => <<at[1] + 1, cells[at[1]][3]>> \in Spots(cells)
                     /\ Unread(cells)[<<at[1] + 1, cells[at[1]][3]>>] < Unread(cells)[at]
               /\ <<at[1] + 1, at[2]>> \in Spots(cells) /\ Unread(cells)[<<at[1] + 1, at[2]>>] < Unread(cells)[at]
               /\ <<at[1] + 4, at[2]>> \in Spots(cells) /\ Unread(cells)[<<at[1] + 4, at[2]>>] < Unread(cells)[at]
<1> DEFINE n == Len(cells)
           i == at[1]
           v == at[2]
           G == (1 .. n + 4) \X ({0} \cup Verses)
<1>1. n \in Nat
  BY LegibleHasLength
<1>2. i \in 1 .. n + 4 /\ v \in {0} \cup Verses /\ at = <<i, v>>
  BY DEF Spots
<1>3. \A x \in 1 .. n + 4, y \in {0} \cup Verses : <<x, y>> \in G /\ Unread(cells)[<<x, y>>] = n + 4 - x
  BY DEF Unread, Spots
<1>4. i <= n /\ cells[i][1] = "ref" => cells[i][3] \in {0} \cup Verses
  <2>1. ASSUME i <= n PROVE cells[i] \in Range(cells)
    <3>1. i \in 1 .. Len(cells) /\ cells \in Seq(Range(cells))
      <4>1. i \in 1 .. n
        <5> HIDE DEF i, n
        <5> QED BY <1>1, <1>2, <2>1
      <4> QED BY <4>1, LegibleHasLength
    <3> QED BY <3>1, ElementOfSeq
  <2> QED BY <2>1 DEF Legible
<1> HIDE DEF n, i, v, G
<1>5. i \in Nat /\ i >= 1 /\ n + 4 - i \in 0 .. n + 3
  BY <1>1, <1>2
<1>6. i <= n => /\ i + 1 \in 1 .. n + 4 /\ n + 4 - (i + 1) < n + 4 - i
                /\ i + 4 \in 1 .. n + 4 /\ n + 4 - (i + 4) < n + 4 - i
  BY <1>1, <1>2
<1>7. Unread(cells)[at] = n + 4 - i
  BY <1>2, <1>3
<1>8. i <= n /\ cells[i][1] = "ref" =>
         <<i + 1, cells[i][3]>> \in G /\ Unread(cells)[<<i + 1, cells[i][3]>>] < Unread(cells)[at]
  BY <1>3, <1>4, <1>6, <1>7
<1>9. i <= n => /\ <<i + 1, v>> \in G /\ Unread(cells)[<<i + 1, v>>] < Unread(cells)[at]
                /\ <<i + 4, v>> \in G /\ Unread(cells)[<<i + 4, v>>] < Unread(cells)[at]
  BY <1>2, <1>3, <1>6, <1>7
<1> QED BY <1>1, <1>2, <1>5, <1>7, <1>8, <1>9 DEF n, i, v, G, Spots

LEMMA ReadingLooksOn ==
  ASSUME NEW cells, Legible(cells), NEW at \in Spots(cells), NEW g, NEW h,
         \A e \in Spots(cells) : Unread(cells)[e] < Unread(cells)[at] => g[e] = h[e]
  PROVE  ReadStep(cells, at, g) = ReadStep(cells, at, h)
<1>1. /\ Len(cells) \in Nat /\ at[1] \in Nat
      /\ at[1] <= Len(cells) =>
            /\ cells[at[1]][1] = "ref" => g[<<at[1] + 1, cells[at[1]][3]>>] = h[<<at[1] + 1, cells[at[1]][3]>>]
            /\ g[<<at[1] + 1, at[2]>>] = h[<<at[1] + 1, at[2]>>]
            /\ g[<<at[1] + 4, at[2]>>] = h[<<at[1] + 4, at[2]>>]
  BY NextSpots
<1> QED BY <1>1 DEF ReadStep, ReadAt

Decks(cells) == [Verses -> Seq(Cards(cells))]

LEMMA DealtIsDecks ==
  ASSUME NEW C, NEW deal \in [Verses -> Seq(C)], NEW aya \in Verses, NEW card \in C
  PROVE  Dealt(deal, aya, card) \in [Verses -> Seq(C)]
<1>1. <<card>> \o deal[aya] \in Seq(C)
  <2>1. <<card>> \in Seq(C) /\ deal[aya] \in Seq(C)
    OBVIOUS
  <2> QED BY <2>1, ConcatProperties
<1> QED BY <1>1 DEF Dealt

LEMMA ReadIsDecks ==
  ASSUME NEW cells, Legible(cells), NEW at \in Spots(cells), NEW f \in [Spots(cells) -> Decks(cells)]
  PROVE  ReadStep(cells, at, f) \in Decks(cells)
<1> DEFINE i == at[1]
           v == at[2]
<1>1. /\ Len(cells) \in Nat /\ i \in Nat /\ i >= 1 /\ v \in {0} \cup Verses
      /\ i <= Len(cells) =>
            /\ cells[i][1] = "ref" => <<i + 1, cells[i][3]>> \in Spots(cells)
            /\ <<i + 1, v>> \in Spots(cells) /\ <<i + 4, v>> \in Spots(cells)
  BY NextSpots
<1> HIDE DEF i, v
<1>2. [u \in Verses |-> <<>>] \in Decks(cells)
  BY EmptySeq DEF Decks
<1>3. i <= Len(cells) /\ Starts(cells, i, v) => Dealt(f[<<i + 4, v>>], v, CardAt(cells, i)) \in Decks(cells)
  <2> SUFFICES ASSUME i <= Len(cells), Starts(cells, i, v)
               PROVE  Dealt(f[<<i + 4, v>>], v, CardAt(cells, i)) \in Decks(cells)
    OBVIOUS
  <2>1. i \in 1 .. Len(cells) - 2 /\ v \in Verses
    BY <1>1 DEF Starts
  <2>2. CardAt(cells, i) \in Cards(cells)
    BY <2>1 DEF Cards
  <2>3. f[<<i + 4, v>>] \in Decks(cells)
    BY <1>1
  <2> QED BY <2>1, <2>2, <2>3, DealtIsDecks DEF Decks
<1>4. ReadAt(cells, i, v, f) \in Decks(cells)
  BY <1>1, <1>2, <1>3 DEF ReadAt
<1> QED BY <1>4 DEF ReadStep, i, v

LEMMA DecksAreThere ==
  ASSUME NEW cells, Legible(cells)
  PROVE  \E f \in [Spots(cells) -> Decks(cells)] : \A at \in Spots(cells) : f[at] = ReadStep(cells, at, f)
<1> DEFINE D == Spots(cells)
           V == Decks(cells)
           n == Len(cells) + 3
           rank == Unread(cells)
           F == [p \in D \X [D -> V] |-> ReadStep(cells, p[1], p[2])]
<1>1. n \in Nat /\ rank \in [D -> 0 .. n]
  <2>1. \A at \in D : rank[at] \in 0 .. n
    BY NextSpots
  <2>2. rank = [at \in D |-> rank[at]]
    BY DEF Unread
  <2>3. n \in Nat
    <3>1. Len(cells) \in Nat
      BY LegibleHasLength
    <3> QED BY <3>1
  <2> HIDE DEF D, rank, n
  <2> QED BY <2>1, <2>2, <2>3
<1>2. F \in [D \X [D -> V] -> V]
  <2>1. \A at \in D, f \in [D -> V] : ReadStep(cells, at, f) \in V
    BY ReadIsDecks
  <2> HIDE DEF D, V
  <2> QED BY <2>1
<1>3. ASSUME NEW at \in D, NEW g \in [D -> V], NEW h \in [D -> V],
             \A e \in D : rank[e] < rank[at] => g[e] = h[e]
      PROVE  F[<<at, g>>] = F[<<at, h>>]
  <2>1. ReadStep(cells, at, g) = ReadStep(cells, at, h)
    BY <1>3, ReadingLooksOn
  <2> HIDE DEF D, V
  <2> QED BY <2>1
<1>4. V # {}
  <2>1. [u \in Verses |-> <<>>] \in V
    BY EmptySeq DEF Decks
  <2> QED BY <2>1
<1>5. \A at \in D : \A g, h \in [D -> V] :
         (\A e \in D : rank[e] < rank[at] => g[e] = h[e]) => F[<<at, g>>] = F[<<at, h>>]
  BY <1>3
<1>6. IsRecursion(F, D, V, rank, n)
  <2> HIDE DEF F, D, V, n, rank
  <2> QED BY <1>1, <1>2, <1>4, <1>5 DEF IsRecursion
<1>7. \E f \in [D -> V] : \A at \in D : f[at] = F[<<at, f>>]
  <2> HIDE DEF F, D, V, n, rank
  <2> QED BY <1>6, RecursionIsSound
<1> HIDE DEF D, V
<1> QED BY <1>7 DEF D, V

\* What holds of a spot when it holds of all that have less to read holds of all.
LEMMA FromTheLastCell ==
  ASSUME NEW cells, Legible(cells), NEW T,
         \A at \in Spots(cells) :
            (\A e \in Spots(cells) : Unread(cells)[e] < Unread(cells)[at] => e \in T) => at \in T
  PROVE  Spots(cells) \subseteq T
<1> SUFFICES ASSUME NEW off \in Spots(cells), off \notin T PROVE FALSE
  OBVIOUS
<1> DEFINE D == Spots(cells)
           rank == Unread(cells)
           Out == {rank[at] : at \in {e \in D : e \notin T}}
<1>1. \A at \in D : rank[at] \in Nat
  <2>1. \A at \in D : rank[at] \in 0 .. Len(cells) + 3
    BY NextSpots
  <2> QED BY <2>1
<1> HIDE DEF D, rank
<1>2. PICK x \in Out : \A y \in Out : x <= y
  <2>1. Out \subseteq Nat /\ Out # {}
    BY <1>1 DEF D
  <2> HIDE DEF Out
  <2> QED BY <2>1, LeastNumber
<1>3. PICK at \in D : at \notin T /\ x = rank[at]
  OBVIOUS
<1>4. ASSUME NEW e \in D, rank[e] < rank[at], e \notin T PROVE FALSE
  <2>1. rank[e] \in Out
    BY <1>4
  <2>2. x <= rank[e]
    BY <1>2, <2>1
  <2> HIDE DEF Out
  <2> QED BY <1>1, <1>3, <1>4, <2>2
<1> QED BY <1>3, <1>4 DEF D, rank

\* What parseTLDPage computes: a list of its cards for each aya.
ReadsAlong(cells, f) ==
    /\ f \in [Spots(cells) -> Decks(cells)]
    /\ \A i \in 1 .. Len(cells) + 4, v \in {0} \cup Verses : f[<<i, v>>] = ReadAt(cells, i, v, f)

LEMMA PageIsRead ==
  ASSUME NEW cells, Legible(cells)
  PROVE  \E f : ReadsAlong(cells, f) /\ ParseTLDPage(cells) = f[<<1, 0>>]
<1> DEFINE D == Spots(cells)
           rank == Unread(cells)
           IsRead(f) == f = [at \in D |-> ReadStep(cells, at, f)]
           from == CHOOSE f : IsRead(f)
<1>1. ParseTLDPage(cells) = from[<<1, 0>>]
  BY DEF ParseTLDPage, Spots, ReadStep, ReadAt, Starts, CardAt, Dealt
<1>2. PICK f0 \in [D -> Decks(cells)] : \A at \in D : f0[at] = ReadStep(cells, at, f0)
  BY DecksAreThere
<1>3. IsRead(from)
  <2>1. IsRead(f0)
    <3> HIDE DEF D
    <3> QED BY <1>2
  <2> HIDE DEF IsRead
  <2> QED BY <2>1
<1>4. \A at \in D : from[at] = ReadStep(cells, at, from)
  <2> HIDE DEF from, D
  <2> QED BY <1>3
<1> HIDE DEF from
<1>5. \A at \in D : from[at] = f0[at]
  <2> DEFINE T == {at \in D : from[at] = f0[at]}
  <2>1. ASSUME NEW at \in D, \A e \in D : rank[e] < rank[at] => e \in T PROVE at \in T
    <3>1. \A e \in D : rank[e] < rank[at] => from[e] = f0[e]
      BY <2>1
    <3>2. ReadStep(cells, at, from) = ReadStep(cells, at, f0)
      BY <3>1, ReadingLooksOn
    <3> QED BY <1>2, <1>4, <3>2
  <2> HIDE DEF T
  <2>2. D \subseteq T
    BY <2>1, FromTheLastCell
  <2> QED BY <2>2 DEF T
<1>6. from = [at \in D |-> from[at]]
  <2>1. DOMAIN from = D
    <3> HIDE DEF D
    <3> QED BY <1>3
  <2>2. from = [at \in DOMAIN from |-> from[at]]
    <3> HIDE DEF D
    <3> QED BY <1>3
  <2> QED BY <2>1, <2>2
<1>7. from \in [D -> Decks(cells)]
  <2> HIDE DEF D
  <2> QED BY <1>2, <1>5, <1>6
<1>8. \A i \in 1 .. Len(cells) + 4, v \in {0} \cup Verses : from[<<i, v>>] = ReadAt(cells, i, v, from)
  <2>1. \A i \in 1 .. Len(cells) + 4, v \in {0} \cup Verses : <<i, v>> \in D
    BY DEF Spots
  <2>2. \A i, v : ReadStep(cells, <<i, v>>, from) = ReadAt(cells, i, v, from)
    BY DEF ReadStep
  <2> HIDE DEF D
  <2> QED BY <1>4, <2>1, <2>2
<1>9. ReadsAlong(cells, from)
  BY <1>7, <1>8 DEF ReadsAlong
<1> QED BY <1>1, <1>9

LEMMA PageIsDecks == ASSUME NEW cells, Legible(cells) PROVE ParseTLDPage(cells) \in Decks(cells)
<1>1. PICK f : ReadsAlong(cells, f) /\ ParseTLDPage(cells) = f[<<1, 0>>]
  BY PageIsRead
<1>2. <<1, 0>> \in Spots(cells)
  <2>1. Len(cells) \in Nat
    BY LegibleHasLength
  <2> QED BY <2>1 DEF Spots
<1> QED BY <1>1, <1>2 DEF ReadsAlong

IsDeck(c) == \E C : c \in Seq(C) /\ \A x \in C : x.french # ""

LEMMA CardsHaveFrench ==
  ASSUME NEW cells, Legible(cells), NEW v \in Verses
  PROVE  IsDeck(ParseTLDPage(cells)[v])
<1>1. ParseTLDPage(cells)[v] \in Seq(Cards(cells))
  <2>1. ParseTLDPage(cells) \in Decks(cells)
    BY PageIsDecks
  <2> QED BY <2>1 DEF Decks
<1>2. ASSUME NEW i \in 1 .. Len(cells) - 2 PROVE CardAt(cells, i).french # ""
  <2>1. Len(cells) \in Nat /\ cells \in Seq(Range(cells))
    BY LegibleHasLength
  <2>2. i + 2 \in 1 .. Len(cells)
    BY <2>1
  <2>3. cells[i + 2] \in Range(cells)
    BY <2>1, <2>2, ElementOfSeq
  <2>4. cells[i + 2][2] # ""
    BY <2>3 DEF Legible
  <2> QED BY <2>4 DEF CardAt
<1>3. \A x \in Cards(cells) : x.french # ""
  BY <1>2 DEF Cards
<1> QED BY <1>1, <1>3 DEF IsDeck

LEMMA NoneIsDeck == IsDeck(<<>>)
<1> DEFINE Ok(C) == <<>> \in Seq(C) /\ \A x \in C : x.french # ""
<1>1. Ok({})
  BY EmptySeq
<1> HIDE DEF Ok
<1>2. \E C : Ok(C)
  BY <1>1
<1> QED BY <1>2 DEF IsDeck, Ok

\* What AsManyAsPossible says of one aya.
Letters(c) == [i \in DOMAIN c |-> c[i].arabic]
InOrder(p, w, deck) ==
    /\ \A i \in DOMAIN w : p[i] # 0 => deck[p[i]] = w[i]
    /\ \A i, j \in DOMAIN w : i < j /\ p[i] # 0 /\ p[j] # 0 => p[i] < p[j]
MostOf(w, c, g) ==
    \A p \in [DOMAIN w -> 0 .. Len(Letters(c))] : InOrder(p, w, Letters(c)) =>
        Cardinality({i \in DOMAIN w : p[i] # 0}) <= Cardinality({i \in DOMAIN w : g[i] # ""})

LEMMA LettersOfDeck ==
  ASSUME NEW c, IsDeck(c)
  PROVE  /\ Len(c) \in Nat /\ DOMAIN c = 1 .. Len(c)
         /\ Len(Letters(c)) = Len(c) /\ \A k \in 1 .. Len(c) : Letters(c)[k] = c[k].arabic
<1> DEFINE deck == Letters(c)
<1>1. PICK C : c \in Seq(C) /\ \A x \in C : x.french # ""
  BY DEF IsDeck
<1>2. Len(c) \in Nat /\ DOMAIN c = 1 .. Len(c)
  BY <1>1, LenProperties
<1>3. Len(deck) = Len(c) /\ \A k \in 1 .. Len(c) : deck[k] = c[k].arabic
  <2> DEFINE A == {x.arabic : x \in C}
  <2>1. \A i \in 1 .. Len(c) : c[i].arabic \in A
    BY <1>1, ElementOfSeq
  <2> HIDE DEF A
  <2>2. [i \in 1 .. Len(c) |-> c[i].arabic] \in [1 .. Len(c) -> A]
    BY <2>1
  <2>3. deck = [i \in 1 .. Len(c) |-> c[i].arabic]
    BY <1>2 DEF Letters
  <2> HIDE DEF deck
  <2> QED BY <1>2, <2>2, <2>3, FunctionIsList
<1> QED BY <1>2, <1>3

LEMMA PinnedMost ==
  ASSUME NEW w, Len(w) \in Nat, DOMAIN w = 1 .. Len(w), NEW c, IsDeck(c)
  PROVE  MostOf(w, c, PinFrenchGlosses(w, c))
<1> DEFINE deck == Letters(c)
           at == AlignLCS(w, deck)
           n == Len(w)
<1>1. PICK C : c \in Seq(C) /\ \A x \in C : x.french # ""
  BY DEF IsDeck
<1>2. Len(c) \in Nat /\ DOMAIN c = 1 .. Len(c)
  BY LettersOfDeck
<1>3. Len(deck) = Len(c)
  BY LettersOfDeck
<1> HIDE DEF deck
<1>4. /\ at \in [1 .. n -> 0 .. Len(c)]
      /\ \A p : Pairs(p, w, deck) =>
            Cardinality({k \in 1 .. n : p[k] # 0}) <= Cardinality({k \in 1 .. n : at[k] # 0})
  BY <1>2, <1>3, AlignedMost
<1>5. PinFrenchGlosses(w, c) = [i \in 1 .. n |-> IF at[i] = 0 THEN "" ELSE c[at[i]].french]
  BY DEF PinFrenchGlosses, deck, Letters
<1> HIDE DEF at
<1>6. \A k \in 1 .. n : PinFrenchGlosses(w, c)[k] # "" <=> at[k] # 0
  <2> SUFFICES ASSUME NEW k \in 1 .. n PROVE PinFrenchGlosses(w, c)[k] # "" <=> at[k] # 0
    OBVIOUS
  <2>1. at[k] # 0 => c[at[k]].french # ""
    <3>1. at[k] # 0 => at[k] \in 1 .. Len(c)
      BY <1>2, <1>4
    <3>2. at[k] # 0 => c[at[k]] \in C
      BY <1>1, <3>1, ElementOfSeq
    <3> QED BY <1>1, <3>2
  <2> QED BY <1>5, <2>1
<1>7. {k \in 1 .. n : PinFrenchGlosses(w, c)[k] # ""} = {k \in 1 .. n : at[k] # 0}
  BY <1>6
<1>8. ASSUME NEW p \in [1 .. n -> 0 .. Len(deck)], InOrder(p, w, deck) PROVE Pairs(p, w, deck)
  BY <1>8 DEF InOrder, Pairs
<1>9. ASSUME NEW p \in [1 .. n -> 0 .. Len(deck)], InOrder(p, w, deck)
      PROVE  Cardinality({k \in 1 .. n : p[k] # 0}) <= Cardinality({k \in 1 .. n : PinFrenchGlosses(w, c)[k] # ""})
  BY <1>4, <1>7, <1>8, <1>9
<1> QED BY <1>9 DEF MostOf, deck

\* What an aya takes from the files: the first that carries it.
FirstToCarry(files, v) ==
    LET carry == {k \in DOMAIN files : ParseTLDPage(files[k])[v] # <<>>}
    IN  IF carry = {} THEN <<>>
        ELSE ParseTLDPage(files[CHOOSE k \in carry : \A l \in carry : k <= l])[v]

FrenchInv ==
    /\ page \in Pages
    /\ \A v \in Verses : IsDeck(cards[v])
    /\ fstage # "saved" => \A v \in Verses : cards[v] = FirstToCarry(page.files, v)
    /\ fstage \in {"pinned", "gated"} => gloss = [v \in Verses |-> PinFrenchGlosses(Text[v], cards[v])]
    /\ accepted => fstage = "gated" /\ CheckFrenchGlosses(gloss)

LEMMA FilesAreLegible ==
  ASSUME NEW pg \in Pages
  PROVE  /\ DOMAIN pg.files \subseteq Nat
         /\ \A k \in DOMAIN pg.files : pg.files[k] \in Range(pg.files) /\ Legible(pg.files[k])
<1>1. pg.files \in Seq(Range(pg.files)) /\ \A f \in Range(pg.files) : Legible(f)
  BY FrenchAssumption DEF Legible
<1>2. DOMAIN pg.files = 1 .. Len(pg.files)
  BY <1>1, LenProperties
<1>3. \A k \in DOMAIN pg.files : pg.files[k] \in Range(pg.files)
  BY DEF Range
<1> QED BY <1>1, <1>2, <1>3

LEMMA FirstIsOneOfThem ==
  ASSUME NEW pg \in Pages, NEW v \in Verses, FirstToCarry(pg.files, v) # <<>>
  PROVE  \E k \in DOMAIN pg.files :
            ParseTLDPage(pg.files[k])[v] # <<>> /\ FirstToCarry(pg.files, v) = ParseTLDPage(pg.files[k])[v]
<1> DEFINE carry == {k \in DOMAIN pg.files : ParseTLDPage(pg.files[k])[v] # <<>>}
           first == CHOOSE k \in carry : \A l \in carry : k <= l
<1>1. carry # {} /\ FirstToCarry(pg.files, v) = ParseTLDPage(pg.files[first])[v]
  BY DEF FirstToCarry
<1>2. first \in carry
  <2>1. carry \subseteq Nat
    BY FilesAreLegible
  <2> HIDE DEF carry
  <2>2. \E k \in carry : \A l \in carry : k <= l
    BY <1>1, <2>1, LeastNumber
  <2> QED BY <2>2
<1> HIDE DEF first
<1> QED BY <1>1, <1>2

LEMMA FirstIsDeck ==
  ASSUME NEW pg \in Pages, NEW v \in Verses
  PROVE  IsDeck(FirstToCarry(pg.files, v))
<1>1. CASE FirstToCarry(pg.files, v) = <<>>
  BY <1>1, NoneIsDeck
<1>2. CASE FirstToCarry(pg.files, v) # <<>>
  <2>1. PICK k \in DOMAIN pg.files : FirstToCarry(pg.files, v) = ParseTLDPage(pg.files[k])[v]
    BY <1>2, FirstIsOneOfThem
  <2> QED BY <2>1, FilesAreLegible, CardsHaveFrench
<1> QED BY <1>1, <1>2

LEMMA FrenchHolds == FSpec => []FrenchInv
<1>1. FInit => FrenchInv
  <2> SUFFICES ASSUME FInit PROVE FrenchInv
    OBVIOUS
  <2>1. IsDeck(<<>>)
    BY NoneIsDeck
  <2>2. page \in Pages /\ \A v \in Verses : cards[v] = <<>>
    BY DEF FInit
  <2>3. fstage = "saved" /\ ~accepted
    BY DEF FInit
  <2> QED BY <2>1, <2>2, <2>3 DEF FrenchInv
<1>2. FrenchInv /\ [FNext]_fvars => FrenchInv'
  <2> SUFFICES ASSUME FrenchInv, [FNext]_fvars PROVE FrenchInv'
    OBVIOUS
  <2>1. CASE LoadFrenchGlosses
    <3>1. page \in Pages /\ page' = page /\ fstage' = "read"
      BY <2>1 DEF LoadFrenchGlosses, FrenchInv
    <3>2. cards' = [v \in Verses |-> FirstToCarry(page.files, v)]
      BY <2>1 DEF LoadFrenchGlosses, FirstToCarry
    <3>3. \A v \in Verses : IsDeck(FirstToCarry(page.files, v))
      BY <3>1, FirstIsDeck
    <3>4. \A v \in Verses : IsDeck(cards'[v])
      BY <3>2, <3>3
    <3>5. ~accepted' /\ \A v \in Verses : cards'[v] = FirstToCarry(page'.files, v)
      BY <2>1, <3>1, <3>2 DEF LoadFrenchGlosses, FrenchInv
    <3> QED BY <3>1, <3>4, <3>5 DEF FrenchInv
  <2>2. CASE Pin
    BY <2>2 DEF Pin, FrenchInv
  <2>3. CASE Gate
    <3>1. accepted' = CheckFrenchGlosses(gloss) /\ gloss' = gloss /\ fstage' = "gated"
      BY <2>3 DEF Gate
    <3>2. accepted' => fstage' = "gated" /\ CheckFrenchGlosses(gloss')
      BY <3>1, Zenon
    <3> QED BY <2>3, <3>2 DEF Gate, FrenchInv
  <2>4. CASE UNCHANGED fvars
    BY <2>4 DEF fvars, FrenchInv
  <2> QED BY <2>1, <2>2, <2>3, <2>4 DEF FNext
<1> QED BY <1>1, <1>2, PTL DEF FSpec

\* No pairing of an aya's words with its cards that keeps their order gives more
\* words their French than alignLCS does, whatever the pages say.
THEOREM FrenchGoesFurthest == FSpec => []AsManyAsPossible
<1>1. FrenchInv => AsManyAsPossible
  <2> SUFFICES ASSUME FrenchInv, fstage \in {"pinned", "gated"}, NEW v \in Verses
               PROVE  MostOf(Text[v], cards[v], gloss[v])
    BY DEF AsManyAsPossible, MostOf, InOrder, Letters
  <2>1. gloss[v] = PinFrenchGlosses(Text[v], cards[v]) /\ IsDeck(cards[v])
    BY DEF FrenchInv
  <2>2. Text[v] \in Seq(Range(Text[v]))
    BY FrenchAssumption
  <2>3. Len(Text[v]) \in Nat /\ DOMAIN Text[v] = 1 .. Len(Text[v])
    BY <2>2, LenProperties
  <2> QED BY <2>1, <2>3, PinnedMost
<1> QED BY <1>1, FrenchHolds, PTL

\* An aya is given cards only under its ref.
Opens(cells, r, u) == r \in 1 .. Len(cells) /\ cells[r][1] = "ref" /\ cells[r][3] = u
OpenedFrom(cells, f, i, v) ==
    \A u \in Verses : f[<<i, v>>][u] # <<>> => v = u \/ \E r \in i .. Len(cells) : Opens(cells, r, u)

\* One step of the reading, in its four cases.
LEMMA ReadCases ==
  ASSUME NEW cells, Legible(cells), NEW f, ReadsAlong(cells, f),
         NEW i \in 1 .. Len(cells) + 4, NEW v \in {0} \cup Verses
  PROVE  \/ i > Len(cells) /\ f[<<i, v>>] = [u \in Verses |-> <<>>]
         \/ /\ i <= Len(cells) /\ cells[i][1] = "ref" /\ cells[i][3] \in {0} \cup Verses
            /\ f[<<i, v>>] = f[<<i + 1, cells[i][3]>>]
         \/ /\ i <= Len(cells) - 2 /\ cells[i][1] # "ref" /\ v \in Verses /\ Starts(cells, i, v)
            /\ f[<<i, v>>] = Dealt(f[<<i + 4, v>>], v, CardAt(cells, i)) /\ f[<<i + 4, v>>] \in Decks(cells)
         \/ /\ i <= Len(cells) /\ cells[i][1] # "ref" /\ f[<<i, v>>] = f[<<i + 1, v>>]
<1>1. f[<<i, v>>] = ReadAt(cells, i, v, f)
  BY DEF ReadsAlong
<1>2. Len(cells) \in Nat /\ cells \in Seq(Range(cells))
  BY LegibleHasLength
<1>3. i <= Len(cells) /\ cells[i][1] = "ref" => cells[i][3] \in {0} \cup Verses
  <2>1. i <= Len(cells) => cells[i] \in Range(cells)
    <3>1. i <= Len(cells) => i \in 1 .. Len(cells)
      BY <1>2
    <3> QED BY <1>2, <3>1, ElementOfSeq
  <2> QED BY <2>1 DEF Legible
<1>4. i <= Len(cells) => f[<<i + 4, v>>] \in Decks(cells)
  <2>1. i <= Len(cells) => <<i + 4, v>> \in Spots(cells)
    BY <1>2 DEF Spots
  <2> QED BY <2>1 DEF ReadsAlong
<1>5. Starts(cells, i, v) => i <= Len(cells) - 2 /\ v \in Verses
  BY <1>2 DEF Starts
<1>6. i > Len(cells) \/ i <= Len(cells)
  BY <1>2
<1> QED BY <1>1, <1>3, <1>4, <1>5, <1>6 DEF ReadAt

LEMMA OpenedByItsRef ==
  ASSUME NEW cells, Legible(cells), NEW f, ReadsAlong(cells, f)
  PROVE  \A i \in 1 .. Len(cells) + 4, v \in {0} \cup Verses : OpenedFrom(cells, f, i, v)
<1> DEFINE D == Spots(cells)
           n == Len(cells)
           T == {at \in D : OpenedFrom(cells, f, at[1], at[2])}
<1>0. n \in Nat
  BY LegibleHasLength
<1>1. ASSUME NEW at \in D, \A e \in D : Unread(cells)[e] < Unread(cells)[at] => e \in T PROVE at \in T
  <2> DEFINE i == at[1]
             v == at[2]
  <2>1. /\ i \in 1 .. n + 4 /\ v \in {0} \cup Verses /\ at = <<i, v>>
        /\ i <= n /\ cells[i][1] = "ref" => <<i + 1, cells[i][3]>> \in T
        /\ i <= n => <<i + 1, v>> \in T /\ <<i + 4, v>> \in T
    <3>1. at \in (1 .. n + 4) \X ({0} \cup Verses)
      BY DEF Spots
    <3>2. i \in 1 .. n + 4 /\ v \in {0} \cup Verses /\ at = <<i, v>>
      BY <3>1
    <3> HIDE DEF T
    <3> QED BY <1>1, <3>2, NextSpots
  <2>2. \A x, y : <<x, y>> \in T => OpenedFrom(cells, f, x, y)
    OBVIOUS
  <2>3. OpenedFrom(cells, f, i, v) => at \in T
    OBVIOUS
  <2> HIDE DEF i, v, T, n
  <2>4. \A u, r : Opens(cells, r, u) => r \in 1 .. n
    BY DEF Opens, n
  <2>5. CASE i > n /\ f[<<i, v>>] = [u \in Verses |-> <<>>]
    BY <2>3, <2>5 DEF OpenedFrom
  <2>6. CASE /\ i <= n /\ cells[i][1] = "ref" /\ cells[i][3] \in {0} \cup Verses
             /\ f[<<i, v>>] = f[<<i + 1, cells[i][3]>>]
    <3>1. OpenedFrom(cells, f, i + 1, cells[i][3])
      BY <2>1, <2>2, <2>6
    <3>2. \A r \in i + 1 .. n : r \in i .. n
      BY <1>0, <2>1
    <3>3. i \in i .. n /\ Opens(cells, i, cells[i][3])
      BY <1>0, <2>1, <2>6 DEF Opens, n
    <3> QED BY <2>3, <2>6, <3>1, <3>2, <3>3 DEF OpenedFrom, n
  <2>7. CASE /\ i <= n - 2 /\ v \in Verses
             /\ f[<<i, v>>] = Dealt(f[<<i + 4, v>>], v, CardAt(cells, i)) /\ f[<<i + 4, v>>] \in Decks(cells)
    <3>0. i <= n
      BY <1>0, <2>1, <2>7
    <3>1. OpenedFrom(cells, f, i + 4, v)
      BY <2>1, <2>2, <3>0
    <3>2. \A r \in i + 4 .. n : r \in i .. n
      BY <1>0, <2>1
    <3>3. \A u \in Verses : u # v => f[<<i, v>>][u] = f[<<i + 4, v>>][u]
      BY <2>7 DEF Dealt, Decks
    <3> QED BY <2>3, <3>1, <3>2, <3>3 DEF OpenedFrom, n
  <2>8. CASE i <= n /\ f[<<i, v>>] = f[<<i + 1, v>>]
    <3>1. OpenedFrom(cells, f, i + 1, v)
      BY <2>1, <2>2, <2>8
    <3>2. \A r \in i + 1 .. n : r \in i .. n
      BY <1>0, <2>1
    <3> QED BY <2>3, <2>8, <3>1, <3>2 DEF OpenedFrom, n
  <2> QED BY <2>1, <2>5, <2>6, <2>7, <2>8, ReadCases DEF n
<1> HIDE DEF T
<1>2. D \subseteq T
  BY <1>1, FromTheLastCell
<1>3. ASSUME NEW i \in 1 .. n + 4, NEW v \in {0} \cup Verses PROVE OpenedFrom(cells, f, i, v)
  <2>1. <<i, v>> \in D
    BY DEF Spots
  <2>2. <<i, v>> \in T
    BY <1>2, <2>1
  <2>3. \A x, y : <<x, y>> \in T => OpenedFrom(cells, f, x, y)
    BY DEF T
  <2> QED BY <2>2, <2>3
<1> QED BY <1>3

\* Refs name ayas, each once; a card stands under the ref of its aya.
RefsApart(cells) ==
    \A r, s, u : Opens(cells, r, u) /\ Opens(cells, s, u) => u \in Verses /\ r = s
Means(cells, M) ==
    \A v \in Verses, j \in 1 .. Len(cells) - 2 :
        cells[j][1] = "label" /\ cells[j + 1][1] = "arabic" /\ Under(cells, j, v) => CardAt(cells, j) \in M[v]

\* The pass stands under the ref of the aya it reads for, and has opened or will
\* open every aya a ref still names: then all it reads is what the page means.
Stands(cells, i, v) == i <= Len(cells) /\ v # 0 => Under(cells, i, v)
NoneSkipped(cells, f, i, v) ==
    \A r \in i .. Len(cells) : cells[r][1] = "ref" => f[<<i, v>>][cells[r][3]] # <<>>
AsMeant(cells, f, M, i, v) ==
    Stands(cells, i, v) /\ NoneSkipped(cells, f, i, v) => \A u \in Verses : f[<<i, v>>][u] \in Seq(M[u])

\* Past a ref.
LEMMA PastARef ==
  ASSUME NEW cells, Len(cells) \in Nat, NEW f, NEW i \in 1 .. Len(cells), NEW v, cells[i][1] = "ref",
         f[<<i, v>>] = f[<<i + 1, cells[i][3]>>], NoneSkipped(cells, f, i, v)
  PROVE  Stands(cells, i + 1, cells[i][3]) /\ NoneSkipped(cells, f, i + 1, cells[i][3])
<1>1. Under(cells, i + 1, cells[i][3])
  <2>1. i \in 1 .. (i + 1) - 1 /\ \A s \in i + 1 .. (i + 1) - 1 : FALSE
    OBVIOUS
  <2> QED BY <2>1 DEF Under
<1>2. \A r \in i + 1 .. Len(cells) : r \in i .. Len(cells)
  OBVIOUS
<1> QED BY <1>1, <1>2 DEF Stands, NoneSkipped

\* Past a cell that is neither a ref nor the start of a card.
LEMMA PastACell ==
  ASSUME NEW cells, Len(cells) \in Nat, NEW f, NEW i \in 1 .. Len(cells), NEW v, cells[i][1] # "ref",
         f[<<i, v>>] = f[<<i + 1, v>>], Stands(cells, i, v), NoneSkipped(cells, f, i, v)
  PROVE  Stands(cells, i + 1, v) /\ NoneSkipped(cells, f, i + 1, v)
<1>1. v # 0 => Under(cells, i + 1, v)
  <2> SUFFICES ASSUME v # 0 PROVE Under(cells, i + 1, v)
    OBVIOUS
  <2>0. Under(cells, i, v)
    BY DEF Stands
  <2>1. PICK r \in 1 .. i - 1 : /\ cells[r][1] = "ref" /\ cells[r][3] = v
                                /\ \A s \in r + 1 .. i - 1 : cells[s][1] # "ref"
    BY <2>0 DEF Under
  <2>2. \A s \in r + 1 .. (i + 1) - 1 : s = i \/ s \in r + 1 .. i - 1
    OBVIOUS
  <2>3. \A s \in r + 1 .. (i + 1) - 1 : cells[s][1] # "ref"
    BY <2>1, <2>2
  <2>4. r \in 1 .. (i + 1) - 1
    OBVIOUS
  <2> QED BY <2>1, <2>3, <2>4 DEF Under
<1>2. \A r \in i + 1 .. Len(cells) : r \in i .. Len(cells)
  OBVIOUS
<1> QED BY <1>1, <1>2 DEF Stands, NoneSkipped

\* Past a card no ref has been skipped, or its aya would have been given none.
LEMMA PastACard ==
  ASSUME NEW cells, Len(cells) \in Nat, RefsApart(cells), NEW f, NEW i \in 1 .. Len(cells), NEW v \in Verses, v # 0,
         cells[i][1] # "ref", \A u \in Verses : u # v => f[<<i, v>>][u] = f[<<i + 4, v>>][u],
         OpenedFrom(cells, f, i + 4, v), Stands(cells, i, v), NoneSkipped(cells, f, i, v)
  PROVE  Under(cells, i, v) /\ Stands(cells, i + 4, v) /\ NoneSkipped(cells, f, i + 4, v)
<1> DEFINE n == Len(cells)
<1>1. Under(cells, i, v)
  BY DEF Stands
<1>2. PICK o \in 1 .. i - 1 : /\ cells[o][1] = "ref" /\ cells[o][3] = v
                              /\ \A s \in o + 1 .. i - 1 : cells[s][1] # "ref"
  BY <1>1 DEF Under
<1>3. Opens(cells, o, v) /\ o < i
  BY <1>2 DEF Opens
<1>4. ASSUME NEW r \in i + 1 .. n, cells[r][1] = "ref"
      PROVE  r > i + 3 /\ f[<<i + 4, v>>][cells[r][3]] # <<>>
  <2> DEFINE u == cells[r][3]
  <2>1. Opens(cells, r, u)
    BY <1>4 DEF Opens
  <2>2. u \in Verses
    BY <2>1 DEF RefsApart
  <2>3. r # o
    BY <1>3
  <2>4. u # v
    BY <1>3, <2>1, <2>3 DEF RefsApart
  <2>5. r \in i .. n
    OBVIOUS
  <2>6. f[<<i, v>>][u] # <<>>
    BY <1>4, <2>5 DEF NoneSkipped
  <2>7. f[<<i + 4, v>>][u] # <<>>
    BY <2>2, <2>4, <2>6
  <2>8. PICK s \in i + 4 .. n : Opens(cells, s, u)
    BY <2>2, <2>4, <2>7 DEF OpenedFrom
  <2>9. s = r
    BY <2>1, <2>8 DEF RefsApart
  <2> QED BY <2>7, <2>8, <2>9
<1>5. NoneSkipped(cells, f, i + 4, v)
  <2>1. \A r \in i + 4 .. n : r \in i + 1 .. n
    OBVIOUS
  <2> QED BY <1>4, <2>1 DEF NoneSkipped
<1>6. i + 4 <= n => Under(cells, i + 4, v)
  <2> SUFFICES ASSUME i + 4 <= n PROVE Under(cells, i + 4, v)
    OBVIOUS
  <2>1. ASSUME NEW s \in o + 1 .. (i + 4) - 1 PROVE cells[s][1] # "ref"
    <3>1. CASE s < i
      <4>1. s \in o + 1 .. i - 1
        BY <3>1
      <4> QED BY <1>2, <4>1
    <3>2. CASE s = i
      BY <3>2
    <3>3. CASE s > i
      <4>1. s \in i + 1 .. n /\ ~(s > i + 3)
        BY <3>3
      <4> QED BY <1>4, <4>1
    <3> QED BY <3>1, <3>2, <3>3
  <2>2. o \in 1 .. (i + 4) - 1
    OBVIOUS
  <2> QED BY <1>2, <2>1, <2>2 DEF Under
<1> QED BY <1>1, <1>5, <1>6 DEF Stands

LEMMA ReadAsMeant ==
  ASSUME NEW cells, Legible(cells), RefsApart(cells), NEW M, Means(cells, M), 0 \notin Verses,
         NEW f, ReadsAlong(cells, f)
  PROVE  AsMeant(cells, f, M, 1, 0)
<1> DEFINE D == Spots(cells)
           n == Len(cells)
           T == {at \in D : AsMeant(cells, f, M, at[1], at[2])}
<1>0. n \in Nat
  BY LegibleHasLength
<1>1. ASSUME NEW at \in D, \A e \in D : Unread(cells)[e] < Unread(cells)[at] => e \in T PROVE at \in T
  <2> DEFINE i == at[1]
             v == at[2]
  <2>1. /\ i \in 1 .. n + 4 /\ v \in {0} \cup Verses /\ at = <<i, v>>
        /\ i <= n /\ cells[i][1] = "ref" => <<i + 1, cells[i][3]>> \in T
        /\ i <= n => <<i + 1, v>> \in T /\ <<i + 4, v>> \in T
    <3>1. at \in (1 .. n + 4) \X ({0} \cup Verses)
      BY DEF Spots
    <3>2. i \in 1 .. n + 4 /\ v \in {0} \cup Verses /\ at = <<i, v>>
      BY <3>1
    <3> HIDE DEF T
    <3> QED BY <1>1, <3>2, NextSpots
  <2>2. \A x, y : <<x, y>> \in T => AsMeant(cells, f, M, x, y)
    OBVIOUS
  <2>3. AsMeant(cells, f, M, i, v) => at \in T
    OBVIOUS
  <2> HIDE DEF i, v, T
  <2> SUFFICES ASSUME Stands(cells, i, v), NoneSkipped(cells, f, i, v)
               PROVE  \A u \in Verses : f[<<i, v>>][u] \in Seq(M[u])
    BY <2>3 DEF AsMeant
  <2>4. i <= n => i \in 1 .. n
    BY <1>0, <2>1
  <2> HIDE DEF n
  <2>5. CASE i > n /\ f[<<i, v>>] = [u \in Verses |-> <<>>]
    BY <2>5, EmptySeq
  <2>6. CASE /\ i <= n /\ cells[i][1] = "ref" /\ cells[i][3] \in {0} \cup Verses
             /\ f[<<i, v>>] = f[<<i + 1, cells[i][3]>>]
    <3>1. AsMeant(cells, f, M, i + 1, cells[i][3])
      BY <2>1, <2>2, <2>6
    <3>2. Stands(cells, i + 1, cells[i][3]) /\ NoneSkipped(cells, f, i + 1, cells[i][3])
      BY <1>0, <2>4, <2>6, PastARef DEF n
    <3> QED BY <2>6, <3>1, <3>2 DEF AsMeant
  <2>7. CASE /\ i <= n - 2 /\ cells[i][1] # "ref" /\ v \in Verses /\ Starts(cells, i, v)
             /\ f[<<i, v>>] = Dealt(f[<<i + 4, v>>], v, CardAt(cells, i)) /\ f[<<i + 4, v>>] \in Decks(cells)
    <3>0. i <= n /\ i \in 1 .. n /\ i \in 1 .. n - 2 /\ v # 0
      BY <1>0, <2>1, <2>7
    <3>1. AsMeant(cells, f, M, i + 4, v)
      BY <2>1, <2>2, <3>0
    <3>2. \A u \in Verses : u # v => f[<<i, v>>][u] = f[<<i + 4, v>>][u]
      BY <2>7 DEF Dealt, Decks
    <3>3. OpenedFrom(cells, f, i + 4, v)
      <4>1. i + 4 \in 1 .. n + 4
        BY <1>0, <3>0
      <4> QED BY <2>1, <4>1, OpenedByItsRef DEF n
    <3>4. Under(cells, i, v) /\ Stands(cells, i + 4, v) /\ NoneSkipped(cells, f, i + 4, v)
      BY <1>0, <2>7, <3>0, <3>2, <3>3, PastACard DEF n
    <3>5. CardAt(cells, i) \in M[v]
      BY <2>7, <3>0, <3>4 DEF Means, Starts, n
    <3>6. \A u \in Verses : f[<<i + 4, v>>][u] \in Seq(M[u])
      BY <3>1, <3>4 DEF AsMeant
    <3>7. f[<<i, v>>][v] \in Seq(M[v])
      <4>1. f[<<i, v>>][v] = <<CardAt(cells, i)>> \o f[<<i + 4, v>>][v]
        BY <2>7 DEF Dealt, Decks
      <4> DEFINE S == M[v]
                 card == CardAt(cells, i)
      <4>2. card \in S /\ f[<<i + 4, v>>][v] \in Seq(S)
        BY <2>7, <3>5, <3>6
      <4>3. <<card>> \in Seq(S)
        <5> HIDE DEF S, card
        <5> QED BY <4>2
      <4> QED BY <4>1, <4>2, <4>3, ConcatProperties
    <3> QED BY <3>2, <3>6, <3>7
  <2>8. CASE i <= n /\ cells[i][1] # "ref" /\ f[<<i, v>>] = f[<<i + 1, v>>]
    <3>1. AsMeant(cells, f, M, i + 1, v)
      BY <2>1, <2>2, <2>8
    <3>2. Stands(cells, i + 1, v) /\ NoneSkipped(cells, f, i + 1, v)
      BY <1>0, <2>4, <2>8, PastACell DEF n
    <3> QED BY <2>8, <3>1, <3>2 DEF AsMeant
  <2>9. \/ i > n /\ f[<<i, v>>] = [u \in Verses |-> <<>>]
        \/ /\ i <= n /\ cells[i][1] = "ref" /\ cells[i][3] \in {0} \cup Verses
           /\ f[<<i, v>>] = f[<<i + 1, cells[i][3]>>]
        \/ /\ i <= n - 2 /\ cells[i][1] # "ref" /\ v \in Verses /\ Starts(cells, i, v)
           /\ f[<<i, v>>] = Dealt(f[<<i + 4, v>>], v, CardAt(cells, i)) /\ f[<<i + 4, v>>] \in Decks(cells)
        \/ i <= n /\ cells[i][1] # "ref" /\ f[<<i, v>>] = f[<<i + 1, v>>]
    BY <2>1, ReadCases DEF n
  <2> QED BY <2>5, <2>6, <2>7, <2>8, <2>9
<1> HIDE DEF T
<1>2. D \subseteq T
  BY <1>1, FromTheLastCell
<1>3. <<1, 0>> \in D
  BY <1>0 DEF Spots
<1>4. \A x, y : <<x, y>> \in T => AsMeant(cells, f, M, x, y)
  BY DEF T
<1> QED BY <1>2, <1>3, <1>4

\* What is paired is of one letter.
Alike(a, b, f, i) == \A k \in i .. Len(a) : f[k] # 0 => b[f[k]] = a[k]

LEMMA PairedAlike ==
  ASSUME NEW a, NEW b, Len(a) \in Nat, Len(b) \in Nat, NEW f \in [1 .. Len(a) -> 0 .. Len(b)],
         NEW i \in 1 .. Len(a), NEW j \in 0 .. Len(b), j # 0 => a[i] = b[j], Alike(a, b, f, i + 1)
  PROVE  Alike(a, b, Paired(f, i, j), i)
<1> DEFINE g == Paired(f, i, j)
<1>1. g[i] = j /\ \A k \in i + 1 .. Len(a) : g[k] = f[k]
  BY DEF Paired
<1>2. \A k \in i .. Len(a) : k = i \/ k \in i + 1 .. Len(a)
  OBVIOUS
<1> HIDE DEF g
<1>3. ASSUME NEW k \in i .. Len(a), g[k] # 0 PROVE b[g[k]] = a[k]
  BY <1>1, <1>2, <1>3 DEF Alike
<1> QED BY <1>3 DEF Alike, g

LEMMA WalkIsAlike ==
  ASSUME NEW a, NEW b, Len(a) \in Nat, Len(b) \in Nat, NEW d, NEW w, WalksAlong(a, b, d, w)
  PROVE  \A at \in Grid(a, b) : Alike(a, b, w[at], at[1])
<1> DEFINE D == Grid(a, b)
           n == Len(a)
           m == Len(b)
           T == {at \in D : Alike(a, b, w[at], at[1])}
<1>1. ASSUME NEW at \in D, \A e \in D : Left(a, b)[e] < Left(a, b)[at] => e \in T PROVE at \in T
  <2> DEFINE i == at[1]
             j == at[2]
  <2>1. /\ i \in Int /\ j \in Int /\ at = <<i, j>> /\ i \in 1 .. n + 1 /\ j \in 1 .. m + 1
        /\ i <= n => <<i + 1, j>> \in T
        /\ j <= m => <<i, j + 1>> \in T
        /\ i <= n /\ j <= m => <<i + 1, j + 1>> \in T
    <3> HIDE DEF T
    <3> QED BY <1>1, NextOnTheGrid
  <2> HIDE DEF i, j
  <2>2. WalksHere(a, b, d, w, i, j)
    BY <2>1 DEF WalksAlong
  <2>3. (\A e \in D : w[e] \in [1 .. n -> 0 .. m]) /\ n \in Nat /\ m \in Nat
    BY DEF WalksAlong
  <2>4. \A x, y : <<x, y>> \in T => <<x, y>> \in D /\ Alike(a, b, w[<<x, y>>], x)
    OBVIOUS
  <2>5. Alike(a, b, w[<<i, j>>], i) => at \in T
    BY <2>1
  <2> HIDE DEF T, D
  <2>6. CASE i > n
    <3>1. i .. n = {}
      BY <2>1, <2>3, <2>6
    <3> QED BY <2>5, <3>1 DEF Alike
  <2>7. CASE i <= n /\ j <= m /\ a[i] = b[j]
    <3> DEFINE f == w[<<i + 1, j + 1>>]
    <3>1. w[<<i, j>>] = Paired(f, i, j)
      BY <2>2, <2>7 DEF WalksHere
    <3>2. Alike(a, b, f, i + 1) /\ f \in [1 .. n -> 0 .. m]
      BY <2>1, <2>3, <2>4, <2>7
    <3>3. i \in 1 .. n /\ j \in 0 .. m
      BY <2>1, <2>3, <2>7
    <3> HIDE DEF f
    <3>4. Alike(a, b, Paired(f, i, j), i)
      BY <2>7, <3>2, <3>3, PairedAlike
    <3> QED BY <2>5, <3>1, <3>4
  <2>8. CASE i <= n /\ j <= m /\ a[i] # b[j] /\ d[<<i, j + 1>>] >= d[<<i + 1, j>>]
    <3>1. w[<<i, j>>] = w[<<i, j + 1>>]
      BY <2>2, <2>8 DEF WalksHere
    <3>2. Alike(a, b, w[<<i, j + 1>>], i)
      BY <2>1, <2>4, <2>8
    <3> QED BY <2>5, <3>1, <3>2
  <2>9. CASE i <= n /\ (j > m \/ (a[i] # b[j] /\ ~(d[<<i, j + 1>>] >= d[<<i + 1, j>>])))
    <3> DEFINE f == w[<<i + 1, j>>]
    <3>1. w[<<i, j>>] = Paired(f, i, 0)
      BY <2>2, <2>9 DEF WalksHere
    <3>2. Alike(a, b, f, i + 1) /\ f \in [1 .. n -> 0 .. m]
      BY <2>1, <2>3, <2>4, <2>9
    <3>3. i \in 1 .. n /\ 0 \in 0 .. m
      BY <2>1, <2>3, <2>9
    <3> HIDE DEF f
    <3>4. Alike(a, b, Paired(f, i, 0), i)
      BY <3>2, <3>3, PairedAlike
    <3> QED BY <2>5, <3>1, <3>4
  <2> QED BY <2>1, <2>3, <2>6, <2>7, <2>8, <2>9
<1> HIDE DEF T
<1>2. D \subseteq T
  BY <1>1, FromTheEnds
<1> QED BY <1>2 DEF T

LEMMA AlignedAlike ==
  ASSUME NEW a, NEW b, Len(a) \in Nat, Len(b) \in Nat
  PROVE  Alike(a, b, AlignLCS(a, b), 1)
<1>1. PICK d, w : CountsFrom(a, b, d) /\ WalksAlong(a, b, d, w) /\ AlignLCS(a, b) = w[<<1, 1>>]
  BY AlignedAlong
<1>2. <<1, 1>> \in Grid(a, b) /\ <<1, 1>>[1] = 1
  BY DEF Grid
<1> QED BY <1>1, <1>2, WalkIsAlike

\* What an accepted word shows is the French of one of its cards, of its letters.
OfItsCards(w, c, g) ==
    \A i \in 1 .. Len(w) : g[i] # "" =>
        \E k \in 1 .. Len(c) : c[k].arabic = w[i] /\ c[k].french = g[i]

LEMMA PinnedOfItsCards ==
  ASSUME NEW w, Len(w) \in Nat, DOMAIN w = 1 .. Len(w), NEW c, IsDeck(c)
  PROVE  /\ OfItsCards(w, c, PinFrenchGlosses(w, c))
         /\ DOMAIN PinFrenchGlosses(w, c) = 1 .. Len(w)
<1> DEFINE deck == Letters(c)
           at == AlignLCS(w, deck)
           n == Len(w)
<1>2. Len(c) \in Nat
  BY LettersOfDeck
<1>3. Len(deck) = Len(c) /\ \A k \in 1 .. Len(c) : deck[k] = c[k].arabic
  BY LettersOfDeck
<1> HIDE DEF deck
<1>4. at \in [1 .. n -> 0 .. Len(c)] /\ Alike(w, deck, at, 1)
  BY <1>2, <1>3, AlignedMost, AlignedAlike
<1>5. PinFrenchGlosses(w, c) = [i \in 1 .. n |-> IF at[i] = 0 THEN "" ELSE c[at[i]].french]
  BY DEF PinFrenchGlosses, deck, Letters
<1> HIDE DEF at
<1>6. ASSUME NEW i \in 1 .. n, PinFrenchGlosses(w, c)[i] # ""
      PROVE  \E k \in 1 .. Len(c) : c[k].arabic = w[i] /\ c[k].french = PinFrenchGlosses(w, c)[i]
  <2>1. at[i] # 0 /\ PinFrenchGlosses(w, c)[i] = c[at[i]].french
    BY <1>5, <1>6
  <2>2. at[i] \in 1 .. Len(c)
    BY <1>2, <1>4, <2>1
  <2>3. deck[at[i]] = w[i]
    BY <1>4, <2>1 DEF Alike
  <2> QED BY <1>3, <2>1, <2>2, <2>3
<1> QED BY <1>5, <1>6 DEF OfItsCards

\* The refs and the cards of a page that can be read, as MeantAssumption has them.
MeantAya(pg) == [v \in Verses |-> Range(pg.meant[v])]

LEMMA RefsOfAPage ==
  ASSUME NEW pg \in Pages, NEW k \in DOMAIN pg.files, NEW l \in DOMAIN pg.files, NEW r, NEW s, NEW u,
         Opens(pg.files[k], r, u), Opens(pg.files[l], s, u)
  PROVE  u \in Verses /\ k = l /\ r = s
<1>1. pg.files[k] \in Seq(Range(pg.files[k])) /\ pg.files[l] \in Seq(Range(pg.files[l]))
  BY FilesAreLegible, LegibleHasLength
<1>2. DOMAIN pg.files[k] = 1 .. Len(pg.files[k]) /\ DOMAIN pg.files[l] = 1 .. Len(pg.files[l])
  BY <1>1, LenProperties
<1>3. \A i \in DOMAIN pg.files[k], j \in DOMAIN pg.files[l] :
         pg.files[k][i][1] = "ref" /\ pg.files[l][j][1] = "ref" /\ pg.files[k][i][3] = pg.files[l][j][3]
            => pg.files[k][i][3] \in Verses /\ k = l /\ i = j
  BY MeantAssumption
<1> QED BY <1>2, <1>3 DEF Opens

LEMMA PageMeans ==
  ASSUME NEW pg \in Pages, NEW k \in DOMAIN pg.files
  PROVE  RefsApart(pg.files[k]) /\ Means(pg.files[k], MeantAya(pg)) /\ 0 \notin Verses
<1>1. RefsApart(pg.files[k])
  BY RefsOfAPage DEF RefsApart
<1>2. pg.files[k] \in Range(pg.files)
  BY FilesAreLegible
<1>3. \A f \in Range(pg.files), v \in Verses : \A i \in 1 .. Len(f) - 2 :
         f[i][1] = "label" /\ f[i + 1][1] = "arabic" /\ Under(f, i, v) => CardAt(f, i) \in Range(pg.meant[v])
  BY MeantAssumption DEF CardAt
<1>4. Means(pg.files[k], MeantAya(pg))
  BY <1>2, <1>3 DEF Means, MeantAya
<1> QED BY <1>1, <1>4, MeantAssumption

\* When every aya was carried, none was skipped, and what is read is what is meant.
LEMMA CarriedIsMeant ==
  ASSUME NEW pg \in Pages, \A u \in Verses : FirstToCarry(pg.files, u) # <<>>, NEW v \in Verses
  PROVE  FirstToCarry(pg.files, v) \in Seq(Range(pg.meant[v]))
<1>1. PICK k \in DOMAIN pg.files : FirstToCarry(pg.files, v) = ParseTLDPage(pg.files[k])[v]
  BY FirstIsOneOfThem
<1> DEFINE cells == pg.files[k]
<1>2. Legible(cells) /\ RefsApart(cells) /\ Means(cells, MeantAya(pg)) /\ 0 \notin Verses
  BY FilesAreLegible, PageMeans
<1>3. PICK f : ReadsAlong(cells, f) /\ ParseTLDPage(cells) = f[<<1, 0>>]
  BY <1>2, PageIsRead
<1>4. ASSUME NEW r \in 1 .. Len(cells), cells[r][1] = "ref"
      PROVE  f[<<1, 0>>][cells[r][3]] # <<>>
  <2> DEFINE u == cells[r][3]
  <2>1. Opens(cells, r, u)
    BY <1>4 DEF Opens
  <2>2. u \in Verses
    BY <2>1, <1>2 DEF RefsApart
  <2>3. PICK l \in DOMAIN pg.files : ParseTLDPage(pg.files[l])[u] # <<>>
    BY <2>2, FirstIsOneOfThem
  <2>4. Legible(pg.files[l])
    BY FilesAreLegible
  <2>5. PICK g : ReadsAlong(pg.files[l], g) /\ ParseTLDPage(pg.files[l]) = g[<<1, 0>>]
    BY <2>4, PageIsRead
  <2>6. OpenedFrom(pg.files[l], g, 1, 0)
    <3>1. Len(pg.files[l]) \in Nat
      BY <2>4, LegibleHasLength
    <3>2. 1 \in 1 .. Len(pg.files[l]) + 4
      BY <3>1
    <3> QED BY <2>4, <2>5, <3>2, OpenedByItsRef
  <2>7. \E s \in 1 .. Len(pg.files[l]) : Opens(pg.files[l], s, u)
    BY <1>2, <2>2, <2>3, <2>5, <2>6 DEF OpenedFrom
  <2>8. l = k
    <3> HIDE DEF u
    <3> QED BY <2>1, <2>7, RefsOfAPage
  <2> QED BY <1>3, <2>3, <2>8
<1>5. Stands(cells, 1, 0) /\ NoneSkipped(cells, f, 1, 0)
  BY <1>4 DEF Stands, NoneSkipped
<1>6. AsMeant(cells, f, MeantAya(pg), 1, 0)
  BY <1>2, <1>3, ReadAsMeant
<1>7. f[<<1, 0>>][v] \in Seq(MeantAya(pg)[v])
  BY <1>5, <1>6 DEF AsMeant
<1> QED BY <1>1, <1>3, <1>7 DEF MeantAya

LEMMA NoPlaceInNone == ASSUME NEW c, IsDeck(c), NEW j \in 1 .. Len(c) PROVE c # <<>>
<1>1. PICK C : c \in Seq(C)
  BY DEF IsDeck
<1>2. Len(c) \in Nat /\ Len(c) # 0
  BY <1>1, LenProperties
<1>3. Len(<<>>) = 0
  BY EmptySeq
<1> QED BY <1>2, <1>3

\* In a corpus the gate accepts, a word's French is that of a card the page means
\* for its aya, with its letters: a card read under the wrong aya would have cost
\* the aya it belongs to all its French.
THEOREM FrenchIsOwn == FSpec => []FrenchIsTheWordsOwn
<1>1. FrenchInv => FrenchIsTheWordsOwn
  <2> SUFFICES ASSUME FrenchInv, accepted, NEW v \in Verses, NEW i \in DOMAIN gloss[v], gloss[v][i] # ""
               PROVE  \E k \in DOMAIN page.meant[v] :
                         page.meant[v][k].arabic = Text[v][i] /\ page.meant[v][k].french = gloss[v][i]
    BY DEF FrenchIsTheWordsOwn
  <2>1. /\ page \in Pages /\ CheckFrenchGlosses(gloss)
        /\ \A u \in Verses : gloss[u] = PinFrenchGlosses(Text[u], cards[u]) /\ IsDeck(cards[u])
                             /\ cards[u] = FirstToCarry(page.files, u)
    BY DEF FrenchInv
  <2>2. \A u \in Verses : Len(Text[u]) \in Nat /\ DOMAIN Text[u] = 1 .. Len(Text[u])
    <3>1. \A u \in Verses : Text[u] \in Seq(Range(Text[u]))
      BY FrenchAssumption
    <3> QED BY <3>1, LenProperties
  <2>3. \A u \in Verses : OfItsCards(Text[u], cards[u], gloss[u]) /\ DOMAIN gloss[u] = 1 .. Len(Text[u])
    BY <2>1, <2>2, PinnedOfItsCards
  <2>4. ASSUME NEW u \in Verses PROVE \E k \in DOMAIN gloss[u] : gloss[u][k] # ""
    <3> DEFINE french == {x \in Verses : \E k \in DOMAIN gloss[x] : gloss[x][k] # ""}
    <3>1. french = {} \/ french = Verses
      BY <2>1 DEF CheckFrenchGlosses
    <3>2. v \in french
      OBVIOUS
    <3> QED BY <3>1, <3>2
  <2>5. ASSUME NEW u \in Verses PROVE FirstToCarry(page.files, u) # <<>>
    <3>1. PICK k \in DOMAIN gloss[u] : gloss[u][k] # ""
      BY <2>4
    <3>2. PICK j \in 1 .. Len(cards[u]) : cards[u][j].french = gloss[u][k]
      BY <2>3, <3>1 DEF OfItsCards
    <3>3. cards[u] # <<>>
      BY <2>1, <3>2, NoPlaceInNone
    <3> QED BY <2>1, <3>3
  <2>6. cards[v] \in Seq(Range(page.meant[v]))
    BY <2>1, <2>5, CarriedIsMeant
  <2>7. PICK k \in 1 .. Len(cards[v]) : cards[v][k].arabic = Text[v][i] /\ cards[v][k].french = gloss[v][i]
    BY <2>3 DEF OfItsCards
  <2>8. cards[v][k] \in Range(page.meant[v])
    BY <2>6, <2>7, ElementOfSeq
  <2> QED BY <2>7, <2>8 DEF Range
<1> QED BY <1>1, FrenchHolds, PTL
=============================================================================
