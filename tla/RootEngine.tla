----------------------------- MODULE RootEngine -----------------------------
(* Jidhr, from the morphology to an answer: the corpus jidhrcorpus writes   *)
(* (server/cmd/jidhrcorpus), the index a MemoryStore makes of it, and the   *)
(* ladder a word walks down (jidhr/pkg/root).  A written form is a sequence *)
(* of signs: letters in a transliteration, vowel marks, the dagger alef D, *)
(* the tatweel "_", a pause mark "." and the space before it.  A root is    *)
(* the sequence of its radicals.                                            *)
EXTENDS Integers, Sequences, FiniteSets, SequencesExt

CONSTANTS
    Databases,       \* what corpus.db and Postgres may hold: [words, uses, senses,
                     \* entries]; entries stands for a corpus somebody else wrote
    Asked            \* the forms callers ask about

VARIABLES
    database,        \* one of Databases
    jcorpus,         \* the corpus file: [attested, rootless, entries], or NoCorpus
    index,           \* what rootd made of it: [attested, bySpelling], or NoIndex
    word,            \* the form asked about
    rung,            \* where on the ladder it stands
    answer           \* what it was answered

jvars == <<database, jcorpus, index, word, rung, answer>>

NoLetters == <<>>
NoCorpus == [attested |-> {}, rootless |-> {}, entries |-> <<>>]
NoIndex == [attested |-> <<>>, bySpelling |-> <<>>]
Unanswered == [method |-> "none", roots |-> <<>>, rootless |-> FALSE, known |-> {}, shaped |-> {}]

\* The members of S along a line of them, <<x, y>> in it when x comes no later
\* than y: the k-th has k members no later than itself.
InLine(S, line) ==
    [k \in 1 .. Cardinality(S) |-> CHOOSE x \in S : Cardinality({y \in S : <<y, x>> \in line}) = k]
Ascending(S) == InLine(S, {p \in S \X S : p[1] <= p[2]})

\* A form but for some signs.
Without(form, dropped) ==
    LET kept == Ascending({i \in DOMAIN form : form[i] \notin dropped})
    IN  [k \in DOMAIN kept |-> form[kept[k]]]

-----------------------------------------------------------------------------
(* normalize.go *)

Alphabet == <<"e", "A", "b", "t", "H", "d", "r", "s", "E", "f", "q", "k", "l", "m", "n", "h", "w", "y">>
Vowels == {"a", "i", "u", "o", "D"}
Foreign == {"x"}
NotLetters == Vowels \cup {"_", ".", " "}
Dropped == Vowels \cup {"_", "."}
Signs == Range(Alphabet) \cup {">", "<", "|", "&", "}", "Y", "p"} \cup Foreign \cup NotLetters

Folded(c) == CASE c \in {">", "<", "|"} -> "A" [] c = "&" -> "w" [] c \in {"}", "Y"} -> "y"
               [] c = "p" -> "h" [] OTHER -> c

Normalize(form) == LET kept == Without(form, Dropped) IN [i \in DOMAIN kept |-> Folded(kept[i])]

TrimSpace(form) ==
    LET solid == {i \in DOMAIN form : form[i] # " "}
    IN  IF solid = {} THEN <<>>
        ELSE SubSeq(form, CHOOSE i \in solid : \A j \in solid : i <= j,
                          CHOOSE i \in solid : \A j \in solid : i >= j)

TrimMarks(form) == TrimSpace(Without(form, {"."}))
Key(form) == TrimSpace(Normalize(TrimMarks(form)))

\* A form with a dagger alef is keyed with that alef spelled out as well.
DaggersSpelt(form) == [i \in DOMAIN form |-> IF form[i] = "D" THEN "A" ELSE form[i]]
IndexKeys(form) ==
    {Key(form), Key(DaggersSpelt(form))} \ {<<>>}

IsArabicWord(form) ==
    LET letters == {i \in DOMAIN form : form[i] \notin NotLetters}
    IN  letters # {} /\ \A i \in letters : form[i] \notin Foreign

-----------------------------------------------------------------------------
(* strip.go: a stem is a span of the word, reached by peeling one affix at a *)
(* time, and no shorter than a root.                                         *)
minStem == 3

StripPrefixes == {<<"A", "l">>, <<"w">>, <<"f">>, <<"b">>, <<"k">>, <<"l">>, <<"s">>, <<"y">>, <<"t">>, <<"n">>, <<"A">>}
StripSuffixes ==
    {<<"h", "m", "A">>, <<"k", "m", "A">>, <<"t", "m", "A">>, <<"h", "A">>, <<"h", "m">>, <<"h", "n">>,
     <<"k", "m">>, <<"k", "n">>, <<"n", "A">>, <<"n", "y">>, <<"t", "m">>, <<"t", "n">>, <<"w", "A">>,
     <<"w", "n">>, <<"y", "n">>, <<"A", "n">>, <<"A", "t">>, <<"h">>, <<"k">>, <<"y">>, <<"t">>, <<"A">>}

Begins(p, form) == IsPrefix(p, form) /\ (p = <<"s">> => form[2] \in {"y", "t", "n", "A"})

\* Spans <<i, j>>: the letters after the i-th up to the j-th.
Spelt(form, s) == SubSeq(form, s[1] + 1, s[2])
Peels(form, s) ==
    LET text == Spelt(form, s)
    IN  {<<s[1] + Len(p), s[2]>> : p \in {q \in StripPrefixes : Len(text) - Len(q) >= minStem /\ Begins(q, text)}}
        \cup {<<s[1], s[2] - Len(q)>> : q \in {r \in StripSuffixes : Len(text) - Len(r) >= minStem /\ IsSuffix(r, text)}}

\* Fewest letters peeled first, and of as many the end before the front; a stem
\* two spans spell is proposed once.
LeastPeeled(spans) ==
    {p \in spans \X spans : LET a == p[1] b == p[2]
                                lost == (a[2] - a[1]) - (b[2] - b[1])
                            IN  lost > 0 \/ (lost = 0 /\ a[1] <= b[1])}
StemsOf(form, spans) ==
    LET line == LeastPeeled(spans)
        found == InLine({s \in spans : \A r \in spans : Spelt(form, r) = Spelt(form, s) => <<s, r>> \in line}, line)
    IN  [k \in DOMAIN found |-> Spelt(form, found[k])]

\* One affix is peeled and no further.
PeeledOnce(form) == StemsOf(form, Peels(form, <<0, Len(form)>>))

StripAffixes(form) ==
    LET whole == <<0, Len(form)>>
        reached[n \in 0 .. Len(form)] ==
            IF n = 0 THEN {whole} ELSE LET spans == reached[n - 1] IN spans \cup UNION {Peels(form, s) : s \in spans}
    IN  StemsOf(form, reached[Len(form)] \ {whole})

EndsInUnpeelableSuffix(form) ==
    \E q \in StripSuffixes : Len(q) >= 2 /\ Len(form) - Len(q) < minStem /\ IsSuffix(q, form)

-----------------------------------------------------------------------------
(* pattern.go: shapes over the model root f-E-l. *)

BaseTemplates ==
    {<<"f", "A", "E", "l">>, <<"A", "f", "E", "l">>, <<"t", "f", "E", "l">>, <<"t", "f", "A", "E", "l">>,
     <<"A", "n", "f", "E", "l">>, <<"A", "f", "t", "E", "l">>, <<"A", "s", "t", "f", "E", "l">>,
     <<"m", "f", "E", "w", "l">>, <<"f", "E", "A", "l">>, <<"m", "f", "E", "l">>,
     <<"A", "s", "t", "f", "E", "A", "l">>, <<"m", "f", "A", "E", "l", "h">>}
Radical == {"f", "E", "l"}

\* A shape in which E stands before l has a spelling with the two written once.
Doubled(s) == Without(s, {"l"})
Templates ==
    {[shape |-> s, doubled |-> FALSE] : s \in BaseTemplates}
    \cup {[shape |-> Doubled(s), doubled |-> TRUE] :
             s \in {t \in BaseTemplates : Len(t) > 4 /\ \E i \in 1 .. Len(t) - 1 : t[i] = "E" /\ t[i + 1] = "l"}}

Weak == {"w", "y"}
LongVowels == {"A", "w", "y"}

RadicalReadings(c, final) ==
    {c} \cup (IF c \in Weak THEN {"e", "A"} ELSE {})
        \cup (IF c = "y" THEN {"w"} ELSE IF c = "w" /\ ~final THEN {"y"} ELSE {})
        \cup (IF c = "h" /\ final THEN Weak ELSE {})

OneReadingAmongSeveral(stem, at) ==
    \/ stem[at] = "e" /\ at > 1 /\ stem[at - 1] = "A"
    \/ EndsInUnpeelableSuffix(stem)

\* The letters are taken as they stand.
AsTheyStand(stem, at) == {<<stem[at[1]], stem[at[2]], stem[at[3]]>>}

\* The roots the letters at these three places can be read as.
RootsAt(stem, at) ==
    LET final == at[3] = Len(stem) /\ at[3] # at[2]
        thirds == RadicalReadings(stem[at[3]], final)
                  \cup (IF final /\ OneReadingAmongSeveral(stem, at[3]) THEN Weak ELSE {})
        seconds == IF stem[at[2]] = "A" THEN Weak ELSE RadicalReadings(stem[at[2]], FALSE)
    IN  IF stem[at[1]] = "A" \/ stem[at[3]] = "A" THEN {}
        ELSE {<<f, s, l>> : f \in RadicalReadings(stem[at[1]], FALSE), s \in seconds, l \in thirds}

Apply(t, stem) ==
    LET slots == Ascending({i \in DOMAIN t.shape : t.shape[i] \in Radical})
        fixed == {i \in DOMAIN t.shape : t.shape[i] \notin Radical}
        own == IF t.doubled THEN Append(slots, slots[2]) ELSE slots
        swapped(k, f) == Ascending((Range(slots) \ {slots[k]}) \cup {f})
        others == IF t.doubled THEN {}
                  ELSE {swapped(k, f) : k \in {j \in 1 .. 3 : stem[slots[j]] \in LongVowels}, f \in fixed}
    IN  IF Len(t.shape) # Len(stem) \/ \E i \in fixed : stem[i] # t.shape[i] THEN {}
        ELSE UNION {RootsAt(stem, at) : at \in {own} \cup others}

\* A word no rung can tell letter from letter in is read by no template.
MatchPattern(stem) ==
    IF \E i \in DOMAIN stem : stem[i] \in NotLetters \cup Foreign THEN {}
    ELSE (UNION {Apply(t, stem) : t \in Templates})
         \cup (IF Len(stem) = 3 /\ stem[2] = "A" THEN RootsAt(stem, <<1, 2, 3>>) ELSE {})

-----------------------------------------------------------------------------
(* jidhrcorpus, build: the spellings of each root and of none, without the   *)
(* recitation marks.  A form or a meaning under a root the roots table does  *)
(* not have refuses the whole file.                                          *)
WriteCorpus ==
    /\ rung = "database"
    /\ LET known == DOMAIN database.uses
           whole == /\ \A w \in database.words : w.root = NoLetters \/ w.root \in known
                    /\ database.senses \subseteq known
           spelt == {[form |-> TrimMarks(w.text), root |-> w.root] : w \in database.words}
       IN  jcorpus' = IF ~whole THEN NoCorpus
                      ELSE [attested |-> {w \in spelt : w.root # NoLetters /\ w.form # <<>>},
                            rootless |-> {w.form : w \in {v \in spelt : v.root = NoLetters /\ v.form # <<>>}},
                            entries |-> database.entries]
    /\ rung' = "file"
    /\ UNCHANGED <<database, index, word, answer>>

Uses(r) == IF r \in DOMAIN database.uses THEN database.uses[r] ELSE 0

\* root.Compare, in the order of the alphabet.
Place(c) == CHOOSE i \in DOMAIN Alphabet : Alphabet[i] = c
Compare(a, b) ==
    \E i \in 1 .. 3 : Place(a[i]) < Place(b[i]) /\ \A j \in 1 .. (i - 1) : a[j] = b[j]

\* The roots of the forms at these places are left in the order they came.
SortByArrival(order, here) ==
    LET firsts == Ascending({i \in here : \A j \in here : j < i => order[j].root # order[i].root})
    IN  [k \in DOMAIN firsts |-> order[firsts[k]].root]

\* sortByUse: most used first, a tie by the letters.
MostUsed(roots) ==
    {p \in roots \X roots : LET a == p[1] b == p[2]
                            IN  a = b \/ Uses(a) > Uses(b) \/ (Uses(a) = Uses(b) /\ Compare(a, b))}
SortByUse(order, here) == LET roots == {order[i].root : i \in here} IN InLine(roots, MostUsed(roots))

\* The roots under each key of the forms, the forms in the order they came.
Entered(order, keys) ==
    [k \in UNION {keys[o] : o \in Range(order)} |->
        SortByUse(order, {i \in DOMAIN order : k \in keys[order[i]]})]

\* NewMemoryStore: the forms come in whatever order a Go map hands them over.
Index ==
    /\ rung = "file"
    /\ \E order \in SetToSeqs(jcorpus.attested) :
         index' = [attested |-> Entered(order, [o \in jcorpus.attested |-> IndexKeys(o.form)]),
                   bySpelling |-> Entered(order, [o \in jcorpus.attested |-> {o.form}])]
    /\ rung' = "ready"
    /\ UNCHANGED <<database, jcorpus, word, answer>>

-----------------------------------------------------------------------------
(* The Store *)
At(table, k) == IF k \in DOMAIN table THEN table[k] ELSE <<>>
Attests(k) == At(index.attested, k)
AttestsSurface(form) == At(index.bySpelling, TrimMarks(form))
RootlessSurface(form) == TrimMarks(form) \in jcorpus.rootless
Rootless(k) == \E form \in jcorpus.rootless : k \in IndexKeys(form)

\* Of the entries that claim a key, the first has it.
FirstEntry(claims) ==
    IF claims = {} THEN NoLetters ELSE jcorpus.entries[CHOOSE i \in claims : \A j \in claims : i <= j].root

BySurface(form) == FirstEntry({i \in DOMAIN jcorpus.entries : jcorpus.entries[i].surface = form})
ByKey(k) ==
    LET spelt == FirstEntry({i \in DOMAIN jcorpus.entries : k \in IndexKeys(jcorpus.entries[i].surface)})
        lemma == FirstEntry({i \in DOMAIN jcorpus.entries : k \in IndexKeys(jcorpus.entries[i].lemma)})
    IN  IF spelt # NoLetters THEN spelt ELSE lemma

-----------------------------------------------------------------------------
(* Resolve, rung by rung *)
Answers(method, roots, rootless) ==
    /\ answer' = [Unanswered EXCEPT !.method = method, !.roots = roots, !.rootless = rootless]
    /\ rung' = "answered"

Stay == UNCHANGED <<database, jcorpus, index, word>>

Question(form) ==
    /\ rung = "ready"
    /\ word' = TrimSpace(form)
    /\ IF IsArabicWord(TrimSpace(form))
       THEN rung' = "surface" /\ UNCHANGED answer
       ELSE rung' = "answered" /\ answer' = [Unanswered EXCEPT !.method = "not Arabic"]
    /\ UNCHANGED <<database, jcorpus, index>>

\* The spelling is not asked about.
PastTheSurface == rung = "surface" /\ rung' = "lookup" /\ UNCHANGED answer /\ Stay

\* A spelling the corpus has with no root, and with none besides.
SurfaceRung ==
    /\ rung = "surface"
    /\ IF RootlessSurface(word) /\ AttestsSurface(word) = <<>>
       THEN Answers("no root", <<>>, TRUE)
       ELSE rung' = "lookup" /\ UNCHANGED answer
    /\ Stay

LookupRung ==
    /\ rung = "lookup"
    /\ CASE BySurface(word) # NoLetters -> Answers("lexicon", <<BySurface(word)>>, FALSE)
         [] BySurface(word) = NoLetters /\ ByKey(Key(word)) # NoLetters ->
              Answers("key", <<ByKey(Key(word))>>, Rootless(Key(word)))
         [] OTHER -> rung' = "strip" /\ UNCHANGED answer
    /\ Stay

StripRung ==
    /\ rung = "strip"
    /\ LET stems == StripAffixes(Key(word))
           hits == {i \in DOMAIN stems : ByKey(stems[i]) # NoLetters}
       IN  IF hits = {} THEN rung' = "attested" /\ UNCHANGED answer
           ELSE Answers("stripped", <<ByKey(stems[CHOOSE i \in hits : \A j \in hits : i <= j])>>, Rootless(Key(word)))
    /\ Stay

\* One root of one key; several roots, of which the caller's own marks may say
\* which; or a key the corpus has with no root.
AttestedRung ==
    /\ rung = "attested"
    /\ LET k == Key(word)
           roots == Attests(k)
           exact == AttestsSurface(word)
           settled == /\ ~RootlessSurface(word) /\ Len(exact) = 1 /\ exact[1] \in Range(roots)
       IN  CASE roots = <<>> /\ Rootless(k) -> Answers("no root", <<>>, TRUE)
             [] Len(roots) = 1 /\ ~Rootless(k) -> Answers("pattern", roots, FALSE)
             [] roots # <<>> /\ (Len(roots) # 1 \/ Rootless(k)) /\ settled -> Answers("lexicon", exact, FALSE)
             [] roots # <<>> /\ (Len(roots) # 1 \/ Rootless(k)) /\ ~settled -> Answers("shared", roots, Rootless(k))
             [] OTHER -> rung' = "patterns" /\ UNCHANGED answer
    /\ Stay

\* The one reading that is a root is answered with.
GuessRung ==
    /\ rung = "patterns"
    /\ LET known == MatchPattern(Key(word)) \cap DOMAIN database.uses
       IN  IF known = {} THEN Answers("no root", <<>>, FALSE)
           ELSE Answers("pattern", <<CHOOSE r \in known : TRUE>>, FALSE)
    /\ Stay

\* A miss, with what was on the table: the readings that are roots, and the others.
PatternRung ==
    /\ rung = "patterns"
    /\ LET considered == {word, Key(word)} \cup Range(StripAffixes(Key(word))) \cup MatchPattern(Key(word))
       IN  answer' = [Unanswered EXCEPT !.method = "no root",
                        !.known = considered \cap DOMAIN database.uses,
                        !.shaped = considered \ DOMAIN database.uses]
    /\ rung' = "answered"
    /\ Stay

\* The mushaf's words are words, a root is three letters of the alphabet, and
\* text is text.
ASSUME JidhrAssumption ==
    /\ \A d \in Databases :
         /\ IsFiniteSet(d.words)
         /\ \A w \in d.words : w.text \in Seq(Signs) /\ IsArabicWord(w.text)
         /\ DOMAIN d.uses \subseteq [1 .. 3 -> Range(Alphabet)]
         /\ d.uses \in [DOMAIN d.uses -> Nat]
         /\ d.entries \in Seq(Range(d.entries))
         /\ \A e \in Range(d.entries) : e.surface \in Seq(Signs) /\ e.lemma \in Seq(Signs)
    /\ Asked \subseteq Seq(Signs)

JInit ==
    /\ database \in Databases
    /\ jcorpus = NoCorpus /\ index = NoIndex /\ word = <<>>
    /\ rung = "database" /\ answer = Unanswered

JNext ==
    \/ WriteCorpus
    \/ Index
    \/ \E form \in Asked : Question(form)
    \/ SurfaceRung
    \/ LookupRung
    \/ StripRung
    \/ AttestedRung
    \/ PatternRung

JSpec == JInit /\ [][JNext]_jvars

-----------------------------------------------------------------------------
Answered == rung = "answered"

\* root.go, Resolve, and store.go, AttestsSurface: a caller who writes a word as
\* the mushaf does, pause mark and all, "gets the one root the authority records
\* and never a list", and for a particle none; by its letters alone, with or
\* without the dagger alef, or for a spelling the mushaf reads two ways, every
\* root it writes in those letters and no other.  Of the corpus jidhrcorpus
\* writes from the mushaf, which has no entries.
WordFindsItsRoot ==
    Answered /\ jcorpus # NoCorpus /\ database.entries = <<>> =>
        LET spelt == {w.root : w \in {v \in database.words : TrimMarks(v.text) = TrimMarks(word)}}
            lettered == {w.root : w \in {v \in database.words : Key(word) \in IndexKeys(v.text)}}
        IN  IF Cardinality(spelt) = 1
            THEN Range(answer.roots) = spelt \ {NoLetters} /\ answer.rootless = (spelt = {NoLetters})
            ELSE Range(answer.roots) = lettered \ {NoLetters}

\* "growing the corpus does not make Paris answerable": every root of an answer
\* was written down for a form of the word's own letters or, by an entry, for a
\* stem of it; a template or a root of the language is never enough.
NeverAGuess ==
    Answered => \A r \in Range(answer.roots) :
        \/ \E o \in jcorpus.attested : o.root = r /\ Key(word) \in IndexKeys(o.form)
        \/ \E i \in DOMAIN jcorpus.entries : LET e == jcorpus.entries[i] IN
              /\ e.root = r
              /\ \/ e.surface = word
                 \/ (IndexKeys(e.surface) \cup IndexKeys(e.lemma))
                       \cap ({Key(word)} \cup Range(StripAffixes(Key(word)))) # {}

\* "a resolver that answers a different root on a different run is worse than one
\* that answers none": the roots that share a spelling come most used first,
\* whatever order the map handed the forms over in.
SameOnEveryRun ==
    Answered /\ answer.method = "shared" => \A i, j \in DOMAIN answer.roots : i < j =>
        /\ Uses(answer.roots[i]) >= Uses(answer.roots[j])
        /\ Uses(answer.roots[i]) = Uses(answer.roots[j]) => Compare(answer.roots[i], answer.roots[j])

\* What a word may wear: a conjunction, an article and an ending.
Clitics == {<<"w">>, <<"f">>, <<>>} \X {<<"A", "l">>, <<"b">>, <<>>} \X {<<"h", "m">>, <<"A", "t">>, <<"h">>, <<>>}

\* strip.go against what it undoes: with a conjunction, an article and an ending
\* on it, a stem of three letters or more is among those proposed, and none is
\* proposed after one it is longer than.
StripsWhatWasAdded ==
    rung = "surface" => LET k == Key(word)
                            stems == StripAffixes(k) IN
        /\ \A c \in Clitics :
              LET before == c[1] \o c[2]
                  stem == SubSeq(k, Len(before) + 1, Len(k) - Len(c[3]))
              IN  Len(stem) >= minStem /\ stem # k /\ before \o stem \o c[3] = k => stem \in Range(stems)
        /\ \A i, j \in DOMAIN stems : i < j => Len(stems[i]) >= Len(stems[j])

\* A root put into a shape.
Derive(shape, r) ==
    [i \in DOMAIN shape |-> CASE shape[i] = "f" -> r[1] [] shape[i] = "E" -> r[2]
                              [] shape[i] = "l" -> r[3] [] OTHER -> shape[i]]

\* pattern.go against what it undoes: a root put into a shape is read back from
\* it, the second and third radical the same and written once included, and so
\* is a hollow root whose middle is written with an alef.
PatternsReadBack ==
    rung = "surface" => \A r \in DOMAIN database.uses :
        LET k == Key(word) IN
        \/ r[1] = "A" \/ r[3] = "A" \/ r[2] = "A"
        \/ /\ \A s \in BaseTemplates : Derive(s, r) = k => r \in MatchPattern(k)
           /\ r[2] = r[3] => \A s \in BaseTemplates : Len(s) > 4 /\ Derive(Doubled(s), r) = k
                                 /\ Doubled(s) \in {t.shape : t \in Templates} => r \in MatchPattern(k)
           /\ r[2] \in Weak /\ k = <<r[1], "A", r[3]>> => r \in MatchPattern(k)
=============================================================================
