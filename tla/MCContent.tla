------------------------------ MODULE MCContent ------------------------------
(***************************************************************************)
(* The batch programs a person runs one at a time, to make corpus.db and   *)
(* the senses.  They share nothing but files, so a behaviour is of one of  *)
(* them, on the inputs below, and the others stay as they were.            *)
(***************************************************************************)
EXTENDS Recitations, FrenchGlosses, RootSense, CorpusBuild, RootDraft, RootEngine, TLC

VARIABLE program
contentVars == <<program, rvars, fvars, svars, bvars, dvars, jvars>>

-----------------------------------------------------------------------------
(* A recitation of two ayas: walks of at most three tuples, the clock in    *)
(* order or not.                                                            *)
MCAyas == 1 .. 2
Timeless(w) == [i \in DOMAIN w |-> w[i] \o <<0, 0>>]
Walks(slots) ==
    {w \in UNION {[1 .. k -> {<<f, t>> : f \in 0 .. slots - 1, t \in 1 .. slots}] : k \in 1 .. 3} :
        IsWalk(Timeless(w))}
Clocks == {<<<<0, 10>>, <<10, 20>>, <<20, 30>>>>, <<<<10, 20>>, <<0, 5>>, <<30, 20>>>>}
Aligner(words, walks, doubled) ==
    {[words |-> words, raw |-> [i \in DOMAIN w |-> w[i] \o c[i]], doubled |-> doubled] : w \in walks, c \in Clocks}
\* Three words, numbered alike or one of them two slots, and any of the slots silent.
Long == UNION {Aligner(3, Walks(4), k) : k \in 0 .. 3}
\* What no text numbers so.
Uneven == Aligner(2, {<<<<0, 1>>, <<3, 4>>>>, <<<<1, 2>>, <<0, 1>>>>}, 0)
Short == {[words |-> 1, raw |-> r, doubled |-> 0] :
             r \in {NoAya, <<>>, <<<<0, 1, 0, 9>>>>, <<<<0, 2, 0, 9>>>>, <<<<0, 1, 0>>>>}}
MCRecordings == {<<a, b>> : a \in Long \cup Uneven, b \in Short}
                \cup {<<a, b>> : a \in Short, b \in Short}

-----------------------------------------------------------------------------
(* Two ayas on one page or two, a card missing here and there, a card of    *)
(* another word, and transliterations lost.                                 *)
MCVerses == 1 .. 2
MCText == <<<<"a", "b", "a">>, <<"b">>>>
Card(arabic, french) == [arabic |-> arabic, french |-> french]
Decks == {<<>>, <<Card("a", "un")>>, <<Card("a", "un"), Card("b", "deux")>>,
          <<Card("b", "deux"), Card("a", "trois")>>,
          <<Card("a", "un"), Card("c", "autre"), Card("a", "trois")>>,
          <<Card("a", "un"), Card("b", "deux"), Card("a", "trois")>>}
Others == {<<>>, <<Card("b", "quatre")>>, <<Card("a", "cinq"), Card("b", "six")>>}
CardCells(c, lost) ==
    <<<<"label", "nom">>, <<"arabic", c.arabic>>, <<"latin", c.french>>>>
        \o (IF lost THEN <<>> ELSE <<<<"latin", "translit">>>>)
Cells(v, deck, lost) ==
    <<<<"ref", "1:1", v>>>> \o FlattenSeq([k \in DOMAIN deck |-> CardCells(deck[k], k \in lost)])
MCPages ==
    {[files |-> IF two THEN <<Cells(1, d1, lost), Cells(2, d2, {})>>
                ELSE <<Cells(1, d1, lost) \o Cells(2, d2, {})>>,
      meant |-> <<d1, d2>>] : d1 \in Decks, d2 \in Others, lost \in SUBSET (1 .. 3), two \in BOOLEAN}

-----------------------------------------------------------------------------
(* Three roots in two shapes, files of two proposals.                       *)
MCRoots == {"rHm", "qwl", "wqy"}
MCShapes == {"I", "X"}
MCStems == {"mercy", "womb", "say", "guard", "ask"}
MCKin == {{"say", "ask"}}
MCMarkers == [s \in MCShapes |-> IF s = "X" THEN {"ask"} ELSE {}]
G(toks, n) == [toks |-> toks, n |-> n]
MCEvidence ==
    {[r \in MCRoots |-> CASE r = "rHm" -> a [] r = "qwl" -> b [] OTHER -> c] :
       a \in {[I |-> {G(<<"mercy">>, 4), G(<<"womb">>, 2)}, X |-> {G(<<"ask", "mercy">>, 1)}],
              [I |-> {G(<<"mercy">>, 2), G(<<"womb">>, 3), G(<<>>, 1)}, X |-> {G(<<"mercy">>, 1), G(<<"guard">>, 1)}],
              [I |-> {G(<<"mercy">>, 3), G(<<"guard">>, 4)}, X |-> {G(<<"mercy">>, 1), G(<<"guard">>, 1)}]},
       b \in {[I |-> {G(<<"say">>, 5)}, X |-> {G(<<"ask", "say">>, 1), G(<<"ask">>, 1)}],
              [I |-> {G(<<"say">>, 2), G(<<"mercy", "mercy">>, 1)}, X |-> {G(<<"say">>, 1)}]},
       c \in {[I |-> {G(<<"guard">>, 3)}, X |-> {G(<<"guard">>, 1)}],
              [I |-> {G(<<"mercy">>, 3)}, X |-> {G(<<"mercy">>, 1), G(<<"womb">>, 1)}]}}
MCSenses ==
    {<<{"mercy"}>>, <<{"mercy"}, {"womb"}>>, <<{"womb"}, {"mercy"}>>, <<{"womb", "mercy"}>>,
     <<{"guard"}>>, <<{"womb"}, {"womb", "mercy"}, {"guard"}>>}
\* French of each clause, of the first only, or none.
French(s) == {<<>>, [i \in DOMAIN s |-> i], <<1>>}
Proposal(r, s, f) == [root |-> r, padded |-> FALSE, en |-> s, fr |-> f]
Padded(row) == [row EXCEPT !.padded = TRUE]
Bare(row) == [row EXCEPT !.en = <<>>, !.fr = <<>>]
Tidy == UNION {{<<Proposal("rHm", s, f), Proposal(r, t, [i \in DOMAIN t |-> i])>> :
                   f \in French(s), r \in {"qwl", "wqy"}, t \in MCSenses} : s \in MCSenses}
\* A root with space around it, a row without its tabs, a root the corpus has not.
Untidy == UNION {{<<Padded(f[1]), f[2]>>, <<f[1], Padded(f[2])>>, <<f[1], Bare(f[2])>>, <<f[1], [f[2] EXCEPT !.root = "xyz"]>>} :
                   f \in {g \in Tidy : g[1].fr # <<>> /\ g[2].root = "wqy"}}
MCProposals == Tidy \cup Untidy
Case(r, s, right, axis) == [root |-> r, sense |-> s, right |-> right, axis |-> axis]
MCCalibration ==
    <<Case("rHm", <<{"mercy"}, {"womb"}>>, TRUE, "score"), Case("qwl", <<{"say"}>>, TRUE, "score"),
      Case("wqy", <<{"womb"}>>, FALSE, "score"), Case("qwl", <<{"say", "womb"}>>, FALSE, "dispersion"),
      Case("rHm", <<{"womb"}>>, FALSE, "branch")>>

-----------------------------------------------------------------------------
(* Two suras of three words between them; a morphology that is sound, that  *)
(* ends early, that files a word under another place, whose segments come   *)
(* out of order, whose word has the root and no lemma of its own.           *)
MCSuras == <<"fatiha", "nas">>
MCNamed == {<<>>, <<"nas">>, <<"nas", "fatiha">>}
MCWords == [s \in {"fatiha", "nas"} |-> IF s = "fatiha" THEN 2 ELSE 1]
Segment(s, w, g, r, l, o) == [sura |-> s, word |-> w, seg |-> g, root |-> r, lemma |-> l, role |-> o]
Sound ==
    <<Segment("fatiha", 1, 1, "", "", "P"), Segment("fatiha", 1, 2, "smw", "ism", "N"),
      Segment("fatiha", 2, 1, "", "min", "P"), Segment("fatiha", 2, 2, "mA", "maA", "R"),
      Segment("nas", 1, 1, "nws", "", "X"), Segment("nas", 1, 2, "Ans", "naAs", "N")>>
MCMorphologies ==
    {Sound, SubSeq(Sound, 1, 4), [Sound EXCEPT ![3].word = 3, ![4].word = 3],
     [Sound EXCEPT ![1].seg = 2, ![2].seg = 1],
     [Sound EXCEPT ![5].root = "", ![6].root = "smw"]}

-----------------------------------------------------------------------------
(* Three roots and a name the corpus does not have.                         *)
MCCorpusRoots == <<"Alh", "qwl", "rHm">>

-----------------------------------------------------------------------------
(* Two roots that share letters, a particle and a name written as verbs     *)
(* are, a dagger alef, a pause mark; roots used more or less; a meaning or  *)
(* a form without its root; a file with entries.                            *)
manana == <<"m", "n", "n">>
qawala == <<"q", "w", "l">>
qalala == <<"q", "l", "l">>
Hayaya == <<"H", "y", "y">>
Ealama == <<"E", "l", "m">>
kataba == <<"k", "t", "b">>
radada == <<"r", "d", "d">>
Written(text, root) == [text |-> text, root |-> root]
Particle == Written(<<"m", "i", "n">>, NoLetters)
Gave == Written(<<"m", "a", "n", "a">>, manana)
Qul == Written(<<"q", "u", "l", "o">>, qawala)
Qalla == Written(<<"q", "a", "l">>, qalala)
Yahya == Written(<<"y", "a", "H", "y", "Y">>, NoLetters)
Lives == Written(<<"y", "a", "H", "y", "Y">>, Hayaya)
Alim == Written(<<"E", "D", "l", "i", "m", " ", ".">>, Ealama)
Ilm == Written(<<"E", "i", "l", "m">>, Ealama)
Kitab == Written(<<"k", "i", "t", "D", "b">>, kataba)
Pools == {{Particle, Gave, Qul, Qalla}, {Yahya, Lives, Alim, Kitab}, {Alim, Ilm, Qul, Qalla}}
UsedMost(most, never) ==
    [r \in {manana, qawala, qalala, Hayaya, Ealama, kataba, radada} |->
        CASE r = most -> 3 [] r = never -> 0 [] OTHER -> 1]
Entries ==
    <<[surface |-> <<"k", "D", "t", "b">>, lemma |-> <<"k", "t", "b">>, root |-> kataba],
      [surface |-> <<"m", "n">>, lemma |-> <<"m", "a", "n">>, root |-> manana]>>
MCDatabases ==
    {[words |-> w, uses |-> u, senses |-> {manana}, entries |-> e] :
        w \in UNION {SUBSET p : p \in Pools}, u \in {UsedMost(qawala, kataba), UsedMost(qalala, manana)}, e \in {<<>>, Entries}}
    \cup {[words |-> {Kitab, Qul}, uses |-> [r \in {qawala, Ealama} |-> 1], senses |-> {}, entries |-> <<>>],
          [words |-> {Qul}, uses |-> [r \in {qawala, Ealama} |-> 1], senses |-> {kataba}, entries |-> <<>>]}
MCAsked ==
    {w.text : w \in UNION Pools}
    \cup {<<"m", "n">>, <<"q", "l">>, <<"E", "l", "m">>, <<"E", "A", "l", "m">>, <<"y", "H", "y", "y">>,
          <<"w", "A", "l", "k", "t", "A", "b">>, <<"w", "A", "l", "k", "t", "b", "h", "m">>,
          <<"m", "k", "t", "w", "b">>, <<"q", "A", "l">>, <<"A", "s", "t", "r", "d">>, <<"k", "A", "t", "b">>,
          <<"x">>, <<".">>, <<" ", "q", "l", " ">>}

RStill == recording = <<>> /\ rstage = "idle" /\ report = Nothing
          /\ loaded = [kept |-> FALSE, untimed |-> 0, rows |-> <<>>, passed |-> FALSE]
FStill == page = <<>> /\ fstage = "idle" /\ cards = <<>> /\ gloss = <<>> /\ accepted = FALSE
SStill == corpus = <<>> /\ file = <<>> /\ sstage = "idle" /\ ordered = <<>> /\ bundle = {} /\ cost = <<>>
BStill == BInit /\ morphology = Sound
JStill == database = <<>> /\ jcorpus = NoCorpus /\ index = NoIndex /\ word = <<>>
          /\ rung = "database" /\ answer = Unanswered

MCInit ==
    /\ program \in {"recitations", "glosses", "rootcheck", "corpus", "rootdraft", "jidhr"}
    /\ IF program = "recitations" THEN RInit ELSE RStill
    /\ IF program = "glosses" THEN FInit ELSE FStill
    /\ IF program = "rootcheck" THEN SInit ELSE SStill
    /\ IF program = "corpus" THEN BInit ELSE BStill
    /\ DInit
    /\ IF program = "jidhr" THEN JInit ELSE JStill

MCNext ==
    \/ program = "recitations" /\ RNext /\ UNCHANGED <<program, fvars, svars, bvars, dvars, jvars>>
    \/ program = "glosses" /\ FNext /\ UNCHANGED <<program, rvars, svars, bvars, dvars, jvars>>
    \/ program = "rootcheck" /\ SNext /\ UNCHANGED <<program, rvars, fvars, bvars, dvars, jvars>>
    \/ program = "corpus" /\ BNext /\ UNCHANGED <<program, rvars, fvars, svars, dvars, jvars>>
    \/ program = "rootdraft" /\ DNext /\ UNCHANGED <<program, rvars, fvars, svars, bvars, jvars>>
    \/ program = "jidhr" /\ JNext /\ UNCHANGED <<program, rvars, fvars, svars, bvars, dvars>>

MCSpec == MCInit /\ [][MCNext]_contentVars
=============================================================================
