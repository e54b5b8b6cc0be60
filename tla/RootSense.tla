----------------------------- MODULE RootSense -----------------------------
(* The check of a proposed sense against the corpus (internal/rootsense)    *)
(* and the commands over a file of proposals (server/cmd/rootcheck).        *)
(* Words are stems already: the model takes the stemmer's output as data,   *)
(* and Kin is its prefix tolerance.  A gloss is [toks, n]: its stems in     *)
(* order, none for a gloss of stop words, and its occurrences.  A sense is a *)
(* sequence of clauses, each a set of stems.  Shares and scores are exact   *)
(* fractions <<p, q>>; the code's are floats.                               *)
EXTENDS Integers, Sequences, FiniteSets, FiniteSetsExt, SequencesExt

CONSTANTS
    Roots, Shapes, Stems,
    Kin,             \* pairs of stems one of which is a prefix of the other
    Markers,         \* per shape, the stems the wazn adds to a gloss
    Evidence,        \* the corpora: functions Roots -> Shapes -> sets of glosses
    Proposals,       \* the files: sequences of [root, padded, en, fr], whether there is
                     \* space around the root, fr one per clause or <<>>
    Calibration      \* [root, sense, right, axis] of calibration.go, a sequence

ASSUME SenseAssumption ==
    /\ IsFiniteSet(Roots)
    /\ Calibration \in Seq(Range(Calibration))
    /\ IsFiniteSet(Shapes)
    /\ \A ev \in Evidence : \A r \in Roots : \A s \in Shapes :
          IsFiniteSet(ev[r][s]) /\ \A g \in ev[r][s] : g.n \in Nat
    /\ \A f \in Proposals :
          /\ f \in Seq(Range(f))
          /\ \A row \in Range(f) :
                /\ row = [root |-> row.root, padded |-> row.padded, en |-> row.en, fr |-> row.fr]
                /\ row.padded \in BOOLEAN
                /\ row.en \in Seq(SUBSET Stems) /\ row.fr \in Seq(Range(row.fr))

VARIABLES corpus, file, sstage, ordered, bundle, cost
svars == <<corpus, file, sstage, ordered, bundle, cost>>

NoUngrounded == 1048576

Geq(f, g) == f[1] * g[2] >= g[1] * f[2]
Plus(f, g) == <<f[1] * g[2] + g[1] * f[2], f[2] * g[2]>>

Related(a, b) == a = b \/ {a, b} \in Kin
Content(sense) == UNION Range(sense)

-----------------------------------------------------------------------------
(* score.go, Check *)

Residue(shape, g) == SelectSeq(g.toks, LAMBDA t : t \notin Markers[shape])

\* The glosses of one shape the sense answers for: the wazn leaves something of them.
Answerable(ev, root, shape) == {g \in ev[root][shape] : Residue(shape, g) # <<>>}

Occurrences(glosses) == SumFunction([g \in glosses |-> g.n])

\* A gloss of stop words is in the denominator and nowhere else.
Tested(ev, root) ==
    SumFunction([s \in Shapes |->
        Occurrences({g \in ev[root][s] : g.toks = <<>> \/ g \in Answerable(ev, root, s)})])

Agrees(stems, shape, g) == \E a \in stems, b \in Range(Residue(shape, g)) : Related(a, b)

Agreed(ev, root, stems, s) == {g \in Answerable(ev, root, s) : Agrees(stems, s, g)}

Explained(ev, root, stems) ==
    SumFunction([s \in Shapes |-> Occurrences(Agreed(ev, root, stems, s))])

Used(ev, root, stems) ==
    {a \in stems : \E s \in Shapes : \E g \in Answerable(ev, root, s) : Agrees({a}, s, g)}

\* The roots the corpus glosses with a word, through the same prefix tolerance.
RootsOf(ev, t) ==
    {r \in Roots : \E s \in Shapes : \E g \in ev[r][s] : \E x \in Range(g.toks) : Related(t, x)}

\* Somewhere the corpus glosses one root with both this word and an attested one.
Company(ev, t, attested) == \E a \in attested : RootsOf(ev, t) \cap RootsOf(ev, a) # {}

\* The fewest roots any measured word of the sense is spread over.
Dispersion(ev, root, sense) ==
    LET used == Used(ev, root, Content(sense))
        measured == {t \in Content(sense) \ used :
                       \E i \in DOMAIN sense :
                          t \in sense[i] /\ (sense[i] \cap used # {} \/ ~Company(ev, t, used))}
    IN  Min({NoUngrounded} \cup {Cardinality(RootsOf(ev, t)) : t \in measured})

\* The heaviest word of the glosses the sense leaves unexplained; a word a gloss
\* says twice counts twice.
Branch(ev, root, stems) ==
    LET missed(s) == {g \in Answerable(ev, root, s) : ~Agrees(stems, s, g)}
        times(w, s, g) == Cardinality({i \in DOMAIN Residue(s, g) : Residue(s, g)[i] = w})
        weight(w) == SumFunction([s \in Shapes |-> SumFunction([g \in missed(s) |-> g.n * times(w, s, g)])])
    IN  Max({0} \cup {weight(w) : w \in Stems})

\* A clause is credited with what no earlier clause said.
Covered(ev, root, sense) ==
    [i \in DOMAIN sense |-> Explained(ev, root, sense[i] \ UNION {sense[j] : j \in 1 .. (i - 1)})]

ShapesOf(ev, root) == {s \in Shapes : Answerable(ev, root, s) # {}}

\* The mean over the shapes of the share of their glosses that agree.
Recall(ev, root, stems) ==
    FoldSet(LAMBDA s, acc :
               Plus(acc, <<Cardinality(Agreed(ev, root, stems, s)),
                           Cardinality(Answerable(ev, root, s)) * Cardinality(ShapesOf(ev, root))>>),
            <<0, 1>>, ShapesOf(ev, root))

Verdict(ev, root, sense) ==
    LET stems  == Content(sense)
        slots  == ShapesOf(ev, root)
        recall == Recall(ev, root, stems)
        precision == <<Cardinality(Used(ev, root, stems)), Cardinality(stems)>>
        both   == Plus(recall, precision)
        cover  == Covered(ev, root, sense)
    IN  IF stems = {} \/ slots = {}
        THEN [hit |-> 0, score |-> <<0, 1>>, coverage |-> <<0, 1>>, dispersion |-> 0,
              branch |-> <<0, 1>>, leads |-> FALSE]
        ELSE [hit |-> Cardinality({s \in slots : Agreed(ev, root, stems, s) # {}}),
              score |-> IF both[1] = 0 THEN <<0, 1>>
                        ELSE <<2 * recall[1] * precision[1], both[1]>>,
              coverage |-> <<Explained(ev, root, stems), Tested(ev, root)>>,
              dispersion |-> Dispersion(ev, root, sense),
              branch |-> <<Branch(ev, root, stems), Tested(ev, root)>>,
              leads |-> \A i \in DOMAIN sense : cover[i] <= cover[1]]

BorneOut(v, bar) == v.hit >= 2 /\ Geq(v.score, bar.score)
Unordered(v, bar) ==
    /\ BorneOut(v, bar)
    /\ ~Geq(bar.coverage, v.coverage)
    /\ v.dispersion >= bar.dispersion
    /\ Geq(bar.branch, v.branch)
Verified(v, bar) == Unordered(v, bar) /\ v.leads

-----------------------------------------------------------------------------
(* calibration.go *)

\* The midpoint of the widest gap between a wrong value and the next right value
\* above it with no wrong one between; zero where the two never part.
Gap(right, wrong) ==
    LET less(f, g) == ~Geq(f, g)
        next(w, r) == /\ less(w, r)
                      /\ \A x \in right : less(w, x) => Geq(x, r)
                      /\ \A x \in wrong : ~(less(w, x) /\ less(x, r))
        width(p) == Plus(p[2], <<- p[1][1], p[1][2]>>)
        parts == {p \in wrong \X right : next(p[1], p[2])}
        widest == {p \in parts : \A q \in parts : Geq(width(p), width(q))}
        lowest == CHOOSE p \in widest : \A q \in widest : Geq(q[1], p[1])
        sum == Plus(lowest[1], lowest[2])
    IN  IF parts = {} THEN <<0, 1>> ELSE <<sum[1], 2 * sum[2]>>

Ceil(f) == (f[1] + f[2] - 1) \div f[2]
Complement(f) == <<f[2] - f[1], f[2]>>

Bar(ev) ==
    LET v(c) == Verdict(ev, c.root, c.sense)
        score(c) == IF v(c).hit < 2 THEN <<0, 1>> ELSE v(c).score
        right == {c \in Range(Calibration) : c.right}
        wrong(axis) == {c \in Range(Calibration) : ~c.right /\ c.axis = axis}
        riders(cs) == {<<v(c).dispersion, 1>> : c \in {d \in cs : v(d).dispersion # NoUngrounded}}
    IN  [score |-> Gap({score(c) : c \in right}, {score(c) : c \in wrong("score")}),
         coverage |-> <<1, 2>>,
         dispersion |-> Ceil(Gap(riders(right), riders(wrong("dispersion")))),
         branch |-> Complement(Gap({Complement(v(c).branch) : c \in right},
                                   {Complement(v(c).branch) : c \in wrong("branch")}))]

-----------------------------------------------------------------------------
(* The commands of rootcheck.  Each reads the file its own way: -order and  *)
(* -cost look a root up as it stands and pass by a row they cannot read,    *)
(* ReadCandidates trims the cells and refuses the file for a row of one     *)
(* column.                                                                  *)

OneColumn(row) == row.en = <<>>
FoundAsItStands(row) == row.root \in Roots /\ ~row.padded /\ ~OneColumn(row)
FoundTrimmed(row) == row.root \in Roots /\ ~OneColumn(row)
Refused(rows) == \E i \in DOMAIN rows : OneColumn(rows[i])

\* The clause with the most words first.
OrderByLength(ev, row) ==
    LET n == Len(row.en)
        size(i) == Cardinality(row.en[i])
        place(i) == Cardinality({j \in 1 .. n : size(j) > size(i) \/ (size(j) = size(i) /\ j <= i)})
        at(k) == CHOOSE i \in 1 .. n : place(i) = k
    IN  IF ~FoundAsItStands(row) \/ n < 2 \/ (row.fr # <<>> /\ Len(row.fr) # n) THEN row
        ELSE [row EXCEPT !.en = [k \in 1 .. n |-> row.en[at(k)]],
                         !.fr = [k \in DOMAIN row.fr |-> row.fr[at(k)]]]

\* The French stays where it was.
OrderEnglishOnly(ev, row) ==
    LET n == Len(row.en)
        alone(i) == Explained(ev, row.root, row.en[i])
        place(i) == Cardinality({j \in 1 .. n : alone(j) > alone(i) \/ (alone(j) = alone(i) /\ j <= i)})
    IN  IF ~FoundAsItStands(row) THEN row
        ELSE [row EXCEPT !.en = [k \in 1 .. n |-> row.en[CHOOSE i \in 1 .. n : place(i) = k]]]

\* order.go: the clauses by what each explains alone, heaviest first, ties as
\* they were; the French in the same order; a row whose French counts its
\* clauses differently is left as written, and so is one it cannot look up.
OrderRow(ev, row) ==
    LET n == Len(row.en)
        alone(i) == Explained(ev, row.root, row.en[i])
        place(i) == Cardinality({j \in 1 .. n : alone(j) > alone(i) \/ (alone(j) = alone(i) /\ j <= i)})
        at(k) == CHOOSE i \in 1 .. n : place(i) = k
    IN  IF ~FoundAsItStands(row) \/ n < 2 \/ (row.fr # <<>> /\ Len(row.fr) # n) THEN row
        ELSE [row EXCEPT !.en = [k \in 1 .. n |-> row.en[at(k)]],
                         !.fr = [k \in DOMAIN row.fr |-> row.fr[at(k)]]]

\* How many other roots the sense fits, and the most any right sense fits.
OtherRootsVerified(ev, own, sense, bar) ==
    Cardinality({r \in Roots \ {own} : Verified(Verdict(ev, r, sense), bar)})
SpecificityBar(ev, bar) ==
    Max({0} \cup {OtherRootsVerified(ev, c.root, c.sense, bar) : c \in {d \in Range(Calibration) : d.right}})

\* Of rows that say the same thing, the first to be read is let by.
TwinsSoFar(ev, rows, read, i, bar) ==
    {j \in read : /\ j <= i /\ Content(rows[j].en) = Content(rows[i].en)
                  /\ Verified(Verdict(ev, rows[j].root, rows[j].en), bar)}

\* Of the rows read, those that clear every term of their own root and say the same thing.
Twins(ev, rows, read, i, bar) ==
    {j \in read : /\ Content(rows[j].en) = Content(rows[i].en)
                  /\ Verified(Verdict(ev, rows[j].root, rows[j].en), bar)}

ReadTrimmed(rows) == {i \in DOMAIN rows : FoundTrimmed(rows[i])}
ReadAsItStands(rows) == {i \in DOMAIN rows : FoundAsItStands(rows[i])}

\* Specificity is left to the report.
BuildUnspecific(ev, rows, bar) ==
    {i \in ReadTrimmed(rows) : /\ Verified(Verdict(ev, rows[i].root, rows[i].en), bar)
                               /\ Cardinality(Twins(ev, rows, ReadTrimmed(rows), i, bar)) <= 1
                               /\ rows[i].fr # <<>>}

\* A row that cannot be read is passed by, as it is by the report.
BuildLenient(ev, rows, bar) ==
    LET read == ReadTrimmed(rows)
    IN  {i \in read :
            /\ Verified(Verdict(ev, rows[i].root, rows[i].en), bar)
            /\ Cardinality(Twins(ev, rows, read, i, bar)) <= 1
            /\ OtherRootsVerified(ev, rows[i].root, rows[i].en, bar) <= SpecificityBar(ev, bar)
            /\ rows[i].fr # <<>>}

\* build.go: the rows shipped, by their place in the file.
Build(ev, rows, bar) ==
    LET read == ReadTrimmed(rows)
    IN  {i \in read :
            /\ ~Refused(rows)
            /\ Verified(Verdict(ev, rows[i].root, rows[i].en), bar)
            /\ Cardinality(Twins(ev, rows, read, i, bar)) <= 1
            /\ OtherRootsVerified(ev, rows[i].root, rows[i].en, bar) <= SpecificityBar(ev, bar)
            /\ rows[i].fr # <<>>}

\* cost.go: the rows it calls shippable, and those it says the order alone costs.
Cost(ev, rows, bar) ==
    LET read == ReadAsItStands(rows)
        v(i) == Verdict(ev, rows[i].root, rows[i].en)
        borneOut == {i \in read : BorneOut(v(i), bar)}
        unordered == {i \in borneOut : Unordered(v(i), bar)}
        kept == {i \in unordered : v(i).leads /\ Cardinality(Twins(ev, rows, read, i, bar)) <= 1}
    IN  [misordered |-> {i \in unordered : ~v(i).leads},
         shippable  |-> {i \in kept : OtherRootsVerified(ev, rows[i].root, rows[i].en, bar)
                                         <= SpecificityBar(ev, bar)}]

-----------------------------------------------------------------------------
SInit ==
    /\ corpus \in Evidence
    /\ file \in Proposals
    /\ sstage = "proposed"
    /\ ordered = file
    /\ bundle = {}
    /\ cost = [misordered |-> {}, shippable |-> {}]

\* -order rewrites the file; a bundle may be built with or without it.
Order ==
    /\ sstage = "proposed"
    /\ ordered' = [i \in DOMAIN file |-> OrderRow(corpus, file[i])]
    /\ sstage' = "ordered"
    /\ UNCHANGED <<corpus, file, bundle, cost>>

\* A file it refuses leaves no bundle.
BuildBundle ==
    /\ sstage \in {"proposed", "ordered"}
    /\ bundle' = Build(corpus, ordered, Bar(corpus))
    /\ sstage' = "built"
    /\ UNCHANGED <<corpus, file, ordered, cost>>

ReportCost ==
    /\ sstage = "built"
    /\ cost' = Cost(corpus, ordered, Bar(corpus))
    /\ sstage' = "costed"
    /\ UNCHANGED <<corpus, file, ordered, bundle>>

SNext == Order \/ BuildBundle \/ ReportCost
SSpec == SInit /\ [][SNext]_svars

-----------------------------------------------------------------------------
\* order.go: "sorting by what a clause explains on its own is enough to satisfy
\* the check", though the check credits a clause only with what no earlier
\* clause said; "it changes no claim", so every other term is what it was; and
\* each French clause stays beside the English one it translates.
OrderIsEnough ==
    sstage = "ordered" => \A i \in DOMAIN file :
        LET before == Verdict(corpus, file[i].root, file[i].en)
            after  == Verdict(corpus, ordered[i].root, ordered[i].en)
            whole  == file[i].fr = <<>> \/ Len(file[i].fr) = Len(file[i].en)
        IN  /\ FoundAsItStands(file[i]) =>
                 /\ whole /\ after.hit > 0 => after.leads
                 /\ [after EXCEPT !.leads = TRUE] = [before EXCEPT !.leads = TRUE]
            /\ Len(file[i].fr) = Len(file[i].en) =>
                 \A e \in Stems, f \in Range(file[i].fr) :
                   Cardinality({k \in DOMAIN file[i].en : e \in file[i].en[k] /\ file[i].fr[k] = f})
                     = Cardinality({k \in DOMAIN file[i].en : e \in ordered[i].en[k] /\ ordered[i].fr[k] = f})

\* The report of cost.go and the bundle of build.go are two programs that read
\* one file in two ways, and what that costs: of what ships the report calls all
\* shippable but the rows whose root is written with space around it; what it
\* calls shippable and does not ship has no French, or the prose of such a row;
\* and one row of one column, which the report passes by, keeps all from shipping.
CostIsWhatShips ==
    sstage = "costed" =>
        IF Refused(ordered) THEN bundle = {}
        ELSE /\ \A i \in bundle : i \in cost.shippable <=> ~ordered[i].padded
             /\ \A i \in cost.shippable \ bundle :
                   \/ ordered[i].fr = <<>>
                   \/ \E j \in DOMAIN ordered :
                        /\ ordered[j].padded /\ FoundTrimmed(ordered[j])
                        /\ Content(ordered[j].en) = Content(ordered[i].en)

\* One prose never ships for two roots, whatever order the file is in: of two
\* rows that make the same claim the bundle holds neither, and a proposal that
\* fails a term of its own takes no other down with it.
NoSharedProse ==
    sstage \in {"built", "costed"} => \A i \in DOMAIN ordered :
        LET v(j) == /\ FoundTrimmed(ordered[j])
                    /\ Verified(Verdict(corpus, ordered[j].root, ordered[j].en), Bar(corpus))
            alike == {j \in DOMAIN ordered \ {i} : Content(ordered[j].en) = Content(ordered[i].en)}
            alone == ordered[i].fr # <<>> /\ v(i) /\ \A j \in alike : ~v(j)
        IN  /\ i \in bundle => alone
            /\ alone /\ i \notin bundle /\ ~Refused(ordered) =>
                  OtherRootsVerified(corpus, ordered[i].root, ordered[i].en, Bar(corpus))
                      > SpecificityBar(corpus, Bar(corpus))

=============================================================================
