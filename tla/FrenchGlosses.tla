--------------------------- MODULE FrenchGlosses ---------------------------
(* The French under each word: the cells of The Last Dialogue's pages read  *)
(* into cards, the cards aligned with the words of the aya by their         *)
(* letters, and the gate that refuses French for some ayas only             *)
(* (server/cmd/etl/glosses_fr.go, server/cmd/etl/check.go).                 *)
(* A cell is its kind and its text, <<"label", text>>, <<"arabic", letters>> *)
(* or <<"latin", text>>, and <<"ref", text, aya>> names an aya; an empty    *)
(* cell is not in the page's list.                                          *)
EXTENDS Integers, Sequences, FiniteSets, SequencesExt

CONSTANTS
    Verses,          \* the ayas on the pages, in order: 1..n
    Text,            \* the letters of each aya's words: Verses -> sequences
    Pages            \* what a run may find saved: [files, meant], each file a
                     \* sequence of cells, and the cards the pages mean

VARIABLES page, fstage, cards, gloss, accepted
fvars == <<page, fstage, cards, gloss, accepted>>

-----------------------------------------------------------------------------
\* One pass over the cells.  A card is a label followed by an Arabic cell; it
\* takes four cells, whatever the fourth one is.
ParseTLDPage(cells) ==
    LET IsCard(i, aya) ==
            /\ aya # 0 /\ cells[i][1] = "label"
            /\ i + 2 <= Len(cells) /\ cells[i + 1][1] = "arabic"
        Card(i) == [arabic |-> cells[i + 1][2], french |-> cells[i + 2][2]]
        \* from: the cards read from the i-th cell on, under this aya.
        from[at \in (1 .. Len(cells) + 4) \X ({0} \cup Verses)] ==
            LET i == at[1] aya == at[2]
            IN  IF i > Len(cells) THEN [v \in Verses |-> <<>>]
                ELSE IF cells[i][1] = "ref" THEN from[<<i + 1, cells[i][3]>>]
                ELSE IF IsCard(i, aya) THEN [from[<<i + 4, aya>>] EXCEPT ![aya] = <<Card(i)>> \o @]
                ELSE from[<<i + 1, aya>>]
    IN  from[<<1, 0>>]

\* Each word is paired with the next card of its letters.
NextOfItsLetters(a, b) ==
    LET I == 1 .. Len(a) + 1
        walk[i \in I, j \in 1 .. Len(b) + 1] ==
            LET same == {k \in j .. Len(b) : i <= Len(a) /\ b[k] = a[i]}
                next == CHOOSE k \in same : \A l \in same : k <= l
            IN  IF i > Len(a) THEN <<>>
                ELSE IF same = {} THEN <<0>> \o walk[i + 1, j] ELSE <<next>> \o walk[i + 1, next + 1]
    IN  walk[1, 1]

\* alignLCS: for each place of a, the place of b it is paired with, or 0.  dp is
\* how many are paired from these places on, walk which with which.
AlignLCS(a, b) ==
    LET Places == (1 .. Len(a) + 1) \X (1 .. Len(b) + 1)
        dp[at \in Places] ==
            LET i == at[1] j == at[2]
            IN  IF i > Len(a) \/ j > Len(b) THEN 0
                ELSE IF a[i] = b[j] THEN dp[<<i + 1, j + 1>>] + 1
                ELSE IF dp[<<i + 1, j>>] >= dp[<<i, j + 1>>] THEN dp[<<i + 1, j>>] ELSE dp[<<i, j + 1>>]
        walk[at \in Places] ==
            LET i == at[1] j == at[2]
            IN  IF i > Len(a) THEN [k \in 1 .. Len(a) |-> 0]
                ELSE IF j <= Len(b) /\ a[i] = b[j] THEN [walk[<<i + 1, j + 1>>] EXCEPT ![i] = j]
                ELSE IF j <= Len(b) /\ dp[<<i, j + 1>>] >= dp[<<i + 1, j>>] THEN walk[<<i, j + 1>>]
                ELSE [walk[<<i + 1, j>>] EXCEPT ![i] = 0]
    IN  walk[<<1, 1>>]

\* The cards go to the words in turn.
PinByPlace(words, deck) == [i \in DOMAIN words |-> IF i > Len(deck) THEN "" ELSE deck[i].french]

\* pinFrenchGlosses for one aya: the French of the card whose letters are the
\* word's, or "" and the word keeps its English.
PinFrenchGlosses(words, deck) ==
    LET at == AlignLCS(words, [i \in DOMAIN deck |-> deck[i].arabic])
    IN  [i \in DOMAIN words |-> IF at[i] = 0 THEN "" ELSE deck[at[i]].french]

\* checkFrenchGlosses: no French at all, or some in every aya.
CheckFrenchGlosses(glosses) ==
    LET french == {v \in Verses : \E i \in DOMAIN glosses[v] : glosses[v][i] # ""}
    IN  french = {} \/ french = Verses

-----------------------------------------------------------------------------
\* An aya's words are a list, and so are a page's cells, none of them empty.
ASSUME FrenchAssumption ==
    /\ \A v \in Verses : Text[v] \in Seq(Range(Text[v]))
    /\ \A p \in Pages : p.files \in Seq(Range(p.files)) /\ \A f \in Range(p.files) :
          f \in Seq(Range(f)) /\ \A c \in Range(f) : c[2] # "" /\ (c[1] = "ref" => c[3] \in {0} \cup Verses)

\* A page says what it means: a card stands under the ref of its aya, the last
\* before it, whatever cells were lost behind its French; and no aya is on two
\* pages, nor twice on one (glosses_fr.go: "No aya is on two pages today").
Under(f, i, v) ==
    \E r \in 1 .. i - 1 : /\ f[r][1] = "ref" /\ f[r][3] = v
                         /\ \A s \in r + 1 .. i - 1 : f[s][1] # "ref"
ASSUME MeantAssumption ==
    /\ 0 \notin Verses
    /\ \A p \in Pages :
         /\ \A k, l \in DOMAIN p.files : \A i \in DOMAIN p.files[k], j \in DOMAIN p.files[l] :
              LET c == p.files[k][i] e == p.files[l][j]
              IN  c[1] = "ref" /\ e[1] = "ref" /\ c[3] = e[3] => c[3] \in Verses /\ k = l /\ i = j
         /\ \A f \in Range(p.files), v \in Verses : \A i \in 1 .. Len(f) - 2 :
              f[i][1] = "label" /\ f[i + 1][1] = "arabic" /\ Under(f, i, v) =>
                  [arabic |-> f[i + 1][2], french |-> f[i + 2][2]] \in Range(p.meant[v])

FInit ==
    /\ page \in Pages
    /\ fstage = "saved"
    /\ cards = [v \in Verses |-> <<>>]
    /\ gloss = [v \in Verses |-> [i \in DOMAIN Text[v] |-> ""]]
    /\ accepted = FALSE

\* The first file to carry an aya keeps it.
LoadFrenchGlosses ==
    /\ fstage = "saved"
    /\ cards' = [v \in Verses |->
                   LET carry == {k \in DOMAIN page.files : ParseTLDPage(page.files[k])[v] # <<>>}
                   IN  IF carry = {} THEN <<>>
                       ELSE ParseTLDPage(page.files[CHOOSE k \in carry : \A l \in carry : k <= l])[v]]
    /\ fstage' = "read"
    /\ UNCHANGED <<page, gloss, accepted>>

Pin ==
    /\ fstage = "read"
    /\ gloss' = [v \in Verses |-> PinFrenchGlosses(Text[v], cards[v])]
    /\ fstage' = "pinned"
    /\ UNCHANGED <<page, cards, accepted>>

Gate ==
    /\ fstage = "pinned"
    /\ accepted' = CheckFrenchGlosses(gloss)
    /\ fstage' = "gated"
    /\ UNCHANGED <<page, cards, gloss>>

FNext == LoadFrenchGlosses \/ Pin \/ Gate
FSpec == FInit /\ [][FNext]_fvars

-----------------------------------------------------------------------------
\* glosses_fr.go, pinFrenchGlosses: "a word with no matching card keeps its
\* English gloss rather than borrowing someone else's".  In a corpus the gate
\* accepts, the French of a word is what the pages give for a card of that aya
\* with that word's letters, even where a page lost a transliteration cell and
\* the parser, which counts four cells to a card, skipped into the next one.
\* page.meant is what the page says: the cards of each aya as they were written.
FrenchIsTheWordsOwn ==
    accepted => \A v \in Verses : \A i \in DOMAIN gloss[v] :
        gloss[v][i] # "" =>
            \E k \in DOMAIN page.meant[v] :
                /\ page.meant[v][k].arabic = Text[v][i]
                /\ page.meant[v][k].french = gloss[v][i]

\* alignLCS pairs as many words as any pairing that keeps the order could, so a
\* word goes without French only where the page has no card for it in its place.
AsManyAsPossible ==
    fstage \in {"pinned", "gated"} => \A v \in Verses :
        LET w    == Text[v]
            deck == [i \in DOMAIN cards[v] |-> cards[v][i].arabic]
            pairings == {p \in [DOMAIN w -> 0 .. Len(deck)] :
                           /\ \A i \in DOMAIN w : p[i] # 0 => deck[p[i]] = w[i]
                           /\ \A i, j \in DOMAIN w :
                                 i < j /\ p[i] # 0 /\ p[j] # 0 => p[i] < p[j]}
            got == Cardinality({i \in DOMAIN w : gloss[v][i] # ""})
        IN  \A p \in pairings : Cardinality({i \in DOMAIN w : p[i] # 0}) <= got
=============================================================================
