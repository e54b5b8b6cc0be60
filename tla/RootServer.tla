------------------------------ MODULE RootServer ------------------------------
(* rootd (jidhr/cmd/rootd): a gate, the limiter and then the key, in front of *)
(* three routes over one resolver.  One unit of the clock is the time one     *)
(* token takes to come back, 1/rate of a second.  A request reads the clock   *)
(* before it takes the limiter's mutex, so what it holds may be older than    *)
(* what the mutex's last holder wrote.                                        *)
EXTENDS Integers, Sequences, FiniteSets

CONSTANTS
    Requests,        \* what is sent: each once
    Callers,         \* addresses
    CallerOf,        \* whose a request is
    Asks,            \* what a request asks: [route, words, keyed]; route is "word",
                     \* "batch" or "letters", words a sequence, or NoBody
    NoBody,
    VerdictOn,        \* what the resolver makes of each word: "found", "not Arabic",
                     \* "no root" or "rootless"
    Burst,           \* burstPerRate times the rate, in tokens
    MaxTracked,      \* maxTrackedCallers
    MaxBatch,        \* maxBatchWords
    MaxClock

ASSUME LimitAssumption == Burst \in Nat \ {0} /\ CallerOf \in [Requests -> Callers]

Word == {""} \cup DOMAIN VerdictOn

\* json.Decode into []string: a list of words, or nothing that is one.
ASSUME BodyAssumption == \A r \in Requests : Asks[r].words # NoBody => Asks[r].words \in Seq(Word)

VARIABLES
    clock,
    buckets,         \* the limiter's map: [tokens, seen] of the callers it tracks
    request,         \* where each request stands
    broken,          \* the store's lookups fail
    spent,           \* what each caller has been let through, in all
    late             \* how stale the clock was in the buckets made for it, in all

rootdvars == <<clock, buckets, request, broken, spent, late>>

Least(a, b) == IF a <= b THEN a ELSE b
Unsent == [stage |-> "unsent", now |-> 0, items |-> <<>>, status |-> 0]

-----------------------------------------------------------------------------
(* limiter *)

Refilled(b, now) == b.tokens + (now - b.seen) >= Burst

\* Every bucket is forgotten.
SweptAll(now) == [c \in {} |-> buckets[c]]

\* The callers a fresh bucket would serve identically are forgotten.
Swept(now) == [c \in {d \in DOMAIN buckets : ~Refilled(buckets[d], now)} |-> buckets[c]]

\* allow: the bucket the caller has, or a full one, after a sweep when the map
\* is full; then what has come back since it was last seen.
Tracked(c, now) ==
    IF c \in DOMAIN buckets THEN buckets
    ELSE LET kept == IF Cardinality(DOMAIN buckets) >= MaxTracked THEN Swept(now) ELSE buckets
         IN  [d \in DOMAIN kept \cup {c} |-> IF d = c THEN [tokens |-> Burst, seen |-> now] ELSE kept[d]]

Topped(b, now) == [tokens |-> Least(Burst, b.tokens + (now - b.seen)), seen |-> now]

Answer(r, status, items) ==
    request' = [request EXCEPT ![r] = [@ EXCEPT !.stage = "answered", !.status = status, !.items = items]]

Tick ==
    /\ clock < MaxClock
    /\ clock' = clock + 1
    /\ UNCHANGED <<buckets, request, broken, spent, late>>

\* rateLimited reads the clock.
Arrive(r) ==
    /\ request[r].stage = "unsent"
    /\ request' = [request EXCEPT ![r] = [@ EXCEPT !.stage = "at the gate", !.now = clock]]
    /\ UNCHANGED <<clock, buckets, broken, spent, late>>

\* limiter.allow under its mutex, and then authenticated.
Allow(r) ==
    LET c == CallerOf[r]
        now == request[r].now
        table == Tracked(c, now)
        b == Topped(table[c], now)
    IN  /\ request[r].stage = "at the gate"
        /\ late' = IF c \in DOMAIN buckets THEN late ELSE [late EXCEPT ![c] = @ + (clock - now)]
        /\ IF b.tokens < 1
           THEN /\ buckets' = [table EXCEPT ![c] = b]
                /\ Answer(r, 429, <<>>)
                /\ UNCHANGED spent
           ELSE /\ buckets' = [table EXCEPT ![c] = [b EXCEPT !.tokens = @ - 1]]
                /\ spent' = [spent EXCEPT ![c] = @ + 1]
                /\ IF Asks[r].keyed THEN request' = [request EXCEPT ![r] = [@ EXCEPT !.stage = "routed"]] ELSE Answer(r, 401, <<>>)
        /\ UNCHANGED <<clock, broken>>

-----------------------------------------------------------------------------
(* The routes.  A store may be one that fails, for a while or for good.      *)
Break == ~broken /\ broken' = TRUE /\ UNCHANGED <<clock, buckets, request, spent, late>>
Mend == broken /\ broken' = FALSE /\ UNCHANGED <<clock, buckets, request, spent, late>>

\* apiErrorFor: what a word by itself is answered.
StatusOf(word) ==
    CASE word = "" -> 400
      [] VerdictOn[word] = "found" -> 200
      [] VerdictOn[word] = "not Arabic" -> 400
      [] OTHER -> 404

\* resolveWord and lookupRoot; only a word that is Arabic reaches the store.
Resolve(r) ==
    /\ request[r].stage = "routed" /\ Asks[r].route \in {"word", "letters"}
    /\ LET word == Asks[r].words[1]
       IN  Answer(r, IF broken /\ StatusOf(word) # 400 THEN 500 ELSE StatusOf(word), <<>>)
    /\ UNCHANGED <<clock, buckets, broken, spent, late>>

\* resolveBatch refuses what is not a list of words, or is too long a one.
OpenBatch(r) ==
    /\ request[r].stage = "routed" /\ Asks[r].route = "batch"
    /\ IF Asks[r].words = NoBody THEN Answer(r, 400, <<>>)
       ELSE IF Len(Asks[r].words) > MaxBatch THEN Answer(r, 400, <<>>)
       ELSE request' = [request EXCEPT ![r] = [@ EXCEPT !.stage = "batch"]]
    /\ UNCHANGED <<clock, buckets, broken, spent, late>>

\* A word the store failed on is one item among the others.
OneWordFails(r) ==
    /\ request[r].stage = "batch"
    /\ LET done == request[r].items
           words == Asks[r].words
       IN  IF Len(done) = Len(words) THEN Answer(r, 200, done)
           ELSE request' = [request EXCEPT ![r] = [@ EXCEPT !.items =
                   Append(done, IF broken THEN 500 ELSE StatusOf(words[Len(done) + 1]))]]
    /\ UNCHANGED <<clock, buckets, broken, spent, late>>

\* One word after the other; a store that fails sinks the whole.
NextWord(r) ==
    /\ request[r].stage = "batch"
    /\ LET done == request[r].items
           words == Asks[r].words
       IN  IF Len(done) = Len(words) THEN Answer(r, 200, done)
           ELSE LET status == StatusOf(words[Len(done) + 1])
                IN  IF broken /\ status # 400 THEN Answer(r, 500, <<>>)
                    ELSE request' = [request EXCEPT ![r] = [@ EXCEPT !.items = Append(done, status)]]
    /\ UNCHANGED <<clock, buckets, broken, spent, late>>

RootdInit ==
    /\ clock = 0 /\ broken = FALSE
    /\ buckets = [c \in {} |-> 0]
    /\ request = [r \in Requests |-> Unsent]
    /\ spent = [c \in Callers |-> 0] /\ late = [c \in Callers |-> 0]

RootdNext ==
    \/ Tick \/ Break \/ Mend
    \/ \E r \in Requests : Arrive(r) \/ Allow(r) \/ Resolve(r) \/ OpenBatch(r) \/ NextWord(r)

RootdSpec == RootdInit /\ [][RootdNext]_rootdvars
-----------------------------------------------------------------------------
\* limiter: over any time since the start a caller is let through no oftener than
\* the burst and what came back since allow it, whoever else fills the map and
\* is swept from it, and however late a request comes to the mutex; only a
\* bucket that is made by a late request is worth more, and by no more than
\* what that request was late by.
RateBound == \A c \in Callers : spent[c] <= Burst + clock + late[c]

\* server.go, resolveBatch: "partial results that look complete" are never
\* handed over: a batch that is answered has one item for each word, in its
\* order, each with the status the word has by itself.
BatchIsWhole ==
    \A r \in Requests :
        request[r].stage = "answered" /\ request[r].status = 200 /\ Asks[r].route = "batch" =>
            request[r].items = [i \in DOMAIN Asks[r].words |-> StatusOf(Asks[r].words[i])]
=============================================================================
