------------------------------ MODULE MCServing ------------------------------
(***************************************************************************)
(* What the server does beside sync.  The parts share no state but the     *)
(* senses, of which Reports asks one thing only (which roots are served),  *)
(* so a behaviour is of one part and the others stay as they were.         *)
(***************************************************************************)
EXTENDS Reports, SensePack, RootServer, TLC

VARIABLE part
servingVars == <<part, pvars, sensevars, rootdvars>>

-----------------------------------------------------------------------------
(* A thumb on the one root there is, and a report in prose; the processes   *)
(* before and after a deploy.                                               *)
MCVoteOf == [r \in {"thumb", "prose"} |-> IF r = "thumb" THEN "rHm" ELSE "none"]

-----------------------------------------------------------------------------
(* Two roots the phone's corpus has and one it does not.  A log that says   *)
(* one root twice, one of which the phone can show nothing, and one that    *)
(* is refused for its prose and for a root nobody knows.                    *)
Sense(r, t) == [root |-> r, text |-> t]
MCLogs ==
    {<<Sense("rHm", "p2"), Sense("qwl", "p1"), Sense("rHm", "p1")>>, <<Sense("later", "p1")>>,
     <<Sense("rHm", "blank"), Sense("xyz", "p1")>>}

-----------------------------------------------------------------------------
(* A batch, a word without a key and a particle from one address; from      *)
(* another a batch that is too long.                                        *)
A(route, words, keyed) == [route |-> route, words |-> words, keyed |-> keyed]
MCAsks ==
    [r1 |-> A("batch", <<"sabr", "tel">>, TRUE), r2 |-> A("word", <<"sabr">>, FALSE),
     r3 |-> A("letters", <<"min">>, TRUE),
     r4 |-> A("batch", <<"sabr", "sabr", "sabr", "sabr">>, TRUE)]
MCCallerOf == [r \in DOMAIN MCAsks |-> IF r = "r4" THEN "b" ELSE "a"]
MCVerdictOn == [sabr |-> "found", tel |-> "not Arabic", min |-> "rootless"]

-----------------------------------------------------------------------------
MCInit ==
    /\ part \in {"reports", "senses", "rootd"}
    /\ PInit /\ SenseInit /\ RootdInit

MCNext ==
    \/ part = "reports" /\ PNext /\ UNCHANGED <<part, sensevars, rootdvars>>
    \/ part = "senses" /\ SenseNext /\ UNCHANGED <<part, pvars, rootdvars>>
    \/ part = "rootd" /\ RootdNext /\ UNCHANGED <<part, pvars, sensevars>>

MCSpec == MCInit /\ [][MCNext]_servingVars

\* main.go, every: a process that lives sweeps now and then again, and not every
\* sweep of every process is cancelled.
Sweeping ==
    LET Swept_(a) == part = "reports" /\ a /\ UNCHANGED <<part, sensevars, rootdvars>>
    IN  /\ WF_servingVars(Swept_(\E w \in Sweepers : SweepReports(w)))
        /\ SF_servingVars(Swept_(\E w \in Sweepers : TakeRows(w)))
        /\ SF_servingVars(Swept_(\E w \in Sweepers : SweepCommits(w)))

MCFairSpec == MCSpec /\ Sweeping
=============================================================================
