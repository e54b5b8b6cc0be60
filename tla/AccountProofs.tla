--------------------------- MODULE AccountProofs ---------------------------
(***************************************************************************)
(* Proofs about Account, for any readers and any bounds.                   *)
(*                                                                         *)
(* That a device is signed in as the reader it belongs to is inductive as  *)
(* it stands.  That a deleted account stays deleted is not: it rests on    *)
(* what a request that is past the middleware still knows, so the          *)
(* strengthening says of its user that, as long as there is such a user,   *)
(* they are its bearer's, signed in since the last deletion.  What leaves  *)
(* the queue, and what a hand-over leaves behind, rest in turn on what a   *)
(* flush knows by the place it has come to: whose its bearer, its page and *)
(* its queue are, and from which place of the stream it reads.             *)
(***************************************************************************)
EXTENDS Account, TLAPS, FiniteSetTheorems

IsToken(t) == t = [sub |-> t.sub, auth |-> t.auth, n |-> t.n] /\ t.sub \in Reader
MaybeToken(t) == t = NoToken \/ IsToken(t)

\* What is in flight has the fields it should, and tokens name readers.
Shapes ==
  /\ MaybeToken(token)
  /\ login = NoLogin \/ login.sub \in Reader
  /\ flush = [at |-> flush.at, queue |-> flush.queue, landed |-> flush.landed,
              since |-> flush.since, bearer |-> flush.bearer, tries |-> flush.tries,
              user |-> flush.user, page |-> flush.page, upto |-> flush.upto]
  /\ MaybeToken(flush.bearer)
  /\ refreshing = [c \in Caller |-> refreshing[c]]
  /\ \A c \in Caller :
       /\ refreshing[c] = [held |-> refreshing[c].held, answer |-> refreshing[c].answer]
       /\ MaybeToken(refreshing[c].held)
       /\ MaybeToken(refreshing[c].answer)
  /\ \A t \in valid : IsToken(t)

\* The users rows of two readers are never one, nor one a later one gets.
UsersApart ==
  /\ users \in Nat
  /\ account = [r \in Reader |-> account[r]]
  /\ \A r \in Reader :
       /\ account[r] = [id |-> account[r].id, rows |-> account[r].rows]
       /\ account[r].id \in 0..users
  /\ \A r, s \in Reader : account[r].id = account[s].id /\ account[r].id # 0 => r = s

\* A request past the middleware: its user is its bearer's or is gone, and
\* while there is such a user, the bearer signed in since the last deletion.
LetInStands ==
  flush.at \in {"landing", "reading"} =>
    /\ flush.user \in 1..users
    /\ \A r \in Reader : account[r].id = flush.user =>
         r = flush.bearer.sub /\ flush.bearer.auth >= deletedAt[r]

\* A flush waits for a refresh only before it is let in.
WaitsUnsigned == Waits("flush") => flush.at \in {"pushing", "pulling"}

DeletionInv ==
  /\ deletedAt = [r \in Reader |-> deletedAt[r]]
  /\ Shapes
  /\ WaitsUnsigned
  /\ UsersApart
  /\ LetInStands
  /\ DeletedStaysDeleted

(***************************************************************************)
(* Signed in as the holder.                                                *)
(***************************************************************************)
LEMMA StoredAsHolder ==
  ASSUME NEW t, StoreToken(t)
  PROVE  SignedInAsHolder'
BY DEF StoreToken, HandOver, SignedInAsHolder

LEMMA HolderStep == SignedInAsHolder /\ [Next]_vars => SignedInAsHolder'
<1> SUFFICES ASSUME SignedInAsHolder, [Next]_vars PROVE SignedInAsHolder'
  OBVIOUS
<1> USE DEF SignedInAsHolder
<1>1. CASE Write BY <1>1 DEF Write
<1>2. CASE Complete BY <1>2, StoredAsHolder DEF Complete
<1>3. CASE SignOut BY <1>3 DEF SignOut
<1>4. CASE Tick BY <1>4 DEF Tick, deviceVars
<1>5. CASE \E r \in Reader : Begin(r) BY <1>5 DEF Begin, deviceVars
<1>6. CASE FlushStep
  BY <1>6 DEF FlushStep, StartFlush, ReadCursor, Sign, SignAnew, LetIn, Land, Settle,
              ReadChanges, ApplyPage, SaveCursor, GiveUpFlush, deviceVars
<1>7. CASE \E c \in Caller : RefreshStep(c)
  BY <1>7, StoredAsHolder
     DEF RefreshStep, Rotate, Refreshed, RefreshRefused, RefreshLost, deviceVars
<1>8. CASE DeleteStep
  BY <1>8 DEF DeleteStep, StartDelete, DeleteMe, DeleteDone, DeleteFails, deviceVars
<1>9. CASE UNCHANGED vars BY <1>9 DEF vars, deviceVars
<1> QED BY <1>1, <1>2, <1>3, <1>4, <1>5, <1>6, <1>7, <1>8, <1>9 DEF Next

\* A device with a token belongs to the reader the token names, whatever
\* sign-ins, refreshes, sign-outs and deletions race (_exchange).
THEOREM AlwaysSignedInAsHolder == Spec => []SignedInAsHolder
<1>1. Init => SignedInAsHolder BY DEF Init, SignedInAsHolder
<1> QED BY <1>1, HolderStep, PTL DEF Spec

(***************************************************************************)
(* A deleted account stays deleted.                                        *)
(***************************************************************************)
LEMMA InitDeletionInv == Init => DeletionInv
<1> SUFFICES ASSUME Init PROVE DeletionInv OBVIOUS
<1> USE DEF Init
<1>1. Shapes BY DEF Shapes, MaybeToken, NoFlush, NoExchange
<1>2. UsersApart BY DEF UsersApart, NoAccount
<1>3. LetInStands BY DEF LetInStands, NoFlush
<1>4. DeletedStaysDeleted BY DEF DeletedStaysDeleted, NoAccount
<1>5. WaitsUnsigned BY DEF WaitsUnsigned, Waits, Caller
<1> QED BY <1>1, <1>2, <1>3, <1>4, <1>5 DEF DeletionInv

\* The shapes outlive every step.
LEMMA FlushShapes == Shapes /\ FlushStep /\ UsersApart => Shapes'
<1> SUFFICES ASSUME Shapes, FlushStep, UsersApart PROVE Shapes' OBVIOUS
<1> USE DEF Shapes, deviceVars, issuerVars, serverVars
<1>1. CASE StartFlush BY <1>1 DEF StartFlush, NoFlush, MaybeToken
<1>2. CASE ReadCursor BY <1>2 DEF ReadCursor
<1>3. CASE Sign BY <1>3 DEF Sign
<1>4. CASE SignAnew BY <1>4 DEF SignAnew, StartRefresh, MaybeToken
<1>5. CASE LetIn BY <1>5 DEF LetIn
<1>6. CASE \E o \in flush.queue : Land(o)
  <2> PICK o \in flush.queue : Land(o) BY <1>6
  <2> QED BY DEF Land
<1>7. CASE Settle BY <1>7 DEF Settle, NoFlush, MaybeToken
<1>8. CASE ReadChanges BY <1>8 DEF ReadChanges
<1>9. CASE ApplyPage BY <1>9 DEF ApplyPage
<1>10. CASE SaveCursor \/ GiveUpFlush
  BY <1>10 DEF SaveCursor, GiveUpFlush, NoFlush, MaybeToken
<1> QED BY <1>1, <1>2, <1>3, <1>4, <1>5, <1>6, <1>7, <1>8, <1>9, <1>10 DEF FlushStep

\* What a refresh hands its caller leaves the flush idle, or where it was.
LEMMA ResumeShapes ==
  ASSUME Shapes, NEW c \in Caller, NEW t, MaybeToken(t), Resume(c, t)
  PROVE  /\ flush' = [at |-> flush'.at, queue |-> flush'.queue, landed |-> flush'.landed,
                     since |-> flush'.since, bearer |-> flush'.bearer,
                     tries |-> flush'.tries, user |-> flush'.user, page |-> flush'.page,
                     upto |-> flush'.upto]
         /\ MaybeToken(flush'.bearer)
<1>1. CASE flush' = flush BY <1>1 DEF Shapes
<1>2. CASE flush' = NoFlush BY <1>2 DEF NoFlush, MaybeToken
<1>3. CASE flush' = [flush EXCEPT !.bearer = t, !.tries = @ + 1]
  BY <1>3 DEF Shapes
<1> QED BY <1>1, <1>2, <1>3 DEF Resume

LEMMA EndedExchange ==
  ASSUME Shapes, NEW c \in Caller, EndRefresh(c)
  PROVE  /\ refreshing' = [d \in Caller |-> refreshing'[d]]
         /\ \A d \in Caller :
              /\ refreshing'[d] = [held |-> refreshing'[d].held, answer |-> refreshing'[d].answer]
              /\ MaybeToken(refreshing'[d].held)
              /\ MaybeToken(refreshing'[d].answer)
<1>1. \A d \in Caller : refreshing'[d] = IF d = c THEN NoExchange ELSE refreshing[d]
  BY DEF Shapes, EndRefresh
<1> QED BY <1>1 DEF Shapes, EndRefresh, NoExchange, MaybeToken

LEMMA RefreshShapes ==
  ASSUME Shapes, NEW c \in Caller, RefreshStep(c)
  PROVE  Shapes'
<1> USE DEF deviceVars, issuerVars, serverVars
<1>1. CASE Rotate(c)
  <2> DEFINE fresh == [refreshing[c].held EXCEPT !.n = minted + 1]
  <2>1. refreshing[c].held \in valid BY <1>1 DEF Rotate
  <2>2. IsToken(refreshing[c].held) BY <2>1 DEF Shapes
  <2>3. IsToken(fresh) BY <2>2 DEF IsToken
  <2>4. /\ valid' = (valid \ {refreshing[c].held}) \cup {fresh}
        /\ refreshing' = [refreshing EXCEPT ![c].answer = fresh]
        /\ UNCHANGED <<token, login, flush>>
    BY <1>1 DEF Rotate
  <2> HIDE DEF fresh
  <2>5. \A d \in Caller : refreshing'[d] =
          IF d = c THEN [held |-> refreshing[c].held, answer |-> fresh] ELSE refreshing[d]
    BY <2>4 DEF Shapes
  <2> QED BY <2>2, <2>3, <2>4, <2>5 DEF Shapes, MaybeToken
<1>2. CASE Refreshed(c)
  <2>1. MaybeToken(refreshing[c].answer) BY DEF Shapes
  <2>2. token' = refreshing[c].answer BY <1>2 DEF Refreshed, StoreToken
  <2>3. UNCHANGED <<login, valid>> BY <1>2 DEF Refreshed
  <2>4. EndRefresh(c) /\ Resume(c, refreshing[c].answer) BY <1>2 DEF Refreshed
  <2> QED BY <2>1, <2>2, <2>3, <2>4, ResumeShapes, EndedExchange DEF Shapes
<1>3. CASE RefreshRefused(c) \/ RefreshLost(c)
  <2>1. MaybeToken(NoToken) BY DEF MaybeToken
  <2>2. token' = token \/ token' = NoToken BY <1>3 DEF RefreshRefused, RefreshLost
  <2>3. UNCHANGED <<login, valid>> BY <1>3 DEF RefreshRefused, RefreshLost
  <2>4. EndRefresh(c) /\ Resume(c, NoToken) BY <1>3 DEF RefreshRefused, RefreshLost
  <2> QED BY <2>1, <2>2, <2>3, <2>4, ResumeShapes, EndedExchange DEF Shapes
<1> QED BY <1>1, <1>2, <1>3 DEF RefreshStep

\* The one caller that waits for a refresh is still where it asked.
LEMMA FlushWaits ==
  ASSUME Shapes, WaitsUnsigned, FlushStep
  PROVE  WaitsUnsigned'
<1> USE DEF Shapes, WaitsUnsigned, Waits, Free, Asking, deviceVars
<1>1. CASE SignAnew BY <1>1 DEF SignAnew
<1>2. CASE StartFlush \/ ReadCursor \/ Settle \/ ReadChanges \/ ApplyPage \/ SaveCursor
  BY <1>2 DEF StartFlush, ReadCursor, Settle, ReadChanges, ApplyPage, SaveCursor, NoFlush
<1>3. CASE Sign BY <1>3 DEF Sign
<1>4. CASE LetIn \/ GiveUpFlush BY <1>4 DEF LetIn, GiveUpFlush
<1>5. CASE \E o \in flush.queue : Land(o) BY <1>5 DEF Land
<1> QED BY <1>1, <1>2, <1>3, <1>4, <1>5 DEF FlushStep

LEMMA RefreshWaits ==
  ASSUME Shapes, WaitsUnsigned, NEW c \in Caller, RefreshStep(c)
  PROVE  /\ WaitsUnsigned'
         /\ flush' = flush \/ flush'.at \notin {"landing", "reading"}
<1> USE DEF Waits
<1>1. CASE Rotate(c)
  <2>1. flush' = flush /\ Waits(c) BY <1>1 DEF Rotate
  <2>2. \A d \in Caller : d # c => refreshing'[d] = refreshing[d]
    BY <1>1 DEF Rotate, Shapes
  <2> QED BY <2>1, <2>2 DEF WaitsUnsigned, Caller
<1>2. CASE Refreshed(c) \/ RefreshRefused(c) \/ RefreshLost(c)
  <2>1. Waits(c) BY <1>2 DEF Refreshed, RefreshRefused, RefreshLost, NoExchange
  <2>2. EndRefresh(c) /\ \E t : Resume(c, t)
    BY <1>2 DEF Refreshed, RefreshRefused, RefreshLost
  <2>3. \A d \in Caller : refreshing'[d] = IF d = c THEN NoExchange ELSE refreshing[d]
    BY <2>2 DEF EndRefresh, Shapes
  <2>4. CASE c = "flush"
    <3>1. flush.at \in {"pushing", "pulling"} BY <2>1, <2>4 DEF WaitsUnsigned
    <3>2. PICK t : flush' = NoFlush \/ flush' = [flush EXCEPT !.bearer = t, !.tries = @ + 1]
      BY <2>2, <2>4 DEF Resume
    <3>3. CASE flush' = NoFlush BY <2>3, <2>4, <3>3 DEF WaitsUnsigned, NoFlush
    <3>4. CASE flush' = [flush EXCEPT !.bearer = t, !.tries = @ + 1]
      <4>1. flush'.at = flush.at BY <3>4 DEF Shapes
      <4> QED BY <2>3, <2>4, <3>1, <4>1 DEF WaitsUnsigned
    <3> QED BY <3>2, <3>3, <3>4
  <2>5. CASE c # "flush"
    <3>1. flush' = flush BY <2>2, <2>5 DEF Resume
    <3> QED BY <2>3, <2>5, <3>1 DEF WaitsUnsigned, Caller
  <2> QED BY <2>4, <2>5
<1> QED BY <1>1, <1>2 DEF RefreshStep

\* A step that leaves the accounts alone, and the flush outside the handlers
\* or where it stood in them.
LEMMA QuietStep ==
  ASSUME DeletionInv, UNCHANGED <<account, users, deletedAt>>,
         \/ flush'.at \notin {"landing", "reading"}
         \/ /\ flush'.at = flush.at
            /\ flush'.user = flush.user
            /\ flush'.bearer = flush.bearer
  PROVE  UsersApart' /\ LetInStands' /\ DeletedStaysDeleted'
         /\ deletedAt' = [r \in Reader |-> deletedAt'[r]]
BY DEF DeletionInv, UsersApart, LetInStands, DeletedStaysDeleted

\* Through the middleware: the reader's row is there, and is its reader's.
LEMMA LetInStep == DeletionInv /\ LetIn => DeletionInv'
<1> SUFFICES ASSUME DeletionInv, LetIn PROVE DeletionInv' OBVIOUS
<1> DEFINE u == flush.bearer.sub
<1>1. u \in Reader BY DEF LetIn, DeletionInv, Shapes, MaybeToken, IsToken
<1>2. flush.bearer.auth >= deletedAt[u] BY DEF LetIn, SignedInSince
<1>3. /\ account' = [r \in Reader |-> account'[r]]
      /\ account'[u].id \in 1..users' /\ users' \in Nat /\ users <= users'
      /\ account'[u].rows = account[u].rows
      /\ account'[u] = [id |-> account'[u].id, rows |-> account[u].rows]
      /\ \A r \in Reader : r # u => account'[r] = account[r]
      /\ \A r \in Reader : r # u => account'[u].id # account[r].id
  <2>1. CASE account[u].id # 0
    BY <1>1, <2>1 DEF LetIn, Mint, DeletionInv, UsersApart
  <2>2. CASE account[u].id = 0
    <3>1. users' = users + 1 /\ account' = [account EXCEPT ![u].id = users + 1]
      BY <2>2 DEF LetIn, Mint
    <3>2. account'[u] = [id |-> users + 1, rows |-> account[u].rows]
      BY <1>1, <3>1 DEF DeletionInv, UsersApart
    <3> QED BY <1>1, <3>1, <3>2 DEF DeletionInv, UsersApart
  <2> QED BY <2>1, <2>2
<1>4. /\ flush'.user = account'[u].id /\ flush'.bearer = flush.bearer
  BY DEF LetIn, DeletionInv, Shapes
<1>5. Shapes' BY FlushShapes DEF DeletionInv, FlushStep
<1>6. UsersApart' BY <1>1, <1>3 DEF DeletionInv, UsersApart
<1>7. LetInStands' BY <1>1, <1>2, <1>3, <1>4 DEF LetInStands, LetIn
<1>8. DeletedStaysDeleted'
  BY <1>1, <1>3 DEF DeletionInv, DeletedStaysDeleted, LetIn
<1>9. WaitsUnsigned' BY FlushWaits DEF DeletionInv, FlushStep
<1> QED BY <1>5, <1>6, <1>7, <1>8, <1>9 DEF DeletionInv, LetIn

\* An op lands in the account of the user it was let in under, or nowhere.
LEMMA LandStep ==
  ASSUME DeletionInv, NEW o \in flush.queue, Land(o)
  PROVE  DeletionInv'
<1> USE DEF DeletionInv
<1>1. Shapes' BY FlushShapes DEF FlushStep
<1>2. /\ flush'.at = flush.at /\ flush'.user = flush.user /\ flush'.bearer = flush.bearer
      /\ flush.at = "landing" /\ UNCHANGED <<users, deletedAt>>
  BY DEF Land, Shapes
<1>9. WaitsUnsigned' BY FlushWaits DEF FlushStep
<1>3. CASE account' = account
  BY <1>1, <1>2, <1>3, <1>9, QuietStep
<1>4. CASE \E r \in Reader : OfTheUser(r) /\
             account' = [account EXCEPT ![r].rows =
               [p \in DOMAIN @ \cup {o} |->
                  IF p = o THEN [seq |-> changeSeq + 1, auth |-> flush.bearer.auth] ELSE @[p]]]
  <2> PICK u \in Reader : OfTheUser(u) /\
             account' = [account EXCEPT ![u].rows =
               [p \in DOMAIN @ \cup {o} |->
                  IF p = o THEN [seq |-> changeSeq + 1, auth |-> flush.bearer.auth] ELSE @[p]]]
    BY <1>4
  <2> DEFINE more == [p \in DOMAIN account[u].rows \cup {o} |->
                  IF p = o THEN [seq |-> changeSeq + 1, auth |-> flush.bearer.auth]
                  ELSE account[u].rows[p]]
  <2>1. account' = [r \in Reader |-> IF r = u THEN [id |-> account[u].id, rows |-> more]
                                     ELSE account[r]]
    <3> HIDE DEF DeletionInv
    <3>1. /\ account = [r \in Reader |-> account[r]]
          /\ account[u] = [id |-> account[u].id, rows |-> account[u].rows]
      BY DEF DeletionInv, UsersApart
    <3>2. account' = [account EXCEPT ![u].rows = more] OBVIOUS
    <3> HIDE DEF more
    <3> QED BY <3>1, <3>2
  <2>2. flush.bearer.auth >= deletedAt[u]
    BY <1>2 DEF LetInStands, OfTheUser
  <2>3. \A p \in DOMAIN more : more[p].auth = flush.bearer.auth \/
          (p \in DOMAIN account[u].rows /\ more[p] = account[u].rows[p])
    OBVIOUS
  <2> HIDE DEF more
  <2>4. UsersApart'
    <3>1. \A r \in Reader : /\ account'[r] = [id |-> account'[r].id, rows |-> account'[r].rows]
                           /\ account'[r].id = account[r].id
      BY <2>1 DEF UsersApart
    <3>2. account' = [r \in Reader |-> account'[r]] BY <2>1
    <3>3. \A r \in Reader : account[r].id \in 0..users BY DEF UsersApart
    <3>4. \A r, s \in Reader : account'[r].id = account'[s].id /\ account'[r].id # 0 => r = s
      BY <3>1 DEF UsersApart
    <3>5. users' \in Nat /\ users' = users BY <1>2 DEF UsersApart
    <3>6. \A r \in Reader : account'[r].id \in 0..users' BY <3>1, <3>3, <3>5
    <3> HIDE DEF DeletionInv
    <3> QED BY <3>1, <3>2, <3>4, <3>5, <3>6 DEF UsersApart
  <2>5. LetInStands' BY <1>2, <2>1 DEF LetInStands, UsersApart
  <2>6. DeletedStaysDeleted' BY <1>2, <2>1, <2>2, <2>3 DEF DeletedStaysDeleted
  <2> QED BY <1>1, <1>2, <1>9, <2>4, <2>5, <2>6
<1> QED BY <1>3, <1>4 DEF Land

\* The deletion leaves the account empty, and nobody let in as its user.
LEMMA DeleteMeStep == DeletionInv /\ DeleteMe => DeletionInv'
<1> SUFFICES ASSUME DeletionInv, DeleteMe PROVE DeletionInv' OBVIOUS
<1> USE DEF DeletionInv
<1>1. UNCHANGED <<token, login, flush, refreshing, valid, users>>
  BY DEF DeleteMe, deviceVars, issuerVars
<1>2. Shapes' /\ WaitsUnsigned' BY <1>1 DEF Shapes, WaitsUnsigned, Waits
<1>3. CASE UNCHANGED <<account, deletedAt>>
  BY <1>1, <1>2, <1>3, QuietStep
<1>4. CASE DeleteReader(deleting.bearer.sub)
  <2> DEFINE u == deleting.bearer.sub
  <2>1. /\ account' = [r \in Reader |-> IF r = u THEN NoAccount ELSE account[r]]
        /\ deletedAt' = [r \in Reader |-> IF r = u THEN second ELSE deletedAt[r]]
    BY <1>4 DEF DeleteReader, UsersApart
  <2>2. UsersApart' BY <1>1, <2>1 DEF UsersApart, NoAccount
  <2>3. LetInStands' BY <1>1, <2>1 DEF LetInStands, NoAccount
  <2>4. DeletedStaysDeleted' BY <2>1 DEF DeletedStaysDeleted, NoAccount
  <2> QED BY <1>2, <2>1, <2>2, <2>3, <2>4
<1> QED BY <1>3, <1>4 DEF DeleteMe

LEMMA DeletionStep == DeletionInv /\ [Next]_vars => DeletionInv'
<1> SUFFICES ASSUME DeletionInv, [Next]_vars PROVE DeletionInv' OBVIOUS
<1> USE DEF deviceVars, issuerVars, serverVars
<1>1. CASE Write \/ SignOut \/ Tick \/ UNCHANGED vars
  <2>1. UNCHANGED <<login, flush, refreshing, valid, account, users, deletedAt>>
    BY <1>1 DEF Write, SignOut, Tick, vars
  <2>2. token' = token \/ token' = NoToken BY <1>1 DEF Write, SignOut, Tick, vars
  <2>3. Shapes' BY <2>1, <2>2 DEF DeletionInv, Shapes, MaybeToken
  <2>4. WaitsUnsigned' BY <2>1 DEF DeletionInv, WaitsUnsigned, Waits
  <2> QED BY <2>1, <2>3, <2>4, QuietStep DEF DeletionInv
<1>2. CASE Complete
  <2>1. UNCHANGED <<flush, refreshing, account, users, deletedAt>> BY <1>2 DEF Complete
  <2>2. IsToken(token') /\ login' = NoLogin /\ valid' = valid \cup {token'}
    BY <1>2 DEF Complete, StoreToken, IsToken, DeletionInv, Shapes
  <2>3. Shapes' BY <2>1, <2>2 DEF DeletionInv, Shapes, MaybeToken
  <2>4. WaitsUnsigned' BY <2>1 DEF DeletionInv, WaitsUnsigned, Waits
  <2> QED BY <2>1, <2>3, <2>4, QuietStep DEF DeletionInv
<1>3. CASE \E r \in Reader : Begin(r)
  <2>1. Shapes' /\ WaitsUnsigned'
    BY <1>3 DEF Begin, DeletionInv, Shapes, WaitsUnsigned, Waits
  <2> QED BY <1>3, <2>1, QuietStep DEF Begin, DeletionInv
<1>4. CASE FlushStep
  <2>1. Shapes' /\ WaitsUnsigned' BY <1>4, FlushShapes, FlushWaits DEF DeletionInv
  <2>2. CASE LetIn BY <2>2, LetInStep
  <2>3. CASE \E o \in flush.queue : Land(o) BY <2>3, LandStep
  <2>4. CASE StartFlush \/ ReadCursor \/ Sign \/ SignAnew \/ Settle
    <3>1. UNCHANGED <<account, users, deletedAt>>
      BY <2>4 DEF StartFlush, ReadCursor, Sign, SignAnew, Settle
    <3>2. flush'.at \notin {"landing", "reading"}
      BY <2>4 DEF StartFlush, ReadCursor, Sign, SignAnew, Settle, Asking, NoFlush,
                  DeletionInv, Shapes
    <3> QED BY <2>1, <3>1, <3>2, QuietStep DEF DeletionInv
  <2>5. CASE ReadChanges \/ ApplyPage \/ SaveCursor \/ GiveUpFlush
    <3>1. UNCHANGED <<account, users, deletedAt>>
      BY <2>5 DEF ReadChanges, ApplyPage, SaveCursor, GiveUpFlush
    <3>2. CASE ReadChanges
      <4>1. flush'.at = "got" BY <3>2 DEF ReadChanges, DeletionInv, Shapes
      <4> QED BY <2>1, <3>1, <4>1, QuietStep DEF DeletionInv
    <3>3. CASE ApplyPage \/ SaveCursor \/ GiveUpFlush
      <4>1. flush'.at \notin {"landing", "reading"}
        BY <3>3 DEF ApplyPage, SaveCursor, GiveUpFlush, NoFlush, DeletionInv, Shapes
      <4> QED BY <2>1, <3>1, <4>1, QuietStep DEF DeletionInv
    <3> QED BY <2>5, <3>2, <3>3
  <2> QED BY <1>4, <2>2, <2>3, <2>4, <2>5 DEF FlushStep
<1>5. CASE \E c \in Caller : RefreshStep(c)
  <2> PICK c \in Caller : RefreshStep(c) BY <1>5
  <2>1. Shapes' BY RefreshShapes DEF DeletionInv
  <2>2. UNCHANGED <<account, users, deletedAt>>
    BY DEF RefreshStep, Rotate, Refreshed, RefreshRefused, RefreshLost
  <2>3. WaitsUnsigned' /\ (flush' = flush \/ flush'.at \notin {"landing", "reading"})
    BY RefreshWaits DEF DeletionInv
  <2> QED BY <2>1, <2>2, <2>3, QuietStep DEF DeletionInv
<1>6. CASE DeleteStep
  <2>1. CASE DeleteMe BY <2>1, DeleteMeStep
  <2>2. CASE StartDelete \/ DeleteDone \/ DeleteFails
    <3>1. UNCHANGED <<login, flush, valid, account, users, deletedAt>>
      BY <2>2 DEF StartDelete, DeleteDone, DeleteFails
    <3>2. token' = token \/ token' = NoToken
      BY <2>2 DEF StartDelete, DeleteDone, DeleteFails
    <3>3. refreshing' = refreshing \/ (token # NoToken /\ StartRefresh("delete"))
      BY <2>2 DEF StartDelete, DeleteDone, DeleteFails
    <3>4. Shapes' BY <3>1, <3>2, <3>3 DEF DeletionInv, Shapes, MaybeToken, StartRefresh
    <3>5. WaitsUnsigned'
      <4>1. refreshing'["flush"] = refreshing["flush"]
        BY <3>3 DEF DeletionInv, Shapes, StartRefresh, Caller
      <4> QED BY <3>1, <4>1 DEF DeletionInv, WaitsUnsigned, Waits
    <3> QED BY <3>1, <3>4, <3>5, QuietStep DEF DeletionInv
  <2> QED BY <1>6, <2>1, <2>2 DEF DeleteStep
<1> QED BY <1>1, <1>2, <1>3, <1>4, <1>5, <1>6 DEF Next

\* A deleted account stays deleted until its reader signs in again, however
\* requests, refreshes and deletions are interleaved (ReaderFor, DeleteReader,
\* op_log's foreign key).
THEOREM DeletionHolds == Spec => []DeletedStaysDeleted
<1>1. DeletionInv => DeletedStaysDeleted BY DEF DeletionInv
<1> QED BY <1>1, InitDeletionInv, DeletionStep, PTL DEF Spec

(***************************************************************************)
(* Whose rows a hand-over leaves behind.                                   *)
(***************************************************************************)
\* Rows are numbered from one change sequence, and every place in a stream,
\* kept or in flight, is a place in it.
Counted ==
  /\ second \in Nat \ {0}
  /\ \A r \in Reader : deletedAt[r] \in Nat
  /\ changeSeq \in Nat
  /\ \A r \in Reader : \A o \in DOMAIN account[r].rows :
       account[r].rows[o].seq \in 1..changeSeq
  /\ cursor \in 0..changeSeq
  /\ flush.since \in 0..changeSeq
  /\ flush.upto \in 0..changeSeq

\* What a flush knows by the place it has come to.  An op it counts as landed is
\* in its bearer's account, unless that account was deleted since.
FlushKeeps ==
  /\ flush.at \in {"landing", "reading", "got", "applied"} => flush.bearer # NoToken
  /\ flush.at # "landing" => flush.landed = {}
  /\ flush.at \notin {"got", "applied"} => flush.upto = 0 /\ flush.page = {}
  /\ \A o \in flush.landed :
       o \in DOMAIN account[flush.bearer.sub].rows \/ deletedAt[flush.bearer.sub] > 0

\* A deletion is asked for on a device somebody holds.
HeldWhileDeleting ==
  /\ holder \in Reader \cup {Nobody}
  /\ deleting # NoDelete => holder # Nobody

ForgetInv == DeletionInv /\ SignedInAsHolder /\ Counted /\ FlushKeeps /\ HeldWhileDeleting

\* A set of numbers under a bound has a greatest.
LEMMA Greatest ==
  ASSUME NEW b \in Nat, NEW S, S \subseteq 0..b, S # {}
  PROVE  \E n \in S : \A m \in S : m <= n
<1> DEFINE Above(n) == {m \in S : m > n}
           T == {Above(n) : n \in S}
<1>1. IsFiniteSet(S) BY FS_Interval, FS_Subset, 0 \in Int, b \in Int
<1>2. \A n \in S : IsFiniteSet(Above(n)) BY <1>1, FS_Subset
<1>3. T \subseteq FiniteSubsetsOf(S) /\ T # {} BY <1>2 DEF FiniteSubsetsOf
<1>4. PICK x \in T : \A y \in T : <<y, x>> \notin StrictSubsetOrdering(S)
  <2> HIDE DEF T
  <2> QED BY <1>3, FS_StrictSubsetOrderingWellFounded, WFMin
<1>5. PICK n \in S : x = Above(n) OBVIOUS
<1>6. ASSUME NEW m \in S, m > n PROVE FALSE
  <2>0. \A y \in S : y \in Int OBVIOUS
  <2>1. /\ Above(m) \subseteq Above(n)
        /\ m \in Above(n) /\ m \notin Above(m)
    <3>1. m \in Int /\ n \in Int /\ ~(m > m) BY <2>0
    <3>2. \A y \in S : y > m => y > n BY <1>6, <2>0
    <3> QED BY <1>6, <3>1, <3>2
  <2>2. Above(m) \in T /\ Above(m) \in SUBSET S /\ x \in SUBSET S BY <1>5
  <2>3. <<Above(m), x>> \in StrictSubsetOrdering(S)
    <3> HIDE DEF Above, T
    <3> QED BY <1>5, <2>1, <2>2 DEF StrictSubsetOrdering
  <2> QED BY <1>4, <2>2, <2>3
<1> QED BY <1>6

\* What one op's landing does to the accounts: nothing, or one row more, with
\* the next number, in its bearer's.
LEMMA LandRows ==
  ASSUME DeletionInv, Counted, NEW o \in flush.queue, Land(o)
  PROVE  /\ flush' = [flush EXCEPT !.queue = flush.queue \ {o}, !.landed = flush'.landed]
         /\ \/ flush'.landed = flush.landed
            \/ /\ flush'.landed = flush.landed \cup {o}
               /\ o \in DOMAIN account'[flush.bearer.sub].rows
         /\ changeSeq' \in {changeSeq, changeSeq + 1}
         /\ \A r \in Reader :
              /\ DOMAIN account[r].rows \subseteq DOMAIN account'[r].rows
              /\ \A p \in DOMAIN account'[r].rows :
                   \/ p \in DOMAIN account[r].rows /\ account'[r].rows[p] = account[r].rows[p]
                   \/ /\ r = flush.bearer.sub /\ p = o
                      /\ changeSeq' = changeSeq + 1
                      /\ account'[r].rows[p].seq = changeSeq + 1
<1>1. CASE \A r \in Reader : ~OfTheUser(r)
  BY <1>1 DEF Land, DeletionInv, Shapes
<1>2. CASE \E r \in Reader : OfTheUser(r)
  <2> PICK u \in Reader :
        /\ OfTheUser(u)
        /\ flush' = [flush EXCEPT !.queue = @ \ {o}, !.landed = @ \cup {o}]
        /\ IF o \in DOMAIN account[u].rows THEN UNCHANGED <<account, changeSeq>>
           ELSE /\ changeSeq' = changeSeq + 1
                /\ account' = [account EXCEPT ![u].rows =
                     [p \in DOMAIN @ \cup {o} |->
                        IF p = o THEN [seq |-> changeSeq + 1, auth |-> flush.bearer.auth]
                        ELSE @[p]]]
    BY <1>2 DEF Land
  <2>1. u = flush.bearer.sub
    BY DEF Land, DeletionInv, LetInStands, OfTheUser
  <2>2. /\ flush' = [flush EXCEPT !.queue = flush.queue \ {o}, !.landed = flush'.landed]
        /\ flush'.landed = flush.landed \cup {o}
    BY DEF DeletionInv, Shapes
  <2>3. CASE o \in DOMAIN account[u].rows BY <2>1, <2>2, <2>3
  <2>4. CASE o \notin DOMAIN account[u].rows
    <3> DEFINE more == [p \in DOMAIN account[u].rows \cup {o} |->
                  IF p = o THEN [seq |-> changeSeq + 1, auth |-> flush.bearer.auth]
                  ELSE account[u].rows[p]]
    <3>1. account' = [account EXCEPT ![u].rows = more] /\ changeSeq' = changeSeq + 1
      BY <2>4
    <3>2. DOMAIN more = DOMAIN account[u].rows \cup {o} /\ more[o].seq = changeSeq + 1
      OBVIOUS
    <3>3. \A p \in DOMAIN account[u].rows : more[p] = account[u].rows[p] BY <2>4
    <3> HIDE DEF more
    <3>4. /\ account'[u].rows = more
          /\ \A r \in Reader : r # u => account'[r] = account[r]
      BY <3>1 DEF DeletionInv, UsersApart
    <3>5. ASSUME NEW r \in Reader
          PROVE  /\ DOMAIN account[r].rows \subseteq DOMAIN account'[r].rows
                 /\ \A p \in DOMAIN account'[r].rows :
                      \/ p \in DOMAIN account[r].rows /\ account'[r].rows[p] = account[r].rows[p]
                      \/ /\ r = u /\ p = o
                         /\ account'[r].rows[p].seq = changeSeq + 1
      <4>1. CASE r = u BY <3>2, <3>3, <3>4, <4>1
      <4>2. CASE r # u BY <3>4, <4>2
      <4> QED BY <4>1, <4>2
    <3>6. o \in DOMAIN account'[u].rows
      BY <3>2, <3>4
    <3>7. changeSeq' = changeSeq + 1
      BY <3>1
    <3> QED BY <2>1, <2>2, <3>5, <3>6, <3>7
  <2> QED BY <2>3, <2>4
<1> QED BY <1>1, <1>2

\* The other steps number nothing: a row stays as it is, or goes with its account.
LEMMA OtherRows ==
  ASSUME DeletionInv, [Next]_vars, \A o \in flush.queue : ~Land(o)
  PROVE  /\ changeSeq' = changeSeq
         /\ \A r \in Reader : \A p \in DOMAIN account'[r].rows :
              p \in DOMAIN account[r].rows /\ account'[r].rows[p] = account[r].rows[p]
         /\ \A r \in Reader :
              \/ deletedAt'[r] = second
              \/ deletedAt'[r] = deletedAt[r] /\ account'[r].rows = account[r].rows
<1> USE DEF serverVars
<1>1. CASE LetIn
  <2>1. UNCHANGED <<changeSeq, deletedAt>> /\ Mint(flush.bearer.sub) BY <1>1 DEF LetIn
  <2>2. flush.bearer.sub \in Reader
    BY <1>1 DEF LetIn, DeletionInv, Shapes, MaybeToken, IsToken
  <2>3. \A r \in Reader : account'[r].rows = account[r].rows
    <3>1. CASE account' = account BY <3>1
    <3>2. CASE \E u \in Reader : account' = [account EXCEPT ![u].id = users + 1]
      <4> PICK u \in Reader : account' = [account EXCEPT ![u].id = users + 1] BY <3>2
      <4>1. account'[u] = [id |-> users + 1, rows |-> account[u].rows]
        BY DEF DeletionInv, UsersApart
      <4>2. \A r \in Reader : r # u => account'[r] = account[r]
        BY DEF DeletionInv, UsersApart
      <4> QED BY <4>1, <4>2
    <3> QED BY <2>1, <2>2, <3>1, <3>2 DEF Mint
  <2> QED BY <2>1, <2>3
<1>2. CASE DeleteMe
  <2>1. changeSeq' = changeSeq BY <1>2 DEF DeleteMe
  <2>2. CASE UNCHANGED <<account, deletedAt>> BY <2>1, <2>2
  <2>3. CASE DeleteReader(deleting.bearer.sub)
    <3> DEFINE u == deleting.bearer.sub
    <3>1. /\ \A r \in Reader : account'[r] = IF r = u THEN NoAccount ELSE account[r]
          /\ \A r \in Reader : deletedAt'[r] = IF r = u THEN second ELSE deletedAt[r]
      BY <2>3 DEF DeleteReader, DeletionInv, UsersApart
    <3> QED BY <2>1, <3>1 DEF NoAccount
  <2> QED BY <1>2, <2>2, <2>3 DEF DeleteMe
<1>3. CASE UNCHANGED serverVars BY <1>3
<1>4. LetIn \/ DeleteMe \/ UNCHANGED serverVars
  <2>1. CASE Write \/ Complete \/ SignOut \/ Tick \/ UNCHANGED vars
    BY <2>1 DEF Write, Complete, SignOut, Tick, vars
  <2>2. CASE \E r \in Reader : Begin(r) BY <2>2 DEF Begin
  <2>3. CASE FlushStep
    BY <2>3 DEF FlushStep, StartFlush, ReadCursor, Sign, SignAnew, Settle, ReadChanges,
                ApplyPage, SaveCursor, GiveUpFlush
  <2>4. CASE \E c \in Caller : RefreshStep(c)
    BY <2>4 DEF RefreshStep, Rotate, Refreshed, RefreshRefused, RefreshLost
  <2>5. CASE DeleteStep
    BY <2>5 DEF DeleteStep, StartDelete, DeleteDone, DeleteFails
  <2> QED BY <2>1, <2>2, <2>3, <2>4, <2>5 DEF Next
<1> QED BY <1>1, <1>2, <1>3, <1>4

\* The end of a page of changes is the number of a row.
LEMMA EndOfPage ==
  ASSUME DeletionInv, Counted, ReadChanges
  PROVE  flush'.since = flush.since /\ flush'.upto \in 0..changeSeq
<1> DEFINE mine == UNION {{[op |-> o, seq |-> account[r].rows[o].seq] : o \in DOMAIN account[r].rows} :
                        r \in {s \in Reader : OfTheUser(s)}}
           news == {c \in mine : c.seq > flush.since}
           S == {c.seq : c \in news}
           upto == IF news = {} THEN flush.upto
                   ELSE CHOOSE n \in S : \A c \in news : c.seq <= n
<1>1. flush' = [flush EXCEPT !.at = "got", !.page = {c.op : c \in news}, !.upto = upto]
  BY DEF ReadChanges
<1>2. flush'.since = flush.since /\ flush'.upto = upto
  <2> HIDE DEF upto, news
  <2> QED BY <1>1 DEF DeletionInv, Shapes
<1>3. \A c \in mine : c.seq \in 1..changeSeq BY DEF Counted
<1>4. CASE news = {} BY <1>2, <1>4 DEF Counted
<1>5. CASE news # {}
  <2>1. S \subseteq 0..changeSeq /\ S # {}
    <3> HIDE DEF mine
    <3> QED BY <1>3, <1>5 DEF Counted
  <2>2. \E n \in S : \A m \in S : m <= n
    <3> HIDE DEF S
    <3> QED BY <2>1, Greatest DEF Counted
  <2>3. \E n \in S : \A c \in news : c.seq <= n
    <3> HIDE DEF news
    <3> QED BY <2>2
  <2> HIDE DEF S, news
  <2>4. upto \in S BY <1>5, <2>3
  <2> QED BY <1>2, <2>1, <2>4
<1> QED BY <1>4, <1>5

\* Every place the device keeps or carries comes from one it had, or from a page.
LEMMA PlacesStep ==
  ASSUME DeletionInv, Counted, [Next]_vars
  PROVE  cursor' \in 0..changeSeq /\ flush'.since \in 0..changeSeq /\ flush'.upto \in 0..changeSeq
<1> USE DEF deviceVars
<1>1. CASE cursor' \in {cursor, 0} /\ flush' = flush BY <1>1 DEF Counted
<1>2. CASE cursor' \in {cursor, 0} /\ flush' = NoFlush BY <1>2 DEF Counted, NoFlush
<1>3. CASE Write \/ Complete \/ SignOut \/ Tick \/ UNCHANGED vars
  BY <1>1, <1>3 DEF Write, Complete, SignOut, Tick, vars, StoreToken, HandOver, ForgetTheReader
<1>4. CASE \E r \in Reader : Begin(r) BY <1>1, <1>4 DEF Begin
<1>5. CASE DeleteStep
  BY <1>1, <1>5 DEF DeleteStep, StartDelete, DeleteMe, DeleteDone, DeleteFails, ForgetTheReader
<1>6. CASE \E c \in Caller : RefreshStep(c)
  <2> PICK c \in Caller : RefreshStep(c) BY <1>6
  <2>1. cursor' \in {cursor, 0}
    BY DEF RefreshStep, Rotate, Refreshed, RefreshRefused, RefreshLost, StoreToken, HandOver,
           ForgetTheReader
  <2>2. flush' = flush \/ \E t : Resume(c, t)
    BY DEF RefreshStep, Rotate, Refreshed, RefreshRefused, RefreshLost
  <2>3. CASE \E t : flush' = [flush EXCEPT !.bearer = t, !.tries = @ + 1]
    <3>1. flush'.since = flush.since /\ flush'.upto = flush.upto
      BY <2>3 DEF DeletionInv, Shapes
    <3> QED BY <2>1, <3>1 DEF Counted
  <2> QED BY <1>1, <1>2, <2>1, <2>2, <2>3 DEF Resume
<1>7. CASE FlushStep
  <2>1. CASE ReadChanges BY <2>1, EndOfPage DEF ReadChanges, Counted
  <2>2. CASE \E o \in flush.queue : Land(o)
    <3> PICK o \in flush.queue : Land(o) BY <2>2
    <3>1. flush'.since = flush.since /\ flush'.upto = flush.upto
      BY LandRows DEF DeletionInv, Shapes
    <3>2. cursor' = cursor BY DEF Land
    <3> QED BY <3>1, <3>2 DEF Counted
  <2>3. CASE Settle \/ StartFlush
    <3>1. flush'.since = 0 /\ flush'.upto = 0 /\ cursor' = cursor
      BY <2>3 DEF Settle, StartFlush, NoFlush
    <3> QED BY <3>1 DEF Counted
  <2>4. CASE ReadCursor
    <3>1. flush'.since = cursor /\ flush'.upto = flush.upto /\ cursor' = cursor
      BY <2>4 DEF ReadCursor, DeletionInv, Shapes
    <3> QED BY <3>1 DEF Counted
  <2>5. CASE Sign \/ LetIn \/ ApplyPage
    <3>1. flush'.since = flush.since /\ flush'.upto = flush.upto /\ cursor' = cursor
      BY <2>5 DEF Sign, LetIn, ApplyPage, DeletionInv, Shapes
    <3> QED BY <3>1 DEF Counted
  <2>6. CASE SignAnew \/ GiveUpFlush BY <1>1, <1>2, <2>6 DEF SignAnew, GiveUpFlush
  <2>7. CASE SaveCursor
    <3>1. cursor' \in {flush.upto, flush.since} /\ flush' = NoFlush
      BY <2>7 DEF SaveCursor
    <3> QED BY <3>1 DEF Counted, NoFlush
  <2> QED BY <1>7, <2>1, <2>2, <2>3, <2>4, <2>5, <2>6, <2>7 DEF FlushStep
<1> QED BY <1>3, <1>4, <1>5, <1>6, <1>7 DEF Next

LEMMA SecondsPass == Counted /\ [Next]_vars => second' \in {second, second + 1}
BY DEF Next, Write, Complete, SignOut, Tick, Begin, FlushStep, StartFlush, ReadCursor, Sign,
       SignAnew, LetIn, Land, Settle, ReadChanges, ApplyPage, SaveCursor, GiveUpFlush,
       RefreshStep, Rotate, Refreshed, RefreshRefused, RefreshLost, DeleteStep, StartDelete,
       DeleteMe, DeleteDone, DeleteFails, vars

LEMMA CountedStep ==
  ASSUME DeletionInv, Counted, [Next]_vars
  PROVE  Counted'
<1>1. second' \in Nat \ {0} BY SecondsPass DEF Counted
<1>2. /\ changeSeq' \in {changeSeq, changeSeq + 1}
      /\ \A r \in Reader : deletedAt'[r] \in Nat
      /\ \A r \in Reader : \A p \in DOMAIN account'[r].rows :
           account'[r].rows[p].seq \in 1..changeSeq'
  <2>1. CASE \E o \in flush.queue : Land(o)
    <3> PICK o \in flush.queue : Land(o) BY <2>1
    <3>1. deletedAt' = deletedAt BY DEF Land
    <3>2. /\ changeSeq' \in {changeSeq, changeSeq + 1}
          /\ \A r \in Reader : \A p \in DOMAIN account'[r].rows :
               \/ p \in DOMAIN account[r].rows /\ account'[r].rows[p] = account[r].rows[p]
               \/ changeSeq' = changeSeq + 1 /\ account'[r].rows[p].seq = changeSeq + 1
      BY LandRows
    <3> QED BY <3>1, <3>2 DEF Counted
  <2>2. CASE \A o \in flush.queue : ~Land(o)
    <3>1. changeSeq' = changeSeq BY <2>2, OtherRows
    <3>2. \A r \in Reader : deletedAt'[r] \in {second, deletedAt[r]} BY <2>2, OtherRows
    <3>3. \A r \in Reader : \A p \in DOMAIN account'[r].rows :
              p \in DOMAIN account[r].rows /\ account'[r].rows[p] = account[r].rows[p]
      BY <2>2, OtherRows
    <3> QED BY <3>1, <3>2, <3>3 DEF Counted
  <2> QED BY <2>1, <2>2
<1>3. changeSeq \in Nat BY DEF Counted
<1> QED BY <1>1, <1>2, <1>3, PlacesStep DEF Counted

\* What a refresh does to the flush that waited for it.
SignsFlush(t) == flush' = [flush EXCEPT !.bearer = t, !.tries = flush'.tries]

\* A refresh gives its caller a bearer, or ends the flush, before it is let in.
LEMMA RefreshFlush ==
  ASSUME DeletionInv, NEW c \in Caller, RefreshStep(c)
  PROVE  \/ flush' = flush
         \/ flush' = NoFlush
         \/ /\ flush.at \in {"pushing", "pulling"}
            /\ SignsFlush(NoToken) \/ SignsFlush(refreshing[c].answer)
<1>1. CASE Rotate(c) BY <1>1 DEF Rotate
<1>2. CASE Refreshed(c) \/ RefreshRefused(c) \/ RefreshLost(c)
  <2>1. Waits(c) BY <1>2 DEF Refreshed, RefreshRefused, RefreshLost, Waits, NoExchange
  <2>2. PICK t : Resume(c, t) /\ (t = NoToken \/ t = refreshing[c].answer)
    BY <1>2 DEF Refreshed, RefreshRefused, RefreshLost
  <2>3. CASE flush' = [flush EXCEPT !.bearer = t, !.tries = @ + 1] /\ c = "flush"
    <3>1. flush.at \in {"pushing", "pulling"}
      BY <2>1, <2>3 DEF DeletionInv, WaitsUnsigned
    <3>2. SignsFlush(t) BY <2>3 DEF SignsFlush, DeletionInv, Shapes
    <3> QED BY <2>2, <3>1, <3>2
  <2> QED BY <2>2, <2>3 DEF Resume
<1> QED BY <1>1, <1>2 DEF RefreshStep

\* The ops counted as landed stay where they landed, or their account was deleted.
LEMMA LandedStays ==
  ASSUME DeletionInv, Counted, FlushKeeps, [Next]_vars,
         \A o \in flush.queue : ~Land(o),
         flush'.landed = flush.landed, flush'.bearer = flush.bearer \/ flush.at # "landing"
  PROVE  \A o \in flush'.landed :
           o \in DOMAIN account'[flush'.bearer.sub].rows \/ deletedAt'[flush'.bearer.sub] > 0
<1> SUFFICES ASSUME NEW o \in flush.landed
             PROVE  \/ o \in DOMAIN account'[flush'.bearer.sub].rows
                    \/ deletedAt'[flush'.bearer.sub] > 0
  OBVIOUS
<1>1. flush.at = "landing" /\ flush.bearer # NoToken BY DEF FlushKeeps
<1>2. flush.bearer.sub \in Reader BY <1>1 DEF DeletionInv, Shapes, MaybeToken, IsToken
<1>3. o \in DOMAIN account[flush.bearer.sub].rows \/ deletedAt[flush.bearer.sub] > 0
  BY DEF FlushKeeps
<1>4. \/ deletedAt'[flush.bearer.sub] = second
      \/ /\ deletedAt'[flush.bearer.sub] = deletedAt[flush.bearer.sub]
         /\ account'[flush.bearer.sub].rows = account[flush.bearer.sub].rows
  BY <1>2, OtherRows
<1>5. second > 0 BY DEF Counted
<1> QED BY <1>1, <1>3, <1>4, <1>5

LEMMA FlushKeepsStep ==
  ASSUME DeletionInv, Counted, FlushKeeps, [Next]_vars
  PROVE  FlushKeeps'
<1>1. CASE flush' = flush
  <2>1. \A o \in flush.queue : ~Land(o) \/ flush' # flush
    <3> SUFFICES ASSUME NEW o \in flush.queue, Land(o) PROVE flush' # flush OBVIOUS
    <3>1. flush' = [flush EXCEPT !.queue = flush.queue \ {o}, !.landed = flush'.landed]
      BY LandRows
    <3>2. flush'.queue = flush.queue \ {o} BY <3>1 DEF DeletionInv, Shapes
    <3> QED BY <3>2
  <2> QED BY <1>1, <2>1, LandedStays DEF FlushKeeps
<1>2. CASE flush' = NoFlush BY <1>2 DEF FlushKeeps, NoFlush
<1>3. CASE Write \/ Complete \/ SignOut \/ Tick \/ DeleteStep \/ UNCHANGED vars
  BY <1>1, <1>3 DEF Write, Complete, SignOut, Tick, vars, DeleteStep, StartDelete, DeleteMe,
                    DeleteDone, DeleteFails
<1>4. CASE \E r \in Reader : Begin(r) BY <1>1, <1>4 DEF Begin
<1>5. CASE \E c \in Caller : RefreshStep(c)
  <2> PICK c \in Caller : RefreshStep(c) BY <1>5
  <2>1. CASE flush.at \in {"pushing", "pulling"} /\ \E t : SignsFlush(t)
    <3>1. /\ flush'.at = flush.at /\ flush'.landed = flush.landed /\ flush'.upto = flush.upto
          /\ flush'.page = flush.page
      BY <2>1 DEF SignsFlush, DeletionInv, Shapes
    <3>2. flush.at \in {"pushing", "pulling"} BY <2>1
    <3> QED BY <3>1, <3>2 DEF FlushKeeps
  <2> QED BY <1>1, <1>2, <2>1, RefreshFlush
<1>6. CASE FlushStep
  <2>1. CASE StartFlush \/ Settle BY <2>1 DEF StartFlush, Settle, NoFlush, FlushKeeps
  <2>2. CASE SignAnew \/ SaveCursor \/ GiveUpFlush
    BY <1>1, <1>2, <2>2 DEF SignAnew, SaveCursor, GiveUpFlush
  <2>3. CASE ReadCursor \/ Sign
    <3>1. /\ flush'.landed = flush.landed /\ flush'.upto = flush.upto /\ flush'.page = flush.page
          /\ flush'.at \in {"pushing", "pulling"} /\ flush.at \in {"queried", "pushing", "pulling"}
      BY <2>3 DEF ReadCursor, Sign, Asking, DeletionInv, Shapes
    <3> QED BY <3>1 DEF FlushKeeps
  <2>4. CASE LetIn
    <3>1. /\ flush'.landed = flush.landed /\ flush'.upto = flush.upto /\ flush'.page = flush.page
          /\ flush'.bearer = flush.bearer
          /\ flush'.at \in {"landing", "reading"} /\ flush.at \in {"pushing", "pulling"}
          /\ flush.bearer # NoToken
      BY <2>4 DEF LetIn, Asking, DeletionInv, Shapes
    <3> QED BY <3>1 DEF FlushKeeps
  <2>5. CASE ReadChanges \/ ApplyPage
    <3>1. /\ flush'.landed = flush.landed /\ flush'.bearer = flush.bearer
          /\ flush.at \in {"reading", "got"} /\ flush'.at \in {"got", "applied"}
      BY <2>5 DEF ReadChanges, ApplyPage, DeletionInv, Shapes
    <3> QED BY <3>1 DEF FlushKeeps
  <2>6. CASE \E o \in flush.queue : Land(o)
    <3> PICK o \in flush.queue : Land(o) BY <2>6
    <3> DEFINE u == flush.bearer.sub
    <3>1. /\ flush'.upto = flush.upto /\ flush'.page = flush.page /\ flush'.bearer = flush.bearer
          /\ flush'.at = flush.at /\ flush.at = "landing"
      BY LandRows DEF Land, DeletionInv, Shapes
    <3>2. u \in Reader BY <3>1 DEF FlushKeeps, DeletionInv, Shapes, MaybeToken, IsToken
    <3>3. DOMAIN account[u].rows \subseteq DOMAIN account'[u].rows BY <3>2, LandRows
    <3>4. deletedAt' = deletedAt BY DEF Land
    <3>5. \/ flush'.landed = flush.landed
          \/ flush'.landed = flush.landed \cup {o} /\ o \in DOMAIN account'[u].rows
      BY LandRows
    <3> QED BY <3>1, <3>3, <3>4, <3>5 DEF FlushKeeps
  <2> QED BY <1>6, <2>1, <2>2, <2>3, <2>4, <2>5, <2>6 DEF FlushStep
<1> QED BY <1>3, <1>4, <1>5, <1>6 DEF Next

LEMMA HeldStep ==
  ASSUME DeletionInv, SignedInAsHolder, HeldWhileDeleting, [Next]_vars
  PROVE  HeldWhileDeleting'
<1> USE DEF HeldWhileDeleting, deviceVars
<1>1. CASE Write \/ SignOut \/ Tick \/ FlushStep \/ UNCHANGED vars
  BY <1>1 DEF Write, SignOut, Tick, vars, FlushStep, StartFlush, ReadCursor, Sign, SignAnew,
              LetIn, Land, Settle, ReadChanges, ApplyPage, SaveCursor, GiveUpFlush
<1>2. CASE Complete
  <2>1. holder' = login.sub /\ login.sub \in Reader
    BY <1>2 DEF Complete, StoreToken, HandOver, DeletionInv, Shapes
  <2> QED BY <2>1, AccountAssumption DEF AccountAssumption
<1>3. CASE \E r \in Reader : Begin(r) BY <1>3 DEF Begin
<1>4. CASE \E c \in Caller : RefreshStep(c)
  <2> PICK c \in Caller : RefreshStep(c) BY <1>4
  <2>1. CASE Rotate(c) BY <2>1 DEF Rotate
  <2>2. CASE Refreshed(c)
    <3>1. holder' \in Reader
      BY <2>2 DEF Refreshed, StoreToken, HandOver, DeletionInv, Shapes, MaybeToken, IsToken
    <3> QED BY <3>1, AccountAssumption DEF AccountAssumption
  <2>3. CASE RefreshRefused(c) \/ RefreshLost(c)
    <3>1. holder' = holder /\ (deleting' = deleting \/ deleting' = NoDelete)
      BY <2>3 DEF RefreshRefused, RefreshLost, Resume
    <3> QED BY <3>1
  <2> QED BY <2>1, <2>2, <2>3 DEF RefreshStep
<1>5. CASE DeleteStep
  <2>1. CASE StartDelete
    <3>1. token # NoToken /\ holder' = holder BY <2>1 DEF StartDelete
    <3>2. holder \in Reader
      BY <3>1 DEF SignedInAsHolder, DeletionInv, Shapes, MaybeToken, IsToken
    <3> QED BY <3>1, <3>2, AccountAssumption DEF AccountAssumption
  <2>2. CASE DeleteMe
    <3>1. holder' = holder /\ deleting # NoDelete BY <2>2 DEF DeleteMe, NoDelete
    <3> QED BY <3>1
  <2>3. CASE DeleteDone \/ DeleteFails BY <2>3 DEF DeleteDone, DeleteFails
  <2> QED BY <1>5, <2>1, <2>2, <2>3 DEF DeleteStep
<1> QED BY <1>1, <1>2, <1>3, <1>4, <1>5 DEF Next

LEMMA InitForgetInv == Init => ForgetInv
<1> SUFFICES ASSUME Init PROVE ForgetInv OBVIOUS
<1>1. SignedInAsHolder BY DEF Init, SignedInAsHolder
<1>2. Counted BY DEF Init, Counted, NoAccount, NoFlush
<1>3. FlushKeeps BY DEF Init, FlushKeeps, NoFlush
<1>4. HeldWhileDeleting BY DEF Init, HeldWhileDeleting
<1> QED BY <1>1, <1>2, <1>3, <1>4, InitDeletionInv DEF ForgetInv

LEMMA ForgetStep == ForgetInv /\ [Next]_vars => ForgetInv'
BY DeletionStep, HolderStep, CountedStep, FlushKeepsStep, HeldStep DEF ForgetInv

\* What takes an op out of the queue: the answer that it landed, or a new holder.
LEMMA Forgets ==
  ASSUME ForgetInv, [Next]_vars, NEW o \in outbox \ outbox'
  PROVE  \/ \E r \in Reader : o \in DOMAIN account[r].rows
         \/ flush.bearer # NoToken /\ deletedAt[flush.bearer.sub] > 0
         \/ holder' # holder
<1> USE DEF deviceVars
<1>1. CASE Settle
  <2>1. flush.at = "landing" /\ o \in flush.landed BY <1>1 DEF Settle
  <2>2. flush.bearer # NoToken BY <2>1 DEF ForgetInv, FlushKeeps
  <2>3. flush.bearer.sub \in Reader
    BY <2>2 DEF ForgetInv, DeletionInv, Shapes, MaybeToken, IsToken
  <2> QED BY <2>1, <2>2, <2>3 DEF ForgetInv, FlushKeeps
<1>2. CASE DeleteDone
  <2>1. deleting # NoDelete /\ holder' = Nobody BY <1>2 DEF DeleteDone, NoDelete
  <2> QED BY <2>1 DEF ForgetInv, HeldWhileDeleting
<1>3. CASE \E t : HandOver(t.sub) BY <1>3 DEF HandOver, ForgetTheReader
<1>4. CASE Write BY <1>4 DEF Write
<1>5. CASE UNCHANGED outbox BY <1>5
<1>6. Settle \/ DeleteDone \/ (\E t : HandOver(t.sub)) \/ Write \/ UNCHANGED outbox
  <2>1. CASE SignOut \/ Tick \/ UNCHANGED vars \/ \E r \in Reader : Begin(r)
    BY <2>1 DEF SignOut, Tick, vars, Begin
  <2>2. CASE Complete BY <2>2 DEF Complete, StoreToken
  <2>3. CASE FlushStep
    BY <2>3 DEF FlushStep, StartFlush, ReadCursor, Sign, SignAnew, LetIn, Land, ReadChanges,
                ApplyPage, SaveCursor, GiveUpFlush
  <2>4. CASE \E c \in Caller : RefreshStep(c)
    BY <2>4 DEF RefreshStep, Rotate, Refreshed, RefreshRefused, RefreshLost, StoreToken
  <2>5. CASE DeleteStep
    BY <2>5 DEF DeleteStep, StartDelete, DeleteMe, DeleteFails
  <2> QED BY <2>1, <2>2, <2>3, <2>4, <2>5 DEF Next
<1> QED BY <1>1, <1>2, <1>3, <1>4, <1>5, <1>6

\* Signing out forgets nothing of a reader but who they are: a write the server
\* has not got leaves the queue only with the reader, or with the account the
\* flush was carrying it to (signOut, _handOver, deleteAccount, _settle).
THEOREM SigningOutForgetsNothing == Spec => OnlyHandOverForgets
<1>1. ForgetInv /\ [Next]_vars =>
        [\A o \in outbox \ outbox' :
           \/ \E r \in Reader : o \in DOMAIN account[r].rows
           \/ flush.bearer # NoToken /\ deletedAt[flush.bearer.sub] > 0
           \/ holder' # holder]_vars
  BY Forgets
<1> QED BY <1>1, InitForgetInv, ForgetStep, PTL DEF Spec, OnlyHandOverForgets

(***************************************************************************)
(* A hand-over that meets nothing in the air is clean.                     *)
(***************************************************************************)
\* Until a hand-over meets something of the last reader's in the air, every
\* token in flight is the holder's,
TokensOfHolder ==
  /\ flush.bearer # NoToken => flush.bearer.sub = holder
  /\ \A c \in Caller :
       /\ refreshing[c].held # NoToken => refreshing[c].held.sub = holder
       /\ refreshing[c].answer # NoToken => refreshing[c].answer.sub = holder

\* everything on the device, queued, or in flight is theirs or from before them,
OpsOfHolder ==
  /\ \A o \in reading \cup outbox \cup flush.queue \cup flush.page : o.by \in {holder, Nobody}
  /\ TheirOwnAccount

\* and the place in the stream is a place in theirs: what it has passed, and what
\* the page in hand will take it past, is on the device or in the page.
UpTo == IF flush.upto = 0 THEN flush.since ELSE flush.upto

PlacesOfHolder ==
  /\ holder = Nobody => cursor = 0
  /\ flush.at \in {"pulling", "reading", "got", "applied"} => flush.since = cursor
  /\ holder # Nobody => \A o \in DOMAIN account[holder].rows :
       /\ account[holder].rows[o].seq <= cursor => o \in reading
       /\ flush.at = "got" /\ account[holder].rows[o].seq <= UpTo => o \in reading \cup flush.page
       /\ flush.at = "applied" /\ account[holder].rows[o].seq <= UpTo => o \in reading

CleanInv ==
  /\ ForgetInv
  /\ ~crossed => TokensOfHolder /\ OpsOfHolder /\ PlacesOfHolder

LEMMA InitCleanInv == Init => CleanInv
<1> SUFFICES ASSUME Init PROVE CleanInv OBVIOUS
<1>1. TokensOfHolder BY DEF Init, TokensOfHolder, NoFlush, NoExchange
<1>2. OpsOfHolder BY DEF Init, OpsOfHolder, TheirOwnAccount, NoFlush, NoAccount
<1>3. PlacesOfHolder BY DEF Init, PlacesOfHolder, NoFlush
<1> QED BY <1>1, <1>2, <1>3, InitForgetInv DEF CleanInv

LEMMA StillCrossed == [Next]_vars /\ ~crossed' => ~crossed
BY DEF Next, Write, Complete, SignOut, Tick, Begin, FlushStep, StartFlush, ReadCursor, Sign,
       SignAnew, LetIn, Land, Settle, ReadChanges, ApplyPage, SaveCursor, GiveUpFlush,
       RefreshStep, Rotate, Refreshed, RefreshRefused, RefreshLost, DeleteStep, StartDelete,
       DeleteMe, DeleteDone, DeleteFails, vars, StoreToken, HandOver

\* A new holder takes the device from nobody, or finds it emptied and idle.
LEMMA NewHolder ==
  ASSUME ForgetInv, TokensOfHolder, [Next]_vars, ~crossed', holder' # holder
  PROVE  /\ account' = account
         /\ \/ /\ holder = Nobody
               /\ UNCHANGED <<reading, outbox, cursor, flush, refreshing>>
            \/ /\ reading' = {} /\ outbox' = {} /\ cursor' = 0
               /\ flush' = NoFlush
               /\ \A c \in Caller : refreshing'[c] = NoExchange
<1> USE DEF deviceVars, serverVars
<1>1. CASE Complete
  BY <1>1 DEF Complete, StoreToken, HandOver, ForgetTheReader, InTheAir
<1>2. CASE DeleteDone BY <1>2 DEF DeleteDone, ForgetTheReader, Waits
<1>3. CASE \E c \in Caller : Refreshed(c)
  <2> PICK c \in Caller : Refreshed(c) BY <1>3
  <2>1. holder' = refreshing[c].answer.sub /\ refreshing[c].answer # NoToken
    BY DEF Refreshed, StoreToken, HandOver
  <2> QED BY <2>1 DEF TokensOfHolder
<1>4. CASE holder' = holder BY <1>4
<1>5. Complete \/ DeleteDone \/ (\E c \in Caller : Refreshed(c)) \/ holder' = holder
  <2>1. CASE Write \/ SignOut \/ Tick \/ UNCHANGED vars \/ \E r \in Reader : Begin(r)
    BY <2>1 DEF Write, SignOut, Tick, vars, Begin
  <2>2. CASE FlushStep
    BY <2>2 DEF FlushStep, StartFlush, ReadCursor, Sign, SignAnew, LetIn, Land, Settle,
                ReadChanges, ApplyPage, SaveCursor, GiveUpFlush
  <2>3. CASE \E c \in Caller : RefreshStep(c)
    BY <2>3 DEF RefreshStep, Rotate, RefreshRefused, RefreshLost
  <2>4. CASE DeleteStep
    BY <2>4 DEF DeleteStep, StartDelete, DeleteMe, DeleteFails
  <2> QED BY <2>1, <2>2, <2>3, <2>4 DEF Next
<1> QED BY <1>1, <1>2, <1>3, <1>4, <1>5

\* Where the flush's bearer comes from.
LEMMA Bearers ==
  ASSUME DeletionInv, [Next]_vars
  PROVE  \/ flush'.bearer \in {flush.bearer, NoToken, token}
         \/ \E c \in Caller : flush'.bearer = refreshing[c].answer
<1>1. CASE flush' = flush \/ flush' = NoFlush BY <1>1 DEF NoFlush
<1>2. CASE Write \/ Complete \/ SignOut \/ Tick \/ DeleteStep \/ UNCHANGED vars
  BY <1>1, <1>2 DEF Write, Complete, SignOut, Tick, vars, DeleteStep, StartDelete, DeleteMe,
                    DeleteDone, DeleteFails
<1>3. CASE \E r \in Reader : Begin(r) BY <1>1, <1>3 DEF Begin
<1>4. CASE \E c \in Caller : RefreshStep(c)
  <2> PICK c \in Caller : RefreshStep(c) BY <1>4
  <2>1. CASE SignsFlush(NoToken) \/ SignsFlush(refreshing[c].answer)
    <3>1. flush'.bearer \in {NoToken, refreshing[c].answer}
      BY <2>1 DEF SignsFlush, DeletionInv, Shapes
    <3> QED BY <3>1
  <2> QED BY <1>1, <2>1, RefreshFlush
<1>5. CASE FlushStep
  <2>1. CASE \E o \in flush.queue : Land(o)
    <3> PICK o \in flush.queue : Land(o) BY <2>1
    <3>1. flush'.bearer = flush.bearer BY DEF Land, DeletionInv, Shapes
    <3> QED BY <3>1
  <2>2. CASE StartFlush \/ Settle \/ SignAnew \/ SaveCursor \/ GiveUpFlush
    BY <1>1, <2>2 DEF StartFlush, Settle, SignAnew, SaveCursor, GiveUpFlush, NoFlush
  <2>3. CASE ReadCursor \/ Sign \/ LetIn
    BY <2>3 DEF ReadCursor, Sign, LetIn, DeletionInv, Shapes
  <2>4. CASE ReadChanges \/ ApplyPage
    BY <2>4 DEF ReadChanges, ApplyPage, DeletionInv, Shapes
  <2> QED BY <1>5, <2>1, <2>2, <2>3, <2>4 DEF FlushStep
<1> QED BY <1>2, <1>3, <1>4, <1>5 DEF Next

\* What a refresh in flight holds: the token it began with, and one minted for it.
LEMMA Exchanges ==
  ASSUME DeletionInv, [Next]_vars, NEW c \in Caller
  PROVE  \/ refreshing'[c] \in {refreshing[c], NoExchange, [held |-> token, answer |-> NoToken]}
         \/ /\ refreshing[c].held # NoToken
            /\ refreshing'[c].held = refreshing[c].held
            /\ refreshing'[c].answer.sub = refreshing[c].held.sub
<1> USE DEF deviceVars
<1>1. CASE refreshing' = refreshing BY <1>1
<1>2. CASE \E d \in Caller : EndRefresh(d) \/ StartRefresh(d)
  <2> PICK d \in Caller : EndRefresh(d) \/ StartRefresh(d) BY <1>2
  <2>1. \/ refreshing'[c] = refreshing[c]
        \/ refreshing'[c] = NoExchange
        \/ refreshing'[c] = [held |-> token, answer |-> NoToken]
    BY DEF EndRefresh, StartRefresh, DeletionInv, Shapes
  <2> QED BY <2>1
<1>3. CASE \E d \in Caller : Rotate(d)
  <2> PICK d \in Caller : Rotate(d) BY <1>3
  <2>1. CASE d = c
    <3> DEFINE fresh == [refreshing[c].held EXCEPT !.n = minted + 1]
    <3>1. refreshing[c].held \in valid /\ refreshing[c] # NoExchange /\ refreshing[c].answer = NoToken
      BY <2>1 DEF Rotate, Waits
    <3>2. IsToken(refreshing[c].held) BY <3>1 DEF DeletionInv, Shapes
    <3>3. fresh.sub = refreshing[c].held.sub BY <3>2 DEF IsToken
    <3>4. refreshing' = [refreshing EXCEPT ![c].answer = fresh] BY <2>1 DEF Rotate
    <3> HIDE DEF fresh
    <3>5. refreshing'[c] = [held |-> refreshing[c].held, answer |-> fresh]
      BY <3>4 DEF DeletionInv, Shapes
    <3>6. refreshing[c].held # NoToken
      BY <3>1 DEF DeletionInv, Shapes, NoExchange
    <3> QED BY <3>3, <3>5, <3>6
  <2>2. CASE d # c BY <2>2 DEF Rotate, DeletionInv, Shapes
  <2> QED BY <2>1, <2>2
<1>4. \/ refreshing' = refreshing
      \/ \E d \in Caller : EndRefresh(d) \/ StartRefresh(d) \/ Rotate(d)
  <2>1. CASE Write \/ Complete \/ SignOut \/ Tick \/ UNCHANGED vars \/ \E r \in Reader : Begin(r)
    BY <2>1 DEF Write, Complete, SignOut, Tick, vars, Begin
  <2>2. CASE FlushStep
    BY <2>2 DEF FlushStep, StartFlush, ReadCursor, Sign, SignAnew, LetIn, Land, Settle,
                ReadChanges, ApplyPage, SaveCursor, GiveUpFlush, Caller
  <2>3. CASE \E d \in Caller : RefreshStep(d)
    BY <2>3 DEF RefreshStep, Refreshed, RefreshRefused, RefreshLost
  <2>4. CASE DeleteStep
    BY <2>4 DEF DeleteStep, StartDelete, DeleteMe, DeleteDone, DeleteFails, Caller
  <2> QED BY <2>1, <2>2, <2>3, <2>4 DEF Next
<1> QED BY <1>1, <1>2, <1>3, <1>4

LEMMA TokensStep ==
  ASSUME ForgetInv, TokensOfHolder, [Next]_vars, ~crossed'
  PROVE  TokensOfHolder'
<1>1. CASE holder' = holder
  <2>1. token # NoToken => token.sub = holder BY DEF ForgetInv, SignedInAsHolder
  <2>2. flush'.bearer # NoToken => flush'.bearer.sub = holder
    BY <2>1, Bearers DEF TokensOfHolder, ForgetInv
  <2>3. \A c \in Caller :
          /\ refreshing'[c].held # NoToken => refreshing'[c].held.sub = holder
          /\ refreshing'[c].answer # NoToken => refreshing'[c].answer.sub = holder
    <3> SUFFICES ASSUME NEW c \in Caller
                 PROVE  /\ refreshing'[c].held # NoToken => refreshing'[c].held.sub = holder
                        /\ refreshing'[c].answer # NoToken => refreshing'[c].answer.sub = holder
      OBVIOUS
    <3>1. CASE refreshing'[c] = refreshing[c] BY <3>1 DEF TokensOfHolder
    <3>2. CASE refreshing'[c] = NoExchange BY <3>2 DEF NoExchange
    <3>3. CASE refreshing'[c] = [held |-> token, answer |-> NoToken] BY <2>1, <3>3
    <3>4. CASE /\ refreshing[c].held # NoToken
               /\ refreshing'[c].held = refreshing[c].held
               /\ refreshing'[c].answer.sub = refreshing[c].held.sub
      BY <3>4 DEF TokensOfHolder
    <3> QED BY <3>1, <3>2, <3>3, <3>4, Exchanges DEF ForgetInv
  <2> QED BY <1>1, <2>2, <2>3 DEF TokensOfHolder
<1>2. CASE holder' # holder
  <2>1. CASE flush' = flush /\ refreshing' = refreshing /\ holder = Nobody
    <3>1. flush.bearer = NoToken
      BY <2>1, AccountAssumption
         DEF AccountAssumption, TokensOfHolder, ForgetInv, DeletionInv, Shapes, MaybeToken, IsToken
    <3>2. \A c \in Caller : refreshing[c].held = NoToken /\ refreshing[c].answer = NoToken
      BY <2>1, AccountAssumption
         DEF AccountAssumption, TokensOfHolder, ForgetInv, DeletionInv, Shapes, MaybeToken, IsToken
    <3> QED BY <2>1, <3>1, <3>2 DEF TokensOfHolder
  <2>2. CASE flush' = NoFlush /\ \A c \in Caller : refreshing'[c] = NoExchange
    BY <2>2 DEF NoFlush, NoExchange, TokensOfHolder
  <2> QED BY <1>2, <2>1, <2>2, NewHolder
<1> QED BY <1>1, <1>2

\* Whose rows an account takes: those of the queue its bearer's flush carries.
LEMMA TheirRows ==
  ASSUME ForgetInv, TokensOfHolder, OpsOfHolder, [Next]_vars
  PROVE  TheirOwnAccount'
<1>1. CASE \E o \in flush.queue : Land(o)
  <2> PICK o \in flush.queue : Land(o) BY <1>1
  <2>1. o.by \in {holder, Nobody} BY DEF OpsOfHolder
  <2>2. flush.bearer.sub = holder BY DEF Land, ForgetInv, FlushKeeps, TokensOfHolder
  <2>3. \A r \in Reader : \A p \in DOMAIN account'[r].rows :
          p \in DOMAIN account[r].rows \/ (r = flush.bearer.sub /\ p = o)
    BY LandRows DEF ForgetInv
  <2> QED BY <2>1, <2>2, <2>3 DEF OpsOfHolder, TheirOwnAccount
<1>2. CASE \A o \in flush.queue : ~Land(o)
  <2>1. \A r \in Reader : \A p \in DOMAIN account'[r].rows : p \in DOMAIN account[r].rows
    BY <1>2, OtherRows DEF ForgetInv
  <2> QED BY <2>1 DEF OpsOfHolder, TheirOwnAccount
<1> QED BY <1>1, <1>2

\* A page of changes is the bearer's.
LEMMA PageOfBearer ==
  ASSUME ForgetInv, ReadChanges
  PROVE  \A o \in flush'.page : o \in DOMAIN account[flush.bearer.sub].rows
<1> DEFINE mine == UNION {{[op |-> o, seq |-> account[r].rows[o].seq] : o \in DOMAIN account[r].rows} :
                        r \in {s \in Reader : OfTheUser(s)}}
           page == {c.op : c \in {d \in mine : d.seq > flush.since}}
<1>1. \A r \in Reader : OfTheUser(r) => r = flush.bearer.sub
  BY DEF ReadChanges, ForgetInv, DeletionInv, LetInStands, OfTheUser
<1>2. \A c \in mine : c.op \in DOMAIN account[flush.bearer.sub].rows BY <1>1
<1>3. \A o \in page : o \in DOMAIN account[flush.bearer.sub].rows
  <2> HIDE DEF mine
  <2> QED BY <1>2
<1>4. \E n : flush' = [flush EXCEPT !.at = "got", !.page = page, !.upto = n]
  BY DEF ReadChanges
<1>5. flush'.page = page
  <2> HIDE DEF page
  <2> QED BY <1>4 DEF ForgetInv, DeletionInv, Shapes
<1> QED BY <1>3, <1>5

\* What comes onto the device, and into the flush, under a holder who stays.
LEMMA OpsCome ==
  ASSUME ForgetInv, [Next]_vars, holder' = holder
  PROVE  \A o \in reading' \cup outbox' \cup flush'.queue \cup flush'.page :
           \/ o \in reading \cup outbox \cup flush.queue \cup flush.page
           \/ o.by = holder
           \/ flush.bearer # NoToken /\ o \in DOMAIN account[flush.bearer.sub].rows
<1> USE DEF deviceVars
<1>2. CASE Write
  <2>1. PICK o : /\ o.by = holder
                 /\ reading' = reading \cup {o} /\ outbox' = outbox \cup {o}
    BY <1>2 DEF Write
  <2>2. flush' = flush BY <1>2 DEF Write
  <2> QED BY <2>1, <2>2
<1>3. CASE ReadChanges
  <2>1. flush.bearer # NoToken BY <1>3 DEF ReadChanges, ForgetInv, FlushKeeps
  <2>2. flush'.queue = flush.queue /\ reading' = reading /\ outbox' = outbox
    BY <1>3 DEF ReadChanges, ForgetInv, DeletionInv, Shapes
  <2> QED BY <1>3, <2>1, <2>2, PageOfBearer
<1>4. CASE flush' = flush \/ flush' = NoFlush
  <2>1. flush'.queue \subseteq flush.queue /\ flush'.page \subseteq flush.page
    BY <1>4 DEF NoFlush
  <2> DEFINE Fewer == reading' \subseteq reading /\ outbox' \subseteq outbox
  <2>2. Write \/ Fewer \/ \E c \in Caller : RefreshStep(c)
    <3>1. CASE Complete \/ SignOut \/ Tick \/ UNCHANGED vars
      BY <3>1 DEF Complete, SignOut, Tick, vars, StoreToken, HandOver, ForgetTheReader
    <3>2. CASE \E r \in Reader : Begin(r) BY <3>2 DEF Begin
    <3>3. CASE DeleteStep
      BY <3>3 DEF DeleteStep, StartDelete, DeleteMe, DeleteDone, DeleteFails, ForgetTheReader
    <3>4. CASE FlushStep
      <4>1. CASE ApplyPage
        <5>1. flush'.at = "applied" /\ flush.at = "got"
          BY <4>1 DEF ApplyPage, ForgetInv, DeletionInv, Shapes
        <5> QED BY <1>4, <5>1 DEF NoFlush
      <4> QED BY <3>4, <4>1 DEF FlushStep, StartFlush, ReadCursor, Sign, SignAnew, LetIn, Land,
                                Settle, ReadChanges, SaveCursor, GiveUpFlush
    <3> HIDE DEF Fewer
    <3> QED BY <3>1, <3>2, <3>3, <3>4 DEF Next
  <2>3. ASSUME NEW c \in Caller, RefreshStep(c)
        PROVE  reading' \subseteq reading /\ outbox' \subseteq outbox
    BY <2>3 DEF RefreshStep, Rotate, Refreshed, RefreshRefused, RefreshLost, StoreToken,
                HandOver, ForgetTheReader
  <2> QED BY <1>2, <2>1, <2>2, <2>3
<1>5. CASE \E c \in Caller : RefreshStep(c)
  <2> PICK c \in Caller : RefreshStep(c) BY <1>5
  <2>1. reading' \subseteq reading /\ outbox' \subseteq outbox
    BY DEF RefreshStep, Rotate, Refreshed, RefreshRefused, RefreshLost, StoreToken,
           HandOver, ForgetTheReader
  <2>2. CASE \E t : SignsFlush(t)
    <3>1. flush'.queue = flush.queue /\ flush'.page = flush.page
      BY <2>2 DEF SignsFlush, ForgetInv, DeletionInv, Shapes
    <3> QED BY <2>1, <3>1
  <2> QED BY <1>4, <2>2, RefreshFlush DEF ForgetInv
<1>6. CASE FlushStep
  <2>1. CASE StartFlush
    <3>1. flush'.page = {} /\ flush'.queue \subseteq outbox /\ reading' = reading /\ outbox' = outbox
      BY <2>1 DEF StartFlush, NoFlush
    <3> QED BY <3>1
  <2>2. CASE Settle
    <3>1. flush'.page = {} /\ flush'.queue = {} /\ reading' = reading /\ outbox' \subseteq outbox
      BY <2>2 DEF Settle, NoFlush
    <3> QED BY <3>1
  <2>3. CASE SignAnew \/ SaveCursor \/ GiveUpFlush
    BY <1>4, <2>3 DEF SignAnew, SaveCursor, GiveUpFlush
  <2>4. CASE ReadCursor \/ Sign \/ LetIn
    <3>1. flush'.page = flush.page /\ flush'.queue = flush.queue /\ reading' = reading /\ outbox' = outbox
      BY <2>4 DEF ReadCursor, Sign, LetIn, ForgetInv, DeletionInv, Shapes
    <3> QED BY <3>1
  <2>5. CASE ApplyPage
    <3>1. /\ flush'.page = flush.page /\ flush'.queue = flush.queue
          /\ reading' = reading \cup flush.page /\ outbox' = outbox
      BY <2>5 DEF ApplyPage, ForgetInv, DeletionInv, Shapes
    <3> QED BY <3>1
  <2>6. CASE \E o \in flush.queue : Land(o)
    <3> PICK o \in flush.queue : Land(o) BY <2>6
    <3>1. flush' = [flush EXCEPT !.queue = flush.queue \ {o}, !.landed = flush'.landed]
      BY LandRows DEF ForgetInv
    <3>2. flush'.page = flush.page /\ flush'.queue = flush.queue \ {o}
      BY <3>1 DEF ForgetInv, DeletionInv, Shapes
    <3>3. reading' = reading /\ outbox' = outbox BY DEF Land
    <3> QED BY <3>2, <3>3
  <2> QED BY <1>3, <1>6, <2>1, <2>2, <2>3, <2>4, <2>5, <2>6 DEF FlushStep
<1>7. CASE Write \/ Complete \/ SignOut \/ Tick \/ DeleteStep \/ UNCHANGED vars \/ \E r \in Reader : Begin(r)
  <2>1. flush' = flush
    BY <1>7 DEF Write, Complete, SignOut, Tick, vars, Begin, DeleteStep, StartDelete, DeleteMe,
                DeleteDone, DeleteFails
  <2> QED BY <1>4, <2>1
<1> QED BY <1>5, <1>6, <1>7 DEF Next

LEMMA OpsStep ==
  ASSUME ForgetInv, TokensOfHolder, OpsOfHolder, [Next]_vars, ~crossed'
  PROVE  OpsOfHolder'
<1>1. CASE holder' = holder
  <2>1. flush.bearer # NoToken =>
          flush.bearer.sub = holder /\ flush.bearer.sub \in Reader
    BY DEF TokensOfHolder, ForgetInv, DeletionInv, Shapes, MaybeToken, IsToken
  <2>2. flush.bearer # NoToken =>
          \A o \in DOMAIN account[flush.bearer.sub].rows : o.by \in {holder, Nobody}
    BY <2>1 DEF OpsOfHolder, TheirOwnAccount
  <2>3. \A o \in reading' \cup outbox' \cup flush'.queue \cup flush'.page : o.by \in {holder, Nobody}
    BY <1>1, <2>2, OpsCome DEF OpsOfHolder
  <2> QED BY <1>1, <2>3, TheirRows DEF OpsOfHolder
<1>2. CASE holder' # holder
  <2>1. CASE holder = Nobody /\ UNCHANGED <<reading, outbox, flush>>
    BY <2>1, TheirRows DEF OpsOfHolder
  <2>2. CASE reading' = {} /\ outbox' = {} /\ flush' = NoFlush
    BY <2>2, TheirRows DEF OpsOfHolder, NoFlush
  <2> QED BY <1>2, <2>1, <2>2, NewHolder
<1> QED BY <1>1, <1>2

\* A row that was not there before is one that lands, past every place there is.
LEMMA RowsOfHolder ==
  ASSUME ForgetInv, [Next]_vars, NEW r \in Reader
  PROVE  \A o \in DOMAIN account'[r].rows :
           \/ o \in DOMAIN account[r].rows /\ account'[r].rows[o] = account[r].rows[o]
           \/ account'[r].rows[o].seq > changeSeq /\ flush'.at = "landing"
<1>1. CASE \E o \in flush.queue : Land(o)
  <2> PICK o \in flush.queue : Land(o) BY <1>1
  <2>1. flush'.at = "landing" BY DEF Land, ForgetInv, DeletionInv, Shapes
  <2>2. changeSeq \in Nat BY DEF ForgetInv, Counted
  <2>3. \A p \in DOMAIN account'[r].rows :
          \/ p \in DOMAIN account[r].rows /\ account'[r].rows[p] = account[r].rows[p]
          \/ account'[r].rows[p].seq = changeSeq + 1
    BY LandRows DEF ForgetInv
  <2> QED BY <2>1, <2>2, <2>3
<1>2. CASE \A o \in flush.queue : ~Land(o) BY <1>2, OtherRows DEF ForgetInv
<1> QED BY <1>1, <1>2

\* Steps that move no place, or begin a pull at the one there is.
LEMMA PlacesQuiet ==
  ASSUME ForgetInv, PlacesOfHolder, [Next]_vars,
         holder' = holder, cursor' = cursor, reading \subseteq reading',
         \/ flush'.at \notin {"pulling", "reading", "got", "applied"}
         \/ flush'.at \in {"pulling", "reading"} /\ flush'.since = cursor
         \/ /\ flush'.at = flush.at /\ flush'.since = flush.since
            /\ flush'.upto = flush.upto /\ flush'.page = flush.page
  PROVE  PlacesOfHolder'
<1>1. holder = Nobody => cursor' = 0 BY DEF PlacesOfHolder
<1>2. flush'.at \in {"pulling", "reading", "got", "applied"} => flush'.since = cursor'
  BY DEF PlacesOfHolder
<1>3. ASSUME holder # Nobody, NEW o \in DOMAIN account'[holder].rows
      PROVE  /\ account'[holder].rows[o].seq <= cursor => o \in reading'
             /\ flush'.at = "got" /\ account'[holder].rows[o].seq <= UpTo' =>
                  o \in reading' \cup flush'.page
             /\ flush'.at = "applied" /\ account'[holder].rows[o].seq <= UpTo' => o \in reading'
  <2>1. holder \in Reader BY <1>3 DEF ForgetInv, HeldWhileDeleting
  <2>2. CASE o \in DOMAIN account[holder].rows /\ account'[holder].rows[o] = account[holder].rows[o]
    BY <1>3, <2>2 DEF PlacesOfHolder, UpTo
  <2>3. CASE account'[holder].rows[o].seq > changeSeq /\ flush'.at = "landing"
    <3>1. account'[holder].rows[o].seq \in Nat
      BY <1>3, <2>1, CountedStep DEF ForgetInv, Counted
    <3>2. cursor \in 0..changeSeq /\ changeSeq \in Nat BY DEF ForgetInv, Counted
    <3> QED BY <2>3, <3>1, <3>2
  <2> QED BY <1>3, <2>1, <2>2, <2>3, RowsOfHolder
<1> QED BY <1>1, <1>2, <1>3 DEF PlacesOfHolder

\* The page read is all there is past the place it was asked from.
LEMMA PageCovers ==
  ASSUME ForgetInv, ReadChanges
  PROVE  /\ flush'.since = flush.since /\ flush'.at = "got"
         /\ \A r \in Reader : \A o \in DOMAIN account[r].rows :
              OfTheUser(r) /\ account[r].rows[o].seq > flush.since => o \in flush'.page
         /\ (\A r \in Reader : ~OfTheUser(r)) => flush'.upto = 0
<1> DEFINE mine == UNION {{[op |-> o, seq |-> account[r].rows[o].seq] : o \in DOMAIN account[r].rows} :
                        r \in {s \in Reader : OfTheUser(s)}}
           news == {c \in mine : c.seq > flush.since}
           page == {c.op : c \in news}
           upto == IF news = {} THEN flush.upto
                   ELSE CHOOSE n \in {c.seq : c \in news} : \A c \in news : c.seq <= n
<1>1. flush' = [flush EXCEPT !.at = "got", !.page = page, !.upto = upto]
  BY DEF ReadChanges
<1>2. /\ flush'.page = page /\ flush'.upto = upto /\ flush'.since = flush.since
      /\ flush'.at = "got"
  <2> HIDE DEF upto, page
  <2> QED BY <1>1 DEF ForgetInv, DeletionInv, Shapes
<1>3. ASSUME NEW r \in Reader, NEW o \in DOMAIN account[r].rows,
             OfTheUser(r), account[r].rows[o].seq > flush.since
      PROVE  o \in page
  <2> DEFINE c == [op |-> o, seq |-> account[r].rows[o].seq]
  <2>1. c \in mine BY <1>3
  <2>2. c.op = o /\ c.seq = account[r].rows[o].seq OBVIOUS
  <2>3. c \in news
    <3> HIDE DEF c, mine
    <3> QED BY <1>3, <2>1, <2>2
  <2> HIDE DEF c, news
  <2> QED BY <2>2, <2>3
<1>4. ASSUME \A r \in Reader : ~OfTheUser(r) PROVE upto = 0
  <2>1. mine = {} BY <1>4
  <2>2. news = {}
    <3> HIDE DEF mine
    <3> QED BY <2>1
  <2>3. flush.upto = 0 BY DEF ReadChanges, ForgetInv, FlushKeeps
  <2> HIDE DEF news
  <2> QED BY <2>2, <2>3
<1> HIDE DEF page, upto
<1> QED BY <1>2, <1>3, <1>4

LEMMA ReadChangesPlaces ==
  ASSUME ForgetInv, TokensOfHolder, PlacesOfHolder, ReadChanges
  PROVE  PlacesOfHolder'
<1> DEFINE rows == account[holder].rows
<1>1. UNCHANGED <<holder, cursor, reading, account>> BY DEF ReadChanges, deviceVars, serverVars
<1>2. flush'.since = cursor /\ flush'.at = "got"
  BY PageCovers DEF PlacesOfHolder, ReadChanges
<1>3. holder = flush.bearer.sub /\ flush.at = "reading" /\ holder \in Reader
  BY DEF ReadChanges, ForgetInv, FlushKeeps, TokensOfHolder, DeletionInv, Shapes, MaybeToken,
         IsToken
<1>4. holder # Nobody BY <1>3, AccountAssumption DEF AccountAssumption
<1>5. ASSUME NEW o \in DOMAIN rows, rows[o].seq <= UpTo' PROVE o \in reading \cup flush'.page
  <2>1. rows[o].seq \in Nat /\ cursor \in Nat BY <1>3 DEF ForgetInv, Counted
  <2>2. rows[o].seq <= cursor => o \in reading BY <1>4 DEF PlacesOfHolder
  <2>3. CASE OfTheUser(holder)
    <3>1. rows[o].seq > flush.since => o \in flush'.page BY <1>3, <2>3, PageCovers
    <3>2. flush.since = cursor BY <1>3 DEF PlacesOfHolder
    <3> QED BY <2>1, <2>2, <3>1, <3>2
  <2>4. CASE ~OfTheUser(holder)
    <3>1. \A r \in Reader : OfTheUser(r) => r = flush.bearer.sub
      BY <1>3 DEF ForgetInv, DeletionInv, LetInStands, OfTheUser
    <3>2. flush'.upto = 0 BY <1>3, <2>4, <3>1, PageCovers
    <3> QED BY <1>2, <1>5, <2>2, <3>2 DEF UpTo
  <2> QED BY <2>3, <2>4
<1>6. \A o \in DOMAIN rows : rows[o].seq <= cursor => o \in reading
  BY <1>4 DEF PlacesOfHolder
<1> QED BY <1>1, <1>2, <1>4, <1>5, <1>6 DEF PlacesOfHolder

\* Steps of the flush, under a holder who stays.
LEMMA FlushPlaces ==
  ASSUME ForgetInv, TokensOfHolder, PlacesOfHolder, FlushStep
  PROVE  PlacesOfHolder'
<1> USE DEF deviceVars
<1>0. [Next]_vars BY DEF Next
<1>1. CASE StartFlush \/ Settle \/ GiveUpFlush
  <2>1. UNCHANGED <<holder, cursor, reading>> BY <1>1 DEF StartFlush, Settle, GiveUpFlush
  <2>2. flush'.at \in {"queried", "pushing", "idle"}
    <3>1. CASE StartFlush BY <3>1 DEF StartFlush, NoFlush
    <3>2. CASE Settle \/ GiveUpFlush BY <3>2 DEF Settle, GiveUpFlush, NoFlush
    <3> QED BY <1>1, <3>1, <3>2
  <2>3. flush'.at \notin {"pulling", "reading", "got", "applied"} BY <2>2
  <2> QED BY <1>0, <2>1, <2>3, PlacesQuiet
<1>2. CASE ReadCursor
  <2>1. UNCHANGED <<holder, cursor, reading>> BY <1>2 DEF ReadCursor
  <2>2. flush'.at = "pulling" /\ flush'.since = cursor
    BY <1>2 DEF ReadCursor, ForgetInv, DeletionInv, Shapes
  <2> QED BY <1>0, <2>1, <2>2, PlacesQuiet
<1>3. CASE Sign \/ SignAnew
  <2>1. UNCHANGED <<holder, cursor, reading>> BY <1>3 DEF Sign, SignAnew
  <2>2. /\ flush'.at = flush.at /\ flush'.since = flush.since
        /\ flush'.upto = flush.upto /\ flush'.page = flush.page
    BY <1>3 DEF Sign, SignAnew, ForgetInv, DeletionInv, Shapes
  <2> QED BY <1>0, <2>1, <2>2, PlacesQuiet
<1>4. CASE LetIn
  <2>1. UNCHANGED <<holder, cursor, reading>> BY <1>4 DEF LetIn
  <2>2. \/ flush'.at = "landing"
        \/ flush.at = "pulling" /\ flush'.at = "reading" /\ flush'.since = flush.since
    BY <1>4 DEF LetIn, Asking, ForgetInv, DeletionInv, Shapes
  <2>3. \/ flush'.at \notin {"pulling", "reading", "got", "applied"}
        \/ flush'.at \in {"pulling", "reading"} /\ flush'.since = cursor
    BY <2>2 DEF PlacesOfHolder
  <2> QED BY <1>0, <2>1, <2>3, PlacesQuiet
<1>5. CASE \E o \in flush.queue : Land(o)
  <2> PICK o \in flush.queue : Land(o) BY <1>5
  <2>1. UNCHANGED <<holder, cursor, reading>> BY DEF Land
  <2>2. flush'.at = "landing" BY DEF Land, ForgetInv, DeletionInv, Shapes
  <2>3. flush'.at \notin {"pulling", "reading", "got", "applied"} BY <2>2
  <2> QED BY <1>0, <2>1, <2>3, PlacesQuiet
<1>6. CASE ReadChanges BY <1>6, ReadChangesPlaces
<1>7. CASE ApplyPage
  <2>1. /\ UNCHANGED <<holder, cursor, account>> /\ reading' = reading \cup flush.page
        /\ flush.at = "got"
    BY <1>7 DEF ApplyPage, serverVars
  <2>2. /\ flush'.at = "applied" /\ flush'.since = flush.since
        /\ flush'.upto = flush.upto /\ flush'.page = flush.page
    BY <1>7 DEF ApplyPage, ForgetInv, DeletionInv, Shapes
  <2> QED BY <2>1, <2>2 DEF PlacesOfHolder, UpTo
<1>8. CASE SaveCursor
  <2>1. /\ UNCHANGED <<holder, reading, account>> /\ cursor' = UpTo
        /\ flush.at = "applied" /\ flush' = NoFlush
    BY <1>8 DEF SaveCursor, serverVars, UpTo
  <2>2. flush.bearer # NoToken BY <2>1 DEF ForgetInv, FlushKeeps
  <2>3. holder # Nobody
    BY <2>2, AccountAssumption
       DEF AccountAssumption, TokensOfHolder, ForgetInv, DeletionInv, Shapes, MaybeToken, IsToken
  <2> QED BY <2>1, <2>3 DEF PlacesOfHolder, NoFlush
<1> QED BY <1>1, <1>2, <1>3, <1>4, <1>5, <1>6, <1>7, <1>8 DEF FlushStep

LEMMA PlacesOfHolderStep ==
  ASSUME ForgetInv, TokensOfHolder, PlacesOfHolder, [Next]_vars, ~crossed'
  PROVE  PlacesOfHolder'
<1> USE DEF deviceVars
<1>1. CASE holder' # holder
  <2>1. holder' \in Reader \cup {Nobody} /\ Counted'
    BY HeldStep, CountedStep DEF ForgetInv, HeldWhileDeleting
  <2>2. \A o \in DOMAIN account'[holder'].rows : holder' # Nobody =>
          account'[holder'].rows[o].seq > 0
    BY <2>1 DEF Counted
  <2>3. CASE /\ holder = Nobody /\ UNCHANGED <<cursor, flush>>
    <3>1. flush.at \notin {"landing", "reading", "got", "applied"}
      BY <2>3, AccountAssumption
         DEF AccountAssumption, TokensOfHolder, ForgetInv, FlushKeeps, DeletionInv, Shapes,
             MaybeToken, IsToken
    <3>2. cursor' = 0 BY <2>3 DEF PlacesOfHolder
    <3>3. \A o \in DOMAIN account'[holder'].rows : holder' # Nobody =>
            ~(account'[holder'].rows[o].seq <= cursor')
      BY <2>1, <2>2, <3>2 DEF Counted
    <3> QED BY <2>3, <3>1, <3>2, <3>3 DEF PlacesOfHolder
  <2>4. CASE cursor' = 0 /\ flush' = NoFlush
    <3>1. \A o \in DOMAIN account'[holder'].rows : holder' # Nobody =>
            ~(account'[holder'].rows[o].seq <= cursor')
      BY <2>1, <2>2, <2>4 DEF Counted
    <3> QED BY <2>4, <3>1 DEF PlacesOfHolder, NoFlush
  <2> QED BY <1>1, <2>3, <2>4, NewHolder
<1>2. CASE holder' = holder
  <2>1. CASE FlushStep BY <2>1, FlushPlaces
  <2>2. CASE Write \/ Complete \/ SignOut \/ Tick \/ UNCHANGED vars \/ \E r \in Reader : Begin(r)
    <3>1. cursor' = cursor /\ reading \subseteq reading' /\ flush' = flush
      BY <1>2, <2>2 DEF Write, Complete, SignOut, Tick, vars, Begin, StoreToken, HandOver
    <3> QED BY <1>2, <3>1, PlacesQuiet
  <2>3. CASE DeleteStep
    <3>1. ~DeleteDone
      BY <1>2 DEF DeleteDone, NoDelete, ForgetInv, HeldWhileDeleting
    <3>2. cursor' = cursor /\ reading' = reading /\ flush' = flush
      BY <2>3, <3>1 DEF DeleteStep, StartDelete, DeleteMe, DeleteFails
    <3> QED BY <1>2, <3>2, PlacesQuiet
  <2>4. CASE \E c \in Caller : RefreshStep(c)
    <3> PICK c \in Caller : RefreshStep(c) BY <2>4
    <3>1. cursor' = cursor /\ reading' = reading
      BY <1>2 DEF RefreshStep, Rotate, Refreshed, RefreshRefused, RefreshLost, StoreToken, HandOver
    <3>2. CASE flush' = flush BY <1>2, <3>1, <3>2, PlacesQuiet
    <3>3. CASE flush' = NoFlush
      <4>1. flush'.at \notin {"pulling", "reading", "got", "applied"} BY <3>3 DEF NoFlush
      <4> QED BY <1>2, <3>1, <4>1, PlacesQuiet
    <3>4. CASE \E t : SignsFlush(t)
      <4>1. /\ flush'.at = flush.at /\ flush'.since = flush.since
            /\ flush'.upto = flush.upto /\ flush'.page = flush.page
        BY <3>4 DEF SignsFlush, ForgetInv, DeletionInv, Shapes
      <4> QED BY <1>2, <3>1, <4>1, PlacesQuiet
    <3> QED BY <3>2, <3>3, <3>4, RefreshFlush DEF ForgetInv
  <2> QED BY <2>1, <2>2, <2>3, <2>4 DEF Next
<1> QED BY <1>1, <1>2

LEMMA CleanStep == CleanInv /\ [Next]_vars => CleanInv'
<1> SUFFICES ASSUME CleanInv, [Next]_vars PROVE CleanInv' OBVIOUS
<1>1. ForgetInv' BY ForgetStep DEF CleanInv
<1>2. ASSUME ~crossed' PROVE TokensOfHolder' /\ OpsOfHolder' /\ PlacesOfHolder'
  <2>1. ForgetInv /\ TokensOfHolder /\ OpsOfHolder /\ PlacesOfHolder
    BY <1>2, StillCrossed DEF CleanInv
  <2> QED BY <1>2, <2>1, TokensStep, OpsStep, PlacesOfHolderStep
<1> QED BY <1>1, <1>2 DEF CleanInv

\* The next reader finds nothing of the last one's, on the device or in their
\* account, and misses nothing of their own, as long as no hand-over met a flush,
\* a refresh or a deletion of the last reader's in the air (_handOver,
\* deleteAccount).
THEOREM HandOverIsClean == Spec => []CleanHandOver
<1>1. CleanInv => CleanHandOver
  BY DEF CleanInv, CleanHandOver, OpsOfHolder, ShownTheirOwn, PlacesOfHolder
<1> QED BY <1>1, InitCleanInv, CleanStep, PTL DEF Spec
=============================================================================
