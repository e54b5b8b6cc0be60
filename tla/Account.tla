------------------------------ MODULE Account ------------------------------
(***************************************************************************)
(* Whose reading is whose: one device that several readers sign in and out *)
(* of (app/lib/data/auth.dart, with the flush of sync.dart running under   *)
(* its interceptor), and the accounts on the server, which appear when a   *)
(* token is first seen and go when their reader deletes them               *)
(* (server/internal/auth/auth.go, server/internal/store/store.go).         *)
(*                                                                         *)
(* No row on the device says whose it is: the flush carries the queue it   *)
(* read, the token its interceptor finds, and writes down what comes back, *)
(* while the reader signs out, signs in, or deletes the account.  What a   *)
(* token holds is its reader, the second it signed in (auth_time, which a  *)
(* refresh keeps) and its serial; whether it has expired is the clock's to *)
(* say, at any use.  Being killed is every GiveUpFlush, RefreshLost and    *)
(* DeleteFails at once.  Verdicts, backoff and pages are module Sync's.    *)
(***************************************************************************)
EXTENDS Integers, FiniteSets

CONSTANTS
  Reader,      \* OIDC subjects
  Nobody,      \* no reader yet: no local_reader row
  NoToken,
  MaxWrites,   \* bounds, for model checking: ops written,
  MaxSecond,   \* seconds that pass,
  MaxTokens,   \* tokens minted,
  MaxUsers     \* and users rows minted

ASSUME AccountAssumption ==
  /\ Nobody \notin Reader
  /\ MaxWrites \in Nat /\ MaxSecond \in Nat /\ MaxTokens \in Nat /\ MaxUsers \in Nat

VARIABLES
  \* the device's database
  holder,     \* local_reader.sub
  token,      \* the auth_tokens row
  reading,    \* the rows of the reader's own tables, each named by its op
  outbox,     \* the ops queued
  cursor,     \* sync_state.cursor
  \* what is in flight on the device
  login,      \* the sign-in the browser came back with, not exchanged yet
  flush,      \* syncNow's locals, and where it is
  refreshing, \* [Caller -> the exchange of a refresh token it waits for]
  deleting,   \* deleteAccount: where it is, and its bearer
  \* the issuer and the server
  second,
  valid,      \* the tokens whose refresh token the issuer still takes
  minted,     \* how many tokens it has minted
  account,    \* [Reader -> users row and, by cascade, what it owns]
  users,      \* how many users rows were ever minted
  changeSeq,
  deletedAt,  \* [Reader -> second]: deleted_readers, 0 when there is none
  \* history
  written,    \* every op queued
  crossed     \* a hand-over met something of the last reader's in the air

deviceVars == <<holder, token, reading, outbox, cursor>>
serverVars == <<account, users, changeSeq, deletedAt>>
issuerVars == <<valid, minted>>
vars == <<deviceVars, login, flush, refreshing, deleting, second, issuerVars,
          serverVars, written, crossed>>

Caller == {"flush", "delete"}
Token == [sub : Reader, auth : 1..MaxSecond, n : 1..MaxTokens]
Op == [by : Reader \cup {Nobody}, n : 1..MaxWrites]

NoAccount == [id |-> 0, rows |-> <<>>]
NoExchange == [held |-> NoToken, answer |-> NoToken]
\* tries: how often the request in hand has been sent, 2 being onError's.
NoFlush == [at |-> "idle", queue |-> {}, landed |-> {}, since |-> 0, bearer |-> NoToken,
            tries |-> 0, user |-> 0, page |-> {}, upto |-> 0]
NoLogin == [sub |-> Nobody, auth |-> 0]
NoDelete == [at |-> "idle", bearer |-> NoToken]

Init ==
  /\ holder = Nobody
  /\ token = NoToken
  /\ reading = {}
  /\ outbox = {}
  /\ cursor = 0
  /\ login = NoLogin
  /\ flush = NoFlush
  /\ refreshing = [c \in Caller |-> NoExchange]
  /\ deleting = NoDelete
  /\ second = 1
  /\ valid = {}
  /\ minted = 0
  /\ account = [r \in Reader |-> NoAccount]
  /\ users = 0
  /\ changeSeq = 0
  /\ deletedAt = [r \in Reader |-> 0]
  /\ written = {}
  /\ crossed = FALSE

(***************************************************************************)
(* The device's account (Account, _handOver, _forgetTheReader).            *)
(***************************************************************************)
InTheAir == flush # NoFlush \/ deleting # NoDelete \/ \E c \in Caller : refreshing[c] # NoExchange

\* The queue outlives the reader it belongs to.
ForgetAllButTheOutbox == reading' = {} /\ cursor' = 0 /\ UNCHANGED outbox

\* The place in the stream outlives the reader it belongs to.
ForgetAllButTheCursor == reading' = {} /\ outbox' = {} /\ UNCHANGED cursor

ForgetTheReader == reading' = {} /\ outbox' = {} /\ cursor' = 0

\* Nobody's reading goes with the first reader to sign in; another's goes.
HandOver(sub) ==
  /\ holder' = sub
  /\ IF holder \notin {Nobody, sub} THEN ForgetTheReader ELSE UNCHANGED <<reading, outbox, cursor>>
  /\ crossed' = (crossed \/ (holder \notin {Nobody, sub} /\ InTheAir))

\* Who the device belongs to is written, and then the token, and the app may
\* be killed between the two.
StoreTokenLater(t) ==
  /\ HandOver(t.sub)
  /\ token' \in {token, t}

\* _exchange's transaction: the device is handed over and the token written.
StoreToken(t) ==
  /\ HandOver(t.sub)
  /\ token' = t

\* A write, and the op that carries it, under whoever the device belongs to.
Write ==
  /\ Cardinality(written) < MaxWrites
  /\ LET o == [by |-> holder, n |-> Cardinality(written) + 1] IN
     /\ written' = written \cup {o}
     /\ reading' = reading \cup {o}
     /\ outbox' = outbox \cup {o}
  /\ UNCHANGED <<holder, token, cursor, login, flush, refreshing, deleting, second,
                 issuerVars, serverVars, crossed>>

\* The reader signs in at the issuer (prompt=login: a fresh sign-in).  One who
\* gives up and begins again drops the sign-in they had.
Begin(r) ==
  /\ token = NoToken
  /\ login' = [sub |-> r, auth |-> second]
  /\ UNCHANGED <<deviceVars, flush, refreshing, deleting, second, issuerVars,
                 serverVars, written, crossed>>

\* The code is exchanged for the token.
Complete ==
  /\ login # NoLogin
  /\ minted < MaxTokens
  /\ minted' = minted + 1
  /\ LET t == [sub |-> login.sub, auth |-> login.auth, n |-> minted + 1] IN
     /\ valid' = valid \cup {t}
     /\ StoreToken(t)
  /\ login' = NoLogin
  /\ UNCHANGED <<flush, refreshing, deleting, second, serverVars, written>>

\* Signing out takes the queue along.
SignOutAndForget ==
  /\ token # NoToken
  /\ token' = NoToken
  /\ outbox' = {}
  /\ UNCHANGED <<holder, reading, cursor, login, flush, refreshing, deleting,
                 second, issuerVars, serverVars, written, crossed>>

SignOut ==
  /\ token # NoToken
  /\ token' = NoToken
  /\ UNCHANGED <<holder, reading, outbox, cursor, login, flush, refreshing, deleting,
                 second, issuerVars, serverVars, written, crossed>>

(***************************************************************************)
(* A refresh (token, _refresh, _exchange): the issuer rotates the token it *)
(* is shown, and refuses one it has rotated before.                        *)
(***************************************************************************)
Waits(c) == refreshing[c] # NoExchange
StartRefresh(c) == refreshing' = [refreshing EXCEPT ![c] = [held |-> token, answer |-> NoToken]]
EndRefresh(c) == refreshing' = [refreshing EXCEPT ![c] = NoExchange]

Rotate(c) ==
  LET held == refreshing[c].held
      fresh == [held EXCEPT !.n = minted + 1] IN
  /\ Waits(c)
  /\ refreshing[c].answer = NoToken
  /\ held \in valid
  /\ minted < MaxTokens
  /\ minted' = minted + 1
  /\ valid' = (valid \ {held}) \cup {fresh}
  /\ refreshing' = [refreshing EXCEPT ![c].answer = fresh]
  /\ UNCHANGED <<deviceVars, login, flush, deleting, second, serverVars, written, crossed>>

\* What its caller does with token().  A flush whose first try was still to be
\* signed goes on unsigned without one; at its second, and for the deletion,
\* none is the end.
Resume(c, t) ==
  \/ /\ c = "flush"
     /\ flush' = IF t = NoToken /\ flush.tries = 1 THEN NoFlush
                 ELSE [flush EXCEPT !.bearer = t, !.tries = @ + 1]
     /\ UNCHANGED deleting
  \/ /\ c = "delete"
     /\ deleting' = IF t = NoToken THEN NoDelete ELSE [at |-> "sent", bearer |-> t]
     /\ UNCHANGED flush

Refreshed(c) ==
  LET fresh == refreshing[c].answer IN
  /\ fresh # NoToken
  /\ StoreToken(fresh)
  /\ EndRefresh(c)
  /\ Resume(c, fresh)
  /\ UNCHANGED <<login, second, issuerVars, serverVars, written>>

\* A 400 is the one answer that signs the device out, whoever it holds now.
RefreshRefused(c) ==
  /\ Waits(c)
  /\ refreshing[c].held \notin valid
  /\ refreshing[c].answer = NoToken
  /\ token' = NoToken
  /\ EndRefresh(c)
  /\ Resume(c, NoToken)
  /\ UNCHANGED <<holder, reading, outbox, cursor, login, second, issuerVars,
                 serverVars, written, crossed>>

\* No signal, or the answer lost after the issuer rotated the token.
RefreshLost(c) ==
  /\ Waits(c)
  /\ EndRefresh(c)
  /\ Resume(c, NoToken)
  /\ UNCHANGED <<deviceVars, login, second, issuerVars, serverVars, written, crossed>>

(***************************************************************************)
(* The flush, under AuthHeader.                                            *)
(***************************************************************************)
Free(c) == ~Waits(c)

\* What pending leaves out (backoff, parked, the limit) is module Sync's.
StartFlush ==
  /\ flush = NoFlush
  /\ \E q \in {{}, outbox} :
       flush' = [NoFlush EXCEPT !.at = IF q = {} THEN "queried" ELSE "pushing", !.queue = q]
  /\ UNCHANGED <<deviceVars, login, refreshing, deleting, second, issuerVars,
                 serverVars, written, crossed>>

\* _cursor, once the queue is through.
ReadCursor ==
  /\ flush.at = "queried"
  /\ flush' = [flush EXCEPT !.at = "pulling", !.since = cursor]
  /\ UNCHANGED <<deviceVars, login, refreshing, deleting, second, issuerVars,
                 serverVars, written, crossed>>

Asking(n) == flush.at \in {"pushing", "pulling"} /\ flush.tries = n /\ Free("flush")

\* onRequest: a token the server will still take, or nobody signed in.
Sign ==
  /\ Asking(0)
  /\ flush' = [flush EXCEPT !.bearer = token, !.tries = 1]
  /\ UNCHANGED <<deviceVars, login, refreshing, deleting, second, issuerVars,
                 serverVars, written, crossed>>

\* onRequest finds a spent token; or the first try was answered 401 (unsigned,
\* expired, refused) and onError asks for whatever token there is by then.
SignAnew ==
  /\ Asking(0) \/ Asking(1)
  /\ token # NoToken
  /\ StartRefresh("flush")
  /\ UNCHANGED <<deviceVars, login, flush, deleting, second, issuerVars,
                 serverVars, written, crossed>>

\* A deletion is remembered and not looked at.
AnySignIn(t) == TRUE

\* ReaderFor: a sign-in older than the deletion is refused.
SignedInSince(t) == t.auth >= deletedAt[t.sub]

\* EnsureUser: the reader's row is minted when the subject is first seen.
Mint(sub) ==
  IF account[sub].id # 0 THEN UNCHANGED <<account, users>>
  ELSE /\ users < MaxUsers
       /\ users' = users + 1
       /\ account' = [account EXCEPT ![sub].id = users + 1]

\* The middleware lets the request through, and the handler has its user.
LetIn ==
  /\ Asking(1) \/ Asking(2)
  /\ flush.bearer # NoToken
  /\ SignedInSince(flush.bearer)
  /\ Mint(flush.bearer.sub)
  /\ flush' = [flush EXCEPT !.at = IF @ = "pushing" THEN "landing" ELSE "reading",
                            !.user = account'[flush.bearer.sub].id]
  /\ UNCHANGED <<deviceVars, login, refreshing, deleting, second, issuerVars,
                 changeSeq, deletedAt, written, crossed>>

\* The op log has no foreign key: an op lands under a user who is gone.
NoForeignKey(r) == r = flush.bearer.sub
OfTheUser(r) == account[r].id = flush.user

\* One op of the batch.  op_log's foreign key refuses a user who is gone; an
\* op that is there already is a duplicate.
Land(o) ==
  /\ flush.at = "landing"
  /\ o \in flush.queue
  /\ \/ \E r \in Reader :
          /\ OfTheUser(r)
          /\ flush' = [flush EXCEPT !.queue = @ \ {o}, !.landed = @ \cup {o}]
          /\ IF o \in DOMAIN account[r].rows THEN UNCHANGED <<account, changeSeq>>
             ELSE /\ changeSeq' = changeSeq + 1
                  /\ account' = [account EXCEPT ![r].rows =
                       [p \in DOMAIN @ \cup {o} |->
                          IF p = o THEN [seq |-> changeSeq + 1, auth |-> flush.bearer.auth]
                          ELSE @[p]]]
     \/ /\ \A r \in Reader : ~OfTheUser(r)
        /\ flush' = [flush EXCEPT !.queue = @ \ {o}]
        /\ UNCHANGED <<account, changeSeq>>
  /\ UNCHANGED <<deviceVars, login, refreshing, deleting, second, issuerVars,
                 users, deletedAt, written, crossed>>

Settle ==
  /\ flush.at = "landing"
  /\ flush.queue = {}
  /\ outbox' = outbox \ flush.landed
  /\ flush' = [NoFlush EXCEPT !.at = "queried"]
  /\ UNCHANGED <<holder, token, reading, cursor, login, refreshing, deleting, second,
                 issuerVars, serverVars, written, crossed>>

ReadChanges ==
  /\ flush.at = "reading"
  /\ LET mine == UNION {{[op |-> o, seq |-> account[r].rows[o].seq] : o \in DOMAIN account[r].rows} :
                        r \in {s \in Reader : OfTheUser(s)}}
         news == {c \in mine : c.seq > flush.since} IN
     flush' = [flush EXCEPT !.at = "got",
                            !.page = {c.op : c \in news},
                            !.upto = IF news = {} THEN @
                                     ELSE CHOOSE n \in {c.seq : c \in news} :
                                            \A c \in news : c.seq <= n]
  /\ UNCHANGED <<deviceVars, login, refreshing, deleting, second, issuerVars,
                 serverVars, written, crossed>>

ApplyPage ==
  /\ flush.at = "got"
  /\ reading' = reading \cup flush.page
  /\ flush' = [flush EXCEPT !.at = "applied"]
  /\ UNCHANGED <<holder, token, outbox, cursor, login, refreshing, deleting, second,
                 issuerVars, serverVars, written, crossed>>

SaveCursor ==
  /\ flush.at = "applied"
  /\ cursor' = IF flush.upto = 0 THEN flush.since ELSE flush.upto
  /\ flush' = NoFlush
  /\ UNCHANGED <<holder, token, reading, outbox, login, refreshing, deleting, second,
                 issuerVars, serverVars, written, crossed>>

\* A 401 twice, no signal, no token to try again with.
GiveUpFlush ==
  /\ flush # NoFlush
  /\ Free("flush")
  /\ flush' = NoFlush
  /\ UNCHANGED <<deviceVars, login, refreshing, deleting, second, issuerVars,
                 serverVars, written, crossed>>

(***************************************************************************)
(* deleteAccount, and DELETE /v1/me.                                       *)
(***************************************************************************)
StartDelete ==
  /\ deleting = NoDelete
  /\ token # NoToken
  /\ \/ /\ deleting' = [at |-> "sent", bearer |-> token]
        /\ UNCHANGED refreshing
     \/ /\ deleting' = [at |-> "asked", bearer |-> NoToken]
        /\ StartRefresh("delete")
  /\ UNCHANGED <<deviceVars, login, flush, second, issuerVars, serverVars, written, crossed>>

\* The users row goes and what it owned stays: no cascade.
DeleteTheRowOnly(r) ==
  /\ account' = [account EXCEPT ![r].id = 0]
  /\ deletedAt' = [deletedAt EXCEPT ![r] = second]

\* DeleteReader: the row, everything it owns by cascade, and the moment.
DeleteReader(r) ==
  /\ account' = [account EXCEPT ![r] = NoAccount]
  /\ deletedAt' = [deletedAt EXCEPT ![r] = second]

\* Deleted; or deleted before, by a request whose answer was lost.
DeleteMe ==
  /\ deleting.at = "sent"
  /\ IF SignedInSince(deleting.bearer) THEN DeleteReader(deleting.bearer.sub)
     ELSE UNCHANGED <<account, deletedAt>>
  /\ deleting' = [deleting EXCEPT !.at = "done"]
  /\ UNCHANGED <<deviceVars, login, flush, refreshing, second, issuerVars, users,
                 changeSeq, written, crossed>>

\* The device is emptied only now, of whoever it holds now.
DeleteDone ==
  /\ deleting.at = "done"
  /\ ForgetTheReader
  /\ holder' = Nobody
  /\ token' = NoToken
  /\ deleting' = NoDelete
  /\ crossed' = (crossed \/ holder # deleting.bearer.sub \/ flush # NoFlush
                 \/ \E c \in Caller : Waits(c))
  /\ UNCHANGED <<login, flush, refreshing, second, issuerVars, serverVars, written>>

\* A 401, no signal, or the answer lost.
DeleteFails ==
  /\ deleting.at \in {"sent", "done"}
  /\ deleting' = NoDelete
  /\ UNCHANGED <<deviceVars, login, flush, refreshing, second, issuerVars,
                 serverVars, written, crossed>>

Tick ==
  /\ second < MaxSecond
  /\ second' = second + 1
  /\ UNCHANGED <<deviceVars, login, flush, refreshing, deleting, issuerVars,
                 serverVars, written, crossed>>

FlushStep ==
  \/ StartFlush \/ ReadCursor \/ Sign \/ SignAnew \/ LetIn
  \/ \E o \in flush.queue : Land(o)
  \/ Settle \/ ReadChanges \/ ApplyPage \/ SaveCursor \/ GiveUpFlush

RefreshStep(c) == Rotate(c) \/ Refreshed(c) \/ RefreshRefused(c) \/ RefreshLost(c)

DeleteStep == StartDelete \/ DeleteMe \/ DeleteDone \/ DeleteFails

Next ==
  \/ Write \/ Complete \/ SignOut \/ Tick
  \/ \E r \in Reader : Begin(r)
  \/ FlushStep
  \/ \E c \in Caller : RefreshStep(c)
  \/ DeleteStep

Spec == Init /\ [][Next]_vars
-----------------------------------------------------------------------------
(***************************************************************************)
(* Properties.                                                             *)
(***************************************************************************)
Seqs(r) == {account[r].rows[o].seq : o \in DOMAIN account[r].rows}

\* Every variable has its type; no row is held by an account that is not
\* there, and nobody's numbers are another's (users.id, change_seq).
TypeOK ==
  /\ holder \in Reader \cup {Nobody}
  /\ token \in Token \cup {NoToken}
  /\ login = NoLogin \/ (login.sub \in Reader /\ login.auth \in 1..MaxSecond)
  /\ reading \subseteq written /\ outbox \subseteq written /\ written \subseteq Op
  /\ second \in 1..MaxSecond /\ minted \in 0..MaxTokens /\ valid \subseteq Token
  /\ cursor \in 0..changeSeq
  /\ deletedAt \in [Reader -> 0..MaxSecond]
  /\ \A c \in Caller : refreshing[c].held \in Token \cup {NoToken}
  /\ flush.queue \subseteq written /\ flush.page \subseteq written
  /\ \A r \in Reader :
       /\ account[r].id \in 0..users
       /\ account[r].id = 0 => DOMAIN account[r].rows = {}
       /\ Seqs(r) \subseteq 1..changeSeq
  /\ \A r, s \in Reader : r # s =>
       Seqs(r) \cap Seqs(s) = {} /\ (account[r].id = account[s].id => account[r].id = 0)

\* A device with a token belongs to the reader the token names (_exchange: "no
\* instant in which the device has been ... signed in with somebody else's
\* reading still under it"), whatever races with the sign-in.
SignedInAsHolder == token # NoToken => token.sub = holder

\* A deleted account stays deleted until its reader signs in again: nothing is
\* in it that a sign-in from before the deletion wrote, not by a refreshed
\* token, not by a request that was past the middleware when the deletion ran
\* (lockSubject's comment, ReaderFor, op_log's foreign key).
DeletedStaysDeleted ==
  \A r \in Reader : \A o \in DOMAIN account[r].rows :
    account[r].rows[o].auth >= deletedAt[r]

\* Nothing of one reader's is in another's account, nor shown to another.
TheirOwnAccount ==
  \A r \in Reader : \A o \in DOMAIN account[r].rows : o.by \in {r, Nobody}
ShownTheirOwn ==
  holder # Nobody => \A o \in reading \cup outbox : o.by \in {holder, Nobody}

\* A hand-over that meets nothing of the last reader's in the air is clean:
\* nothing of theirs is in the next reader's account or on their screen, and
\* the next reader's stream starts where theirs does (_handOver).
CleanHandOver ==
  ~crossed =>
    /\ TheirOwnAccount
    /\ ShownTheirOwn
    /\ holder # Nobody => \A o \in DOMAIN account[holder].rows :
         account[holder].rows[o].seq <= cursor => o \in reading

\* Signing out forgets who the reader is, and only that (signOut's comment): a
\* write not yet on the server leaves the queue when it lands, when another
\* reader takes the device over, or when an account is deleted from it.
OnlyHandOverForgets ==
  [][\A o \in outbox \ outbox' :
       \/ \E r \in Reader : o \in DOMAIN account[r].rows
       \/ flush.bearer # NoToken /\ deletedAt[flush.bearer.sub] > 0
       \/ holder' # holder]_vars
=============================================================================
