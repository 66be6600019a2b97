------------------------- MODULE ParticipantGateway -------------------------
\* The participant gateway's procedures as transactions of one database,
\* statement by statement, under READ COMMITTED: a statement sees what is
\* committed when it runs, locks are held to the end, an insertion waits
\* for another one under way that would break a unique constraint.  The
\* client may lose any answer and make any call again, and publishes an
\* event on the relay once its reservation was answered.
EXTENDS ParticipantTables, Sequences

CONSTANTS
  Sessions,
  Loads     \* what is tried: [calls, rows, until]

VARIABLES
  load,     \* one of Loads
  clock,
  rows,     \* what is committed
  revoked,  \* the wallets whose admission was revoked
  sess,     \* the transaction of every session
  said,     \* the latest answer, as in ParticipantLedger
  told,     \* the mirror reservations whose answer has arrived
  relay     \* the events that were published: [w, key, event]

vars == <<load, clock, rows, revoked, sess, said, told, relay>>

Idle == [call |-> None, left |-> <<>>, start |-> 0, holds |-> {}, pending |-> {}]

Init ==
  /\ load \in Loads /\ rows = load.rows /\ clock = 0 /\ revoked = {}
  /\ sess = [s \in Sessions |-> Idle] /\ said = None
  /\ told = {} /\ relay = {[w |-> r.w, key |-> r.key, event |-> r.event] : r \in {q \in load.rows : q.tab = "mirror"}}

-----
\* The procedures, as their statements.

\* Mutant of CreatePost: it counts before it locks.
CreatePost_CountFirst == <<"find", "limit", "walletLock", "admit", "reserve", "insert">>

CreatePost == <<"walletLock", "find", "admit", "limit", "reserve", "insert">>

CreateComment == <<"walletLock", "find", "admit", "source", "limit", "insert">>

\* Mutant of ReserveMirror: a retry must be as fresh as a first call.
ReserveMirror_FreshRetry == <<"admit", "lock", "inTime", "find", "fresh", "source", "insert">>

\* Mutant of ReserveMirror: it takes the wallet's lock, and after the admission.
ReserveMirror_WalletLock == <<"admit", "walletLock", "find", "fresh", "inTime", "source", "insert">>

ReserveMirror == <<"admit", "lock", "find", "fresh", "inTime", "source", "insert">>

CompleteMirror == <<"admit", "lock", "row", "update">>

BindMirror == <<"admit", "lock", "source", "find", "insert">>

ResolveMirror == <<"admit", "report">>

ReservePromotion == <<"admit", "lock", "find", "fresh", "source", "insert">>

CompletePromotion == <<"admit", "lock", "row", "update">>

ResolvePromotion == <<"admit", "report">>

ReserveSuggestion == <<"admit", "lock", "find", "fresh", "source", "insert">>

CompleteSuggestion == <<"admit", "lock", "row", "update">>

IssueChallenge == <<"admit", "source", "lock", "find", "insert">>

ConsumeChallenge == <<"lock", "row", "inTime", "update">>

StoreReceipt == <<"lock", "challenge", "source", "receiptLock", "find", "insert">>

AcceptAdoption == <<"source", "lock", "find", "fresh", "insert">>

ResolveAdoption == <<"lock", "report">>

IssueSynthetic == <<"admit", "source", "lock", "find", "insert">>

ConsumeSynthetic == <<"lock", "row", "inTime", "update">>

AcceptSynthetic == <<"source", "lock", "find", "fresh", "insert">>

ResolveSynthetic == <<"report">>

Statements ==
  [post |-> CreatePost, comment |-> CreateComment, mirror |-> ReserveMirror,
   mirrored |-> CompleteMirror, bind |-> BindMirror, look |-> ResolveMirror,
   promote |-> ReservePromotion, promoted |-> CompletePromotion, trace |-> ResolvePromotion,
   suggest |-> ReserveSuggestion, suggested |-> CompleteSuggestion,
   challenge |-> IssueChallenge, consume |-> ConsumeChallenge, store |-> StoreReceipt,
   adopt |-> AcceptAdoption, resolve |-> ResolveAdoption, testChallenge |-> IssueSynthetic,
   testConsume |-> ConsumeSynthetic, testAdopt |-> AcceptSynthetic, testResolve |-> ResolveSynthetic]
-----
\* Locks.

\* The advisory lock of a procedure: the mirror's and the binding's are one,
\* so are the challenge's and that of its receipt; an adoption's spans its
\* municipality.
Advisory(c) ==
  CASE TableOf[c.op] \in {"mirror", "binding"} -> <<"mirror", c.w, c.key>>
    [] TableOf[c.op] \in {"promotion", "challenge", "testChallenge"} -> <<TableOf[c.op], c.key>>
    [] TableOf[c.op] = "suggestion" -> <<"suggestion", c.key, c.who>>
    [] TableOf[c.op] = "receipt" -> <<"challenge", c.src>>
    [] OTHER -> <<TableOf[c.op]>>

\* The locks a statement asks for.
Wants(statement, c) ==
  CASE statement = "walletLock" -> {<<"wallet", c.w>>}
    [] statement = "lock" -> {Advisory(c)}
    [] statement = "receiptLock" -> {<<"receipt", c.key>>}
    [] statement = "admit" -> {<<"admission", c.w>>}
    [] statement = "row" -> {<<"row", r.tab, r.key, r.who>> : r \in {q \in rows : Hits(q, c)}}
    [] statement = "challenge" -> {<<"row", r.tab, r.key, r.who>> :
                                     r \in {q \in rows : q.tab = "challenge" /\ q.key = c.src}}
    [] OTHER -> {}

\* The row a statement inserts: a post's reservation is bound to its request.
NewRow(statement, c, time) ==
  CASE statement = "reserve" -> {[Row(c, time) EXCEPT !.tab = "reservation"]}
    [] statement = "insert" -> {Row(c, time)}
    [] OTHER -> {}

Before(s) == IF sess[s].left = <<>> THEN "commit" ELSE Head(sess[s].left)

\* Whom a session waits for.
WaitsFor(s) ==
  IF sess[s].call = None THEN {}
  ELSE {t \in Sessions \ {s} :
          \/ Wants(Before(s), sess[s].call) \cap sess[t].holds # {}
          \/ \E p \in sess[t].pending, q \in NewRow(Before(s), sess[s].call, sess[s].start) : Clash(p, q)}

-----
\* Statements.

At(s, statement) == sess[s].call # None /\ Before(s) = statement /\ WaitsFor(s) = {}

\* The statement is done; it wrote new.
Pass(s, new) ==
  /\ sess' = [sess EXCEPT ![s].left = Tail(@),
                          ![s].holds = @ \cup Wants(Before(s), sess[s].call),
                          ![s].pending = @ \cup new]
  /\ said' = None /\ UNCHANGED <<load, clock, rows, revoked, told, relay>>

\* It ends the transaction with an exception, ...
Raise(s) ==
  /\ sess' = [sess EXCEPT ![s] = Idle] /\ said' = <<sess[s].call, "refused">>
  /\ UNCHANGED <<load, clock, rows, revoked, told, relay>>

\* ... or with an answer, which may get lost.
Return(s, state) ==
  LET c == sess[s].call IN
  /\ sess' = [sess EXCEPT ![s] = Idle]
  /\ rows' = {r \in rows : \A p \in sess[s].pending : ~Clash(r, p)} \cup sess[s].pending
  /\ \/ said' = <<c, state>> /\ told' = IF c.op = "mirror" THEN told \cup {c} ELSE told
     \/ said' = None /\ UNCHANGED told
  /\ UNCHANGED <<load, clock, revoked, relay>>

Begin(s, c) ==
  /\ sess[s].call = None
  /\ c.op = "mirrored" => [w |-> c.w, key |-> c.key, event |-> c.event] \in relay
  /\ sess' = [sess EXCEPT ![s] = [Idle EXCEPT !.call = c, !.left = Statements[c.op], !.start = clock]]
  /\ said' = None /\ UNCHANGED <<load, clock, rows, revoked, told, relay>>

\* pg_advisory_xact_lock.
Lock(s) == (\E l \in {"walletLock", "lock", "receiptLock", "challenge"} : At(s, l)) /\ Pass(s, {})

\* A first write makes the admission; what has expired is renewed.
Admit(s) ==
  /\ At(s, "admit")
  /\ IF sess[s].call.w \in revoked THEN Raise(s) ELSE Pass(s, {})

\* A row that is there is the answer, if it is this call's.
Find(s) ==
  LET c == sess[s].call
      found == {r \in rows : Hits(r, c)} IN
  /\ At(s, "find")
  /\ \/ found = {} /\ Pass(s, {})
     \/ \E r \in found : Same(r, c) /\ Return(s, r.state)
     \/ found # {} /\ (\A r \in found : ~Same(r, c)) /\ Raise(s)

\* No other row uses what this one claims.
Fresh(s) ==
  /\ At(s, "fresh")
  /\ IF \E r \in rows : Clash(r, Row(sess[s].call, sess[s].start)) THEN Raise(s) ELSE Pass(s, {})

\* The times the caller states are in bounds, or they are not.
InTime(s) == At(s, "inTime") /\ (Raise(s) \/ Pass(s, {}))

Source(s) ==
  /\ At(s, "source")
  /\ IF Based(sess[s].call, rows) THEN Pass(s, {}) ELSE Raise(s)

\* The earlier writes that count: those younger than the window.
Limit(s) ==
  LET c == sess[s].call
      recent(window) == {r \in rows : r.op = c.op /\ r.w = c.w /\ r.tab = "audit"
                                      /\ r.stamp > sess[s].start - window} IN
  /\ At(s, "limit")
  /\ IF \E limit \in Limits[c.op] : Cardinality(recent(limit[1])) >= limit[2]
     THEN Raise(s) ELSE Pass(s, {})

\* A unique constraint raises; the post's trigger consumes the reservation.
Insert(s) ==
  /\ At(s, "reserve") \/ At(s, "insert")
  /\ LET new == NewRow(Before(s), sess[s].call, sess[s].start) IN
     IF \E r \in rows, q \in new : Clash(r, q) THEN Raise(s) ELSE Pass(s, new)

\* The row of a completion or a consumption, for update.
FindRow(s) ==
  LET c == sess[s].call
      mine == {r \in rows : Same(r, c)} IN
  /\ At(s, "row")
  /\ \/ mine = {} /\ Raise(s)
     \/ \E r \in mine :
          CASE r.state = "published" -> Return(s, r.state)
            [] r.state = "consumed" -> Raise(s)
            [] OTHER -> Pass(s, {})

Update(s) ==
  LET c == sess[s].call
      turned == IF c.op \in Completing THEN "published" ELSE "consumed" IN
  /\ At(s, "update")
  /\ \E r \in rows : Hits(r, c) /\ Pass(s, {[r EXCEPT !.state = turned]})

Report(s) ==
  LET c == sess[s].call
      found == Reported(c, rows) IN
  /\ At(s, "report")
  /\ \/ found = {} /\ Return(s, "none")
     \/ \E r \in found : IF Readable(r, c) THEN Return(s, r.state) ELSE Raise(s)

Commit(s) ==
  /\ At(s, "commit")
  /\ \E r \in sess[s].pending : r.tab = TableOf[sess[s].call.op] /\ Return(s, r.state)

\* The connection breaks before the commit.
Drop(s) ==
  /\ sess[s].call # None /\ sess' = [sess EXCEPT ![s] = Idle]
  /\ said' = None /\ UNCHANGED <<load, clock, rows, revoked, told, relay>>

-----
\* The client, an operator and time.

Publish(c) ==
  /\ relay' = relay \cup {[w |-> c.w, key |-> c.key, event |-> c.event]} /\ relay' # relay
  /\ said' = None /\ UNCHANGED <<load, clock, rows, revoked, sess, told>>

\* Revoking updates the admission's row and waits for whoever holds it.
Revoke(w) ==
  /\ w \notin revoked /\ \A s \in Sessions : <<"admission", w>> \notin sess[s].holds
  /\ revoked' = revoked \cup {w}
  /\ said' = None /\ UNCHANGED <<load, clock, rows, sess, told, relay>>

Tick ==
  /\ clock < load.until /\ clock' = clock + 1
  /\ said' = None /\ UNCHANGED <<load, rows, revoked, sess, told, relay>>

Next ==
  \/ \E s \in Sessions :
       \/ \E c \in load.calls : Begin(s, c)
       \/ Lock(s) \/ Admit(s) \/ Find(s) \/ Fresh(s) \/ InTime(s) \/ Source(s) \/ Limit(s)
       \/ Insert(s) \/ FindRow(s) \/ Update(s) \/ Report(s) \/ Commit(s) \/ Drop(s)
  \/ \E c \in told : Publish(c)
  \/ \E w \in Wallets : Revoke(w)
  \/ Tick

Spec == Init /\ [][Next]_vars
-----
\* Properties.

\* What is tried starts from tables that earlier calls may have left, makes
\* calls with procedures that exist, and None stands for no value.
ASSUME LoadsOK ==
  \A l \in Loads :
    /\ l.until \in Nat
    /\ \A c \in l.calls : c.op \in Procedures /\ c # None /\ <<c, "refused">> # None
    /\ IsFiniteSet(l.rows) /\ (\A r \in l.rows : IsRow(r) /\ r.tab # "reservation")
    /\ \A r, q \in l.rows : Clash(r, q) => r = q
    /\ \A r \in l.rows : r.op \in Builders => Based(r, l.rows)
    /\ InLimits(l.rows)

\* However transactions interleave, what the database does and answers is
\* what one call after the other would do: reservations, completions,
\* challenges and adoptions happen once, on what they build on, for wallets
\* that are not revoked, within the limits.
Ledger ==
  INSTANCE ParticipantLedger WITH
    rows <- {r \in rows : r.tab # "reservation"},
    Calls <- UNION {l.calls : l \in Loads},
    Starts <- {l.rows : l \in Loads},
    Times <- UNION {0..l.until : l \in Loads}

OneAtATime == Ledger!Spec

\* A call whose row is committed is never refused when it is made again: a
\* client that lost the answer gets it, unless its wallet was revoked.
RetriesAreAnswered ==
  [][\A c \in load.calls :
       said' = <<c, "refused">> /\ c.op \in Inserting /\ c.w \notin revoked
         => \A r \in rows : ~Same(r, c)]_vars

\* At most one event is ever published for a post, it is the one the durable
\* receipt names, and a receipt that says published tells the truth.
OneEventPerPost ==
  /\ \A e, f \in relay : e.w = f.w /\ e.key = f.key => e = f
  /\ \A e \in relay : \E r \in rows : r.tab = "mirror" /\ Agree(r, e, {"w", "key", "event"})
  /\ \A r \in rows : r.tab = "mirror" /\ r.state = "published"
       => [w |-> r.w, key |-> r.key, event |-> r.event] \in relay

\* Transactions never wait for one another in a circle.
NoWaitCycle ==
  \A S \in (SUBSET Sessions) \ {{}} : \E s \in S : WaitsFor(s) \cap S = {}
=============================================================================
