-------------------- MODULE ParticipantAndTracerProofs ---------------------
\* Two components that are proved for every size of their instances.
\*
\* The participant gateway, for any sessions, wallets, limits and loads:
\* its transactions implement the ledger, a post gets one event, a
\* committed call is never refused, and transactions do not wait for one
\* another in a circle.  Waiting is settled by an order of the locks that
\* every procedure keeps.  The rest rests on one invariant: what a
\* transaction has established by a statement (that its row is not there,
\* that what it builds on is, that a limit leaves room) stays true until
\* it ends, because whoever could make it false needs a lock that it
\* holds.
\*
\* The tracer's Secrets and data plane, for any number of Secrets,
\* objects, operations, activations, processes and faults: what is left is
\* named and recoverable, workloads keep their Secrets, deletions are
\* licensed and receipts true.  It rests on one invariant as well: the
\* journal of an operation knows everything of it that lives and cannot be
\* made again, and a process has accounted for all that it is about to
\* take.
EXTENDS ParticipantGateway, TracerDataPlane, FiniteSetTheorems, TLAPS

Active(s) == sess[s].call # None

\* The statements of the procedure that a session runs, and those it has done.
Plan(s) == Statements[sess[s].call.op]
Pos(s) == Len(Plan(s)) - Len(sess[s].left)
Done(s) == {Plan(s)[i] : i \in 1..Pos(s)}

Turning == Completing \cup Consuming
Turned(op) == IF op \in Completing THEN "published" ELSE "consumed"
RowLock(r) == <<"row", r.tab, r.key, r.who>>

StatementNames ==
  {"walletLock", "find", "admit", "limit", "reserve", "insert", "source", "lock", "fresh",
   "inTime", "row", "update", "report", "challenge", "receiptLock"}

\* A transaction is a suffix of its procedure.
Transactions ==
  /\ sess = [s \in Sessions |-> sess[s]]
  /\ \A s \in Sessions :
       LET t == sess[s] IN
       /\ t = [call |-> t.call, left |-> t.left, start |-> t.start,
               holds |-> t.holds, pending |-> t.pending]
       /\ t.call = None => t = Idle
       /\ t.call # None =>
            /\ t.call \in load.calls /\ t.start \in 0..clock
            /\ t.left \in Seq(StatementNames) /\ Len(t.left) <= Len(Plan(s))
            /\ \A i \in 1..Len(t.left) : t.left[i] = Plan(s)[Pos(s) + i]

\* The order of the locks, as of the statements that ask for them.  What an
\* insertion waits for counts as one.
Level(statement) ==
  CASE statement = "walletLock" -> 1
    [] statement = "admit" -> 2
    [] statement = "lock" -> 3
    [] statement \in {"row", "challenge"} -> 4
    [] statement = "receiptLock" -> 5
    [] statement = "reserve" -> 6
    [] statement \in {"insert", "update"} -> 7
    [] OTHER -> 0

LockLevel(l) ==
  CASE l[1] = "wallet" -> 1
    [] l[1] = "admission" -> 2
    [] l[1] = "row" -> 4
    [] l[1] = "receipt" -> 5
    [] OTHER -> 3

RowLevel(p) == IF p.tab = "reservation" THEN 6 ELSE 7

\* What a session has is below all that it may still ask for, ...
Ordered ==
  \A s \in Sessions :
    \A i \in 1..Len(sess[s].left) :
      Level(sess[s].left[i]) # 0 =>
        /\ \A l \in sess[s].holds : LockLevel(l) < Level(sess[s].left[i])
        /\ \A p \in sess[s].pending : RowLevel(p) < Level(sess[s].left[i])

\* ... and nobody else has it.
Exclusive ==
  \A s, t \in Sessions :
    s # t => /\ sess[s].holds \cap sess[t].holds = {}
             /\ \A p \in sess[s].pending, q \in sess[t].pending : ~Clash(p, q)

\* What is committed.
Durable ==
  /\ load \in Loads /\ clock \in 0..load.until
  /\ IsFiniteSet(rows) /\ (\A r \in rows : IsRow(r))
  /\ \A r, q \in rows : Clash(r, q) => r = q
  /\ \A r \in rows : r.op \in Builders => Based(r, rows)
  /\ \A r \in rows : r.tab = "reservation" =>
       \E q \in rows : q.tab = "audit" /\ Agree(q, r, {"op", "w", "req"})
  /\ InLimits({r \in rows : r.tab # "reservation"})

\* What a session has established and relies on.
Established ==
  \A s \in Sessions : Active(s) =>
    LET c == sess[s].call IN
    /\ \A l \in {"walletLock", "lock", "admit"} \cap Done(s) : Wants(l, c) \subseteq sess[s].holds
    /\ "admit" \in Done(s) => c.w \notin revoked
    /\ "find" \in Done(s) => \A r \in rows : ~Same(r, c)
    /\ "source" \in Done(s) => Based(c, rows)
    /\ "limit" \in Done(s) =>
         \A limit \in Limits[c.op] :
           Cardinality({r \in rows : r.op = c.op /\ r.w = c.w /\ r.tab = "audit"
                                     /\ r.stamp > sess[s].start - limit[1]}) < limit[2]

\* The row that a completion or a consumption has locked.
Locked(s, r) ==
  /\ Same(r, sess[s].call) /\ r.state \notin {"published", "consumed"}
  /\ RowLock(r) \in sess[s].holds

\* What a session has written.
Written ==
  \A s \in Sessions : Active(s) =>
    LET c == sess[s].call IN
    /\ c.op \in Inserting =>
         /\ sess[s].pending = UNION {NewRow(l, c, sess[s].start) : l \in Done(s)}
         /\ \A p \in sess[s].pending, r \in rows : ~Clash(r, p)
    /\ c.op \in Reading => sess[s].pending = {}
    /\ c.op \in Turning =>
         IF "row" \in Done(s)
         THEN \E r \in rows :
                /\ Locked(s, r)
                /\ sess[s].pending = IF "update" \in Done(s)
                                     THEN {[r EXCEPT !.state = Turned(c.op)]} ELSE {}
         ELSE sess[s].pending = {}

\* The relay and the mirror's receipts.
Event(c) == [w |-> c.w, key |-> c.key, event |-> c.event]
Mirrors(e) == \E r \in rows : r.tab = "mirror" /\ Agree(r, e, {"w", "key", "event"})

Relayed ==
  /\ \A c \in told : Mirrors(c)
  /\ \A e \in relay : e = Event(e) /\ Mirrors(e)
  /\ \A r \in rows : r.tab = "mirror" /\ r.state = "published" => Event(r) \in relay
  /\ \A s \in Sessions : Active(s) /\ sess[s].call.op = "mirrored" => Event(sess[s].call) \in relay

IInv == Transactions /\ Ordered /\ Exclusive /\ Durable /\ Established /\ Written /\ Relayed

-----
\* The procedures: which statement comes before which.

Has(P, a) == \E i \in 1..Len(P) : P[i] = a
Precedes(P, a, b) == \A j \in 1..Len(P) : P[j] = b => \E i \in 1..(j - 1) : P[i] = a
Distinct(P) == \A i, j \in 1..Len(P) : P[i] = P[j] => i = j
Ascending(P) ==
  \A i, j \in 1..Len(P) :
    i < j /\ Level(P[i]) # 0 /\ Level(P[j]) # 0 => Level(P[i]) < Level(P[j])

\* The lock that any two calls for one row share.
GuardOf(op) == IF op \in {"post", "comment"} THEN "walletLock" ELSE "lock"

Inserts(op, P) ==
  /\ Has(P, "insert") /\ ~Has(P, "row") /\ ~Has(P, "update") /\ ~Has(P, "report")
  /\ Precedes(P, GuardOf(op), "find")
  /\ \A b \in {"insert", "reserve", "fresh", "inTime", "limit"} : Precedes(P, "find", b)
  /\ op \notin Builders => Precedes(P, "find", "source")
  /\ IF op = "post" THEN Precedes(P, "reserve", "insert") /\ ~Has(P, "source")
     ELSE ~Has(P, "reserve") /\ Precedes(P, "source", "insert")
  /\ op \in {"post", "comment"} => Precedes(P, "limit", "insert")
  /\ op \in Admitted => Precedes(P, "admit", "insert")
  /\ op \in Admitted \ {"post", "comment"} => Precedes(P, "admit", "find")

Turns(op, P) ==
  /\ Has(P, "update") /\ Precedes(P, "row", "update")
  /\ \A b \in {"find", "insert", "reserve", "report", "limit", "fresh"} : ~Has(P, b)
  /\ op \in Admitted => Precedes(P, "admit", "row")

Reads(op, P) ==
  /\ \A b \in {"find", "row", "update", "insert", "reserve", "limit", "fresh"} : ~Has(P, b)
  /\ op \in Admitted => Precedes(P, "admit", "report")

Orderly(op, P) ==
  /\ P \in Seq(StatementNames) /\ Distinct(P) /\ Ascending(P)
  /\ op \in Inserting => Inserts(op, P)
  /\ op \in Turning => Turns(op, P)
  /\ op \in Reading => Reads(op, P)
  /\ Has(P, "limit") => op \in {"post", "comment"}

LEMMA Levels ==
  /\ Level("walletLock") = 1 /\ Level("admit") = 2 /\ Level("lock") = 3 /\ Level("row") = 4
  /\ Level("challenge") = 4 /\ Level("receiptLock") = 5 /\ Level("reserve") = 6
  /\ Level("insert") = 7 /\ Level("update") = 7
  /\ \A l \in {"find", "limit", "fresh", "inTime", "source", "report"} : Level(l) = 0
BY DEF Level

LEMMA Kinds ==
  /\ Inserting = {"post", "comment", "mirror", "bind", "promote", "suggest", "challenge",
                  "store", "adopt", "testChallenge", "testAdopt"}
  /\ Turning = {"mirrored", "promoted", "suggested", "consume", "testConsume"}
  /\ Procedures = Inserting \cup Turning \cup Reading
  /\ Inserting \cap Turning = {} /\ Inserting \cap Reading = {} /\ Turning \cap Reading = {}
BY SMTT(40) DEF Procedures, TableOf, Inserting, Completing, Consuming, Reading, Turning

LEMMA Plans == \A op \in Procedures : Orderly(op, Statements[op])
<1> USE Levels, Kinds DEF Orderly, Distinct, Ascending, StatementNames, Inserts, Turns, Reads,
      Has, Precedes, GuardOf, Builders, Reading, Admitted
<1>1. Orderly("post", CreatePost) BY DEF CreatePost
<1>2. Orderly("comment", CreateComment) BY DEF CreateComment
<1>3. Orderly("mirror", ReserveMirror) BY DEF ReserveMirror
<1>4. Orderly("mirrored", CompleteMirror) BY DEF CompleteMirror
<1>5. Orderly("bind", BindMirror) BY DEF BindMirror
<1>6. Orderly("look", ResolveMirror) BY DEF ResolveMirror
<1>7. Orderly("promote", ReservePromotion) BY DEF ReservePromotion
<1>8. Orderly("promoted", CompletePromotion) BY DEF CompletePromotion
<1>9. Orderly("trace", ResolvePromotion) BY DEF ResolvePromotion
<1>10. Orderly("suggest", ReserveSuggestion) BY DEF ReserveSuggestion
<1>11. Orderly("suggested", CompleteSuggestion) BY DEF CompleteSuggestion
<1>12. Orderly("challenge", IssueChallenge) BY DEF IssueChallenge
<1>13. Orderly("consume", ConsumeChallenge) BY DEF ConsumeChallenge
<1>14. Orderly("store", StoreReceipt) BY DEF StoreReceipt
<1>15. Orderly("adopt", AcceptAdoption) BY DEF AcceptAdoption
<1>16. Orderly("resolve", ResolveAdoption) BY DEF ResolveAdoption
<1>17. Orderly("testChallenge", IssueSynthetic) BY DEF IssueSynthetic
<1>18. Orderly("testConsume", ConsumeSynthetic) BY DEF ConsumeSynthetic
<1>19. Orderly("testAdopt", AcceptSynthetic) BY DEF AcceptSynthetic
<1>20. Orderly("testResolve", ResolveSynthetic) BY DEF ResolveSynthetic
<1>21. ASSUME NEW op \in Inserting PROVE Orderly(op, Statements[op])
  <2> HIDE DEF Orderly
  <2> QED BY <1>1, <1>2, <1>3, <1>5, <1>7, <1>10, <1>12, <1>14, <1>15, <1>17, <1>19 DEF Statements
<1>22. ASSUME NEW op \in Turning \cup Reading PROVE Orderly(op, Statements[op])
  <2> HIDE DEF Orderly
  <2> QED BY <1>4, <1>6, <1>8, <1>9, <1>11, <1>13, <1>16, <1>18, <1>20 DEF Statements
<1> QED BY <1>21, <1>22, Kinds

-----
\* Where a session is.

LEMMA Position ==
  ASSUME Transactions, Durable, NEW s \in Sessions, Active(s)
  PROVE  /\ sess[s].call.op \in Procedures /\ sess[s].call \in load.calls /\ sess[s].start \in 0..clock
         /\ Orderly(sess[s].call.op, Plan(s))
         /\ Plan(s) \in Seq(StatementNames) /\ Len(Plan(s)) \in Nat
         /\ Pos(s) \in 0..Len(Plan(s))
         /\ Before(s) = IF Pos(s) < Len(Plan(s)) THEN Plan(s)[Pos(s) + 1] ELSE "commit"
         /\ Before(s) = "commit" <=> Pos(s) = Len(Plan(s))
         /\ sess[s].left \in Seq(StatementNames)
<1>1. sess[s].call \in load.calls /\ load \in Loads
  BY DEF Transactions, Durable, Active
<1>2. sess[s].call.op \in Procedures BY <1>1, LoadsOK
<1>3. Orderly(sess[s].call.op, Plan(s)) BY <1>2, Plans DEF Plan
<1>4. Plan(s) \in Seq(StatementNames) /\ Len(Plan(s)) \in Nat BY <1>3 DEF Orderly
<1>5. /\ sess[s].left \in Seq(StatementNames) /\ Len(sess[s].left) <= Len(Plan(s))
      /\ \A i \in 1..Len(sess[s].left) : sess[s].left[i] = Plan(s)[Pos(s) + i]
      /\ sess[s].start \in 0..clock
  BY DEF Transactions, Active
<1>6. Len(sess[s].left) \in Nat /\ Pos(s) \in 0..Len(Plan(s)) BY <1>4, <1>5 DEF Pos
<1>7. CASE sess[s].left = <<>>
  <2>1. Before(s) = "commit" /\ Pos(s) = Len(Plan(s)) BY <1>7, <1>4 DEF Before, Pos
  <2> QED BY <2>1, <1>1, <1>2, <1>3, <1>4, <1>5, <1>6
<1>8. CASE sess[s].left # <<>>
  <2>1. Len(sess[s].left) > 0 /\ Head(sess[s].left) = sess[s].left[1] BY <1>5, <1>8
  <2>2. Pos(s) < Len(Plan(s)) /\ 1 \in 1..Len(sess[s].left)
    BY <2>1, <1>4, <1>6 DEF Pos
  <2>20. Before(s) = Plan(s)[Pos(s) + 1] BY <1>8, <2>1, <2>2, <1>5 DEF Before
  <2>3. Before(s) \in StatementNames BY <2>2, <2>20, <1>4, <1>6
  <2>4. Before(s) # "commit" BY <2>3 DEF StatementNames
  <2> QED BY <2>2, <2>20, <2>4, <1>1, <1>2, <1>3, <1>4, <1>5, <1>6
<1> QED BY <1>7, <1>8

\* What comes before what is done or is next, is done.
LEMMA Earlier ==
  ASSUME Transactions, Durable, NEW s \in Sessions, Active(s), NEW a, NEW b,
         Precedes(Plan(s), a, b), b # "commit", b \in Done(s) \/ Before(s) = b
  PROVE  a \in Done(s)
<1> USE Position
<1>1. PICK j \in 1..Len(Plan(s)) : Plan(s)[j] = b /\ j <= Pos(s) + 1
  <2>1. CASE b \in Done(s) BY <2>1 DEF Done
  <2>2. CASE Before(s) = b BY <2>2
  <2> QED BY <2>1, <2>2
<1>2. PICK i \in 1..(j - 1) : Plan(s)[i] = a BY <1>1 DEF Precedes
<1> QED BY <1>1, <1>2 DEF Done

LEMMA Upcoming ==
  ASSUME Transactions, Durable, NEW s \in Sessions, Active(s)
  PROVE  /\ Before(s) # "commit" => /\ Before(s) \notin Done(s) /\ Has(Plan(s), Before(s))
                                   /\ Before(s) \in StatementNames
         /\ \A a \in Done(s) : Has(Plan(s), a) /\ a \in StatementNames
         /\ Before(s) = "commit" => \A a : Has(Plan(s), a) => a \in Done(s)
<1> USE Position
<1>1. ASSUME Before(s) # "commit"
      PROVE  Before(s) \notin Done(s) /\ Has(Plan(s), Before(s)) /\ Before(s) \in StatementNames
  <2>1. Pos(s) + 1 \in 1..Len(Plan(s)) /\ Before(s) = Plan(s)[Pos(s) + 1] BY <1>1
  <2>2. Distinct(Plan(s)) BY DEF Orderly
  <2>3. ASSUME Before(s) \in Done(s) PROVE FALSE
    <3>1. PICK i \in 1..Pos(s) : Plan(s)[i] = Before(s) BY <2>3 DEF Done
    <3>2. i \in 1..Len(Plan(s)) OBVIOUS
    <3>3. i = Pos(s) + 1 BY <2>1, <2>2, <3>1, <3>2 DEF Distinct
    <3> QED BY <3>3
  <2> QED BY <2>1, <2>3 DEF Has
<1>2. ASSUME NEW a \in Done(s) PROVE Has(Plan(s), a) /\ a \in StatementNames
  <2>1. PICK i \in 1..Pos(s) : Plan(s)[i] = a BY DEF Done
  <2>2. i \in 1..Len(Plan(s)) OBVIOUS
  <2> QED BY <2>1, <2>2 DEF Has
<1>3. ASSUME Before(s) = "commit", NEW a, Has(Plan(s), a) PROVE a \in Done(s)
  BY <1>3 DEF Has, Done
<1> QED BY <1>1, <1>2, <1>3

-----
\* What a step does to the transactions.

LEMMA Change ==
  ASSUME NEW t, NEW left, NEW holds, NEW pending,
         t = [call |-> t.call, left |-> t.left, start |-> t.start, holds |-> t.holds, pending |-> t.pending]
  PROVE  [t EXCEPT !.left = left, !.holds = holds, !.pending = pending]
           = [call |-> t.call, left |-> left, start |-> t.start, holds |-> holds, pending |-> pending]
<1>1. DOMAIN t = {"call", "left", "start", "holds", "pending"} OBVIOUS
<1> DEFINE e == [t EXCEPT !.left = left, !.holds = holds, !.pending = pending]
           f == [call |-> t.call, left |-> left, start |-> t.start, holds |-> holds, pending |-> pending]
<1>2. e = [x \in DOMAIN t |-> e[x]] /\ f = [x \in DOMAIN t |-> f[x]] BY <1>1
<1>3. e.call = f.call /\ e.left = f.left /\ e.start = f.start /\ e.holds = f.holds /\ e.pending = f.pending
  BY <1>1
<1>4. \A x \in DOMAIN t : e[x] = f[x] BY <1>1, <1>3
<1> QED BY <1>2, <1>4

\* The statement is done.
LEMMA PassEffect ==
  ASSUME Transactions, Durable, NEW s \in Sessions, Active(s), Before(s) # "commit", NEW new, Pass(s, new)
  PROVE  /\ \A t \in Sessions \ {s} : sess'[t] = sess[t]
         /\ sess'[s].call = sess[s].call /\ sess'[s].start = sess[s].start
         /\ sess'[s].left = Tail(sess[s].left)
         /\ sess'[s].holds = sess[s].holds \cup Wants(Before(s), sess[s].call)
         /\ sess'[s].pending = sess[s].pending \cup new
         /\ \A t \in Sessions : Active(t)' <=> Active(t)
         /\ \A t \in Sessions \ {s} : Done(t)' = Done(t)
         /\ Done(s)' = Done(s) \cup {Before(s)}
         /\ Transactions'
<1>1. /\ sess = [t \in Sessions |-> sess[t]]
      /\ \A t \in Sessions : sess[t] = [call |-> sess[t].call, left |-> sess[t].left, start |-> sess[t].start,
                                       holds |-> sess[t].holds, pending |-> sess[t].pending]
  BY DEF Transactions
<1>2. /\ \A t \in Sessions \ {s} : sess'[t] = sess[t]
      /\ sess' = [t \in Sessions |-> sess'[t]]
  BY <1>1 DEF Pass
<1>3. sess'[s] = [call |-> sess[s].call, left |-> Tail(sess[s].left), start |-> sess[s].start,
                  holds |-> sess[s].holds \cup Wants(Before(s), sess[s].call),
                  pending |-> sess[s].pending \cup new]
  <2>1. sess'[s] = [sess[s] EXCEPT !.left = Tail(sess[s].left),
                                   !.holds = sess[s].holds \cup Wants(Before(s), sess[s].call),
                                   !.pending = sess[s].pending \cup new]
    BY <1>1 DEF Pass
  <2> QED BY <2>1, <1>1, Change
<1>4. \A t \in Sessions : sess'[t].call = sess[t].call BY <1>2, <1>3
<1>5. /\ sess[s].left \in Seq(StatementNames) /\ sess[s].left # <<>>
      /\ Len(sess[s].left) \in Nat /\ Len(sess[s].left) > 0
  <2>1. sess[s].left \in Seq(StatementNames) BY Position
  <2> QED BY <2>1 DEF Before
<1>6. /\ Tail(sess[s].left) \in Seq(StatementNames) /\ Len(Tail(sess[s].left)) = Len(sess[s].left) - 1
      /\ \A i \in 1..Len(Tail(sess[s].left)) : Tail(sess[s].left)[i] = sess[s].left[i + 1]
  BY <1>5
<1>7. /\ \A t \in Sessions : Plan(t)' = Plan(t)
      /\ \A t \in Sessions \ {s} : Pos(t)' = Pos(t)
      /\ Pos(s)' = Pos(s) + 1
  <2>1. \A t \in Sessions : Plan(t)' = Plan(t) BY <1>4 DEF Plan
  <2>2. \A t \in Sessions \ {s} : Pos(t)' = Pos(t) BY <1>2, <2>1 DEF Pos
  <2>3. Pos(s)' = Pos(s) + 1
    <3>1. Len(Plan(s)) \in Nat BY Position
    <3>2. Len(sess'[s].left) = Len(sess[s].left) - 1 BY <1>3, <1>6
    <3> QED BY <3>1, <3>2, <1>5, <2>1 DEF Pos
  <2> QED BY <2>1, <2>2, <2>3
<1>8. \A t \in Sessions \ {s} : Done(t)' = Done(t) BY <1>7 DEF Done
<1>9. Done(s)' = Done(s) \cup {Before(s)}
  <2>1. Done(s)' = {Plan(s)[i] : i \in 1..(Pos(s) + 1)} BY <1>7 DEF Done
  <2>2. Pos(s) \in Nat /\ Before(s) = Plan(s)[Pos(s) + 1] BY Position
  <2>3. 1..(Pos(s) + 1) = 1..Pos(s) \cup {Pos(s) + 1} BY <2>2
  <2> QED BY <2>1, <2>2, <2>3 DEF Done
<1>10. load' = load /\ clock' = clock BY DEF Pass
<1>11. Transactions'
  <2> SUFFICES ASSUME NEW t \in Sessions
               PROVE  /\ sess'[t] = [call |-> sess'[t].call, left |-> sess'[t].left, start |-> sess'[t].start,
                                     holds |-> sess'[t].holds, pending |-> sess'[t].pending]
                      /\ sess'[t].call = None => sess'[t] = Idle
                      /\ sess'[t].call # None =>
                           /\ sess'[t].call \in load'.calls /\ sess'[t].start \in 0..clock'
                           /\ sess'[t].left \in Seq(StatementNames) /\ Len(sess'[t].left) <= Len(Plan(t)')
                           /\ \A i \in 1..Len(sess'[t].left) : sess'[t].left[i] = Plan(t)'[Pos(t)' + i]
    BY <1>2 DEF Transactions
  <2>1. CASE t # s BY <2>1, <1>2, <1>7, <1>10 DEF Transactions
  <2>2. CASE t = s
    <3>1. /\ sess[s].call \in load.calls /\ sess[s].start \in 0..clock /\ sess[s].call # None
          /\ Len(sess[s].left) <= Len(Plan(s)) /\ Len(Plan(s)) \in Nat
          /\ \A i \in 1..Len(sess[s].left) : sess[s].left[i] = Plan(s)[Pos(s) + i]
      BY Position DEF Transactions, Active
    <3>2. \A i \in 1..Len(sess'[s].left) : sess'[s].left[i] = Plan(s)'[Pos(s)' + i]
      <4> SUFFICES ASSUME NEW i \in 1..Len(sess'[s].left)
                   PROVE  sess'[s].left[i] = Plan(s)'[Pos(s)' + i]
        OBVIOUS
      <4>1. i + 1 \in 1..Len(sess[s].left) /\ sess'[s].left[i] = sess[s].left[i + 1]
        BY <1>3, <1>5, <1>6
      <4>2. Pos(s) \in Nat /\ Pos(s)' + i = Pos(s) + (i + 1)
        BY <1>7, <1>3, <1>5, <1>6, Position
      <4> QED BY <4>1, <4>2, <3>1, <1>7
    <3> QED BY <2>2, <3>1, <3>2, <1>3, <1>5, <1>6, <1>7, <1>10
  <2> QED BY <2>1, <2>2
<1> QED BY <1>2, <1>3, <1>4, <1>8, <1>9, <1>11 DEF Active

\* The transaction ends.
Ends(s) == sess' = [sess EXCEPT ![s] = Idle] /\ UNCHANGED <<load, clock>>

LEMMA EndEffect ==
  ASSUME Transactions, NEW s \in Sessions, Ends(s)
  PROVE  /\ sess'[s] = Idle /\ ~Active(s)'
         /\ \A t \in Sessions \ {s} : sess'[t] = sess[t] /\ (Active(t)' <=> Active(t)) /\ Done(t)' = Done(t)
         /\ Transactions'
<1>1. sess' = [t \in Sessions |-> IF t = s THEN Idle ELSE sess[t]]
  BY DEF Ends, Transactions
<1>2. sess'[s] = Idle /\ (\A t \in Sessions \ {s} : sess'[t] = sess[t]) BY <1>1
<1>3. \A t \in Sessions \ {s} : Plan(t)' = Plan(t) /\ Pos(t)' = Pos(t) /\ Done(t)' = Done(t)
  BY <1>2 DEF Plan, Pos, Done
<1>4. load' = load /\ clock' = clock BY DEF Ends
<1>5. Transactions'
  <2> SUFFICES ASSUME NEW t \in Sessions
               PROVE  /\ sess'[t] = [call |-> sess'[t].call, left |-> sess'[t].left, start |-> sess'[t].start,
                                     holds |-> sess'[t].holds, pending |-> sess'[t].pending]
                      /\ sess'[t].call = None => sess'[t] = Idle
                      /\ sess'[t].call # None =>
                           /\ sess'[t].call \in load'.calls /\ sess'[t].start \in 0..clock'
                           /\ sess'[t].left \in Seq(StatementNames) /\ Len(sess'[t].left) <= Len(Plan(t)')
                           /\ \A i \in 1..Len(sess'[t].left) : sess'[t].left[i] = Plan(t)'[Pos(t)' + i]
    BY <1>1 DEF Transactions
  <2>1. CASE t # s BY <2>1, <1>2, <1>3, <1>4 DEF Transactions
  <2>2. CASE t = s BY <2>2, <1>2 DEF Idle
  <2> QED BY <2>1, <2>2
<1> QED BY <1>2, <1>3, <1>5 DEF Active, Idle

\* A call begins.
LEMMA BeginEffect ==
  ASSUME Transactions, Durable, NEW s \in Sessions, NEW c \in load.calls, Begin(s, c)
  PROVE  /\ sess'[s] = [call |-> c, left |-> Statements[c.op], start |-> clock, holds |-> {}, pending |-> {}]
         /\ \A t \in Sessions \ {s} : sess'[t] = sess[t] /\ (Active(t)' <=> Active(t)) /\ Done(t)' = Done(t)
         /\ Done(s)' = {} /\ Transactions'
<1>0. [Idle EXCEPT !.call = c, !.left = Statements[c.op], !.start = clock]
        = [call |-> c, left |-> Statements[c.op], start |-> clock, holds |-> {}, pending |-> {}]
  <2> DEFINE e == [Idle EXCEPT !.call = c, !.left = Statements[c.op], !.start = clock]
             f == [call |-> c, left |-> Statements[c.op], start |-> clock, holds |-> {}, pending |-> {}]
  <2>1. DOMAIN Idle = {"call", "left", "start", "holds", "pending"} /\ Idle.holds = {} /\ Idle.pending = {}
    BY DEF Idle
  <2>2. e = [x \in DOMAIN Idle |-> e[x]] /\ f = [x \in DOMAIN Idle |-> f[x]] BY <2>1
  <2>3. e.call = c /\ e.left = Statements[c.op] /\ e.start = clock /\ e.holds = {} /\ e.pending = {}
    BY <2>1
  <2>4. f.call = c /\ f.left = Statements[c.op] /\ f.start = clock /\ f.holds = {} /\ f.pending = {}
    OBVIOUS
  <2> HIDE DEF e, f
  <2>5. \A x \in DOMAIN Idle : e[x] = f[x] BY <2>1, <2>3, <2>4
  <2> QED BY <2>2, <2>5 DEF e, f
<1>1. sess' = [t \in Sessions |-> IF t = s THEN [call |-> c, left |-> Statements[c.op], start |-> clock,
                                                holds |-> {}, pending |-> {}] ELSE sess[t]]
  <2>1. sess' = [sess EXCEPT ![s] = [call |-> c, left |-> Statements[c.op], start |-> clock,
                                     holds |-> {}, pending |-> {}]]
    BY <1>0 DEF Begin
  <2> QED BY <2>1 DEF Transactions
<1>2. /\ sess'[s] = [call |-> c, left |-> Statements[c.op], start |-> clock, holds |-> {}, pending |-> {}]
      /\ \A t \in Sessions \ {s} : sess'[t] = sess[t]
  BY <1>1
<1>3. \A t \in Sessions \ {s} : Plan(t)' = Plan(t) /\ Pos(t)' = Pos(t) /\ Done(t)' = Done(t)
  BY <1>2 DEF Plan, Pos, Done
<1>4. load' = load /\ clock' = clock BY DEF Begin
<1>5. c.op \in Procedures /\ c # None /\ clock \in Nat BY LoadsOK DEF Durable
<1>6. Statements[c.op] \in Seq(StatementNames) /\ Len(Statements[c.op]) \in Nat
  BY <1>5, Plans DEF Orderly
<1>7. Plan(s)' = Statements[c.op] /\ Pos(s)' = 0 BY <1>2, <1>6 DEF Plan, Pos
<1>8. Done(s)' = {} BY <1>7 DEF Done
<1>9. Transactions'
  <2> SUFFICES ASSUME NEW t \in Sessions
               PROVE  /\ sess'[t] = [call |-> sess'[t].call, left |-> sess'[t].left, start |-> sess'[t].start,
                                     holds |-> sess'[t].holds, pending |-> sess'[t].pending]
                      /\ sess'[t].call = None => sess'[t] = Idle
                      /\ sess'[t].call # None =>
                           /\ sess'[t].call \in load'.calls /\ sess'[t].start \in 0..clock'
                           /\ sess'[t].left \in Seq(StatementNames) /\ Len(sess'[t].left) <= Len(Plan(t)')
                           /\ \A i \in 1..Len(sess'[t].left) : sess'[t].left[i] = Plan(t)'[Pos(t)' + i]
    BY <1>1 DEF Transactions
  <2>1. CASE t # s BY <2>1, <1>2, <1>3, <1>4 DEF Transactions
  <2>2. CASE t = s BY <2>2, <1>2, <1>4, <1>5, <1>6, <1>7
  <2> QED BY <2>1, <2>2
<1> QED BY <1>2, <1>3, <1>8, <1>9 DEF Active

-----
\* The steps of a session: it passes a statement, is refused, is answered,
\* or loses its connection.

Recent(s, window) ==
  {r \in rows : r.op = sess[s].call.op /\ r.w = sess[s].call.w /\ r.tab = "audit"
                /\ r.stamp > sess[s].start - window}

Passing(s, new) ==
  LET c == sess[s].call
      l == Before(s) IN
  /\ Active(s) /\ l # "commit" /\ WaitsFor(s) = {} /\ Pass(s, new)
  /\ l \in {"reserve", "insert"} =>
       new = NewRow(l, c, sess[s].start) /\ \A r \in rows, q \in new : ~Clash(r, q)
  /\ l = "update" => \E r \in rows : Hits(r, c) /\ new = {[r EXCEPT !.state = Turned(c.op)]}
  /\ l \notin {"reserve", "insert", "update"} => new = {}
  /\ l = "admit" => c.w \notin revoked
  /\ l = "find" => \A r \in rows : ~Hits(r, c)
  /\ l = "source" => Based(c, rows)
  /\ l = "limit" => \A limit \in Limits[c.op] : ~(Cardinality(Recent(s, limit[1])) >= limit[2])
  /\ l = "row" => \E r \in rows : Same(r, c) /\ r.state \notin {"published", "consumed"}

Refusing(s) ==
  LET c == sess[s].call IN
  /\ Active(s) /\ Raise(s)
  /\ \/ Before(s) = "admit" /\ c.w \in revoked
     \/ Before(s) = "find" /\ \A r \in rows : ~Same(r, c)
     \/ Before(s) = "source" /\ ~Based(c, rows)
     \/ Before(s) \in {"fresh", "inTime", "limit", "reserve", "insert", "row", "report"}

Answering(s, state) ==
  LET c == sess[s].call IN
  /\ Active(s) /\ Return(s, state)
  /\ \/ Before(s) = "find" /\ \E r \in rows : Same(r, c) /\ state = r.state
     \/ Before(s) = "row" /\ \E r \in rows : Same(r, c) /\ state = r.state /\ state = "published"
     \/ /\ Before(s) = "report"
        /\ \/ Reported(c, rows) = {} /\ state = "none"
           \/ \E r \in Reported(c, rows) : Readable(r, c) /\ state = r.state
     \/ Before(s) = "commit" /\ \E r \in sess[s].pending : r.tab = TableOf[c.op] /\ state = r.state

SessionStep(s) ==
  \/ \E c \in load.calls : Begin(s, c)
  \/ \E new : Passing(s, new)
  \/ Refusing(s)
  \/ \E state : Answering(s, state)
  \/ Drop(s)

LEMMA Steps ==
  ASSUME Next
  PROVE  \/ \E s \in Sessions : SessionStep(s)
         \/ \E c \in told : Publish(c)
         \/ \E w \in Wallets : Revoke(w)
         \/ Tick
<1>1. ASSUME NEW s \in Sessions, NEW c \in load.calls, Begin(s, c) PROVE SessionStep(s)
  BY <1>1 DEF SessionStep
<1>2. ASSUME NEW s \in Sessions, NEW new, Passing(s, new) PROVE SessionStep(s)
  BY <1>2 DEF SessionStep
<1>3. ASSUME NEW s \in Sessions, Refusing(s) PROVE SessionStep(s)
  BY <1>3 DEF SessionStep
<1>4. ASSUME NEW s \in Sessions, NEW state, Answering(s, state) PROVE SessionStep(s)
  BY <1>4 DEF SessionStep
<1>5. ASSUME NEW s \in Sessions, Drop(s) PROVE SessionStep(s)
  BY <1>5 DEF SessionStep
<1>6. ASSUME NEW s \in Sessions, Lock(s) PROVE SessionStep(s)
  <2>1. Passing(s, {}) BY <1>6 DEF Lock, At, Passing, Active
  <2> QED BY <2>1, <1>2
<1>7. ASSUME NEW s \in Sessions, Admit(s) PROVE SessionStep(s)
  <2>1. Passing(s, {}) \/ Refusing(s)
    BY <1>7 DEF Admit, At, Passing, Refusing, Active
  <2> QED BY <2>1, <1>2, <1>3
<1>8. ASSUME NEW s \in Sessions, Find(s) PROVE SessionStep(s)
  <2>1. CASE {r \in rows : Hits(r, sess[s].call)} = {} /\ Pass(s, {})
    <3>1. Passing(s, {}) BY <1>8, <2>1 DEF Find, At, Passing, Active
    <3> QED BY <3>1, <1>2
  <2>2. CASE \E r \in {q \in rows : Hits(q, sess[s].call)} : Same(r, sess[s].call) /\ Return(s, r.state)
    <3>1. \E state : Answering(s, state)
      BY <1>8, <2>2 DEF Find, At, Answering, Active
    <3> QED BY <3>1, <1>4
  <2>3. CASE (\A r \in {q \in rows : Hits(q, sess[s].call)} : ~Same(r, sess[s].call)) /\ Raise(s)
    <3>1. Refusing(s) BY <1>8, <2>3 DEF Find, At, Refusing, Active, Same
    <3> QED BY <3>1, <1>3
  <2> QED BY <1>8, <2>1, <2>2, <2>3 DEF Find
<1>9. ASSUME NEW s \in Sessions, Fresh(s) \/ InTime(s) PROVE SessionStep(s)
  <2>1. Passing(s, {}) \/ Refusing(s)
    BY <1>9 DEF Fresh, InTime, At, Passing, Refusing, Active
  <2> QED BY <2>1, <1>2, <1>3
<1>10. ASSUME NEW s \in Sessions, Source(s) PROVE SessionStep(s)
  <2>1. Passing(s, {}) \/ Refusing(s)
    BY <1>10 DEF Source, At, Passing, Refusing, Active
  <2> QED BY <2>1, <1>2, <1>3
<1>11. ASSUME NEW s \in Sessions, Limit(s) PROVE SessionStep(s)
  <2>1. Passing(s, {}) \/ Refusing(s)
    BY <1>11 DEF Limit, At, Passing, Refusing, Active, Recent
  <2> QED BY <2>1, <1>2, <1>3
<1>12. ASSUME NEW s \in Sessions, Insert(s) PROVE SessionStep(s)
  <2>1. (\E new : Passing(s, new)) \/ Refusing(s)
    BY <1>12 DEF Insert, At, Passing, Refusing, Active
  <2> QED BY <2>1, <1>2, <1>3
<1>13. ASSUME NEW s \in Sessions, FindRow(s) PROVE SessionStep(s)
  <2>1. CASE Raise(s) BY <1>13, <2>1, <1>3 DEF FindRow, At, Refusing, Active
  <2>2. CASE ~Raise(s)
    <3>1. PICK r \in rows : /\ Same(r, sess[s].call)
                            /\ CASE r.state = "published" -> Return(s, r.state)
                                 [] r.state = "consumed" -> Raise(s)
                                 [] OTHER -> Pass(s, {})
      BY <1>13, <2>2 DEF FindRow
    <3>2. CASE r.state = "published"
      <4>1. Answering(s, r.state)
        BY <1>13, <3>1, <3>2 DEF FindRow, At, Answering, Active
      <4> QED BY <4>1, <1>4
    <3>3. CASE r.state \notin {"published", "consumed"}
      <4>1. Passing(s, {}) BY <1>13, <3>1, <3>3 DEF FindRow, At, Passing, Active
      <4> QED BY <4>1, <1>2
    <3> QED BY <2>2, <3>1, <3>2, <3>3
  <2> QED BY <2>1, <2>2
<1>14. ASSUME NEW s \in Sessions, Update(s) PROVE SessionStep(s)
  <2>1. \E new : Passing(s, new) BY <1>14 DEF Update, At, Passing, Active, Turned
  <2> QED BY <2>1, <1>2
<1>15. ASSUME NEW s \in Sessions, Report(s) PROVE SessionStep(s)
  <2>1. (\E state : Answering(s, state)) \/ Refusing(s)
    BY <1>15 DEF Report, At, Answering, Refusing, Active
  <2> QED BY <2>1, <1>3, <1>4
<1>16. ASSUME NEW s \in Sessions, Commit(s) PROVE SessionStep(s)
  <2>1. \E state : Answering(s, state) BY <1>16 DEF Commit, At, Answering, Active
  <2> QED BY <2>1, <1>4
<1> QED
  BY <1>1, <1>5, <1>6, <1>7, <1>8, <1>9, <1>10, <1>11, <1>12, <1>13, <1>14, <1>15, <1>16 DEF Next

-----
\* Nobody waits in a circle.

LEMMA WantsLevel ==
  ASSUME NEW c, c.op \in Procedures, NEW statement, NEW l \in Wants(statement, c)
  PROVE  LockLevel(l) = Level(statement) /\ Level(statement) # 0
<1>1. CASE statement = "walletLock" BY <1>1, Levels DEF Wants, LockLevel
<1>2. CASE statement = "lock"
  <2>1. l = Advisory(c) BY <1>2 DEF Wants
  <2>2. Advisory(c)[1] \in {"mirror", "promotion", "challenge", "testChallenge", "suggestion",
                            "audit", "adoption", "testAdoption"}
    <3>1. TableOf[c.op] \in {"audit", "mirror", "binding", "promotion", "suggestion", "challenge",
                             "receipt", "adoption", "testChallenge", "testAdoption"}
      BY DEF Procedures, TableOf
    <3> QED BY <3>1 DEF Advisory
  <2> QED BY <1>2, <2>1, <2>2, Levels DEF LockLevel
<1>3. CASE statement = "receiptLock" BY <1>3, Levels DEF Wants, LockLevel
<1>4. CASE statement = "admit" BY <1>4, Levels DEF Wants, LockLevel
<1>5. CASE statement \in {"row", "challenge"} BY <1>5, Levels DEF Wants, LockLevel
<1> QED BY <1>1, <1>2, <1>3, <1>4, <1>5 DEF Wants

LEMMA Tables ==
  ASSUME NEW op \in Procedures
  PROVE  TableOf[op] # "reservation" /\ TableOf[op] \in DOMAIN Indexes /\ TableOf[op] \in DOMAIN LookedUpBy
BY DEF Procedures, TableOf, Indexes, LookedUpBy

\* A row whose state is turned is otherwise the same.
LEMMA TurnedRow ==
  ASSUME NEW r, IsRow(r), NEW state, NEW q, q = [r EXCEPT !.state = state]
  PROVE  /\ q = [tab |-> r.tab, op |-> r.op, w |-> r.w, key |-> r.key, req |-> r.req, who |-> r.who,
                 src |-> r.src, event |-> r.event, state |-> state, stamp |-> r.stamp]
         /\ q.tab = r.tab /\ q.op = r.op /\ q.w = r.w /\ q.key = r.key /\ q.req = r.req
         /\ q.who = r.who /\ q.src = r.src /\ q.event = r.event /\ q.stamp = r.stamp /\ q.state = state
<1> DEFINE f == [tab |-> r.tab, op |-> r.op, w |-> r.w, key |-> r.key, req |-> r.req, who |-> r.who,
                 src |-> r.src, event |-> r.event, state |-> state, stamp |-> r.stamp]
<1>1. DOMAIN r = {"tab", "op", "w", "key", "req", "who", "src", "event", "state", "stamp"}
  BY DEF IsRow
<1>2. /\ q.tab = r.tab /\ q.op = r.op /\ q.w = r.w /\ q.key = r.key /\ q.req = r.req
      /\ q.who = r.who /\ q.src = r.src /\ q.event = r.event /\ q.stamp = r.stamp /\ q.state = state
  BY <1>1
<1>3. /\ f.tab = r.tab /\ f.op = r.op /\ f.w = r.w /\ f.key = r.key /\ f.req = r.req
      /\ f.who = r.who /\ f.src = r.src /\ f.event = r.event /\ f.stamp = r.stamp /\ f.state = state
  OBVIOUS
<1>4. q = [x \in DOMAIN r |-> q[x]] /\ f = [x \in DOMAIN r |-> f[x]] BY <1>1
<1>5. \A x \in DOMAIN r : q[x] = f[x]
  <2> HIDE DEF f
  <2> QED BY <1>1, <1>2, <1>3
<1>6. q = f
  <2> HIDE DEF f
  <2> QED BY <1>4, <1>5
<1> QED BY <1>2, <1>6

\* The rows a call inserts.
LEMMA NewRows ==
  ASSUME NEW c, c.op \in Procedures, NEW l, NEW time, NEW p \in NewRow(l, c, time)
  PROVE  /\ p = [tab |-> p.tab, op |-> c.op, w |-> c.w, key |-> c.key, req |-> c.req, who |-> c.who,
                 src |-> c.src, event |-> c.event, state |-> p.state, stamp |-> p.stamp]
         /\ p.op = c.op /\ p.w = c.w /\ p.key = c.key /\ p.req = c.req /\ p.who = c.who
         /\ p.src = c.src /\ p.event = c.event /\ p.state = FirstState[TableOf[c.op]]
         /\ p.stamp = Row(c, time).stamp
         /\ \/ l = "reserve" /\ p.tab = "reservation"
            \/ l = "insert" /\ p.tab = TableOf[c.op] /\ p = Row(c, time)
<1>1. CASE l = "reserve"
  <2>1. p = [Row(c, time) EXCEPT !.tab = "reservation"] BY <1>1 DEF NewRow
  <2>2. p = [tab |-> "reservation", op |-> c.op, w |-> c.w, key |-> c.key, req |-> c.req, who |-> c.who,
             src |-> c.src, event |-> c.event, state |-> FirstState[TableOf[c.op]],
             stamp |-> Row(c, time).stamp]
    BY <2>1 DEF Row
  <2> QED BY <1>1, <2>2
<1>2. CASE l = "insert" BY <1>2 DEF NewRow, Row
<1> QED BY <1>1, <1>2 DEF NewRow

LEMMA RowLevels ==
  ASSUME Durable, NEW s \in Sessions, sess[s].call.op \in Procedures, NEW new, Passing(s, new), NEW p \in new
  PROVE  RowLevel(p) = Level(Before(s)) /\ Level(Before(s)) # 0
<1>1. CASE Before(s) \in {"reserve", "insert"}
  BY <1>1, NewRows, Tables, Levels DEF Passing, RowLevel
<1>2. CASE Before(s) = "update"
  <2>1. PICK r \in rows : Hits(r, sess[s].call) /\ p = [r EXCEPT !.state = Turned(sess[s].call.op)]
    BY <1>2 DEF Passing
  <2>2. p.tab = TableOf[sess[s].call.op] BY <2>1, TurnedRow DEF Durable, Hits
  <2> QED BY <1>2, <2>2, Tables, Levels DEF RowLevel
<1> QED BY <1>1, <1>2 DEF Passing

LEMMA OrderedPass ==
  ASSUME Transactions, Durable, Ordered, NEW s \in Sessions, NEW new, Passing(s, new)
  PROVE  Ordered'
<1>0. Active(s) /\ Before(s) # "commit" /\ Pass(s, new) BY DEF Passing
<1>1. /\ \A t \in Sessions \ {s} : sess'[t] = sess[t]
      /\ sess'[s].left = Tail(sess[s].left)
      /\ sess'[s].holds = sess[s].holds \cup Wants(Before(s), sess[s].call)
      /\ sess'[s].pending = sess[s].pending \cup new
  BY <1>0, PassEffect
<1>2. /\ sess[s].left \in Seq(StatementNames) /\ sess[s].call.op \in Procedures
      /\ Ascending(Plan(s)) /\ Pos(s) \in Nat /\ Before(s) = Plan(s)[Pos(s) + 1]
      /\ Pos(s) < Len(Plan(s)) /\ Len(Plan(s)) \in Nat
  BY <1>0, Position DEF Orderly
<1>3. /\ Len(sess[s].left) \in Nat /\ Len(sess[s].left) = Len(Plan(s)) - Pos(s)
      /\ sess[s].left # <<>>
  BY <1>2 DEF Pos
<1>4. ASSUME NEW i \in 1..Len(sess'[s].left), Level(sess'[s].left[i]) # 0
      PROVE  /\ \A l \in sess'[s].holds : LockLevel(l) < Level(sess'[s].left[i])
             /\ \A p \in sess'[s].pending : RowLevel(p) < Level(sess'[s].left[i])
  <2>1. i + 1 \in 1..Len(sess[s].left) /\ sess'[s].left[i] = sess[s].left[i + 1]
    BY <1>1, <1>2, <1>3
  <2>2. sess[s].left[i + 1] = Plan(s)[Pos(s) + (i + 1)]
    BY <2>1, <1>0 DEF Transactions, Active
  <2>3. Level(Before(s)) # 0 => Level(Before(s)) < Level(sess'[s].left[i])
    <3>1. /\ Pos(s) + 1 \in 1..Len(Plan(s)) /\ Pos(s) + (i + 1) \in 1..Len(Plan(s))
          /\ Pos(s) + 1 < Pos(s) + (i + 1)
      BY <2>1, <1>2, <1>3, SMTT(40)
    <3> QED BY <1>2, <1>4, <2>1, <2>2, <3>1 DEF Ascending
  <2>4. ASSUME NEW l \in sess'[s].holds PROVE LockLevel(l) < Level(sess'[s].left[i])
    <3>1. CASE l \in sess[s].holds BY <3>1, <2>1, <1>4 DEF Ordered
    <3>2. CASE l \in Wants(Before(s), sess[s].call) BY <3>2, <2>3, <1>2, WantsLevel
    <3> QED BY <3>1, <3>2, <1>1
  <2>5. ASSUME NEW p \in sess'[s].pending PROVE RowLevel(p) < Level(sess'[s].left[i])
    <3>1. CASE p \in sess[s].pending BY <3>1, <2>1, <1>4 DEF Ordered
    <3>2. CASE p \in new BY <3>2, <2>3, <1>2, RowLevels
    <3> QED BY <3>1, <3>2, <1>1
  <2> QED BY <2>4, <2>5
<1>5. ASSUME NEW t \in Sessions \ {s}, NEW i \in 1..Len(sess'[t].left), Level(sess'[t].left[i]) # 0
      PROVE  /\ \A l \in sess'[t].holds : LockLevel(l) < Level(sess'[t].left[i])
             /\ \A p \in sess'[t].pending : RowLevel(p) < Level(sess'[t].left[i])
  BY <1>1, <1>5 DEF Ordered
<1> QED BY <1>4, <1>5 DEF Ordered

\* Who waits has not got what it waits for; the other one has.
LEMMA WaitsUpwards ==
  ASSUME Transactions, Durable, Ordered, NEW s \in Sessions, NEW t \in WaitsFor(s), NEW u \in WaitsFor(t)
  PROVE  /\ Level(Before(s)) \in 1..7 /\ Level(Before(t)) \in 1..7
         /\ Level(Before(s)) < Level(Before(t))
<1>1. /\ Active(s) /\ t \in Sessions /\ Active(t) /\ u \in Sessions
      /\ \/ Wants(Before(s), sess[s].call) \cap sess[t].holds # {}
         \/ \E p \in sess[t].pending, q \in NewRow(Before(s), sess[s].call, sess[s].start) : Clash(p, q)
      /\ \/ Wants(Before(t), sess[t].call) \cap sess[u].holds # {}
         \/ \E p \in sess[u].pending, q \in NewRow(Before(t), sess[t].call, sess[t].start) : Clash(p, q)
  BY DEF WaitsFor, Active
<1>2. \A l : Level(l) \in 0..7 BY DEF Level
<1>3. sess[s].call.op \in Procedures /\ sess[t].call.op \in Procedures
  BY <1>1, Position
<1>4. ASSUME NEW x \in Sessions, sess[x].call.op \in Procedures,
             NEW q \in NewRow(Before(x), sess[x].call, sess[x].start)
      PROVE  RowLevel(q) = Level(Before(x)) /\ Level(Before(x)) # 0
  BY <1>4, NewRows, Tables, Levels DEF RowLevel
<1>5. Level(Before(t)) # 0 BY <1>1, <1>3, <1>4, WantsLevel
<1>6. Before(t) = sess[t].left[1] /\ 1 \in 1..Len(sess[t].left)
  <2>1. Before(t) # "commit" BY <1>5 DEF Level
  <2>2. sess[t].left \in Seq(StatementNames) /\ sess[t].left # <<>>
    BY <2>1, <1>1, Position DEF Before
  <2> QED BY <2>2 DEF Before
<1>7. CASE Wants(Before(s), sess[s].call) \cap sess[t].holds # {}
  <2>1. PICK l \in Wants(Before(s), sess[s].call) : l \in sess[t].holds BY <1>7
  <2>2. LockLevel(l) = Level(Before(s)) /\ Level(Before(s)) # 0
    BY <2>1, <1>3, WantsLevel
  <2>3. LockLevel(l) < Level(Before(t)) BY <2>1, <1>1, <1>5, <1>6 DEF Ordered
  <2> QED BY <2>2, <2>3, <1>2, <1>5
<1>8. CASE \E p \in sess[t].pending, q \in NewRow(Before(s), sess[s].call, sess[s].start) : Clash(p, q)
  <2>1. PICK p \in sess[t].pending, q \in NewRow(Before(s), sess[s].call, sess[s].start) : p.tab = q.tab
    BY <1>8 DEF Clash
  <2>2. RowLevel(p) = Level(Before(s)) /\ Level(Before(s)) # 0
    BY <2>1, <1>3, <1>4 DEF RowLevel
  <2>3. RowLevel(p) < Level(Before(t)) BY <2>1, <1>1, <1>5, <1>6 DEF Ordered
  <2> QED BY <2>2, <2>3, <1>2, <1>5
<1> QED BY <1>1, <1>7, <1>8

LEMMA NoCircle == Transactions /\ Durable /\ Ordered => NoWaitCycle
<1> SUFFICES ASSUME Transactions, Durable, Ordered,
                    NEW C \in (SUBSET Sessions) \ {{}}, \A s \in C : WaitsFor(s) \cap C # {}
             PROVE  FALSE
  BY DEF NoWaitCycle
<1> DEFINE Above(n) == \E s \in C : Level(Before(s)) >= n
<1>1. \A s \in C : \E t \in C : /\ Level(Before(s)) \in 1..7 /\ Level(Before(t)) \in 1..7
                               /\ Level(Before(s)) < Level(Before(t))
  <2> TAKE s \in C
  <2>1. PICK t \in WaitsFor(s) \cap C : TRUE OBVIOUS
  <2>2. PICK u \in WaitsFor(t) \cap C : TRUE OBVIOUS
  <2> QED BY <2>1, <2>2, WaitsUpwards
<1>2. Above(1)
  <2>0. C # {} OBVIOUS
  <2>1. PICK s \in C : TRUE BY <2>0
  <2> QED BY <1>1
<1>3. ASSUME NEW n \in 1..7, Above(n) PROVE Above(n + 1)
  <2>1. PICK s \in C : Level(Before(s)) >= n BY <1>3
  <2>2. PICK t \in C : /\ Level(Before(s)) \in 1..7 /\ Level(Before(t)) \in 1..7
                       /\ Level(Before(s)) < Level(Before(t))
    BY <1>1
  <2>3. Level(Before(t)) >= n + 1 BY <2>1, <2>2
  <2> QED BY <2>3
<1>4. Above(8)
  <2> HIDE DEF Above
  <2>1. Above(1 + 1) BY <1>2, <1>3
  <2>2. Above(2 + 1) BY <2>1, <1>3
  <2>3. Above(3 + 1) BY <2>2, <1>3
  <2>4. Above(4 + 1) BY <2>3, <1>3
  <2>5. Above(5 + 1) BY <2>4, <1>3
  <2>6. Above(6 + 1) BY <2>5, <1>3
  <2>7. Above(7 + 1) BY <2>6, <1>3
  <2> QED BY <2>7
<1> QED BY <1>1, <1>4

-----
\* Rows and their versions.

\* Nothing but the state differs.
Version(r, q) == Agree(r, q, {"tab", "op", "w", "key", "req", "who", "src", "event", "stamp"})

Compared == {"w", "key", "req", "who", "src", "event"}

LEMMA ComparedFields ==
  /\ \A tab \in DOMAIN Indexes : \A fields \in Indexes[tab] : fields \subseteq Compared
  /\ \A tab \in DOMAIN LookedUpBy : \A fields \in LookedUpBy[tab] : fields \subseteq Compared
BY DEF Indexes, LookedUpBy, Compared

LEMMA RowTables ==
  ASSUME NEW r, IsRow(r)
  PROVE  r.tab \in DOMAIN Indexes /\ r.op \in Procedures
BY Tables DEF IsRow, Inserting, Indexes

LEMMA ClashBothWays == ASSUME NEW r, NEW q, Clash(r, q) PROVE Clash(q, r)
BY DEF Clash, Agree

LEMMA VersionClash ==
  ASSUME NEW r, NEW q, Version(r, q), r.tab \in DOMAIN Indexes, NEW z
  PROVE  (Clash(r, z) <=> Clash(q, z)) /\ (Clash(z, r) <=> Clash(z, q))
<1>1. r.tab = q.tab /\ \A f \in Compared : r[f] = q[f]
  BY DEF Version, Agree, Compared
<1>2. \A fields \in Indexes[r.tab] : (Agree(r, z, fields) <=> Agree(q, z, fields))
                                  /\ (Agree(z, r, fields) <=> Agree(z, q, fields))
  <2> SUFFICES ASSUME NEW fields \in Indexes[r.tab]
               PROVE  (Agree(r, z, fields) <=> Agree(q, z, fields))
                        /\ (Agree(z, r, fields) <=> Agree(z, q, fields))
    OBVIOUS
  <2>1. fields \subseteq Compared BY ComparedFields
  <2> QED BY <1>1, <2>1 DEF Agree
<1> QED BY <1>1, <1>2 DEF Clash

LEMMA VersionHits ==
  ASSUME NEW r, NEW q, Version(r, q), NEW c, c.op \in Procedures
  PROVE  (Hits(r, c) <=> Hits(q, c)) /\ (Same(r, c) <=> Same(q, c)) /\ RowLock(r) = RowLock(q)
<1>1. /\ r.tab = q.tab /\ (\A f \in Compared : r[f] = q[f]) /\ r.op = q.op /\ r.event = q.event
      /\ r.w = q.w /\ r.key = q.key /\ r.req = q.req /\ r.who = q.who /\ r.src = q.src
  BY DEF Version, Agree, Compared
<1>2. Hits(r, c) <=> Hits(q, c)
  <2>1. CASE r.tab # TableOf[c.op] BY <1>1, <2>1 DEF Hits
  <2>2. CASE r.tab = TableOf[c.op]
    <3>1. \A fields \in LookedUpBy[r.tab] : Agree(r, c, fields) <=> Agree(q, c, fields)
      <4> SUFFICES ASSUME NEW fields \in LookedUpBy[r.tab] PROVE Agree(r, c, fields) <=> Agree(q, c, fields)
        OBVIOUS
      <4>1. fields \subseteq Compared BY <2>2, ComparedFields, Tables
      <4> QED BY <1>1, <4>1 DEF Agree
    <3> QED BY <1>1, <3>1 DEF Hits
  <2> QED BY <2>1, <2>2
<1>3. Same(r, c) <=> Same(q, c) BY <1>1, <1>2 DEF Same, Agree
<1> QED BY <1>1, <1>2, <1>3 DEF RowLock

\* Completions and consumptions look for their row by a unique key.
LEMMA HitsOne ==
  ASSUME Durable, NEW c, c.op \in Turning, NEW r \in rows, NEW q \in rows, Hits(r, c), Hits(q, c)
  PROVE  r = q
<1>1. TableOf[c.op] \in {"mirror", "promotion", "suggestion", "challenge", "testChallenge"}
  BY Kinds DEF TableOf
<1>2. \E key \in Indexes[TableOf[c.op]] : LookedUpBy[TableOf[c.op]] = {key}
  <2>1. /\ LookedUpBy["mirror"] = {{"w", "key"}} /\ {"w", "key"} \in Indexes["mirror"]
        /\ LookedUpBy["promotion"] = {{"key"}} /\ {"key"} \in Indexes["promotion"]
        /\ LookedUpBy["suggestion"] = {{"key", "who"}} /\ {"key", "who"} \in Indexes["suggestion"]
        /\ LookedUpBy["challenge"] = {{"key"}} /\ {"key"} \in Indexes["challenge"]
        /\ LookedUpBy["testChallenge"] = {{"key"}} /\ {"key"} \in Indexes["testChallenge"]
    BY DEF LookedUpBy, Indexes
  <2> QED BY <1>1, <2>1
<1>3. Clash(r, q) BY <1>2 DEF Hits, Clash, Agree
<1> QED BY <1>3 DEF Durable

LEMMA TurnedVersion ==
  ASSUME NEW r, IsRow(r), NEW state, NEW q, q = [r EXCEPT !.state = state]
  PROVE  Version(r, q) /\ q.state = state
BY TurnedRow DEF Version, Agree

\* What a call compares.
LEMMA SameFields ==
  ASSUME NEW r, NEW c, Same(r, c)
  PROVE  /\ Hits(r, c)
         /\ c.op \in Inserting => Agree(r, c, {"op", "w", "key", "req", "who", "src", "event"})
         /\ c.op \in Completing => Agree(r, c, {"w", "req", "event"})
<1>1. CASE c.op \in Inserting
  <2>1. c.op \notin Completing BY <1>1, Kinds DEF Turning
  <2>2. c.op \notin Consuming /\ c.op \notin Reading BY <1>1, Kinds DEF Turning
  <2> QED BY <1>1, <2>1, <2>2 DEF Same
<1>2. CASE c.op \in Completing
  <2>1. c.op \notin Inserting BY <1>2, Kinds DEF Turning
  <2>2. c.op \notin Consuming /\ c.op \notin Reading
    BY <1>2 DEF Completing, Consuming, Reading
  <2> QED BY <1>2, <2>1, <2>2 DEF Same
<1> QED BY <1>1, <1>2 DEF Same

\* Two calls for one row ask for the same lock.
LEMMA SameGuard ==
  ASSUME NEW c, NEW d, c.op \in Inserting, Agree(c, d, {"op", "w", "key", "req", "who", "src"})
  PROVE  /\ Wants(GuardOf(c.op), c) = Wants(GuardOf(d.op), d)
         /\ Wants(GuardOf(c.op), c) # {}
         /\ GuardOf(c.op) \in {"walletLock", "lock", "admit"}
<1>1. c.op = d.op /\ c.w = d.w /\ c.key = d.key /\ c.req = d.req /\ c.who = d.who /\ c.src = d.src
  BY DEF Agree
<1>2. Advisory(c) = Advisory(d) BY <1>1 DEF Advisory
<1> QED BY <1>1, <1>2 DEF Wants, GuardOf

\* The rationed writes of one wallet ask for the same lock.
LEMMA WalletGuard ==
  ASSUME NEW c, NEW d, c.op \in {"post", "comment"}, c.op = d.op, c.w = d.w
  PROVE  /\ Wants(GuardOf(c.op), c) = Wants(GuardOf(d.op), d)
         /\ Wants(GuardOf(c.op), c) # {}
         /\ GuardOf(c.op) \in {"walletLock", "lock", "admit"}
BY DEF Wants, GuardOf

\* So two sessions are never both behind it.
LEMMA OneGuard ==
  ASSUME Transactions, Durable, Exclusive, Established,
         NEW s \in Sessions, NEW t \in Sessions, s # t, Active(s), Active(t),
         sess[s].call.op \in Inserting, sess[t].call.op \in Inserting,
         "find" \in Done(s), "find" \in Done(t),
         Wants(GuardOf(sess[s].call.op), sess[s].call) = Wants(GuardOf(sess[t].call.op), sess[t].call),
         Wants(GuardOf(sess[s].call.op), sess[s].call) # {}
  PROVE  FALSE
<1>1. ASSUME NEW x \in {s, t} PROVE Wants(GuardOf(sess[x].call.op), sess[x].call) \subseteq sess[x].holds
  <2>1. Precedes(Plan(x), GuardOf(sess[x].call.op), "find")
    BY <1>1, Position DEF Orderly, Inserts
  <2>2. GuardOf(sess[x].call.op) \in Done(x) BY <1>1, <2>1, Earlier
  <2>3. GuardOf(sess[x].call.op) \in {"walletLock", "lock", "admit"} BY DEF GuardOf
  <2> QED BY <1>1, <2>2, <2>3 DEF Established
<1> QED BY <1>1 DEF Exclusive

LEMMA Finished ==
  ASSUME Transactions, Durable, NEW s \in Sessions, Active(s), sess[s].call.op \in Inserting,
         "insert" \in Done(s) \/ "reserve" \in Done(s) \/ "limit" \in Done(s)
  PROVE  "find" \in Done(s)
<1>1. \A b \in {"insert", "reserve", "limit"} : Precedes(Plan(s), "find", b)
  BY Position DEF Orderly, Inserts
<1> QED BY <1>1, Earlier

-----
\* A statement that is passed preserves the invariant.

LEMMA PassWritten ==
  ASSUME IInv, NEW s \in Sessions, NEW new, Passing(s, new)
  PROVE  Written'
<1>0. Transactions /\ Durable /\ Written /\ Active(s) /\ Before(s) # "commit" /\ Pass(s, new) /\ rows' = rows
  BY DEF IInv, Passing, Pass
<1>1. /\ \A t \in Sessions \ {s} : sess'[t] = sess[t] /\ Done(t)' = Done(t) /\ (Active(t)' <=> Active(t))
      /\ sess'[s].call = sess[s].call /\ sess'[s].start = sess[s].start
      /\ sess'[s].holds = sess[s].holds \cup Wants(Before(s), sess[s].call)
      /\ sess'[s].pending = sess[s].pending \cup new
      /\ Done(s)' = Done(s) \cup {Before(s)}
  BY <1>0, PassEffect
<1> DEFINE c == sess[s].call
<1>2. /\ c.op \in Procedures /\ Orderly(c.op, Plan(s)) /\ Before(s) \notin Done(s)
      /\ Has(Plan(s), Before(s)) /\ \A a \in Done(s) : Has(Plan(s), a)
  BY <1>0, Position, Upcoming
<1>3. ASSUME c.op \in Inserting
      PROVE  /\ sess'[s].pending = UNION {NewRow(l, c, sess[s].start) : l \in Done(s)'}
             /\ \A p \in sess'[s].pending, r \in rows : ~Clash(r, p)
  <2>1. /\ sess[s].pending = UNION {NewRow(l, c, sess[s].start) : l \in Done(s)}
        /\ \A p \in sess[s].pending, r \in rows : ~Clash(r, p)
    BY <1>0, <1>3 DEF Written
  <2>2. Before(s) # "update" BY <1>2, <1>3 DEF Orderly, Inserts
  <2>3. new = NewRow(Before(s), c, sess[s].start) /\ \A p \in new, r \in rows : ~Clash(r, p)
    BY <2>2 DEF Passing, NewRow
  <2> QED BY <1>1, <2>1, <2>3
<1>4. ASSUME c.op \in Reading PROVE sess'[s].pending = {}
  <2>1. Before(s) \notin {"reserve", "insert", "update"}
    BY <1>2, <1>4 DEF Orderly, Reads
  <2> QED BY <1>0, <1>1, <1>4, <2>1 DEF Passing, Written
<1>5. ASSUME c.op \in Turning
      PROVE  IF "row" \in Done(s)'
             THEN \E r \in rows :
                    /\ Same(r, c) /\ r.state \notin {"published", "consumed"} /\ RowLock(r) \in sess'[s].holds
                    /\ sess'[s].pending = IF "update" \in Done(s)'
                                         THEN {[r EXCEPT !.state = Turned(c.op)]} ELSE {}
             ELSE sess'[s].pending = {}
  <2>1. Before(s) \notin {"reserve", "insert"} /\ Precedes(Plan(s), "row", "update")
    BY <1>2, <1>5 DEF Orderly, Turns
  <2>2. IF "row" \in Done(s)
        THEN \E r \in rows :
               /\ Locked(s, r)
               /\ sess[s].pending = IF "update" \in Done(s)
                                    THEN {[r EXCEPT !.state = Turned(c.op)]} ELSE {}
        ELSE sess[s].pending = {}
    BY <1>0, <1>5 DEF Written
  <2>3. CASE Before(s) = "row"
    <3>1. "row" \notin Done(s) /\ "update" \notin Done(s)'
      BY <1>0, <1>1, <1>2, <2>1, <2>3, Earlier
    <3>2. sess'[s].pending = {} BY <1>1, <2>2, <2>3, <3>1 DEF Passing
    <3>3. PICK r \in rows : Same(r, c) /\ r.state \notin {"published", "consumed"}
      BY <2>3 DEF Passing
    <3>4. RowLock(r) \in sess'[s].holds BY <1>1, <2>3, <3>3 DEF Wants, Same, RowLock
    <3> QED BY <1>1, <2>3, <3>1, <3>2, <3>3, <3>4
  <2>4. CASE Before(s) = "update"
    <3>1. "row" \in Done(s) /\ "update" \notin Done(s)
      BY <1>0, <1>2, <2>1, <2>4, Earlier
    <3>2. PICK r \in rows : Locked(s, r) /\ sess[s].pending = {} BY <2>2, <3>1
    <3>3. PICK q \in rows : Hits(q, c) /\ new = {[q EXCEPT !.state = Turned(c.op)]}
      BY <2>4 DEF Passing
    <3>4. q = r BY <1>0, <1>5, <3>2, <3>3, HitsOne DEF Locked, Same
    <3> QED BY <1>1, <2>4, <3>1, <3>2, <3>3, <3>4 DEF Locked
  <2>5. CASE Before(s) \notin {"row", "update"}
    <3>1. new = {} BY <2>1, <2>5 DEF Passing
    <3> QED BY <1>1, <2>2, <2>5, <3>1 DEF Locked
  <2> QED BY <2>3, <2>4, <2>5
\* What a session of state x that has done d has written, over the rows Q.
<1> DEFINE W(x, d, Q) ==
      /\ x.call.op \in Inserting =>
           /\ x.pending = UNION {NewRow(l, x.call, x.start) : l \in d}
           /\ \A p \in x.pending, r \in Q : ~Clash(r, p)
      /\ x.call.op \in Reading => x.pending = {}
      /\ x.call.op \in Turning =>
           IF "row" \in d
           THEN \E r \in Q :
                  /\ Same(r, x.call) /\ r.state \notin {"published", "consumed"} /\ RowLock(r) \in x.holds
                  /\ x.pending = IF "update" \in d THEN {[r EXCEPT !.state = Turned(x.call.op)]} ELSE {}
           ELSE x.pending = {}
<1>6. ASSUME NEW t \in Sessions, Active(t) PROVE W(sess[t], Done(t), rows)
  BY <1>0, <1>6 DEF Written, Locked
<1>7. ASSUME NEW t \in Sessions, Active(t)' PROVE W(sess'[t], Done(t)', rows')
  <2>1. CASE t = s
    <3>1. W(sess'[s], Done(s)', rows) BY <1>1, <1>3, <1>4, <1>5
    <3> HIDE DEF W
    <3> QED BY <2>1, <3>1, <1>0
  <2>2. CASE t # s
    <3>1. sess'[t] = sess[t] /\ Done(t)' = Done(t) /\ Active(t) BY <2>2, <1>1, <1>7
    <3> HIDE DEF W
    <3>2. W(sess[t], Done(t), rows) BY <3>1, <1>6
    <3> QED BY <3>1, <3>2, <1>0
  <2> QED BY <2>1, <2>2
<1> QED BY <1>7 DEF Written, Locked

LEMMA PassExclusive ==
  ASSUME IInv, NEW s \in Sessions, NEW new, Passing(s, new)
  PROVE  Exclusive'
<1>0. /\ Transactions /\ Durable /\ Written /\ Exclusive /\ Active(s) /\ Before(s) # "commit"
      /\ Pass(s, new) /\ WaitsFor(s) = {}
  BY DEF IInv, Passing
<1>1. /\ \A t \in Sessions \ {s} : sess'[t] = sess[t]
      /\ sess'[s].holds = sess[s].holds \cup Wants(Before(s), sess[s].call)
      /\ sess'[s].pending = sess[s].pending \cup new
  BY <1>0, PassEffect
<1>2. ASSUME NEW t \in Sessions \ {s}
      PROVE  /\ Wants(Before(s), sess[s].call) \cap sess[t].holds = {}
             /\ \A p \in sess[t].pending, q \in NewRow(Before(s), sess[s].call, sess[s].start) : ~Clash(p, q)
  BY <1>0 DEF WaitsFor, Active
<1>3. ASSUME NEW t \in Sessions \ {s}, NEW p \in sess[t].pending, NEW q \in new PROVE ~Clash(p, q)
  <2>1. CASE Before(s) \in {"reserve", "insert"} BY <2>1, <1>2, <1>3 DEF Passing
  <2>2. CASE Before(s) = "update"
    <3> SUFFICES ASSUME Clash(p, q) PROVE FALSE
      OBVIOUS
    <3>1. PICK r \in rows : Hits(r, sess[s].call) /\ q = [r EXCEPT !.state = Turned(sess[s].call.op)]
      BY <2>2, <1>3 DEF Passing
    <3>2. IsRow(r) BY <1>0 DEF Durable
    <3>3. Clash(r, p)
      BY <3>1, <3>2, TurnedVersion, VersionClash, RowTables, ClashBothWays
    <3>4. Active(t) BY <1>3, <1>0 DEF Transactions, Active, Idle
    <3>5. sess[t].call.op \in Turning /\ sess[s].call.op \in Procedures
      <4>1. sess[t].call.op \in Procedures /\ sess[s].call.op \in Procedures
        BY <1>0, <3>4, Position
      <4> QED BY <4>1, <1>0, <1>3, <3>3, <3>4, Kinds DEF Written
    <3>6. PICK x \in rows : Locked(t, x) /\ p = [x EXCEPT !.state = Turned(sess[t].call.op)]
      BY <1>0, <1>3, <3>4, <3>5 DEF Written
    <3>7. Clash(r, x)
      <4>1. IsRow(x) BY <1>0 DEF Durable
      <4> QED BY <4>1, <3>3, <3>6, TurnedVersion, VersionClash, RowTables
    <3>8. r = x BY <1>0, <3>7 DEF Durable
    <3>9. sess[s].call.op \in Turning
      <4>1. Has(Plan(s), "update") /\ Orderly(sess[s].call.op, Plan(s))
        BY <1>0, <2>2, Upcoming, Position
      <4> QED BY <4>1, <3>5, Kinds DEF Orderly, Inserts, Reads
    <3>10. "row" \in Done(s)
      <4>1. Precedes(Plan(s), "row", "update")
        BY <1>0, <3>9, Position DEF Orderly, Turns
      <4> QED BY <4>1, <1>0, <2>2, Earlier
    <3>11. PICK y \in rows : Locked(s, y) BY <1>0, <3>9, <3>10 DEF Written
    <3>12. y = r BY <1>0, <3>1, <3>9, <3>11, HitsOne DEF Locked, Same
    <3> QED BY <1>0, <1>3, <3>6, <3>8, <3>11, <3>12 DEF Locked, Exclusive
  <2>3. CASE Before(s) \notin {"reserve", "insert", "update"}
    BY <2>3, <1>3 DEF Passing
  <2> QED BY <2>1, <2>2, <2>3
<1>4. ASSUME NEW t \in Sessions \ {s}
      PROVE  /\ sess'[s].holds \cap sess'[t].holds = {}
             /\ \A p \in sess'[s].pending, q \in sess'[t].pending : ~Clash(p, q) /\ ~Clash(q, p)
  <2>1. \A p \in sess'[s].pending, q \in sess'[t].pending : ~Clash(q, p)
    BY <1>0, <1>1, <1>3 DEF Exclusive
  <2> QED BY <1>0, <1>1, <1>2, <2>1, ClashBothWays DEF Exclusive
<1>5. ASSUME NEW t \in Sessions \ {s}, NEW u \in Sessions \ {s}, t # u
      PROVE  /\ sess'[u].holds \cap sess'[t].holds = {}
             /\ \A p \in sess'[u].pending, q \in sess'[t].pending : ~Clash(p, q)
  BY <1>0, <1>1, <1>5 DEF Exclusive
<1> QED BY <1>4, <1>5 DEF Exclusive

LEMMA PassEstablished ==
  ASSUME IInv, NEW s \in Sessions, NEW new, Passing(s, new)
  PROVE  Established'
<1>0. /\ Transactions /\ Durable /\ Established /\ Active(s) /\ Before(s) # "commit" /\ Pass(s, new)
      /\ rows' = rows /\ revoked' = revoked
  BY DEF IInv, Passing, Pass
<1>1. /\ \A t \in Sessions \ {s} : sess'[t] = sess[t] /\ Done(t)' = Done(t) /\ (Active(t)' <=> Active(t))
      /\ sess'[s].call = sess[s].call /\ sess'[s].start = sess[s].start
      /\ sess'[s].holds = sess[s].holds \cup Wants(Before(s), sess[s].call)
      /\ Done(s)' = Done(s) \cup {Before(s)}
  BY <1>0, PassEffect
<1> DEFINE c == sess[s].call
<1>2. c.op \in Procedures /\ Orderly(c.op, Plan(s)) /\ Has(Plan(s), Before(s))
  BY <1>0, Position, Upcoming
<1>3. \A l \in {"walletLock", "lock", "admit"} : Wants(l, c)' = Wants(l, c)
  BY <1>1 DEF Wants, Advisory
<1>4. \A l \in {"walletLock", "lock", "admit"} \cap Done(s)' : Wants(l, c) \subseteq sess'[s].holds
  BY <1>0, <1>1 DEF Established
<1>5. "admit" \in Done(s)' => c.w \notin revoked
  BY <1>0, <1>1 DEF Established, Passing
<1>6. "find" \in Done(s)' => \A r \in rows : ~Same(r, c)
  BY <1>0, <1>1 DEF Established, Passing, Same
<1>7. "source" \in Done(s)' => Based(c, rows) BY <1>0, <1>1 DEF Established, Passing
<1>8. ASSUME "limit" \in Done(s)', NEW limit \in Limits[c.op]
      PROVE  Cardinality(Recent(s, limit[1])) < limit[2]
  <2>1. CASE "limit" \in Done(s) BY <2>1, <1>0, <1>8 DEF Established, Recent
  <2>2. CASE Before(s) = "limit"
    <3>1. c.op \in {"post", "comment"} BY <2>2, <1>2 DEF Orderly
    <3>2. limit[2] \in Nat BY <3>1, <1>8, LimitsOK
    <3>3. IsFiniteSet(Recent(s, limit[1]))
      <4>1. Recent(s, limit[1]) \subseteq rows /\ IsFiniteSet(rows)
        BY <1>0 DEF Recent, Durable
      <4> QED BY <4>1, FS_Subset
    <3>4. Cardinality(Recent(s, limit[1])) \in Nat BY <3>3, FS_CardinalityType
    <3>5. ~(Cardinality(Recent(s, limit[1])) >= limit[2]) BY <2>2, <1>8 DEF Passing
    <3> QED BY <3>2, <3>4, <3>5
  <2> QED BY <2>1, <2>2, <1>1, <1>8
<1>9. ASSUME NEW t \in Sessions, Active(t)'
      PROVE  /\ \A l \in {"walletLock", "lock", "admit"} \cap Done(t)' :
                  Wants(l, sess[t].call)' \subseteq sess'[t].holds
             /\ "admit" \in Done(t)' => sess'[t].call.w \notin revoked'
             /\ "find" \in Done(t)' => \A r \in rows' : ~Same(r, sess'[t].call)
             /\ "source" \in Done(t)' => Based(sess'[t].call, rows')
             /\ "limit" \in Done(t)' =>
                  \A limit \in Limits[sess'[t].call.op] :
                    Cardinality({r \in rows' : /\ r.op = sess'[t].call.op /\ r.w = sess'[t].call.w
                                               /\ r.tab = "audit" /\ r.stamp > sess'[t].start - limit[1]})
                      < limit[2]
  <2>1. CASE t = s
    BY <2>1, <1>0, <1>1, <1>3, <1>4, <1>5, <1>6, <1>7, <1>8 DEF Recent
  <2>2. CASE t # s
    <3>1. sess'[t] = sess[t] /\ Done(t)' = Done(t) /\ Active(t) BY <2>2, <1>1, <1>9
    <3>2. \A l \in {"walletLock", "lock", "admit"} : Wants(l, sess[t].call)' = Wants(l, sess[t].call)
      BY <3>1 DEF Wants, Advisory
    <3> QED BY <3>1, <3>2, <1>0 DEF Established
  <2> QED BY <2>1, <2>2
<1> QED BY <1>9 DEF Established

LEMMA PassInv ==
  ASSUME IInv, NEW s \in Sessions, NEW new, Passing(s, new)
  PROVE  IInv'
<1>0. /\ Transactions /\ Durable /\ Ordered /\ Relayed /\ Active(s) /\ Before(s) # "commit" /\ Pass(s, new)
      /\ UNCHANGED <<load, clock, rows, revoked, told, relay>>
  BY DEF IInv, Passing, Pass
<1>1. Transactions' /\ Ordered' /\ Exclusive' /\ Established' /\ Written'
  BY <1>0, PassEffect, OrderedPass, PassExclusive, PassEstablished, PassWritten
<1>2. Durable' BY <1>0 DEF Durable
<1>3. Relayed'
  <2>1. \A t \in Sessions : sess'[t].call = sess[t].call BY <1>0, PassEffect
  <2> QED BY <2>1, <1>0 DEF Relayed, Mirrors, Active
<1> QED BY <1>1, <1>2, <1>3 DEF IInv

-----
\* A transaction that ends without a write preserves it, and so does one
\* that begins.

\* What a session has and has established is as it was.
Untouched(t) ==
  /\ sess'[t] = sess[t] /\ (Active(t)' <=> Active(t)) /\ Done(t)' = Done(t)

LEMMA UntouchedWritten ==
  ASSUME Written, NEW t \in Sessions, Active(t), Untouched(t), rows' = rows
  PROVE  /\ sess'[t].call.op \in Inserting =>
              /\ sess'[t].pending = UNION {NewRow(l, sess'[t].call, sess'[t].start) : l \in Done(t)'}
              /\ \A p \in sess'[t].pending, r \in rows' : ~Clash(r, p)
         /\ sess'[t].call.op \in Reading => sess'[t].pending = {}
         /\ sess'[t].call.op \in Turning =>
              IF "row" \in Done(t)'
              THEN \E r \in rows' :
                     /\ Locked(t, r)'
                     /\ sess'[t].pending = IF "update" \in Done(t)'
                                          THEN {[r EXCEPT !.state = Turned(sess'[t].call.op)]} ELSE {}
              ELSE sess'[t].pending = {}
<1>1. \A r : Locked(t, r)' <=> Locked(t, r) BY DEF Locked, Untouched
<1>2. ASSUME sess[t].call.op \in Turning
      PROVE  IF "row" \in Done(t)'
             THEN \E r \in rows' :
                    /\ Locked(t, r)'
                    /\ sess[t].pending = IF "update" \in Done(t)'
                                        THEN {[r EXCEPT !.state = Turned(sess[t].call.op)]} ELSE {}
             ELSE sess[t].pending = {}
  BY <1>1, <1>2 DEF Written, Untouched
<1>3. /\ sess[t].call.op \in Inserting =>
           /\ sess[t].pending = UNION {NewRow(l, sess[t].call, sess[t].start) : l \in Done(t)}
           /\ \A p \in sess[t].pending, r \in rows : ~Clash(r, p)
      /\ sess[t].call.op \in Reading => sess[t].pending = {}
  BY DEF Written
<1>4. sess'[t] = sess[t] /\ Done(t)' = Done(t) BY DEF Untouched
<1> QED BY <1>2, <1>3, <1>4

LEMMA UntouchedEstablished ==
  ASSUME Established, NEW t \in Sessions, Active(t), Untouched(t), rows' = rows, revoked' = revoked
  PROVE  /\ \A l \in {"walletLock", "lock", "admit"} \cap Done(t)' :
              Wants(l, sess[t].call)' \subseteq sess'[t].holds
         /\ "admit" \in Done(t)' => sess'[t].call.w \notin revoked'
         /\ "find" \in Done(t)' => \A r \in rows' : ~Same(r, sess'[t].call)
         /\ "source" \in Done(t)' => Based(sess'[t].call, rows')
         /\ "limit" \in Done(t)' =>
              \A limit \in Limits[sess'[t].call.op] :
                Cardinality({r \in rows' : /\ r.op = sess'[t].call.op /\ r.w = sess'[t].call.w
                                           /\ r.tab = "audit" /\ r.stamp > sess'[t].start - limit[1]})
                  < limit[2]
<1>1. \A l \in {"walletLock", "lock", "admit"} : Wants(l, sess[t].call)' = Wants(l, sess[t].call)
  BY DEF Wants, Advisory, Untouched
<1> QED BY <1>1 DEF Established, Untouched

LEMMA EndRest ==
  ASSUME Transactions, Ordered, Exclusive, NEW s \in Sessions, Ends(s)
  PROVE  /\ Transactions' /\ Ordered' /\ Exclusive'
         /\ sess'[s] = Idle /\ ~Active(s)'
         /\ \A t \in Sessions \ {s} : Untouched(t)
<1>1. /\ Transactions' /\ sess'[s] = Idle /\ ~Active(s)'
      /\ \A t \in Sessions \ {s} : Untouched(t)
  BY EndEffect DEF Untouched
<1>2. Idle.holds = {} /\ Idle.pending = {} /\ Len(Idle.left) = 0 BY DEF Idle
<1>3. Ordered'
  <2> SUFFICES ASSUME NEW t \in Sessions, NEW i \in 1..Len(sess'[t].left), Level(sess'[t].left[i]) # 0
               PROVE  /\ \A l \in sess'[t].holds : LockLevel(l) < Level(sess'[t].left[i])
                      /\ \A p \in sess'[t].pending : RowLevel(p) < Level(sess'[t].left[i])
    BY DEF Ordered
  <2> QED BY <1>1, <1>2 DEF Ordered, Untouched
<1>4. Exclusive'
  <2> SUFFICES ASSUME NEW t \in Sessions, NEW u \in Sessions, t # u
               PROVE  /\ sess'[t].holds \cap sess'[u].holds = {}
                      /\ \A p \in sess'[t].pending, q \in sess'[u].pending : ~Clash(p, q)
    BY DEF Exclusive
  <2>1. CASE t = s \/ u = s BY <2>1, <1>1, <1>2
  <2>2. CASE t # s /\ u # s BY <2>2, <1>1 DEF Exclusive, Untouched
  <2> QED BY <2>1, <2>2
<1> QED BY <1>1, <1>3, <1>4

LEMMA EndInv ==
  ASSUME IInv, NEW s \in Sessions, Ends(s), UNCHANGED <<rows, revoked, relay>>,
         \A c \in told' : c \in told \/ Mirrors(c)
  PROVE  IInv'
<1>0. Transactions /\ Durable /\ Ordered /\ Exclusive /\ Established /\ Written /\ Relayed
  BY DEF IInv
<1>1. /\ Transactions' /\ Ordered' /\ Exclusive'
      /\ \A t \in Sessions : Active(t)' => Active(t) /\ Untouched(t)
  BY <1>0, EndRest DEF Untouched
<1>2. Durable' BY <1>0 DEF Durable, Ends
<1>3. Established' BY <1>0, <1>1, UntouchedEstablished DEF Established
<1>4. Written' BY <1>0, <1>1, UntouchedWritten DEF Written
<1>5. Relayed'
  <2>1. \A e : Mirrors(e)' <=> Mirrors(e) BY DEF Mirrors
  <2> QED BY <2>1, <1>0, <1>1 DEF Relayed, Untouched
<1> QED BY <1>1, <1>2, <1>3, <1>4, <1>5 DEF IInv

LEMMA BeginInv ==
  ASSUME IInv, NEW s \in Sessions, NEW c \in load.calls, Begin(s, c)
  PROVE  IInv'
<1>0. /\ Transactions /\ Durable /\ Ordered /\ Exclusive /\ Established /\ Written /\ Relayed
      /\ UNCHANGED <<load, clock, rows, revoked, told, relay>>
  BY DEF IInv, Begin
<1>1. /\ Transactions' /\ sess'[s].holds = {} /\ sess'[s].pending = {} /\ sess'[s].call = c
      /\ Done(s)' = {}
      /\ \A t \in Sessions \ {s} : Untouched(t)
  <2>1. /\ sess'[s] = [call |-> c, left |-> Statements[c.op], start |-> clock, holds |-> {}, pending |-> {}]
        /\ \A t \in Sessions \ {s} : sess'[t] = sess[t] /\ (Active(t)' <=> Active(t)) /\ Done(t)' = Done(t)
        /\ Done(s)' = {} /\ Transactions'
    BY <1>0, BeginEffect
  <2> QED BY <2>1 DEF Untouched
<1>2. c.op \in Procedures BY <1>0, LoadsOK DEF Durable
<1>3. Ordered'
  <2> SUFFICES ASSUME NEW t \in Sessions, NEW i \in 1..Len(sess'[t].left), Level(sess'[t].left[i]) # 0
               PROVE  /\ \A l \in sess'[t].holds : LockLevel(l) < Level(sess'[t].left[i])
                      /\ \A p \in sess'[t].pending : RowLevel(p) < Level(sess'[t].left[i])
    BY DEF Ordered
  <2> QED BY <1>0, <1>1 DEF Ordered, Untouched
<1>4. Exclusive'
  <2> SUFFICES ASSUME NEW t \in Sessions, NEW u \in Sessions, t # u
               PROVE  /\ sess'[t].holds \cap sess'[u].holds = {}
                      /\ \A p \in sess'[t].pending, q \in sess'[u].pending : ~Clash(p, q)
    BY DEF Exclusive
  <2>1. CASE t = s \/ u = s BY <2>1, <1>1
  <2>2. CASE t # s /\ u # s BY <2>2, <1>0, <1>1 DEF Exclusive, Untouched
  <2> QED BY <2>1, <2>2
<1>5. Durable' BY <1>0 DEF Durable
<1>6. Established'
  <2>1. \A t \in Sessions : t # s /\ Active(t)' => Active(t) /\ Untouched(t)
    BY <1>1 DEF Untouched
  <2> QED BY <2>1, <1>0, <1>1, UntouchedEstablished DEF Established
<1>7. Written'
  <2>1. \A t \in Sessions : t # s /\ Active(t)' => Active(t) /\ Untouched(t)
    BY <1>1 DEF Untouched
  <2> QED BY <2>1, <1>0, <1>1, UntouchedWritten, ZenonT(60) DEF Written
<1>8. Relayed'
  <2>1. \A t \in Sessions : t # s /\ Active(t)' => Active(t) /\ Untouched(t)
    BY <1>1 DEF Untouched
  <2>2. \A e : Mirrors(e)' <=> Mirrors(e) BY <1>0 DEF Mirrors
  <2>3. c.op = "mirrored" => Event(c) \in relay BY DEF Begin, Event
  <2> QED BY <2>1, <2>2, <2>3, <1>0, <1>1 DEF Relayed, Untouched
<1> QED BY <1>1, <1>3, <1>4, <1>5, <1>6, <1>7, <1>8 DEF IInv

-----
\* A commit preserves it.

\* The step, and what it does to the rows.
Committing(s) ==
  /\ Active(s) /\ Before(s) = "commit" /\ sess[s].pending # {} /\ Ends(s)
  /\ rows' = {r \in rows : \A p \in sess[s].pending : ~Clash(r, p)} \cup sess[s].pending
  /\ UNCHANGED <<revoked, relay>>
  /\ \A d \in told' : d \in told \/ (d = sess[s].call /\ d.op = "mirror")

Committed(s) ==
  \/ sess[s].call.op \in Inserting /\ rows' = rows \cup sess[s].pending
  \/ /\ sess[s].call.op \in Turning
     /\ \E r \in rows :
          /\ Locked(s, r) /\ sess[s].pending = {[r EXCEPT !.state = Turned(sess[s].call.op)]}
          /\ rows' = (rows \ {r}) \cup sess[s].pending

LEMMA CommitRows ==
  ASSUME IInv, NEW s \in Sessions, Committing(s)
  PROVE  Committed(s)
<1>0. /\ Transactions /\ Durable /\ Written /\ Active(s) /\ Before(s) = "commit" /\ sess[s].pending # {}
      /\ rows' = {r \in rows : \A p \in sess[s].pending : ~Clash(r, p)} \cup sess[s].pending
  BY DEF IInv, Committing
<1>1. sess[s].call.op \in Procedures /\ Orderly(sess[s].call.op, Plan(s))
  BY <1>0, Position
<1>2. CASE sess[s].call.op \in Inserting
  <2>1. \A p \in sess[s].pending, r \in rows : ~Clash(r, p)
    BY <1>0, <1>2 DEF Written
  <2>2. rows' = rows \cup sess[s].pending BY <1>0, <2>1
  <2> QED BY <1>2, <2>2 DEF Committed
<1>3. CASE sess[s].call.op \in Turning
  <2>1. Has(Plan(s), "update") /\ Precedes(Plan(s), "row", "update")
    BY <1>1, <1>3 DEF Orderly, Turns
  <2>2. "update" \in Done(s) /\ "row" \in Done(s)
    <3>1. "update" \in Done(s) BY <1>0, <2>1, Upcoming
    <3> QED BY <1>0, <2>1, <3>1, Earlier
  <2>3. PICK r \in rows : Locked(s, r) /\ sess[s].pending = {[r EXCEPT !.state = Turned(sess[s].call.op)]}
    BY <1>0, <1>3, <2>2 DEF Written
  <2>4. ASSUME NEW q \in rows PROVE Clash(q, [r EXCEPT !.state = Turned(sess[s].call.op)]) <=> q = r
    <3>1. IsRow(r) /\ IsRow(q) /\ \A x \in rows : Clash(x, r) => x = r
      BY <1>0, <2>4 DEF Durable
    <3>2. Clash(q, [r EXCEPT !.state = Turned(sess[s].call.op)]) <=> Clash(q, r)
      BY <3>1, TurnedVersion, VersionClash, RowTables
    <3>3. Clash(r, r)
      <4>1. r.tab \in DOMAIN Indexes BY <3>1, RowTables
      <4>2. \A tab \in DOMAIN Indexes : Indexes[tab] # {}
        <5>1. /\ Indexes["audit"] # {} /\ Indexes["reservation"] # {} /\ Indexes["mirror"] # {}
              /\ Indexes["binding"] # {} /\ Indexes["promotion"] # {} /\ Indexes["suggestion"] # {}
              /\ Indexes["challenge"] # {} /\ Indexes["receipt"] # {} /\ Indexes["adoption"] # {}
              /\ Indexes["testChallenge"] # {} /\ Indexes["testAdoption"] # {}
          BY DEF Indexes
        <5>2. DOMAIN Indexes = {"audit", "reservation", "mirror", "binding", "promotion", "suggestion",
                                "challenge", "receipt", "adoption", "testChallenge", "testAdoption"}
          BY DEF Indexes
        <5> QED BY <5>1, <5>2
      <4> QED BY <4>1, <4>2 DEF Clash, Agree
    <3> QED BY <3>1, <3>2, <3>3, <2>4
  <2>5. rows' = (rows \ {r}) \cup sess[s].pending BY <1>0, <2>3, <2>4
  <2> QED BY <1>3, <2>3, <2>5 DEF Committed
<1>4. CASE sess[s].call.op \in Reading BY <1>0, <1>4 DEF Written
<1> QED BY <1>1, <1>2, <1>3, <1>4, Kinds

\* What a session writes are rows, and they differ.
LEMMA PendingRows ==
  ASSUME IInv, NEW s \in Sessions, Active(s)
  PROVE  /\ \A p \in sess[s].pending : IsRow(p)
         /\ \A p, q \in sess[s].pending : Clash(p, q) => p = q
         /\ IsFiniteSet(sess[s].pending)
         /\ sess[s].call.op \in Inserting =>
              \A p \in sess[s].pending :
                /\ \E l \in Done(s) : p \in NewRow(l, sess[s].call, sess[s].start)
                /\ "find" \in Done(s)
<1>0. Transactions /\ Durable /\ Written BY DEF IInv
<1>1. /\ sess[s].call.op \in Procedures /\ Orderly(sess[s].call.op, Plan(s))
      /\ sess[s].start \in 0..clock /\ clock \in Nat
  BY <1>0, Position, LoadsOK DEF Durable
<1> DEFINE c == sess[s].call
<1>2. CASE c.op \in Inserting
  <2>1. sess[s].pending = UNION {NewRow(l, c, sess[s].start) : l \in Done(s)}
    BY <1>0, <1>2 DEF Written
  <2>2. ASSUME NEW p \in sess[s].pending
        PROVE  /\ \E l \in Done(s) : p \in NewRow(l, c, sess[s].start)
               /\ "find" \in Done(s)
    <3>1. PICK l \in Done(s) : p \in NewRow(l, c, sess[s].start) BY <2>1, <2>2
    <3>2. l \in {"reserve", "insert"} BY <3>1 DEF NewRow
    <3> QED BY <1>0, <1>2, <3>1, <3>2, Finished
  <2>3. ASSUME NEW p \in sess[s].pending PROVE IsRow(p)
    <3>1. PICK l \in Done(s) : p \in NewRow(l, c, sess[s].start) BY <2>2, <2>3
    <3>2. /\ p = [tab |-> p.tab, op |-> c.op, w |-> c.w, key |-> c.key, req |-> c.req, who |-> c.who,
                 src |-> c.src, event |-> c.event, state |-> p.state, stamp |-> p.stamp]
          /\ p.op = c.op /\ p.w = c.w /\ p.key = c.key /\ p.req = c.req /\ p.who = c.who
          /\ p.src = c.src /\ p.event = c.event /\ p.state = FirstState[TableOf[c.op]]
          /\ p.stamp = Row(c, sess[s].start).stamp
          /\ \/ l = "reserve" /\ p.tab = "reservation"
             \/ l = "insert" /\ p.tab = TableOf[c.op]
      BY <1>1, <3>1, NewRows
    <3>3. p.stamp \in Int BY <3>2, <1>1 DEF Row
    <3>4. l = "reserve" => c.op = "post"
      <4>1. Has(Plan(s), l) BY <1>0, Upcoming
      <4> QED BY <4>1, <1>1, <1>2 DEF Orderly, Inserts
    <3>5. FirstState[TableOf[c.op]] \in States[TableOf[c.op]]
      BY <1>2, Kinds DEF TableOf, FirstState, States
    <3>6. p.state \in States[p.tab]
      BY <3>2, <3>4, <3>5 DEF TableOf, FirstState, States
    <3> QED BY <1>2, <3>2, <3>3, <3>4, <3>6 DEF IsRow
  <2>4. ASSUME NEW p \in sess[s].pending, NEW q \in sess[s].pending, Clash(p, q) PROVE p = q
    <3>1. PICK l \in Done(s), m \in Done(s) :
            p \in NewRow(l, c, sess[s].start) /\ q \in NewRow(m, c, sess[s].start)
      BY <2>2, <2>4
    <3>2. p.tab = q.tab BY <2>4 DEF Clash
    <3>3. l = m BY <1>1, <3>1, <3>2, NewRows, Tables
    <3> QED BY <3>1, <3>3 DEF NewRow
  <2>5. IsFiniteSet(sess[s].pending)
    <3> DEFINE x == [Row(c, sess[s].start) EXCEPT !.tab = "reservation"]
               y == Row(c, sess[s].start)
    <3>1. sess[s].pending \subseteq {x} \cup {y} BY <2>1 DEF NewRow
    <3>2. IsFiniteSet({x} \cup {y})
      <4> HIDE DEF x, y
      <4> QED BY FS_Singleton, FS_AddElement
    <3> QED BY <3>1, <3>2, FS_Subset
  <2> QED BY <2>2, <2>3, <2>4, <2>5
<1>3. CASE c.op \in Turning /\ sess[s].pending # {}
  <2>1. PICK r \in rows : Locked(s, r) /\ sess[s].pending = {[r EXCEPT !.state = Turned(c.op)]}
    BY <1>0, <1>3 DEF Written
  <2> DEFINE turned == [r EXCEPT !.state = Turned(c.op)]
  <2>2. IsRow(r) /\ Hits(r, c) BY <1>0, <2>1 DEF Durable, Locked, Same
  <2>3. Turned(c.op) \in States[r.tab]
    BY <2>2, <1>3, Kinds DEF Hits, TableOf, Turned, Completing, States
  <2>4. IsRow(turned)
    <3>1. /\ turned = [tab |-> r.tab, op |-> r.op, w |-> r.w, key |-> r.key, req |-> r.req, who |-> r.who,
                  src |-> r.src, event |-> r.event, state |-> Turned(c.op), stamp |-> r.stamp]
          /\ turned.tab = r.tab /\ turned.op = r.op /\ turned.w = r.w /\ turned.key = r.key /\ turned.req = r.req
          /\ turned.who = r.who /\ turned.src = r.src /\ turned.event = r.event /\ turned.stamp = r.stamp
          /\ turned.state = Turned(c.op)
      BY <2>2, TurnedRow
    <3> HIDE DEF turned
    <3> QED BY <3>1, <2>2, <2>3 DEF IsRow
  <2> QED
    <3>1. sess[s].pending = {turned} BY <2>1
    <3> HIDE DEF turned
    <3>2. IsFiniteSet(sess[s].pending) BY <3>1, FS_Singleton
    <3> QED BY <1>3, <2>4, <3>1, <3>2, Kinds
<1>4. CASE sess[s].pending = {} BY <1>4, FS_EmptySet
<1>5. CASE c.op \in Reading BY <1>0, <1>4, <1>5 DEF Written
<1> QED BY <1>1, <1>2, <1>3, <1>4, <1>5, Kinds

\* Rows stay, and what is published or consumed stays so.
Evolves ==
  \A r \in rows : \E q \in rows' :
    Version(r, q) /\ (r.state \in {"published", "consumed"} => q.state = r.state)

LEMMA CommitEvolves ==
  ASSUME IInv, NEW s \in Sessions, Committing(s)
  PROVE  Evolves
<1>0. Committed(s) BY CommitRows
<1>1. \A r \in rows : Version(r, r) BY DEF Version, Agree
<1>2. CASE rows' = rows \cup sess[s].pending BY <1>1, <1>2 DEF Evolves
<1>3. CASE sess[s].call.op \in Turning
  <2>1. PICK r \in rows :
          /\ Locked(s, r) /\ sess[s].pending = {[r EXCEPT !.state = Turned(sess[s].call.op)]}
          /\ rows' = (rows \ {r}) \cup sess[s].pending
    BY <1>0, <1>3, Kinds DEF Committed
  <2>2. Version(r, [r EXCEPT !.state = Turned(sess[s].call.op)])
    BY TurnedVersion DEF IInv, Durable
  <2> QED BY <1>1, <2>1, <2>2 DEF Evolves, Locked
<1> QED BY <1>0, <1>2, <1>3 DEF Committed

\* So what a write builds on stays.
LEMMA BasedStays ==
  ASSUME Evolves, NEW c, Based(c, rows)
  PROVE  Based(c, rows')
<1>1. ASSUME NEW r \in rows
      PROVE  \E q \in rows' :
               /\ q.tab = r.tab /\ q.op = r.op /\ q.w = r.w /\ q.key = r.key /\ q.req = r.req
               /\ q.who = r.who /\ q.src = r.src /\ q.event = r.event
               /\ r.state \in {"published", "consumed"} => q.state = r.state
  BY <1>1 DEF Evolves, Version, Agree
<1>2. \A e : Published(rows, e) => Published(rows', e) BY <1>1 DEF Published
<1>3. CASE c.op = "comment" BY <1>1, <1>3 DEF Based
<1>4. CASE c.op \in {"mirror", "promote"} BY <1>1, <1>4 DEF Based
<1>5. CASE c.op = "bind"
  <2>1. PICK r \in rows : r.tab = "mirror" /\ Agree(r, c, {"w", "key", "event"}) /\ r.state = "published"
    BY <1>5 DEF Based
  <2>2. PICK q \in rows' : q.tab = "mirror" /\ q.w = r.w /\ q.key = r.key /\ q.event = r.event /\ q.state = "published"
    BY <1>1, <2>1
  <2>3. Agree(q, c, {"w", "key", "event"}) BY <2>1, <2>2 DEF Agree
  <2> QED BY <1>5, <2>2, <2>3 DEF Based
<1>6. CASE c.op = "suggest" BY <1>1, <1>6 DEF Based
<1>7. CASE c.op \in {"challenge", "testChallenge"} BY <1>2, <1>7 DEF Based
<1>8. CASE c.op = "store" BY <1>1, <1>8 DEF Based
<1>9. CASE c.op = "adopt"
  <2>1. Published(rows', c.key) BY <1>2, <1>9 DEF Based
  <2>2. PICK r \in rows, q \in rows : /\ r.tab = "receipt" /\ r.key = c.src /\ r.who = c.who
                                     /\ q.tab = "challenge" /\ q.key = r.src /\ q.src = c.key
    BY <1>9 DEF Based
  <2>3. PICK r1 \in rows' : r1.tab = "receipt" /\ r1.key = c.src /\ r1.who = c.who /\ r1.src = r.src
    BY <1>1, <2>2
  <2>4. PICK q1 \in rows' : q1.tab = "challenge" /\ q1.key = r.src /\ q1.src = c.key
    BY <1>1, <2>2
  <2> QED BY <1>9, <2>1, <2>3, <2>4 DEF Based
<1>10. CASE c.op = "testAdopt" BY <1>1, <1>2, <1>10 DEF Based
<1> QED BY <1>3, <1>4, <1>5, <1>6, <1>7, <1>8, <1>9, <1>10 DEF Based

LEMMA BasedFields ==
  ASSUME NEW c, NEW d, Agree(c, d, {"op", "w", "key", "req", "who", "src", "event"}), NEW Q, Based(c, Q)
  PROVE  Based(d, Q)
<1>1. /\ c.op = d.op /\ c.w = d.w /\ c.key = d.key /\ c.req = d.req /\ c.who = d.who /\ c.src = d.src
      /\ c.event = d.event
  BY DEF Agree
<1> QED BY <1>1 DEF Based, Agree

\* The table of a row that is turned holds no rationed writes.
LEMMA TurnedTable ==
  ASSUME NEW r, IsRow(r), NEW c, c.op \in Turning, Hits(r, c)
  PROVE  /\ r.tab = TableOf[c.op] /\ r.tab \notin {"audit", "reservation"}
         /\ r.op \notin {"post", "comment"}
<1>1. r.tab = TableOf[c.op] BY DEF Hits
<1>2. TableOf[c.op] \in {"mirror", "promotion", "suggestion", "challenge", "testChallenge"}
  BY Kinds DEF TableOf
<1>3. TableOf["post"] = "audit" /\ TableOf["comment"] = "audit" BY DEF TableOf
<1> QED BY <1>1, <1>2, <1>3 DEF IsRow

\* Who inserts has inserted its row when it commits.
LEMMA Inserted ==
  ASSUME IInv, NEW s \in Sessions, Committing(s), sess[s].call.op \in Inserting
  PROVE  /\ Row(sess[s].call, sess[s].start) \in sess[s].pending
         /\ "insert" \in Done(s) /\ "find" \in Done(s)
<1>1. Transactions /\ Durable /\ Written /\ Active(s) /\ Before(s) = "commit"
  BY DEF IInv, Committing
<1>2. "insert" \in Done(s)
  <2>1. Has(Plan(s), "insert") BY <1>1, Position DEF Orderly, Inserts
  <2> QED BY <1>1, <2>1, Upcoming
<1>3. sess[s].pending = UNION {NewRow(l, sess[s].call, sess[s].start) : l \in Done(s)}
  BY <1>1 DEF Written
<1>4. NewRow("insert", sess[s].call, sess[s].start) = {Row(sess[s].call, sess[s].start)}
  BY DEF NewRow
<1> QED BY <1>1, <1>2, <1>3, <1>4, Finished

\* The rows that a commit adds: what its call inserts, or the turned row.
LEMMA Added ==
  ASSUME IInv, NEW s \in Sessions, Committing(s), NEW q \in rows'
  PROVE  \/ q \in rows
         \/ /\ sess[s].call.op \in Inserting /\ q \in sess[s].pending
            /\ \E l \in Done(s) : q \in NewRow(l, sess[s].call, sess[s].start)
         \/ /\ sess[s].call.op \in Turning
            /\ \E r \in rows : Locked(s, r) /\ Version(r, q) /\ q.state = Turned(sess[s].call.op)
<1>1. Durable /\ Active(s) BY DEF IInv, Committing
<1>2. Committed(s) BY CommitRows
<1>3. CASE sess[s].call.op \in Inserting
  <2>1. \A p \in sess[s].pending : \E l \in Done(s) : p \in NewRow(l, sess[s].call, sess[s].start)
    BY <1>1, <1>3, PendingRows
  <2> QED BY <1>2, <1>3, <2>1, Kinds DEF Committed
<1>4. CASE sess[s].call.op \in Turning
  <2>1. PICK r \in rows :
          /\ Locked(s, r) /\ sess[s].pending = {[r EXCEPT !.state = Turned(sess[s].call.op)]}
          /\ rows' = (rows \ {r}) \cup sess[s].pending
    BY <1>2, <1>4, Kinds DEF Committed
  <2>2. IsRow(r) BY <1>1 DEF Durable
  <2>3. CASE q = [r EXCEPT !.state = Turned(sess[s].call.op)]
    BY <1>4, <2>1, <2>2, <2>3, TurnedVersion
  <2> QED BY <2>1, <2>3
<1> QED BY <1>2, <1>3, <1>4 DEF Committed

\* The limits hold with the rows that a commit adds.
LEMMA CommitLimits ==
  ASSUME IInv, NEW s \in Sessions, Committing(s)
  PROVE  InLimits({r \in rows' : r.tab # "reservation"})
<1>0. /\ Transactions /\ Durable /\ Written /\ Established /\ Active(s) /\ Before(s) = "commit"
      /\ Committed(s)
  BY CommitRows DEF IInv, Committing
<1> DEFINE c == sess[s].call
           T == {r \in rows : r.tab # "reservation"}
           U == {r \in rows' : r.tab # "reservation"}
           n == Row(c, sess[s].start)
<1>1. /\ c.op \in Procedures /\ Orderly(c.op, Plan(s)) /\ sess[s].start \in Int
      /\ InLimits(T) /\ IsFiniteSet(rows)
  BY <1>0, Position, LoadsOK DEF Durable
<1> SUFFICES ASSUME NEW w \in Wallets, NEW kind \in {"post", "comment"}, NEW limit \in Limits[kind],
                    NEW first \in {r \in U : r.op = kind /\ r.w = w}
             PROVE  Cardinality({r \in {r \in U : r.op = kind /\ r.w = w} :
                                   r.stamp \in first.stamp..(first.stamp + limit[1] - 1)}) <= limit[2]
  BY DEF InLimits
<1> DEFINE old == {r \in T : r.op = kind /\ r.w = w}
           now == {r \in U : r.op = kind /\ r.w = w}
           In(Q) == {r \in Q : r.stamp \in first.stamp..(first.stamp + limit[1] - 1)}
<1>2. limit[1] \in Nat \ {0} /\ limit[2] \in Nat BY LimitsOK
<1>3. first \in old => Cardinality(In(old)) <= limit[2] BY <1>1 DEF InLimits
<1>4. /\ n.stamp = IF c.op \in {"post", "comment"} THEN sess[s].start ELSE 0
      /\ n.op = c.op /\ n.w = c.w
  BY DEF Row
<1>5. \/ now = old
      \/ c.op = kind /\ c.w = w /\ now = old \cup {n}
  <2>1. CASE c.op \in Inserting
    <3>1. rows' = rows \cup sess[s].pending /\ n \in sess[s].pending
      BY <1>0, <2>1, Kinds, Inserted DEF Committed
    <3>2. \A p \in sess[s].pending : /\ p.op = c.op /\ p.w = c.w
                                     /\ p.tab = "reservation" \/ (p = n /\ p.tab # "reservation")
      <4> TAKE p \in sess[s].pending
      <4>1. PICK l \in Done(s) : p \in NewRow(l, c, sess[s].start)
        BY <1>0, <2>1, PendingRows
      <4> QED BY <1>1, <4>1, NewRows, Tables
    <3>3. n.tab # "reservation" BY <1>1, Tables DEF Row
    <3> HIDE DEF n
    <3> QED BY <1>4, <3>1, <3>2, <3>3
  <2>2. CASE c.op \in Turning
    <3>1. PICK r \in rows :
            /\ Locked(s, r) /\ sess[s].pending = {[r EXCEPT !.state = Turned(c.op)]}
            /\ rows' = (rows \ {r}) \cup sess[s].pending
      BY <1>0, <2>2, Kinds DEF Committed
    <3> DEFINE q == [r EXCEPT !.state = Turned(c.op)]
    <3>2. IsRow(r) /\ Hits(r, c) BY <1>0, <3>1 DEF Durable, Locked, Same
    <3>3. r.op \notin {"post", "comment"} /\ q.op = r.op
      BY <2>2, <3>2, TurnedTable, TurnedRow
    <3>4. rows' = (rows \ {r}) \cup {q} BY <3>1
    <3> HIDE DEF q
    <3> QED BY <3>3, <3>4
  <2> QED BY <1>0, <2>1, <2>2 DEF Committed
<1>6. CASE now = old BY <1>3, <1>6
<1>7. CASE c.op = kind /\ c.w = w /\ now = old \cup {n}
  <2>1. n.stamp = sess[s].start BY <1>4, <1>7
  <2>2. CASE n \notin In(now)
    <3>1. first \in old
      <4>1. first.stamp \in Int
        <5>1. \A r \in old : r.stamp \in Int BY <1>0 DEF Durable, IsRow
        <5> QED BY <5>1, <2>1, <1>1, <1>7
      <4> HIDE DEF old, n
      <4> QED BY <2>2, <1>2, <1>7, <4>1
    <3>2. In(now) = In(old)
      <4> HIDE DEF old, n, now
      <4> QED BY <2>2, <1>7
    <3> QED BY <1>3, <3>1, <3>2
  <2>3. CASE n \in In(now)
    <3>1. In(old) \subseteq Recent(s, limit[1])
      <4> SUFFICES ASSUME NEW r \in In(old) PROVE r \in Recent(s, limit[1])
        OBVIOUS
      <4>1. r \in rows /\ r.op = c.op /\ r.w = c.w /\ r.tab # "reservation" BY <1>7
      <4>2. r.tab = "audit" /\ r.stamp \in Int
        BY <4>1, <1>0, <1>7 DEF Durable, IsRow, TableOf
      <4>3. first.stamp \in Int
        <5>1. \A z \in old : z.stamp \in Int BY <1>0 DEF Durable, IsRow
        <5> QED BY <5>1, <2>1, <1>1, <1>7
      <4>4. r.stamp > sess[s].start - limit[1]
        <5>1. /\ r.stamp >= first.stamp
              /\ sess[s].start <= first.stamp + limit[1] - 1
          BY <2>1, <2>3, <4>2, <4>3, <1>1, <1>2
        <5> QED BY <5>1, <4>2, <4>3, <1>1, <1>2
      <4> QED BY <4>1, <4>2, <4>4 DEF Recent
    <3>2. IsFiniteSet(Recent(s, limit[1]))
      <4>1. Recent(s, limit[1]) \subseteq rows BY DEF Recent
      <4> QED BY <1>1, <4>1, FS_Subset
    <3>3. Cardinality(Recent(s, limit[1])) < limit[2]
      <4>1. c.op \in Inserting BY <1>7, Kinds
      <4>2. "insert" \in Done(s) /\ Precedes(Plan(s), "limit", "insert")
        BY <1>1, <1>7, <4>1, Inserted DEF Orderly, Inserts
      <4>3. "limit" \in Done(s) BY <1>0, <4>2, Earlier
      <4> QED BY <1>0, <1>7, <4>3 DEF Established, Recent
    <3>4. In(now) \subseteq Recent(s, limit[1]) \cup {n}
      <4> HIDE DEF old, n, now
      <4> QED BY <1>7, <3>1
    <3>5. /\ IsFiniteSet(Recent(s, limit[1]) \cup {n})
          /\ Cardinality(Recent(s, limit[1]) \cup {n}) <= Cardinality(Recent(s, limit[1])) + 1
          /\ Cardinality(Recent(s, limit[1])) \in Nat
      <4> HIDE DEF n
      <4>1. Cardinality(Recent(s, limit[1])) \in Nat BY <3>2, FS_CardinalityType
      <4>2. /\ IsFiniteSet(Recent(s, limit[1]) \cup {n})
            /\ Cardinality(Recent(s, limit[1]) \cup {n})
                 = IF n \in Recent(s, limit[1]) THEN Cardinality(Recent(s, limit[1]))
                                               ELSE Cardinality(Recent(s, limit[1])) + 1
        BY <3>2, FS_AddElement
      <4> QED BY <4>1, <4>2
    <3>6. /\ Cardinality(In(now)) <= Cardinality(Recent(s, limit[1]) \cup {n})
          /\ Cardinality(In(now)) \in Nat
          /\ Cardinality(Recent(s, limit[1]) \cup {n}) \in Nat
      <4> HIDE DEF n, now
      <4> QED BY <3>4, <3>5, FS_Subset, FS_CardinalityType
    <3> QED BY <3>3, <3>5, <3>6, <1>2
  <2> QED BY <2>2, <2>3
<1> QED BY <1>5, <1>6, <1>7

LEMMA CommitDurable ==
  ASSUME IInv, NEW s \in Sessions, Committing(s)
  PROVE  Durable'
<1>0. /\ Transactions /\ Durable /\ Written /\ Established /\ Active(s) /\ Before(s) = "commit"
      /\ load' = load /\ clock' = clock
      /\ rows' = {r \in rows : \A p \in sess[s].pending : ~Clash(r, p)} \cup sess[s].pending
  BY DEF IInv, Committing, Ends
<1> DEFINE c == sess[s].call
<1>1. /\ c.op \in Procedures /\ Orderly(c.op, Plan(s)) /\ sess[s].start \in 0..clock
      /\ Evolves /\ clock \in Nat
  BY <1>0, Position, CommitEvolves, LoadsOK DEF Durable
<1>2. IsFiniteSet(rows')
  <2>1. IsFiniteSet(rows) /\ IsFiniteSet(sess[s].pending)
    BY <1>0, PendingRows DEF Durable
  <2>2. IsFiniteSet(rows \cup sess[s].pending) /\ rows' \subseteq rows \cup sess[s].pending
    BY <1>0, <2>1, FS_Union
  <2> QED BY <2>2, FS_Subset
<1>3. \A r \in rows' : IsRow(r) BY <1>0, PendingRows DEF Durable
<1>4. \A r, q \in rows' : Clash(r, q) => r = q
  BY <1>0, PendingRows, ClashBothWays DEF Durable
<1>5. ASSUME NEW r \in rows', r.op \in Builders PROVE Based(r, rows')
  <2> SUFFICES Based(r, rows)
    BY <1>1, BasedStays
  <2>1. CASE r \in rows BY <2>1, <1>0, <1>5 DEF Durable
  <2>2. CASE c.op \in Inserting /\ \E l \in Done(s) : r \in NewRow(l, c, sess[s].start)
    <3>1. PICK l \in Done(s) : r \in NewRow(l, c, sess[s].start) BY <2>2
    <3>2. Agree(c, r, {"op", "w", "key", "req", "who", "src", "event"}) /\ r.op = c.op
      BY <1>1, <3>1, NewRows DEF Agree
    <3>3. c.op # "post" /\ "insert" \in Done(s)
      BY <1>5, <2>2, <3>2, Inserted DEF Builders
    <3>4. Precedes(Plan(s), "source", "insert")
      BY <1>1, <2>2, <3>3 DEF Orderly, Inserts
    <3>5. "source" \in Done(s) BY <1>0, <3>3, <3>4, Earlier
    <3> QED BY <1>0, <3>2, <3>5, BasedFields DEF Established
  <2>3. CASE \E q \in rows : Version(q, r)
    <3>1. PICK q \in rows : Version(q, r) BY <2>3
    <3>2. Agree(q, r, {"op", "w", "key", "req", "who", "src", "event"}) /\ r.op = q.op
      BY <3>1 DEF Version, Agree
    <3>3. Based(q, rows) BY <1>0, <1>5, <3>2 DEF Durable
    <3> QED BY <3>2, <3>3, BasedFields
  <2> QED BY <2>1, <2>2, <2>3, Added
<1>6. ASSUME NEW r \in rows', r.tab = "reservation"
      PROVE  \E q \in rows' : q.tab = "audit" /\ Agree(q, r, {"op", "w", "req"})
  <2>1. CASE r \in rows
    <3>1. PICK q \in rows : q.tab = "audit" /\ Agree(q, r, {"op", "w", "req"})
      BY <2>1, <1>0, <1>6 DEF Durable
    <3>2. PICK z \in rows' : Version(q, z) BY <1>1 DEF Evolves
    <3> QED BY <3>1, <3>2 DEF Version, Agree
  <2>2. CASE c.op \in Inserting /\ \E l \in Done(s) : r \in NewRow(l, c, sess[s].start)
    <3>1. PICK l \in Done(s) : r \in NewRow(l, c, sess[s].start) BY <2>2
    <3>2. l = "reserve" /\ r.op = c.op /\ r.w = c.w /\ r.req = c.req
      BY <1>1, <1>6, <3>1, NewRows, Tables
    <3>3. c.op = "post"
      <4>1. Has(Plan(s), "reserve") BY <1>0, <3>1, <3>2, Upcoming
      <4> QED BY <4>1, <1>1, <2>2 DEF Orderly, Inserts
    <3>4. Row(c, sess[s].start) \in rows' BY <1>0, <2>2, Inserted
    <3>5. Row(c, sess[s].start).tab = "audit" BY <3>3 DEF Row, TableOf
    <3>6. Agree(Row(c, sess[s].start), r, {"op", "w", "req"}) BY <3>2 DEF Row, Agree
    <3> QED BY <3>4, <3>5, <3>6
  <2>3. CASE c.op \in Turning /\ \E q \in rows : Locked(s, q) /\ Version(q, r)
    <3>1. PICK q \in rows : Locked(s, q) /\ Version(q, r) BY <2>3
    <3>2. q.tab = "reservation" /\ Hits(q, c) /\ IsRow(q)
      BY <1>0, <1>6, <3>1 DEF Version, Agree, Locked, Same, Durable
    <3> QED BY <2>3, <3>2, TurnedTable
  <2> QED BY <2>1, <2>2, <2>3, Added
<1>7. InLimits({r \in rows' : r.tab # "reservation"}) BY CommitLimits
<1>8. load' \in Loads /\ clock' \in 0..load'.until BY <1>0 DEF Durable
<1> QED BY <1>2, <1>3, <1>4, <1>5, <1>6, <1>7, <1>8 DEF Durable

\* What another session relies on stays true.
LEMMA CommitEstablished ==
  ASSUME IInv, NEW s \in Sessions, Committing(s)
  PROVE  Established'
<1>0. /\ Transactions /\ Durable /\ Ordered /\ Exclusive /\ Established /\ Active(s) /\ Ends(s)
      /\ revoked' = revoked /\ Evolves
  BY CommitEvolves DEF IInv, Committing
<1>1. ~Active(s)' /\ \A t \in Sessions \ {s} : Untouched(t) BY <1>0, EndRest
<1> DEFINE c == sess[s].call
<1> SUFFICES ASSUME NEW t \in Sessions \ {s}, Active(t)
             PROVE  /\ \A l \in {"walletLock", "lock", "admit"} \cap Done(t)' :
                         Wants(l, sess[t].call)' \subseteq sess'[t].holds
                    /\ "admit" \in Done(t)' => sess'[t].call.w \notin revoked'
                    /\ "find" \in Done(t)' => \A r \in rows' : ~Same(r, sess'[t].call)
                    /\ "source" \in Done(t)' => Based(sess'[t].call, rows')
                    /\ "limit" \in Done(t)' =>
                         \A limit \in Limits[sess'[t].call.op] :
                           Cardinality({r \in rows' : /\ r.op = sess'[t].call.op /\ r.w = sess'[t].call.w
                                                      /\ r.tab = "audit" /\ r.stamp > sess'[t].start - limit[1]})
                             < limit[2]
  BY <1>1 DEF Established, Untouched
<1> DEFINE d == sess[t].call
<1>2. sess'[t] = sess[t] /\ Done(t)' = Done(t) BY <1>1 DEF Untouched
<1>3. \A l \in {"walletLock", "lock", "admit"} : Wants(l, d)' = Wants(l, d)
  BY <1>2 DEF Wants, Advisory
<1>4. /\ c.op \in Procedures /\ d.op \in Procedures /\ Orderly(d.op, Plan(t))
      /\ \A a \in Done(t) : Has(Plan(t), a)
  BY <1>0, Position, Upcoming
<1>5. ASSUME "find" \in Done(t), NEW q \in rows', Same(q, d) PROVE FALSE
  <2>1. \A r \in rows : ~Same(r, d) BY <1>0, <1>5 DEF Established
  <2>2. CASE c.op \in Inserting /\ \E l \in Done(s) : q \in NewRow(l, c, sess[s].start)
    <3>1. d.op \in Inserting
      <4>1. Has(Plan(t), "find") BY <1>4, <1>5
      <4>2. d.op \notin Turning /\ d.op \notin Reading
        BY <4>1, <1>4 DEF Orderly, Turns, Reads
      <4> QED BY <4>2, <1>4, Kinds
    <3>2. Agree(q, d, {"op", "w", "key", "req", "who", "src", "event"})
      BY <1>5, <3>1, SameFields
    <3>3. Agree(c, d, {"op", "w", "key", "req", "who", "src"})
      BY <1>4, <2>2, <3>2, NewRows DEF Agree
    <3>4. "find" \in Done(s) BY <2>2, Inserted
    <3>5. /\ Wants(GuardOf(c.op), c) = Wants(GuardOf(d.op), d)
          /\ Wants(GuardOf(c.op), c) # {}
      BY <2>2, <3>3, SameGuard
    <3> QED BY <1>0, <1>5, <2>2, <3>1, <3>4, <3>5, OneGuard
  <2>3. CASE \E r \in rows : Version(r, q) BY <1>4, <1>5, <2>1, <2>3, VersionHits
  <2> QED BY <1>5, <2>1, <2>2, <2>3, Added
<1>6. ASSUME "limit" \in Done(t), NEW limit \in Limits[d.op]
      PROVE  Cardinality({r \in rows' : r.op = d.op /\ r.w = d.w /\ r.tab = "audit"
                                        /\ r.stamp > sess[t].start - limit[1]}) < limit[2]
  <2>1. d.op \in {"post", "comment"} /\ d.op \in Inserting
    BY <1>4, <1>6, Kinds DEF Orderly
  <2>2. ASSUME NEW q \in rows', q.op = d.op, q.w = d.w PROVE q \in rows
    <3>1. CASE c.op \in Inserting /\ \E l \in Done(s) : q \in NewRow(l, c, sess[s].start)
      <4>1. c.op = d.op /\ c.w = d.w BY <1>4, <2>2, <3>1, NewRows
      <4>2. "find" \in Done(s) /\ "find" \in Done(t)
        BY <1>0, <1>6, <2>1, <3>1, Inserted, Finished
      <4>3. /\ Wants(GuardOf(c.op), c) = Wants(GuardOf(d.op), d)
            /\ Wants(GuardOf(c.op), c) # {}
        BY <2>1, <4>1, WalletGuard
      <4> QED BY <1>0, <2>1, <3>1, <4>2, <4>3, OneGuard
    <3>2. CASE c.op \in Turning /\ \E r \in rows : Locked(s, r) /\ Version(r, q)
      <4>1. PICK r \in rows : Locked(s, r) /\ Version(r, q) BY <3>2
      <4>2. IsRow(r) /\ Hits(r, c) /\ q.op = r.op
        BY <1>0, <4>1 DEF Durable, Locked, Same, Version, Agree
      <4> QED BY <2>1, <2>2, <3>2, <4>2, TurnedTable
    <3> QED BY <2>2, <3>1, <3>2, Added
  <2>3. ASSUME NEW q \in rows, q.op = d.op, q.w = d.w PROVE q \in rows'
    <3>1. CASE c.op \in Turning
      <4>1. PICK r \in rows : Locked(s, r) /\ rows' = (rows \ {r}) \cup sess[s].pending
        BY <3>1, Kinds, CommitRows DEF Committed
      <4>2. IsRow(r) /\ Hits(r, c) BY <1>0, <4>1 DEF Durable, Locked, Same
      <4>3. q # r BY <2>1, <2>3, <3>1, <4>2, TurnedTable
      <4> QED BY <4>1, <4>3
    <3> QED BY <3>1, CommitRows DEF Committed
  <2>4. {r \in rows' : r.op = d.op /\ r.w = d.w /\ r.tab = "audit" /\ r.stamp > sess[t].start - limit[1]}
          = {r \in rows : r.op = d.op /\ r.w = d.w /\ r.tab = "audit" /\ r.stamp > sess[t].start - limit[1]}
    BY <2>2, <2>3
  <2> QED BY <1>0, <1>6, <2>4 DEF Established
<1>7. /\ \A l \in {"walletLock", "lock", "admit"} \cap Done(t) : Wants(l, d) \subseteq sess[t].holds
      /\ "admit" \in Done(t) => d.w \notin revoked
      /\ "source" \in Done(t) => Based(d, rows')
  BY <1>0, BasedStays DEF Established
<1> QED BY <1>0, <1>2, <1>3, <1>5, <1>6, <1>7

\* What another session has written fits what is committed.
LEMMA CommitWritten ==
  ASSUME IInv, NEW s \in Sessions, Committing(s)
  PROVE  Written'
<1>0. /\ Transactions /\ Durable /\ Ordered /\ Exclusive /\ Written /\ Active(s) /\ Ends(s) /\ Committed(s)
      /\ rows' = {r \in rows : \A p \in sess[s].pending : ~Clash(r, p)} \cup sess[s].pending
  BY CommitRows DEF IInv, Committing
<1>1. ~Active(s)' /\ \A t \in Sessions \ {s} : Untouched(t) BY <1>0, EndRest
<1> SUFFICES ASSUME NEW t \in Sessions \ {s}, Active(t)
             PROVE  /\ sess'[t].call.op \in Inserting =>
                         /\ sess'[t].pending = UNION {NewRow(l, sess'[t].call, sess'[t].start) : l \in Done(t)'}
                         /\ \A p \in sess'[t].pending, r \in rows' : ~Clash(r, p)
                    /\ sess'[t].call.op \in Reading => sess'[t].pending = {}
                    /\ sess'[t].call.op \in Turning =>
                         IF "row" \in Done(t)'
                         THEN \E r \in rows' :
                                /\ Locked(t, r)'
                                /\ sess'[t].pending = IF "update" \in Done(t)'
                                                     THEN {[r EXCEPT !.state = Turned(sess'[t].call.op)]} ELSE {}
                         ELSE sess'[t].pending = {}
  BY <1>1 DEF Written, Untouched
<1>2. sess'[t] = sess[t] /\ Done(t)' = Done(t) BY <1>1 DEF Untouched
<1>3. ASSUME sess[t].call.op \in Inserting
      PROVE  /\ sess[t].pending = UNION {NewRow(l, sess[t].call, sess[t].start) : l \in Done(t)}
             /\ \A p \in sess[t].pending, r \in rows' : ~Clash(r, p)
  <2>1. /\ sess[t].pending = UNION {NewRow(l, sess[t].call, sess[t].start) : l \in Done(t)}
        /\ \A p \in sess[t].pending, r \in rows : ~Clash(r, p)
    BY <1>0, <1>3 DEF Written
  <2>2. \A p \in sess[t].pending, r \in sess[s].pending : ~Clash(r, p)
    BY <1>0 DEF Exclusive
  <2> QED BY <1>0, <2>1, <2>2
<1>4. sess[t].call.op \in Reading => sess[t].pending = {} BY <1>0 DEF Written
<1>5. ASSUME sess[t].call.op \in Turning
      PROVE  IF "row" \in Done(t)
             THEN \E r \in rows' :
                    /\ Locked(t, r)'
                    /\ sess[t].pending = IF "update" \in Done(t)
                                        THEN {[r EXCEPT !.state = Turned(sess[t].call.op)]} ELSE {}
             ELSE sess[t].pending = {}
  <2>1. CASE "row" \notin Done(t) BY <1>0, <1>5, <2>1 DEF Written
  <2>2. CASE "row" \in Done(t)
    <3>1. PICK r \in rows :
            /\ Locked(t, r)
            /\ sess[t].pending = IF "update" \in Done(t)
                                THEN {[r EXCEPT !.state = Turned(sess[t].call.op)]} ELSE {}
      BY <1>0, <1>5, <2>2 DEF Written
    <3>2. r \in rows'
      <4>1. CASE sess[s].call.op \in Turning
        <5>1. PICK q \in rows : Locked(s, q) /\ rows' = (rows \ {q}) \cup sess[s].pending
          BY <1>0, <4>1, Kinds DEF Committed
        <5>2. r # q BY <1>0, <3>1, <5>1 DEF Locked, Exclusive
        <5> QED BY <5>1, <5>2
      <4> QED BY <1>0, <4>1 DEF Committed
    <3>3. Locked(t, r)' BY <3>1, <1>2 DEF Locked
    <3> QED BY <2>2, <3>1, <3>2, <3>3
  <2> QED BY <2>1, <2>2
<1> QED BY <1>2, <1>3, <1>4, <1>5, SMTT(40)

\* What is told or published is committed, and what is committed as
\* published was published.
LEMMA CommitRelayed ==
  ASSUME IInv, NEW s \in Sessions, Committing(s)
  PROVE  Relayed'
<1>0. /\ Transactions /\ Durable /\ Ordered /\ Exclusive /\ Relayed /\ Active(s) /\ Ends(s)
      /\ relay' = relay /\ Evolves
      /\ \A d \in told' : d \in told \/ (d = sess[s].call /\ d.op = "mirror")
      /\ sess[s].pending \subseteq rows'
  BY CommitEvolves DEF IInv, Committing
<1>1. \A t \in Sessions : Active(t)' => Active(t) /\ sess'[t] = sess[t]
  BY <1>0, EndRest DEF Untouched
<1> DEFINE c == sess[s].call
<1>2. c.op \in Procedures BY <1>0, Position
<1>3. ASSUME NEW e, Mirrors(e) PROVE Mirrors(e)'
  <2>1. PICK r \in rows : r.tab = "mirror" /\ Agree(r, e, {"w", "key", "event"})
    BY <1>3 DEF Mirrors
  <2>2. PICK q \in rows' : Version(r, q) BY <1>0 DEF Evolves
  <2>3. q.tab = "mirror" /\ Agree(q, e, {"w", "key", "event"})
    BY <2>1, <2>2 DEF Version, Agree
  <2> QED BY <2>3 DEF Mirrors
<1>4. ASSUME NEW d, d = c, d.op = "mirror" PROVE Mirrors(d)'
  <2>1. Row(d, sess[s].start) \in rows' BY <1>0, <1>4, Inserted, Kinds
  <2>2. Row(d, sess[s].start).tab = "mirror" BY <1>4 DEF Row, TableOf
  <2>3. Agree(Row(d, sess[s].start), d, {"w", "key", "event"}) BY DEF Row, Agree
  <2> QED BY <2>1, <2>2, <2>3 DEF Mirrors
<1>5. ASSUME NEW q \in rows', q.tab = "mirror", q.state = "published" PROVE Event(q) \in relay
  <2>1. CASE q \in rows BY <1>0, <1>5, <2>1 DEF Relayed
  <2>2. CASE c.op \in Inserting /\ \E l \in Done(s) : q \in NewRow(l, c, sess[s].start)
    <3>1. q.state = FirstState[TableOf[c.op]] /\ TableOf[c.op] = "mirror"
      BY <1>2, <1>5, <2>2, NewRows
    <3> QED BY <1>5, <3>1 DEF FirstState
  <2>3. CASE c.op \in Turning /\ \E r \in rows : Locked(s, r) /\ Version(r, q)
    <3>1. PICK r \in rows : Same(r, c) /\ Version(r, q) BY <2>3 DEF Locked
    <3>2. TableOf[c.op] = "mirror" BY <1>5, <3>1 DEF Version, Agree, Same, Hits
    <3>3. c.op = "mirrored" BY <2>3, <3>2, Kinds DEF TableOf
    <3>4. r.w = c.w /\ r.event = c.event /\ r.key = c.key
      <4>1. Agree(r, c, {"w", "req", "event"})
        BY <3>1, <3>3, SameFields DEF Completing
      <4>2. Agree(r, c, {"w", "key"}) BY <3>1, <3>2 DEF Same, Hits, LookedUpBy
      <4> QED BY <4>1, <4>2 DEF Agree
    <3>5. Event(q) = Event(c) BY <3>1, <3>4 DEF Event, Version, Agree
    <3> QED BY <1>0, <3>3, <3>5 DEF Relayed
  <2> QED BY <1>5, <2>1, <2>2, <2>3, Added
<1>6. \A d \in told' : Mirrors(d)'
  <2>1. \A d \in told : Mirrors(d) BY <1>0 DEF Relayed
  <2> QED BY <1>0, <1>3, <1>4, <2>1
<1>7. \A e \in relay : e = Event(e) /\ Mirrors(e)' BY <1>0, <1>3 DEF Relayed
<1>8. \A t \in Sessions : Active(t)' /\ sess'[t].call.op = "mirrored" => Event(sess'[t].call) \in relay
  BY <1>0, <1>1 DEF Relayed
<1> QED BY <1>0, <1>5, <1>6, <1>7, <1>8 DEF Relayed

LEMMA CommitInv ==
  ASSUME IInv, NEW s \in Sessions, Committing(s)
  PROVE  IInv'
<1>1. Transactions' /\ Ordered' /\ Exclusive' BY EndRest DEF IInv, Committing
<1> QED BY <1>1, CommitDurable, CommitEstablished, CommitWritten, CommitRelayed DEF IInv

-----
\* Every other step preserves it.

\* An answer that is not a commit's is given before anything was written.
LEMMA NothingWritten ==
  ASSUME IInv, NEW s \in Sessions, Active(s), Before(s) \in {"find", "row", "report"}
  PROVE  sess[s].pending = {}
<1>0. Transactions /\ Durable /\ Written BY DEF IInv
<1>1. /\ sess[s].call.op \in Procedures /\ Orderly(sess[s].call.op, Plan(s))
      /\ Before(s) \notin Done(s) /\ Has(Plan(s), Before(s))
  BY <1>0, Position, Upcoming
<1>2. CASE sess[s].call.op \in Inserting
  <2>1. Before(s) = "find" BY <1>1, <1>2 DEF Orderly, Inserts
  <2>2. "insert" \notin Done(s) /\ "reserve" \notin Done(s)
    BY <1>0, <1>1, <1>2, <2>1, Finished
  <2>3. \A l \in Done(s) : NewRow(l, sess[s].call, sess[s].start) = {}
    BY <2>2 DEF NewRow
  <2>4. sess[s].pending = UNION {NewRow(l, sess[s].call, sess[s].start) : l \in Done(s)}
    BY <1>0, <1>2 DEF Written
  <2> QED BY <2>3, <2>4
<1>3. CASE sess[s].call.op \in Turning
  <2>1. Before(s) = "row" BY <1>1, <1>3 DEF Orderly, Turns
  <2> QED BY <1>0, <1>1, <1>3, <2>1 DEF Written
<1>4. CASE sess[s].call.op \in Reading BY <1>0, <1>4 DEF Written
<1> QED BY <1>1, <1>2, <1>3, <1>4, Kinds

LEMMA AnswerInv ==
  ASSUME IInv, NEW s \in Sessions, NEW state, Answering(s, state)
  PROVE  IInv'
<1>0. Transactions /\ Durable /\ Active(s) /\ Return(s, state)
  BY DEF IInv, Answering
<1> DEFINE c == sess[s].call
<1>1. /\ Ends(s) /\ UNCHANGED <<revoked, relay>>
      /\ rows' = {r \in rows : \A p \in sess[s].pending : ~Clash(r, p)} \cup sess[s].pending
  BY <1>0 DEF Return, Ends
<1>2. \A d \in told' : d \in told \/ (d = c /\ d.op = "mirror") BY <1>0 DEF Return
<1>3. c.op \in Procedures /\ Orderly(c.op, Plan(s)) /\ (Before(s) # "commit" => Has(Plan(s), Before(s)))
  BY <1>0, Position, Upcoming
<1>4. CASE Before(s) = "commit"
  <2>1. Committing(s) BY <1>0, <1>1, <1>2, <1>4 DEF Committing, Answering
  <2> QED BY <2>1, CommitInv
<1>5. CASE Before(s) # "commit"
  <2>1. Before(s) \in {"find", "row", "report"} BY <1>5 DEF Answering
  <2>2. rows' = rows BY <1>0, <1>1, <2>1, NothingWritten
  <2>3. ASSUME NEW d, d = c, d.op = "mirror" PROVE Mirrors(d)
    <3>1. d.op \in Inserting BY <2>3, Kinds
    <3>2. Before(s) = "find" BY <1>3, <1>5, <2>1, <2>3, <3>1 DEF Orderly, Inserts
    <3>3. PICK r \in rows : Same(r, d) BY <2>3, <3>2 DEF Answering
    <3>4. r.tab = "mirror" /\ Agree(r, d, {"w", "key", "event"})
      BY <2>3, <3>1, <3>3, SameFields DEF Hits, TableOf, Agree
    <3> QED BY <3>4 DEF Mirrors
  <2> QED BY <1>1, <1>2, <2>2, <2>3, EndInv
<1> QED BY <1>4, <1>5

\* What happens besides the transactions: time passes, an event is
\* published, an admission is revoked that no transaction relies on.
LEMMA AsideInv ==
  ASSUME IInv, UNCHANGED <<load, rows, sess, told>>,
         clock' \in clock..load.until,
         \A t \in Sessions : Active(t) /\ "admit" \in Done(t) => sess[t].call.w \notin revoked',
         relay \subseteq relay', \A e \in relay' : e = Event(e) /\ Mirrors(e)
  PROVE  IInv'
<1>0. Transactions /\ Durable /\ Ordered /\ Exclusive /\ Established /\ Written /\ Relayed
  BY DEF IInv
<1>1. \A t \in Sessions : Untouched(t) /\ Plan(t)' = Plan(t) /\ Pos(t)' = Pos(t)
  BY DEF Untouched, Active, Done, Plan, Pos
<1>2. clock \in Nat /\ clock' \in 0..load.until /\ \A x \in 0..clock : x \in 0..clock'
  <2>1. load.until \in Nat /\ clock \in 0..load.until BY <1>0, LoadsOK DEF Durable
  <2> QED BY <2>1
<1>3. Transactions'
  <2> SUFFICES ASSUME NEW t \in Sessions
               PROVE  /\ sess'[t] = [call |-> sess'[t].call, left |-> sess'[t].left, start |-> sess'[t].start,
                                     holds |-> sess'[t].holds, pending |-> sess'[t].pending]
                      /\ sess'[t].call = None => sess'[t] = Idle
                      /\ sess'[t].call # None =>
                           /\ sess'[t].call \in load'.calls /\ sess'[t].start \in 0..clock'
                           /\ sess'[t].left \in Seq(StatementNames) /\ Len(sess'[t].left) <= Len(Plan(t)')
                           /\ \A i \in 1..Len(sess'[t].left) : sess'[t].left[i] = Plan(t)'[Pos(t)' + i]
    BY <1>0 DEF Transactions
  <2> QED BY <1>0, <1>1, <1>2 DEF Transactions
<1>4. Durable' BY <1>0, <1>2 DEF Durable
<1>5. Ordered' /\ Exclusive' BY <1>0 DEF Ordered, Exclusive
<1>6. Established'
  <2> SUFFICES ASSUME NEW t \in Sessions, Active(t)
               PROVE  /\ \A l \in {"walletLock", "lock", "admit"} \cap Done(t)' :
                           Wants(l, sess[t].call)' \subseteq sess'[t].holds
                      /\ "admit" \in Done(t)' => sess'[t].call.w \notin revoked'
                      /\ "find" \in Done(t)' => \A r \in rows' : ~Same(r, sess'[t].call)
                      /\ "source" \in Done(t)' => Based(sess'[t].call, rows')
                      /\ "limit" \in Done(t)' =>
                           \A limit \in Limits[sess'[t].call.op] :
                             Cardinality({r \in rows' : /\ r.op = sess'[t].call.op /\ r.w = sess'[t].call.w
                                                        /\ r.tab = "audit" /\ r.stamp > sess'[t].start - limit[1]})
                               < limit[2]
    BY <1>1 DEF Established, Untouched
  <2>1. \A l \in {"walletLock", "lock", "admit"} : Wants(l, sess[t].call)' = Wants(l, sess[t].call)
    BY DEF Wants, Advisory
  <2>2. Done(t)' = Done(t) BY <1>1 DEF Untouched
  <2> QED BY <1>0, <2>1, <2>2 DEF Established
<1>7. Written' BY <1>0, <1>1, UntouchedWritten DEF Written, Untouched
<1>8. Relayed'
  <2>1. \A e : Mirrors(e)' <=> Mirrors(e) BY DEF Mirrors
  <2>2. \A t \in Sessions : Active(t)' => Active(t) /\ sess'[t] = sess[t]
    BY <1>1 DEF Untouched
  <2> QED BY <1>0, <2>1, <2>2 DEF Relayed
<1> QED BY <1>3, <1>4, <1>5, <1>6, <1>7, <1>8 DEF IInv

LEMMA InitInv == Init => IInv
<1> SUFFICES ASSUME Init PROVE IInv
  OBVIOUS
<1>1. /\ load \in Loads /\ rows = load.rows /\ clock = 0 /\ revoked = {} /\ told = {}
      /\ sess = [s \in Sessions |-> Idle]
      /\ relay = {[w |-> r.w, key |-> r.key, event |-> r.event] : r \in {q \in load.rows : q.tab = "mirror"}}
  BY DEF Init
<1>2. \A s \in Sessions : sess[s] = Idle /\ ~Active(s) BY <1>1 DEF Active, Idle
<1>3. Transactions BY <1>1, <1>2 DEF Transactions, Idle
<1>4. Ordered /\ Exclusive BY <1>2 DEF Ordered, Exclusive, Idle
<1>5. Durable
  <2>1. {r \in rows : r.tab # "reservation"} = rows BY <1>1, LoadsOK
  <2>2. /\ load.until \in Nat
        /\ IsFiniteSet(rows) /\ (\A r \in rows : IsRow(r) /\ r.tab # "reservation")
        /\ \A r, q \in rows : Clash(r, q) => r = q
        /\ \A r \in rows : r.op \in Builders => Based(r, rows)
        /\ InLimits(rows)
    BY <1>1, LoadsOK
  <2>3. clock \in 0..load.until BY <1>1, <2>2
  <2> QED BY <1>1, <2>1, <2>2, <2>3 DEF Durable
<1>6. Established /\ Written BY <1>2 DEF Established, Written
<1>7. Relayed
  <2>1. \A e \in relay : e = Event(e) /\ Mirrors(e)
    <3> TAKE e \in relay
    <3>1. PICK r \in rows : r.tab = "mirror" /\ e = [w |-> r.w, key |-> r.key, event |-> r.event]
      BY <1>1
    <3> QED BY <3>1 DEF Event, Mirrors, Agree
  <2>2. \A r \in rows : r.tab = "mirror" => Event(r) \in relay BY <1>1 DEF Event
  <2> QED BY <1>1, <1>2, <2>1, <2>2 DEF Relayed
<1> QED BY <1>3, <1>4, <1>5, <1>6, <1>7 DEF IInv

LEMMA NextInv == IInv /\ [Next]_vars => IInv'
<1> SUFFICES ASSUME IInv, [Next]_vars PROVE IInv'
  OBVIOUS
<1>0. Transactions /\ Durable /\ Established /\ Relayed /\ load.until \in Nat /\ clock \in 0..load.until
  BY LoadsOK DEF IInv, Durable
<1>1. \A t \in Sessions : Active(t) /\ "admit" \in Done(t) =>
        /\ sess[t].call.w \notin revoked /\ <<"admission", sess[t].call.w>> \in sess[t].holds
  BY <1>0 DEF Established, Wants
<1>2. \A e \in relay : e = Event(e) /\ Mirrors(e) BY <1>0 DEF Relayed
<1>3. ASSUME NEW s \in Sessions, SessionStep(s) PROVE IInv'
  <2>1. ASSUME NEW c \in load.calls, Begin(s, c) PROVE IInv' BY <2>1, BeginInv
  <2>2. ASSUME NEW new, Passing(s, new) PROVE IInv' BY <2>2, PassInv
  <2>3. CASE Refusing(s)
    <3>1. Ends(s) /\ UNCHANGED <<rows, revoked, relay, told>>
      BY <2>3 DEF Refusing, Raise, Ends
    <3> QED BY <3>1, EndInv
  <2>4. ASSUME NEW state, Answering(s, state) PROVE IInv' BY <2>4, AnswerInv
  <2>5. CASE Drop(s)
    <3>1. Ends(s) /\ UNCHANGED <<rows, revoked, relay, told>> BY <2>5 DEF Drop, Ends
    <3> QED BY <3>1, EndInv
  <2> QED BY <1>3, <2>1, <2>2, <2>3, <2>4, <2>5 DEF SessionStep
<1>4. ASSUME NEW c \in told, Publish(c) PROVE IInv'
  <2>1. Mirrors(c) BY <1>0 DEF Relayed
  <2>2. Event(c) = Event(Event(c)) /\ Mirrors(Event(c))
    BY <2>1 DEF Event, Mirrors, Agree
  <2>3. /\ UNCHANGED <<load, rows, sess, told, clock, revoked>>
        /\ relay' = relay \cup {Event(c)}
    BY <1>4 DEF Publish, Event
  <2>4. clock' \in clock..load.until BY <1>0, <2>3
  <2> QED BY <1>1, <1>2, <2>2, <2>3, <2>4, AsideInv
<1>5. ASSUME NEW w \in Wallets, Revoke(w) PROVE IInv'
  <2>1. \A t \in Sessions : Active(t) /\ "admit" \in Done(t) => sess[t].call.w \notin revoked'
    BY <1>1, <1>5 DEF Revoke
  <2>2. UNCHANGED <<load, rows, sess, told, clock, relay>> BY <1>5 DEF Revoke
  <2>3. clock' \in clock..load.until BY <1>0, <2>2
  <2> QED BY <1>2, <2>1, <2>2, <2>3, AsideInv
<1>6. CASE Tick
  <2>1. UNCHANGED <<load, rows, sess, told, revoked, relay>> BY <1>6 DEF Tick
  <2>2. clock' \in clock..load.until BY <1>0, <1>6 DEF Tick
  <2> QED BY <1>1, <1>2, <2>1, <2>2, AsideInv
<1>7. CASE UNCHANGED vars
  <2>1. UNCHANGED <<load, rows, sess, told, clock, revoked, relay>> BY <1>7 DEF vars
  <2>2. clock' \in clock..load.until BY <1>0, <2>1
  <2> QED BY <1>1, <1>2, <2>1, <2>2, AsideInv
<1> QED BY <1>3, <1>4, <1>5, <1>6, <1>7, Steps

\* In every state the invariant holds.
THEOREM Invariance == Spec => []IInv
<1> QED BY InitInv, NextInv, PTL DEF Spec

-----
\* The theorems

\* Transactions never wait for one another in a circle: every procedure asks
\* for its locks in one order.
THEOREM NeverInACircle == Spec => []NoWaitCycle
<1>1. IInv => NoWaitCycle BY NoCircle DEF IInv
<1> QED BY <1>1, Invariance, PTL

-----

LEMMA OneEvent == IInv => OneEventPerPost
<1> SUFFICES ASSUME IInv PROVE OneEventPerPost
  OBVIOUS
<1>1. Durable /\ Relayed BY DEF IInv
<1>2. ASSUME NEW e \in relay, NEW f \in relay, e.w = f.w, e.key = f.key PROVE e = f
  <2>1. PICK r \in rows : r.tab = "mirror" /\ Agree(r, e, {"w", "key", "event"})
    BY <1>1 DEF Relayed, Mirrors
  <2>2. PICK q \in rows : q.tab = "mirror" /\ Agree(q, f, {"w", "key", "event"})
    BY <1>1 DEF Relayed, Mirrors
  <2>3. Agree(r, q, {"w", "key"}) /\ {"w", "key"} \in Indexes["mirror"]
    BY <1>2, <2>1, <2>2 DEF Agree, Indexes
  <2>4. r = q BY <1>1, <2>1, <2>2, <2>3 DEF Durable, Clash
  <2>5. e.event = f.event BY <2>1, <2>2, <2>4 DEF Agree
  <2>6. e = Event(e) /\ f = Event(f) /\ Event(e) = Event(f)
    BY <1>1, <1>2, <2>5 DEF Relayed, Event
  <2> QED BY <2>6
<1>3. \A e \in relay : \E r \in rows : r.tab = "mirror" /\ Agree(r, e, {"w", "key", "event"})
  BY <1>1 DEF Relayed, Mirrors
<1>4. \A r \in rows : r.tab = "mirror" /\ r.state = "published"
        => [w |-> r.w, key |-> r.key, event |-> r.event] \in relay
  BY <1>1 DEF Relayed, Event
<1> QED BY <1>2, <1>3, <1>4 DEF OneEventPerPost

\* At most one event is ever published for a post, however often the client
\* retries and whatever answers it loses, and the durable receipts agree.
THEOREM EventsAreUnique == Spec => []OneEventPerPost
BY OneEvent, Invariance, PTL

-----
\* Retries.

\* What an answer says.
LEMMA Answers ==
  ASSUME IInv, NEW s \in Sessions, NEW state, Answering(s, state)
  PROVE  state # "refused"
<1>1. /\ \A r \in rows : IsRow(r)
      /\ \A r \in sess[s].pending : IsRow(r)
  BY PendingRows DEF IInv, Durable, Answering
<1>2. \A r : IsRow(r) => r.state # "refused"
  <2> SUFFICES ASSUME NEW r, IsRow(r) PROVE r.state # "refused"
    OBVIOUS
  <2>1. r.state \in States[r.tab] /\ r.tab \in DOMAIN Indexes BY RowTables DEF IsRow
  <2> QED BY <2>1 DEF States, Indexes
<1>3. Reported(sess[s].call, rows) \subseteq rows BY DEF Reported
<1> QED BY <1>1, <1>2, <1>3 DEF Answering

LEMMA RefusedOnlyIfAbsent ==
  ASSUME IInv, NEW s \in Sessions, Refusing(s), sess[s].call.op \in Inserting,
         sess[s].call.w \notin revoked, NEW r \in rows, Same(r, sess[s].call)
  PROVE  FALSE
<1> DEFINE c == sess[s].call
<1>0. Transactions /\ Durable /\ Established /\ Active(s) BY DEF IInv, Refusing
<1>1. /\ Inserts(c.op, Plan(s)) /\ (Before(s) # "commit" => Has(Plan(s), Before(s)))
      /\ "find" \in Done(s) => \A q \in rows : ~Same(q, c)
  BY <1>0, Position, Upcoming DEF Orderly, Established
<1>2. CASE Before(s) \in {"fresh", "inTime", "limit", "reserve", "insert"}
  <2>1. Precedes(Plan(s), "find", Before(s)) BY <1>1, <1>2 DEF Inserts
  <2>2. "find" \in Done(s) BY <1>0, <1>2, <2>1, Earlier
  <2> QED BY <1>1, <2>2
<1>3. CASE Before(s) = "source" /\ ~Based(c, rows)
  <2>1. CASE c.op \in Builders
    <3>1. Agree(r, c, {"op", "w", "key", "req", "who", "src", "event"})
      BY SameFields
    <3>2. Based(r, rows) BY <1>0, <2>1, <3>1 DEF Durable, Agree
    <3> QED BY <1>3, <3>1, <3>2, BasedFields
  <2>2. CASE c.op \notin Builders
    <3>1. Precedes(Plan(s), "find", "source") BY <1>1, <2>2 DEF Inserts
    <3>2. "find" \in Done(s) BY <1>0, <1>3, <3>1, Earlier
    <3> QED BY <1>1, <3>2
  <2> QED BY <2>1, <2>2
<1> QED BY <1>1, <1>2, <1>3 DEF Refusing, Inserts

LEMMA Spoken ==
  ASSUME IInv, Next, NEW c, said' = <<c, "refused">>, <<c, "refused">> # None
  PROVE  \E s \in Sessions : Refusing(s) /\ sess[s].call = c
<1>1. CASE \E s \in Sessions : SessionStep(s)
  <2>1. PICK s \in Sessions : SessionStep(s) BY <1>1
  <2>2. ASSUME NEW d \in load.calls, Begin(s, d) PROVE FALSE BY <2>2 DEF Begin
  <2>3. ASSUME NEW new, Passing(s, new) PROVE FALSE
    <3>1. Pass(s, new) BY <2>3 DEF Passing
    <3> QED BY <3>1 DEF Pass
  <2>4. CASE Refusing(s)
    <3>1. said' = <<sess[s].call, "refused">> BY <2>4 DEF Refusing, Raise
    <3>2. sess[s].call = c BY <3>1
    <3> QED BY <2>4, <3>2
  <2>5. ASSUME NEW state, Answering(s, state) PROVE FALSE
    BY <2>5, Answers DEF Answering, Return
  <2>6. CASE Drop(s) BY <2>6 DEF Drop
  <2> QED BY <2>1, <2>2, <2>3, <2>4, <2>5, <2>6 DEF SessionStep
<1>2. CASE ~\E s \in Sessions : SessionStep(s)
  BY <1>2, Steps DEF Publish, Revoke, Tick
<1> QED BY <1>1, <1>2

LEMMA Retries ==
  ASSUME IInv, [Next]_vars
  PROVE  [\A c \in load.calls :
            said' = <<c, "refused">> /\ c.op \in Inserting /\ c.w \notin revoked
              => \A r \in rows : ~Same(r, c)]_vars
<1> SUFFICES ASSUME Next, NEW c \in load.calls, said' = <<c, "refused">>, c.op \in Inserting,
                    c.w \notin revoked, NEW r \in rows, Same(r, c)
             PROVE  FALSE
  OBVIOUS
<1>1. <<c, "refused">> # None BY LoadsOK DEF IInv, Durable
<1> QED BY <1>1, Spoken, RefusedOnlyIfAbsent

\* A call whose row is committed is never refused when it is made again,
\* unless the wallet was revoked.
THEOREM CommittedIsAnswered == Spec => RetriesAreAnswered
BY Retries, Invariance, PTL DEF RetriesAreAnswered, Spec

-----
\* The ledger.

Table == {r \in rows : r.tab # "reservation"}

\* The ledger's tables are these.
LEMMA LedgerTables ==
  /\ Ledger!Inserting = Inserting /\ Ledger!Completing = Completing /\ Ledger!Consuming = Consuming
  /\ Ledger!Reading = Reading /\ Ledger!Admitted = Admitted
  /\ \A c, Q : Ledger!Based(c, Q) <=> Based(c, Q)
  /\ \A r, q : Ledger!Clash(r, q) <=> Clash(r, q)
  /\ \A c, time : Ledger!Row(c, time) = Row(c, time)
  /\ \A Q : Ledger!InLimits(Q) <=> InLimits(Q)
  /\ \A r, c : Ledger!Same(r, c) <=> Same(r, c)
  /\ \A c, Q : Ledger!Reported(c, Q) = Reported(c, Q)
  /\ \A r, c : Ledger!Readable(r, c) <=> Readable(r, c)
<1>1. Ledger!TableOf = TableOf /\ Ledger!Indexes = Indexes /\ Ledger!LookedUpBy = LookedUpBy
  BY DEF Ledger!TableOf, TableOf, Ledger!Indexes, Indexes, Ledger!LookedUpBy, LookedUpBy
<1>2. Ledger!Procedures = Procedures BY <1>1 DEF Ledger!Procedures, Procedures
<1>3. Ledger!Completing = Completing /\ Ledger!Consuming = Consuming /\ Ledger!Reading = Reading
  BY DEF Ledger!Completing, Completing, Ledger!Consuming, Consuming, Ledger!Reading, Reading
<1>4. Ledger!Inserting = Inserting BY <1>2, <1>3 DEF Ledger!Inserting, Inserting
<1>5. Ledger!Admitted = Admitted BY DEF Ledger!Admitted, Admitted
<1>6. \A r, q, F : Ledger!Agree(r, q, F) <=> Agree(r, q, F)
  BY DEF Ledger!Agree, Agree
<1>7. \A Q, x : Ledger!Published(Q, x) <=> Published(Q, x)
  BY DEF Ledger!Published, Published
<1>8. \A r, q : Ledger!Clash(r, q) <=> Clash(r, q)
  BY <1>1, <1>6 DEF Ledger!Clash, Clash
<1>9. \A r, c : Ledger!Hits(r, c) <=> Hits(r, c) BY <1>1, <1>6 DEF Ledger!Hits, Hits
<1>10. \A r, c : Ledger!Same(r, c) <=> Same(r, c)
  BY <1>3, <1>4, <1>6, <1>9 DEF Ledger!Same, Same
<1>11. \A r, c : Ledger!Readable(r, c) <=> Readable(r, c)
  BY <1>10 DEF Ledger!Readable, Readable
<1>12. \A c, time : Ledger!Row(c, time) = Row(c, time)
  <2>1. Ledger!FirstState = FirstState BY DEF Ledger!FirstState, FirstState
  <2>2. ASSUME NEW c, NEW time PROVE Ledger!Row(c, time) = Row(c, time)
    <3>1. Ledger!TableOf[c.op] = TableOf[c.op] /\ Ledger!FirstState[Ledger!TableOf[c.op]] = FirstState[TableOf[c.op]]
      BY <1>1, <2>1
    <3> QED BY <3>1 DEF Ledger!Row, Row
  <2> QED BY <2>2
<1>13. \A Q : Ledger!InLimits(Q) <=> InLimits(Q)
  <2>1. \A C : Ledger!Cardinality(C) = Cardinality(C)
    BY DEF Ledger!Cardinality, Cardinality
  <2> QED BY <2>1 DEF Ledger!InLimits, InLimits
<1>14. \A c, Q : Ledger!Based(c, Q) <=> Based(c, Q)
  BY <1>6, <1>7 DEF Ledger!Based, Based
<1>15. \A c, Q : Ledger!Reported(c, Q) = Reported(c, Q)
  BY <1>6, <1>9 DEF Ledger!Reported, Reported
<1> QED BY <1>3, <1>4, <1>5, <1>8, <1>10, <1>11, <1>12, <1>13, <1>14, <1>15

Allowed(c) == c.op \in Admitted => c.w \notin revoked
Tells(c, state) == said' = <<c, state>> \/ said' = None

\* The ledger's steps, in terms of the committed table.
LEMMA LedgerWrite ==
  ASSUME NEW c, c.op \in Inserting, Allowed(c), Based(c, Table), revoked' = revoked,
         NEW time \in UNION {0..l.until : l \in Loads}, \A r \in Table : ~Clash(r, Row(c, time)),
         Table' = Table \cup {Row(c, time)}, InLimits(Table'), Tells(c, Row(c, time).state)
  PROVE  Ledger!Write(c)
<1> DEFINE n == Row(c, time)
<1>1. Ledger!Row(c, time) = n BY LedgerTables
<1>2. /\ c.op \in Ledger!Inserting /\ Ledger!Admissible(c) /\ Ledger!Based(c, Table)
      /\ \A r \in Table : ~Ledger!Clash(r, n)
      /\ Table' = Table \cup {n} /\ Ledger!InLimits(Table')
      /\ Ledger!Say(c, n.state)
  BY LedgerTables DEF Ledger!Admissible, Allowed, Ledger!Say, Tells
<1> HIDE DEF n
<1> QED BY <1>1, <1>2 DEF Ledger!Write, Table

LEMMA LedgerRepeat ==
  ASSUME NEW c, c.op \in Inserting \cup Completing, Allowed(c) \/ c.op \in {"post", "comment"},
         NEW r \in Table, Same(r, c), c.op \in Completing => r.state = "published",
         Tells(c, r.state), Table' = Table, revoked' = revoked
  PROVE  Ledger!Repeat(c)
<1>1. /\ c.op \in Ledger!Inserting \cup Ledger!Completing
      /\ Ledger!Admissible(c) \/ c.op \in {"post", "comment"}
      /\ Ledger!Same(r, c) /\ (c.op \in Ledger!Completing => r.state = "published") /\ Ledger!Say(c, r.state)
  BY LedgerTables DEF Ledger!Admissible, Allowed, Ledger!Say, Tells
<1> QED BY <1>1 DEF Ledger!Repeat, Table

LEMMA LedgerTurn ==
  ASSUME NEW c, Allowed(c), NEW from, NEW to, NEW r \in Table, Same(r, c), r.state = from,
         Table' = (Table \ {r}) \cup {[r EXCEPT !.state = to]}, Tells(c, to), revoked' = revoked
  PROVE  Ledger!Turn(c, from, to)
<1>1. Ledger!Admissible(c) /\ Ledger!Same(r, c) /\ Ledger!Say(c, to)
  BY LedgerTables DEF Ledger!Admissible, Allowed, Ledger!Say, Tells
<1> QED BY <1>1 DEF Ledger!Turn, Table

LEMMA LedgerRead ==
  ASSUME NEW c, c.op \in Reading, Allowed(c), Table' = Table, revoked' = revoked,
         \/ Reported(c, Table) = {} /\ Tells(c, "none")
         \/ \E r \in Reported(c, Table) : Readable(r, c) /\ Tells(c, r.state)
  PROVE  Ledger!Read(c)
<1>1. /\ c.op \in Ledger!Reading /\ Ledger!Admissible(c)
      /\ \/ Ledger!Reported(c, Table) = {} /\ Ledger!Say(c, "none")
         \/ \E r \in Ledger!Reported(c, Table) : Ledger!Readable(r, c) /\ Ledger!Say(c, r.state)
  BY LedgerTables DEF Ledger!Admissible, Allowed, Ledger!Say, Tells
<1> QED BY <1>1 DEF Ledger!Read, Table

\* A reservation of a post is no more than its audit says.
LEMMA BasedOnTable ==
  ASSUME Durable, NEW c, Based(c, rows)
  PROVE  Based(c, Table)
<1>1. \A r \in rows : r.tab # "reservation" => r \in Table BY DEF Table
<1>2. ASSUME NEW r \in rows, r.op = "post"
      PROVE  \E q \in Table : q.op = "post" /\ q.req = r.req /\ q.w = r.w
  <2>1. CASE r.tab = "reservation"
    <3>1. PICK q \in rows : q.tab = "audit" /\ Agree(q, r, {"op", "w", "req"})
      BY <2>1 DEF Durable
    <3>2. q.op = r.op /\ q.w = r.w /\ q.req = r.req /\ q \in Table
      BY <3>1, <1>1 DEF Agree
    <3> QED BY <1>2, <3>2
  <2> QED BY <1>1, <1>2, <2>1
<1>3. \A e : Published(rows, e) => Published(Table, e) BY <1>1 DEF Published
<1>4. CASE c.op = "comment" BY <1>2, <1>4 DEF Based
<1>5. CASE c.op \in {"mirror", "promote"}
  <2>1. PICK r \in rows : r.op = "post" /\ r.req = c.key /\ r.w = c.w
    BY <1>5 DEF Based
  <2>2. \E q \in Table : q.op = "post" /\ q.req = c.key /\ q.w = c.w BY <1>2, <2>1
  <2> QED BY <1>5, <2>2 DEF Based
<1>6. CASE c.op \in {"bind", "suggest"} BY <1>1, <1>6 DEF Based
<1>7. CASE c.op \in {"challenge", "testChallenge"} BY <1>3, <1>7 DEF Based
<1>8. CASE c.op = "store" BY <1>1, <1>8 DEF Based
<1>9. CASE c.op = "adopt" BY <1>1, <1>3, <1>9 DEF Based
<1>10. CASE c.op = "testAdopt" BY <1>1, <1>3, <1>10 DEF Based
<1> QED BY <1>4, <1>5, <1>6, <1>7, <1>8, <1>9, <1>10 DEF Based

\* Nor does a read report it.
LEMMA ReportedOfTable ==
  ASSUME NEW c, c.op \in Procedures
  PROVE  Reported(c, Table) = Reported(c, rows)
<1>1. \A r \in rows : r.tab # "reservation" => r \in Table BY DEF Table
<1>2. \A r : Hits(r, c) => r.tab # "reservation" BY Tables DEF Hits
<1>3. Table \subseteq rows BY DEF Table
<1>4. CASE c.op = "trace" BY <1>1, <1>3, <1>4 DEF Reported
<1>5. CASE c.op = "look" BY <1>1, <1>2, <1>3, <1>5 DEF Reported
<1>6. CASE c.op \notin {"trace", "look"} BY <1>1, <1>2, <1>3, <1>6 DEF Reported
<1> QED BY <1>4, <1>5, <1>6

\* Who has been admitted, or found or locked its row after that, is allowed.
LEMMA Admission ==
  ASSUME IInv, NEW s \in Sessions, Active(s), NEW b, b # "commit", b \in Done(s) \/ Before(s) = b,
         sess[s].call.op \in Admitted => Precedes(Plan(s), "admit", b)
  PROVE  Allowed(sess[s].call)
<1>1. Transactions /\ Durable /\ Established BY DEF IInv
<1>2. CASE sess[s].call.op \in Admitted
  <2>1. "admit" \in Done(s) BY <1>1, <1>2, Earlier
  <2> QED BY <1>1, <2>1 DEF Established, Allowed
<1> QED BY <1>2 DEF Allowed

\* A call that finds its row repeats an earlier one.
LEMMA FoundRefines ==
  ASSUME IInv, NEW s \in Sessions, NEW c, c = sess[s].call, NEW state, Answering(s, state),
         Before(s) \in {"find", "row"}
  PROVE  Ledger!Repeat(c)
<1>0. /\ Transactions /\ Durable /\ Active(s) /\ Return(s, state) /\ sess[s].pending = {}
      /\ \A r \in rows : IsRow(r)
  BY NothingWritten DEF IInv, Answering, Durable
<1>1. Table' = Table /\ revoked' = revoked /\ Tells(c, state)
  BY <1>0 DEF Return, Table, Tells
<1>2. /\ c.op \in Procedures /\ Orderly(c.op, Plan(s)) /\ Has(Plan(s), Before(s))
      /\ Before(s) # "commit"
  BY <1>0, Position, Upcoming
<1>3. PICK r \in rows : Same(r, c) /\ state = r.state /\ (Before(s) = "row" => state = "published")
  BY DEF Answering
<1>4. Hits(r, c) /\ r \in Table BY <1>2, <1>3, Tables DEF Same, Hits, Table
<1>5. CASE Before(s) = "find"
  <2>1. c.op \notin Turning /\ c.op \notin Reading
    BY <1>2, <1>5 DEF Orderly, Turns, Reads
  <2>2. c.op \in Inserting /\ c.op \notin Completing
    BY <1>2, <2>1, Kinds DEF Turning
  <2>3. Allowed(c) \/ c.op \in {"post", "comment"}
    <3>1. c.op \in Admitted \ {"post", "comment"} => Precedes(Plan(s), "admit", "find")
      BY <1>2, <2>2 DEF Orderly, Inserts
    <3> QED BY <1>0, <1>5, <3>1, Admission
  <2> QED BY <1>1, <1>3, <1>4, <2>2, <2>3, LedgerRepeat
<1>6. CASE Before(s) = "row"
  <2>1. c.op \in Turning BY <1>2, <1>6, Kinds DEF Orderly, Inserts, Reads
  <2>2. c.op \notin Consuming
    <3> SUFFICES ASSUME c.op \in Consuming PROVE FALSE
      OBVIOUS
    <3>1. r.tab \in {"challenge", "testChallenge"}
      BY <1>4 DEF Hits, Consuming, TableOf
    <3>2. r.state \in {"issued", "consumed"} BY <1>0, <3>1 DEF IsRow, States
    <3> QED BY <1>3, <1>6, <3>2
  <2>3. Allowed(c)
    <3>1. c.op \in Admitted => Precedes(Plan(s), "admit", "row")
      BY <1>2, <2>1 DEF Orderly, Turns
    <3> QED BY <1>0, <1>6, <3>1, Admission
  <2> QED BY <1>1, <1>3, <1>4, <1>6, <2>1, <2>2, <2>3, LedgerRepeat DEF Turning
<1> QED BY <1>5, <1>6

\* A report is a read.
LEMMA ReportRefines ==
  ASSUME IInv, NEW s \in Sessions, NEW c, c = sess[s].call, NEW state, Answering(s, state),
         Before(s) = "report"
  PROVE  Ledger!Read(c)
<1>0. Transactions /\ Durable /\ Active(s) /\ Return(s, state) /\ sess[s].pending = {}
  BY NothingWritten DEF IInv, Answering
<1>1. Table' = Table /\ revoked' = revoked /\ Tells(c, state)
  BY <1>0 DEF Return, Table, Tells
<1>2. c.op \in Procedures /\ Orderly(c.op, Plan(s)) /\ Has(Plan(s), "report")
  BY <1>0, Position, Upcoming
<1>3. c.op \in Reading BY <1>2, Kinds DEF Orderly, Inserts, Turns
<1>4. Allowed(c)
  <2>1. c.op \in Admitted => Precedes(Plan(s), "admit", "report")
    BY <1>2, <1>3 DEF Orderly, Reads
  <2> QED BY <1>0, <2>1, Admission
<1>5. Reported(c, Table) = Reported(c, rows) BY <1>2, ReportedOfTable
<1>6. \/ Reported(c, rows) = {} /\ state = "none"
      \/ \E r \in Reported(c, rows) : Readable(r, c) /\ state = r.state
  BY DEF Answering
<1> QED BY <1>1, <1>3, <1>4, <1>5, <1>6, LedgerRead

\* A commit is the write, the completion or the consumption.
LEMMA CommitRefines ==
  ASSUME IInv, NEW s \in Sessions, NEW c, c = sess[s].call, NEW state, Answering(s, state),
         Before(s) = "commit"
  PROVE  Ledger!Write(c) \/ Ledger!Complete(c) \/ Ledger!Consume(c)
<1>0. /\ Transactions /\ Durable /\ Established /\ Written /\ Active(s) /\ Return(s, state)
      /\ \A r \in rows : IsRow(r)
  BY DEF IInv, Answering, Durable
<1>1. PICK p \in sess[s].pending : p.tab = TableOf[c.op] /\ state = p.state
  BY DEF Answering
<1>2. Committing(s) BY <1>0, <1>1 DEF Committing, Return, Ends
<1>3. Committed(s) /\ revoked' = revoked /\ Tells(c, state)
  BY <1>0, <1>2, CommitRows DEF Return, Tells
<1>4. c.op \in Procedures /\ Orderly(c.op, Plan(s)) /\ sess[s].start \in 0..clock
  BY <1>0, Position
<1>5. CASE c.op \in Inserting
  <2> DEFINE n == Row(c, sess[s].start)
  <2>1. /\ n \in sess[s].pending /\ "insert" \in Done(s) /\ n.tab # "reservation"
    BY <1>2, <1>4, <1>5, Inserted, Tables DEF Row
  <2>2. rows' = rows \cup sess[s].pending BY <1>3, <1>5, Kinds DEF Committed
  <2>3. \A q \in sess[s].pending : q.tab = "reservation" \/ (q = n /\ q.tab = TableOf[c.op])
    <3> TAKE q \in sess[s].pending
    <3>1. PICK l \in Done(s) : q \in NewRow(l, c, sess[s].start)
      BY <1>0, <1>5, PendingRows
    <3> QED BY <1>4, <3>1, NewRows
  <2>4. Table' = Table \cup {n}
    <3> HIDE DEF n
    <3> QED BY <2>1, <2>2, <2>3 DEF Table
  <2>5. Allowed(c)
    <3>1. c.op \in Admitted => Precedes(Plan(s), "admit", "insert")
      BY <1>4, <1>5 DEF Orderly, Inserts
    <3> QED BY <1>0, <2>1, <3>1, Admission
  <2>6. Based(c, Table)
    <3>1. CASE c.op = "post" BY <3>1 DEF Based
    <3>2. CASE c.op # "post"
      <4>1. Precedes(Plan(s), "source", "insert")
        BY <1>4, <1>5, <3>2 DEF Orderly, Inserts
      <4>2. "source" \in Done(s) BY <1>0, <2>1, <4>1, Earlier
      <4> QED BY <1>0, <4>2, BasedOnTable DEF Established
    <3> QED BY <3>1, <3>2
  <2>7. \A r \in Table : ~Clash(r, n) BY <1>0, <1>5, <2>1 DEF Written, Table
  <2>8. InLimits(Table') BY <1>2, CommitDurable DEF Durable, Table
  <2>9. sess[s].start \in UNION {0..l.until : l \in Loads}
    <3>1. load \in Loads /\ load.until \in Nat /\ clock \in 0..load.until
      BY <1>0, LoadsOK DEF Durable
    <3>2. sess[s].start \in 0..load.until BY <1>4, <3>1
    <3> QED BY <3>1, <3>2
  <2>10. state = n.state
    <3> HIDE DEF n
    <3> QED BY <1>1, <1>4, <2>3, Tables
  <2>11. Tells(c, n.state) /\ revoked' = revoked BY <1>3, <2>10 DEF Tells
  <2> QED BY <1>5, <2>4, <2>5, <2>6, <2>7, <2>8, <2>9, <2>11, LedgerWrite
<1>6. CASE c.op \in Turning
  <2>1. PICK r \in rows :
          /\ Locked(s, r) /\ sess[s].pending = {[r EXCEPT !.state = Turned(c.op)]}
          /\ rows' = (rows \ {r}) \cup sess[s].pending
    BY <1>3, <1>6, Kinds DEF Committed
  <2> DEFINE q == [r EXCEPT !.state = Turned(c.op)]
  <2>2. IsRow(r) /\ Same(r, c) /\ Hits(r, c) /\ r.state \notin {"published", "consumed"}
    BY <1>0, <2>1 DEF Locked, Same
  <2>3. r.tab # "reservation" /\ q.tab = r.tab /\ q.state = Turned(c.op) /\ r.tab = TableOf[c.op]
    BY <1>6, <2>2, TurnedTable, TurnedRow
  <2>4. r \in Table /\ Table' = (Table \ {r}) \cup {q}
    <3>1. rows' = (rows \ {r}) \cup {q} BY <2>1
    <3> HIDE DEF q
    <3> QED BY <2>3, <3>1 DEF Table
  <2>5. state = Turned(c.op)
    <3>1. p = q BY <1>1, <2>1
    <3> HIDE DEF q
    <3> QED BY <1>1, <2>3, <3>1
  <2>6. Allowed(c)
    <3>1. /\ Has(Plan(s), "update") /\ Precedes(Plan(s), "row", "update")
          /\ c.op \in Admitted => Precedes(Plan(s), "admit", "row")
      BY <1>4, <1>6 DEF Orderly, Turns
    <3>2. "update" \in Done(s) BY <1>0, <3>1, Upcoming
    <3>3. "row" \in Done(s) BY <1>0, <3>1, <3>2, Earlier
    <3> QED BY <1>0, <3>1, <3>3, Admission
  <2>7. CASE c.op \in Completing
    <3>1. Turned(c.op) = "published" BY <2>7 DEF Turned
    <3>2. r.state = "reserved"
      <4>1. r.tab \in {"mirror", "promotion", "suggestion"}
        BY <2>3, <2>7 DEF Completing, TableOf
      <4> QED BY <2>2, <4>1 DEF IsRow, States
    <3>3. Table' = (Table \ {r}) \cup {[r EXCEPT !.state = "published"]} /\ Tells(c, "published")
      BY <1>3, <2>4, <2>5, <3>1
    <3>4. Ledger!Turn(c, "reserved", "published")
      BY <1>3, <2>2, <2>4, <2>6, <3>2, <3>3, LedgerTurn
    <3> QED BY <2>7, <3>4, LedgerTables DEF Ledger!Complete
  <2>8. CASE c.op \in Consuming
    <3>1. Turned(c.op) = "consumed" BY <2>8 DEF Turned, Completing, Consuming
    <3>2. r.state = "issued"
      <4>1. r.tab \in {"challenge", "testChallenge"}
        BY <2>3, <2>8 DEF Consuming, TableOf
      <4> QED BY <2>2, <4>1 DEF IsRow, States
    <3>3. Table' = (Table \ {r}) \cup {[r EXCEPT !.state = "consumed"]} /\ Tells(c, "consumed")
      BY <1>3, <2>4, <2>5, <3>1
    <3>4. Ledger!Turn(c, "issued", "consumed")
      BY <1>3, <2>2, <2>4, <2>6, <3>2, <3>3, LedgerTurn
    <3> QED BY <2>8, <3>4, LedgerTables DEF Ledger!Consume
  <2> QED BY <1>6, <2>7, <2>8 DEF Turning
<1> QED BY <1>3, <1>5, <1>6 DEF Committed

LEMMA InitRefines == Init => Ledger!Init
<1> SUFFICES ASSUME Init PROVE Ledger!Init
  OBVIOUS
<1>1. load \in Loads /\ rows = load.rows /\ revoked = {} /\ said = None BY DEF Init
<1>2. Table = load.rows BY <1>1, LoadsOK DEF Table
<1> QED BY <1>1, <1>2 DEF Ledger!Init, Table

LEMMA NextRefines == IInv /\ [Next]_vars => [Ledger!Next]_(Ledger!vars)
<1> SUFFICES ASSUME IInv, [Next]_vars PROVE Ledger!Next \/ UNCHANGED Ledger!vars
  OBVIOUS
<1> DEFINE Calls == UNION {l.calls : l \in Loads}
<1>0. Transactions /\ Durable /\ load \in Loads BY DEF IInv, Durable
<1>1. ASSUME NEW c \in Calls,
             \/ Ledger!Write(c) \/ Ledger!Repeat(c) \/ Ledger!Complete(c) \/ Ledger!Consume(c)
             \/ Ledger!Read(c) \/ Ledger!Refuse(c)
      PROVE  Ledger!Next
  BY <1>1 DEF Ledger!Next
<1>2. ASSUME said' = None, rows' = rows, revoked' = revoked PROVE Ledger!Next
  BY <1>2 DEF Ledger!Next, Ledger!Silence
<1>3. ASSUME NEW s \in Sessions, SessionStep(s) PROVE Ledger!Next
  <2>1. Active(s) => sess[s].call \in Calls BY <1>0, Position
  <2>2. ASSUME NEW c \in load.calls, Begin(s, c) PROVE Ledger!Next
    BY <2>2, <1>2 DEF Begin
  <2>3. ASSUME NEW new, Passing(s, new) PROVE Ledger!Next
    <3>1. Pass(s, new) BY <2>3 DEF Passing
    <3> QED BY <3>1, <1>2 DEF Pass
  <2>4. CASE Refusing(s)
    <3>1. /\ Active(s) /\ said' = <<sess[s].call, "refused">> /\ rows' = rows /\ revoked' = revoked
      BY <2>4 DEF Refusing, Raise
    <3>2. Ledger!Refuse(sess[s].call) BY <3>1 DEF Ledger!Refuse
    <3> QED BY <2>1, <3>1, <3>2, <1>1
  <2>5. ASSUME NEW state, Answering(s, state) PROVE Ledger!Next
    <3>1. Active(s) /\ Before(s) \in {"find", "row", "report", "commit"}
      BY <2>5 DEF Answering
    <3>2. PICK c \in Calls : c = sess[s].call BY <2>1, <3>1
    <3>3. CASE Before(s) \in {"find", "row"} BY <2>5, <3>2, <3>3, <1>1, FoundRefines
    <3>4. CASE Before(s) = "report" BY <2>5, <3>2, <3>4, <1>1, ReportRefines
    <3>5. CASE Before(s) = "commit" BY <2>5, <3>2, <3>5, <1>1, CommitRefines
    <3> QED BY <3>1, <3>3, <3>4, <3>5
  <2>6. CASE Drop(s) BY <2>6, <1>2 DEF Drop
  <2> QED BY <1>3, <2>2, <2>3, <2>4, <2>5, <2>6 DEF SessionStep
<1>4. ASSUME NEW c \in told, Publish(c) PROVE Ledger!Next BY <1>4, <1>2 DEF Publish
<1>5. ASSUME NEW w \in Wallets, Revoke(w) PROVE Ledger!Next
  <2>1. Ledger!Revoke(w) BY <1>5 DEF Revoke, Ledger!Revoke
  <2> QED BY <2>1 DEF Ledger!Next
<1>6. CASE Tick BY <1>6, <1>2 DEF Tick
<1>7. CASE UNCHANGED vars BY <1>7 DEF vars, Ledger!vars
<1> QED BY <1>3, <1>4, <1>5, <1>6, <1>7, Steps

\* However the transactions interleave, what is committed and answered is
\* what the ledger allows, one call after the other.
THEOREM TransactionsAreSerial == Spec => OneAtATime
BY InitRefines, NextRefines, Invariance, PTL DEF Spec, OneAtATime, Ledger!Spec

-----
\* The tracer data plane: its invariant.

\* What a list of things to do still holds, and that it is what is left of an order.
Left(todo) == {todo[i] : i \in DOMAIN todo}
From(order, k) == SubSeq(order, k, Len(order))
InOrder(todo, order) == \E k \in 1 .. Len(order) : todo = From(order, k)

-----
\* The Secrets

SecretSteps == {"idle", "materialize", "open", "create", "look", "note", "prepare", "commit",
                "audit", "entry", "delete", "crossed", "close", "receipt", "recover",
                "teardown", "torn"}

Papers ==
  [journal : [status : {"none", "in-progress", "committed", "rolled-back"}, records : S!Records],
   receipt : [state : S!Terminal \cup {"none", "empty", "partial"}, records : S!Records],
   torn : BOOLEAN]

SecretTypes ==
  /\ secrets \in [S!Labels -> S!Identities \cup {Absent}]
  /\ travelling \subseteq [label : S!Labels, nonce : S!Operations]
  /\ late \subseteq S!Operations
  /\ papers \in [S!Operations -> Papers]
  /\ job \in [pc : SecretSteps, mode : {"none", "materialize", "recover", "teardown"},
              op : 0 .. MaxOperations, records : S!Records, todo : Seq(S!Labels)]

\* A Secret of operation n is live; a request for one is under way; none is
\* live, but for those that were served too late.
Lives(n, l) == secrets[l] # Absent /\ secrets[l].nonce = n
Travels(n, l) == [label |-> l, nonce |-> n] \in travelling
SecretsClear(n) == \A l \in S!Labels : Lives(n, l) => n \in late

ServedOnce == \A n \in S!Operations, l \in S!Labels : Travels(n, l) => ~Lives(n, l)

\* Records of Secrets of operation n, which nobody makes a second time.
Known(n, records) ==
  \A l \in DOMAIN records :
    /\ records[l].nonce = n /\ ~Travels(n, l)
    /\ Lives(n, l) /\ secrets[l].version = 0 => records[l].version = 0

SecretPaper(n) ==
  LET journal == papers[n].journal  receipt == papers[n].receipt IN
  /\ journal.status = "none" =>
       journal = S!NoJournal /\ \A l \in S!Labels : ~Lives(n, l) /\ ~Travels(n, l)
  /\ journal.status # "none" => receipt.state # "none"
  /\ journal.status = "committed" => receipt.state = "materialized"
  /\ journal.status = "rolled-back" => SecretsClear(n)
  /\ receipt.state \in {"rolled-back", "recovered-rolled-back"} => SecretsClear(n)
  /\ receipt.state = "materialized" => /\ DOMAIN receipt.records = S!Labels
                                       /\ Known(n, receipt.records)
  /\ papers[n].torn => receipt.state = "materialized" /\ SecretsClear(n)
  /\ Known(n, journal.records)

SecretPapers == \A n \in S!Operations : SecretPaper(n)

\* The labels that the process has not come to.
Ahead == IF job.pc = "create" THEN Left(job.todo) ELSE Left(Tail(job.todo))

Making ==
  LET paper == papers[job.op]  done == S!Labels \ Ahead IN
  /\ paper.journal.status = "in-progress" /\ paper.receipt.state = "empty"
  /\ \A l \in DOMAIN job.records : Lives(job.op, l)
  /\ job.pc \in {"create", "look", "note"} =>
       /\ InOrder(job.todo, SecretOrder)
       /\ DOMAIN paper.journal.records \subseteq DOMAIN job.records
       /\ \A l \in Ahead : ~Travels(job.op, l) /\ ~Lives(job.op, l)
       /\ DOMAIN job.records = IF job.pc = "look" THEN done \ {Head(job.todo)} ELSE done
  /\ job.pc \in {"prepare", "commit"} => DOMAIN job.records = S!Labels

\* No object of an activation is in the cluster.
Unused == \A n \in R!Activations, o \in R!Names :
            (objects[o] # Absent /\ objects[o].uid = n) => n \in tardy

Removing ==
  LET paper == papers[job.op] IN
  /\ IF job.mode = "teardown"
     THEN paper.receipt.state = "materialized" /\ Unused
     ELSE paper.receipt.state = "empty" /\ paper.journal.status \in {"in-progress", "rolled-back"}
  /\ job.pc \in {"entry", "delete", "crossed"} /\ job.mode = "materialize" =>
       \A l \in S!Labels \ DOMAIN job.records : Lives(job.op, l) => job.op \in late
  /\ job.pc \in {"delete", "crossed"} =>
       /\ InOrder(job.todo, S!DeleteOrder)
       /\ \A l \in S!Labels \ (IF job.pc = "delete" THEN Left(job.todo) ELSE Left(Tail(job.todo))) :
            Lives(job.op, l) => job.op \in late
  /\ job.pc \in {"close", "torn"} => SecretsClear(job.op)

SecretWork ==
  ~S!At("idle") =>
    LET paper == papers[job.op] IN
    /\ job.op \in S!Operations /\ Known(job.op, job.records)
    /\ job.pc \in CASE job.mode = "materialize" ->
                       {"materialize", "open", "create", "look", "note", "prepare", "commit",
                        "audit", "entry", "delete", "crossed", "close", "receipt"}
                 [] job.mode = "recover" ->
                       {"recover", "audit", "entry", "delete", "crossed", "close", "receipt"}
                 [] job.mode = "teardown" -> {"teardown", "delete", "crossed", "torn"}
                 [] OTHER -> {}
    /\ job.pc \in {"materialize", "open"} => job.records = <<>>
    /\ job.pc = "materialize" => paper = S!NoPapers
    /\ job.pc = "open" => paper.journal.status = "none" /\ paper.receipt.state = "empty"
    /\ job.pc \in {"create", "look", "note", "prepare", "commit"} => Making
    /\ job.pc \in {"audit", "entry", "delete", "crossed", "close", "torn"} => Removing
    /\ job.pc = "receipt" => paper.journal.status = "rolled-back" /\ paper.receipt.state = "empty"
    /\ job.pc = "recover" => paper.journal.status # "none"
    /\ job.pc = "teardown" => paper.receipt.state = "materialized"

SecretInv == SecretTypes /\ ServedOnce /\ SecretPapers /\ SecretWork

-----
\* The objects of the data plane

Marks == UNION {[X -> BOOLEAN] : X \in SUBSET R!Names}
RunnerSteps == {"idle", "activate", "open", "create", "look", "note", "plain", "noted", "wake",
                "woken", "wait", "prepare", "commit", "audit", "entry", "suspend", "delete",
                "crossed", "close", "receipt", "recover"}

Ledgers == [journal : [status : {"none", "in-progress", "committed", "rolled-back"},
                       records : Marks, source : 0 .. MaxOperations],
            receipt : R!Terminal \cup {"none", "empty", "partial"}]
Workers == [pc : RunnerSteps, mode : {"none", "activate", "recover"},
            op : 0 .. MaxActivations, source : 0 .. MaxOperations,
            records : Marks, todo : Seq(R!Names)]

RunnerTypes ==
  /\ objects \in [R!Names -> R!Objects \cup {Absent}]
  /\ reconciling \in BOOLEAN
  /\ requests \subseteq [does : {"create", "plain", "wake"}, name : R!Names, op : R!Activations]
  /\ tardy \subseteq R!Activations
  /\ ledger \in [R!Activations -> Ledgers] /\ worker \in Workers

Bears(n, o) == objects[o] # Absent /\ objects[o].uid = n
Asked(n, o) == [does |-> "create", name |-> o, op |-> n] \in requests
Awaits(n, o) == [does |-> "plain", name |-> o, op |-> n] \in requests
ObjectsClear(n) == \A o \in R!Names : Bears(n, o) => n \in tardy

CreatedOnce == \A n \in R!Activations, o \in R!Names : Asked(n, o) => ~Bears(n, o)

Marked(n, records) ==
  \A o \in DOMAIN records : ~Asked(n, o) /\ (records[o] /\ Bears(n, o) => ~objects[o].nonce)

\* The Secrets of a materialized receipt are live.
Supplied(s) == /\ s \in S!Operations /\ papers[s].receipt.state = "materialized"
               /\ \A l \in S!Labels : Lives(s, l)

RunnerPaper(n) ==
  LET journal == ledger[n].journal  receipt == ledger[n].receipt IN
  /\ journal.status = "none" =>
       journal = R!NoJournal /\ \A o \in R!Names : ~Bears(n, o) /\ ~Asked(n, o)
  /\ journal.status # "none" => receipt # "none"
  /\ journal.status = "committed" => receipt = "activated"
  /\ journal.status = "rolled-back" => ObjectsClear(n)
  /\ receipt \in {"rolled-back", "recovered-rolled-back"} => ObjectsClear(n)
  /\ Marked(n, journal.records)
  /\ \A o \in R!Names : /\ Bears(n, o) /\ ~objects[o].nonce => o \in DOMAIN journal.records
                        /\ Awaits(n, o) => o \in DOMAIN journal.records
  /\ ObjectsClear(n) \/ Supplied(journal.source)

RunnerPapers == \A n \in R!Activations : RunnerPaper(n)

\* Until a request was served too late, the objects are of one activation, and
\* the rights of the tenant are there only while the workloads are.
Tidy ==
  tardy = {} =>
    /\ \A o \in R!Names : objects[o] # Absent => objects[o].uid # R!Flux
    /\ \A o, p \in R!Names : /\ objects[o] # Absent /\ objects[o].uid # R!Rival
                             /\ objects[p] # Absent /\ objects[p].uid # R!Rival
                             => objects[o].uid = objects[p].uid
    /\ \A t \in Left(Tenancy), x \in Left(Workloads) :
         objects[t] # Absent /\ objects[t].uid # R!Rival => objects[x] # Absent

Alone == tardy = {} => \A o \in R!Names : objects[o] # Absent => objects[o].uid \in {R!Rival, worker.op}

Coming == IF worker.pc \in {"create", "plain"} THEN Left(worker.todo) ELSE Left(Tail(worker.todo))

Activating ==
  LET journal == ledger[worker.op].journal  done == R!Names \ Coming IN
  /\ journal.status = "in-progress" /\ ledger[worker.op].receipt = "empty"
  /\ Supplied(journal.source)
  /\ DOMAIN journal.records \subseteq DOMAIN worker.records
  /\ \A o \in DOMAIN worker.records : Bears(worker.op, o)
  /\ worker.pc \in {"create", "look", "note"} =>
       /\ InOrder(worker.todo, R!CreateOrder) /\ Alone
       /\ \A o \in Coming : ~Asked(worker.op, o) /\ ~Bears(worker.op, o)
       /\ DOMAIN worker.records = IF worker.pc = "look" THEN done \ {Head(worker.todo)} ELSE done
  /\ worker.pc \in {"plain", "noted"} =>
       /\ InOrder(worker.todo, R!CreateOrder)
       /\ DOMAIN journal.records = R!Names
       /\ \A o \in done : ~objects[o].nonce
  /\ worker.pc \in {"wake", "woken", "wait", "prepare", "commit"} =>
       DOMAIN worker.records = R!Names /\ \A o \in R!Names : ~objects[o].nonce
  /\ worker.pc \in {"woken", "wait", "prepare", "commit"} => R!Active

Retreating ==
  LET journal == ledger[worker.op].journal IN
  /\ ledger[worker.op].receipt = "empty" /\ journal.status \in {"in-progress", "rolled-back"}
  /\ DOMAIN journal.records \subseteq DOMAIN worker.records
  /\ worker.pc \in {"entry", "suspend", "delete", "crossed"} =>
       \A o \in R!Names \ DOMAIN worker.records : Bears(worker.op, o) => worker.op \in tardy
  /\ worker.pc \in {"delete", "crossed"} =>
       /\ InOrder(worker.todo, R!DeleteOrder)
       /\ \A o \in R!Names \ (IF worker.pc = "delete" THEN Left(worker.todo) ELSE Left(Tail(worker.todo))) :
            Bears(worker.op, o) => worker.op \in tardy
  /\ worker.pc = "close" => ObjectsClear(worker.op)

RunnerWork ==
  ~R!At("idle") =>
    LET paper == ledger[worker.op] IN
    /\ worker.op \in R!Activations /\ Marked(worker.op, worker.records)
    /\ worker.pc \in CASE worker.mode = "activate" -> RunnerSteps \ {"idle", "recover"}
                    [] worker.mode = "recover" ->
                          {"recover", "audit", "entry", "suspend", "delete", "crossed", "close",
                           "receipt"}
                    [] OTHER -> {}
    /\ worker.pc \in {"activate", "open"} => worker.records = <<>>
    /\ worker.pc = "activate" => /\ paper = R!NoLedger /\ worker.source \in S!Operations
                                 /\ papers[worker.source].receipt.state = "materialized"
    /\ worker.pc = "open" => /\ paper.journal.status = "none" /\ paper.receipt = "empty"
                             /\ Supplied(worker.source) /\ Alone
    /\ worker.pc \in R!Transacting \cup {"commit"} => Activating
    /\ worker.pc \in {"audit", "entry", "suspend", "delete", "crossed", "close"} => Retreating
    /\ worker.pc = "receipt" => paper.journal.status = "rolled-back" /\ paper.receipt = "empty"
    /\ worker.pc = "recover" => paper.journal.status # "none"

RunnerInv == RunnerTypes /\ CreatedOnce /\ RunnerPapers /\ Tidy /\ RunnerWork

OneAtWork == S!At("idle") \/ R!At("idle")

PlaneInv == SecretInv /\ RunnerInv /\ OneAtWork

-----
\* Sequences and orders.

\* The constants: operations and activations are numbered from 1, 0 is
\* somebody else, and the reconciler is the number after the last activation.
LEMMA Facts ==
  /\ S!Operations = 1 .. MaxOperations /\ R!Activations = 1 .. MaxActivations
  /\ MaxOperations \in Nat /\ MaxActivations \in Nat /\ MaxLaunches \in Nat /\ MaxFaults \in Nat
  /\ S!Rival = 0 /\ R!Rival = 0 /\ R!Flux = MaxActivations + 1
  /\ R!Rival \notin R!Activations /\ R!Flux \notin R!Activations
  /\ Absent \notin S!Identities /\ Absent \notin R!Objects
BY PlaneConstants DEF PlaneConstants, S!SecretsConstants, R!RunnerConstants, S!Operations,
   R!Activations, S!Rival, R!Rival, R!Flux

\* An operation starts with nothing recorded and nothing to do.
LEMMA Empty ==
  /\ <<>> \in S!Records /\ DOMAIN <<>> = {} /\ <<>> \in Marks
<1>1. DOMAIN <<>> = {} OBVIOUS
<1>2. <<>> \in [{} -> S!Identities] /\ <<>> \in [{} -> BOOLEAN] OBVIOUS
<1>3. QED BY <1>1, <1>2 DEF S!Records, Marks

\* Sequences of one length with the same members are the same.
LEMMA SameSequence ==
  ASSUME NEW X, NEW s \in Seq(X), NEW t \in Seq(X), Len(s) = Len(t),
         \A i \in 1 .. Len(s) : s[i] = t[i]
  PROVE  s = t
<1>1. s \in [1 .. Len(s) -> X] /\ t \in [1 .. Len(s) -> X] OBVIOUS
<1>2. QED BY <1>1

\* A sequence of length 0 is the empty one.
LEMMA EmptySequence ==
  ASSUME NEW X, NEW s \in Seq(X), Len(s) = 0
  PROVE  s = <<>>
<1>1. s \in [1 .. 0 -> X] /\ 1 .. 0 = {} OBVIOUS
<1>2. \A t \in [{} -> X] : t = <<>> OBVIOUS
<1>3. QED BY <1>1, <1>2

\* The same, seen from the order: what stands at place k or behind it.
Remaining(order, k) == {order[i] : i \in k .. Len(order)}

\* What is left of an order from place k on, and what is left after its head.
LEMMA Tails ==
  ASSUME NEW X, NEW order \in Seq(X), NEW k \in 1 .. Len(order)
  PROVE  /\ From(order, k) \in Seq(X) /\ From(order, k) # <<>>
         /\ Head(From(order, k)) = order[k] /\ Len(From(order, k)) = Len(order) - k + 1
         /\ k < Len(order) => Tail(From(order, k)) = From(order, k + 1)
         /\ k = Len(order) => Tail(From(order, k)) = <<>>
         /\ Left(From(order, k)) = Remaining(order, k)
<1>0. \A s, t \in Seq(X) : Len(s) = Len(t) /\ (\A i \in 1 .. Len(s) : s[i] = t[i]) => s = t
  BY SameSequence
<1>1. /\ From(order, k) \in Seq(X) /\ Len(From(order, k)) = Len(order) - k + 1
      /\ \A i \in 1 .. Len(order) - k + 1 : From(order, k)[i] = order[k + i - 1]
  BY DEF From
<1>2. /\ From(order, k) # <<>> /\ Head(From(order, k)) = order[k] BY <1>1
<1>3. ASSUME k < Len(order) PROVE Tail(From(order, k)) = From(order, k + 1)
  <2>1. /\ From(order, k + 1) \in Seq(X) /\ Len(From(order, k + 1)) = Len(order) - k
        /\ \A i \in 1 .. Len(order) - k : From(order, k + 1)[i] = order[k + i]
    BY <1>3 DEF From
  <2>2. /\ Tail(From(order, k)) \in Seq(X) /\ Len(Tail(From(order, k))) = Len(order) - k
        /\ \A i \in 1 .. Len(order) - k : Tail(From(order, k))[i] = order[k + i]
    BY <1>1, <1>2, <1>3
  <2>3. QED BY <2>1, <2>2, <1>0
<1>4. ASSUME k = Len(order) PROVE Tail(From(order, k)) = <<>>
  <2>1. Tail(From(order, k)) \in Seq(X) /\ Len(Tail(From(order, k))) = 0
    BY <1>1, <1>2, <1>4
  <2>2. QED BY <2>1, EmptySequence
<1>5. Left(From(order, k)) = Remaining(order, k)
  <2>1. DOMAIN From(order, k) = 1 .. Len(order) - k + 1 BY <1>1
  <2>2. \A i \in k .. Len(order) : i - k + 1 \in 1 .. Len(order) - k + 1 /\ From(order, k)[i - k + 1] = order[i]
    BY <1>1
  <2>3. \A j \in 1 .. Len(order) - k + 1 : k + j - 1 \in k .. Len(order) /\ From(order, k)[j] = order[k + j - 1]
    BY <1>1
  <2>4. Len(order) \in Nat OBVIOUS
  <2>5. Left(From(order, k)) \subseteq Remaining(order, k)
    BY ONLY <2>1, <2>3 DEF Left, Remaining
  <2>6. Remaining(order, k) \subseteq Left(From(order, k))
    BY ONLY <2>1, <2>2 DEF Left, Remaining
  <2>7. QED BY <2>5, <2>6
<1>6. QED BY <1>1, <1>2, <1>3, <1>4, <1>5

\* What is left of an order is a list of it; its tail is the list but the head.
LEMMA Onward ==
  ASSUME NEW X, NEW order \in Seq(X), NEW todo, InOrder(todo, order),
         \A i, j \in 1 .. Len(order) : order[i] = order[j] => i = j
  PROVE  /\ todo \in Seq(X) /\ todo # <<>> /\ Len(todo) \in Nat \ {0} /\ Tail(todo) \in Seq(X)
         /\ Head(todo) \in X /\ Head(todo) \in Left(todo) /\ Left(todo) \subseteq X
         /\ Left(Tail(todo)) = Left(todo) \ {Head(todo)}
         /\ Len(todo) = 1 <=> Tail(todo) = <<>>
         /\ Tail(todo) # <<>> => InOrder(Tail(todo), order)
<1>0. ASSUME NEW k \in 1 .. Len(order)
      PROVE  /\ From(order, k) \in Seq(X) /\ From(order, k) # <<>>
             /\ Head(From(order, k)) = order[k] /\ Len(From(order, k)) = Len(order) - k + 1
             /\ k < Len(order) => Tail(From(order, k)) = From(order, k + 1)
             /\ k = Len(order) => Tail(From(order, k)) = <<>>
             /\ Left(From(order, k)) = Remaining(order, k)
  BY Tails
<1>1. PICK k \in 1 .. Len(order) : todo = From(order, k) BY DEF InOrder
<1>2. /\ todo \in Seq(X) /\ todo # <<>> /\ Head(todo) = order[k] /\ Len(todo) = Len(order) - k + 1
      /\ k < Len(order) => Tail(todo) = From(order, k + 1)
      /\ k = Len(order) => Tail(todo) = <<>>
      /\ Left(todo) = Remaining(order, k)
  BY <1>1, <1>0
<1>3. /\ Head(todo) \in X /\ Head(todo) \in Left(todo) /\ Left(todo) \subseteq X
      /\ Tail(todo) \in Seq(X) /\ Len(todo) \in Nat \ {0}
  BY <1>2 DEF Remaining
<1>4. CASE k < Len(order)
  <2>1. k + 1 \in 1 .. Len(order) BY <1>4
  <2>2. /\ From(order, k + 1) # <<>>
        /\ Left(From(order, k + 1)) = Remaining(order, k + 1)
    BY <2>1, <1>0
  <2>3. Remaining(order, k + 1) = Remaining(order, k) \ {order[k]}
    BY <1>4 DEF Remaining
  <2>4. Left(Tail(todo)) = Left(todo) \ {Head(todo)} BY <1>2, <1>4, <2>2, <2>3
  <2>5. Tail(todo) # <<>> /\ Len(todo) # 1 /\ InOrder(Tail(todo), order)
    <3>1. Tail(todo) = From(order, k + 1) BY <1>2, <1>4
    <3>2. InOrder(From(order, k + 1), order) BY <2>1 DEF InOrder
    <3>3. Len(todo) # 1 BY <1>2, <1>4
    <3>4. QED BY <2>2, <3>1, <3>2, <3>3
  <2>6. QED BY <1>2, <1>3, <2>4, <2>5
<1>5. CASE k = Len(order)
  <2>1. Left(todo) = {Head(todo)} BY <1>2, <1>5 DEF Remaining
  <2>2. Left(<<>>) = {} BY DEF Left
  <2>3. Tail(todo) = <<>> /\ Len(todo) = 1 BY <1>2, <1>5
  <2>4. QED BY <1>2, <1>3, <2>1, <2>2, <2>3
<1>6. QED BY <1>4, <1>5

\* At the start the whole order is left.
LEMMA Outset ==
  ASSUME NEW X, NEW order \in Seq(X), order # <<>>
  PROVE  InOrder(order, order)
<1>1. 1 \in 1 .. Len(order) OBVIOUS
<1>2. SubSeq(order, 1, Len(order)) \in Seq(X) /\ Len(SubSeq(order, 1, Len(order))) = Len(order)
      /\ \A i \in 1 .. Len(order) : SubSeq(order, 1, Len(order))[i] = order[i]
  OBVIOUS
<1>3. \A s, t \in Seq(X) : Len(s) = Len(t) /\ (\A i \in 1 .. Len(s) : s[i] = t[i]) => s = t
  BY SameSequence
<1>4. SubSeq(order, 1, Len(order)) = order BY <1>2, <1>3
<1>5. QED BY <1>1, <1>4 DEF InOrder, From

Backwards(order) == [i \in DOMAIN order |-> order[Len(order) - i + 1]]

\* The reverse of an order without repetitions is one, of the same things.
LEMMA Backward ==
  ASSUME NEW X, NEW order \in Seq(X),
         \A i, j \in 1 .. Len(order) : order[i] = order[j] => i = j
  PROVE  /\ Backwards(order) \in Seq(X) /\ Len(Backwards(order)) = Len(order)
         /\ \A i \in 1 .. Len(order) : Backwards(order)[i] = order[Len(order) - i + 1]
         /\ \A i, j \in 1 .. Len(order) : Backwards(order)[i] = Backwards(order)[j] => i = j
         /\ Left(Backwards(order)) = Left(order)
<1>1. /\ Backwards(order) \in Seq(X) /\ Len(Backwards(order)) = Len(order)
      /\ \A i \in 1 .. Len(order) : Backwards(order)[i] = order[Len(order) - i + 1]
  BY DEF Backwards
<1>2. ASSUME NEW i \in 1 .. Len(order), NEW j \in 1 .. Len(order),
             Backwards(order)[i] = Backwards(order)[j]
      PROVE  i = j
  <2>1. Len(order) - i + 1 \in 1 .. Len(order) /\ Len(order) - j + 1 \in 1 .. Len(order)
    OBVIOUS
  <2>2. order[Len(order) - i + 1] = order[Len(order) - j + 1] BY <1>1, <1>2
  <2>3. Len(order) - i + 1 = Len(order) - j + 1 BY <2>1, <2>2
  <2>4. QED BY <2>3
<1>3. \A i \in 1 .. Len(order) : /\ Len(order) - i + 1 \in 1 .. Len(order)
                                 /\ Backwards(order)[Len(order) - i + 1] = order[i]
  BY <1>1
<1>4. DOMAIN order = 1 .. Len(order) /\ DOMAIN Backwards(order) = 1 .. Len(order)
  BY <1>1
<1>5. Left(Backwards(order)) = Left(order)
  <2>1. \A i \in 1 .. Len(order) : order[i] \in Left(Backwards(order))
    BY <1>3, <1>4 DEF Left
  <2>2. \A i \in 1 .. Len(order) : Backwards(order)[i] \in Left(order)
    BY <1>1, <1>3, <1>4 DEF Left
  <2>3. /\ \A x \in Left(order) : \E i \in 1 .. Len(order) : x = order[i]
        /\ \A x \in Left(Backwards(order)) : \E i \in 1 .. Len(order) : x = Backwards(order)[i]
    BY <1>4 DEF Left
  <2>4. Left(Backwards(order)) \subseteq Left(order) BY <2>2, <2>3
  <2>5. Left(order) \subseteq Left(Backwards(order)) BY <2>1, <2>3
  <2>6. QED BY <2>4, <2>5
<1>6. QED BY <1>1, <1>2, <1>5

\* Every label stands once in the order the Secrets are created in.
LEMMA SecretOrders ==
  /\ SecretOrder \in Seq(S!Labels) /\ SecretOrder # <<>> /\ Left(SecretOrder) = S!Labels
  /\ \A i, j \in 1 .. Len(SecretOrder) : SecretOrder[i] = SecretOrder[j] => i = j
<1>1. /\ SecretOrder \in Seq(STRING) /\ Len(SecretOrder) > 0
      /\ \A i, j \in DOMAIN SecretOrder : SecretOrder[i] = SecretOrder[j] => i = j
  BY PlaneConstants DEF PlaneConstants, S!SecretsConstants, S!IsInjective
<1>2. DOMAIN SecretOrder = 1 .. Len(SecretOrder) BY <1>1
<1>3. S!Labels = Left(SecretOrder) BY DEF S!Labels, S!Range, Left
<1>4. SecretOrder \in [1 .. Len(SecretOrder) -> S!Labels] /\ Len(SecretOrder) \in Nat
  BY <1>1, <1>2, <1>3 DEF Left
<1>5. SecretOrder \in Seq(S!Labels) BY <1>4
<1>6. QED BY <1>1, <1>2, <1>3, <1>5

-----

\* A record of Secrets maps labels to identities, and every such map is one.
LEMMA SecretRecords ==
  /\ \A r \in S!Records : DOMAIN r \subseteq S!Labels /\ \A l \in DOMAIN r : r[l] \in S!Identities
  /\ \A X \in SUBSET S!Labels : \A r \in [X -> S!Identities] : r \in S!Records
  /\ \A v \in S!Identities : v.nonce \in 0 .. MaxOperations /\ v.version \in 0 .. 1 /\ v # Absent
  /\ \A n \in 0 .. MaxOperations : S!Record(n) \in S!Identities /\ S!Record(n).nonce = n /\ S!Record(n).version = 0
BY Facts DEF S!Records, S!Identities, S!Record

\* A step after which operation n has no more requests under way and no more
\* Secrets, except for one served too late.
Lasts(n) ==
  /\ late \subseteq late'
  /\ \A l \in S!Labels :
       /\ Travels(n, l)' => Travels(n, l)
       /\ Lives(n, l)' => \/ Lives(n, l) /\ (secrets'[l].version = 0 => secrets[l].version = 0)
                          \/ Travels(n, l) /\ n \in late'

\* The papers of an operation stay true in a step that only takes from it.
LEMMA PaperLasts ==
  ASSUME NEW n \in S!Operations, SecretTypes, SecretPaper(n), Lasts(n), papers'[n] = papers[n]
  PROVE  SecretPaper(n)'
<1> DEFINE journal == papers[n].journal  receipt == papers[n].receipt
<1>1. /\ journal.records \in S!Records /\ receipt.records \in S!Records
  BY DEF SecretTypes, Papers
<1>2. \A r \in S!Records : Known(n, r) => \A l \in DOMAIN r :
        /\ r[l].nonce = n /\ ~Travels(n, l)'
        /\ Lives(n, l)' /\ secrets'[l].version = 0 => r[l].version = 0
  BY SecretRecords DEF Known, Lasts
<1>3. SecretsClear(n) => SecretsClear(n)' BY DEF Lasts, SecretsClear
<1>4. journal.status = "none" => \A l \in S!Labels : ~Lives(n, l)' /\ ~Travels(n, l)'
  BY DEF SecretPaper, Lasts
<1>5. QED BY <1>1, <1>2, <1>3, <1>4 DEF SecretPaper, Known


\* Papers stay true if those that a step does not write have only lost
\* Secrets or requests.
LEMMA PapersLast ==
  ASSUME SecretTypes, SecretPapers, NEW m \in S!Operations, SecretPaper(m)',
         \A n \in S!Operations \ {m} : Lasts(n) /\ papers'[n] = papers[n]
  PROVE  SecretPapers'
BY PaperLasts DEF SecretPapers

\* A write of the journal changes the journal of one operation and nothing
\* else.
LEMMA JournalWritten ==
  ASSUME SecretTypes, NEW m \in S!Operations, m = job.op, NEW records \in S!Records,
         NEW status \in {"none", "in-progress", "committed", "rolled-back"},
         S!WriteJournal(status, records)
  PROVE  /\ papers' \in [S!Operations -> Papers]
         /\ papers'[m].journal.status = status /\ papers'[m].journal.records = records
         /\ papers'[m].receipt = papers[m].receipt /\ papers'[m].torn = papers[m].torn
         /\ \A n \in S!Operations \ {m} : papers'[n] = papers[n]
BY DEF SecretTypes, Papers, S!WriteJournal

\* A commit of the receipt changes the receipt of one operation and nothing
\* else.
LEMMA ReceiptWritten ==
  ASSUME SecretTypes, NEW m \in S!Operations, m = job.op, NEW records \in S!Records,
         NEW state \in S!Terminal \cup {"none", "empty", "partial"},
         S!CommitReceipt(state, records)
  PROVE  /\ papers' \in [S!Operations -> Papers]
         /\ papers'[m].receipt.state = state /\ papers'[m].receipt.records = records
         /\ papers'[m].journal = papers[m].journal /\ papers'[m].torn = papers[m].torn
         /\ \A n \in S!Operations \ {m} : papers'[n] = papers[n]
BY DEF SecretTypes, Papers, S!CommitReceipt

\* A step that leaves the cluster alone leaves all that is said of the
\* Secrets.
LEMMA SecretsStay ==
  ASSUME UNCHANGED S!cluster
  PROVE  /\ \A n \in S!Operations : Lasts(n)
         /\ \A n, l : Lives(n, l)' <=> Lives(n, l)
         /\ \A n, l : Travels(n, l)' <=> Travels(n, l)
         /\ \A n : SecretsClear(n)' <=> SecretsClear(n)
         /\ \A n, r : Known(n, r)' <=> Known(n, r)
         /\ ServedOnce => ServedOnce'
<1>1. \A n, l : Lives(n, l)' <=> Lives(n, l) BY DEF S!cluster, Lives
<1>2. \A n, l : Travels(n, l)' <=> Travels(n, l) BY DEF S!cluster, Travels
<1>3. \A n : SecretsClear(n)' <=> SecretsClear(n)
  BY <1>1 DEF S!cluster, SecretsClear
<1>4. \A n \in S!Operations : Lasts(n)
  <2>1. secrets' = secrets /\ late' = late /\ travelling' = travelling
    BY DEF S!cluster
  <2>2. QED BY <2>1 DEF Lasts, Lives, Travels
<1>5. \A n, r : Known(n, r)' <=> Known(n, r) BY <1>1, <1>2 DEF S!cluster, Known
<1>6. ServedOnce => ServedOnce' BY <1>1, <1>2 DEF ServedOnce
<1>7. QED BY <1>1, <1>2, <1>3, <1>4, <1>5, <1>6

\* A sequence with one more member at its end.
LEMMA Appended ==
  ASSUME NEW X, NEW s \in Seq(X), NEW x \in X
  PROVE  /\ s \o <<x>> \in Seq(X) /\ Len(s \o <<x>>) = Len(s) + 1
         /\ \A i \in 1 .. Len(s) : (s \o <<x>>)[i] = s[i]
         /\ (s \o <<x>>)[Len(s) + 1] = x
OBVIOUS

\* Every object of the runner stands once in the order it creates them in.
LEMMA RunnerOrders ==
  /\ R!CreateOrder \in Seq(R!Names) /\ R!CreateOrder # <<>> /\ Left(R!CreateOrder) = R!Names
  /\ \A i, j \in 1 .. Len(R!CreateOrder) : R!CreateOrder[i] = R!CreateOrder[j] => i = j
  /\ Kustomization \in R!Names /\ Left(Workloads) \subseteq R!Names
  /\ Left(Tenancy) \subseteq R!Names /\ Left(Tenancy) # {}
  /\ Left(Workloads) = R!Range(Workloads) /\ Left(Tenancy) = R!Range(Tenancy)
  /\ Len(Workloads) \in Nat /\ Len(Tenancy) \in Nat
  /\ Len(R!CreateOrder) = Len(Workloads) + Len(Tenancy) + 1
  /\ Left(Workloads) = {R!CreateOrder[i] : i \in 1 .. Len(Workloads)}
  /\ Left(Tenancy) = {R!CreateOrder[i] : i \in Len(Workloads) + 1 .. Len(Workloads) + Len(Tenancy)}
<1> DEFINE order == R!CreateOrder
           w == Len(Workloads)
           t == Len(Tenancy)
<1>1. /\ Workloads \in Seq(STRING) /\ Tenancy \in Seq(STRING) /\ Tenancy # <<>>
      /\ Kustomization \in STRING
      /\ \A i, j \in DOMAIN order : order[i] = order[j] => i = j
  BY PlaneConstants DEF PlaneConstants, R!RunnerConstants, R!IsInjective
<1>2. w \in Nat /\ t \in Nat /\ t # 0 BY <1>1
<1>3. /\ order \in Seq(STRING) /\ Len(order) = w + t + 1
      /\ \A i \in 1 .. w : order[i] = Workloads[i]
      /\ \A i \in 1 .. t : order[w + i] = Tenancy[i]
      /\ order[w + t + 1] = Kustomization
  <2> DEFINE a == Workloads \o Tenancy
  <2>1. a \in Seq(STRING) /\ Len(a) = w + t
        /\ (\A i \in 1 .. w : a[i] = Workloads[i]) /\ (\A i \in 1 .. t : a[w + i] = Tenancy[i])
    BY <1>1, <1>2
  <2>2. order = a \o <<Kustomization>> BY DEF R!CreateOrder
  <2> HIDE DEF a, order
  <2>3. /\ a \o <<Kustomization>> \in Seq(STRING) /\ Len(a \o <<Kustomization>>) = Len(a) + 1
        /\ \A i \in 1 .. Len(a) : (a \o <<Kustomization>>)[i] = a[i]
        /\ (a \o <<Kustomization>>)[Len(a) + 1] = Kustomization
    <3>1. a \in Seq(STRING) /\ Kustomization \in STRING BY <1>1, <2>1
    <3>2. QED BY <3>1, Appended
  <2>4. QED BY <1>2, <2>1, <2>2, <2>3
<1>4. DOMAIN order = 1 .. Len(order) /\ DOMAIN Workloads = 1 .. w /\ DOMAIN Tenancy = 1 .. t
  BY <1>1, <1>3
<1>5. /\ R!Names = Left(order) /\ Left(Workloads) = R!Range(Workloads) /\ Left(Tenancy) = R!Range(Tenancy)
  BY DEF R!Names, R!Range, Left
<1> HIDE DEF order
<1>6. order \in [1 .. Len(order) -> R!Names] /\ Len(order) \in Nat
  BY <1>3, <1>4, <1>5 DEF Left
<1>7. order \in Seq(R!Names) /\ order # <<>> BY <1>2, <1>3, <1>6
<1>8. /\ Left(Workloads) = {order[i] : i \in 1 .. w} /\ Kustomization \in R!Names
  BY <1>2, <1>3, <1>4, <1>6 DEF Left
<1>9. Left(Tenancy) = {order[i] : i \in w + 1 .. w + t}
  <2>1. \A x \in Left(Tenancy) : \E i \in 1 .. t : x = Tenancy[i] BY <1>4 DEF Left
  <2>2. \A i \in 1 .. t : Tenancy[i] \in Left(Tenancy) BY <1>4 DEF Left
  <2>3. \A i \in 1 .. t : w + i \in w + 1 .. w + t /\ order[w + i] = Tenancy[i]
    BY <1>2, <1>3
  <2>4. \A j \in w + 1 .. w + t : j - w \in 1 .. t /\ order[j] = Tenancy[j - w]
    BY <1>2, <1>3
  <2>5. QED BY <2>1, <2>2, <2>3, <2>4
<1>10. Left(Workloads) \subseteq R!Names /\ Left(Tenancy) \subseteq R!Names /\ Left(Tenancy) # {}
  <2>1. w + 1 \in w + 1 .. w + t /\ \A i \in w + 1 .. w + t : i \in 1 .. Len(order)
    BY <1>2, <1>3
  <2>2. \A i \in 1 .. w : i \in 1 .. Len(order) BY <1>2, <1>3
  <2>3. QED BY <1>6, <1>8, <1>9, <2>1, <2>2
<1>11. QED BY <1>1, <1>2, <1>3, <1>4, <1>5, <1>7, <1>8, <1>9, <1>10 DEF order

\* The order of creation in the form that the steps of the runner need.
LEMMA RunnerOrder ==
  /\ R!CreateOrder \in Seq(R!Names) /\ R!CreateOrder # <<>> /\ Left(R!CreateOrder) = R!Names
  /\ \A i, j \in 1 .. Len(R!CreateOrder) : R!CreateOrder[i] = R!CreateOrder[j] => i = j
BY RunnerOrders

\* When the runner comes to the rights of the tenant it has passed every
\* workload.
LEMMA WorkloadsFirst ==
  ASSUME NEW todo, InOrder(todo, R!CreateOrder), Head(todo) \in Left(Tenancy)
  PROVE  \A x \in Left(Workloads) : x \notin Left(todo)
<1>1. PICK k \in 1 .. Len(R!CreateOrder) : todo = From(R!CreateOrder, k)
  BY DEF InOrder
<1>0. ASSUME NEW j \in 1 .. Len(R!CreateOrder)
      PROVE  /\ Head(From(R!CreateOrder, j)) = R!CreateOrder[j]
             /\ Left(From(R!CreateOrder, j)) = Remaining(R!CreateOrder, j)
  <2>1. R!CreateOrder \in Seq(R!Names) BY RunnerOrders
  <2>2. QED BY <2>1, Tails
<1>2. /\ Head(todo) = R!CreateOrder[k]
      /\ Left(todo) = Remaining(R!CreateOrder, k)
  BY <1>1, <1>0
<1>3. k > Len(Workloads) BY <1>2, RunnerOrders
<1>4. QED BY <1>2, <1>3, RunnerOrders DEF Remaining

\* When it takes the workloads away it has passed every right of the tenant.
LEMMA WorkloadsLast ==
  ASSUME NEW todo, InOrder(todo, R!DeleteOrder), Head(todo) \in Left(Workloads)
  PROVE  \A x \in Left(Tenancy) : x \notin Left(todo)
<1> DEFINE back == R!DeleteOrder
<1>a. back = Backwards(R!CreateOrder) BY DEF R!DeleteOrder, Backwards
<1>0. /\ back \in Seq(R!Names) /\ Len(back) = Len(R!CreateOrder)
      /\ \A i \in 1 .. Len(R!CreateOrder) : back[i] = R!CreateOrder[Len(R!CreateOrder) - i + 1]
  BY <1>a, RunnerOrders, Backward
<1> HIDE DEF back
<1>1. PICK k \in 1 .. Len(back) : todo = From(back, k) BY DEF InOrder, back
<1>9. ASSUME NEW j \in 1 .. Len(back)
      PROVE  /\ Head(From(back, j)) = back[j]
             /\ Left(From(back, j)) = Remaining(back, j)
  <2>1. back \in Seq(R!Names) BY <1>0
  <2>2. QED BY <2>1, Tails
<1>2. /\ Head(todo) = back[k]
      /\ Left(todo) = Remaining(back, k)
  BY <1>1, <1>9
<1>3. Len(back) - k + 1 <= Len(Workloads)
  <2>1. Len(back) - k + 1 \in 1 .. Len(back) /\ Head(todo) = R!CreateOrder[Len(back) - k + 1]
    BY <1>0, <1>2, RunnerOrders
  <2>2. PICK j \in 1 .. Len(Workloads) : Head(todo) = R!CreateOrder[j]
    BY RunnerOrders
  <2>3. QED BY <1>0, <2>1, <2>2, RunnerOrders
<1>4. QED
  <2>1. SUFFICES ASSUME NEW i \in k .. Len(back), back[i] \in Left(Tenancy) PROVE FALSE
    BY <1>2 DEF Remaining
  <2>2. Len(back) - i + 1 \in 1 .. Len(back) /\ Len(back) - i + 1 <= Len(Workloads)
        /\ back[i] = R!CreateOrder[Len(back) - i + 1]
    BY <1>0, <1>3, RunnerOrders
  <2>3. PICK j \in Len(Workloads) + 1 .. Len(Workloads) + Len(Tenancy) : back[i] = R!CreateOrder[j]
    BY <2>1, RunnerOrders
  <2>4. QED BY <1>0, <2>2, <2>3, RunnerOrders

\* The reverse of the order of creation, which the rollback follows.
LEMMA RunnerOrderBack ==
  /\ R!DeleteOrder \in Seq(R!Names) /\ R!DeleteOrder # <<>>
  /\ Left(R!DeleteOrder) = R!Names
  /\ \A i, j \in 1 .. Len(R!DeleteOrder) :
       R!DeleteOrder[i] = R!DeleteOrder[j] => i = j
  /\ InOrder(R!DeleteOrder, R!DeleteOrder)
<1> DEFINE back == R!DeleteOrder
<1>a. back = Backwards(R!CreateOrder) BY DEF R!DeleteOrder, Backwards
<1>1. /\ back \in Seq(R!Names) /\ Len(back) = Len(R!CreateOrder) /\ Left(back) = R!Names
      /\ \A i, j \in 1 .. Len(R!CreateOrder) : back[i] = back[j] => i = j
  BY <1>a, RunnerOrders, Backward
<1> HIDE DEF back
<1>2. back # <<>> BY <1>1, RunnerOrders
<1>3. InOrder(back, back) BY <1>1, <1>2, Outset
<1>4. QED BY <1>1, <1>2, <1>3 DEF back

-----
\* The Secrets: steps of the materialiser.

\* A step of the process alone keeps the invariant if what it now is about to
\* do is licensed.
LEMMA SecretsRest ==
  ASSUME SecretInv, UNCHANGED S!cluster, UNCHANGED papers,
         job' \in [pc : SecretSteps, mode : {"none", "materialize", "recover", "teardown"},
                   op : 0 .. MaxOperations, records : S!Records, todo : Seq(S!Labels)],
         SecretWork'
  PROVE  SecretInv'
<1>1. SecretTypes' BY DEF SecretInv, SecretTypes, S!cluster
<1>2. SecretPapers' BY SecretsStay, PaperLasts DEF SecretInv, SecretPapers
<1>3. QED BY <1>1, <1>2, SecretsStay DEF SecretInv

\* A process that ends leaves nothing but true papers.
LEMMA SecretsEnd ==
  ASSUME SecretInv, UNCHANGED S!cluster, UNCHANGED papers, job' = S!Idle
  PROVE  SecretInv'
<1>1. SecretWork' BY DEF SecretWork, S!At, S!Idle
<1>2. /\ S!Idle \in [pc : SecretSteps, mode : {"none", "materialize", "recover", "teardown"},
                   op : 0 .. MaxOperations, records : S!Records, todo : Seq(S!Labels)]
  BY Empty, Facts DEF S!Idle, SecretSteps
<1>3. QED BY <1>1, <1>2, SecretsRest

\* An accepted materialisation finds no papers, and writes the empty receipt.
LEMMA SecretPreflight ==
  ASSUME SecretInv, S!Preflight
  PROVE  SecretInv'
<1> USE DEF SecretInv, S!Preflight, S!At, S!Goto
<1>0. PICK m \in S!Operations : m = job.op BY DEF SecretWork
<1>1. /\ job.pc = "materialize" /\ papers[m] = S!NoPapers /\ job.records = <<>>
      /\ job.mode = "materialize" /\ job.records \in S!Records /\ Known(m, job.records)
      /\ \A l \in S!Labels : ~Lives(m, l) /\ ~Travels(m, l)
  BY <1>0 DEF SecretWork, SecretTypes, SecretPapers, SecretPaper, S!NoPapers, S!NoJournal
<1>2. UNCHANGED S!cluster OBVIOUS
<1>3. CASE \A l \in S!Labels : secrets[l] = Absent
  <2>1. S!CommitReceipt("empty", <<>>) /\ job' = [job EXCEPT !.pc = "open"] BY <1>3
  <2>2. /\ papers' \in [S!Operations -> Papers]
        /\ papers'[m].receipt.state = "empty"
        /\ papers'[m].journal = papers[m].journal
        /\ papers'[m].torn = papers[m].torn
        /\ \A n \in S!Operations \ {m} : papers'[n] = papers[n]
    BY <1>0, <1>1, <2>1, Empty, ReceiptWritten
  <2>3. SecretTypes' BY <1>2, <2>1, <2>2 DEF SecretTypes, SecretSteps, S!cluster
  <2>4. SecretPaper(m)'
    BY <1>0, <1>1, <1>2, <2>2, SecretsStay DEF SecretPaper, Known, S!NoPapers, S!NoJournal
  <2>5. SecretPapers' BY <1>2, <2>2, <2>4, SecretsStay, PapersLast
  <2>6. SecretWork'
    BY <1>0, <1>1, <1>2, <2>1, <2>2, <2>3, SecretsStay DEF SecretWork, SecretTypes, S!NoPapers, S!NoJournal
  <2>7. QED BY <1>2, <2>3, <2>5, <2>6, SecretsStay
<1>4. CASE ~\A l \in S!Labels : secrets[l] = Absent
  <2>1. UNCHANGED papers /\ job' = S!Idle BY <1>4
  <2>2. QED BY <1>2, <2>1, SecretsEnd
<1>5. QED BY <1>3, <1>4

\* A record with one more Secret is a record.
LEMMA Extended ==
  ASSUME NEW r \in S!Records, NEW l \in S!Labels, NEW v \in S!Identities
  PROVE  [k \in DOMAIN r \cup {l} |-> IF k = l THEN v ELSE r[k]] \in S!Records
BY SecretRecords

\* The journal is opened before any Secret exists.
LEMMA SecretOpenJournal ==
  ASSUME SecretInv, S!OpenJournal
  PROVE  SecretInv'
<1> USE DEF SecretInv, S!OpenJournal, S!At, S!Goto, S!Steps
<1>0. PICK m \in S!Operations : m = job.op BY DEF SecretWork
<1>1. /\ job.pc = "open" /\ job.mode = "materialize" /\ job.records = <<>>
      /\ papers[m].journal.status = "none" /\ papers[m].receipt.state = "empty"
      /\ \A l \in S!Labels : ~Lives(m, l) /\ ~Travels(m, l)
  BY <1>0 DEF SecretWork, SecretPapers, SecretPaper
<1>2. UNCHANGED S!cluster OBVIOUS
<1>3. /\ papers' \in [S!Operations -> Papers]
      /\ papers'[m].journal.status = "in-progress" /\ papers'[m].journal.records = <<>>
      /\ papers'[m].receipt = papers[m].receipt /\ papers'[m].torn = papers[m].torn
      /\ \A n \in S!Operations \ {m} : papers'[n] = papers[n]
  BY <1>0, Empty, JournalWritten
<1>4. job' = [job EXCEPT !.pc = "create", !.todo = SecretOrder] OBVIOUS
<1>5. SecretTypes'
  BY <1>2, <1>3, <1>4, SecretOrders DEF SecretTypes, SecretSteps, S!cluster
<1>6. SecretPaper(m)'
  BY <1>1, <1>2, <1>3, SecretsStay, Empty DEF SecretPapers, SecretPaper, Known
<1>7. SecretPapers' BY <1>2, <1>3, <1>6, SecretsStay, PapersLast
<1>8. InOrder(SecretOrder, SecretOrder) BY SecretOrders, Outset
<1>9. SecretWork'
  <2>1. Known(m, <<>>) /\ Ahead' = S!Labels
    BY <1>1, <1>4, SecretOrders, Empty DEF Known, Ahead, SecretTypes
  <2>2. Making'
    BY <1>0, <1>1, <1>2, <1>3, <1>4, <1>8, <2>1, SecretsStay, Empty DEF Making, SecretTypes
  <2>3. QED BY <1>0, <1>1, <1>2, <1>4, <2>1, <2>2, SecretsStay DEF SecretWork, SecretTypes
<1>10. QED BY <1>2, <1>5, <1>7, <1>9, SecretsStay

\* A Secret is asked for whose label the process has not passed.
LEMMA SecretSendCreate ==
  ASSUME SecretInv, S!SendCreate
  PROVE  SecretInv'
<1> USE DEF SecretInv, S!SendCreate, S!At, S!Goto
<1>0. PICK m \in S!Operations : m = job.op BY DEF SecretWork
<1> DEFINE l == Head(job.todo)
<1>1. /\ job.pc = "create" /\ job.mode = "materialize" /\ Known(m, job.records) /\ Making
      /\ InOrder(job.todo, SecretOrder) /\ papers[m].journal.status = "in-progress"
      /\ papers[m].receipt.state = "empty"
      /\ DOMAIN papers[m].journal.records \subseteq DOMAIN job.records
      /\ DOMAIN job.records = S!Labels \ Left(job.todo)
      /\ \A k \in Left(job.todo) : ~Travels(m, k) /\ ~Lives(m, k)
      /\ \A k \in DOMAIN job.records : Lives(m, k)
  BY <1>0 DEF SecretWork, Making, Ahead
<1>2. /\ l \in S!Labels /\ l \in Left(job.todo) /\ Left(job.todo) \subseteq S!Labels
      /\ Left(Tail(job.todo)) = Left(job.todo) \ {l}
  BY <1>1, SecretOrders, Onward
<1>3. Known(m, papers[m].journal.records) /\ papers[m].torn = FALSE
  BY <1>1 DEF SecretPapers, SecretPaper, SecretTypes, Papers
<1>4. UNCHANGED <<late, papers>> OBVIOUS
<1>5. CASE UNCHANGED <<secrets, travelling>>  /\ job' = [job EXCEPT !.pc = "audit"]
  <2>1. UNCHANGED S!cluster BY <1>4, <1>5 DEF S!cluster
  <2>2. Removing' BY <1>0, <1>1, <1>4, <1>5 DEF Removing, SecretTypes
  <2>3. SecretWork'
    BY <1>0, <1>1, <1>4, <1>5, <2>1, <2>2, SecretsStay DEF SecretWork, SecretTypes
  <2>4. QED BY <1>4, <1>5, <2>1, <2>3, SecretsRest DEF SecretTypes, SecretSteps
<1>6. CASE /\ secrets[l] = Absent /\ secrets' = [secrets EXCEPT ![l] = S!Record(m)]
           /\ job' = [job EXCEPT !.pc = "look"] /\ UNCHANGED travelling
  <2>1. /\ \A k \in S!Labels \ {l} : secrets'[k] = secrets[k]
        /\ secrets'[l] = S!Record(m) /\ S!Record(m).nonce = m /\ S!Record(m) # Absent
        /\ S!Record(m) \in S!Identities
    BY <1>2, <1>6, Facts, SecretRecords DEF SecretTypes
  <2>2. \A n, k : Travels(n, k)' <=> Travels(n, k) BY <1>6 DEF Travels
  <2>3. \A n \in S!Operations, k \in S!Labels : Lives(n, k)' <=> Lives(n, k) \/ (n = m /\ k = l)
    BY <1>2, <1>6, <2>1 DEF Lives
  <2>4. \A n \in S!Operations \ {m} : Lasts(n)
    BY <1>2, <1>4, <1>6, <2>1, <2>2, <2>3 DEF Lasts, Lives
  <2>5. SecretTypes' BY <1>2, <1>4, <1>6, <2>1 DEF SecretTypes, SecretSteps
  <2>6. ServedOnce' BY <1>1, <1>2, <2>2, <2>3 DEF ServedOnce
  <2>7. \A r \in S!Records : Known(m, r) /\ DOMAIN r \subseteq DOMAIN job.records => Known(m, r)'
    BY <1>1, <1>2, <2>1, <2>2, <2>3, SecretRecords DEF Known
  <2>8. SecretPaper(m)'
    BY <1>1, <1>3, <1>4, <2>7 DEF SecretPaper, SecretTypes, Papers
  <2>9. SecretPapers' BY <1>4, <2>4, <2>8, PapersLast
  <2>10. Making'
    BY <1>0, <1>1, <1>2, <1>4, <1>6, <2>2, <2>3, SecretRecords DEF Making, Ahead, SecretTypes
  <2>11. SecretWork'
    BY <1>0, <1>1, <1>4, <1>6, <2>7, <2>10 DEF SecretWork, SecretTypes
  <2>12. QED BY <2>5, <2>6, <2>9, <2>11
<1>7. CASE /\ travelling' = travelling \cup {[label |-> l, nonce |-> m]}
           /\ job' = [job EXCEPT !.pc = "look"] /\ UNCHANGED secrets
  <2>1. \A n \in S!Operations, k \in S!Labels : Travels(n, k)' <=> Travels(n, k) \/ (n = m /\ k = l)
    BY <1>7 DEF Travels
  <2>2. \A n, k : Lives(n, k)' <=> Lives(n, k) BY <1>7 DEF Lives
  <2>3. \A n \in S!Operations \ {m} : Lasts(n) BY <1>4, <1>7, <2>1, <2>2 DEF Lasts
  <2>4. SecretTypes' BY <1>2, <1>4, <1>7 DEF SecretTypes, SecretSteps
  <2>5. ServedOnce' BY <1>1, <1>2, <2>1, <2>2 DEF ServedOnce
  <2>6. \A r \in S!Records : Known(m, r) /\ DOMAIN r \subseteq DOMAIN job.records => Known(m, r)'
    BY <1>1, <1>2, <1>7, <2>1, <2>2, SecretRecords DEF Known
  <2>7. SecretPaper(m)'
    BY <1>1, <1>3, <1>4, <2>6 DEF SecretPaper, SecretTypes, Papers
  <2>8. SecretPapers' BY <1>4, <2>3, <2>7, PapersLast
  <2>9. Making'
    BY <1>0, <1>1, <1>2, <1>4, <1>7, <2>1, <2>2, SecretRecords DEF Making, Ahead, SecretTypes
  <2>10. SecretWork'
    BY <1>0, <1>1, <1>4, <1>7, <2>6, <2>9 DEF SecretWork, SecretTypes
  <2>11. QED BY <2>4, <2>5, <2>8, <2>10
<1>8. QED BY <1>0, <1>5, <1>6, <1>7

\* What is found to bear the nonce is taken into the records.
LEMMA SecretLookCreated ==
  ASSUME SecretInv, S!LookCreated
  PROVE  SecretInv'
<1> USE DEF SecretInv, S!LookCreated, S!At, S!Goto
<1>0. PICK m \in S!Operations : m = job.op BY DEF SecretWork
<1> DEFINE l == Head(job.todo)
           records == [k \in DOMAIN job.records \cup {l} |-> IF k = l THEN secrets[l] ELSE job.records[k]]
<1>1. /\ job.pc = "look" /\ job.mode = "materialize" /\ Known(m, job.records)
      /\ InOrder(job.todo, SecretOrder) /\ papers[m].journal.status = "in-progress"
      /\ papers[m].receipt.state = "empty"
      /\ DOMAIN papers[m].journal.records \subseteq DOMAIN job.records
      /\ DOMAIN job.records = (S!Labels \ Left(Tail(job.todo))) \ {l}
      /\ \A k \in Left(Tail(job.todo)) : ~Travels(m, k) /\ ~Lives(m, k)
      /\ \A k \in DOMAIN job.records : Lives(m, k)
  BY <1>0 DEF SecretWork, Making, Ahead
<1>2. /\ l \in S!Labels /\ l \in Left(job.todo) /\ Left(job.todo) \subseteq S!Labels
      /\ Left(Tail(job.todo)) = Left(job.todo) \ {l}
  BY <1>1, SecretOrders, Onward
<1>3. UNCHANGED S!cluster /\ UNCHANGED papers OBVIOUS
<1>4. CASE ~Lives(m, l)
  <2>1. job' = [job EXCEPT !.pc = "audit"] BY <1>0, <1>4 DEF Lives
  <2>2. Removing' BY <1>0, <1>1, <1>3, <2>1 DEF Removing, SecretTypes
  <2>3. SecretWork'
    BY <1>0, <1>1, <1>3, <2>1, <2>2, SecretsStay DEF SecretWork, SecretTypes
  <2>4. QED BY <1>3, <2>1, <2>3, SecretsRest DEF SecretTypes, SecretSteps
<1>5. CASE Lives(m, l)
  <2>1. job' = [job EXCEPT !.pc = "note", !.records = records]
    BY <1>0, <1>5 DEF Lives
  <2>2. secrets[l] \in S!Identities /\ secrets[l].nonce = m /\ ~Travels(m, l)
    BY <1>2, <1>5 DEF Lives, SecretTypes, ServedOnce
  <2>3. records \in S!Records /\ DOMAIN records = S!Labels \ Left(Tail(job.todo))
    <3>1. job.records \in S!Records BY DEF SecretTypes
    <3>2. records \in S!Records BY <1>2, <2>2, <3>1, Extended
    <3>3. DOMAIN records = S!Labels \ Left(Tail(job.todo)) BY <1>1, <1>2
    <3>4. QED BY <3>2, <3>3
  <2>4. Known(m, records) BY <1>1, <2>2 DEF Known
  <2>5. Making'
    BY <1>0, <1>1, <1>2, <1>3, <1>5, <2>1, <2>3, SecretsStay DEF Making, Ahead, SecretTypes
  <2>6. SecretWork'
    BY <1>0, <1>1, <1>3, <2>1, <2>3, <2>4, <2>5, SecretsStay DEF SecretWork, SecretTypes
  <2>7. QED BY <1>3, <2>1, <2>3, <2>6, SecretsRest DEF SecretTypes, SecretSteps
<1>6. QED BY <1>4, <1>5

\* The record of a Secret is in the journal before the next one is asked for.
LEMMA SecretNoteCreated ==
  ASSUME SecretInv, S!NoteCreated
  PROVE  SecretInv'
<1> USE DEF SecretInv, S!NoteCreated, S!At, S!Goto, S!Steps
<1>0. PICK m \in S!Operations : m = job.op BY DEF SecretWork
<1>1. /\ job.pc = "note" /\ job.mode = "materialize" /\ Known(m, job.records)
      /\ InOrder(job.todo, SecretOrder) /\ papers[m].journal.status = "in-progress"
      /\ papers[m].receipt.state = "empty" /\ job.records \in S!Records
      /\ DOMAIN job.records = S!Labels \ Left(Tail(job.todo))
      /\ \A k \in Left(Tail(job.todo)) : ~Travels(m, k) /\ ~Lives(m, k)
      /\ \A k \in DOMAIN job.records : Lives(m, k)
  BY <1>0 DEF SecretWork, Making, Ahead, SecretTypes
<1>2. /\ Tail(job.todo) \in Seq(S!Labels) /\ (Len(job.todo) = 1 <=> Tail(job.todo) = <<>>)
      /\ Tail(job.todo) # <<>> => InOrder(Tail(job.todo), SecretOrder)
  BY <1>1, SecretOrders, Onward
<1> Left(<<>>) = {}
  BY DEF Left
<1>3. UNCHANGED S!cluster OBVIOUS
<1>4. /\ papers' \in [S!Operations -> Papers]
      /\ papers'[m].journal.status = "in-progress" /\ papers'[m].journal.records = job.records
      /\ papers'[m].receipt = papers[m].receipt /\ papers'[m].torn = papers[m].torn
      /\ \A n \in S!Operations \ {m} : papers'[n] = papers[n]
  BY <1>0, <1>1, JournalWritten
<1>5. SecretTypes' BY <1>2, <1>3, <1>4 DEF SecretTypes, SecretSteps, S!cluster
<1>6. SecretPaper(m)' BY <1>1, <1>3, <1>4, SecretsStay DEF SecretPapers, SecretPaper
<1>7. SecretPapers' BY <1>3, <1>4, <1>6, SecretsStay, PapersLast
<1>8. Making'
  BY <1>0, <1>1, <1>2, <1>3, <1>4, SecretsStay DEF Making, Ahead, SecretTypes
<1>9. SecretWork'
  BY <1>0, <1>1, <1>3, <1>4, <1>8, SecretsStay DEF SecretWork, SecretTypes
<1>10. QED BY <1>3, <1>5, <1>7, <1>9, SecretsStay

\* The journal is committed with all labels recorded.
LEMMA SecretPrepare ==
  ASSUME SecretInv, S!Prepare
  PROVE  SecretInv'
<1> USE DEF SecretInv, S!Prepare, S!At, S!Goto
<1>0. PICK m \in S!Operations : m = job.op BY DEF SecretWork
<1>1. /\ job.pc = "prepare" /\ job.mode = "materialize" /\ Known(m, job.records)
      /\ papers[m].journal.status = "in-progress"
      /\ papers[m].receipt.state = "empty" /\ job.records \in S!Records
      /\ DOMAIN job.records = S!Labels
      /\ \A k \in DOMAIN job.records : Lives(m, k)
  BY <1>0 DEF SecretWork, Making, Ahead, SecretTypes
<1>3. UNCHANGED S!cluster OBVIOUS
<1>4. /\ papers' \in [S!Operations -> Papers]
      /\ papers'[m].journal.status = "in-progress" /\ papers'[m].journal.records = job.records
      /\ papers'[m].receipt = papers[m].receipt /\ papers'[m].torn = papers[m].torn
      /\ \A n \in S!Operations \ {m} : papers'[n] = papers[n]
  BY <1>0, <1>1, JournalWritten
<1>5. SecretTypes' BY <1>3, <1>4 DEF SecretTypes, SecretSteps, S!cluster
<1>6. SecretPaper(m)' BY <1>1, <1>3, <1>4, SecretsStay DEF SecretPapers, SecretPaper
<1>7. SecretPapers' BY <1>3, <1>4, <1>6, SecretsStay, PapersLast
<1>8. Making' BY <1>0, <1>1, <1>3, <1>4, SecretsStay DEF Making, Ahead, SecretTypes
<1>9. SecretWork'
  BY <1>0, <1>1, <1>3, <1>4, <1>8, SecretsStay DEF SecretWork, SecretTypes
<1>10. QED BY <1>3, <1>5, <1>7, <1>9, SecretsStay

\* The receipt that says materialized is committed while every Secret lives
\* under the nonce.
LEMMA SecretCommit ==
  ASSUME SecretInv, S!Commit
  PROVE  SecretInv' /\ \A l \in S!Labels : Lives(job.op, l)
<1> USE DEF SecretInv, S!Commit, S!At
<1>0. PICK m \in S!Operations : m = job.op BY DEF SecretWork
<1>1. /\ job.pc = "commit" /\ job.mode = "materialize" /\ Known(m, job.records)
      /\ papers[m].journal.status = "in-progress"
      /\ papers[m].receipt.state = "empty" /\ job.records \in S!Records
      /\ DOMAIN job.records = S!Labels
      /\ \A k \in DOMAIN job.records : Lives(m, k)
  BY <1>0 DEF SecretWork, Making, Ahead, SecretTypes
<1>3. UNCHANGED S!cluster /\ job' = S!Idle OBVIOUS
<1>4. PICK state \in {"materialized", "partial"}, r \in S!Records :
        /\ S!CommitReceipt(state, r)
        /\ state = "materialized" => r = job.records
  BY <1>1, Empty
<1>5. /\ papers' \in [S!Operations -> Papers]
      /\ papers'[m].receipt.state = state /\ papers'[m].receipt.records = r
      /\ papers'[m].journal = papers[m].journal /\ papers'[m].torn = papers[m].torn
      /\ \A n \in S!Operations \ {m} : papers'[n] = papers[n]
  BY <1>0, <1>1, <1>4, ReceiptWritten DEF S!Terminal
<1>6. SecretTypes'
  BY <1>3, <1>5, Empty, Facts DEF SecretTypes, SecretSteps, S!cluster, S!Idle
<1>7. SecretPaper(m)'
  BY <1>1, <1>3, <1>4, <1>5, SecretsStay DEF SecretPapers, SecretPaper, SecretTypes, Papers
<1>8. SecretPapers' BY <1>3, <1>5, <1>7, SecretsStay, PapersLast
<1>9. SecretWork' BY <1>3 DEF SecretWork, S!Idle
<1>10. QED BY <1>0, <1>1, <1>3, <1>6, <1>8, <1>9, SecretsStay

\* An audit goes on only if everything of the operation that lives is on
\* record.
LEMMA SecretAudit ==
  ASSUME SecretInv, S!Audit
  PROVE  SecretInv'
<1> USE DEF SecretInv, S!Audit, S!At
<1>0. PICK m \in S!Operations : m = job.op BY DEF SecretWork
<1>1. /\ job.pc = "audit" /\ job.mode \in {"materialize", "recover"} /\ Known(m, job.records)
      /\ papers[m].receipt.state = "empty" /\ job.records \in S!Records
      /\ papers[m].journal.status \in {"in-progress", "rolled-back"}
  BY <1>0 DEF SecretWork, Removing, SecretTypes
<1>2. UNCHANGED S!cluster /\ UNCHANGED papers OBVIOUS
<1>3. CASE job' = S!Idle BY <1>2, <1>3, SecretsEnd
<1>4. CASE S!Accounted(S!Adopted) /\ job' = [job EXCEPT !.pc = "entry", !.records = S!Adopted]
  <2> DEFINE own == {l \in S!Labels \ DOMAIN job.records : secrets[l] # Absent /\ secrets[l].nonce = job.op}
  <2>1. S!Adopted = [l \in DOMAIN job.records \cup own |-> IF l \in own THEN secrets[l] ELSE job.records[l]]
    BY DEF S!Adopted
  <2>2. \A l \in own : secrets[l] \in S!Identities /\ secrets[l].nonce = m /\ ~Travels(m, l)
    BY <1>0 DEF SecretTypes, ServedOnce, Lives
  <2>3. S!Adopted \in S!Records /\ DOMAIN S!Adopted = DOMAIN job.records \cup own
    <3>1. job.records \in [DOMAIN job.records -> S!Identities] /\ DOMAIN job.records \subseteq S!Labels
      BY <1>1 DEF S!Records
    <3>2. S!Adopted \in [DOMAIN job.records \cup own -> S!Identities]
      BY <2>1, <2>2, <3>1
    <3>3. DOMAIN job.records \cup own \in SUBSET S!Labels BY <3>1
    <3>4. QED BY <3>2, <3>3, SecretRecords
  <2>4. Known(m, S!Adopted) BY <1>1, <2>1, <2>2 DEF Known
  <2>5. \A l \in S!Labels \ DOMAIN S!Adopted : ~Lives(m, l)
    BY <1>4 DEF S!Accounted, Lives
  <2>6. Removing'
    BY <1>0, <1>1, <1>2, <1>4, <2>5, SecretsStay DEF Removing, SecretTypes
  <2>7. SecretWork'
    BY <1>0, <1>1, <1>2, <1>4, <2>3, <2>4, <2>6, SecretsStay DEF SecretWork, SecretTypes
  <2>8. QED BY <1>2, <1>4, <2>3, <2>7, SecretsRest DEF SecretTypes, SecretSteps
<1>5. QED BY <1>3, <1>4

\* A recovery takes the records of the journal it finds.
LEMMA SecretReadPapers ==
  ASSUME SecretInv, S!ReadPapers
  PROVE  SecretInv'
<1> USE DEF SecretInv, S!ReadPapers, S!At
<1>0. PICK m \in S!Operations : m = job.op BY DEF SecretWork
<1>1. /\ job.pc = "recover" /\ job.mode = "recover" /\ papers[m].journal.status # "none"
      /\ papers[m].journal.records \in S!Records /\ Known(m, papers[m].journal.records)
      /\ SecretPaper(m) /\ papers[m] \in Papers
  BY <1>0 DEF SecretWork, SecretTypes, Papers, SecretPapers, SecretPaper
<1>2. UNCHANGED S!cluster OBVIOUS
<1>3. CASE job' = S!Idle /\ UNCHANGED papers BY <1>2, <1>3, SecretsEnd
<1>4. CASE /\ papers[m].receipt.state = "empty" /\ UNCHANGED papers
           /\ job' = [job EXCEPT !.pc = "audit", !.records = papers[m].journal.records]
  <2>1. papers[m].journal.status \in {"in-progress", "rolled-back"}
    BY <1>1, <1>4 DEF SecretPaper, Papers
  <2>2. Removing' BY <1>0, <1>1, <1>4, <2>1 DEF Removing, SecretTypes
  <2>3. SecretWork'
    BY <1>0, <1>1, <1>2, <1>4, <2>2, SecretsStay DEF SecretWork, SecretTypes
  <2>4. QED BY <1>1, <1>2, <1>4, <2>3, SecretsRest DEF SecretTypes, SecretSteps
<1>5. CASE /\ papers[m].receipt.state \in S!Terminal /\ job' = S!Idle
           /\ S!WriteJournal(IF papers[m].receipt.state = "materialized" THEN "committed" ELSE "rolled-back",
                             papers[m].journal.records)
  <2>1. PICK status \in {"committed", "rolled-back"} :
          /\ S!WriteJournal(status, papers[m].journal.records)
          /\ IF papers[m].receipt.state = "materialized" THEN status = "committed" ELSE status = "rolled-back"
    BY <1>5
  <2>2. /\ papers' \in [S!Operations -> Papers]
        /\ papers'[m].journal.status = status
        /\ papers'[m].journal.records = papers[m].journal.records
        /\ papers'[m].receipt = papers[m].receipt /\ papers'[m].torn = papers[m].torn
        /\ \A n \in S!Operations \ {m} : papers'[n] = papers[n]
    BY <1>0, <1>1, <2>1, JournalWritten
  <2>3. SecretTypes'
    BY <1>2, <1>5, <2>2, Empty, Facts DEF SecretTypes, SecretSteps, S!cluster, S!Idle
  <2>4. SecretPaper(m)'
    BY <1>1, <1>2, <1>5, <2>1, <2>2, SecretsStay DEF SecretPaper, S!Terminal
  <2>5. SecretPapers' BY <1>2, <2>2, <2>4, SecretsStay, PapersLast
  <2>6. SecretWork' BY <1>5 DEF SecretWork, S!Idle
  <2>7. QED BY <1>2, <2>3, <2>5, <2>6, SecretsStay
<1>6. QED BY <1>0, <1>3, <1>4, <1>5 DEF S!Receipt, S!Journal

-----
\* The Secrets: rollback.

\* The reverse of the order of creation, which the rollback and the teardown
\* follow.
LEMMA SecretOrderBack ==
  /\ S!DeleteOrder \in Seq(S!Labels) /\ S!DeleteOrder # <<>>
  /\ Left(S!DeleteOrder) = S!Labels
  /\ \A i, j \in 1 .. Len(S!DeleteOrder) :
       S!DeleteOrder[i] = S!DeleteOrder[j] => i = j
  /\ InOrder(S!DeleteOrder, S!DeleteOrder)
<1>0. S!DeleteOrder = Backwards(SecretOrder) BY DEF S!DeleteOrder, Backwards
<1>1. /\ S!DeleteOrder \in Seq(S!Labels)
      /\ Len(S!DeleteOrder) = Len(SecretOrder)
      /\ Left(S!DeleteOrder) = S!Labels
      /\ \A i, j \in 1 .. Len(SecretOrder) :
            S!DeleteOrder[i] = S!DeleteOrder[j] => i = j
  BY <1>0, SecretOrders, Backward
<1>2. S!DeleteOrder # <<>> BY <1>1, SecretOrders
<1>3. InOrder(S!DeleteOrder, S!DeleteOrder) BY <1>1, <1>2, Outset
<1>4. QED BY <1>1, <1>2, <1>3

\* A rollback is entered with everything live on record.
LEMMA SecretEnterRollback ==
  ASSUME SecretInv, S!EnterRollback
  PROVE  SecretInv'
<1> USE DEF SecretInv, S!EnterRollback, S!At, S!Steps, S!Journal
<1>0. PICK m \in S!Operations : m = job.op BY DEF SecretWork
<1>1. /\ job.pc = "entry" /\ job.mode \in {"materialize", "recover"} /\ Known(m, job.records)
      /\ papers[m].receipt.state = "empty" /\ job.records \in S!Records
      /\ papers[m].journal.status \in {"in-progress", "rolled-back"}
      /\ job.mode = "materialize" =>
           \A l \in S!Labels \ DOMAIN job.records : Lives(m, l) => m \in late
  BY <1>0 DEF SecretWork, Removing, SecretTypes
<1>2. UNCHANGED S!cluster OBVIOUS
<1>3. /\ papers' \in [S!Operations -> Papers]
      /\ papers'[m].journal.status = papers[m].journal.status
      /\ papers'[m].journal.records = job.records
      /\ papers'[m].receipt = papers[m].receipt /\ papers'[m].torn = papers[m].torn
      /\ \A n \in S!Operations \ {m} : papers'[n] = papers[n]
  BY <1>0, <1>1, JournalWritten
<1>4. job' = [job EXCEPT !.pc = "delete", !.todo = S!DeleteOrder] OBVIOUS
<1>5. SecretTypes'
  BY <1>2, <1>3, <1>4, SecretOrderBack DEF SecretTypes, SecretSteps, S!cluster
<1>6. SecretPaper(m)' BY <1>1, <1>2, <1>3, SecretsStay DEF SecretPapers, SecretPaper
<1>7. SecretPapers' BY <1>2, <1>3, <1>6, SecretsStay, PapersLast
<1>8. late' = late BY <1>2 DEF S!cluster
<1>9. Removing'
  BY <1>0, <1>1, <1>2, <1>3, <1>4, <1>8, SecretOrderBack, SecretsStay DEF Removing, SecretTypes
<1>10. SecretWork'
  BY <1>0, <1>1, <1>2, <1>4, <1>9, SecretsStay DEF SecretWork, SecretTypes
<1>11. QED BY <1>2, <1>5, <1>7, <1>10, SecretsStay

\* A Secret is taken under its own record; another one is left where it is.
LEMMA SecretDeleteNext ==
  ASSUME SecretInv, S!DeleteNext, UNCHANGED <<objects, tardy>>
  PROVE  /\ SecretInv'
         /\ \A l \in S!Labels : secrets[l] # Absent /\ secrets'[l] = Absent =>
              /\ secrets[l].nonce = job.op
              /\ papers[job.op].receipt.state = IF job.mode = "teardown" THEN "materialized" ELSE "empty"
<1> USE DEF SecretInv, S!DeleteNext, S!At, S!Goto
<1>0. PICK m \in S!Operations : m = job.op BY DEF SecretWork
<1> DEFINE l == Head(job.todo)
<1>1. /\ job.pc = "delete" /\ job.mode \in {"materialize", "recover", "teardown"}
      /\ Known(m, job.records) /\ Removing
      /\ InOrder(job.todo, S!DeleteOrder)
      /\ \A k \in S!Labels \ Left(job.todo) : Lives(m, k) => m \in late
      /\ papers[m].receipt.state = IF job.mode = "teardown" THEN "materialized" ELSE "empty"
      /\ job.mode = "materialize" =>
           \A k \in S!Labels \ DOMAIN job.records : Lives(m, k) => m \in late
  BY <1>0 DEF SecretWork, Removing
<1>2. /\ l \in S!Labels /\ l \in Left(job.todo) /\ Left(job.todo) \subseteq S!Labels
      /\ Left(Tail(job.todo)) = Left(job.todo) \ {l}
  BY <1>1, SecretOrderBack, Onward
<1>3. UNCHANGED <<late, papers, travelling>> OBVIOUS
<1>4. Unused => Unused' BY DEF Unused
<1>5. CASE UNCHANGED secrets /\ job' = S!Idle
  BY <1>3, <1>5, SecretsEnd DEF S!cluster
<1>6. CASE /\ UNCHANGED secrets /\ job' = [job EXCEPT !.pc = "crossed"]
           /\ secrets[l] = Absent \/ (job.mode = "materialize" /\ l \notin DOMAIN job.records)
  <2>1. UNCHANGED S!cluster BY <1>3, <1>6 DEF S!cluster
  <2>2. \A k \in S!Labels \ Left(Tail(job.todo)) : Lives(m, k) => m \in late
    BY <1>1, <1>2, <1>6 DEF Lives
  <2>3. Removing'
    BY <1>0, <1>1, <1>3, <1>4, <1>6, <2>1, <2>2, SecretsStay DEF Removing, SecretTypes
  <2>4. SecretWork'
    BY <1>0, <1>1, <1>3, <1>6, <2>1, <2>3, SecretsStay DEF SecretWork, SecretTypes
  <2>5. QED BY <1>3, <1>6, <2>1, <2>4, SecretsRest DEF SecretTypes, SecretSteps
<1>7. CASE /\ l \in DOMAIN job.records /\ secrets[l] = job.records[l]
           /\ secrets' = [secrets EXCEPT ![l] = Absent]
           /\ job' = S!Idle \/ job' = [job EXCEPT !.pc = "crossed"]
  <2>1. secrets'[l] = Absent /\ \A k \in S!Labels \ {l} : secrets'[k] = secrets[k]
    BY <1>2, <1>7 DEF SecretTypes
  <2>2. \A n, k : Travels(n, k)' <=> Travels(n, k) BY <1>3 DEF Travels
  <2>3. \A n \in S!Operations, k \in S!Labels : Lives(n, k)' <=> Lives(n, k) /\ k # l
    BY <1>2, <2>1 DEF Lives
  <2>4. \A n \in S!Operations : Lasts(n) BY <1>3, <2>1, <2>2, <2>3 DEF Lasts
  <2>5. SecretTypes'
    <3>1. CASE job' = S!Idle
      BY <1>2, <1>3, <1>7, <2>1, <3>1, Empty, Facts DEF SecretTypes, SecretSteps, S!Idle
    <3>2. CASE job' = [job EXCEPT !.pc = "crossed"]
      BY <1>2, <1>3, <1>7, <2>1, <3>2 DEF SecretTypes, SecretSteps
    <3>3. QED BY <1>7, <3>1, <3>2
  <2>6. ServedOnce' BY <2>2, <2>3 DEF ServedOnce
  <2>7. SecretPapers' BY <1>3, <2>4, PaperLasts DEF SecretPapers
  <2>8. \A k \in S!Labels \ Left(Tail(job.todo)) : Lives(m, k)' => m \in late
    BY <1>1, <1>2, <2>3
  <2>9. \A r \in S!Records : Known(m, r) => Known(m, r)'
    BY <2>1, <2>2, <2>3, SecretRecords DEF Known
  <2>10. SecretWork'
    <3>1. CASE job' = S!Idle BY <3>1 DEF SecretWork, S!Idle
    <3>2. CASE job' = [job EXCEPT !.pc = "crossed"]
      <4>1. /\ job'.pc = "crossed" /\ job'.mode = job.mode /\ job'.op = m
            /\ job'.records = job.records /\ job'.todo = job.todo /\ job.records \in S!Records
            /\ DOMAIN job.records \subseteq S!Labels
        BY <1>0, <3>2, SecretRecords DEF SecretTypes
      <4>2. Removing' BY <1>0, <1>1, <1>3, <1>4, <2>3, <2>8, <4>1 DEF Removing
      <4>3. Known(m, job.records)' BY <2>1, <2>2, <2>3, <1>1, <4>1 DEF Known
      <4>4. QED BY <1>0, <1>1, <1>3, <4>1, <4>2, <4>3 DEF SecretWork
    <3>3. QED BY <1>7, <3>1, <3>2
  <2>11. \A k \in S!Labels : secrets[k] # Absent /\ secrets'[k] = Absent => k = l /\ secrets[k].nonce = m
    BY <1>1, <1>7, <2>1 DEF Known
  <2>12. QED BY <1>0, <1>1, <2>5, <2>6, <2>7, <2>10, <2>11
<1>8. QED BY <1>0, <1>5, <1>6, <1>7 DEF S!Owned

\* The labels that the rollback has passed are clear.
LEMMA SecretNoteDeleted ==
  ASSUME SecretInv, S!NoteDeleted, UNCHANGED <<objects, tardy>>
  PROVE  SecretInv'
<1> USE DEF SecretInv, S!NoteDeleted, S!At, S!Steps, S!Journal
<1>0. PICK m \in S!Operations : m = job.op BY DEF SecretWork
<1>1. /\ job.pc = "crossed" /\ job.mode \in {"materialize", "recover", "teardown"}
      /\ Known(m, job.records) /\ Removing /\ job.records \in S!Records
      /\ InOrder(job.todo, S!DeleteOrder)
      /\ \A k \in S!Labels \ Left(Tail(job.todo)) : Lives(m, k) => m \in late
      /\ IF job.mode = "teardown"
         THEN papers[m].receipt.state = "materialized" /\ Unused
         ELSE papers[m].receipt.state = "empty" /\ papers[m].journal.status \in {"in-progress", "rolled-back"}
      /\ job.mode = "materialize" =>
           \A k \in S!Labels \ DOMAIN job.records : Lives(m, k) => m \in late
  BY <1>0 DEF SecretWork, Removing, SecretTypes
<1>2. /\ Tail(job.todo) \in Seq(S!Labels)
      /\ Tail(job.todo) # <<>> => InOrder(Tail(job.todo), S!DeleteOrder)
  BY <1>1, SecretOrderBack, Onward
<1> Left(<<>>) = {}
  BY DEF Left
<1>3. UNCHANGED S!cluster /\ late' = late BY DEF S!cluster
<1>4. PICK pc \in {"delete", "torn", "close"} :
        /\ job' = [job EXCEPT !.pc = pc, !.todo = Tail(job.todo)]
        /\ pc = "delete" <=> Tail(job.todo) # <<>>
        /\ pc = "torn" => job.mode = "teardown"
        /\ pc = "close" => job.mode # "teardown"
  OBVIOUS
<1>5. Unused => Unused' BY DEF Unused
<1>6. /\ papers' \in [S!Operations -> Papers]
      /\ papers'[m].journal.status = papers[m].journal.status
      /\ Known(m, papers'[m].journal.records)
      /\ papers'[m].journal = papers[m].journal \/ papers[m].journal.status # "none"
      /\ papers'[m].receipt = papers[m].receipt /\ papers'[m].torn = papers[m].torn
      /\ \A n \in S!Operations \ {m} : papers'[n] = papers[n]
  <2>1. CASE job.mode = "teardown"
    BY <2>1 DEF SecretTypes, SecretPapers, SecretPaper
  <2>2. CASE job.mode # "teardown"
    <3>1. papers[m].journal.status \in {"in-progress", "rolled-back"} /\ S!WriteJournal(papers[m].journal.status, job.records)
      BY <1>0, <1>1, <2>2
    <3>2. QED BY <1>0, <1>1, <3>1, JournalWritten
  <2>3. QED BY <2>1, <2>2
<1>7. SecretTypes' BY <1>2, <1>3, <1>4, <1>6 DEF SecretTypes, SecretSteps, S!cluster
<1>8. SecretPaper(m)' BY <1>3, <1>6, SecretsStay DEF SecretPapers, SecretPaper
<1>9. SecretPapers' BY <1>3, <1>6, <1>8, SecretsStay, PapersLast
<1>10. /\ job'.pc = pc /\ job'.mode = job.mode /\ job'.op = m
       /\ job'.records = job.records /\ job'.todo = Tail(job.todo)
  BY <1>0, <1>4 DEF SecretTypes
<1>11. SecretsClear(m) \/ pc = "delete" BY <1>1, <1>4 DEF SecretsClear
<1>12. Removing'
  BY <1>1, <1>2, <1>3, <1>4, <1>5, <1>6, <1>10, <1>11, SecretsStay DEF Removing
<1>13. SecretWork' BY <1>1, <1>3, <1>4, <1>10, <1>12, SecretsStay DEF SecretWork
<1>14. QED BY <1>3, <1>7, <1>9, <1>13, SecretsStay

\* The journal says rolled back when nothing is left.
LEMMA SecretCloseJournal ==
  ASSUME SecretInv, S!CloseJournal
  PROVE  SecretInv'
<1> USE DEF SecretInv, S!CloseJournal, S!At, S!Goto
<1>0. PICK m \in S!Operations : m = job.op BY DEF SecretWork
<1>1. /\ job.pc = "close" /\ job.mode \in {"materialize", "recover"} /\ Known(m, job.records)
      /\ papers[m].receipt.state = "empty" /\ job.records \in S!Records /\ SecretsClear(m)
  BY <1>0 DEF SecretWork, Removing, SecretTypes
<1>2. UNCHANGED S!cluster OBVIOUS
<1>3. /\ papers' \in [S!Operations -> Papers]
      /\ papers'[m].journal.status = "rolled-back" /\ papers'[m].journal.records = job.records
      /\ papers'[m].receipt = papers[m].receipt /\ papers'[m].torn = papers[m].torn
      /\ \A n \in S!Operations \ {m} : papers'[n] = papers[n]
  BY <1>0, <1>1, JournalWritten
<1>4. SecretTypes' BY <1>2, <1>3 DEF SecretTypes, SecretSteps, S!cluster
<1>5. SecretPaper(m)' BY <1>1, <1>2, <1>3, SecretsStay DEF SecretPapers, SecretPaper
<1>6. SecretPapers' BY <1>2, <1>3, <1>5, SecretsStay, PapersLast
<1>7. SecretWork' BY <1>0, <1>1, <1>2, <1>3, SecretsStay DEF SecretWork, SecretTypes
<1>8. QED BY <1>2, <1>4, <1>6, <1>7, SecretsStay

\* The receipt says rolled back after the journal.
LEMMA SecretRollbackReceipt ==
  ASSUME SecretInv, S!RollbackReceipt
  PROVE  SecretInv'
<1> USE DEF SecretInv, S!RollbackReceipt, S!At
<1>0. PICK m \in S!Operations : m = job.op BY DEF SecretWork
<1>1. /\ job.pc = "receipt" /\ papers[m].journal.status = "rolled-back"
      /\ papers[m].receipt.state = "empty" /\ job.records \in S!Records /\ SecretsClear(m)
      /\ ~papers[m].torn
  BY <1>0 DEF SecretWork, SecretTypes, SecretPapers, SecretPaper
<1>2. UNCHANGED S!cluster /\ job' = S!Idle OBVIOUS
<1>3. PICK state \in {"rolled-back", "recovered-rolled-back", "partial"}, r \in S!Records :
        S!CommitReceipt(state, r)
  BY <1>1, Empty
<1>4. /\ papers' \in [S!Operations -> Papers]
      /\ papers'[m].receipt.state = state /\ papers'[m].receipt.records = r
      /\ papers'[m].journal = papers[m].journal /\ papers'[m].torn = papers[m].torn
      /\ \A n \in S!Operations \ {m} : papers'[n] = papers[n]
  BY <1>0, <1>1, <1>3, ReceiptWritten DEF S!Terminal
<1>5. SecretTypes'
  BY <1>2, <1>4, Empty, Facts DEF SecretTypes, SecretSteps, S!cluster, S!Idle
<1>6. SecretPaper(m)'
  BY <1>1, <1>2, <1>3, <1>4, SecretsStay DEF SecretPapers, SecretPaper
<1>7. SecretPapers' BY <1>2, <1>4, <1>6, SecretsStay, PapersLast
<1>8. SecretWork' BY <1>2 DEF SecretWork, S!Idle
<1>9. QED BY <1>2, <1>5, <1>7, <1>8, SecretsStay

-----
\* The Secrets: recovery, teardown and the world.

\* A teardown is entered while no object of an activation is in the cluster.
LEMMA SecretCheckUnused ==
  ASSUME SecretInv, S!CheckUnused, UNCHANGED <<objects, tardy>>
  PROVE  SecretInv'
<1> USE DEF SecretInv, S!CheckUnused, S!At, S!Receipt
<1>0. PICK m \in S!Operations : m = job.op BY DEF SecretWork
<1>1. /\ job.pc = "teardown" /\ job.mode = "teardown"
      /\ papers[m].receipt.state = "materialized"
      /\ papers[m].receipt.records \in S!Records
      /\ Known(m, papers[m].receipt.records)
  BY <1>0 DEF SecretWork, SecretPapers, SecretPaper, SecretTypes, Papers
<1>2. UNCHANGED S!cluster /\ UNCHANGED papers OBVIOUS
<1>3. CASE job' = S!Idle BY <1>2, <1>3, SecretsEnd
<1>4. CASE /\ {o \in R!Names : objects[o] # Absent} = {}
           /\ job' = [job EXCEPT !.pc = "delete", !.records = papers[m].receipt.records,
                                 !.todo = S!DeleteOrder]
  <2>1. Unused' BY <1>4 DEF Unused
  <2>2. /\ job'.pc = "delete" /\ job'.mode = "teardown" /\ job'.op = m
        /\ job'.records = papers[m].receipt.records /\ job'.todo = S!DeleteOrder
    BY <1>0, <1>1, <1>4 DEF SecretTypes
  <2>3. Removing' BY <1>1, <1>2, <2>1, <2>2, SecretOrderBack DEF Removing
  <2>4. SecretWork' BY <1>1, <1>2, <2>2, <2>3, SecretsStay DEF SecretWork
  <2>5. QED BY <1>1, <1>2, <1>4, <2>4, SecretsRest, SecretOrderBack DEF SecretTypes, SecretSteps
<1>5. QED BY <1>0, <1>3, <1>4

\* The teardown is recorded when every Secret is gone.
LEMMA SecretTeardownReceipt ==
  ASSUME SecretInv, S!TeardownReceipt
  PROVE  SecretInv'
<1> USE DEF SecretInv, S!TeardownReceipt, S!At
<1>0. PICK m \in S!Operations : m = job.op BY DEF SecretWork
<1>1. /\ job.mode = "teardown" /\ papers[m].receipt.state = "materialized" /\ SecretsClear(m)
  BY <1>0 DEF SecretWork, Removing
<1>2. UNCHANGED S!cluster /\ job' = S!Idle OBVIOUS
<1>3. /\ papers' \in [S!Operations -> Papers]
      /\ papers'[m].journal = papers[m].journal /\ papers'[m].receipt = papers[m].receipt
      /\ \A n \in S!Operations \ {m} : papers'[n] = papers[n]
  BY <1>0 DEF SecretTypes, Papers
<1>4. SecretTypes'
  BY <1>2, <1>3, Empty, Facts DEF SecretTypes, SecretSteps, S!cluster, S!Idle
<1>5. SecretPaper(m)' BY <1>1, <1>2, <1>3, SecretsStay DEF SecretPapers, SecretPaper
<1>6. SecretPapers' BY <1>2, <1>3, <1>5, SecretsStay, PapersLast
<1>7. SecretWork' BY <1>2 DEF SecretWork, S!Idle
<1>8. QED BY <1>2, <1>4, <1>6, <1>7, SecretsStay

\* An exception sends a materialisation to its rollback, a recovery to its
\* end.
LEMMA SecretRaise ==
  ASSUME SecretInv, S!Raise
  PROVE  SecretInv'
<1> USE DEF SecretInv, S!Raise, S!At, S!Goto, S!Creating
<1>0. PICK m \in S!Operations : m = job.op BY DEF SecretWork
<1>2. UNCHANGED S!cluster /\ UNCHANGED papers OBVIOUS
<1>3. CASE job' = S!Idle BY <1>2, <1>3, SecretsEnd
<1>4. CASE job.pc \in {"create", "look", "note"} /\ job' = [job EXCEPT !.pc = "audit"]
  <2>1. /\ job.mode = "materialize" /\ Known(m, job.records)
        /\ papers[m].journal.status = "in-progress" /\ papers[m].receipt.state = "empty"
    BY <1>0, <1>4 DEF SecretWork, Making
  <2>2. Removing' BY <1>0, <1>2, <1>4, <2>1 DEF Removing, SecretTypes
  <2>3. SecretWork'
    BY <1>0, <1>2, <1>4, <2>1, <2>2, SecretsStay DEF SecretWork, SecretTypes
  <2>4. QED BY <1>2, <1>4, <2>3, SecretsRest DEF SecretTypes, SecretSteps
<1>5. QED BY <1>3, <1>4

\* A killed process leaves papers that are still true.
LEMMA SecretKill ==
  ASSUME SecretInv, S!Kill
  PROVE  SecretInv'
BY SecretsEnd DEF S!Kill

\* The world moves on, the process does not: nothing of what it relies on is lost.
LEMMA SecretsMove ==
  ASSUME SecretInv, UNCHANGED <<papers, job, objects, tardy>>,
         secrets' \in [S!Labels -> S!Identities \cup {Absent}],
         travelling' \subseteq travelling, late' \subseteq S!Operations,
         \A n \in S!Operations : Lasts(n), ServedOnce',
         \A n \in S!Operations, l \in S!Labels :
           /\ Lives(n, l) => Lives(n, l)'
           /\ Lives(n, l)' /\ ~Lives(n, l) => Travels(n, l)
  PROVE  SecretInv'
<1> USE DEF SecretInv
<1>1. SecretTypes' BY DEF SecretTypes
<1>2. SecretPapers' BY PaperLasts DEF SecretPapers
<1>3. \A n \in S!Operations, r \in S!Records : Known(n, r) => Known(n, r)'
  BY SecretRecords DEF Known, Lasts
<1>4. Unused => Unused' BY DEF Unused
<1>5. SUFFICES ASSUME ~S!At("idle") PROVE SecretWork'
  BY <1>1, <1>2, <1>5 DEF SecretWork, S!At
<1>6. PICK m \in S!Operations : m = job.op BY <1>5 DEF SecretWork
<1>7. SecretsClear(m) => SecretsClear(m)' BY DEF SecretsClear, Lasts
<1>8. late \subseteq late' /\ job.records \in S!Records /\ DOMAIN job.records \subseteq S!Labels
  BY <1>6, SecretRecords DEF Lasts, SecretTypes
<1>9. \A l \in S!Labels : (Lives(m, l) => m \in late) => (Lives(m, l)' => m \in late')
  BY <1>8 DEF Lasts
<1>10. Removing => Removing' BY <1>4, <1>6, <1>7, <1>9 DEF Removing
<1>11. Making => Making'
  <2>1. Ahead' = Ahead BY DEF Ahead
  <2>2. job.pc \in {"create", "look", "note"} /\ Making => Ahead \subseteq S!Labels
    <3>1. CASE InOrder(job.todo, SecretOrder)
      <4>1. /\ Left(job.todo) \subseteq S!Labels
            /\ Left(Tail(job.todo)) = Left(job.todo) \ {Head(job.todo)}
        BY <3>1, SecretOrders, Onward
      <4>2. QED BY <4>1 DEF Ahead
    <3>2. QED BY <3>1 DEF Making
  <2>3. \A l \in S!Labels : ~Travels(m, l) /\ ~Lives(m, l) => ~Travels(m, l)' /\ ~Lives(m, l)'
    BY DEF Travels
  <2>4. QED BY <1>6, <1>8, <2>1, <2>2, <2>3 DEF Making
<1>12. QED BY <1>3, <1>5, <1>6, <1>8, <1>10, <1>11 DEF SecretWork, S!At

\* A request served after the answer was lost marks its operation as late.
LEMMA SecretServeLate ==
  ASSUME SecretInv, S!ServeLate, UNCHANGED <<objects, tardy>>
  PROVE  SecretInv'
<1> USE DEF SecretInv
<1>1. PICK r \in travelling :
        /\ travelling' = travelling \ {r}
        /\ IF secrets[r.label] = Absent
           THEN /\ secrets' = [secrets EXCEPT ![r.label] = S!Record(r.nonce)]
                /\ late' = late \cup {r.nonce}
           ELSE UNCHANGED <<secrets, late>>
        /\ UNCHANGED <<papers, job>>
  BY DEF S!ServeLate
<1>2. PICK m \in S!Operations, l \in S!Labels : r = [label |-> l, nonce |-> m]
  BY DEF SecretTypes
<1>3. \A n \in S!Operations, k \in S!Labels : Travels(n, k)' <=> Travels(n, k) /\ ~(n = m /\ k = l)
  BY <1>1, <1>2 DEF Travels
<1>4. Travels(m, l) BY <1>1, <1>2 DEF Travels
<1>5. CASE secrets[l] = Absent
  <2>1. /\ \A k \in S!Labels \ {l} : secrets'[k] = secrets[k]
        /\ secrets'[l] = S!Record(m) /\ S!Record(m).nonce = m /\ S!Record(m) # Absent
        /\ S!Record(m) \in S!Identities /\ late' = late \cup {m}
    BY <1>1, <1>2, <1>5, Facts, SecretRecords DEF SecretTypes
  <2>2. \A n \in S!Operations, k \in S!Labels : Lives(n, k)' <=> Lives(n, k) \/ (n = m /\ k = l)
    BY <1>5, <2>1 DEF Lives
  <2>3. \A n \in S!Operations : Lasts(n)
    BY <1>3, <1>4, <1>5, <2>1, <2>2 DEF Lasts, Lives
  <2>4. ServedOnce' BY <1>3, <2>2 DEF ServedOnce
  <2>5. secrets' \in [S!Labels -> S!Identities \cup {Absent}] /\ late' \subseteq S!Operations
    BY <1>1, <1>2, <1>5, <2>1 DEF SecretTypes
  <2>6. QED BY <1>1, <1>4, <2>2, <2>3, <2>4, <2>5, SecretsMove
<1>6. CASE secrets[l] # Absent
  <2>1. UNCHANGED <<secrets, late>> BY <1>1, <1>2, <1>6
  <2>2. \A n, k : Lives(n, k)' <=> Lives(n, k) BY <2>1 DEF Lives
  <2>3. \A n \in S!Operations : Lasts(n) BY <1>3, <2>1, <2>2 DEF Lasts
  <2>4. ServedOnce' BY <1>3, <2>2 DEF ServedOnce
  <2>5. QED BY <1>1, <2>1, <2>2, <2>3, <2>4, SecretsMove DEF SecretTypes
<1>7. QED BY <1>5, <1>6

\* Somebody else takes a free label, or edits a Secret in place.
LEMMA SecretInterfere ==
  ASSUME SecretInv, S!Interfere, UNCHANGED <<objects, tardy>>
  PROVE  SecretInv'
<1> USE DEF SecretInv
<1>1. PICK l \in S!Labels :
        \/ secrets[l] = Absent /\ secrets' = [secrets EXCEPT ![l] = S!Record(S!Rival)]
        \/ /\ secrets[l] # Absent /\ secrets[l].version = 0
           /\ secrets' = [secrets EXCEPT ![l].version = 1]
  BY DEF S!Interfere
<1>2. UNCHANGED <<travelling, late, papers, job>> BY DEF S!Interfere
<1>3. /\ \A k \in S!Labels \ {l} : secrets'[k] = secrets[k]
      /\ secrets'[l] \in S!Identities
      /\ \/ secrets[l] = Absent /\ secrets'[l].nonce = 0
         \/ secrets[l] # Absent /\ secrets'[l].nonce = secrets[l].nonce /\ secrets'[l].version = 1
  <2>1. CASE secrets[l] = Absent /\ secrets' = [secrets EXCEPT ![l] = S!Record(S!Rival)]
    BY <2>1, Facts, SecretRecords DEF SecretTypes
  <2>2. CASE secrets[l] # Absent /\ secrets' = [secrets EXCEPT ![l].version = 1]
    BY <2>2 DEF SecretTypes, S!Identities
  <2>3. QED BY <1>1, <2>1, <2>2
<1>4. secrets' \in [S!Labels -> S!Identities \cup {Absent}]
  BY <1>1, <1>3 DEF SecretTypes
<1>5. \A n \in S!Operations, k \in S!Labels : Lives(n, k)' <=> Lives(n, k)
  BY <1>3, Facts DEF Lives
<1>6. \A n, k : Travels(n, k)' <=> Travels(n, k) BY <1>2 DEF Travels
<1>7. \A n \in S!Operations : Lasts(n) BY <1>2, <1>3, <1>5, <1>6 DEF Lasts, Lives
<1>8. ServedOnce' BY <1>5, <1>6 DEF ServedOnce
<1>9. QED BY <1>2, <1>4, <1>5, <1>7, <1>8, SecretsMove DEF SecretTypes

\* A process starts with nothing on record.
LEMMA SecretStart ==
  ASSUME SecretInv, S!Operator
  PROVE  SecretInv'
<1> USE DEF SecretInv, S!At, S!Journal, S!Receipt, S!Start
<1>1. UNCHANGED S!cluster /\ UNCHANGED papers
  BY DEF S!Operator, S!StartMaterialize, S!StartRecovery, S!StartTeardown
<1>2. PICK m \in S!Operations, mode \in {"materialize", "recover", "teardown"} :
        /\ S!Start(mode, m)
        /\ mode = "materialize" => papers[m] = S!NoPapers
        /\ mode = "recover" => papers[m].journal # S!NoJournal
        /\ mode = "teardown" => papers[m].receipt.state = "materialized"
  BY DEF S!Operator, S!StartMaterialize, S!StartRecovery, S!StartTeardown
<1>3. job' = [S!Idle EXCEPT !.pc = mode, !.mode = mode, !.op = m] BY <1>2
<1>4. job'.pc = mode /\ job'.mode = mode /\ job'.op = m /\ job'.records = <<>>
  BY <1>3 DEF S!Idle
<1>5. mode = "recover" => papers[m].journal.status # "none"
  BY <1>2 DEF SecretPapers, SecretPaper
<1>6. Known(m, <<>>) BY Empty DEF Known
<1>7. SecretWork' BY <1>1, <1>2, <1>4, <1>5, <1>6, SecretsStay DEF SecretWork
<1>8. job' \in [pc : SecretSteps, mode : {"none", "materialize", "recover", "teardown"},
                op : 0 .. MaxOperations, records : S!Records, todo : Seq(S!Labels)]
  <2>1. job' = [pc |-> mode, mode |-> mode, op |-> m, records |-> <<>>, todo |-> <<>>]
    BY <1>3 DEF S!Idle
  <2>2. m \in 0 .. MaxOperations /\ mode \in SecretSteps /\ <<>> \in Seq(S!Labels)
    BY Facts DEF SecretSteps
  <2>3. QED BY <2>1, <2>2, Empty
<1>9. QED BY <1>1, <1>7, <1>8, SecretsRest

-----
\* Objects: what a step leaves alone.

\* A step after which activation n has no more requests under way and no more
\* objects, except for one created too late, and no nonce but by a request.
Shrinks(n) ==
  /\ tardy \subseteq tardy'
  /\ \A o \in R!Names :
       /\ Asked(n, o)' => Asked(n, o)
       /\ Awaits(n, o)' => Awaits(n, o)
       /\ Bears(n, o)' => \/ Bears(n, o) /\ objects'[o].nonce = objects[o].nonce
                          \/ Bears(n, o) /\ Awaits(n, o) /\ ~objects'[o].nonce
                          \/ Asked(n, o) /\ n \in tardy' /\ objects'[o].nonce

\* Secrets that nobody touches go on supplying.
LEMMA SuppliesStay ==
  ASSUME UNCHANGED secretSide
  PROVE  \A s : Supplied(s)' <=> Supplied(s)
<1>1. \A n, l : Lives(n, l)' <=> Lives(n, l) BY DEF secretSide, Lives
<1>2. QED BY <1>1 DEF secretSide, Supplied

\* A record of the runner maps objects to whether their nonce is gone.
LEMMA MarksAre ==
  /\ \A r \in Marks : DOMAIN r \subseteq R!Names /\ \A o \in DOMAIN r : r[o] \in BOOLEAN
  /\ \A X \in SUBSET R!Names : \A r \in [X -> BOOLEAN] : r \in Marks
BY DEF Marks

\* The objects as an activation, a rival or the reconciler writes them.
LEMMA ObjectsAre ==
  /\ \A v \in R!Objects : /\ v.uid \in 0 .. MaxActivations + 1 /\ v.nonce \in BOOLEAN
                          /\ v.suspended \in BOOLEAN /\ v # Absent
  /\ \A n \in R!Activations : /\ R!Fresh(n) \in R!Objects /\ R!Fresh(n).uid = n
                               /\ R!Fresh(n).nonce = TRUE /\ R!Fresh(n).suspended = TRUE
  /\ \A u \in 0 .. MaxActivations + 1 : /\ R!Plain(u) \in R!Objects /\ R!Plain(u).uid = u
                                         /\ R!Plain(u).nonce = FALSE /\ R!Plain(u).suspended = TRUE
BY Facts DEF R!Objects, R!Fresh, R!Plain

\* Marks stay true in a step that only takes from an activation.
LEMMA MarkedLasts ==
  ASSUME NEW n \in R!Activations, Shrinks(n), NEW r \in Marks, Marked(n, r)
  PROVE  Marked(n, r)'
BY MarksAre DEF Marked, Shrinks

\* An activation that has left nothing has left nothing after such a step
\* either.
LEMMA ObjectsClearLasts ==
  ASSUME NEW n \in R!Activations, Shrinks(n), ObjectsClear(n)
  PROVE  ObjectsClear(n)'
BY DEF ObjectsClear, Shrinks

\* The papers of an activation stay true in such a step, while its Secrets
\* supply it.
LEMMA LedgerLasts ==
  ASSUME NEW n \in R!Activations, RunnerTypes, RunnerPaper(n), Shrinks(n), ledger'[n] = ledger[n],
         ObjectsClear(n)' \/ (Supplied(ledger[n].journal.source) => Supplied(ledger[n].journal.source)')
  PROVE  RunnerPaper(n)'
<1> DEFINE journal == ledger[n].journal  receipt == ledger[n].receipt
<1>1. journal.records \in Marks BY DEF RunnerTypes, Ledgers
<1>2. Marked(n, journal.records)' BY <1>1, MarkedLasts DEF RunnerPaper
<1>3. ObjectsClear(n) => ObjectsClear(n)' BY ObjectsClearLasts
<1>4. journal.status = "none" => \A o \in R!Names : ~Bears(n, o)' /\ ~Asked(n, o)'
  BY DEF RunnerPaper, Shrinks
<1>5. \A o \in R!Names : /\ Bears(n, o)' /\ ~objects'[o].nonce => o \in DOMAIN journal.records
                         /\ Awaits(n, o)' => o \in DOMAIN journal.records
  BY DEF RunnerPaper, Shrinks
<1>6. QED BY <1>2, <1>3, <1>4, <1>5 DEF RunnerPaper

\* A write of the journal changes one journal, and keeps the source it was
\* opened with.
LEMMA JournalNoted ==
  ASSUME RunnerTypes, NEW m \in R!Activations, m = worker.op, NEW records \in Marks,
         NEW status \in {"none", "in-progress", "committed", "rolled-back"},
         R!WriteJournal(status, records)
  PROVE  /\ ledger' \in [R!Activations -> Ledgers]
         /\ ledger'[m].journal.status = status /\ ledger'[m].journal.records = records
         /\ ledger[m].journal.status # "none" =>
              ledger'[m].journal.source = ledger[m].journal.source
         /\ ledger[m].journal = R!NoJournal => ledger'[m].journal.source = worker.source
         /\ ledger'[m].receipt = ledger[m].receipt
         /\ \A n \in R!Activations \ {m} : ledger'[n] = ledger[n]
<1>1. worker.source \in 0 .. MaxOperations /\ ledger[m].journal.source \in 0 .. MaxOperations
  BY DEF RunnerTypes, Ledgers, Workers
<1> DEFINE source == IF ledger[m].journal = R!NoJournal THEN worker.source ELSE ledger[m].journal.source
<1>2. ledger' = [ledger EXCEPT ![m].journal = [status |-> status, records |-> records, source |-> source]]
  BY DEF R!WriteJournal
<1>3. source \in 0 .. MaxOperations BY <1>1
<1>4. /\ ledger[m].journal.status # "none" => source = ledger[m].journal.source
      /\ ledger[m].journal = R!NoJournal => source = worker.source
  BY DEF R!NoJournal
<1> HIDE DEF source
<1>5. QED BY <1>2, <1>3, <1>4 DEF RunnerTypes, Ledgers

\* A commit of the receipt changes the receipt of one activation and nothing
\* else.
LEMMA ReceiptNoted ==
  ASSUME RunnerTypes, NEW m \in R!Activations, m = worker.op,
         NEW state \in R!Terminal \cup {"none", "empty", "partial"},
         R!CommitReceipt(state)
  PROVE  /\ ledger' \in [R!Activations -> Ledgers]
         /\ ledger'[m].receipt = state /\ ledger'[m].journal = ledger[m].journal
         /\ \A n \in R!Activations \ {m} : ledger'[n] = ledger[n]
BY DEF RunnerTypes, Ledgers, R!CommitReceipt

\* A step that leaves the objects alone leaves all that is said of them.
LEMMA RunnerStay ==
  ASSUME UNCHANGED R!plane
  PROVE  /\ \A n \in R!Activations : Shrinks(n)
         /\ \A n, o : Bears(n, o)' <=> Bears(n, o)
         /\ \A n, o : Asked(n, o)' <=> Asked(n, o)
         /\ \A n, o : Awaits(n, o)' <=> Awaits(n, o)
         /\ \A n : ObjectsClear(n)' <=> ObjectsClear(n)
         /\ \A n, r : Marked(n, r)' <=> Marked(n, r)
         /\ CreatedOnce => CreatedOnce'
         /\ Tidy => Tidy'
         /\ R!Active' <=> R!Active
         /\ objects' = objects /\ tardy' = tardy
<1>0. objects' = objects /\ requests' = requests /\ tardy' = tardy BY DEF R!plane
<1>1. \A n, o : Bears(n, o)' <=> Bears(n, o) BY <1>0 DEF Bears
<1>2. \A n, o : (Asked(n, o)' <=> Asked(n, o)) /\ (Awaits(n, o)' <=> Awaits(n, o))
  BY <1>0 DEF Asked, Awaits
<1>3. \A n : ObjectsClear(n)' <=> ObjectsClear(n) BY <1>0, <1>1 DEF ObjectsClear
<1>4. \A n \in R!Activations : Shrinks(n) BY <1>0, <1>1, <1>2 DEF Shrinks
<1>5. \A n, r : Marked(n, r)' <=> Marked(n, r) BY <1>0, <1>1, <1>2 DEF Marked
<1>6. CreatedOnce => CreatedOnce' BY <1>1, <1>2 DEF CreatedOnce
<1>7. Tidy => Tidy' BY <1>0 DEF Tidy
<1>8. R!Active' <=> R!Active BY <1>0 DEF R!Active, R!Live
<1>9. QED BY <1>0, <1>1, <1>2, <1>3, <1>4, <1>5, <1>6, <1>7, <1>8

\* A step that leaves the cluster alone: the process and its papers.
LEMMA RunnerWrites ==
  ASSUME RunnerInv, UNCHANGED R!plane, UNCHANGED secretSide,
         NEW m \in R!Activations, ledger' \in [R!Activations -> Ledgers],
         \A n \in R!Activations \ {m} : ledger'[n] = ledger[n], RunnerPaper(m)',
         worker' \in Workers, RunnerWork'
  PROVE  RunnerInv'
<1>1. RunnerTypes' BY DEF RunnerInv, RunnerTypes, R!plane
<1>2. RunnerPapers'
  BY RunnerStay, SuppliesStay, LedgerLasts DEF RunnerInv, RunnerPapers
<1>3. QED BY <1>1, <1>2, RunnerStay DEF RunnerInv

\* A step of the process alone keeps the invariant if what it now is about to
\* do is licensed.
LEMMA RunnerRest ==
  ASSUME RunnerInv, UNCHANGED R!plane, UNCHANGED secretSide, UNCHANGED ledger,
         worker' \in Workers, RunnerWork'
  PROVE  RunnerInv'
<1>1. RunnerTypes' BY DEF RunnerInv, RunnerTypes, R!plane
<1>2. RunnerPapers'
  BY RunnerStay, SuppliesStay, LedgerLasts DEF RunnerInv, RunnerPapers
<1>3. QED BY <1>1, <1>2, RunnerStay DEF RunnerInv

\* An idle process owes nothing.
LEMMA RunnerIdles ==
  ASSUME worker' = R!Rest
  PROVE  worker' \in Workers /\ RunnerWork'
<1>1. R!Rest \in Workers BY Empty, Facts DEF R!Rest, RunnerSteps, Workers
<1>2. RunnerWork' BY DEF RunnerWork, R!At, R!Rest
<1>3. QED BY <1>1, <1>2

\* A process that ends leaves nothing but true papers.
LEMMA RunnerEnd ==
  ASSUME RunnerInv, UNCHANGED R!plane, UNCHANGED secretSide, UNCHANGED ledger, worker' = R!Rest
  PROVE  RunnerInv'
BY RunnerIdles, RunnerRest

-----
\* Objects: creation begins.

\* An accepted activation finds all Secrets of its source and no object of
\* another activation.
LEMMA RunnerPreflight ==
  ASSUME RunnerInv, SecretInv, R!Preflight, UNCHANGED secretSide
  PROVE  RunnerInv'
<1> USE DEF RunnerInv, R!Preflight, R!At, R!Goto
<1>0. PICK m \in R!Activations : m = worker.op BY DEF RunnerWork
<1>1. /\ worker.pc = "activate" /\ ledger[m] = R!NoLedger /\ worker.records = <<>>
      /\ worker.mode = "activate" /\ Marked(m, worker.records)
      /\ worker.source \in S!Operations
      /\ papers[worker.source].receipt.state = "materialized"
      /\ \A o \in R!Names : ~Bears(m, o) /\ ~Asked(m, o) /\ ~Awaits(m, o)
  BY <1>0, Empty DEF RunnerWork, RunnerPapers, RunnerPaper, R!NoLedger, R!NoJournal
<1>2. UNCHANGED R!plane OBVIOUS
<1>3. CASE R!SecretsBound(worker.source) /\ \A o \in R!Names : ~R!Live(o)
  <2>1. R!CommitReceipt("empty") /\ worker' = [worker EXCEPT !.pc = "open"] BY <1>3
  <2>2. /\ ledger' \in [R!Activations -> Ledgers]
        /\ ledger'[m].receipt = "empty" /\ ledger'[m].journal = ledger[m].journal
        /\ \A n \in R!Activations \ {m} : ledger'[n] = ledger[n]
    BY <1>0, <2>1, ReceiptNoted
  <2>3. RunnerPaper(m)'
    BY <1>1, <1>2, <2>2, RunnerStay, Empty DEF RunnerPaper, ObjectsClear, Marked, R!NoLedger, R!NoJournal
  <2>4. Supplied(worker.source)
    <3>1. PICK s \in S!Operations : s = worker.source BY <1>1
    <3>2. /\ papers[s].receipt.state = "materialized" /\ papers[s].receipt.records \in S!Records
          /\ DOMAIN papers[s].receipt.records = S!Labels
          /\ \A l \in S!Labels : papers[s].receipt.records[l].nonce = s
      BY <1>1, <3>1 DEF SecretInv, SecretTypes, SecretPapers, SecretPaper, Papers, Known
    <3>3. \A l \in S!Labels : papers[s].receipt.records[l] # Absent
      BY <3>2, SecretRecords
    <3>4. \A l \in S!Labels : secrets[l] = papers[s].receipt.records[l]
      BY <1>3, <3>1 DEF R!SecretsBound, SecretInv, SecretTypes
    <3>5. QED BY <3>1, <3>2, <3>3, <3>4 DEF Supplied, Lives
  <2>5. Alone' BY <1>2, <1>3, RunnerStay DEF Alone, R!Live
  <2>6. /\ worker'.pc = "open" /\ worker'.mode = "activate" /\ worker'.op = m
        /\ worker'.records = <<>> /\ worker'.source = worker.source /\ worker' \in Workers
    BY <1>0, <1>1, <2>1 DEF RunnerTypes, Workers, RunnerSteps
  <2>7. RunnerWork'
    BY <1>1, <1>2, <2>2, <2>4, <2>5, <2>6, RunnerStay, SuppliesStay
       DEF RunnerWork, R!NoLedger, R!NoJournal, RunnerSteps, R!Transacting
  <2>8. QED BY <1>2, <2>2, <2>3, <2>6, <2>7, RunnerWrites
<1>4. CASE ~(R!SecretsBound(worker.source) /\ \A o \in R!Names : ~R!Live(o))
  BY <1>2, <1>4, RunnerEnd
<1>5. QED BY <1>3, <1>4

\* The journal is opened before any object exists, and binds the source
\* receipt.
LEMMA RunnerOpenJournal ==
  ASSUME RunnerInv, R!OpenJournal, UNCHANGED secretSide
  PROVE  RunnerInv'
<1> USE DEF RunnerInv, R!OpenJournal, R!At, R!Steps
<1>0. PICK m \in R!Activations : m = worker.op BY DEF RunnerWork
<1>1. /\ worker.pc = "open" /\ worker.records = <<>> /\ worker.mode = "activate"
      /\ ledger[m].journal.status = "none" /\ ledger[m].receipt = "empty"
      /\ ledger[m].journal = R!NoJournal
      /\ Supplied(worker.source) /\ Alone
      /\ \A o \in R!Names : ~Bears(m, o) /\ ~Asked(m, o) /\ ~Awaits(m, o)
  BY <1>0, Empty DEF RunnerWork, RunnerPapers, RunnerPaper, R!NoJournal
<1>2. UNCHANGED R!plane OBVIOUS
<1>3. /\ ledger' \in [R!Activations -> Ledgers]
      /\ ledger'[m].journal.status = "in-progress" /\ ledger'[m].journal.records = <<>>
      /\ ledger'[m].journal.source = worker.source
      /\ ledger'[m].receipt = "empty"
      /\ \A n \in R!Activations \ {m} : ledger'[n] = ledger[n]
  BY <1>0, <1>1, Empty, JournalNoted
<1>4. Marked(m, <<>>) BY Empty DEF Marked
<1>5. RunnerPaper(m)'
  BY <1>1, <1>2, <1>3, <1>4, RunnerStay DEF RunnerPaper, ObjectsClear
<1>6. /\ worker'.pc = "create" /\ worker'.mode = "activate" /\ worker'.op = m
      /\ worker'.records = <<>> /\ worker'.todo = R!CreateOrder /\ worker' \in Workers
  BY <1>0, <1>1, RunnerOrders DEF RunnerTypes, Workers, RunnerSteps
<1>7. InOrder(R!CreateOrder, R!CreateOrder) /\ Left(R!CreateOrder) = R!Names
  BY RunnerOrders, Outset
<1>8. Alone' BY <1>0, <1>1, <1>2, <1>6, RunnerStay DEF Alone
<1>9. Activating'
  BY <1>1, <1>2, <1>3, <1>6, <1>7, <1>8, RunnerStay, SuppliesStay, Empty DEF Activating, Coming
<1>10. RunnerWork'
  BY <1>2, <1>4, <1>6, <1>9, RunnerStay DEF RunnerWork, RunnerSteps, R!Transacting
<1>11. QED BY <1>2, <1>3, <1>5, <1>6, <1>10, RunnerWrites

\* An exception leads to the rollback.
LEMMA RunnerRetreats ==
  ASSUME RunnerTypes, RunnerWork, worker.pc \in R!Transacting, UNCHANGED ledger,
         worker' = [worker EXCEPT !.pc = "audit"], Marked(worker.op, worker.records)'
  PROVE  worker' \in Workers /\ RunnerWork'
<1>0. PICK m \in R!Activations : m = worker.op
  BY DEF RunnerWork, R!At, R!Transacting
<1>1. /\ worker.mode = "activate" /\ Activating
  BY DEF RunnerWork, R!At, R!Transacting
<1>2. /\ worker'.pc = "audit" /\ worker'.mode = "activate" /\ worker'.op = m
      /\ worker'.records = worker.records /\ worker' \in Workers
  BY <1>0, <1>1 DEF RunnerTypes, Workers, RunnerSteps
<1>3. Retreating' BY <1>0, <1>1, <1>2 DEF Activating, Retreating
<1>4. Marked(m, worker.records)' BY <1>0
<1>5. Marked(worker.op, worker.records)' BY <1>0
<1>6. RunnerWork' BY <1>2, <1>3, <1>5 DEF RunnerWork, RunnerSteps, R!Transacting
<1>7. QED BY <1>2, <1>6

\* An object is asked for whose name the process has not passed.
LEMMA RunnerSendCreate ==
  ASSUME RunnerInv, R!SendCreate, UNCHANGED secretSide
  PROVE  RunnerInv'
<1> USE DEF RunnerInv, R!SendCreate, R!At, R!Goto, R!Live
<1>0. PICK m \in R!Activations : m = worker.op BY DEF RunnerWork
<1> DEFINE o == Head(worker.todo)
<1>1. /\ worker.pc = "create" /\ worker.mode = "activate" /\ Marked(m, worker.records) /\ Activating
      /\ InOrder(worker.todo, R!CreateOrder) /\ Alone /\ worker.records \in Marks
      /\ ledger[m].journal.status = "in-progress" /\ ledger[m].receipt = "empty"
      /\ Supplied(ledger[m].journal.source) /\ ledger[m].journal.records \in Marks
      /\ DOMAIN ledger[m].journal.records \subseteq DOMAIN worker.records
      /\ DOMAIN worker.records = R!Names \ Left(worker.todo)
      /\ \A k \in Left(worker.todo) : ~Asked(m, k) /\ ~Bears(m, k)
      /\ \A k \in DOMAIN worker.records : Bears(m, k)
  BY <1>0 DEF RunnerWork, Activating, Coming, R!Transacting, RunnerTypes, Workers, Ledgers
<1>2. /\ o \in R!Names /\ o \in Left(worker.todo) /\ Left(worker.todo) \subseteq R!Names
      /\ Left(Tail(worker.todo)) = Left(worker.todo) \ {o}
  BY <1>1, RunnerOrder, Onward
<1>3. UNCHANGED <<reconciling, tardy, ledger>> OBVIOUS
<1>4. RunnerPaper(m) BY DEF RunnerPapers
<1>5. CASE UNCHANGED <<objects, requests>> /\ worker' = [worker EXCEPT !.pc = "audit"]
  <2>1. UNCHANGED R!plane BY <1>3, <1>5 DEF R!plane
  <2>2. Marked(worker.op, worker.records)' BY <1>0, <1>1, <1>5, <2>1, RunnerStay
  <2>3. QED BY <1>1, <1>3, <1>5, <2>1, <2>2, RunnerRetreats, RunnerRest DEF R!Transacting
<1>6. CASE /\ objects[o] = Absent /\ objects' = [objects EXCEPT ![o] = R!Fresh(m)]
           /\ worker' = [worker EXCEPT !.pc = "look"] /\ UNCHANGED requests
  <2>1. /\ \A k \in R!Names \ {o} : objects'[k] = objects[k]
        /\ objects'[o].uid = m /\ objects'[o].nonce = TRUE /\ objects'[o] # Absent
        /\ objects' \in [R!Names -> R!Objects \cup {Absent}]
    BY <1>2, <1>6, ObjectsAre DEF RunnerTypes
  <2>2. \A n, k : (Asked(n, k)' <=> Asked(n, k)) /\ (Awaits(n, k)' <=> Awaits(n, k))
    BY <1>6 DEF Asked, Awaits
  <2>3. \A n \in R!Activations, k \in R!Names : Bears(n, k)' <=> Bears(n, k) \/ (n = m /\ k = o)
    BY <1>2, <1>6, <2>1 DEF Bears
  <2>4. \A n \in R!Activations \ {m} : Shrinks(n)
    BY <1>2, <1>3, <1>6, <2>1, <2>2, <2>3 DEF Shrinks, Bears
  <2>5. /\ worker'.pc = "look" /\ worker'.mode = "activate" /\ worker'.op = m
        /\ worker'.records = worker.records /\ worker'.todo = worker.todo /\ worker' \in Workers
    BY <1>0, <1>1, <1>6 DEF RunnerTypes, Workers, RunnerSteps
  <2>6. RunnerTypes' BY <1>3, <1>6, <2>1, <2>5 DEF RunnerTypes
  <2>7. CreatedOnce' BY <1>1, <1>2, <2>2, <2>3 DEF CreatedOnce
  <2>8. \A r \in Marks : Marked(m, r) /\ DOMAIN r \subseteq DOMAIN worker.records => Marked(m, r)'
    BY <1>1, <1>2, <2>1, <2>2, <2>3, MarksAre DEF Marked
  <2>9. RunnerPaper(m)'
    <3>1. Marked(m, ledger[m].journal.records)' BY <1>1, <1>4, <2>8 DEF RunnerPaper
    <3>2. \A k \in R!Names : Bears(m, k)' /\ ~objects'[k].nonce => Bears(m, k) /\ ~objects[k].nonce
      BY <2>1, <2>3
    <3>3. QED BY <1>1, <1>3, <1>4, <2>2, <3>1, <3>2, SuppliesStay DEF RunnerPaper
  <2>10. RunnerPapers'
    BY <1>3, <2>4, <2>9, LedgerLasts, SuppliesStay DEF RunnerPapers
  <2>11. Tidy' /\ Alone'
    <3>1. SUFFICES ASSUME tardy = {} PROVE Tidy' /\ Alone' BY <1>3 DEF Tidy, Alone
    <3>2. \A k \in R!Names : objects'[k] # Absent => objects'[k].uid \in {R!Rival, m}
      BY <1>0, <1>1, <2>1, <3>1 DEF Alone
    <3>3. \A t \in Left(Tenancy), x \in Left(Workloads) :
            objects'[t] # Absent /\ objects'[t].uid # R!Rival => objects'[x] # Absent
      <4>1. SUFFICES ASSUME NEW t \in Left(Tenancy), NEW x \in Left(Workloads),
                            objects'[t] # Absent, objects'[t].uid # R!Rival
                     PROVE  objects'[x] # Absent
        OBVIOUS
      <4>2. t \in R!Names /\ x \in R!Names BY RunnerOrders
      <4>3. CASE t = o
        <5>1. x \notin Left(worker.todo) BY <1>1, <4>3, WorkloadsFirst
        <5>2. QED BY <1>1, <1>2, <2>1, <4>2, <5>1 DEF Bears
      <4>4. CASE t # o BY <2>1, <3>1, <4>1, <4>2, <4>4 DEF Tidy
      <4>5. QED BY <4>3, <4>4
    <3>4. QED BY <2>5, <3>2, <3>3, Facts DEF Tidy, Alone
  <2>12. Activating'
    BY <1>1, <1>2, <1>3, <2>2, <2>3, <2>5, <2>11, MarksAre, SuppliesStay DEF Activating, Coming
  <2>13. RunnerWork'
    BY <1>1, <2>5, <2>8, <2>12 DEF RunnerWork, RunnerSteps, R!Transacting
  <2>14. QED BY <2>6, <2>7, <2>10, <2>11, <2>13
<1>7. CASE /\ requests' = requests \cup {[does |-> "create", name |-> o, op |-> m]}
           /\ worker' = [worker EXCEPT !.pc = "look"] /\ UNCHANGED objects
  <2>0. objects' = objects /\ tardy' = tardy /\ ledger' = ledger BY <1>3, <1>7
  <2>1. \A n, k : Bears(n, k)' <=> Bears(n, k) BY <1>7 DEF Bears
  <2>2. \A n \in R!Activations, k \in R!Names : /\ Asked(n, k)' <=> Asked(n, k) \/ (n = m /\ k = o)
                                                /\ Awaits(n, k)' <=> Awaits(n, k)
    BY <1>7 DEF Asked, Awaits
  <2>3. \A n \in R!Activations \ {m} : Shrinks(n) BY <2>0, <2>1, <2>2 DEF Shrinks
  <2>4. /\ worker'.pc = "look" /\ worker'.mode = "activate" /\ worker'.op = m
        /\ worker'.records = worker.records /\ worker'.todo = worker.todo /\ worker' \in Workers
    BY <1>0, <1>1, <1>7 DEF RunnerTypes, Workers, RunnerSteps
  <2>5. RunnerTypes' BY <1>2, <1>3, <1>7, <2>4 DEF RunnerTypes
  <2>6. CreatedOnce' BY <1>1, <1>2, <2>1, <2>2 DEF CreatedOnce
  <2>7. \A r \in Marks : Marked(m, r) /\ DOMAIN r \subseteq DOMAIN worker.records => Marked(m, r)'
    BY <1>1, <1>2, <2>0, <2>1, <2>2, MarksAre DEF Marked
  <2>8. RunnerPaper(m)'
    <3>1. Marked(m, ledger[m].journal.records)' BY <1>1, <1>4, <2>7 DEF RunnerPaper
    <3>2. QED BY <1>1, <1>4, <2>0, <2>1, <2>2, <3>1, SuppliesStay DEF RunnerPaper
  <2>9. RunnerPapers'
    BY <1>3, <2>3, <2>8, LedgerLasts, SuppliesStay DEF RunnerPapers
  <2>10. Tidy' /\ Alone' BY <1>0, <1>1, <1>3, <1>7, <2>4 DEF Tidy, Alone
  <2>11. Activating'
    BY <1>1, <1>2, <1>3, <2>1, <2>2, <2>4, <2>10, MarksAre, SuppliesStay DEF Activating, Coming
  <2>12. RunnerWork'
    BY <1>1, <2>4, <2>7, <2>11 DEF RunnerWork, RunnerSteps, R!Transacting
  <2>13. QED BY <2>5, <2>6, <2>9, <2>10, <2>12
<1>8. QED BY <1>0, <1>5, <1>6, <1>7

-----
\* Objects: notes, the commit.

\* What is found to bear the nonce is taken into the records.
LEMMA RunnerLookCreated ==
  ASSUME RunnerInv, R!LookCreated, UNCHANGED secretSide
  PROVE  RunnerInv'
<1> USE DEF RunnerInv, R!LookCreated, R!At, R!Goto
<1>0. PICK m \in R!Activations : m = worker.op BY DEF RunnerWork
<1> DEFINE o == Head(worker.todo)
           records == [k \in DOMAIN worker.records \cup {o} |-> IF k = o THEN FALSE ELSE worker.records[k]]
<1>1. /\ worker.pc = "look" /\ worker.mode = "activate" /\ Marked(m, worker.records) /\ Activating
      /\ InOrder(worker.todo, R!CreateOrder) /\ Alone /\ worker.records \in Marks
      /\ ledger[m].journal.status = "in-progress" /\ ledger[m].receipt = "empty"
      /\ Supplied(ledger[m].journal.source) /\ ledger[m].journal.records \in Marks
      /\ DOMAIN ledger[m].journal.records \subseteq DOMAIN worker.records
      /\ DOMAIN worker.records = (R!Names \ Left(Tail(worker.todo))) \ {o}
      /\ \A k \in Left(Tail(worker.todo)) : ~Asked(m, k) /\ ~Bears(m, k)
      /\ \A k \in DOMAIN worker.records : Bears(m, k)
  BY <1>0 DEF RunnerWork, Activating, Coming, R!Transacting, RunnerTypes, Workers, Ledgers
<1>2. /\ o \in R!Names /\ o \in Left(worker.todo) /\ Left(worker.todo) \subseteq R!Names
      /\ Left(Tail(worker.todo)) = Left(worker.todo) \ {o}
  BY <1>1, RunnerOrder, Onward
<1>3. UNCHANGED R!plane /\ UNCHANGED ledger OBVIOUS
<1>4. CASE worker' = [worker EXCEPT !.pc = "audit"]
  <2>1. Marked(worker.op, worker.records)' BY <1>0, <1>1, <1>3, <1>4, RunnerStay
  <2>2. QED BY <1>1, <1>3, <1>4, <2>1, RunnerRetreats, RunnerRest DEF R!Transacting
<1>5. CASE objects[o] = R!Fresh(m) /\ worker' = [worker EXCEPT !.pc = "note", !.records = records]
  <2>1. Bears(m, o) /\ ~Asked(m, o) BY <1>2, <1>5, ObjectsAre DEF Bears, CreatedOnce
  <2>2. records \in Marks /\ DOMAIN records = R!Names \ Left(Tail(worker.todo))
    BY <1>1, <1>2, MarksAre
  <2>3. Marked(m, records) BY <1>1, <2>1 DEF Marked
  <2>4. \A k \in DOMAIN records : Bears(m, k) BY <1>1, <2>1
  <2>5. /\ worker'.pc = "note" /\ worker'.mode = "activate" /\ worker'.op = m
        /\ worker'.records = records /\ worker'.todo = worker.todo /\ worker' \in Workers
    BY <1>0, <1>1, <1>5, <2>2 DEF RunnerTypes, Workers, RunnerSteps
  <2> HIDE DEF records
  <2>6. DOMAIN ledger[m].journal.records \subseteq DOMAIN records BY <1>1, <2>2
  <2>7. Alone' BY <1>0, <1>1, <1>3, <2>5, RunnerStay DEF Alone
  <2>8. Activating'
    BY <1>1, <1>3, <2>2, <2>4, <2>5, <2>6, <2>7, RunnerStay, SuppliesStay DEF Activating, Coming
  <2>9. RunnerWork'
    BY <1>3, <2>3, <2>5, <2>8, RunnerStay DEF RunnerWork, RunnerSteps, R!Transacting
  <2>10. QED BY <1>3, <2>5, <2>9, RunnerRest
<1>6. QED BY <1>0, <1>4, <1>5

\* The journal takes over the records of the process.
LEMMA RunnerRecords ==
  ASSUME RunnerInv, UNCHANGED secretSide, UNCHANGED R!plane, NEW m \in R!Activations,
         m = worker.op, Marked(m, worker.records), worker.records \in Marks,
         DOMAIN ledger[m].journal.records \subseteq DOMAIN worker.records,
         ledger[m].journal.status \in {"in-progress", "rolled-back"},
         R!WriteJournal(ledger[m].journal.status, worker.records)
  PROVE  /\ ledger' \in [R!Activations -> Ledgers] /\ RunnerPaper(m)'
         /\ \A n \in R!Activations \ {m} : ledger'[n] = ledger[n]
         /\ ledger'[m].journal.status = ledger[m].journal.status
         /\ ledger'[m].journal.records = worker.records
         /\ ledger'[m].journal.source = ledger[m].journal.source
         /\ ledger'[m].receipt = ledger[m].receipt
<1>1. /\ ledger' \in [R!Activations -> Ledgers]
      /\ \A n \in R!Activations \ {m} : ledger'[n] = ledger[n]
      /\ ledger'[m].journal.status = ledger[m].journal.status
      /\ ledger'[m].journal.records = worker.records
      /\ ledger'[m].journal.source = ledger[m].journal.source
      /\ ledger'[m].receipt = ledger[m].receipt
  BY JournalNoted DEF RunnerInv
<1>2. RunnerPaper(m)'
  BY <1>1, RunnerStay, SuppliesStay DEF RunnerInv, RunnerPapers, RunnerPaper
<1>3. QED BY <1>1, <1>2

\* The record of an object is in the journal before the next one is asked
\* for.
LEMMA RunnerNoteCreated ==
  ASSUME RunnerInv, R!NoteCreated, UNCHANGED secretSide
  PROVE  RunnerInv'
<1> USE DEF RunnerInv, R!NoteCreated, R!At, R!Steps
<1>0. PICK m \in R!Activations : m = worker.op BY DEF RunnerWork
<1>1. /\ worker.pc = "note" /\ worker.mode = "activate" /\ Marked(m, worker.records) /\ Activating
      /\ InOrder(worker.todo, R!CreateOrder) /\ Alone /\ worker.records \in Marks
      /\ ledger[m].journal.status = "in-progress" /\ ledger[m].receipt = "empty"
      /\ Supplied(ledger[m].journal.source) /\ ledger[m].journal.records \in Marks
      /\ DOMAIN ledger[m].journal.records \subseteq DOMAIN worker.records
      /\ DOMAIN worker.records = R!Names \ Left(Tail(worker.todo))
      /\ \A k \in Left(Tail(worker.todo)) : ~Asked(m, k) /\ ~Bears(m, k)
      /\ \A k \in DOMAIN worker.records : Bears(m, k)
  BY <1>0 DEF RunnerWork, Activating, Coming, R!Transacting, RunnerTypes, Workers, Ledgers
<1>2. /\ Tail(worker.todo) \in Seq(R!Names) /\ (Len(worker.todo) = 1 <=> Tail(worker.todo) = <<>>)
      /\ Tail(worker.todo) # <<>> => InOrder(Tail(worker.todo), R!CreateOrder)
  BY <1>1, RunnerOrder, Onward
<1>3. UNCHANGED R!plane OBVIOUS
<1>4. /\ ledger' \in [R!Activations -> Ledgers] /\ RunnerPaper(m)'
      /\ \A n \in R!Activations \ {m} : ledger'[n] = ledger[n]
      /\ ledger'[m].journal.status = "in-progress"
      /\ ledger'[m].journal.records = worker.records
      /\ ledger'[m].journal.source = ledger[m].journal.source
      /\ ledger'[m].receipt = "empty"
  BY <1>0, <1>1, <1>3, RunnerRecords
<1>5. PICK pc \in {"plain", "create"}, todo \in Seq(R!Names) :
        /\ worker' = [worker EXCEPT !.pc = pc, !.todo = todo]
        /\ pc = "plain" => Tail(worker.todo) = <<>> /\ todo = R!CreateOrder
        /\ pc = "create" => Tail(worker.todo) # <<>> /\ todo = Tail(worker.todo)
  BY <1>2, RunnerOrder
<1>6. /\ worker'.pc = pc /\ worker'.mode = "activate" /\ worker'.op = m
      /\ worker'.records = worker.records /\ worker'.todo = todo /\ worker' \in Workers
  BY <1>0, <1>1, <1>5 DEF RunnerTypes, Workers, RunnerSteps
<1>7. Alone' BY <1>0, <1>1, <1>3, <1>6, RunnerStay DEF Alone
<1>8. /\ InOrder(todo, R!CreateOrder)
      /\ pc = "plain" => DOMAIN worker.records = R!Names /\ Left(todo) = R!Names
  <2>1. InOrder(R!CreateOrder, R!CreateOrder) /\ Left(<<>>) = {}
    BY RunnerOrder, Outset DEF Left
  <2>2. QED BY <1>1, <1>2, <1>5, <2>1, RunnerOrder
<1>9. Activating'
  BY <1>1, <1>3, <1>4, <1>5, <1>6, <1>7, <1>8, RunnerStay, SuppliesStay, ZenonT(60) DEF Activating, Coming
<1>10. RunnerWork'
  BY <1>1, <1>3, <1>6, <1>9, RunnerStay DEF RunnerWork, RunnerSteps, R!Transacting
<1>11. QED BY <1>3, <1>4, <1>6, <1>10, RunnerWrites

\* The journal says that a nonce is gone after it is.
LEMMA RunnerNoteRemoved ==
  ASSUME RunnerInv, R!NoteRemoved, UNCHANGED secretSide
  PROVE  RunnerInv'
<1> USE DEF RunnerInv, R!NoteRemoved, R!At, R!Steps
<1>0. PICK m \in R!Activations : m = worker.op BY DEF RunnerWork
<1>1. /\ worker.pc = "noted" /\ worker.mode = "activate" /\ Marked(m, worker.records) /\ Activating
      /\ InOrder(worker.todo, R!CreateOrder) /\ worker.records \in Marks
      /\ ledger[m].journal.status = "in-progress" /\ ledger[m].receipt = "empty"
      /\ Supplied(ledger[m].journal.source) /\ DOMAIN ledger[m].journal.records = R!Names
      /\ DOMAIN worker.records = R!Names
      /\ \A k \in R!Names \ Left(Tail(worker.todo)) : ~objects[k].nonce
      /\ \A k \in DOMAIN worker.records : Bears(m, k)
  <2>1. worker.records \in Marks BY DEF RunnerTypes, Workers
  <2>2. QED BY <1>0, <2>1, MarksAre DEF RunnerWork, Activating, Coming, R!Transacting
<1>2. /\ Tail(worker.todo) \in Seq(R!Names) /\ (Len(worker.todo) = 1 <=> Tail(worker.todo) = <<>>)
      /\ Tail(worker.todo) # <<>> => InOrder(Tail(worker.todo), R!CreateOrder)
  BY <1>1, RunnerOrder, Onward
<1>3. UNCHANGED R!plane OBVIOUS
<1>4. /\ ledger' \in [R!Activations -> Ledgers] /\ RunnerPaper(m)'
      /\ \A n \in R!Activations \ {m} : ledger'[n] = ledger[n]
      /\ ledger'[m].journal.status = "in-progress"
      /\ ledger'[m].journal.records = worker.records
      /\ ledger'[m].journal.source = ledger[m].journal.source
      /\ ledger'[m].receipt = "empty"
  BY <1>0, <1>1, <1>3, RunnerRecords
<1>5. PICK pc \in {"plain", "wake"} :
        /\ worker' = [worker EXCEPT !.pc = pc, !.todo = Tail(worker.todo)]
        /\ pc = "wake" <=> Tail(worker.todo) = <<>>
  BY <1>2
<1>6. /\ worker'.pc = pc /\ worker'.mode = "activate" /\ worker'.op = m
      /\ worker'.records = worker.records /\ worker'.todo = Tail(worker.todo) /\ worker' \in Workers
  BY <1>0, <1>1, <1>2, <1>5 DEF RunnerTypes, Workers, RunnerSteps
<1>7. pc = "wake" => \A k \in R!Names : ~objects[k].nonce
  <2>1. Left(<<>>) = {} BY DEF Left
  <2>2. QED BY <1>1, <1>5, <2>1
<1>8. Activating'
  BY <1>1, <1>2, <1>3, <1>4, <1>5, <1>6, <1>7, RunnerStay, SuppliesStay DEF Activating, Coming
<1>9. RunnerWork'
  BY <1>1, <1>3, <1>6, <1>8, RunnerStay DEF RunnerWork, RunnerSteps, R!Transacting
<1>10. QED BY <1>3, <1>4, <1>6, <1>9, RunnerWrites

\* The steps between the waking of the Kustomization and the receipt.
LEMMA RunnerGoesOn ==
  ASSUME RunnerInv, UNCHANGED R!plane, UNCHANGED secretSide,
         worker.pc \in {"woken", "wait", "prepare"}, NEW pc \in {"wait", "prepare", "commit"},
         worker' = [worker EXCEPT !.pc = pc],
         UNCHANGED ledger \/ R!WriteJournal("in-progress", worker.records)
  PROVE  RunnerInv'
<1> USE DEF RunnerInv, R!At
<1>0. PICK m \in R!Activations : m = worker.op BY DEF RunnerWork
<1>1. /\ worker.mode = "activate" /\ Marked(m, worker.records) /\ Activating
      /\ worker.records \in Marks
      /\ ledger[m].journal.status = "in-progress" /\ ledger[m].receipt = "empty"
      /\ Supplied(ledger[m].journal.source)
      /\ DOMAIN ledger[m].journal.records \subseteq DOMAIN worker.records
      /\ DOMAIN worker.records = R!Names
      /\ \A k \in R!Names : ~objects[k].nonce
      /\ \A k \in DOMAIN worker.records : Bears(m, k)
      /\ R!Active
  BY <1>0 DEF RunnerWork, Activating, R!Transacting, RunnerTypes, Workers
<1>2. /\ worker'.pc = pc /\ worker'.mode = "activate" /\ worker'.op = m
      /\ worker'.records = worker.records /\ worker' \in Workers
  BY <1>0, <1>1 DEF RunnerTypes, Workers, RunnerSteps
<1>3. /\ ledger' \in [R!Activations -> Ledgers] /\ RunnerPaper(m)'
      /\ \A n \in R!Activations \ {m} : ledger'[n] = ledger[n]
      /\ ledger'[m].journal.status = "in-progress"
      /\ DOMAIN ledger'[m].journal.records \subseteq DOMAIN worker.records
      /\ ledger'[m].journal.source = ledger[m].journal.source
      /\ ledger'[m].receipt = "empty"
  <2>1. CASE UNCHANGED ledger
    BY <1>1, <2>1, RunnerStay, SuppliesStay, LedgerLasts DEF RunnerTypes, RunnerPapers
  <2>2. CASE R!WriteJournal("in-progress", worker.records)
    BY <1>0, <1>1, <2>2, RunnerRecords
  <2>3. QED BY <2>1, <2>2
<1>4. Activating' BY <1>1, <1>2, <1>3, RunnerStay, SuppliesStay DEF Activating
<1>5. RunnerWork'
  BY <1>1, <1>2, <1>4, RunnerStay DEF RunnerWork, RunnerSteps, R!Transacting
<1>6. QED BY <1>2, <1>3, <1>5, RunnerWrites

\* The unsuspended Kustomization is noted.
LEMMA RunnerNoteWoken ==
  ASSUME RunnerInv, R!NoteWoken, UNCHANGED secretSide
  PROVE  RunnerInv'
BY RunnerGoesOn DEF R!NoteWoken, R!At, R!Goto

\* The journal is committed with every object on record.
LEMMA RunnerPrepare ==
  ASSUME RunnerInv, R!Prepare, UNCHANGED secretSide
  PROVE  RunnerInv'
BY RunnerGoesOn DEF R!Prepare, R!At, R!Goto

\* The wait for readiness changes nothing.
LEMMA RunnerWaitReady ==
  ASSUME RunnerInv, R!WaitReady, UNCHANGED secretSide
  PROVE  RunnerInv'
<1> USE DEF R!WaitReady, R!At, R!Goto
<1>1. CASE worker' = [worker EXCEPT !.pc = "prepare"] BY <1>1, RunnerGoesOn
<1>2. CASE worker' = [worker EXCEPT !.pc = "audit"]
  <2>1. worker.pc \in R!Transacting /\ RunnerTypes /\ RunnerWork
    BY DEF R!Transacting, RunnerInv
  <2>2. Marked(worker.op, worker.records)'
    <3>1. Marked(worker.op, worker.records) /\ worker'.op = worker.op /\ worker'.records = worker.records
      BY <1>2, <2>1 DEF RunnerTypes, Workers, RunnerWork
    <3>2. QED BY <3>1, RunnerStay
  <2>3. QED BY <1>2, <2>1, <2>2, RunnerRetreats, RunnerRest
<1>3. QED BY <1>1, <1>2

\* The receipt that says activated is written while every object is live,
\* without its nonce, and supplied.
LEMMA RunnerCommit ==
  ASSUME RunnerInv, R!Commit, UNCHANGED secretSide
  PROVE  /\ RunnerInv'
         /\ \A n \in R!Activations :
              ledger[n].receipt # "activated" /\ ledger'[n].receipt = "activated" =>
                /\ \A o \in R!Names : Bears(n, o) /\ ~objects[o].nonce
                /\ R!Active /\ Supplied(ledger[n].journal.source)
<1> USE DEF RunnerInv, R!Commit, R!At
<1>0. PICK m \in R!Activations : m = worker.op BY DEF RunnerWork
<1>1. /\ Activating /\ worker.records \in Marks
      /\ ledger[m].journal.status = "in-progress" /\ ledger[m].receipt = "empty"
      /\ Supplied(ledger[m].journal.source)
      /\ \A o \in R!Names : Bears(m, o) /\ ~objects[o].nonce
      /\ R!Active
  BY <1>0 DEF RunnerWork, Activating, RunnerTypes, Workers
<1>2. UNCHANGED R!plane OBVIOUS
<1>3. PICK state \in {"activated", "partial"} : R!CommitReceipt(state) OBVIOUS
<1>4. /\ ledger' \in [R!Activations -> Ledgers]
      /\ ledger'[m].receipt = state /\ ledger'[m].journal = ledger[m].journal
      /\ \A n \in R!Activations \ {m} : ledger'[n] = ledger[n]
  BY <1>0, <1>3, ReceiptNoted DEF R!Terminal
<1>5. RunnerPaper(m)'
  BY <1>1, <1>2, <1>4, RunnerStay, SuppliesStay DEF RunnerPapers, RunnerPaper
<1>6. RunnerInv' BY <1>2, <1>4, <1>5, RunnerIdles, RunnerWrites
<1>7. QED BY <1>1, <1>4, <1>6

-----
\* Objects: the nonce and the Kustomization.

\* A step that gives no object to anybody else keeps the plane tidy.
LEMMA TidyStays ==
  ASSUME Tidy, UNCHANGED tardy,
         \A o \in R!Names : /\ objects'[o] = Absent <=> objects[o] = Absent
                            /\ objects[o] # Absent => objects'[o].uid = objects[o].uid
  PROVE  Tidy'
<1>1. SUFFICES ASSUME tardy = {} PROVE Tidy' BY DEF Tidy
<1>2. /\ \A o \in R!Names : objects'[o] # Absent => objects'[o].uid # R!Flux
      /\ \A o, p \in R!Names : /\ objects'[o] # Absent /\ objects'[o].uid # R!Rival
                               /\ objects'[p] # Absent /\ objects'[p].uid # R!Rival
                               => objects'[o].uid = objects'[p].uid
  BY <1>1 DEF Tidy
<1>3. \A t \in Left(Tenancy), x \in Left(Workloads) :
        objects'[t] # Absent /\ objects'[t].uid # R!Rival => objects'[x] # Absent
  BY <1>1, RunnerOrders DEF Tidy
<1>4. QED BY <1>2, <1>3 DEF Tidy

\* A step that leaves every object with its maker and its nonce.
LEMMA RunnerEdits ==
  ASSUME RunnerInv, UNCHANGED <<tardy>>,
         \A o \in R!Names : /\ objects'[o] = Absent <=> objects[o] = Absent
                            /\ objects[o] # Absent => /\ objects'[o].uid = objects[o].uid
                                                      /\ objects'[o].nonce = objects[o].nonce,
         \A n \in R!Activations, o \in R!Names : /\ Asked(n, o)' <=> Asked(n, o)
                                                 /\ Awaits(n, o)' <=> Awaits(n, o)
  PROVE  /\ \A n \in R!Activations : Shrinks(n)
         /\ \A n \in R!Activations, o \in R!Names : Bears(n, o)' <=> Bears(n, o)
         /\ \A n \in R!Activations, r \in Marks : Marked(n, r) => Marked(n, r)'
         /\ CreatedOnce' /\ Tidy'
<1>1. \A n \in R!Activations, o \in R!Names : Bears(n, o)' <=> Bears(n, o)
  BY DEF Bears
<1>2. \A n \in R!Activations : Shrinks(n) BY <1>1 DEF Shrinks, Bears
<1>3. CreatedOnce' BY <1>1 DEF CreatedOnce, RunnerInv
<1>4. Tidy' BY TidyStays DEF RunnerInv
<1>5. \A n \in R!Activations, r \in Marks : Marked(n, r) => Marked(n, r)'
  BY <1>2, MarkedLasts
<1>6. QED BY <1>1, <1>2, <1>3, <1>4, <1>5

\* The tests of a patch, and the request that is served too late.
LEMMA RunnerRemoveNonce ==
  ASSUME RunnerInv, R!RemoveNonce, UNCHANGED secretSide
  PROVE  RunnerInv'
<1> USE DEF RunnerInv, R!RemoveNonce, R!At, R!Goto
<1>0. PICK m \in R!Activations : m = worker.op BY DEF RunnerWork
<1> DEFINE o == Head(worker.todo)
<1>1. /\ worker.pc = "plain" /\ worker.mode = "activate" /\ Marked(m, worker.records) /\ Activating
      /\ InOrder(worker.todo, R!CreateOrder) /\ worker.records \in Marks
      /\ ledger[m].journal.status = "in-progress" /\ ledger[m].receipt = "empty"
      /\ Supplied(ledger[m].journal.source) /\ DOMAIN ledger[m].journal.records = R!Names
      /\ DOMAIN worker.records = R!Names /\ ledger[m].journal.records \in Marks
      /\ \A k \in R!Names \ Left(worker.todo) : ~objects[k].nonce
      /\ \A k \in R!Names : Bears(m, k)
  <2>1. worker.records \in Marks /\ ledger[m].journal.records \in Marks
    BY DEF RunnerTypes, Workers, Ledgers
  <2>2. QED BY <1>0, <2>1, MarksAre DEF RunnerWork, Activating, Coming, R!Transacting
<1>2. /\ o \in R!Names /\ o \in Left(worker.todo) /\ Left(worker.todo) \subseteq R!Names
      /\ Left(Tail(worker.todo)) = Left(worker.todo) \ {o}
  BY <1>1, RunnerOrder, Onward
<1>3. UNCHANGED <<reconciling, tardy, ledger>> OBVIOUS
<1>4. RunnerPaper(m) BY DEF RunnerPapers
<1>5. CASE UNCHANGED <<objects, requests>> /\ worker' = [worker EXCEPT !.pc = "audit"]
  <2>1. UNCHANGED R!plane BY <1>3, <1>5 DEF R!plane
  <2>2. Marked(worker.op, worker.records)' BY <1>0, <1>1, <1>5, <2>1, RunnerStay
  <2>3. QED BY <1>1, <1>3, <1>5, <2>1, <2>2, RunnerRetreats, RunnerRest DEF R!Transacting
<1>6. CASE /\ requests' = requests \cup {[does |-> "plain", name |-> o, op |-> m]}
           /\ worker' = [worker EXCEPT !.pc = "audit"] /\ UNCHANGED objects
  <2>0. objects' = objects /\ tardy' = tardy /\ ledger' = ledger BY <1>3, <1>6
  <2>1. \A n, k : Bears(n, k)' <=> Bears(n, k) BY <2>0 DEF Bears
  <2>2. \A n \in R!Activations, k \in R!Names :
          /\ Asked(n, k)' <=> Asked(n, k)
          /\ Awaits(n, k)' <=> (Awaits(n, k) \/ (n = m /\ k = o))
    BY <1>6 DEF Asked, Awaits
  <2>3. \A n \in R!Activations \ {m} : Shrinks(n) BY <2>0, <2>1, <2>2 DEF Shrinks
  <2>4. \A r \in Marks : Marked(m, r) => Marked(m, r)'
    BY <2>0, <2>1, <2>2, MarksAre DEF Marked
  <2>5. RunnerPaper(m)'
    BY <1>1, <1>4, <2>0, <2>1, <2>2, <2>4, SuppliesStay DEF RunnerPaper
  <2>6. RunnerPapers'
    BY <1>3, <2>3, <2>5, LedgerLasts, SuppliesStay DEF RunnerPapers
  <2>7. CreatedOnce' /\ Tidy' BY <2>0, <2>1, <2>2 DEF CreatedOnce, Tidy
  <2>8. worker' \in Workers /\ RunnerWork'
    <3>1. Marked(worker.op, worker.records)'
      BY <1>0, <1>1, <1>6, <2>4 DEF RunnerTypes, Workers
    <3>2. QED BY <1>1, <1>3, <1>6, <3>1, RunnerRetreats DEF R!Transacting
  <2>9. RunnerTypes' BY <1>2, <1>3, <1>6, <2>8 DEF RunnerTypes
  <2>10. QED BY <2>6, <2>7, <2>8, <2>9
<1>7. CASE /\ objects[o] = R!Fresh(m) /\ objects' = [objects EXCEPT ![o].nonce = FALSE]
           /\ worker' = [worker EXCEPT !.pc = "noted", !.records[o] = TRUE] /\ UNCHANGED requests
  <2>1. /\ \A k \in R!Names \ {o} : objects'[k] = objects[k]
        /\ objects'[o].uid = m /\ objects'[o].nonce = FALSE /\ objects'[o] \in R!Objects
        /\ objects' \in [R!Names -> R!Objects \cup {Absent}]
    <3>1. objects[o] \in R!Objects /\ objects[o].uid = m BY <1>7, ObjectsAre
    <3>2. [objects[o] EXCEPT !.nonce = FALSE] \in R!Objects BY <3>1 DEF R!Objects
    <3>3. objects' = [objects EXCEPT ![o] = [objects[o] EXCEPT !.nonce = FALSE]]
      BY <1>7
    <3>4. [objects[o] EXCEPT !.nonce = FALSE].uid = m /\ [objects[o] EXCEPT !.nonce = FALSE].nonce = FALSE
      BY <3>1 DEF R!Objects
    <3>5. QED BY <1>2, <3>2, <3>3, <3>4 DEF RunnerTypes
  <2>2. \A n, k : (Asked(n, k)' <=> Asked(n, k)) /\ (Awaits(n, k)' <=> Awaits(n, k))
    BY <1>7 DEF Asked, Awaits
  <2>3. Bears(m, o) /\ objects'[o] # Absent BY <1>1, <1>2, <2>1, ObjectsAre
  <2>4. \A n \in R!Activations, k \in R!Names : Bears(n, k)' <=> Bears(n, k)
    BY <2>1, <2>3 DEF Bears
  <2>5. \A n \in R!Activations \ {m} : Shrinks(n)
    BY <1>3, <2>1, <2>2, <2>3, <2>4 DEF Shrinks, Bears
  <2>6. \A r \in Marks : Marked(m, r) => Marked(m, r)'
    BY <2>1, <2>2, <2>4, MarksAre DEF Marked
  <2>7. RunnerPaper(m)'
    BY <1>1, <1>3, <1>4, <2>2, <2>4, <2>6, SuppliesStay DEF RunnerPaper
  <2>8. RunnerPapers'
    BY <1>3, <2>5, <2>7, LedgerLasts, SuppliesStay DEF RunnerPapers
  <2>9. CreatedOnce' BY <2>2, <2>4 DEF CreatedOnce
  <2>10. /\ \A k \in R!Names : /\ objects'[k] = Absent <=> objects[k] = Absent
                               /\ objects[k] # Absent => objects'[k].uid = objects[k].uid
    BY <2>1, <2>3 DEF Bears
  <2>11. Tidy' BY <1>3, <2>10, TidyStays
  <2>12. PICK records \in Marks :
           /\ records = [worker.records EXCEPT ![o] = TRUE] /\ DOMAIN records = R!Names
           /\ \A k \in R!Names \ {o} : records[k] <=> worker.records[k]
    <3> DEFINE r == [worker.records EXCEPT ![o] = TRUE]
    <3>1. worker.records \in [R!Names -> BOOLEAN] BY <1>1 DEF Marks
    <3>2. r \in [R!Names -> BOOLEAN] /\ \A k \in R!Names \ {o} : r[k] = worker.records[k]
      BY <1>2, <3>1
    <3>3. r \in Marks BY <3>2, MarksAre
    <3> HIDE DEF r
    <3>4. \A k \in R!Names \ {o} : r[k] <=> worker.records[k] BY <3>2
    <3>5. QED BY <3>2, <3>3, <3>4 DEF r
  <2>13. Marked(m, records)'
    BY <1>1, <2>1, <2>2, <2>4, <2>12 DEF Marked, CreatedOnce
  <2>14. /\ worker'.pc = "noted" /\ worker'.mode = "activate" /\ worker'.op = m
         /\ worker'.records = records /\ worker'.todo = worker.todo /\ worker' \in Workers
    BY <1>0, <1>1, <1>7, <2>12 DEF RunnerTypes, Workers, RunnerSteps
  <2>15. \A k \in R!Names \ Left(Tail(worker.todo)) : ~objects'[k].nonce
    BY <1>1, <1>2, <2>1
  <2>16. Activating'
    BY <1>1, <1>2, <1>3, <2>4, <2>12, <2>14, <2>15, SuppliesStay DEF Activating, Coming
  <2>17. RunnerWork'
    <3>1. Marked(worker.op, worker.records)' BY <2>13, <2>14
    <3>2. QED BY <2>14, <2>16, <3>1 DEF RunnerWork, RunnerSteps, R!Transacting
  <2>18. RunnerTypes' BY <1>3, <1>7, <2>1, <2>14 DEF RunnerTypes
  <2>19. QED BY <2>8, <2>9, <2>11, <2>17, <2>18
<1>8. QED BY <1>0, <1>5, <1>6, <1>7

\* The Kustomization is set going under its activation, when every object is
\* there.
LEMMA RunnerUnsuspend ==
  ASSUME RunnerInv, R!Unsuspend, UNCHANGED secretSide
  PROVE  RunnerInv'
<1> USE DEF RunnerInv, R!Unsuspend, R!At, R!Goto
<1>0. PICK m \in R!Activations : m = worker.op BY DEF RunnerWork
<1> DEFINE o == Kustomization
<1>1. /\ worker.pc = "wake" /\ worker.mode = "activate" /\ Marked(m, worker.records) /\ Activating
      /\ worker.records \in Marks
      /\ ledger[m].journal.status = "in-progress" /\ ledger[m].receipt = "empty"
      /\ Supplied(ledger[m].journal.source)
      /\ DOMAIN ledger[m].journal.records \subseteq DOMAIN worker.records
      /\ DOMAIN worker.records = R!Names
      /\ \A k \in R!Names : ~objects[k].nonce
      /\ \A k \in R!Names : Bears(m, k)
  BY <1>0 DEF RunnerWork, Activating, R!Transacting, RunnerTypes, Workers
<1>2. o \in R!Names BY RunnerOrders
<1>3. UNCHANGED <<reconciling, tardy, ledger>> OBVIOUS
<1>4. PICK pc \in {"woken", "audit"} :
        /\ worker' = [worker EXCEPT !.pc = pc]
        /\ \/ /\ objects' = [objects EXCEPT ![o].suspended = FALSE] /\ UNCHANGED requests
           \/ /\ pc = "audit" /\ UNCHANGED objects
              /\ \/ requests' = requests \cup {[does |-> "wake", name |-> o, op |-> m]}
                 \/ UNCHANGED requests
  BY <1>0
<1>5. /\ worker'.pc = pc /\ worker'.mode = "activate" /\ worker'.op = m
      /\ worker'.records = worker.records /\ worker'.todo = worker.todo /\ worker' \in Workers
  BY <1>0, <1>1, <1>4 DEF RunnerTypes, Workers, RunnerSteps
<1>6. /\ objects' \in [R!Names -> R!Objects \cup {Absent}]
      /\ \A k \in R!Names : /\ objects'[k] = Absent <=> objects[k] = Absent
                            /\ objects[k] # Absent => /\ objects'[k].uid = objects[k].uid
                                                      /\ objects'[k].nonce = objects[k].nonce
      /\ pc = "woken" => objects'[o] # Absent /\ ~objects'[o].suspended
  <2>1. CASE objects' = [objects EXCEPT ![o].suspended = FALSE]
    <3>1. objects[o] \in R!Objects BY <1>1, <1>2 DEF RunnerTypes, Bears
    <3>2. /\ [objects[o] EXCEPT !.suspended = FALSE] \in R!Objects
          /\ [objects[o] EXCEPT !.suspended = FALSE].uid = objects[o].uid
          /\ [objects[o] EXCEPT !.suspended = FALSE].nonce = objects[o].nonce
          /\ ~[objects[o] EXCEPT !.suspended = FALSE].suspended
      BY <3>1 DEF R!Objects
    <3>3. /\ objects'[o] = [objects[o] EXCEPT !.suspended = FALSE]
          /\ objects' \in [R!Names -> R!Objects \cup {Absent}]
          /\ \A k \in R!Names \ {o} : objects'[k] = objects[k]
      BY <1>2, <2>1, <3>2 DEF RunnerTypes
    <3>4. objects[o] # Absent /\ objects'[o] # Absent
      BY <3>1, <3>2, <3>3, ObjectsAre
    <3>5. QED BY <3>2, <3>3, <3>4
  <2>2. CASE UNCHANGED objects /\ pc = "audit" BY <2>2 DEF RunnerTypes
  <2>3. QED BY <1>4, <2>1, <2>2
<1>7. \A n \in R!Activations, k \in R!Names : /\ Asked(n, k)' <=> Asked(n, k)
                                              /\ Awaits(n, k)' <=> Awaits(n, k)
  BY <1>4 DEF Asked, Awaits
<1>8. /\ \A n \in R!Activations : Shrinks(n)
      /\ \A n \in R!Activations, k \in R!Names : Bears(n, k)' <=> Bears(n, k)
      /\ \A n \in R!Activations, r \in Marks : Marked(n, r) => Marked(n, r)'
      /\ CreatedOnce' /\ Tidy'
  BY <1>3, <1>6, <1>7, RunnerEdits
<1>9. RunnerPapers' BY <1>3, <1>8, LedgerLasts, SuppliesStay DEF RunnerPapers
<1>10. RunnerTypes' BY <1>2, <1>3, <1>4, <1>5, <1>6 DEF RunnerTypes
<1>11. Marked(m, worker.records)' BY <1>1, <1>5, <1>8
<1>12. RunnerWork'
  <2>1. CASE pc = "audit"
    <3>1. Marked(worker.op, worker.records)' BY <1>5, <1>11
    <3>2. QED BY <1>1, <1>3, <1>4, <2>1, <3>1, RunnerRetreats DEF R!Transacting
  <2>2. CASE pc = "woken"
    <3>1. \A k \in R!Names : ~objects'[k].nonce BY <1>1, <1>6 DEF Bears
    <3>2. R!Active' BY <1>6, <2>2 DEF R!Active, R!Live
    <3>3. Activating'
      BY <1>1, <1>3, <1>5, <1>8, <2>2, <3>1, <3>2, SuppliesStay DEF Activating
    <3>4. QED BY <1>5, <1>11, <2>2, <3>3 DEF RunnerWork, RunnerSteps, R!Transacting
  <2>3. QED BY <2>1, <2>2
<1>13. QED BY <1>8, <1>9, <1>10, <1>12

-----
\* Objects: rollback.

\* An audit goes on only if everything of the activation that is live is on
\* record.
LEMMA RunnerAudit ==
  ASSUME RunnerInv, R!Audit, UNCHANGED secretSide
  PROVE  RunnerInv'
<1> USE DEF RunnerInv, R!Audit, R!At, R!Live
<1>0. PICK m \in R!Activations : m = worker.op BY DEF RunnerWork
<1>1. /\ worker.pc = "audit" /\ worker.mode \in {"activate", "recover"} /\ Marked(m, worker.records)
      /\ worker.records \in Marks /\ ledger[m].receipt = "empty"
      /\ ledger[m].journal.status \in {"in-progress", "rolled-back"}
      /\ DOMAIN ledger[m].journal.records \subseteq DOMAIN worker.records
  BY <1>0 DEF RunnerWork, Retreating, RunnerTypes, Workers
<1>2. UNCHANGED R!plane /\ UNCHANGED ledger OBVIOUS
<1>3. CASE ~R!Accounted(R!Adopted) BY <1>2, <1>3, RunnerEnd
<1>4. CASE R!Accounted(R!Adopted)
  <2>1. PICK records \in Marks :
          /\ records = R!Adopted /\ DOMAIN worker.records \subseteq DOMAIN records
          /\ \A o \in DOMAIN records : \/ Bears(m, o) /\ records[o] = FALSE
                                       \/ o \in DOMAIN worker.records /\ records[o] = worker.records[o]
    <3> DEFINE r == R!Adopted
    <3>1. /\ DOMAIN worker.records \subseteq DOMAIN r /\ DOMAIN r \subseteq R!Names
          /\ r \in [DOMAIN r -> BOOLEAN]
          /\ \A o \in DOMAIN r : \/ Bears(m, o) /\ r[o] = FALSE
                                 \/ o \in DOMAIN worker.records /\ r[o] = worker.records[o]
      BY <1>0, <1>1, MarksAre DEF R!Adopted, Bears
    <3>2. r \in Marks BY <3>1, MarksAre
    <3> HIDE DEF r
    <3>3. QED BY <3>1, <3>2 DEF r
  <2>2. \A o \in R!Names : Bears(m, o) => o \in DOMAIN records
    BY <1>4, <2>1 DEF R!Accounted, Bears
  <2>3. Marked(m, records)
    <3>1. ASSUME NEW o \in DOMAIN records
          PROVE  ~Asked(m, o) /\ (records[o] /\ Bears(m, o) => ~objects[o].nonce)
      <4>1. o \in R!Names BY MarksAre
      <4>2. CASE Bears(m, o) /\ records[o] = FALSE BY <4>1, <4>2 DEF CreatedOnce
      <4>3. CASE o \in DOMAIN worker.records /\ records[o] = worker.records[o]
        BY <1>1, <4>3 DEF Marked
      <4>4. QED BY <2>1, <4>2, <4>3
    <3>2. QED BY <3>1 DEF Marked
  <2>4. worker' = [worker EXCEPT !.pc = "entry", !.records = records] BY <1>4, <2>1
  <2>5. /\ worker'.pc = "entry" /\ worker'.mode = worker.mode /\ worker'.op = m
        /\ worker'.records = records /\ worker' \in Workers
    BY <1>0, <2>4 DEF RunnerTypes, Workers, RunnerSteps
  <2>6. Retreating' BY <1>1, <1>2, <2>1, <2>2, <2>5, RunnerStay DEF Retreating
  <2>7. RunnerWork'
    BY <1>1, <1>2, <2>3, <2>5, <2>6, RunnerStay DEF RunnerWork, RunnerSteps, R!Transacting
  <2>8. QED BY <1>2, <2>5, <2>7, RunnerRest
<1>5. QED BY <1>3, <1>4

\* A recovery takes the records of the journal it finds.
LEMMA RunnerReadPapers ==
  ASSUME RunnerInv, R!ReadPapers, UNCHANGED secretSide
  PROVE  RunnerInv'
<1> USE DEF RunnerInv, R!ReadPapers, R!At
<1>0. PICK m \in R!Activations : m = worker.op BY DEF RunnerWork
<1>1. /\ worker.pc = "recover" /\ worker.mode = "recover"
      /\ ledger[m].journal.status # "none" /\ RunnerPaper(m)
      /\ ledger[m].journal.records \in Marks
      /\ ledger[m].journal.status \in {"in-progress", "committed", "rolled-back"}
  BY <1>0 DEF RunnerWork, RunnerPapers, RunnerTypes, Ledgers
<1>2. UNCHANGED R!plane OBVIOUS
<1>3. CASE ledger[m].receipt \in R!Terminal
  <2>1. PICK status \in {"committed", "rolled-back"} :
          /\ R!WriteJournal(status, ledger[m].journal.records) /\ worker' = R!Rest
          /\ status = "committed" <=> ledger[m].receipt = "activated"
    BY <1>0, <1>3 DEF R!Terminal
  <2>2. /\ ledger' \in [R!Activations -> Ledgers]
        /\ ledger'[m].journal.status = status
        /\ ledger'[m].journal.records = ledger[m].journal.records
        /\ ledger'[m].journal.source = ledger[m].journal.source
        /\ ledger'[m].receipt = ledger[m].receipt
        /\ \A n \in R!Activations \ {m} : ledger'[n] = ledger[n]
    BY <1>0, <1>1, <2>1, JournalNoted
  <2>3. status = "rolled-back" => ObjectsClear(m)
    BY <1>1, <1>3, <2>1 DEF RunnerPaper, R!Terminal
  <2>4. RunnerPaper(m)'
    BY <1>1, <1>2, <1>3, <2>1, <2>2, <2>3, RunnerStay, SuppliesStay DEF RunnerPaper, R!Terminal
  <2>5. QED BY <1>2, <2>1, <2>2, <2>4, RunnerIdles, RunnerWrites
<1>4. CASE ledger[m].receipt = "empty" /\ worker' = [worker EXCEPT !.pc = "audit", !.records = ledger[m].journal.records]
           /\ UNCHANGED ledger
  <2>1. /\ worker'.pc = "audit" /\ worker'.mode = "recover" /\ worker'.op = m
        /\ worker'.records = ledger[m].journal.records /\ worker' \in Workers
    BY <1>0, <1>1, <1>4 DEF RunnerTypes, Workers, RunnerSteps
  <2>2. Retreating' BY <1>1, <1>4, <2>1 DEF Retreating, RunnerPaper
  <2>3. RunnerWork'
    BY <1>1, <1>2, <2>1, <2>2, RunnerStay DEF RunnerWork, RunnerSteps, R!Transacting, RunnerPaper
  <2>4. QED BY <1>2, <1>4, <2>1, <2>3, RunnerRest
<1>5. CASE worker' = R!Rest /\ UNCHANGED ledger BY <1>2, <1>5, RunnerEnd
<1>6. QED BY <1>0, <1>3, <1>4, <1>5

\* A rollback is entered with everything live on record.
LEMMA RunnerEnterRollback ==
  ASSUME RunnerInv, R!EnterRollback, UNCHANGED secretSide
  PROVE  RunnerInv'
<1> USE DEF RunnerInv, R!EnterRollback, R!At, R!Goto
<1>0. PICK m \in R!Activations : m = worker.op BY DEF RunnerWork
<1>1. /\ worker.pc = "entry" /\ worker.mode \in {"activate", "recover"} /\ Marked(m, worker.records)
      /\ worker.records \in Marks /\ ledger[m].receipt = "empty"
      /\ ledger[m].journal.status \in {"in-progress", "rolled-back"}
      /\ DOMAIN ledger[m].journal.records \subseteq DOMAIN worker.records
      /\ \A o \in R!Names \ DOMAIN worker.records : Bears(m, o) => m \in tardy
  BY <1>0 DEF RunnerWork, Retreating, RunnerTypes, Workers
<1>2. UNCHANGED R!plane OBVIOUS
<1>3. /\ ledger' \in [R!Activations -> Ledgers] /\ RunnerPaper(m)'
      /\ \A n \in R!Activations \ {m} : ledger'[n] = ledger[n]
      /\ ledger'[m].journal.status = ledger[m].journal.status
      /\ ledger'[m].journal.records = worker.records
      /\ ledger'[m].receipt = "empty"
  BY <1>0, <1>1, <1>2, RunnerRecords
<1>4. /\ worker'.pc = "suspend" /\ worker'.mode = worker.mode /\ worker'.op = m
      /\ worker'.records = worker.records /\ worker' \in Workers
  BY <1>0 DEF RunnerTypes, Workers, RunnerSteps
<1>5. Retreating' BY <1>1, <1>2, <1>3, <1>4, RunnerStay DEF Retreating
<1>6. RunnerWork'
  BY <1>1, <1>2, <1>4, <1>5, RunnerStay DEF RunnerWork, RunnerSteps, R!Transacting
<1>7. QED BY <1>2, <1>3, <1>4, <1>6, RunnerWrites

\* The rollback suspends the Kustomization before it takes anything.
LEMMA RunnerSuspendIfActive ==
  ASSUME RunnerInv, R!SuspendIfActive, UNCHANGED secretSide
  PROVE  RunnerInv'
<1> USE DEF RunnerInv, R!SuspendIfActive, R!At, R!Steps
<1>0. PICK m \in R!Activations : m = worker.op BY DEF RunnerWork
<1> DEFINE o == Kustomization
<1>1. /\ worker.pc = "suspend" /\ worker.mode \in {"activate", "recover"} /\ Marked(m, worker.records)
      /\ worker.records \in Marks /\ ledger[m].receipt = "empty"
      /\ ledger[m].journal.status \in {"in-progress", "rolled-back"}
      /\ DOMAIN ledger[m].journal.records \subseteq DOMAIN worker.records
      /\ \A k \in R!Names \ DOMAIN worker.records : Bears(m, k) => m \in tardy
  BY <1>0 DEF RunnerWork, Retreating, RunnerTypes, Workers
<1>2. o \in R!Names BY RunnerOrders
<1>3. UNCHANGED <<reconciling, requests, tardy, ledger>> OBVIOUS
<1>4. /\ objects' \in [R!Names -> R!Objects \cup {Absent}]
      /\ \A k \in R!Names : /\ objects'[k] = Absent <=> objects[k] = Absent
                            /\ objects[k] # Absent => /\ objects'[k].uid = objects[k].uid
                                                      /\ objects'[k].nonce = objects[k].nonce
  <2>1. CASE objects' = [objects EXCEPT ![o].suspended = TRUE] /\ objects[o] # Absent
    <3>1. objects[o] \in R!Objects BY <1>2, <2>1 DEF RunnerTypes
    <3>2. /\ [objects[o] EXCEPT !.suspended = TRUE] \in R!Objects
          /\ [objects[o] EXCEPT !.suspended = TRUE].uid = objects[o].uid
          /\ [objects[o] EXCEPT !.suspended = TRUE].nonce = objects[o].nonce
      BY <3>1 DEF R!Objects
    <3>3. /\ objects'[o] = [objects[o] EXCEPT !.suspended = TRUE]
          /\ objects' \in [R!Names -> R!Objects \cup {Absent}]
          /\ \A k \in R!Names \ {o} : objects'[k] = objects[k]
      BY <1>2, <2>1, <3>2 DEF RunnerTypes
    <3>4. objects[o] # Absent /\ objects'[o] # Absent
      <4>1. Absent \notin R!Objects BY Facts
      <4>2. QED BY <2>1, <3>2, <3>3, <4>1
    <3>5. QED BY <3>2, <3>3, <3>4
  <2>2. CASE objects' = objects BY <2>2 DEF RunnerTypes
  <2>3. QED BY <2>1, <2>2 DEF R!Active, R!Live
<1>5. \A n \in R!Activations, k \in R!Names : /\ Asked(n, k)' <=> Asked(n, k)
                                              /\ Awaits(n, k)' <=> Awaits(n, k)
  BY <1>3 DEF Asked, Awaits
<1>6. /\ \A n \in R!Activations : Shrinks(n)
      /\ \A n \in R!Activations, k \in R!Names : Bears(n, k)' <=> Bears(n, k)
      /\ \A n \in R!Activations, r \in Marks : Marked(n, r) => Marked(n, r)'
      /\ CreatedOnce' /\ Tidy'
  BY <1>3, <1>4, <1>5, RunnerEdits
<1>7. RunnerPapers' BY <1>3, <1>6, LedgerLasts, SuppliesStay DEF RunnerPapers
<1>8. worker' \in Workers /\ RunnerWork'
  <2>1. CASE worker' = R!Rest BY <2>1, RunnerIdles
  <2>2. CASE worker' = [worker EXCEPT !.pc = "delete", !.todo = R!DeleteOrder]
    <3>1. /\ worker'.pc = "delete" /\ worker'.mode = worker.mode /\ worker'.op = m
          /\ worker'.records = worker.records /\ worker'.todo = R!DeleteOrder
          /\ worker' \in Workers
      BY <1>0, <2>2, RunnerOrderBack DEF RunnerTypes, Workers, RunnerSteps
    <3>2. Retreating'
      BY <1>1, <1>3, <1>6, <3>1, MarksAre, RunnerOrderBack DEF Retreating
    <3>3. Marked(m, worker.records)' BY <1>1, <1>6, <3>1
    <3>4. RunnerWork'
      BY <1>1, <3>1, <3>2, <3>3 DEF RunnerWork, RunnerSteps, R!Transacting
    <3>5. QED BY <3>1, <3>4
  <2>3. QED BY <2>1, <2>2
<1>9. RunnerTypes' BY <1>3, <1>4, <1>8 DEF RunnerTypes
<1>10. QED BY <1>6, <1>7, <1>8, <1>9

\* The rollback takes only what its activation owns, the rights of the tenant
\* before the workloads.
LEMMA RunnerDeleteNext ==
  ASSUME RunnerInv, R!DeleteNext, UNCHANGED secretSide
  PROVE  /\ RunnerInv'
         /\ \A k \in R!Names : objects[k] # Absent /\ objects'[k] = Absent =>
              /\ objects[k].uid \in R!Activations /\ objects[k].uid = worker.op
              /\ ledger[worker.op].receipt = "empty"
<1> USE DEF RunnerInv, R!DeleteNext, R!At, R!Goto, R!Live
<1>0. PICK m \in R!Activations : m = worker.op BY DEF RunnerWork
<1> DEFINE o == Head(worker.todo)
<1>1. /\ worker.pc = "delete" /\ worker.mode \in {"activate", "recover"} /\ Marked(m, worker.records)
      /\ worker.records \in Marks /\ ledger[m].receipt = "empty"
      /\ ledger[m].journal.status \in {"in-progress", "rolled-back"}
      /\ DOMAIN ledger[m].journal.records \subseteq DOMAIN worker.records
      /\ \A k \in R!Names \ DOMAIN worker.records : Bears(m, k) => m \in tardy
      /\ InOrder(worker.todo, R!DeleteOrder)
      /\ \A k \in R!Names \ Left(worker.todo) : Bears(m, k) => m \in tardy
  BY <1>0 DEF RunnerWork, Retreating, RunnerTypes, Workers
<1>2. /\ o \in R!Names /\ o \in Left(worker.todo) /\ Left(worker.todo) \subseteq R!Names
      /\ Left(Tail(worker.todo)) = Left(worker.todo) \ {o}
  BY <1>1, RunnerOrderBack, Onward
<1>3. UNCHANGED <<reconciling, requests, tardy, ledger>> OBVIOUS
<1>4. \A pc \in {"crossed"} : worker' = [worker EXCEPT !.pc = pc] =>
        /\ worker'.pc = pc /\ worker'.mode = worker.mode /\ worker'.op = m
        /\ worker'.records = worker.records /\ worker'.todo = worker.todo /\ worker' \in Workers
  BY <1>0 DEF RunnerTypes, Workers, RunnerSteps
<1>5. CASE UNCHANGED objects /\ worker' = R!Rest
  BY <1>3, <1>5, RunnerEnd DEF R!plane
<1>6. CASE /\ UNCHANGED objects /\ worker' = [worker EXCEPT !.pc = "crossed"]
           /\ objects[o] = Absent \/ o \notin DOMAIN worker.records
  <2>1. UNCHANGED R!plane BY <1>3, <1>6 DEF R!plane
  <2>2. \A k \in R!Names \ Left(Tail(worker.todo)) : Bears(m, k) => m \in tardy
    BY <1>1, <1>2, <1>6 DEF Bears
  <2>3. Retreating' BY <1>1, <1>3, <1>4, <1>6, <2>1, <2>2, RunnerStay DEF Retreating
  <2>4. Marked(worker.op, worker.records)' BY <1>1, <1>4, <1>6, <2>1, RunnerStay
  <2>5. RunnerWork'
    BY <1>1, <1>4, <1>6, <2>3, <2>4 DEF RunnerWork, RunnerSteps, R!Transacting
  <2>6. QED BY <1>3, <1>4, <1>6, <2>1, <2>5, RunnerRest
<1>7. CASE /\ objects[o] # Absent /\ objects[o].uid = m /\ objects' = [objects EXCEPT ![o] = Absent]
           /\ worker' = R!Rest \/ worker' = [worker EXCEPT !.pc = "crossed"]
  <2>1. objects'[o] = Absent /\ \A k \in R!Names \ {o} : objects'[k] = objects[k]
    BY <1>2, <1>7 DEF RunnerTypes
  <2>2. \A n, k : (Asked(n, k)' <=> Asked(n, k)) /\ (Awaits(n, k)' <=> Awaits(n, k))
    BY <1>3 DEF Asked, Awaits
  <2>3. \A n \in R!Activations, k \in R!Names : Bears(n, k)' <=> Bears(n, k) /\ k # o
    BY <1>2, <2>1 DEF Bears
  <2>4. \A n \in R!Activations : Shrinks(n) BY <1>3, <2>1, <2>2, <2>3 DEF Shrinks
  <2>5. CreatedOnce' BY <2>2, <2>3 DEF CreatedOnce
  <2>6. RunnerPapers' BY <1>3, <2>4, LedgerLasts, SuppliesStay DEF RunnerPapers
  <2>7. Tidy'
    <3>1. SUFFICES ASSUME tardy = {} PROVE Tidy' BY <1>3 DEF Tidy
    <3>2. /\ \A k \in R!Names : objects[k] # Absent => objects[k].uid # R!Flux
          /\ \A k, p \in R!Names : /\ objects[k] # Absent /\ objects[k].uid # R!Rival
                                   /\ objects[p] # Absent /\ objects[p].uid # R!Rival
                                   => objects[k].uid = objects[p].uid
      BY <3>1 DEF Tidy
    <3>3. \A t \in Left(Tenancy), x \in Left(Workloads) :
            objects'[t] # Absent /\ objects'[t].uid # R!Rival => objects'[x] # Absent
      <4>1. SUFFICES ASSUME NEW t \in Left(Tenancy), NEW x \in Left(Workloads),
                            objects'[t] # Absent, objects'[t].uid # R!Rival, objects'[x] = Absent
                     PROVE  FALSE
        OBVIOUS
      <4>2. t \in R!Names /\ x \in R!Names /\ t # o /\ objects[t] # Absent /\ objects[t].uid # R!Rival
        BY <2>1, <4>1, RunnerOrders
      <4>3. x = o BY <2>1, <3>1, <4>1, <4>2 DEF Tidy
      <4>4. t \notin Left(worker.todo) BY <1>1, <4>3, WorkloadsLast
      <4>5. objects[t].uid = m BY <1>2, <1>7, <3>2, <4>2, Facts
      <4>6. QED BY <1>1, <3>1, <4>2, <4>4, <4>5 DEF Bears
    <3>4. QED BY <2>1, <3>2, <3>3 DEF Tidy
  <2>8. worker' \in Workers /\ RunnerWork'
    <3>1. CASE worker' = R!Rest BY <3>1, RunnerIdles
    <3>2. CASE worker' = [worker EXCEPT !.pc = "crossed"]
      <4>1. \A k \in R!Names \ Left(Tail(worker.todo)) : Bears(m, k)' => m \in tardy
        BY <1>1, <1>2, <2>3
      <4>2. Retreating' BY <1>1, <1>3, <1>4, <2>3, <3>2, <4>1 DEF Retreating
      <4>3. Marked(worker.op, worker.records)'
        BY <1>1, <1>4, <2>4, <3>2, MarkedLasts
      <4>4. RunnerWork'
        BY <1>1, <1>4, <3>2, <4>2, <4>3 DEF RunnerWork, RunnerSteps, R!Transacting
      <4>5. QED BY <1>4, <3>2, <4>4
    <3>3. QED BY <1>7, <3>1, <3>2
  <2>9. RunnerTypes' BY <1>2, <1>3, <1>7, <2>8 DEF RunnerTypes
  <2>10. \A k \in R!Names : objects[k] # Absent /\ objects'[k] = Absent => k = o
    BY <2>1
  <2>11. QED BY <1>0, <1>1, <1>7, <2>5, <2>6, <2>7, <2>8, <2>9, <2>10
<1>8. QED BY <1>0, <1>5, <1>6, <1>7 DEF R!Owned

-----
\* Objects: the end and the start of a process.

\* The names that the rollback has passed are clear.
LEMMA RunnerNoteDeleted ==
  ASSUME RunnerInv, R!NoteDeleted, UNCHANGED secretSide
  PROVE  RunnerInv'
<1> USE DEF RunnerInv, R!NoteDeleted, R!At, R!Steps
<1>0. PICK m \in R!Activations : m = worker.op BY DEF RunnerWork
<1>1. /\ worker.pc = "crossed" /\ worker.mode \in {"activate", "recover"} /\ Marked(m, worker.records)
      /\ worker.records \in Marks /\ ledger[m].receipt = "empty"
      /\ ledger[m].journal.status \in {"in-progress", "rolled-back"}
      /\ DOMAIN ledger[m].journal.records \subseteq DOMAIN worker.records
      /\ \A k \in R!Names \ DOMAIN worker.records : Bears(m, k) => m \in tardy
      /\ InOrder(worker.todo, R!DeleteOrder)
      /\ \A k \in R!Names \ Left(Tail(worker.todo)) : Bears(m, k) => m \in tardy
  BY <1>0 DEF RunnerWork, Retreating, RunnerTypes, Workers
<1>2. /\ Tail(worker.todo) \in Seq(R!Names) /\ (Len(worker.todo) = 1 <=> Tail(worker.todo) = <<>>)
      /\ Tail(worker.todo) # <<>> => InOrder(Tail(worker.todo), R!DeleteOrder)
  BY <1>1, RunnerOrderBack, Onward
<1>3. UNCHANGED R!plane OBVIOUS
<1>4. /\ ledger' \in [R!Activations -> Ledgers] /\ RunnerPaper(m)'
      /\ \A n \in R!Activations \ {m} : ledger'[n] = ledger[n]
      /\ ledger'[m].journal.status = ledger[m].journal.status
      /\ ledger'[m].journal.records = worker.records
      /\ ledger'[m].receipt = "empty"
  BY <1>0, <1>1, <1>3, RunnerRecords
<1>5. PICK pc \in {"delete", "close"} :
        /\ worker' = [worker EXCEPT !.pc = pc, !.todo = Tail(worker.todo)]
        /\ pc = "close" <=> Tail(worker.todo) = <<>>
  BY <1>2
<1>6. /\ worker'.pc = pc /\ worker'.mode = worker.mode /\ worker'.op = m
      /\ worker'.records = worker.records /\ worker'.todo = Tail(worker.todo) /\ worker' \in Workers
  BY <1>0, <1>2, <1>5 DEF RunnerTypes, Workers, RunnerSteps
<1>7. pc = "close" => ObjectsClear(m)
  <2>1. Left(<<>>) = {} BY DEF Left
  <2>2. QED BY <1>1, <1>5, <2>1 DEF ObjectsClear
<1>8. Retreating'
  BY <1>1, <1>2, <1>3, <1>4, <1>5, <1>6, <1>7, RunnerStay DEF Retreating
<1>9. Marked(worker.op, worker.records)' BY <1>1, <1>3, <1>6, RunnerStay
<1>10. RunnerWork'
  BY <1>1, <1>6, <1>8, <1>9 DEF RunnerWork, RunnerSteps, R!Transacting
<1>11. QED BY <1>3, <1>4, <1>6, <1>10, RunnerWrites

\* The journal says rolled back when nothing is left.
LEMMA RunnerCloseJournal ==
  ASSUME RunnerInv, R!CloseJournal, UNCHANGED secretSide
  PROVE  RunnerInv'
<1> USE DEF RunnerInv, R!CloseJournal, R!At, R!Goto
<1>0. PICK m \in R!Activations : m = worker.op BY DEF RunnerWork
<1>1. /\ worker.pc = "close" /\ worker.mode \in {"activate", "recover"} /\ Marked(m, worker.records)
      /\ worker.records \in Marks /\ ledger[m].receipt = "empty"
      /\ ledger[m].journal.status \in {"in-progress", "rolled-back"}
      /\ DOMAIN ledger[m].journal.records \subseteq DOMAIN worker.records
      /\ ObjectsClear(m) /\ RunnerPaper(m)
  BY <1>0 DEF RunnerWork, Retreating, RunnerTypes, Workers, RunnerPapers
<1>2. UNCHANGED R!plane OBVIOUS
<1>3. /\ ledger' \in [R!Activations -> Ledgers]
      /\ ledger'[m].journal.status = "rolled-back" /\ ledger'[m].journal.records = worker.records
      /\ ledger'[m].receipt = "empty"
      /\ \A n \in R!Activations \ {m} : ledger'[n] = ledger[n]
  BY <1>0, <1>1, JournalNoted
<1>4. RunnerPaper(m)' BY <1>1, <1>2, <1>3, RunnerStay DEF RunnerPaper
<1>5. /\ worker'.pc = "receipt" /\ worker'.mode = worker.mode /\ worker'.op = m
      /\ worker'.records = worker.records /\ worker' \in Workers
  BY <1>0 DEF RunnerTypes, Workers, RunnerSteps
<1>6. Marked(worker.op, worker.records)' BY <1>1, <1>2, <1>5, RunnerStay
<1>7. RunnerWork'
  BY <1>1, <1>3, <1>5, <1>6 DEF RunnerWork, RunnerSteps, R!Transacting
<1>8. QED BY <1>2, <1>3, <1>4, <1>5, <1>7, RunnerWrites

\* The receipt says rolled back after the journal.
LEMMA RunnerRollbackReceipt ==
  ASSUME RunnerInv, R!RollbackReceipt, UNCHANGED secretSide
  PROVE  RunnerInv'
<1> USE DEF RunnerInv, R!RollbackReceipt, R!At
<1>0. PICK m \in R!Activations : m = worker.op BY DEF RunnerWork
<1>1. /\ ledger[m].journal.status = "rolled-back" /\ ledger[m].receipt = "empty"
      /\ RunnerPaper(m) /\ ObjectsClear(m)
  BY <1>0 DEF RunnerWork, RunnerPapers, RunnerPaper
<1>2. UNCHANGED R!plane /\ worker' = R!Rest OBVIOUS
<1>3. PICK state \in {"rolled-back", "recovered-rolled-back", "partial"} : R!CommitReceipt(state)
  OBVIOUS
<1>4. /\ ledger' \in [R!Activations -> Ledgers]
      /\ ledger'[m].receipt = state /\ ledger'[m].journal = ledger[m].journal
      /\ \A n \in R!Activations \ {m} : ledger'[n] = ledger[n]
  BY <1>0, <1>3, ReceiptNoted DEF R!Terminal
<1>5. RunnerPaper(m)' BY <1>1, <1>2, <1>3, <1>4, RunnerStay DEF RunnerPaper
<1>6. QED BY <1>2, <1>4, <1>5, RunnerIdles, RunnerWrites

\* An exception sends an activation to its rollback, a recovery to its end.
LEMMA RunnerRaise ==
  ASSUME RunnerInv, R!Raise, UNCHANGED secretSide
  PROVE  RunnerInv'
<1> USE DEF R!Raise, R!At, R!Goto
<1>1. CASE worker' = R!Rest BY <1>1, RunnerEnd
<1>2. CASE worker.pc \in R!Transacting /\ worker' = [worker EXCEPT !.pc = "audit"]
  <2>1. RunnerTypes /\ RunnerWork BY DEF RunnerInv
  <2>2. Marked(worker.op, worker.records) /\ worker'.op = worker.op /\ worker'.records = worker.records
    BY <1>2, <2>1 DEF RunnerTypes, Workers, RunnerWork
  <2>3. Marked(worker.op, worker.records)' BY <2>2, RunnerStay
  <2>4. QED BY <1>2, <2>1, <2>3, RunnerRetreats, RunnerRest
<1>3. QED BY <1>1, <1>2

\* A killed process leaves papers that are still true.
LEMMA RunnerKill ==
  ASSUME RunnerInv, R!Kill, UNCHANGED secretSide
  PROVE  RunnerInv'
BY RunnerEnd DEF R!Kill

\* A process starts with nothing on record.
LEMMA RunnerStart ==
  ASSUME RunnerInv, SecretInv, R!Operator, UNCHANGED secretSide
  PROVE  RunnerInv'
<1> USE DEF RunnerInv, R!Start, R!At
<1>1. UNCHANGED R!plane /\ UNCHANGED ledger
  BY DEF R!Operator, R!StartActivation, R!StartRecovery
<1>2. PICK m \in R!Activations, mode \in {"activate", "recover"}, s \in 0 .. MaxOperations :
        /\ R!Start(mode, m, s)
        /\ mode = "activate" => /\ ledger[m] = R!NoLedger /\ s \in S!Operations
                                /\ papers[s].receipt.state = "materialized"
        /\ mode = "recover" => ledger[m].journal # R!NoJournal
  <2>1. CASE R!StartActivation
    <3>1. DOMAIN papers = S!Operations /\ S!Operations \subseteq 0 .. MaxOperations
      BY Facts DEF SecretInv, SecretTypes
    <3>2. QED BY <2>1, <3>1 DEF R!StartActivation
  <2>2. CASE R!StartRecovery
    <3>1. 0 \in 0 .. MaxOperations BY Facts
    <3>2. QED BY <2>2, <3>1 DEF R!StartRecovery
  <2>3. QED BY <2>1, <2>2 DEF R!Operator
<1>3. worker' = [pc |-> mode, mode |-> mode, op |-> m, source |-> s, records |-> <<>>, todo |-> <<>>]
  BY <1>2 DEF R!Rest
<1>4. mode = "recover" => ledger[m].journal.status # "none"
  BY <1>2 DEF RunnerPapers, RunnerPaper
<1>5. Marked(m, <<>>) BY Empty DEF Marked
<1>6. worker' \in Workers
  <2>1. m \in 0 .. MaxActivations /\ mode \in RunnerSteps /\ <<>> \in Seq(R!Names)
    BY Facts DEF RunnerSteps
  <2>2. QED BY <1>3, <2>1, Empty DEF Workers
<1>7. Marked(worker.op, worker.records)' BY <1>1, <1>3, <1>5, RunnerStay
<1>8. RunnerWork'
  <2>1. UNCHANGED papers BY DEF secretSide
  <2>2. /\ worker'.pc = mode /\ worker'.mode = mode /\ worker'.op = m
        /\ worker'.source = s /\ worker'.records = <<>>
    BY <1>3
  <2>3. QED BY <1>1, <1>2, <1>4, <1>7, <2>1, <2>2 DEF RunnerWork, RunnerSteps, R!Transacting
<1>9. QED BY <1>1, <1>6, <1>8, RunnerRest

\* The world moves on: no object is lost to the process that relies on it.
LEMMA RunnerMoves ==
  ASSUME RunnerInv, UNCHANGED <<ledger, worker>>, UNCHANGED secretSide, RunnerTypes',
         \A n \in R!Activations : Shrinks(n), CreatedOnce', Tidy', Alone => Alone',
         \A o \in R!Names : objects[o] # Absent =>
           /\ objects'[o] # Absent /\ objects'[o].uid = objects[o].uid
           /\ objects'[o].nonce => objects[o].nonce
           /\ objects'[o].suspended => objects[o].suspended
  PROVE  RunnerInv'
<1> USE DEF RunnerInv
<1>1. RunnerPapers' BY LedgerLasts, SuppliesStay DEF RunnerPapers
<1>2. SUFFICES ASSUME ~R!At("idle") PROVE RunnerWork' BY <1>1 DEF RunnerWork, R!At
<1>3. PICK m \in R!Activations : m = worker.op BY <1>2 DEF RunnerWork
<1>4. Shrinks(m) /\ tardy \subseteq tardy' /\ worker.records \in Marks /\ DOMAIN worker.records \subseteq R!Names
  BY MarksAre DEF Shrinks, RunnerTypes, Workers
<1>5. ObjectsClear(m) => ObjectsClear(m)' BY <1>4, ObjectsClearLasts
<1>6. \A o \in R!Names : (Bears(m, o) => m \in tardy) => (Bears(m, o)' => m \in tardy')
  BY <1>4 DEF Shrinks
<1>7. Retreating => Retreating' BY <1>3, <1>5, <1>6 DEF Retreating
<1>8. Activating => Activating'
  <2>1. \A o \in R!Names : Bears(m, o) => Bears(m, o)' BY DEF Bears
  <2>2. \A o \in R!Names : ~Asked(m, o) /\ ~Bears(m, o) => ~Asked(m, o)' /\ ~Bears(m, o)'
    BY <1>4 DEF Shrinks
  <2>3. R!Active => R!Active' BY RunnerOrders DEF R!Active, R!Live
  <2>4. Coming' = Coming BY DEF Coming
  <2>5. SUFFICES ASSUME Activating PROVE Activating' OBVIOUS
  <2>6. worker.pc \in {"create", "look", "note"} => Coming \subseteq R!Names
    <3>1. CASE InOrder(worker.todo, R!CreateOrder)
      <4>1. /\ Left(worker.todo) \subseteq R!Names
            /\ Left(Tail(worker.todo)) = Left(worker.todo) \ {Head(worker.todo)}
        BY <3>1, RunnerOrder, Onward
      <4>2. QED BY <4>1 DEF Coming
    <3>2. QED BY <2>5, <3>1 DEF Activating
  <2>7. \A o \in DOMAIN worker.records : Bears(m, o) /\ Bears(m, o)'
    BY <1>3, <1>4, <2>1, <2>5 DEF Activating
  <2>8. \A o \in DOMAIN worker.records : ~objects[o].nonce => ~objects'[o].nonce
    BY <1>4, <2>7 DEF Bears
  <2>9. worker.pc \in {"plain", "noted"} => DOMAIN worker.records = R!Names
    BY <1>4, <2>5 DEF Activating
  <2>10. /\ worker.pc \in {"plain", "noted"} => \A o \in R!Names \ Coming : ~objects'[o].nonce
         /\ worker.pc \in {"wake", "woken", "wait", "prepare", "commit"} =>
              \A o \in R!Names : ~objects'[o].nonce
    BY <2>5, <2>8, <2>9 DEF Activating
  <2>11. UNCHANGED <<ledger, worker>> OBVIOUS
  <2>12. worker.pc \in {"create", "look", "note"} => \A o \in Coming : ~Asked(m, o)' /\ ~Bears(m, o)'
    BY <1>3, <2>2, <2>5, <2>6 DEF Activating
  <2>13. QED BY <1>3, <2>3, <2>4, <2>5, <2>7, <2>10, <2>11, <2>12, SuppliesStay DEF Activating
<1>9. Marked(m, worker.records) => Marked(m, worker.records)'
  <2>1. PICK r \in Marks : r = worker.records BY <1>4
  <2>2. Marked(m, r) => Marked(m, r)' BY <1>4, MarkedLasts
  <2>3. QED BY <2>1, <2>2
<1>10. papers' = papers BY DEF secretSide
<1>11. worker.pc = "open" => (Supplied(worker.source) /\ Alone => Supplied(worker.source)' /\ Alone')
  BY SuppliesStay
<1>12. QED BY <1>2, <1>3, <1>7, <1>8, <1>9, <1>10, <1>11 DEF RunnerWork, R!At

-----
\* Objects: late requests, the reconciler, others.

\* A request served after the answer was lost marks its activation as tardy.
LEMMA RunnerServeLate ==
  ASSUME RunnerInv, R!ServeLate, UNCHANGED secretSide
  PROVE  RunnerInv'
<1> USE DEF RunnerInv
<1>1. PICK r \in requests :
        /\ requests' = requests \ {r}
        /\ \/ /\ r.does = "create" /\ objects[r.name] = Absent
              /\ objects' = [objects EXCEPT ![r.name] = R!Fresh(r.op)]
              /\ tardy' = tardy \cup {r.op}
           \/ /\ r.does = "plain" /\ objects[r.name] = R!Fresh(r.op)
              /\ objects' = [objects EXCEPT ![r.name].nonce = FALSE]
              /\ UNCHANGED tardy
           \/ /\ r.does = "wake" /\ objects[r.name] = R!Plain(r.op)
              /\ objects' = [objects EXCEPT ![r.name].suspended = FALSE]
              /\ UNCHANGED tardy
           \/ UNCHANGED <<objects, tardy>>
        /\ UNCHANGED <<reconciling, ledger, worker>>
  BY DEF R!ServeLate
<1>2. PICK m \in R!Activations, o \in R!Names, does \in {"create", "plain", "wake"} :
        r = [does |-> does, name |-> o, op |-> m]
  BY DEF RunnerTypes
<1>3. \A n \in R!Activations, k \in R!Names :
        /\ Asked(n, k)' => Asked(n, k)
        /\ Awaits(n, k)' => Awaits(n, k)
        /\ does = "create" => (Asked(n, k)' <=> Asked(n, k) /\ ~(n = m /\ k = o))
  BY <1>1, <1>2 DEF Asked, Awaits
<1>4. /\ does = "create" => Asked(m, o)
      /\ does = "plain" => Awaits(m, o)
  BY <1>1, <1>2 DEF Asked, Awaits
<1>5. CASE /\ does = "create" /\ objects[o] = Absent
           /\ objects' = [objects EXCEPT ![o] = R!Fresh(m)] /\ tardy' = tardy \cup {m}
  <2>1. /\ \A k \in R!Names \ {o} : objects'[k] = objects[k]
        /\ objects'[o].uid = m /\ objects'[o].nonce = TRUE /\ objects'[o] # Absent
        /\ objects' \in [R!Names -> R!Objects \cup {Absent}]
    BY <1>5, ObjectsAre DEF RunnerTypes
  <2>2. \A n \in R!Activations, k \in R!Names : Bears(n, k)' <=> Bears(n, k) \/ (n = m /\ k = o)
    BY <1>5, <2>1 DEF Bears
  <2>3. \A n \in R!Activations : Shrinks(n)
    BY <1>3, <1>4, <1>5, <2>1, <2>2 DEF Shrinks, Bears
  <2>4. CreatedOnce' BY <1>3, <1>5, <2>2 DEF CreatedOnce
  <2>5. Tidy' /\ Alone' BY <1>5 DEF Tidy, Alone
  <2>6. RunnerTypes' BY <1>1, <1>5, <2>1 DEF RunnerTypes
  <2>7. QED BY <1>1, <1>5, <2>1, <2>3, <2>4, <2>5, <2>6, RunnerMoves
<1>6. CASE /\ UNCHANGED tardy /\ objects' \in [R!Names -> R!Objects \cup {Absent}]
           /\ \A k \in R!Names :
                /\ objects'[k] = Absent <=> objects[k] = Absent
                /\ objects[k] # Absent => /\ objects'[k].uid = objects[k].uid
                                          /\ objects'[k].suspended => objects[k].suspended
                                          /\ \/ objects'[k].nonce = objects[k].nonce
                                             \/ ~objects'[k].nonce /\ k = o /\ objects[k].uid = m /\ does = "plain"
  <2>1. \A n \in R!Activations, k \in R!Names : Bears(n, k)' <=> Bears(n, k)
    BY <1>6 DEF Bears
  <2>2. \A n \in R!Activations : Shrinks(n)
    BY <1>3, <1>4, <1>6, <2>1 DEF Shrinks, Bears
  <2>3. CreatedOnce' BY <1>3, <2>1 DEF CreatedOnce
  <2>4. Tidy' BY <1>6, TidyStays
  <2>5. Alone => Alone' BY <1>1, <1>6 DEF Alone
  <2>6. RunnerTypes' BY <1>1, <1>6 DEF RunnerTypes
  <2>7. \A k \in R!Names : objects'[k].nonce => objects[k].nonce \/ objects[k] = Absent
    BY <1>6
  <2>8. QED BY <1>1, <1>6, <2>2, <2>3, <2>4, <2>5, <2>6, <2>7, RunnerMoves
<1>7. CASE UNCHANGED <<objects, tardy>> BY <1>6, <1>7 DEF RunnerTypes
<1>8. CASE /\ does = "plain" /\ objects[o] = R!Fresh(m) /\ UNCHANGED tardy
           /\ objects' = [objects EXCEPT ![o].nonce = FALSE]
  <2>1. objects[o] \in R!Objects /\ objects[o].uid = m BY <1>8, ObjectsAre
  <2>2. /\ [objects[o] EXCEPT !.nonce = FALSE] \in R!Objects
        /\ [objects[o] EXCEPT !.nonce = FALSE].uid = objects[o].uid
        /\ [objects[o] EXCEPT !.nonce = FALSE].suspended = objects[o].suspended
        /\ ~[objects[o] EXCEPT !.nonce = FALSE].nonce
    BY <2>1 DEF R!Objects
  <2>3. /\ objects'[o] = [objects[o] EXCEPT !.nonce = FALSE]
        /\ objects' \in [R!Names -> R!Objects \cup {Absent}]
        /\ \A k \in R!Names \ {o} : objects'[k] = objects[k]
    BY <1>8, <2>2 DEF RunnerTypes
  <2>4. objects[o] # Absent /\ objects'[o] # Absent BY <2>1, <2>2, <2>3, ObjectsAre
  <2>5. QED BY <1>6, <1>8, <2>1, <2>2, <2>3, <2>4
<1>9. CASE /\ does = "wake" /\ objects[o] = R!Plain(m) /\ UNCHANGED tardy
           /\ objects' = [objects EXCEPT ![o].suspended = FALSE]
  <2>1. objects[o] \in R!Objects
    <3>1. m \in 0 .. MaxActivations + 1 BY Facts
    <3>2. QED BY <1>9, <3>1, ObjectsAre
  <2>2. /\ [objects[o] EXCEPT !.suspended = FALSE] \in R!Objects
        /\ [objects[o] EXCEPT !.suspended = FALSE].uid = objects[o].uid
        /\ [objects[o] EXCEPT !.suspended = FALSE].nonce = objects[o].nonce
        /\ ~[objects[o] EXCEPT !.suspended = FALSE].suspended
    BY <2>1 DEF R!Objects
  <2>3. /\ objects'[o] = [objects[o] EXCEPT !.suspended = FALSE]
        /\ objects' \in [R!Names -> R!Objects \cup {Absent}]
        /\ \A k \in R!Names \ {o} : objects'[k] = objects[k]
    BY <1>9, <2>2 DEF RunnerTypes
  <2>4. objects[o] # Absent /\ objects'[o] # Absent BY <2>1, <2>2, <2>3, ObjectsAre
  <2>5. QED BY <1>6, <1>9, <2>2, <2>3, <2>4
<1>10. QED BY <1>1, <1>2, <1>5, <1>7, <1>8, <1>9

\* Somebody who is no activation takes a free name.
LEMMA RunnerTaken ==
  ASSUME RunnerInv, UNCHANGED <<reconciling, requests, tardy, ledger, worker>>, UNCHANGED secretSide,
         NEW o \in R!Names, NEW u \in {R!Rival, R!Flux}, objects[o] = Absent,
         objects' = [objects EXCEPT ![o] = R!Plain(u)], u = R!Rival \/ tardy # {}
  PROVE  RunnerInv'
<1> USE DEF RunnerInv
<1>1. u \in 0 .. MaxActivations + 1 /\ u \notin R!Activations BY Facts
<1>2. /\ \A k \in R!Names \ {o} : objects'[k] = objects[k]
      /\ objects'[o].uid = u /\ objects'[o] # Absent
      /\ objects' \in [R!Names -> R!Objects \cup {Absent}]
  BY <1>1, ObjectsAre DEF RunnerTypes
<1>3. \A n \in R!Activations, k \in R!Names : Bears(n, k)' <=> Bears(n, k)
  BY <1>1, <1>2 DEF Bears
<1>4. \A n, k : (Asked(n, k)' <=> Asked(n, k)) /\ (Awaits(n, k)' <=> Awaits(n, k))
  BY DEF Asked, Awaits
<1>5. \A n \in R!Activations : Shrinks(n) BY <1>2, <1>3, <1>4 DEF Shrinks, Bears
<1>6. CreatedOnce' BY <1>3, <1>4 DEF CreatedOnce
<1>7. Alone => Alone' BY <1>2 DEF Alone
<1>8. Tidy'
  <2>1. SUFFICES ASSUME tardy = {} PROVE Tidy' BY DEF Tidy
  <2>2. /\ \A k \in R!Names : objects[k] # Absent => objects[k].uid # R!Flux
        /\ \A k, p \in R!Names : /\ objects[k] # Absent /\ objects[k].uid # R!Rival
                                 /\ objects[p] # Absent /\ objects[p].uid # R!Rival
                                 => objects[k].uid = objects[p].uid
    BY <2>1 DEF Tidy
  <2>3. u = R!Rival /\ R!Rival # R!Flux BY <2>1, Facts
  <2>4. \A t \in Left(Tenancy), x \in Left(Workloads) :
          objects'[t] # Absent /\ objects'[t].uid # R!Rival => objects'[x] # Absent
    BY <1>2, <2>1, <2>3, RunnerOrders DEF Tidy
  <2>5. QED BY <1>2, <2>2, <2>3, <2>4 DEF Tidy
<1>9. RunnerTypes' BY <1>2 DEF RunnerTypes
<1>10. QED BY <1>2, <1>5, <1>6, <1>7, <1>8, <1>9, RunnerMoves

\* The reconciler at work brings a workload back only while the rights of the
\* tenant are there; in a tidy plane they are there only while no workload is
\* missing.
LEMMA RunnerReconcile ==
  ASSUME RunnerInv, R!Reconcile, UNCHANGED secretSide
  PROVE  RunnerInv'
<1> USE DEF RunnerInv, R!Reconcile, R!Live
<1>1. CASE UNCHANGED objects /\ reconciling' \in BOOLEAN
  <2>1. \A n \in R!Activations, k \in R!Names : /\ Bears(n, k)' <=> Bears(n, k)
                                                /\ Asked(n, k)' <=> Asked(n, k)
                                                /\ Awaits(n, k)' <=> Awaits(n, k)
    BY <1>1 DEF Bears, Asked, Awaits
  <2>2. \A n \in R!Activations : Shrinks(n) BY <1>1, <2>1 DEF Shrinks
  <2>3. CreatedOnce' BY <2>1 DEF CreatedOnce
  <2>4. Tidy' /\ (Alone => Alone') BY <1>1 DEF Tidy, Alone
  <2>5. RunnerTypes' BY <1>1 DEF RunnerTypes
  <2>6. QED BY <1>1, <2>2, <2>3, <2>4, <2>5, RunnerMoves
<1>2. CASE /\ \A t \in R!Range(Tenancy) : objects[t] # Absent /\ objects[t].uid # R!Rival
           /\ \E o \in R!Range(Workloads) :
                objects[o] = Absent /\ objects' = [objects EXCEPT ![o] = R!Plain(R!Flux)]
           /\ UNCHANGED reconciling
  <2>1. PICK o \in Left(Workloads) : objects[o] = Absent /\ objects' = [objects EXCEPT ![o] = R!Plain(R!Flux)]
    BY <1>2, RunnerOrders
  <2>2. PICK t \in Left(Tenancy) : objects[t] # Absent /\ objects[t].uid # R!Rival
    BY <1>2, RunnerOrders
  <2>3. tardy # {} BY <2>1, <2>2 DEF Tidy
  <2>4. o \in R!Names BY RunnerOrders
  <2>5. QED BY <1>2, <2>1, <2>3, <2>4, RunnerTaken
<1>3. QED BY <1>1, <1>2

\* Somebody else creates an object under a name that is free.
LEMMA RunnerInterfere ==
  ASSUME RunnerInv, R!Interfere, UNCHANGED secretSide
  PROVE  RunnerInv'
BY RunnerTaken DEF R!Interfere, R!Live

-----
\* Every step of either side.

SecretStep == S!Proceed \/ S!Operator \/ S!Disturb
RunnerStep == R!Proceed \/ R!Operator \/ R!Disturb

\* Every step of the Secret side keeps what is said of the Secrets.
LEMMA SecretStepKeeps ==
  ASSUME SecretInv, SecretStep, UNCHANGED runnerSide
  PROVE  SecretInv'
<1>0. UNCHANGED <<objects, tardy>> BY DEF runnerSide
<1>1. CASE S!Proceed
  BY <1>0, <1>1, SecretPreflight, SecretOpenJournal, SecretSendCreate, SecretLookCreated,
     SecretNoteCreated, SecretPrepare, SecretCommit, SecretAudit, SecretReadPapers,
     SecretEnterRollback, SecretDeleteNext, SecretNoteDeleted, SecretCloseJournal,
     SecretRollbackReceipt, SecretCheckUnused, SecretTeardownReceipt DEF S!Proceed
<1>2. CASE S!Operator BY <1>2, SecretStart
<1>3. CASE S!Disturb
  BY <1>0, <1>3, SecretRaise, SecretKill, SecretServeLate, SecretInterfere DEF S!Disturb
<1>4. QED BY <1>1, <1>2, <1>3 DEF SecretStep

\* Every step of the runner keeps what is said of the objects.
LEMMA RunnerStepKeeps ==
  ASSUME RunnerInv, SecretInv, RunnerStep, UNCHANGED secretSide
  PROVE  RunnerInv'
<1>1. CASE R!Proceed
  BY <1>1, RunnerPreflight, RunnerOpenJournal, RunnerSendCreate, RunnerLookCreated,
     RunnerNoteCreated, RunnerRemoveNonce, RunnerNoteRemoved, RunnerUnsuspend, RunnerNoteWoken,
     RunnerWaitReady, RunnerPrepare, RunnerCommit, RunnerAudit, RunnerReadPapers,
     RunnerEnterRollback, RunnerSuspendIfActive, RunnerDeleteNext, RunnerNoteDeleted,
     RunnerCloseJournal, RunnerRollbackReceipt DEF R!Proceed
<1>2. CASE R!Operator BY <1>2, RunnerStart
<1>3. CASE R!Disturb
  BY <1>3, RunnerRaise, RunnerKill, RunnerServeLate, RunnerReconcile, RunnerInterfere DEF R!Disturb
<1>4. QED BY <1>1, <1>2, <1>3 DEF RunnerStep

\* Receipts only ever become materialized, and when one does its Secrets live.
LEMMA SecretReceipts ==
  ASSUME SecretInv, SecretStep, UNCHANGED runnerSide
  PROVE  \A n \in S!Operations :
           /\ papers[n].receipt.state = "materialized" => papers'[n].receipt.state = "materialized"
           /\ papers[n].receipt.state # "materialized" /\ papers'[n].receipt.state = "materialized"
                => \A l \in S!Labels : Lives(n, l)
<1> DEFINE Kept == \A n \in S!Operations : papers'[n].receipt = papers[n].receipt
<1>0. ASSUME ~S!At("idle")
      PROVE  job.op \in S!Operations
  BY <1>0 DEF SecretInv, SecretWork
<1>1. ASSUME NEW status, NEW r, S!WriteJournal(status, r) PROVE Kept
  BY <1>1 DEF S!WriteJournal, SecretInv, SecretTypes, Papers
<1>2. ASSUME UNCHANGED papers PROVE Kept BY <1>2
<1>3. ASSUME NEW state, NEW r, S!CommitReceipt(state, r), ~S!At("idle"),
             papers[job.op].receipt.state # "materialized", state # "materialized"
      PROVE  \A n \in S!Operations : papers[n].receipt.state = "materialized" <=> papers'[n].receipt.state = "materialized"
  <2>1. PICK m \in S!Operations : m = job.op BY <1>0, <1>3
  <2>2. /\ \A n \in S!Operations \ {m} : papers'[n] = papers[n]
        /\ papers'[m].receipt.state = state
    BY <1>3, <2>1 DEF S!CommitReceipt, SecretInv, SecretTypes, Papers
  <2>3. QED BY <1>3, <2>1, <2>2
<1>4. CASE S!Proceed
  <2>1. CASE S!Preflight
    <3>1. papers[job.op].receipt.state # "materialized" /\ ~S!At("idle")
      BY <2>1 DEF S!Preflight, S!At, SecretInv, SecretWork, S!NoPapers
    <3>2. QED BY <1>2, <1>3, <2>1, <3>1 DEF S!Preflight
  <2>2. CASE S!Commit
    <3>1. papers[job.op].receipt.state # "materialized" /\ ~S!At("idle")
      BY <2>2 DEF S!Commit, S!At, SecretInv, SecretWork, Making
    <3>2. PICK m \in S!Operations : m = job.op BY <1>0, <3>1
    <3>3. \A n \in S!Operations \ {m} : papers'[n] = papers[n]
      BY <2>2, <3>2 DEF S!Commit, S!CommitReceipt, SecretInv, SecretTypes
    <3>4. \A l \in S!Labels : Lives(m, l) BY <2>2, <3>2, SecretCommit
    <3>5. QED BY <3>1, <3>2, <3>3, <3>4
  <2>3. CASE S!RollbackReceipt
    <3>1. papers[job.op].receipt.state # "materialized" /\ ~S!At("idle")
      BY <2>3 DEF S!RollbackReceipt, S!At, SecretInv, SecretWork
    <3>2. QED BY <1>3, <2>3, <3>1 DEF S!RollbackReceipt
  <2>4. CASE S!OpenJournal \/ S!NoteCreated \/ S!Prepare \/ S!EnterRollback \/ S!CloseJournal
    BY <1>1, <2>4 DEF S!OpenJournal, S!NoteCreated, S!Prepare, S!EnterRollback, S!CloseJournal
  <2>5. CASE S!ReadPapers \/ S!NoteDeleted
    BY <1>1, <1>2, <2>5 DEF S!ReadPapers, S!NoteDeleted
  <2>6. CASE S!SendCreate \/ S!LookCreated \/ S!Audit \/ S!DeleteNext \/ S!CheckUnused
    BY <1>2, <2>6 DEF S!SendCreate, S!LookCreated, S!Audit, S!DeleteNext, S!CheckUnused
  <2>7. CASE S!TeardownReceipt
    <3>1. Kept BY <2>7 DEF S!TeardownReceipt, SecretInv, SecretTypes, Papers
    <3>2. QED BY <3>1
  <2>8. QED BY <1>4, <2>1, <2>2, <2>3, <2>4, <2>5, <2>6, <2>7 DEF S!Proceed
<1>5. CASE S!Operator
  BY <1>2, <1>5 DEF S!Operator, S!StartMaterialize, S!StartRecovery, S!StartTeardown, S!Start
<1>6. CASE S!Disturb
  BY <1>2, <1>6 DEF S!Disturb, S!Raise, S!Kill, S!ServeLate, S!Interfere
<1>7. QED BY <1>4, <1>5, <1>6 DEF SecretStep

\* A Secret disappears only by the deletion that its operation licenses.
LEMMA SecretsGone ==
  ASSUME SecretInv, SecretStep, UNCHANGED runnerSide, NEW l \in S!Labels
  PROVE  /\ secrets[l] # Absent /\ secrets'[l] = Absent =>
              /\ ~S!At("idle") /\ secrets[l].nonce = job.op
              /\ papers[job.op].receipt.state = IF job.mode = "teardown" THEN "materialized" ELSE "empty"
              /\ job.mode = "teardown" => Unused
         /\ secrets[l] # Absent /\ secrets'[l] # Absent => secrets'[l].nonce = secrets[l].nonce
<1>0. UNCHANGED <<objects, tardy>> BY DEF runnerSide
<1>1. CASE UNCHANGED secrets BY <1>1
<1>2. CASE S!DeleteNext
  <2>1. ~S!At("idle") /\ (job.mode = "teardown" => Unused)
    BY <1>2 DEF S!DeleteNext, S!At, SecretInv, SecretWork, Removing
  <2>2. secrets[l] # Absent /\ secrets'[l] # Absent => secrets'[l] = secrets[l]
    BY <1>2 DEF S!DeleteNext, SecretInv, SecretTypes
  <2>3. QED BY <1>0, <1>2, <2>1, <2>2, SecretDeleteNext
<1>3. CASE (S!SendCreate \/ S!ServeLate \/ S!Interfere) /\ secrets' # secrets
  <2>1. PICK k, v : /\ secrets' = [secrets EXCEPT ![k] = v]
                    /\ \/ secrets[k] = Absent
                       \/ k \in S!Labels /\ secrets[k] # Absent /\ v = [secrets[k] EXCEPT !.version = 1]
    <3>1. CASE S!SendCreate BY <1>3, <3>1 DEF S!SendCreate
    <3>2. CASE S!ServeLate BY <1>3, <3>2 DEF S!ServeLate
    <3>3. CASE S!Interfere BY <3>3 DEF S!Interfere
    <3>4. QED BY <1>3, <3>1, <3>2, <3>3
  <2>2. secrets \in [S!Labels -> S!Identities \cup {Absent}]
    BY DEF SecretInv, SecretTypes
  <2>3. ASSUME secrets[k] # Absent, k \in S!Labels, v = [secrets[k] EXCEPT !.version = 1]
        PROVE  v # Absent /\ v.nonce = secrets[k].nonce
    <3>1. secrets[k] \in S!Identities BY <2>2, <2>3
    <3>2. v \in S!Identities /\ v.nonce = secrets[k].nonce
      BY <2>3, <3>1 DEF S!Identities
    <3>3. QED BY <3>2, SecretRecords
  <2>4. CASE l # k BY <2>1, <2>2, <2>4
  <2>5. CASE l = k BY <2>1, <2>2, <2>3, <2>5, SMTT(40)
  <2>6. QED BY <2>4, <2>5
<1>4. SecretStep => \/ UNCHANGED secrets \/ S!DeleteNext
                    \/ S!SendCreate \/ S!ServeLate \/ S!Interfere
  BY DEF SecretStep, S!Proceed, S!Operator, S!Disturb, S!cluster, S!Preflight, S!OpenJournal,
     S!LookCreated, S!NoteCreated, S!Prepare, S!Commit, S!Audit, S!ReadPapers, S!EnterRollback,
     S!NoteDeleted, S!CloseJournal, S!RollbackReceipt, S!CheckUnused, S!TeardownReceipt,
     S!Raise, S!Kill, S!StartMaterialize, S!StartRecovery, S!StartTeardown, S!Start
<1>5. QED BY <1>1, <1>2, <1>3, <1>4

-----
\* The two sides together.

\* A step of the Secret side takes no supply away unless no activation has an
\* object.
LEMMA SuppliesKept ==
  ASSUME SecretInv, SecretStep, UNCHANGED runnerSide
  PROVE  \/ \A s : Supplied(s) => Supplied(s)'
         \/ Unused /\ ~S!At("idle")
<1>1. SUFFICES ASSUME ~(Unused /\ ~S!At("idle")), NEW s, Supplied(s) PROVE Supplied(s)'
  OBVIOUS
<1>2. s \in S!Operations /\ papers[s].receipt.state = "materialized"
  BY <1>1 DEF Supplied
<1>3. papers'[s].receipt.state = "materialized" BY <1>2, SecretReceipts
<1>4. ASSUME NEW l \in S!Labels PROVE Lives(s, l)'
  <2>1. secrets[l] # Absent /\ secrets[l].nonce = s BY <1>1 DEF Supplied, Lives
  <2>2. CASE secrets'[l] = Absent BY <1>1, <1>2, <2>1, <2>2, SecretsGone
  <2>3. CASE secrets'[l] # Absent BY <2>1, <2>3, SecretsGone DEF Lives
  <2>4. QED BY <2>2, <2>3
<1>5. QED BY <1>2, <1>3, <1>4 DEF Supplied

\* What the Secret side does leaves the objects and what they rely on.
LEMMA RunnerUndisturbed ==
  ASSUME PlaneInv, SecretStep, UNCHANGED runnerSide
  PROVE  RunnerInv'
<1> USE DEF PlaneInv, RunnerInv
<1>1. UNCHANGED R!plane /\ UNCHANGED <<ledger, worker>> BY DEF runnerSide, R!plane
<1>2. RunnerTypes' /\ CreatedOnce' /\ Tidy'
  BY <1>1, RunnerStay DEF RunnerTypes, R!plane
<1>3. RunnerPapers'
  <2>1. CASE \A s : Supplied(s) => Supplied(s)'
    BY <1>1, <2>1, RunnerStay, LedgerLasts DEF RunnerPapers
  <2>2. CASE Unused
    <3>1. \A n \in R!Activations : ObjectsClear(n)'
      BY <1>1, <2>2, RunnerStay DEF Unused, ObjectsClear, Bears
    <3>2. QED BY <1>1, <3>1, RunnerStay, LedgerLasts DEF RunnerPapers
  <2>3. QED BY <2>1, <2>2, SuppliesKept
<1>4. RunnerWork'
  <2>1. SUFFICES ASSUME ~R!At("idle") PROVE RunnerWork' BY <1>1 DEF RunnerWork, R!At
  <2>2. S!At("idle") BY <2>1 DEF OneAtWork
  <2>3. \A s : Supplied(s) => Supplied(s)' BY <2>2, SuppliesKept
  <2>4. \A s \in S!Operations :
          papers[s].receipt.state = "materialized" => papers'[s].receipt.state = "materialized"
    BY SecretReceipts
  <2>5. Alone => Alone' BY <1>1, RunnerStay DEF Alone
  <2>6. Activating => Activating'
    BY <1>1, <2>3, <2>5, RunnerStay DEF Activating, Coming
  <2>7. Retreating => Retreating' BY <1>1, RunnerStay DEF Retreating
  <2>8. QED BY <1>1, <2>1, <2>3, <2>4, <2>5, <2>6, <2>7, RunnerStay DEF RunnerWork, R!At
<1>5. QED BY <1>2, <1>3, <1>4

\* While no runner process is at work, only requests, the reconciler and
\* others move its objects.
LEMMA WorldOfRunner ==
  ASSUME R!Proceed \/ R!Disturb, R!At("idle")
  PROVE  (R!ServeLate \/ R!Reconcile \/ R!Interfere) /\ UNCHANGED worker
<1>1. ~R!Proceed /\ ~R!Raise /\ ~R!Kill
  BY DEF R!Proceed, R!At, R!Preflight, R!OpenJournal, R!SendCreate, R!LookCreated, R!NoteCreated,
     R!RemoveNonce, R!NoteRemoved, R!Unsuspend, R!NoteWoken, R!WaitReady, R!Prepare, R!Commit,
     R!Audit, R!ReadPapers, R!EnterRollback, R!SuspendIfActive, R!DeleteNext, R!NoteDeleted,
     R!CloseJournal, R!RollbackReceipt, R!Raise, R!Kill
<1>2. R!ServeLate \/ R!Reconcile \/ R!Interfere BY <1>1 DEF R!Disturb
<1>3. QED BY <1>2 DEF R!ServeLate, R!Reconcile, R!Interfere

\* While no Secret process is at work none of its steps is taken.
LEMMA WorldOfSecrets ==
  ASSUME S!Proceed \/ S!Disturb, S!At("idle")
  PROVE  UNCHANGED job
<1>1. ~S!Proceed /\ ~S!Raise /\ ~S!Kill
  BY DEF S!Proceed, S!At, S!Preflight, S!OpenJournal, S!SendCreate, S!LookCreated, S!NoteCreated,
     S!Prepare, S!Commit, S!Audit, S!ReadPapers, S!EnterRollback, S!DeleteNext, S!NoteDeleted,
     S!CloseJournal, S!RollbackReceipt, S!CheckUnused, S!TeardownReceipt, S!Raise, S!Kill
<1>2. S!ServeLate \/ S!Interfere BY <1>1 DEF S!Disturb
<1>3. QED BY <1>2 DEF S!ServeLate, S!Interfere

\* Only tardy activations get an object while no process of the runner is at
\* work.
LEMMA UnusedKept ==
  ASSUME RunnerTypes, Unused, R!ServeLate \/ R!Reconcile \/ R!Interfere
  PROVE  Unused'
<1>1. CASE R!ServeLate
  <2>1. PICK r \in requests :
          /\ \/ /\ objects' = [objects EXCEPT ![r.name] = R!Fresh(r.op)]
                /\ tardy' = tardy \cup {r.op}
             \/ /\ objects[r.name] = R!Fresh(r.op)
                /\ objects' = [objects EXCEPT ![r.name].nonce = FALSE] /\ UNCHANGED tardy
             \/ /\ objects[r.name] = R!Plain(r.op)
                /\ objects' = [objects EXCEPT ![r.name].suspended = FALSE] /\ UNCHANGED tardy
             \/ UNCHANGED <<objects, tardy>>
    BY <1>1 DEF R!ServeLate
  <2>2. PICK m \in R!Activations, o \in R!Names : r.op = m /\ r.name = o
    BY DEF RunnerTypes
  <2>3. CASE objects' = [objects EXCEPT ![o] = R!Fresh(m)] /\ tardy' = tardy \cup {m}
    BY <2>2, <2>3, ObjectsAre DEF Unused, RunnerTypes
  <2>4. CASE UNCHANGED <<objects, tardy>> BY <2>4 DEF Unused
  <2>5. ASSUME NEW v \in R!Objects, v.uid = m, objects[o] # Absent, objects[o].uid = m,
               objects' = [objects EXCEPT ![o] = v], UNCHANGED tardy
        PROVE  Unused'
    BY <2>5 DEF Unused, RunnerTypes
  <2>6. CASE /\ objects[o] = R!Fresh(m) /\ UNCHANGED tardy
             /\ objects' = [objects EXCEPT ![o].nonce = FALSE]
    <3>1. objects[o] \in R!Objects /\ objects[o].uid = m /\ objects[o] # Absent
      BY <2>6, ObjectsAre
    <3>2. [objects[o] EXCEPT !.nonce = FALSE] \in R!Objects /\ [objects[o] EXCEPT !.nonce = FALSE].uid = m
      BY <3>1 DEF R!Objects
    <3>3. objects' = [objects EXCEPT ![o] = [objects[o] EXCEPT !.nonce = FALSE]]
      BY <2>6
    <3>4. QED BY <2>5, <2>6, <3>1, <3>2, <3>3
  <2>7. CASE /\ objects[o] = R!Plain(m) /\ UNCHANGED tardy
             /\ objects' = [objects EXCEPT ![o].suspended = FALSE]
    <3>0. m \in 0 .. MaxActivations + 1 BY Facts
    <3>1. objects[o] \in R!Objects /\ objects[o].uid = m /\ objects[o] # Absent
      BY <2>7, <3>0, ObjectsAre
    <3>2. [objects[o] EXCEPT !.suspended = FALSE] \in R!Objects /\ [objects[o] EXCEPT !.suspended = FALSE].uid = m
      BY <3>1 DEF R!Objects
    <3>3. objects' = [objects EXCEPT ![o] = [objects[o] EXCEPT !.suspended = FALSE]]
      BY <2>7
    <3>4. QED BY <2>5, <2>7, <3>1, <3>2, <3>3
  <2>8. QED BY <2>1, <2>2, <2>3, <2>4, <2>6, <2>7
<1>2. ASSUME NEW o \in R!Names, NEW u \in {R!Rival, R!Flux}, UNCHANGED tardy,
             objects' = [objects EXCEPT ![o] = R!Plain(u)]
      PROVE  Unused'
  <2>1. u \in 0 .. MaxActivations + 1 /\ u \notin R!Activations BY Facts
  <2>2. /\ \A k \in R!Names \ {o} : objects'[k] = objects[k]
        /\ objects'[o].uid = u
    BY <1>2, <2>1, ObjectsAre DEF RunnerTypes
  <2>3. QED BY <1>2, <2>1, <2>2 DEF Unused
<1>3. CASE R!Reconcile
  <2>1. CASE UNCHANGED objects BY <1>3, <2>1 DEF R!Reconcile, Unused
  <2>2. CASE \E o \in R!Range(Workloads) : objects' = [objects EXCEPT ![o] = R!Plain(R!Flux)]
    BY <1>2, <1>3, <2>2, RunnerOrders DEF R!Reconcile
  <2>3. QED BY <1>3, <2>1, <2>2 DEF R!Reconcile
<1>4. CASE R!Interfere BY <1>2, <1>4 DEF R!Interfere
<1>5. QED BY <1>1, <1>3, <1>4

\* The runner takes nothing from what is said of the Secrets.
LEMMA SecretsUndisturbed ==
  ASSUME PlaneInv, R!Proceed \/ (R!Operator /\ S!At("idle")) \/ R!Disturb, UNCHANGED secretSide
  PROVE  SecretInv'
<1> USE DEF PlaneInv, SecretInv
<1>1. UNCHANGED S!cluster /\ UNCHANGED <<papers, job>> BY DEF secretSide, S!cluster
<1>2. SecretTypes' /\ ServedOnce' BY <1>1, SecretsStay DEF SecretTypes, S!cluster
<1>3. SecretPapers' BY <1>1, SecretsStay, PaperLasts DEF SecretPapers
<1>4. SecretWork'
  <2>1. SUFFICES ASSUME ~S!At("idle") PROVE SecretWork' BY <1>1 DEF SecretWork, S!At
  <2>2. R!At("idle") /\ (R!Proceed \/ R!Disturb) BY <2>1 DEF OneAtWork
  <2>3. Unused => Unused' BY <2>2, WorldOfRunner, UnusedKept DEF RunnerInv
  <2>4. late' = late BY <1>1 DEF S!cluster
  <2>5. Making => Making' BY <1>1, SecretsStay DEF Making, Ahead
  <2>6. Removing => Removing' BY <1>1, <2>3, <2>4, SecretsStay DEF Removing
  <2>7. QED BY <1>1, <2>1, <2>5, <2>6, SecretsStay DEF SecretWork, S!At
<1>5. QED BY <1>2, <1>3, <1>4

\* Every step keeps the invariant.
LEMMA PlaneStep ==
  ASSUME PlaneInv, PlaneNext
  PROVE  PlaneInv'
<1> USE DEF PlaneInv
<1>1. CASE OfSecrets
  <2>1. /\ S!Proceed \/ (S!Operator /\ R!At("idle")) \/ S!Disturb
        /\ SecretStep /\ UNCHANGED runnerSide
    BY <1>1 DEF OfSecrets, SecretStep
  <2>2. SecretInv' /\ RunnerInv' BY <2>1, SecretStepKeeps, RunnerUndisturbed
  <2>3. OneAtWork'
    <3>1. worker' = worker BY <2>1 DEF runnerSide
    <3>2. CASE R!At("idle") BY <3>1, <3>2 DEF OneAtWork, R!At
    <3>3. CASE ~R!At("idle")
      <4>1. S!At("idle") BY <3>3 DEF OneAtWork
      <4>2. UNCHANGED job BY <2>1, <3>3, <4>1, WorldOfSecrets
      <4>3. QED BY <4>1, <4>2 DEF OneAtWork, S!At
    <3>4. QED BY <3>2, <3>3
  <2>4. QED BY <2>2, <2>3
<1>2. CASE OfRunner
  <2>1. /\ R!Proceed \/ (R!Operator /\ S!At("idle")) \/ R!Disturb
        /\ RunnerStep /\ UNCHANGED secretSide
    BY <1>2 DEF OfRunner, RunnerStep
  <2>2. SecretInv' /\ RunnerInv' BY <2>1, RunnerStepKeeps, SecretsUndisturbed
  <2>3. OneAtWork'
    <3>1. job' = job BY <2>1 DEF secretSide
    <3>2. CASE S!At("idle") BY <3>1, <3>2 DEF OneAtWork, S!At
    <3>3. CASE ~S!At("idle")
      <4>1. R!At("idle") BY <3>3 DEF OneAtWork
      <4>2. UNCHANGED worker BY <2>1, <3>3, <4>1, WorldOfRunner
      <4>3. QED BY <4>1, <4>2 DEF OneAtWork, R!At
    <3>4. QED BY <3>2, <3>3
  <2>4. QED BY <2>2, <2>3
<1>3. QED BY <1>1, <1>2 DEF PlaneNext

-----
\* What follows.

\* The invariant holds at first.
LEMMA PlaneStart ==
  ASSUME PlaneInit
  PROVE  PlaneInv
<1> USE DEF PlaneInit, S!Init, R!Init
<1>1. /\ \A n \in S!Operations, l \in S!Labels : ~Lives(n, l) /\ ~Travels(n, l)
      /\ \A n \in R!Activations, o \in R!Names : ~Bears(n, o) /\ ~Asked(n, o) /\ ~Awaits(n, o)
  BY DEF Lives, Travels, Bears, Asked, Awaits
<1>2. /\ S!NoPapers \in Papers /\ S!Idle.pc = "idle"
      /\ S!Idle \in [pc : SecretSteps, mode : {"none", "materialize", "recover", "teardown"},
                     op : 0 .. MaxOperations, records : S!Records, todo : Seq(S!Labels)]
  BY Empty, Facts DEF S!NoPapers, S!NoJournal, Papers, S!Idle, SecretSteps
<1>3. R!NoLedger \in Ledgers /\ R!Rest \in Workers /\ R!Rest.pc = "idle"
  BY Empty, Facts DEF R!NoLedger, R!NoJournal, Ledgers, R!Rest, Workers, RunnerSteps
<1>4. SecretTypes /\ RunnerTypes BY <1>2, <1>3 DEF SecretTypes, RunnerTypes
<1>5. SecretPapers
  BY <1>1, Empty DEF SecretPapers, SecretPaper, Known, S!NoPapers, S!NoJournal
<1>6. RunnerPapers
  BY <1>1, Empty DEF RunnerPapers, RunnerPaper, Marked, ObjectsClear, R!NoLedger, R!NoJournal
<1>7. ServedOnce /\ CreatedOnce BY <1>1 DEF ServedOnce, CreatedOnce
<1>8. Tidy BY RunnerOrders DEF Tidy
<1>9. SecretWork /\ RunnerWork /\ OneAtWork
  BY <1>2, <1>3 DEF SecretWork, RunnerWork, OneAtWork, S!At, R!At
<1>10. QED BY <1>4, <1>5, <1>6, <1>7, <1>8, <1>9 DEF PlaneInv, SecretInv, RunnerInv

\* A stuttering step keeps the invariant.
LEMMA PlaneRests ==
  ASSUME PlaneInv, UNCHANGED planeVars
  PROVE  PlaneInv'
<1>1. /\ UNCHANGED S!cluster /\ UNCHANGED R!plane /\ UNCHANGED secretSide
      /\ UNCHANGED <<papers, job, ledger, worker>>
  BY DEF planeVars, secretSide, runnerSide, S!cluster, R!plane
<1> USE DEF PlaneInv
<1>2. UNCHANGED objects /\ UNCHANGED tardy /\ late' = late
  BY <1>1, RunnerStay DEF S!cluster
<1>3. Unused' <=> Unused BY <1>2 DEF Unused
<1>4. Making => Making' BY <1>1, SecretsStay DEF Making, Ahead
<1>5. Removing => Removing' BY <1>1, <1>2, <1>3, SecretsStay DEF Removing
<1>6. SecretWork' BY <1>1, <1>4, <1>5, SecretsStay DEF SecretInv, SecretWork, S!At
<1>7. SecretInv'
  <2>1. job' \in [pc : SecretSteps, mode : {"none", "materialize", "recover", "teardown"},
                  op : 0 .. MaxOperations, records : S!Records, todo : Seq(S!Labels)]
    BY <1>1 DEF SecretInv, SecretTypes
  <2>2. QED BY <1>1, <1>6, <2>1, SecretsRest
<1>8. Alone => Alone' BY <1>1, <1>2 DEF Alone
<1>9. Activating => Activating'
  BY <1>1, <1>8, RunnerStay, SuppliesStay DEF Activating, Coming
<1>10. Retreating => Retreating' BY <1>1, RunnerStay DEF Retreating
<1>11. RunnerWork'
  BY <1>1, <1>8, <1>9, <1>10, RunnerStay, SuppliesStay DEF RunnerInv, RunnerWork, R!At
<1>12. RunnerInv'
  <2>1. worker' \in Workers BY <1>1 DEF RunnerInv, RunnerTypes
  <2>2. QED BY <1>1, <1>11, <2>1, RunnerRest
<1>13. QED BY <1>1, <1>7, <1>12 DEF OneAtWork, S!At, R!At

\* In every run the papers of both programs are true, a process at work is
\* licensed to do what it does next, and the two programs are never at work
\* together.
THEOREM PlaneInvariant == PlaneSpec => []PlaneInv
<1>1. PlaneInit => PlaneInv BY PlaneStart
<1>2. PlaneInv /\ [PlaneNext]_planeVars => PlaneInv' BY PlaneStep, PlaneRests
<1>3. QED BY <1>1, <1>2, PTL DEF PlaneSpec

\* What is in the cluster is named by papers, in a state of the invariant.
LEMMA NamedByInvariant ==
  ASSUME PlaneInv
  PROVE  WhatIsLeftIsNamed
<1> USE DEF PlaneInv, SecretInv, RunnerInv
<1>1. ASSUME NEW l \in S!Labels, secrets[l] # Absent, secrets[l].nonce # S!Rival
      PROVE  LET n == secrets[l].nonce  paper == papers[n] IN
             \/ n \in late
             \/ paper.journal.status = "in-progress" /\ paper.receipt.state \in {"empty", "partial"}
             \/ paper.receipt.state = "materialized" /\ ~paper.torn
  <2>1. PICK n \in S!Operations : n = secrets[l].nonce
    <3>1. secrets[l] \in S!Identities BY <1>1 DEF SecretTypes
    <3>2. secrets[l].nonce \in 0 .. MaxOperations /\ secrets[l].nonce # 0
      BY <1>1, <3>1, SecretRecords, Facts
    <3>3. secrets[l].nonce \in S!Operations BY <3>2, Facts
    <3>4. QED BY <3>3
  <2>2. Lives(n, l) /\ SecretPaper(n) /\ papers[n] \in Papers
    BY <1>1, <2>1 DEF Lives, SecretPapers, SecretTypes
  <2>3. SecretsClear(n) => n \in late BY <2>2 DEF SecretsClear
  <2>4. QED BY <2>1, <2>2, <2>3 DEF SecretPaper, Papers, S!Terminal
<1>2. ASSUME NEW o \in R!Names, objects[o] # Absent, objects[o].uid # R!Rival
      PROVE  LET n == objects[o].uid IN
             IF n = R!Flux THEN tardy # {}
             ELSE \/ n \in tardy
                  \/ ledger[n].journal.status = "in-progress" /\ ledger[n].receipt \in {"empty", "partial"}
                  \/ ledger[n].receipt = "activated"
  <2>1. CASE objects[o].uid = R!Flux BY <1>2, <2>1 DEF Tidy
  <2>2. CASE objects[o].uid # R!Flux
    <3>1. PICK n \in R!Activations : n = objects[o].uid
      <4>1. objects[o] \in R!Objects BY <1>2 DEF RunnerTypes
      <4>2. objects[o].uid \in 0 .. MaxActivations + 1 /\ objects[o].uid # 0
            /\ objects[o].uid # MaxActivations + 1
        BY <1>2, <2>2, <4>1, ObjectsAre, Facts
      <4>3. objects[o].uid \in R!Activations BY <4>2, Facts
      <4>4. QED BY <4>3
    <3>2. Bears(n, o) /\ RunnerPaper(n) /\ ledger[n] \in Ledgers
      BY <1>2, <3>1 DEF Bears, RunnerPapers, RunnerTypes
    <3>3. ObjectsClear(n) => n \in tardy BY <3>2 DEF ObjectsClear
    <3>4. QED BY <2>2, <3>1, <3>2, <3>3 DEF RunnerPaper, Ledgers, R!Terminal
  <2>3. QED BY <2>1, <2>2
<1>3. QED BY <1>1, <1>2 DEF WhatIsLeftIsNamed

\* Journals suffice for a recovery, in a state of the invariant.
LEMMA RecoverableByInvariant ==
  ASSUME PlaneInv
  PROVE  Recoverable
<1> USE DEF PlaneInv, SecretInv, RunnerInv
<1>1. ASSUME NEW n \in S!Operations, NEW l \in DOMAIN papers[n].journal.records,
             secrets[l] # Absent => secrets[l] = S!Record(n)
      PROVE  secrets[l] \in {Absent, papers[n].journal.records[l]}
  <2>1. /\ papers[n].journal.records \in S!Records
        /\ Known(n, papers[n].journal.records)
    BY DEF SecretTypes, Papers, SecretPapers, SecretPaper
  <2>2. CASE secrets[l] # Absent
    <3>1. papers[n].journal.records[l] \in S!Identities BY <2>1, SecretRecords
    <3>2. secrets[l].nonce = n /\ secrets[l].version = 0 BY <1>1, <2>2 DEF S!Record
    <3>3. papers[n].journal.records[l].nonce = n /\ papers[n].journal.records[l].version = 0
      BY <2>1, <2>2, <3>2 DEF Known, Lives
    <3>4. papers[n].journal.records[l] = S!Record(n)
      BY <3>1, <3>3 DEF S!Identities, S!Record
    <3>5. QED BY <1>1, <2>2, <3>4
  <2>3. QED BY <2>2
<1>2. ASSUME NEW n \in R!Activations, NEW o \in R!Names, objects[o] # Absent, objects[o].uid = n
      PROVE  \/ /\ o \in DOMAIN ledger[n].journal.records
                /\ ledger[n].journal.records[o] => ~objects[o].nonce
             \/ objects[o].nonce
  BY <1>2 DEF RunnerPapers, RunnerPaper, Marked, Bears
<1>3. ASSUME NEW n \in S!Operations PROVE DOMAIN papers[n].journal.records \subseteq S!Labels
  BY SecretRecords DEF SecretTypes, Papers
<1>4. QED BY <1>1, <1>2, <1>3 DEF Recoverable

\* Through crashes, failing calls and writes, and requests that are lost or served
\* before the program looks for them, the Secrets and objects of an operation are
\* named where a recovery looks; of an operation with a creation that was served
\* after that look (late, tardy) this is not claimed, and can be false.  Of every
\* operation in progress with an empty receipt the journal knows the objects that
\* live, or they bear its nonce.
THEOREM PlaneLeftIsRecoverable == PlaneSpec => []LeftIsRecoverable
<1>1. PlaneInv => LeftIsRecoverable
  BY NamedByInvariant, RecoverableByInvariant DEF LeftIsRecoverable
<1>2. QED BY <1>1, PlaneInvariant, PTL

\* No rollback, recovery or teardown takes a Secret from under a workload.
THEOREM PlaneSecretsUnderWorkloads == PlaneSpec => []SecretsUnderWorkloads
<1>1. PlaneInv => SecretsUnderWorkloads
  <2>1. SUFFICES ASSUME PlaneInv, NEW o \in R!Names, objects[o] # Absent,
                        objects[o].uid \in R!Activations \ tardy
                 PROVE  \A l \in S!Labels : /\ secrets[l] # Absent
                                            /\ secrets[l].nonce = ledger[objects[o].uid].journal.source
    BY DEF SecretsUnderWorkloads
  <2>2. PICK n \in R!Activations : n = objects[o].uid /\ n \notin tardy BY <2>1
  <2>3. ~ObjectsClear(n) BY <2>1, <2>2 DEF ObjectsClear, Bears
  <2>4. Supplied(ledger[n].journal.source)
    <3>1. RunnerPapers BY <2>1 DEF PlaneInv, RunnerInv
    <3>2. QED BY <2>3, <3>1 DEF RunnerPapers, RunnerPaper
  <2>5. QED BY <2>2, <2>4 DEF Supplied, Lives
<1>2. QED BY <1>1, PlaneInvariant, PTL

\* Only the deletion takes an object.
LEMMA ObjectsGone ==
  ASSUME RunnerInv, RunnerStep, NEW o \in R!Names, objects[o] # Absent, objects'[o] = Absent
  PROVE  R!DeleteNext
<1>0. objects \in [R!Names -> R!Objects \cup {Absent}] /\ objects[o] \in R!Objects
  BY DEF RunnerInv, RunnerTypes
<1>1. ASSUME NEW k \in R!Names, NEW v \in R!Objects, objects' = [objects EXCEPT ![k] = v]
      PROVE  FALSE
  BY <1>0, <1>1, ObjectsAre
<1>2. ASSUME NEW k \in R!Names, objects[k] \in R!Objects, NEW b \in BOOLEAN,
             \/ objects' = [objects EXCEPT ![k].nonce = b]
             \/ objects' = [objects EXCEPT ![k].suspended = b]
      PROVE  FALSE
  <2>1. /\ [objects[k] EXCEPT !.nonce = b] \in R!Objects
        /\ [objects[k] EXCEPT !.suspended = b] \in R!Objects
    BY <1>2 DEF R!Objects
  <2>2. \/ objects' = [objects EXCEPT ![k] = [objects[k] EXCEPT !.nonce = b]]
        \/ objects' = [objects EXCEPT ![k] = [objects[k] EXCEPT !.suspended = b]]
    BY <1>2
  <2>3. QED BY <1>1, <2>1, <2>2
<1>3. ~UNCHANGED objects OBVIOUS
<1>4. /\ \A n \in R!Activations : R!Fresh(n) \in R!Objects /\ R!Plain(n) \in R!Objects
      /\ R!Plain(R!Rival) \in R!Objects /\ R!Plain(R!Flux) \in R!Objects
  <2>1. \A n \in R!Activations : n \in 0 .. MaxActivations + 1 BY Facts
  <2>2. 0 \in 0 .. MaxActivations + 1 /\ MaxActivations + 1 \in 0 .. MaxActivations + 1
    BY Facts
  <2>3. QED BY <2>1, <2>2, ObjectsAre, Facts
<1>5. ~R!At("idle") => worker.op \in R!Activations BY DEF RunnerInv, RunnerWork
<1>6. ASSUME R!SendCreate PROVE FALSE
  <2>1. worker.op \in R!Activations /\ InOrder(worker.todo, R!CreateOrder)
    BY <1>5, <1>6 DEF R!SendCreate, R!At, RunnerInv, RunnerWork, Activating, R!Transacting
  <2>2. Head(worker.todo) \in R!Names BY <2>1, RunnerOrder, Onward
  <2>3. objects' = [objects EXCEPT ![Head(worker.todo)] = R!Fresh(worker.op)]
    BY <1>3, <1>6 DEF R!SendCreate
  <2>4. QED BY <1>1, <1>4, <2>1, <2>2, <2>3
<1>7. ASSUME R!RemoveNonce PROVE FALSE
  <2>1. worker.op \in R!Activations /\ InOrder(worker.todo, R!CreateOrder)
    BY <1>5, <1>7 DEF R!RemoveNonce, R!At, RunnerInv, RunnerWork, Activating, R!Transacting
  <2>2. Head(worker.todo) \in R!Names BY <2>1, RunnerOrder, Onward
  <2>3. /\ objects[Head(worker.todo)] = R!Fresh(worker.op)
        /\ objects' = [objects EXCEPT ![Head(worker.todo)].nonce = FALSE]
    BY <1>3, <1>7 DEF R!RemoveNonce
  <2>4. QED BY <1>2, <1>4, <2>1, <2>2, <2>3
<1>8. ASSUME R!Unsuspend PROVE FALSE
  <2>1. worker.op \in R!Activations /\ Kustomization \in R!Names
    BY <1>5, <1>8, RunnerOrders DEF R!Unsuspend, R!At
  <2>2. /\ objects[Kustomization] = R!Plain(worker.op)
        /\ objects' = [objects EXCEPT ![Kustomization].suspended = FALSE]
    BY <1>3, <1>8 DEF R!Unsuspend
  <2>3. QED BY <1>2, <1>4, <2>1, <2>2
<1>9. ASSUME R!SuspendIfActive PROVE FALSE
  <2>1. /\ Kustomization \in R!Names /\ objects[Kustomization] # Absent
        /\ objects' = [objects EXCEPT ![Kustomization].suspended = TRUE]
    BY <1>3, <1>9, RunnerOrders DEF R!SuspendIfActive, R!Active, R!Live
  <2>2. QED BY <1>0, <1>2, <2>1
<1>10. ASSUME R!ServeLate PROVE FALSE
  <2>1. PICK r \in requests :
          \/ objects' = [objects EXCEPT ![r.name] = R!Fresh(r.op)]
          \/ /\ objects[r.name] = R!Fresh(r.op)
             /\ objects' = [objects EXCEPT ![r.name].nonce = FALSE]
          \/ /\ objects[r.name] = R!Plain(r.op)
             /\ objects' = [objects EXCEPT ![r.name].suspended = FALSE]
    BY <1>3, <1>10 DEF R!ServeLate
  <2>2. r.name \in R!Names /\ r.op \in R!Activations BY DEF RunnerInv, RunnerTypes
  <2>3. QED BY <1>1, <1>2, <1>4, <2>1, <2>2
<1>11. ASSUME R!Reconcile \/ R!Interfere PROVE FALSE
  <2>1. PICK k \in R!Names, u \in {R!Rival, R!Flux} : objects' = [objects EXCEPT ![k] = R!Plain(u)]
    BY <1>3, <1>11, RunnerOrders DEF R!Reconcile, R!Interfere
  <2>2. QED BY <1>1, <1>4, <2>1
<1>12. ~R!DeleteNext => \/ UNCHANGED objects \/ R!SendCreate \/ R!RemoveNonce \/ R!Unsuspend
                        \/ R!SuspendIfActive \/ R!ServeLate \/ R!Reconcile \/ R!Interfere
  BY DEF RunnerStep, R!Proceed, R!Operator, R!Disturb, R!plane, R!Preflight, R!OpenJournal,
     R!LookCreated, R!NoteCreated, R!NoteRemoved, R!NoteWoken, R!WaitReady, R!Prepare, R!Commit,
     R!Audit, R!ReadPapers, R!EnterRollback, R!NoteDeleted, R!CloseJournal, R!RollbackReceipt,
     R!Raise, R!Kill, R!StartActivation, R!StartRecovery, R!Start
<1>13. QED BY <1>3, <1>6, <1>7, <1>8, <1>9, <1>10, <1>11, <1>12

\* Only the commit makes a receipt a success.
LEMMA LedgerReceipts ==
  ASSUME RunnerInv, RunnerStep, NEW n \in R!Activations,
         ledger[n].receipt # "activated", ledger'[n].receipt = "activated"
  PROVE  R!Commit
<1>0. ledger \in [R!Activations -> Ledgers] BY DEF RunnerInv, RunnerTypes
<1>1. ASSUME NEW status, NEW r, R!WriteJournal(status, r) PROVE FALSE
  BY <1>0, <1>1 DEF R!WriteJournal, Ledgers
<1>2. ~UNCHANGED ledger OBVIOUS
<1>3. ASSUME NEW state, state # "activated", R!CommitReceipt(state) PROVE FALSE
  BY <1>0, <1>3 DEF R!CommitReceipt, Ledgers
<1>4. ASSUME R!Preflight \/ R!RollbackReceipt PROVE FALSE
  BY <1>2, <1>3, <1>4 DEF R!Preflight, R!RollbackReceipt
<1>5. ASSUME \/ R!OpenJournal \/ R!NoteCreated \/ R!NoteRemoved \/ R!NoteWoken \/ R!Prepare
             \/ R!ReadPapers \/ R!EnterRollback \/ R!NoteDeleted \/ R!CloseJournal
      PROVE FALSE
  BY <1>1, <1>2, <1>5, SMTT(40) DEF R!OpenJournal, R!NoteCreated, R!NoteRemoved, R!NoteWoken, R!Prepare,
     R!ReadPapers, R!EnterRollback, R!NoteDeleted, R!CloseJournal
<1>6. ~R!Commit => \/ UNCHANGED ledger \/ R!Preflight \/ R!RollbackReceipt
                   \/ R!OpenJournal \/ R!NoteCreated \/ R!NoteRemoved \/ R!NoteWoken \/ R!Prepare
                   \/ R!ReadPapers \/ R!EnterRollback \/ R!NoteDeleted \/ R!CloseJournal
  BY DEF RunnerStep, R!Proceed, R!Operator, R!Disturb, R!SendCreate, R!LookCreated, R!RemoveNonce,
     R!Unsuspend, R!WaitReady, R!Audit, R!SuspendIfActive, R!DeleteNext, R!Raise, R!Kill,
     R!ServeLate, R!Reconcile, R!Interfere, R!StartActivation, R!StartRecovery, R!Start
<1>7. QED BY <1>2, <1>4, <1>5, <1>6

\* Nothing disappears but by the program that runs for the operation that
\* created it, and nothing that a committed receipt promises but by a
\* teardown.
THEOREM PlaneDeletesAreLicensed == PlaneSpec => DeletesAreLicensed
<1> DEFINE Licensed ==
      /\ \A l \in S!Labels : (secrets[l] # Absent /\ secrets'[l] = Absent) =>
          LET n == secrets[l].nonce IN
          /\ n # S!Rival /\ n = job.op
          /\ papers[n].receipt.state = IF job.mode = "teardown" THEN "materialized" ELSE "empty"
      /\ \A o \in R!Names : (objects[o] # Absent /\ objects'[o] = Absent) =>
          LET n == objects[o].uid IN
          n \in R!Activations /\ n = worker.op /\ ledger[n].receipt = "empty"
<1>1. ASSUME PlaneInv, [PlaneNext]_planeVars PROVE [Licensed]_planeVars
  <2>0. SecretInv /\ RunnerInv BY <1>1 DEF PlaneInv
  <2>1. CASE OfSecrets
    <3>1. SecretStep /\ UNCHANGED runnerSide /\ UNCHANGED objects
      BY <2>1 DEF OfSecrets, SecretStep, runnerSide
    <3>2. ~S!At("idle") => job.op \in S!Operations /\ job.op # S!Rival
      BY <2>0, Facts DEF SecretInv, SecretWork
    <3>3. ASSUME NEW l \in S!Labels, secrets[l] # Absent, secrets'[l] = Absent
          PROVE  /\ job.op # S!Rival /\ secrets[l].nonce = job.op
                 /\ papers[job.op].receipt.state = IF job.mode = "teardown" THEN "materialized" ELSE "empty"
      BY <2>0, <3>1, <3>2, <3>3, SecretsGone
    <3>4. QED BY <3>1, <3>3
  <2>2. CASE OfRunner
    <3>1. RunnerStep /\ UNCHANGED secretSide /\ UNCHANGED secrets
      BY <2>2 DEF OfRunner, RunnerStep, secretSide
    <3>2. ASSUME NEW o \in R!Names, objects[o] # Absent, objects'[o] = Absent
          PROVE  /\ objects[o].uid \in R!Activations /\ objects[o].uid = worker.op
                 /\ ledger[worker.op].receipt = "empty"
      BY <2>0, <3>1, <3>2, ObjectsGone, RunnerDeleteNext
    <3>3. QED BY <3>1, <3>2
  <2>3. QED BY <1>1, <2>1, <2>2 DEF PlaneNext
<1>2. QED BY <1>1, PlaneInvariant, PTL DEF PlaneSpec, DeletesAreLicensed

\* A receipt that says materialized or activated is true when it is
\* committed.
THEOREM PlaneReceiptsAreTrue == PlaneSpec => ReceiptsAreTrue
<1> DEFINE True ==
      /\ \A n \in S!Operations :
          papers[n].receipt.state # "materialized" /\ papers'[n].receipt.state = "materialized" =>
            \A l \in S!Labels : secrets[l] # Absent /\ secrets[l].nonce = n
      /\ \A n \in R!Activations :
          ledger[n].receipt # "activated" /\ ledger'[n].receipt = "activated" =>
            /\ \A o \in R!Names : objects[o] # Absent /\ objects[o].uid = n /\ ~objects[o].nonce
            /\ R!Active
            /\ \A l \in S!Labels : /\ secrets[l] # Absent
                                   /\ secrets[l].nonce = ledger[n].journal.source
<1>1. ASSUME PlaneInv, [PlaneNext]_planeVars PROVE [True]_planeVars
  <2>0. SecretInv /\ RunnerInv BY <1>1 DEF PlaneInv
  <2>1. CASE OfSecrets
    <3>1. SecretStep /\ UNCHANGED runnerSide /\ UNCHANGED ledger
      BY <2>1 DEF OfSecrets, SecretStep, runnerSide
    <3>2. QED BY <2>0, <3>1, SecretReceipts DEF Lives
  <2>2. CASE OfRunner
    <3>1. RunnerStep /\ UNCHANGED secretSide /\ UNCHANGED papers
      BY <2>2 DEF OfRunner, RunnerStep, secretSide
    <3>2. ASSUME NEW n \in R!Activations, ledger[n].receipt # "activated", ledger'[n].receipt = "activated"
          PROVE  /\ \A o \in R!Names : Bears(n, o) /\ ~objects[o].nonce
                 /\ R!Active /\ Supplied(ledger[n].journal.source)
      BY <2>0, <3>1, <3>2, LedgerReceipts, RunnerCommit
    <3>3. QED BY <3>1, <3>2 DEF Bears, Supplied, Lives
  <2>3. QED BY <1>1, <2>1, <2>2 DEF PlaneNext
<1>2. QED BY <1>1, PlaneInvariant, PTL DEF PlaneSpec, ReceiptsAreTrue

\* The bounds of the model: how many processes start, how many faults happen.
Bounded == launches \in 0 .. MaxLaunches /\ faults \in 0 .. MaxFaults

\* A step spends at most one launch or one fault, and none beyond the bound.
LEMMA StepsAreBounded ==
  ASSUME Bounded, [PlaneNext]_planeVars
  PROVE  Bounded'
<1>1. /\ launches < MaxLaunches /\ launches' = launches + 1 => launches' \in 0 .. MaxLaunches
      /\ S!Blame => faults' \in 0 .. MaxFaults
      /\ R!Blame => faults' \in 0 .. MaxFaults
  BY Facts DEF Bounded, S!Blame, R!Blame
<1>2. CASE S!Proceed \/ S!Disturb
  BY <1>1, <1>2 DEF Bounded, S!Proceed, S!Disturb, S!Preflight, S!OpenJournal, S!SendCreate,
     S!LookCreated, S!NoteCreated, S!Prepare, S!Commit, S!Audit, S!ReadPapers, S!EnterRollback,
     S!DeleteNext, S!NoteDeleted, S!CloseJournal, S!RollbackReceipt, S!CheckUnused,
     S!TeardownReceipt, S!Raise, S!Kill, S!ServeLate, S!Interfere
<1>3. CASE S!Operator
  BY <1>1, <1>3 DEF Bounded, S!Operator, S!Start, S!StartMaterialize, S!StartRecovery, S!StartTeardown
<1>4. CASE R!Proceed \/ R!Disturb
  BY <1>1, <1>4 DEF Bounded, R!Proceed, R!Disturb, R!Preflight, R!OpenJournal, R!SendCreate,
     R!LookCreated, R!NoteCreated, R!RemoveNonce, R!NoteRemoved, R!Unsuspend, R!NoteWoken,
     R!WaitReady, R!Prepare, R!Commit, R!Audit, R!ReadPapers, R!EnterRollback, R!SuspendIfActive,
     R!DeleteNext, R!NoteDeleted, R!CloseJournal, R!RollbackReceipt, R!Raise, R!Kill, R!ServeLate,
     R!Reconcile, R!Interfere
<1>5. CASE R!Operator
  BY <1>1, <1>5 DEF Bounded, R!Operator, R!Start, R!StartActivation, R!StartRecovery
<1>6. CASE UNCHANGED planeVars BY <1>6 DEF Bounded, planeVars
<1>7. QED BY <1>2, <1>3, <1>4, <1>5, <1>6 DEF PlaneNext, OfSecrets, OfRunner

\* The tracer's data plane is type-correct for any number of operations,
\* activations, launches and faults.
THEOREM PlaneTyped == PlaneSpec => []TypeOK
<1>1. PlaneInit => Bounded BY Facts DEF PlaneInit, S!Init, R!Init, Bounded
<1>2. PlaneInv /\ Bounded => TypeOK
  <2>1. SUFFICES ASSUME SecretTypes, RunnerTypes, Bounded PROVE TypeOK
    BY DEF PlaneInv, SecretInv, RunnerInv
  <2>2. ASSUME NEW n \in R!Activations
        PROVE  /\ ledger[n].receipt \in R!Terminal \cup {"none", "empty", "partial"}
               /\ ledger[n].journal.source \in 0 .. MaxOperations
               /\ \A o \in DOMAIN ledger[n].journal.records : ledger[n].journal.records[o] \in BOOLEAN
    BY <2>1, <2>2, MarksAre DEF RunnerTypes, Ledgers
  <2>3. QED BY <2>1, <2>2 DEF SecretTypes, Papers, RunnerTypes, Bounded, TypeOK
<1>3. QED BY <1>1, <1>2, StepsAreBounded, PlaneInvariant, PTL DEF PlaneSpec
=============================================================================
