-------------------------- MODULE ParticipantTables --------------------------
\* The tables behind the participant gateway and the calls it makes.  A
\* call is one remote procedure with its arguments; a row is what the
\* first call of its kind leaves.  Checksums, texts and signatures are
\* model values: two calls agree in a field or they do not.
\*
\* A call and a row have
\*   op     the procedure;            w    the wallet
\*   key    what it is about: a post, a discussion root, a challenge, an
\*          eligibility receipt, a suggestion that is adopted
\*   req    the request id; a post is known by the request that made it
\*   who    the Nostr key of the author or of the adopter
\*   src    what it builds on: a parent post, a suggestion, a challenge, a
\*          receipt
\*   event  everything else that the code compares: the content, the event,
\*          the session, the evidence
\* and a row also its table, its state and, where writes are rationed, the
\* time at which its transaction began.
EXTENDS Integers, FiniteSets

CONSTANTS
  None,
  Wallets,
  Limits    \* for "post" and "comment": the pairs <<window, most writes in it>>

ASSUME LimitsOK == \A kind \in {"post", "comment"} : Limits[kind] \subseteq (Nat \ {0}) \X Nat

\* The table a procedure works on.
TableOf ==
  [post |-> "audit", comment |-> "audit", mirror |-> "mirror", mirrored |-> "mirror",
   bind |-> "binding", look |-> "binding", promote |-> "promotion", promoted |-> "promotion",
   trace |-> "promotion", suggest |-> "suggestion", suggested |-> "suggestion",
   challenge |-> "challenge", consume |-> "challenge", store |-> "receipt",
   adopt |-> "adoption", resolve |-> "adoption", testChallenge |-> "testChallenge",
   testConsume |-> "testChallenge", testAdopt |-> "testAdoption", testResolve |-> "testAdoption"]

Procedures == DOMAIN TableOf

Completing == {"mirrored", "promoted", "suggested"}
Consuming == {"consume", "testConsume"}
Reading == {"look", "trace", "resolve", "testResolve"}
Inserting == Procedures \ (Completing \cup Consuming \cup Reading)

\* The procedures that ask for an active admission.
Admitted == {"post", "comment", "mirror", "mirrored", "bind", "look", "promote", "promoted",
             "trace", "suggest", "suggested", "challenge", "testChallenge"}

\* Primary keys and unique constraints, as the sets of fields they span.
Indexes ==
  [audit |-> {{"req"}},
   reservation |-> {{"req"}},
   mirror |-> {{"w", "key"}, {"req"}},
   binding |-> {{"w", "key"}, {"event"}},
   promotion |-> {{"key"}, {"req"}},
   suggestion |-> {{"key", "who"}, {"req"}},
   challenge |-> {{"key"}},
   receipt |-> {{"key"}, {"src"}},
   adoption |-> {{"key", "who"}, {"req"}, {"event"}, {"src"}},
   testChallenge |-> {{"key"}},
   testAdoption |-> {{"key", "who"}, {"req"}, {"event"}}]

Agree(r, q, fields) == \A f \in fields : r[f] = q[f]

\* Two rows that no table holds together, or versions of one row.
Clash(r, q) == r.tab = q.tab /\ \E fields \in Indexes[r.tab] : Agree(r, q, fields)

FirstState ==
  [mirror |-> "reserved", promotion |-> "reserved", suggestion |-> "reserved",
   challenge |-> "issued", testChallenge |-> "issued", audit |-> "final", binding |-> "final",
   receipt |-> "final", adoption |-> "final", testAdoption |-> "final"]

Row(c, time) ==
  [tab |-> TableOf[c.op], op |-> c.op, w |-> c.w, key |-> c.key, req |-> c.req, who |-> c.who,
   src |-> c.src, event |-> c.event, state |-> FirstState[TableOf[c.op]],
   stamp |-> IF c.op \in {"post", "comment"} THEN time ELSE 0]

States ==
  [mirror |-> {"reserved", "published"}, promotion |-> {"reserved", "published"},
   suggestion |-> {"reserved", "published"}, challenge |-> {"issued", "consumed"},
   testChallenge |-> {"issued", "consumed"}, audit |-> {"final"}, reservation |-> {"final"},
   binding |-> {"final"}, receipt |-> {"final"}, adoption |-> {"final"}, testAdoption |-> {"final"}]

\* A post's reservation is a row of its own.
IsRow(r) ==
  /\ r = [tab |-> r.tab, op |-> r.op, w |-> r.w, key |-> r.key, req |-> r.req, who |-> r.who,
          src |-> r.src, event |-> r.event, state |-> r.state, stamp |-> r.stamp]
  /\ r.op \in Inserting /\ (r.tab = TableOf[r.op] \/ (r.tab = "reservation" /\ r.op = "post"))
  /\ r.state \in States[r.tab] /\ r.stamp \in Int

\* How a procedure looks for its row, ...
LookedUpBy ==
  [audit |-> {{"req"}}, mirror |-> {{"w", "key"}}, binding |-> {{"w", "key"}},
   promotion |-> {{"key"}}, suggestion |-> {{"key", "who"}}, challenge |-> {{"key"}},
   receipt |-> {{"key"}, {"src"}}, adoption |-> {{"req"}}, testChallenge |-> {{"key"}},
   testAdoption |-> {{"req"}}]

Hits(r, c) == r.tab = TableOf[c.op] /\ \E fields \in LookedUpBy[r.tab] : Agree(r, c, fields)

\* Mutant of Same: any event will do.
Same_AnyEvent(r, c) == Hits(r, c) /\ Agree(r, c, {"w", "req"})

\* ... and what it compares before it takes the row for its own.
Same(r, c) ==
  /\ Hits(r, c)
  /\ CASE c.op \in Inserting -> Agree(r, c, {"op", "w", "key", "req", "who", "src", "event"})
       [] c.op \in Completing -> Agree(r, c, {"w", "req", "event"})
       [] c.op \in Consuming -> Agree(r, c, {"w", "event"})
       [] c.op \in Reading -> r.event = c.event

Published(rows, suggestion) ==
  \E r \in rows : r.tab = "suggestion" /\ r.event = suggestion /\ r.state = "published"

\* What a write builds on is there.
Based(c, rows) ==
  CASE c.op = "comment" -> \E r \in rows : r.op = "post" /\ r.req = c.src
    [] c.op \in {"mirror", "promote"} ->
         \E r \in rows : r.op = "post" /\ r.req = c.key /\ r.w = c.w
    [] c.op = "bind" ->
         \E r \in rows : r.tab = "mirror" /\ Agree(r, c, {"w", "key", "event"}) /\ r.state = "published"
    [] c.op = "suggest" ->
         \E r \in rows : r.tab = "promotion" /\ r.event = c.key /\ r.w = c.w /\ r.state = "published"
    [] c.op \in {"challenge", "testChallenge"} -> Published(rows, c.src)
    [] c.op = "store" ->
         \E r \in rows : r.tab = "challenge" /\ r.key = c.src /\ r.who = c.who /\ r.state = "consumed"
    [] c.op = "adopt" ->
         /\ Published(rows, c.key)
         /\ \E r, q \in rows : /\ r.tab = "receipt" /\ r.key = c.src /\ r.who = c.who
                               /\ q.tab = "challenge" /\ q.key = r.src /\ q.src = c.key
    [] c.op = "testAdopt" ->
         /\ Published(rows, c.key)
         /\ \E q \in rows : /\ q.tab = "testChallenge" /\ q.key = c.src /\ q.src = c.key
                            /\ q.who = c.who /\ q.state = "consumed"
    [] OTHER -> TRUE

\* The procedures that check this before they look whether they ran before.
Builders == {"bind", "challenge", "testChallenge", "store", "adopt", "testAdopt"}

\* In no stretch of time are there more writes than a limit allows: it is
\* enough to look at the stretches that begin with one of them.
InLimits(table) ==
  \A w \in Wallets, kind \in {"post", "comment"} :
    LET writes == {r \in table : r.op = kind /\ r.w = w} IN
    \A limit \in Limits[kind], first \in writes :
      Cardinality({r \in writes : r.stamp \in first.stamp..(first.stamp + limit[1] - 1)}) <= limit[2]

\* The row a read reports.
Reported(c, rows) ==
  {r \in rows :
     CASE c.op = "trace" ->
            /\ r.tab = "promotion" /\ r.event = c.event /\ r.w = c.w /\ r.state = "published"
            /\ \E b \in rows : b.tab = "binding" /\ b.key = r.key /\ b.w = r.w /\ b.who = c.who
       [] c.op = "look" ->
            /\ Hits(r, c)
            /\ \E m \in rows : m.tab = "mirror" /\ Agree(r, m, {"w", "key", "event"}) /\ m.state = "published"
       [] OTHER -> Hits(r, c)}

\* A read of a replay compares, the others report what they find.
Readable(r, c) == c.op \in {"resolve", "testResolve"} => Same(r, c)
=============================================================================
