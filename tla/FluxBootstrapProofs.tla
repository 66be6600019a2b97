------------------------ MODULE FluxBootstrapProofs ------------------------
\* Theorems about FluxBootstrap, for every value of its constants: types
\* and ownership (parts 1 to 4), and what its receipts are worth: each
\* object a run made can be reached from its receipt, RBAC is deleted
\* last, and what a receipt says of the outcome is so (parts 5 to 14).
EXTENDS FluxBootstrap, TLAPS

\* Part 1.  The memory of a run stays a Memory.

\* What a run waits for, in terms of what it has asked.
Sent == {"create-sent", "patch-sent", "delete-sent"}

Asking(m, r) ==
  /\ m.pc \notin Sent => m.asked = None /\ m.answer = NoAnswer
  /\ m.pc \in Sent => m.asked \in Requests /\ m.asked.run = r
  /\ m.pc = "create-sent" => m.asked.kind = "create"
  /\ m.pc = "patch-sent" => m.asked.kind = "patch"
  /\ m.pc \in {"create-sent", "patch-sent"} /\ m.answer.code = "ok" =>
       m.answer.obj \in Objects

\* How far a live run has come: what its book holds in each phase.
Creating(m) ==
  m.pc \in {"create", "create-sent", "discover"} \/ (m.pc = "save" /\ m.cont = "create")
Stripping(m) ==
  \/ m.pc \in {"intent", "strip", "patch-sent"}
  \/ m.pc = "save" /\ m.cont \in {"intent", "strip"}
Checking(m) == m.pc = "final" \/ (m.pc = "save" /\ m.cont = "final")

Progress(m) ==
  /\ Creating(m) => \A n \in Objs : n < m.at => m.book[n] # None
  /\ Stripping(m) =>
       \A n \in Objs : /\ m.book[n] # None
                       /\ n < m.at => m.book[n].st = "removed"
  /\ Checking(m) => \A n \in Objs : m.book[n] # None /\ m.book[n].st = "removed"

\* A memory a run may hold.
Fine(m, r) == m \in Memory /\ Asking(m, r) /\ Progress(m)

TypeInv == TypeOK /\ \A r \in Runs : Fine(run[r], r)

LEMMA BecomesSets ==
  ASSUME run \in [Runs -> Memory], NEW r \in Runs, NEW m \in Memory,
         Becomes(r, m)
  PROVE  /\ run' \in [Runs -> Memory] /\ run'[r] = m
         /\ \A s \in Runs : s # r => run'[s] = run[s]
BY DEF Becomes

LEMMA RunStepType ==
  ASSUME TypeInv, NEW r \in Runs, NEW m, Fine(m, r), Becomes(r, m)
  PROVE  /\ run' \in [Runs -> Memory] /\ run'[r] = m
         /\ \A s \in Runs : s # r => run'[s] = run[s]
         /\ \A s \in Runs : Fine(run'[s], s)
<1>1. m \in Memory BY DEF Fine
<1>2. /\ run' \in [Runs -> Memory] /\ run'[r] = m
      /\ \A s \in Runs : s # r => run'[s] = run[s]
  BY <1>1, BecomesSets DEF TypeInv, TypeOK
<1> QED BY <1>2 DEF TypeInv

LEMMA AtType ==
  /\ 1 \in Objs
  /\ \A k \in Objs : k < N => k + 1 \in Objs
BY ConstantsOK DEF Objs

LEMMA NoAnswerType == NoAnswer \in Answers
BY DEF NoAnswer, Answers

LEMMA UnstartedType == ASSUME NEW r \in Runs PROVE Unstarted(r) \in Memory
<1>1. 1 \in Objs BY AtType
<1>2. NoBook \in Books BY DEF NoBook, Books
<1> QED BY <1>1, <1>2, NoAnswerType DEF Unstarted, Memory, PCs, Conts, Modes, Statuses

LEMMA GoneFine ==
  ASSUME TypeOK, NEW r \in Runs, NEW pc \in {"done", "crashed"}
  PROVE  Fine(Gone(r, pc), r)
<1> DEFINE u == Unstarted(r)
           g == [u EXCEPT !.pc = pc, !.mode = run[r].mode, !.op = run[r].op,
                          !.status = run[r].status]
<1>1. run[r] \in Memory /\ u \in Memory BY UnstartedType DEF TypeOK
<1>2. u.asked = None /\ u.answer = NoAnswer BY DEF Unstarted
<1> HIDE DEF u
<1>3. g \in Memory BY <1>1 DEF Memory, PCs
<1>4. g.pc = pc /\ g.asked = None /\ g.answer = NoAnswer BY <1>1, <1>2 DEF Memory
<1> HIDE DEF g
<1>5. Fine(g, r)
  BY <1>3, <1>4 DEF Fine, Asking, Sent, Progress, Creating, Stripping, Checking
<1> QED BY <1>5 DEF Gone, g, u

LEMMA ExitFine == ASSUME TypeOK, NEW r \in Runs PROVE Fine(Exit(r), r)
BY GoneFine DEF Exit

LEMMA AbortFine ==
  ASSUME TypeOK, NEW r \in Runs, NEW e \in BOOLEAN
  PROVE  Fine(Abort(r, e), r)
<1>1. run[r] \in Memory BY DEF TypeOK
<1>2. {n \in Objs : run[r].book[n] # None} \in SUBSET Objs OBVIOUS
<1>3. Abort(r, e) \in Memory BY <1>1, <1>2, NoAnswerType DEF Abort, Memory, PCs
<1>4. /\ Abort(r, e).pc = "rollback" /\ Abort(r, e).asked = None
      /\ Abort(r, e).answer = NoAnswer
  BY <1>1 DEF Abort, Memory
<1> QED BY <1>3, <1>4
  DEF Fine, Asking, Sent, Progress, Creating, Stripping, Checking

LEMMA SetBookType ==
  ASSUME NEW b \in Books, NEW n \in Objs, NEW u \in Uids, NEW st \in Removal
  PROVE  [b EXCEPT ![n] = [uid |-> u, st |-> st]] \in Books
BY DEF Books, Records

LEMMA MarkBookType ==
  ASSUME NEW b \in Books, NEW n \in Objs, b[n] # None, NEW st \in Removal
  PROVE  [b EXCEPT ![n].st = st] \in Books
BY DEF Books, Records

LEMMA CreatedFine ==
  ASSUME TypeInv, NEW r \in Runs, Creating(run[r]), NEW o \in Objects
  PROVE  Fine(Created(r, o), r)
<1> DEFINE m == run[r]
           b == [m.book EXCEPT ![m.at] = [uid |-> o.uid, st |-> "not-started"]]
           c == Created(r, o)
<1>1. m \in Memory /\ Progress(m) BY DEF TypeInv, Fine
<1>2. o.uid \in Uids /\ "not-started" \in Removal /\ m.book \in Books
      /\ m.at \in Objs
  BY <1>1 DEF Objects, Removal, Memory
<1>3. b \in Books BY <1>2, SetBookType
<1>4. c \in Memory
  BY <1>1, <1>3, AtType, NoAnswerType DEF Created, Memory, PCs, Conts
<1>5. /\ c.pc = "save" /\ c.asked = None /\ c.answer = NoAnswer /\ c.book = b
      /\ c.cont = IF m.at < N THEN "create" ELSE "intent"
      /\ c.at = IF m.at < N THEN m.at + 1 ELSE 1
  BY <1>1 DEF Created, Memory
<1>6. [uid |-> o.uid, st |-> "not-started"] # None BY <1>2, NoneIsApart DEF Records
<1>7. \A n \in Objs : n < m.at \/ n = m.at => b[n] # None
  <2> SUFFICES ASSUME NEW n \in Objs, n < m.at \/ n = m.at PROVE b[n] # None
    OBVIOUS
  <2>1. CASE n = m.at BY <2>1, <1>2, <1>6 DEF Books
  <2>2. CASE n # m.at BY <2>2, <1>1, <1>2 DEF Progress, Books
  <2> QED BY <2>1, <2>2
<1> HIDE DEF b, c
<1>8. CASE m.at < N
  <2>1. c.cont = "create" /\ \A n \in Objs : n < c.at => b[n] # None
    BY <1>2, <1>5, <1>7, <1>8 DEF Objs
  <2> QED BY <2>1, <1>4, <1>5
    DEF Fine, Asking, Sent, Progress, Creating, Stripping, Checking, c
<1>9. CASE ~(m.at < N)
  <2>1. c.cont = "intent" /\ c.at = 1 /\ \A n \in Objs : b[n] # None
    BY <1>2, <1>5, <1>7, <1>9, ConstantsOK DEF Objs
  <2>2. \A n \in Objs : ~(n < c.at) BY <2>1 DEF Objs
  <2> QED BY <2>1, <2>2, <1>4, <1>5
    DEF Fine, Asking, Sent, Progress, Creating, Stripping, Checking, c
<1> QED BY <1>8, <1>9

LEMMA RemovedFine ==
  ASSUME TypeInv, NEW r \in Runs, Stripping(run[r])
  PROVE  Fine(Removed(r), r)
<1> DEFINE m == run[r]
           b == [m.book EXCEPT ![m.at].st = "removed"]
           c == Removed(r)
<1>1. m \in Memory /\ Progress(m) BY DEF TypeInv, Fine
<1>2. /\ "removed" \in Removal /\ m.book \in Books /\ m.at \in Objs
      /\ \A n \in Objs : m.book[n] # None
  <2>1. "removed" \in Removal /\ m.book \in Books /\ m.at \in Objs
    BY <1>1 DEF Removal, Memory
  <2>2. Stripping(m) OBVIOUS
  <2> HIDE DEF m
  <2> QED BY <1>1, <2>1, <2>2 DEF Progress
<1>3. b \in Books BY <1>2, MarkBookType
<1>4. c \in Memory
  BY <1>1, <1>3, AtType, NoAnswerType DEF Removed, Memory, PCs, Conts
<1>5. /\ c.pc = "save" /\ c.asked = None /\ c.answer = NoAnswer /\ c.book = b
      /\ c.cont = IF m.at < N THEN "intent" ELSE "final"
      /\ c.at = IF m.at < N THEN m.at + 1 ELSE 1
  BY <1>1 DEF Removed, Memory
<1>6. \A n \in Objs : /\ b[n] # None
                      /\ n < m.at \/ n = m.at => b[n].st = "removed"
  <2> SUFFICES ASSUME NEW n \in Objs
               PROVE  b[n] # None /\ (n < m.at \/ n = m.at => b[n].st = "removed")
    OBVIOUS
  <2>1. CASE n = m.at
    <3>1. m.book[n] \in Records BY <1>2 DEF Books
    <3>2. b[n] = [m.book[n] EXCEPT !.st = "removed"] BY <2>1, <1>2 DEF Books
    <3>3. b[n] \in Records /\ b[n].st = "removed" BY <3>1, <3>2, <1>2 DEF Records
    <3> QED BY <3>3, NoneIsApart
  <2>2. CASE n # m.at BY <2>2, <1>1, <1>2 DEF Progress, Books
  <2> QED BY <2>1, <2>2
<1> HIDE DEF b, c
<1>7. CASE m.at < N
  <2>1. c.cont = "intent" /\ \A n \in Objs : n < c.at => b[n].st = "removed"
    BY <1>2, <1>5, <1>6, <1>7 DEF Objs
  <2> QED BY <2>1, <1>4, <1>5, <1>6
    DEF Fine, Asking, Sent, Progress, Creating, Stripping, Checking, c
<1>8. CASE ~(m.at < N)
  <2>1. c.cont = "final" /\ \A n \in Objs : b[n].st = "removed"
    BY <1>2, <1>5, <1>6, <1>8, ConstantsOK DEF Objs
  <2> QED BY <2>1, <1>4, <1>5, <1>6
    DEF Fine, Asking, Sent, Progress, Creating, Stripping, Checking, c
<1> QED BY <1>7, <1>8

LEMMA RetryFine ==
  ASSUME TypeInv, NEW r \in Runs, run[r].pc = "patch-sent"
  PROVE  Fine(Retry(r), r)
<1> DEFINE m == run[r]
           c == [m EXCEPT !.pc = "strip", !.tries = @ + 1, !.asked = None,
                          !.answer = NoAnswer]
<1>1. m \in Memory /\ Progress(m) /\ Stripping(m) BY DEF TypeInv, Fine, Stripping
<1>2. c \in Memory
  <2>1. m \in Memory BY <1>1
  <2>2. m.tries + 1 \in Nat BY <2>1 DEF Memory
  <2> HIDE DEF m
  <2> QED BY <2>1, <2>2, NoAnswerType DEF Memory, PCs
<1>3. /\ c.pc = "strip" /\ c.asked = None /\ c.answer = NoAnswer
      /\ c.book = m.book /\ c.at = m.at
  BY <1>1 DEF Memory
<1>4. Fine(c, r)
  BY <1>1, <1>2, <1>3
  DEF Fine, Asking, Sent, Progress, Creating, Stripping, Checking
<1>5. Fine(Abort(r, FALSE), r) BY AbortFine DEF TypeInv
<1> QED BY <1>4, <1>5 DEF Retry

LEMMA DeleteSettledFine ==
  ASSUME TypeInv, NEW r \in Runs, run[r].pc = "delete-sent",
         NEW f \in BOOLEAN
  PROVE  Fine(DeleteSettled(r, f), r)
<1> DEFINE m == run[r]
           c == [m EXCEPT !.pc = "rollback", !.todo = @ \ {m.asked.obj},
                          !.err = @ \/ f, !.asked = None, !.answer = NoAnswer]
<1>1. m \in Memory BY DEF TypeInv, Fine
<1>2. /\ m.todo \ {m.asked.obj} \in SUBSET Objs
      /\ (m.err \/ f) \in BOOLEAN
  BY <1>1 DEF Memory
<1>3. c \in Memory BY <1>1, <1>2, NoAnswerType DEF Memory, PCs
<1>4. c.pc = "rollback" /\ c.asked = None /\ c.answer = NoAnswer BY <1>1 DEF Memory
<1> HIDE DEF c
<1>5. Fine(c, r)
  BY <1>3, <1>4
  DEF Fine, Asking, Sent, Progress, Creating, Stripping, Checking
<1> QED BY <1>5 DEF DeleteSettled, c

\* A memory that changes only fields which no phase speaks about, and whose
\* phase is not one of those in which a run asks, creates or strips.
LEMMA QuietFine ==
  ASSUME NEW r \in Runs, NEW m \in Memory, m.asked = None,
         m.answer = NoAnswer, m.pc \notin Sent,
         ~Creating(m), ~Stripping(m), ~Checking(m)
  PROVE  Fine(m, r)
BY DEF Fine, Asking, Sent, Progress

LEMMA ScannedFine ==
  ASSUME TypeInv, NEW r \in Runs, run[r].pc = "scan",
         NEW own \in Books, NEW e \in BOOLEAN
  PROVE  Fine(Scanned(run[r], own, e), r)
<1> DEFINE m == run[r]
           c == Scanned(m, own, e)
<1>1. /\ m \in Memory /\ m.pc = "scan"
      /\ m.asked = None /\ m.answer = NoAnswer
  BY DEF TypeInv, Fine, Asking, Sent
<1>2. {n \in Objs : own[n] # None} \in SUBSET Objs /\ m.at \in Objs
  BY <1>1 DEF Memory
<1>3. /\ c \in Memory /\ c.asked = None /\ c.answer = NoAnswer
      /\ c.pc \in {"scan", "rollback"}
  <2> HIDE DEF m
  <2>1. CASE m.at < N BY <1>1, <1>2, <2>1, AtType DEF Scanned, Memory
  <2>2. CASE ~(m.at < N) BY <1>1, <1>2, <2>2 DEF Scanned, Memory, PCs
  <2> QED BY <2>1, <2>2
<1> HIDE DEF c
<1> QED BY <1>3, QuietFine DEF Sent, Creating, Stripping, Checking, c

LEMMA TornScanFine ==
  ASSUME TypeInv, NEW r \in Runs, run[r].pc = "tscan", NEW e \in BOOLEAN
  PROVE  Fine(TornScan(run[r], e), r)
<1> DEFINE m == run[r]
           c == TornScan(m, e)
<1>1. /\ m \in Memory /\ m.pc = "tscan"
      /\ m.asked = None /\ m.answer = NoAnswer
  BY DEF TypeInv, Fine, Asking, Sent
<1>2. {n \in Objs : m.own[n] # None} \in SUBSET Objs /\ m.at \in Objs
  BY <1>1 DEF Memory
<1>3. /\ c \in Memory /\ c.asked = None /\ c.answer = NoAnswer
      /\ c.pc = "tscan" \/ (c.pc = "save" /\ c.cont \in {"conclude", "rollback"})
  <2> HIDE DEF m
  <2>1. CASE m.at < N BY <1>1, <1>2, <2>1, AtType DEF TornScan, Memory
  <2>2. CASE ~(m.at < N) BY <1>1, <1>2, <2>2 DEF TornScan, Memory, PCs, Conts
  <2> QED BY <2>1, <2>2
<1> HIDE DEF c
<1> QED BY <1>3, QuietFine DEF Sent, Creating, Stripping, Checking, c

LEMMA ConcludesFine ==
  ASSUME TypeInv, NEW r \in Runs, run[r].pc = "conclude", NEW e \in BOOLEAN
  PROVE  Fine(Concludes(r, e), r)
<1> DEFINE m == run[r]
           v == Verdict(r, e)
           c == [m EXCEPT !.err = e, !.status = v, !.pc = "save",
                          !.cont = "done"]
<1>1. m \in Memory /\ m.asked = None /\ m.answer = NoAnswer
  BY DEF TypeInv, Fine, Asking, Sent
<1>2. v \in Statuses BY <1>1 DEF Verdict, Memory, Modes, Statuses
<1> HIDE DEF v
<1>3. c \in Memory BY <1>1, <1>2 DEF Memory, PCs, Conts
<1>4. /\ c.asked = None /\ c.answer = NoAnswer
      /\ c.pc = "save" /\ c.cont = "done"
  BY <1>1 DEF Memory
<1> HIDE DEF c
<1>5. Fine(c, r) BY <1>3, <1>4, QuietFine DEF Sent, Creating, Stripping, Checking
<1> QED BY <1>5 DEF Concludes, c, v

LEMMA SpendType == ASSUME TypeOK, Spend PROVE faults' \in Nat
BY DEF TypeOK, Spend

LEMMA AbandonedType ==
  ASSUME TypeOK, NEW r \in Runs PROVE Abandoned(r) \subseteq Requests
BY DEF TypeOK, Abandoned

\* A step of one run that leaves the cluster and the receipts alone.
LEMMA StepInv ==
  ASSUME TypeInv, NEW r \in Runs, NEW m, Fine(m, r), Becomes(r, m),
         UNCHANGED <<live, rev, receipt, foreign>>,
         net' \subseteq Requests, faults' \in Nat
  PROVE  TypeInv'
<1>1. run' \in [Runs -> Memory] /\ \A s \in Runs : Fine(run'[s], s) BY RunStepType
<1> QED BY <1>1 DEF TypeInv, TypeOK

LEMMA LocalStepInv ==
  ASSUME TypeInv, NEW r \in Runs, NEW m, Fine(m, r), Becomes(r, m),
         UNCHANGED <<live, rev, net, receipt, faults, foreign>>
  PROVE  TypeInv'
BY StepInv DEF TypeInv, TypeOK

\* Part 2.  Every action keeps TypeInv.

LEMMA ReplyInv ==
  ASSUME TypeInv, NEW q \in net, NEW code \in {"ok", "conflict"},
         NEW o \in Objects \cup {None}, Reply(q, code, o),
         q.kind # "delete" /\ code = "ok" => o \in Objects
  PROVE  run' \in [Runs -> Memory] /\ \A s \in Runs : Fine(run'[s], s)
<1>1. /\ q \in Requests /\ q.run \in Runs /\ q # None
      /\ run \in [Runs -> Memory] /\ run[q.run] \in Memory
      /\ Fine(run[q.run], q.run)
  BY NoneIsApart DEF TypeInv, TypeOK, Requests
<1>2. CASE run[q.run].asked # q BY <1>1, <1>2 DEF Reply, TypeInv
<1>3. CASE run[q.run].asked = q
  <2> DEFINE r == q.run
             m == run[r]
             a == [code |-> code, obj |-> o]
             c == [m EXCEPT !.answer = a]
  <2>1. Becomes(r, c) BY <1>1, <1>3 DEF Reply, Becomes
  <2>2. a \in Answers BY DEF Answers
  <2>3. c \in Memory BY <1>1, <2>2 DEF Memory
  <2>4. /\ c.pc = m.pc /\ c.cont = m.cont /\ c.book = m.book /\ c.at = m.at
        /\ c.asked = q /\ c.answer = a
    BY <1>1, <1>3 DEF Memory
  <2>5. m.pc \in Sent /\ Asking(m, r) /\ Progress(m) BY <1>1, <1>3 DEF Fine, Asking
  <2> HIDE DEF c
  <2>6. Progress(c) BY <2>4, <2>5 DEF Progress, Creating, Stripping, Checking
  <2>7. Asking(c, r)
    <3>1. c.pc = "create-sent" => q.kind = "create" BY <1>3, <2>4, <2>5 DEF Asking
    <3>2. c.pc = "patch-sent" => q.kind = "patch" BY <1>3, <2>4, <2>5 DEF Asking
    <3> QED BY <1>1, <2>4, <2>5, <3>1, <3>2 DEF Asking
  <2>8. Fine(c, r) BY <2>3, <2>6, <2>7 DEF Fine
  <2> QED BY <1>1, <2>1, <2>8, RunStepType
<1> QED BY <1>2, <1>3

LEMMA ServeInv == ASSUME TypeInv, Serve PROVE TypeInv'
<1> PICK q \in net : ServeCreate(q) \/ ServePatch(q) \/ ServeDelete(q)
  BY DEF Serve
<1>1. /\ q \in Requests /\ q.obj \in Objs /\ rev \in Nat /\ rev + 1 \in Nat
      /\ live \in [Objs -> Objects \cup {None}] /\ TypeOK
  BY DEF TypeInv, TypeOK, Requests
<1>2. CASE ServeCreate(q)
  <2> DEFINE o == [uid |-> [by |-> q.run, rev |-> rev], tag |-> q.op,
                   exact |-> TRUE, rv |-> rev, going |-> FALSE,
                   touched |-> FALSE]
  <2>1. o \in Objects BY <1>1 DEF Objects, Uids, Requests
  <2>2. CASE live[q.obj] = None
    <3>1. live' = [live EXCEPT ![q.obj] = o] /\ rev' = rev + 1 /\ Reply(q, "ok", o)
      BY <1>2, <2>2 DEF ServeCreate
    <3>2. run' \in [Runs -> Memory] /\ \A s \in Runs : Fine(run'[s], s)
      BY <2>1, <3>1, ReplyInv
    <3> QED BY <1>1, <1>2, <2>1, <3>1, <3>2 DEF ServeCreate, TypeInv, TypeOK
  <2>3. CASE live[q.obj] # None
    <3>1. Reply(q, "conflict", None) /\ UNCHANGED <<live, rev>>
      BY <1>2, <2>3 DEF ServeCreate
    <3>2. run' \in [Runs -> Memory] /\ \A s \in Runs : Fine(run'[s], s)
      BY <3>1, ReplyInv
    <3> QED BY <1>1, <1>2, <3>1, <3>2 DEF ServeCreate, TypeInv, TypeOK
  <2> QED BY <2>2, <2>3
<1>3. CASE ServePatch(q)
  <2> DEFINE o == [live[q.obj] EXCEPT !.tag = None, !.rv = rev]
  <2>1. CASE Matches(q, live[q.obj]) /\ live[q.obj].tag = q.op
    <3>1. o \in Objects BY <1>1, <2>1 DEF Objects, Matches
    <3>2. live' = [live EXCEPT ![q.obj] = o] /\ rev' = rev + 1 /\ Reply(q, "ok", o)
      BY <1>3, <2>1 DEF ServePatch
    <3>3. run' \in [Runs -> Memory] /\ \A s \in Runs : Fine(run'[s], s)
      BY <3>1, <3>2, ReplyInv
    <3> QED BY <1>1, <1>3, <3>1, <3>2, <3>3 DEF ServePatch, TypeInv, TypeOK
  <2>2. CASE ~(Matches(q, live[q.obj]) /\ live[q.obj].tag = q.op)
    <3>1. Reply(q, "conflict", None) /\ UNCHANGED <<live, rev>>
      BY <1>3, <2>2 DEF ServePatch
    <3>2. run' \in [Runs -> Memory] /\ \A s \in Runs : Fine(run'[s], s)
      BY <3>1, ReplyInv
    <3> QED BY <1>1, <1>3, <3>1, <3>2 DEF ServePatch, TypeInv, TypeOK
  <2> QED BY <2>1, <2>2
<1>4. CASE ServeDelete(q)
  <2>1. q.kind = "delete" /\ net' = net \ {q} /\ UNCHANGED <<receipt, faults, foreign>>
    BY <1>4 DEF ServeDelete
  <2>2. live' \in [Objs -> Objects \cup {None}] /\ rev' \in Nat
    <3> DEFINE o == [live[q.obj] EXCEPT !.going = TRUE, !.rv = rev]
    <3>1. Matches(q, live[q.obj]) => o \in Objects BY <1>1 DEF Matches, Objects
    <3>2. \/ UNCHANGED <<live, rev>>
          \/ live' = [live EXCEPT ![q.obj] = None] /\ UNCHANGED rev
          \/ /\ Matches(q, live[q.obj])
             /\ live' = [live EXCEPT ![q.obj] = o] /\ rev' = rev + 1
      <4>1. [live EXCEPT ![q.obj] = o]
              = [live EXCEPT ![q.obj].going = TRUE, ![q.obj].rv = rev]
        BY <1>1
      <4> QED BY <1>4, <4>1 DEF ServeDelete
    <3> HIDE DEF o
    <3> QED BY <1>1, <3>1, <3>2
  <2>3. Reply(q, "ok", None) \/ Reply(q, "conflict", None) BY <1>4 DEF ServeDelete
  <2>4. run' \in [Runs -> Memory] /\ \A s \in Runs : Fine(run'[s], s)
    BY <2>1, <2>3, ReplyInv
  <2> QED BY <1>1, <2>1, <2>2, <2>4 DEF TypeInv, TypeOK
<1> QED BY <1>2, <1>3, <1>4

LEMMA OthersInv ==
  ASSUME TypeInv, NEW n \in Objs, FinishDelete(n) \/ Others(n)
  PROVE  TypeInv'
<1>1. /\ rev \in Nat /\ rev + 1 \in Nat /\ foreign + 1 \in Nat
      /\ live \in [Objs -> Objects \cup {None}] /\ TypeOK
  BY DEF TypeInv, TypeOK
<1>2. CASE FinishDelete(n) BY <1>1, <1>2 DEF FinishDelete, TypeInv, TypeOK
<1>3. ASSUME NEW o \in Objects \cup {None}, WriteByOthers(n, o)
      PROVE  TypeInv'
  BY <1>1, <1>3 DEF WriteByOthers, TypeInv, TypeOK
<1>4. ASSUME live[n] # None
      PROVE  /\ [live[n] EXCEPT !.rv = rev] \in Objects
             /\ [live[n] EXCEPT !.tag = None, !.rv = rev, !.touched = TRUE]
                  \in Objects
             /\ [live[n] EXCEPT !.exact = FALSE, !.rv = rev, !.touched = TRUE]
                  \in Objects
  BY <1>1, <1>4 DEF Objects
<1>5. [uid |-> [by |-> Foreign, rev |-> rev], tag |-> None, exact |-> TRUE,
       rv |-> rev, going |-> FALSE, touched |-> TRUE] \in Objects
  BY <1>1 DEF Objects, Uids
<1>6. CASE ForeignCreate(n) BY <1>3, <1>5, <1>6 DEF ForeignCreate
<1>7. CASE ForeignDelete(n) BY <1>3, <1>7 DEF ForeignDelete
<1>8. CASE ControllerTouch(n) BY <1>3, <1>4, <1>8 DEF ControllerTouch
<1>9. CASE ForeignStrip(n) BY <1>3, <1>4, <1>9 DEF ForeignStrip
<1>10. CASE ForeignEdit(n) BY <1>3, <1>4, <1>10 DEF ForeignEdit
<1> QED BY <1>2, <1>6, <1>7, <1>8, <1>9, <1>10 DEF Others

\* What the action lemmas below start from.
LEMMA Known ==
  ASSUME TypeInv, NEW r \in Runs
  PROVE  /\ TypeOK /\ run[r] \in Memory /\ Asking(run[r], r)
         /\ Progress(run[r]) /\ run[r].at \in Objs
         /\ run[r].pc \notin Sent => run[r].asked = None /\ run[r].answer = NoAnswer
         /\ \A n \in Objs : live[n] # None => live[n] \in Objects
BY DEF TypeInv, TypeOK, Fine, Asking, Memory

LEMMA PersistInv == ASSUME TypeInv, NEW r \in Runs, Persist(r) PROVE TypeInv'
<1> DEFINE m == run[r]
           g == m.guarded \/ m.cont = "create"
           c == [m EXCEPT !.pc = m.cont, !.guarded = g]
<1>1. TypeOK /\ m \in Memory /\ Progress(m) /\ m.pc = "save"
      /\ m.asked = None /\ m.answer = NoAnswer
  BY Known DEF Persist, Sent
<1>2. ReceiptOf(r) \in Receipts BY <1>1 DEF ReceiptOf, Receipts, Memory
<1>3. m.cont \in PCs /\ m.cont \notin Sent /\ m.cont # "save"
      /\ m.cont # "create-sent" /\ m.cont # "discover" /\ m.cont # "patch-sent"
  BY <1>1 DEF Memory, Conts, PCs, Sent
<1>4. g \in BOOLEAN BY <1>1 DEF Memory
<1> HIDE DEF g
<1>5. c \in Memory BY <1>1, <1>3, <1>4 DEF Memory
<1>6. /\ c.pc = m.cont /\ c.cont = m.cont /\ c.asked = None
      /\ c.answer = NoAnswer /\ c.book = m.book /\ c.at = m.at
  BY <1>1 DEF Memory
<1> HIDE DEF c
<1>7. Progress(c) BY <1>1, <1>3, <1>6 DEF Progress, Creating, Stripping, Checking
<1>8. Fine(c, r) BY <1>3, <1>5, <1>6, <1>7 DEF Fine, Asking, Sent
<1>9. Fine(Exit(r), r) BY <1>1, ExitFine
<1>10. PICK x : Becomes(r, x) /\ Fine(x, r) BY <1>8, <1>9 DEF Persist, c, g
<1>11. run' \in [Runs -> Memory] /\ \A s \in Runs : Fine(run'[s], s)
  BY <1>10, RunStepType
<1> QED BY <1>1, <1>2, <1>11 DEF Persist, TypeInv, TypeOK

LEMMA PersistFailsInv ==
  ASSUME TypeInv, NEW r \in Runs, PersistFails(r) PROVE TypeInv'
<1>1. TypeOK /\ run[r] \in Memory BY Known
<1>2. ReceiptOf(r) \in Receipts BY <1>1 DEF ReceiptOf, Receipts, Memory
<1>3. PICK x : Becomes(r, x) /\ Fine(x, r)
  BY <1>1, AbortFine, ExitFine DEF PersistFails
<1>4. run' \in [Runs -> Memory] /\ \A s \in Runs : Fine(run'[s], s)
  BY <1>3, RunStepType
<1>5. faults' \in Nat BY <1>1, SpendType DEF PersistFails
<1> QED BY <1>1, <1>2, <1>4, <1>5 DEF PersistFails, TypeInv, TypeOK

LEMMA StartLiveInv == ASSUME TypeInv, NEW r \in Runs, StartLive(r) PROVE TypeInv'
<1> DEFINE m == run[r]
           c == [m EXCEPT !.pc = "save", !.cont = "absent"]
<1>1. m \in Memory /\ m.asked = None /\ m.answer = NoAnswer
  BY Known DEF StartLive, MayStart, Sent
<1>2. c \in Memory BY <1>1 DEF Memory, PCs, Conts
<1>3. /\ c.pc = "save" /\ c.cont = "absent"
      /\ c.asked = None /\ c.answer = NoAnswer
  BY <1>1 DEF Memory
<1>4. Becomes(r, c) BY DEF StartLive
<1> HIDE DEF c
<1>5. Fine(c, r) BY <1>2, <1>3, QuietFine DEF Sent, Creating, Stripping, Checking
<1> QED BY <1>4, <1>5, LocalStepInv DEF StartLive

LEMMA CheckAbsentInv ==
  ASSUME TypeInv, NEW r \in Runs, CheckAbsent(r) PROVE TypeInv'
<1> DEFINE m == run[r]
           c == [m EXCEPT !.at = m.at + 1]
           d == [m EXCEPT !.pc = "save", !.cont = "create", !.at = 1,
                          !.status = "creating"]
<1>1. TypeOK /\ m \in Memory /\ m.pc = "absent" /\ m.at \in Objs
      /\ m.asked = None /\ m.answer = NoAnswer
  BY Known DEF CheckAbsent, Sent
<1>2. Fine(Exit(r), r) BY <1>1, ExitFine
<1>3. m.at < N => Fine(c, r)
  <2> SUFFICES ASSUME m.at < N PROVE Fine(c, r)
    OBVIOUS
  <2>1. /\ c \in Memory /\ c.pc = "absent"
        /\ c.asked = None /\ c.answer = NoAnswer
    BY <1>1, AtType DEF Memory
  <2> HIDE DEF c
  <2> QED BY <2>1, QuietFine DEF Sent, Creating, Stripping, Checking
<1>4. Fine(d, r)
  <2>1. /\ d \in Memory /\ d.pc = "save" /\ d.cont = "create" /\ d.at = 1
        /\ d.asked = None /\ d.answer = NoAnswer
    BY <1>1, AtType DEF Memory, PCs, Conts, Statuses
  <2> HIDE DEF d
  <2>2. Progress(d) BY <2>1 DEF Progress, Creating, Stripping, Checking, Objs
  <2> QED BY <2>1, <2>2 DEF Fine, Asking, Sent
<1>5. PICK x : Becomes(r, x) /\ Fine(x, r) BY <1>2, <1>3, <1>4 DEF CheckAbsent
<1> QED BY <1>5, LocalStepInv DEF CheckAbsent

\* Sending a request of the kind that the new phase waits for.
LEMMA SendInv ==
  ASSUME TypeInv, NEW r \in Runs, NEW q \in Requests, NEW pc \in Sent,
         Send(r, q, pc), q.run = r,
         pc = "create-sent" => q.kind = "create" /\ Creating(run[r]),
         pc = "patch-sent" => q.kind = "patch" /\ Stripping(run[r])
  PROVE  TypeInv'
<1> DEFINE m == run[r]
           c == [m EXCEPT !.pc = pc, !.asked = q, !.answer = NoAnswer]
<1>1. TypeOK /\ m \in Memory /\ Progress(m) BY Known
<1>2. /\ c \in Memory /\ c.pc = pc /\ c.asked = q /\ c.answer = NoAnswer
      /\ c.book = m.book /\ c.at = m.at
  BY <1>1, NoAnswerType DEF Memory, PCs, Sent
<1>3. Becomes(r, c) BY DEF Send
<1> HIDE DEF c
<1>4. Progress(c) BY <1>1, <1>2 DEF Progress, Creating, Stripping, Checking, Sent
<1>5. Asking(c, r) BY <1>2 DEF Asking, Sent, NoAnswer
<1>6. Fine(c, r) BY <1>2, <1>4, <1>5 DEF Fine
<1>7. net' \subseteq Requests /\ faults' \in Nat BY <1>1 DEF Send, TypeOK
<1> QED BY <1>3, <1>6, <1>7, StepInv DEF Send

LEMMA SendCreateInv ==
  ASSUME TypeInv, NEW r \in Runs, SendCreate(r) PROVE TypeInv'
<1> DEFINE q == Request(r, "create", run[r].at, None, 0)
<1>1. TypeOK /\ run[r].at \in Objs BY Known
<1>2. q \in Requests /\ q.run = r /\ q.kind = "create"
  BY <1>1 DEF Request, Requests, TypeOK, Memory
<1>3. Send(r, q, "create-sent") /\ Creating(run[r]) BY DEF SendCreate, Creating
<1> HIDE DEF q
<1> QED BY <1>2, <1>3, SendInv DEF Sent

LEMMA SendPatchInv ==
  ASSUME TypeInv, NEW r \in Runs, SendPatch(r) PROVE TypeInv'
<1> DEFINE o == live[run[r].at]
           q == Request(r, "patch", run[r].at, o.uid, o.rv)
<1>1. TypeOK /\ run[r].at \in Objs /\ o \in Objects
  BY Known DEF SendPatch, StillMine
<1>2. o.uid \in Uids \cup {None} /\ o.rv \in Nat BY <1>1 DEF Objects
<1>3. q \in Requests /\ q.run = r /\ q.kind = "patch"
  BY <1>1, <1>2 DEF Request, Requests, TypeOK, Memory
<1>4. Send(r, q, "patch-sent") /\ Stripping(run[r]) BY DEF SendPatch, Stripping
<1> HIDE DEF q
<1> QED BY <1>3, <1>4, SendInv DEF Sent

LEMMA SendDeleteInv ==
  ASSUME TypeInv, NEW r \in Runs, SendDelete(r) PROVE TypeInv'
<1> PICK n \in Objs :
      /\ MayDelete(r, n)
      /\ Send(r, Request(r, "delete", n, live[n].uid, live[n].rv), "delete-sent")
  BY DEF SendDelete
<1> DEFINE q == Request(r, "delete", n, live[n].uid, live[n].rv)
<1>1. TypeOK /\ live[n] \in Objects BY Known DEF MayDelete, StillMine
<1>2. live[n].uid \in Uids \cup {None} /\ live[n].rv \in Nat BY <1>1 DEF Objects
<1>3. q \in Requests /\ q.run = r
  BY <1>1, <1>2 DEF Request, Requests, TypeOK, Memory
<1>4. Send(r, q, "delete-sent") OBVIOUS
<1> HIDE DEF q
<1> QED BY <1>3, <1>4, SendInv DEF Sent

LEMMA CreatingInv ==
  ASSUME TypeInv, NEW r \in Runs,
         BindAnswer(r) \/ CreateUncertain(r) \/ Discover(r)
  PROVE  TypeInv'
<1>1. TypeOK /\ run[r] \in Memory /\ Asking(run[r], r) /\ run[r].at \in Objs
  BY Known
<1>2. CASE BindAnswer(r)
  <2>1. run[r].pc = "create-sent" /\ Creating(run[r])
    BY <1>2 DEF BindAnswer, Creating
  <2>2. run[r].answer.code = "ok" => run[r].answer.obj \in Objects
    BY <1>1, <2>1 DEF Asking
  <2>3. PICK x : Becomes(r, x) /\ Fine(x, r)
    BY <1>1, <1>2, <2>1, <2>2, CreatedFine, AbortFine DEF BindAnswer
  <2> QED BY <1>2, <2>3, LocalStepInv DEF BindAnswer
<1>3. CASE CreateUncertain(r)
  <2> DEFINE c == [run[r] EXCEPT !.pc = "discover", !.asked = None,
                                 !.answer = NoAnswer]
  <2>1. run[r].pc = "create-sent" /\ Progress(run[r]) /\ Creating(run[r])
    BY <1>3, Known DEF CreateUncertain, Creating
  <2>2. /\ c \in Memory /\ c.pc = "discover" /\ c.asked = None
        /\ c.answer = NoAnswer /\ c.book = run[r].book /\ c.at = run[r].at
    BY <1>1, NoAnswerType DEF Memory, PCs
  <2>3. Becomes(r, c) BY <1>3 DEF CreateUncertain
  <2> HIDE DEF c
  <2>4. Fine(c, r)
    BY <2>1, <2>2 DEF Fine, Asking, Sent, Progress, Creating, Stripping, Checking
  <2>5. net' \subseteq Requests /\ faults' \in Nat
    BY <1>1, <1>3, AbandonedType, SpendType DEF CreateUncertain
  <2> QED BY <1>3, <2>3, <2>4, <2>5, StepInv DEF CreateUncertain
<1>4. CASE Discover(r)
  <2>1. Creating(run[r]) BY <1>4 DEF Discover, Creating
  <2>2. live[run[r].at] # None => live[run[r].at] \in Objects BY Known
  <2>3. PICK x : Becomes(r, x) /\ Fine(x, r)
    BY <1>1, <1>4, <2>1, <2>2, CreatedFine, AbortFine DEF Discover
  <2> QED BY <1>4, <2>3, LocalStepInv DEF Discover
<1> QED BY <1>2, <1>3, <1>4

LEMMA MarkIntentInv ==
  ASSUME TypeInv, NEW r \in Runs, MarkIntent(r) PROVE TypeInv'
<1> DEFINE m == run[r]
           b == [m.book EXCEPT ![m.at].st = "intent-durable"]
           i == m.intents \cup {m.at}
           c == [m EXCEPT !.book = b, !.intents = i, !.tries = 0,
                          !.status = "removing-nonces",
                          !.pc = "save", !.cont = "strip"]
<1>1. /\ m \in Memory /\ Progress(m) /\ m.pc = "intent" /\ m.at \in Objs
      /\ m.asked = None /\ m.answer = NoAnswer
  BY Known DEF MarkIntent, Sent
<1>2. /\ "intent-durable" \in Removal /\ m.book \in Books
      /\ i \in SUBSET Objs
  BY <1>1 DEF Removal, Memory
<1>3. \A n \in Objs : /\ m.book[n] # None
                      /\ n < m.at => m.book[n].st = "removed"
  <2>1. Stripping(m) BY <1>1 DEF Stripping
  <2> HIDE DEF m
  <2> QED BY <1>1, <2>1 DEF Progress
<1>4. b \in Books BY <1>1, <1>2, <1>3, MarkBookType
<1>5. \A n \in Objs : /\ b[n] # None
                      /\ n < m.at => b[n].st = "removed"
  <2> SUFFICES ASSUME NEW n \in Objs
               PROVE  b[n] # None /\ (n < m.at => b[n].st = "removed")
    OBVIOUS
  <2>1. CASE n = m.at
    <3>1. m.book[n] \in Records BY <1>2, <1>3 DEF Books
    <3>2. b[n] = [m.book[n] EXCEPT !.st = "intent-durable"] BY <2>1, <1>2 DEF Books
    <3>3. b[n] \in Records BY <3>1, <3>2, <1>2 DEF Records
    <3>4. ~(n < m.at) BY <2>1 DEF Objs
    <3> QED BY <3>3, <3>4, NoneIsApart
  <2>2. CASE n # m.at BY <2>2, <1>2, <1>3 DEF Books
  <2> QED BY <2>1, <2>2
<1> HIDE DEF b, i
<1>6. /\ c \in Memory /\ c.pc = "save" /\ c.cont = "strip" /\ c.book = b
      /\ c.at = m.at /\ c.asked = None /\ c.answer = NoAnswer
  BY <1>1, <1>2, <1>4 DEF Memory, PCs, Conts, Statuses
<1>7. Becomes(r, c) BY DEF MarkIntent, b, i
<1> HIDE DEF c
<1>8. Fine(c, r)
  BY <1>5, <1>6 DEF Fine, Asking, Sent, Progress, Creating, Stripping, Checking
<1> QED BY <1>7, <1>8, LocalStepInv DEF MarkIntent

LEMMA StrippingInv ==
  ASSUME TypeInv, NEW r \in Runs,
         NothingToPatch(r) \/ PatchAnswered(r) \/ PatchUncertain(r)
  PROVE  TypeInv'
<1>1. TypeOK /\ Stripping(run[r])
  BY Known DEF NothingToPatch, PatchAnswered, PatchUncertain, Stripping
<1>2. Fine(Removed(r), r) /\ Fine(Abort(r, FALSE), r)
  BY <1>1, RemovedFine, AbortFine
<1>3. run[r].pc = "patch-sent" => Fine(Retry(r), r) BY RetryFine
<1>4. PICK x : Becomes(r, x) /\ Fine(x, r)
  BY <1>2, <1>3 DEF NothingToPatch, PatchAnswered, PatchUncertain
<1>5. net' \subseteq Requests /\ faults' \in Nat
  BY <1>1, AbandonedType, SpendType
  DEF NothingToPatch, PatchAnswered, PatchUncertain, TypeOK
<1> QED BY <1>4, <1>5, StepInv DEF NothingToPatch, PatchAnswered, PatchUncertain

LEMMA CheckFinalInv ==
  ASSUME TypeInv, NEW r \in Runs, CheckFinal(r) PROVE TypeInv'
<1> DEFINE m == run[r]
           c == [m EXCEPT !.at = m.at + 1]
           d == [m EXCEPT !.status = "dormant-ready", !.pc = "save",
                          !.cont = "done"]
<1>1. /\ TypeOK /\ m \in Memory /\ m.pc = "final" /\ m.at \in Objs
      /\ m.asked = None /\ m.answer = NoAnswer /\ Progress(m)
  BY Known DEF CheckFinal, Sent
<1>2. m.at < N => Fine(c, r)
  <2> SUFFICES ASSUME m.at < N PROVE Fine(c, r)
    OBVIOUS
  <2>1. /\ c \in Memory /\ c.pc = "final" /\ c.book = m.book
        /\ c.asked = None /\ c.answer = NoAnswer
    BY <1>1, AtType DEF Memory
  <2>2. Checking(m) BY <1>1 DEF Checking
  <2> HIDE DEF c, m
  <2>3. Progress(c) BY <1>1, <2>1, <2>2 DEF Progress, Creating, Stripping, Checking
  <2> QED BY <2>1, <2>3 DEF Fine, Asking, Sent
<1>3. Fine(d, r)
  <2>1. /\ d \in Memory /\ d.pc = "save" /\ d.cont = "done"
        /\ d.asked = None /\ d.answer = NoAnswer
    BY <1>1 DEF Memory, PCs, Conts, Statuses
  <2> HIDE DEF d
  <2> QED BY <2>1, QuietFine DEF Sent, Creating, Stripping, Checking
<1>4. Fine(Abort(r, FALSE), r) BY <1>1, AbortFine
<1>5. PICK x : Becomes(r, x) /\ Fine(x, r) BY <1>2, <1>3, <1>4 DEF CheckFinal
<1> QED BY <1>5, LocalStepInv DEF CheckFinal

LEMMA InterruptInv ==
  ASSUME TypeInv, NEW r \in Runs, Raise(r) \/ Crash(r) PROVE TypeInv'
<1>1. TypeOK BY DEF TypeInv
<1>2. PICK x : Becomes(r, x) /\ Fine(x, r)
  BY <1>1, AbortFine, ExitFine, GoneFine DEF Raise, Crash
<1>3. net' \subseteq Requests /\ faults' \in Nat
  BY <1>1, AbandonedType, SpendType DEF Raise, Crash
<1> QED BY <1>2, <1>3, StepInv DEF Raise, Crash

LEMMA RollbackInv ==
  ASSUME TypeInv, NEW r \in Runs, Skip(r) \/ SkipUnread(r) PROVE TypeInv'
<1> DEFINE m == run[r]
<1>1. /\ TypeOK /\ m \in Memory /\ m.pc = "rollback"
      /\ m.asked = None /\ m.answer = NoAnswer
  BY Known DEF Skip, SkipUnread, Sent
<1>2. ASSUME NEW n \in Objs, NEW e \in BOOLEAN
      PROVE  Fine([m EXCEPT !.todo = m.todo \ {n}, !.err = e], r)
  <2> DEFINE t == m.todo \ {n}
             c == [m EXCEPT !.todo = t, !.err = e]
  <2>1. t \in SUBSET Objs BY <1>1 DEF Memory
  <2> HIDE DEF t
  <2>2. /\ c \in Memory /\ c.pc = "rollback"
        /\ c.asked = None /\ c.answer = NoAnswer
    BY <1>1, <2>1 DEF Memory
  <2> HIDE DEF c
  <2>3. Fine(c, r) BY <2>2, QuietFine DEF Sent, Creating, Stripping, Checking
  <2> QED BY <2>3 DEF c, t
<1>3. CASE Skip(r)
  <2>1. PICK n \in Objs :
          Becomes(r, [m EXCEPT !.todo = m.todo \ {n},
                               !.err = m.err \/ live[n] # None])
    BY <1>3 DEF Skip
  <2>2. (m.err \/ live[n] # None) \in BOOLEAN BY <1>1 DEF Memory
  <2> QED BY <1>2, <1>3, <2>1, <2>2, LocalStepInv DEF Skip
<1>4. CASE SkipUnread(r)
  <2>1. PICK n \in Objs :
          Becomes(r, [m EXCEPT !.todo = m.todo \ {n}, !.err = TRUE])
    BY <1>4 DEF SkipUnread
  <2>2. net' \subseteq Requests /\ faults' \in Nat
    BY <1>1, <1>4, SpendType DEF SkipUnread, TypeOK
  <2> QED BY <1>2, <1>4, <2>1, <2>2, StepInv DEF SkipUnread
<1> QED BY <1>3, <1>4

LEMMA DeletedInv ==
  ASSUME TypeInv, NEW r \in Runs, DeleteAnswered(r) \/ DeleteUncertain(r)
  PROVE  TypeInv'
<1>1. TypeOK /\ run[r].pc = "delete-sent"
  BY Known DEF DeleteAnswered, DeleteUncertain
<1>2. PICK x : Becomes(r, x) /\ Fine(x, r)
  BY <1>1, DeleteSettledFine DEF DeleteAnswered, DeleteUncertain
<1>3. net' \subseteq Requests /\ faults' \in Nat
  BY <1>1, AbandonedType, SpendType
  DEF DeleteAnswered, DeleteUncertain, TypeOK
<1> QED BY <1>2, <1>3, StepInv DEF DeleteAnswered, DeleteUncertain

LEMMA WaitInv ==
  ASSUME TypeInv, NEW r \in Runs,
         \/ BeginWait(r) \/ WaitAbsent(r) \/ WaitDeadline(r) \/ WaitUnread(r)
  PROVE  TypeInv'
<1> DEFINE m == run[r]
<1>1. /\ TypeOK /\ m \in Memory /\ m.pc \in {"rollback", "wait"}
      /\ m.at \in Objs /\ m.asked = None /\ m.answer = NoAnswer
  BY Known DEF BeginWait, WaitAbsent, WaitDeadline, WaitUnread, Sent
<1>2. ASSUME NEW pc \in {"wait", "conclude"}, NEW at \in Objs,
             NEW t \in Nat, NEW e \in BOOLEAN
      PROVE  Fine([m EXCEPT !.pc = pc, !.at = at, !.tries = t, !.err = e], r)
  <2> DEFINE c == [m EXCEPT !.pc = pc, !.at = at, !.tries = t, !.err = e]
  <2>1. /\ c \in Memory /\ c.pc \in {"wait", "conclude"}
        /\ c.asked = None /\ c.answer = NoAnswer
    BY <1>1 DEF Memory, PCs
  <2> HIDE DEF c
  <2>2. Fine(c, r) BY <2>1, QuietFine DEF Sent, Creating, Stripping, Checking
  <2> QED BY <2>2 DEF c
<1>3. /\ m.tries \in Nat /\ m.tries + 1 \in Nat /\ m.err \in BOOLEAN
      /\ 1 \in Objs /\ (m.at < N => m.at + 1 \in Objs)
  BY <1>1, AtType DEF Memory
<1>4. CASE BeginWait(r)
  <2>1. [m EXCEPT !.pc = "wait", !.at = 1, !.tries = 0]
          = [m EXCEPT !.pc = "wait", !.at = 1, !.tries = 0, !.err = m.err]
    BY <1>1 DEF Memory
  <2>2. Becomes(r, [m EXCEPT !.pc = "wait", !.at = 1, !.tries = 0])
    BY <1>4 DEF BeginWait
  <2> QED BY <1>2, <1>3, <1>4, <2>1, <2>2, LocalStepInv DEF BeginWait
<1>5. CASE WaitAbsent(r)
  <2>1. m.pc = "wait" BY <1>5 DEF WaitAbsent
  <2> DEFINE w(pc, at, t) == [m EXCEPT !.pc = pc, !.at = at, !.tries = t,
                                        !.err = m.err]
  <2>2. /\ [m EXCEPT !.at = m.at + 1] = w("wait", m.at + 1, m.tries)
        /\ [m EXCEPT !.at = 1, !.tries = m.tries + 1]
             = w("wait", 1, m.tries + 1)
        /\ [m EXCEPT !.pc = "conclude"] = w("conclude", m.at, m.tries)
        /\ [m EXCEPT !.at = 1, !.tries = 0] = w("wait", 1, 0)
    BY <1>1, <2>1 DEF Memory
  <2>3. /\ m.at < N => Fine(w("wait", m.at + 1, m.tries), r)
        /\ Fine(w("wait", 1, m.tries + 1), r)
        /\ Fine(w("conclude", m.at, m.tries), r)
        /\ Fine(w("wait", 1, 0), r)
    BY <1>1, <1>2, <1>3
  <2> HIDE DEF w
  <2>4. PICK x : Becomes(r, x) /\ Fine(x, r) BY <1>5, <2>2, <2>3 DEF WaitAbsent
  <2> QED BY <1>5, <2>4, LocalStepInv DEF WaitAbsent
<1>6. [m EXCEPT !.pc = "conclude", !.err = TRUE]
        = [m EXCEPT !.pc = "conclude", !.at = m.at, !.tries = m.tries,
                    !.err = TRUE]
  BY <1>1 DEF Memory
<1>7. Fine([m EXCEPT !.pc = "conclude", !.err = TRUE], r) BY <1>1, <1>2, <1>3, <1>6
<1>8. CASE WaitDeadline(r) BY <1>7, <1>8, LocalStepInv DEF WaitDeadline
<1>9. CASE WaitUnread(r)
  <2>1. net' \subseteq Requests /\ faults' \in Nat
    BY <1>1, <1>9, SpendType DEF WaitUnread, TypeOK
  <2> QED BY <1>7, <1>9, <2>1, StepInv DEF WaitUnread
<1> QED BY <1>4, <1>5, <1>8, <1>9

LEMMA ConcludeInv ==
  ASSUME TypeInv, NEW r \in Runs, Conclude(r) PROVE TypeInv'
<1>1. TypeOK /\ run[r].pc = "conclude" /\ run[r].err \in BOOLEAN
  BY Known DEF Conclude, Memory
<1>2. PICK x : Becomes(r, x) /\ Fine(x, r) BY <1>1, ConcludesFine DEF Conclude
<1>3. net' \subseteq Requests /\ faults' \in Nat
  BY <1>1, SpendType DEF Conclude, TypeOK
<1> QED BY <1>2, <1>3, StepInv DEF Conclude

LEMMA StartOtherInv ==
  ASSUME TypeInv, NEW r \in Runs, NEW p \in Runs,
         StartRecover(r, p) \/ StartTeardown(r, p)
  PROVE  TypeInv'
<1> DEFINE m == run[r]
           k == receipt[p]
           c == [m EXCEPT !.mode = "recover", !.op = p, !.book = k.recs,
                          !.intents = k.intents, !.status = "recovering",
                          !.pc = "save", !.cont = "scan"]
           d == [m EXCEPT !.mode = "teardown", !.op = p, !.book = k.recs,
                          !.own = k.recs, !.status = "tearing-down",
                          !.pc = "tscan"]
<1>1. /\ TypeOK /\ m \in Memory /\ m.pc = "idle"
      /\ m.asked = None /\ m.answer = NoAnswer
  BY Known DEF StartRecover, StartTeardown, MayStart, Sent
<1>2. k \in Receipts BY <1>1 DEF StartRecover, StartTeardown, Binds, TypeOK
<1>3. k.recs \in Books /\ k.intents \in SUBSET Objs BY <1>2 DEF Receipts
<1> HIDE DEF k
<1>4. Fine(c, r)
  <2>1. /\ c \in Memory /\ c.pc = "save" /\ c.cont = "scan"
        /\ c.asked = None /\ c.answer = NoAnswer
    BY <1>1, <1>3 DEF Memory, PCs, Conts, Modes, Statuses
  <2> HIDE DEF c
  <2> QED BY <2>1, QuietFine DEF Sent, Creating, Stripping, Checking
<1>5. Fine(d, r)
  <2>1. /\ d \in Memory /\ d.pc = "tscan"
        /\ d.asked = None /\ d.answer = NoAnswer
    BY <1>1, <1>3 DEF Memory, PCs, Modes, Statuses
  <2> HIDE DEF d
  <2> QED BY <2>1, QuietFine DEF Sent, Creating, Stripping, Checking
<1>6. PICK x : Becomes(r, x) /\ Fine(x, r)
  BY <1>4, <1>5 DEF StartRecover, StartTeardown, k
<1> QED BY <1>6, LocalStepInv DEF StartRecover, StartTeardown

LEMMA ScanInv ==
  ASSUME TypeInv, NEW r \in Runs,
         Scan(r) \/ ScanUnread(r) \/ ScanTeardown(r)
  PROVE  TypeInv'
<1> DEFINE m == run[r]
           n == m.at
           f(st) == [m.own EXCEPT ![n] = [uid |-> live[n].uid, st |-> st]]
<1>1. TypeOK /\ m \in Memory /\ n \in Objs BY Known
<1>2. m.own \in Books /\ m.err \in BOOLEAN BY <1>1 DEF Memory
<1>3. live[n] # None => f("not-started") \in Books /\ f("removed") \in Books
  <2> SUFFICES ASSUME live[n] # None
               PROVE  f("not-started") \in Books /\ f("removed") \in Books
    OBVIOUS
  <2>1. live[n].uid \in Uids BY <1>1, Known DEF Objects
  <2>2. "not-started" \in Removal /\ "removed" \in Removal BY DEF Removal
  <2> QED BY <1>1, <1>2, <2>1, <2>2, SetBookType
<1>4. CASE Scan(r)
  <2>1. m.pc = "scan" BY <1>4 DEF Scan
  <2> HIDE DEF f
  <2>2. /\ Fine(Scanned(m, m.own, m.err), r) /\ Fine(Scanned(m, m.own, TRUE), r)
        /\ live[n] # None => /\ Fine(Scanned(m, f("not-started"), m.err), r)
                             /\ Fine(Scanned(m, f("removed"), m.err), r)
    BY <1>2, <1>3, <2>1, ScannedFine
  <2>3. PICK x : Becomes(r, x) /\ Fine(x, r) BY <1>4, <2>2 DEF Scan, f
  <2> QED BY <1>4, <2>3, LocalStepInv DEF Scan
<1>5. CASE ScanUnread(r)
  <2>1. PICK x : Becomes(r, x) /\ Fine(x, r)
    BY <1>2, <1>5, ScannedFine DEF ScanUnread
  <2>2. net' \subseteq Requests /\ faults' \in Nat
    BY <1>1, <1>5, SpendType DEF ScanUnread, TypeOK
  <2> QED BY <1>5, <2>1, <2>2, StepInv DEF ScanUnread
<1>6. CASE ScanTeardown(r)
  <2> DEFINE e == m.err \/ ~(live[n] = None
                    \/ (StillMine(live[n], m.own[n]) /\ live[n].tag = None))
  <2>1. e \in BOOLEAN /\ m.pc = "tscan" BY <1>2, <1>6 DEF ScanTeardown
  <2>2. Becomes(r, TornScan(m, e)) \/ Becomes(r, TornScan(m, TRUE))
    BY <1>6 DEF ScanTeardown
  <2> HIDE DEF e
  <2>3. PICK x : Becomes(r, x) /\ Fine(x, r) BY <2>1, <2>2, TornScanFine
  <2>4. net' \subseteq Requests /\ faults' \in Nat
    BY <1>1, <1>6, SpendType DEF ScanTeardown, TypeOK
  <2> QED BY <1>6, <2>3, <2>4, StepInv DEF ScanTeardown
<1> QED BY <1>4, <1>5, <1>6

\* Part 3.  Type correctness.

LEMMA InitInv == Init => TypeInv
<1> SUFFICES ASSUME Init PROVE TypeInv
  OBVIOUS
<1>1. \A r \in Runs : run[r] = Unstarted(r) /\ Unstarted(r) \in Memory
  BY UnstartedType DEF Init
<1>2. \A r \in Runs : Fine(run[r], r)
  <2> SUFFICES ASSUME NEW r \in Runs PROVE Fine(run[r], r)
    OBVIOUS
  <2>1. /\ Unstarted(r).pc = "idle" /\ Unstarted(r).asked = None
        /\ Unstarted(r).answer = NoAnswer
    BY DEF Unstarted
  <2> QED BY <1>1, <2>1, QuietFine DEF Sent, Creating, Stripping, Checking
<1> QED BY <1>1, <1>2 DEF Init, TypeInv, TypeOK

LEMMA NextInv == TypeInv /\ [Next]_vars => TypeInv'
<1> SUFFICES ASSUME TypeInv, [Next]_vars PROVE TypeInv'
  OBVIOUS
<1>1. ASSUME NEW r \in Runs, Work(r) PROVE TypeInv'
  BY <1>1, PersistInv, CheckAbsentInv, SendCreateInv, CreatingInv,
     MarkIntentInv, SendPatchInv, StrippingInv, CheckFinalInv, SendDeleteInv,
     RollbackInv, DeletedInv, WaitInv, ConcludeInv, ScanInv
  DEF Work
<1>2. ASSUME NEW r \in Runs, Fail(r) PROVE TypeInv'
  BY <1>2, PersistFailsInv, CreatingInv, StrippingInv, InterruptInv,
     RollbackInv, DeletedInv, WaitInv, ScanInv
  DEF Fail
<1>3. CASE UNCHANGED vars BY <1>3 DEF vars, TypeInv, TypeOK
<1> QED BY <1>1, <1>2, <1>3, StartLiveInv, StartOtherInv, OthersInv, ServeInv DEF Next

\* Every state of the transaction is well typed: each cursor names an object,
\* each book holds records, and a bound answer carries the object it claims.
THEOREM TypeCorrect == Spec => []TypeOK
<1>1. TypeInv => TypeOK BY DEF TypeInv
<1> QED BY <1>1, InitInv, NextInv, PTL DEF Spec

\* Part 4.  Who owns what.  Every UID a run may delete was made by the
\* operation it works for, because each of the three ways to learn a UID
\* proves it: an answer to the own POST, the own nonce, a durable record.

Owned(b, op) == \A n \in Objs : b[n] # None => b[n].uid.by = op

\* The phases in which a run has looked for, or makes, its objects.
Posting(m) ==
  \/ m.pc = "absent" \/ Creating(m)
  \/ m.pc = "save" /\ m.cont = "absent"

\* c is the receipt of run r.
Own(m, r, c) ==
  /\ m.mode = "live" => m.op = r
  /\ Posting(m) => m.mode = "live"
  /\ Owned(m.book, m.op) /\ Owned(m.own, m.op)
  /\ \A n \in m.todo : m.own[n] # None
  /\ m.pc = "create-sent" /\ m.answer.code = "ok" => m.answer.obj.uid.by = r
  /\ m.pc = "idle" => m = Unstarted(r)
  /\ m.pc = "save" => m.cont # "idle"
  /\ Creating(m) => m.status = "creating"
  /\ m.pc \in {"create", "create-sent", "discover"} =>
       c # None /\ c.mode = "live" /\ c.status = "creating"

Rightful(q) ==
  /\ q.kind = "create" => q.op = q.run
  /\ q.kind = "delete" => q.uid.by = q.op

OwnInv ==
  /\ TypeInv
  /\ \A r \in Runs : Own(run[r], r, receipt[r])
  /\ \A p \in Runs : receipt[p] # None =>
       /\ receipt[p].mode = "live" => receipt[p].op = p
       /\ Owned(receipt[p].recs, receipt[p].op)
  /\ \A n \in Objs : live[n] # None /\ live[n].tag # None =>
       live[n].uid.by = live[n].tag
  /\ \A q \in net : Rightful(q)

LEMMA NoBookOwned == \A op : Owned(NoBook, op)
BY DEF Owned, NoBook

\* A step of one run that leaves the cluster and the receipts alone.
LEMMA OwnStep ==
  ASSUME OwnInv, TypeInv', NEW r \in Runs, NEW m,
         Becomes(r, m), Own(m, r, receipt[r]),
         UNCHANGED <<live, receipt>>, \A q \in net' \ net : Rightful(q)
  PROVE  OwnInv'
<1>1. \A s \in Runs : run'[s] = IF s = r THEN m ELSE run[s]
  BY DEF Becomes, OwnInv, TypeInv, TypeOK
<1>2. \A s \in Runs : Own(run'[s], s, receipt'[s]) BY <1>1 DEF OwnInv
<1>3. \A q \in net' : Rightful(q) BY DEF OwnInv
<1> QED BY <1>2, <1>3 DEF OwnInv

\* Moving on without learning or forgetting an object.
LEMMA OwnKeep ==
  ASSUME OwnInv, NEW r \in Runs, NEW m,
         m.mode = run[r].mode, m.op = run[r].op, m.book = run[r].book,
         m.own = run[r].own, m.todo \subseteq run[r].todo,
         m.pc \notin {"idle", "absent", "create", "create-sent", "discover"},
         m.pc = "save" => m.cont \notin {"idle", "absent", "create"}
  PROVE  Own(m, r, receipt[r])
BY DEF OwnInv, Own, Posting, Creating

LEMMA GoneOwn ==
  ASSUME OwnInv, NEW r \in Runs, NEW pc \in {"done", "crashed"}
  PROVE  Own(Gone(r, pc), r, receipt[r])
<1> DEFINE u == Unstarted(r)
           g == [u EXCEPT !.pc = pc, !.mode = run[r].mode, !.op = run[r].op,
                          !.status = run[r].status]
<1>1. u \in Memory /\ u.book = NoBook /\ u.own = NoBook /\ u.todo = {}
  BY UnstartedType DEF Unstarted
<1> HIDE DEF u
<1>2. /\ g.pc = pc /\ g.book = NoBook /\ g.own = NoBook /\ g.todo = {}
      /\ g.mode = run[r].mode /\ g.op = run[r].op
  BY <1>1 DEF Memory
<1> HIDE DEF g
<1>3. run[r].mode = "live" => run[r].op = r BY DEF OwnInv, Own
<1>4. Own(g, r, receipt[r]) BY <1>2, <1>3, NoBookOwned DEF Own, Posting, Creating
<1> QED BY <1>4 DEF Gone, g, u

LEMMA AbortOwn ==
  ASSUME OwnInv, NEW r \in Runs, NEW e \in BOOLEAN
  PROVE  Own(Abort(r, e), r, receipt[r])
<1> DEFINE m == run[r]
           c == Abort(r, e)
<1>1. m \in Memory /\ Own(m, r, receipt[r]) BY Known DEF OwnInv
<1>2. /\ c.pc = "rollback" /\ c.mode = m.mode /\ c.op = m.op
      /\ c.book = m.book /\ c.own = m.book
      /\ c.todo = {n \in Objs : m.book[n] # None}
  BY <1>1 DEF Abort, Memory
<1> HIDE DEF c
<1>3. Own(c, r, receipt[r]) BY <1>1, <1>2 DEF Own, Posting, Creating
<1> QED BY <1>3 DEF c

LEMMA CreatedOwn ==
  ASSUME OwnInv, NEW r \in Runs, NEW o \in Objects, Creating(run[r]),
         o.uid.by = r
  PROVE  Own(Created(r, o), r, receipt[r])
<1> DEFINE m == run[r]
           x == [uid |-> o.uid, st |-> "not-started"]
           b == [m.book EXCEPT ![m.at] = x]
           c == Created(r, o)
<1>1. m \in Memory /\ Own(m, r, receipt[r]) /\ m.book \in Books
  BY Known DEF OwnInv, Memory
<1>2. m.mode = "live" /\ m.op = r /\ m.status = "creating" BY <1>1 DEF Own, Posting
<1>3. Owned(b, r)
  <2>1. x.uid.by = r OBVIOUS
  <2> HIDE DEF x
  <2> QED BY <1>1, <1>2, <2>1 DEF Own, Owned, Books
<1>4. /\ c.pc = "save" /\ c.mode = m.mode /\ c.op = m.op /\ c.own = m.own
      /\ c.todo = m.todo /\ c.book = b /\ c.status = m.status
      /\ c.cont \in {"create", "intent"}
  BY <1>1 DEF Created, Memory
<1> HIDE DEF b, c
<1>5. Own(c, r, receipt[r]) BY <1>1, <1>2, <1>3, <1>4 DEF Own
<1> QED BY <1>5 DEF c

LEMMA RestampOwn ==
  ASSUME NEW b \in Books, NEW n \in Objs, NEW st \in Removal, NEW op \in Runs,
         b[n] # None, Owned(b, op)
  PROVE  Owned([b EXCEPT ![n].st = st], op)
<1> DEFINE d == [b EXCEPT ![n].st = st]
<1>1. d[n].uid = b[n].uid BY DEF Books, Records
<1>2. \A k \in Objs : k # n => d[k] = b[k] BY DEF Books
<1> HIDE DEF d
<1>3. Owned(d, op) BY <1>1, <1>2 DEF Owned
<1> QED BY <1>3 DEF d

LEMMA RemovedOwn ==
  ASSUME OwnInv, NEW r \in Runs, Stripping(run[r])
  PROVE  Own(Removed(r), r, receipt[r])
<1> DEFINE m == run[r]
           b == [m.book EXCEPT ![m.at].st = "removed"]
           c == Removed(r)
<1>1. /\ m \in Memory /\ Own(m, r, receipt[r]) /\ m.book \in Books
      /\ m.at \in Objs /\ m.op \in Runs /\ Progress(m)
  BY Known DEF OwnInv, Memory
<1>2. m.book[m.at] # None
  <2>1. Stripping(m) OBVIOUS
  <2> HIDE DEF m
  <2> QED BY <1>1, <2>1 DEF Progress
<1>3. Owned(b, m.op)
  <2>1. "removed" \in Removal /\ Owned(m.book, m.op) BY <1>1 DEF Removal, Own
  <2> QED BY <1>1, <1>2, <2>1, RestampOwn
<1>4. /\ c.pc = "save" /\ c.mode = m.mode /\ c.op = m.op /\ c.own = m.own
      /\ c.todo = m.todo /\ c.book = b /\ c.cont \in {"intent", "final"}
  BY <1>1 DEF Removed, Memory
<1> HIDE DEF b, c
<1>5. Own(c, r, receipt[r]) BY <1>1, <1>3, <1>4 DEF Own, Posting, Creating
<1> QED BY <1>5 DEF c

LEMMA RetryOwn ==
  ASSUME OwnInv, NEW r \in Runs, run[r].pc = "patch-sent"
  PROVE  Own(Retry(r), r, receipt[r])
<1> DEFINE m == run[r]
           c == [m EXCEPT !.pc = "strip", !.tries = @ + 1, !.asked = None,
                          !.answer = NoAnswer]
<1>1. m \in Memory BY Known DEF OwnInv
<1>2. /\ c.pc = "strip" /\ c.mode = m.mode /\ c.op = m.op /\ c.book = m.book
      /\ c.own = m.own /\ c.todo = m.todo
  BY <1>1 DEF Memory
<1> HIDE DEF c
<1>3. Own(c, r, receipt[r]) BY <1>2, OwnKeep
<1> QED BY <1>3, AbortOwn DEF Retry, c

LEMMA AbandonedRightful ==
  ASSUME OwnInv, NEW r \in Runs, net' = Abandoned(r)
  PROVE  \A q \in net' \ net : Rightful(q)
BY DEF Abandoned

LEMMA ReplyOwn ==
  ASSUME OwnInv, NEW q \in net, NEW code \in {"ok", "conflict"},
         NEW o \in Objects \cup {None}, Reply(q, code, o),
         q.kind = "create" /\ code = "ok" => o.uid.by = q.run
  PROVE  \A s \in Runs : Own(run'[s], s, receipt[s])
<1>1. /\ q \in Requests /\ q.run \in Runs /\ q # None
      /\ run \in [Runs -> Memory] /\ run[q.run] \in Memory
      /\ Asking(run[q.run], q.run)
  BY NoneIsApart DEF OwnInv, TypeInv, TypeOK, Requests, Fine
<1>2. CASE run[q.run].asked # q BY <1>2 DEF Reply, OwnInv
<1>3. CASE run[q.run].asked = q
  <2> DEFINE r == q.run
             m == run[r]
             a == [code |-> code, obj |-> o]
             c == [m EXCEPT !.answer = a]
  <2>1. \A s \in Runs : run'[s] = IF s = r THEN c ELSE run[s]
    BY <1>1, <1>3 DEF Reply
  <2>2. /\ c.pc = m.pc /\ c.cont = m.cont /\ c.mode = m.mode /\ c.op = m.op
        /\ c.book = m.book /\ c.own = m.own /\ c.todo = m.todo
        /\ c.status = m.status /\ c.answer = a
    BY <1>1 DEF Memory
  <2>3. Own(m, r, receipt[r]) /\ m.pc \in Sent BY <1>1, <1>3 DEF OwnInv, Asking
  <2>4. m.pc = "create-sent" => q.kind = "create" BY <1>1, <1>3 DEF Asking
  <2>5. a.code = code /\ a.obj = o OBVIOUS
  <2> HIDE DEF c, a
  <2>6. Own(c, r, receipt[r])
    BY <2>2, <2>3, <2>4, <2>5 DEF Own, Posting, Creating, Sent
  <2> QED BY <2>1, <2>6 DEF OwnInv
<1> QED BY <1>2, <1>3

LEMMA ServeOwn == ASSUME OwnInv, TypeInv', Serve PROVE OwnInv'
<1> PICK q \in net : ServeCreate(q) \/ ServePatch(q) \/ ServeDelete(q)
  BY DEF Serve
<1>1. /\ q \in Requests /\ q.obj \in Objs /\ rev \in Nat
      /\ live \in [Objs -> Objects \cup {None}]
      /\ net' \subseteq net /\ receipt' = receipt /\ Rightful(q)
  BY DEF OwnInv, TypeInv, TypeOK, Requests, ServeCreate, ServePatch, ServeDelete
<1>2. SUFFICES
        /\ \A s \in Runs : Own(run'[s], s, receipt[s])
        /\ \A n \in Objs : live'[n] # None /\ live'[n].tag # None =>
             live'[n].uid.by = live'[n].tag
  BY <1>1, <1>2 DEF OwnInv
<1>3. CASE ServeCreate(q)
  <2> DEFINE o == [uid |-> [by |-> q.run, rev |-> rev], tag |-> q.op,
                   exact |-> TRUE, rv |-> rev, going |-> FALSE,
                   touched |-> FALSE]
  <2>1. o \in Objects /\ o.uid.by = q.run /\ o.tag = q.op /\ q.op = q.run
    BY <1>1, <1>3 DEF Objects, Uids, Requests, Rightful, ServeCreate
  <2>2. CASE live[q.obj] = None
    <3>1. live' = [live EXCEPT ![q.obj] = o] /\ Reply(q, "ok", o)
      BY <1>3, <2>2 DEF ServeCreate
    <3> HIDE DEF o
    <3>2. \A s \in Runs : Own(run'[s], s, receipt[s]) BY <2>1, <3>1, ReplyOwn
    <3> QED BY <1>1, <2>1, <3>1, <3>2 DEF OwnInv
  <2>3. CASE live[q.obj] # None
    <3>1. Reply(q, "conflict", None) /\ live' = live BY <1>3, <2>3 DEF ServeCreate
    <3> QED BY <3>1, ReplyOwn DEF OwnInv
  <2> QED BY <2>2, <2>3
<1>4. CASE ServePatch(q)
  <2> DEFINE o == [live[q.obj] EXCEPT !.tag = None, !.rv = rev]
  <2>0. q.kind = "patch" BY <1>4 DEF ServePatch
  <2>1. CASE Matches(q, live[q.obj]) /\ live[q.obj].tag = q.op
    <3>1. o \in Objects /\ o.tag = None BY <1>1, <2>1 DEF Objects, Matches
    <3>2. live' = [live EXCEPT ![q.obj] = o] /\ Reply(q, "ok", o)
      BY <1>4, <2>1 DEF ServePatch
    <3> HIDE DEF o
    <3>3. \A s \in Runs : Own(run'[s], s, receipt[s]) BY <2>0, <3>1, <3>2, ReplyOwn
    <3> QED BY <1>1, <3>1, <3>2, <3>3 DEF OwnInv
  <2>2. CASE ~(Matches(q, live[q.obj]) /\ live[q.obj].tag = q.op)
    <3>1. Reply(q, "conflict", None) /\ live' = live BY <1>4, <2>2 DEF ServePatch
    <3> QED BY <3>1, ReplyOwn DEF OwnInv
  <2> QED BY <2>1, <2>2
<1>5. CASE ServeDelete(q)
  <2>1. q.kind = "delete" /\ (Reply(q, "ok", None) \/ Reply(q, "conflict", None))
    BY <1>5 DEF ServeDelete
  <2>2. \A s \in Runs : Own(run'[s], s, receipt[s]) BY <2>1, ReplyOwn
  <2>3. \A n \in Objs : live'[n] # None =>
          /\ live[n] # None
          /\ live'[n].tag = live[n].tag /\ live'[n].uid = live[n].uid
    <3> DEFINE o == [live[q.obj] EXCEPT !.going = TRUE, !.rv = rev]
    <3>1. live[q.obj] # None => o.tag = live[q.obj].tag /\ o.uid = live[q.obj].uid
      BY <1>1 DEF Objects
    <3>2. \/ live' = live
          \/ live' = [live EXCEPT ![q.obj] = None]
          \/ live[q.obj] # None /\ live' = [live EXCEPT ![q.obj] = o]
      <4>1. [live EXCEPT ![q.obj] = o]
              = [live EXCEPT ![q.obj].going = TRUE, ![q.obj].rv = rev]
        BY <1>1
      <4> QED BY <1>5, <4>1 DEF ServeDelete, Matches
    <3> HIDE DEF o
    <3> QED BY <1>1, <3>1, <3>2
  <2> QED BY <2>2, <2>3 DEF OwnInv
<1> QED BY <1>3, <1>4, <1>5

LEMMA OthersOwn ==
  ASSUME OwnInv, TypeInv', NEW n \in Objs, FinishDelete(n) \/ Others(n)
  PROVE  OwnInv'
<1>1. live \in [Objs -> Objects \cup {None}] /\ UNCHANGED <<net, receipt, run>>
  BY DEF OwnInv, TypeInv, TypeOK, FinishDelete, Others, ForeignCreate,
         ForeignDelete, ControllerTouch, ForeignStrip, ForeignEdit, WriteByOthers
<1>2. PICK o : live' = [live EXCEPT ![n] = o]
  BY DEF FinishDelete, Others, ForeignCreate, ForeignDelete, ControllerTouch,
         ForeignStrip, ForeignEdit, WriteByOthers
<1>3. live'[n] # None /\ live'[n].tag # None =>
        live[n] # None /\ live[n].tag # None
          /\ live'[n].tag = live[n].tag /\ live'[n].uid = live[n].uid
  <2>1. CASE FinishDelete(n) BY <1>1, <2>1 DEF FinishDelete
  <2>2. CASE ForeignCreate(n) BY <1>1, <2>2 DEF ForeignCreate, WriteByOthers
  <2>3. CASE ForeignDelete(n) BY <1>1, <2>3 DEF ForeignDelete, WriteByOthers
  <2>4. CASE ControllerTouch(n)
    BY <1>1, <2>4 DEF ControllerTouch, WriteByOthers, Objects
  <2>5. CASE ForeignStrip(n) BY <1>1, <2>5 DEF ForeignStrip, WriteByOthers, Objects
  <2>6. CASE ForeignEdit(n) BY <1>1, <2>6 DEF ForeignEdit, WriteByOthers, Objects
  <2> QED BY <2>1, <2>2, <2>3, <2>4, <2>5, <2>6 DEF Others
<1>4. \A k \in Objs : k # n => live'[k] = live[k] BY <1>1, <1>2
<1> QED BY <1>1, <1>3, <1>4 DEF OwnInv

\* A committed receipt holds what its run knew.
LEMMA CommitOwn ==
  ASSUME OwnInv, TypeInv', NEW r \in Runs, run[r].pc = "save", NEW x,
         Becomes(r, x), UNCHANGED <<live, net>>,
         \/ UNCHANGED receipt /\ Own(x, r, receipt[r])
         \/ /\ receipt' = [receipt EXCEPT ![r] = ReceiptOf(r)]
            /\ Own(x, r, ReceiptOf(r))
  PROVE  OwnInv'
<1>1. /\ run \in [Runs -> Memory] /\ receipt \in [Runs -> Receipts \cup {None}]
      /\ Own(run[r], r, receipt[r])
  BY DEF OwnInv, TypeInv, TypeOK
<1>2. CASE UNCHANGED receipt /\ Own(x, r, receipt[r]) BY <1>2, OwnStep
<1>3. CASE /\ receipt' = [receipt EXCEPT ![r] = ReceiptOf(r)]
           /\ Own(x, r, ReceiptOf(r))
  <2> DEFINE c == ReceiptOf(r)
  <2>1. c.mode = run[r].mode /\ c.op = run[r].op /\ c.recs = run[r].book
    BY DEF ReceiptOf
  <2>2. (c.mode = "live" => c.op = r) /\ Owned(c.recs, c.op) BY <1>1, <2>1 DEF Own
  <2> HIDE DEF c
  <2>3. \A s \in Runs : /\ run'[s] = IF s = r THEN x ELSE run[s]
                        /\ receipt'[s] = IF s = r THEN c ELSE receipt[s]
    BY <1>1, <1>3 DEF Becomes, c
  <2>4. \A s \in Runs : Own(run'[s], s, receipt'[s]) BY <1>3, <2>3 DEF OwnInv, c
  <2>5. \A s \in Runs : receipt'[s] # None =>
          /\ receipt'[s].mode = "live" => receipt'[s].op = s
          /\ Owned(receipt'[s].recs, receipt'[s].op)
    BY <2>2, <2>3 DEF OwnInv
  <2> QED BY <2>4, <2>5 DEF OwnInv
<1> QED BY <1>2, <1>3

\* Own speaks of the receipt only while creating.
LEMMA OtherReceiptOwn ==
  ASSUME NEW m, NEW r, NEW c, NEW d, Own(m, r, c),
         m.pc \notin {"create", "create-sent", "discover"}
  PROVE  Own(m, r, d)
BY DEF Own

LEMMA PersistOwn ==
  ASSUME OwnInv, TypeInv', NEW r \in Runs, Persist(r) PROVE OwnInv'
<1> DEFINE m == run[r]
           g == m.guarded \/ m.cont = "create"
           x == [m EXCEPT !.pc = m.cont, !.guarded = g]
<1>1. m \in Memory /\ m.pc = "save" /\ Own(m, r, receipt[r])
  BY Known DEF OwnInv, Persist
<1> HIDE DEF g
<1>2. /\ x.pc = m.cont /\ x.cont = m.cont /\ x.mode = m.mode /\ x.op = m.op
      /\ x.book = m.book /\ x.own = m.own /\ x.todo = m.todo
      /\ x.status = m.status
  BY <1>1 DEF Memory
<1>3. m.cont \in Conts /\ m.cont # "idle" BY <1>1 DEF Own, Memory
<1>4. /\ ReceiptOf(r).mode = m.mode /\ ReceiptOf(r).status = m.status
      /\ ReceiptOf(r) # None
  <2>1. ReceiptOf(r) \in Receipts BY <1>1 DEF ReceiptOf, Receipts, Memory
  <2> QED BY <2>1, NoneIsApart DEF ReceiptOf
<1> HIDE DEF x
<1>5. m.cont # "done" => Own(x, r, ReceiptOf(r))
  BY <1>1, <1>2, <1>3, <1>4 DEF Own, Posting, Creating, Conts
<1>6. Own(Exit(r), r, ReceiptOf(r))
  <2>1. Exit(r).pc = "done" BY UnstartedType DEF Exit, Gone, Memory
  <2> QED BY <2>1, GoneOwn, OtherReceiptOwn DEF Exit
<1>7. PICK y : Becomes(r, y) /\ Own(y, r, ReceiptOf(r))
  BY <1>5, <1>6 DEF Persist, x, g
<1> QED BY <1>1, <1>7, CommitOwn DEF Persist

LEMMA PersistFailsOwn ==
  ASSUME OwnInv, TypeInv', NEW r \in Runs, PersistFails(r) PROVE OwnInv'
<1>1. run[r] \in Memory BY Known DEF OwnInv
<1>2. Exit(r).pc = "done" /\ Abort(r, FALSE).pc = "rollback"
  BY <1>1, UnstartedType DEF Exit, Gone, Abort, Memory
<1>3. PICK y : Becomes(r, y) /\ Own(y, r, receipt[r]) /\ Own(y, r, ReceiptOf(r))
  BY <1>2, GoneOwn, AbortOwn, OtherReceiptOwn DEF PersistFails, Exit
<1> QED BY <1>3, CommitOwn DEF PersistFails

LEMMA CreateOwn ==
  ASSUME OwnInv, TypeInv', NEW r \in Runs,
         \/ CheckAbsent(r) \/ SendCreate(r) \/ BindAnswer(r)
         \/ CreateUncertain(r) \/ Discover(r)
  PROVE  OwnInv'
<1> DEFINE m == run[r]
<1>1. /\ TypeOK /\ m \in Memory /\ m.at \in Objs /\ Own(m, r, receipt[r])
      /\ Asking(m, r)
  BY Known DEF OwnInv
<1>2. CASE CheckAbsent(r)
  <2> DEFINE c == [m EXCEPT !.at = m.at + 1]
             d == [m EXCEPT !.pc = "save", !.cont = "create", !.at = 1,
                            !.status = "creating"]
  <2>1. m.pc = "absent" /\ m.mode = "live"
    BY <1>1, <1>2 DEF CheckAbsent, Own, Posting
  <2>2. /\ c.pc = "absent" /\ c.mode = m.mode /\ c.op = m.op
        /\ c.book = m.book /\ c.own = m.own /\ c.todo = m.todo
        /\ d.pc = "save" /\ d.cont = "create" /\ d.status = "creating"
        /\ d.mode = m.mode /\ d.op = m.op
        /\ d.book = m.book /\ d.own = m.own /\ d.todo = m.todo
    BY <1>1, <2>1 DEF Memory
  <2> HIDE DEF c, d
  <2>3. Own(c, r, receipt[r]) /\ Own(d, r, receipt[r])
    BY <1>1, <2>1, <2>2 DEF Own, Posting, Creating
  <2>4. PICK y : Becomes(r, y) /\ Own(y, r, receipt[r])
    BY <1>2, <2>3, GoneOwn DEF CheckAbsent, Exit, c, d
  <2> QED BY <1>2, <2>4, OwnStep DEF CheckAbsent
<1>3. CASE SendCreate(r)
  <2> DEFINE q == Request(r, "create", m.at, None, 0)
             c == [m EXCEPT !.pc = "create-sent", !.asked = q,
                            !.answer = NoAnswer]
  <2>1. q.kind = "create" /\ q.run = r /\ q.op = m.op BY DEF Request
  <2>2. m.pc = "create" /\ m.op = r
    BY <1>1, <1>3 DEF SendCreate, Own, Posting, Creating
  <2>3. Rightful(q) BY <2>1, <2>2 DEF Rightful
  <2>4. net' = net \cup {q} /\ Becomes(r, c) /\ UNCHANGED <<live, receipt>>
    BY <1>3 DEF SendCreate, Send
  <2>5. /\ c.pc = "create-sent" /\ c.answer = NoAnswer /\ c.mode = m.mode
        /\ c.op = m.op /\ c.book = m.book /\ c.own = m.own
        /\ c.todo = m.todo /\ c.status = m.status
    BY <1>1 DEF Memory
  <2> HIDE DEF c, q
  <2>6. Own(c, r, receipt[r])
    BY <1>1, <2>2, <2>5 DEF Own, Posting, Creating, NoAnswer
  <2> QED BY <2>3, <2>4, <2>6, OwnStep
<1>4. CASE BindAnswer(r)
  <2>1. m.pc = "create-sent" /\ Creating(m) BY <1>4 DEF BindAnswer, Creating
  <2>2. m.answer.code = "ok" =>
          m.answer.obj \in Objects /\ m.answer.obj.uid.by = r
    BY <1>1, <2>1 DEF Asking, Own
  <2>3. PICK y : Becomes(r, y) /\ Own(y, r, receipt[r])
    BY <1>4, <2>1, <2>2, CreatedOwn, AbortOwn DEF BindAnswer
  <2> QED BY <1>4, <2>3, OwnStep DEF BindAnswer
<1>5. CASE CreateUncertain(r)
  <2> DEFINE c == [m EXCEPT !.pc = "discover", !.asked = None,
                            !.answer = NoAnswer]
  <2>1. m.pc = "create-sent" /\ Becomes(r, c) BY <1>5 DEF CreateUncertain
  <2>2. /\ c.pc = "discover" /\ c.mode = m.mode
        /\ c.op = m.op /\ c.book = m.book /\ c.own = m.own
        /\ c.todo = m.todo /\ c.status = m.status
    BY <1>1 DEF Memory
  <2> HIDE DEF c
  <2>3. Own(c, r, receipt[r]) BY <1>1, <2>1, <2>2 DEF Own, Posting, Creating
  <2>4. \A q \in net' \ net : Rightful(q)
    BY <1>5, AbandonedRightful DEF CreateUncertain
  <2> QED BY <1>5, <2>1, <2>3, <2>4, OwnStep DEF CreateUncertain
<1>6. CASE Discover(r)
  <2>1. Creating(m) BY <1>6 DEF Discover, Creating
  <2>2. live[m.at] # None /\ live[m.at].tag = r =>
          live[m.at] \in Objects /\ live[m.at].uid.by = r
    BY <1>1, Known, ConstantsOK DEF OwnInv
  <2>3. PICK y : Becomes(r, y) /\ Own(y, r, receipt[r])
    BY <1>6, <2>1, <2>2, CreatedOwn, AbortOwn DEF Discover
  <2> QED BY <1>6, <2>3, OwnStep DEF Discover
<1> QED BY <1>2, <1>3, <1>4, <1>5, <1>6

LEMMA StripOwn ==
  ASSUME OwnInv, TypeInv', NEW r \in Runs,
         \/ MarkIntent(r) \/ SendPatch(r) \/ NothingToPatch(r)
         \/ PatchAnswered(r) \/ PatchUncertain(r) \/ CheckFinal(r)
  PROVE  OwnInv'
<1> DEFINE m == run[r]
<1>1. /\ TypeOK /\ m \in Memory /\ m.at \in Objs /\ Own(m, r, receipt[r])
      /\ Progress(m) /\ TypeInv
  BY Known DEF OwnInv
<1>2. CASE MarkIntent(r)
  <2> DEFINE b == [m.book EXCEPT ![m.at].st = "intent-durable"]
             c == [m EXCEPT !.book = b,
                            !.intents = m.intents \cup {m.at}, !.tries = 0,
                            !.status = "removing-nonces",
                            !.pc = "save", !.cont = "strip"]
  <2>1. m.book[m.at] # None
    <3>1. Stripping(m) BY <1>2 DEF MarkIntent, Stripping
    <3> HIDE DEF m
    <3> QED BY <1>1, <3>1 DEF Progress
  <2>2. Owned(b, m.op)
    <3>1. /\ "intent-durable" \in Removal /\ Owned(m.book, m.op)
          /\ m.book \in Books /\ m.op \in Runs
      BY <1>1 DEF Removal, Own, Memory
    <3> QED BY <1>1, <2>1, <3>1, RestampOwn
  <2>3. Becomes(r, c) BY <1>2 DEF MarkIntent
  <2> HIDE DEF b
  <2>4. /\ c.pc = "save" /\ c.cont = "strip" /\ c.mode = m.mode
        /\ c.op = m.op /\ c.book = b /\ c.own = m.own /\ c.todo = m.todo
    BY <1>1 DEF Memory
  <2> HIDE DEF c
  <2>5. Own(c, r, receipt[r]) BY <1>1, <2>2, <2>4 DEF Own, Posting, Creating
  <2> QED BY <1>2, <2>3, <2>5, OwnStep DEF MarkIntent
<1>3. CASE SendPatch(r)
  <2> DEFINE q == Request(r, "patch", m.at, live[m.at].uid, live[m.at].rv)
             c == [m EXCEPT !.pc = "patch-sent", !.asked = q,
                            !.answer = NoAnswer]
  <2>1. Rightful(q) BY DEF Rightful, Request
  <2>2. net' = net \cup {q} /\ Becomes(r, c) /\ UNCHANGED <<live, receipt>>
    BY <1>3 DEF SendPatch, Send
  <2>3. /\ c.pc = "patch-sent" /\ c.mode = m.mode /\ c.op = m.op
        /\ c.book = m.book /\ c.own = m.own /\ c.todo = m.todo
    BY <1>1 DEF Memory
  <2> HIDE DEF c, q
  <2>4. Own(c, r, receipt[r]) BY <2>3, OwnKeep
  <2> QED BY <2>1, <2>2, <2>4, OwnStep
<1>4. CASE NothingToPatch(r) \/ PatchAnswered(r) \/ PatchUncertain(r)
  <2>1. Stripping(m)
    BY <1>4 DEF NothingToPatch, PatchAnswered, PatchUncertain, Stripping
  <2>2. PICK y : Becomes(r, y) /\ Own(y, r, receipt[r])
    BY <1>4, <2>1, RemovedOwn, AbortOwn, RetryOwn
    DEF NothingToPatch, PatchAnswered, PatchUncertain
  <2>3. \A q \in net' \ net : Rightful(q)
    BY <1>4, AbandonedRightful DEF NothingToPatch, PatchAnswered, PatchUncertain
  <2> QED BY <1>4, <2>2, <2>3, OwnStep
    DEF NothingToPatch, PatchAnswered, PatchUncertain
<1>5. CASE CheckFinal(r)
  <2> DEFINE c == [m EXCEPT !.at = m.at + 1]
             d == [m EXCEPT !.status = "dormant-ready", !.pc = "save",
                            !.cont = "done"]
  <2>1. m.pc = "final" BY <1>5 DEF CheckFinal
  <2>2. /\ c.pc = "final" /\ c.mode = m.mode /\ c.op = m.op
        /\ c.book = m.book /\ c.own = m.own /\ c.todo = m.todo
        /\ d.pc = "save" /\ d.cont = "done" /\ d.mode = m.mode /\ d.op = m.op
        /\ d.book = m.book /\ d.own = m.own /\ d.todo = m.todo
    BY <1>1, <2>1 DEF Memory
  <2> HIDE DEF c, d
  <2>3. Own(c, r, receipt[r]) /\ Own(d, r, receipt[r]) BY <2>2, OwnKeep
  <2>4. PICK y : Becomes(r, y) /\ Own(y, r, receipt[r])
    BY <1>5, <2>3, AbortOwn DEF CheckFinal, c, d
  <2> QED BY <1>5, <2>4, OwnStep DEF CheckFinal
<1> QED BY <1>2, <1>3, <1>4, <1>5

LEMMA EndOwn ==
  ASSUME OwnInv, TypeInv', NEW r \in Runs,
         \/ StartLive(r) \/ Raise(r) \/ Crash(r)
         \/ DeleteAnswered(r) \/ DeleteUncertain(r) \/ BeginWait(r)
         \/ WaitAbsent(r) \/ WaitDeadline(r) \/ WaitUnread(r) \/ Conclude(r)
         \/ Skip(r) \/ SkipUnread(r)
  PROVE  OwnInv'
<1> DEFINE m == run[r]
<1>1. m \in Memory /\ Own(m, r, receipt[r]) BY Known DEF OwnInv
<1>2. CASE StartLive(r)
  <2> DEFINE c == [m EXCEPT !.pc = "save", !.cont = "absent"]
  <2>1. m.pc = "idle" /\ m = Unstarted(r) /\ Becomes(r, c)
    BY <1>1, <1>2 DEF StartLive, MayStart, Own
  <2>2. m.mode = "live" BY <2>1 DEF Unstarted
  <2>3. /\ c.pc = "save" /\ c.cont = "absent" /\ c.mode = m.mode
        /\ c.op = m.op /\ c.book = m.book /\ c.own = m.own
        /\ c.todo = m.todo
    BY <1>1 DEF Memory
  <2> HIDE DEF c, m
  <2>4. Own(c, r, receipt[r]) BY <1>1, <2>2, <2>3 DEF Own, Posting, Creating
  <2> QED BY <1>2, <2>1, <2>4, OwnStep DEF StartLive
<1>3. CASE Raise(r) \/ Crash(r)
  <2>1. PICK y : Becomes(r, y) /\ Own(y, r, receipt[r])
    BY <1>3, AbortOwn, GoneOwn DEF Raise, Crash, Exit
  <2>2. \A q \in net' \ net : Rightful(q)
    BY <1>3, AbandonedRightful DEF Raise, Crash
  <2> QED BY <1>3, <2>1, <2>2, OwnStep DEF Raise, Crash
<1>4. CASE DeleteAnswered(r) \/ DeleteUncertain(r)
  <2>1. \A f \in BOOLEAN : Own(DeleteSettled(r, f), r, receipt[r])
    <3> SUFFICES ASSUME NEW f \in BOOLEAN
                 PROVE  Own(DeleteSettled(r, f), r, receipt[r])
      OBVIOUS
    <3> DEFINE c == DeleteSettled(r, f)
    <3>1. /\ c.pc = "rollback" /\ c.mode = m.mode /\ c.op = m.op
          /\ c.book = m.book /\ c.own = m.own /\ c.todo \subseteq m.todo
      BY <1>1 DEF DeleteSettled, Memory
    <3> HIDE DEF c
    <3>2. Own(c, r, receipt[r]) BY <3>1, OwnKeep
    <3> QED BY <3>2 DEF c
  <2>2. PICK y : Becomes(r, y) /\ Own(y, r, receipt[r])
    BY <1>4, <2>1 DEF DeleteAnswered, DeleteUncertain
  <2>3. \A q \in net' \ net : Rightful(q)
    BY <1>4, AbandonedRightful DEF DeleteAnswered, DeleteUncertain
  <2> QED BY <1>4, <2>2, <2>3, OwnStep DEF DeleteAnswered, DeleteUncertain
<1>5. CASE \/ BeginWait(r) \/ WaitAbsent(r) \/ WaitDeadline(r)
           \/ WaitUnread(r) \/ Conclude(r) \/ Skip(r) \/ SkipUnread(r)
  <2> DEFINE Kept(y) == /\ y.mode = m.mode /\ y.op = m.op
                        /\ y.book = m.book /\ y.own = m.own
                        /\ y.todo \subseteq m.todo
                        /\ y.pc \in {"wait", "conclude", "rollback", "save"}
                        /\ y.pc = "save" => y.cont = "done"
  <2>1. PICK y : Becomes(r, y) /\ Kept(y)
    <3>1. CASE BeginWait(r)
      <4> DEFINE c == [m EXCEPT !.pc = "wait", !.at = 1, !.tries = 0]
      <4>1. Kept(c) BY <1>1 DEF Memory
      <4> QED BY <3>1, <4>1 DEF BeginWait
    <3>2. CASE WaitAbsent(r)
      <4> DEFINE c1 == [m EXCEPT !.at = m.at + 1]
                 c2 == [m EXCEPT !.at = 1, !.tries = m.tries + 1]
                 c3 == [m EXCEPT !.pc = "conclude"]
                 c4 == [m EXCEPT !.at = 1, !.tries = 0]
      <4>1. Kept(c1) /\ Kept(c2) /\ Kept(c3) /\ Kept(c4)
        BY <1>1, <3>2 DEF WaitAbsent, Memory
      <4>2. \/ Becomes(r, c1) \/ Becomes(r, c2)
            \/ Becomes(r, c3) \/ Becomes(r, c4)
        BY <3>2 DEF WaitAbsent
      <4> HIDE DEF Kept, c1, c2, c3, c4
      <4> QED BY <4>1, <4>2
    <3>3. CASE WaitDeadline(r) \/ WaitUnread(r)
      <4> DEFINE c == [m EXCEPT !.pc = "conclude", !.err = TRUE]
      <4>1. Kept(c) BY <1>1 DEF Memory
      <4> QED BY <3>3, <4>1 DEF WaitDeadline, WaitUnread
    <3>4. CASE Conclude(r)
      <4> DEFINE c(e) == Concludes(r, e)
      <4>1. \A e \in BOOLEAN : Kept(c(e)) BY <1>1 DEF Concludes, Memory
      <4>2. m.err \in BOOLEAN BY <1>1 DEF Memory
      <4>3. Becomes(r, c(m.err)) \/ Becomes(r, c(TRUE)) BY <3>4 DEF Conclude
      <4> HIDE DEF Kept, c
      <4> QED BY <4>1, <4>2, <4>3
    <3>5. CASE Skip(r) \/ SkipUnread(r)
      <4> DEFINE c(n, e) == [m EXCEPT !.todo = m.todo \ {n}, !.err = e]
      <4>1. PICK n \in Objs :
              Becomes(r, c(n, m.err \/ live[n] # None)) \/ Becomes(r, c(n, TRUE))
        BY <3>5 DEF Skip, SkipUnread
      <4>2. \A e : Kept(c(n, e)) BY <1>1, <3>5 DEF Skip, SkipUnread, Memory
      <4> HIDE DEF Kept, c
      <4> QED BY <4>1, <4>2
    <3> QED BY <1>5, <3>1, <3>2, <3>3, <3>4, <3>5
  <2>2. Own(y, r, receipt[r]) BY <2>1, OwnKeep
  <2>3. UNCHANGED <<live, receipt>> /\ net' = net
    BY <1>5 DEF BeginWait, WaitAbsent, WaitDeadline, WaitUnread, Conclude,
                Skip, SkipUnread
  <2> QED BY <2>1, <2>2, <2>3, OwnStep
<1> QED BY <1>2, <1>3, <1>4, <1>5

LEMMA SendDeleteOwn ==
  ASSUME OwnInv, TypeInv', NEW r \in Runs, SendDelete(r) PROVE OwnInv'
<1> DEFINE m == run[r]
<1>1. m \in Memory /\ Own(m, r, receipt[r]) BY Known DEF OwnInv
<1>2. PICK n \in Objs :
        /\ n \in m.todo /\ live[n] # None /\ live[n].uid = m.own[n].uid
        /\ Send(r, Request(r, "delete", n, live[n].uid, live[n].rv),
                "delete-sent")
  BY DEF SendDelete, NextVictim, MayDelete, StillMine
<1> DEFINE q == Request(r, "delete", n, live[n].uid, live[n].rv)
           c == [m EXCEPT !.pc = "delete-sent", !.asked = q,
                          !.answer = NoAnswer]
<1>3. q.kind = "delete" /\ q.uid = m.own[n].uid /\ q.op = m.op BY <1>2 DEF Request
<1>4. Rightful(q) BY <1>1, <1>2, <1>3 DEF Rightful, Own, Owned
<1>5. net' = net \cup {q} /\ Becomes(r, c) /\ UNCHANGED <<live, receipt>>
  BY <1>2 DEF Send
<1>6. /\ c.pc = "delete-sent" /\ c.mode = m.mode /\ c.op = m.op
      /\ c.book = m.book /\ c.own = m.own /\ c.todo = m.todo
  BY <1>1 DEF Memory
<1> HIDE DEF c, q
<1>7. Own(c, r, receipt[r]) BY <1>6, OwnKeep
<1> QED BY <1>4, <1>5, <1>7, OwnStep

LEMMA StartOtherOwn ==
  ASSUME OwnInv, TypeInv', NEW r \in Runs, NEW p \in Runs,
         StartRecover(r, p) \/ StartTeardown(r, p)
  PROVE  OwnInv'
<1> DEFINE m == run[r]
           k == receipt[p]
           c == [m EXCEPT !.mode = "recover", !.op = p, !.book = k.recs,
                          !.intents = k.intents, !.status = "recovering",
                          !.pc = "save", !.cont = "scan"]
           d == [m EXCEPT !.mode = "teardown", !.op = p, !.book = k.recs,
                          !.own = k.recs, !.status = "tearing-down",
                          !.pc = "tscan"]
<1>1. m \in Memory /\ m.pc = "idle" /\ m = Unstarted(r)
  BY Known DEF OwnInv, Own, StartRecover, StartTeardown, MayStart
<1>2. m.own = NoBook /\ m.todo = {} BY <1>1 DEF Unstarted
<1>3. Owned(k.recs, p)
  <2>1. k # None /\ k.mode = "live" BY DEF StartRecover, StartTeardown, Binds
  <2> QED BY <2>1 DEF OwnInv
<1> HIDE DEF k, m
<1>4. Own(c, r, receipt[r])
  <2>1. /\ c.pc = "save" /\ c.cont = "scan" /\ c.mode = "recover"
        /\ c.op = p /\ c.book = k.recs /\ c.own = NoBook /\ c.todo = {}
    BY <1>1, <1>2 DEF Memory
  <2> HIDE DEF c
  <2> QED BY <1>3, <2>1, NoBookOwned DEF Own, Posting, Creating
<1>5. Own(d, r, receipt[r])
  <2>1. /\ d.pc = "tscan" /\ d.mode = "teardown" /\ d.op = p
        /\ d.book = k.recs /\ d.own = k.recs /\ d.todo = {}
    BY <1>1, <1>2 DEF Memory
  <2> HIDE DEF d
  <2> QED BY <1>3, <2>1 DEF Own, Posting, Creating
<1>6. PICK y : Becomes(r, y) /\ Own(y, r, receipt[r])
  BY <1>4, <1>5 DEF StartRecover, StartTeardown, k, m
<1> QED BY <1>6, OwnStep DEF StartRecover, StartTeardown

LEMMA ScanOwn ==
  ASSUME OwnInv, TypeInv', NEW r \in Runs,
         Scan(r) \/ ScanUnread(r) \/ ScanTeardown(r)
  PROVE  OwnInv'
<1> DEFINE m == run[r]
           n == m.at
<1>1. /\ m \in Memory /\ n \in Objs /\ Own(m, r, receipt[r])
      /\ m.own \in Books
  BY Known DEF OwnInv, Memory
<1>2. ASSUME m.pc = "scan", NEW own, NEW e \in BOOLEAN, Owned(own, m.op),
             \A k \in Objs : m.own[k] # None => own[k] # None
      PROVE  Own(Scanned(m, own, e), r, receipt[r])
  <2> DEFINE c == Scanned(m, own, e)
  <2> HIDE DEF m
  <2>1. /\ c.pc \in {"scan", "rollback"} /\ c.mode = m.mode /\ c.op = m.op
        /\ c.book = m.book /\ c.own = own
        /\ c.todo = m.todo \/ c.todo = {k \in Objs : own[k] # None}
    BY <1>1, <1>2 DEF Scanned, Memory
  <2>2. m.todo \subseteq Objs BY <1>1 DEF Memory
  <2> HIDE DEF c
  <2>3. Own(c, r, receipt[r]) BY <1>1, <1>2, <2>1, <2>2 DEF Own, Posting, Creating
  <2> QED BY <2>3 DEF c
<1>3. ASSUME m.pc = "tscan", NEW e \in BOOLEAN
      PROVE  Own(TornScan(m, e), r, receipt[r])
  <2> DEFINE c == TornScan(m, e)
  <2> HIDE DEF m
  <2>1. /\ \/ c.pc = "tscan"
           \/ c.pc = "save" /\ c.cont \in {"conclude", "rollback"}
        /\ c.mode = m.mode /\ c.op = m.op /\ c.book = m.book
        /\ c.own = m.own
        /\ c.todo = m.todo \/ c.todo = {k \in Objs : m.own[k] # None}
    BY <1>1, <1>3 DEF TornScan, Memory
  <2> HIDE DEF c
  <2>2. Own(c, r, receipt[r]) BY <1>1, <2>1 DEF Own, Posting, Creating
  <2> QED BY <2>2 DEF c
<1>4. m.err \in BOOLEAN BY <1>1 DEF Memory
<1>5. CASE Scan(r)
  <2> DEFINE f(st) == [m.own EXCEPT ![n] = [uid |-> live[n].uid, st |-> st]]
  <2>1. ASSUME live[n] # None, live[n].uid.by = m.op,
               NEW st \in Removal
        PROVE  /\ Owned(f(st), m.op)
               /\ \A k \in Objs : m.own[k] # None => f(st)[k] # None
    <3> DEFINE x == [uid |-> live[n].uid, st |-> st]
    <3>1. x \in Records /\ x.uid.by = m.op
      BY <1>1, <2>1, Known DEF OwnInv, Records, Objects
    <3>2. Owned(m.own, m.op) BY <1>1 DEF Own
    <3>3. \A k \in Objs : f(st)[k] = IF k = n THEN x ELSE m.own[k] BY <1>1 DEF Books
    <3> HIDE DEF x, f
    <3> QED BY <3>1, <3>2, <3>3, NoneIsApart DEF Owned
  <2>2. live[n] # None /\ live[n].tag = m.op => live[n].uid.by = m.op
    <3>1. m.op # None BY <1>1, ConstantsOK DEF Memory
    <3> QED BY <1>1, <3>1 DEF OwnInv
  <2>3. Proven(m, n) => live[n].uid.by = m.op BY <1>1 DEF Proven, Own, Owned
  <2>4. /\ Owned(m.own, m.op) /\ m.pc = "scan"
        /\ "not-started" \in Removal /\ "removed" \in Removal
    BY <1>1, <1>5 DEF Own, Scan, Removal
  <2> HIDE DEF f
  <2>5. /\ Own(Scanned(m, m.own, m.err), r, receipt[r])
        /\ Own(Scanned(m, m.own, TRUE), r, receipt[r])
    BY <1>2, <1>4, <2>4
  <2>6. live[n] # None /\ live[n].tag = m.op =>
          Own(Scanned(m, f("not-started"), m.err), r, receipt[r])
    BY <1>2, <1>4, <2>1, <2>2, <2>4
  <2>7. live[n] # None /\ Proven(m, n) =>
          Own(Scanned(m, f("removed"), m.err), r, receipt[r])
    BY <1>2, <1>4, <2>1, <2>3, <2>4
  <2>8. PICK y : Becomes(r, y) /\ Own(y, r, receipt[r])
    BY <1>5, <2>5, <2>6, <2>7 DEF Scan, f
  <2> QED BY <1>5, <2>8, OwnStep DEF Scan
<1>6. CASE ScanUnread(r)
  <2>1. Own(Scanned(m, m.own, TRUE), r, receipt[r])
    BY <1>1, <1>2, <1>6 DEF Own, ScanUnread
  <2> QED BY <1>6, <2>1, OwnStep DEF ScanUnread
<1>7. CASE ScanTeardown(r)
  <2> DEFINE e == m.err \/ ~(live[n] = None
                    \/ (StillMine(live[n], m.own[n]) /\ live[n].tag = None))
  <2>1. e \in BOOLEAN /\ m.pc = "tscan" BY <1>4, <1>7 DEF ScanTeardown
  <2>2. Becomes(r, TornScan(m, e)) \/ Becomes(r, TornScan(m, TRUE))
    BY <1>7 DEF ScanTeardown
  <2> HIDE DEF e
  <2>3. PICK y : Becomes(r, y) /\ Own(y, r, receipt[r]) BY <1>3, <2>1, <2>2
  <2> QED BY <1>7, <2>3, OwnStep DEF ScanTeardown
<1> QED BY <1>5, <1>6, <1>7

LEMMA InitOwn == Init => OwnInv
<1> SUFFICES ASSUME Init PROVE OwnInv
  OBVIOUS
<1>1. TypeInv BY InitInv
<1>2. ASSUME NEW r \in Runs PROVE Own(run[r], r, receipt[r])
  <2>1. run[r] = Unstarted(r) BY DEF Init
  <2>2. /\ run[r].mode = "live" /\ run[r].op = r /\ run[r].pc = "idle"
        /\ run[r].book = NoBook /\ run[r].own = NoBook /\ run[r].todo = {}
    BY <2>1 DEF Unstarted
  <2> QED BY <2>1, <2>2, NoBookOwned DEF Own, Posting, Creating
<1> QED BY <1>1, <1>2 DEF Init, OwnInv

LEMMA NextOwn == OwnInv /\ [Next]_vars => OwnInv'
<1> SUFFICES ASSUME OwnInv, [Next]_vars PROVE OwnInv'
  OBVIOUS
<1>1. TypeInv' BY NextInv DEF OwnInv
<1>2. ASSUME NEW r \in Runs, Work(r) \/ Fail(r) \/ StartLive(r) PROVE OwnInv'
  BY <1>1, <1>2, PersistOwn, PersistFailsOwn, CreateOwn, StripOwn, EndOwn,
     SendDeleteOwn, ScanOwn
  DEF Work, Fail
<1>3. CASE UNCHANGED vars BY <1>1, <1>3 DEF vars, OwnInv
<1> QED BY <1>1, <1>2, <1>3, StartOtherOwn, OthersOwn, ServeOwn DEF Next

\* No live run, recovery or teardown ever sends a DELETE for an object that
\* its own operation did not make, whatever fails and whoever else writes.
THEOREM DeletesOwn == Spec => []OnlyOwnDeleted
<1>1. OwnInv => OnlyOwnDeleted BY DEF OwnInv, Rightful, OnlyOwnDeleted
<1> QED BY <1>1, InitOwn, NextOwn, PTL DEF Spec

\* What a step may put on the network.
LEMMA NewRequests ==
  ASSUME OwnInv, Next, NEW q \in net' \ net, q.kind = "create"
  PROVE  q.run \in Runs /\ SendCreate(q.run)
<1>1. ASSUME NEW r \in Runs, Work(r) PROVE SendCreate(r) /\ q.run = r
  <2>1. CASE SendCreate(r) BY <2>1 DEF SendCreate, Send, Request
  <2>2. CASE SendPatch(r) BY <2>2 DEF SendPatch, Send, Request
  <2>3. CASE SendDelete(r) BY <2>3, SMTT(40) DEF SendDelete, Send, Request
  <2>4. CASE \/ Persist(r) \/ CheckAbsent(r) \/ BindAnswer(r) \/ Discover(r)
             \/ MarkIntent(r) \/ NothingToPatch(r) \/ PatchAnswered(r)
             \/ CheckFinal(r) \/ Skip(r) \/ DeleteAnswered(r) \/ BeginWait(r)
             \/ WaitAbsent(r) \/ Conclude(r) \/ Scan(r) \/ ScanTeardown(r)
             \/ WaitDeadline(r)
    BY <2>4 DEF Persist, CheckAbsent, BindAnswer, Discover, MarkIntent,
       NothingToPatch, PatchAnswered, CheckFinal, Skip, DeleteAnswered,
       BeginWait, WaitAbsent, Conclude, Scan, ScanTeardown, WaitDeadline
  <2> QED BY <1>1, <2>1, <2>2, <2>3, <2>4 DEF Work
<1>2. ASSUME NEW r \in Runs, Fail(r) PROVE FALSE
  BY <1>2 DEF Fail, PersistFails, CreateUncertain, PatchUncertain, Raise, Crash,
     SkipUnread, DeleteUncertain, WaitUnread, ScanUnread, Abandoned
<1>3. ASSUME NEW r \in Runs, StartLive(r) PROVE FALSE BY <1>3 DEF StartLive
<1>4. ASSUME NEW r \in Runs, NEW p \in Runs, StartRecover(r, p) \/ StartTeardown(r, p)
      PROVE  FALSE
  BY <1>4 DEF StartRecover, StartTeardown
<1>5. ASSUME NEW n \in Objs, FinishDelete(n) \/ Others(n) PROVE FALSE
  BY <1>5 DEF FinishDelete, Others, ForeignCreate, ForeignDelete,
     ControllerTouch, ForeignStrip, ForeignEdit, WriteByOthers
<1>6. ~Serve BY DEF Serve, ServeCreate, ServePatch, ServeDelete
<1> QED BY <1>1, <1>2, <1>3, <1>4, <1>5, <1>6 DEF Next

\* Every POST is sent by a live run over a durable receipt that says creating,
\* so creation is never resumed by another execution.
THEOREM PostsWhileCreating == Spec => PostOnlyWhileCreating
<1> DEFINE Post(q) == q.kind = "create" =>
                        /\ receipt[q.run] # None
                        /\ receipt[q.run].mode = "live"
                        /\ receipt[q.run].status = "creating"
           A == \A q \in net' \ net : Post(q)
<1>1. OwnInv /\ [Next]_vars => [A]_vars
  <2> SUFFICES ASSUME OwnInv, Next, NEW q \in net' \ net, q.kind = "create"
               PROVE  /\ receipt[q.run] # None
                      /\ receipt[q.run].mode = "live"
                      /\ receipt[q.run].status = "creating"
    OBVIOUS
  <2>1. q.run \in Runs /\ run[q.run].pc = "create" BY NewRequests DEF SendCreate
  <2> QED BY <2>1 DEF OwnInv, Own
<1> QED BY <1>1, InitOwn, NextOwn, PTL DEF Spec, PostOnlyWhileCreating

\* Part 5.  What the receipts are worth: the invariant.

Over(m) == m.pc \in {"done", "crashed"}

\* The POST of object n is still to come.
Unsent(m, n) ==
  \/ m.pc \in {"idle", "absent"} \/ (m.pc = "save" /\ m.cont = "absent")
  \/ (m.pc = "create" \/ (m.pc = "save" /\ m.cont = "create")) /\ m.at <= n
  \/ m.pc \in {"create-sent", "discover"} /\ m.at < n

Called(m, n) == m.mode = "live" /\ ~Unsent(m, n)

\* All that a run, or its receipt c, holds of its object n is the UID u.
Agrees(m, c, n, u) ==
  /\ m.book[n] # None => m.book[n].uid = u
  /\ c # None /\ c.recs[n] # None => c.recs[n].uid = u
  /\ m.pc = "create-sent" /\ m.answer.code = "ok" /\ m.at = n =>
       m.answer.obj.uid = u

\* Neither a run nor its receipt c has heard of its object n.
Unheard(m, c, n) ==
  /\ m.book[n] = None
  /\ c # None => c.recs[n] = None
  /\ m.pc = "create-sent" /\ m.at = n => m.answer.code # "ok"

\* What the receipt proves of an object without a nonce.
Proves(c, n, u) ==
  /\ c # None /\ c.recs[n] # None /\ c.recs[n].uid = u
  /\ c.recs[n].st \in Durable /\ n \in c.intents

\* The memory knows at least what the receipt says.
Grown(c, m) ==
  \A n \in Objs :
    /\ c.recs[n] # None =>
         /\ m.book[n] # None /\ m.book[n].uid = c.recs[n].uid
         /\ c.recs[n].st \in Durable => m.book[n].st \in Durable
    /\ n \in c.intents => n \in m.intents

Mem(m, c) ==
  /\ \A n \in Objs : Unsent(m, n) => m.book[n] = None
  /\ m.pc \in {"create-sent", "discover"} => m.book[m.at] = None
  /\ m.pc = "create-sent" => m.asked.obj = m.at
  /\ Stripping(m) \/ Checking(m) => m.mode = "live"
  /\ m.mode = "live" =>
       \A n \in Objs : m.book[n] # None /\ m.book[n].st \in Durable => n \in m.intents
  /\ m.guarded => ~Over(m) /\ m.pc # "idle"
  /\ m.pc = "idle" => c = None
  /\ c # None => c.mode = m.mode
  /\ c # None /\ ~Over(m) => Grown(c, m)
  /\ m.pc = "save" /\ m.cont = "strip" => m.book[m.at].st \in Durable
  /\ m.pc \in {"strip", "patch-sent"} => Proves(c, m.at, m.book[m.at].uid)
  /\ m.pc = "save" /\ m.cont = "final" => m.at = 1
  /\ m.status = "dormant-ready" /\ ~Over(m) =>
       /\ m.mode = "live"
       /\ \A n \in Objs : m.book[n] # None /\ m.book[n].st = "removed"
  /\ c # None /\ c.mode = "live" /\ c.status = "dormant-ready" =>
       Binds(c) /\ \A n \in Objs : n \in c.intents

\* The object of this record has no nonce any more.
Bare(o, rec) == o # None /\ o.uid = rec.uid => o.tag = None

Tags(m, c, lv) ==
  /\ m.pc = "final" => \A n \in Objs : n < m.at => Bare(lv[n], m.book[n])
  /\ m.status = "dormant-ready" /\ ~Over(m) => \A n \in Objs : Bare(lv[n], m.book[n])
  /\ c # None /\ c.mode = "live" /\ c.status = "dormant-ready" =>
       \A n \in Objs : Bare(lv[n], c.recs[n])

\* The object of this record is deleted or terminating.
Left(o, rec) == o # None /\ o.uid = rec.uid => o.going

Rolling(m) ==
  m.pc \in {"rollback", "delete-sent"} \/ (m.pc = "save" /\ m.cont = "rollback")

Order(m, lv) ==
  /\ Rolling(m) => \A k \in Kust : m.own[k] # None =>
       k \in m.todo \/ m.err \/ Left(lv[k], m.own[k])
  /\ m.pc = "delete-sent" =>
       /\ m.asked.kind = "delete" /\ m.asked.obj \in Objs
       /\ NextVictim(m.asked.obj, m.todo)
       /\ m.answer # NoAnswer /\ m.answer.code # "conflict" =>
            Left(lv[m.asked.obj], m.own[m.asked.obj])

\* Every UID heard of is older than the store's revision.
Aged(b, v) == \A n \in Objs : b[n] # None => b[n].uid.rev < v
Old(m, c, v) ==
  /\ Aged(m.book, v) /\ Aged(m.own, v)
  /\ m.answer.obj # None => m.answer.obj.uid.rev < v
  /\ c # None => Aged(c.recs, v)

Sound(m, c, lv, v) == Mem(m, c) /\ Tags(m, c, lv) /\ Order(m, lv) /\ Old(m, c, v)

\* An object o of this name, made by the run of memory m and receipt c.
Thing(o, n, m, c) ==
  /\ c # None /\ Called(m, n)
  /\ Agrees(m, c, n, o.uid)
  /\ o.touched \/ o.tag = o.uid.by \/ (o.tag = None /\ Proves(c, n, o.uid))

\* A request of the run of memory m and receipt c, for a name that holds o.
Backed(q, m, c, o) ==
  /\ q.kind = "create" =>
       /\ c # None /\ Called(m, q.obj)
       /\ Unheard(m, c, q.obj)
       /\ o # None => o.uid.by # q.run
  /\ q.kind = "patch" => q.op = q.run /\ Proves(c, q.obj, q.uid)

\* Two POSTs of one run for one name.
Alike(q1, q2) ==
  /\ q1.kind = "create" /\ q2.kind = "create"
  /\ q1.run = q2.run /\ q1.obj = q2.obj

ReceiptInv ==
  /\ OwnInv
  /\ \A r \in Runs : Sound(run[r], receipt[r], live, rev)
  /\ \A n \in Objs : live[n] # None =>
       /\ live[n].uid.rev < rev
       /\ live[n].uid.by # Foreign =>
            Thing(live[n], n, run[live[n].uid.by], receipt[live[n].uid.by])
  /\ \A q \in net : Backed(q, run[q.run], receipt[q.run], live[q.obj])
  /\ \A q1, q2 \in net : Alike(q1, q2) => q1 = q2

\* Part 6.  The memory of a run: what its own steps keep.

\* What a step of a run may not take back, for the objects and requests of it.
Steady(m, c, y, d) ==
  /\ c # None => d # None
  /\ \A n \in Objs :
       /\ Called(m, n) => Called(y, n)
       /\ Unheard(m, c, n) => Unheard(y, d, n)
       /\ \A u : Agrees(m, c, n, u) => Agrees(y, d, n, u)
       /\ \A u : Proves(c, n, u) => Proves(d, n, u)

\* A memory keeps what the run knows: the mode, the book and the intents.
Knows(m, y) ==
  /\ y.mode = m.mode /\ y.book = m.book /\ y.intents = m.intents
  /\ y.status = "dormant-ready" => m.status = "dormant-ready"

\* The phases in which a run no longer creates, strips or checks.
Late(m) ==
  \/ m.pc \in {"scan", "tscan", "rollback", "delete-sent", "wait", "conclude"}
  \/ m.pc = "save" /\ m.cont \in {"scan", "rollback", "conclude", "done"}

LEMMA LateKeeps ==
  ASSUME NEW m \in Memory, NEW y \in Memory, NEW c, NEW lv, Knows(m, y), Late(y),
         ~Over(m), m.pc # "idle", Mem(m, c), Tags(m, c, lv)
  PROVE  Mem(y, c) /\ Tags(y, c, lv) /\ Steady(m, c, y, c)
<1>1. /\ ~Over(y) /\ ~Stripping(y) /\ ~Checking(y) /\ y.pc # "idle" /\ y.pc # "create-sent"
      /\ y.pc # "discover" /\ y.pc \notin {"strip", "patch-sent"} /\ y.pc # "final"
      /\ ~(y.pc = "save" /\ y.cont \in {"strip", "final"})
      /\ \A n \in Objs : ~Unsent(y, n)
  BY DEF Late, Over, Stripping, Checking, Unsent
<1>2. Mem(y, c)
  <2>1. c # None => Grown(c, y) BY DEF Knows, Mem, Grown
  <2> QED BY <1>1, <2>1 DEF Knows, Mem
<1>3. Tags(y, c, lv) BY <1>1 DEF Knows, Tags
<1>4. Steady(m, c, y, c) BY <1>1 DEF Knows, Steady, Called, Unheard, Agrees
<1> QED BY <1>2, <1>3, <1>4

LEMMA GoneSound ==
  ASSUME TypeOK, NEW r \in Runs, NEW pc \in {"done", "crashed"}, NEW c, NEW lv, NEW v,
         run[r].pc # "idle", Sound(run[r], c, lv, v)
  PROVE  Sound(Gone(r, pc), c, lv, v) /\ Steady(run[r], c, Gone(r, pc), c)
<1> DEFINE m == run[r]
           u == Unstarted(r)
           g == [u EXCEPT !.pc = pc, !.mode = m.mode, !.op = m.op, !.status = m.status]
<1>1. /\ u \in Memory /\ u.book = NoBook /\ u.own = NoBook /\ u.answer = NoAnswer
      /\ u.guarded = FALSE
  BY UnstartedType DEF Unstarted
<1> HIDE DEF u
<1>2. /\ g.pc = pc /\ g.book = NoBook /\ g.own = NoBook /\ g.answer = NoAnswer
      /\ g.mode = m.mode /\ ~g.guarded
  BY <1>1 DEF Memory
<1>3. \A n \in Objs : g.book[n] = None /\ g.own[n] = None BY <1>2 DEF NoBook
<1> HIDE DEF g
<1>4. /\ Over(g) /\ ~Stripping(g) /\ ~Checking(g) /\ ~Rolling(g)
      /\ \A n \in Objs : ~Unsent(g, n)
  BY <1>2 DEF Over, Stripping, Checking, Rolling, Unsent
<1>5. Mem(g, c) BY <1>2, <1>3, <1>4 DEF Sound, Mem
<1>6. Tags(g, c, lv) /\ Order(g, lv) /\ Old(g, c, v)
  BY <1>2, <1>3, <1>4 DEF Sound, Tags, Order, Old, Aged, NoAnswer
<1>7. Steady(m, c, g, c) BY <1>2, <1>3, <1>4 DEF Steady, Called, Unheard, Agrees
<1> QED BY <1>5, <1>6, <1>7 DEF Sound, Gone, g, u

LEMMA AbortSound ==
  ASSUME TypeOK, NEW r \in Runs, NEW e \in BOOLEAN, NEW c, NEW lv, NEW v,
         run[r].pc # "idle", ~Over(run[r]), Sound(run[r], c, lv, v)
  PROVE  Sound(Abort(r, e), c, lv, v) /\ Steady(run[r], c, Abort(r, e), c)
<1> DEFINE m == run[r]
           y == Abort(r, e)
<1>1. m \in Memory /\ y \in Memory BY AbortFine DEF TypeOK, Fine
<1>2. /\ y.pc = "rollback" /\ y.mode = m.mode /\ y.book = m.book /\ y.own = m.book
      /\ y.intents = m.intents /\ y.status = m.status /\ y.answer = NoAnswer
      /\ y.todo = {n \in Objs : m.book[n] # None}
  BY <1>1 DEF Abort, Memory
<1> HIDE DEF m, y
<1>3. Mem(y, c) /\ Tags(y, c, lv) /\ Steady(m, c, y, c)
  BY <1>1, <1>2, LateKeeps DEF Sound, Knows, Late, m
<1>4. Order(y, lv) /\ Old(y, c, v)
  BY <1>2, ConstantsOK DEF Sound, Order, Old, NoAnswer, m
<1> QED BY <1>3, <1>4 DEF Sound, m, y

\* A step of run r that leaves the cluster alone; d is its receipt then.
LEMMA LocalStep ==
  ASSUME ReceiptInv, OwnInv', NEW r \in Runs, NEW y, NEW d, Becomes(r, y),
         UNCHANGED <<live, rev>>, receipt' = [receipt EXCEPT ![r] = d],
         Sound(y, d, live, rev),
         \A n \in Objs : live[n] # None /\ live[n].uid.by = r => Thing(live[n], n, y, d),
         \A q \in net' : q.run # r => q \in net,
         \A q \in net' : q.run = r => Backed(q, y, d, live[q.obj]),
         \A q1, q2 \in net' : q1.run = r /\ Alike(q1, q2) => q1 = q2
  PROVE  ReceiptInv'
<1>1. /\ run \in [Runs -> Memory] /\ receipt \in [Runs -> Receipts \cup {None}]
      /\ \A n \in Objs : live[n] # None => live[n].uid.by \in Runs \cup {Foreign}
      /\ \A q \in net' : q.run \in Runs
  <2>1. \A n \in Objs : live[n] # None => live[n] \in Objects
    BY Known DEF ReceiptInv, OwnInv
  <2>2. net' \subseteq Requests BY DEF OwnInv, TypeInv, TypeOK
  <2> QED BY <2>1, <2>2 DEF ReceiptInv, OwnInv, TypeInv, TypeOK, Objects, Uids, Requests
<1>2. \A s \in Runs : /\ run'[s] = IF s = r THEN y ELSE run[s]
                      /\ receipt'[s] = IF s = r THEN d ELSE receipt[s]
  BY <1>1 DEF Becomes
<1>3. \A s \in Runs : Sound(run'[s], receipt'[s], live', rev')
  BY <1>2 DEF ReceiptInv
<1>4. \A n \in Objs : live'[n] # None =>
        /\ live'[n].uid.rev < rev'
        /\ live'[n].uid.by # Foreign =>
             Thing(live'[n], n, run'[live'[n].uid.by], receipt'[live'[n].uid.by])
  BY <1>1, <1>2 DEF ReceiptInv
<1>5. \A q \in net' : Backed(q, run'[q.run], receipt'[q.run], live'[q.obj])
  BY <1>1, <1>2 DEF ReceiptInv
<1>6. \A q1, q2 \in net' : Alike(q1, q2) => q1 = q2 BY DEF ReceiptInv, Alike
<1> QED BY <1>3, <1>4, <1>5, <1>6 DEF ReceiptInv

LEMMA SteadyStep ==
  ASSUME ReceiptInv, OwnInv', NEW r \in Runs, NEW y, NEW d, Becomes(r, y),
         UNCHANGED <<live, rev>>, receipt' = [receipt EXCEPT ![r] = d],
         Sound(y, d, live, rev), Steady(run[r], receipt[r], y, d), net' \subseteq net
  PROVE  ReceiptInv'
<1>1. ASSUME NEW n \in Objs, live[n] # None, live[n].uid.by = r
      PROVE  Thing(live[n], n, y, d)
  <2>1. Thing(live[n], n, run[r], receipt[r]) BY <1>1, ConstantsOK DEF ReceiptInv
  <2> QED BY <2>1 DEF Thing, Steady
<1>2. ASSUME NEW q \in net', q.run = r PROVE Backed(q, y, d, live[q.obj])
  <2>1. Backed(q, run[r], receipt[r], live[q.obj]) /\ q.obj \in Objs
    BY <1>2 DEF ReceiptInv, OwnInv, TypeInv, TypeOK, Requests
  <2>2. /\ receipt[r] # None => d # None
        /\ Called(run[r], q.obj) => Called(y, q.obj)
        /\ Unheard(run[r], receipt[r], q.obj) => Unheard(y, d, q.obj)
        /\ Proves(receipt[r], q.obj, q.uid) => Proves(d, q.obj, q.uid)
    BY <2>1 DEF Steady
  <2> QED BY <2>1, <2>2 DEF Backed
<1>3. \A q1, q2 \in net' : q1.run = r /\ Alike(q1, q2) => q1 = q2 BY DEF ReceiptInv
<1> QED BY <1>1, <1>2, <1>3, LocalStep

\* A step that leaves the receipts alone, too.
LEMMA QuietStep ==
  ASSUME ReceiptInv, OwnInv', NEW r \in Runs, NEW y, Becomes(r, y),
         UNCHANGED <<live, rev, receipt>>, net' \subseteq net,
         Sound(y, receipt[r], live, rev), Steady(run[r], receipt[r], y, receipt[r])
  PROVE  ReceiptInv'
<1>1. receipt' = [receipt EXCEPT ![r] = receipt[r]]
  BY DEF ReceiptInv, OwnInv, TypeInv, TypeOK
<1> QED BY <1>1, SteadyStep

\* What is known of a run when one of its steps is taken.
LEMMA Facts ==
  ASSUME ReceiptInv, NEW r \in Runs
  PROVE  /\ TypeOK /\ TypeInv /\ run[r] \in Memory /\ Asking(run[r], r) /\ Progress(run[r])
         /\ Own(run[r], r, receipt[r]) /\ Sound(run[r], receipt[r], live, rev)
         /\ run[r].at \in Objs /\ run[r].book \in Books /\ run[r].own \in Books
         /\ receipt[r] \in Receipts \cup {None} /\ rev \in Nat
         /\ \A n \in Objs : live[n] # None => live[n] \in Objects
<1>1. OwnInv /\ TypeInv BY DEF ReceiptInv, OwnInv
<1>2. Sound(run[r], receipt[r], live, rev) BY DEF ReceiptInv
<1> QED BY <1>1, <1>2, Known DEF OwnInv, TypeOK, Memory

\* Part 7.  What the steps make of a memory is sound.

\* A run that neither rolls back nor waits for a DELETE keeps any order.
LEMMA NoOrder == ASSUME NEW m, NEW lv, ~Rolling(m) PROVE Order(m, lv)
BY DEF Order, Rolling

LEMMA CreatedSound ==
  ASSUME ReceiptInv, NEW r \in Runs, NEW o \in Objects, o.uid.rev < rev,
         run[r].pc \in {"create-sent", "discover"}
  PROVE  LET m == run[r]  c == receipt[r]  y == Created(r, o) IN
         /\ Sound(y, c, live, rev)
         /\ \A n \in Objs :
              /\ Called(m, n) => Called(y, n)
              /\ n # m.at /\ Unheard(m, c, n) => Unheard(y, c, n)
              /\ \A u : Agrees(m, c, n, u) /\ (n = m.at => u = o.uid) => Agrees(y, c, n, u)
<1> DEFINE m == run[r]
           c == receipt[r]
           x == [uid |-> o.uid, st |-> "not-started"]
           b == [m.book EXCEPT ![m.at] = x]
           y == Created(r, o)
<1>1. /\ m \in Memory /\ m.at \in Objs /\ m.book \in Books /\ Own(m, r, c)
      /\ Sound(m, c, live, rev) /\ N \in Nat /\ m.at \in Nat
  BY Facts, ConstantsOK DEF Objs
<1>2. m.pc \in {"create-sent", "discover"} /\ m.mode = "live" /\ m.status = "creating"
  BY <1>1 DEF Own, Posting, Creating
<1>3. /\ y.pc = "save" /\ y.mode = m.mode /\ y.own = m.own /\ y.book = b
      /\ y.status = m.status /\ y.intents = m.intents /\ y.answer = NoAnswer
      /\ y.cont = IF m.at < N THEN "create" ELSE "intent"
      /\ y.at = IF m.at < N THEN m.at + 1 ELSE 1
  BY <1>1 DEF Created, Memory
<1>4. \A n \in Objs : b[n] = IF n = m.at THEN x ELSE m.book[n] BY <1>1 DEF Books
<1>5. x # None /\ x.uid = o.uid /\ x.st \notin Durable
  BY NoneIsApart DEF Records, Objects, Removal, Durable
<1> HIDE DEF m, c, b, x, y
<1>6. m.book[m.at] = None /\ (c # None => c.recs[m.at] = None)
  BY <1>1, <1>2 DEF Sound, Mem, Over, Grown
<1>7. \A n \in Objs : /\ Called(m, n) => Called(y, n)
                      /\ Unsent(y, n) => Unsent(m, n) /\ n # m.at
  BY <1>1, <1>2, <1>3 DEF Called, Unsent, Objs
<1>8. Mem(y, c)
  <2>1. \A n \in Objs : Unsent(y, n) => y.book[n] = None
    BY <1>1, <1>3, <1>4, <1>7 DEF Sound, Mem
  <2>2. \A n \in Objs : y.book[n] # None /\ y.book[n].st \in Durable => n \in y.intents
    BY <1>1, <1>2, <1>3, <1>4, <1>5 DEF Sound, Mem
  <2>3. c # None => Grown(c, y)
    BY <1>1, <1>2, <1>3, <1>4, <1>6 DEF Sound, Mem, Grown, Over
  <2>4. c # None => c.mode = y.mode BY <1>1, <1>3 DEF Sound, Mem
  <2>5. c # None /\ c.mode = "live" /\ c.status = "dormant-ready" =>
          Binds(c) /\ \A n \in Objs : n \in c.intents
    BY <1>1 DEF Sound, Mem
  <2> QED BY <1>2, <1>3, <2>1, <2>2, <2>3, <2>4, <2>5 DEF Mem, Over
<1>9. Tags(y, c, live) BY <1>1, <1>2, <1>3 DEF Sound, Tags
<1>10. Order(y, live) BY <1>3, NoOrder DEF Rolling
<1>11. Old(y, c, rev) BY <1>1, <1>3, <1>4, <1>5 DEF Sound, Old, Aged, NoAnswer
<1>12. \A n \in Objs :
         /\ n # m.at /\ Unheard(m, c, n) => Unheard(y, c, n)
         /\ \A u : Agrees(m, c, n, u) /\ (n = m.at => u = o.uid) => Agrees(y, c, n, u)
  BY <1>3, <1>4, <1>5 DEF Unheard, Agrees
<1> QED BY <1>7, <1>8, <1>9, <1>10, <1>11, <1>12 DEF Sound, m, c, y

\* A record's removal advances.
LEMMA Restamped ==
  ASSUME NEW b \in Books, NEW n \in Objs, b[n] # None, NEW st \in Removal
  PROVE  LET d == [b EXCEPT ![n].st = st] IN
         /\ d \in Books /\ d[n] # None /\ d[n].uid = b[n].uid /\ d[n].st = st
         /\ \A k \in Objs : k # n => d[k] = b[k]
<1> DEFINE d == [b EXCEPT ![n].st = st]
<1>1. d \in Books BY MarkBookType
<1>2. b[n] \in Records /\ d[n] = [b[n] EXCEPT !.st = st] BY DEF Books
<1>3. d[n] # None /\ d[n].uid = b[n].uid /\ d[n].st = st
  BY <1>2, NoneIsApart DEF Records
<1>4. \A k \in Objs : k # n => d[k] = b[k] BY DEF Books
<1> QED BY <1>1, <1>3, <1>4

LEMMA MarkSound ==
  ASSUME ReceiptInv, NEW r \in Runs, run[r].pc = "intent"
  PROVE  LET m == run[r]  c == receipt[r]
             y == [m EXCEPT !.book[m.at].st = "intent-durable",
                            !.intents = @ \cup {m.at}, !.tries = 0,
                            !.status = "removing-nonces",
                            !.pc = "save", !.cont = "strip"]
         IN  Sound(y, c, live, rev) /\ Steady(m, c, y, c)
<1> DEFINE m == run[r]
           c == receipt[r]
           b == [m.book EXCEPT ![m.at].st = "intent-durable"]
           y == [m EXCEPT !.book[m.at].st = "intent-durable",
                          !.intents = @ \cup {m.at}, !.tries = 0,
                          !.status = "removing-nonces",
                          !.pc = "save", !.cont = "strip"]
<1>1. /\ m \in Memory /\ m.at \in Objs /\ m.book \in Books /\ Progress(m)
      /\ Sound(m, c, live, rev) /\ Asking(m, r)
  BY Facts
<1>2. m.pc = "intent" OBVIOUS
<1>3. /\ y.pc = "save" /\ y.cont = "strip" /\ y.mode = m.mode /\ y.own = m.own /\ y.book = b
      /\ y.status = "removing-nonces" /\ y.intents = m.intents \cup {m.at}
      /\ y.answer = m.answer /\ y.at = m.at
  BY <1>1 DEF Memory
<1> HIDE DEF m, c, y
<1>4. m.answer = NoAnswer /\ m.book[m.at] # None /\ m.mode = "live"
  BY <1>1, <1>2 DEF Asking, Sent, Progress, Stripping, Sound, Mem
<1>5. /\ b[m.at] # None /\ b[m.at].uid = m.book[m.at].uid /\ b[m.at].st = "intent-durable"
      /\ \A k \in Objs : k # m.at => b[k] = m.book[k]
  BY <1>1, <1>4, Restamped DEF Removal
<1> HIDE DEF b
<1>6. Mem(y, c)
  <2>1. \A n \in Objs : ~Unsent(y, n) BY <1>3 DEF Unsent
  <2>2. \A n \in Objs : y.book[n] # None /\ y.book[n].st \in Durable => n \in y.intents
    BY <1>1, <1>3, <1>4, <1>5 DEF Sound, Mem
  <2>3. c # None => Grown(c, y)
    BY <1>1, <1>2, <1>3, <1>5 DEF Sound, Mem, Grown, Over, Durable
  <2> QED BY <1>1, <1>3, <1>4, <1>5, <2>1, <2>2, <2>3 DEF Sound, Mem, Durable, Over
<1>7. Tags(y, c, live) BY <1>1, <1>3 DEF Sound, Tags
<1>8. Order(y, live) BY <1>3, NoOrder DEF Rolling
<1>9. Old(y, c, rev) BY <1>1, <1>3, <1>4, <1>5 DEF Sound, Old, Aged, NoAnswer
<1>10. Steady(m, c, y, c)
  BY <1>2, <1>3, <1>4, <1>5 DEF Steady, Called, Unsent, Unheard, Agrees
<1> QED BY <1>6, <1>7, <1>8, <1>9, <1>10 DEF Sound, m, c, y

LEMMA RemovedSound ==
  ASSUME ReceiptInv, NEW r \in Runs, run[r].pc \in {"strip", "patch-sent"}
  PROVE  LET m == run[r]  c == receipt[r]  y == Removed(r) IN
         Sound(y, c, live, rev) /\ Steady(m, c, y, c)
<1> DEFINE m == run[r]
           c == receipt[r]
           b == [m.book EXCEPT ![m.at].st = "removed"]
           y == Removed(r)
<1>1. /\ m \in Memory /\ m.at \in Objs /\ m.book \in Books /\ Progress(m)
      /\ Sound(m, c, live, rev)
  BY Facts
<1>2. m.pc \in {"strip", "patch-sent"} OBVIOUS
<1>3. /\ y.pc = "save" /\ y.cont \in {"intent", "final"} /\ (y.cont = "final" => y.at = 1)
      /\ y.mode = m.mode /\ y.own = m.own
      /\ y.book = b /\ y.status = m.status /\ y.intents = m.intents /\ y.answer = NoAnswer
  BY <1>1 DEF Removed, Memory
<1> HIDE DEF m, c, y
<1>4. m.book[m.at] # None /\ m.mode = "live" /\ m.at \in m.intents
  <2>1. m.book[m.at] # None /\ m.mode = "live"
    BY <1>1, <1>2 DEF Progress, Stripping, Sound, Mem
  <2>2. m.at \in m.intents BY <1>1, <1>2 DEF Sound, Mem, Over, Grown, Proves
  <2> QED BY <2>1, <2>2
<1>5. /\ b[m.at] # None /\ b[m.at].uid = m.book[m.at].uid /\ b[m.at].st = "removed"
      /\ \A k \in Objs : k # m.at => b[k] = m.book[k]
  BY <1>1, <1>4, Restamped DEF Removal
<1> HIDE DEF b
<1>6. Mem(y, c)
  <2>1. \A n \in Objs : ~Unsent(y, n) BY <1>3 DEF Unsent
  <2>2. \A n \in Objs : y.book[n] # None /\ y.book[n].st \in Durable => n \in y.intents
    BY <1>1, <1>3, <1>4, <1>5 DEF Sound, Mem
  <2>3. c # None => Grown(c, y)
    BY <1>1, <1>2, <1>3, <1>5 DEF Sound, Mem, Grown, Over, Durable
  <2>4. y.status = "dormant-ready" =>
          \A n \in Objs : y.book[n] # None /\ y.book[n].st = "removed"
    BY <1>1, <1>2, <1>3, <1>5 DEF Sound, Mem, Over
  <2> QED BY <1>1, <1>3, <1>4, <2>1, <2>2, <2>3, <2>4 DEF Sound, Mem, Over
<1>7. Tags(y, c, live)
  <2>1. \A n \in Objs : y.book[n].uid = m.book[n].uid BY <1>3, <1>5
  <2>2. y.status = "dormant-ready" => \A n \in Objs : Bare(live[n], y.book[n])
    BY <1>1, <1>2, <1>3, <2>1 DEF Sound, Tags, Bare, Over
  <2> QED BY <1>1, <1>3, <2>2 DEF Sound, Tags
<1>8. Order(y, live) BY <1>3, NoOrder DEF Rolling
<1>9. Old(y, c, rev)
  <2>1. Aged(y.book, rev)
    <3>1. \A n \in Objs : y.book[n].uid = m.book[n].uid /\ m.book[n] # None
      BY <1>1, <1>2, <1>3, <1>5 DEF Progress, Stripping
    <3> QED BY <1>1, <3>1 DEF Sound, Old, Aged
  <2> QED BY <1>1, <1>3, <2>1 DEF Sound, Old, Aged, NoAnswer
<1>10. Steady(m, c, y, c)
  BY <1>2, <1>3, <1>4, <1>5 DEF Steady, Called, Unsent, Unheard, Agrees
<1> QED BY <1>6, <1>7, <1>8, <1>9, <1>10 DEF Sound, m, c, y

\* Part 8.  Every action keeps the invariant.

\* What a run writes into its receipt it may rely on.
LEMMA NotedSound ==
  ASSUME ReceiptInv, NEW r \in Runs, run[r].pc = "save"
  PROVE  LET m == run[r]  d == ReceiptOf(r) IN
         Sound(m, d, live, rev) /\ Steady(m, receipt[r], m, d) /\ d # None
<1> DEFINE m == run[r]
           c == receipt[r]
           d == ReceiptOf(r)
<1>1. m \in Memory /\ Sound(m, c, live, rev) /\ m.pc = "save" BY Facts
<1>2. d.mode = m.mode /\ d.status = m.status /\ d.recs = m.book /\ d.intents = m.intents
  BY DEF ReceiptOf
<1>3. d # None
  <2>1. d \in Receipts BY <1>1 DEF ReceiptOf, Receipts, Memory
  <2> QED BY <2>1, NoneIsApart
<1> HIDE DEF m, c, d
<1>4. Mem(m, d)
  <2>1. Grown(d, m) BY <1>2 DEF Grown
  <2>2. d.mode = "live" /\ d.status = "dormant-ready" =>
          Binds(d) /\ \A n \in Objs : n \in d.intents
    BY <1>1, <1>2, <1>3 DEF Sound, Mem, Over, Binds, Durable
  <2> QED BY <1>1, <1>2, <2>1, <2>2 DEF Sound, Mem
<1>5. Tags(m, d, live) BY <1>1, <1>2 DEF Sound, Tags, Over
<1>6. Old(m, d, rev) BY <1>1, <1>2 DEF Sound, Old
<1>7. Steady(m, c, m, d)
  BY <1>1, <1>2, <1>3 DEF Sound, Mem, Over, Grown, Steady, Unheard, Agrees, Proves
<1> QED BY <1>1, <1>3, <1>4, <1>5, <1>6, <1>7 DEF Sound, m, c, d

LEMMA SteadyTwice ==
  ASSUME NEW m, NEW c, NEW y, NEW d, NEW z, NEW e, Steady(m, c, y, d), Steady(y, d, z, e)
  PROVE  Steady(m, c, z, e)
BY DEF Steady

LEMMA PersistStep ==
  ASSUME ReceiptInv, OwnInv', NEW r \in Runs, Persist(r) \/ PersistFails(r)
  PROVE  ReceiptInv'
<1> DEFINE m == run[r]
           c == receipt[r]
           d == ReceiptOf(r)
           g == m.guarded \/ m.cont = "create"
           x == [m EXCEPT !.pc = m.cont, !.guarded = g]
<1>1. /\ m \in Memory /\ m.pc = "save" /\ TypeOK /\ Progress(m) /\ Asking(m, r) /\ Own(m, r, c)
      /\ ~Over(m) /\ m.pc # "idle" /\ Sound(m, c, live, rev)
      /\ receipt \in [Runs -> Receipts \cup {None}]
  BY Facts DEF Persist, PersistFails, Over, TypeOK
<1>2. Sound(m, d, live, rev) /\ Steady(m, c, m, d) /\ d # None BY <1>1, NotedSound
<1>3. d.recs = m.book /\ d.intents = m.intents BY DEF ReceiptOf
<1>4. ASSUME NEW y, NEW e, Sound(y, e, live, rev), Steady(m, e, y, e),
             Becomes(r, y), e = c \/ e = d, receipt' = [receipt EXCEPT ![r] = e]
      PROVE  ReceiptInv'
  <2>1. Steady(m, c, y, e) BY <1>2, <1>4, SteadyTwice
  <2>2. UNCHANGED <<live, rev, net>> BY DEF Persist, PersistFails
  <2> QED BY <1>4, <2>1, <2>2, SteadyStep
<1>5. ASSUME NEW e, e = c \/ e = d
      PROVE  /\ Sound(Exit(r), e, live, rev) /\ Steady(m, e, Exit(r), e)
             /\ Sound(Abort(r, FALSE), e, live, rev) /\ Steady(m, e, Abort(r, FALSE), e)
  BY <1>1, <1>2, <1>5, GoneSound, AbortSound DEF Exit
<1>6. CASE Persist(r) /\ m.cont # "done"
  <2>1. receipt' = [receipt EXCEPT ![r] = d] /\ Becomes(r, x) BY <1>6 DEF Persist
  <2> HIDE DEF d, g
  <2>2. /\ x.pc = m.cont /\ x.cont = m.cont /\ x.mode = m.mode /\ x.own = m.own
        /\ x.book = m.book /\ x.status = m.status /\ x.intents = m.intents
        /\ x.answer = m.answer /\ x.at = m.at /\ x.todo = m.todo /\ x.err = m.err
    BY <1>1 DEF Memory
  <2>3. m.cont \in Conts /\ m.cont # "idle" /\ m.cont # "done"
    BY <1>1, <1>6 DEF Own, Memory
  <2> HIDE DEF x, m
  <2>4. \A n \in Objs : Unsent(x, n) => Unsent(m, n)
    BY <1>1, <2>2, <2>3 DEF Unsent, Conts
  <2>5. Mem(x, d)
    <3>1. \A n \in Objs : Unsent(x, n) => x.book[n] = None
      BY <1>2, <2>2, <2>4 DEF Sound, Mem
    <3>2. x.pc \notin {"create-sent", "discover", "patch-sent", "save", "idle"} /\ ~Over(x)
      BY <2>2, <2>3 DEF Conts, Over
    <3>3. Stripping(x) \/ Checking(x) => x.mode = "live"
      BY <1>1, <1>2, <2>2, <2>3 DEF Sound, Mem, Stripping, Checking, Conts
    <3>4. x.pc = "strip" => Proves(d, x.at, x.book[x.at].uid)
      <4> SUFFICES ASSUME x.pc = "strip" PROVE Proves(d, m.at, m.book[m.at].uid)
        BY <2>2
      <4>1. m.cont = "strip" /\ Stripping(m) /\ m.at \in Objs
        BY <1>1, <2>2 DEF Stripping, Memory
      <4>2. m.book[m.at] # None /\ m.book[m.at].st \in Durable /\ m.mode = "live"
        BY <1>1, <1>2, <4>1 DEF Progress, Sound, Mem
      <4> QED BY <1>2, <1>3, <4>1, <4>2 DEF Proves, Sound, Mem, m
    <3>5. Grown(d, x) BY <1>1, <1>2, <2>2 DEF Sound, Mem, Grown, Over
    <3> QED BY <1>1, <1>2, <2>2, <3>1, <3>2, <3>3, <3>4, <3>5 DEF Sound, Mem, Over
  <2>6. Tags(x, d, live)
    <3>1. x.pc = "final" => \A n \in Objs : ~(n < x.at)
      BY <1>1, <2>2 DEF Sound, Mem, Objs
    <3> QED BY <1>1, <1>2, <2>2, <3>1 DEF Sound, Tags, Over
  <2>7. Order(x, live) BY <1>1, <1>2, <2>2, <2>3 DEF Sound, Order, Rolling, Conts
  <2>8. Old(x, d, rev) BY <1>2, <2>2 DEF Sound, Old
  <2>9. Steady(m, d, x, d)
    BY <1>1, <2>2, <2>3, <2>4 DEF Steady, Called, Unheard, Agrees, Conts
  <2> QED BY <1>4, <2>1, <2>5, <2>6, <2>7, <2>8, <2>9 DEF Sound, m
<1>7. CASE Persist(r) /\ m.cont = "done"
  <2>1. Becomes(r, Exit(r)) /\ receipt' = [receipt EXCEPT ![r] = d]
    BY <1>7 DEF Persist
  <2> QED BY <1>4, <1>5, <2>1
<1>8. CASE PersistFails(r)
  <2>1. PICK e : (e = c \/ e = d) /\ receipt' = [receipt EXCEPT ![r] = e]
    BY <1>1, <1>8 DEF PersistFails
  <2>2. Becomes(r, Abort(r, FALSE)) \/ Becomes(r, Exit(r)) BY <1>8 DEF PersistFails
  <2> QED BY <1>4, <1>5, <2>1, <2>2
<1> QED BY <1>6, <1>7, <1>8

LEMMA GoesStep ==
  ASSUME ReceiptInv, OwnInv', NEW r \in Runs, run[r].pc # "idle",
         UNCHANGED <<live, rev, receipt>>, net' \subseteq net,
         \/ \E pc \in {"done", "crashed"} : Becomes(r, Gone(r, pc))
         \/ ~Over(run[r]) /\ \E e \in BOOLEAN : Becomes(r, Abort(r, e))
  PROVE  ReceiptInv'
<1>1. TypeOK /\ Sound(run[r], receipt[r], live, rev) BY Facts
<1>2. ASSUME NEW pc \in {"done", "crashed"}, Becomes(r, Gone(r, pc)) PROVE ReceiptInv'
  BY <1>1, <1>2, GoneSound, QuietStep
<1>3. ASSUME ~Over(run[r]), NEW e \in BOOLEAN, Becomes(r, Abort(r, e)) PROVE ReceiptInv'
  BY <1>1, <1>3, AbortSound, QuietStep
<1> QED BY <1>2, <1>3

\* A step that sends a request.
LEMMA SendStep ==
  ASSUME ReceiptInv, OwnInv', NEW r \in Runs, NEW y, NEW q, Becomes(r, y),
         UNCHANGED <<live, rev, receipt>>, net' = net \cup {q}, q.run = r,
         Sound(y, receipt[r], live, rev), Steady(run[r], receipt[r], y, receipt[r]),
         Backed(q, y, receipt[r], live[q.obj]), \A p \in net : ~Alike(p, q)
  PROVE  ReceiptInv'
<1>1. receipt' = [receipt EXCEPT ![r] = receipt[r]]
  BY DEF ReceiptInv, OwnInv, TypeInv, TypeOK
<1>2. ASSUME NEW n \in Objs, live[n] # None, live[n].uid.by = r
      PROVE  Thing(live[n], n, y, receipt[r])
  <2>1. Thing(live[n], n, run[r], receipt[r]) BY <1>2, ConstantsOK DEF ReceiptInv
  <2> QED BY <2>1 DEF Thing, Steady
<1>3. ASSUME NEW p \in net', p.run = r PROVE Backed(p, y, receipt[r], live[p.obj])
  <2>1. CASE p \in net
    <3>1. Backed(p, run[r], receipt[r], live[p.obj]) /\ p.obj \in Objs
      BY <1>3, <2>1 DEF ReceiptInv, OwnInv, TypeInv, TypeOK, Requests
    <3>2. /\ Called(run[r], p.obj) => Called(y, p.obj)
          /\ Unheard(run[r], receipt[r], p.obj) => Unheard(y, receipt[r], p.obj)
      BY <3>1 DEF Steady
    <3> QED BY <3>1, <3>2 DEF Backed
  <2> QED BY <2>1
<1>4. \A q1, q2 \in net' : Alike(q1, q2) => q1 = q2 BY DEF ReceiptInv, Alike
<1> QED BY <1>1, <1>2, <1>3, <1>4, LocalStep

LEMMA CreateStep ==
  ASSUME ReceiptInv, OwnInv', NEW r \in Runs, SendCreate(r)
  PROVE  ReceiptInv'
<1> DEFINE m == run[r]
           c == receipt[r]
           q == Request(r, "create", m.at, None, 0)
           y == [m EXCEPT !.pc = "create-sent", !.asked = q, !.answer = NoAnswer]
<1>1. /\ m \in Memory /\ m.at \in Objs /\ m.pc = "create" /\ Own(m, r, c)
      /\ Sound(m, c, live, rev)
  BY Facts DEF SendCreate
<1>2. Becomes(r, y) /\ net' = net \cup {q} /\ UNCHANGED <<live, rev, receipt>>
  BY DEF SendCreate, Send
<1>3. q.run = r /\ q.obj = m.at /\ q.kind = "create" BY DEF Request
<1> HIDE DEF q
<1>4. /\ y.pc = "create-sent" /\ y.asked = q /\ y.answer = NoAnswer /\ y.at = m.at
      /\ y.mode = m.mode /\ y.own = m.own /\ y.book = m.book /\ y.status = m.status
      /\ y.intents = m.intents
  BY <1>1 DEF Memory
<1> HIDE DEF y
<1>5. m.mode = "live" /\ m.status = "creating" /\ c # None
  BY <1>1 DEF Own, Posting, Creating
<1>6. Unsent(m, m.at) /\ ~Unsent(y, m.at) /\ \A n \in Objs : Unsent(y, n) => Unsent(m, n)
  BY <1>1, <1>4 DEF Unsent, Objs
<1>7. m.book[m.at] = None /\ c.recs[m.at] = None
  BY <1>1, <1>5, <1>6 DEF Sound, Mem, Grown, Over
<1>8. Mem(y, c)
  <2>1. Grown(c, y) /\ ~Stripping(y) /\ ~Checking(y)
    BY <1>1, <1>4, <1>5 DEF Sound, Mem, Over, Grown, Stripping, Checking
  <2> QED BY <1>1, <1>3, <1>4, <1>5, <1>6, <1>7, <2>1 DEF Sound, Mem, Over
<1>9. Tags(y, c, live) /\ Order(y, live) /\ Old(y, c, rev)
  BY <1>1, <1>4, <1>5, NoOrder DEF Sound, Tags, Rolling, Old, NoAnswer
<1>10. Steady(m, c, y, c)
  BY <1>1, <1>4, <1>6 DEF Steady, Called, Unheard, Agrees, NoAnswer
<1>11. Backed(q, y, c, live[q.obj])
  <2>1. live[m.at] # None => live[m.at].uid.by # r
    BY <1>1, <1>6, ConstantsOK DEF ReceiptInv, Thing, Called
  <2> QED BY <1>3, <1>4, <1>5, <1>6, <1>7, <2>1 DEF Backed, Called, Unheard, NoAnswer
<1>12. ASSUME NEW p \in net, Alike(p, q) PROVE FALSE
  BY <1>3, <1>6, <1>12 DEF ReceiptInv, Backed, Called, Alike
<1> QED BY <1>2, <1>3, <1>8, <1>9, <1>10, <1>11, <1>12, SendStep DEF Sound

LEMMA BoundStep ==
  ASSUME ReceiptInv, OwnInv', NEW r \in Runs, NEW o \in Objects, o.uid.rev < rev,
         run[r].pc \in {"create-sent", "discover"}, Becomes(r, Created(r, o)),
         UNCHANGED <<live, rev, receipt, net>>,
         \/ run[r].pc = "create-sent" /\ run[r].answer.code = "ok" /\ o = run[r].answer.obj
         \/ o = live[run[r].at] /\ o.uid.by = r
  PROVE  ReceiptInv'
<1> DEFINE m == run[r]
           c == receipt[r]
           y == Created(r, o)
<1>1. /\ Sound(y, c, live, rev)
      /\ \A n \in Objs :
           /\ Called(m, n) => Called(y, n)
           /\ n # m.at /\ Unheard(m, c, n) => Unheard(y, c, n)
           /\ \A u : Agrees(m, c, n, u) /\ (n = m.at => u = o.uid) => Agrees(y, c, n, u)
  BY CreatedSound
<1>2. m.at \in Objs /\ receipt' = [receipt EXCEPT ![r] = c]
  BY Facts DEF ReceiptInv, OwnInv, TypeInv, TypeOK
<1>3. o # None BY NoneIsApart
<1>4. ASSUME NEW n \in Objs, live[n] # None, live[n].uid.by = r
      PROVE  Thing(live[n], n, y, c)
  <2>1. Thing(live[n], n, m, c) BY <1>4, ConstantsOK DEF ReceiptInv
  <2>2. n = m.at => live[n].uid = o.uid BY <1>4, <2>1 DEF Thing, Agrees
  <2>3. Called(y, n) /\ Agrees(y, c, n, live[n].uid) BY <1>1, <2>1, <2>2 DEF Thing
  <2> QED BY <2>1, <2>3 DEF Thing
<1>5. ASSUME NEW q \in net', q.run = r PROVE Backed(q, y, c, live[q.obj])
  <2>1. Backed(q, m, c, live[q.obj]) /\ q.obj \in Objs
    BY <1>5 DEF ReceiptInv, OwnInv, TypeInv, TypeOK, Requests
  <2>2. q.kind = "create" => q.obj # m.at BY <1>3, <1>5, <2>1 DEF Backed, Unheard
  <2>3. q.kind = "create" => Called(y, q.obj) /\ Unheard(y, c, q.obj)
    BY <1>1, <2>1, <2>2 DEF Backed
  <2> QED BY <2>1, <2>3 DEF Backed
<1>6. \A q1, q2 \in net' : q1.run = r /\ Alike(q1, q2) => q1 = q2 BY DEF ReceiptInv
<1> HIDE DEF y
<1> QED BY <1>1, <1>2, <1>4, <1>5, <1>6, LocalStep DEF y

LEMMA CreatingStep ==
  ASSUME ReceiptInv, OwnInv', NEW r \in Runs,
         BindAnswer(r) \/ CreateUncertain(r) \/ Discover(r)
  PROVE  ReceiptInv'
<1> DEFINE m == run[r]
           c == receipt[r]
<1>1. /\ m \in Memory /\ m.at \in Objs /\ Own(m, r, c) /\ Asking(m, r)
      /\ Sound(m, c, live, rev) /\ TypeOK
  BY Facts
<1>2. CASE BindAnswer(r)
  <2>1. m.pc = "create-sent" /\ ~Over(m) /\ m.pc # "idle"
    BY <1>2 DEF BindAnswer, Over
  <2>2. CASE m.answer.code = "ok"
    <3>1. m.answer.obj \in Objects /\ m.answer.obj # None
      BY <1>1, <2>1, <2>2, NoneIsApart DEF Asking
    <3>2. m.answer.obj.uid.rev < rev BY <1>1, <3>1 DEF Sound, Old
    <3>3. Becomes(r, Created(r, m.answer.obj)) BY <1>2, <2>2 DEF BindAnswer
    <3> QED BY <1>2, <2>1, <2>2, <3>1, <3>2, <3>3, BoundStep DEF BindAnswer
  <2>3. CASE m.answer.code # "ok" BY <1>2, <2>1, <2>3, GoesStep DEF BindAnswer
  <2> QED BY <2>2, <2>3
<1>3. CASE CreateUncertain(r)
  <2> DEFINE y == [m EXCEPT !.pc = "discover", !.asked = None, !.answer = NoAnswer]
  <2>1. m.pc = "create-sent" /\ Becomes(r, y) /\ UNCHANGED <<live, rev, receipt>>
        /\ net' \subseteq net
    BY <1>3 DEF CreateUncertain, Abandoned
  <2>2. /\ y.pc = "discover" /\ y.answer = NoAnswer /\ y.at = m.at /\ y.mode = m.mode
        /\ y.own = m.own /\ y.book = m.book /\ y.status = m.status /\ y.intents = m.intents
    BY <1>1 DEF Memory
  <2> HIDE DEF y
  <2>3. m.status = "creating" /\ \A n \in Objs : Unsent(y, n) <=> Unsent(m, n)
    BY <1>1, <2>1, <2>2 DEF Own, Creating, Unsent
  <2>4. Mem(y, c)
    <3>1. c # None => Grown(c, y) BY <1>1, <2>1, <2>2 DEF Sound, Mem, Over, Grown
    <3>2. ~Stripping(y) /\ ~Checking(y) BY <2>2 DEF Stripping, Checking
    <3> QED BY <1>1, <2>1, <2>2, <2>3, <3>1, <3>2 DEF Sound, Mem, Over
  <2>5. Tags(y, c, live) /\ Order(y, live) /\ Old(y, c, rev)
    BY <1>1, <2>2, <2>3, NoOrder DEF Sound, Tags, Rolling, Old, NoAnswer
  <2>6. Steady(m, c, y, c) BY <2>1, <2>2, <2>3 DEF Steady, Called, Unheard, Agrees
  <2> QED BY <2>1, <2>4, <2>5, <2>6, QuietStep DEF Sound
<1>4. CASE Discover(r)
  <2>1. m.pc = "discover" /\ ~Over(m) /\ m.pc # "idle" /\ UNCHANGED <<live, rev, net, receipt>>
    BY <1>4 DEF Discover, Over
  <2> DEFINE o == live[m.at]
  <2>2. CASE o # None /\ o.tag = r /\ o.exact
    <3>1. o \in Objects /\ o.uid.by = r /\ o.uid.rev < rev
      BY <1>1, <2>2, Facts, ConstantsOK DEF ReceiptInv, OwnInv
    <3>2. Becomes(r, Created(r, o)) BY <1>4, <2>2 DEF Discover
    <3> QED BY <2>1, <3>1, <3>2, BoundStep
  <2>3. CASE ~(o # None /\ o.tag = r /\ o.exact)
    BY <1>4, <2>1, <2>3, GoesStep DEF Discover
  <2> QED BY <2>2, <2>3
<1> QED BY <1>2, <1>3, <1>4

\* Turning from a read to a patch and back.
LEMMA TurnSound ==
  ASSUME ReceiptInv, NEW r \in Runs, run[r].pc \in {"strip", "patch-sent"}, NEW y,
         y.pc \in {"strip", "patch-sent"}, y.at = run[r].at, y.mode = run[r].mode,
         y.own = run[r].own, y.book = run[r].book, y.status = run[r].status,
         y.intents = run[r].intents, y.answer = NoAnswer
  PROVE  Sound(y, receipt[r], live, rev) /\ Steady(run[r], receipt[r], y, receipt[r])
<1> DEFINE m == run[r]
           c == receipt[r]
<1>1. Sound(m, c, live, rev) /\ m.pc \in {"strip", "patch-sent"} BY Facts
<1> HIDE DEF m, c
<1> USE <1>1
<1>2. ~Over(m) /\ ~Over(y) /\ ~Rolling(y) /\ \A n \in Objs : ~Unsent(y, n) /\ ~Unsent(m, n)
  BY DEF Over, Rolling, Unsent, m
<1>3. Mem(y, c)
  <2>1. c # None => Grown(c, y) BY <1>2 DEF Sound, Mem, Grown, m
  <2> QED BY <1>2, <2>1 DEF Sound, Mem, Stripping, Checking, m
<1>4. Tags(y, c, live) /\ Order(y, live) /\ Old(y, c, rev)
  BY <1>2, NoOrder DEF Sound, Tags, Old, NoAnswer, m
<1>5. Steady(m, c, y, c) BY <1>2 DEF Steady, Called, Unheard, Agrees, m
<1> QED BY <1>3, <1>4, <1>5 DEF Sound, m, c

LEMMA StripStep ==
  ASSUME ReceiptInv, OwnInv', NEW r \in Runs,
         \/ MarkIntent(r) \/ SendPatch(r) \/ NothingToPatch(r)
         \/ PatchAnswered(r) \/ PatchUncertain(r)
  PROVE  ReceiptInv'
<1> DEFINE m == run[r]
           c == receipt[r]
           b == [m EXCEPT !.pc = "strip", !.tries = @ + 1, !.asked = None,
                          !.answer = NoAnswer]
<1>1. /\ m \in Memory /\ m.at \in Objs /\ Own(m, r, c) /\ Sound(m, c, live, rev)
  BY Facts
<1>2. CASE MarkIntent(r) BY <1>2, MarkSound, QuietStep DEF MarkIntent
<1>3. CASE SendPatch(r)
  <2> DEFINE o == live[m.at]
             q == Request(r, "patch", m.at, o.uid, o.rv)
             y == [m EXCEPT !.pc = "patch-sent", !.asked = q, !.answer = NoAnswer]
  <2>1. /\ m.pc = "strip" /\ o.uid = m.book[m.at].uid /\ Becomes(r, y)
        /\ net' = net \cup {q} /\ UNCHANGED <<live, rev, receipt>>
    BY <1>3 DEF SendPatch, StillMine, Send
  <2>2. q.kind = "patch" /\ q.run = r /\ q.op = m.op /\ q.obj = m.at /\ q.uid = o.uid
    BY DEF Request
  <2> HIDE DEF q
  <2>3. /\ y.pc = "patch-sent" /\ y.at = m.at /\ y.mode = m.mode /\ y.own = m.own
        /\ y.book = m.book /\ y.status = m.status /\ y.intents = m.intents
        /\ y.answer = NoAnswer
    BY <1>1 DEF Memory
  <2> HIDE DEF y
  <2>4. m.mode = "live" /\ m.op = r /\ Proves(c, m.at, m.book[m.at].uid)
    BY <1>1, <2>1 DEF Sound, Mem, Stripping, Own
  <2>5. Backed(q, y, c, live[q.obj]) /\ \A p \in net : ~Alike(p, q)
    BY <2>1, <2>2, <2>4 DEF Backed, Alike
  <2>6. Sound(y, c, live, rev) /\ Steady(m, c, y, c) BY <2>1, <2>3, TurnSound
  <2> QED BY <2>1, <2>2, <2>5, <2>6, SendStep
<1>4. ASSUME m.pc \in {"strip", "patch-sent"}, UNCHANGED <<live, rev, receipt>>,
             net' \subseteq net, \/ Becomes(r, Removed(r)) \/ Becomes(r, b)
                                 \/ Becomes(r, Abort(r, FALSE))
      PROVE  ReceiptInv'
  <2>1. CASE Becomes(r, Removed(r)) BY <1>4, <2>1, RemovedSound, QuietStep
  <2>2. CASE Becomes(r, b)
    <3>1. /\ b.pc = "strip" /\ b.at = m.at /\ b.mode = m.mode /\ b.own = m.own
          /\ b.book = m.book /\ b.status = m.status /\ b.intents = m.intents
          /\ b.answer = NoAnswer
      BY <1>1 DEF Memory
    <3> HIDE DEF b
    <3>2. Sound(b, c, live, rev) /\ Steady(m, c, b, c) BY <1>4, <3>1, TurnSound
    <3> QED BY <1>4, <2>2, <3>2, QuietStep
  <2>3. CASE Becomes(r, Abort(r, FALSE))
    <3>1. ~Over(m) /\ m.pc # "idle" BY <1>4 DEF Over
    <3> QED BY <1>4, <2>3, <3>1, GoesStep
  <2> QED BY <1>4, <2>1, <2>2, <2>3
<1>5. CASE NothingToPatch(r) BY <1>4, <1>5 DEF NothingToPatch
<1>6. CASE PatchAnswered(r) \/ PatchUncertain(r)
  BY <1>4, <1>6 DEF PatchAnswered, PatchUncertain, Retry, Abandoned
<1> QED BY <1>2, <1>3, <1>5, <1>6

\* Before the first POST there is nothing to know.
LEMMA FirstSteps ==
  ASSUME ReceiptInv, OwnInv', NEW r \in Runs, StartLive(r) \/ CheckAbsent(r)
  PROVE  ReceiptInv'
<1> DEFINE m == run[r]
           c == receipt[r]
           s == [m EXCEPT !.pc = "save", !.cont = "absent"]
           t == [m EXCEPT !.at = m.at + 1]
           u == [m EXCEPT !.pc = "save", !.cont = "create", !.at = 1,
                          !.status = "creating"]
<1>1. /\ m \in Memory /\ m.at \in Objs /\ Own(m, r, c) /\ Sound(m, c, live, rev)
      /\ UNCHANGED <<live, rev, net, receipt>> /\ m.pc \in {"idle", "absent"}
  BY Facts DEF StartLive, CheckAbsent, MayStart
<1>2. \/ Becomes(r, Exit(r)) /\ m.pc = "absent"
      \/ Becomes(r, s)
      \/ Becomes(r, t) /\ m.pc = "absent"
      \/ Becomes(r, u)
  <2>1. StartLive(r) => Becomes(r, s) BY DEF StartLive
  <2>2. CheckAbsent(r) /\ live[m.at] # None => Becomes(r, Exit(r)) /\ m.pc = "absent"
    BY DEF CheckAbsent
  <2>3. CheckAbsent(r) /\ live[m.at] = None /\ m.at < N => Becomes(r, t) /\ m.pc = "absent"
    BY DEF CheckAbsent
  <2>4. CheckAbsent(r) /\ live[m.at] = None /\ ~(m.at < N) => Becomes(r, u)
    BY DEF CheckAbsent
  <2> HIDE DEF m, s, t, u
  <2> QED BY <2>1, <2>2, <2>3, <2>4
<1>3. /\ m.mode = "live" /\ m.status # "dormant-ready"
      /\ \A n \in Objs : Unsent(m, n) /\ m.book[n] = None
  <2>1. m.mode = "live" BY <1>1 DEF Own, Posting, Unstarted
  <2>2. \A n \in Objs : Unsent(m, n) /\ m.book[n] = None
    BY <1>1 DEF Unsent, Sound, Mem
  <2>3. m.status # "dormant-ready" BY <1>1, <2>2, AtType DEF Sound, Mem, Over
  <2> QED BY <2>1, <2>2, <2>3
<1>4. ASSUME NEW y, Becomes(r, y),
             \/ y.pc = "absent"
             \/ y.pc = "save" /\ y.cont = "absent"
             \/ y.pc = "save" /\ y.cont = "create" /\ y.at = 1,
             y.mode = m.mode, y.own = m.own, y.book = m.book, y.intents = m.intents,
             y.status \in {m.status, "creating"}, y.answer = m.answer
      PROVE  ReceiptInv'
  <2> HIDE DEF m, c, s, t, u
  <2>1. /\ \A n \in Objs : Unsent(y, n)
        /\ ~Over(y) /\ ~Over(m) /\ ~Stripping(y) /\ ~Checking(y) /\ ~Rolling(y)
    BY <1>1, <1>4 DEF Unsent, Objs, Over, Stripping, Checking, Rolling
  <2>2. Mem(y, c)
    <3>1. c # None => Grown(c, y) BY <1>1, <1>4, <2>1 DEF Sound, Mem, Grown
    <3> QED BY <1>1, <1>3, <1>4, <2>1, <3>1 DEF Sound, Mem
  <2>3. Tags(y, c, live) /\ Order(y, live) /\ Old(y, c, rev)
    BY <1>1, <1>3, <1>4, <2>1, NoOrder DEF Sound, Tags, Old
  <2>4. Steady(m, c, y, c) BY <1>1, <1>3, <1>4 DEF Steady, Called, Unheard, Agrees
  <2> QED BY <1>1, <1>4, <2>2, <2>3, <2>4, QuietStep DEF Sound, m, c
<1>5. CASE Becomes(r, Exit(r)) /\ m.pc = "absent" BY <1>1, <1>5, GoesStep DEF Exit
<1>6. CASE Becomes(r, s)
  <2>1. /\ s.pc = "save" /\ s.cont = "absent" /\ s.mode = m.mode /\ s.own = m.own
        /\ s.book = m.book /\ s.intents = m.intents /\ s.status = m.status
        /\ s.answer = m.answer
    BY <1>1 DEF Memory
  <2> HIDE DEF s
  <2> QED BY <1>4, <1>6, <2>1
<1>7. CASE Becomes(r, t) /\ m.pc = "absent"
  <2>1. /\ t.pc = "absent" /\ t.mode = m.mode /\ t.own = m.own
        /\ t.book = m.book /\ t.intents = m.intents /\ t.status = m.status
        /\ t.answer = m.answer
    BY <1>1, <1>7 DEF Memory
  <2>2. Becomes(r, t) BY <1>7
  <2> HIDE DEF m, c, s, t, u
  <2> QED BY <1>4, <2>1, <2>2
<1>8. CASE Becomes(r, u)
  <2>1. /\ u.pc = "save" /\ u.cont = "create" /\ u.at = 1 /\ u.mode = m.mode
        /\ u.own = m.own /\ u.book = m.book /\ u.intents = m.intents
        /\ u.status = "creating" /\ u.answer = m.answer
    BY <1>1 DEF Memory
  <2> HIDE DEF u
  <2> QED BY <1>4, <1>8, <2>1
<1> QED BY <1>2, <1>5, <1>6, <1>7, <1>8

\* The last look: every object is still this run's, exact and nonce-free.
LEMMA FinalStep ==
  ASSUME ReceiptInv, OwnInv', NEW r \in Runs, CheckFinal(r)
  PROVE  ReceiptInv'
<1> DEFINE m == run[r]
           c == receipt[r]
           o == live[m.at]
           s == [m EXCEPT !.at = m.at + 1]
           t == [m EXCEPT !.status = "dormant-ready", !.pc = "save", !.cont = "done"]
           good == o.uid = m.book[m.at].uid /\ o.tag = None /\ o # None
<1>1. /\ m \in Memory /\ m.at \in Objs /\ Own(m, r, c) /\ Sound(m, c, live, rev)
      /\ UNCHANGED <<live, rev, net, receipt>> /\ m.pc = "final" /\ Progress(m)
  BY Facts DEF CheckFinal
<1>2. \/ Becomes(r, Abort(r, FALSE))
      \/ Becomes(r, s) /\ good /\ m.at < N
      \/ Becomes(r, t) /\ good /\ ~(m.at < N)
  BY DEF CheckFinal, StillMine
<1>3. ~Over(m) /\ Checking(m) /\ m.mode = "live" /\ \A n \in Objs : ~Unsent(m, n)
  BY <1>1 DEF Over, Checking, Unsent, Sound, Mem
<1>4. ASSUME good PROVE \A n \in Objs : n <= m.at => Bare(live[n], m.book[n])
  <2>1. \A n \in Objs : n <= m.at => n < m.at \/ n = m.at BY <1>1 DEF Objs
  <2> QED BY <1>1, <1>4, <2>1 DEF Sound, Tags, Bare
<1>5. ASSUME NEW y, Becomes(r, y), y.mode = m.mode, y.own = m.own, y.book = m.book,
             y.intents = m.intents, y.answer = m.answer,
             \/ y.pc = "final" /\ y.status = m.status
             \/ y.pc = "save" /\ y.cont = "done",
             Tags(y, c, live)
      PROVE  ReceiptInv'
  <2> HIDE DEF m, c, s, t, good
  <2>1. ~Over(y) /\ ~Stripping(y) /\ ~Rolling(y) /\ \A n \in Objs : ~Unsent(y, n)
    BY <1>5 DEF Over, Stripping, Rolling, Unsent
  <2>2. Mem(y, c)
    <3>1. c # None => Grown(c, y) BY <1>1, <1>3, <1>5, <2>1 DEF Sound, Mem, Grown
    <3>2. \A n \in Objs : y.book[n] # None /\ y.book[n].st = "removed"
      BY <1>1, <1>3, <1>5 DEF Progress
    <3> QED BY <1>1, <1>3, <1>5, <2>1, <3>1, <3>2 DEF Sound, Mem
  <2>3. Order(y, live) /\ Old(y, c, rev) BY <1>1, <1>5, <2>1, NoOrder DEF Sound, Old
  <2>4. Steady(m, c, y, c)
    BY <1>1, <1>3, <1>5, <2>1 DEF Steady, Called, Unheard, Agrees
  <2> QED BY <1>1, <1>5, <2>2, <2>3, <2>4, QuietStep DEF Sound, m, c
<1>6. CASE Becomes(r, Abort(r, FALSE)) BY <1>1, <1>3, <1>6, GoesStep
<1>7. CASE Becomes(r, s) /\ good /\ m.at < N
  <2>1. /\ s.pc = "final" /\ s.mode = m.mode /\ s.own = m.own /\ s.book = m.book
        /\ s.intents = m.intents /\ s.status = m.status /\ s.answer = m.answer
        /\ s.at = m.at + 1
    BY <1>1, <1>7 DEF Memory
  <2> HIDE DEF s
  <2>2. \A n \in Objs : n < s.at => n <= m.at BY <1>1, <2>1 DEF Objs
  <2>3. Tags(s, c, live) BY <1>1, <1>3, <1>4, <1>7, <2>1, <2>2 DEF Sound, Tags
  <2> QED BY <1>5, <1>7, <2>1, <2>3
<1>8. CASE Becomes(r, t) /\ good /\ ~(m.at < N)
  <2>1. /\ t.pc = "save" /\ t.cont = "done" /\ t.mode = m.mode /\ t.own = m.own
        /\ t.book = m.book /\ t.intents = m.intents /\ t.answer = m.answer
    BY <1>1, <1>8 DEF Memory
  <2> HIDE DEF t
  <2>2. \A n \in Objs : n <= m.at BY <1>1, <1>8, ConstantsOK DEF Objs
  <2>3. Tags(t, c, live) BY <1>1, <1>4, <1>8, <2>1, <2>2 DEF Sound, Tags
  <2> QED BY <1>5, <1>8, <2>1, <2>3
<1> QED BY <1>2, <1>6, <1>7, <1>8

\* A signal, a failed read or check, a crash.
LEMMA BreakStep ==
  ASSUME ReceiptInv, OwnInv', NEW r \in Runs, Raise(r) \/ Crash(r)
  PROVE  ReceiptInv'
<1> DEFINE m == run[r]
<1>1. net' \subseteq net /\ UNCHANGED <<live, rev, receipt>>
  BY DEF Raise, Crash, Abandoned
<1>2. CASE Crash(r) BY <1>1, <1>2, GoesStep DEF Crash
<1>3. CASE Raise(r) /\ Becomes(r, Exit(r)) /\ m.pc \in {"absent", "scan", "tscan"}
  BY <1>1, <1>3, GoesStep DEF Exit
<1>4. CASE Raise(r) /\ m.guarded /\ Becomes(r, Abort(r, FALSE))
  <2>1. ~Over(m) /\ m.pc # "idle" BY <1>4, Facts DEF Sound, Mem
  <2> QED BY <1>1, <1>4, <2>1, GoesStep
<1> QED BY <1>2, <1>3, <1>4 DEF Raise

\* Deleting, waiting and concluding learn nothing new.
LEMMA LateStep ==
  ASSUME ReceiptInv, OwnInv', NEW r \in Runs, NEW y, Becomes(r, y),
         ~Over(run[r]), run[r].pc # "idle", Knows(run[r], y), Late(y), Order(y, live),
         Aged(y.own, rev), y.answer \in {run[r].answer, NoAnswer},
         UNCHANGED <<live, rev, receipt>>, net' \subseteq net
  PROVE  ReceiptInv'
<1> DEFINE m == run[r]
           c == receipt[r]
<1>1. m \in Memory /\ Sound(m, c, live, rev) /\ y \in Memory
  <2>1. run \in [Runs -> Memory] /\ run' \in [Runs -> Memory]
    BY DEF ReceiptInv, OwnInv, TypeInv, TypeOK
  <2> QED BY <2>1, Facts DEF Becomes
<1>2. Mem(y, c) /\ Tags(y, c, live) /\ Steady(m, c, y, c)
  BY <1>1, LateKeeps DEF Sound
<1>3. Old(y, c, rev)
  <2>1. NoAnswer.obj = None BY DEF NoAnswer
  <2> QED BY <1>1, <2>1 DEF Sound, Old, Knows
<1> QED BY <1>2, <1>3, QuietStep DEF Sound

LEMMA DeleteStep ==
  ASSUME ReceiptInv, OwnInv', NEW r \in Runs, SendDelete(r)
  PROVE  ReceiptInv'
<1> DEFINE m == run[r]
           c == receipt[r]
<1>1. m \in Memory /\ m.pc = "rollback" /\ Sound(m, c, live, rev)
  BY Facts DEF SendDelete
<1>2. PICK n \in Objs :
        /\ NextVictim(n, m.todo)
        /\ Send(r, Request(r, "delete", n, live[n].uid, live[n].rv), "delete-sent")
  BY DEF SendDelete
<1> DEFINE q == Request(r, "delete", n, live[n].uid, live[n].rv)
           y == [m EXCEPT !.pc = "delete-sent", !.asked = q, !.answer = NoAnswer]
<1>3. q.run = r /\ q.obj = n /\ q.kind = "delete" BY DEF Request
<1>4. Becomes(r, y) /\ net' = net \cup {q} /\ UNCHANGED <<live, rev, receipt>>
  BY <1>2 DEF Send
<1> HIDE DEF q
<1>5. /\ y.pc = "delete-sent" /\ y.asked = q /\ y.answer = NoAnswer /\ y.mode = m.mode
      /\ y.own = m.own /\ y.book = m.book /\ y.status = m.status
      /\ y.intents = m.intents /\ y.todo = m.todo /\ y.err = m.err
  BY <1>1 DEF Memory
<1>6. y \in Memory BY <1>4, Facts DEF Becomes, OwnInv, TypeInv, TypeOK
<1> HIDE DEF y
<1>7. Mem(y, c) /\ Tags(y, c, live) /\ Steady(m, c, y, c)
  <2>1. Knows(m, y) /\ Late(y) /\ ~Over(m) /\ m.pc # "idle"
    BY <1>1, <1>5 DEF Knows, Late, Over
  <2> QED BY <1>1, <1>6, <2>1, LateKeeps DEF Sound
<1>8. Order(y, live) /\ Old(y, c, rev)
  BY <1>1, <1>2, <1>3, <1>5 DEF Sound, Order, Rolling, Old, NoAnswer
<1>9. Backed(q, y, c, live[q.obj]) /\ \A p \in net : ~Alike(p, q)
  BY <1>3 DEF Backed, Alike
<1> QED BY <1>3, <1>4, <1>7, <1>8, <1>9, SendStep DEF Sound

LEMMA SkipStep ==
  ASSUME ReceiptInv, OwnInv', NEW r \in Runs,
         Skip(r) \/ SkipUnread(r) \/ DeleteAnswered(r) \/ DeleteUncertain(r)
  PROVE  ReceiptInv'
<1> DEFINE m == run[r]
           c == receipt[r]
<1>1. /\ m \in Memory /\ Sound(m, c, live, rev) /\ m.pc \in {"rollback", "delete-sent"}
      /\ UNCHANGED <<live, rev, receipt>> /\ net' \subseteq net
      /\ ~Over(m) /\ m.pc # "idle"
  BY Facts DEF Skip, SkipUnread, DeleteAnswered, DeleteUncertain, Abandoned, Over
<1>2. ASSUME NEW n \in Objs, NEW y, Becomes(r, y), y.pc = "rollback",
             y.mode = m.mode, y.own = m.own, y.book = m.book, y.status = m.status,
             y.intents = m.intents, y.todo = m.todo \ {n}, m.err => y.err,
             y.err \/ Left(live[n], m.own[n]), y.answer \in {m.answer, NoAnswer}
      PROVE  ReceiptInv'
  <2> HIDE DEF m, c
  <2>1. Knows(m, y) /\ Late(y) BY <1>1, <1>2 DEF Knows, Late
  <2>2. Order(y, live) BY <1>1, <1>2 DEF Sound, Order, Rolling
  <2>3. Aged(y.own, rev) BY <1>1, <1>2 DEF Sound, Old
  <2> QED BY <1>1, <1>2, <2>1, <2>2, <2>3, LateStep DEF m
<1>3. CASE Skip(r)
  <2>1. PICK n \in Objs : Becomes(r, [m EXCEPT !.todo = @ \ {n}, !.err = @ \/ live[n] # None])
    BY <1>3 DEF Skip
  <2> DEFINE y == [m EXCEPT !.todo = @ \ {n}, !.err = @ \/ live[n] # None]
  <2>2. /\ y.pc = m.pc /\ y.mode = m.mode /\ y.own = m.own /\ y.book = m.book
        /\ y.status = m.status /\ y.intents = m.intents /\ y.todo = m.todo \ {n}
        /\ y.answer = m.answer /\ y.err = (m.err \/ live[n] # None)
    BY <1>1 DEF Memory
  <2>3. m.pc = "rollback" /\ Becomes(r, y) BY <1>3, <2>1 DEF Skip
  <2> HIDE DEF y
  <2>4. (m.err => y.err) /\ (y.err \/ Left(live[n], m.own[n])) BY <2>2 DEF Left
  <2> QED BY <1>2, <2>2, <2>3, <2>4
<1>4. CASE SkipUnread(r)
  <2>1. PICK n \in Objs : Becomes(r, [m EXCEPT !.todo = @ \ {n}, !.err = TRUE])
    BY <1>4 DEF SkipUnread
  <2> DEFINE y == [m EXCEPT !.todo = @ \ {n}, !.err = TRUE]
  <2>2. /\ y.pc = m.pc /\ y.mode = m.mode /\ y.own = m.own /\ y.book = m.book
        /\ y.status = m.status /\ y.intents = m.intents /\ y.todo = m.todo \ {n}
        /\ y.answer = m.answer /\ y.err
    BY <1>1 DEF Memory
  <2>3. m.pc = "rollback" /\ Becomes(r, y) BY <1>4, <2>1 DEF SkipUnread
  <2> HIDE DEF y
  <2> QED BY <1>2, <2>2, <2>3
<1>5. ASSUME NEW f \in BOOLEAN, m.pc = "delete-sent", Becomes(r, DeleteSettled(r, f)),
             f \/ (m.answer # NoAnswer /\ m.answer.code # "conflict")
      PROVE  ReceiptInv'
  <2> DEFINE n == m.asked.obj
             y == DeleteSettled(r, f)
  <2>1. n \in Objs BY <1>5, Facts DEF Asking, Sent, Requests
  <2>2. /\ y.pc = "rollback" /\ y.mode = m.mode /\ y.own = m.own /\ y.book = m.book
        /\ y.status = m.status /\ y.intents = m.intents /\ y.todo = m.todo \ {n}
        /\ y.answer = NoAnswer /\ y.err = (m.err \/ f)
    BY <1>1 DEF Memory, DeleteSettled
  <2> HIDE DEF y
  <2>3. m.err => y.err BY <2>2
  <2>4. y.err \/ Left(live[n], m.own[n]) BY <1>1, <1>5, <2>2 DEF Sound, Order
  <2> QED BY <1>2, <1>5, <2>1, <2>2, <2>3, <2>4 DEF y
<1>6. CASE DeleteAnswered(r)
  <2>1. /\ m.pc = "delete-sent" /\ m.answer # NoAnswer
        /\ Becomes(r, DeleteSettled(r, m.answer.code = "conflict"))
    BY <1>6 DEF DeleteAnswered
  <2>2. (m.answer.code = "conflict") \in BOOLEAN OBVIOUS
  <2> QED BY <1>5, <2>1, <2>2
<1>7. CASE DeleteUncertain(r) BY <1>5, <1>7 DEF DeleteUncertain
<1> QED BY <1>3, <1>4, <1>6, <1>7

LEMMA WaitStep ==
  ASSUME ReceiptInv, OwnInv', NEW r \in Runs,
         \/ BeginWait(r) \/ WaitAbsent(r) \/ WaitDeadline(r) \/ WaitUnread(r)
         \/ Conclude(r)
  PROVE  ReceiptInv'
<1> DEFINE m == run[r]
           c == receipt[r]
<1>1. /\ m \in Memory /\ Sound(m, c, live, rev) /\ m.pc \in {"rollback", "wait", "conclude"}
      /\ UNCHANGED <<live, rev, receipt, net>>
  BY Facts DEF BeginWait, WaitAbsent, WaitDeadline, WaitUnread, Conclude
<1> DEFINE Fits(y) ==
             /\ \/ y.pc \in {"wait", "conclude"} /\ y.status = m.status
                \/ y.pc = "save" /\ y.cont = "done" /\ y.status # "dormant-ready"
             /\ y.mode = m.mode /\ y.own = m.own /\ y.book = m.book
             /\ y.intents = m.intents /\ y.answer = m.answer
<1>2. ASSUME NEW y, Becomes(r, y), Fits(y) PROVE ReceiptInv'
  <2> HIDE DEF m, c
  <2>1. Knows(m, y) /\ Late(y) /\ ~Over(m) /\ m.pc # "idle" /\ ~Rolling(y)
    BY <1>1, <1>2 DEF Knows, Late, Over, Rolling
  <2>2. Order(y, live) /\ Aged(y.own, rev)
    BY <1>1, <1>2, <2>1, NoOrder DEF Sound, Old
  <2> QED BY <1>1, <1>2, <2>1, <2>2, LateStep DEF m
<1>3. CASE BeginWait(r)
  <2> DEFINE y == [m EXCEPT !.pc = "wait", !.at = 1, !.tries = 0]
  <2>1. Fits(y) BY <1>1 DEF Memory
  <2> HIDE DEF Fits
  <2> QED BY <1>2, <1>3, <2>1 DEF BeginWait
<1>4. CASE WaitAbsent(r)
  <2> DEFINE u == [m EXCEPT !.at = m.at + 1]
             v == [m EXCEPT !.at = 1, !.tries = @ + 1]
             w == [m EXCEPT !.pc = "conclude"]
             x == [m EXCEPT !.at = 1, !.tries = 0]
  <2>1. m.pc = "wait" /\ (Becomes(r, u) \/ Becomes(r, v) \/ Becomes(r, w) \/ Becomes(r, x))
    BY <1>4 DEF WaitAbsent
  <2>2. Fits(u) /\ Fits(v) /\ Fits(w) /\ Fits(x) BY <1>1, <2>1 DEF Memory
  <2> HIDE DEF Fits, u, v, w, x
  <2> QED BY <1>2, <2>1, <2>2
<1>5. CASE WaitDeadline(r) \/ WaitUnread(r)
  <2> DEFINE y == [m EXCEPT !.pc = "conclude", !.err = TRUE]
  <2>1. Fits(y) BY <1>1 DEF Memory
  <2> HIDE DEF Fits
  <2> QED BY <1>2, <1>5, <2>1 DEF WaitDeadline, WaitUnread
<1>6. CASE Conclude(r)
  <2>1. ASSUME NEW e \in BOOLEAN PROVE Fits(Concludes(r, e))
    <3> DEFINE v == Verdict(r, e)
    <3>1. v # "dormant-ready" BY <1>1 DEF Verdict, Memory, Modes
    <3> HIDE DEF v
    <3>2. Fits([m EXCEPT !.err = e, !.status = v, !.pc = "save", !.cont = "done"])
      BY <1>1, <3>1 DEF Memory
    <3> QED BY <3>2 DEF Concludes, v
  <2>2. m.err \in BOOLEAN BY <1>1 DEF Memory
  <2> HIDE DEF Fits
  <2> QED BY <1>2, <1>6, <2>1, <2>2 DEF Conclude
<1> QED BY <1>3, <1>4, <1>5, <1>6

\* The scans of a recovery and of a teardown.
LEMMA ScanStep ==
  ASSUME ReceiptInv, OwnInv', NEW r \in Runs,
         Scan(r) \/ ScanUnread(r) \/ ScanTeardown(r)
  PROVE  ReceiptInv'
<1> DEFINE m == run[r]
           c == receipt[r]
<1>1. /\ m \in Memory /\ Sound(m, c, live, rev) /\ m.pc \in {"scan", "tscan"}
      /\ UNCHANGED <<live, rev, receipt, net>> /\ m.at \in Objs /\ m.own \in Books
      /\ Aged(m.own, rev)
  <2>1. Sound(m, c, live, rev) => Aged(m.own, rev) BY DEF Sound, Old
  <2> QED BY <2>1, Facts DEF Scan, ScanUnread, ScanTeardown
<1> DEFINE Fits(y) ==
             /\ \/ y.pc \in {"scan", "tscan"}
                \/ y.pc = "save" /\ y.cont = "conclude"
                \/ /\ y.pc = "rollback" \/ (y.pc = "save" /\ y.cont = "rollback")
                   /\ \A k \in Objs : y.own[k] # None => k \in y.todo
             /\ y.status = m.status /\ y.mode = m.mode /\ y.book = m.book
             /\ y.intents = m.intents /\ y.answer = m.answer /\ Aged(y.own, rev)
<1>2. ASSUME NEW y, Becomes(r, y), Fits(y) PROVE ReceiptInv'
  <2> HIDE DEF m, c
  <2>1. Knows(m, y) /\ Late(y) /\ ~Over(m) /\ m.pc # "idle"
    BY <1>1, <1>2 DEF Knows, Late, Over
  <2>2. Order(y, live) BY <1>1, <1>2, ConstantsOK DEF Order, Rolling
  <2> QED BY <1>1, <1>2, <2>1, <2>2, LateStep DEF m
<1>3. ASSUME NEW own \in Books, NEW err \in BOOLEAN, Aged(own, rev), m.pc = "scan"
      PROVE  Fits(Scanned(m, own, err))
  <2> DEFINE u == [m EXCEPT !.own = own, !.err = err, !.at = m.at + 1]
             v == [m EXCEPT !.own = own, !.err = err, !.pc = "rollback",
                            !.todo = {n \in Objs : own[n] # None}]
  <2>1. Fits(u) BY <1>1, <1>3 DEF Memory
  <2>2. Fits(v) BY <1>1, <1>3 DEF Memory
  <2> QED BY <2>1, <2>2 DEF Scanned
<1>4. ASSUME NEW err \in BOOLEAN, m.pc = "tscan" PROVE Fits(TornScan(m, err))
  <2> DEFINE u == [m EXCEPT !.err = err, !.at = m.at + 1]
             k == IF err THEN "conclude" ELSE "rollback"
             v == [m EXCEPT !.err = err, !.pc = "save", !.cont = k,
                            !.todo = {n \in Objs : m.own[n] # None}]
  <2>1. Fits(u) BY <1>1, <1>4 DEF Memory
  <2>2. k \in {"conclude", "rollback"} OBVIOUS
  <2> HIDE DEF k
  <2>3. Fits(v) BY <1>1, <1>4, <2>2 DEF Memory
  <2> QED BY <2>1, <2>3 DEF TornScan, k
<1> HIDE DEF Fits
<1>5. CASE Scan(r)
  <2> DEFINE n == m.at
             Found(st) == [m.own EXCEPT ![n] = [uid |-> live[n].uid, st |-> st]]
  <2>1. m.pc = "scan" /\ m.err \in BOOLEAN BY <1>1, <1>5 DEF Scan, Memory
  <2>2. ASSUME live[n] # None, NEW st \in Removal
        PROVE  Found(st) \in Books /\ Aged(Found(st), rev)
    <3>1. live[n].uid \in Uids /\ live[n].uid.rev < rev
      BY <1>1, <2>2, Facts DEF ReceiptInv, Objects
    <3>2. Found(st) \in Books BY <1>1, <2>2, <3>1, SetBookType
    <3> DEFINE x == [uid |-> live[n].uid, st |-> st]
               f == Found(st)
    <3>3. x.uid = live[n].uid OBVIOUS
    <3>4. \A k \in Objs : f[k] = IF k = n THEN x ELSE m.own[k] BY <1>1 DEF Books
    <3> HIDE DEF x, f
    <3>5. Aged(f, rev) BY <1>1, <3>1, <3>3, <3>4 DEF Aged
    <3> QED BY <3>2, <3>5 DEF f
  <2>3. /\ Fits(Scanned(m, m.own, m.err)) /\ Fits(Scanned(m, m.own, TRUE))
        /\ live[n] # None => /\ Fits(Scanned(m, Found("not-started"), m.err))
                             /\ Fits(Scanned(m, Found("removed"), m.err))
    BY <1>1, <1>3, <2>1, <2>2 DEF Removal
  <2>4. PICK y : Becomes(r, y) /\ Fits(y)
    <3> HIDE DEF Found
    <3>1. \/ Becomes(r, Scanned(m, m.own, m.err)) \/ Becomes(r, Scanned(m, m.own, TRUE))
          \/ /\ live[n] # None
             /\ \/ Becomes(r, Scanned(m, Found("not-started"), m.err))
                \/ Becomes(r, Scanned(m, Found("removed"), m.err))
      BY <1>5 DEF Scan, Found
    <3> QED BY <2>3, <3>1
  <2> QED BY <1>2, <2>4
<1>6. CASE ScanUnread(r)
  <2>1. m.pc = "scan" /\ Becomes(r, Scanned(m, m.own, TRUE)) BY <1>6 DEF ScanUnread
  <2> QED BY <1>1, <1>2, <1>3, <2>1
<1>7. CASE ScanTeardown(r)
  <2>1. m.pc = "tscan" /\ m.err \in BOOLEAN BY <1>1, <1>7 DEF ScanTeardown, Memory
  <2>2. PICK e \in BOOLEAN : Becomes(r, TornScan(m, e))
    <3> DEFINE o == live[m.at]
               f == m.err \/ ~(o = None \/ (StillMine(o, m.own[m.at]) /\ o.tag = None))
    <3>1. Becomes(r, TornScan(m, f)) \/ Becomes(r, TornScan(m, TRUE))
      BY <1>7 DEF ScanTeardown
    <3>2. f \in BOOLEAN OBVIOUS
    <3> HIDE DEF f
    <3> QED BY <3>1, <3>2
  <2> QED BY <1>2, <1>4, <2>1, <2>2
<1> QED BY <1>5, <1>6, <1>7

\* A recovery or teardown begins with what the receipt of the live run says.
LEMMA ResumeStep ==
  ASSUME ReceiptInv, OwnInv', NEW r \in Runs, NEW p \in Runs,
         StartRecover(r, p) \/ StartTeardown(r, p)
  PROVE  ReceiptInv'
<1> DEFINE m == run[r]
           c == receipt[r]
           k == receipt[p]
           x == [m EXCEPT !.mode = "recover", !.op = p, !.book = k.recs,
                          !.intents = k.intents, !.status = "recovering",
                          !.pc = "save", !.cont = "scan"]
           z == [m EXCEPT !.mode = "teardown", !.op = p, !.book = k.recs,
                          !.own = k.recs, !.status = "tearing-down", !.pc = "tscan"]
<1>1. /\ m \in Memory /\ m.pc = "idle" /\ m = Unstarted(r) /\ c = None
      /\ UNCHANGED <<live, rev, receipt, net>> /\ k # None /\ Aged(k.recs, rev)
  <2>1. m \in Memory /\ m.pc = "idle" /\ k # None /\ UNCHANGED <<live, rev, receipt, net>>
    BY Facts DEF StartRecover, StartTeardown, MayStart, Binds
  <2>2. m = Unstarted(r) /\ c = None BY <2>1, Facts DEF Own, Sound, Mem
  <2>3. Aged(k.recs, rev) BY <2>1, Facts DEF Sound, Old
  <2> QED BY <2>1, <2>2, <2>3
<1>2. ASSUME NEW y, Becomes(r, y), y.mode # "live", y.book = k.recs, ~y.guarded,
             y.answer = NoAnswer, y.own = NoBook \/ y.own = k.recs,
             y.status \in {"recovering", "tearing-down"},
             y.pc = "tscan" \/ (y.pc = "save" /\ y.cont = "scan")
      PROVE  ReceiptInv'
  <2> HIDE DEF m, k
  <2>1. Mem(y, c) BY <1>1, <1>2 DEF Mem, Unsent, Stripping, Checking
  <2>2. Tags(y, c, live) /\ Order(y, live) BY <1>1, <1>2, NoOrder DEF Tags, Rolling
  <2>3. Old(y, c, rev)
    <3>1. Aged(NoBook, rev) /\ NoAnswer.obj = None BY DEF Aged, NoBook, NoAnswer
    <3> QED BY <1>1, <1>2, <3>1 DEF Old
  <2>4. \A n \in Objs : live[n] # None => live[n].uid.by # r
    BY <1>1, ConstantsOK DEF ReceiptInv, Thing
  <2>5. ASSUME NEW q \in net', q.run = r PROVE Backed(q, y, c, live[q.obj])
    BY <1>1, <2>5 DEF ReceiptInv, Backed, Proves
  <2>6. receipt' = [receipt EXCEPT ![r] = c]
    BY <1>1 DEF ReceiptInv, OwnInv, TypeInv, TypeOK
  <2>7. \A q1, q2 \in net' : q1.run = r /\ Alike(q1, q2) => q1 = q2
    BY <1>1 DEF ReceiptInv
  <2> QED
    <3>1. Sound(y, c, live, rev) BY <2>1, <2>2, <2>3 DEF Sound
    <3>2. \A n \in Objs : live[n] # None /\ live[n].uid.by = r => Thing(live[n], n, y, c)
      BY <2>4
    <3>3. \A q \in net' : q.run # r => q \in net BY <1>1
    <3>4. UNCHANGED <<live, rev>> BY <1>1
    <3> HIDE DEF c
    <3> QED BY <1>2, <2>5, <2>6, <2>7, <3>1, <3>2, <3>3, <3>4, LocalStep
<1>3. m.own = NoBook /\ m.answer = NoAnswer /\ m.guarded = FALSE
  BY <1>1 DEF Unstarted
<1>4. CASE StartRecover(r, p)
  <2>1. Becomes(r, x) BY <1>4 DEF StartRecover
  <2> HIDE DEF k
  <2>2. /\ x.mode = "recover" /\ x.book = k.recs /\ ~x.guarded /\ x.answer = NoAnswer
        /\ x.own = NoBook /\ x.status = "recovering" /\ x.pc = "save" /\ x.cont = "scan"
    BY <1>1, <1>3 DEF Memory
  <2> HIDE DEF x, m
  <2> QED BY <1>2, <2>1, <2>2
<1>5. CASE StartTeardown(r, p)
  <2>1. Becomes(r, z) BY <1>5 DEF StartTeardown
  <2> HIDE DEF k
  <2>2. /\ z.mode = "teardown" /\ z.book = k.recs /\ ~z.guarded /\ z.answer = NoAnswer
        /\ z.own = k.recs /\ z.status = "tearing-down" /\ z.pc = "tscan"
    BY <1>1, <1>3 DEF Memory
  <2> HIDE DEF z, m
  <2> QED BY <1>2, <2>1, <2>2
<1> QED BY <1>4, <1>5

\* Part 9.  The API server and the others.

\* What may become of the cluster: an object goes, loses its nonce, starts to
\* terminate or is edited, or a new one gets a fresh UID.
Moved(o, x, v) ==
  \/ x = None
  \/ /\ o # None /\ x.uid = o.uid /\ x.tag \in {o.tag, None}
     /\ o.going => x.going
  \/ x.uid.rev = v

Moves(lv, lw, v, w) ==
  /\ v <= w
  /\ \A n \in Objs : Moved(lv[n], lw[n], v)
  /\ \A n \in Objs : lw[n] # None => lw[n].uid.rev < w

\* Two memories that differ at most in the answer.
Same(m, y) ==
  /\ y.pc = m.pc /\ y.cont = m.cont /\ y.mode = m.mode /\ y.op = m.op
  /\ y.at = m.at /\ y.guarded = m.guarded /\ y.status = m.status
  /\ y.book = m.book /\ y.intents = m.intents /\ y.own = m.own
  /\ y.todo = m.todo /\ y.err = m.err /\ y.asked = m.asked

LEMMA MoveSound ==
  ASSUME NEW m \in Memory, NEW y, NEW c \in Receipts \cup {None}, NEW lv, NEW lw,
         NEW v \in Nat, NEW w \in Nat, Sound(m, c, lv, v), Moves(lv, lw, v, w),
         Same(m, y), Progress(m), \A n \in m.todo : m.own[n] # None,
         y.answer.obj # None => y.answer.obj.uid.rev < w,
         \/ y.answer = m.answer
         \/ m.pc = "delete-sent" /\ y.answer.code # "conflict" =>
              Left(lw[m.asked.obj], m.own[m.asked.obj])
  PROVE  Sound(y, c, lw, w)
<1>1. \A rec : \A n \in Objs :
        rec.uid.rev < v => /\ Bare(lv[n], rec) => Bare(lw[n], rec)
                           /\ Left(lv[n], rec) => Left(lw[n], rec)
  BY DEF Moves, Moved, Bare, Left
<1>2. Mem(y, c)
  <2>1. \A n \in Objs : Unsent(y, n) <=> Unsent(m, n) BY DEF Same, Unsent
  <2>2. /\ Over(y) <=> Over(m)
        /\ Stripping(y) \/ Checking(y) <=> Stripping(m) \/ Checking(m)
        /\ c # None => (Grown(c, y) <=> Grown(c, m))
    BY DEF Same, Over, Stripping, Checking, Grown
  <2> QED BY <2>1, <2>2 DEF Sound, Mem, Same
<1>3. Tags(y, c, lw)
  <2>1. m.pc = "final" => \A n \in Objs : n < m.at => Bare(lw[n], m.book[n])
    <3>1. m.pc = "final" => \A n \in Objs : m.book[n] # None
      BY DEF Progress, Checking
    <3> QED BY <1>1, <3>1 DEF Sound, Tags, Old, Aged
  <2>2. m.status = "dormant-ready" /\ ~Over(m) => \A n \in Objs : Bare(lw[n], m.book[n])
    BY <1>1 DEF Sound, Mem, Tags, Old, Aged
  <2>3. c # None /\ c.mode = "live" /\ c.status = "dormant-ready" =>
          \A n \in Objs : Bare(lw[n], c.recs[n])
    BY <1>1 DEF Sound, Mem, Tags, Old, Aged, Binds
  <2> QED BY <2>1, <2>2, <2>3 DEF Tags, Same, Over
<1>4. Order(y, lw)
  <2>1. \A n \in Objs : m.own[n] # None /\ Left(lv[n], m.own[n]) => Left(lw[n], m.own[n])
    BY <1>1 DEF Sound, Old, Aged
  <2>2. Rolling(y) <=> Rolling(m) BY DEF Same, Rolling
  <2>3. Rolling(m) => \A k \in Kust : m.own[k] # None =>
          k \in m.todo \/ m.err \/ Left(lw[k], m.own[k])
    BY <2>1, ConstantsOK DEF Sound, Order
  <2>4. ASSUME m.pc = "delete-sent", y.answer # NoAnswer, y.answer.code # "conflict"
        PROVE  Left(lw[m.asked.obj], m.own[m.asked.obj])
    <3>1. m.asked.obj \in Objs /\ m.own[m.asked.obj] # None
      BY <2>4 DEF Sound, Order, NextVictim
    <3> QED BY <2>1, <2>4, <3>1 DEF Sound, Order
  <2>5. m.pc = "delete-sent" =>
          /\ m.asked.kind = "delete" /\ m.asked.obj \in Objs
          /\ NextVictim(m.asked.obj, m.todo)
    BY DEF Sound, Order
  <2> QED BY <2>2, <2>3, <2>4, <2>5 DEF Order, Same
<1>5. Old(y, c, w)
  <2>1. \A b \in Books : Aged(b, v) => Aged(b, w)
    BY DEF Moves, Aged, Books, Records, Uids
  <2>2. m.book \in Books /\ m.own \in Books /\ (c # None => c.recs \in Books)
    BY DEF Memory, Receipts
  <2> QED BY <2>1, <2>2 DEF Sound, Old, Same
<1> QED BY <1>2, <1>3, <1>4, <1>5 DEF Sound

\* What an answer to one run may be, once the cluster is lw with revision w.
Answered(m, y, lw, w) ==
  /\ Same(m, y)
  /\ y.answer.obj # None => y.answer.obj.uid.rev < w
  /\ \/ y.answer = m.answer
     \/ m.pc = "delete-sent" /\ y.answer.code # "conflict" =>
          Left(lw[m.asked.obj], m.own[m.asked.obj])

\* An answer that tells a run of no object it made.
Deaf(m, y) == m.pc = "create-sent" /\ y.answer.code = "ok" => y.answer = m.answer

LEMMA WorldStep ==
  ASSUME ReceiptInv, OwnInv', Moves(live, live', rev, rev'), receipt' = receipt,
         net' \subseteq net,
         \A s \in Runs : Answered(run[s], run'[s], live', rev'),
         \A n \in Objs : live'[n] # None /\ live'[n].uid.by # Foreign =>
           Thing(live'[n], n, run'[live'[n].uid.by], receipt[live'[n].uid.by]),
         \A q \in net' : Backed(q, run'[q.run], receipt[q.run], live'[q.obj])
  PROVE  ReceiptInv'
<1>1. ASSUME NEW s \in Runs PROVE Sound(run'[s], receipt[s], live', rev')
  <2> DEFINE m == run[s]
             y == run'[s]
             c == receipt[s]
  <2>1. /\ m \in Memory /\ c \in Receipts \cup {None} /\ Sound(m, c, live, rev)
        /\ rev \in Nat /\ rev' \in Nat /\ Progress(m) /\ \A n \in m.todo : m.own[n] # None
    BY Facts DEF OwnInv, TypeInv, TypeOK, Own
  <2>2. Answered(m, y, live', rev') OBVIOUS
  <2> HIDE DEF m, y, c
  <2>3. Sound(y, c, live', rev') BY <2>1, <2>2, MoveSound DEF Answered
  <2> QED BY <2>3 DEF y, c
<1>2. \A n \in Objs : live'[n] # None => live'[n].uid.rev < rev' BY DEF Moves
<1>3. \A q1, q2 \in net' : Alike(q1, q2) => q1 = q2 BY DEF ReceiptInv
<1> QED BY <1>1, <1>2, <1>3 DEF ReceiptInv

LEMMA DeafStep ==
  ASSUME ReceiptInv, OwnInv', Moves(live, live', rev, rev'), receipt' = receipt,
         net' \subseteq net,
         \A s \in Runs : Answered(run[s], run'[s], live', rev') /\ Deaf(run[s], run'[s]),
         \A n \in Objs : live'[n] # None /\ live'[n].uid.by # Foreign =>
           Thing(live'[n], n, run[live'[n].uid.by], receipt[live'[n].uid.by]),
         \A n \in Objs : live'[n] # None /\ live'[n].uid.by # Foreign =>
           live[n] # None /\ live'[n].uid = live[n].uid
  PROVE  ReceiptInv'
<1>1. /\ \A n \in Objs : live'[n] # None => live'[n].uid.by \in Runs \cup {Foreign}
      /\ \A q \in net' : q.run \in Runs /\ q.obj \in Objs
  <2>1. \A n \in Objs : live'[n] # None => live'[n] \in Objects
    BY DEF OwnInv, TypeInv, TypeOK
  <2>2. net' \subseteq Requests BY DEF OwnInv, TypeInv, TypeOK
  <2> QED BY <2>1, <2>2 DEF Objects, Uids, Requests
<1>2. ASSUME NEW s \in Runs
      PROVE  \A n \in Objs :
               /\ Called(run[s], n) => Called(run'[s], n)
               /\ Unheard(run[s], receipt[s], n) => Unheard(run'[s], receipt[s], n)
               /\ \A u : Agrees(run[s], receipt[s], n, u) => Agrees(run'[s], receipt[s], n, u)
  <2> DEFINE m == run[s]
             y == run'[s]
             c == receipt[s]
  <2>1. Same(m, y) /\ Deaf(m, y) BY DEF Answered
  <2> HIDE DEF m, y, c
  <2>2. /\ \A n \in Objs : Called(m, n) => Called(y, n)
        /\ \A n \in Objs : Unheard(m, c, n) => Unheard(y, c, n)
    BY <2>1 DEF Same, Deaf, Called, Unsent, Unheard
  <2>3. \A n \in Objs : \A u : Agrees(m, c, n, u) => Agrees(y, c, n, u)
    BY <2>1 DEF Same, Deaf, Agrees
  <2> QED BY <2>2, <2>3 DEF m, y, c
<1>3. ASSUME NEW n \in Objs, live'[n] # None, live'[n].uid.by # Foreign
      PROVE  Thing(live'[n], n, run'[live'[n].uid.by], receipt[live'[n].uid.by])
  BY <1>1, <1>2, <1>3 DEF Thing
<1>4. ASSUME NEW q \in net' PROVE Backed(q, run'[q.run], receipt[q.run], live'[q.obj])
  <2>1. Backed(q, run[q.run], receipt[q.run], live[q.obj]) BY DEF ReceiptInv
  <2>2. live'[q.obj] # None /\ q.kind = "create" => live'[q.obj].uid.by # q.run
    BY <1>1, <2>1, ConstantsOK DEF Backed
  <2> QED BY <1>1, <1>2, <2>1, <2>2 DEF Backed
<1> QED BY <1>3, <1>4, WorldStep

LEMMA ReplySame ==
  ASSUME ReceiptInv, NEW q \in net, NEW code, NEW o, Reply(q, code, o)
  PROVE  \A s \in Runs :
           /\ Same(run[s], run'[s])
           /\ \/ run'[s].answer = run[s].answer
              \/ run[s].asked = q /\ run'[s].answer = [code |-> code, obj |-> o]
<1>1. run \in [Runs -> Memory] /\ q.run \in Runs /\ q # None
  BY NoneIsApart DEF ReceiptInv, OwnInv, TypeInv, TypeOK, Requests
<1> DEFINE a == [code |-> code, obj |-> o]
<1> HIDE DEF a
<1>2. \A s \in Runs : run'[s] = run[s] \/ (run[s].asked = q /\ run'[s] = [run[s] EXCEPT !.answer = a])
  BY <1>1 DEF Reply, a
<1>3. \A m \in Memory : /\ Same(m, [m EXCEPT !.answer = a]) /\ [m EXCEPT !.answer = a].answer = a
                        /\ Same(m, m)
  BY DEF Memory, Same
<1>4. ASSUME NEW s \in Runs
      PROVE  /\ Same(run[s], run'[s])
             /\ run'[s].answer = run[s].answer \/ (run[s].asked = q /\ run'[s].answer = a)
  <2>1. run[s] \in Memory BY <1>1
  <2>2. CASE run'[s] = run[s] BY <1>3, <2>1, <2>2
  <2>3. CASE run[s].asked = q /\ run'[s] = [run[s] EXCEPT !.answer = a]
    BY <1>3, <2>1, <2>3
  <2> QED BY <1>2, <2>2, <2>3
<1> QED BY <1>4 DEF a

LEMMA ReplyAnswered ==
  ASSUME ReceiptInv, NEW q \in net, NEW code \in {"ok", "conflict"}, NEW o,
         Reply(q, code, o), NEW lw, NEW w \in Nat, rev <= w,
         o # None => o.uid.rev < w,
         q.kind = "delete" /\ code = "ok" => Left(lw[q.obj], run[q.run].own[q.obj])
  PROVE  \A s \in Runs :
           /\ Answered(run[s], run'[s], lw, w)
           /\ q.kind # "create" \/ code = "conflict" => Deaf(run[s], run'[s])
<1> TAKE s \in Runs
<1> DEFINE m == run[s]
           y == run'[s]
<1>0. SUFFICES /\ Answered(m, y, lw, w)
               /\ q.kind # "create" \/ code = "conflict" => Deaf(m, y)
  OBVIOUS
<1>1. /\ m \in Memory /\ Asking(m, s) /\ Sound(m, receipt[s], live, rev) /\ rev \in Nat
      /\ q # None
  BY Facts, NoneIsApart DEF ReceiptInv, OwnInv, TypeInv, TypeOK
<1>2. /\ Same(m, y)
      /\ y.answer = m.answer \/ (m.asked = q /\ y.answer = [code |-> code, obj |-> o])
  BY ReplySame
<1>3. CASE y.answer = m.answer
  <2>1. m.answer.obj # None => m.answer.obj.uid.rev < rev /\ m.answer.obj.uid.rev \in Nat
    <3>1. m.answer.obj \in Objects \cup {None} BY <1>1 DEF Memory, Answers
    <3>2. m.answer.obj # None => m.answer.obj.uid.rev \in Nat
      BY <3>1 DEF Objects, Uids
    <3> QED BY <1>1, <3>2 DEF Sound, Old
  <2>2. m.answer.obj # None => m.answer.obj.uid.rev < w BY <1>1, <2>1
  <2> HIDE DEF m, y
  <2> QED BY <1>2, <1>3, <2>2 DEF Answered, Deaf
<1>4. CASE m.asked = q /\ y.answer = [code |-> code, obj |-> o]
  <2>1. y.answer.code = code /\ y.answer.obj = o BY <1>4
  <2>2. q.run = s /\ (m.pc = "create-sent" => q.kind = "create")
    BY <1>1, <1>4 DEF Asking
  <2>3. m.pc = "delete-sent" => q.kind = "delete" BY <1>1, <1>4 DEF Sound, Order
  <2>4. m.pc = "delete-sent" /\ code # "conflict" => Left(lw[m.asked.obj], m.own[m.asked.obj])
    BY <1>4, <2>2, <2>3
  <2> HIDE DEF m, y
  <2> QED BY <1>2, <2>1, <2>2, <2>4 DEF Answered, Deaf
<1> QED BY <1>2, <1>3, <1>4

LEMMA StillAnswered ==
  ASSUME ReceiptInv, run' = run, NEW lw, NEW w \in Nat, rev <= w
  PROVE  \A s \in Runs : Answered(run[s], run'[s], lw, w) /\ Deaf(run[s], run'[s])
<1> TAKE s \in Runs
<1> DEFINE m == run[s]
<1>1. m \in Memory /\ Sound(m, receipt[s], live, rev) /\ rev \in Nat BY Facts
<1>2. m.answer.obj # None => m.answer.obj.uid.rev < w
  <2>1. m.answer.obj \in Objects \cup {None} BY <1>1 DEF Memory, Answers
  <2>2. m.answer.obj # None => m.answer.obj.uid.rev \in Nat
    BY <2>1 DEF Objects, Uids
  <2> QED BY <1>1, <2>2 DEF Sound, Old
<1>3. Same(m, m) /\ run'[s] = m BY DEF Same
<1> HIDE DEF m
<1> QED BY <1>2, <1>3 DEF Answered, Deaf, m

\* One name changes.
LEMMA OneMoves ==
  ASSUME ReceiptInv, NEW n \in Objs, NEW x, live' = [live EXCEPT ![n] = x],
         Moved(live[n], x, rev), x # None => x.uid.rev < rev', rev' \in Nat, rev <= rev'
  PROVE  /\ Moves(live, live', rev, rev')
         /\ \A k \in Objs : live'[k] = IF k = n THEN x ELSE live[k]
<1>1. live \in [Objs -> Objects \cup {None}] /\ rev \in Nat
  BY DEF ReceiptInv, OwnInv, TypeInv, TypeOK
<1>2. \A k \in Objs : live'[k] = IF k = n THEN x ELSE live[k] BY <1>1
<1>3. \A k \in Objs : Moved(live[k], live'[k], rev) BY <1>2 DEF Moved
<1>4. \A k \in Objs : live[k] # None => live[k].uid.rev \in Nat /\ live[k].uid.rev < rev
  BY <1>1 DEF ReceiptInv, Objects, Uids
<1>5. \A k \in Objs : live'[k] # None => live'[k].uid.rev < rev' BY <1>1, <1>2, <1>4
<1> QED BY <1>2, <1>3, <1>5 DEF Moves

\* The name of an object changes, the runs only learn what is no creation.
LEMMA OneDeafStep ==
  ASSUME ReceiptInv, OwnInv', receipt' = receipt, net' \subseteq net, rev <= rev',
         NEW n \in Objs, NEW x, live' = [live EXCEPT ![n] = x],
         Moved(live[n], x, rev), x # None => x.uid.rev < rev',
         \A s \in Runs : Answered(run[s], run'[s], live', rev') /\ Deaf(run[s], run'[s]),
         x # None /\ x.uid.by # Foreign =>
           /\ live[n] # None /\ x.uid = live[n].uid
           /\ Thing(x, n, run[x.uid.by], receipt[x.uid.by])
  PROVE  ReceiptInv'
<1>1. rev' \in Nat BY DEF OwnInv, TypeInv, TypeOK
<1>2. /\ Moves(live, live', rev, rev')
      /\ \A k \in Objs : live'[k] = IF k = n THEN x ELSE live[k]
  BY <1>1, OneMoves
<1>3. \A k \in Objs : live'[k] # None /\ live'[k].uid.by # Foreign =>
        Thing(live'[k], k, run[live'[k].uid.by], receipt[live'[k].uid.by])
  BY <1>2 DEF ReceiptInv
<1>4. \A k \in Objs : live'[k] # None /\ live'[k].uid.by # Foreign =>
        live[k] # None /\ live'[k].uid = live[k].uid
  BY <1>2
<1> QED BY <1>2, <1>3, <1>4, DeafStep

LEMMA RefuseStep ==
  ASSUME ReceiptInv, OwnInv', NEW q \in net, net' \subseteq net,
         UNCHANGED <<live, rev, receipt>>, NEW code \in {"ok", "conflict"},
         Reply(q, code, None), code = "ok" => q.kind = "delete" /\ live[q.obj] = None
  PROVE  ReceiptInv'
<1>1. rev \in Nat /\ q.obj \in Objs /\ live \in [Objs -> Objects \cup {None}]
  BY DEF ReceiptInv, OwnInv, TypeInv, TypeOK, Requests
<1>2. \A s \in Runs : Answered(run[s], run'[s], live', rev') /\ Deaf(run[s], run'[s])
  <2>1. q.kind = "delete" /\ code = "ok" => Left(live'[q.obj], run[q.run].own[q.obj])
    BY DEF Left
  <2>2. q.kind # "create" \/ code = "conflict" OBVIOUS
  <2>3. rev' \in Nat /\ rev <= rev' BY <1>1
  <2> QED BY <2>1, <2>2, <2>3, ReplyAnswered
<1>3. live' = [live EXCEPT ![q.obj] = live[q.obj]] /\ Moved(live[q.obj], live[q.obj], rev)
  BY <1>1 DEF Moved
<1>4. live[q.obj] # None =>
        /\ live[q.obj].uid.rev < rev'
        /\ live[q.obj].uid.by # Foreign =>
             Thing(live[q.obj], q.obj, run[live[q.obj].uid.by], receipt[live[q.obj].uid.by])
  BY <1>1 DEF ReceiptInv
<1>5. rev <= rev' BY <1>1
<1> QED BY <1>1, <1>2, <1>3, <1>4, <1>5, OneDeafStep

LEMMA ServeDeleteStep ==
  ASSUME ReceiptInv, OwnInv', NEW q \in net, ServeDelete(q)
  PROVE  ReceiptInv'
<1>1. /\ rev \in Nat /\ q.obj \in Objs /\ live \in [Objs -> Objects \cup {None}]
      /\ q.kind = "delete" /\ net' \subseteq net /\ receipt' = receipt
  BY DEF ReceiptInv, OwnInv, TypeInv, TypeOK, Requests, ServeDelete
<1> DEFINE o == live[q.obj]
           x == [o EXCEPT !.going = TRUE, !.rv = rev]
<1>2. CASE UNCHANGED <<live, rev>> /\ (Reply(q, "conflict", None)
                                       \/ (o = None /\ Reply(q, "ok", None)))
  BY <1>1, <1>2, RefuseStep
<1>3. CASE /\ Matches(q, o) /\ live' = [live EXCEPT ![q.obj] = None]
           /\ UNCHANGED rev /\ Reply(q, "ok", None)
  <2>1. rev' \in Nat /\ rev <= rev' /\ Moved(o, None, rev) BY <1>1, <1>3 DEF Moved
  <2>2. \A s \in Runs : Answered(run[s], run'[s], live', rev') /\ Deaf(run[s], run'[s])
    <3>1. live'[q.obj] = None BY <1>1, <1>3
    <3>2. Left(live'[q.obj], run[q.run].own[q.obj]) BY <3>1 DEF Left
    <3> QED BY <1>1, <1>3, <2>1, <3>2, ReplyAnswered
  <2> QED BY <1>1, <1>3, <2>1, <2>2, OneDeafStep
<1>4. CASE /\ Matches(q, o) /\ live' = [live EXCEPT ![q.obj].going = TRUE, ![q.obj].rv = rev]
           /\ rev' = rev + 1 /\ Reply(q, "ok", None)
  <2>1. /\ live' = [live EXCEPT ![q.obj] = x] /\ o # None /\ o \in Objects
    BY <1>1, <1>4 DEF Matches
  <2>2. /\ x.uid = o.uid /\ x.tag = o.tag /\ x.going /\ x.touched = o.touched
        /\ o.uid.rev \in Nat
    BY <2>1 DEF Objects, Uids
  <2> HIDE DEF x
  <2>3. rev' \in Nat /\ rev <= rev' /\ Moved(o, x, rev) /\ o.uid.rev < rev /\ o.uid.rev < rev'
    BY <1>1, <1>4, <2>1, <2>2 DEF Moved, ReceiptInv
  <2>4. \A s \in Runs : Answered(run[s], run'[s], live', rev') /\ Deaf(run[s], run'[s])
    <3>1. live'[q.obj] = x BY <1>1, <2>1
    <3>2. Left(live'[q.obj], run[q.run].own[q.obj]) BY <2>2, <3>1 DEF Left
    <3> QED BY <1>1, <1>4, <2>3, <3>2, ReplyAnswered
  <2>5. x.uid.by # Foreign => Thing(x, q.obj, run[x.uid.by], receipt[x.uid.by])
    BY <1>1, <2>1, <2>2 DEF ReceiptInv, Thing
  <2> QED BY <1>1, <2>1, <2>2, <2>3, <2>4, <2>5, OneDeafStep
<1> QED BY <1>2, <1>3, <1>4 DEF ServeDelete

LEMMA ServePatchStep ==
  ASSUME ReceiptInv, OwnInv', NEW q \in net, ServePatch(q)
  PROVE  ReceiptInv'
<1>1. /\ rev \in Nat /\ q.obj \in Objs /\ live \in [Objs -> Objects \cup {None}]
      /\ q.kind = "patch" /\ net' \subseteq net /\ receipt' = receipt /\ q.run \in Runs
  BY DEF ReceiptInv, OwnInv, TypeInv, TypeOK, Requests, ServePatch
<1> DEFINE o == live[q.obj]
           x == [o EXCEPT !.tag = None, !.rv = rev]
<1>2. CASE ~(Matches(q, o) /\ o.tag = q.op)
  <2>1. UNCHANGED <<live, rev>> /\ Reply(q, "conflict", None) BY <1>2 DEF ServePatch
  <2> QED BY <1>1, <2>1, RefuseStep
<1>3. CASE Matches(q, o) /\ o.tag = q.op
  <2>1. /\ live' = [live EXCEPT ![q.obj] = x] /\ rev' = rev + 1 /\ Reply(q, "ok", x)
        /\ o # None /\ o \in Objects /\ o.uid = q.uid
    BY <1>1, <1>3 DEF ServePatch, Matches
  <2>2. /\ x.uid = o.uid /\ x.tag = None /\ x.going = o.going /\ x.touched = o.touched
        /\ o.uid.rev \in Nat
    BY <2>1 DEF Objects, Uids
  <2> HIDE DEF x
  <2>3. rev' \in Nat /\ rev <= rev' /\ Moved(o, x, rev) /\ o.uid.rev < rev /\ o.uid.rev < rev'
    BY <1>1, <2>1, <2>2 DEF Moved, ReceiptInv
  <2>4. \A s \in Runs : Answered(run[s], run'[s], live', rev') /\ Deaf(run[s], run'[s])
    BY <1>1, <2>1, <2>2, <2>3, ReplyAnswered
  <2>5. q.op = q.run /\ Proves(receipt[q.run], q.obj, q.uid)
    BY <1>1 DEF ReceiptInv, Backed
  <2>6. x.uid.by = q.run
    BY <1>1, <1>3, <2>1, <2>2, <2>5, ConstantsOK DEF ReceiptInv, OwnInv
  <2>7. Thing(x, q.obj, run[q.run], receipt[q.run])
    <3>1. Thing(o, q.obj, run[q.run], receipt[q.run])
      BY <1>1, <2>1, <2>2, <2>6, ConstantsOK DEF ReceiptInv
    <3> QED BY <2>1, <2>2, <2>5, <3>1 DEF Thing
  <2> QED BY <1>1, <2>1, <2>2, <2>3, <2>4, <2>6, <2>7, OneDeafStep
<1> QED BY <1>2, <1>3

LEMMA WriteStep ==
  ASSUME ReceiptInv, OwnInv', NEW n \in Objs, FinishDelete(n) \/ Others(n)
  PROVE  ReceiptInv'
<1>1. /\ rev \in Nat /\ rev' \in Nat /\ live \in [Objs -> Objects \cup {None}]
      /\ UNCHANGED <<net, run, receipt>> /\ rev <= rev'
  BY DEF ReceiptInv, OwnInv, TypeInv, TypeOK, FinishDelete, Others, ForeignCreate,
     ForeignDelete, ControllerTouch, ForeignStrip, ForeignEdit, WriteByOthers
<1> DEFINE o == live[n]
<1> DEFINE Wrote(x) ==
             \/ x = None
             \/ x.uid = [by |-> Foreign, rev |-> rev] /\ rev' = rev + 1
             \/ /\ o # None /\ x.uid = o.uid /\ x.tag \in {o.tag, None} /\ x.going = o.going
                /\ x.touched \/ (x.tag = o.tag /\ x.touched = o.touched)
<1>2. PICK x : live' = [live EXCEPT ![n] = x] /\ Wrote(x)
  <2>1. CASE FinishDelete(n) \/ ForeignDelete(n)
    BY <2>1 DEF FinishDelete, ForeignDelete, WriteByOthers
  <2>2. CASE ForeignCreate(n)
    <3> DEFINE x == [uid |-> [by |-> Foreign, rev |-> rev], tag |-> None,
                     exact |-> TRUE, rv |-> rev, going |-> FALSE, touched |-> TRUE]
    <3>1. live' = [live EXCEPT ![n] = x] /\ rev' = rev + 1
      BY <2>2 DEF ForeignCreate, WriteByOthers
    <3>2. Wrote(x) BY <3>1
    <3> HIDE DEF x, Wrote
    <3> QED BY <3>1, <3>2
  <2>3. ASSUME o # None PROVE o \in Objects BY <1>1, <2>3
  <2>4. CASE ControllerTouch(n)
    <3> DEFINE x == [o EXCEPT !.rv = rev]
    <3>1. live' = [live EXCEPT ![n] = x] /\ o # None
      BY <2>4 DEF ControllerTouch, WriteByOthers
    <3>2. Wrote(x) BY <2>3, <3>1 DEF Objects
    <3> QED BY <3>1, <3>2
  <2>5. CASE ForeignStrip(n)
    <3> DEFINE x == [o EXCEPT !.tag = None, !.rv = rev, !.touched = TRUE]
    <3>1. live' = [live EXCEPT ![n] = x] /\ o # None
      BY <2>5 DEF ForeignStrip, WriteByOthers
    <3>2. Wrote(x) BY <2>3, <3>1 DEF Objects
    <3> QED BY <3>1, <3>2
  <2>6. CASE ForeignEdit(n)
    <3> DEFINE x == [o EXCEPT !.exact = FALSE, !.rv = rev, !.touched = TRUE]
    <3>1. live' = [live EXCEPT ![n] = x] /\ o # None
      BY <2>6 DEF ForeignEdit, WriteByOthers
    <3>2. Wrote(x) BY <2>3, <3>1 DEF Objects
    <3> QED BY <3>1, <3>2
  <2> QED BY <2>1, <2>2, <2>4, <2>5, <2>6 DEF Others
<1>3. \A s \in Runs : Answered(run[s], run'[s], live', rev') /\ Deaf(run[s], run'[s])
  BY <1>1, StillAnswered
<1>4. CASE x = None BY <1>1, <1>2, <1>3, <1>4, OneDeafStep DEF Moved
<1>5. CASE x.uid = [by |-> Foreign, rev |-> rev] /\ rev' = rev + 1
  <2>1. x.uid.by = Foreign /\ x.uid.rev = rev BY <1>5
  <2>2. x.uid.rev < rev' /\ Moved(o, x, rev) BY <1>1, <1>5, <2>1 DEF Moved
  <2> QED BY <1>1, <1>2, <1>3, <2>1, <2>2, OneDeafStep
<1>6. CASE /\ o # None /\ x.uid = o.uid /\ x.tag \in {o.tag, None} /\ x.going = o.going
           /\ x.touched \/ (x.tag = o.tag /\ x.touched = o.touched)
  <2>1. o.uid.rev \in Nat /\ o.uid.rev < rev /\ Moved(o, x, rev)
    BY <1>1, <1>6 DEF ReceiptInv, Objects, Uids, Moved
  <2>2. x.uid.rev < rev' BY <1>1, <1>6, <2>1
  <2>3. x.uid.by # Foreign => Thing(x, n, run[x.uid.by], receipt[x.uid.by])
    BY <1>6 DEF ReceiptInv, Thing
  <2> QED BY <1>1, <1>2, <1>3, <1>6, <2>1, <2>2, <2>3, OneDeafStep
<1> QED BY <1>2, <1>4, <1>5, <1>6

LEMMA ServeCreateStep ==
  ASSUME ReceiptInv, OwnInv', NEW q \in net, ServeCreate(q)
  PROVE  ReceiptInv'
<1>1. /\ rev \in Nat /\ q.obj \in Objs /\ live \in [Objs -> Objects \cup {None}]
      /\ q.kind = "create" /\ net' = net \ {q} /\ receipt' = receipt /\ q.run \in Runs
      /\ net \subseteq Requests
  BY DEF ReceiptInv, OwnInv, TypeInv, TypeOK, Requests, ServeCreate
<1>2. CASE live[q.obj] # None
  <2>1. UNCHANGED <<live, rev>> /\ Reply(q, "conflict", None)
    BY <1>2 DEF ServeCreate
  <2> QED BY <1>1, <2>1, RefuseStep
<1>3. CASE live[q.obj] = None
  <2> DEFINE u == [by |-> q.run, rev |-> rev]
             o == [uid |-> u, tag |-> q.op, exact |-> TRUE, rv |-> rev,
                   going |-> FALSE, touched |-> FALSE]
  <2>1. live' = [live EXCEPT ![q.obj] = o] /\ rev' = rev + 1 /\ Reply(q, "ok", o)
    BY <1>3 DEF ServeCreate
  <2>2. /\ o.uid = u /\ u.by = q.run /\ u.rev = rev /\ o.tag = q.op /\ q.op = q.run
    BY <1>1 DEF ReceiptInv, OwnInv, Rightful
  <2> HIDE DEF o, u
  <2>3. rev' \in Nat /\ rev <= rev' /\ Moved(live[q.obj], o, rev) /\ o.uid.rev < rev'
    BY <1>1, <2>1, <2>2 DEF Moved
  <2>4. /\ Moves(live, live', rev, rev')
        /\ \A k \in Objs : live'[k] = IF k = q.obj THEN o ELSE live[k]
    BY <1>1, <2>1, <2>3, OneMoves
  <2>5. \A s \in Runs : Answered(run[s], run'[s], live', rev')
    BY <1>1, <2>1, <2>3, ReplyAnswered
  <2>6. \A s \in Runs :
          /\ Same(run[s], run'[s])
          /\ \/ run'[s].answer = run[s].answer
             \/ run[s].asked = q /\ run'[s].answer = [code |-> "ok", obj |-> o]
    BY <2>1, ReplySame
  <2>7. \A s \in Runs : run[s].asked = q =>
          s = q.run /\ (run[s].pc = "create-sent" => run[s].at = q.obj)
    <3> TAKE s \in Runs
    <3>1. Asking(run[s], s) /\ Mem(run[s], receipt[s]) BY Facts DEF Sound
    <3>2. q # None BY <1>1, NoneIsApart
    <3> QED BY <3>1, <3>2 DEF Asking, Mem
  <2>8. Backed(q, run[q.run], receipt[q.run], live[q.obj]) BY DEF ReceiptInv
  <2>9. ASSUME NEW s \in Runs, NEW n \in Objs, s # q.run \/ n # q.obj
        PROVE  /\ Called(run[s], n) => Called(run'[s], n)
               /\ Unheard(run[s], receipt[s], n) => Unheard(run'[s], receipt[s], n)
               /\ \A w : Agrees(run[s], receipt[s], n, w) => Agrees(run'[s], receipt[s], n, w)
    <3> DEFINE m == run[s]
               y == run'[s]
               c == receipt[s]
    <3>1. Same(m, y) BY <2>6
    <3>2. m.pc = "create-sent" /\ m.at = n => y.answer = m.answer
      BY <2>6, <2>7, <2>9
    <3> HIDE DEF m, y, c
    <3>3. /\ Called(m, n) => Called(y, n)
          /\ Unheard(m, c, n) => Unheard(y, c, n)
      BY <3>1, <3>2 DEF Same, Called, Unsent, Unheard
    <3>4. \A w : Agrees(m, c, n, w) => Agrees(y, c, n, w)
      BY <3>1, <3>2 DEF Same, Agrees
    <3> QED BY <3>3, <3>4 DEF m, y, c
  <2>10. Thing(o, q.obj, run'[q.run], receipt[q.run])
    <3> DEFINE m == run[q.run]
               y == run'[q.run]
               c == receipt[q.run]
    <3>1. Same(m, y) /\ (y.answer = m.answer \/ y.answer.obj = o) BY <1>1, <2>6
    <3>2. c # None /\ Called(m, q.obj) /\ Unheard(m, c, q.obj)
      BY <1>1, <2>8 DEF Backed
    <3> HIDE DEF m, y, c
    <3>3. Called(y, q.obj) BY <3>1, <3>2 DEF Same, Called, Unsent
    <3>4. Agrees(y, c, q.obj, u) BY <2>2, <3>1, <3>2 DEF Same, Unheard, Agrees
    <3>5. Thing(o, q.obj, y, c) BY <2>2, <3>2, <3>3, <3>4 DEF Thing
    <3> QED BY <3>5 DEF y, c
  <2>11. ASSUME NEW n \in Objs, live'[n] # None, live'[n].uid.by # Foreign
         PROVE  Thing(live'[n], n, run'[live'[n].uid.by], receipt[live'[n].uid.by])
    <3>1. CASE n = q.obj BY <1>1, <2>2, <2>4, <2>10, <3>1
    <3>2. CASE n # q.obj
      <4>1. live'[n] = live[n] /\ live[n].uid.by \in Runs
        BY <1>1, <2>4, <2>11, <3>2 DEF Objects, Uids
      <4>2. Thing(live[n], n, run[live[n].uid.by], receipt[live[n].uid.by])
        BY <2>11, <4>1 DEF ReceiptInv
      <4> QED BY <2>9, <3>2, <4>1, <4>2 DEF Thing
    <3> QED BY <3>1, <3>2
  <2>12. ASSUME NEW p \in net' PROVE Backed(p, run'[p.run], receipt[p.run], live'[p.obj])
    <3>1. p \in net /\ p # q /\ p.run \in Runs /\ p.obj \in Objs
      BY <1>1 DEF Requests
    <3>2. Backed(p, run[p.run], receipt[p.run], live[p.obj]) BY <3>1 DEF ReceiptInv
    <3>3. CASE p.kind = "create"
      <4>1. p.run # q.run \/ p.obj # q.obj BY <1>1, <3>1, <3>3 DEF ReceiptInv, Alike
      <4>2. live'[p.obj] # None => live'[p.obj].uid.by # p.run
        BY <1>1, <2>2, <2>4, <3>1, <3>2, <3>3, <4>1 DEF Backed
      <4> QED BY <2>9, <3>1, <3>2, <3>3, <4>1, <4>2 DEF Backed
    <3>4. CASE p.kind # "create" BY <3>2, <3>4 DEF Backed
    <3> QED BY <3>3, <3>4
  <2>13. net' \subseteq net BY <1>1
  <2> QED BY <1>1, <2>4, <2>5, <2>11, <2>12, <2>13, WorldStep
<1> QED BY <1>2, <1>3

LEMMA InitReceipts == Init => ReceiptInv
<1> SUFFICES ASSUME Init PROVE ReceiptInv
  OBVIOUS
<1>1. OwnInv BY InitOwn
<1>2. ASSUME NEW r \in Runs PROVE Sound(run[r], receipt[r], live, rev)
  <2> DEFINE m == run[r]
             c == receipt[r]
  <2>1. m = Unstarted(r) /\ c = None BY DEF Init
  <2>2. /\ m.pc = "idle" /\ m.book = NoBook /\ m.own = NoBook /\ m.status = "reserved"
        /\ m.answer = NoAnswer /\ m.guarded = FALSE
    BY <2>1 DEF Unstarted
  <2> HIDE DEF m, c
  <2>3. \A n \in Objs : m.book[n] = None /\ m.own[n] = None BY <2>2 DEF NoBook
  <2>4. Mem(m, c) BY <2>1, <2>2, <2>3 DEF Mem, Stripping, Checking
  <2>5. Tags(m, c, live) /\ Order(m, live) /\ Old(m, c, rev)
    BY <2>1, <2>2, <2>3, NoOrder DEF Tags, Rolling, Old, Aged, NoAnswer
  <2> QED BY <2>4, <2>5 DEF Sound, m, c
<1> QED BY <1>1, <1>2 DEF Init, ReceiptInv

LEMMA NextReceipts == ReceiptInv /\ [Next]_vars => ReceiptInv'
<1> SUFFICES ASSUME ReceiptInv, [Next]_vars PROVE ReceiptInv'
  OBVIOUS
<1>1. OwnInv' BY NextOwn DEF ReceiptInv
<1>2. ASSUME NEW r \in Runs, Work(r) PROVE ReceiptInv'
  BY <1>1, <1>2, PersistStep, FirstSteps, CreateStep, CreatingStep, StripStep,
     FinalStep, DeleteStep, SkipStep, WaitStep, ScanStep DEF Work
<1>3. ASSUME NEW r \in Runs, Fail(r) PROVE ReceiptInv'
  BY <1>1, <1>3, PersistStep, CreatingStep, StripStep, BreakStep, SkipStep,
     WaitStep, ScanStep DEF Fail
<1>4. CASE UNCHANGED vars BY <1>1, <1>4 DEF vars, ReceiptInv
<1> QED BY <1>1, <1>2, <1>3, <1>4, FirstSteps, ResumeStep, WriteStep, ServeCreateStep,
     ServePatchStep, ServeDeleteStep DEF Next, Serve

\* Part 10.  What the receipts are worth.

\* Whatever crashes, is lost or arrives late: each object that a run made and
\* nobody edited can be reached from the receipt on disk, by recovery or, once
\* the receipt says dormant-ready, by teardown.
THEOREM ReceiptsReclaim == Spec => []Reclaimable
<1>1. ReceiptInv => Reclaimable
  <2> SUFFICES ASSUME ReceiptInv, NEW n \in Objs, live[n] # None, Owner(n) # Foreign,
                      ~live[n].touched
               PROVE  LET c == receipt[Owner(n)]
                          proven == c.recs[n] # None /\ c.recs[n].uid = live[n].uid
                                    /\ c.recs[n].st \in Durable /\ n \in c.intents
                      IN /\ c # None /\ c.mode = "live"
                         /\ IF c.status = "dormant-ready"
                              THEN Binds(c) /\ proven /\ live[n].tag = None
                              ELSE live[n].tag = Owner(n) \/ (live[n].tag = None /\ proven)
    BY DEF Reclaimable
  <2> DEFINE r == Owner(n)
             m == run[r]
             c == receipt[r]
             o == live[n]
  <2>1. r \in Runs /\ r # None /\ r = o.uid.by
    BY ConstantsOK, Facts DEF Owner, ReceiptInv, OwnInv, TypeInv, TypeOK, Objects, Uids
  <2>2. Thing(o, n, m, c) /\ Mem(m, c) /\ Tags(m, c, live)
    BY <2>1 DEF Owner, ReceiptInv, Sound
  <2>3. c # None /\ c.mode = "live" /\ m.mode = "live"
    BY <2>2 DEF Thing, Called, Mem
  <2>4. CASE c.status = "dormant-ready"
    <3>1. Binds(c) /\ n \in c.intents /\ Bare(o, c.recs[n])
      BY <2>2, <2>3, <2>4 DEF Mem, Tags
    <3>2. c.recs[n] # None /\ c.recs[n].st = "removed" BY <3>1 DEF Binds
    <3>3. c.recs[n].uid = o.uid BY <2>2, <2>3, <3>2, SMTT(40) DEF Thing, Agrees
    <3> QED BY <2>3, <2>4, <3>1, <3>2, <3>3 DEF Bare, Durable
  <2>5. CASE c.status # "dormant-ready" BY <2>1, <2>2, <2>3, <2>5 DEF Thing, Proves
  <2> QED BY <2>4, <2>5
<1> QED BY <1>1, InitReceipts, NextReceipts, PTL DEF Spec

\* While a DELETE of an RBAC object is on its way, each Kustomization that the
\* run set out to delete is gone or terminating, or the run has noted an error.
THEOREM RbacGoesLast == Spec => []KustomizationsFirst
<1>1. ReceiptInv => KustomizationsFirst
  <2> SUFFICES ASSUME ReceiptInv, NEW q \in net, q.kind = "delete", q.obj \notin Kust,
                      run[q.run].asked = q, NEW k \in Kust,
                      run[q.run].own[k] # None, live[k] # None,
                      live[k].uid = run[q.run].own[k].uid
               PROVE  live[k].going \/ run[q.run].err
    BY DEF KustomizationsFirst
  <2> DEFINE m == run[q.run]
  <2>1. q.run \in Runs /\ q # None
    BY NoneIsApart DEF ReceiptInv, OwnInv, TypeInv, TypeOK, Requests
  <2>2. Asking(m, q.run) /\ Order(m, live) BY <2>1, Facts DEF Sound
  <2>3. m.pc = "delete-sent" BY <2>1, <2>2 DEF Asking, Sent
  <2>4. NextVictim(q.obj, m.todo) BY <2>2, <2>3 DEF Order
  <2>5. k \notin m.todo BY <2>4 DEF NextVictim
  <2> QED BY <2>2, <2>3, <2>5 DEF Order, Rolling, Left
<1> QED BY <1>1, InitReceipts, NextReceipts, PTL DEF Spec

\* Part 11.  The verdicts: which phase a run is in.

\* A live run that sends no POST any more.
Past(m) == m.mode = "live" /\ m.pc # "idle" /\ ~Posting(m)

\* A live run that has everything in place, and one that reported so.
Ready(m) ==
  m.mode = "live" /\ m.pc = "save" /\ m.cont = "done" /\ m.status = "dormant-ready"
Succeeded(m) == m.mode = "live" /\ m.pc = "done" /\ m.status = "dormant-ready"

Trying(m) ==
  m.pc \in {"create", "create-sent", "discover"} \/ Stripping(m) \/ Checking(m) \/ Ready(m)
Ending(m) ==
  \/ m.pc \in {"rollback", "delete-sent", "wait", "conclude"}
  \/ m.pc = "save" /\ m.cont \in {"rollback", "conclude"}

\* A live run that has given up.
Undone(m) ==
  \/ m.pc \in {"rollback", "delete-sent", "wait", "conclude", "crashed"}
  \/ m.pc = "save" /\ m.cont = "done" /\ m.status # "dormant-ready"
  \/ m.pc = "done" /\ m.status # "dormant-ready"

\* How the phase of a run goes with its try block, its status and receipt c.
Phase(m, c) ==
  /\ Trying(m) => m.guarded
  /\ Ending(m) => ~m.guarded
  /\ m.guarded => m.mode = "live" /\ m.status \notin Complete
  /\ m.status \in Complete => Over(m) \/ (m.pc = "save" /\ m.cont = "done")
  /\ m.pc \in {"scan", "tscan"} \/ (m.pc = "save" /\ m.cont \in {"scan", "rollback", "conclude"})
       => m.mode # "live"
  /\ m.pc = "save" /\ m.cont = "conclude" => m.err
  /\ Succeeded(m) => c # None /\ c.status = "dormant-ready"

\* A run that is about to find, or to report, that all is gone.
Closing(m) == m.pc \in {"wait", "conclude"} \/ (m.pc = "save" /\ m.status \in Complete)

\* A run goes on: it stays what it is, and what it has left behind is behind.
Onward(m, y) ==
  /\ y.op = m.op /\ y.mode = m.mode /\ y.pc # "idle" /\ ~Over(m)
  /\ Past(m) => Past(y)
  /\ m.pc # "idle" /\ m.mode = "live" /\ Undone(m) => Undone(y)
  /\ Closing(y) => m.mode # "live" \/ Past(m)

\* The object of this record is there and stays.
Kept(rec, o) == o # None /\ o.uid = rec.uid /\ ~o.going

\* What a successful run has seen, and then promises.
Stand(m, c, lv) ==
  /\ m.pc = "final" => \A n \in Objs : n < m.at => Kept(m.book[n], lv[n])
  /\ Ready(m) => \A n \in Objs : Kept(m.book[n], lv[n])
  /\ Succeeded(m) => \A n \in Objs : Kept(c.recs[n], lv[n])

\* The object a successful run looks at is not about to go.
Calm(m, lv) ==
  m.pc = "final" /\ lv[m.at] # None /\ lv[m.at].uid = m.book[m.at].uid =>
    ~lv[m.at].going

\* Nobody has read what became of the POST of object n by run p.
Lost(p, n) == Linger /\ Unheard(run[p], receipt[p], n)

\* The cluster without what nobody knows of.
Heard ==
  [n \in Objs |-> IF live[n] # None /\ Lost(live[n].uid.by, n) THEN None ELSE live[n]]

\* What a run has lost stays lost, once it sends no POST any more.
Sure ==
  /\ ReceiptInv'
  /\ \A p \in Runs, n \in Objs : Past(run[p]) /\ Lost(p, n) => Lost(p, n)'

\* No object of operation p is left under the names S.
Rid(p, S, lv) == \A k \in S : lv[k] # None => lv[k].uid.by # p

\* What a completed rollback, recovery or teardown has seen.
Clear(m, lv) ==
  /\ m.pc = "wait" => Rid(m.op, {k \in Objs : k < m.at}, lv)
  /\ m.pc = "conclude" /\ ~m.err => Rid(m.op, Objs, lv)
  /\ m.pc = "save" /\ m.status \in Complete => Rid(m.op, Objs, lv)

\* The run of memory m still waits for the answer to its POST q.
Awaited(q, m) ==
  q.kind = "create" => m.pc = "create-sent" /\ m.asked = q /\ m.answer = NoAnswer

\* A step of a run, from memory m and receipt c to y and d, as its verdict needs it.
Goes(m, c, y, d, lv) ==
  /\ Phase(m, c) => Phase(y, d) /\ Onward(m, y)
  /\ Phase(m, c) /\ Stand(m, c, lv) /\ Calm(m, lv) => Stand(y, d, lv)
  /\ Phase(m, c) /\ Clear(m, Heard) => Clear(y, Heard)

\* A step of run r that leaves the cluster alone.
Steps(r, y, d) ==
  /\ Becomes(r, y) /\ receipt' = [receipt EXCEPT ![r] = d]
  /\ UNCHANGED <<live, rev, foreign>>
  /\ d = receipt[r] \/ (d = ReceiptOf(r) /\ run[r].pc = "save")
  /\ \A q \in net' :
       q \notin net =>
         q.run = r /\ (q.kind = "delete" => q.op = y.op /\ y.pc = "delete-sent")
  /\ (~Linger /\ \A q \in net : q.run = r => Awaited(q, run[r]))
       => \A q \in net' : q.run = r => Awaited(q, y)

\* The run of memory m rolls back what run p made.
Undoing(m, p) ==
  /\ m.op = p /\ m.pc # "idle"
  /\ m.mode = "live" => Undone(m)

\* Nobody else wrote, and nobody tears down what run p made.
Still(p) == foreign = 0 /\ \A t \in Runs : run[t].mode = "teardown" => run[t].op # p

\* The verdict of receipt c is so, of the memories R and the cluster lv.
Filed(c, R, lv) ==
  c # None /\ c.status \in Complete => Rid(c.op, Objs, lv) /\ Past(R[c.op])

VerdictInv ==
  /\ ReceiptInv
  /\ \A r \in Runs : Phase(run[r], receipt[r])
  /\ \A r \in Runs :
       /\ run[r].mode = "recover" => Over(run[run[r].op]) /\ ~Succeeded(run[run[r].op])
       /\ run[r].mode # "live" => Past(run[run[r].op])
  /\ foreign = 0 => \A n \in Objs : live[n] # None => live[n].exact
  /\ \A q \in net : q.kind = "delete" => Undoing(run[q.run], q.op)
  /\ \A n \in Objs : live[n] # None /\ live[n].going =>
       \E r \in Runs : Undoing(run[r], live[n].uid.by)
  /\ \A p \in Runs : Still(p) => Stand(run[p], receipt[p], live)
  /\ ~Linger => \A q \in net : Awaited(q, run[q.run])
  /\ \A r \in Runs : Clear(run[r], Heard) /\ Filed(receipt[r], run, Heard)

LEMMA VerdictFacts ==
  ASSUME VerdictInv, NEW r \in Runs
  PROVE  /\ TypeOK /\ run[r] \in Memory /\ Asking(run[r], r) /\ Progress(run[r])
         /\ Own(run[r], r, receipt[r]) /\ Mem(run[r], receipt[r])
         /\ Phase(run[r], receipt[r]) /\ run[r].op \in Runs
         /\ run \in [Runs -> Memory] /\ receipt \in [Runs -> Receipts \cup {None}]
<1>1. ReceiptInv /\ Phase(run[r], receipt[r]) BY DEF VerdictInv
<1> QED BY <1>1, Facts DEF Sound, TypeOK, Memory

\* As long as nobody else interferes, no run deletes what a successful run made.
LEMMA Unthreatened ==
  ASSUME VerdictInv, NEW p \in Runs, Still(p), NEW s \in Runs, Undoing(run[s], p),
         run[p].mode = "live", run[p].pc = "final" \/ Ready(run[p]) \/ Succeeded(run[p])
  PROVE  FALSE
<1>1. run[s].mode \in {"live", "recover"} /\ run[s].op = p
  BY VerdictFacts DEF Memory, Modes, Still, Undoing
<1>2. CASE run[s].mode = "live"
  <2>1. s = p BY <1>1, <1>2, VerdictFacts DEF Own
  <2> QED BY <1>2, <2>1 DEF Undoing, Undone, Ready, Succeeded
<1>3. CASE run[s].mode = "recover" BY <1>1, <1>3 DEF VerdictInv, Over, Ready
<1> QED BY <1>1, <1>2, <1>3

\* A run that has seen its operation's objects gone is of one that sends no POST.
LEMMA ClearPast ==
  ASSUME VerdictInv, NEW r \in Runs,
         \/ run[r].pc \in {"wait", "conclude"}
         \/ run[r].pc = "save" /\ run[r].status \in Complete
  PROVE  Past(run[run[r].op])
<1> DEFINE m == run[r]
<1>1. Phase(m, receipt[r]) /\ Own(m, r, receipt[r]) BY VerdictFacts
<1>2. m.pc \in {"wait", "conclude"} \/ (m.pc = "save" /\ m.cont = "done")
  BY <1>1 DEF Phase, Over
<1>3. CASE m.mode = "live" BY <1>1, <1>2, <1>3 DEF Own, Past, Posting, Creating
<1>4. CASE m.mode # "live" BY <1>4 DEF VerdictInv
<1> QED BY <1>3, <1>4

\* No step gives a run that sends no POST any more a new object, but a lost one.
Inherits ==
  \A p \in Runs, k \in Objs :
    Past(run[p]) /\ live'[k] # None /\ live'[k].uid.by = p =>
      Lost(p, k) \/ (live[k] # None /\ live[k].uid.by = p)

LEMMA RidStays ==
  ASSUME Sure, Inherits, NEW p \in Runs, Past(run[p]), NEW S \in SUBSET Objs,
         Rid(p, S, Heard)
  PROVE  Rid(p, S, Heard')
<1> SUFFICES ASSUME NEW k \in S, Heard'[k] # None, Heard'[k].uid.by = p PROVE FALSE
  BY DEF Rid
<1>1. live'[k] # None /\ live'[k].uid.by = p /\ ~Lost(p, k)' BY DEF Heard
<1>2. ~Lost(p, k) BY <1>1 DEF Sure
<1>3. live[k] # None /\ live[k].uid.by = p BY <1>1, <1>2 DEF Inherits
<1>4. Heard[k] = live[k] BY <1>2, <1>3 DEF Heard
<1> QED BY <1>3, <1>4 DEF Rid

LEMMA ClearStays ==
  ASSUME Sure, Inherits, NEW y, y.op \in Runs, Clear(y, Heard),
         Closing(y) => Past(run[y.op])
  PROVE  Clear(y, Heard')
<1>1. \A S \in SUBSET Objs : Closing(y) /\ Rid(y.op, S, Heard) => Rid(y.op, S, Heard')
  BY RidStays
<1>2. Objs \in SUBSET Objs /\ {k \in Objs : k < y.at} \in SUBSET Objs OBVIOUS
<1> QED BY <1>1, <1>2 DEF Clear, Closing

LEMMA FiledStays ==
  ASSUME Sure, Inherits, NEW c, Filed(c, run, Heard), c # None => c.op \in Runs,
         \A p \in Runs : Past(run[p]) => Past(run'[p])
  PROVE  Filed(c, run', Heard')
BY RidStays DEF Filed

LEMMA VerdictLocal ==
  ASSUME VerdictInv, Sure, NEW r \in Runs, NEW y, NEW d, Steps(r, y, d),
         Goes(run[r], receipt[r], y, d, live)
  PROVE  VerdictInv'
<1> DEFINE m == run[r]
           c == receipt[r]
<1>1. \A s \in Runs : /\ run'[s] = IF s = r THEN y ELSE run[s]
                      /\ receipt'[s] = IF s = r THEN d ELSE receipt[s]
  BY VerdictFacts DEF Steps, Becomes
<1>2. Phase(m, c) /\ Phase(y, d) /\ Onward(m, y) /\ m.op \in Runs /\ Own(m, r, c)
  BY VerdictFacts DEF Goes
<1>3. \A s \in Runs : run'[s].mode = run[s].mode /\ run'[s].op = run[s].op
  BY <1>1, <1>2 DEF Onward
<1>4. \A s \in Runs : Past(run[s]) => Past(run'[s]) BY <1>1, <1>2 DEF Onward
<1>5. ASSUME NEW s \in Runs, NEW p, Undoing(run[s], p) PROVE Undoing(run'[s], p)
  <2>1. CASE s = r
    <3>1. y.op = p /\ y.pc # "idle" /\ (y.mode = "live" => Undone(y))
      BY <1>2, <1>5, <2>1 DEF Undoing, Onward
    <3> QED BY <1>1, <2>1, <3>1 DEF Undoing
  <2>2. CASE s # r
    <3>1. run'[s] = run[s] BY <1>1, <2>2
    <3> QED BY <1>5, <3>1 DEF Undoing
  <2> QED BY <2>1, <2>2
<1>6. \A s \in Runs : Phase(run'[s], receipt'[s]) BY <1>1, <1>2 DEF VerdictInv
<1>7. ASSUME NEW s \in Runs
      PROVE  /\ run'[s].mode = "recover" =>
                  Over(run'[run'[s].op]) /\ ~Succeeded(run'[run'[s].op])
             /\ run'[s].mode # "live" => Past(run'[run'[s].op])
  <2>1. run[s].op \in Runs /\ run'[s].op = run[s].op /\ run'[s].mode = run[s].mode
    BY <1>3, VerdictFacts
  <2>2. /\ run[s].mode = "recover" => Over(run[run[s].op]) /\ ~Succeeded(run[run[s].op])
        /\ run[s].mode # "live" => Past(run[run[s].op])
    BY DEF VerdictInv
  <2>3. run[s].mode = "recover" => run'[run[s].op] = run[run[s].op]
    BY <1>1, <1>2, <2>1, <2>2 DEF Onward
  <2> QED BY <1>4, <2>1, <2>2, <2>3
<1>8. (foreign = 0 => \A n \in Objs : live[n] # None => live[n].exact)'
  BY DEF VerdictInv, Steps
<1>9. ASSUME NEW q \in net', q.kind = "delete" PROVE Undoing(run'[q.run], q.op)
  <2>1. q.run \in Runs BY DEF Sure, ReceiptInv, OwnInv, TypeInv, TypeOK, Requests
  <2>2. CASE q \in net
    <3>1. Undoing(run[q.run], q.op) BY <1>9, <2>2 DEF VerdictInv
    <3> QED BY <1>5, <2>1, <3>1
  <2>3. CASE q \notin net
    <3>1. q.run = r /\ q.op = y.op /\ y.pc = "delete-sent" BY <1>9, <2>3 DEF Steps
    <3> QED BY <1>1, <3>1 DEF Undoing, Undone
  <2> QED BY <2>2, <2>3
<1>10. ASSUME NEW n \in Objs, live'[n] # None, live'[n].going
       PROVE  \E s \in Runs : Undoing(run'[s], live'[n].uid.by)
  <2>1. live' = live BY DEF Steps
  <2>2. PICK s \in Runs : Undoing(run[s], live[n].uid.by)
    BY <1>10, <2>1 DEF VerdictInv
  <2> QED BY <1>5, <2>1, <2>2
<1>11. ASSUME NEW p \in Runs, Still(p)' PROVE Stand(run'[p], receipt'[p], live')
  <2>1. Still(p) BY <1>3, <1>11 DEF Still, Steps
  <2>2. Stand(run[p], receipt[p], live) /\ live' = live
    BY <2>1 DEF VerdictInv, Steps
  <2>3. CASE p # r BY <1>1, <2>2, <2>3
  <2>4. CASE p = r
    <3>1. Calm(m, live)
      <4> SUFFICES ASSUME m.pc = "final", live[m.at] # None, live[m.at].going,
                          live[m.at].uid = m.book[m.at].uid
                   PROVE  FALSE
        BY DEF Calm
      <4>1. m.at \in Objs /\ m.mode = "live" /\ m.op = r /\ m.book[m.at] # None
        BY VerdictFacts DEF Memory, Mem, Own, Progress, Checking
      <4>2. live[m.at].uid.by = r BY <1>2, <4>1 DEF Own, Owned
      <4>3. PICK s \in Runs : Undoing(run[s], r) BY <4>1, <4>2 DEF VerdictInv
      <4> QED BY <2>1, <2>4, <4>1, <4>3, Unthreatened
    <3>2. Stand(y, d, live) BY <1>2, <2>2, <2>4, <3>1 DEF Goes
    <3> QED BY <1>1, <2>2, <2>4, <3>2
  <2> QED BY <2>3, <2>4
<1>12. ASSUME ~Linger, NEW q \in net' PROVE Awaited(q, run'[q.run])
  <2>1. \A k \in net : Awaited(k, run[k.run]) BY <1>12 DEF VerdictInv
  <2>2. q.run \in Runs BY DEF Sure, ReceiptInv, OwnInv, TypeInv, TypeOK, Requests
  <2>3. CASE q.run = r
    <3>1. Awaited(q, y) BY <1>12, <2>1, <2>3 DEF Steps
    <3> QED BY <1>1, <2>3, <3>1
  <2>4. CASE q.run # r BY <1>1, <2>1, <2>2, <2>4 DEF Steps
  <2> QED BY <2>3, <2>4
<1>13. Inherits BY DEF Inherits, Steps
<1>14. ASSUME NEW s \in Runs PROVE Clear(run'[s], Heard')
  <2>1. Clear(run[s], Heard) /\ run[s].op \in Runs BY VerdictFacts DEF VerdictInv
  <2>2. Clear(run'[s], Heard) BY <1>1, <1>2, <2>1 DEF Goes
  <2>3. Closing(run'[s]) => Past(run[run[s].op])
    <3>1. run[s].mode # "live" => Past(run[run[s].op]) BY DEF VerdictInv
    <3>2. run[s].mode = "live" => run[s].op = s BY VerdictFacts DEF Own
    <3>3. s # r /\ Closing(run[s]) => Past(run[run[s].op]) BY ClearPast DEF Closing
    <3> QED BY <1>1, <1>2, <3>1, <3>2, <3>3 DEF Onward
  <2> QED BY <1>3, <1>13, <2>1, <2>2, <2>3, ClearStays
<1>15. ASSUME NEW s \in Runs PROVE Filed(receipt'[s], run', Heard')
  <2>1. ASSUME s # r \/ d = c PROVE Filed(receipt[s], run, Heard) /\ receipt'[s] = receipt[s]
    BY <1>1, <2>1 DEF VerdictInv
  <2>2. CASE s # r \/ d = c
    <3>1. receipt[s] # None => receipt[s].op \in Runs BY VerdictFacts DEF Receipts
    <3> QED BY <1>4, <1>13, <2>1, <2>2, <3>1, FiledStays
  <2>3. CASE s = r /\ d = ReceiptOf(r) /\ m.pc = "save"
    <3>1. d.op = m.op /\ d.status = m.status BY <2>3 DEF ReceiptOf
    <3>2. Filed(d, run, Heard)
      <4>1. Clear(m, Heard) BY DEF VerdictInv
      <4>2. m.status \in Complete => Past(run[m.op]) BY <2>3, ClearPast
      <4> QED BY <2>3, <3>1, <4>1, <4>2 DEF Filed, Clear
    <3> QED BY <1>1, <1>2, <1>4, <1>13, <2>3, <3>1, <3>2, FiledStays
  <2> QED BY <2>2, <2>3 DEF Steps
<1> QED BY <1>6, <1>7, <1>8, <1>9, <1>10, <1>11, <1>12, <1>14, <1>15 DEF VerdictInv, Sure

\* A step that sends nothing and leaves the receipts alone.
LEMMA QuietVerdict ==
  ASSUME VerdictInv, Sure, NEW r \in Runs, NEW y, Becomes(r, y),
         UNCHANGED <<live, rev, receipt, foreign>>, net' \subseteq net,
         \/ run[r].pc # "create-sent" \/ run[r].answer # NoAnswer
         \/ net' = Abandoned(r),
         Goes(run[r], receipt[r], y, receipt[r], live)
  PROVE  VerdictInv'
<1>1. receipt' = [receipt EXCEPT ![r] = receipt[r]] BY VerdictFacts
<1>2. ASSUME ~Linger, \A q \in net : q.run = r => Awaited(q, run[r]),
             NEW q \in net', q.run = r
      PROVE  Awaited(q, y)
  <2>1. q \in net /\ Awaited(q, run[r]) BY <1>2
  <2>2. net' = Abandoned(r) => q # run[r].asked BY <1>2 DEF Abandoned
  <2> QED BY <2>1, <2>2 DEF Awaited
<1>3. Steps(r, y, receipt[r]) BY <1>1, <1>2 DEF Steps
<1> QED BY <1>3, VerdictLocal

\* A step that sends a request.
LEMMA SendVerdict ==
  ASSUME VerdictInv, Sure, NEW r \in Runs, NEW q, NEW pc, Send(r, q, pc),
         q.run = r, q.kind = "delete" => q.op = run[r].op /\ pc = "delete-sent",
         q.kind = "create" => pc = "create-sent", run[r].pc # "create-sent",
         LET y == [run[r] EXCEPT !.pc = pc, !.asked = q, !.answer = NoAnswer]
         IN  Goes(run[r], receipt[r], y, receipt[r], live)
  PROVE  VerdictInv'
<1> DEFINE m == run[r]
           y == [m EXCEPT !.pc = pc, !.asked = q, !.answer = NoAnswer]
<1>1. m \in Memory BY VerdictFacts
<1>2. y.pc = pc /\ y.asked = q /\ y.answer = NoAnswer /\ y.op = m.op
  BY <1>1 DEF Memory
<1>3. /\ Becomes(r, y) /\ UNCHANGED <<live, rev, receipt, foreign>>
      /\ net' = net \cup {q} /\ Goes(m, receipt[r], y, receipt[r], live)
  BY DEF Send
<1> HIDE DEF y
<1>4. receipt' = [receipt EXCEPT ![r] = receipt[r]] BY <1>3, VerdictFacts
<1>5. ASSUME \A k \in net : k.run = r => Awaited(k, m), NEW k \in net', k.run = r
      PROVE  Awaited(k, y)
  BY <1>2, <1>3, <1>5 DEF Awaited
<1>6. Steps(r, y, receipt[r]) BY <1>2, <1>3, <1>4, <1>5 DEF Steps
<1> QED BY <1>3, <1>6, VerdictLocal

LEMMA GoneGoes ==
  ASSUME VerdictInv, NEW r \in Runs, NEW pc \in {"done", "crashed"}, NEW d,
         ~Over(run[r]), run[r].pc # "idle",
         pc = "done" =>
           /\ run[r].pc \in {"absent", "scan", "tscan", "save"}
           /\ run[r].status = "dormant-ready" /\ run[r].mode = "live" =>
                Ready(run[r]) /\ d = ReceiptOf(r)
  PROVE  Goes(run[r], receipt[r], Gone(r, pc), d, live)
<1> DEFINE m == run[r]
           u == Unstarted(r)
           g == [u EXCEPT !.pc = pc, !.mode = m.mode, !.op = m.op, !.status = m.status]
<1>1. u \in Memory /\ u.guarded = FALSE BY UnstartedType DEF Unstarted
<1> HIDE DEF u
<1>2. /\ g.pc = pc /\ g.mode = m.mode /\ g.op = m.op /\ g.status = m.status /\ ~g.guarded
  BY <1>1 DEF Memory
<1>3. Gone(r, pc) = g BY DEF Gone, u
<1>4. d = ReceiptOf(r) => d # None /\ d.status = m.status /\ d.recs = m.book
  <2>1. ReceiptOf(r) \in Receipts BY VerdictFacts DEF ReceiptOf, Receipts, Memory
  <2> QED BY <2>1, NoneIsApart DEF ReceiptOf
<1> HIDE DEF g, m
<1>5. /\ Over(g) /\ ~Trying(g) /\ ~Ending(g) /\ ~Posting(g) /\ ~Ready(g)
      /\ g.pc # "idle" /\ g.pc # "final" /\ g.pc # "save" /\ g.pc # "wait" /\ g.pc # "conclude"
      /\ g.pc # "scan" /\ g.pc # "tscan"
  BY <1>2 DEF Over, Trying, Ending, Posting, Creating, Stripping, Checking, Ready
<1>6. Succeeded(g) => Ready(m) /\ d = ReceiptOf(r) BY <1>2 DEF Succeeded, m
<1>7. Phase(g, d) BY <1>2, <1>4, <1>5, <1>6 DEF Phase, Ready
<1>8. Onward(m, g)
  <2>1. Past(m) => Past(g) BY <1>2, <1>5 DEF Past
  <2>2. m.mode = "live" /\ Undone(m) => Undone(g) BY <1>2 DEF Undone, Over, m
  <2> QED BY <1>2, <1>5, <2>1, <2>2 DEF Onward, Closing, m
<1>9. Stand(m, receipt[r], live) => Stand(g, d, live) BY <1>4, <1>5, <1>6 DEF Stand
<1>10. Clear(g, Heard) BY <1>5 DEF Clear
<1> QED BY <1>3, <1>7, <1>8, <1>9, <1>10 DEF Goes, m

LEMMA AbortGoes ==
  ASSUME VerdictInv, NEW r \in Runs, NEW e \in BOOLEAN, run[r].guarded
  PROVE  Goes(run[r], receipt[r], Abort(r, e), receipt[r], live)
<1> DEFINE m == run[r]
           y == Abort(r, e)
<1>1. m \in Memory /\ Phase(m, receipt[r]) /\ Mem(m, receipt[r]) BY VerdictFacts
<1>2. /\ y.pc = "rollback" /\ y.mode = m.mode /\ y.op = m.op /\ y.status = m.status
      /\ ~y.guarded
  BY <1>1 DEF Abort, Memory
<1>3. ~Over(m) /\ m.pc # "idle" /\ m.guarded BY <1>1 DEF Mem
<1> HIDE DEF m, y
<1>4. Phase(y, receipt[r])
  BY <1>1, <1>2, <1>3 DEF Phase, Trying, Stripping, Checking, Ready, Succeeded
<1>5. Onward(m, y)
  BY <1>2, <1>3 DEF Onward, Past, Posting, Creating, Undone, Closing
<1>6. Stand(y, receipt[r], live) /\ Clear(y, Heard)
  BY <1>2 DEF Stand, Ready, Succeeded, Clear
<1> QED BY <1>4, <1>5, <1>6 DEF Goes, m, y

\* A live run that creates, strips or checks goes on with it.
LEMMA TryingGoes ==
  ASSUME VerdictInv, NEW r \in Runs, NEW y, Trying(run[r]), Trying(y) \/ Creating(y),
         y.op = run[r].op, y.mode = run[r].mode, y.guarded = run[r].guarded,
         y.status \in {run[r].status, "removing-nonces", "dormant-ready"},
         Posting(y) => Posting(run[r]),
         \/ y.pc # "final" /\ ~Ready(y)
         \/ Stand(run[r], receipt[r], live) /\ Calm(run[r], live) => Stand(y, receipt[r], live)
  PROVE  Goes(run[r], receipt[r], y, receipt[r], live)
<1> DEFINE m == run[r]
           c == receipt[r]
<1>1. Phase(m, c) /\ Mem(m, c) /\ Own(m, r, c) /\ m.guarded
  BY VerdictFacts DEF Phase
<1>2. m.mode = "live" /\ ~Over(m) /\ m.pc # "idle" /\ ~Undone(m)
  BY <1>1 DEF Own, Mem, Trying, Ready, Posting, Creating, Stripping, Checking, Over, Undone
<1>3. /\ y.pc # "idle" /\ ~Ending(y) /\ ~Over(y) /\ y.pc \notin {"scan", "tscan", "wait", "conclude"}
      /\ ~(y.pc = "save" /\ y.cont \in {"scan", "rollback", "conclude"})
      /\ ~Succeeded(y)
  BY DEF Trying, Creating, Stripping, Checking, Ready, Ending, Over, Succeeded
<1>4. y.status \notin Complete BY <1>1 DEF Phase, Complete
<1>5. Phase(y, c) BY <1>1, <1>2, <1>3, <1>4 DEF Phase
<1>6. Onward(m, y) BY <1>2, <1>3, <1>4 DEF Onward, Past, Closing
<1>7. Stand(m, c, live) /\ Calm(m, live) => Stand(y, c, live) BY <1>3 DEF Stand
<1>8. Clear(y, Heard) BY <1>3, <1>4 DEF Clear
<1> QED BY <1>5, <1>6, <1>7, <1>8 DEF Goes

\* A run that rolls back goes on with it.
LEMMA UndoneGoes ==
  ASSUME VerdictInv, NEW r \in Runs, NEW y,
         run[r].pc \in {"rollback", "delete-sent", "wait", "conclude"},
         \/ /\ y.pc \in {"rollback", "delete-sent", "wait", "conclude"}
            /\ y.status = run[r].status
         \/ y.pc = "save" /\ y.cont = "done" /\ y.status # "dormant-ready",
         y.op = run[r].op, y.mode = run[r].mode, y.guarded = run[r].guarded,
         Clear(run[r], Heard) => Clear(y, Heard)
  PROVE  Goes(run[r], receipt[r], y, receipt[r], live)
<1> DEFINE m == run[r]
           c == receipt[r]
<1>1. Phase(m, c) BY VerdictFacts
<1>2. ~m.guarded /\ m.status \notin Complete /\ ~Over(m) /\ m.pc # "idle"
  BY <1>1 DEF Phase, Ending, Over
<1>3. /\ ~Trying(y) /\ ~Ready(y) /\ ~Succeeded(y) /\ y.pc # "final" /\ y.pc # "idle"
      /\ ~Posting(y) /\ Undone(y)
  BY DEF Trying, Creating, Stripping, Checking, Ready, Posting, Succeeded, Undone
<1>4. Phase(y, c) BY <1>1, <1>2, <1>3 DEF Phase
<1>5. Onward(m, y) BY <1>2, <1>3 DEF Onward, Past, Posting, Creating
<1>6. Stand(y, c, live) BY <1>3 DEF Stand
<1> QED BY <1>4, <1>5, <1>6 DEF Goes

\* A recovery or teardown that looks at the cluster goes on with it.
LEMMA SearchGoes ==
  ASSUME VerdictInv, NEW r \in Runs, NEW y, run[r].pc \in {"scan", "tscan"},
         \/ y.pc = run[r].pc \/ y.pc = "rollback"
         \/ y.pc = "save" /\ (y.cont = "rollback" \/ (y.cont = "conclude" /\ y.err)),
         y.status = run[r].status,
         y.op = run[r].op, y.mode = run[r].mode, y.guarded = run[r].guarded
  PROVE  Goes(run[r], receipt[r], y, receipt[r], live)
<1> DEFINE m == run[r]
           c == receipt[r]
<1>1. Phase(m, c) BY VerdictFacts
<1>2. ~m.guarded /\ m.status \notin Complete /\ ~Over(m) /\ m.pc # "idle" /\ m.mode # "live"
  BY <1>1 DEF Phase, Over
<1>3. /\ ~Trying(y) /\ ~Ready(y) /\ ~Succeeded(y) /\ y.pc # "final" /\ y.pc # "idle"
      /\ y.pc # "wait" /\ y.pc # "conclude"
  BY DEF Trying, Creating, Stripping, Checking, Ready, Posting, Succeeded, Undone
<1>4. Phase(y, c) BY <1>1, <1>2, <1>3 DEF Phase
<1>5. Onward(m, y) BY <1>2, <1>3 DEF Onward, Past
<1>6. Stand(y, c, live) /\ Clear(y, Heard) BY <1>2, <1>3 DEF Stand, Clear
<1> QED BY <1>4, <1>5, <1>6 DEF Goes

\* Part 12.  The verdicts: the steps of a run.

\* A live run with everything in place is still in its try block.
LEMMA ReadyGuarded ==
  ASSUME VerdictInv, NEW r \in Runs, run[r].pc \in {"absent", "scan", "tscan", "save"},
         run[r].status = "dormant-ready", run[r].mode = "live"
  PROVE  run[r].guarded /\ run[r].pc = "save"
<1> DEFINE m == run[r]
           c == receipt[r]
<1>1. m \in Memory /\ Phase(m, c) /\ Mem(m, c) /\ Own(m, r, c) BY VerdictFacts
<1>2. \A n \in Objs : m.book[n] # None /\ ~Unsent(m, n) BY <1>1 DEF Mem, Over
<1>3. m.pc = "save" /\ m.cont \notin {"absent", "create"}
  BY <1>1, <1>2, AtType DEF Unsent, Own, Creating, Phase
<1>4. m.cont \in {"intent", "strip", "final", "done"}
  BY <1>1, <1>3 DEF Own, Phase, Memory, Conts
<1>5. m.guarded BY <1>1, <1>3, <1>4 DEF Phase, Trying, Stripping, Checking, Ready
<1> QED BY <1>3, <1>5

LEMMA SaveVerdict ==
  ASSUME VerdictInv, Sure, NEW r \in Runs, Persist(r) \/ PersistFails(r)
  PROVE  VerdictInv'
<1> DEFINE m == run[r]
           c == receipt[r]
           d == ReceiptOf(r)
           g == m.guarded \/ m.cont = "create"
           x == [m EXCEPT !.pc = m.cont, !.guarded = g]
<1>1. /\ m \in Memory /\ m.pc = "save" /\ Phase(m, c) /\ Mem(m, c) /\ Own(m, r, c)
      /\ ~Over(m) /\ m.pc # "idle"
  BY VerdictFacts DEF Persist, PersistFails, Over
<1>2. ASSUME NEW y, NEW e, e = c \/ e = d, receipt' = [receipt EXCEPT ![r] = e],
             Becomes(r, y), Goes(m, c, y, e, live)
      PROVE  VerdictInv'
  <2>1. UNCHANGED <<live, rev, net, foreign>> BY DEF Persist, PersistFails
  <2>2. ASSUME \A q \in net : q.run = r => Awaited(q, m), NEW q \in net', q.run = r
        PROVE  Awaited(q, y)
    BY <1>1, <2>1, <2>2 DEF Awaited
  <2>3. Steps(r, y, e) BY <1>1, <1>2, <2>1, <2>2 DEF Steps
  <2> QED BY <1>2, <2>3, VerdictLocal
<1>3. CASE Persist(r) /\ m.cont = "done"
  <2>1. Becomes(r, Exit(r)) /\ receipt' = [receipt EXCEPT ![r] = d]
    BY <1>3 DEF Persist
  <2>2. Goes(m, c, Exit(r), d, live) BY <1>1, <1>3, GoneGoes DEF Exit, Ready
  <2> QED BY <1>2, <2>1, <2>2
<1>4. CASE Persist(r) /\ m.cont # "done"
  <2>1. receipt' = [receipt EXCEPT ![r] = d] /\ Becomes(r, x) BY <1>4 DEF Persist
  <2>2. /\ x.pc = m.cont /\ x.cont = m.cont /\ x.mode = m.mode /\ x.op = m.op
        /\ x.status = m.status /\ x.at = m.at /\ x.err = m.err
    BY <1>1 DEF Memory
  <2>3. x.guarded <=> (m.guarded \/ m.cont = "create")
    <3>1. m.guarded \in BOOLEAN /\ (m.cont = "create") \in BOOLEAN
      BY <1>1 DEF Memory
    <3>2. x.guarded = g BY <1>1 DEF Memory
    <3> QED BY <3>1, <3>2
  <2>4. m.cont \in Conts /\ m.cont # "idle" /\ m.cont # "done"
    BY <1>1, <1>4 DEF Own, Memory
  <2> HIDE DEF x, m
  <2>5. m.status \notin Complete BY <1>1, <2>4 DEF Phase, Over
  <2>6. /\ x.pc \notin {"save", "done", "idle", "crashed", "wait"} /\ ~Over(x)
        /\ ~Ready(x) /\ ~Succeeded(x) /\ (x.pc = "final" => \A n \in Objs : ~(n < x.at))
    BY <1>1, <2>2, <2>4 DEF Conts, Over, Ready, Succeeded, Mem, Objs
  <2>7. m.cont = "create" => m.mode = "live" BY <1>1 DEF Own, Posting, Creating
  <2>8. Trying(x) => x.guarded
    BY <1>1, <2>2, <2>3, <2>4 DEF Phase, Trying, Stripping, Checking, Ready, Conts
  <2>9. Ending(x) => ~x.guarded BY <1>1, <2>2, <2>3, <2>4 DEF Phase, Ending, Conts
  <2>10. Phase(x, d)
    BY <1>1, <2>2, <2>3, <2>4, <2>5, <2>6, <2>7, <2>8, <2>9 DEF Phase, Conts
  <2>11. Onward(m, x)
    BY <1>1, <2>2, <2>4, <2>6 DEF Onward, Past, Posting, Creating, Undone, Conts, Closing, Phase
  <2>12. Stand(x, d, live) BY <2>6 DEF Stand
  <2>13. Clear(x, Heard) BY <1>1, <2>2, <2>4, <2>6 DEF Clear, Phase
  <2> QED BY <1>2, <2>1, <2>10, <2>11, <2>12, <2>13 DEF Goes, m
<1>5. CASE PersistFails(r)
  <2>1. PICK e : (e = c \/ e = d) /\ receipt' = [receipt EXCEPT ![r] = e]
    BY <1>1, <1>5, VerdictFacts DEF PersistFails
  <2>2. CASE m.guarded
    <3>1. Becomes(r, Abort(r, FALSE)) BY <1>5, <2>2 DEF PersistFails
    <3>2. Goes(m, c, Abort(r, FALSE), e, live)
      <4>1. Goes(m, c, Abort(r, FALSE), c, live) BY <2>2, AbortGoes
      <4>2. Abort(r, FALSE).pc = "rollback" BY <1>1 DEF Abort, Memory
      <4> QED BY <4>1, <4>2 DEF Goes, Phase, Stand, Ready, Succeeded
    <3> QED BY <1>2, <2>1, <3>1, <3>2
  <2>3. CASE ~m.guarded
    <3>1. Becomes(r, Exit(r)) BY <1>5, <2>3 DEF PersistFails
    <3>2. Goes(m, c, Exit(r), e, live)
      BY <1>1, <2>3, GoneGoes, ReadyGuarded DEF Exit
    <3> QED BY <1>2, <2>1, <3>1, <3>2
  <2> QED BY <2>2, <2>3
<1> QED BY <1>3, <1>4, <1>5

\* A run that ends or rolls back, as its try block says.
LEMMA BreakVerdict ==
  ASSUME VerdictInv, Sure, NEW r \in Runs,
         UNCHANGED <<live, rev, receipt, foreign>>, net' \subseteq net,
         \/ run[r].pc # "create-sent" \/ run[r].answer # NoAnswer
         \/ net' = Abandoned(r),
         \/ run[r].guarded /\ \E e \in BOOLEAN : Becomes(r, Abort(r, e))
         \/ run[r].pc \in {"absent", "scan", "tscan"} /\ Becomes(r, Exit(r))
         \/ ~Over(run[r]) /\ run[r].pc # "idle" /\ Becomes(r, Gone(r, "crashed"))
  PROVE  VerdictInv'
<1>1. ASSUME run[r].guarded, NEW e \in BOOLEAN, Becomes(r, Abort(r, e)) PROVE VerdictInv'
  BY <1>1, AbortGoes, QuietVerdict
<1>2. ASSUME run[r].pc \in {"absent", "scan", "tscan"}, Becomes(r, Exit(r))
      PROVE  VerdictInv'
  <2>1. Goes(run[r], receipt[r], Exit(r), receipt[r], live)
    <3>1. run[r].pc # "save" /\ run[r].pc # "idle" /\ ~Over(run[r]) BY <1>2 DEF Over
    <3>2. ~(run[r].status = "dormant-ready" /\ run[r].mode = "live")
      BY <1>2, <3>1, ReadyGuarded
    <3> QED BY <1>2, <3>1, <3>2, GoneGoes DEF Exit
  <2> QED BY <1>2, <2>1, QuietVerdict
<1>3. ASSUME ~Over(run[r]), run[r].pc # "idle", Becomes(r, Gone(r, "crashed"))
      PROVE  VerdictInv'
  <2>1. Goes(run[r], receipt[r], Gone(r, "crashed"), receipt[r], live)
    BY <1>3, GoneGoes
  <2> QED BY <1>3, <2>1, QuietVerdict
<1> QED BY <1>1, <1>2, <1>3

LEMMA InterruptVerdict ==
  ASSUME VerdictInv, Sure, NEW r \in Runs, Raise(r) \/ Crash(r)
  PROVE  VerdictInv'
<1>1. UNCHANGED <<live, rev, receipt, foreign>> /\ net' = Abandoned(r) /\ net' \subseteq net
  BY DEF Raise, Crash, Abandoned
<1>2. \/ run[r].guarded /\ Becomes(r, Abort(r, FALSE))
      \/ run[r].pc \in {"absent", "scan", "tscan"} /\ Becomes(r, Exit(r))
      \/ ~Over(run[r]) /\ run[r].pc # "idle" /\ Becomes(r, Gone(r, "crashed"))
  BY DEF Raise, Crash, Over
<1> QED BY <1>1, <1>2, BreakVerdict

\* Before the first POST nothing is behind a run.
LEMMA FirstVerdict ==
  ASSUME VerdictInv, Sure, NEW r \in Runs, StartLive(r) \/ CheckAbsent(r)
  PROVE  VerdictInv'
<1> DEFINE m == run[r]
           c == receipt[r]
           s == [m EXCEPT !.pc = "save", !.cont = "absent"]
           t == [m EXCEPT !.at = m.at + 1]
           u == [m EXCEPT !.pc = "save", !.cont = "create", !.at = 1,
                          !.status = "creating"]
<1>1. /\ m \in Memory /\ Own(m, r, c) /\ Phase(m, c) /\ m.pc \in {"idle", "absent"}
      /\ UNCHANGED <<live, rev, net, receipt, foreign>>
  BY VerdictFacts DEF StartLive, CheckAbsent, MayStart
<1>2. \/ Becomes(r, Exit(r)) /\ m.pc = "absent"
      \/ Becomes(r, s)
      \/ Becomes(r, t) /\ m.pc = "absent"
      \/ Becomes(r, u)
  <2>1. StartLive(r) => Becomes(r, s) BY DEF StartLive
  <2>2. CheckAbsent(r) /\ live[m.at] # None => Becomes(r, Exit(r)) /\ m.pc = "absent"
    BY DEF CheckAbsent
  <2>3. CheckAbsent(r) /\ live[m.at] = None /\ m.at < N => Becomes(r, t) /\ m.pc = "absent"
    BY DEF CheckAbsent
  <2>4. CheckAbsent(r) /\ live[m.at] = None /\ ~(m.at < N) => Becomes(r, u)
    BY DEF CheckAbsent
  <2> HIDE DEF m, s, t, u
  <2> QED BY <2>1, <2>2, <2>3, <2>4
<1>3. m.mode = "live" /\ ~Past(m) /\ ~Over(m) /\ m.status \notin Complete
  <2>1. m.mode = "live" BY <1>1 DEF Own, Posting, Unstarted
  <2>2. ~Past(m) /\ ~Over(m) BY <1>1 DEF Past, Posting, Over
  <2>3. m.status \notin Complete BY <1>1, <2>2 DEF Phase
  <2> QED BY <2>1, <2>2, <2>3
<1>4. ASSUME NEW y, Becomes(r, y),
             \/ y.pc = "absent"
             \/ y.pc = "save" /\ y.cont \in {"absent", "create"},
             y.mode = m.mode, y.op = m.op, y.status \in {m.status, "creating"},
             y.guarded = m.guarded
      PROVE  VerdictInv'
  <2> HIDE DEF m, c, s, t, u
  <2>1. /\ ~Trying(y) /\ ~Ending(y) /\ ~Over(y) /\ ~Ready(y) /\ ~Succeeded(y)
        /\ y.status \notin Complete /\ m.pc \in {"idle", "absent"}
    BY <1>1, <1>3, <1>4 DEF Trying, Stripping, Checking, Ready, Ending, Over, Succeeded, Complete
  <2>2. Phase(y, c) BY <1>1, <1>3, <1>4, <2>1 DEF Phase
  <2>3. Onward(m, y) BY <1>1, <1>3, <1>4, <2>1 DEF Onward, Undone, Closing
  <2>4. Stand(y, c, live) /\ Clear(y, Heard) BY <1>4, <2>1 DEF Stand, Clear
  <2>5. Goes(m, c, y, c, live) BY <2>2, <2>3, <2>4 DEF Goes
  <2> QED BY <1>1, <1>4, <2>5, QuietVerdict DEF m, c
<1>5. CASE Becomes(r, Exit(r)) /\ m.pc = "absent" BY <1>1, <1>5, BreakVerdict
<1>6. CASE Becomes(r, s)
  <2>1. /\ s.pc = "save" /\ s.cont = "absent" /\ s.mode = m.mode /\ s.op = m.op
        /\ s.status = m.status /\ s.guarded = m.guarded
    BY <1>1 DEF Memory
  <2> HIDE DEF s
  <2> QED BY <1>4, <1>6, <2>1
<1>7. CASE Becomes(r, t) /\ m.pc = "absent"
  <2>1. /\ t.pc = "absent" /\ t.mode = m.mode /\ t.op = m.op
        /\ t.status = m.status /\ t.guarded = m.guarded
    BY <1>1, <1>7 DEF Memory
  <2>2. Becomes(r, t) BY <1>7
  <2> HIDE DEF m, c, s, t, u
  <2> QED BY <1>4, <2>1, <2>2
<1>8. CASE Becomes(r, u)
  <2>1. /\ u.pc = "save" /\ u.cont = "create" /\ u.mode = m.mode /\ u.op = m.op
        /\ u.status = "creating" /\ u.guarded = m.guarded
    BY <1>1 DEF Memory
  <2> HIDE DEF u
  <2> QED BY <1>4, <1>8, <2>1
<1> QED BY <1>2, <1>5, <1>6, <1>7, <1>8

\* A step within the try block that sends nothing.
LEMMA TryVerdict ==
  ASSUME VerdictInv, Sure, NEW r \in Runs, NEW y, Becomes(r, y),
         UNCHANGED <<live, rev, receipt, foreign>>, net' \subseteq net,
         \/ run[r].pc # "create-sent" \/ run[r].answer # NoAnswer
         \/ net' = Abandoned(r),
         Trying(run[r]), Trying(y) \/ Creating(y),
         y.op = run[r].op, y.mode = run[r].mode, y.guarded = run[r].guarded,
         y.status \in {run[r].status, "removing-nonces", "dormant-ready"},
         Posting(y) => Posting(run[r]),
         \/ y.pc # "final" /\ ~Ready(y)
         \/ Stand(run[r], receipt[r], live) /\ Calm(run[r], live) => Stand(y, receipt[r], live)
  PROVE  VerdictInv'
<1>1. Goes(run[r], receipt[r], y, receipt[r], live) BY TryingGoes
<1> QED BY <1>1, QuietVerdict

LEMMA CreatingVerdict ==
  ASSUME VerdictInv, Sure, NEW r \in Runs,
         \/ SendCreate(r) \/ BindAnswer(r) \/ CreateUncertain(r) \/ Discover(r)
  PROVE  VerdictInv'
<1> DEFINE m == run[r]
           c == receipt[r]
<1>1. m \in Memory /\ m.at \in Objs /\ Phase(m, c) /\ m.pc \in {"create", "create-sent", "discover"}
  BY VerdictFacts DEF SendCreate, BindAnswer, CreateUncertain, Discover, Memory
<1>2. Trying(m) /\ m.guarded /\ Posting(m)
  BY <1>1 DEF Trying, Posting, Creating, Phase
<1>3. CASE SendCreate(r)
  <2> DEFINE q == Request(r, "create", m.at, None, 0)
             y == [m EXCEPT !.pc = "create-sent", !.asked = q, !.answer = NoAnswer]
  <2>1. q.run = r /\ q.kind = "create" /\ m.pc = "create"
    BY <1>3 DEF Request, SendCreate
  <2>2. Send(r, q, "create-sent") BY <1>3 DEF SendCreate
  <2>3. /\ y.pc = "create-sent" /\ y.op = m.op /\ y.mode = m.mode /\ y.guarded = m.guarded
        /\ y.status = m.status
    BY <1>1 DEF Memory
  <2>4. Goes(m, c, y, c, live)
    <3> HIDE DEF y
    <3>1. Trying(y) /\ ~Ready(y) BY <2>3 DEF Trying, Ready
    <3> QED BY <1>2, <2>3, <3>1, TryingGoes
  <2> HIDE DEF q
  <2> QED BY <2>1, <2>2, <2>4, SendVerdict
<1>4. ASSUME NEW o, Becomes(r, Created(r, o)),
             UNCHANGED <<live, rev, net, receipt, foreign>>,
             m.pc # "create-sent" \/ m.answer # NoAnswer
      PROVE  VerdictInv'
  <2> DEFINE y == Created(r, o)
  <2>1. /\ y.pc = "save" /\ y.cont \in {"create", "intent"} /\ y.op = m.op /\ y.mode = m.mode
        /\ y.guarded = m.guarded /\ y.status = m.status
    BY <1>1 DEF Created, Memory
  <2>2. Becomes(r, y) BY <1>4
  <2> HIDE DEF y
  <2>3. (Trying(y) \/ Creating(y)) /\ ~Ready(y)
    BY <2>1 DEF Trying, Creating, Stripping, Ready
  <2> QED BY <1>2, <1>4, <2>1, <2>2, <2>3, TryVerdict
<1>5. CASE BindAnswer(r)
  <2>1. /\ m.answer # NoAnswer /\ UNCHANGED <<live, rev, net, receipt, foreign>>
        /\ Becomes(r, Created(r, m.answer.obj)) \/ Becomes(r, Abort(r, FALSE))
    BY <1>5 DEF BindAnswer
  <2> QED BY <1>2, <1>4, <2>1, BreakVerdict
<1>6. CASE Discover(r)
  <2>1. /\ m.pc = "discover" /\ UNCHANGED <<live, rev, net, receipt, foreign>>
        /\ Becomes(r, Created(r, live[m.at])) \/ Becomes(r, Abort(r, TRUE))
    BY <1>6 DEF Discover
  <2> QED BY <1>2, <1>4, <2>1, BreakVerdict
<1>7. CASE CreateUncertain(r)
  <2> DEFINE y == [m EXCEPT !.pc = "discover", !.asked = None, !.answer = NoAnswer]
  <2>1. /\ Becomes(r, y) /\ UNCHANGED <<live, rev, receipt, foreign>>
        /\ net' = Abandoned(r) /\ net' \subseteq net
    BY <1>7 DEF CreateUncertain, Abandoned
  <2>2. /\ y.pc = "discover" /\ y.op = m.op /\ y.mode = m.mode
        /\ y.guarded = m.guarded /\ y.status = m.status
    BY <1>1 DEF Memory
  <2> HIDE DEF y
  <2>3. Trying(y) /\ ~Ready(y) BY <2>2 DEF Trying, Ready
  <2> QED BY <1>2, <2>1, <2>2, <2>3, TryVerdict
<1> QED BY <1>3, <1>5, <1>6, <1>7

LEMMA StripVerdict ==
  ASSUME VerdictInv, Sure, NEW r \in Runs,
         \/ MarkIntent(r) \/ SendPatch(r) \/ NothingToPatch(r)
         \/ PatchAnswered(r) \/ PatchUncertain(r)
  PROVE  VerdictInv'
<1> DEFINE m == run[r]
           c == receipt[r]
<1>1. m \in Memory /\ m.at \in Objs /\ Phase(m, c) /\ m.pc \in {"intent", "strip", "patch-sent"}
  BY VerdictFacts DEF MarkIntent, SendPatch, NothingToPatch, PatchAnswered, PatchUncertain, Memory
<1>2. Trying(m) /\ m.guarded /\ m.pc # "create-sent"
  BY <1>1 DEF Trying, Stripping, Phase
<1>3. /\ UNCHANGED <<live, rev, receipt, foreign>>
      /\ ~SendPatch(r) => net' \subseteq net
  BY DEF MarkIntent, SendPatch, NothingToPatch, PatchAnswered, PatchUncertain, Abandoned, Send
<1>4. ASSUME NEW y, Becomes(r, y), net' \subseteq net,
             y.pc \in {"strip", "patch-sent"} \/ (y.pc = "save" /\ y.cont \in {"intent", "strip", "final"}),
             y.op = m.op, y.mode = m.mode, y.guarded = m.guarded,
             y.status \in {m.status, "removing-nonces"}
      PROVE  VerdictInv'
  <2> HIDE DEF m, c
  <2>1. Trying(y) /\ ~Ready(y) /\ ~Posting(y) /\ y.pc # "final"
    BY <1>4 DEF Trying, Stripping, Checking, Ready, Posting, Creating
  <2> QED BY <1>2, <1>3, <1>4, <2>1, TryVerdict DEF m, c
<1>5. CASE SendPatch(r)
  <2> DEFINE q == Request(r, "patch", m.at, live[m.at].uid, live[m.at].rv)
             y == [m EXCEPT !.pc = "patch-sent", !.asked = q, !.answer = NoAnswer]
  <2>1. q.run = r /\ q.kind = "patch" BY DEF Request
  <2>2. Send(r, q, "patch-sent") BY <1>5 DEF SendPatch
  <2>3. /\ y.pc = "patch-sent" /\ y.op = m.op /\ y.mode = m.mode /\ y.guarded = m.guarded
        /\ y.status = m.status
    BY <1>1 DEF Memory
  <2>4. Goes(m, c, y, c, live)
    <3> HIDE DEF y
    <3>1. Trying(y) /\ ~Ready(y) /\ ~Posting(y)
      BY <2>3 DEF Trying, Stripping, Ready, Posting, Creating
    <3> QED BY <1>2, <2>3, <3>1, TryingGoes
  <2> HIDE DEF q
  <2> QED BY <1>2, <2>1, <2>2, <2>4, SendVerdict
<1>6. CASE MarkIntent(r)
  <2> DEFINE y == [m EXCEPT !.book[m.at].st = "intent-durable",
                            !.intents = @ \cup {m.at}, !.tries = 0,
                            !.status = "removing-nonces", !.pc = "save", !.cont = "strip"]
  <2>1. Becomes(r, y) /\ net' \subseteq net BY <1>6 DEF MarkIntent
  <2>2. /\ y.pc = "save" /\ y.cont = "strip" /\ y.op = m.op /\ y.mode = m.mode
        /\ y.guarded = m.guarded /\ y.status = "removing-nonces"
    BY <1>1 DEF Memory
  <2> HIDE DEF y
  <2> QED BY <1>4, <2>1, <2>2
<1>7. CASE NothingToPatch(r) \/ PatchAnswered(r) \/ PatchUncertain(r)
  <2> DEFINE b == [m EXCEPT !.pc = "strip", !.tries = @ + 1, !.asked = None,
                            !.answer = NoAnswer]
  <2>1. /\ net' \subseteq net
        /\ Becomes(r, Removed(r)) \/ Becomes(r, b) \/ Becomes(r, Abort(r, FALSE))
    BY <1>7 DEF NothingToPatch, PatchAnswered, PatchUncertain, Retry, Abandoned
  <2>2. CASE Becomes(r, Abort(r, FALSE)) BY <1>2, <1>3, <2>1, <2>2, BreakVerdict
  <2>3. CASE Becomes(r, b)
    <3>1. /\ b.pc = "strip" /\ b.op = m.op /\ b.mode = m.mode
          /\ b.guarded = m.guarded /\ b.status = m.status
      BY <1>1 DEF Memory
    <3>2. Becomes(r, b) BY <2>3
    <3> HIDE DEF b
    <3> QED BY <1>4, <2>1, <3>1, <3>2
  <2>4. CASE Becomes(r, Removed(r))
    <3> DEFINE y == Removed(r)
    <3>1. /\ y.pc = "save" /\ y.cont \in {"intent", "final"} /\ y.op = m.op
          /\ y.mode = m.mode /\ y.guarded = m.guarded /\ y.status = m.status
      BY <1>1 DEF Removed, Memory
    <3>2. Becomes(r, y) BY <2>4
    <3> HIDE DEF y
    <3> QED BY <1>4, <2>1, <3>1, <3>2
  <2> QED BY <2>1, <2>2, <2>3, <2>4
<1> QED BY <1>5, <1>6, <1>7

\* What the last look saw is there, and not about to go.
LEMMA FinalVerdict ==
  ASSUME VerdictInv, Sure, NEW r \in Runs, CheckFinal(r)
  PROVE  VerdictInv'
<1> DEFINE m == run[r]
           c == receipt[r]
           o == live[m.at]
           s == [m EXCEPT !.at = m.at + 1]
           t == [m EXCEPT !.status = "dormant-ready", !.pc = "save", !.cont = "done"]
           good == o.uid = m.book[m.at].uid /\ o # None
<1>1. /\ m \in Memory /\ m.at \in Objs /\ Phase(m, c) /\ m.pc = "final"
      /\ UNCHANGED <<live, rev, net, receipt, foreign>>
  BY VerdictFacts DEF CheckFinal, Memory
<1>2. \/ Becomes(r, Abort(r, FALSE))
      \/ Becomes(r, s) /\ good /\ m.at < N
      \/ Becomes(r, t) /\ good /\ ~(m.at < N)
  BY DEF CheckFinal, StillMine
<1>3. Trying(m) /\ m.guarded /\ m.pc # "create-sent"
  BY <1>1 DEF Trying, Checking, Phase
<1>4. ASSUME good, Stand(m, c, live), Calm(m, live)
      PROVE  \A n \in Objs : n <= m.at => Kept(m.book[n], live[n])
  <2>1. \A n \in Objs : n <= m.at => n < m.at \/ n = m.at BY <1>1 DEF Objs
  <2>2. Kept(m.book[m.at], live[m.at]) BY <1>1, <1>4 DEF Kept, Calm
  <2> QED BY <1>1, <1>4, <2>1, <2>2 DEF Stand
<1>5. CASE Becomes(r, Abort(r, FALSE)) BY <1>1, <1>3, <1>5, BreakVerdict
<1>6. CASE Becomes(r, s) /\ good /\ m.at < N
  <2>1. /\ s.pc = "final" /\ s.mode = m.mode /\ s.op = m.op /\ s.book = m.book
        /\ s.guarded = m.guarded /\ s.status = m.status /\ s.at = m.at + 1
    BY <1>1, <1>6 DEF Memory
  <2>2. Becomes(r, s) BY <1>6
  <2> HIDE DEF s
  <2>3. Trying(s) /\ ~Posting(s) /\ ~Ready(s) /\ ~Succeeded(s)
    BY <2>1 DEF Trying, Checking, Posting, Creating, Ready, Succeeded
  <2>4. Stand(m, c, live) /\ Calm(m, live) => Stand(s, c, live)
    <3>1. \A n \in Objs : n < s.at => n <= m.at BY <1>1, <2>1 DEF Objs
    <3> QED BY <1>4, <1>6, <2>1, <2>3, <3>1 DEF Stand
  <2> HIDE DEF m, c
  <2> QED BY <1>1, <1>3, <2>1, <2>2, <2>3, <2>4, TryVerdict DEF m, c
<1>7. CASE Becomes(r, t) /\ good /\ ~(m.at < N)
  <2>1. /\ t.pc = "save" /\ t.cont = "done" /\ t.mode = m.mode /\ t.op = m.op /\ t.book = m.book
        /\ t.guarded = m.guarded /\ t.status = "dormant-ready"
    BY <1>1, <1>7 DEF Memory
  <2>2. Becomes(r, t) /\ m.mode = "live" BY <1>1, <1>3, <1>7 DEF Phase
  <2> HIDE DEF t
  <2>3. Trying(t) /\ ~Posting(t) /\ ~Succeeded(t) /\ t.pc # "final"
    BY <2>1, <2>2 DEF Trying, Ready, Posting, Creating, Succeeded
  <2>4. Stand(m, c, live) /\ Calm(m, live) => Stand(t, c, live)
    <3>1. \A n \in Objs : n <= m.at BY <1>1, <1>7, ConstantsOK DEF Objs
    <3> QED BY <1>4, <1>7, <2>1, <2>3, <3>1 DEF Stand
  <2> HIDE DEF m, c
  <2> QED BY <1>1, <1>3, <2>1, <2>2, <2>3, <2>4, TryVerdict DEF m, c
<1> QED BY <1>2, <1>5, <1>6, <1>7

\* A step of a rollback that sends nothing.
LEMMA UndoVerdict ==
  ASSUME VerdictInv, Sure, NEW r \in Runs, NEW y, Becomes(r, y),
         UNCHANGED <<live, rev, receipt, foreign>>, net' \subseteq net,
         run[r].pc \in {"rollback", "delete-sent", "wait", "conclude"},
         \/ /\ y.pc \in {"rollback", "delete-sent", "wait", "conclude"}
            /\ y.status = run[r].status
         \/ y.pc = "save" /\ y.cont = "done" /\ y.status # "dormant-ready",
         y.op = run[r].op, y.mode = run[r].mode, y.guarded = run[r].guarded,
         Clear(run[r], Heard) => Clear(y, Heard)
  PROVE  VerdictInv'
<1>1. Goes(run[r], receipt[r], y, receipt[r], live) BY UndoneGoes
<1> QED BY <1>1, QuietVerdict

LEMMA DeleteVerdict ==
  ASSUME VerdictInv, Sure, NEW r \in Runs,
         \/ SendDelete(r) \/ Skip(r) \/ SkipUnread(r)
         \/ DeleteAnswered(r) \/ DeleteUncertain(r)
  PROVE  VerdictInv'
<1> DEFINE m == run[r]
           c == receipt[r]
<1>1. /\ m \in Memory /\ m.pc \in {"rollback", "delete-sent"}
      /\ UNCHANGED <<live, rev, receipt, foreign>>
      /\ ~SendDelete(r) => net' \subseteq net
  BY VerdictFacts
  DEF SendDelete, Send, Skip, SkipUnread, DeleteAnswered, DeleteUncertain, Abandoned
<1>2. ASSUME NEW y, Becomes(r, y), net' \subseteq net, y.pc = "rollback",
             y.op = m.op, y.mode = m.mode, y.guarded = m.guarded, y.status = m.status
      PROVE  VerdictInv'
  <2> HIDE DEF m, c
  <2>1. Clear(y, Heard) BY <1>2 DEF Clear
  <2> QED BY <1>1, <1>2, <2>1, UndoVerdict DEF m
<1>3. CASE SendDelete(r)
  <2>1. PICK n \in Objs :
          Send(r, Request(r, "delete", n, live[n].uid, live[n].rv), "delete-sent")
    BY <1>3 DEF SendDelete
  <2> DEFINE q == Request(r, "delete", n, live[n].uid, live[n].rv)
             y == [m EXCEPT !.pc = "delete-sent", !.asked = q, !.answer = NoAnswer]
  <2>2. q.run = r /\ q.kind = "delete" /\ q.op = m.op BY DEF Request
  <2>3. /\ y.pc = "delete-sent" /\ y.op = m.op /\ y.mode = m.mode /\ y.guarded = m.guarded
        /\ y.status = m.status
    BY <1>1 DEF Memory
  <2>4. m.pc = "rollback" BY <1>3 DEF SendDelete
  <2>5. Goes(m, c, y, c, live)
    <3> HIDE DEF y
    <3>1. Clear(y, Heard) BY <2>3 DEF Clear
    <3> QED BY <1>1, <2>3, <3>1, UndoneGoes
  <2> HIDE DEF q
  <2> QED BY <2>1, <2>2, <2>4, <2>5, SendVerdict DEF q
<1>4. ASSUME NEW n \in Objs, NEW e,
             Becomes(r, [m EXCEPT !.todo = @ \ {n}, !.err = e]), m.pc = "rollback",
             net' \subseteq net
      PROVE  VerdictInv'
  <2> DEFINE y == [m EXCEPT !.todo = @ \ {n}, !.err = e]
  <2>1. /\ y.pc = m.pc /\ y.op = m.op /\ y.mode = m.mode /\ y.guarded = m.guarded
        /\ y.status = m.status
    BY <1>1 DEF Memory
  <2>2. Becomes(r, y) BY <1>4, SMTT(40)
  <2> HIDE DEF y
  <2> QED BY <1>2, <1>4, <2>1, <2>2
<1>5. CASE Skip(r) \/ SkipUnread(r) BY <1>1, <1>4, <1>5 DEF Skip, SkipUnread
<1>6. ASSUME NEW f, Becomes(r, DeleteSettled(r, f)), net' \subseteq net
      PROVE  VerdictInv'
  <2> DEFINE y == DeleteSettled(r, f)
  <2>1. /\ y.pc = "rollback" /\ y.op = m.op /\ y.mode = m.mode /\ y.guarded = m.guarded
        /\ y.status = m.status
    BY <1>1 DEF Memory, DeleteSettled
  <2>2. Becomes(r, y) BY <1>6
  <2> HIDE DEF y
  <2> QED BY <1>2, <1>6, <2>1, <2>2
<1>7. CASE DeleteAnswered(r) \/ DeleteUncertain(r)
  BY <1>6, <1>7 DEF DeleteAnswered, DeleteUncertain, Abandoned
<1> QED BY <1>3, <1>5, <1>7, SMTT(40)

\* The wait sees every name free, one after the other, and none comes back.
LEMMA WaitVerdict ==
  ASSUME VerdictInv, Sure, NEW r \in Runs,
         \/ BeginWait(r) \/ WaitAbsent(r) \/ WaitDeadline(r) \/ WaitUnread(r)
         \/ Conclude(r)
  PROVE  VerdictInv'
<1> DEFINE m == run[r]
           c == receipt[r]
<1>1. /\ m \in Memory /\ m.at \in Objs /\ m.pc \in {"rollback", "wait", "conclude"}
      /\ UNCHANGED <<live, rev, receipt, net, foreign>>
  BY VerdictFacts DEF BeginWait, WaitAbsent, WaitDeadline, WaitUnread, Conclude, Memory
<1> DEFINE Fits(y) ==
             /\ \/ y.pc \in {"wait", "conclude"} /\ y.status = m.status
                \/ y.pc = "save" /\ y.cont = "done" /\ y.status # "dormant-ready"
             /\ y.mode = m.mode /\ y.op = m.op /\ y.guarded = m.guarded
<1>2. ASSUME NEW y, Becomes(r, y), Fits(y), Clear(m, Heard) => Clear(y, Heard)
      PROVE  VerdictInv'
  <2> HIDE DEF m, c
  <2> QED BY <1>1, <1>2, UndoVerdict DEF m
<1>3. ASSUME NEW y, Fits(y), y.pc = "wait", y.at = 1 PROVE Clear(y, Heard)
  <2>1. \A k \in Objs : ~(k < y.at) BY <1>3 DEF Objs
  <2> QED BY <1>3, <2>1 DEF Clear, Rid
<1>4. CASE BeginWait(r)
  <2> DEFINE y == [m EXCEPT !.pc = "wait", !.at = 1, !.tries = 0]
  <2>1. Fits(y) /\ y.pc = "wait" /\ y.at = 1 BY <1>1 DEF Memory
  <2> HIDE DEF Fits
  <2> QED BY <1>2, <1>3, <1>4, <2>1 DEF BeginWait
<1>5. CASE WaitAbsent(r)
  <2> DEFINE u == [m EXCEPT !.at = m.at + 1]
             v == [m EXCEPT !.at = 1, !.tries = @ + 1]
             w == [m EXCEPT !.pc = "conclude"]
             x == [m EXCEPT !.at = 1, !.tries = 0]
  <2>1. /\ m.pc = "wait"
        /\ \/ Becomes(r, u) /\ live[m.at] = None /\ m.at < N
           \/ Becomes(r, w) /\ live[m.at] = None /\ ~(m.at < N)
           \/ Becomes(r, v) \/ Becomes(r, x)
    BY <1>5 DEF WaitAbsent
  <2>2. /\ Fits(u) /\ u.pc = "wait" /\ u.at = m.at + 1
        /\ Fits(v) /\ v.pc = "wait" /\ v.at = 1
        /\ Fits(w) /\ w.pc = "conclude"
        /\ Fits(x) /\ x.pc = "wait" /\ x.at = 1
    BY <1>1, <2>1 DEF Memory
  <2>3. ASSUME Clear(m, Heard), live[m.at] = None
        PROVE  \A k \in Objs : k <= m.at => (Heard[k] # None => Heard[k].uid.by # m.op)
    <3>1. \A k \in Objs : k <= m.at => k < m.at \/ k = m.at BY <1>1 DEF Objs
    <3>2. Heard[m.at] = None BY <1>1, <2>3 DEF Heard
    <3> QED BY <2>1, <2>3, <3>1, <3>2 DEF Clear, Rid
  <2>4. ASSUME live[m.at] = None, Clear(m, Heard) PROVE Clear(u, Heard)
    <3>1. \A k \in Objs : k < u.at => k <= m.at BY <1>1, <2>2 DEF Objs
    <3>2. u.op = m.op BY <2>2
    <3> HIDE DEF u, m, Fits
    <3> QED BY <2>2, <2>3, <2>4, <3>1, <3>2 DEF Clear, Rid
  <2>5. ASSUME live[m.at] = None, ~(m.at < N), Clear(m, Heard) PROVE Clear(w, Heard)
    <3>1. \A k \in Objs : k <= m.at BY <1>1, <2>5, ConstantsOK DEF Objs
    <3>2. w.op = m.op BY <2>2
    <3> HIDE DEF w, m, Fits
    <3> QED BY <2>2, <2>3, <2>5, <3>1, <3>2 DEF Clear, Rid
  <2>6. Clear(v, Heard) /\ Clear(x, Heard)
    <3> HIDE DEF v, x, m, Fits
    <3> QED BY <1>3, <2>2
  <2> HIDE DEF Fits, u, v, w, x
  <2> QED BY <1>2, <2>1, <2>2, <2>4, <2>5, <2>6
<1>6. CASE WaitDeadline(r) \/ WaitUnread(r)
  <2> DEFINE y == [m EXCEPT !.pc = "conclude", !.err = TRUE]
  <2>1. Fits(y) /\ y.pc = "conclude" /\ y.err BY <1>1 DEF Memory
  <2>2. Becomes(r, y) BY <1>6 DEF WaitDeadline, WaitUnread
  <2> HIDE DEF Fits, y
  <2>3. Clear(y, Heard) BY <2>1 DEF Clear
  <2> QED BY <1>2, <2>1, <2>2, <2>3
<1>7. CASE Conclude(r)
  <2>1. ASSUME NEW e \in BOOLEAN
        PROVE  LET y == Concludes(r, e) IN
               Fits(y) /\ y.pc = "save" /\ y.op = m.op /\ (y.status \in Complete => ~e)
    <3> DEFINE v == Verdict(r, e)
    <3>1. v # "dormant-ready" /\ (v \in Complete => ~e)
      BY <1>1 DEF Verdict, Memory, Modes, Complete
    <3> HIDE DEF v
    <3> DEFINE y == [m EXCEPT !.err = e, !.status = v, !.pc = "save", !.cont = "done"]
    <3>2. Fits(y) /\ y.pc = "save" /\ y.op = m.op /\ y.status = v
      BY <1>1, <3>1 DEF Memory
    <3> QED BY <3>1, <3>2 DEF Concludes, v
  <2>2. m.err \in BOOLEAN /\ m.pc = "conclude" BY <1>1, <1>7 DEF Memory, Conclude
  <2>3. PICK e \in BOOLEAN : (e = m.err \/ e = TRUE) /\ Becomes(r, Concludes(r, e))
    BY <1>7, <2>2 DEF Conclude
  <2> DEFINE y == Concludes(r, e)
  <2>4. /\ Fits(y) /\ y.pc = "save" /\ y.op = m.op /\ (y.status \in Complete => ~e)
        /\ Becomes(r, y)
    BY <2>1, <2>3
  <2> HIDE DEF Fits, y
  <2>5. Clear(m, Heard) => Clear(y, Heard) BY <2>2, <2>3, <2>4 DEF Clear
  <2> QED BY <1>2, <2>4, <2>5
<1> QED BY <1>4, <1>5, <1>6, <1>7

LEMMA ScanVerdict ==
  ASSUME VerdictInv, Sure, NEW r \in Runs,
         Scan(r) \/ ScanUnread(r) \/ ScanTeardown(r)
  PROVE  VerdictInv'
<1> DEFINE m == run[r]
           c == receipt[r]
<1>1. /\ m \in Memory /\ m.pc \in {"scan", "tscan"}
      /\ UNCHANGED <<live, rev, receipt, net, foreign>>
  BY VerdictFacts DEF Scan, ScanUnread, ScanTeardown
<1> DEFINE Fits(y) ==
             /\ \/ y.pc = m.pc \/ y.pc = "rollback"
                \/ y.pc = "save" /\ (y.cont = "rollback" \/ (y.cont = "conclude" /\ y.err))
             /\ y.status = m.status /\ y.mode = m.mode /\ y.op = m.op /\ y.guarded = m.guarded
<1>2. ASSUME NEW y, Becomes(r, y), Fits(y) PROVE VerdictInv'
  <2>1. Goes(m, c, y, c, live) BY <1>1, <1>2, SearchGoes
  <2> QED BY <1>1, <1>2, <2>1, QuietVerdict
<1>3. ASSUME NEW own, NEW err PROVE Fits(Scanned(m, own, err))
  <2> DEFINE u == [m EXCEPT !.own = own, !.err = err, !.at = m.at + 1]
             v == [m EXCEPT !.own = own, !.err = err, !.pc = "rollback",
                            !.todo = {n \in Objs : own[n] # None}]
  <2>1. Fits(u) /\ Fits(v) BY <1>1 DEF Memory
  <2> QED BY <2>1 DEF Scanned
<1>4. ASSUME NEW err \in BOOLEAN PROVE Fits(TornScan(m, err))
  <2> DEFINE u == [m EXCEPT !.err = err, !.at = m.at + 1]
             k == IF err THEN "conclude" ELSE "rollback"
             v == [m EXCEPT !.err = err, !.pc = "save", !.cont = k,
                            !.todo = {n \in Objs : m.own[n] # None}]
  <2>1. Fits(u) BY <1>1 DEF Memory
  <2>2. k = "rollback" \/ (k = "conclude" /\ err) OBVIOUS
  <2> HIDE DEF k
  <2>3. Fits(v) BY <1>1, <2>2 DEF Memory
  <2> QED BY <2>1, <2>3 DEF TornScan, k
<1> HIDE DEF Fits
<1>5. CASE Scan(r)
  <2>1. PICK own, err : Becomes(r, Scanned(m, own, err)) BY <1>5 DEF Scan
  <2> QED BY <1>2, <1>3, <2>1
<1>6. CASE ScanUnread(r) BY <1>2, <1>3, <1>6 DEF ScanUnread
<1>7. CASE ScanTeardown(r)
  <2>1. PICK e \in BOOLEAN : Becomes(r, TornScan(m, e))
    <3> DEFINE o == live[m.at]
               f == m.err \/ ~(o = None \/ (StillMine(o, m.own[m.at]) /\ o.tag = None))
    <3>1. Becomes(r, TornScan(m, f)) \/ Becomes(r, TornScan(m, TRUE))
      BY <1>7 DEF ScanTeardown
    <3>2. f \in BOOLEAN OBVIOUS
    <3> HIDE DEF f
    <3> QED BY <3>1, <3>2
  <2> QED BY <1>2, <1>4, <2>1
<1> QED BY <1>5, <1>6, <1>7

\* A recovery or teardown is of a live run that sends no POST any more.
LEMMA ResumePast ==
  ASSUME VerdictInv, NEW r \in Runs, NEW p \in Runs,
         StartRecover(r, p) \/ StartTeardown(r, p)
  PROVE  Past(run[p]) /\ (StartRecover(r, p) => Over(run[p]) /\ ~Succeeded(run[p]))
<1> DEFINE m == run[p]
           k == receipt[p]
<1>1. Mem(m, k) /\ Phase(m, k) /\ Own(m, p, k) /\ m \in Memory BY VerdictFacts
<1>2. k # None /\ k.mode = "live" BY DEF StartRecover, StartTeardown, Binds
<1>3. m.mode = "live" /\ m.pc # "idle" BY <1>1, <1>2 DEF Mem
<1>4. CASE StartRecover(r, p)
  <2>1. Over(m) /\ ~Succeeded(m) BY <1>1, <1>4 DEF StartRecover, Ended, Over, Phase
  <2>2. ~Posting(m) BY <2>1 DEF Over, Posting, Creating
  <2> QED BY <1>3, <2>1, <2>2 DEF Past
<1>5. CASE StartTeardown(r, p)
  <2>1. \A n \in Objs : k.recs[n] # None BY <1>5 DEF StartTeardown, Binds
  <2>2. ~Over(m) => \A n \in Objs : m.book[n] # None
    BY <1>1, <1>2, <2>1 DEF Mem, Grown
  <2>3. m.at \in Objs /\ m.at <= m.at BY <1>1 DEF Memory, Objs
  <2>4. Posting(m) => ~Over(m) /\ m.book[m.at] = None
    BY <1>1, <2>3 DEF Posting, Creating, Over, Mem, Unsent
  <2>5. ~StartRecover(r, p)
    <3>1. k.status = "dormant-ready" BY <1>5 DEF StartTeardown, Binds
    <3> QED BY <3>1 DEF StartRecover
  <2> QED BY <1>3, <2>2, <2>3, <2>4, <2>5 DEF Past
<1> QED BY <1>4, <1>5

LEMMA ResumeVerdict ==
  ASSUME VerdictInv, Sure, NEW r \in Runs, NEW p \in Runs,
         StartRecover(r, p) \/ StartTeardown(r, p)
  PROVE  VerdictInv'
<1> DEFINE m == run[r]
           c == receipt[r]
           k == receipt[p]
           x == [m EXCEPT !.mode = "recover", !.op = p, !.book = k.recs,
                          !.intents = k.intents, !.status = "recovering",
                          !.pc = "save", !.cont = "scan"]
           z == [m EXCEPT !.mode = "teardown", !.op = p, !.book = k.recs,
                          !.own = k.recs, !.status = "tearing-down", !.pc = "tscan"]
<1>1. /\ m \in Memory /\ m.pc = "idle" /\ m = Unstarted(r) /\ run \in [Runs -> Memory]
      /\ UNCHANGED <<live, rev, receipt, net, foreign>>
  <2>1. m \in Memory /\ m.pc = "idle" /\ UNCHANGED <<live, rev, receipt, net, foreign>>
    BY VerdictFacts DEF StartRecover, StartTeardown, MayStart
  <2> QED BY <2>1, VerdictFacts DEF Own
<1>2. m.mode = "live" /\ m.guarded = FALSE BY <1>1 DEF Unstarted
<1>3. /\ Past(run[p]) /\ p # r
      /\ StartRecover(r, p) => Over(run[p]) /\ ~Succeeded(run[p])
  BY <1>1, ResumePast DEF Past
<1>4. PICK y : /\ Becomes(r, y) /\ y.op = p /\ ~y.guarded
               /\ \/ StartRecover(r, p) /\ y.mode = "recover"
                  \/ y.mode = "teardown"
               /\ y.status \in {"recovering", "tearing-down"}
               /\ y.pc = "tscan" \/ (y.pc = "save" /\ y.cont = "scan")
  <2> HIDE DEF m, k
  <2>1. CASE StartRecover(r, p)
    <3>1. Becomes(r, x) BY <2>1 DEF StartRecover, m, k
    <3>2. /\ x.mode = "recover" /\ x.op = p /\ ~x.guarded /\ x.status = "recovering"
          /\ x.pc = "save" /\ x.cont = "scan"
      BY <1>1, <1>2 DEF Memory
    <3> HIDE DEF x
    <3> QED BY <2>1, <3>1, <3>2
  <2>2. CASE StartTeardown(r, p)
    <3>1. Becomes(r, z) BY <2>2 DEF StartTeardown, m, k
    <3>2. /\ z.mode = "teardown" /\ z.op = p /\ ~z.guarded /\ z.status = "tearing-down"
          /\ z.pc = "tscan"
      BY <1>1, <1>2 DEF Memory
    <3> HIDE DEF z
    <3> QED BY <3>1, <3>2
  <2> QED BY <2>1, <2>2
<1> HIDE DEF m, c, k, x, z
<1>5. \A s \in Runs : run'[s] = IF s = r THEN y ELSE run[s]
  BY <1>1, <1>4 DEF Becomes
<1>6. /\ ~Trying(y) /\ ~Ending(y) /\ ~Over(y) /\ ~Ready(y) /\ ~Succeeded(y)
      /\ y.mode # "live" /\ y.status \notin Complete /\ y.pc # "final"
      /\ y.pc # "wait" /\ y.pc # "conclude"
  BY <1>4 DEF Trying, Stripping, Checking, Ready, Ending, Over, Succeeded, Complete
<1>7. Phase(y, c) /\ Stand(y, c, live) /\ Clear(y, Heard)
  BY <1>4, <1>6 DEF Phase, Stand, Clear
<1>8. \A s \in Runs : Past(run[s]) => s # r /\ Past(run'[s])
  BY <1>1, <1>5 DEF Past, m
<1>9. \A q : \A s \in Runs : Undoing(run[s], q) => Undoing(run'[s], q)
  <2> SUFFICES ASSUME NEW s \in Runs, NEW q, Undoing(run[s], q) PROVE Undoing(run'[s], q)
    OBVIOUS
  <2>1. s # r BY <1>1 DEF Undoing, m
  <2> QED BY <1>5, <2>1
<1>10. \A s \in Runs : Phase(run'[s], receipt'[s])
  BY <1>1, <1>5, <1>7 DEF VerdictInv, c
<1>11. ASSUME NEW s \in Runs
       PROVE  /\ run'[s].mode = "recover" =>
                   Over(run'[run'[s].op]) /\ ~Succeeded(run'[run'[s].op])
              /\ run'[s].mode # "live" => Past(run'[run'[s].op])
  <2>1. CASE s = r BY <1>3, <1>4, <1>5, <2>1
  <2>2. CASE s # r /\ run[s].mode # "live"
    <3>1. run[s].op \in Runs /\ Past(run[run[s].op])
      BY <2>2, VerdictFacts DEF VerdictInv
    <3>2. run[s].op # r BY <1>8, <3>1
    <3> QED BY <1>5, <2>2, <3>1, <3>2 DEF VerdictInv
  <2>3. CASE s # r /\ run[s].mode = "live" BY <1>5, <2>3
  <2> QED BY <2>1, <2>2, <2>3
<1>12. \A n \in Objs : live'[n] # None /\ live'[n].going =>
         \E s \in Runs : Undoing(run'[s], live'[n].uid.by)
  BY <1>1, <1>9 DEF VerdictInv
<1>13. \A q \in net' : q.kind = "delete" => Undoing(run'[q.run], q.op)
  <2>1. \A q \in net : q.run \in Runs
    BY DEF VerdictInv, ReceiptInv, OwnInv, TypeInv, TypeOK, Requests
  <2> QED BY <1>1, <1>9, <2>1 DEF VerdictInv
<1>14. ASSUME NEW s \in Runs, Still(s)' PROVE Stand(run'[s], receipt'[s], live')
  <2>1. Still(s)
    <3>1. \A t \in Runs : run[t].mode = "teardown" =>
            run'[t].mode = "teardown" /\ run'[t].op = run[t].op
      BY <1>2, <1>5 DEF m
    <3> QED BY <1>1, <1>14, <3>1 DEF Still
  <2> QED BY <1>1, <1>5, <1>7, <2>1 DEF VerdictInv, c
<1>15. ASSUME ~Linger, NEW q \in net' PROVE Awaited(q, run'[q.run])
  <2>1. Awaited(q, run[q.run]) /\ q.run \in Runs
    BY <1>1, <1>15 DEF VerdictInv, ReceiptInv, OwnInv, TypeInv, TypeOK, Requests
  <2>2. q.kind = "create" => q.run # r BY <1>1, <2>1 DEF Awaited, m
  <2> QED BY <1>5, <2>1, <2>2 DEF Awaited
<1>16. (foreign = 0 => \A n \in Objs : live[n] # None => live[n].exact)'
  BY <1>1 DEF VerdictInv
<1>17. Inherits BY <1>1 DEF Inherits
<1>18. ASSUME NEW s \in Runs PROVE Clear(run'[s], Heard')
  <2>1. CASE s = r BY <1>5, <1>6, <2>1 DEF Clear
  <2>2. CASE s # r
    <3>1. Clear(run[s], Heard) /\ run[s].op \in Runs /\ (Closing(run[s]) => Past(run[run[s].op]))
      BY ClearPast, VerdictFacts DEF VerdictInv, Closing
    <3> QED BY <1>5, <1>17, <2>2, <3>1, ClearStays
  <2> QED BY <2>1, <2>2
<1>19. ASSUME NEW s \in Runs PROVE Filed(receipt'[s], run', Heard')
  <2>1. Filed(receipt[s], run, Heard) /\ (receipt[s] # None => receipt[s].op \in Runs)
    BY VerdictFacts DEF VerdictInv, Receipts
  <2> QED BY <1>1, <1>8, <1>17, <2>1, FiledStays
<1> QED BY <1>10, <1>11, <1>12, <1>13, <1>14, <1>15, <1>16, <1>18, <1>19 DEF VerdictInv, Sure

\* Part 13.  The verdicts: the API server and the others.

\* A run whose success rests on the objects it made.
Standing(m) == m.mode = "live" /\ (m.pc = "final" \/ Ready(m) \/ Succeeded(m))

Stays(o, x) == ~o.going => x # None /\ x.uid = o.uid /\ ~x.going

\* The object x that replaces o under the name n is no news of a run that sends
\* no POST, or it was lost.
Descends(o, x, n) ==
  \/ o # None /\ x.uid.by = o.uid.by
  \/ x.uid.by = Foreign \/ ~Past(run[x.uid.by]) \/ Lost(x.uid.by, n)

LEMMA SamePhase ==
  ASSUME NEW m, NEW y, Same(m, y)
  PROVE  /\ Past(m) <=> Past(y)
         /\ Over(m) <=> Over(y)
         /\ Succeeded(m) <=> Succeeded(y)
         /\ Ready(m) <=> Ready(y)
         /\ \A c : Phase(m, c) => Phase(y, c)
         /\ \A p : Undoing(m, p) => Undoing(y, p)
<1>1. /\ Past(m) <=> Past(y)
      /\ Over(m) <=> Over(y)
      /\ Succeeded(m) <=> Succeeded(y)
      /\ Ready(m) <=> Ready(y)
  BY DEF Same, Past, Posting, Creating, Over, Succeeded, Ready
<1>2. (Trying(m) <=> Trying(y)) /\ (Ending(m) <=> Ending(y))
  BY <1>1 DEF Same, Trying, Stripping, Checking, Ending
<1>3. \A c : Phase(m, c) => Phase(y, c) BY <1>1, <1>2 DEF Same, Phase
<1>4. \A p : Undoing(m, p) => Undoing(y, p) BY DEF Same, Undoing, Undone
<1> QED BY <1>1, <1>3, <1>4

\* What a successful run looks at is its own.
LEMMA StandOwn ==
  ASSUME VerdictInv, NEW p \in Runs, NEW n \in Objs, live[n] # None, ~live[n].going,
         \/ run[p].pc = "final" /\ live[n].uid = run[p].book[n].uid
         \/ Ready(run[p]) /\ live[n].uid = run[p].book[n].uid
         \/ Succeeded(run[p]) /\ live[n].uid = receipt[p].recs[n].uid
  PROVE  Standing(run[p]) /\ live[n].uid.by = p
<1> DEFINE m == run[p]
           c == receipt[p]
<1>1. Mem(m, c) /\ Own(m, p, c) /\ Phase(m, c) /\ Progress(m) /\ m \in Memory
  BY VerdictFacts
<1>2. CASE m.pc = "final" /\ live[n].uid = m.book[n].uid
  <2>1. m.mode = "live" /\ m.book[n] # None
    BY <1>1, <1>2 DEF Mem, Checking, Progress
  <2> QED BY <1>1, <1>2, <2>1 DEF Own, Owned, Standing
<1>3. CASE Ready(m) /\ live[n].uid = m.book[n].uid
  <2>1. m.mode = "live" /\ m.book[n] # None BY <1>1, <1>3 DEF Mem, Ready, Over
  <2> QED BY <1>1, <1>3, <2>1 DEF Own, Owned, Standing
<1>4. CASE Succeeded(m) /\ live[n].uid = c.recs[n].uid
  <2>1. c # None /\ c.status = "dormant-ready" /\ c.mode = "live"
    BY <1>1, <1>4 DEF Phase, Mem, Succeeded
  <2>2. c.recs[n] # None BY <1>1, <2>1 DEF Mem, Binds
  <2>3. c.op = p /\ Owned(c.recs, c.op) BY <2>1 DEF VerdictInv, ReceiptInv, OwnInv
  <2> QED BY <1>4, <2>2, <2>3 DEF Owned, Standing, Succeeded
<1> QED BY <1>2, <1>3, <1>4

\* A step of the world: requests are served, objects come and go.
LEMMA WorldVerdict ==
  ASSUME VerdictInv, Sure, receipt' = receipt, net' \subseteq net,
         \A s \in Runs : Same(run[s], run'[s]),
         foreign' = 0 => foreign = 0 /\ \A n \in Objs : live'[n] # None => live'[n].exact,
         \A n \in Objs : live'[n] # None /\ live'[n].going =>
           \E s \in Runs : Undoing(run[s], live'[n].uid.by),
         \A p \in Runs, n \in Objs :
           /\ foreign' = 0 /\ Still(p) /\ Standing(run[p])
           /\ live[n] # None /\ live[n].uid.by = p
           => Stays(live[n], live'[n]),
         ~Linger => \A q \in net' : Awaited(q, run[q.run]) => Awaited(q, run'[q.run]),
         \A n \in Objs : live'[n] # None => Descends(live[n], live'[n], n)
  PROVE  VerdictInv'
<1>1. ASSUME NEW s \in Runs
      PROVE  /\ run'[s].op = run[s].op /\ run'[s].mode = run[s].mode
             /\ Past(run[s]) <=> Past(run'[s])
             /\ Over(run[s]) <=> Over(run'[s])
             /\ Succeeded(run[s]) <=> Succeeded(run'[s])
             /\ Ready(run[s]) <=> Ready(run'[s])
             /\ Phase(run'[s], receipt'[s])
             /\ \A p : Undoing(run[s], p) => Undoing(run'[s], p)
  <2>1. Same(run[s], run'[s]) OBVIOUS
  <2>2. run'[s].op = run[s].op /\ run'[s].mode = run[s].mode BY <2>1 DEF Same
  <2>3. Phase(run[s], receipt[s]) BY DEF VerdictInv
  <2> QED BY <2>1, <2>2, <2>3, SamePhase
<1>2. ASSUME NEW s \in Runs
      PROVE  /\ run'[s].mode = "recover" =>
                  Over(run'[run'[s].op]) /\ ~Succeeded(run'[run'[s].op])
             /\ run'[s].mode # "live" => Past(run'[run'[s].op])
  <2>1. run[s].op \in Runs BY VerdictFacts
  <2> QED BY <1>1, <2>1 DEF VerdictInv
<1>3. \A q \in net' : q.kind = "delete" => Undoing(run'[q.run], q.op)
  <2>1. \A q \in net' : q.run \in Runs
    BY DEF Sure, ReceiptInv, OwnInv, TypeInv, TypeOK, Requests
  <2> QED BY <1>1, <2>1 DEF VerdictInv
<1>4. \A n \in Objs : live'[n] # None /\ live'[n].going =>
        \E s \in Runs : Undoing(run'[s], live'[n].uid.by)
  BY <1>1
<1>5. ASSUME NEW p \in Runs, Still(p)' PROVE Stand(run'[p], receipt'[p], live')
  <2>1. Still(p) /\ foreign' = 0 BY <1>1, <1>5 DEF Still
  <2>2. Stand(run[p], receipt[p], live) BY <2>1 DEF VerdictInv
  <2>3. ASSUME NEW n \in Objs, NEW rec, Kept(rec, live[n]),
               \/ run[p].pc = "final" /\ rec = run[p].book[n]
               \/ Ready(run[p]) /\ rec = run[p].book[n]
               \/ Succeeded(run[p]) /\ rec = receipt[p].recs[n]
        PROVE  Kept(rec, live'[n])
    <3>1. live[n] # None /\ ~live[n].going /\ live[n].uid = rec.uid BY <2>3 DEF Kept
    <3>2. Standing(run[p]) /\ live[n].uid.by = p BY <2>3, <3>1, StandOwn
    <3>3. Stays(live[n], live'[n]) BY <2>1, <3>1, <3>2
    <3> QED BY <3>1, <3>3 DEF Stays, Kept
  <2>4. run'[p].pc = run[p].pc /\ run'[p].at = run[p].at /\ run'[p].book = run[p].book
    BY DEF Same
  <2> QED BY <1>1, <2>2, <2>3, <2>4 DEF Stand
<1>6. ~Linger => \A q \in net' : Awaited(q, run'[q.run]) BY DEF VerdictInv
<1>7. Inherits BY ConstantsOK DEF Inherits, Descends
<1>8. ASSUME NEW s \in Runs PROVE Clear(run'[s], Heard')
  <2> DEFINE m == run[s]
             y == run'[s]
  <2>1. Clear(m, Heard) /\ m.op \in Runs /\ (Closing(m) => Past(run[m.op]))
    BY ClearPast, VerdictFacts DEF VerdictInv, Closing
  <2>2. /\ y.pc = m.pc /\ y.at = m.at /\ y.op = m.op /\ y.err = m.err
        /\ y.status = m.status
    BY DEF Same
  <2> HIDE DEF m, y
  <2>3. Clear(y, Heard) /\ (Closing(y) <=> Closing(m))
    BY <2>1, <2>2 DEF Clear, Closing
  <2> QED BY <1>7, <2>1, <2>2, <2>3, ClearStays DEF y
<1>9. ASSUME NEW s \in Runs PROVE Filed(receipt'[s], run', Heard')
  <2>1. Filed(receipt[s], run, Heard) /\ (receipt[s] # None => receipt[s].op \in Runs)
    BY VerdictFacts DEF VerdictInv, Receipts
  <2> QED BY <1>1, <1>7, <2>1, FiledStays
<1> QED BY <1>1, <1>2, <1>3, <1>4, <1>5, <1>6, <1>8, <1>9 DEF VerdictInv, Sure

\* A step of the world under one name.
LEMMA OneVerdict ==
  ASSUME VerdictInv, Sure, receipt' = receipt, net' \subseteq net,
         \A s \in Runs : Same(run[s], run'[s]),
         ~Linger => \A q \in net' : Awaited(q, run[q.run]) => Awaited(q, run'[q.run]),
         NEW n \in Objs, NEW x, live' = [live EXCEPT ![n] = x],
         foreign' = 0 => foreign = 0 /\ (x # None => x.exact),
         x # None /\ x.going => \E s \in Runs : Undoing(run[s], x.uid.by),
         \A p \in Runs :
           foreign' = 0 /\ Still(p) /\ Standing(run[p]) /\ live[n] # None /\ live[n].uid.by = p
             => Stays(live[n], x),
         x # None => Descends(live[n], x, n)
  PROVE  VerdictInv'
<1>1. \A k \in Objs : live'[k] = IF k = n THEN x ELSE live[k]
  BY DEF VerdictInv, ReceiptInv, OwnInv, TypeInv, TypeOK
<1>2. foreign' = 0 => foreign = 0 /\ \A k \in Objs : live'[k] # None => live'[k].exact
  BY <1>1 DEF VerdictInv
<1>3. \A k \in Objs : live'[k] # None /\ live'[k].going =>
        \E s \in Runs : Undoing(run[s], live'[k].uid.by)
  BY <1>1 DEF VerdictInv
<1>4. ASSUME NEW p \in Runs, NEW k \in Objs, foreign' = 0, Still(p), Standing(run[p]),
             live[k] # None, live[k].uid.by = p
      PROVE  Stays(live[k], live'[k])
  <2>1. k # n => Stays(live[k], live'[k]) BY <1>1, <1>4 DEF Stays
  <2>2. k = n => Stays(live[n], x) BY <1>4
  <2> QED BY <1>1, <2>1, <2>2
<1>5. ASSUME NEW k \in Objs, live'[k] # None PROVE Descends(live[k], live'[k], k)
  <2>1. k # n => Descends(live[k], live'[k], k) BY <1>1, <1>5 DEF Descends
  <2>2. k = n => Descends(live[n], x, n) BY <1>1, <1>5
  <2> QED BY <1>1, <2>1, <2>2
<1> QED BY <1>2, <1>3, <1>4, <1>5, WorldVerdict

\* An answer goes to the request it is for, and only to that.
LEMMA ReplyAwaited ==
  ASSUME VerdictInv, NEW q \in net, NEW code, NEW o, Reply(q, code, o), net' = net \ {q}
  PROVE  \A k \in net' : Awaited(k, run[k.run]) => Awaited(k, run'[k.run])
<1> SUFFICES ASSUME NEW k \in net', Awaited(k, run[k.run]), k.kind = "create"
             PROVE  Awaited(k, run'[k.run])
  BY DEF Awaited
<1>1. k.run \in Runs /\ k # q
  BY DEF VerdictInv, ReceiptInv, OwnInv, TypeInv, TypeOK, Requests
<1>2. /\ Same(run[k.run], run'[k.run])
      /\ run'[k.run].answer = run[k.run].answer \/ run[k.run].asked = q
  BY <1>1, ReplySame DEF VerdictInv
<1> QED BY <1>1, <1>2 DEF Same, Awaited

\* A request that is served, whatever becomes of the object of its name.
LEMMA ServedVerdict ==
  ASSUME VerdictInv, Sure, NEW q \in net, NEW code, NEW o, Reply(q, code, o),
         net' = net \ {q}, receipt' = receipt, foreign' = foreign,
         NEW x, live' = [live EXCEPT ![q.obj] = x],
         foreign = 0 /\ x # None => x.exact,
         x # None /\ x.going => \E s \in Runs : Undoing(run[s], x.uid.by),
         \A p \in Runs :
           /\ foreign' = 0 /\ Still(p) /\ Standing(run[p])
           /\ live[q.obj] # None /\ live[q.obj].uid.by = p
           => Stays(live[q.obj], x),
         x # None => Descends(live[q.obj], x, q.obj)
  PROVE  VerdictInv'
<1>1. q.obj \in Objs
  BY DEF VerdictInv, ReceiptInv, OwnInv, TypeInv, TypeOK, Requests
<1>2. \A s \in Runs : Same(run[s], run'[s]) BY ReplySame DEF VerdictInv
<1>3. \A k \in net' : Awaited(k, run[k.run]) => Awaited(k, run'[k.run])
  BY ReplyAwaited
<1> QED BY <1>1, <1>2, <1>3, OneVerdict

\* A request that is refused changes no object.
LEMMA RefusedVerdict ==
  ASSUME VerdictInv, Sure, NEW q \in net, NEW code, NEW o, Reply(q, code, o),
         net' = net \ {q}, receipt' = receipt, foreign' = foreign, live' = live
  PROVE  VerdictInv'
<1> DEFINE x == live[q.obj]
<1>1. q.obj \in Objs /\ live' = [live EXCEPT ![q.obj] = x]
  BY DEF VerdictInv, ReceiptInv, OwnInv, TypeInv, TypeOK, Requests
<1>2. /\ foreign = 0 /\ x # None => x.exact
      /\ x # None /\ x.going => \E s \in Runs : Undoing(run[s], x.uid.by)
  BY <1>1 DEF VerdictInv
<1>3. (x # None => Stays(x, x)) /\ (x # None => Descends(x, x, q.obj))
  BY DEF Stays, Descends
<1> QED BY <1>1, <1>2, <1>3, ServedVerdict

LEMMA ServeCreateVerdict ==
  ASSUME VerdictInv, Sure, NEW q \in net, ServeCreate(q)
  PROVE  VerdictInv'
<1>1. q.kind = "create" /\ net' = net \ {q} /\ receipt' = receipt /\ foreign' = foreign
  BY DEF ServeCreate
<1>2. CASE live[q.obj] = None
  <2> DEFINE x == [uid |-> [by |-> q.run, rev |-> rev], tag |-> q.op, exact |-> TRUE,
                   rv |-> rev, going |-> FALSE, touched |-> FALSE]
  <2>1. live' = [live EXCEPT ![q.obj] = x] /\ Reply(q, "ok", x)
    BY <1>2 DEF ServeCreate
  <2>2. x.exact /\ ~x.going /\ x.uid.by = q.run OBVIOUS
  <2> HIDE DEF x
  <2>3. Descends(live[q.obj], x, q.obj)
    <3>1. ~Linger => Awaited(q, run[q.run]) BY DEF VerdictInv
    <3>2. Awaited(q, run[q.run]) => ~Past(run[q.run])
      BY <1>1 DEF Awaited, Past, Posting, Creating
    <3>3. Unheard(run[q.run], receipt[q.run], q.obj)
      BY <1>1 DEF VerdictInv, ReceiptInv, Backed
    <3> QED BY <2>2, <3>1, <3>2, <3>3 DEF Descends, Lost
  <2> QED BY <1>1, <1>2, <2>1, <2>2, <2>3, ServedVerdict
<1>3. CASE live[q.obj] # None BY <1>1, <1>3, RefusedVerdict DEF ServeCreate
<1> QED BY <1>2, <1>3

LEMMA ServePatchVerdict ==
  ASSUME VerdictInv, Sure, NEW q \in net, ServePatch(q)
  PROVE  VerdictInv'
<1> DEFINE l == live[q.obj]
<1>1. /\ net' = net \ {q} /\ receipt' = receipt /\ foreign' = foreign
      /\ q.obj \in Objs /\ q.run \in Runs
  BY DEF ServePatch, VerdictInv, ReceiptInv, OwnInv, TypeInv, TypeOK, Requests
<1>2. CASE Matches(q, l) /\ l.tag = q.op
  <2> DEFINE x == [l EXCEPT !.tag = None, !.rv = rev]
  <2>1. live' = [live EXCEPT ![q.obj] = x] /\ Reply(q, "ok", x) /\ l # None
    BY <1>2 DEF ServePatch, Matches
  <2>2. l \in Objects /\ rev \in Nat BY <1>1, <2>1, Facts DEF VerdictInv
  <2>3. x.uid = l.uid /\ x.exact = l.exact /\ x.going = l.going /\ x # None
    <3>1. x \in Objects BY <2>2 DEF Objects
    <3> QED BY <2>2, <3>1, NoneIsApart DEF Objects
  <2> HIDE DEF x, l
  <2>4. foreign = 0 => x.exact BY <1>1, <2>1, <2>3 DEF VerdictInv, l
  <2>5. x.going => \E s \in Runs : Undoing(run[s], x.uid.by)
    <3> SUFFICES ASSUME x.going PROVE \E s \in Runs : Undoing(run[s], x.uid.by)
      OBVIOUS
    <3>1. l.going /\ x.uid.by = l.uid.by BY <2>3
    <3>2. PICK s \in Runs : Undoing(run[s], l.uid.by)
      BY <1>1, <2>1, <3>1 DEF VerdictInv, l
    <3> QED BY <3>1, <3>2
  <2>6. Stays(l, x) /\ Descends(l, x, q.obj) BY <2>1, <2>3 DEF Stays, Descends
  <2> QED BY <1>1, <2>1, <2>4, <2>5, <2>6, ServedVerdict DEF l
<1>3. CASE ~(Matches(q, l) /\ l.tag = q.op)
  BY <1>1, <1>3, RefusedVerdict DEF ServePatch
<1> QED BY <1>2, <1>3

\* Whoever deletes rolls the object's maker back, which so is no success.
LEMMA ServeDeleteVerdict ==
  ASSUME VerdictInv, Sure, NEW q \in net, ServeDelete(q)
  PROVE  VerdictInv'
<1> DEFINE l == live[q.obj]
           g == [l EXCEPT !.going = TRUE, !.rv = rev]
<1>1. /\ net' = net \ {q} /\ receipt' = receipt /\ foreign' = foreign
      /\ q.obj \in Objs /\ q.run \in Runs /\ q.kind = "delete"
  BY DEF ServeDelete, VerdictInv, ReceiptInv, OwnInv, TypeInv, TypeOK, Requests
<1>2. Undoing(run[q.run], q.op) /\ q.uid.by = q.op
  BY <1>1 DEF VerdictInv, ReceiptInv, OwnInv, Rightful
<1>3. \/ \E code : Reply(q, code, None) /\ live' = live
      \/ Matches(q, l) /\ Reply(q, "ok", None) /\ live' = [live EXCEPT ![q.obj] = None]
      \/ Matches(q, l) /\ Reply(q, "ok", None) /\ live' = [live EXCEPT ![q.obj] = g]
  <2>1. \/ UNCHANGED live /\ Reply(q, "ok", None)
        \/ UNCHANGED live /\ Reply(q, "conflict", None)
        \/ Matches(q, l) /\ Reply(q, "ok", None) /\ live' = [live EXCEPT ![q.obj] = None]
        \/ Matches(q, l) /\ Reply(q, "ok", None) /\ live' = [live EXCEPT ![q.obj] = g]
    <3>1. live' = [live EXCEPT ![q.obj].going = TRUE, ![q.obj].rv = rev] =>
            live' = [live EXCEPT ![q.obj] = g]
      BY <1>1 DEF VerdictInv, ReceiptInv, OwnInv, TypeInv, TypeOK
    <3> QED BY <3>1 DEF ServeDelete
  <2> QED BY <2>1
<1>4. Matches(q, l) => l # None /\ l \in Objects /\ l.uid.by = q.op
  BY <1>1, <1>2, Facts DEF Matches, VerdictInv
<1>5. ASSUME Matches(q, l), NEW p \in Runs, Still(p), Standing(run[p]), l.uid.by = p
      PROVE  FALSE
  BY <1>1, <1>2, <1>4, <1>5, Unthreatened DEF Standing
<1>6. CASE \E code : Reply(q, code, None) /\ live' = live
  BY <1>1, <1>6, RefusedVerdict
<1>7. CASE Matches(q, l) /\ Reply(q, "ok", None) /\ live' = [live EXCEPT ![q.obj] = None]
  BY <1>1, <1>5, <1>7, ServedVerdict
<1>8. CASE Matches(q, l) /\ Reply(q, "ok", None) /\ live' = [live EXCEPT ![q.obj] = g]
  <2>1. g.uid = l.uid /\ g.exact = l.exact BY <1>4, <1>8 DEF Objects
  <2>2. live' = [live EXCEPT ![q.obj] = g] BY <1>8
  <2> HIDE DEF g, l
  <2>3. foreign = 0 => g.exact BY <1>1, <1>4, <1>8, <2>1 DEF VerdictInv, l
  <2>4. \E s \in Runs : Undoing(run[s], g.uid.by) BY <1>1, <1>2, <1>4, <1>8, <2>1
  <2>5. Descends(l, g, q.obj) BY <1>4, <1>8, <2>1 DEF Descends
  <2> QED BY <1>1, <1>5, <1>8, <2>2, <2>3, <2>4, <2>5, ServedVerdict DEF l
<1> QED BY <1>3, <1>6, <1>7, <1>8

\* An object terminates, or somebody else writes.
LEMMA OthersVerdict ==
  ASSUME VerdictInv, Sure, NEW n \in Objs, FinishDelete(n) \/ Others(n)
  PROVE  VerdictInv'
<1> DEFINE o == live[n]
<1>1. /\ UNCHANGED <<net, receipt, run>> /\ foreign \in Nat /\ (o # None => o \in Objects)
      /\ live \in [Objs -> Objects \cup {None}]
  <2>1. foreign \in Nat /\ live \in [Objs -> Objects \cup {None}]
    BY DEF VerdictInv, ReceiptInv, OwnInv, TypeInv, TypeOK
  <2> QED BY <2>1 DEF FinishDelete, Others, ForeignCreate, ForeignDelete, ControllerTouch,
       ForeignStrip, ForeignEdit, WriteByOthers
<1>2. \A s \in Runs : Same(run[s], run'[s]) BY <1>1 DEF Same
<1>3. CASE FinishDelete(n) BY <1>1, <1>2, <1>3, OneVerdict DEF FinishDelete, Stays
<1>4. ASSUME NEW x, WriteByOthers(n, x),
             \/ x = None
             \/ x.uid.by = Foreign /\ ~x.going
             \/ o # None /\ x.uid = o.uid /\ x.going = o.going
      PROVE  VerdictInv'
  <2>1. live' = [live EXCEPT ![n] = x] /\ foreign' # 0
    BY <1>1, <1>4 DEF WriteByOthers
  <2>2. x # None => Descends(o, x, n) BY <1>4 DEF Descends
  <2>3. x # None /\ x.going => \E s \in Runs : Undoing(run[s], x.uid.by)
    BY <1>4 DEF VerdictInv
  <2> QED BY <1>1, <1>2, <2>1, <2>2, <2>3, OneVerdict
<1>5. CASE ForeignCreate(n) BY <1>4, <1>5 DEF ForeignCreate
<1>6. CASE ForeignDelete(n) BY <1>4, <1>6 DEF ForeignDelete
<1>7. CASE ControllerTouch(n) \/ ForeignStrip(n) \/ ForeignEdit(n)
  <2> DEFINE a == [o EXCEPT !.rv = rev]
             b == [o EXCEPT !.tag = None, !.rv = rev, !.touched = TRUE]
             e == [o EXCEPT !.exact = FALSE, !.rv = rev, !.touched = TRUE]
  <2>1. /\ o # None
        /\ WriteByOthers(n, a) \/ WriteByOthers(n, b) \/ WriteByOthers(n, e)
    BY <1>7 DEF ControllerTouch, ForeignStrip, ForeignEdit
  <2>2. /\ a.uid = o.uid /\ a.going = o.going /\ b.uid = o.uid /\ b.going = o.going
        /\ e.uid = o.uid /\ e.going = o.going
    BY <1>1, <2>1 DEF Objects
  <2> HIDE DEF a, b, e, o
  <2> QED BY <1>4, <2>1, <2>2
<1> QED BY <1>3, <1>5, <1>6, <1>7 DEF Others

LEMMA InitVerdicts == Init => VerdictInv
<1> SUFFICES ASSUME Init PROVE VerdictInv
  OBVIOUS
<1>1. ReceiptInv BY InitReceipts
<1>2. ASSUME NEW r \in Runs
      PROVE  /\ run[r].pc = "idle" /\ run[r].mode = "live" /\ run[r].status = "reserved"
             /\ run[r].guarded = FALSE /\ receipt[r] = None
  BY DEF Init, Unstarted
<1>3. ASSUME NEW r \in Runs
      PROVE  /\ Phase(run[r], receipt[r]) /\ Stand(run[r], receipt[r], live)
             /\ Clear(run[r], Heard) /\ Filed(receipt[r], run, Heard)
  <2> DEFINE m == run[r]
  <2> HIDE DEF m
  <2>1. /\ m.pc = "idle" /\ m.mode = "live" /\ m.status = "reserved" /\ ~m.guarded
        /\ receipt[r] = None
    BY <1>2 DEF m
  <2>2. ~Trying(m) /\ ~Ready(m) /\ ~Succeeded(m)
    BY <2>1 DEF Trying, Stripping, Checking, Ready, Succeeded
  <2>3. Phase(m, receipt[r]) /\ Stand(m, receipt[r], live) /\ Clear(m, Heard)
    BY <2>1, <2>2 DEF Phase, Stand, Clear, Complete
  <2>4. Filed(receipt[r], run, Heard) BY <2>1 DEF Filed
  <2> QED BY <2>3, <2>4 DEF m
<1> QED BY <1>1, <1>2, <1>3 DEF Init, VerdictInv

\* Step m to y of a run that sends no POST any more: it hears of no new object.
Hears(m, y) ==
  /\ y.pc \notin {"create", "create-sent", "discover"}
  /\ \A k \in Objs : m.book[k] = None => y.book[k] = None

LEMMA GoneHears ==
  ASSUME NEW r \in Runs, NEW pc \in {"done", "crashed"} PROVE Hears(run[r], Gone(r, pc))
<1> DEFINE u == Unstarted(r)
           g == [u EXCEPT !.pc = pc, !.mode = run[r].mode, !.op = run[r].op,
                          !.status = run[r].status]
<1>1. u \in Memory /\ u.book = NoBook BY UnstartedType DEF Unstarted
<1> HIDE DEF u
<1>2. g.pc = pc /\ g.book = NoBook BY <1>1 DEF Memory
<1>3. Gone(r, pc) = g BY DEF Gone, u
<1> QED BY <1>2, <1>3 DEF Hears, NoBook

LEMMA HearsLocal ==
  ASSUME VerdictInv, NEW r \in Runs, StartLive(r) \/ Work(r) \/ Fail(r)
  PROVE  /\ \E y : Becomes(r, y) /\ (run[r].pc # "idle" /\ ~Posting(run[r]) => Hears(run[r], y))
         /\ \/ receipt' = receipt
            \/ run[r].pc = "save" /\ receipt' = [receipt EXCEPT ![r] = ReceiptOf(r)]
<1> DEFINE m == run[r]
<1>1. /\ m \in Memory /\ m.at \in Objs
      /\ Stripping(m) => \A k \in Objs : m.book[k] # None
  BY VerdictFacts DEF Memory, Progress
<1>2. Hears(m, Exit(r)) /\ Hears(m, Gone(r, "crashed")) BY GoneHears DEF Exit
<1>3. \A e : Hears(m, Abort(r, e)) BY <1>1 DEF Hears, Abort, Memory
<1>4. CASE Persist(r) \/ PersistFails(r)
  <2> DEFINE x == [m EXCEPT !.pc = m.cont, !.guarded = @ \/ m.cont = "create"]
  <2>1. ~Posting(m) => Hears(m, x)
    BY <1>1, <1>4
    DEF Hears, Memory, Conts, Persist, PersistFails, Posting, Creating
  <2>2. Becomes(r, x) \/ Becomes(r, Exit(r)) \/ Becomes(r, Abort(r, FALSE))
    BY <1>4 DEF Persist, PersistFails
  <2>3. \/ receipt' = receipt
        \/ m.pc = "save" /\ receipt' = [receipt EXCEPT ![r] = ReceiptOf(r)]
    BY <1>4 DEF Persist, PersistFails
  <2> HIDE DEF x
  <2> QED BY <1>2, <1>3, <2>1, <2>2, <2>3
<1>5. CASE StartLive(r) \/ CheckAbsent(r) \/ SendCreate(r) \/ BindAnswer(r) \/ CreateUncertain(r) \/ Discover(r)
  <2>1. (\E y : Becomes(r, y)) /\ receipt' = receipt
    BY <1>5 DEF StartLive, CheckAbsent, SendCreate, Send, BindAnswer, CreateUncertain, Discover
  <2>2. m.pc = "idle" \/ Posting(m)
    BY <1>5 DEF StartLive, MayStart, CheckAbsent, SendCreate, BindAnswer, CreateUncertain,
       Discover, Posting, Creating
  <2> QED BY <2>1, <2>2
<1>6. CASE \/ MarkIntent(r) \/ SendPatch(r) \/ NothingToPatch(r) \/ PatchAnswered(r)
           \/ PatchUncertain(r)
  <2> DEFINE a == [m EXCEPT !.book[m.at].st = "intent-durable",
                            !.intents = @ \cup {m.at}, !.tries = 0,
                            !.status = "removing-nonces", !.pc = "save", !.cont = "strip"]
             b == [m EXCEPT !.pc = "strip", !.tries = @ + 1, !.asked = None,
                            !.answer = NoAnswer]
             q == Request(r, "patch", m.at, live[m.at].uid, live[m.at].rv)
             e == [m EXCEPT !.pc = "patch-sent", !.asked = q, !.answer = NoAnswer]
  <2>1. m.book[m.at] # None /\ \A k \in Objs : m.book[k] # None
    BY <1>1, <1>6
    DEF MarkIntent, SendPatch, NothingToPatch, PatchAnswered, PatchUncertain, Stripping
  <2>2. a.pc = "save" /\ b.pc = "strip" /\ e.pc = "patch-sent" /\ Removed(r).pc = "save"
    BY <1>1 DEF Memory, Removed
  <2>3. Hears(m, a) /\ Hears(m, b) /\ Hears(m, e) /\ Hears(m, Removed(r))
    BY <2>1, <2>2 DEF Hears
  <2>4. \/ Becomes(r, a) \/ Becomes(r, b) \/ Becomes(r, e) \/ Becomes(r, Removed(r))
        \/ Becomes(r, Abort(r, FALSE))
    BY <1>6 DEF MarkIntent, SendPatch, Send, NothingToPatch, PatchAnswered, PatchUncertain, Retry
  <2>5. receipt' = receipt
    BY <1>6 DEF MarkIntent, SendPatch, Send, NothingToPatch, PatchAnswered, PatchUncertain
  <2> HIDE DEF a, b, e, q
  <2> QED BY <1>3, <2>3, <2>4, <2>5
<1>7. CASE CheckFinal(r)
  <2> DEFINE a == [m EXCEPT !.at = m.at + 1]
             b == [m EXCEPT !.status = "dormant-ready", !.pc = "save", !.cont = "done"]
  <2>1. m.pc = "final" /\ receipt' = receipt BY <1>7 DEF CheckFinal
  <2>2. Hears(m, a) /\ Hears(m, b) BY <1>1, <2>1 DEF Hears, Memory
  <2>3. Becomes(r, a) \/ Becomes(r, b) \/ Becomes(r, Abort(r, FALSE))
    BY <1>7 DEF CheckFinal
  <2> HIDE DEF a, b
  <2> QED BY <1>3, <2>1, <2>2, <2>3
<1>8. CASE Raise(r) \/ Crash(r) BY <1>2, <1>3, <1>8 DEF Raise, Crash
<1>9. CASE SendDelete(r)
  <2>1. PICK n \in Objs :
          Send(r, Request(r, "delete", n, live[n].uid, live[n].rv), "delete-sent")
    BY <1>9 DEF SendDelete
  <2> DEFINE q == Request(r, "delete", n, live[n].uid, live[n].rv)
             y == [m EXCEPT !.pc = "delete-sent", !.asked = q, !.answer = NoAnswer]
  <2>2. Hears(m, y) BY <1>1 DEF Hears, Memory
  <2>3. Becomes(r, y) /\ receipt' = receipt BY <2>1 DEF Send
  <2> HIDE DEF y, q
  <2> QED BY <2>2, <2>3
<1>10. CASE Skip(r) \/ SkipUnread(r)
  <2>1. PICK n \in Objs, e \in BOOLEAN : Becomes(r, [m EXCEPT !.todo = @ \ {n}, !.err = e])
    BY <1>10 DEF Skip, SkipUnread
  <2> DEFINE y == [m EXCEPT !.todo = @ \ {n}, !.err = e]
  <2>2. Hears(m, y) BY <1>1, <1>10 DEF Hears, Memory, Skip, SkipUnread
  <2>3. Becomes(r, y) /\ receipt' = receipt BY <1>10, <2>1 DEF Skip, SkipUnread
  <2> HIDE DEF y
  <2> QED BY <2>2, <2>3
<1>11. CASE DeleteAnswered(r) \/ DeleteUncertain(r)
  <2>1. \A f : Hears(m, DeleteSettled(r, f))
    BY <1>1 DEF DeleteSettled, Hears, Memory
  <2> QED BY <1>11, <2>1 DEF DeleteAnswered, DeleteUncertain
<1>12. CASE BeginWait(r) \/ WaitDeadline(r) \/ WaitUnread(r) \/ WaitAbsent(r)
  <2> DEFINE a == [m EXCEPT !.pc = "wait", !.at = 1, !.tries = 0]
             b == [m EXCEPT !.pc = "conclude", !.err = TRUE]
             u == [m EXCEPT !.at = m.at + 1]
             v == [m EXCEPT !.at = 1, !.tries = @ + 1]
             w == [m EXCEPT !.pc = "conclude"]
             x == [m EXCEPT !.at = 1, !.tries = 0]
  <2>1. Hears(m, a) /\ Hears(m, b) /\ Hears(m, w) BY <1>1 DEF Hears, Memory
  <2>2. m.pc = "wait" => Hears(m, u) /\ Hears(m, v) /\ Hears(m, x)
    BY <1>1 DEF Hears, Memory
  <2>3. /\ \/ Becomes(r, a) \/ Becomes(r, b) \/ Becomes(r, w)
           \/ m.pc = "wait" /\ (Becomes(r, u) \/ Becomes(r, v) \/ Becomes(r, x))
        /\ receipt' = receipt
    BY <1>12 DEF BeginWait, WaitDeadline, WaitUnread, WaitAbsent
  <2> HIDE DEF a, b, u, v, w, x
  <2> QED BY <2>1, <2>2, <2>3
<1>14. CASE Conclude(r)
  <2>1. \A e : Hears(m, Concludes(r, e))
    <3> SUFFICES ASSUME NEW e PROVE Hears(m, Concludes(r, e))
      OBVIOUS
    <3> DEFINE v == Verdict(r, e)
    <3> HIDE DEF v
    <3>1. Hears(m, [m EXCEPT !.err = e, !.status = v, !.pc = "save", !.cont = "done"])
      BY <1>1 DEF Hears, Memory
    <3> QED BY <3>1 DEF Concludes, v
  <2> QED BY <1>14, <2>1 DEF Conclude
<1>15. CASE Scan(r) \/ ScanUnread(r)
  <2>1. \A own, err : Hears(m, Scanned(m, own, err))
    BY <1>1, <1>15 DEF Scanned, Memory, Scan, ScanUnread, Hears
  <2>2. PICK own, err : Becomes(r, Scanned(m, own, err))
    BY <1>15 DEF Scan, ScanUnread
  <2>3. receipt' = receipt BY <1>15 DEF Scan, ScanUnread
  <2> QED BY <2>1, <2>2, <2>3
<1>16. CASE ScanTeardown(r)
  <2>1. \A err : Hears(m, TornScan(m, err))
    BY <1>1, <1>16 DEF TornScan, Memory, ScanTeardown, Hears
  <2> QED BY <1>16, <2>1 DEF ScanTeardown
<1> HIDE DEF m
<1> QED BY <1>4, <1>5, <1>6, <1>7, <1>8, <1>9, <1>10, <1>11, <1>12, <1>14, <1>15, <1>16
  DEF Work, Fail

LEMMA LostStays ==
  ASSUME VerdictInv, Next, NEW p \in Runs, NEW n \in Objs, Past(run[p]), Lost(p, n)
  PROVE  Lost(p, n)'
<1> DEFINE m == run[p]
           Ok(y, d) == Hears(m, y) /\ (d = receipt[p] \/ d = ReceiptOf(p))
<1>1. /\ run \in [Runs -> Memory] /\ receipt \in [Runs -> Receipts \cup {None}]
      /\ m.pc # "idle" /\ Hears(m, m)
  BY VerdictFacts DEF Past, Posting, Creating, Hears
<1>2. Ok(run'[p], receipt'[p])
  <2>1. ASSUME NEW r \in Runs, StartLive(r) \/ Work(r) \/ Fail(r) PROVE Ok(run'[p], receipt'[p])
    <3>1. PICK y : Becomes(r, y) /\ (Past(run[r]) => Hears(run[r], y))
      BY <2>1, HearsLocal DEF Past
    <3>2. receipt' = receipt \/ receipt' = [receipt EXCEPT ![r] = ReceiptOf(r)]
      BY <2>1, HearsLocal
    <3>3. run'[p] = IF p = r THEN y ELSE m BY <1>1, <3>1 DEF Becomes
    <3> QED BY <1>1, <3>1, <3>2, <3>3
  <2>2. ASSUME NEW r \in Runs, NEW s \in Runs, StartRecover(r, s) \/ StartTeardown(r, s)
        PROVE  Ok(run'[p], receipt'[p])
    <3>1. run[r].pc = "idle" /\ receipt' = receipt
      BY <2>2 DEF StartRecover, StartTeardown, MayStart
    <3>2. \E y : Becomes(r, y) BY <2>2 DEF StartRecover, StartTeardown
    <3>3. run'[p] = m BY <1>1, <3>1, <3>2 DEF Becomes
    <3> QED BY <1>1, <3>1, <3>3
  <2>3. ASSUME NEW k \in Objs, FinishDelete(k) \/ Others(k) PROVE Ok(run'[p], receipt'[p])
    <3>1. UNCHANGED <<run, receipt>>
      BY <2>3 DEF FinishDelete, Others, ForeignCreate, ForeignDelete, ControllerTouch,
         ForeignStrip, ForeignEdit, WriteByOthers
    <3> QED BY <1>1, <3>1
  <2>4. ASSUME NEW q \in net, ServeCreate(q) \/ ServePatch(q) \/ ServeDelete(q)
        PROVE  Ok(run'[p], receipt'[p])
    <3>1. receipt' = receipt /\ \E code, o : Reply(q, code, o)
      BY <2>4 DEF ServeCreate, ServePatch, ServeDelete
    <3>2. Same(m, run'[p]) BY <3>1, ReplySame DEF VerdictInv
    <3> QED BY <1>1, <3>1, <3>2 DEF Same, Hears
  <2> QED BY <2>1, <2>2, <2>3, <2>4 DEF Next, Serve
<1>3. ReceiptOf(p).recs = m.book BY DEF ReceiptOf
<1>4. m.book[n] = None /\ (receipt[p] # None => receipt[p].recs[n] = None) /\ Linger
  BY DEF Lost, Unheard
<1> QED BY <1>2, <1>3, <1>4 DEF Lost, Unheard, Hears

LEMMA NextVerdicts == VerdictInv /\ [Next]_vars => VerdictInv'
<1> SUFFICES ASSUME VerdictInv, [Next]_vars PROVE VerdictInv'
  OBVIOUS
<1>1. ReceiptInv' /\ (Next => Sure) BY NextReceipts, LostStays DEF VerdictInv, Sure
<1>2. ASSUME NEW r \in Runs, Work(r) PROVE VerdictInv'
  BY <1>1, <1>2, SaveVerdict, FirstVerdict, CreatingVerdict, StripVerdict,
     FinalVerdict, DeleteVerdict, WaitVerdict, ScanVerdict DEF Work, Next
<1>3. ASSUME NEW r \in Runs, Fail(r) PROVE VerdictInv'
  BY <1>1, <1>3, SaveVerdict, CreatingVerdict, StripVerdict, InterruptVerdict,
     DeleteVerdict, WaitVerdict, ScanVerdict DEF Fail, Next
<1>4. CASE UNCHANGED vars
  <2>1. UNCHANGED <<live, rev, net, receipt, run, foreign>> BY <1>4 DEF vars
  <2>2. ASSUME NEW p \in Runs, Still(p)' PROVE Stand(run[p], receipt[p], live)
    BY <2>1, <2>2 DEF VerdictInv, Still
  <2>3. Heard' = Heard BY <2>1 DEF Heard, Lost
  <2> QED BY <1>1, <2>1, <2>2, <2>3 DEF VerdictInv
<1> QED BY <1>1, <1>2, <1>3, <1>4, FirstVerdict, ResumeVerdict, OthersVerdict,
     ServeCreateVerdict, ServePatchVerdict, ServeDeleteVerdict DEF Next, Serve

\* Part 14.  What the receipts say is so.

\* The objects of a run come in order: those before the one it makes, or made,
\* are on its receipt.
Recorded(c, n) == c # None /\ \A k \in Objs : k < n => c.recs[k] # None

PostedInv ==
  /\ \A q \in net : q.kind = "create" => Recorded(receipt[q.run], q.obj)
  /\ \A n \in Objs : live[n] # None /\ live[n].uid.by # Foreign =>
       Recorded(receipt[live[n].uid.by], n)
  /\ \A r \in Runs : run[r].pc \in {"create", "create-sent", "discover"} =>
       Recorded(receipt[r], run[r].at)

LEMMA CreatesNext ==
  ASSUME VerdictInv, PostedInv, NEW r \in Runs, StartLive(r) \/ Work(r) \/ Fail(r),
         run'[r].pc \in {"create", "create-sent", "discover"}
  PROVE  \/ Recorded(receipt[r], run'[r].at)
         \/ receipt' = [receipt EXCEPT ![r] = ReceiptOf(r)] /\ Recorded(ReceiptOf(r), run'[r].at)
<1> DEFINE m == run[r]
<1>1. m \in Memory /\ run \in [Runs -> Memory] /\ Progress(m) BY VerdictFacts
<1>2. \A y : Becomes(r, y) => run'[r] = y BY <1>1 DEF Becomes
<1>3. m.pc = "idle" \/ Posting(m) BY <1>2, HearsLocal DEF Hears
<1>4. /\ Exit(r).pc = "done" /\ Gone(r, "crashed").pc = "crashed"
      /\ \A e : Abort(r, e).pc = "rollback"
      /\ \A o : Created(r, o).pc = "save"
  <2>1. Exit(r).pc = "done" /\ Gone(r, "crashed").pc = "crashed"
    BY UnstartedType DEF Exit, Gone, Memory
  <2>2. \A e : Abort(r, e).pc = "rollback" BY <1>1 DEF Abort, Memory
  <2> QED BY <1>1, <2>1, <2>2 DEF Created, Memory
<1>5. CASE Persist(r)
  <2> DEFINE x == [m EXCEPT !.pc = m.cont, !.guarded = @ \/ m.cont = "create"]
  <2>1. run'[r] = x /\ m.pc = "save" /\ receipt' = [receipt EXCEPT ![r] = ReceiptOf(r)]
    BY <1>2, <1>4, <1>5 DEF Persist
  <2>2. x.pc = m.cont /\ x.at = m.at BY <1>1 DEF Memory
  <2>3. Creating(m) BY <1>3, <2>1, <2>2 DEF Posting, Creating
  <2>4. ReceiptOf(r).recs = m.book /\ ReceiptOf(r) # None
    <3>1. ReceiptOf(r) \in Receipts BY VerdictFacts DEF ReceiptOf, Receipts, Memory
    <3> QED BY <3>1, NoneIsApart DEF ReceiptOf
  <2> QED BY <1>1, <2>1, <2>2, <2>3, <2>4 DEF Recorded, Progress
<1>6. CASE SendCreate(r)
  <2> DEFINE q == Request(r, "create", m.at, None, 0)
             y == [m EXCEPT !.pc = "create-sent", !.asked = q, !.answer = NoAnswer]
  <2>1. Becomes(r, y) /\ y.at = m.at /\ m.pc = "create"
    BY <1>1, <1>6 DEF SendCreate, Send, Memory
  <2> HIDE DEF y
  <2> QED BY <1>2, <2>1 DEF PostedInv
<1>7. CASE CreateUncertain(r)
  <2> DEFINE y == [m EXCEPT !.pc = "discover", !.asked = None, !.answer = NoAnswer]
  <2>1. Becomes(r, y) /\ y.at = m.at /\ m.pc = "create-sent"
    BY <1>1, <1>7 DEF CreateUncertain, Memory
  <2> HIDE DEF y
  <2> QED BY <1>2, <2>1 DEF PostedInv
<1>8. CASE StartLive(r) \/ CheckAbsent(r)
  <2> DEFINE s == [m EXCEPT !.pc = "save", !.cont = "absent"]
             t == [m EXCEPT !.at = m.at + 1]
             u == [m EXCEPT !.pc = "save", !.cont = "create", !.at = 1,
                            !.status = "creating"]
  <2>1. \/ Becomes(r, Exit(r)) \/ Becomes(r, s) \/ Becomes(r, u)
        \/ Becomes(r, t) /\ m.pc = "absent"
    BY <1>8 DEF StartLive, CheckAbsent
  <2>2. s.pc = "save" /\ u.pc = "save" /\ t.pc = m.pc BY <1>1 DEF Memory
  <2> HIDE DEF s, t, u
  <2> QED BY <1>2, <1>4, <2>1, <2>2
<1>9. CASE BindAnswer(r) \/ Discover(r) \/ PersistFails(r) \/ Raise(r) \/ Crash(r)
  BY <1>2, <1>4, <1>9 DEF BindAnswer, Discover, PersistFails, Raise, Crash
<1>10. Persist(r) \/ SendCreate(r) \/ CreateUncertain(r) \/ StartLive(r) \/ CheckAbsent(r)
       \/ BindAnswer(r) \/ Discover(r) \/ PersistFails(r) \/ Raise(r) \/ Crash(r)
  BY <1>3 DEF Work, Fail, Posting, Creating, MarkIntent, SendPatch, NothingToPatch,
     PatchAnswered, CheckFinal, SendDelete, Skip, DeleteAnswered, BeginWait, WaitAbsent,
     Conclude, Scan, ScanTeardown, WaitDeadline, PatchUncertain, SkipUnread,
     DeleteUncertain, WaitUnread, ScanUnread
<1> QED BY <1>5, <1>6, <1>7, <1>8, <1>9, <1>10

LEMMA NextPosted == VerdictInv /\ PostedInv /\ [Next]_vars => PostedInv'
<1> SUFFICES ASSUME VerdictInv, PostedInv, Next PROVE PostedInv'
  BY DEF vars, PostedInv
<1>1. /\ run \in [Runs -> Memory] /\ receipt \in [Runs -> Receipts \cup {None}]
      /\ live \in [Objs -> Objects \cup {None}] /\ OwnInv /\ ReceiptInv
      /\ \A q \in net : q.run \in Runs /\ q.obj \in Objs
  BY DEF VerdictInv, ReceiptInv, OwnInv, TypeInv, TypeOK, Requests
<1> DEFINE Quiet == /\ receipt' = receipt
                   /\ \A r \in Runs : run'[r].pc = run[r].pc /\ run'[r].at = run[r].at
           Local(r) ==
             /\ \E y : Becomes(r, y)
             /\ \/ receipt' = receipt
                \/ run[r].pc = "save" /\ receipt' = [receipt EXCEPT ![r] = ReceiptOf(r)]
             /\ run'[r].pc \in {"create", "create-sent", "discover"} =>
                  \/ Recorded(receipt[r], run'[r].at)
                  \/ /\ receipt' = [receipt EXCEPT ![r] = ReceiptOf(r)]
                     /\ Recorded(ReceiptOf(r), run'[r].at)
<1>2. Quiet \/ \E r \in Runs : Local(r)
  <2>1. ASSUME NEW r \in Runs, StartLive(r) \/ Work(r) \/ Fail(r) PROVE Local(r)
    BY <2>1, HearsLocal, CreatesNext
  <2>2. ASSUME NEW r \in Runs, NEW s \in Runs, StartRecover(r, s) \/ StartTeardown(r, s)
        PROVE  Local(r)
    <3>1. PICK y : Becomes(r, y) /\ y.pc \in {"save", "tscan"}
      <4> DEFINE m == run[r]
                 k == receipt[s]
                 x == [m EXCEPT !.mode = "recover", !.op = s, !.book = k.recs,
                                !.intents = k.intents, !.status = "recovering",
                                !.pc = "save", !.cont = "scan"]
                 z == [m EXCEPT !.mode = "teardown", !.op = s, !.book = k.recs,
                                !.own = k.recs, !.status = "tearing-down", !.pc = "tscan"]
      <4>1. x.pc = "save" /\ z.pc = "tscan" BY <1>1 DEF Memory
      <4>2. Becomes(r, x) \/ Becomes(r, z) BY <2>2 DEF StartRecover, StartTeardown
      <4> HIDE DEF x, z
      <4> QED BY <4>1, <4>2
    <3>2. run'[r] = y BY <1>1, <3>1 DEF Becomes
    <3> QED BY <2>2, <3>1, <3>2 DEF StartRecover, StartTeardown
  <2>3. ASSUME NEW k \in Objs, FinishDelete(k) \/ Others(k) PROVE Quiet
    BY <2>3 DEF FinishDelete, Others, ForeignCreate, ForeignDelete, ControllerTouch,
       ForeignStrip, ForeignEdit, WriteByOthers
  <2>4. ASSUME NEW q \in net, ServeCreate(q) \/ ServePatch(q) \/ ServeDelete(q)
        PROVE  Quiet
    <3>1. receipt' = receipt /\ \E code, o : Reply(q, code, o)
      BY <2>4 DEF ServeCreate, ServePatch, ServeDelete
    <3> QED BY <1>1, <3>1, ReplySame DEF Same
  <2> HIDE DEF Quiet, Local
  <2> QED BY <2>1, <2>2, <2>3, <2>4 DEF Next, Serve
<1>3. ASSUME NEW p \in Runs, NEW n, Recorded(receipt[p], n) PROVE Recorded(receipt'[p], n)
  <2>1. ASSUME NEW r \in Runs, Local(r) PROVE Recorded(receipt'[p], n)
    <3>1. CASE receipt'[p] = receipt[p] BY <1>3, <3>1
    <3>2. CASE receipt'[p] # receipt[p]
      <4>1. p = r /\ receipt'[p] = ReceiptOf(p) /\ run[p].pc = "save"
        BY <1>1, <2>1, <3>2
      <4>2. Grown(receipt[p], run[p])
        BY <1>3, <4>1, VerdictFacts DEF Mem, Recorded, Over
      <4>3. ReceiptOf(p).recs = run[p].book /\ ReceiptOf(p) # None
        <5>1. ReceiptOf(p) \in Receipts
          BY VerdictFacts DEF ReceiptOf, Receipts, Memory
        <5> QED BY <5>1, NoneIsApart DEF ReceiptOf
      <4> QED BY <1>3, <4>1, <4>2, <4>3 DEF Recorded, Grown
    <3> QED BY <3>1, <3>2
  <2> QED BY <1>2, <1>3, <2>1
<1>4. ASSUME NEW r \in Runs, run'[r].pc \in {"create", "create-sent", "discover"}
      PROVE  Recorded(receipt'[r], run'[r].at)
  <2>1. ASSUME run'[r].pc = run[r].pc, run'[r].at = run[r].at
        PROVE  Recorded(receipt'[r], run'[r].at)
    BY <1>3, <1>4, <2>1 DEF PostedInv
  <2>2. ASSUME NEW s \in Runs, Local(s) PROVE Recorded(receipt'[r], run'[r].at)
    <3>1. CASE s = r
      <4>1. CASE Recorded(receipt[r], run'[r].at) BY <1>3, <4>1
      <4>2. CASE receipt' = [receipt EXCEPT ![r] = ReceiptOf(r)] /\ Recorded(ReceiptOf(r), run'[r].at)
        BY <1>1, <4>2
      <4> QED BY <1>4, <2>2, <3>1, <4>1, <4>2
    <3>2. CASE s # r BY <1>1, <2>1, <2>2, <3>2 DEF Becomes
    <3> QED BY <3>1, <3>2
  <2> HIDE DEF Local
  <2> QED BY <1>2, <2>1, <2>2
<1>5. ASSUME NEW q \in net', q.kind = "create" PROVE Recorded(receipt'[q.run], q.obj)
  <2>1. CASE q \in net BY <1>1, <1>3, <1>5, <2>1 DEF PostedInv
  <2>2. CASE q \notin net
    <3>1. q.run \in Runs /\ SendCreate(q.run) BY <1>1, <1>5, <2>2, NewRequests
    <3>2. q.obj = run[q.run].at /\ run[q.run].pc = "create"
      BY <2>2, <3>1 DEF SendCreate, Send, Request
    <3> QED BY <1>3, <3>1, <3>2 DEF PostedInv
  <2> QED BY <2>1, <2>2
<1>6. ASSUME NEW n \in Objs, live'[n] # None, live'[n].uid.by # Foreign
      PROVE  Recorded(receipt'[live'[n].uid.by], n)
  <2> DEFINE Was == live[n] # None /\ live'[n].uid = live[n].uid
             Made == \E q \in net : q.kind = "create" /\ q.obj = n /\ q.run = live'[n].uid.by
  <2>1. CASE Serve
    <3> PICK q \in net : ServeCreate(q) \/ ServePatch(q) \/ ServeDelete(q)
      BY <2>1 DEF Serve
    <3>1. ServeCreate(q) => Was \/ Made BY <1>1, <1>6 DEF ServeCreate
    <3>2. ServePatch(q) => Was BY <1>1, <1>6, ZenonT(60) DEF ServePatch, Matches, Objects
    <3>3. ServeDelete(q) => Was BY <1>1, <1>6 DEF ServeDelete, Matches, Objects
    <3> QED BY <3>1, <3>2, <3>3, <1>1, <1>3, <1>6 DEF PostedInv, Objects, Uids
  <2>2. CASE ~Serve
    <3>1. Was
      <4>1. CASE live' = live BY <1>6, <4>1
      <4>2. CASE live' # live
        <5>1. ASSUME NEW r \in Runs, StartLive(r) \/ Work(r) \/ Fail(r) PROVE live' = live
          BY <5>1 DEF StartLive, Work, Fail, Persist, CheckAbsent, SendCreate, BindAnswer,
             Discover, MarkIntent, SendPatch, NothingToPatch, PatchAnswered, CheckFinal,
             SendDelete, Skip, DeleteAnswered, BeginWait, WaitAbsent, Conclude, Scan,
             ScanTeardown, WaitDeadline, PersistFails, CreateUncertain, PatchUncertain, Raise,
             Crash, SkipUnread, DeleteUncertain, WaitUnread, ScanUnread, Send
        <5>2. ASSUME NEW r \in Runs, NEW s \in Runs, StartRecover(r, s) \/ StartTeardown(r, s)
              PROVE  live' = live
          BY <5>2 DEF StartRecover, StartTeardown
        <5>3. PICK k \in Objs : FinishDelete(k) \/ Others(k)
          BY <2>2, <4>2, <5>1, <5>2 DEF Next
        <5> DEFINE o == live[k]
                   a == [o EXCEPT !.rv = rev]
                   b == [o EXCEPT !.tag = None, !.rv = rev, !.touched = TRUE]
                   e == [o EXCEPT !.exact = FALSE, !.rv = rev, !.touched = TRUE]
                   f == [uid |-> [by |-> Foreign, rev |-> rev], tag |-> None,
                         exact |-> TRUE, rv |-> rev, going |-> FALSE, touched |-> TRUE]
        <5>4. o # None => a.uid = o.uid /\ b.uid = o.uid /\ e.uid = o.uid
          BY <1>1 DEF Objects
        <5>5. f.uid.by = Foreign OBVIOUS
        <5>6. \/ live' = [live EXCEPT ![k] = None] \/ live' = [live EXCEPT ![k] = f]
              \/ o # None /\ \E x \in {a, b, e} : live' = [live EXCEPT ![k] = x]
          BY <5>3 DEF FinishDelete, Others, ForeignCreate, ForeignDelete, ControllerTouch,
             ForeignStrip, ForeignEdit, WriteByOthers
        <5> HIDE DEF a, b, e, f
        <5> QED BY <1>1, <1>6, <5>4, <5>5, <5>6
      <4> QED BY <4>1, <4>2
    <3> QED BY <1>1, <1>3, <1>6, <3>1 DEF PostedInv, Objects, Uids
  <2> QED BY <2>1, <2>2
<1> QED BY <1>4, <1>5, <1>6 DEF PostedInv

\* A receipt on disk that says dormant-ready is right while nobody else writes
\* and nobody tears the bootstrap down, whatever other runs create, roll back or
\* recover: if the command ended in success, every object is there, exact,
\* nonce-free and as recorded; if not (its commit raised after the rename), only
\* what its own rollback took is missing, and the rest is as recorded.
THEOREM SuccessStays == Spec => []SuccessHolds
<1>1. VerdictInv => SuccessHolds
  <2> SUFFICES ASSUME VerdictInv, NEW r \in Runs, foreign = 0
               PROVE  LET c == receipt[r]
                          claimed == c # None /\ c.mode = "live" /\ c.status = "dormant-ready"
                          bound(n) == /\ StillMine(live[n], c.recs[n])
                                      /\ live[n].tag = None /\ live[n].uid.by = r
                      IN /\ Succeeded(run[r]) => claimed
                         /\ claimed /\ (\A t \in Runs : run[t].mode = "teardown" => run[t].op # r)
                              => \A n \in Objs :
                                   \/ bound(n)
                                   \/ ~Succeeded(run[r]) /\ (live[n] # None => live[n].uid.by # r)
    BY DEF SuccessHolds, Succeeded, Owner
  <2> DEFINE m == run[r]
             c == receipt[r]
  <2>1. Phase(m, c) /\ Mem(m, c) /\ Tags(m, c, live)
    BY Facts, VerdictFacts DEF VerdictInv, Sound
  <2>2. Succeeded(m) => c # None /\ c.status = "dormant-ready" /\ c.mode = "live"
    BY <2>1 DEF Phase, Mem, Succeeded
  <2>3. ASSUME c # None, c.mode = "live", c.status = "dormant-ready", NEW n \in Objs,
               live[n] # None, live[n].uid = c.recs[n].uid, live[n].uid.by = r
        PROVE  StillMine(live[n], c.recs[n]) /\ live[n].tag = None
    BY <2>1, <2>3 DEF VerdictInv, Tags, Bare, StillMine
  <2>4. ASSUME Succeeded(m), \A t \in Runs : run[t].mode = "teardown" => run[t].op # r,
               NEW n \in Objs
        PROVE  /\ StillMine(live[n], c.recs[n]) /\ live[n].tag = None
               /\ live[n].uid.by = r
    <3>1. Kept(c.recs[n], live[n]) BY <2>4 DEF VerdictInv, Still, Stand
    <3>2. live[n].uid.by = r BY <2>4, <3>1, StandOwn DEF Kept
    <3> QED BY <2>2, <2>3, <2>4, <3>1, <3>2 DEF Kept
  <2>5. ASSUME c # None, c.mode = "live", c.status = "dormant-ready", NEW n \in Objs,
               live[n] # None, live[n].uid.by = r
        PROVE  StillMine(live[n], c.recs[n]) /\ live[n].tag = None
    <3>1. Thing(live[n], n, m, c) BY <2>5, ConstantsOK DEF VerdictInv, ReceiptInv
    <3>2. c.recs[n] # None BY <2>1, <2>5 DEF Mem, Binds
    <3> QED BY <2>3, <2>5, <3>1, <3>2 DEF Thing, Agrees
  <2> HIDE DEF m, c
  <2> QED BY <2>2, <2>4, <2>5 DEF m, c
<1> QED BY <1>1, InitVerdicts, NextVerdicts, PTL DEF Spec

\* Of success, a durable receipt claims what SuccessStays says.  Of removal: one
\* that says rolled-back, recovered-rolled-back or dormant-torn-down stands over
\* no object of its operation, now and later, but for one: the POST whose answer
\* the run never read, if its request outlived its client and is served after
\* all, the next after those on record.  Linger is any value; if it is FALSE
\* there is no such request.
THEOREM VerdictsTrue == Spec => []VerdictsHold
<1>1. VerdictInv /\ PostedInv => CompleteMeansGone
  <2> SUFFICES ASSUME VerdictInv, PostedInv, NEW r \in Runs, receipt[r] # None,
                      receipt[r].status \in Complete, NEW n \in Objs, live[n] # None,
                      live[n].uid.by = receipt[r].op
               PROVE  Unread(receipt[r].op, n)
    BY DEF CompleteMeansGone, Owner
  <2> DEFINE p == receipt[r].op
  <2>1. Filed(receipt[r], run, Heard) BY DEF VerdictInv
  <2>2. p \in Runs /\ p # Foreign BY VerdictFacts, ConstantsOK DEF Receipts
  <2>3. Lost(p, n)
    <3> SUFFICES ASSUME ~Lost(p, n) PROVE FALSE
      OBVIOUS
    <3>1. Heard[n] = live[n] BY DEF Heard
    <3> QED BY <2>1, <3>1 DEF Filed, Rid
  <2>4. Recorded(receipt[p], n) BY <2>2 DEF PostedInv
  <2> HIDE DEF p
  <2> QED BY <2>3, <2>4 DEF Unread, Lost, Unheard, Recorded, p
<1>2. Init => VerdictInv /\ PostedInv
  <2> SUFFICES ASSUME Init PROVE PostedInv
    BY InitVerdicts
  <2> QED BY DEF Init, PostedInv, Unstarted
<1>3. VerdictInv /\ PostedInv /\ [Next]_vars => (VerdictInv /\ PostedInv)'
  BY NextVerdicts, NextPosted
<1>4. Spec => []CompleteMeansGone BY <1>1, <1>2, <1>3, PTL DEF Spec
<1> QED BY <1>4, SuccessStays, PTL DEF VerdictsHold

=============================================================================
