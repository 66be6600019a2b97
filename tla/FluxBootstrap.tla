--------------------------- MODULE FluxBootstrap ---------------------------
\* The one-time dormant Flux bootstrap transaction of
\* scripts/staging_participant_flux_bootstrap.py and its Kubernetes
\* adapter scripts/bootstrap-staging-participant-flux.py: a live run posts
\* eight objects under one nonce, strips the nonces and leaves a durable
\* receipt; rollback, --recover and --teardown delete what it made.
\*
\* Each element of Runs is one execution of the command: a live run, or a
\* recovery or teardown of an earlier live run's receipt.  The nonce and
\* the receipt of a live run are named by the run itself.  Requests travel
\* through net: the API server serves them later than they were sent, and
\* possibly after the client stopped waiting (a timed-out kubectl child is
\* not killed, activate-staging-participant-gateway.py:1217-1221).
EXTENDS Naturals

CONSTANTS
  Runs,           \* executions of the command
  LiveRuns,       \* bound: those that may be live; the rest recover, tear down
  N,              \* how many objects; CREATE_ORDER is 1..N (8 in the code)
  Kust,           \* the positions of the Kustomizations (the last two)
  None,           \* no object, no record, no receipt, no nonce
  Foreign,        \* whoever else writes these names
  PatchAttempts,  \* tries of the nonce-removal patch (4 in the code)
  QuietRounds,    \* clean absence rounds that make the quiet interval
  OneAtATime,     \* does the operator wait for one command before the next?
  Linger,         \* may a request outlive the client that sent it?
  MaxFaults,      \* bound: failures of the client side
  MaxForeign      \* bound: writes by others

Objs == 1..N

ASSUME ConstantsOK ==
  /\ LiveRuns \subseteq Runs /\ N \in Nat \ {0} /\ Kust \subseteq Objs
  /\ None \notin Runs /\ Foreign \notin Runs
  /\ PatchAttempts \in Nat \ {0} /\ QuietRounds \in Nat \ {0}
  /\ OneAtATime \in BOOLEAN /\ Linger \in BOOLEAN
  /\ MaxFaults \in Nat /\ MaxForeign \in Nat

VARIABLES
  live,     \* the cluster: what each of the exact names holds
  rev,      \* the store revision, source of UIDs and resourceVersions
  net,      \* requests sent and not yet served
  receipt,  \* the durable receipt file of each run
  run,      \* the memory of each run
  faults, foreign

vars == <<live, rev, net, receipt, run, faults, foreign>>

-----
\* Values.  A UID names its maker: the code only compares UIDs.

Uids == [by : Runs \cup {Foreign}, rev : Nat]

\* exact: the protected semantics; going: deletionTimestamp set, finalizer
\* left; touched: someone else edited it (read by properties only).
Objects == [uid : Uids, tag : Runs \cup {None}, exact : BOOLEAN, rv : Nat,
            going : BOOLEAN, touched : BOOLEAN]

Removal == {"not-started", "intent-durable", "removed"}
Records == [uid : Uids, st : Removal]
Books == [Objs -> Records \cup {None}]
NoBook == [n \in Objs |-> None]

Modes == {"live", "recover", "teardown"}
Statuses == {"reserved", "creating", "removing-nonces", "dormant-ready",
             "rolled-back", "rollback-incomplete", "recovering",
             "recovered-rolled-back", "recovery-incomplete", "tearing-down",
             "dormant-torn-down", "teardown-incomplete"}
Complete == {"rolled-back", "recovered-rolled-back", "dormant-torn-down"}

Receipts == [mode : Modes, op : Runs, status : Statuses, recs : Books,
             intents : SUBSET Objs]

Requests == [kind : {"create", "patch", "delete"}, run : Runs, op : Runs,
             obj : Objs, uid : Uids \cup {None}, rv : Nat, try : Nat]

Answers == [code : {"none", "ok", "conflict"}, obj : Objects \cup {None}]
NoAnswer == [code |-> "none", obj |-> None]

PCs == {"idle", "save", "absent", "create", "create-sent", "discover",
        "intent", "strip", "patch-sent", "final", "scan", "tscan",
        "rollback", "delete-sent", "wait", "conclude", "done", "crashed"}

ASSUME NoneIsApart ==
  None \notin Objects /\ None \notin Records /\ None \notin Receipts
    /\ None \notin Requests

\* Where a run may go on after it persisted its receipt.
Conts == {"idle", "absent", "create", "intent", "strip", "final", "scan",
          "rollback", "conclude", "done"}

Memory == [pc : PCs, cont : Conts, mode : Modes, op : Runs, at : Objs,
           tries : Nat, guarded : BOOLEAN, status : Statuses, book : Books,
           intents : SUBSET Objs, own : Books, todo : SUBSET Objs,
           err : BOOLEAN, asked : Requests \cup {None}, answer : Answers]

Unstarted(r) ==
  [pc |-> "idle", cont |-> "idle", mode |-> "live", op |-> r, at |-> 1,
   tries |-> 0, guarded |-> FALSE, status |-> "reserved", book |-> NoBook,
   intents |-> {}, own |-> NoBook, todo |-> {}, err |-> FALSE,
   asked |-> None, answer |-> NoAnswer]

TypeOK ==
  /\ live \in [Objs -> Objects \cup {None}]
  /\ rev \in Nat
  /\ net \subseteq Requests
  /\ receipt \in [Runs -> Receipts \cup {None}]
  /\ run \in [Runs -> Memory]
  /\ faults \in Nat /\ foreign \in Nat

Init ==
  /\ live = [n \in Objs |-> None]
  /\ rev = 1
  /\ net = {}
  /\ receipt = [r \in Runs |-> None]
  /\ run = [r \in Runs |-> Unstarted(r)]
  /\ faults = 0 /\ foreign = 0

-----
\* The Kubernetes API server serves one request at a time.

Reply(q, code, o) ==
  run' = IF run[q.run].asked = q
           THEN [run EXCEPT ![q.run].answer = [code |-> code, obj |-> o]]
           ELSE run

Matches(q, o) == o # None /\ o.uid = q.uid /\ o.rv = q.rv

ServeCreate(q) ==
  /\ q \in net /\ q.kind = "create"
  /\ net' = net \ {q}
  /\ IF live[q.obj] = None
       THEN LET o == [uid |-> [by |-> q.run, rev |-> rev], tag |-> q.op,
                      exact |-> TRUE, rv |-> rev, going |-> FALSE,
                      touched |-> FALSE]
            IN /\ live' = [live EXCEPT ![q.obj] = o]
               /\ rev' = rev + 1
               /\ Reply(q, "ok", o)
       ELSE UNCHANGED <<live, rev>> /\ Reply(q, "conflict", None)
  /\ UNCHANGED <<receipt, faults, foreign>>

\* The JSON patch tests UID, resourceVersion and nonce before it removes it.
ServePatch(q) ==
  /\ q \in net /\ q.kind = "patch"
  /\ net' = net \ {q}
  /\ IF Matches(q, live[q.obj]) /\ live[q.obj].tag = q.op
       THEN LET o == [live[q.obj] EXCEPT !.tag = None, !.rv = rev]
            IN /\ live' = [live EXCEPT ![q.obj] = o]
               /\ rev' = rev + 1
               /\ Reply(q, "ok", o)
       ELSE UNCHANGED <<live, rev>> /\ Reply(q, "conflict", None)
  /\ UNCHANGED <<receipt, faults, foreign>>

\* A DELETE with UID and resourceVersion preconditions; 404 counts as done.
\* A Kustomization that carries the Flux finalizer is only marked.
ServeDelete(q) ==
  /\ q \in net /\ q.kind = "delete"
  /\ net' = net \ {q}
  /\ \/ /\ live[q.obj] = None
        /\ UNCHANGED <<live, rev>> /\ Reply(q, "ok", None)
     \/ /\ live[q.obj] # None /\ ~Matches(q, live[q.obj])
        /\ UNCHANGED <<live, rev>> /\ Reply(q, "conflict", None)
     \/ /\ Matches(q, live[q.obj])
        /\ live' = [live EXCEPT ![q.obj] = None]
        /\ UNCHANGED rev /\ Reply(q, "ok", None)
     \/ /\ Matches(q, live[q.obj]) /\ q.obj \in Kust
        /\ live' = [live EXCEPT ![q.obj].going = TRUE, ![q.obj].rv = rev]
        /\ rev' = rev + 1 /\ Reply(q, "ok", None)
  /\ UNCHANGED <<receipt, faults, foreign>>

FinishDelete(n) ==
  /\ live[n] # None /\ live[n].going
  /\ live' = [live EXCEPT ![n] = None]
  /\ UNCHANGED <<rev, net, receipt, run, faults, foreign>>

-----
\* Others who write the same names: a controller's status update, an
\* operator who strips an annotation, unsuspends, deletes or recreates.

WriteByOthers(n, o) ==
  /\ foreign < MaxForeign /\ foreign' = foreign + 1
  /\ live' = [live EXCEPT ![n] = o]
  /\ rev' = rev + 1
  /\ UNCHANGED <<net, receipt, run, faults>>

ForeignCreate(n) ==
  /\ live[n] = None
  /\ WriteByOthers(n, [uid |-> [by |-> Foreign, rev |-> rev], tag |-> None,
                       exact |-> TRUE, rv |-> rev, going |-> FALSE,
                       touched |-> TRUE])

ForeignDelete(n) == live[n] # None /\ WriteByOthers(n, None)

ControllerTouch(n) ==
  live[n] # None /\ WriteByOthers(n, [live[n] EXCEPT !.rv = rev])

ForeignStrip(n) ==
  /\ live[n] # None /\ live[n].tag # None
  /\ WriteByOthers(n, [live[n] EXCEPT !.tag = None, !.rv = rev,
                                      !.touched = TRUE])

ForeignEdit(n) ==
  /\ live[n] # None
  /\ WriteByOthers(n, [live[n] EXCEPT !.exact = FALSE, !.rv = rev,
                                      !.touched = TRUE])

-----
\* One run.  Its failures spend the budget of faults.

Spend == faults < MaxFaults /\ faults' = faults + 1

\* What the network keeps of a request its sender no longer waits for.
Abandoned(r) == IF Linger THEN net ELSE net \ {run[r].asked}

\* The process is gone and its memory with it; only its verdict is remembered.
Gone(r, pc) ==
  [Unstarted(r) EXCEPT !.pc = pc, !.mode = run[r].mode, !.op = run[r].op,
                       !.status = run[r].status]

Exit(r) == Gone(r, "done")

\* run()'s except clause: roll back what created holds.
Abort(r, e) ==
  [run[r] EXCEPT !.pc = "rollback", !.guarded = FALSE, !.asked = None,
                 !.answer = NoAnswer, !.own = run[r].book, !.err = e,
                 !.todo = {n \in Objs : run[r].book[n] # None}]

Becomes(r, m) == run' = [run EXCEPT ![r] = m]

ReceiptOf(r) ==
  [mode |-> run[r].mode, op |-> run[r].op, status |-> run[r].status,
   recs |-> run[r].book, intents |-> run[r].intents]

\* ReceiptSink.commit: fsync, replace, fsync of the directory.  It may raise
\* before or after the replacement is visible.
Persist(r) ==
  /\ run[r].pc = "save"
  /\ receipt' = [receipt EXCEPT ![r] = ReceiptOf(r)]
  /\ Becomes(r, IF run[r].cont = "done" THEN Exit(r)
                ELSE [run[r] EXCEPT !.pc = run[r].cont,
                        !.guarded = @ \/ run[r].cont = "create"])
  /\ UNCHANGED <<live, rev, net, faults, foreign>>

PersistFails(r) ==
  /\ run[r].pc = "save" /\ Spend
  /\ \/ receipt' = [receipt EXCEPT ![r] = ReceiptOf(r)]
     \/ UNCHANGED receipt
  /\ Becomes(r, IF run[r].guarded THEN Abort(r, FALSE) ELSE Exit(r))
  /\ UNCHANGED <<live, rev, net, foreign>>

Ended(r) == run[r].pc \in {"done", "crashed"}

MayStart(r) ==
  /\ run[r].pc = "idle"
  /\ OneAtATime => \A s \in Runs : run[s].pc = "idle" \/ Ended(s)

StartLive(r) ==
  /\ MayStart(r) /\ r \in LiveRuns
  /\ Becomes(r, [run[r] EXCEPT !.pc = "save", !.cont = "absent"])
  /\ UNCHANGED <<live, rev, net, receipt, faults, foreign>>

\* Mutant: the creating status is not committed before the first POST.
CheckAbsentUncommitted(r) ==
  LET m == run[r] IN
  /\ m.pc = "absent"
  /\ Becomes(r,
       IF live[m.at] # None THEN Exit(r)
       ELSE IF m.at < N THEN [m EXCEPT !.at = m.at + 1]
       ELSE [m EXCEPT !.pc = "create", !.guarded = TRUE, !.at = 1,
                      !.status = "creating"])
  /\ UNCHANGED <<live, rev, net, receipt, faults, foreign>>

\* All exact names must answer 404 before the first POST.
CheckAbsent(r) ==
  LET m == run[r] IN
  /\ m.pc = "absent"
  /\ Becomes(r,
       IF live[m.at] # None THEN Exit(r)
       ELSE IF m.at < N THEN [m EXCEPT !.at = m.at + 1]
       ELSE [m EXCEPT !.pc = "save", !.cont = "create", !.at = 1,
                      !.status = "creating"])
  /\ UNCHANGED <<live, rev, net, receipt, faults, foreign>>

Send(r, q, pc) ==
  /\ net' = net \cup {q}
  /\ Becomes(r, [run[r] EXCEPT !.pc = pc, !.asked = q, !.answer = NoAnswer])
  /\ UNCHANGED <<live, rev, receipt, faults, foreign>>

Request(r, kind, n, uid, rv) ==
  [kind |-> kind, run |-> r, op |-> run[r].op, obj |-> n, uid |-> uid,
   rv |-> rv, try |-> run[r].tries]

SendCreate(r) ==
  /\ run[r].pc = "create"
  /\ Send(r, Request(r, "create", run[r].at, None, 0), "create-sent")

\* Mutant: the cursor is not reset before the nonce-removal loop.
CreatedNoReset(r, o) ==
  [run[r] EXCEPT !.book[run[r].at] = [uid |-> o.uid, st |-> "not-started"],
     !.pc = "save", !.asked = None, !.answer = NoAnswer, !.at = @ + 1,
     !.cont = IF run[r].at < N THEN "create" ELSE "intent"]

\* Append the record, journal object-created, and commit it before the next
\* object (or, after the last, before the nonces come off).
Created(r, o) ==
  LET m == run[r] IN
  [m EXCEPT !.book[m.at] = [uid |-> o.uid, st |-> "not-started"],
            !.pc = "save", !.asked = None, !.answer = NoAnswer,
            !.cont = IF m.at < N THEN "create" ELSE "intent",
            !.at = IF m.at < N THEN m.at + 1 ELSE 1]

\* _bind_created: an exact answer is bound, a 409 is never adopted.
BindAnswer(r) ==
  /\ run[r].pc = "create-sent" /\ run[r].answer # NoAnswer
  /\ Becomes(r, IF run[r].answer.code = "ok"
                  THEN Created(r, run[r].answer.obj)
                  ELSE Abort(r, FALSE))
  /\ UNCHANGED <<live, rev, net, receipt, faults, foreign>>

\* Any other outcome, also an unreadable 201, is uncertain: look it up.
CreateUncertain(r) ==
  /\ run[r].pc = "create-sent" /\ Spend
  /\ net' = Abandoned(r)
  /\ Becomes(r, [run[r] EXCEPT !.pc = "discover", !.asked = None,
                               !.answer = NoAnswer])
  /\ UNCHANGED <<live, rev, receipt, foreign>>

\* Mutant: discovery adopts a look-alike that lacks this nonce.
DiscoverAdopts(r) ==
  LET o == live[run[r].at] IN
  /\ run[r].pc = "discover"
  /\ Becomes(r, IF o # None /\ o.exact THEN Created(r, o) ELSE Abort(r, TRUE))
  /\ UNCHANGED <<live, rev, net, receipt, faults, foreign>>

\* Own it only by this nonce and exact semantics; else it stays unresolved.
Discover(r) ==
  LET o == live[run[r].at] IN
  /\ run[r].pc = "discover"
  /\ Becomes(r, IF o # None /\ o.tag = r /\ o.exact
                  THEN Created(r, o) ELSE Abort(r, TRUE))
  /\ UNCHANGED <<live, rev, net, receipt, faults, foreign>>

\* Mutant: the intent is journalled but not committed before the patch.
MarkIntentInMemory(r) ==
  /\ run[r].pc = "intent"
  /\ Becomes(r, [run[r] EXCEPT !.book[run[r].at].st = "intent-durable",
                   !.intents = @ \cup {run[r].at}, !.tries = 0,
                   !.status = "removing-nonces", !.pc = "strip"])
  /\ UNCHANGED <<live, rev, net, receipt, faults, foreign>>

\* The removal intent for this UID is durable before the patch is sent.
MarkIntent(r) ==
  LET m == run[r] IN
  /\ m.pc = "intent"
  /\ Becomes(r, [m EXCEPT !.book[m.at].st = "intent-durable",
                          !.intents = @ \cup {m.at}, !.tries = 0,
                          !.status = "removing-nonces",
                          !.pc = "save", !.cont = "strip"])
  /\ UNCHANGED <<live, rev, net, receipt, faults, foreign>>

Removed(r) ==
  LET m == run[r] IN
  [m EXCEPT !.book[m.at].st = "removed", !.pc = "save",
            !.asked = None, !.answer = NoAnswer,
            !.cont = IF m.at < N THEN "intent" ELSE "final",
            !.at = IF m.at < N THEN m.at + 1 ELSE 1]

\* remove_nonce: re-read before every try.  A nonce already gone from the
\* same exact object is the lost answer of an earlier try.
StillMine(o, rec) == o # None /\ o.uid = rec.uid /\ o.exact

SendPatch(r) ==
  LET m == run[r]  o == live[m.at] IN
  /\ m.pc = "strip"
  /\ StillMine(o, m.book[m.at]) /\ o.tag = r
  /\ Send(r, Request(r, "patch", m.at, o.uid, o.rv), "patch-sent")

NothingToPatch(r) ==
  LET m == run[r]  o == live[m.at] IN
  /\ m.pc = "strip"
  /\ ~(StillMine(o, m.book[m.at]) /\ o.tag = r)
  /\ Becomes(r, IF StillMine(o, m.book[m.at]) /\ o.tag = None
                  THEN Removed(r) ELSE Abort(r, FALSE))
  /\ UNCHANGED <<live, rev, net, receipt, faults, foreign>>

Retry(r) ==
  IF run[r].tries + 1 < PatchAttempts
    THEN [run[r] EXCEPT !.pc = "strip", !.tries = @ + 1, !.asked = None,
                        !.answer = NoAnswer]
    ELSE Abort(r, FALSE)

PatchAnswered(r) ==
  /\ run[r].pc = "patch-sent" /\ run[r].answer # NoAnswer
  /\ Becomes(r, IF run[r].answer.code = "conflict" THEN Retry(r)
                ELSE IF run[r].answer.obj.exact THEN Removed(r)
                ELSE Abort(r, FALSE))
  /\ UNCHANGED <<live, rev, net, receipt, faults, foreign>>

PatchUncertain(r) ==
  /\ run[r].pc = "patch-sent" /\ Spend
  /\ net' = Abandoned(r)
  /\ Becomes(r, Retry(r))
  /\ UNCHANGED <<live, rev, receipt, foreign>>

\* Re-read every object: same UID, exact, nonce-free; then dormant-ready.
CheckFinal(r) ==
  LET m == run[r]  o == live[m.at] IN
  /\ m.pc = "final"
  /\ Becomes(r,
       IF ~(StillMine(o, m.book[m.at]) /\ o.tag = None)
         THEN Abort(r, FALSE)
       ELSE IF m.at < N THEN [m EXCEPT !.at = m.at + 1]
       ELSE [m EXCEPT !.status = "dormant-ready", !.pc = "save",
                      !.cont = "done"])
  /\ UNCHANGED <<live, rev, net, receipt, faults, foreign>>

\* A read, a check or a signal raises: inside the try it rolls back; before
\* the try, and before a recovery or teardown begins to delete, it ends the
\* run.  Signals are ignored from begin_rollback on.
Raise(r) ==
  LET m == run[r] IN
  /\ Spend
  /\ \/ m.guarded /\ Becomes(r, Abort(r, FALSE))
     \/ m.pc \in {"absent", "scan", "tscan"} /\ Becomes(r, Exit(r))
  /\ net' = Abandoned(r)
  /\ UNCHANGED <<live, rev, receipt, foreign>>

Crash(r) ==
  /\ run[r].pc \notin {"idle", "done", "crashed"} /\ Spend
  /\ Becomes(r, Gone(r, "crashed"))
  /\ net' = Abandoned(r)
  /\ UNCHANGED <<live, rev, receipt, foreign>>

-----
\* _rollback, shared by the three modes.

Durable == {"intent-durable", "removed"}

\* Mutant: deletes in creation order.
NextVictimForward(n, S) == n \in S /\ \A k \in S : n <= k

\* Kustomizations first, each group in reverse creation order.
NextVictim(n, S) ==
  /\ n \in S
  /\ IF n \in Kust THEN \A k \in S \cap Kust : k <= n
                   ELSE S \cap Kust = {} /\ \A k \in S : k <= n

\* Delete only the recorded UID, exact, and either under this nonce or
\* nonce-free with a durable removal intent.  A teardown knows no nonce.
MayDelete(r, n) ==
  LET o == live[n]  rec == run[r].own[n] IN
  /\ StillMine(o, rec)
  /\ \/ run[r].mode # "teardown" /\ o.tag = run[r].op
     \/ rec.st \in Durable /\ o.tag = None

SendDelete(r) ==
  /\ run[r].pc = "rollback"
  /\ \E n \in Objs :
       /\ NextVictim(n, run[r].todo)
       /\ MayDelete(r, n)
       /\ Send(r, Request(r, "delete", n, live[n].uid, live[n].rv),
               "delete-sent")

\* An absent object needs no delete; one that fails the checks, or whose
\* read fails, is left alone and remembered as an error.
Skip(r) ==
  /\ run[r].pc = "rollback"
  /\ \E n \in Objs :
       /\ NextVictim(n, run[r].todo)
       /\ ~MayDelete(r, n)
       /\ Becomes(r, [run[r] EXCEPT !.todo = @ \ {n},
                                    !.err = @ \/ live[n] # None])
  /\ UNCHANGED <<live, rev, net, receipt, faults, foreign>>

SkipUnread(r) ==
  /\ run[r].pc = "rollback" /\ Spend
  /\ \E n \in Objs :
       /\ NextVictim(n, run[r].todo)
       /\ Becomes(r, [run[r] EXCEPT !.todo = @ \ {n}, !.err = TRUE])
  /\ UNCHANGED <<live, rev, net, receipt, foreign>>

DeleteSettled(r, failed) ==
  [run[r] EXCEPT !.pc = "rollback", !.todo = @ \ {run[r].asked.obj},
                 !.err = @ \/ failed, !.asked = None, !.answer = NoAnswer]

DeleteAnswered(r) ==
  /\ run[r].pc = "delete-sent" /\ run[r].answer # NoAnswer
  /\ Becomes(r, DeleteSettled(r, run[r].answer.code = "conflict"))
  /\ UNCHANGED <<live, rev, net, receipt, faults, foreign>>

DeleteUncertain(r) ==
  /\ run[r].pc = "delete-sent" /\ Spend
  /\ net' = Abandoned(r)
  /\ Becomes(r, DeleteSettled(r, TRUE))
  /\ UNCHANGED <<live, rev, receipt, foreign>>

BeginWait(r) ==
  /\ run[r].pc = "rollback" /\ run[r].todo = {}
  /\ Becomes(r, [run[r] EXCEPT !.pc = "wait", !.at = 1, !.tries = 0])
  /\ UNCHANGED <<live, rev, net, receipt, faults, foreign>>

\* wait_all_absent reads the names one after the other; a round that finds
\* one restarts the quiet interval.
WaitAbsent(r) ==
  LET m == run[r] IN
  /\ m.pc = "wait"
  /\ \/ /\ live[m.at] = None
        /\ Becomes(r,
             IF m.at < N THEN [m EXCEPT !.at = m.at + 1]
             ELSE IF m.tries + 1 < QuietRounds
               THEN [m EXCEPT !.at = 1, !.tries = @ + 1]
             ELSE [m EXCEPT !.pc = "conclude"])
     \/ /\ live[m.at] # None /\ (m.at > 1 \/ m.tries > 0)
        /\ Becomes(r, [m EXCEPT !.at = 1, !.tries = 0])
  /\ UNCHANGED <<live, rev, net, receipt, faults, foreign>>

\* Mutant: running into the deadline is not an error.
WaitDeadlineSilent(r) ==
  /\ run[r].pc = "wait" /\ \E n \in Objs : live[n] # None
  /\ Becomes(r, [run[r] EXCEPT !.pc = "conclude"])
  /\ UNCHANGED <<live, rev, net, receipt, faults, foreign>>

\* Mutant: the deadline is looked at only after a clean round.
WaitDeadlineLate(r) ==
  /\ run[r].pc = "wait" /\ run[r].tries > 0
  /\ \E n \in Objs : live[n] # None
  /\ Becomes(r, [run[r] EXCEPT !.pc = "conclude", !.err = TRUE])
  /\ UNCHANGED <<live, rev, net, receipt, faults, foreign>>

\* The deadline passes while some name is still held.
WaitDeadline(r) ==
  /\ run[r].pc = "wait" /\ \E n \in Objs : live[n] # None
  /\ Becomes(r, [run[r] EXCEPT !.pc = "conclude", !.err = TRUE])
  /\ UNCHANGED <<live, rev, net, receipt, faults, foreign>>

WaitUnread(r) ==
  /\ run[r].pc = "wait" /\ Spend
  /\ Becomes(r, [run[r] EXCEPT !.pc = "conclude", !.err = TRUE])
  /\ UNCHANGED <<live, rev, net, receipt, foreign>>

Verdict(r, err) ==
  CASE run[r].mode = "live" ->
         IF err THEN "rollback-incomplete" ELSE "rolled-back"
    [] run[r].mode = "recover" ->
         IF err THEN "recovery-incomplete" ELSE "recovered-rolled-back"
    [] run[r].mode = "teardown" ->
         IF err THEN "teardown-incomplete" ELSE "dormant-torn-down"

\* final_checks and the last reads may raise too; then the verdict commits.
Concludes(r, err) ==
  [run[r] EXCEPT !.err = err, !.status = Verdict(r, err), !.pc = "save",
                 !.cont = "done"]

Conclude(r) ==
  /\ run[r].pc = "conclude"
  /\ \/ Becomes(r, Concludes(r, run[r].err)) /\ UNCHANGED faults
     \/ Becomes(r, Concludes(r, TRUE)) /\ Spend
  /\ UNCHANGED <<live, rev, net, receipt, foreign>>

-----
\* _recover: finish the rollback of an interrupted live run.

\* The operator starts it only once that run has ended.
StartRecover(r, p) ==
  /\ MayStart(r) /\ Ended(p) /\ receipt[p] # None
  /\ receipt[p].mode = "live" /\ receipt[p].status # "dormant-ready"
  /\ Becomes(r, [run[r] EXCEPT !.mode = "recover", !.op = p,
                   !.book = receipt[p].recs, !.intents = receipt[p].intents,
                   !.status = "recovering", !.pc = "save", !.cont = "scan"])
  /\ UNCHANGED <<live, rev, net, receipt, faults, foreign>>

\* Mutant: only an acknowledged removal counts, not its durable intent.
ProvenByAck(m, n) ==
  /\ m.book[n] # None /\ m.book[n].uid = live[n].uid
  /\ m.book[n].st = "removed" /\ n \in m.intents
  /\ live[n].tag = None /\ live[n].exact

\* What the receipt alone proves: this UID, after a durable intent.
Proven(m, n) ==
  /\ m.book[n] # None /\ m.book[n].uid = live[n].uid
  /\ m.book[n].st \in Durable /\ n \in m.intents
  /\ live[n].tag = None /\ live[n].exact

Scanned(m, own, err) ==
  IF m.at < N THEN [m EXCEPT !.own = own, !.err = err, !.at = m.at + 1]
  ELSE [m EXCEPT !.own = own, !.err = err, !.pc = "rollback",
                 !.todo = {n \in Objs : own[n] # None}]

Scan(r) ==
  LET m == run[r]  n == m.at
      Found(st) == [m.own EXCEPT ![n] = [uid |-> live[n].uid, st |-> st]]
  IN
  /\ m.pc = "scan"
  /\ Becomes(r,
       IF live[n] = None THEN Scanned(m, m.own, m.err)
       ELSE IF live[n].tag = m.op /\ live[n].exact
         THEN Scanned(m, Found("not-started"), m.err)
       ELSE IF Proven(m, n) THEN Scanned(m, Found("removed"), m.err)
       ELSE Scanned(m, m.own, TRUE))
  /\ UNCHANGED <<live, rev, net, receipt, faults, foreign>>

ScanUnread(r) ==
  /\ run[r].pc = "scan" /\ Spend
  /\ Becomes(r, Scanned(run[r], run[r].own, TRUE))
  /\ UNCHANGED <<live, rev, net, receipt, foreign>>

-----
\* _teardown: delete what a successful run's receipt binds.

\* bind_success_receipt.
Binds(c) ==
  /\ c # None /\ c.mode = "live" /\ c.status = "dormant-ready"
  /\ \A n \in Objs : c.recs[n] # None /\ c.recs[n].st = "removed"

StartTeardown(r, p) ==
  /\ MayStart(r) /\ Binds(receipt[p])
  /\ Becomes(r, [run[r] EXCEPT !.mode = "teardown", !.op = p,
                   !.book = receipt[p].recs, !.own = receipt[p].recs,
                   !.status = "tearing-down", !.pc = "tscan"])
  /\ UNCHANGED <<live, rev, net, receipt, faults, foreign>>

\* All are checked before the first delete; one failed check forbids all.
TornScan(m, err) ==
  IF m.at < N THEN [m EXCEPT !.err = err, !.at = m.at + 1]
  ELSE [m EXCEPT !.err = err, !.pc = "save",
                 !.cont = IF err THEN "conclude" ELSE "rollback",
                 !.todo = {n \in Objs : m.own[n] # None}]

ScanTeardown(r) ==
  LET m == run[r]  o == live[m.at] IN
  /\ m.pc = "tscan"
  /\ \/ /\ Becomes(r, TornScan(m, m.err \/
              ~(o = None \/ (StillMine(o, m.own[m.at]) /\ o.tag = None))))
        /\ UNCHANGED faults
     \/ Becomes(r, TornScan(m, TRUE)) /\ Spend
  /\ UNCHANGED <<live, rev, net, receipt, foreign>>

-----
Work(r) ==
  \/ Persist(r) \/ CheckAbsent(r) \/ SendCreate(r) \/ BindAnswer(r)
  \/ Discover(r) \/ MarkIntent(r) \/ SendPatch(r) \/ NothingToPatch(r)
  \/ PatchAnswered(r) \/ CheckFinal(r) \/ SendDelete(r) \/ Skip(r)
  \/ DeleteAnswered(r) \/ BeginWait(r) \/ WaitAbsent(r) \/ Conclude(r)
  \/ Scan(r) \/ ScanTeardown(r) \/ WaitDeadline(r)

Fail(r) ==
  \/ PersistFails(r) \/ CreateUncertain(r) \/ PatchUncertain(r) \/ Raise(r)
  \/ Crash(r) \/ SkipUnread(r) \/ DeleteUncertain(r) \/ WaitUnread(r)
  \/ ScanUnread(r)

Serve == \E q \in net : ServeCreate(q) \/ ServePatch(q) \/ ServeDelete(q)

Others(n) ==
  \/ ForeignCreate(n) \/ ForeignDelete(n) \/ ControllerTouch(n)
  \/ ForeignStrip(n) \/ ForeignEdit(n)

Next ==
  \/ \E r \in Runs : StartLive(r) \/ Work(r) \/ Fail(r)
  \/ \E r, p \in Runs : StartRecover(r, p) \/ StartTeardown(r, p)
  \/ \E n \in Objs : FinishDelete(n) \/ Others(n)
  \/ Serve

Spec == Init /\ [][Next]_vars

-----
\* Properties.

Owner(n) == live[n].uid.by

\* Whatever DELETE is on its way names a UID that the operation itself made:
\* no look-alike, replacement or other run's object is ever deleted
\* (_rollback's UID, nonce and intent checks over all three modes).
OnlyOwnDeleted == \A q \in net : q.kind = "delete" => q.uid.by = q.op

\* Every object a run made that nobody else edited can be reached from the
\* receipt on disk at every instant, whichever step was last: by recovery
\* (the nonce is on it, or the receipt holds its UID after a durable removal
\* intent) or, once the receipt says dormant-ready, by teardown.
Reclaimable ==
  \A n \in Objs :
    live[n] # None /\ Owner(n) # Foreign /\ ~live[n].touched =>
      LET c == receipt[Owner(n)]
          proven == c.recs[n] # None /\ c.recs[n].uid = live[n].uid
                    /\ c.recs[n].st \in Durable /\ n \in c.intents
      IN /\ c # None /\ c.mode = "live"
         /\ IF c.status = "dormant-ready"
              THEN Binds(c) /\ proven /\ live[n].tag = None
              ELSE live[n].tag = Owner(n) \/ (live[n].tag = None /\ proven)

\* A receipt on disk that says dormant-ready is right, as long as nobody else
\* writes and nobody tears the bootstrap down.  If the command ended in success
\* the receipt does say so, and every object is there, exact, nonce-free and as
\* recorded.  If it did not (the commit raised after its rename, the rollback
\* followed, and its own commit may fail too), the receipt is wrong of what that
\* rollback took, and of nothing else: an object of the run that is still there
\* is as recorded, so that a teardown can take it.
SuccessHolds ==
  foreign = 0 =>
    \A r \in Runs :
      LET c == receipt[r]
          succeeded == /\ run[r].pc = "done" /\ run[r].mode = "live"
                       /\ run[r].status = "dormant-ready"
          claimed == /\ c # None /\ c.mode = "live"
                     /\ c.status = "dormant-ready"
          asBound(n) == /\ StillMine(live[n], c.recs[n])
                        /\ live[n].tag = None /\ Owner(n) = r
      IN /\ succeeded => claimed
         /\ claimed /\ (\A t \in Runs : run[t].mode = "teardown" => run[t].op # r)
              => \A n \in Objs :
                   \/ asBound(n)
                   \/ ~succeeded /\ (live[n] # None => Owner(n) # r)

\* Object n of operation p may stand under a receipt that says all is gone: it
\* is the POST whose answer p never read and that was served after all.  There
\* is one such object at most, the next after those on record.
Unread(p, n) ==
  /\ Linger /\ receipt[p].recs[n] = None
  /\ \A k \in Objs : k < n => receipt[p].recs[k] # None

\* A receipt on disk that says rolled-back, recovered-rolled-back or
\* dormant-torn-down is right, now and later: none of the operation's objects
\* is left, but for a POST whose answer was lost or interrupted and whose
\* request outlived its client.
CompleteMeansGone ==
  \A r \in Runs :
    receipt[r] # None /\ receipt[r].status \in Complete =>
      \A n \in Objs :
        live[n] # None /\ Owner(n) = receipt[r].op => Unread(receipt[r].op, n)

\* What a durable receipt says is so, of success and of removal, however often
\* the operation was recovered or torn down, with these two exceptions: the
\* commit of a success that raised after its rename (ReceiptSink.commit), and the
\* one POST that is served after the rollback that did not know of it.
VerdictsHold == SuccessHolds /\ CompleteMeansGone

\* RBAC goes last: while a DELETE of an RBAC object is on its way, each
\* Kustomization this run set out to delete is gone or terminating, unless
\* the run already knows that it will not report completion.
KustomizationsFirst ==
  \A q \in net :
    q.kind = "delete" /\ q.obj \notin Kust /\ run[q.run].asked = q =>
      \A k \in Kust :
        /\ run[q.run].own[k] # None /\ live[k] # None
        /\ live[k].uid = run[q.run].own[k].uid
        => live[k].going \/ run[q.run].err

\* Creation is never resumed: a POST is sent only by a live run whose durable
\* receipt says creating, so never before the names were seen absent and
\* never by recovery or teardown.
PostOnlyWhileCreating ==
  [][\A q \in net' \ net :
       q.kind = "create" => /\ receipt[q.run] # None
                            /\ receipt[q.run].mode = "live"
                            /\ receipt[q.run].status = "creating"]_vars

\* Assumed for liveness: the API serves, a run goes on and its deadlines
\* pass, and an operator recovers what was interrupted.
Recovery(p) ==
  \E r \in Runs :
    /\ \A n \in Objs : live[n] # None => live[n].uid.by = p
    /\ \E n \in Objs : live[n] # None
    /\ StartRecover(r, p)

Fairness ==
  /\ \A r \in Runs : WF_vars(Work(r)) /\ WF_vars(WaitDeadline(r))
  /\ \A p \in LiveRuns : WF_vars(Recovery(p))
  /\ WF_vars(Serve)
  /\ \A n \in Kust : WF_vars(FinishDelete(n))

FairSpec == Spec /\ Fairness

\* Every execution of the command ends by itself: no wait is unbounded.
Terminates ==
  \A r \in Runs : run[r].pc # "idle" ~> Ended(r)

\* An interrupted bootstrap that the operator recovers, as often as faults
\* require, ends with none of its objects left in the cluster.
InterruptedIsCleaned ==
  \A p \in Runs :
    run[p].pc = "crashed" /\ run[p].mode = "live"
      /\ receipt[p] # None /\ receipt[p].status # "dormant-ready"
      ~> \A n \in Objs : live[n] # None => Owner(n) # p

=============================================================================
