------------------------- MODULE WorkbenchHandover -------------------------
\* The one-time workbench baseline handover of
\* scripts/workbench_baseline_handover.py: one transaction, spread over as
\* many executions of the command as its interruptions require, creates
\* four suspended Flux objects, hands an existing NetworkPolicy to a new
\* owner and unsuspends Flux; anything that fails is rolled back,
\* suspension first.  A journal is committed around every mutation; a
\* receipt, once it is durable, is never replaced.
\*
\* One process runs at a time, and a request ends with the kubectl that
\* sent it (subprocess.run kills it at its timeout): it is served at once,
\* its answer may be lost, or it is never served.
EXTENDS Naturals

CONSTANTS
  N,           \* how many objects; object_order() is 1..N (4 in the code)
  None,        \* nothing: no object, record, journal, receipt
  Kinds,       \* which failures are considered
  MaxFaults,   \* bound: failures
  MaxForeign   \* bound: writes by others

Objs == 1..N
Kust == N      \* the Kustomization is the last of object_order()

AllKinds == {"crash",   \* the process dies
             "signal",  \* SIGINT or SIGTERM
             "read",    \* a GET raises after its retries
             "answer",  \* a mutation raises, served or not
             "commit"}  \* a journal or receipt commit raises, replaced or not

ASSUME HandoverConstants ==
  /\ N \in Nat /\ N > 1
  /\ Kinds \subseteq AllKinds
  /\ MaxFaults \in Nat /\ MaxForeign \in Nat

VARIABLES
  live,      \* what each of the four exact names holds
  np,        \* the existing NetworkPolicy
  journal,   \* the durable journal file
  receipt,   \* the status of the durable receipt file
  proc,      \* the memory of the running process
  faults, foreign

vars == <<live, np, journal, receipt, proc, faults, foreign>>

-----
\* Values.  The transaction posts each name at most once, so the UIDs of
\* its own objects need no further name.

\* mark: our operation marker; susp: spec.suspend (TRUE for the RBAC
\* objects); exact: the protected semantics; ready: Flux reports Ready at
\* the protected revision; going: deletionTimestamp set.
Objects == [uid : {"ours", "other"}, mark : BOOLEAN, susp : BOOLEAN,
            exact : BOOLEAN, ready : BOOLEAN, going : BOOLEAN, rv : Nat]

\* replaced: absent or another UID; drift: this UID, other semantics.
Policies == [state : {"before", "adopted", "reconciled", "drift", "replaced"},
             rv : Nat]

Complete == {"rolled-back", "recovered-rolled-back"}
Incomplete == {"rollback-incomplete", "recovered-rollback-incomplete"}
RollbackStatuses == Complete \cup Incomplete

Records == [uid : {"ours", "other"}, clean : BOOLEAN]

\* open: the last event is "before" or "uncertain".
Stages == {"none", "open", "conflict", "after"}
Journals ==
  [status : {"in-progress", "finalizing", "rollback-finalizing", "completed"}
              \cup RollbackStatuses,
   recs : [Objs -> Records \cup {None}],
   create : [Objs -> Stages], strip : [Objs -> Stages],
   rollback : {"none", "pending"} \cup RollbackStatuses]

FreshJournal ==
  [status |-> "in-progress", recs |-> [n \in Objs |-> None],
   create |-> [n \in Objs |-> "none"], strip |-> [n \in Objs |-> "none"],
   rollback |-> "none"]

Receipts == {None, "blocked", "completed"} \cup RollbackStatuses

\* The value for nothing is used for nothing else.
ASSUME NoneIsApart ==
  /\ None \notin Objects /\ None \notin Records /\ None \notin Journals
  /\ None \notin {"blocked", "completed"} \cup RollbackStatuses

Guarded == {"create", "post", "bind", "look", "strip", "unmark", "unmarked",
            "relook", "adopt", "activate", "unsuspend", "ready", "final",
            "receipt"}
Discovering == {"rediscover", "remark"}
Suspending == {"suspend", "suspending"}
Restoring == {"restore", "restoring"}
Deleting == {"delete", "owned", "deleting", "waiting", "classify"}
RollingBack == Suspending \cup Restoring \cup Deleting \cup {"settle"}
Concluding == {"prepare", "rreceipt", "rfinal", "rebuild", "finish"}
PCs == {"idle", "save", "preflight", "reserve", "end"} \cup Guarded
         \cup Discovering \cup RollingBack \cup Concluding

Memory ==
  [pc : PCs, cont : PCs, at : 0..N, j : Journals, nprv : Nat,
   answer : Objects \cup {None}, retry : BOOLEAN, recovered : BOOLEAN,
   active : BOOLEAN, gone : BOOLEAN, pend : BOOLEAN, err : BOOLEAN,
   claim : Receipts, stale : BOOLEAN]

NoProcess ==
  [pc |-> "idle", cont |-> "idle", at |-> 0, j |-> FreshJournal,
   nprv |-> 0, answer |-> None, retry |-> FALSE, recovered |-> FALSE,
   active |-> FALSE, gone |-> FALSE, pend |-> FALSE, err |-> FALSE,
   claim |-> None, stale |-> FALSE]

TypeOK ==
  /\ live \in [Objs -> Objects \cup {None}]
  /\ np \in Policies
  /\ journal \in Journals \cup {None}
  /\ receipt \in Receipts
  /\ proc \in Memory
  /\ faults \in Nat /\ foreign \in Nat

Init ==
  /\ live = [n \in Objs |-> None]
  /\ np = [state |-> "before", rv |-> 0]
  /\ journal = None /\ receipt = None
  /\ proc = NoProcess
  /\ faults = 0 /\ foreign = 0

-----
\* What the code asks of an object it has read.

\* _exact_marked_candidate
ExactMarked(o) == o # None /\ o.mark /\ o.exact /\ o.susp

\* _static_candidate, validate_flux_suspended: the marker-free desired object
Static(o, uid) == o # None /\ o.uid = uid /\ ~o.mark /\ o.exact /\ o.susp

\* The unsuspended Kustomization that Flux reconciles.
Active(o, uid) == o # None /\ o.uid = uid /\ ~o.mark /\ o.exact /\ ~o.susp

\* _marker_conflict_open: the gap between a known stale CAS and its retry.
ConflictOpen(j) ==
  j.recs[Kust] # None /\ ~j.recs[Kust].clean /\ j.strip[Kust] = "conflict"

SuspensionProof(j, o) ==
  IF ConflictOpen(j) THEN ExactMarked(o) /\ o.uid = j.recs[Kust].uid
                     ELSE Static(o, j.recs[Kust].uid)

\* _owned_created: the recorded UID in one of the recorded forms.
Deletable(j, n, o) ==
  /\ o.uid = j.recs[n].uid /\ o.exact
  /\ IF n = Kust /\ ConflictOpen(j) THEN ExactMarked(o)
                                    ELSE o.susp \/ (n = Kust /\ ~o.mark)

\* _verify_rollback_live_postconditions
LiveProof(j, claim) ==
  IF claim \in Complete
    THEN /\ np.state = "before"
         /\ \A n \in Objs : j.recs[n] # None => live[n] = None
    ELSE np.state = "replaced" \/
         \A n \in Objs :
           j.recs[n] # None /\ live[n] # None /\ live[n].uid = j.recs[n].uid
             => live[n].exact

-----
\* The API server, Flux and other writers.

Step(m) == proc' = m

Write(n, o) == live' = [live EXCEPT ![n] = o]

\* A Kustomization with the Flux finalizer stays until Flux lets it go.
FinishDelete(n) ==
  /\ live[n] # None /\ live[n].going
  /\ Write(n, None)
  /\ UNCHANGED <<np, journal, receipt, proc, faults, foreign>>

\* Flux applies the NetworkPolicy of an unsuspended Kustomization and labels
\* it with its inventory.
Reconcile ==
  /\ live[Kust] # None /\ ~live[Kust].susp /\ ~live[Kust].going
  /\ ~live[Kust].ready
  /\ np.state \in {"before", "adopted", "reconciled"}
  /\ np' = [state |-> "reconciled", rv |-> np.rv + 1]
  /\ Write(Kust, [live[Kust] EXCEPT !.ready = TRUE, !.rv = @ + 1])
  /\ UNCHANGED <<journal, receipt, proc, faults, foreign>>

ByOthers ==
  /\ foreign < MaxForeign /\ foreign' = foreign + 1
  /\ UNCHANGED <<journal, receipt, proc, faults>>

\* A look-alike under one of the names.
ForeignCreate(n) ==
  /\ live[n] = None /\ UNCHANGED np
  /\ Write(n, [uid |-> "other", mark |-> FALSE, susp |-> TRUE, exact |-> TRUE,
               ready |-> FALSE, going |-> FALSE, rv |-> 0])
  /\ ByOthers

ForeignDelete(n) ==
  live[n] # None /\ Write(n, None) /\ UNCHANGED np /\ ByOthers

\* A status or finalizer write: only the resourceVersion changes.
ForeignTouch(n) ==
  /\ live[n] # None /\ UNCHANGED np
  /\ Write(n, [live[n] EXCEPT !.rv = @ + 1])
  /\ ByOthers

ForeignEdit(n) ==
  /\ live[n] # None /\ UNCHANGED np
  /\ Write(n, [live[n] EXCEPT !.exact = FALSE, !.rv = @ + 1])
  /\ ByOthers

ForeignPolicy ==
  /\ np' \in [state : {np.state, "drift", "replaced"}, rv : {np.rv + 1}]
  /\ UNCHANGED live
  /\ ByOthers

-----
\* The process: its ends, its commits and what it does when a step raises.

Quiet == UNCHANGED <<live, np, journal, receipt, faults, foreign>>

Fault(kind) ==
  kind \in Kinds /\ faults < MaxFaults /\ faults' = faults + 1

Named(recovered, incomplete) ==
  IF recovered
    THEN IF incomplete THEN "recovered-rollback-incomplete"
                       ELSE "recovered-rolled-back"
    ELSE IF incomplete THEN "rollback-incomplete" ELSE "rolled-back"

Saving(j, cont) == [proc EXCEPT !.j = j, !.pc = "save", !.cont = cont]

\* _rollback_transaction starts afresh from the journal it is given.
Rollback(j, recovered, active) ==
  [NoProcess EXCEPT !.pc = "suspend", !.j = j, !.recovered = recovered,
                    !.active = active, !.gone = (j.recs[Kust] = None),
                    !.stale = proc.stale]

\* Mutant: the sink is not re-read, so a receipt that became durable under a
\* commit that raised is rolled back.
AbortBlindly(j, durable) == Rollback(j, FALSE, TRUE)

\* run()'s except clause: never roll back under a durable success receipt.
Abort(j, durable) ==
  IF durable = "completed" THEN NoProcess ELSE Rollback(j, FALSE, TRUE)

Unproven == [proc EXCEPT !.err = TRUE, !.pc = "settle"]
Unrestored == [proc EXCEPT !.err = TRUE, !.pc = "delete", !.at = N]

\* A Kustomization whose deletion failed ends the deletions; an RBAC object
\* only counts as an error.
Undeleted ==
  IF proc.at = Kust
    THEN [proc EXCEPT !.err = TRUE, !.gone = FALSE, !.pc = "settle"]
    ELSE [proc EXCEPT !.err = TRUE, !.at = @ - 1, !.pc = "delete"]

\* A complete claim that cannot be proved becomes the incomplete one; an
\* incomplete claim that cannot be proved is not written at all.
Unverified ==
  IF proc.claim \in Complete
    THEN LET c == Named(proc.claim = "recovered-rolled-back", TRUE) IN
         [proc EXCEPT !.claim = c, !.j.rollback = c, !.pc = "save",
                      !.cont = "rreceipt"]
    ELSE NoProcess

Raised(where) ==
  CASE where \in Guarded -> Abort(proc.j, receipt')
    [] where \in Suspending -> Unproven
    [] where \in Restoring -> Unrestored
    [] where \in Deleting -> Undeleted
    [] where = "prepare" -> Unverified
    [] OTHER -> NoProcess

\* Where the next thing the process does is a GET it needs an answer to.
Reading ==
  CASE proc.pc = "suspend" -> proc.j.recs[Kust] # None
    [] proc.pc = "delete" ->
         /\ proc.at > 0 /\ proc.j.recs[proc.at] # None
         /\ proc.at = Kust \/ proc.gone
    [] proc.pc = "rediscover" -> proc.j.create[proc.at] = "open"
    [] proc.pc = "remark" -> proc.j.strip[proc.at] = "open"
    [] OTHER -> proc.pc \in {"look", "relook", "activate", "final", "restore",
                             "owned", "waiting", "classify", "prepare",
                             "rfinal", "rebuild", "finish"}

\* Signals are raised while a handler listens and rollbackActive is not set.
\* During a recovery they restart the rollback, unless a step of the rollback
\* is under way and takes them for its own failure.
Interrupted(where) ==
  CASE where \in Discovering \cup {"settle"} -> {Rollback(proc.j, TRUE, TRUE)}
    [] where = "bind" -> {Raised(where), [proc EXCEPT !.pc = "look"]}
    [] where = "unmarked" -> {Raised(where), [proc EXCEPT !.pc = "relook"]}
    [] where \in {"suspend", "restore", "delete"} ->
         {Rollback(proc.j, TRUE, TRUE)}
           \cup (IF Reading THEN {Raised(where)} ELSE {})
    [] OTHER -> {Raised(where)}

Listening(where) ==
  \/ where \in Guarded \cup Discovering \cup {"rebuild", "finish"}
  \/ where \in RollingBack /\ proc.recovered /\ ~proc.active

\* A mutation whose answer never comes; a signal is taken for that too.
NoAnswer == Fault("answer") \/ (Listening(proc.pc) /\ Fault("signal"))

\* JournalSink knows the file it replaces by its inode: a commit that raises
\* between the rename and the refresh of that identity makes every later one of
\* this process raise.
Staling(m) == IF m.pc = "idle" THEN m ELSE [m EXCEPT !.stale = TRUE]

\* JournalSink.commit and what follows it.
Save ==
  /\ proc.pc = "save" /\ ~proc.stale
  /\ journal' = proc.j
  /\ Step(IF proc.cont = "end" THEN NoProcess
          ELSE [proc EXCEPT !.pc = proc.cont])
  /\ UNCHANGED <<live, np, receipt, faults, foreign>>

\* It may raise before or after the replacement is visible.
SaveFails ==
  /\ proc.pc = "save" /\ ~proc.stale /\ UNCHANGED receipt
  /\ \E m \in {Raised(proc.cont)} \cup Interrupted(proc.cont) :
       /\ \/ UNCHANGED journal /\ Step(m)
          \/ journal' = proc.j /\ proc' \in {m, Staling(m)}
       /\ \/ m = Raised(proc.cont) /\ Fault("commit")
          \/ /\ m \in Interrupted(proc.cont)
             /\ Listening(proc.cont) /\ Fault("signal")
  /\ UNCHANGED <<live, np, foreign>>

SaveStale ==
  /\ proc.pc = "save" /\ proc.stale
  /\ UNCHANGED receipt /\ Step(Raised(proc.cont))
  /\ UNCHANGED <<live, np, journal, faults, foreign>>

\* A commit that repeats the journal's content raises at the same places.
ReadFails ==
  /\ Reading
  /\ UNCHANGED receipt
  /\ \/ Fault("read") /\ Step(Raised(proc.pc))
     \/ /\ proc.pc # "prepare" /\ Fault("commit")
        /\ proc' \in {Raised(proc.pc), Staling(Raised(proc.pc))}
  /\ UNCHANGED <<live, np, journal, foreign>>

Signal ==
  /\ Listening(proc.pc) /\ Fault("signal")
  /\ UNCHANGED receipt /\ proc' \in Interrupted(proc.pc)
  /\ UNCHANGED <<live, np, journal, foreign>>

Crash ==
  /\ proc.pc # "idle" /\ Fault("crash")
  /\ Step(NoProcess)
  /\ UNCHANGED <<live, np, journal, receipt, foreign>>

-----
\* The command is entered with the same two paths each time.

\* Mutant: a rollback left pending is taken for a finished one.
RecoverFinal(j) ==
  IF j.rollback # "none"
    THEN NoProcess
    ELSE [NoProcess EXCEPT !.j = j, !.pc = "rediscover", !.at = 1]

\* _recover_existing_journal
Recover(j) ==
  IF j.status \in {"in-progress", "finalizing"}
    THEN [NoProcess EXCEPT !.j = j, !.pc = "rediscover", !.at = 1]
  ELSE IF j.rollback = "pending" THEN Rollback(j, TRUE, TRUE)
  ELSE [NoProcess EXCEPT !.j = j, !.pc = "rebuild",
          !.claim = IF j.status = "rollback-finalizing"
                      THEN Named(TRUE, j.rollback \in Incomplete)
                      ELSE j.rollback]

\* A receipt without a journal, and a completed journal without a receipt,
\* are refused.
Enter ==
  /\ proc.pc = "idle"
  /\ \/ /\ journal = None /\ receipt = None
        /\ Step([NoProcess EXCEPT !.pc = "preflight"])
     \/ /\ journal # None /\ receipt = "completed"
        /\ Step([NoProcess EXCEPT !.j = journal, !.pc = "finish"])
     \/ /\ journal # None /\ receipt \in RollbackStatuses
        /\ Step([NoProcess EXCEPT !.j = journal, !.pc = "rfinal",
                                  !.claim = receipt])
     \/ /\ journal # None /\ receipt = None /\ journal.status # "completed"
        /\ Step(Recover(journal))
  /\ Quiet

-----
\* A fresh live run.

\* The exact predecessor policy, then the source, then four absent names.
Preflight ==
  /\ proc.pc = "preflight"
  /\ IF proc.at = 0 THEN np = [state |-> "before", rv |-> 0]
                    ELSE live[proc.at] = None
  /\ Step(IF proc.at < N THEN [proc EXCEPT !.at = @ + 1]
          ELSE [proc EXCEPT !.pc = "reserve"])
  /\ Quiet

\* Anything else, a stale source or an unreadable one, blocks the handover;
\* a failing commit of that receipt is ignored.
Blocked ==
  /\ proc.pc = "preflight"
  /\ Step(NoProcess)
  /\ \/ receipt' = "blocked" /\ UNCHANGED faults
     \/ UNCHANGED receipt /\ Fault("commit")
  /\ UNCHANGED <<live, np, journal, foreign>>

\* The journal is reserved before the first mutation; no handler yet.
Reserve ==
  /\ proc.pc = "reserve"
  /\ \/ /\ journal' = FreshJournal /\ UNCHANGED faults
        /\ Step([proc EXCEPT !.pc = "create", !.at = 1])
     \/ /\ journal' \in {None, FreshJournal} /\ Fault("commit")
        /\ Step(NoProcess)
  /\ UNCHANGED <<live, np, receipt, foreign>>

Create ==
  /\ proc.pc = "create"
  /\ Step(Saving([proc.j EXCEPT !.create[proc.at] = "open"], "post"))
  /\ Quiet

Marked == [uid |-> "ours", mark |-> TRUE, susp |-> TRUE, exact |-> TRUE,
           ready |-> FALSE, going |-> FALSE, rv |-> 0]

Post ==
  /\ proc.pc = "post"
  /\ \/ /\ live[proc.at] = None /\ Write(proc.at, Marked)
        /\ Step([proc EXCEPT !.pc = "bind", !.answer = Marked])
     \/ /\ live[proc.at] # None /\ UNCHANGED live
        /\ Step([proc EXCEPT !.pc = "look"])
  /\ UNCHANGED <<np, journal, receipt, faults, foreign>>

\* The answer is lost, and with it perhaps the request.
PostLost ==
  /\ proc.pc = "post" /\ NoAnswer
  /\ \/ UNCHANGED live
     \/ live[proc.at] = None /\ Write(proc.at, Marked)
  /\ Step([proc EXCEPT !.pc = "look"])
  /\ UNCHANGED <<np, journal, receipt, foreign>>

\* Mutant: the record is left to the marker removal.
BoundUnrecorded(o) ==
  [Saving([proc.j EXCEPT !.create[proc.at] = "after"], "strip")
     EXCEPT !.answer = o, !.retry = FALSE]

Bound(o) ==
  [Saving([proc.j EXCEPT !.recs[proc.at] = [uid |-> o.uid, clean |-> FALSE],
                         !.create[proc.at] = "after"], "strip")
     EXCEPT !.answer = o, !.retry = FALSE]

Bind == proc.pc = "bind" /\ Step(Bound(proc.answer)) /\ Quiet

\* An uncertain create is ours only by this marker and exact semantics.
Look ==
  /\ proc.pc = "look"
  /\ Step(IF ExactMarked(live[proc.at])
            THEN Bound(live[proc.at]) ELSE Abort(proc.j, receipt))
  /\ Quiet

Strip ==
  /\ proc.pc = "strip"
  /\ Step(Saving([proc.j EXCEPT !.strip[proc.at] = "open"], "unmark"))
  /\ Quiet

\* The JSON patch tests UID, resourceVersion and marker.
Strippable(o) ==
  /\ o # None /\ o.uid = proc.answer.uid /\ o.rv = proc.answer.rv
  /\ o.mark

Stripped(o) == [o EXCEPT !.mark = FALSE, !.rv = @ + 1]

Unmark ==
  /\ proc.pc = "unmark"
  /\ LET o == live[proc.at] IN
     \/ /\ Strippable(o) /\ Write(proc.at, Stripped(o))
        /\ Step([proc EXCEPT !.pc = "unmarked", !.answer = Stripped(o)])
     \/ /\ ~Strippable(o) /\ UNCHANGED live
        /\ Step([proc EXCEPT !.pc = "relook"])
  /\ UNCHANGED <<np, journal, receipt, faults, foreign>>

UnmarkLost ==
  /\ proc.pc = "unmark" /\ NoAnswer
  /\ \/ UNCHANGED live
     \/ Strippable(live[proc.at]) /\ Write(proc.at, Stripped(live[proc.at]))
  /\ Step([proc EXCEPT !.pc = "relook"])
  /\ UNCHANGED <<np, journal, receipt, foreign>>

\* Mutant: the cursor runs past the last object.
CleanedNoEnd ==
  LET n == proc.at IN
  [Saving([proc.j EXCEPT !.recs[n].clean = TRUE, !.strip[n] = "after"],
          IF n < N THEN "create" ELSE "adopt")
     EXCEPT !.at = n + 1]

\* _journal_update_created raises where there is no record to update.
Cleaned ==
  LET n == proc.at IN
  IF proc.j.recs[n] = None THEN Abort(proc.j, receipt) ELSE
  [Saving([proc.j EXCEPT !.recs[n].clean = TRUE, !.strip[n] = "after"],
          IF n < N THEN "create" ELSE "adopt")
     EXCEPT !.at = IF n < N THEN n + 1 ELSE n]

Unmarked == proc.pc = "unmarked" /\ Step(Cleaned) /\ Quiet

\* After an uncertain or refused patch: done, or, for the Kustomization once,
\* a known stale CAS that is journalled as a conflict and tried again.
Relook ==
  LET o == live[proc.at]  uid == proc.answer.uid IN
  /\ proc.pc = "relook"
  /\ Step(
       IF Static(o, uid) THEN Cleaned
       ELSE IF proc.at = Kust /\ ~proc.retry /\ ExactMarked(o) /\ o.uid = uid
         THEN [Saving([proc.j EXCEPT !.strip[Kust] = "conflict"], "strip")
                 EXCEPT !.retry = TRUE, !.answer = o]
       ELSE Abort(proc.j, receipt))
  /\ Quiet

\* The NetworkPolicy patch tests UID, resourceVersion and the old owner.
Adopt ==
  /\ proc.pc = "adopt"
  /\ \/ /\ np = [state |-> "before", rv |-> proc.nprv]
        /\ np' = [state |-> "adopted", rv |-> np.rv + 1]
        /\ Step([proc EXCEPT !.pc = "activate"])
     \/ /\ np # [state |-> "before", rv |-> proc.nprv]
        /\ UNCHANGED np /\ Step(Abort(proc.j, receipt))
  /\ UNCHANGED <<live, journal, receipt, faults, foreign>>

AdoptLost ==
  /\ proc.pc = "adopt" /\ NoAnswer
  /\ \/ UNCHANGED np
     \/ /\ np = [state |-> "before", rv |-> proc.nprv]
        /\ np' = [state |-> "adopted", rv |-> np.rv + 1]
  /\ Step(Abort(proc.j, receipt))
  /\ UNCHANGED <<live, journal, receipt, foreign>>

\* The Kustomization is read again; its UID is the one that is found here.
Activate ==
  LET o == live[Kust] IN
  /\ proc.pc = "activate"
  /\ Step(IF o # None /\ Static(o, o.uid)
            THEN [proc EXCEPT !.pc = "unsuspend", !.answer = o]
            ELSE Abort(proc.j, receipt))
  /\ Quiet

Unsuspendable(o) ==
  o # None /\ o.uid = proc.answer.uid /\ o.rv = proc.answer.rv /\ o.susp

Unsuspend ==
  /\ proc.pc = "unsuspend"
  /\ LET o == live[Kust] IN
     \/ /\ Unsuspendable(o)
        /\ Write(Kust, [o EXCEPT !.susp = FALSE, !.rv = @ + 1])
        /\ Step([proc EXCEPT !.pc = "ready"])
     \/ ~Unsuspendable(o) /\ UNCHANGED live /\ Step(Abort(proc.j, receipt))
  /\ UNCHANGED <<np, journal, receipt, faults, foreign>>

UnsuspendLost ==
  /\ proc.pc = "unsuspend" /\ NoAnswer
  /\ \/ UNCHANGED live
     \/ /\ Unsuspendable(live[Kust])
        /\ Write(Kust, [live[Kust] EXCEPT !.susp = FALSE, !.rv = @ + 1])
  /\ Step(Abort(proc.j, receipt))
  /\ UNCHANGED <<np, journal, receipt, foreign>>

Reconciled(uid) == Active(live[Kust], uid) /\ live[Kust].ready

Ready ==
  /\ proc.pc = "ready"
  /\ Reconciled(proc.answer.uid)
  /\ Step([proc EXCEPT !.pc = "final", !.at = 0])
  /\ Quiet

\* The readiness deadline passes first.
ReadyTimeout ==
  /\ proc.pc = "ready" /\ ~Reconciled(proc.answer.uid)
  /\ Step(Abort(proc.j, receipt))
  /\ Quiet

\* The policy (0) and each object as the success receipt will claim it.
AsClaimed(n) ==
  IF n = 0 THEN np.state = "reconciled"
  ELSE IF n = Kust THEN Active(live[n], proc.j.recs[n].uid)
  ELSE Static(live[n], proc.j.recs[n].uid)

Final ==
  /\ proc.pc = "final"
  /\ Step(IF ~AsClaimed(proc.at) THEN Abort(proc.j, receipt)
          ELSE IF proc.at < N THEN [proc EXCEPT !.at = @ + 1]
          ELSE Saving([proc.j EXCEPT !.status = "finalizing"], "receipt"))
  /\ Quiet

\* The success receipt, then the journal's last status.
CommitReceipt ==
  /\ proc.pc = "receipt"
  /\ \/ /\ receipt' = "completed" /\ UNCHANGED faults
        /\ Step(Saving([proc.j EXCEPT !.status = "completed"], "end"))
     \/ /\ receipt' \in {receipt, "completed"}
        /\ Fault("commit") \/ Fault("signal")
        /\ Step(Raised("receipt"))
  /\ UNCHANGED <<live, np, journal, foreign>>

\* _finalize_completed_receipt: prove the postconditions, write no object.
Finish ==
  /\ proc.pc = "finish"
  /\ Step(IF Reconciled(proc.j.recs[Kust].uid) /\ \A n \in 0..N : AsClaimed(n)
            THEN Saving([proc.j EXCEPT !.status = "completed"], "end")
            ELSE NoProcess)
  /\ Quiet

-----
\* _rollback_transaction: suspend, restore, delete, settle.

Suspended(o) == [o EXCEPT !.susp = TRUE, !.rv = @ + 1]

Suspend ==
  LET o == live[Kust] IN
  /\ proc.pc = "suspend"
  /\ Step(IF proc.j.recs[Kust] = None \/ o = None
            THEN [proc EXCEPT !.pc = "restore", !.gone = TRUE]
          ELSE IF o.uid = proc.j.recs[Kust].uid /\ ~o.susp
            THEN [Saving(proc.j, "suspending") EXCEPT !.answer = o]
          ELSE IF SuspensionProof(proc.j, o)
            THEN [proc EXCEPT !.pc = "restore"]
          ELSE Unproven)
  /\ Quiet

\* The patch tests UID and resourceVersion; its answer is the proof.
Suspendable(o) ==
  o # None /\ o.uid = proc.answer.uid /\ o.rv = proc.answer.rv

SuspendPatch ==
  /\ proc.pc = "suspending"
  /\ LET o == live[Kust] IN
     \/ /\ Suspendable(o) /\ Write(Kust, Suspended(o))
        /\ Step(IF SuspensionProof(proc.j, Suspended(o))
                  THEN [proc EXCEPT !.pc = "restore"] ELSE Unproven)
     \/ ~Suspendable(o) /\ UNCHANGED live /\ Step(Unproven)
  /\ UNCHANGED <<np, journal, receipt, faults, foreign>>

SuspendLost ==
  /\ proc.pc = "suspending" /\ NoAnswer
  /\ \/ UNCHANGED live
     \/ Suspendable(live[Kust]) /\ Write(Kust, Suspended(live[Kust]))
  /\ Step(Unproven)
  /\ UNCHANGED <<np, journal, receipt, foreign>>

ToDelete == [proc EXCEPT !.pc = "delete", !.at = N]

Restore ==
  /\ proc.pc = "restore"
  /\ Step(CASE np.state = "before" -> ToDelete
            [] np.state \in {"adopted", "reconciled"} ->
                 [Saving(proc.j, "restoring") EXCEPT !.nprv = np.rv]
            [] OTHER -> Unrestored)
  /\ Quiet

\* The patch tests UID, resourceVersion and the new owner.
RestorePatch ==
  /\ proc.pc = "restoring"
  /\ \/ /\ np.state \in {"adopted", "reconciled"} /\ np.rv = proc.nprv
        /\ np' = [state |-> "before", rv |-> np.rv + 1] /\ Step(ToDelete)
     \/ np.rv # proc.nprv /\ UNCHANGED np /\ Step(Unrestored)
  /\ UNCHANGED <<live, journal, receipt, faults, foreign>>

RestoreLost ==
  /\ proc.pc = "restoring" /\ NoAnswer
  /\ \/ UNCHANGED np
     \/ /\ np.state \in {"adopted", "reconciled"} /\ np.rv = proc.nprv
        /\ np' = [state |-> "before", rv |-> np.rv + 1]
  /\ Step(Unrestored)
  /\ UNCHANGED <<live, journal, receipt, foreign>>

\* This object is absent: on to the one created before it.
Past ==
  [proc EXCEPT !.gone = @ \/ proc.at = Kust, !.at = @ - 1, !.pc = "delete"]

\* reversed(object_order()): the Kustomization first, and no RBAC object before
\* its absence is proven.  (That deferral never happens: a Kustomization that
\* is not gone already ends the deletions.)
Delete ==
  /\ proc.pc = "delete"
  /\ Step(IF proc.at = 0 THEN [proc EXCEPT !.pc = "settle"]
          ELSE IF proc.j.recs[proc.at] = None THEN [proc EXCEPT !.at = @ - 1]
          ELSE IF proc.at # Kust /\ ~proc.gone
            THEN [proc EXCEPT !.err = TRUE, !.at = @ - 1]
          ELSE IF live[proc.at] = None THEN Past
          ELSE Saving(proc.j, "owned"))
  /\ Quiet

\* _owned_created reads the name again.
Owned ==
  /\ proc.pc = "owned"
  /\ Step(IF live[proc.at] = None THEN Past
          ELSE IF Deletable(proc.j, proc.at, live[proc.at])
            THEN [proc EXCEPT !.pc = "deleting", !.answer = live[proc.at]]
          ELSE Undeleted)
  /\ Quiet

\* A DELETE with UID and resourceVersion preconditions.
DeleteServed(o) ==
  /\ o # None /\ o.uid = proc.answer.uid /\ o.rv = proc.answer.rv
  /\ \/ ~o.going /\ Write(proc.at, None)
     \/ proc.at = Kust /\ Write(Kust, [o EXCEPT !.going = TRUE])

SendDelete ==
  /\ proc.pc = "deleting"
  /\ LET o == live[proc.at] IN
     \/ DeleteServed(o) /\ Step([proc EXCEPT !.pc = "waiting"])
     \/ o = None /\ UNCHANGED live /\ Step([proc EXCEPT !.pc = "waiting"])
     \/ /\ o # None /\ (o.uid # proc.answer.uid \/ o.rv # proc.answer.rv)
        /\ UNCHANGED live /\ Step(Undeleted)
  /\ UNCHANGED <<np, journal, receipt, faults, foreign>>

SendDeleteLost ==
  /\ proc.pc = "deleting" /\ NoAnswer
  /\ UNCHANGED live \/ DeleteServed(live[proc.at])
  /\ Step(Undeleted)
  /\ UNCHANGED <<np, journal, receipt, foreign>>

\* Mutant: an accepted DELETE is taken for absence.
Unwaited == proc.pc = "waiting" /\ Step(Past) /\ Quiet

\* wait_for_absent
Waited == proc.pc = "waiting" /\ live[proc.at] = None /\ Step(Past) /\ Quiet

WaitTimeout ==
  /\ proc.pc = "waiting" /\ live[proc.at] # None
  /\ Step(IF proc.at = Kust THEN [proc EXCEPT !.pc = "classify"]
                            ELSE Undeleted)
  /\ Quiet

\* _classify_kustomization_delete_failure: absent, pending or terminal.
Classify ==
  LET o == live[Kust] IN
  /\ proc.pc = "classify"
  /\ Step(IF o = None THEN Past
          ELSE IF /\ o.uid = proc.j.recs[Kust].uid /\ o.exact
                  /\ o.susp \/ ~o.mark
            THEN [proc EXCEPT !.pend = TRUE, !.gone = FALSE, !.pc = "settle"]
          ELSE Undeleted)
  /\ Quiet

\* A deletion that is only late keeps the transaction open.
Pending == proc.pend /\ ~proc.err

Settled ==
  [proc.j EXCEPT !.status = "rollback-finalizing",
     !.rollback = IF Pending THEN "pending" ELSE Named(proc.recovered, proc.err)]

Claiming(j, c) ==
  [proc EXCEPT !.j = [j EXCEPT !.rollback = c], !.claim = c, !.active = TRUE,
               !.pc = "prepare"]

Settle ==
  /\ proc.pc = "settle" /\ ~proc.stale
  /\ journal' = Settled
  /\ Step(IF Pending THEN NoProcess ELSE Claiming(Settled, Settled.rollback))
  /\ UNCHANGED <<live, np, receipt, faults, foreign>>

\* A raising commit makes the rollback incomplete; a signal is caught here too.
SettleFails ==
  /\ proc.pc = "settle"
  /\ LET m == Claiming(Settled, Named(proc.recovered, TRUE)) IN
     \/ proc.stale /\ UNCHANGED <<journal, faults>> /\ Step(m)
     \/ /\ ~proc.stale
        /\ Fault("commit") \/ (Listening("settle") /\ Fault("signal"))
        /\ \/ UNCHANGED journal /\ Step(m)
           \/ journal' = Settled /\ proc' \in {m, Staling(m)}
  /\ UNCHANGED <<live, np, receipt, foreign>>

-----
\* The rollback receipt and its end.

\* _prepare_rollback_receipt
Prepare ==
  /\ proc.pc = "prepare"
  /\ Step(IF LiveProof(proc.j, proc.claim) THEN Saving(proc.j, "rreceipt")
                                           ELSE Unverified)
  /\ Quiet

CommitRollbackReceipt ==
  /\ proc.pc = "rreceipt"
  /\ \/ /\ receipt' = proc.claim /\ UNCHANGED faults
        /\ Step([proc EXCEPT !.pc = "rfinal"])
     \/ /\ receipt' \in {receipt, proc.claim} /\ Fault("commit")
        /\ Step(NoProcess)
  /\ UNCHANGED <<live, np, journal, foreign>>

\* _finalize_rollback_receipt
FinalizeRollback ==
  /\ proc.pc = "rfinal"
  /\ Step(IF LiveProof(proc.j, proc.claim)
            THEN Saving([proc.j EXCEPT !.status = proc.claim,
                                       !.rollback = proc.claim], "end")
            ELSE NoProcess)
  /\ Quiet

\* The receipt of a settled rollback, rebuilt; it is proved or not written.
Rebuild ==
  /\ proc.pc = "rebuild"
  /\ Step(IF LiveProof(proc.j, proc.claim) THEN [proc EXCEPT !.pc = "rreceipt"]
                                           ELSE NoProcess)
  /\ Quiet

-----
\* Recovery of an unsettled journal: what did the dead process leave?

Onward(cont) ==
  IF proc.at < N THEN [proc EXCEPT !.at = @ + 1, !.pc = cont]
  ELSE IF cont = "rediscover" THEN [proc EXCEPT !.at = 1, !.pc = "remark"]
  ELSE Rollback(proc.j, TRUE, FALSE)

\* A create whose outcome the journal does not name.
Rediscover ==
  LET n == proc.at  o == live[n] IN
  /\ proc.pc = "rediscover"
  /\ Step(IF proc.j.create[n] # "open" \/ proc.j.recs[n] # None \/ o = None
            THEN Onward("rediscover")
          ELSE IF ExactMarked(o)
            THEN Saving([proc.j EXCEPT !.recs[n] = [uid |-> o.uid,
                                                    clean |-> FALSE]],
                        "rediscover")
          ELSE NoProcess)
  /\ Quiet

\* _recover_marker_removals: a removal whose answer the journal does not name.
Remark ==
  LET n == proc.at  o == live[n]  rec == proc.j.recs[n] IN
  /\ proc.pc = "remark"
  /\ Step(IF rec = None \/ proc.j.strip[n] # "open" THEN Onward("remark")
          ELSE IF rec.clean \/ o = None THEN Onward("remark")
          ELSE IF ExactMarked(o) /\ o.uid = rec.uid THEN Onward("remark")
          ELSE IF Static(o, rec.uid)
            THEN Saving([proc.j EXCEPT !.recs[n].clean = TRUE], "remark")
          ELSE NoProcess)
  /\ Quiet

-----

FreshRun ==
  \/ Preflight \/ Blocked \/ Reserve
  \/ Create \/ Post \/ PostLost \/ Bind \/ Look
  \/ Strip \/ Unmark \/ UnmarkLost \/ Unmarked \/ Relook
  \/ Adopt \/ AdoptLost \/ Activate \/ Unsuspend \/ UnsuspendLost
  \/ Ready \/ ReadyTimeout \/ Final \/ CommitReceipt

RollbackTransaction ==
  \/ Suspend \/ SuspendPatch \/ SuspendLost
  \/ Restore \/ RestorePatch \/ RestoreLost
  \/ Delete \/ Owned \/ SendDelete \/ SendDeleteLost
  \/ Waited \/ WaitTimeout \/ Classify \/ Settle \/ SettleFails

Conclude ==
  Prepare \/ CommitRollbackReceipt \/ FinalizeRollback \/ Rebuild \/ Finish

Process ==
  \/ Enter \/ Save \/ SaveFails \/ SaveStale \/ ReadFails
  \/ FreshRun \/ RollbackTransaction \/ Conclude \/ Rediscover \/ Remark

Others ==
  \/ Reconcile \/ ForeignPolicy
  \/ \E n \in Objs : \/ FinishDelete(n) \/ ForeignCreate(n)
                     \/ ForeignDelete(n) \/ ForeignTouch(n) \/ ForeignEdit(n)

Next == Process \/ Signal \/ Crash \/ Others

Spec == Init /\ [][Next]_vars

\* The operator repeats the command until it stops, its steps come to an end,
\* and Flux lets a deleted Kustomization go.
Fairness == WF_vars(Process) /\ WF_vars(FinishDelete(Kust))

FairSpec == Spec /\ Fairness

-----
\* Properties.

Ours(n) == live[n] # None /\ live[n].uid = "ours"

\* A DELETE of the rollback only ever removes, or sets going, an object this
\* transaction posted and nobody has changed since the rollback looked at it:
\* a look-alike under one of the four names survives every execution.
OnlyOwnDeleted ==
  [][proc.pc = "deleting" /\ proc' # proc =>
       \A n \in Objs : live'[n] # live[n] => Ours(n) /\ live[n].exact]_vars

\* No RBAC object is deleted while the recorded Kustomization it serves is
\* there: a DELETE that was merely accepted proves nothing.
RbacLast ==
  [][proc.pc = "deleting" /\ proc' # proc /\ proc.j.recs[Kust] # None =>
       \A n \in Objs \ {Kust} : live'[n] # live[n] => ~Ours(Kust)]_vars

\* The predecessor's NetworkPolicy is restored only once Flux cannot reapply
\* the new one: the Kustomization is gone or suspended.
SuspendedBeforeRestore ==
  [][proc.pc = "restoring" /\ proc' # proc /\ np' # np =>
       live[Kust] = None \/ live[Kust].susp]_vars

\* The journal runs ahead of the cluster: an object of ours is always named by
\* the durable journal, as a record or as a create whose outcome is open.
WriteAhead ==
  \A n \in Objs : Ours(n) =>
    /\ journal # None
    /\ journal.recs[n] # None \/ journal.create[n] = "open"

\* The two files never contradict each other across crashes: a receipt follows
\* the journal's matching intent, a terminal journal follows its receipt.
FilesAgree ==
  /\ receipt = "completed" =>
       journal # None /\ journal.status \in {"finalizing", "completed"}
  /\ receipt \in RollbackStatuses =>
       /\ journal # None
       /\ journal.status \in {"rollback-finalizing", receipt}
       /\ journal.rollback \in RollbackStatuses
       /\ journal.rollback \in Complete <=> receipt \in Complete
  /\ journal # None /\ journal.status \in {"completed"} \cup RollbackStatuses =>
       receipt = journal.status

\* Once a receipt is durable no later execution replaces it or writes to the
\* cluster, even if the commit that wrote it raised.
ReceiptIsFinal ==
  [][receipt # None =>
       receipt' = receipt /\ (proc' # proc => UNCHANGED <<live, np>>)]_vars

\* A receipt that says rolled back is true: the predecessor is restored, and an
\* object of ours that is left is one whose create stayed unresolved.
RolledBackIsTrue ==
  receipt \in Complete /\ foreign = 0 =>
    /\ np.state = "before"
    /\ \A n \in Objs : Ours(n) =>
         journal.recs[n] = None /\ journal.create[n] = "open"

\* Crashes and failing commits at any point leave files from which the next
\* execution can go on, and whose claims are true of the cluster.
FilesAreTrue == WriteAhead /\ FilesAgree /\ RolledBackIsTrue

\* The order of a rollback: no foreign object goes, RBAC outlives the
\* Kustomization it serves, the old policy waits for Flux to stop.
RollbackInOrder == OnlyOwnDeleted /\ RbacLast /\ SuspendedBeforeRestore

Concluded ==
  journal # None /\ journal.status \in {"completed"} \cup RollbackStatuses

\* Repeating the command ends every transaction it opened, whatever failed in
\* between, unless others wrote to its objects.
Settles == journal # None ~> Concluded \/ foreign > 0

-----
\* What the text says and the code does not do.

\* README.md 247-249: only a replacement UID, a forbidden mutation or another
\* unprovable ownership boundary makes a rollback incomplete; none of these is
\* there while nobody else writes and no request or file fails.
IncompleteIsUnprovable == receipt \notin Incomplete

=============================================================================
