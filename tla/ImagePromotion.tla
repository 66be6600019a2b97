--------------------------- MODULE ImagePromotion ---------------------------
\* The promotion of the workbench image,
\* scripts/promote-staging-workbench-image.py: one compare-and-set patch
\* of one Deployment, its proof, at most one inverse patch, a write-ahead
\* journal and an immutable receipt.  A run that was cut off is resumed by
\* starting the program again on the same two files; a resumed run never
\* sends the forward patch again.
\*
\* A patch whose answer is lost may not have reached the API server, may
\* have been served, or may still be on its way.  It carries the
\* resourceVersion it was built from, so any write of the Deployment kills
\* it.
EXTENDS Naturals, Sequences, FiniteSets

CONSTANTS
  None,
  Facets,      \* what the proofs look at and may drift
  MaxFaults,   \* bound: lost answers, failed reads and failed commits
  MaxDrift,    \* bound: changes made by others
  MaxRuns      \* bound: starts of the program

AllFacets == {"inputs", "deployment", "backend", "public", "preserved"}

PromotionConstants ==
  /\ Facets \subseteq AllFacets
  /\ {MaxFaults, MaxDrift, MaxRuns} \subseteq Nat

VARIABLES
  image,    \* what the Deployment runs: "old" or "target"
  drift,    \* the facets that no longer hold
  flying,   \* the images that patches still on their way would set
  disk,     \* the journal file
  rfile,    \* the receipt file
  prog,     \* the memory of the running program
  exit,     \* how the last run ended
  late,     \* history: a patch landed after the read that decided about it
  faults, runs

vars == <<image, drift, flying, disk, rfile, prog, exit, late, faults, runs>>
files == <<disk, rfile>>
cluster == <<image, drift, flying, late>>

-----
\* Values

Verdicts == {"preflight-failed", "not-applied", "uncertain", "completed",
             "rolled-back", "rollback-incomplete"}

\* The (operation, stage) pairs of the journal, a classification with what
\* it found: "patch-applied" and "resume-target" found the target.
Events == {"preflight", "patch-intent", "patch-after", "patch-applied",
           "patch-classified", "patch-uncertain", "resume-before",
           "resume-target", "resume-classified", "postconditions",
           "rollback-intent", "rollback-after", "rollback-uncertain",
           "transaction"}

\* "absent" and "empty" are the file before it exists and before its first
\* commit.
JournalStates == {"absent", "empty", "preflight", "finalizing",
                  "finalization-incomplete"} \cup Verdicts

Patching == {"patch", "rbPatch"}
\* Where a signal still raises: defer_transaction_signals was not called.
Open == {"reserve", "open", "preflight", "noted", "intent", "patch", "patched",
         "verify", "resume"}
Closing == {"finalizing", "receipt", "terminal", "incomplete"}
Steps == Open \cup Closing \cup
         {"idle", "discover", "classify", "post", "rbRead", "rbIntent",
          "rbPatch", "rbDiscover", "rbUncertain", "rbAfter", "rbVerify",
          "reread", "rejudge", "oldImage"}

\* log: the events in memory, ahead of the disk while a commit has failed.
Programs == [pc : Steps, log : Seq(Events), verdict : Verdicts \cup {None},
             saw : {None, "old", "target", "ambiguous", "unread"},
             stopped : BOOLEAN, resumed : BOOLEAN]

Idle == [pc |-> "idle", log |-> <<>>, verdict |-> None, saw |-> None,
         stopped |-> FALSE, resumed |-> FALSE]

NoJournal == [status |-> "absent", events |-> <<>>]

-----
\* The proofs.  Each is a conjunction over the facet it reads.

Holds(f) == f \notin drift

ArtifactPinned == Holds("inputs")
ProtectedBound == Holds("inputs")
PublicModeEnv  == Holds("deployment")
OthersEqual    == Holds("deployment")
ServiceRouted  == Holds("backend")
EndpointsBound == Holds("backend")
PodsReady      == Holds("backend")
RolledOut      == Holds("backend")
ConfigProbe    == Holds("public")
FeedProbe      == Holds("public")
Preserved      == Holds("preserved")

WorkbenchIs(i) == PublicModeEnv /\ OthersEqual /\ image = i

Preflight == WorkbenchIs("old") /\ Preserved /\ ServiceRouted

LiveTarget ==
  /\ WorkbenchIs("target") /\ RolledOut /\ PodsReady
  /\ ServiceRouted /\ EndpointsBound /\ ConfigProbe /\ FeedProbe
  /\ Preserved

RolledBackLive == WorkbenchIs("old") /\ PodsReady /\ Preserved

\* What one GET of the Deployment shows.
Seen == IF ~(PublicModeEnv /\ OthersEqual) THEN "ambiguous" ELSE image

\* validate_resume_journal: which journals a new run may continue.
At(events, e) == {i \in DOMAIN events : events[i] = e}
Outcomes(events, es) == {i \in DOMAIN events : events[i] \in es}
PatchOutcomes == {"patch-after", "patch-applied", "patch-classified",
                  "patch-uncertain"}
RollbackOutcomes == {"rollback-after", "rollback-uncertain"}

AtMostOne(S) == \A i, j \in S : i = j

Resumable(j) ==
  LET e == j.events
      back == At(e, "rollback-intent")
      backs == Outcomes(e, RollbackOutcomes) IN
  /\ j.status = "preflight"
  /\ Len(e) >= 2 /\ e[1] = "preflight" /\ e[2] = "patch-intent"
  /\ AtMostOne(At(e, "preflight")) /\ AtMostOne(At(e, "patch-intent"))
  /\ At(e, "transaction") = {}
  /\ Outcomes(e, PatchOutcomes) \subseteq {3}
  /\ AtMostOne(back) /\ AtMostOne(backs)
  /\ \A o \in backs : \E i \in back : o = i + 1
  /\ \A c \in Outcomes(e, {"resume-target", "resume-classified"}) :
       e[c - 1] = "resume-before"

\* Mutant: the journal of a rollback that was cut off is resumed like any
\* other.
ForgottenRollback(events) == FALSE

RollbackRequired(events) ==
  Outcomes(events, {"rollback-intent"} \cup RollbackOutcomes) # {}

-----
\* Building blocks

Goto(pc) == prog' = [prog EXCEPT !.pc = pc]

\* Every path to the receipt has deferred the signals.
Decide(v) == prog' = [prog EXCEPT !.pc = "finalizing", !.verdict = v]

End(how) == prog' = Idle /\ exit' = how

Fault == faults < MaxFaults /\ faults' = faults + 1

\* An exception that nothing catches: the files stay as they are.
Escape == End("failed") /\ UNCHANGED <<cluster, files, faults, runs>>

\* _journal_commit appends the event to the memory of the run before it
\* replaces the file.  A commit that raises may or may not have replaced it.
Logged(e) == Append(prog.log, e)
Written(s, e) == [status |-> s, events |-> Logged(e)]

Commit(s, e, next) ==
  /\ disk' = Written(s, e)
  /\ prog' = [prog EXCEPT !.log = Logged(e), !.pc = next]
  /\ UNCHANGED <<cluster, rfile, exit, faults, runs>>

CommitRaises(s, e) ==
  /\ Fault
  /\ disk' \in {disk, Written(s, e)}
  /\ UNCHANGED <<cluster, rfile, runs>>

\* The commit that raises, with the pc the handler goes to.
CommitFails(s, e, next) ==
  /\ CommitRaises(s, e)
  /\ prog' = [prog EXCEPT !.log = Logged(e), !.pc = next]
  /\ UNCHANGED exit

\* ... with the verdict the handler decides,
CommitDecides(s, e, v) ==
  /\ CommitRaises(s, e)
  /\ prog' = [prog EXCEPT !.log = Logged(e), !.pc = "finalizing", !.verdict = v]
  /\ UNCHANGED exit

\* ... or past every handler.
CommitEscapes(s, e) == CommitRaises(s, e) /\ End("failed")

\* What a patch cut off in mid-call may have done.
CutOff(to) ==
  \/ UNCHANGED <<image, flying>>
  \/ image' = to /\ flying' = {}
  \/ flying' = flying \cup {to} /\ UNCHANGED image

\* One PATCH, never repeated.  A lost answer is a fault; the request was not
\* made or was refused, was served, or is on its way.
Patch(to, answered, lost) ==
  /\ UNCHANGED <<drift, files, exit, runs, late>>
  /\ \/ image' = to /\ flying' = {} /\ Goto(answered) /\ UNCHANGED faults
     \/ Fault /\ Goto(lost) /\ CutOff(to)

\* A read: what the Deployment shows, or a failure that is a fault.
Read(next) ==
  /\ prog' = [prog EXCEPT !.pc = next, !.saw = Seen]
  /\ UNCHANGED faults

ReadFails(next) ==
  /\ Fault /\ prog' = [prog EXCEPT !.pc = next, !.saw = "unread"]

-----
\* main and the start of a run

\* A fresh pair of outputs: the journal file, then the receipt file.
Begin ==
  /\ prog.pc = "idle" /\ runs < MaxRuns
  /\ disk.status = "absent" /\ rfile = "absent"
  /\ ArtifactPinned /\ ProtectedBound
  /\ disk' = [NoJournal EXCEPT !.status = "empty"]
  /\ prog' = [prog EXCEPT !.pc = "reserve"]
  /\ runs' = runs + 1 /\ exit' = None
  /\ UNCHANGED <<cluster, rfile, faults>>

Reserve ==
  /\ prog.pc = "reserve"
  /\ rfile' = "empty" /\ Goto("open")
  /\ UNCHANGED <<cluster, disk, exit, faults, runs>>

\* The exact reservation of an interrupted run: an empty receipt and a
\* journal that is not terminal.
Restart ==
  /\ prog.pc = "idle" /\ runs < MaxRuns
  /\ rfile = "empty" /\ Resumable(disk)
  /\ ArtifactPinned /\ ProtectedBound
  /\ prog' = [Idle EXCEPT !.pc = "resume", !.log = disk.events,
                          !.resumed = TRUE]
  /\ runs' = runs + 1 /\ exit' = None
  /\ UNCHANGED <<cluster, files, faults>>

\* The initial journal is written outside every handler.
OpenJournal ==
  /\ prog.pc = "open"
  /\ \/ /\ disk' = [NoJournal EXCEPT !.status = "preflight"]
        /\ Goto("preflight") /\ UNCHANGED <<cluster, rfile, exit, faults, runs>>
     \/ /\ Fault /\ End("failed")
        /\ disk' \in {disk, [NoJournal EXCEPT !.status = "preflight"]}
        /\ UNCHANGED <<cluster, rfile, runs>>

RunPreflight ==
  /\ prog.pc = "preflight"
  /\ UNCHANGED <<cluster, files, exit, runs>>
  /\ \/ Preflight /\ Goto("noted") /\ UNCHANGED faults
     \/ ~Preflight /\ Decide("preflight-failed") /\ UNCHANGED faults
     \/ Fault /\ Decide("preflight-failed")

NotePreflight ==
  /\ prog.pc = "noted"
  /\ \/ Commit("preflight", "preflight", "intent")
     \/ CommitDecides("preflight", "preflight", "preflight-failed")

-----
\* The forward patch

\* Mutant: the patch is sent although its intent could not be recorded.
IntendAnyway ==
  /\ prog.pc = "intent"
  /\ \/ Commit("preflight", "patch-intent", "patch")
     \/ CommitFails("preflight", "patch-intent", "patch")

Intend ==
  /\ prog.pc = "intent"
  /\ \/ Commit("preflight", "patch-intent", "patch")
     \/ CommitEscapes("preflight", "patch-intent")

PatchImage == prog.pc = "patch" /\ Patch("target", "patched", "discover")

\* In the same try block as the patch: when the commit fails, the answered
\* patch is looked for like a lost one.
NotePatched ==
  /\ prog.pc = "patched"
  /\ \/ Commit("preflight", "patch-after", "verify")
     \/ CommitFails("preflight", "patch-after", "discover")

\* Exactly one discovery GET.
Discover ==
  /\ prog.pc = "discover"
  /\ Read("classify") \/ ReadFails("classify")
  /\ UNCHANGED <<cluster, files, exit, runs>>

Classify ==
  /\ prog.pc = "classify"
  /\ LET e == CASE prog.saw = "unread" -> "patch-uncertain"
                [] prog.saw = "target" -> "patch-applied"
                [] OTHER -> "patch-classified"
         found(v) == [prog EXCEPT !.log = Logged(e), !.pc = "finalizing",
                                  !.verdict = v] IN
     \/ CommitEscapes("preflight", e)
     \/ /\ disk' = Written("preflight", e)
        /\ UNCHANGED <<cluster, rfile, exit, faults, runs>>
        /\ prog' = CASE prog.saw = "target" ->
                          [prog EXCEPT !.log = Logged(e),
                             !.pc = IF prog.stopped THEN "rbRead" ELSE "verify"]
                     [] prog.saw = "old" -> found("not-applied")
                     [] OTHER -> found("uncertain")

\* _verify_live_target: a state that is not the reviewed one, a rollout that
\* never completes, or (a fault) a read without an answer.  A first run
\* leaves an unanswered proof alone; a resumed one rolls it back.
Verify ==
  /\ prog.pc = "verify"
  /\ UNCHANGED <<cluster, files, exit, runs>>
  /\ \/ LiveTarget /\ Goto("post") /\ UNCHANGED faults
     \/ Goto("rbRead") /\ UNCHANGED faults
     \/ Fault /\ IF prog.resumed THEN Goto("rbRead") ELSE Decide("uncertain")

NoteVerified ==
  /\ prog.pc = "post"
  /\ LET e == "postconditions" IN
     \/ /\ disk' = Written("preflight", e)
        /\ prog' = [prog EXCEPT !.log = Logged(e), !.pc = "finalizing",
                                !.verdict = "completed"]
        /\ UNCHANGED <<cluster, rfile, exit, faults, runs>>
     \/ CommitFails("preflight", e, "rbRead")

-----
\* _safe_rollback: only an observed exact target, with one patch

RollbackRead ==
  /\ prog.pc = "rbRead"
  /\ UNCHANGED <<cluster, files, exit, runs>>
  /\ \/ WorkbenchIs("target") /\ Goto("rbIntent") /\ UNCHANGED faults
     \/ ~WorkbenchIs("target") /\ Decide("rollback-incomplete") /\ UNCHANGED faults
     \/ Fault /\ Decide("rollback-incomplete")

RollbackIntend ==
  /\ prog.pc = "rbIntent"
  /\ \/ Commit("preflight", "rollback-intent", "rbPatch")
     \/ CommitDecides("preflight", "rollback-intent", "rollback-incomplete")

RollbackPatch == prog.pc = "rbPatch" /\ Patch("old", "rbAfter", "rbDiscover")

\* One read, for the journal only: the verdict is the same for each answer.
RollbackDiscover ==
  /\ prog.pc = "rbDiscover"
  /\ Read("rbUncertain") \/ ReadFails("rbUncertain")
  /\ UNCHANGED <<cluster, files, exit, runs>>

RollbackUncertain ==
  /\ prog.pc = "rbUncertain"
  /\ LET e == "rollback-uncertain" IN
     \/ /\ disk' = Written("preflight", e)
        /\ prog' = [prog EXCEPT !.log = Logged(e), !.pc = "finalizing",
                                !.verdict = "rollback-incomplete"]
        /\ UNCHANGED <<cluster, rfile, exit, faults, runs>>
     \/ CommitDecides("preflight", e, "rollback-incomplete")

NoteRolledBack ==
  /\ prog.pc = "rbAfter"
  /\ \/ Commit("preflight", "rollback-after", "rbVerify")
     \/ CommitDecides("preflight", "rollback-after", "rollback-incomplete")

RollbackVerify ==
  /\ prog.pc = "rbVerify"
  /\ UNCHANGED <<cluster, files, exit, runs>>
  /\ \/ RolledBackLive /\ Decide("rolled-back") /\ UNCHANGED faults
     \/ Decide("rollback-incomplete") /\ UNCHANGED faults

-----
\* _resume_transaction: a new run on the journal of one that was cut off

NoteResume ==
  /\ prog.pc = "resume"
  /\ \/ Commit("preflight", "resume-before", "reread")
     \/ CommitEscapes("preflight", "resume-before")

\* The read that decides; what lands later contradicts it.
Reread ==
  /\ prog.pc = "reread"
  /\ Read("rejudge")
  /\ late' = FALSE
  /\ UNCHANGED <<image, drift, flying, files, exit, runs>>

RereadFails == prog.pc = "reread" /\ Fault /\ End("failed")
               /\ UNCHANGED <<cluster, files, runs>>

\* Mutant: a resumed run that finds the old image sends the patch again.
RejudgeAndResend ==
  /\ prog.pc = "rejudge"
  /\ LET e == IF prog.saw = "target" THEN "resume-target"
              ELSE "resume-classified" IN
     Commit("preflight", e, IF prog.saw = "old" THEN "patch"
                            ELSE IF RollbackRequired(prog.log) THEN "rbRead"
                            ELSE "verify")

Rejudge ==
  /\ prog.pc = "rejudge"
  /\ LET e == IF prog.saw = "target" THEN "resume-target"
              ELSE "resume-classified" IN
     \/ CommitEscapes("preflight", e)
     \/ /\ disk' = Written("preflight", e)
        /\ UNCHANGED <<cluster, rfile, exit, faults, runs>>
        /\ \/ /\ prog.saw = "ambiguous"
              /\ prog' = [prog EXCEPT !.log = Logged(e), !.pc = "finalizing",
                                      !.verdict = "uncertain"]
           \/ /\ prog.saw = "old"
              /\ prog' = [prog EXCEPT !.log = Logged(e), !.pc = "oldImage"]
           \/ /\ prog.saw = "target"
              /\ prog' = [prog EXCEPT !.log = Logged(e),
                    !.pc = IF RollbackRequired(prog.log) THEN "rbRead"
                           ELSE "verify"]

\* Service, routing and NetworkPolicy are read outside every handler.
OldImage ==
  /\ prog.pc = "oldImage"
  /\ \/ /\ Preserved /\ ServiceRouted /\ Decide("rolled-back")
        /\ UNCHANGED <<cluster, files, exit, faults, runs>>
     \/ ~(Preserved /\ ServiceRouted) /\ Escape
     \/ Fault /\ End("failed") /\ UNCHANGED <<cluster, files, runs>>

-----
\* _finalize: journal, receipt, journal; a failure never rolls back

Finalizing ==
  /\ prog.pc = "finalizing"
  /\ \/ Commit("finalizing", "transaction", "receipt")
     \/ CommitFails("finalizing", "transaction", "incomplete")

CommitReceipt ==
  /\ prog.pc = "receipt"
  /\ UNCHANGED <<cluster, disk, exit, runs>>
  /\ \/ rfile' = prog.verdict /\ Goto("terminal") /\ UNCHANGED faults
     \/ Fault /\ rfile' \in {rfile, prog.verdict} /\ Goto("incomplete")

Terminal ==
  /\ prog.pc = "terminal"
  /\ \/ /\ disk' = Written(prog.verdict, "transaction")
        /\ End(IF prog.verdict = "completed" THEN "ok" ELSE "failed")
        /\ UNCHANGED <<cluster, rfile, faults, runs>>
     \/ CommitFails(prog.verdict, "transaction", "incomplete")

\* _finalization_incomplete: one more entry, if it can be written.
Incomplete ==
  /\ prog.pc = "incomplete"
  /\ UNCHANGED <<cluster, rfile, runs>>
  /\ End("failed")
  /\ \/ /\ disk' = Written("finalization-incomplete", "transaction")
        /\ UNCHANGED faults
     \/ Fault /\ UNCHANGED disk

-----
\* What happens to a run

\* PromotionInterrupted is raised where the program is; the handler there
\* decides.  After defer_transaction_signals nothing is raised.
Interrupt ==
  /\ prog.pc \in Open
  /\ UNCHANGED <<drift, late, rfile, faults, runs>>
  /\ \/ /\ prog.pc \in {"reserve", "open", "intent", "patch", "resume"}
        /\ End("failed") /\ UNCHANGED <<image, flying, disk>>
     \/ /\ prog.pc \in {"preflight", "noted"}
        /\ Decide("preflight-failed") /\ UNCHANGED <<image, flying, disk, exit>>
     \/ /\ prog.pc = "patch" /\ CutOff("target")
        /\ prog' = [prog EXCEPT !.pc = "discover", !.stopped = TRUE]
        /\ UNCHANGED <<disk, exit>>
     \/ /\ prog.pc = "patched"
        /\ \/ UNCHANGED disk
              /\ prog' = [prog EXCEPT !.pc = "discover", !.stopped = TRUE]
           \/ disk' \in {disk, Written("preflight", "patch-after")}
              /\ prog' = [prog EXCEPT !.pc = "discover", !.stopped = TRUE,
                                      !.log = Logged("patch-after")]
        /\ UNCHANGED <<image, flying, exit>>
     \/ /\ prog.pc = "verify" /\ ~prog.resumed /\ prog.saw = None
        /\ Goto("rbRead") /\ UNCHANGED <<image, flying, disk, exit>>

\* SIGKILL or the host: at any point, a patch possibly on its way.
Kill ==
  /\ prog.pc # "idle"
  /\ End("killed")
  /\ CASE prog.pc = "patch" -> CutOff("target")
       [] prog.pc = "rbPatch" -> CutOff("old")
       [] OTHER -> UNCHANGED <<image, flying>>
  /\ UNCHANGED <<drift, late, files, faults, runs>>

-----
\* The cluster

Decided == prog.verdict # None \/ rfile \in Verdicts
Judging == prog.saw # None \/ Decided

\* A patch on its way is served, its compare-and-set still holding.
Land(to) ==
  /\ to \in flying
  /\ image' = to /\ flying' = {}
  /\ late' = (late \/ Judging)
  /\ UNCHANGED <<drift, files, prog, exit, faults, runs>>

\* A write of the Deployment's status moves its resourceVersion.
StatusWrite ==
  /\ flying # {} /\ flying' = {}
  /\ UNCHANGED <<image, drift, late, files, prog, exit, faults, runs>>

\* Somebody changes what a proof reads; a change of the Deployment moves its
\* resourceVersion too.
Drift(f) ==
  /\ Holds(f) /\ drift' = drift \cup {f}
  /\ Cardinality(drift') <= MaxDrift
  /\ flying' = IF f = "deployment" THEN {} ELSE flying
  /\ UNCHANGED <<image, late, files, prog, exit, faults, runs>>

-----
Init ==
  /\ image = "old" /\ drift = {} /\ flying = {}
  /\ disk = NoJournal /\ rfile = "absent"
  /\ prog = Idle /\ exit = None /\ late = FALSE
  /\ faults = 0 /\ runs = 0

Start == Begin \/ Restart

Proceed ==
  \/ Reserve \/ OpenJournal \/ RunPreflight \/ NotePreflight \/ Intend
  \/ PatchImage \/ NotePatched \/ Discover \/ Classify \/ Verify
  \/ NoteVerified \/ RollbackRead \/ RollbackIntend \/ RollbackPatch
  \/ RollbackDiscover \/ RollbackUncertain \/ NoteRolledBack
  \/ RollbackVerify \/ NoteResume \/ Reread \/ RereadFails \/ Rejudge
  \/ OldImage \/ Finalizing \/ CommitReceipt \/ Terminal \/ Incomplete

Others == StatusWrite \/ (\E to \in {"old", "target"} : Land(to))
          \/ (\E f \in Facets : Drift(f))

Next == Start \/ Proceed \/ Interrupt \/ Kill \/ Others

Spec == Init /\ [][Next]_vars

-----
TypeOK ==
  /\ image \in {"old", "target"} /\ drift \subseteq Facets
  /\ flying \subseteq {"old", "target"}
  /\ disk.status \in JournalStates /\ disk.events \in Seq(Events)
  /\ rfile \in {"absent", "empty"} \cup Verdicts
  /\ prog \in Programs /\ exit \in {None, "ok", "failed", "killed"}
  /\ late \in BOOLEAN
  /\ faults \in 0..MaxFaults /\ runs \in 0..MaxRuns

\* A receipt that says the target is live is never contradicted, not by a
\* lost patch or a lost rollback that is served later, nor by a run that was
\* killed in its rollback and resumed: the journal keeps every resumed run
\* from completing what an earlier one began to take back.  A receipt that
\* says the old image runs is contradicted only by a patch that was still on
\* its way when it was looked for.
ReceiptIsTrue ==
  /\ rfile = "completed" => image = "target"
  /\ rfile \in {"preflight-failed", "not-applied", "rolled-back"} /\ ~late
       => image = "old"

\* The target is never live without a journal that says it was asked for,
\* whatever commit failed and wherever the run was cut off.
TargetIsJournaled ==
  image = "target" \/ flying # {} => At(disk.events, "patch-intent") # {}

=============================================================================
