---------------------------- MODULE LiveTransport ----------------------------
\* The live wrapper, scripts/run-staging-participant-gateway-live.py,
\* around the two programs it runs with one and the same transport: the
\* promotion of the workbench image and the reset of the relays.  It
\* prepares the transport, spawns the protected child in a session of its
\* own, forwards signals to it, ends it after a timeout, reads the two
\* files it left, closes the transport and writes its own receipt.
\*
\* A behaviour runs one of the two, chosen by mode; the variables the two
\* modules have in common are those of the child that runs.
EXTENDS Naturals, Sequences, FiniteSets

CONSTANTS
  None,
  Modes,          \* which of {"promotion", "reset"} are run
  PromotionFacets, ResetFacets,
  MaxFaults, MaxDrift, MaxRuns,
  MaxLaunches,    \* bound: starts of the wrapper
  MaxTroubles     \* bound: signals, timeouts, failures of the wrapper's steps

VARIABLES
  mode,
  image, runs,                                   \* of the promotion
  gate, flux, agent, relays, unnoted, spoiled,   \* of the reset
  drift, flying, disk, rfile, prog, exit, late, faults,   \* of the child
  w,         \* the memory of the running wrapper
  wfile,     \* the receipt file of the last launch
  wexit,     \* the exit code of the last launch
  launches, troubles

promotionOnly == <<image, runs>>
resetOnly == <<gate, flux, agent, relays, unnoted, spoiled>>
common == <<drift, flying, disk, rfile, prog, exit, late, faults>>
child == <<promotionOnly, resetOnly, common>>
wrapper == <<w, wfile, wexit, launches, troubles>>
vars == <<mode, child, wrapper>>

P == INSTANCE ImagePromotion WITH Facets <- PromotionFacets
R == INSTANCE RelayReset WITH Facets <- ResetFacets

ASSUME TransportConstants ==
  /\ Modes \subseteq {"promotion", "reset"}
  /\ {MaxLaunches, MaxTroubles} \subseteq Nat
  /\ P!PromotionConstants /\ R!ResetConstants

\* None is a value of its own.
ASSUME NoneIsApart ==
  /\ None \notin P!Verdicts \cup R!Verdicts
  /\ None \notin {"old", "target", "ambiguous", "unread", "transport", "other"}
  /\ None \notin {0, 2, 3}

-----
\* Values

Phases == {"idle", "prepare", "spawn", "child", "judge", "closing", "commit"}

\* guards: the two CONNECT guards; signalled: a signal is recorded;
\* stopping: the child was told to stop because it took too long;
\* completed, tidy: the locals completed and cleanup_complete.
Wrappers == [phase : Phases, guards : {"down", "up"}, signalled : BOOLEAN,
             stopping : BOOLEAN, completed : BOOLEAN, tidy : BOOLEAN]

NotRunning == [phase |-> "idle", guards |-> "down", signalled |-> FALSE,
               stopping |-> FALSE, completed |-> FALSE, tidy |-> FALSE]

Statuses == {"completed", "completed-cleanup-incomplete", "blocked"}

-----
\* The child, seen from the wrapper

Promotes == mode = "promotion" /\ UNCHANGED resetOnly
Resets == mode = "reset" /\ UNCHANGED promotionOnly

ChildRunning == IF mode = "promotion" THEN prog.pc # "idle"
                ELSE prog.at \notin {"idle", "closed"}

\* private_workbench_promotion_outputs: a fresh pair, or an empty receipt and
\* a journal with something in it.  private_relay_fixture_reset_outputs: a
\* fresh pair.
OutputsAdmitted ==
  CASE mode = "promotion" ->
         \/ rfile = "absent" /\ disk.status = "absent"
         \/ rfile = "empty" /\ disk.status \notin {"absent", "empty"}
    [] mode = "reset" -> rfile = "absent" /\ disk = {}

InputsPinned == "inputs" \notin drift

\* Mutant: a resumed promotion is cut off at most once more.
OneEpoch(s) ==
  \A i \in DOMAIN s :
    /\ s[i] = IF i % 2 = 1 THEN "resume-before" ELSE "resume-target"
    /\ Len(s) % 2 = 0

\* verify_workbench_image_promotion_evidence: the journal of a promotion that
\* was answered, or found applied, or cut off and resumed any number of
\* times, each time on the target.
Epochs(s) ==
  LET Odd(i) == s[i] = "resume-target" => i > 1 /\ s[i - 1] = "resume-before"
      Proof(i) == s[i] = "postconditions" =>
                    i < Len(s) /\ s[i + 1] = "resume-before"
      Before(i) == s[i] = "resume-before" =>
                     i < Len(s) /\ s[i + 1] \in {"resume-before", "resume-target"}
      After(i) == s[i] = "resume-target" /\ i < Len(s) =>
                    s[i + 1] \in {"postconditions", "resume-before"} IN
  \A i \in DOMAIN s :
    /\ s[i] \in {"resume-before", "resume-target", "postconditions"}
    /\ Odd(i) /\ Proof(i) /\ Before(i) /\ After(i)

PromotionGrammar(e) ==
  LET n == Len(e)
      rest == SubSeq(e, 3, n - 3)
      middle == IF rest # <<>> /\ rest[1] \in {"patch-after", "patch-applied"}
                  THEN Tail(rest) ELSE rest IN
  /\ n >= 5
  /\ e[1] = "preflight" /\ e[2] = "patch-intent"
  /\ SubSeq(e, n - 2, n) = <<"postconditions", "transaction", "transaction">>
  /\ Epochs(middle)

PromotionAccepted ==
  /\ rfile = "completed" /\ disk.status = "completed"
  /\ PromotionGrammar(disk.events)

\* verify_relay_fixture_reset_evidence: exactly one outcome of each request.
ResetAccepted == rfile = "completed" /\ "again" \notin disk

EvidenceAccepted == IF mode = "promotion" THEN PromotionAccepted
                    ELSE ResetAccepted

-----
\* The wrapper's own steps

Goto(phase) == w' = [w EXCEPT !.phase = phase]
Trouble == troubles < MaxTroubles /\ troubles' = troubles + 1

\* The outputs are examined, and the wrapper's own receipt is reserved in a
\* directory of its own.
Launch ==
  /\ w.phase = "idle" /\ launches < MaxLaunches /\ OutputsAdmitted
  /\ w' = [NotRunning EXCEPT !.phase = "prepare"]
  /\ wfile' = "empty" /\ wexit' = None /\ launches' = launches + 1
  /\ UNCHANGED <<mode, child, troubles>>

\* Checkout and pin are bound, the inputs decrypted, the guards started, an
\* administrator kubeconfig made.
Prepare ==
  /\ w.phase = "prepare"
  /\ UNCHANGED <<mode, child, wfile, wexit, launches>>
  /\ \/ /\ InputsPinned /\ ~w.signalled
        /\ w' = [w EXCEPT !.phase = "spawn", !.guards = "up"] /\ UNCHANGED troubles
     \/ /\ ~InputsPinned \/ w.signalled
        /\ Goto("closing") /\ UNCHANGED troubles
     \/ /\ Trouble
        /\ \E g \in {"down", "up"} :
             w' = [w EXCEPT !.phase = "closing", !.guards = g]

\* run_child checks the transport and the signals and spawns the child,
Spawn ==
  /\ w.phase = "spawn" /\ w.guards = "up" /\ ~w.signalled
  /\ Goto("child")
  /\ (Promotes /\ P!Start) \/ (Resets /\ R!Begin)
  /\ UNCHANGED <<mode, wfile, wexit, launches, troubles>>

\* ... which may find its inputs or its journal unfit and exit,
ChildRefuses ==
  /\ w.phase = "spawn"
  /\ \/ w.signalled \/ ~InputsPinned
     \/ mode = "promotion" /\ rfile = "empty" /\ ~P!Resumable(disk)
  /\ Goto("closing")
  /\ UNCHANGED <<mode, child, wfile, wexit, launches, troubles>>

\* ... or, if the transport died, not at all.
TransportAbsent ==
  /\ w.phase = "spawn" /\ Trouble /\ Goto("closing")
  /\ UNCHANGED <<mode, child, wfile, wexit, launches>>

\* The child makes a step.
ChildSteps ==
  /\ w.phase = "child" /\ ChildRunning
  /\ (Promotes /\ P!Proceed) \/ (Resets /\ R!Proceed)
  /\ UNCHANGED <<mode, wrapper>>

Interrupted == \/ Promotes /\ P!Interrupt
               \/ Resets /\ R!Interrupt
               \/ UNCHANGED child

\* A signal is recorded, and forwarded to the group of a running child.
Signal ==
  /\ w.phase \in {"prepare", "spawn", "child"} /\ ~w.signalled /\ Trouble
  /\ w' = [w EXCEPT !.signalled = TRUE]
  /\ IF w.phase = "child" /\ ChildRunning THEN Interrupted ELSE UNCHANGED child
  /\ UNCHANGED <<mode, wfile, wexit, launches>>

\* The 900 seconds of run_child are over: stop_process sends SIGTERM,
Timeout ==
  /\ w.phase = "child" /\ ChildRunning /\ ~w.stopping /\ Trouble
  /\ w' = [w EXCEPT !.stopping = TRUE] /\ Interrupted
  /\ UNCHANGED <<mode, wfile, wexit, launches>>

\* ... and five seconds later SIGKILL.
KillChild ==
  /\ w.phase = "child" /\ ChildRunning /\ w.stopping
  /\ (Promotes /\ P!Kill) \/ (Resets /\ R!Kill)
  /\ UNCHANGED <<mode, wrapper>>

\* The child has ended.  A child that was timed out is an error whatever it
\* returned.
Collect ==
  /\ w.phase = "child" /\ ~ChildRunning
  /\ Goto(IF exit = "ok" /\ ~w.stopping THEN "judge" ELSE "closing")
  /\ UNCHANGED <<mode, child, wfile, wexit, launches, troubles>>

\* Both files are snapshotted and examined.
Judge ==
  /\ w.phase = "judge"
  /\ UNCHANGED <<mode, child, wfile, wexit, launches>>
  /\ \/ /\ w' = [w EXCEPT !.phase = "closing", !.completed = EvidenceAccepted]
        /\ UNCHANGED troubles
     \/ Trouble /\ Goto("closing")

\* Guards, processes, plaintext: what could not be removed is reported.
Close ==
  /\ w.phase = "closing"
  /\ UNCHANGED <<mode, child, wfile, wexit, launches>>
  /\ \/ /\ w' = [w EXCEPT !.phase = "commit", !.guards = "down", !.tidy = TRUE]
        /\ UNCHANGED troubles
     \/ /\ Trouble
        /\ \E g \in {w.guards, "down"} :
             w' = [w EXCEPT !.phase = "commit", !.guards = g, !.tidy = FALSE]

Status == IF ~w.completed THEN "blocked"
          ELSE IF w.tidy THEN "completed" ELSE "completed-cleanup-incomplete"

\* The wrapper's receipt is committed; a commit that raises may have
\* replaced the file.
CommitReceipt ==
  /\ w.phase = "commit"
  /\ w' = NotRunning
  /\ UNCHANGED <<mode, child, launches>>
  /\ \/ /\ wfile' = Status /\ UNCHANGED troubles
        /\ wexit' = IF Status = "completed" THEN 0
                    ELSE IF w.completed THEN 3 ELSE 2
     \/ /\ Trouble /\ wfile' \in {wfile, Status}
        /\ wexit' = IF w.completed THEN 3 ELSE 2

\* The host is lost with everything on it.
HostLost ==
  /\ w.phase # "idle"
  /\ w' = NotRunning /\ wexit' = None
  /\ IF ChildRunning THEN (Promotes /\ P!Kill) \/ (Resets /\ R!Kill)
     ELSE UNCHANGED child
  /\ UNCHANGED <<mode, wfile, launches, troubles>>

\* What others do to the cluster.
Elsewhere ==
  /\ (Promotes /\ P!Others) \/ (Resets /\ R!Others)
  /\ UNCHANGED <<mode, wrapper>>

-----
Init ==
  /\ mode \in Modes
  /\ image = "old" /\ runs = 0
  /\ gate = "open" /\ flux = "active" /\ agent = 1 /\ relays = R!Relays
  /\ unnoted = FALSE /\ spoiled = {}
  /\ drift = {} /\ flying = {} /\ rfile = "absent" /\ exit = None /\ faults = 0
  /\ CASE mode = "promotion" ->
            disk = P!NoJournal /\ prog = P!Idle /\ late = FALSE
       [] mode = "reset" -> disk = {} /\ prog = R!Idle /\ late = {}
  /\ w = NotRunning /\ wfile = "absent" /\ wexit = None
  /\ launches = 0 /\ troubles = 0

Next ==
  \/ Launch \/ Prepare \/ Spawn \/ ChildRefuses \/ TransportAbsent
  \/ ChildSteps \/ Signal \/ Timeout \/ KillChild \/ Collect \/ Judge
  \/ Close \/ CommitReceipt \/ HostLost \/ Elsewhere

Spec == Init /\ [][Next]_vars

-----
TypeOK ==
  /\ mode \in Modes
  /\ IF mode = "promotion" THEN P!TypeOK ELSE R!TypeOK
  /\ w \in Wrappers /\ wfile \in {"absent", "empty"} \cup Statuses
  /\ wexit \in {None, 0, 2, 3}
  /\ launches \in 0..MaxLaunches /\ troubles \in 0..MaxTroubles

\* The child's receipt is right about the cluster, also after the wrapper has
\* cut the child off, killed it, or launched it again.
ReceiptsAreTrue ==
  IF mode = "promotion" THEN P!ReceiptIsTrue ELSE R!ReceiptIsTrue

\* However a launch ends, the child's journal names what it may have changed.
LeftIsJournaled ==
  IF mode = "promotion" THEN P!TargetIsJournaled ELSE R!LeftIsJournaled

\* No launch of the reset, however it is cut off, empties a relay in use.
ResetWhileQuiet == mode = "reset" => R!ResetWhileQuiet

\* What the wrapper calls completed, by its exit code or its receipt, is
\* done and stays done, through timeouts, signals, lost answers and resumed
\* journals: the target runs, or both relays are empty and every temporary
\* change is taken back.
CompletedIsDone ==
  wexit \in {0, 3} \/ wfile \in {"completed", "completed-cleanup-incomplete"}
    => CASE mode = "promotion" -> image = "target" /\ rfile = "completed"
         [] mode = "reset" -> /\ relays = {} /\ gate = "open"
                              /\ flux = "active" /\ agent = 1
                              /\ rfile = "completed"

\* The promotion implements OneChange: through every launch, resume, kill and
\* lost answer the image changes at most once, after its intent is durable;
\* a change that an earlier run began to take back is never made again and
\* never called complete, and one that was called complete stays.
Change ==
  INSTANCE OneChange WITH
    Verdicts <- P!Verdicts,
    state <- IF mode = "promotion" /\ image = "target" THEN "new" ELSE "old",
    asked <- mode = "promotion" /\ P!At(disk.events, "patch-intent") # {},
    takenBack <- mode = "promotion" /\ P!RollbackRequired(disk.events),
    said <- IF mode = "promotion" /\ rfile \in P!Verdicts THEN rfile ELSE None

PromotionIsOneChange == Change!Spec

\* Writer and reader of the journals agree: the wrapper accepts what a child
\* leaves that exits with success.  The exceptions are journals that record
\* two outcomes of one request, the commit of the answer having raised, and
\* those of a promotion that was resumed after it had been found not applied
\* or not been found at all.
Doubted ==
  CASE mode = "promotion" ->
         \/ {"patch-after", "patch-applied"}
              \subseteq {disk.events[i] : i \in DOMAIN disk.events}
         \/ \E i \in DOMAIN disk.events :
              disk.events[i] \in {"patch-classified", "patch-uncertain",
                                  "resume-classified"}
    [] mode = "reset" -> "again" \in disk

SuccessIsAccepted ==
  w.phase = "judge" /\ ~Doubted => EvidenceAccepted

\* The wrapper and its child mean the same by success, in both directions.
SuccessIsAgreed == CompletedIsDone /\ SuccessIsAccepted

=============================================================================
