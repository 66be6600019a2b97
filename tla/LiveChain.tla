----------------------------- MODULE LiveChain -----------------------------
\* The live wrapper, scripts/run-staging-participant-gateway-live.py, in
\* the modes that run a chain of programs: the materialiser of the gateway
\* Secrets, the dormant Flux bootstrap, its recovery and its teardown, the
\* activation, and the materialiser of the eligibility issuer.
\*
\* The two materialisers are the modules ParticipantSecrets and
\* EligibilityIssuer; the bootstrap and the activation, which FluxBootstrap
\* and GatewayActivation model in full, are here one step each, with the
\* outcomes those modules show.  What is at stake is the chain: which
\* program runs after which result, what the wrapper's receipt says must
\* be done next, and whether it is right about the cluster.
EXTENDS Naturals, Sequences

CONSTANTS CreateOrder, Absent,
          Worlds,         \* which of AllWorlds a behaviour may begin in
          MaxOperations,  \* bound: operations of each materialiser
          MaxLaunches,    \* bound: starts of the wrapper
          MaxTroubles     \* bound: failures, signals, lost transports, others' acts

VARIABLES world,                                                   \* where it began
          secrets, travelling, forgotten, receipts, torn, job, outcome,  \* ParticipantSecrets
          secret, asked, journal, receipt, process, meddled,       \* EligibilityIssuer
          dormant,   \* the dormant Flux objects; "part": those that are not Kustomizations
          boot,      \* the receipt of the bootstrap that created something last
          gateway,   \* the objects of the participant gateway
          w,         \* the memory of the running wrapper
          evidence,  \* the receipt of the last wrapper, with what it was about
          launches, troubles

\* requiredAbsentTargets: six objects of the gateway, two Kustomizations.
InUse == (IF gateway # "absent" THEN {"gateway"} ELSE {})
         \cup (IF dormant \in {"ready", "active"} THEN {"kustomizations"} ELSE {})

P == INSTANCE ParticipantSecrets WITH inUse <- InUse
I == INSTANCE EligibilityIssuer WITH travelling <- asked

participant == <<secrets, travelling, forgotten, receipts, torn, job, outcome>>
issuer == <<secret, asked, journal, receipt, process, meddled>>
flux == <<dormant, boot, gateway>>
children == <<participant, issuer, flux>>
wrapper == <<w, evidence, launches>>
vars == <<world, children, wrapper, troubles>>

AllWorlds == {"new",       \* nothing is there
              "secrets",   \* the Secrets of a past revision and their receipt
              "dormant",   \* those, and dormant Flux with its receipt
              "issuer"}    \* a behaviour about the eligibility issuer

ASSUME ChainConstants ==
  /\ P!SecretConstants /\ I!IssuerConstants
  /\ Worlds \subseteq AllWorlds
  /\ {"secrets", "dormant"} \cap Worlds # {} => MaxOperations >= 1  \* the past revision's
  /\ {MaxLaunches, MaxTroubles} \subseteq Nat

-----
Modes == {"fresh", "reuse", "continue", "teardown-dormant", "teardown-secrets",
          "issuer-materialize", "issuer-recover"}
Ends == {"activated", "dormant-torn-down", "participant-secrets-torn-down",
         "eligibility-issuer-materialized", "eligibility-issuer-recovered"}
Bases == Ends \cup {"blocked", "bootstrap-state-indeterminate", "dormant-ready",
                    "dormant-cleanup-required", "dormant-continuation-required",
                    "cancelled-dormant-torn-down"}

\* base: base_status; booted, secreted, torndown, undone: a receipt of the
\* bootstrap, the materialisation, the dormant teardown, the Secret teardown
\* was verified.  History: found, what was there at the launch; blind, how
\* the bootstrap or a materialiser ended was lost to the wrapper.
NotThere == [dormant |-> "absent", gateway |-> "absent"]
NotRunning == [at |-> "idle", mode |-> "none", op |-> 0, transport |-> FALSE,
               signalled |-> FALSE, stopping |-> FALSE, base |-> "blocked",
               booted |-> FALSE, secreted |-> FALSE, torndown |-> FALSE,
               undone |-> FALSE, activated |-> FALSE, succeeded |-> FALSE,
               tidy |-> TRUE, found |-> NotThere, blind |-> FALSE]

\* The fields of the receipt that the properties are about; mode, op,
\* found and blind tie it to the launch.
NoEvidence == [status |-> "none", clean |-> FALSE, exit |-> 0, dormantNext |-> FALSE,
               secretNext |-> FALSE, mode |-> "none", op |-> 0, found |-> NotThere, blind |-> FALSE]

Past == world \in {"secrets", "dormant"}

Init ==
  /\ world \in Worlds
  /\ travelling = {} /\ forgotten = {} /\ job = P!Idle /\ outcome = Absent
  /\ torn = [n \in P!Operations |-> "none"]
  /\ secrets = [l \in P!Labels |-> IF Past THEN P!Record(1) ELSE Absent]
  /\ receipts = [n \in P!Operations |->
                   IF Past /\ n = 1 THEN [status |-> "materialized", secrets |-> secrets]
                   ELSE P!NoReceipt]
  /\ I!Init
  /\ dormant = (IF world = "dormant" THEN "ready" ELSE "absent")
  /\ boot = (IF world = "dormant" THEN "historical" ELSE "none")
  /\ gateway = "absent"
  /\ w = NotRunning /\ evidence = NoEvidence
  /\ launches = 0 /\ troubles = 0

-----
At(at) == w.at = at
Goto(at) == w' = [w EXCEPT !.at = at]
Trouble == troubles < MaxTroubles /\ troubles' = troubles + 1
Smooth == UNCHANGED troubles

\* run_child: the transport lives, and no signal was recorded.
Ready == w.transport /\ ~w.signalled

FirstUnused(n, started) == \A k \in 1 .. n : started[k] <=> k < n

\* The protected verifier and the projection it prints.  What a program wrote
\* passes it, so it tells apart the statuses only.
Verified(status, expected) == status = expected

\* parse_args, and the source receipts that are bound and verified before
\* the transport is up.  A receipt of a past revision is admitted for the
\* purpose it was pinned for and for nothing else.
Admitted(m, n) ==
  CASE m = "fresh" -> /\ world # "issuer" /\ n \in P!Operations
                      /\ FirstUnused(n, [k \in P!Operations |-> receipts[k] # P!NoReceipt])
    [] m = "reuse" -> Past /\ n = 1
    [] m = "continue" -> boot = "historical" /\ n = 1
    [] m = "teardown-dormant" -> boot = "dormant-ready" /\ n = 0
    [] m = "teardown-secrets" -> /\ n \in P!Operations /\ ~(Past /\ n = 1)
                                 /\ Verified(receipts[n].status, "materialized")
                                 /\ torn[n] # "torn-down"
    [] m = "issuer-materialize" -> /\ world = "issuer" /\ n \in I!Operations
                                   /\ FirstUnused(n, [k \in I!Operations |-> journal[k] # I!NoFile])
    [] m = "issuer-recover" -> /\ world = "issuer" /\ n \in I!Operations
                               /\ receipt[n] # I!NoReceipt

Launch(m, n) ==
  /\ At("idle") /\ launches < MaxLaunches /\ Admitted(m, n)
  /\ w' = [NotRunning EXCEPT !.at = "prepare", !.mode = m, !.op = n,
                             !.found = [dormant |-> dormant, gateway |-> gateway]]
  /\ evidence' = NoEvidence /\ launches' = launches + 1
  /\ UNCHANGED <<world, children, troubles>>

First(m) ==
  CASE m = "fresh" -> "materialize" [] m = "reuse" -> "boot" [] m = "continue" -> "decide"
    [] m = "teardown-dormant" -> "unboot" [] m = "teardown-secrets" -> "unmake"
    [] m \in {"issuer-materialize", "issuer-recover"} -> "issue"

\* The inputs are decrypted and the guards started.
Prepare ==
  /\ At("prepare")
  /\ \/ ~w.signalled /\ w' = [w EXCEPT !.at = First(w.mode), !.transport = TRUE] /\ Smooth
     \/ w.signalled /\ Goto("closing") /\ Smooth
     \/ Trouble /\ Goto("closing")
  /\ UNCHANGED <<world, children, evidence, launches>>

-----
\* The materialisers, step by step

Spawn ==
  /\ w.at \in {"materialize", "issue"}
  /\ IF Ready
     THEN CASE w.mode = "fresh" ->
                 Goto("materializing") /\ P!StartMaterialize(w.op) /\ UNCHANGED issuer
            [] w.mode = "issuer-materialize" ->
                 Goto("issuing") /\ I!StartMaterialize(w.op) /\ UNCHANGED participant
            [] w.mode = "issuer-recover" ->
                 Goto("issuing") /\ I!StartRecovery(w.op) /\ UNCHANGED participant
     ELSE Goto("closing") /\ UNCHANGED <<participant, issuer>>
  /\ UNCHANGED <<world, flux, evidence, launches, troubles>>

\* A signal does not keep the Secrets from being torn down.
SpawnTeardown ==
  /\ At("unmake")
  /\ IF w.transport THEN Goto("unmaking") /\ P!StartTeardown(w.op)
     ELSE Goto("closing") /\ UNCHANGED participant
  /\ UNCHANGED <<world, issuer, flux, evidence, launches, troubles>>

ChildSteps ==
  /\ \/ P!Proceed /\ UNCHANGED issuer
     \/ I!Proceed /\ UNCHANGED participant
  /\ UNCHANGED <<world, flux, wrapper, troubles>>

\* A call or a file fails.
ChildFails ==
  /\ Trouble
  /\ \/ (P!Fail \/ P!Raise) /\ UNCHANGED issuer
     \/ I!Fail /\ UNCHANGED participant
  /\ UNCHANGED <<world, flux, wrapper>>

\* The 900 seconds are over.  Signals are not forwarded to these children:
\* stop_process sends the first, and five seconds later SIGKILL.
Timeout ==
  /\ ~w.stopping /\ Trouble
  /\ w' = [w EXCEPT !.stopping = TRUE, !.blind = TRUE]
  /\ \/ (P!Raise \/ P!RaiseCreating \/ (~P!At("idle") /\ UNCHANGED participant))
        /\ UNCHANGED issuer
     \/ I!Stop /\ UNCHANGED participant
  /\ UNCHANGED <<world, flux, evidence, launches>>

KillChild ==
  /\ w.stopping /\ P!Kill
  /\ UNCHANGED <<world, issuer, flux, wrapper, troubles>>

\* The receipt is snapshotted and verified before the exit code is looked at.
\* A child that was timed out is an error whatever it left.
JudgeSecrets ==
  /\ At("materializing") /\ P!At("idle")
  /\ \/ /\ w.stopping /\ Goto("closing") /\ Smooth
     \/ /\ ~w.stopping /\ Smooth
        /\ LET ok == Verified(receipts[w.op].status, "materialized") IN
           w' = [w EXCEPT !.secreted = ok,
                          !.at = IF ok /\ outcome = 0 THEN "boot" ELSE "closing"]
     \/ /\ ~w.stopping /\ Trouble
        /\ w' = [w EXCEPT !.at = "closing", !.blind = TRUE]
  /\ UNCHANGED <<world, children, evidence, launches>>

JudgeTeardown ==
  /\ At("unmaking") /\ P!At("idle")
  /\ \/ /\ ~w.stopping /\ Verified(torn[w.op], "torn-down") /\ Smooth
        /\ w' = [w EXCEPT !.at = "closing", !.undone = TRUE, !.succeeded = TRUE,
                          !.base = "participant-secrets-torn-down", !.tidy = outcome = 0]
     \/ /\ w.stopping \/ ~Verified(torn[w.op], "torn-down")
        /\ Goto("closing") /\ Smooth
     \/ ~w.stopping /\ Trouble /\ w' = [w EXCEPT !.at = "closing", !.blind = TRUE]
  /\ UNCHANGED <<world, children, evidence, launches>>

JudgeIssuer ==
  /\ At("issuing") /\ I!At("idle")
  /\ \/ /\ ~w.stopping /\ I!Published(w.op) /\ process.code = 0 /\ Smooth
        /\ w' = [w EXCEPT !.at = "closing", !.succeeded = TRUE,
                   !.base = IF w.mode = "issuer-recover" THEN "eligibility-issuer-recovered"
                            ELSE "eligibility-issuer-materialized"]
     \/ /\ w.stopping \/ ~I!Published(w.op) \/ process.code # 0
        /\ Goto("closing") /\ Smooth
     \/ ~w.stopping /\ Trouble /\ w' = [w EXCEPT !.at = "closing", !.blind = TRUE]
  /\ UNCHANGED <<world, children, evidence, launches>>

-----
\* Bootstrap and activation, one step each

FluxStep == UNCHANGED <<world, participant, issuer, evidence, launches>>

\* The outcomes of the dormant bootstrap: it made everything, and its cleanup
\* may still fail; it found something there and touched nothing; it rolled
\* back, wholly or not; it was killed.
Boot ==
  /\ At("boot") /\ FluxStep /\ UNCHANGED gateway
  /\ \/ ~Ready /\ Goto("closing") /\ UNCHANGED <<dormant, boot>> /\ Smooth
     \/ /\ Ready /\ dormant = "absent"
        /\ dormant' = "ready" /\ boot' = "dormant-ready"
        /\ \/ w' = [w EXCEPT !.at = "decide", !.booted = TRUE] /\ Smooth
           \/ /\ w' = [w EXCEPT !.at = "closing", !.booted = TRUE, !.base = "dormant-ready",
                                !.tidy = FALSE]
              /\ Trouble
           \/ w' = [w EXCEPT !.at = "closing", !.blind = TRUE] /\ Trouble
     \/ /\ Ready /\ dormant # "absent"
        /\ Goto("recover") /\ UNCHANGED <<dormant, boot>> /\ Smooth
     \/ /\ Ready /\ dormant = "absent" /\ Trouble
        /\ \/ UNCHANGED dormant /\ boot' = "rolled-back" /\ Goto("recover")
           \/ dormant' = "part" /\ boot' = "rollback-incomplete" /\ Goto("recover")
           \/ /\ dormant' \in {"absent", "part", "ready"} /\ boot' = "empty"
              /\ w' = [w EXCEPT !.at = "closing", !.blind = TRUE]

\* The bootstrap's recovery, from the receipt it left; what it achieves is
\* not looked at again.
Recover ==
  /\ At("recover") /\ FluxStep /\ UNCHANGED <<boot, gateway>>
  /\ \/ ~w.transport /\ Goto("closing") /\ UNCHANGED dormant /\ Smooth
     \/ /\ w.transport /\ boot = "rollback-incomplete" /\ dormant = "part" /\ w.found.dormant = "absent"
        /\ dormant' = "absent" /\ Goto("closing") /\ Smooth
     \/ /\ w.transport /\ ~(boot = "rollback-incomplete" /\ w.found.dormant = "absent")
        /\ Goto("closing") /\ UNCHANGED dormant /\ Smooth
     \/ w.transport /\ Goto("closing") /\ UNCHANGED dormant /\ Trouble

\* Dormant Flux is ready: activate it, or, if the operator or the transport
\* says no, take it away or leave it to a later run.
Decide ==
  /\ At("decide") /\ FluxStep /\ UNCHANGED <<flux, troubles>>
  /\ LET known == [w EXCEPT !.booted = TRUE] IN
     w' = IF Ready THEN [known EXCEPT !.at = "activate"]
          ELSE IF w.mode = "continue"
          THEN [known EXCEPT !.at = "closing", !.base = "dormant-continuation-required"]
          ELSE IF w.transport THEN [known EXCEPT !.at = "undo"]
          ELSE [known EXCEPT !.at = "closing", !.base = "dormant-cleanup-required"]

\* run_dormant_teardown, from the receipt of the bootstrap: all of it, or, if
\* something else is there, nothing.
TearDownDormant ==
  /\ w.at \in {"undo", "unboot"} /\ FluxStep /\ UNCHANGED <<boot, gateway>>
  /\ LET done == [w EXCEPT !.at = "closing", !.torndown = TRUE,
                    !.succeeded = w.at = "unboot",
                    !.base = IF w.at = "unboot" THEN "dormant-torn-down"
                             ELSE "cancelled-dormant-torn-down"]
         own == dormant \in {"absent", "ready", "part"} IN
     \/ w.transport /\ own /\ dormant' = "absent" /\ w' = done /\ Smooth
     \/ /\ w.transport /\ own /\ dormant' = "absent" /\ Trouble
        /\ w' = [done EXCEPT !.tidy = FALSE]
     \/ /\ w.transport /\ own /\ Trouble
        /\ dormant' \in IF dormant = "ready" THEN {"absent", "part", "ready"} ELSE {"absent", dormant}
        /\ Goto("closing")
     \/ (~w.transport \/ ~own) /\ Goto("closing") /\ UNCHANGED dormant /\ Smooth

\* The Secrets of the bundle must be there; those of a past receipt must be
\* what it says.
SecretsFit ==
  /\ \A l \in P!Labels : secrets[l] # Absent
  /\ w.mode # "fresh" => \A l \in P!Labels : secrets[l] = receipts[1].secrets[l]

\* The outcomes of the activation: everything runs, though its cleanup or the
\* verification of its receipt may still fail; it refused; it rolled back,
\* wholly or not, or was killed.
Activate ==
  /\ At("activate") /\ FluxStep /\ UNCHANGED boot
  /\ LET fit == dormant = "ready" /\ gateway = "absent" /\ SecretsFit
         done == [w EXCEPT !.at = "closing", !.activated = TRUE, !.succeeded = TRUE,
                           !.base = "activated"] IN
     \/ /\ ~Ready \/ ~fit
        /\ Goto("closing") /\ UNCHANGED <<dormant, gateway>> /\ Smooth
     \/ /\ Ready /\ fit /\ gateway' = "active" /\ dormant' = "active"
        /\ \/ w' = done /\ Smooth
           \/ w' = [done EXCEPT !.tidy = FALSE] /\ Trouble
           \/ Goto("closing") /\ Trouble
     \/ /\ Ready /\ fit /\ Trouble /\ Goto("closing")
        /\ \/ UNCHANGED <<dormant, gateway>>
           \/ gateway' \in {"absent", "part", "active"} /\ dormant' \in {"ready", "active"}

-----
\* The end of a run

\* Mutant: what the exception handler found out is left as it was.
CloseAsBlocked ==
  /\ At("closing")
  /\ \/ Goto("commit") /\ Smooth
     \/ w' = [w EXCEPT !.at = "commit", !.tidy = FALSE] /\ Trouble
  /\ UNCHANGED <<world, children, evidence, launches>>

\* The exception handler names a bootstrap that nothing became of; then
\* session, processes, bindings and plaintext are removed.
Close ==
  /\ At("closing")
  /\ LET loose == w.booted /\ ~w.activated /\ ~w.torndown /\ w.base = "blocked"
         named == [w EXCEPT !.at = "commit",
                     !.base = IF loose THEN "bootstrap-state-indeterminate" ELSE w.base] IN
     \/ w' = named /\ Smooth
     \/ w' = [named EXCEPT !.tidy = FALSE] /\ Trouble
  /\ UNCHANGED <<world, children, evidence, launches>>

\* classify_final_status, and the two continuations.
ExitCode == IF ~w.tidy THEN 3 ELSE IF w.succeeded THEN 0 ELSE 2
Evidence ==
  [status |-> w.base, clean |-> w.tidy, exit |-> ExitCode,
   dormantNext |-> \/ w.base \in {"dormant-cleanup-required", "dormant-ready",
                                  "bootstrap-state-indeterminate"}
                   \/ w.mode = "continue" /\ ~w.activated,
   secretNext |-> w.secreted /\ ~w.activated /\ ~w.undone,
   mode |-> w.mode, op |-> w.op, found |-> w.found, blind |-> w.blind]

CommitReceipt ==
  /\ At("commit") /\ w' = NotRunning
  /\ \/ evidence' = Evidence /\ Smooth
     \/ evidence' \in {NoEvidence, [Evidence EXCEPT !.exit = 3]} /\ Trouble
  /\ UNCHANGED <<world, children, launches>>

\* The transport dies, or a signal is recorded.
Disturb ==
  /\ ~At("idle") /\ Trouble
  /\ \/ w.transport /\ w' = [w EXCEPT !.transport = FALSE]
     \/ ~w.signalled /\ w' = [w EXCEPT !.signalled = TRUE]
  /\ UNCHANGED <<world, children, evidence, launches>>

\* The host is lost with everything on it.
HostLost ==
  /\ ~At("idle") /\ Trouble /\ w' = NotRunning
  /\ IF P!At("idle") THEN UNCHANGED participant ELSE P!Kill
  /\ IF I!At("idle") THEN UNCHANGED issuer ELSE I!Stop
  /\ UNCHANGED <<world, flux, evidence, launches>>

\* What others do to the cluster, and requests that are served late.
Elsewhere ==
  /\ \/ world # "issuer" /\ P!Interfere /\ UNCHANGED issuer /\ Trouble
     \/ world = "issuer" /\ I!Interfere /\ UNCHANGED participant /\ Trouble
     \/ P!ServeLate /\ UNCHANGED issuer /\ Smooth
     \/ I!ServeLate /\ UNCHANGED participant /\ Smooth
  /\ UNCHANGED <<world, flux, wrapper>>

Next ==
  \/ \E m \in Modes, n \in 0 .. MaxOperations : Launch(m, n)
  \/ Prepare \/ Spawn \/ SpawnTeardown
  \/ ChildSteps \/ ChildFails \/ Timeout \/ KillChild
  \/ JudgeSecrets \/ JudgeTeardown \/ JudgeIssuer
  \/ Boot \/ Recover \/ Decide \/ TearDownDormant \/ Activate
  \/ Close \/ CommitReceipt \/ Disturb \/ HostLost \/ Elsewhere

Spec == Init /\ [][Next]_vars

-----
Committed == At("idle") /\ evidence.status # "none"

TypeOK ==
  /\ world \in Worlds
  /\ secrets \in [P!Labels -> P!Identities \cup {Absent}]
  /\ travelling \cup forgotten \subseteq P!Operations \X P!Labels
  /\ \A n \in P!Operations :
       /\ receipts[n].status \in {"none", "empty", "materialized", "rolled-back",
                                  "rollback-incomplete"}
       /\ receipts[n].secrets \in P!Records
       /\ torn[n] \in {"none", "empty", "torn-down", "teardown-incomplete"}
  /\ job.op \in 0 .. MaxOperations /\ job.created \in P!Records
  /\ secret \in I!Records /\ asked \subseteq I!Operations
  /\ \A n \in I!Operations :
       journal[n].record \in I!Records /\ receipt[n].record \in I!Records
  /\ process.record \in I!Records /\ meddled \in BOOLEAN
  /\ dormant \in {"absent", "part", "ready", "active"}
  /\ gateway \in {"absent", "part", "active"}
  /\ w.mode \in Modes \cup {"none"} /\ w.base \in Bases
  /\ evidence.status \in Bases \cup {"none"} /\ evidence.exit \in {0, 2, 3}
  /\ launches \in 0 .. MaxLaunches /\ troubles \in 0 .. MaxTroubles

\* Exit code 0 means that what the receipt names has been achieved: the
\* gateway runs, over its Secrets; or dormant Flux or the Secrets are gone;
\* or the issuer's Secret has its receipt.
SuccessIsTrue ==
  Committed /\ evidence.exit = 0 =>
    CASE evidence.status = "activated" ->
           gateway = "active" /\ dormant = "active" /\ \A l \in P!Labels : secrets[l] # Absent
      [] evidence.status = "dormant-torn-down" -> dormant = "absent"
      [] evidence.status = "participant-secrets-torn-down" ->
           torn[evidence.op] = "torn-down" /\ ~P!Remains(evidence.op)
      [] OTHER -> I!Published(evidence.op)

\* A run that commits its receipt without having activated the gateway leaves
\* nothing behind unnamed: dormant Flux it made or activated in part is in the
\* dormant continuation, or in the incomplete rollback of the bootstrap; Secrets
\* it made are in the Secret continuation, or the materialiser's own receipt
\* does not claim they are gone.  Nothing is said of a run that was blind: a
\* child of it timed out, or how the bootstrap or a materialiser ended could not
\* be verified.  Excepted too is a creation that the materialiser forgot.
LeftoversAreNamed ==
  Committed /\ evidence.status # "activated" /\ ~evidence.blind =>
    /\ dormant # "absent" /\ evidence.found.dormant = "absent"
         => evidence.dormantNext \/ boot = "rollback-incomplete"
    /\ gateway # "absent" /\ evidence.found.gateway = "absent" => evidence.dormantNext
    /\ evidence.mode = "fresh" => \A l \in P!Labels :
         P!Lives(evidence.op, l) =>
           \/ evidence.secretNext
           \/ receipts[evidence.op].status \in {"empty", "rollback-incomplete"}
           \/ <<evidence.op, l>> \in forgotten

\* The evidence of a launch is true of what it achieved, and, unless the launch was
\* blind, of what it left.  A launch that dies without a receipt has none.
EvidenceIsTrue == SuccessIsTrue /\ LeftoversAreNamed

\* As long as anything of the gateway is there, all its Secrets are: no
\* launch, signal or repeated teardown takes them away under it.
SecretsUnderGateway == gateway # "absent" => \A l \in P!Labels : secrets[l] # Absent

\* After a complete rollback nothing of the operation lives or is still to be
\* served, but for creations that were forgotten; after a teardown nothing
\* lives of it.
WhatIsGoneIsGone ==
  \A n \in P!Operations :
    /\ receipts[n].status = "rolled-back" =>
         \A l \in P!Labels :
           <<n, l>> \in forgotten \/ ~(P!Lives(n, l) \/ <<n, l>> \in travelling)
    /\ torn[n] = "torn-down" => ~P!Remains(n)

\* Only the Secrets of the operation at hand are deleted, and only as the
\* process saw them or the receipt recorded them.
DeletesOwn ==
  \A l \in P!Labels :
    secrets[l] # Absent /\ secrets'[l] = Absent =>
      secrets[l].nonce = w.op /\ secrets[l] = P!Ownership[l]

\* So, after every step, the gateway has its Secrets and the materialiser's
\* receipts are right about the cluster, and no rollback or teardown takes what
\* somebody else created or edited.
SecretsAreKept == [][DeletesOwn /\ (SecretsUnderGateway /\ WhatIsGoneIsGone)']_vars

\* Whatever interrupts the issuer's materialiser, a Secret of an operation,
\* or a request for it that may still be served, has a journal from which a
\* recovery can finish, or its receipt; and the journal is right about it.
IssuerIsRecoverable ==
  \A n \in I!Operations :
    n \in asked \/ (secret # Absent /\ secret.nonce = n) =>
      /\ \/ journal[n].phase \in I!Recoverable
         \/ journal[n].phase \in I!Final /\ I!Published(n)
      /\ ~meddled => journal[n].record \in {Absent, secret}

\* A published receipt is the record of the live Secret, unless somebody
\* edited or deleted it, and a journal calls nothing final that has none.
IssuerReceiptIsTrue ==
  \A n \in I!Operations :
    /\ journal[n].phase \in I!Final => I!Published(n) /\ journal[n].record = receipt[n].record
    /\ I!Published(n) => receipt[n].record.nonce = n
    /\ I!Published(n) /\ ~meddled => receipt[n].record = secret

\* The issuer's Secret, its journal and its receipt never drift apart so far
\* that nobody can tell which operation made it.
IssuerIsTrue == IssuerIsRecoverable /\ IssuerReceiptIsTrue

=============================================================================
