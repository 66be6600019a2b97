# Formal models of the Röbel staging operators

This directory holds TLA+ models of the programs under `scripts/` that change
the Röbel staging cluster and its volumes, the TLC configurations that check
them, and TLAPS proofs about them. Paths and line numbers are those of the
repository.

The repository is a set of one-time *operator programs*: each performs one
reviewed change of a Kubernetes cluster, a database or a volume, leaves a
durable receipt, and must undo or finish exactly its own work after any
interruption. That is where the difficulty lies. None of them holds a lock in
the cluster, so every decision rests on UIDs, resourceVersions, nonces and what
was durable before the last request left. More than a third of the Python is
tests, and about 15,000 lines are pure verifiers, which compare reviewed files
with pinned digests and keep no state.

## 1. Inventory

| Component | Source (`scripts/` unless a path is given) | State | Operations | Modules |
|---|---|---|---|---|
| Dormant Flux bootstrap | `staging_participant_flux_bootstrap.py`, `bootstrap-staging-participant-flux.py` | eight objects, nonce, receipt file | live run, rollback, `--recover`, `--teardown` | `FluxBootstrap` |
| Workbench baseline handover | `workbench_baseline_handover.py` | three RBAC objects, a Kustomization, a NetworkPolicy, journal, receipt | live run, rollback, recovery on re-entry, finalization | `WorkbenchHandover` |
| Case runtime upgrade | `case_runtime_upgrade.mjs`, `run-case-runtime-upgrade.mjs` | the Case directory, journal directory, two records, SQLite owner locks | prepare, verify, activate | `CaseRuntimeUpgrade` |
| Participant gateway activation | `activate-staging-participant-gateway.py` | six objects, two Kustomizations, receipt | activate, rollback, recovery of two pinned incidents | `GatewayActivation` |
| Image promotion | `promote-staging-workbench-image.py` | one Deployment image, journal, receipt | patch, classify, roll back, resume, finalize | `ImagePromotion`, `OneChange` |
| Relay fixture reset | `reset-staging-relay-fixtures.py` | route gate, suspension, agent scale, two relay Pods, journal, receipt | nine one-shot mutations, coordinator | `RelayReset` |
| Gateway live wrapper | `run-staging-participant-gateway-live.py` | transport, child process, its outputs, wrapper receipt | launch, forward signals, time out, judge, chain of programs | `LiveTransport`, `LiveChain` (partly) |
| Participant Secret materialiser | `materialize-staging-participant-gateway-secrets.py` | Secrets, receipt | create, rollback, teardown | `ParticipantSecrets` |
| Eligibility issuer materialiser | `materialize-staging-participant-eligibility-issuer.py` | one Secret, journal, receipt | create, recover | `EligibilityIssuer` |
| Tracer Secret materialiser | `materialize-tracer-data-plane-secrets.py` | Secrets, journal, receipt | materialise, recover, teardown | `TracerSecrets` |
| Tracer data plane runner | `run-tracer-data-plane-live.py` | objects, one Kustomization, journal, receipt | activate, recover | `TracerRunner` |
| Case review migration | `case_review_handover.py`, `run-case-review-migration.mjs`, `case_review_backup.mjs` | migration journal, child checkpoints, backup files, two stores | nine stages, expired-setup recovery, finalization window | `ReviewMigration` |
| Participant gateway SQL | `reviewed-render/…/bootstrap/73-` to `77-*.sql` | admissions, reservations, receipts, challenges, adoptions | post, comment, reserve, complete, bind, issue, consume, store, accept, resolve | `ParticipantGateway`, `ParticipantLedger`, `ParticipantTables` |
| Case runtime bootstrap | `case_runtime_bootstrap.py`, `case_runtime_*.py` | objects, write-ahead receipt | create-only, recover | not modelled |
| Case review storage | `case_review_storage.py` | one volume claim | create-only | not modelled |
| Workbench recovery, receipt bridges | `workbench_baseline_recovery.py`, `*dormant*receipt*` | one pinned failed run; archived receipts | delete-only; GET-only | not modelled |
| Verifiers, policies, renders, contracts, workflows, baseline SQL | `verify-*.py`, `render-*.py`, `*_policy.py`, JSON, YAML | none | pure functions, data | out of scope |

**Interactions.** All operators share the cluster through `kubectl` (each
request is one child process) and meet there Flux's kustomize-controller and
other writers. Whether a request can arrive after its client gave up decides
much: the bootstrap and the activation share a `Runner` whose timed-out child
is *not* killed (`activate-staging-participant-gateway.py:1217-1221`), the
handover's `subprocess.run` kills it; a lost answer leaves the question open
in all of them. The live wrapper starts the bootstrap, the activation, the
materialisers, the promotion and the reset as child processes, reads the files
they leave and decides from them what runs next. Operators hand over to each
other by receipts: a teardown binds the bootstrap's success receipt, the
activation starts from a dormant bootstrap, the tracer runner is bound to the
receipt of a Secret materialisation. The Case programs meet the Case runtime
on the volume: the directory's name, its deployment claim, the lock of the
owner database, the sealed store.

**Hard behaviours.** Lost and late answers; a crash between a request and the
commit of its record; a commit that raises after its rename became visible;
signals in the middle of a recovery; objects replaced between a read and a
delete; reconciliations that outlive a suspension; finalizers that outlast a
deadline; two executions of one command; journals written by several
interrupted runs; power failures between two renames; a reviewed window that
closes in the middle; two transactions that interleave between any two statements.
`PROJECT.json` lists each at its line.

**What makes each component correct.**

- *Bootstrap:* it deletes only what it made, can always find what it made,
  reports success or complete rollback only when true, never resumes creation,
  and an interrupted run that is recovered leaves nothing.
- *Handover:* the journal is ahead of the cluster; the two files never
  contradict each other; the predecessor's policy comes back only when Flux can
  no longer overwrite it; RBAC goes last; repeating the command ends the
  transaction.
- *Case upgrade:* no acknowledged Case event is lost, the previous directory is
  retained byte for byte, nothing goes back behind an answered upgrade, and a
  missing root always has an exact way forward.
- *Activation:* a gateway never runs without its isolation; exposure is
  withdrawn before anything else is deleted; what a receipt claims, or names as
  left behind, is so; it ends.
- *Promotion and reset:* the journal names every effect before it happens; the
  change is made at most once, and taken back at most once; relays are emptied
  only while nobody can write to them; the receipt is true.
- *Wrapper:* it accepts exactly what its children mean by success, and what its
  receipt says must be continued or torn down is what is there.
- *Materialisers and tracer:* Secrets stay under the workloads bound to them;
  every Secret left behind can be found from the files; the private key in the
  issuer's Secret, which exists nowhere else, is never orphaned.
- *Review migration:* no request is sent twice; the recorded stages are true of
  the cluster and of both stores at every moment.
- *Gateway SQL:* concurrent calls do what one call after the other would do; a lost
  answer can be fetched again; a post gets one public event; no deadlock.

## 2. Modules

| Module | What it is |
|---|---|
| `FluxBootstrap`, `MCFluxBootstrap` | the bootstrap, its API server and environment; definitions for TLC |
| `FluxBootstrapProofs` | theorems: types and ownership; receipts, order and verdicts |
| `WorkbenchHandover`, `MCWorkbenchHandover`, `WorkbenchHandoverProofs` | the handover; its TLC root; theorems |
| `CaseRuntimeUpgrade`, `MCCaseRuntimeUpgrade`, `CaseRuntimeUpgradeProofs` | the upgrade; its TLC root and worker symmetry; theorems |
| `GatewayActivation`, `MCGatewayActivation` | the activation and the recovery of an incident |
| `GatewayActivationProofs` | theorems: isolation, the order of deletions, receipts |
| `ImagePromotion`, `RelayReset` | the two one-shot programs |
| `OneChange` | the abstract promise of a program that makes one journaled change |
| `LiveTransport` | the wrapper around either of them, by `INSTANCE`; refines `OneChange` |
| `LiveTransportProofs` | theorems: the refinement; receipts, journals and what is called completed |
| `ParticipantSecrets`, `EligibilityIssuer` | two materialisers |
| `LiveChain`, `MCLiveChain` | the wrapper's chain of programs around both, by `INSTANCE` |
| `LiveChainProofs` | theorems: the issuer's journal, the Secrets, the wrapper's evidence |
| `TracerSecrets`, `TracerRunner` | the tracer's materialiser and live runner |
| `TracerDataPlane`, `MCTracerDataPlane` | both in one cluster, by `INSTANCE` |
| `ReviewMigration` | coordinator, driver, child operations, worker and cluster of the migration |
| `ReviewMigrationProofs` | theorems: requests are never repeated; what is recorded is true |
| `ParticipantTables` | the gateway database's vocabulary: calls, rows, unique indexes |
| `ParticipantLedger` | the abstract promise: one call after the other |
| `ParticipantGateway`, `MCParticipantGateway` | the procedures as transactions; refines the ledger; its TLC root |
| `ParticipantAndTracerProofs` | theorems on `ParticipantGateway` and, beside them, on `TracerDataPlane`, each from an inductive invariant |

In every specification module the definitions named "Mutant of X" are plausible
bugs. They are reached from no specification: replacing X by its mutant makes
TLC report the property that `PROJECT.json` lists beside it.

Proofs of the live state over many objects (preflight, preservation, readiness)
appear in all modules as *facets*: a facet holds or has drifted, a proof passes
when the facets it reads hold. A read may raise.

### FluxBootstrap

`Runs` are executions of the command: live runs, or recoveries and teardowns of
an earlier run's receipt. `live[n]` is what the n-th exact name holds, `net` the
requests under way, `receipt[r]` the durable file, `run[r]` the memory of an
execution with its program counter. A live run sees all names absent (`CheckAbsent`),
posts each object (`SendCreate`, `BindAnswer`, `Discover`, `Created`), then for
each object makes the intent durable (`MarkIntent`) and patches the nonce away
(`SendPatch`, `PatchAnswered`, `Retry`, `Removed`), and checks everything again
(`CheckFinal`). Every failure goes through `Abort` into the rollback, which
deletes in reverse with the Kustomizations first (`NextVictim`, `MayDelete`,
`SendDelete`), waits (`WaitAbsent`, `WaitDeadline`) and concludes. `StartRecover`
and `StartTeardown` bind a receipt, `Scan` and `ScanTeardown` decide ownership
from it. `Persist` is one receipt commit and `PersistFails` one that raises,
before or after the rename. `Serve*` is the API server and serves a request
later than it was sent; `Foreign*` and `ControllerTouch` are other writers.

Abstractions: preflight and preservation reads are reads that may raise. The
branch at lines 1148-1157 for a rollback whose signal guard cannot be installed
(it ends as rollback-incomplete without a deletion) is left out. The run29 hand-over variant of the teardown adds two
read-only participant checks and is not a mode of its own. Recovery and teardown
are started on receipts of runs that ended: two operators who recover a *running*
bootstrap on purpose are not modelled, two concurrent live runs are.

### WorkbenchHandover

One transaction, however many executions of the command it takes. `proc` is the
running process with its copy of the journal, `journal` and `receipt` are the two
files. `Enter` is the whole decision at start: a fresh run, a recovery, a pending
deletion, a rebuilt receipt, or refusal because a receipt exists. `Save`,
`SaveFails` and `SaveStale` are journal commits: the last is a sink that no
longer knows the inode it replaced, so every later commit of that process fails.
Mutations are served at once and their answer may be lost (`…Lost` actions,
whose effect either happened or not).

Abstractions: the journal's stages "before" and "uncertain" are one value
("open"); commits that change nothing are modelled only by their failure; the
live proofs over several objects, before the receipt and at its finalization,
are one step; a signal that arrives inside a polling loop is swallowed as a
polling error, as the code does. The unsuspend reads the Kustomization again and
uses the UID it finds (line 2891), and so does the model. After a receipt `Enter`
refuses for ever, which is why deadlock is not checked.

### CaseRuntimeUpgrade

A directory is its lineage (a link for each upgrade that built it), the number of
Case events and whether a runtime has it open: equality of these stands for the
byte comparison of `assertFiles`. The lineage also identifies the directory, and
so its owner database (`held`, `runtime`). Each worker walks through
`activateCaseRuntimeUpgrade` in the order of its statements; each check, lock,
rename and flush is a step, so a second worker, a starting runtime, a crash or a
power failure falls between any two. `after` is the set of volumes that a power
failure may leave: the volume is ext4, whose journal keeps directory operations
in order, and any fsync makes the earlier ones durable. Record files are modelled
by inode: a worker that opened `.pending` goes on writing that inode under
whatever name it has by then.

The Case runtime is not in this repository. It is modelled by what this code
relies on: it opens only an existing root, under the owner database's lock,
leaves it sealed or (after a crash) open, and acknowledges an event only when
it is durable. The host driver is not in the repository either: `Observe` is the
fence it supplies. The code bounds the fence's age by 60 seconds; the model lets
it be older, even across a run of the runtime, until `Expire` withdraws it. That
is weaker than the code, so the safety results do not depend on clocks.

Abstractions: `prepare` is one step (it takes two equal snapshots); `verify` is one
step (`Verify`), whose note `activate` needs (`verified`); parsing,
receipt-chain checks and replay are the equality above. Inside `writeRecord` the
tests for the record and its `.pending` and the creation of the new `.pending`
are one step. Two workers on one volume come from an exec whose stream was lost
and is repeated; plans of different targets come from different worker pods,
which the volume's access mode should keep apart and the model does not.

### GatewayActivation

`live[n]` is what a name holds and who made it (the run, Flux, a foreigner),
`kust[k]` a Kustomization (suspended, a pass in flight and what it has still to apply), `net` the requests under way,
`drift` the facets that no longer hold, `run` the process, `receipt` and
`rescue` the files of the activation and of the recovery. `Proceed` is the
process: reserve the receipt, prove, post each object in order (answer,
conflict, lost answer and the bounded look for it), remove the nonces, unsuspend
the Kustomizations by compare-and-set, wait, prove again, commit. Every failure
enters `rollback_v4`: delete Ingress and Service, suspend the Kustomizations,
wait for the passes in flight, delete the rest in reverse with the isolation
after the Deployment and its Pods, prove absence, write the failure receipt.
`RescueStart` is the recovery of a pinned incident of either kind from the
receipt on disk. `Serve`, `Overtaken` (a write came in between), `Drop`,
`LoseAnswer`, the `Flux…` actions, `PodsGone`, `ForeignWrite` and `Drift` are
the rest of the world.

`stray` collects what an abandoned request brought about after its client had
drawn its conclusion, `forgotten` the object whose creation a signal interrupted:
the properties except exactly these, and section 4 lists them. Dry runs and the
verification modes change nothing outside their own receipt and are left out.

### ImagePromotion, RelayReset, OneChange, LiveTransport

`ImagePromotion`: `image` is the Deployment, `flying` the patches that may still
be served, `disk` the journal (its status and the sequence of its events), `rfile`
the receipt, `prog` the process. `Start` begins or resumes from the two files;
`Proceed` journals the intent, patches, classifies (answer, or one read after a
lost answer), proves the target, and finalizes in three commits or sends the one
inverse patch. A patch carries the resourceVersion it was built from, so any
write of the Deployment kills the ones in flight.

`RelayReset`: the nine mutations run through one scheme (check, intent, request,
answer, one look, wait); `gate`, `flux`, `agent` and `relays` (those that still
hold their events) are the cluster, `disk` the set of journal entries. The
restoration coordinator makes one attempt per outstanding change, whatever
happened. `spoiled` are the relays that lost events while somebody could write.

`OneChange` is what a program with one journaled change promises: asked before
made, made at most once, taken back for good, complete only when it stands.

`LiveTransport` runs one of the two (`mode`): output files, transport, spawn in
a session of its own, forwarded signals, timeout with TERM and KILL, evidence,
cleanup, its receipt and exit code. The child's module is instantiated and its
steps are the wrapper's step `ChildSteps`; a killed wrapper host kills the child.
`Change == INSTANCE OneChange WITH …` maps the image, the intent and the verdict,
and the run checks `PromotionIsOneChange` for all launches together.

### ParticipantSecrets, EligibilityIssuer, LiveChain

`ParticipantSecrets` keeps its creations in memory only (`job`), looks once after
an unanswered creation, rolls back in reverse and tears down by receipt under the
two deactivation checks. `EligibilityIssuer` never deletes: reserve the receipt,
journal each phase, create, publish by renaming a staged file over the reserved
inode; its recovery can only finish. `LiveChain` is the wrapper in its fresh,
bootstrap, recovery, teardown, activation and issuer modes: which child follows
which result, what a signal, a timeout, a lost transport or an unreadable receipt
between two children makes of it, and what the wrapper's receipt then says must
be continued (`dormantNext`, `secretNext`). The bootstrap and the activation,
modelled in full elsewhere, are one step each here with the outcomes those
modules show; the starting checks before them (lines 6300-6329) are part of that step. `Worlds` are where it begins: in a new cluster, with the
Secrets of a past revision, with its dormant Flux as well, or with the issuer.

`blind` marks evidence the wrapper could not have learnt from any durable
receipt, `forgotten` a creation whose request was sent by a process that then
failed its look; the properties except them and section 4 says where.

### TracerSecrets, TracerRunner, TracerDataPlane

`papers[n]` are the journal and the receipt of materialisation n, `ledger[n]`
those of activation n, `job` and `worker` the running processes. Both programs
journal a nonce first and reserve the receipt; the one creates Secrets, the other
objects whose nonces it removes before it wakes the Kustomization. Both roll back
what their journal proves to be theirs, and recover from the journal alone. A
receipt is written in place and can stay partial. In `TracerDataPlane` the
programs come in any order, one at a time (the wrapper waits for its child), but
requests (`travelling`, `requests`) and a reconciliation outlive the process.
`late` and `tardy` are operations with a creation that was served after their
audit. Versions are left out: somebody else's write between a read and a
compare-and-set makes the request fail, which is one of the faults of `Raise`.

### ReviewMigration

`disk` holds the files: the parent journal (`completed` stages and a pending
flag), one checkpoint per child operation (`n` requests intended, `k` requests
recorded as done, its status), the two workers' command records, the backup's
files. `run` is the process, `world` the cluster, `store` the successor store,
`sent[r]` how often request r was sent (it saturates at 2), `lost` the requests
that were abandoned and may still be served.

The operators follow the call structure. `Coordinate` is
`advance_review_handover`: intent, stage, evidence, record. `Drive` is the
driver: it journals the checkpoint's name, opens it and runs the child of the
stage. `Advance` holds the child operations, each of which in every pass either
sends the next request after making its intent durable, or looks for the effect
of the last one and waits, records or stops. `Exchange` is the stream with the
worker: commands, the backup's upload, its encryption and seal. `Recovery` is the
expired-setup retirement (before the backup) and the continuation behind the
fence in the finalization window (after the migration). `Cluster` lets
deployments unmount, Pods become ready or die, the controller apply what it read
before it was suspended. `Fault` are stops, crashes, lost answers, failing
commits of the stop itself and the closing window, all unbounded.

Pinned inputs, archive format, cryptography and mount tables are abstracted to
whether they agree. Between two boundaries the code rechecks only its objects
(`case_review_handover.py:2729-2731`); `Ready` asks for the stores as well. Flux reads a
spec and shows `Reconciling` in one step (`FluxBegins`): the code looks once (lines 667,
693, 878) and relies on it.

### ParticipantTables, ParticipantLedger, ParticipantGateway

Each procedure of `73-` to `77-*.sql` is the sequence of its statements
(`CreatePost` to `ResolveSynthetic`), and `sess[s]` the transaction of a session:
the call, the statements left, when it began, the locks it holds, the rows it has
written and not committed. A statement sees what is committed when it runs (READ
COMMITTED), waits for an advisory lock, a row lock or a rival insertion into a
unique index (`WaitsFor`), and passes, raises or returns. `now()` is the beginning
of the transaction, which is what the limits and the rows' times use. Answers get
lost, connections break, wallets are revoked and time passes between any two
statements. `relay` is what the gateway has published: it publishes an event only
once its reservation was answered, and completes only after that.

`ParticipantLedger` performs every call at one instant. `Ledger == INSTANCE
ParticipantLedger WITH …` hides the post reservations, which live and die in one
transaction, and `OneAtATime` says that every commit, answer and refusal of the
database is a step of the ledger.

Abstractions: digests, texts, signatures and projections are values that agree or
not; validation of arguments refuses a call before it does anything. An admission
that has expired is renewed by the next call of the same wallet
(`ensure_active_staging_participant`), so only revocation refuses. There is one
municipality. Row locks taken by a transaction's last statement and the key-share
locks of foreign keys are left out: nothing is locked after them. So is the parent
row's lock by the trigger that counts comments; the one thing awaited behind it
(`73:944-957`), a rival audit row, is every rival's last statement. There is one schema
throughout: migration 77's contract rotation (`77:331`, `371`), which refuses an exact
retry of a synthetic adoption committed before it, is not modelled. Posts are not
withdrawn (moderation is outside this repository).

## 3. Runs

| Run | Configuration | Question |
|---|---|---|
| `bootstrap_concurrent` | `MCFluxBootstrap.cfg` | two executions at once: ownership, reachability, verdicts, order, no resumption |
| `bootstrap_recovery` | `MCFluxRecovery.cfg` | one bootstrap, then recoveries and teardowns: everything ends, nothing is left |
| `handover` | `MCWorkbenchHandover.cfg` | all executions of one transaction |
| `handover_interrupted` | `MCHandoverInterrupted.cfg` | a finding (section 4) |
| `upgrade` | `MCCaseRuntimeUpgrade.cfg` | two upgrades in a row, two workers, a Case event, one fault |
| `upgrade_recovery` | `MCUpgradeRecovery.cfg` | rival plans, and that the root returns |
| `gateway_activation` | `MCGatewayActivation.cfg` | one activation and the recovery of what it left |
| `live_operators` | `MCLiveTransport.cfg` | the wrapper around the promotion and around the reset |
| `tracer_data_plane` | `MCTracerDataPlane.cfg` | materialiser and runner, in any order |
| `live_chain` | `MCLiveChain.cfg` | the wrapper's chain of programs |
| `review_migration` | `MCReviewMigration.cfg` | the whole migration |
| `gateway_sql` | `MCParticipantGateway.cfg` | rival calls in concurrent transactions |

**Bounds.** *bootstrap_concurrent* has one RBAC object and one Kustomization:
every rule of the code treats an object by its class and by its position before
or after another, and two objects give each. It has two executions of any kind,
one client failure, one foreign write, and requests that outlive their client,
so both exceptions of `VerdictsHold` occur: without either, TLC refutes it.
*bootstrap_recovery* has three objects (two of one class, so a partial loop can
stop between them), three executions one after the other and two failures, so a
recovery is itself interrupted and repeated. There no request outlives its client:
what lands after the last recovery stays for good (section 4, observation 1).
Nobody else writes there, since its properties are about the program's own
objects. *handover* has two RBAC objects and the Kustomization, any two failures out
of five kinds and one foreign write. *upgrade* has two releases and at most two
links, so that a Case goes to a release and back and an old plan meets its own
release again, with one Case event and one fault (crash of a worker or of the
runtime, power failure, refused fence). *upgrade_recovery* has three releases and
one link, so two plans for the same source compete; its workers also need
`RootReturns`, which excludes symmetry reduction.

*gateway_activation* has four of the six names, one of each role the rollback
distinguishes (isolation, Deployment, Service, Ingress), both Kustomizations, two
faults out of nine kinds, two passes of Flux and one recovery. *live_operators*
has three launches, so an interrupted promotion is resumed twice, and for either
program two request or file faults, one drift and one trouble of the wrapper
(signal, timeout, lost host); it is the largest run, with 2.8 million states.
*tracer_data_plane* has two materialisations and two activations in five
processes, two faults. *live_chain* has two operations in four launches and three
troubles. *review_migration* has no constants at all: the nine stages and their
children are those of the code, and the number of passes, stops, crashes and lost
answers is unbounded. *gateway_sql* has two sessions and two wallets: its locks and
indexes relate pairs of transactions, and `NoWaitCycle` is about the order of locks,
which a pair shows. Six loads (posts, writers, mirrors, topics, citizens, synthetic
passes) each offer the rival calls that share a row, a key or a lock, any number of
times; limits are one write in one unit of time and two in three.

`TypeOK` of the activation, the wrapper, its chain and the tracer documents the
state and is not among the properties of their runs.

The constants `PatchAttempts`, `QuietRounds` and `Attempts` replace the code's
retry counts by two (one for the quiet rounds of *bootstrap_recovery*). Deadlock
is not checked because each of these programs ends, and some stop for good by
design.

**Fairness.** Only liveness uses it. *Bootstrap:* each execution takes its next
step and its deadlines pass (they are computed from a monotonic clock), the API
server serves what it was sent, Flux finishes a deletion, and an operator
starts a recovery for an interrupted run while its objects are all that is
there, which `README.md:1014` prescribes. *Handover:* the process goes on, the
operator repeats the command with the same two files (`README.md:285`: nothing
repeats it automatically), and Flux lets a deleted Kustomization go. *Upgrade:* workers run on,
the host renews its fence, verifies its plan again in a new pod, and repeats it. The last is strong
fairness of `Enter` for each plan, because the fence and the workers come and go;
without the repetition a missing root would stay missing, by design.
*Activation:* the process takes its next step (its waits are bounded by
deadlines), and the API server serves or loses a request that is still awaited;
nothing is assumed of Flux, of abandoned requests or of an operator.

**What the properties say**, beyond their comments in the modules:
`Reclaimable` is the reason the nonce-removal intent is committed first: at every
instant, whatever was interrupted, each object either bears its run's nonce or is
named by a durable intent with its UID. `FilesAreTrue` joins the same promise for
the handover's journal (`WriteAhead`), the agreement of the two files across
failed commits (`FilesAgree`) and the truth of "rolled-back".
`NothingLost` quantifies over every volume that a power failure may leave.
`UpgradesStand` is what `proposals/synthetic-case-runtime-upgrade/README.md`
promises: "an old upgrade plan cannot run again or roll that event back".
`DeletesInOrder` and `IsolatedWhileRunning` constrain the rollback in both
directions: exposure first, isolation last. `SuccessIsAgreed` relates two
programs: the wrapper parses journals that several interrupted runs of another
program wrote, and must accept each that means success and none that does not.
`SecretsUnderWorkloads` and `SecretsAreKept` relate programs that share nothing
but receipts. `LeftoversAreNamed` (in `EvidenceIsTrue` of `LiveChain`) asks that
the next launch be told what to continue. `NeverRepeated` follows each single
request of the migration through all passes and both recoveries, and
`EvidenceIsTrue` of `ReviewMigration` is the story of the nine stages: quiet
before the backup, backup before activation, one store at a time.

## 4. Findings

1. `handover_interrupted`: a crash before the Kustomization's marker is removed
   makes the recovery settle as rollback-incomplete, although the object is
   provably its own (`README.md:247-249`).

**Observations** met while modelling. The models contain these behaviours; where
a property needs an exception for one, it is named in brackets.

*Late or unanswered requests.*
1. Bootstrap: a POST whose answer was lost, and whose look-up raised as well, can
   be followed by `rolled-back` while it is still under way, and is served then
   (`staging_participant_flux_bootstrap.py:240`; the test at
   `test_staging_participant_flux_bootstrap.py:535` is named for the opposite).
   It is one object at most, the next after those on record (`Unread`).
   The same loss in the handover (`workbench_baseline_handover.py:2766`) leaves
   an object behind a receipt that keeps every later execution from looking.
2. Handover: a status write by Flux between the rollback's read and its suspend
   patch leaves Flux running under a terminal receipt, with no failure at all
   (code line 2276; `README.md:222-225`).
3. Activation: an unsuspension that is served after the rollback leaves a
   Kustomization active under `rolled-back` (`stray`). Its suspension is one
   compare-and-set, and if Flux wrote in between, the receipt says incomplete
   although `README.md:817-819` promises the suspension.
4. Promotion: a forward patch that is served after the single read contradicts
   `not-applied` or `rolled-back` (`late`). Tracer and participant Secrets: a
   creation served after the audit likewise (`late`, `tardy`). Reset: a relay
   Pod's deletion may land after the route was reopened (`late`; the receipt then
   says `uncertain`).
5. Participant Secrets: a failed look-up, or a signal inside `create_secret`, is
   not a `PostSendUncertainError`: the receipt says `rolled-back` while the Secret
   may exist (`forgotten`). Activation: a signal inside a creation
   (lines 7675-7677) forgets the object, contrary to `README.md:884-895`
   (`forgotten`).

*Files.*

6. Bootstrap: the commit of `dormant-ready` may raise after its rename
   (`staging_participant_flux_bootstrap.py:126`); the rollback follows, and if its own
   commit fails or the process dies, `dormant-ready` stands over what is rolled back.
   Recovery then refuses; teardown takes what is left (`~succeeded` in
   `SuccessHolds`). Activation: if the success commit's rename is visible, its fsync fails and the
   failure's commit fails too, `activated` stands over a rolled-back cluster
   (`unsaved`). The participant Secret receipt can say `materialized` over deleted
   Secrets in the same way.
7. Promotion: a journal with a patch that was applied but not yet classified, with
   two rollback intents, or being finalized over an empty receipt can never be
   resumed. Tracer: a receipt that was written in part blocks recovery for good.
8. Reset: the gate is remembered as closed only after the one look for a lost answer
   has been journaled (line 2167). If that commit raises, the coordinator passes the
   Ingress over, and a receipt `failed-restored` stands over a closed route, while
   `reset-staging-relay-fixtures.py:2314-2315` promises never to bypass it
   (`unnoted`). A journal commit that fails in a restoration's own exception handler, or a
   signal between two of its blocks, escapes the coordinator and bypasses the gate
   restoration; there is then no receipt. Tracer materialiser: the same after its
   last creation; the journal stays recoverable.
9. Upgrade: two workers inside `writeRecord` at once, one of which is then killed,
   can leave `intent.json` as a prefix. That plan is refused from then on, the root
   stays in place, and a new plan is needed.
10. Review migration: a crash between the commit of a checkpoint's reference and
    the checkpoint's first commit stops every later recovery from that journal;
    likewise for the worker's checkpoint and for an empty `backup-verified.json`.

*Between programs.*

11. The wrapper's child timeout (TERM, KILL five seconds later) can kill a rollback.
    SIGKILL of the wrapper alone leaves an orphaned child beside which a relaunch
    may admit the same journal: there is no lock. The models let a killed host take
    its child with it.
12. The wrapper's receipt asks for no continuation when the bootstrap child failed
    or timed out and its recovery failed or was skipped, or when a child's durable
    receipt could not be verified (`blind`).
13. The wrapper reports `blocked` for a promotion or a reset that completed but
    whose journal records two outcomes of one request, or that was resumed after
    such a classification (`Doubted`).
14. A rolled-back tracer activation clears `recoveryRequired` although Secrets
    materialised in the same launch remain. The wrapper's tracer recovery works on
    a copy of the journal, so the original is never updated; its issuer recovery
    works on the original.
15. The dormant teardown checks only its own eight objects. It can remove dormant
    Flux under participant objects that an incomplete rollback left; after that
    neither the incident's recovery nor the Secret teardown is possible without a
    person. Secrets and dormant Flux of a past revision can be reused or continued
    by the current wrapper but not torn down by it.
16. Review migration: an intent whose request was never sent (its exception is
    ignored) waits for good. A window that closes after the backup and before the
    worker's retirement (three to five stages completed) has no recovery path: the
    expired-setup recovery needs exactly two, the finalization six. A setup whose
    Pod creation was never served cannot be retired, and an expired retirement whose
    own window closes cannot be continued once its Pod is deleted.

*Gateway database.*

17. Consuming a challenge, storing its receipt and accepting an adoption do not ask
    for an admission: a wallet that was revoked after its challenge was issued can
    still adopt. A consumption whose answer is lost burns the challenge; the caller
    is refused and needs a new one. A revocation between the publication of an event
    and its completion leaves the receipt `reserved` for good.

## 5. Proofs

| Theorem | States | Module |
|---|---|---|
| `TypeCorrect`, `DeletesOwn`, `PostsWhileCreating` | `TypeOK`, `OnlyOwnDeleted`, `PostOnlyWhileCreating` | `FluxBootstrapProofs` |
| `ReceiptsReclaim`, `RbacGoesLast` | `Reclaimable`, `KustomizationsFirst` | `FluxBootstrapProofs` |
| `VerdictsTrue`, `SuccessStays` | `VerdictsHold`, its part `SuccessHolds` | `FluxBootstrapProofs` |
| `UpgradeTypes`, `NoEventIsLost`, `EveryUpgradeStands` | `TypeOK`, `NothingLost`, `UpgradesStand` | `CaseRuntimeUpgradeProofs` |
| `SentOnce` | `NeverRepeated` | `ReviewMigrationProofs` |
| `MigrationTypes`, `RecordsAreTrue` | `TypeOK`, `EvidenceIsTrue` | `ReviewMigrationProofs` |
| `HandoverTypes`, `FilesNeverLie` | `TypeOK`, `FilesAreTrue` | `WorkbenchHandoverProofs` |
| `RollbackIsInOrder`, `ReceiptStays` | `RollbackInOrder`, `ReceiptIsFinal` | `WorkbenchHandoverProofs` |
| `Invariance` | the invariant of the gateway's transactions | `ParticipantAndTracerProofs` |
| `NeverInACircle`, `EventsAreUnique` | `NoWaitCycle`, `OneEventPerPost` | `ParticipantAndTracerProofs` |
| `CommittedIsAnswered`, `TransactionsAreSerial` | `RetriesAreAnswered`, `OneAtATime` | `ParticipantAndTracerProofs` |
| `ChainTypeCorrect`, `IssuerRecovers` | the types; `IssuerIsTrue` | `LiveChainProofs` |
| `EvidenceOfChainIsTrue`, `ChainKeepsSecrets` | `EvidenceIsTrue`, `SecretsAreKept` | `LiveChainProofs` |
| `ActivationInvariant`, `ActivationTypes` | the invariant of the activation; its types | `GatewayActivationProofs` |
| `GatewayIsolated`, `ReceiptsTrue` | `IsolatedWhileRunning`, `ReceiptsAreTrue` | `GatewayActivationProofs` |
| `DeletionsInOrder` | `DeletesInOrder` | `GatewayActivationProofs` |
| `PromotionChangesOnce` | `PromotionIsOneChange` | `LiveTransportProofs` |
| `TransportReceiptsAreTrue`, `CompletedIsTrue` | `ReceiptsAreTrue`; `CompletedIsDone` | `LiveTransportProofs` |
| `WhatIsLeftIsJournaled`, `RelaysAreEmptiedWhileQuiet` | `LeftIsJournaled`, `ResetWhileQuiet` | `LiveTransportProofs` |
| `PlaneInvariant`, `PlaneTyped` | the invariant of the tracer's data plane; its types | `ParticipantAndTracerProofs` |
| `PlaneLeftIsRecoverable`, `PlaneSecretsUnderWorkloads` | `LeftIsRecoverable`, `SecretsUnderWorkloads` | `ParticipantAndTracerProofs` |
| `PlaneDeletesAreLicensed`, `PlaneReceiptsAreTrue` | `DeletesAreLicensed`, `ReceiptsAreTrue` | `ParticipantAndTracerProofs` |

Each holds for every value of the constants, under the named assumptions of its
module and nothing else. What a property excepts it does not claim: where the code's
receipt can be wrong (section 4) the exceptions are named in its comment (`Unread` and
`~succeeded` for `VerdictsTrue`; `stray`, `forgotten` and `unsaved` for `ReceiptsTrue`;
`late` and `tardy` for `PlaneLeftIsRecoverable`; `blind`, `forgotten` and a launch
without a receipt for `EvidenceOfChainIsTrue`). Each inductive invariant was given to TLC, as an invariant of the
runs above, before it was proved.

**Bootstrap: types and ownership.** The assumptions are `ConstantsOK` and
`NoneIsApart`. `TypeOK` alone is not
inductive: a cursor that advances must know it stays below N, and an answer that
is bound must hold an object. `TypeInv` therefore adds what each step of an
execution has asked (`Asking`) and recorded (`Progress`). `OwnInv` adds the chain
on which ownership rests: an object with a nonce was made by the operation of
that nonce; every recorded UID, in memory or in a receipt, was made by that
receipt's operation; an answer that will be bound, and every DELETE under way,
names such a UID. Each action has a lemma that it keeps the memory of its own
run well formed and owned; a frame argument keeps the other runs'.

**Bootstrap: receipts and order.** `ReceiptInv` adds three things to `OwnInv`.
*Freshness:* the store's revision is above every UID anybody has heard of (`Old`,
`Aged`), so a UID that is gone never returns. *Memory against file:* a memory knows
at least what its receipt says (`Grown`); a run posts each name once (`Unsent`,
`Alike`), so what it has heard of an object is that object (`Agrees`); a patch
under way, and an object without its nonce, have their durable intent with that
UID (`Proves`). `Reclaimable` is what remains of this when one looks at the
cluster. *Order:* while a rollback deletes at or below a Kustomization's position,
each Kustomization it set out to delete is gone or terminating (`Order`), unless the
run has noted an error, after which it can no longer report completion.

**Bootstrap: verdicts.** `VerdictInv` follows the phases of a run: the try block
guards everything from the first creation to the last check (`Phase`); a run that
posts no more never posts again (`Past`, `Onward`); a recovery or a teardown works
only on such a run. What a successful run has checked stays (`Stand`), because
whoever deletes its objects is undoing it (`Undoing`): the run itself, which would
not have succeeded, its recovery, which its receipt excludes, or a teardown. What
a wait has seen absent cannot return (`Clear`), because only a posting run creates.
A receipt that says `dormant-ready` although its command failed is over what that
command's own rollback took (`Closing`), and nothing else. A request may outlive its
client, so a POST whose answer was never read can be served at any time (`Lost`):
`Clear` and the truth of a recorded removal speak of every object whose answer was
heard (`Heard`). A POST is sent only behind the record of every name before it
(`PostedInv`), so the one unheard object is the next after those on record, which is
the exception that `CompleteMeansGone` makes (`Unread`). No hypothesis is left.

**Handover.** The assumptions are `HandoverConstants` and `NoneIsApart`. The process
may die between any two of its commits and writes, so `HandoverInv` says at every
point how the memory, the two files and the cluster stand to one another.
*Memory and files* (`Fit`): a step is known by where it leads once its commit is
durable (`Due`); the memory knows whatever the journal knows (`Carries`), equals it
where the guarded run writes the cluster (`Backed`), and each phase has its pair of
statuses, with no receipt until the claim is committed (`Running`, `Undoing`,
`Reporting`). Since a raising commit may or may not have replaced the file, the
lemmas about what follows a failure (`RaisedSuits`, `InterruptedSuits`) hold for the
old and for the new journal; `Saved` shows that either fits. *Files and cluster*
(`Ahead`): what is ours is noted, a marker is ours, and a Kustomization is
unsuspended only once it is recorded. *Rollback* (`Sees`): what it has seen stays,
because only the run creates and only the run unsuspends; between look and DELETE
others can only raise the resourceVersion, which the DELETE's precondition tests.
*Claims:* a complete rollback that has been proved stays true while nobody else
writes, since Flux does nothing without an unsuspended Kustomization.
`RollbackIsInOrder` and `ReceiptStays` follow step by step: `WhoWrites` lists the
steps that write at all.

**Activation.** The assumptions are `ActivationConstants`, the order of creation names
each object once and ends with Deployment and Ingress, and `NoneIsApart`.
`ActivationInv` says what the process may rely on at each place, forward and back.
*Forward:* what is bound is what the cursor has passed (`Places`); no create for a
later name was ever sent (`Ahead`), so a 409 is somebody else's; nothing is taken back
before the run turns back (`Pushing`, `Kept`). *Isolation:* whoever may yet make the
Deployment (`MayRun`: the run's own create, an unsuspended or applying reconciler, a
patch that unsuspends it) does so only with the NetworkPolicy there and no DELETE of it
under way (`Isolated`). *Back:* `Passed(m, i)` is what the first `i` phases of the
rollback have established for a process with memory `m`. A phase that is not due, or
ends with an error, establishes nothing beyond its bookkeeping, so the same statement
covers every path through `Due` (`PastStep`, `ErringStep`). What a phase has seen
absent or suspended stays so (`Away`, `Still`), because from then on only a request
that nobody waits for can change it, and the history variable `stray` names what those
changed: that is exactly what the properties except. *Receipts:* whatever the run made
is bound, unresolved, forgotten by a signal or a stray (`Named`), and a verdict is over
`Clear` or `AllThere`, which no later step of the world undoes (`WorldStep`).
`DeletionsInOrder` is proved step by step: `OwnDeleted` from the preconditions of the
DELETEs under way, `ExposedFirst` from what the phases before "delete" have
established.

**Case upgrade.** `NothingLost` speaks of every volume that a power failure may
leave. The invariant says of each of them that it is `Sound`: it has a root whose
lineage is explained, link by link, by a retained source and an intent (`Rooted`),
or exactly one plan has moved the root, and its intent, exact source and whole
candidate are there (`Moving`). What a worker at each step may count on
(`Entitled`) is kept by the locks on the owner databases, one holder each
(`Exclusive`): who holds a root's lock is the only one that can move it. A worker
that passed a flush knows its effects in every possible volume; therefore a result
record, whole under either name, means that the source is retained everywhere, and
an answered upgrade cannot be undone. The assumptions say that the bounds are
natural numbers, the first release is a release, and `None` and "whole" are not
used for anything else.

**Review migration: requests.** The module has no constant and assumes nothing.
`NeverRepeated` alone says nothing of which request may be sent next, so the
invariant `IInv` follows the records a request leaves behind:

- `Journaled`: a request without a durable record was never sent; an operation's
  checkpoint counts at most one request more than it has seen served;
- `AboutToSend`: the process that stands before a send made the record in the step
  before, and the request is unsent;
- `Files` and `Working`: the kinds of the fields, and that a process inside a child
  operation or an exchange knows which one.

Most actions leave records and counters as they are (`Keep`, `DiskStays`); the
writes of a checkpoint (`MoreRecords`, `MoreMail`) only add to them. Records
disappear only in `ContinueFenced`, and with them the requests they were about,
which named a worker that is gone.

**Review migration: evidence.** `EvidenceIsTrue` compares a record with the cluster
long after it was made, while requests whose answers were lost may still be served
and Flux may still apply what it read. `EvidenceInv` needs three ideas beside
`IInv`. *Stages:* an operation runs only in its own stage (`Staged`), and what the
records say of the stages is monotone (`Counted`), so an earlier operation has
nothing left to send. *Requests abroad* (`Untouched`): a request that may still be
served has a record, nobody has seen its effect, and its object is as it was before
it. Two such requests never want the same thing (`NoneAlike`), hence serving one
leaves the objects of the others alone (`Apart`), and whoever has seen an effect
knows that no request for it is abroad. *What was seen stays* (`Standing`): the
source's Deployment and store are what the fence left, because no reconciliation
that had begun before the fence is under way once the scaling has its record; the
reconciler rests until the restoration has its record, and by then the source
revision has moved on. The exchanges add what each result means for the backup and
the successor store (`Talks`, `Exchanged`). Each action has a lemma that keeps all
of it.

**Gateway database.** The assumptions are `LimitsOK`, a window of a limit is at
least one unit of time, and `LoadsOK`, the calls of a load are calls of the twenty
procedures. *No circle:* each statement that may wait has a level, each of the
twenty procedures takes its statements in ascending levels (`Plans`), and what a
session holds or has written is below whatever it may still ask for (`Ordered`), so
who waits asks for a lower level than the one it waits for, and in a circle one of
them asks for the highest. *The rest:* what a transaction has established
by a statement stays true until it ends (`Established`): that its row is not there,
that the row it builds on is, that the wallet is admitted, that its limit leaves
room. Each is false only after a commit of another session which, by the
order of its own statements, holds the same lock (`Exclusive`). So at the commit the
ledger could have taken the call at that instant (`TransactionsAreSerial`: a commit
is one call of `ParticipantLedger`, every other step changes nothing of it), its row
stands for good and answers a repetition (`CommittedIsAnswered`), and a mirror's row
and its unique index allow one event for a post (`EventsAreUnique`, with `Relayed`:
an event is published only for an answered reservation).

**Live chain.** `ChainConstants` says that the bounds are natural numbers, that
the labels of `CREATE_ORDER` differ, that `Absent` is no record, and that a world
with a past revision has room for that revision's operation. `ChainInv` has a part
for each program. *Issuer* (`IssuerInv`): a journal in a phase before the intent, or
one that notes a conflict, means that nothing of the operation is live or under way;
whatever was read of the Secret is still what is live, unless somebody meddled
(`Seen`); the phase of the file is known at each step of the process (`PhasesAt`).
*Secrets* (`SecretInv`): what the memory does not know and has not forgotten was
never made (`Open`, `Gone`); a request is under way only until it is served, so a
record of a Secret excludes a request for it (`Own`); over a gateway no process is
where it could delete (`Covered`), because `check` saw what uses the Secrets, a
creation never ends before the activation begins, and the wrapper waits for one
program at a time (`WhoRuns`). *Wrapper* (`WrapperInv`): until its first program that
changes Flux has run, Flux is as it was at the launch; afterwards its flags and
`base_status` are such that the continuation will name it (`FluxTraced`); success is
set only with what it stands for achieved (`Outcome`), and nothing takes it away
before the receipt is committed. A step of the chain is a step of at most one of
the two programs (`StepOfIssuer`, `StepOfParticipant`), whose part is proved from
their own actions.

**Transports.** The assumptions are `TransportConstants` and `NoneIsApart`. No step
of the wrapper does to the files and the cluster anything but a step of its child or
of others (`NextIsOfChild`), so each child has an invariant of its own, proved action
by action. *Promotion* (`PromotionInv`): what outlives a run is that the target is
live, or a patch for it under way, only with its intent durable, and that once a
rollback is intended no patch for the target is under way (`Lasting`); the journal in
memory may be one entry ahead of the file, after a commit that raised (`Logs`); each
step knows how far the journal is and what it has read (`Due`, `Verdict`). Each
action's lemma also shows that the step is a stutter or one step of `OneChange`
(`ChangesOnce`), which is the refinement. *Reset* (`ResetInv`): a verdict is true
because the locals are (`Locals`): a change they name has no second request under
way, a change they do not name was not made and will not be, except within the look
for a lost answer. It stays true because nothing that would undo it is under way
(`Restored`, `Untouched`), the requests for one object excluding one another
(`ServeIs`). `Place` carries the order of the forward sequence: no deletion is sent
unless the gate, the suspension and the scale hold. *Wrapper* (`WrapperInv`):
`completed` is set only on a receipt that says so, and that receipt is final
(`CompletedStays`).

**Tracer data plane.** The assumption is `PlaneConstants`: the names differ from one
another, and there is something between the workloads and the Kustomization that the
reconciler needs (the tenant's Role and its binding). Without it nothing would stop a
reconciliation that outlives its Kustomization from bringing back a workload the
rollback has just taken, and `LeftIsRecoverable` would not hold: TLC can show it.
`PlaneInv` has a part for the Secrets, one for the objects, and `OneAtWork`: the
wrapper waits for its child, so the two programs are never at work together. *Papers*
(`SecretPaper`, `RunnerPaper`): a record in a journal or a receipt is of an object
that nobody makes a second time, because no request for it is under way (`Known`,
`Marked`); a rolled-back or torn-down operation has nothing in the cluster but what
was served late; an activation with an object in the cluster has all Secrets of its
source (`Supplied`). *Creating* (`Making`, `Activating`): what the process has not
come to was neither asked for nor made, what it has passed is on record; this is why
the record written after each look suffices. *Taking away* (`Removing`, `Retreating`):
everything of the operation that is live is on record before the first deletion, and
what the process has passed is gone. *Reconciler* (`Tidy`): unless a request was
served late, the tenant's rights are there only while every workload is, so there is
nothing to bring back; the orders of creation and of deletion keep it
(`WorkloadsFirst`, `WorkloadsLast`). Each action has a lemma that it keeps its own
side. Between the sides only two facts pass: a teardown begins when no activation has
an object and, while it runs, none gets one but by a late request (`UnusedKept`), and
a rollback of Secrets takes none that a materialized receipt promises
(`SuppliesKept`).

**Only model-checked.** Liveness under fairness (`Terminates`, `InterruptedIsCleaned`,
`Settles`, `RootReturns`) and anything about ENABLED: the proof system has no
support for them here. Of the wrapper's transports, `SuccessIsAccepted`: that a journal
of any length satisfies the reader's grammar needs an induction over the journal.
No module declares a RECURSIVE operator.

## 6. Plan

Every safety and action property of the runs has a theorem, but for the half of
`SuccessIsAgreed` that is `SuccessIsAccepted`. Next would come the wrapper's handover
transport and tracer modes as launches of `LiveTransport`.

**Not modelled, and why.** The Case runtime bootstrap and the Case review storage repeat
the record-then-create-then-look operation that `ReviewMigration` models for its
worker, and delete nothing. `workbench_baseline_recovery.py` is the delete-only
recovery of one pinned run; the receipt bridges are read-only. Of the wrapper, the
handover transport, the tracer modes as launches, the teardown of version 29, the
incident recovery mode and the threads of the CONNECT guards are left out. The
verifiers, policies and renders compare files with pinned data and keep no state;
WireGuard, kubeconfig and certificate handling are I/O.
