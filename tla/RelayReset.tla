----------------------------- MODULE RelayReset -----------------------------
\* The one-shot reset of the staging relays,
\* scripts/reset-staging-relay-fixtures.py: the public write route is
\* closed, Flux is suspended for the agent "public-mecky", the agent is
\* scaled to zero, the two relay Pods are deleted one after the other and
\* come back empty, the agent is scaled up again; then, whatever happened,
\* a coordinator makes one attempt to restore each of the three temporary
\* changes.  A run is never resumed.
\*
\* Each mutation is a compare-and-set, sent once.  One whose answer is
\* lost is looked for once; it may be served later as long as its object
\* has not been written.
EXTENDS Naturals, FiniteSets

CONSTANTS
  None,
  Facets,     \* what the proofs look at and may drift
  MaxFaults,  \* bound: lost answers, failed reads, commits, waits; signals
  MaxDrift    \* bound: changes made by others

AllFacets == {"inputs", "participant", "routes", "feed", "runtime", "network"}

ResetConstants ==
  Facets \subseteq AllFacets /\ {MaxFaults, MaxDrift} \subseteq Nat

VARIABLES
  gate,     \* the workbench Ingress: "open" or "gated"
  flux,     \* the agent's Kustomization: "active" or "suspended"
  agent,    \* the agent's replicas: 0 or 1
  relays,   \* which relays still hold their fixtures
  drift,    \* the facets that no longer hold
  flying,   \* mutations still on their way
  disk,     \* the journal file: the operations it intends, and "again" once
            \* it holds two outcomes of one request
  rfile,    \* the receipt file
  prog,     \* the memory of the running program
  exit,     \* how the run ended
  late,     \* history: mutations served after the read that decided on them
  unnoted,  \* history: a look for a lost answer could not be recorded
  spoiled,  \* history: relays reset while the agent or a citizen could write
  faults

vars == <<gate, flux, agent, relays, drift, flying, disk, rfile, prog, exit,
          late, unnoted, spoiled, faults>>
objects == <<gate, flux, agent, relays, flying, spoiled>>
others == <<drift, late, unnoted>>
files == <<disk, rfile>>

-----
\* Values

Relays == {"citizen", "agent"}

\* The mutations of the forward sequence, then those of the restoration.
Forward == <<"gate", "suspend", "down", "deleteCitizen", "deleteAgent", "up">>
Restoring == <<"scale", "resume", "open">>
Mutations == {Forward[i] : i \in DOMAIN Forward}
               \cup {Restoring[i] : i \in DOMAIN Restoring}

\* What each mutation writes, and to what.
Object(m) == CASE m \in {"gate", "open"} -> "gate"
               [] m \in {"suspend", "resume"} -> "flux"
               [] m \in {"down", "scale", "up"} -> "agent"
               [] OTHER -> m

Verdicts == {"preflight-failed", "completed", "failed-restored", "uncertain"}

\* step: within one mutation, the checks before it, its intent in the
\* journal, the request, its answer in the journal or the one look for it,
\* and the wait for what it causes.  "failing" is the except block of a
\* restoration.
Looked == {"shown", "denied", "unread"}
AtSteps == {"check", "intent", "send", "answered", "look", "wait", "failing"}
             \cup Looked
Outside == {"idle", "start", "preflight", "noted", "quiet", "assess", "proof",
            "reads", "final", "intended", "receipt", "uncertain", "closed"}

\* active, suspended, down, ready, tried, begun, unknown: the locals
\* gate_active, flux_suspended, mecky_scaled_down, mecky_ready,
\* scale_up_attempted, destructive_started and the three *_outcome_unknown;
\* again: the journal in memory holds an answer whose commit raised.
Programs ==
  [at : Mutations \cup Outside, step : AtSteps,
   active : BOOLEAN, suspended : BOOLEAN, down : BOOLEAN, ready : BOOLEAN,
   tried : BOOLEAN, begun : BOOLEAN, again : BOOLEAN, unknown : SUBSET {"gate", "flux", "agent"},
   error : {None, "transport", "other"}, verdict : Verdicts \cup {None}]

Idle == [at |-> "idle", step |-> "check", active |-> FALSE,
         suspended |-> FALSE, down |-> FALSE, ready |-> FALSE,
         tried |-> FALSE, begun |-> FALSE, again |-> FALSE,
         unknown |-> {}, error |-> None,
         verdict |-> None]

-----
\* The proofs

Holds(f) == f \notin drift

ArtifactPinned == Holds("inputs")
ProtectedBound == Holds("inputs")
ParticipantInactive == Holds("participant")
WorkbenchIngress == Holds("routes")
GateProbe == Holds("routes")
PublicConfig == Holds("feed")
PublicFeed == Holds("feed")
RelayDeployments == Holds("runtime")
RelayServices == Holds("runtime")
RelayPods == Holds("runtime")
RelayEndpoints == Holds("runtime")
RelayInventory == Holds("runtime")
AgentDeployment == Holds("runtime")
AgentService == Holds("runtime")
AgentKustomization == Holds("runtime")
AgentPod == Holds("runtime")
NetworkPolicies == Holds("network")

RelaySnapshot == RelayDeployments /\ RelayServices /\ RelayPods
                   /\ RelayEndpoints /\ RelayInventory
AgentSnapshot == AgentDeployment /\ AgentService /\ AgentKustomization
                   /\ AgentPod /\ RelayEndpoints /\ flux = "active" /\ agent = 1

Preflight ==
  /\ ParticipantInactive /\ WorkbenchIngress /\ gate = "open" /\ GateProbe
  /\ PublicConfig /\ PublicFeed /\ NetworkPolicies
  /\ RelaySnapshot /\ relays = Relays /\ AgentSnapshot

GateVerified == gate = "gated" /\ WorkbenchIngress /\ GateProbe /\ PublicConfig

QuietWindow == GateVerified /\ PublicFeed /\ RelayInventory

FinalPreservation ==
  /\ RelaySnapshot /\ relays = {} /\ NetworkPolicies /\ AgentSnapshot
  /\ WorkbenchIngress /\ gate = "open" /\ ParticipantInactive
  /\ GateProbe /\ PublicConfig /\ PublicFeed

\* The state each mutation leaves.
Applied(m) == CASE m = "gate" -> gate = "gated"
                [] m = "open" -> gate = "open"
                [] m = "suspend" -> flux = "suspended"
                [] m = "resume" -> flux = "active"
                [] m = "down" -> agent = 0
                [] m \in {"up", "scale"} -> agent = 1
                [] m = "deleteCitizen" -> "citizen" \notin relays
                [] m = "deleteAgent" -> "agent" \notin relays

\* What is read just before each mutation.
Checked(m) ==
  CASE m = "gate" -> TRUE
    [] m = "suspend" -> flux = "active" /\ AgentKustomization
    [] m = "down" -> GateVerified /\ PublicFeed /\ agent = 1 /\ AgentDeployment
    [] m = "deleteCitizen" -> GateVerified /\ PublicFeed
    [] m = "deleteAgent" -> GateVerified
    [] m = "up" -> GateVerified /\ PublicFeed /\ agent = 0 /\ AgentDeployment
    [] m = "scale" -> agent = 0 /\ AgentDeployment
    [] m = "resume" -> flux = "suspended" /\ AgentKustomization
    [] m = "open" -> gate = "gated" /\ WorkbenchIngress

\* What is waited for after it.
Awaited(m) ==
  CASE m = "down" -> agent = 0
    [] m = "deleteCitizen" -> RelayPods /\ RelayEndpoints /\ RelayInventory
    [] m = "deleteAgent" -> RelayPods /\ RelayEndpoints /\ RelayInventory
    [] m \in {"up", "scale"} -> agent = 1 /\ AgentPod /\ RelayInventory
    [] m = "resume" -> flux = "active" /\ AgentKustomization
    [] m = "open" -> GateProbe
    [] OTHER -> TRUE

-----
\* Building blocks

Fault == faults < MaxFaults /\ faults' = faults + 1

Quiet == gate = "gated" /\ flux = "suspended" /\ agent = 0

\* A mutation reaches its object: every other request built from the version
\* it replaces is dead.
Serve(m) ==
  /\ gate' = CASE m = "gate" -> "gated" [] m = "open" -> "open" [] OTHER -> gate
  /\ flux' = CASE m = "suspend" -> "suspended" [] m = "resume" -> "active"
               [] OTHER -> flux
  /\ agent' = CASE m = "down" -> 0 [] m \in {"up", "scale"} -> 1
                [] OTHER -> agent
  /\ relays' = CASE m = "deleteCitizen" -> relays \ {"citizen"}
                 [] m = "deleteAgent" -> relays \ {"agent"} [] OTHER -> relays
  /\ spoiled' = IF Quiet THEN spoiled ELSE spoiled \cup (relays \ relays')
  /\ flying' = {q \in flying : Object(q) # Object(m)}

\* What a request that was cut off may have done.
CutOff(m) ==
  \/ UNCHANGED objects
  \/ Serve(m)
  \/ flying' = flying \cup {m} /\ UNCHANGED <<gate, flux, agent, relays, spoiled>>

InForward == \E i \in DOMAIN Forward : prog.at = Forward[i]
InRestoring == \E i \in DOMAIN Restoring : prog.at = Restoring[i]

\* The coordinator's guards, in its order; what it skips it passes over.
Restores(p, m) ==
  CASE m = "scale" -> p.down /\ ~p.tried
    [] m = "resume" -> p.suspended /\ p.ready
    [] m = "open" -> p.active

FirstRestoration(p, ms) ==
  CASE "scale" \in ms /\ Restores(p, "scale") -> "scale"
    [] "resume" \in ms /\ Restores(p, "resume") -> "resume"
    [] "open" \in ms /\ Restores(p, "open") -> "open"
    [] OTHER -> "assess"

Later(m) == CASE m = "scale" -> {"resume", "open"} [] m = "resume" -> {"open"}
              [] OTHER -> {}

ToRestoration(p, ms) ==
  LET m == FirstRestoration(p, ms) IN
  [p EXCEPT !.at = m, !.step = "check"]

\* The first error of the run is the one reported.
Failed(p, e) == IF p.error = None THEN [p EXCEPT !.error = e] ELSE p

\* An exception of the forward sequence goes to the coordinator; one of a
\* restoration to its own except block.
Raised(p, e) ==
  IF InForward \/ prog.at = "quiet"
    THEN ToRestoration(Failed(p, e), {"scale", "resume", "open"})
    ELSE [Failed(p, e) EXCEPT !.step = "failing"]

\* Mutant: the relays are deleted before the agent is scaled to zero.
EagerForward(m) == CASE m = "gate" -> "quiet" [] m = "suspend" -> "deleteCitizen"
                     [] m = "deleteCitizen" -> "deleteAgent"
                     [] m = "deleteAgent" -> "down"
                     [] m = "down" -> "up" [] OTHER -> None

\* What follows a mutation that was made and awaited.
NextForward(m) == CASE m = "gate" -> "quiet" [] m = "suspend" -> "down"
                    [] m = "down" -> "deleteCitizen"
                    [] m = "deleteCitizen" -> "deleteAgent"
                    [] m = "deleteAgent" -> "up" [] OTHER -> None

\* The locals when a request was answered or observed,
Known(p, m) ==
  CASE m = "gate" -> [p EXCEPT !.active = TRUE]
    [] m = "suspend" -> [p EXCEPT !.suspended = TRUE]
    [] m = "down" -> [p EXCEPT !.down = TRUE]
    [] m = "up" -> [p EXCEPT !.down = FALSE]
    [] OTHER -> p

\* ... when what it causes was awaited,
Reached(p, m) ==
  CASE m \in {"up", "scale"} -> [p EXCEPT !.ready = TRUE, !.down = FALSE]
    [] m = "resume" -> [p EXCEPT !.suspended = FALSE]
    [] m = "open" -> [p EXCEPT !.active = FALSE]
    [] OTHER -> p

\* ... and when the one look for it did not show what was asked.
Unproved(p, m, source) ==
  CASE m \in {"gate", "open"} -> [p EXCEPT !.unknown = @ \cup {"gate"}]
    [] m \in {"suspend", "resume"} -> [p EXCEPT !.unknown = @ \cup {"flux"}]
    [] m = "down" -> IF source THEN [p EXCEPT !.ready = TRUE]
                     ELSE [p EXCEPT !.unknown = @ \cup {"agent"}]
    [] m = "up" -> IF source THEN p
                   ELSE [p EXCEPT !.unknown = @ \cup {"agent"}]
    [] m = "scale" -> [p EXCEPT !.unknown = IF source THEN @ \ {"agent"}
                                            ELSE @ \cup {"agent"}]
    [] OTHER -> p

After(p, m) ==
  IF m \in {Forward[i] : i \in DOMAIN Forward}
    THEN IF m = "up"
           THEN ToRestoration(p, {"scale", "resume", "open"})
           ELSE [p EXCEPT !.at = NextForward(m), !.step = "check"]
    ELSE IF m = "open" THEN [p EXCEPT !.at = "reads", !.step = "check"]
    ELSE ToRestoration(p, Later(m))

\* What is written to the journal before the request.
Ask(p, m) ==
  CASE m = "down" -> [p EXCEPT !.ready = FALSE]
    [] m \in {"deleteCitizen", "deleteAgent"} -> [p EXCEPT !.begun = TRUE]
    [] m = "up" -> [p EXCEPT !.tried = TRUE]
    [] OTHER -> p

End(how) == prog' = [prog EXCEPT !.at = "closed"] /\ exit' = how
Escape == End("raised") /\ UNCHANGED <<objects, rfile>>

\* A commit of the journal: it holds, or it raises, replaced or not.
Durable(ops) == disk' = disk \cup ops /\ UNCHANGED faults
NotDurable(ops) == Fault /\ disk' \in {disk, disk \cup ops}

-----
\* The start of the one run

\* Both outputs must be fresh; the first commit is outside every handler.
Begin ==
  /\ prog.at = "idle" /\ exit = None /\ disk = {} /\ rfile = "absent"
  /\ ArtifactPinned /\ ProtectedBound
  /\ rfile' = "empty" /\ prog' = [prog EXCEPT !.at = "start"]
  /\ UNCHANGED <<objects, others, disk, exit, faults>>

OpenJournal ==
  /\ prog.at = "start" /\ UNCHANGED others
  /\ \/ /\ Durable({"opened"}) /\ prog' = [prog EXCEPT !.at = "preflight"]
        /\ UNCHANGED <<objects, rfile, exit>>
     \/ NotDurable({"opened"}) /\ Escape

RefusePreflight == [prog EXCEPT !.at = "final", !.verdict = "preflight-failed"]

RunPreflight ==
  /\ prog.at = "preflight"
  /\ UNCHANGED <<objects, others, files, exit>>
  /\ \/ /\ Preflight /\ UNCHANGED faults
        /\ prog' = [prog EXCEPT !.at = "noted", !.ready = TRUE]
     \/ ~Preflight /\ prog' = RefusePreflight /\ UNCHANGED faults
     \/ Fault /\ prog' = RefusePreflight

NotePreflight ==
  /\ prog.at = "noted"
  /\ UNCHANGED <<objects, others, rfile, exit>>
  /\ \/ Durable({"preflight"})
        /\ prog' = [prog EXCEPT !.at = "gate", !.step = "check"]
     \/ NotDurable({"preflight"}) /\ prog' = RefusePreflight

-----
\* One mutation, of the forward sequence or of the restoration

Check(m) ==
  /\ prog.at = m /\ prog.step = "check"
  /\ UNCHANGED <<objects, others, files, exit>>
  /\ \/ Checked(m) /\ prog' = [prog EXCEPT !.step = "intent"] /\ UNCHANGED faults
     \/ ~Checked(m) /\ prog' = Raised(prog, "other") /\ UNCHANGED faults
     \/ Fault /\ prog' = Raised(prog, "transport")

Intend(m) ==
  /\ prog.at = m /\ prog.step = "intent"
  /\ UNCHANGED <<objects, others, rfile, exit>>
  /\ \/ Durable({m}) /\ prog' = Ask([prog EXCEPT !.step = "send"], m)
     \/ NotDurable({m}) /\ prog' = Raised(prog, "other")

Send(m) ==
  /\ prog.at = m /\ prog.step = "send"
  /\ UNCHANGED <<others, files, exit>>
  /\ \/ Serve(m) /\ prog' = Known([prog EXCEPT !.step = "answered"], m)
        /\ UNCHANGED faults
     \/ Fault /\ CutOff(m) /\ prog' = [prog EXCEPT !.step = "look"]

\* In the same try block as the request: an answer that cannot be recorded
\* is looked for like a lost one.
NoteAnswer(m) ==
  /\ prog.at = m /\ prog.step = "answered"
  /\ UNCHANGED <<objects, others, rfile, exit>>
  /\ \/ Durable({}) /\ prog' = [prog EXCEPT !.step = "wait"]
     \/ NotDurable({})
        /\ prog' = [prog EXCEPT !.step = "look", !.again = TRUE]

\* The one look for a lost answer.
Look(m) ==
  /\ prog.at = m /\ prog.step = "look"
  /\ UNCHANGED <<objects, others, files, exit>>
  /\ \/ Applied(m) /\ prog' = [prog EXCEPT !.step = "shown"] /\ UNCHANGED faults
     \/ ~Applied(m) /\ prog' = [prog EXCEPT !.step = "denied"] /\ UNCHANGED faults
     \/ Fault /\ prog' = [prog EXCEPT !.step = "unread"]

\* Only once the look is recorded is its outcome kept in the locals.
NoteLook(m) ==
  /\ prog.at = m /\ prog.step \in Looked
  /\ UNCHANGED <<objects, drift, late, rfile, exit>>
  /\ \/ /\ Durable(IF prog.again THEN {"again"} ELSE {}) /\ UNCHANGED unnoted
        /\ prog' = CASE prog.step = "shown" ->
                          Known([prog EXCEPT !.step = "wait",
                             !.down = IF m = "scale" THEN FALSE ELSE @], m)
                     [] OTHER -> Raised(Unproved(prog, m, prog.step = "denied"),
                                        "transport")
     \/ NotDurable({}) /\ prog' = Raised(prog, "other") /\ unnoted' = TRUE

Wait(m) ==
  /\ prog.at = m /\ prog.step = "wait"
  /\ UNCHANGED <<objects, others, rfile, exit>>
  /\ \/ /\ Awaited(m) /\ Durable({})
        /\ prog' = After(Reached(prog, m), m)
     \/ ~Awaited(m) /\ Durable({}) /\ prog' = Raised(prog, "other")
     \/ /\ m \notin {"gate", "suspend"}
        /\ Fault /\ UNCHANGED disk /\ prog' = Raised(prog, "other")
     \/ /\ m = "up" /\ Awaited(m)
        /\ NotDurable({}) /\ prog' = Raised(Reached(prog, m), "other")

\* Sixty quiet seconds behind the gate.
QuietObservations ==
  /\ prog.at = "quiet"
  /\ UNCHANGED <<objects, others, files, exit>>
  /\ \/ /\ QuietWindow /\ UNCHANGED faults
        /\ prog' = [prog EXCEPT !.at = "suspend", !.step = "check"]
     \/ ~QuietWindow /\ prog' = Raised(prog, "other") /\ UNCHANGED faults
     \/ Fault /\ prog' = Raised(prog, "transport")

\* The except block of a restoration records that it is uncertain; that
\* commit has no handler of its own.
Failing(m) ==
  /\ prog.at = m /\ prog.step = "failing"
  /\ UNCHANGED others
  /\ \/ /\ Durable({}) /\ prog' = ToRestoration(prog, Later(m))
        /\ UNCHANGED <<objects, rfile, exit>>
     \/ NotDurable({}) /\ Escape

-----
\* The end of the run

\* The public reads after the route is open again.
PublicReads ==
  /\ prog.at = "reads"
  /\ UNCHANGED others
  /\ \/ /\ PublicConfig /\ PublicFeed /\ Durable({})
        /\ prog' = [prog EXCEPT !.at = "assess"]
        /\ UNCHANGED <<objects, rfile, exit>>
     \/ /\ ~(PublicConfig /\ PublicFeed) /\ Durable({})
        /\ prog' = [Failed(prog, "other") EXCEPT !.at = "assess"]
        /\ UNCHANGED <<objects, rfile, exit>>
     \/ /\ Fault /\ UNCHANGED disk
        /\ prog' = [Failed(prog, "transport") EXCEPT !.at = "assess"]
        /\ UNCHANGED <<objects, rfile, exit>>
     \/ ~(PublicConfig /\ PublicFeed) /\ NotDurable({}) /\ Escape

RestorationComplete ==
  ~prog.active /\ ~prog.suspended /\ ~prog.down /\ prog.unknown = {}

Conclude(p) ==
  [p EXCEPT !.at = "final",
     !.verdict = IF p.error = None /\ RestorationComplete THEN "completed"
                 ELSE IF p.begun \/ ~RestorationComplete
                           \/ p.error = "transport"
                   THEN "uncertain" ELSE "failed-restored"]

Assess ==
  /\ prog.at = "assess"
  /\ prog' = IF prog.error = None /\ RestorationComplete
               THEN [prog EXCEPT !.at = "proof"] ELSE Conclude(prog)
  /\ UNCHANGED <<objects, others, files, exit, faults>>

Prove ==
  /\ prog.at = "proof"
  /\ UNCHANGED <<objects, others, rfile, exit>>
  /\ \/ FinalPreservation /\ Durable({}) /\ prog' = Conclude(prog)
     \/ ~FinalPreservation /\ Durable({}) /\ prog' = Conclude(Failed(prog, "other"))
     \/ NotDurable({}) /\ prog' = Conclude(Failed(prog, "other"))

\* Three commits of the journal around the one of the receipt; the first
\* ones and the last have no handler.
Finalize ==
  /\ prog.at = "final" /\ UNCHANGED others
  /\ \/ /\ Durable({"final"}) /\ prog' = [prog EXCEPT !.at = "intended"]
        /\ UNCHANGED <<objects, rfile, exit>>
     \/ NotDurable({"final"}) /\ Escape

IntendReceipt ==
  /\ prog.at = "intended" /\ UNCHANGED others
  /\ \/ /\ Durable({"receipt"}) /\ prog' = [prog EXCEPT !.at = "receipt"]
        /\ UNCHANGED <<objects, rfile, exit>>
     \/ NotDurable({"receipt"}) /\ Escape

CommitReceipt ==
  /\ prog.at = "receipt"
  /\ UNCHANGED <<objects, others, disk>>
  /\ \/ /\ rfile' = prog.verdict /\ UNCHANGED faults
        /\ End(IF prog.verdict = "completed" THEN "ok" ELSE "failed")
     \/ Fault /\ rfile' \in {rfile, prog.verdict} /\ End("raised")

-----
\* What happens to a run

\* RelayResetInterrupted is raised wherever the program is: it is an error
\* of the block it hits, and of the whole run between two blocks.
Interrupt ==
  /\ prog.at \notin {"idle", "closed"}
  /\ Fault /\ UNCHANGED <<drift, late, files>>
  /\ unnoted' = (unnoted \/ prog.step \in Looked)
  /\ \/ /\ prog.at \in {"preflight", "noted"} /\ prog' = RefusePreflight
        /\ UNCHANGED <<objects, exit>>
     \/ /\ InForward \/ prog.at = "quiet"
        /\ prog.step \in {"check", "intent", "wait"}
        /\ prog' = Raised(prog, "other") /\ UNCHANGED <<objects, exit>>
     \/ /\ prog.step = "send" /\ CutOff(prog.at)
        /\ prog' = [prog EXCEPT !.step = "look"] /\ UNCHANGED exit
     \/ /\ prog.step = "answered" /\ UNCHANGED <<objects, exit>>
        /\ \E a \in {prog.again, TRUE} :
             prog' = [prog EXCEPT !.step = "look", !.again = a]
     \/ /\ prog.step = "look"
        /\ prog' = [prog EXCEPT !.step = "unread"] /\ UNCHANGED <<objects, exit>>
     \/ /\ prog.step \in Looked /\ prog' = Raised(prog, "other")
        /\ UNCHANGED <<objects, exit>>
     \/ /\ InRestoring /\ prog.step \in {"check", "intent", "wait"}
        /\ prog' = Raised(prog, "other") /\ UNCHANGED <<objects, exit>>
     \/ /\ \/ InRestoring /\ prog.step \in {"check", "failing"}
           \/ prog.at \in {"start", "assess", "final", "intended"}
        /\ End("raised") /\ UNCHANGED objects

\* SIGKILL or the host.
Kill ==
  /\ prog.at \notin {"idle", "closed"}
  /\ End("killed")
  /\ IF prog.step = "send" /\ prog.at \in Mutations THEN CutOff(prog.at)
     ELSE UNCHANGED objects
  /\ UNCHANGED <<others, files, faults>>

-----
\* The cluster

\* A mutation that was looked for in vain is served.
Land(m) ==
  /\ m \in flying /\ Serve(m)
  /\ late' = late \cup {m}
  /\ UNCHANGED <<drift, unnoted, files, prog, exit, faults>>

\* The kustomize-controller restores the replicas of an agent it manages.
Reconcile ==
  /\ flux = "active" /\ agent = 0
  /\ agent' = 1 /\ flying' = {q \in flying : Object(q) # "agent"}
  /\ UNCHANGED <<gate, flux, relays, spoiled, others, files, prog, exit, faults>>

\* A status write moves the resourceVersion of an object.
StatusWrite(o) ==
  /\ \E m \in flying : Object(m) = o
  /\ flying' = {m \in flying : Object(m) # o}
  /\ UNCHANGED <<gate, flux, agent, relays, spoiled, others, files, prog, exit,
                 faults>>

Drift(f) ==
  /\ Holds(f) /\ drift' = drift \cup {f}
  /\ Cardinality(drift') <= MaxDrift
  /\ UNCHANGED <<objects, late, unnoted, files, prog, exit, faults>>

-----
Init ==
  /\ gate = "open" /\ flux = "active" /\ agent = 1 /\ relays = Relays
  /\ drift = {} /\ flying = {} /\ disk = {} /\ rfile = "absent"
  /\ prog = Idle /\ exit = None /\ late = {} /\ unnoted = FALSE
  /\ spoiled = {} /\ faults = 0

Mutate(m) ==
  Check(m) \/ Intend(m) \/ Send(m) \/ NoteAnswer(m) \/ Look(m) \/ NoteLook(m)
  \/ Wait(m)

Restore == {"scale", "resume", "open"}

Proceed ==
  \/ OpenJournal \/ RunPreflight \/ NotePreflight \/ QuietObservations
  \/ (\E m \in Mutations : Mutate(m)) \/ (\E m \in Restore : Failing(m))
  \/ PublicReads \/ Assess \/ Prove \/ Finalize \/ IntendReceipt \/ CommitReceipt

Others ==
  \/ (\E m \in Mutations : Land(m)) \/ Reconcile
  \/ (\E o \in {"gate", "flux", "agent"} : StatusWrite(o))
  \/ (\E f \in Facets : Drift(f))

Next == Begin \/ Proceed \/ Interrupt \/ Kill \/ Others

Spec == Init /\ [][Next]_vars

-----
TypeOK ==
  /\ gate \in {"open", "gated"} /\ flux \in {"active", "suspended"}
  /\ agent \in {0, 1} /\ relays \subseteq Relays /\ drift \subseteq Facets
  /\ flying \subseteq Mutations /\ late \subseteq Mutations
  /\ disk \subseteq
       Mutations \cup {"opened", "preflight", "again", "final", "receipt"}
  /\ rfile \in {"absent", "empty"} \cup Verdicts
  /\ prog \in Programs /\ exit \in {None, "ok", "failed", "raised", "killed"}
  /\ spoiled \subseteq Relays /\ faults \in 0..MaxFaults

\* A receipt that is not "uncertain" is true of all three temporary changes
\* at once and for good: the write route is open, Flux reconciles, the agent
\* runs, and no request that was given up on is still on its way to undo it.
\* The exception is a run whose record of a look could not be written: it
\* forgets what it saw.
ReceiptIsTrue ==
  /\ rfile \in Verdicts \ {"uncertain"} /\ ~unnoted
       => gate = "open" /\ flux = "active" /\ agent = 1
  /\ rfile = "completed" => relays = {}
  /\ rfile \in {"preflight-failed", "failed-restored"} => relays = Relays

\* A relay loses its events only while nobody can write to it: the route is
\* gated, Flux suspended, the agent at zero.  The exception is a deletion
\* that was looked for in vain and is served after the restoration.
ResetWhileQuiet ==
  \A r \in spoiled :
    (IF r = "citizen" THEN "deleteCitizen" ELSE "deleteAgent") \in late

\* A run is never resumed: whatever ended it, the journal names every
\* change it may have left behind.
LeftIsJournaled ==
  /\ gate = "gated" \/ "gate" \in flying => "gate" \in disk
  /\ flux = "suspended" \/ "suspend" \in flying => "suspend" \in disk
  /\ agent = 0 \/ "down" \in flying => "down" \in disk
  /\ relays # Relays => "deleteCitizen" \in disk

=============================================================================
