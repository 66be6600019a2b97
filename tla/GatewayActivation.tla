------------------------- MODULE GatewayActivation -------------------------
\* The participant gateway activation of
\* scripts/activate-staging-participant-gateway.py: six objects are posted
\* in a fixed order under an operation nonce, the Ingress last, two
\* dormant Flux Kustomizations are unsuspended, and a durable receipt
\* commits the whole.  Any failure before that rolls everything back:
\* exposure first, then the reconcilers, then the rest, gateway isolation
\* after the Deployment it isolates.  Two pinned incidents may be
\* recovered later from the receipt they left.
\*
\* A request outlives the wait for its answer: kubectl runs in a session
\* of its own and is not killed at its timeout, so an abandoned request
\* may be served at any later time, or never.
EXTENDS Naturals, Sequences, FiniteSets

CONSTANTS
  None,        \* nothing: no object, request, answer, name
  Order,       \* the names in the order of their creation, the Ingress last
  Facets,      \* what the GET-only proofs are about and may drift
  Kinds,       \* which failures are considered
  Attempts,    \* bound: tries of one nonce removal (4 in the code)
  MaxFaults,   \* bound: failures
  MaxPasses,   \* bound: reconciliations by Flux
  MaxRescues   \* bound: recoveries of one failed activation

Isolation  == "gateway.networkPolicy"
Service    == "gateway.service"
Deployment == "gateway.deployment"
Ingress    == "gateway.ingress"

Six == {Isolation, "workbenchIngress.networkPolicy", "gateway.serviceAccount",
        Service, Deployment, Ingress}

Names == {Order[i] : i \in DOMAIN Order}
Owners == {"gateway", "workbenchIngress"}
OwnerOf(n) == IF n = "workbenchIngress.networkPolicy" THEN "workbenchIngress"
              ELSE "gateway"

AllFacets == {"bootstrapReceipt", "secretReceipt", "tracerRevision",
              "tracerReceipt", "cluster", "publication", "endpoints",
              "preserved", "secrets", "secretBinding", "tracer", "policies",
              "image", "participant", "database", "routes", "health", "source"}

AllKinds == {"read",    \* a GET-only proof raises although it would hold
             "answer",  \* the answer to a mutation is lost or unreadable
             "status",  \* a status write overtakes a compare-and-set
             "signal",  \* SIGINT or SIGTERM
             "crash",   \* the process dies
             "commit",  \* a receipt commit raises, replaced or not
             "drift",   \* a facet changes under the run
             "flux",    \* a reconciliation fails
             "foreign"} \* somebody takes a name, or replaces what holds it

ASSUME ActivationConstants ==
  /\ Order \in Seq(Six) /\ Order # <<>>
  /\ {Isolation, Service, Deployment, Ingress} \subseteq Names
  /\ Cardinality(Names) = Len(Order)
  /\ Order[Len(Order)] = Ingress /\ Order[Len(Order) - 1] = Deployment
  /\ Facets \subseteq AllFacets /\ Kinds \subseteq AllKinds
  /\ Attempts \in Nat \ {0}
  /\ {MaxFaults, MaxPasses, MaxRescues} \subseteq Nat

VARIABLES
  live,      \* what each exact name holds
  kust,      \* the two Kustomizations
  net,       \* requests sent and not yet served
  drift,     \* the facets that no longer hold
  run,       \* the memory of the running process
  receipt,   \* the durable activation receipt
  rescue,    \* the status of the last recovery receipt
  stray,     \* history: what abandoned requests changed from then on
  forgotten, \* history: the name whose POST a signal interrupted
  faults, passes, rescues

vars == <<live, kust, net, drift, run, receipt, rescue, stray, forgotten,
          faults, passes, rescues>>

-----
\* Values.  A run posts each name at most once, so "run" is a UID.  An
\* object has no resourceVersion of its own: the fields never return to an
\* earlier value, and a status write that overtakes a request is a failure
\* of the kind "status".

\* tag: the operation nonce; label: the pair of Flux tracking labels;
\* going: a Deployment in foreground deletion, its Pods still there.
Objects == [by : {"run", "flux", "other"}, tag : BOOLEAN, label : BOOLEAN,
            going : BOOLEAN]

Posted  == [by |-> "run", tag |-> TRUE, label |-> FALSE, going |-> FALSE]
Applied == [by |-> "flux", tag |-> FALSE, label |-> TRUE, going |-> FALSE]
Others  == [by |-> "other", tag |-> FALSE, label |-> FALSE, going |-> FALSE]

\* What Flux applies for an owner.
Applies(k) == {n \in Names : OwnerOf(n) = k}

\* busy: a pass is in flight; todo: what it has still to apply;
\* cond: the Reconciling condition, which outlives a pass that failed.
Kustomizations ==
  [susp : BOOLEAN, rv : Nat, busy : BOOLEAN, todo : SUBSET Names,
   cond : BOOLEAN, ready : BOOLEAN]

Dormant == [susp |-> TRUE, rv |-> 0, busy |-> FALSE, todo |-> {},
            cond |-> FALSE, ready |-> FALSE]

Requests ==
  [op : {"create"}, at : Names]
    \cup [op : {"strip", "delete"}, at : Names, seen : Objects]
    \cup [op : {"patch"}, at : Owners, susp : BOOLEAN, rv : Nat]

Forward == {"preflight", "create", "posted", "discover", "strip", "stripping",
            "stripped", "health", "gate", "routes", "unsuspend",
            "unsuspending", "ready", "verify", "commit"}

\* The phases of rollback_v4, in its order.
Stages == <<"bind", "ingress", "service", "suspend", "quiet", "ingressAgain",
            "serviceAgain", "unbound", "delete", "absent", "flux", "preserved",
            "rebind", "settle">>

Deleting == {"ingress", "service", "ingressAgain", "serviceAgain", "delete"}
RollingBack == {Stages[i] : i \in DOMAIN Stages}
Ended == {"idle", "end", "dead"}

\* mode: an activation, or the recovery of incident A or B.
Memory ==
  [mode : {"activate", "A", "B"},
   pc : Forward \cup RollingBack \cup Ended \cup {"rediscover", "rescue"},
   at : 0..Len(Order), tries : 0..Attempts, step : {"look", "sent", "gone"},
   own : SUBSET Names, clean : SUBSET Names, unsure : Names \cup {None},
   begun : BOOLEAN, base : [Owners -> Nat], asked : Requests \cup {None},
   answer : {None, "ok", "refused", "lost"}, left : SUBSET Names,
   auth : BOOLEAN, err : BOOLEAN, quiet : BOOLEAN, broken : BOOLEAN,
   exit : {None, "ok", "raised", "unsaved"}]

NoRun ==
  [mode |-> "activate", pc |-> "idle", at |-> 0, tries |-> 0, step |-> "look",
   own |-> {}, clean |-> {}, unsure |-> None, begun |-> FALSE,
   base |-> [k \in Owners |-> 0], asked |-> None, answer |-> None,
   left |-> {}, auth |-> FALSE, err |-> FALSE, quiet |-> FALSE,
   broken |-> FALSE, exit |-> None]

Receipts ==
  [status : {None, "reserved", "activated", "rolled-back",
             "rollback-incomplete"},
   own : SUBSET Names, unsure : Names \cup {None}, broken : BOOLEAN]

NoReceipt == [status |-> None, own |-> {}, unsure |-> None, broken |-> FALSE]

\* None is a value of its own.
ASSUME NoneIsApart ==
  /\ None \notin Objects \cup Requests \cup Names \cup Owners
  /\ None \notin {"ok", "raised", "unsaved", "refused", "lost"}
  /\ None \notin {"reserved", "activated", "rolled-back", "rollback-incomplete",
                  "recovery-blocked", "recovered", "recovery-incomplete"}

TypeOK ==
  /\ live \in [Names -> Objects \cup {None}]
  /\ kust \in [Owners -> Kustomizations]
  /\ net \subseteq Requests
  /\ drift \subseteq Facets
  /\ run \in Memory
  /\ receipt \in Receipts
  /\ rescue \in {None, "reserved", "recovery-blocked", "recovered",
                 "recovery-incomplete"}
  /\ stray \subseteq Names \cup Owners /\ forgotten \in Names \cup {None}
  /\ faults \in 0..MaxFaults /\ passes \in 0..MaxPasses
  /\ rescues \in 0..MaxRescues

Init ==
  /\ live = [n \in Names |-> None]
  /\ kust = [k \in Owners |-> Dormant]
  /\ net = {} /\ drift = {} /\ run = NoRun
  /\ receipt = NoReceipt /\ rescue = None /\ stray = {} /\ forgotten = None
  /\ faults = 0 /\ passes = 0 /\ rescues = 0

-----
\* The API server.

Failing(kind) ==
  /\ kind \in Kinds /\ faults < MaxFaults
  /\ faults' = faults + 1

\* The run still waits for the answer to q.
Awaited(q) == run.asked = q /\ run.answer = None

Answering(q, a) == run' = IF Awaited(q) THEN [run EXCEPT !.answer = a] ELSE run

\* From the proof of quiet on, a change may come after the last look at it;
\* a recovery comes after the verdict.
Unseen ==
  \/ run.mode # "activate"
  \/ run.pc \in Ended \cup {"quiet", "ingressAgain", "serviceAgain",
                            "unbound", "delete", "absent", "flux",
                            "preserved", "rebind", "settle"}

Straying(q) ==
  stray' = IF ~Awaited(q) /\ Unseen THEN stray \cup {q.at} ELSE stray

\* Does the request find what it names: an absent name, or the version whose
\* UID, resourceVersion and nonce the sender read?
Accepted(q) ==
  CASE q.op = "create" -> live[q.at] = None
    [] q.op = "strip"  -> live[q.at] = q.seen
    [] q.op = "delete" -> live[q.at] = q.seen
    [] q.op = "patch"  -> kust[q.at].rv = q.rv

\* A Deployment is deleted in the foreground: it stays until its Pods are gone.
Effect(q) ==
  CASE q.op = "create" -> [live EXCEPT ![q.at] = Posted]
    [] q.op = "strip"  -> [live EXCEPT ![q.at].tag = FALSE]
    [] q.op = "delete" -> IF q.at = Deployment
                            THEN [live EXCEPT ![q.at].going = TRUE]
                            ELSE [live EXCEPT ![q.at] = None]
    [] q.op = "patch"  -> live

\* A compare-and-set that unsuspends starts a generation that is not ready.
Patched(q) ==
  IF q.op # "patch" THEN kust
  ELSE [kust EXCEPT ![q.at].susp = q.susp, ![q.at].rv = @ + 1,
                    ![q.at].ready = @ /\ q.susp]

Serve(q) ==
  /\ q \in net /\ net' = net \ {q}
  /\ IF Accepted(q)
       THEN /\ live' = Effect(q) /\ kust' = Patched(q)
            /\ Answering(q, "ok") /\ Straying(q)
       ELSE /\ Answering(q, IF q.op = "delete" /\ live[q.at] = None
                              THEN "ok" ELSE "refused")
            /\ UNCHANGED <<live, kust, stray>>
  /\ UNCHANGED <<drift, receipt, rescue, forgotten,
                 faults, passes, rescues>>

\* A status write came first: the test of the resourceVersion fails.
Overtaken(q) ==
  /\ q \in net /\ q.op \in {"strip", "delete"} /\ Accepted(q)
  /\ Failing("status")
  /\ net' = net \ {q} /\ Answering(q, "refused")
  /\ UNCHANGED <<live, kust, drift, receipt, rescue, stray, forgotten,
                 passes, rescues>>

\* The answer is lost; the request itself may still be under way.
LoseAnswer ==
  /\ run.asked # None /\ run.answer # "lost" /\ Failing("answer")
  /\ run' = [run EXCEPT !.answer = "lost"]
  /\ UNCHANGED <<live, kust, net, drift, receipt, rescue, stray, forgotten,
                 passes, rescues>>

\* An abandoned request is never served.
Drop(q) ==
  /\ q \in net /\ ~Awaited(q)
  /\ net' = net \ {q}
  /\ UNCHANGED <<live, kust, drift, run, receipt, rescue, stray, forgotten,
                 faults, passes, rescues>>

-----
\* The controllers, and everybody else.

\* The garbage collector has removed the Pods.
PodsGone ==
  /\ live[Deployment] # None /\ live[Deployment].going
  /\ live' = [live EXCEPT ![Deployment] = None]
  /\ UNCHANGED <<kust, net, drift, run, receipt, rescue, stray, forgotten,
                 faults, passes, rescues>>

Flux(k, s) ==
  /\ kust' = [kust EXCEPT ![k] = s]
  /\ UNCHANGED <<net, drift, run, receipt, rescue, stray, forgotten, rescues>>

Applying(k) == kust[k].todo # {}

\* The first of some names, in the order of creation.
First(n, S) ==
  \E i \in DOMAIN Order : Order[i] = n /\ \A j \in 1..i-1 : Order[j] \notin S

FluxStart(k) ==
  /\ ~kust[k].susp /\ ~kust[k].busy
  /\ passes < MaxPasses /\ passes' = passes + 1
  /\ Flux(k, [kust[k] EXCEPT !.busy = TRUE, !.todo = Applies(k),
                             !.cond = TRUE, !.rv = @ + 1])
  /\ UNCHANGED <<live, faults>>

\* A suspension does not cancel the pass in flight.
FluxApply(k) ==
  /\ \E n \in kust[k].todo :
       /\ First(n, kust[k].todo)
       /\ live' = [live EXCEPT ![n] =
                     IF @ = None THEN Applied ELSE [@ EXCEPT !.label = TRUE]]
       /\ Flux(k, [kust[k] EXCEPT !.todo = @ \ {n}])
  /\ UNCHANGED <<faults, passes>>

FluxDone(k) ==
  /\ kust[k].busy /\ ~Applying(k)
  /\ Flux(k, [kust[k] EXCEPT !.busy = FALSE, !.cond = FALSE, !.ready = TRUE,
                             !.rv = @ + 1])
  /\ UNCHANGED <<live, faults, passes>>

\* Its Reconciling condition stays: a suspended reconciler never clears it.
FluxFails(k) ==
  /\ kust[k].busy /\ Failing("flux")
  /\ Flux(k, [kust[k] EXCEPT !.busy = FALSE, !.todo = {}, !.ready = FALSE,
                             !.rv = @ + 1])
  /\ UNCHANGED <<live, passes>>

ForeignWrite(n) ==
  /\ run.pc \notin Ended /\ Failing("foreign")
  /\ live' = [live EXCEPT ![n] = Others]
  /\ UNCHANGED <<kust, net, drift, run, receipt, rescue, stray, forgotten,
                 passes, rescues>>

Drift(f) ==
  /\ f \notin drift /\ run.pc \notin Ended /\ Failing("drift")
  /\ drift' = drift \cup {f}
  /\ UNCHANGED <<live, kust, net, run, receipt, rescue, stray, forgotten,
                 passes, rescues>>

-----
\* The GET-only proofs.

Holds(f) == f \notin drift

\* The receipts of the earlier steps that main binds before it reserves one.
BootstrapReceipt == Holds("bootstrapReceipt")
SecretReceipt    == Holds("secretReceipt")
TracerRevision   == Holds("tracerRevision")
TracerReceipt    == TracerRevision /\ Holds("tracerReceipt")

\* What activate reads, some of it several times.
ClusterBound      == Holds("cluster")
Publication       == Holds("publication")
EndpointFacts     == Holds("endpoints")
Preserved         == Holds("preserved")
SameSecrets       == Holds("secrets")
SecretBinding     == Holds("secretBinding")
TracerBinding     == Holds("tracer")
PolicyUnion       == Holds("policies")
RuntimeImage      == Holds("image")
ParticipantStatus == Holds("participant")
DatabaseStatus    == ParticipantStatus /\ Holds("database")
RouteMatrix       == Holds("routes")
SharedSource      == Holds("source")

\* health_v4: the Deployment is rolled out.
Healthy == Holds("health") /\ live[Deployment] # None

\* The two Kustomizations are the dormant ones of the bootstrap receipt.
DormantFlux == SharedSource /\ \A k \in Owners : kust[k].susp

AllAbsent == \A n \in Names : live[n] = None

\* The object that was created, without its nonce and with the whole pair.
Tracked(n) ==
  /\ n \in run.own /\ live[n] # None
  /\ live[n] = [Posted EXCEPT !.tag = FALSE, !.label = TRUE]

\* flux_ready_v4
FluxReady(k) == ~kust[k].susp /\ kust[k].ready

\* _flux_suspended_and_quiescent_v4
Quiescent(k) == kust[k].susp /\ ~kust[k].cond

\* delete_with_preconditions_v4: this UID and the protected semantics; the
\* nonce may have gone with a lost answer, the labels only after it went.
Deletable(n) ==
  /\ live[n].by = "run"
  /\ n \in run.clean => ~live[n].tag
  /\ n \notin run.clean => ~live[n].label
  /\ run.mode = "B" => live[n].label

-----
\* The process.

Becomes(r) ==
  /\ run' = r
  /\ UNCHANGED <<live, kust, drift, receipt, rescue, stray, forgotten,
                 passes, rescues>>

Local(r) == Becomes(r) /\ UNCHANGED <<net, faults>>

Send(r, q) ==
  /\ net' = net \cup {q}
  /\ Becomes([r EXCEPT !.asked = q, !.answer = None])
  /\ UNCHANGED faults

\* A proof that does not hold, or whose reads fail.
Unproved(P, r) ==
  /\ \/ ~P /\ UNCHANGED faults
     \/ P /\ Failing("read")
  /\ Becomes(r) /\ UNCHANGED net

Heard(r) == [r EXCEPT !.asked = None, !.answer = None]

Remaining(r) ==
  r.own \ ({Ingress} \cup (IF r.broken THEN {Service} ELSE {}))

\* Mutant: an unresolved Deployment does not keep its isolation.
UnboundUnasked(r) == FALSE

\* A Deployment that never became ours may still exist: look before isolation
\* goes.
UnboundDue(r) == Deployment \notin r.own /\ Isolation \in r.own /\ ~r.err

\* Mutant: the rest is deleted although a reconciler may still be working.
RestUnquiet(r) == r.auth /\ Remaining(r) # {}

RestDue(r) == ~r.err /\ r.quiet /\ Remaining(r) # {}

\* Which phases of rollback_v4 are run.
Due(s, r) ==
  CASE s = "ingress"      -> r.auth /\ Ingress \in r.own
    [] s = "service"      -> r.auth /\ Service \in r.own
    [] s = "suspend"      -> r.auth
    [] s = "quiet"        -> r.auth
    [] s = "ingressAgain" -> Ingress \in r.own /\ ~r.err
    [] s = "serviceAgain" -> r.auth /\ Service \in r.own
    [] s = "unbound"      -> UnboundDue(r)
    [] s = "delete"       -> RestDue(r)
    [] s \in {"absent", "flux"} -> ~r.err
    [] OTHER              -> TRUE

\* The next phase that is due after phase number i.
Advance(i, r) ==
  LET j == CHOOSE j \in i+1..Len(Stages) :
             /\ Due(Stages[j], r)
             /\ \A h \in i+1..j-1 : ~Due(Stages[h], r)
  IN [r EXCEPT !.pc = Stages[j], !.step = "look", !.at = 1,
               !.left = IF Stages[j] = "delete" THEN Remaining(r) ELSE {}]

Here == CHOOSE i \in DOMAIN Stages : Stages[i] = run.pc
Past(r) == Advance(Here, r)
Erring(r) == Past([r EXCEPT !.err = TRUE])

\* The except clause of activate: signals are deferred, an uncertain create is
\* looked for, and rollback_v4 runs if anything was sent.
Fail(r) ==
  LET q == Heard(r) IN
  IF ~r.begun THEN [q EXCEPT !.pc = "settle"]
  ELSE IF r.unsure # None THEN [q EXCEPT !.pc = "rediscover"]
  ELSE [q EXCEPT !.pc = "bind"]

\* main binds the receipts it was given and reserves its own; activate begins
\* with its GET-only proofs.
Start ==
  /\ run.pc = "idle" /\ receipt.status = None
  /\ BootstrapReceipt /\ SecretReceipt /\ TracerReceipt
  /\ run' = [NoRun EXCEPT !.pc = "preflight"]
  /\ receipt' = [receipt EXCEPT !.status = "reserved"]
  /\ UNCHANGED <<live, kust, net, drift, rescue, stray, forgotten,
                 faults, passes, rescues>>

Preflight ==
  /\ ClusterBound /\ Publication /\ EndpointFacts /\ Preserved
  /\ DormantFlux /\ AllAbsent
  /\ SameSecrets /\ SecretBinding /\ TracerBinding /\ PolicyUnion

PreflightPasses ==
  /\ run.pc = "preflight" /\ Preflight
  /\ Local([run EXCEPT !.pc = "create", !.at = 1,
                       !.base = [k \in Owners |-> kust[k].rv]])

PreflightFails ==
  /\ run.pc = "preflight"
  /\ Unproved(Preflight, Fail(run))

-----
\* Creation, one name after another.

This == Order[run.at]

SendCreate ==
  /\ run.pc = "create"
  /\ Send([run EXCEPT !.pc = "posted", !.begun = TRUE, !.unsure = This],
          [op |-> "create", at |-> This])

Bound(r) ==
  [Heard(r) EXCEPT !.own = @ \cup {This}, !.unsure = None, !.pc = "strip",
                   !.tries = 0]

\* A 409 is never adopted; anything else that is no exact answer is uncertain.
CreateAnswered ==
  /\ run.pc = "posted" /\ run.answer # None
  /\ Local(CASE run.answer = "ok"      -> Bound(run)
             [] run.answer = "refused" -> Fail([run EXCEPT !.unsure = None])
             [] run.answer = "lost"    -> [Heard(run) EXCEPT !.pc = "discover"])

\* One read decides: the object with this nonce, or unresolved.
Discover ==
  /\ run.pc = "discover"
  /\ LET found == live[This] = Posted IN
     \/ found /\ Local(Bound(run))
     \/ Unproved(found, Fail(run))

\* remove_operation_nonce_v4: read, then a compare-and-set on what was read.
\* A nonce that is gone after a try is the effect of that try.
Stripped ==
  [Heard(run) EXCEPT !.clean = @ \cup {This},
     !.pc = IF This = Deployment THEN "health"
            ELSE IF This = Ingress THEN "routes" ELSE "create",
     !.at = IF This \in {Deployment, Ingress} THEN @ ELSE @ + 1]

Strip ==
  LET o == live[This]
      gone == o = [Posted EXCEPT !.tag = FALSE] /\ run.tries > 0 IN
  /\ run.pc = "strip"
  /\ \/ /\ o = Posted
        /\ Send([run EXCEPT !.pc = "stripping", !.tries = @ + 1],
                [op |-> "strip", at |-> This, seen |-> o])
     \/ gone /\ Local(Stripped)
     \/ Unproved(o = Posted \/ gone, Fail(run))

StripAnswered ==
  /\ run.pc = "stripping" /\ run.answer # None
  /\ Local(IF run.answer = "ok" THEN Stripped
           ELSE [Heard(run) EXCEPT
                   !.pc = IF run.tries < Attempts THEN "strip" ELSE "stripped"])

\* The read after the last try.
StripConcluded ==
  /\ run.pc = "stripped"
  /\ LET gone == live[This] = [Posted EXCEPT !.tag = FALSE] IN
     \/ gone /\ Local(Stripped)
     \/ Unproved(gone, Fail(run))

\* A step of proofs between two mutations.
Proving(pc, P, r) ==
  /\ run.pc = pc
  /\ \/ P /\ Local(r)
     \/ Unproved(P, Fail(run))

ProveHealth == Proving("health", Healthy, [run EXCEPT !.pc = "gate"])

\* Everything that must hold before the Ingress exposes the gateway.
BeforeIngress ==
  RuntimeImage /\ SameSecrets /\ PolicyUnion /\ DatabaseStatus /\ ClusterBound

ProveBeforeIngress ==
  Proving("gate", BeforeIngress, [run EXCEPT !.pc = "create", !.at = @ + 1])

ProveRoutes ==
  Proving("routes", RouteMatrix /\ SharedSource /\ ClusterBound,
          [run EXCEPT !.pc = "unsuspend", !.at = 1])

-----
\* Flux takes over.

OwnerOrder == <<"gateway", "workbenchIngress">>
ThisOwner == OwnerOrder[run.at]

\* The compare-and-set names the version of the preflight.
Unsuspend ==
  /\ run.pc = "unsuspend"
  /\ Send([run EXCEPT !.pc = "unsuspending"],
          [op |-> "patch", at |-> ThisOwner, susp |-> FALSE,
           rv |-> run.base[ThisOwner]])

UnsuspendAnswered ==
  /\ run.pc = "unsuspending" /\ run.answer # None
  /\ Local(IF run.answer # "ok" THEN Fail(run)
           ELSE IF run.at = 1
             THEN [Heard(run) EXCEPT !.pc = "unsuspend", !.at = 2]
           ELSE [Heard(run) EXCEPT !.pc = "ready", !.at = 1])

\* Mutant: the wait has no timeout.
AwaitReadyForever ==
  /\ run.pc = "ready"
  /\ FluxReady(ThisOwner)
  /\ Local([run EXCEPT !.pc = IF run.at = 1 THEN "ready" ELSE "verify",
                       !.at = IF run.at = 1 THEN 2 ELSE 1])

\* kubectl wait, with a timeout.
AwaitReady ==
  /\ run.pc = "ready"
  /\ \/ /\ FluxReady(ThisOwner)
        /\ Local([run EXCEPT !.pc = IF run.at = 1 THEN "ready" ELSE "verify",
                             !.at = IF run.at = 1 THEN 2 ELSE 1])
     \/ ~FluxReady(ThisOwner) /\ Local(Fail(run))

\* The last proofs: application, objects, preservation, cluster, Flux, source.
FinalProofs ==
  /\ SharedSource /\ Healthy /\ RouteMatrix /\ SameSecrets
  /\ PolicyUnion /\ Preserved /\ ClusterBound
  /\ \A n \in Names : Tracked(n)
  /\ \A k \in Owners : FluxReady(k)

ProveSuccess == Proving("verify", FinalProofs, [run EXCEPT !.pc = "commit"])

-----
\* Durable receipts.

Finish(exit) == [NoRun EXCEPT !.pc = "end", !.mode = run.mode, !.exit = exit]

\* The commit point.  Signals are ignored from here on.
Commit ==
  /\ run.pc = "commit"
  /\ receipt' = [receipt EXCEPT !.status = "activated", !.own = run.own]
  /\ run' = Finish("ok")
  /\ UNCHANGED <<live, kust, net, drift, rescue, stray, forgotten,
                 faults, passes, rescues>>

\* It raises before the rename, or after it: everything is rolled back.
CommitFails ==
  /\ run.pc = "commit" /\ Failing("commit")
  /\ \/ UNCHANGED receipt
     \/ receipt' = [receipt EXCEPT !.status = "activated", !.own = run.own]
  /\ run' = Fail(run)
  /\ UNCHANGED <<live, kust, net, drift, rescue, stray, forgotten,
                 passes, rescues>>

Complete == ~run.err /\ run.unsure = None

FailureReceipt ==
  [status |-> IF Complete THEN "rolled-back" ELSE "rollback-incomplete",
   own |-> run.own, unsure |-> run.unsure, broken |-> run.broken]

RescueStatus == IF Complete THEN "recovered" ELSE "recovery-incomplete"

\* The failure receipt, or that of a recovery.
Conclude ==
  IF run.mode = "activate" THEN receipt' = FailureReceipt /\ UNCHANGED rescue
  ELSE rescue' = RescueStatus /\ UNCHANGED receipt

Settle ==
  /\ run.pc = "settle" /\ Conclude
  /\ run' = Finish(IF run.mode # "activate" /\ Complete THEN "ok"
                   ELSE "raised")
  /\ UNCHANGED <<live, kust, net, drift, stray, forgotten,
                 faults, passes, rescues>>

\* The commit raises, before the rename or after it.
SettleFails ==
  /\ run.pc = "settle" /\ Failing("commit")
  /\ Conclude \/ UNCHANGED <<receipt, rescue>>
  /\ run' = Finish("unsaved")
  /\ UNCHANGED <<live, kust, net, drift, stray, forgotten,
                 passes, rescues>>

-----
\* rollback_v4.

\* The bounded search for an uncertain create.  It may end while the request
\* is still under way.
Rediscover ==
  LET o == live[run.unsure] r == [run EXCEPT !.pc = "bind"] IN
  /\ run.pc = "rediscover"
  /\ \/ /\ o = Posted
        /\ Local([r EXCEPT !.own = @ \cup {run.unsure}, !.unsure = None])
     \/ Unproved(o = Posted, r)

\* Only the protected cluster may be touched.
BindCluster ==
  /\ run.pc = "bind"
  /\ \/ ClusterBound /\ Local(Past([run EXCEPT !.auth = TRUE]))
     \/ Unproved(ClusterBound, Past([run EXCEPT !.auth = FALSE, !.err = TRUE]))

Target ==
  CASE run.pc \in {"ingress", "ingressAgain"} -> Ingress
    [] run.pc \in {"service", "serviceAgain"} -> Service
    [] OTHER -> IF Deployment \in run.left THEN Deployment
                ELSE Order[CHOOSE i \in DOMAIN Order :
                             /\ Order[i] \in run.left
                             /\ \A j \in i+1..Len(Order) :
                                  Order[j] \notin run.left]

\* The target is absent.
Deleted ==
  CASE run.pc = "service" -> Past([Heard(run) EXCEPT !.broken = TRUE])
    [] run.pc = "delete" /\ run.left # {Target} ->
         [Heard(run) EXCEPT !.left = @ \ {Target}, !.step = "look"]
    [] OTHER -> Past(Heard(run))

\* The name is read; only our own object is deleted.
Look ==
  LET o == live[Target] own == o # None /\ Deletable(Target) IN
  /\ run.pc \in Deleting /\ run.step = "look"
  /\ \/ o = None /\ Local(Deleted)
     \/ /\ own
        /\ Send([run EXCEPT !.step = "sent"],
                [op |-> "delete", at |-> Target, seen |-> o])
     \/ Unproved(o = None \/ own, Erring(run))

\* A refused or unanswered DELETE is not repeated.
DeleteAnswered ==
  /\ run.pc \in Deleting /\ run.step = "sent" /\ run.answer # None
  /\ Local(IF run.answer = "ok" THEN [Heard(run) EXCEPT !.step = "gone"]
           ELSE Erring(Heard(run)))

\* Poll until the name is absent, with a deadline.
AwaitGone ==
  /\ run.pc \in Deleting /\ run.step = "gone"
  /\ Local(IF live[Target] = None THEN Deleted ELSE Erring(run))

NextOwner(r) == IF run.at = 1 THEN [r EXCEPT !.at = 2, !.step = "look"]
                ELSE Past(r)

\* Each owner: read, and one compare-and-set if it is not suspended.
Suspend ==
  LET s == kust[ThisOwner] IN
  /\ run.pc = "suspend" /\ run.step = "look"
  /\ \/ s.susp /\ Local(NextOwner(run))
     \/ /\ ~s.susp
        /\ Send([run EXCEPT !.step = "sent"],
                [op |-> "patch", at |-> ThisOwner, susp |-> TRUE,
                 rv |-> s.rv])
     \/ Unproved(TRUE, NextOwner([run EXCEPT !.err = TRUE]))

SuspendAnswered ==
  /\ run.pc = "suspend" /\ run.step = "sent" /\ run.answer # None
  /\ Local(NextOwner([Heard(run) EXCEPT !.err = @ \/ run.answer # "ok"]))

\* Mutant: a suspended owner counts as quiet.
CalmEnough(k) == kust[k].susp

\* wait_both_suspended_v4: an owner that is not suspended is an error at once,
\* one that still reconciles at the deadline; in incident B both must be what
\* they were at the preflight.
Calm(k) ==
  IF run.mode = "B" THEN kust[k].susp /\ kust[k].rv = run.base[k]
  ELSE Quiescent(k)

AwaitQuiet(pc, P, r) ==
  /\ run.pc = pc
  /\ \/ Calm(ThisOwner) /\ run.at = 1 /\ Local([run EXCEPT !.at = 2])
     \/ Calm(ThisOwner) /\ run.at = 2 /\ P /\ Local(Past(r))
     \/ Unproved(Calm(ThisOwner) /\ (run.at = 2 => P), Erring(run))

BothSuspended ==
  AwaitQuiet("quiet", TRUE, [run EXCEPT !.quiet = TRUE])

\* An unbound Deployment and its Pods are absent.
UnboundAbsent ==
  /\ run.pc = "unbound"
  /\ \/ live[Deployment] = None /\ Local(Past(run))
     \/ Unproved(live[Deployment] = None, Erring(run))

\* All names absent for a quiet interval; somebody else's object is an error
\* at once, one of ours at the deadline.
AllGone ==
  /\ run.pc = "absent"
  /\ \/ AllAbsent /\ Local(Past(run))
     \/ Unproved(AllAbsent, Erring(run))

StillSuspended == AwaitQuiet("flux", SharedSource, run)

ProvePreserved ==
  /\ run.pc = "preserved"
  /\ \/ Preserved /\ Local(Past(run))
     \/ Unproved(Preserved, Erring(run))

RebindCluster ==
  /\ run.pc = "rebind"
  /\ \/ ClusterBound /\ Local(Past(run))
     \/ Unproved(ClusterBound, Erring(run))

-----
\* Signals, the death of the process, and the recovery of an incident.

\* While a POST is waited for, the except clause forgets that it was sent; in
\* the discovery read that follows, the signal is taken for a failed read.
Interrupt ==
  /\ run.pc \in Forward \ {"commit"} /\ Failing("signal")
  /\ LET r == IF run.pc = "posted" THEN [run EXCEPT !.unsure = None] ELSE run
     IN run' = Fail(r)
  /\ forgotten' = IF run.pc = "posted" THEN This ELSE forgotten
  /\ UNCHANGED <<live, kust, net, drift, receipt, rescue, stray,
                 passes, rescues>>

Crash ==
  /\ run.pc \notin Ended /\ Failing("crash")
  /\ run' = [NoRun EXCEPT !.pc = "dead", !.mode = run.mode]
  /\ UNCHANGED <<live, kust, net, drift, receipt, rescue, stray, forgotten,
                 passes, rescues>>

Before(n) == {Order[i] : i \in {i \in DOMAIN Order :
                                  \E j \in i+1..Len(Order) : Order[j] = n}}

\* The two receipts a recovery is pinned to.  A: the Deployment unresolved,
\* the Service proved deleted.  B: all names created, the Service not proved.
Incident(mode) ==
  /\ receipt.status = "rollback-incomplete"
  /\ CASE mode = "A" -> /\ receipt.own = Before(Deployment)
                        /\ receipt.unsure = Deployment /\ receipt.broken
       [] mode = "B" -> /\ receipt.own = Names
                        /\ receipt.unsure = None /\ ~receipt.broken

RescueStart(mode) ==
  /\ run.pc \in {"end", "dead"} /\ Incident(mode)
  /\ rescues < MaxRescues /\ rescues' = rescues + 1
  /\ run' = [NoRun EXCEPT !.pc = "rescue", !.mode = mode]
  /\ rescue' = "reserved"
  /\ UNCHANGED <<live, kust, net, drift, receipt, stray, forgotten,
                 faults, passes>>

\* Incident A: never unsuspended.
NeverUnsuspended == \A k \in Owners : kust[k] = Dormant

\* Incident B: exactly the state the failed health check left.
AsHealthCheckLeft ==
  LET g == kust["gateway"] w == kust["workbenchIngress"] IN
  /\ g.cond /\ ~g.ready /\ ~Applying("gateway")
  /\ ~w.cond /\ w.ready /\ ~w.busy

FluxAsLeft == IF run.mode = "A" THEN NeverUnsuspended ELSE AsHealthCheckLeft

\* The Service gone, the Ingress never created, the Deployment absent or found
\* by its nonce, the others absent or exactly what the receipt names.
TargetsAsLeftByA ==
  /\ \A n \in receipt.own :
       \/ live[n] = None
       \/ n # Service /\ live[n] = [Posted EXCEPT !.tag = FALSE]
  /\ live[Deployment] \in {None, Posted}
  /\ live[Ingress] = None

\* Each name absent or what the receipt names, with the pair of labels.
TargetsAsLeftByB ==
  \A n \in Names :
    live[n] \in {None, [Posted EXCEPT !.tag = FALSE, !.label = TRUE]}

TargetsAsLeft == IF run.mode = "A" THEN TargetsAsLeftByA ELSE TargetsAsLeftByB

RescueProofs ==
  ClusterBound /\ Preserved /\ DormantFlux /\ FluxAsLeft /\ TargetsAsLeft

\* The same rollback, with the names of the receipt and the discovered
\* Deployment; signals are deferred from here on.
RescuePasses ==
  /\ run.pc = "rescue" /\ RescueProofs
  /\ Local([run EXCEPT
       !.pc = "bind", !.begun = TRUE, !.clean = receipt.own,
       !.own = receipt.own \cup {n \in {Deployment} : live[n] # None},
       !.base = [k \in Owners |-> kust[k].rv]])

RescueBlocked ==
  /\ run.pc = "rescue"
  /\ \/ ~RescueProofs /\ UNCHANGED faults
     \/ Failing("read") \/ Failing("signal")
  /\ rescue' = "recovery-blocked"
  /\ run' = Finish("raised")
  /\ UNCHANGED <<live, kust, net, drift, receipt, stray, forgotten,
                 passes, rescues>>

-----

Proceed ==
  \/ PreflightPasses \/ PreflightFails
  \/ SendCreate \/ CreateAnswered \/ Discover
  \/ Strip \/ StripAnswered \/ StripConcluded
  \/ ProveHealth \/ ProveBeforeIngress \/ ProveRoutes
  \/ Unsuspend \/ UnsuspendAnswered \/ AwaitReady \/ ProveSuccess
  \/ Commit \/ CommitFails \/ Settle \/ SettleFails
  \/ Rediscover \/ BindCluster
  \/ Look \/ DeleteAnswered \/ AwaitGone
  \/ Suspend \/ SuspendAnswered \/ BothSuspended
  \/ UnboundAbsent \/ AllGone \/ StillSuspended
  \/ ProvePreserved \/ RebindCluster
  \/ RescuePasses \/ RescueBlocked

Next ==
  \/ Start \/ Proceed \/ Interrupt \/ Crash \/ LoseAnswer
  \/ \E q \in net : Serve(q) \/ Overtaken(q) \/ Drop(q)
  \/ \E k \in Owners :
       FluxStart(k) \/ FluxApply(k) \/ FluxDone(k) \/ FluxFails(k)
  \/ PodsGone
  \/ \E n \in Names : ForeignWrite(n)
  \/ \E f \in Facets : Drift(f)
  \/ \E mode \in {"A", "B"} : RescueStart(mode)

Spec == Init /\ [][Next]_vars

\* Every wait of the process has a deadline, and a request that is waited for
\* is served or its answer lost.  Nothing is assumed of Flux.
Fairness ==
  WF_vars(Proceed) /\ WF_vars(\E q \in net : Awaited(q) /\ Serve(q))

FairSpec == Spec /\ Fairness

-----
\* Properties.

Ours(n) == live[n] # None /\ live[n].by # "other"

\* No object of Flux or of anybody else is ever deleted: not one that took a
\* name between the read and the DELETE, nor one Flux recreated under it.
OnlyOwnDeleted ==
  [][\A n \in Names :
       live[n] # None /\ live[n].by # "run" =>
         live'[n] # None /\ live'[n].going = live[n].going]_vars

\* A gateway Deployment never runs without its NetworkPolicy, neither while it
\* is created nor while things are deleted around it, also when its create is
\* unresolved; excepted what an abandoned request brings about too late.
IsolatedWhileRunning ==
  Ours(Deployment) =>
    live[Isolation] # None \/ {Deployment, "gateway"} \cap stray # {}

\* When the rollback begins to delete the rest, our Ingress and our Service are
\* gone, and no reconciler can bring them back.
ExposureFirst ==
  [][run'.pc = "delete" /\ run'.asked # None /\ run.asked = None =>
       /\ \A n \in {Ingress, Service} \cap run.own :
            {n, "gateway"} \cap stray = {} => ~Ours(n)
       /\ \A k \in Owners :
            k \notin stray => kust[k].susp /\ ~Applying(k)]_vars

\* Under a receipt that claims a complete rollback or recovery nothing of ours is
\* left and both reconcilers are suspended and idle, then and later, save for
\* stray: what a request nobody waits for changed after the process had proved
\* quiet, and what a reconciler unsuspended that way applies.
RolledBackIsTrue ==
  receipt.status = "rolled-back" \/ rescue = "recovered" =>
    /\ \A n \in Names : Ours(n) => {n, OwnerOf(n)} \cap stray # {}
    /\ \A k \in Owners \ stray : kust[k].susp /\ ~Applying(k)

\* When a run has ended under an "activated" receipt, all objects are there, nonces
\* gone, both reconcilers active: a success commit that failed half-way is replaced
\* by the receipt of the rollback.  Nothing is said when that commit fails too
\* (unsaved), nor when the process is killed before it.
ActivatedIsTrue ==
  receipt.status = "activated" /\ run.pc = "end" /\ run.exit # "unsaved" =>
    /\ \A n \in Names : live[n] # None /\ (live[n].by = "run" => ~live[n].tag)
    /\ \A k \in Owners : ~kust[k].susp

\* What a failed activation leaves behind is named in its receipt, as created
\* or as unresolved; the exceptions are the one name whose POST a signal made
\* the process forget, and stray.
WhatIsLeftIsNamed ==
  receipt.status \in {"rolled-back", "rollback-incomplete"} =>
    \A n \in Names :
      live[n] # None /\ live[n].by = "run" =>
        n \in receipt.own \cup {receipt.unsure, forgotten} \cup stray

\* What the receipt says of a rollback, of a success, and of what a failure left
\* behind holds up to three exceptions, in which the code's receipt can be wrong:
\* stray, unsaved and forgotten.
ReceiptsAreTrue == RolledBackIsTrue /\ ActivatedIsTrue /\ WhatIsLeftIsNamed

\* The rollback deletes our objects only, and those that expose the gateway
\* before any other, under reconcilers that stand still.
DeletesInOrder == OnlyOwnDeleted /\ ExposureFirst

\* The process always comes to an end.
Terminates == []<>(run.pc \in Ended)

=============================================================================
