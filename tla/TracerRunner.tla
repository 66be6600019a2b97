---------------------------- MODULE TracerRunner ----------------------------
\* The live runner of the tracer data plane,
\* scripts/run-tracer-data-plane-live.py: activate and
\* recover_from_journal, beside the Flux controller whose Kustomization
\* activate wakes.
\*
\* The UID of an object stands for the operation that created it, because
\* an operation creates each name once; the nonce is an annotation that
\* the operation removes again.  Between the read of a compare-and-set and
\* its request somebody else's write makes the request fail: that is one
\* of the faults of Raise, so versions are left out.  The phase of the
\* journal and its list of deletions decide nothing and are left out.
EXTENDS Naturals, Sequences, FiniteSets, Functions

CONSTANTS Workloads,      \* the application objects, in creation order
          Tenancy,        \* the Flux objects before the Kustomization; the
                          \*   reconciler may write nothing without them
          Kustomization,  \* the last object
          MaxActivations, \* bound: operations started
          MaxLaunches,    \* bound: processes started
          MaxFaults,      \* bound: faults of any kind
          Absent          \* no object

VARIABLES objects,     \* [Names -> the live object or Absent]
          reconciling, \* a reconciliation is under way
          requests,    \* requests sent and not served yet
          tardy,       \* operations a creation of which was served too late
          ledger,      \* [Activations -> its journal and receipt]
          worker,      \* the process
          launches, faults,
          secrets,     \* the live Secrets (read only)
          papers       \* journals and receipts of the Secrets (read only)

plane == <<objects, reconciling, requests, tardy>>
vars == <<objects, reconciling, requests, tardy, ledger, worker, launches, faults,
          secrets, papers>>

CreateOrder == Workloads \o Tenancy \o <<Kustomization>>
DeleteOrder == [i \in DOMAIN CreateOrder |-> CreateOrder[Len(CreateOrder) - i + 1]]
Names == Range(CreateOrder)
Activations == 1 .. MaxActivations
Rival == 0                      \* the UID of an object of somebody else
Flux == MaxActivations + 1      \* the UID of an object Flux created

Rest == [pc |-> "idle", mode |-> "none", op |-> 0, source |-> 0, records |-> <<>>, todo |-> <<>>]
NoJournal == [status |-> "none", records |-> <<>>, source |-> 0]
NoLedger == [journal |-> NoJournal, receipt |-> "none"]
Terminal == {"activated", "rolled-back", "recovered-rolled-back"}

\* with_nonce(desired): what a create request asks for; the Kustomization is
\* created suspended.
Fresh(n) == [uid |-> n, nonce |-> TRUE, suspended |-> TRUE]
\* What the reconciler applies, and what anybody else creates.
Plain(u) == [uid |-> u, nonce |-> FALSE, suspended |-> TRUE]
\* What is read of an object; only the Kustomization can be active.
Objects == [uid : 0 .. Flux, nonce : BOOLEAN, suspended : BOOLEAN]

\* There is a Role and its binding (dormant_flux_objects): what the reconciler
\* may do, it may do by them.
RunnerConstants ==
  /\ {Workloads, Tenancy} \subseteq Seq(STRING) /\ Tenancy # <<>>
  /\ Kustomization \in STRING /\ IsInjective(CreateOrder)
  /\ {MaxActivations, MaxLaunches, MaxFaults} \subseteq Nat

Init == /\ objects = [o \in Names |-> Absent]
        /\ reconciling = FALSE /\ requests = {} /\ tardy = {}
        /\ ledger = [n \in Activations |-> NoLedger]
        /\ worker = Rest /\ launches = 0 /\ faults = 0

-----
At(pc) == worker.pc = pc
Goto(pc) == worker' = [worker EXCEPT !.pc = pc]
Steps(order, pc) == worker' = [worker EXCEPT !.pc = pc, !.todo = order]
Blame == faults < MaxFaults /\ faults' = faults + 1
Live(o) == objects[o] # Absent
Active == Live(Kustomization) /\ ~objects[Kustomization].suspended

\* write_journal; the journal also binds the Secret receipt it relies on.
WriteJournal(status, records) ==
  ledger' = [ledger EXCEPT ![worker.op].journal =
               [status |-> status, records |-> records,
                source |-> IF @ = NoJournal THEN worker.source ELSE @.source]]
CommitReceipt(state) == ledger' = [ledger EXCEPT ![worker.op].receipt = state]

\* The operator starts a process.
Start(mode, n, source) ==
  /\ At("idle") /\ launches < MaxLaunches /\ launches' = launches + 1
  /\ worker' = [Rest EXCEPT !.pc = mode, !.mode = mode, !.op = n, !.source = source]
  /\ UNCHANGED <<plane, ledger, faults>>

StartActivation ==
  \E n \in Activations, s \in DOMAIN papers :
    /\ ledger[n] = NoLedger /\ \A m \in 1 .. n - 1 : ledger[m] # NoLedger
    /\ papers[s].receipt.state = "materialized"
    /\ Start("activate", n, s)
StartRecovery == \E n \in Activations : /\ ledger[n].journal # NoJournal
                                        /\ Start("recover", n, 0)

-----
\* bind_live_secrets: each Secret is live and is the one of the receipt.
SecretsBound(s) == \A l \in DOMAIN secrets : secrets[l] = papers[s].receipt.records[l]

\* activate, before the first mutation.
Preflight ==
  /\ At("activate")
  /\ IF SecretsBound(worker.source) /\ \A o \in Names : ~Live(o)
     THEN CommitReceipt("empty") /\ Goto("open")
     ELSE worker' = Rest /\ UNCHANGED ledger
  /\ UNCHANGED <<plane, launches, faults>>

OpenJournal ==
  /\ At("open")
  /\ WriteJournal("in-progress", <<>>) /\ Steps(CreateOrder, "create")
  /\ UNCHANGED <<plane, launches, faults>>

SendCreate ==
  /\ At("create")
  /\ LET o == Head(worker.todo) IN
     \/ /\ ~Live(o)
        /\ objects' = [objects EXCEPT ![o] = Fresh(worker.op)]
        /\ Goto("look") /\ UNCHANGED <<requests, faults>>
     \/ /\ Live(o)
        /\ Goto("audit") /\ UNCHANGED <<objects, requests, faults>>
     \/ /\ Blame
        /\ requests' = requests \cup {[does |-> "create", name |-> o, op |-> worker.op]}
        /\ Goto("look") /\ UNCHANGED objects
  /\ UNCHANGED <<reconciling, tardy, ledger, launches>>

\* bind_observed: the object is live and is what was asked for.
LookCreated ==
  /\ At("look")
  /\ LET o == Head(worker.todo) IN
     IF objects[o] = Fresh(worker.op)
     THEN worker' = [worker EXCEPT !.pc = "note",
                       !.records = [k \in DOMAIN @ \cup {o} |-> IF k = o THEN FALSE ELSE @[k]]]
     ELSE Goto("audit")
  /\ UNCHANGED <<plane, ledger, launches, faults>>

\* Mutant: the journal learns of the objects only when their nonces are gone.
NoteInMemory ==
  /\ At("note") /\ UNCHANGED ledger
  /\ IF Len(worker.todo) = 1 THEN Steps(CreateOrder, "plain")
                             ELSE Steps(Tail(worker.todo), "create")
  /\ UNCHANGED <<plane, launches, faults>>

NoteCreated ==
  /\ At("note")
  /\ WriteJournal("in-progress", worker.records)
  /\ IF Len(worker.todo) = 1 THEN Steps(CreateOrder, "plain")
                             ELSE Steps(Tail(worker.todo), "create")
  /\ UNCHANGED <<plane, launches, faults>>

\* remove_nonce: four attempts, each of which reads first, so that a removal
\* whose answer was lost is seen to be done.  A request may be served after
\* the last of them.
RemoveNonce ==
  /\ At("plain")
  /\ LET o == Head(worker.todo) IN
     \/ /\ objects[o] = Fresh(worker.op)
        /\ objects' = [objects EXCEPT ![o].nonce = FALSE]
        /\ worker' = [worker EXCEPT !.pc = "noted", !.records[o] = TRUE]
        /\ UNCHANGED <<requests, faults>>
     \/ /\ Blame
        /\ requests' = requests \cup {[does |-> "plain", name |-> o, op |-> worker.op]}
        /\ Goto("audit") /\ UNCHANGED objects
     \/ /\ objects[o] # Fresh(worker.op)
        /\ Goto("audit") /\ UNCHANGED <<objects, requests, faults>>
  /\ UNCHANGED <<reconciling, tardy, ledger, launches>>

NoteRemoved ==
  /\ At("noted")
  /\ WriteJournal("in-progress", worker.records)
  /\ Steps(Tail(worker.todo), IF Len(worker.todo) = 1 THEN "wake" ELSE "plain")
  /\ UNCHANGED <<plane, launches, faults>>

\* unsuspend: one compare-and-set.  If its answer is lost the Kustomization
\* is active already, or becomes so later, or never.
Unsuspend ==
  /\ At("wake")
  /\ \/ /\ objects[Kustomization] = Plain(worker.op)
        /\ objects' = [objects EXCEPT ![Kustomization].suspended = FALSE]
        /\ \/ Goto("woken") /\ UNCHANGED <<requests, faults>>
           \/ Goto("audit") /\ UNCHANGED requests /\ Blame
     \/ /\ Blame
        /\ requests' = requests \cup
             {[does |-> "wake", name |-> Kustomization, op |-> worker.op]}
        /\ Goto("audit") /\ UNCHANGED objects
     \/ /\ objects[Kustomization] # Plain(worker.op)
        /\ Goto("audit") /\ UNCHANGED <<objects, requests, faults>>
  /\ UNCHANGED <<reconciling, tardy, ledger, launches>>

NoteWoken ==
  /\ At("woken")
  /\ WriteJournal("in-progress", worker.records) /\ Goto("wait")
  /\ UNCHANGED <<plane, launches, faults>>

\* wait_ready and service_binding.
WaitReady ==
  /\ At("wait")
  /\ IF /\ Active /\ objects[Kustomization].uid = worker.op
        /\ \A o \in Range(Workloads) : Live(o)
     THEN Goto("prepare") ELSE Goto("audit")
  /\ UNCHANGED <<plane, ledger, launches, faults>>

Prepare ==
  /\ At("prepare")
  /\ WriteJournal("in-progress", worker.records) /\ Goto("commit")
  /\ UNCHANGED <<plane, launches, faults>>

\* The commit point: a failure of this write is not rolled back.
Commit ==
  /\ At("commit") /\ worker' = Rest
  /\ \/ CommitReceipt("activated") /\ UNCHANGED faults
     \/ CommitReceipt("partial") /\ Blame
  /\ UNCHANGED <<plane, launches>>

-----
\* recovery_preflight, the first step of the rollback and of the recovery.
Adopted ==
  LET own == {o \in Names \ DOMAIN worker.records :
                Live(o) /\ objects[o].uid = worker.op /\ objects[o].nonce}
  IN  [o \in DOMAIN worker.records \cup own |->
         IF o \in own THEN FALSE ELSE worker.records[o]]

Accounted(records) ==
  \A o \in Names : Live(o) => o \in DOMAIN records /\ objects[o].uid = worker.op

Audit ==
  /\ At("audit")
  /\ worker' = IF Accounted(Adopted)
               THEN [worker EXCEPT !.pc = "entry", !.records = Adopted] ELSE Rest
  /\ UNCHANGED <<plane, ledger, launches, faults>>

ReadPapers ==
  /\ At("recover")
  /\ LET r == ledger[worker.op].receipt IN
     \/ /\ r \in Terminal
        /\ WriteJournal(IF r = "activated" THEN "committed" ELSE "rolled-back",
                        ledger[worker.op].journal.records)
        /\ worker' = Rest
     \/ /\ r = "empty"
        /\ worker' = [worker EXCEPT !.pc = "audit", !.records = ledger[worker.op].journal.records]
        /\ UNCHANGED ledger
     \/ /\ r = "partial"
        /\ worker' = Rest /\ UNCHANGED ledger
  /\ UNCHANGED <<plane, launches, faults>>

EnterRollback ==
  /\ At("entry")
  /\ WriteJournal(ledger[worker.op].journal.status, worker.records) /\ Goto("suspend")
  /\ UNCHANGED <<plane, launches, faults>>

Replaced(o) == o \in DOMAIN worker.records /\ Live(o) /\ objects[o].uid # worker.op

\* suspend_if_active: one compare-and-set on what is read here.
SuspendIfActive ==
  /\ At("suspend")
  /\ IF Replaced(Kustomization) THEN worker' = Rest ELSE Steps(DeleteOrder, "delete")
  /\ objects' = IF Kustomization \in DOMAIN worker.records /\ Active
                THEN [objects EXCEPT ![Kustomization].suspended = TRUE] ELSE objects
  /\ UNCHANGED <<reconciling, requests, tardy, ledger, launches, faults>>

\* delete_owned: the UID of the record, suspended, and without the nonce if
\* the record says so.
Owned(o, records) ==
  /\ o \in DOMAIN records /\ objects[o].uid = worker.op /\ objects[o].suspended
  /\ records[o] => ~objects[o].nonce

DeleteNext ==
  /\ At("delete")
  /\ LET o == Head(worker.todo) IN
     \/ /\ ~Live(o) \/ (worker.mode = "activate" /\ o \notin DOMAIN worker.records)
        /\ Goto("crossed") /\ UNCHANGED <<objects, faults>>
     \/ /\ Live(o) /\ Owned(o, worker.records)
        /\ objects' = [objects EXCEPT ![o] = Absent]
        /\ \/ Goto("crossed") /\ UNCHANGED faults
           \/ worker' = Rest /\ Blame
     \/ /\ Live(o) /\ ~Owned(o, worker.records)
        /\ worker.mode = "recover" \/ o \in DOMAIN worker.records
        /\ worker' = Rest /\ UNCHANGED <<objects, faults>>
  /\ UNCHANGED <<reconciling, requests, tardy, ledger, launches>>

NoteDeleted ==
  /\ At("crossed")
  /\ WriteJournal(ledger[worker.op].journal.status, worker.records)
  /\ Steps(Tail(worker.todo), IF Len(worker.todo) = 1 THEN "close" ELSE "delete")
  /\ UNCHANGED <<plane, launches, faults>>

CloseJournal ==
  /\ At("close")
  /\ WriteJournal("rolled-back", worker.records) /\ Goto("receipt")
  /\ UNCHANGED <<plane, launches, faults>>

RollbackReceipt ==
  /\ At("receipt") /\ worker' = Rest
  /\ \/ /\ CommitReceipt(IF worker.mode = "recover" THEN "recovered-rolled-back" ELSE "rolled-back")
        /\ UNCHANGED faults
     \/ CommitReceipt("partial") /\ Blame
  /\ UNCHANGED <<plane, launches>>

-----
\* Where an exception leads to the rollback.
Transacting == {"create", "look", "note", "plain", "noted", "wake", "woken", "wait", "prepare"}

\* A call or a file fails, a compare-and-set is refused, a wait times out, or
\* a signal arrives while signals are not deferred.
Raise ==
  /\ ~At("idle") /\ Blame
  /\ IF worker.pc \in Transacting THEN Goto("audit") ELSE worker' = Rest
  /\ UNCHANGED <<plane, ledger, launches>>

Kill ==
  /\ ~At("idle") /\ Blame
  /\ worker' = Rest
  /\ UNCHANGED <<plane, ledger, launches>>

\* A request is served when its sender has moved on.  The tests of a patch
\* hold only while the object is as the sender had read it.
ServeLate ==
  \E r \in requests :
    LET o == objects[r.name] IN
    /\ requests' = requests \ {r}
    /\ \/ /\ r.does = "create" /\ o = Absent
          /\ objects' = [objects EXCEPT ![r.name] = Fresh(r.op)]
          /\ tardy' = tardy \cup {r.op}
       \/ /\ r.does = "plain" /\ o = Fresh(r.op)
          /\ objects' = [objects EXCEPT ![r.name].nonce = FALSE]
          /\ UNCHANGED tardy
       \/ /\ r.does = "wake" /\ o = Plain(r.op)
          /\ objects' = [objects EXCEPT ![r.name].suspended = FALSE]
          /\ UNCHANGED tardy
       \/ UNCHANGED <<objects, tardy>>
    /\ UNCHANGED <<reconciling, ledger, worker, launches, faults>>

\* The Flux controller takes up an active Kustomization.  Neither suspending
\* nor deleting it stops a reconciliation under way, but what that writes
\* takes the rights of the tenant.
Reconcile ==
  /\ \/ Active /\ ~reconciling /\ reconciling' = TRUE /\ UNCHANGED objects
     \/ reconciling /\ reconciling' = FALSE /\ UNCHANGED objects
     \/ /\ reconciling /\ \A t \in Range(Tenancy) : Live(t) /\ objects[t].uid # Rival
        /\ \E o \in Range(Workloads) :
             ~Live(o) /\ objects' = [objects EXCEPT ![o] = Plain(Flux)]
        /\ UNCHANGED reconciling
  /\ UNCHANGED <<requests, tardy, ledger, worker, launches, faults>>

\* Somebody else takes a free name.
Interfere ==
  /\ Blame
  /\ \E o \in Names : ~Live(o) /\ objects' = [objects EXCEPT ![o] = Plain(Rival)]
  /\ UNCHANGED <<reconciling, requests, tardy, ledger, worker, launches>>

-----
Proceed ==
  \/ Preflight \/ OpenJournal \/ SendCreate \/ LookCreated \/ NoteCreated \/ RemoveNonce
  \/ NoteRemoved \/ Unsuspend \/ NoteWoken \/ WaitReady \/ Prepare \/ Commit
  \/ Audit \/ ReadPapers \/ EnterRollback \/ SuspendIfActive \/ DeleteNext \/ NoteDeleted
  \/ CloseJournal \/ RollbackReceipt
Operator == StartActivation \/ StartRecovery
Disturb == Raise \/ Kill \/ ServeLate \/ Reconcile \/ Interfere
Next == (Proceed \/ Operator \/ Disturb) /\ UNCHANGED <<secrets, papers>>
=============================================================================
