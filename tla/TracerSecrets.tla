--------------------------- MODULE TracerSecrets ---------------------------
\* The materialiser of the tracer's Secrets,
\* scripts/materialize-tracer-data-plane-secrets.py: materialize,
\* recover_from_journal and teardown.
\*
\* An operation has one nonce, which every Secret it creates bears, one
\* journal (replaced atomically) and one receipt, whose inode is reserved
\* empty before the first request and written in place at the end.  The
\* nonce stands for the operation, so operations are numbered.
\*
\* The phase of the journal and its list of deletions are left out: no
\* line reads them back to decide anything.
EXTENDS Naturals, Sequences, FiniteSets, Functions

CONSTANTS SecretOrder,    \* the labels in createOrder
          MaxOperations,  \* bound: operations started
          MaxLaunches,    \* bound: processes started
          MaxFaults,      \* bound: faults of any kind
          Absent          \* no object

VARIABLES secrets,   \* [Labels -> the live Secret or Absent]
          travelling,\* create requests that were sent and not served yet
          late,      \* operations a request of which was served too late
          papers,    \* [Operations -> its journal, receipt, teardown receipt]
          job,       \* the process
          launches,  \* how many processes were started
          faults,    \* how many faults happened
          targets    \* tracer objects and consumers now in the cluster (read only)

cluster == <<secrets, travelling, late>>
vars == <<secrets, travelling, late, papers, job, launches, faults, targets>>

Labels == Range(SecretOrder)
DeleteOrder == [i \in DOMAIN SecretOrder |-> SecretOrder[Len(SecretOrder) - i + 1]]
Operations == 1 .. MaxOperations
Rival == 0                    \* the nonce of somebody else's Secret

Idle == [pc |-> "idle", mode |-> "none", op |-> 0, records |-> <<>>, todo |-> <<>>]
NoJournal == [status |-> "none", records |-> <<>>]
NoPapers == [journal |-> NoJournal, receipt |-> [state |-> "none", records |-> <<>>], torn |-> FALSE]

Record(n) == [nonce |-> n, version |-> 0]
Terminal == {"materialized", "rolled-back", "recovered-rolled-back"}
Identities == [nonce : 0 .. MaxOperations, version : 0 .. 1]
Records == UNION {[S -> Identities] : S \in SUBSET Labels}

SecretsConstants ==
  /\ SecretOrder \in Seq(STRING) /\ Len(SecretOrder) > 0 /\ IsInjective(SecretOrder)
  /\ {MaxOperations, MaxLaunches, MaxFaults} \subseteq Nat

Init == /\ secrets = [l \in Labels |-> Absent]
        /\ travelling = {} /\ late = {}
        /\ papers = [n \in Operations |-> NoPapers]
        /\ job = Idle /\ launches = 0 /\ faults = 0

-----
Journal(n) == papers[n].journal
Receipt(n) == papers[n].receipt
At(pc) == job.pc = pc
Goto(pc) == job' = [job EXCEPT !.pc = pc]
Steps(order, pc) == job' = [job EXCEPT !.pc = pc, !.todo = order]
Blame == faults < MaxFaults /\ faults' = faults + 1

\* write_journal: the whole file is replaced, or not at all.
WriteJournal(status, records) ==
  papers' = [papers EXCEPT ![job.op].journal = [status |-> status, records |-> records]]

\* commit_reserved_receipt: in place, into an inode that is still empty.
CommitReceipt(state, records) ==
  papers' = [papers EXCEPT ![job.op].receipt = [state |-> state, records |-> records]]

-----
\* The operator starts a process.  Each has a fresh receipt path, and
\* recovery names the journal and the receipt of one operation.
Start(mode, n) ==
  /\ At("idle") /\ launches < MaxLaunches /\ launches' = launches + 1
  /\ job' = [Idle EXCEPT !.pc = mode, !.mode = mode, !.op = n]
  /\ UNCHANGED <<cluster, papers, faults>>

StartMaterialize ==
  \E n \in Operations : /\ papers[n] = NoPapers
                        /\ \A m \in 1 .. n - 1 : papers[m] # NoPapers
                        /\ Start("materialize", n)
StartRecovery == \E n \in Operations : /\ Journal(n) # NoJournal
                                       /\ Start("recover", n)
StartTeardown == \E n \in Operations : /\ Receipt(n).state = "materialized"
                                       /\ Start("teardown", n)

-----
\* materialize: every name is free, then the receipt is reserved.
Preflight ==
  /\ At("materialize")
  /\ IF \A l \in Labels : secrets[l] = Absent
     THEN /\ CommitReceipt("empty", <<>>) /\ Goto("open")
     ELSE job' = Idle /\ UNCHANGED papers
  /\ UNCHANGED <<cluster, launches, faults>>

\* The journal is on disk before the first request.
OpenJournal ==
  /\ At("open")
  /\ WriteJournal("in-progress", <<>>) /\ Steps(SecretOrder, "create")
  /\ UNCHANGED <<cluster, launches, faults>>

\* The create request.  It is served, or refused because the name is taken,
\* or nothing is known of it: it may yet be served, or never.
SendCreate ==
  /\ At("create")
  /\ LET l == Head(job.todo) IN
     \/ /\ secrets[l] = Absent
        /\ secrets' = [secrets EXCEPT ![l] = Record(job.op)]
        /\ Goto("look") /\ UNCHANGED <<travelling, faults>>
     \/ /\ secrets[l] # Absent
        /\ Goto("audit") /\ UNCHANGED <<secrets, travelling, faults>>
     \/ /\ Blame
        /\ travelling' = travelling \cup {[label |-> l, nonce |-> job.op]}
        /\ Goto("look") /\ UNCHANGED secrets
  /\ UNCHANGED <<late, papers, launches>>

\* Mutant: whatever is live under the name is adopted.
LookByName ==
  /\ At("look")
  /\ LET l == Head(job.todo) IN
     IF secrets[l] # Absent
     THEN job' = [job EXCEPT !.pc = "note",
                    !.records = [k \in DOMAIN @ \cup {l} |-> IF k = l THEN secrets[l] ELSE @[k]]]
     ELSE Goto("audit")
  /\ UNCHANGED <<cluster, papers, launches, faults>>

\* create_secret: what was asked for must be live and bear the nonce.
LookCreated ==
  /\ At("look")
  /\ LET l == Head(job.todo) IN
     IF secrets[l] # Absent /\ secrets[l].nonce = job.op
     THEN job' = [job EXCEPT !.pc = "note",
                    !.records = [k \in DOMAIN @ \cup {l} |-> IF k = l THEN secrets[l] ELSE @[k]]]
     ELSE Goto("audit")
  /\ UNCHANGED <<cluster, papers, launches, faults>>

\* The record is on disk before the next request.
NoteCreated ==
  /\ At("note")
  /\ WriteJournal("in-progress", job.records)
  /\ Steps(Tail(job.todo), IF Len(job.todo) = 1 THEN "prepare" ELSE "create")
  /\ UNCHANGED <<cluster, launches, faults>>

Prepare ==
  /\ At("prepare")
  /\ WriteJournal("in-progress", job.records) /\ Goto("commit")
  /\ UNCHANGED <<cluster, launches, faults>>

\* The commit point.  A write that fails leaves the inode empty or with a
\* part of the document, and no cluster write follows it.
Commit ==
  /\ At("commit") /\ job' = Idle
  /\ \/ CommitReceipt("materialized", job.records) /\ UNCHANGED faults
     \/ CommitReceipt("partial", <<>>) /\ Blame
  /\ UNCHANGED <<cluster, launches>>

-----
\* The rollback of materialize and the recovery begin alike: objects with
\* the nonce of the operation are adopted into the records, and then every
\* name is compared with them before the first deletion.
Adopted ==
  LET own == {l \in Labels \ DOMAIN job.records :
                secrets[l] # Absent /\ secrets[l].nonce = job.op}
  IN  [l \in DOMAIN job.records \cup own |->
         IF l \in own THEN secrets[l] ELSE job.records[l]]

Accounted(records) ==
  \A l \in Labels : secrets[l] # Absent => l \in DOMAIN records /\ secrets[l] = records[l]

Audit ==
  /\ At("audit")
  /\ job' = IF Accounted(Adopted)
            THEN [job EXCEPT !.pc = "entry", !.records = Adopted]
            ELSE Idle
  /\ UNCHANGED <<cluster, papers, launches, faults>>

\* Mutant: the recovery trusts the journal and does not read the receipt.
ReadJournalOnly ==
  /\ At("recover")
  /\ job' = [job EXCEPT !.pc = "audit", !.records = Journal(job.op).records]
  /\ UNCHANGED <<cluster, papers, launches, faults>>

\* recover_from_journal: a receipt that is not empty ends the matter without
\* a request; a part of one is not a document and blocks the recovery.
ReadPapers ==
  /\ At("recover")
  /\ LET r == Receipt(job.op) IN
     \/ /\ r.state \in Terminal
        /\ WriteJournal(IF r.state = "materialized" THEN "committed" ELSE "rolled-back",
                        Journal(job.op).records)
        /\ job' = Idle
     \/ /\ r.state = "empty"
        /\ job' = [job EXCEPT !.pc = "audit", !.records = Journal(job.op).records]
        /\ UNCHANGED papers
     \/ /\ r.state = "partial"
        /\ job' = Idle /\ UNCHANGED papers
  /\ UNCHANGED <<cluster, launches, faults>>

EnterRollback ==
  /\ At("entry")
  /\ WriteJournal(Journal(job.op).status, job.records)
  /\ Steps(DeleteOrder, "delete")
  /\ UNCHANGED <<cluster, launches, faults>>

\* What delete_owned compares, and the preconditions of its request.
Owned(l, records) == l \in DOMAIN records /\ secrets[l] = records[l]

\* A label without a record is passed over by the rollback, and must still be
\* absent for the recovery.
DeleteNext ==
  /\ At("delete")
  /\ LET l == Head(job.todo) IN
     \/ /\ secrets[l] = Absent \/ (job.mode = "materialize" /\ l \notin DOMAIN job.records)
        /\ Goto("crossed") /\ UNCHANGED <<secrets, faults>>
     \/ /\ Owned(l, job.records)
        /\ secrets' = [secrets EXCEPT ![l] = Absent]
        /\ \/ Goto("crossed") /\ UNCHANGED faults
           \/ job' = Idle /\ Blame
     \/ /\ secrets[l] # Absent /\ ~Owned(l, job.records)
        /\ job.mode # "materialize" \/ l \in DOMAIN job.records
        /\ job' = Idle /\ UNCHANGED <<secrets, faults>>
  /\ UNCHANGED <<travelling, late, papers, launches>>

\* Each deletion is journaled; the last is followed by the final status.
NoteDeleted ==
  /\ At("crossed")
  /\ LET left == Tail(job.todo) IN
     /\ Steps(left, IF left # <<>> THEN "delete"
                    ELSE IF job.mode = "teardown" THEN "torn" ELSE "close")
     /\ IF job.mode = "teardown" THEN UNCHANGED papers
        ELSE WriteJournal(Journal(job.op).status, job.records)
  /\ UNCHANGED <<cluster, launches, faults>>

CloseJournal ==
  /\ At("close")
  /\ WriteJournal("rolled-back", job.records) /\ Goto("receipt")
  /\ UNCHANGED <<cluster, launches, faults>>

RollbackReceipt ==
  /\ At("receipt") /\ job' = Idle
  /\ \/ /\ CommitReceipt(IF job.mode = "recover" THEN "recovered-rolled-back" ELSE "rolled-back",
                         job.records)
        /\ UNCHANGED faults
     \/ CommitReceipt("partial", <<>>) /\ Blame
  /\ UNCHANGED <<cluster, launches>>

-----
\* Mutant: the Secrets are torn down under whatever uses them.
TeardownAnyway ==
  /\ At("teardown")
  /\ job' = [job EXCEPT !.pc = "delete", !.records = Receipt(job.op).records,
                        !.todo = DeleteOrder]
  /\ UNCHANGED <<cluster, papers, launches, faults>>

\* teardown: nothing in the cluster may use the Secrets, then each goes by
\* the record of the receipt.  Only a completed teardown writes a receipt.
CheckUnused ==
  /\ At("teardown")
  /\ job' = IF targets = {}
            THEN [job EXCEPT !.pc = "delete", !.records = Receipt(job.op).records,
                             !.todo = DeleteOrder]
            ELSE Idle
  /\ UNCHANGED <<cluster, papers, launches, faults>>

TeardownReceipt ==
  /\ At("torn") /\ job' = Idle
  /\ papers' = [papers EXCEPT ![job.op].torn = TRUE]
  /\ UNCHANGED <<cluster, launches, faults>>

-----
\* A call fails, a file cannot be written, or a signal arrives while signals
\* are not deferred: the exception leads to the rollback from within the
\* creation loop and out of the program from anywhere else.
Creating == {"create", "look", "note"}
Raise ==
  /\ ~At("idle") /\ Blame
  /\ IF job.pc \in Creating THEN Goto("audit") ELSE job' = Idle
  /\ UNCHANGED <<cluster, papers, launches>>

\* SIGKILL, or the host is lost.
Kill ==
  /\ ~At("idle") /\ Blame
  /\ job' = Idle
  /\ UNCHANGED <<cluster, papers, launches>>

\* The API server gets to a request whose sender no longer waits for it.
ServeLate ==
  \E r \in travelling :
    /\ travelling' = travelling \ {r}
    /\ IF secrets[r.label] = Absent
       THEN /\ secrets' = [secrets EXCEPT ![r.label] = Record(r.nonce)]
            /\ late' = late \cup {r.nonce}
       ELSE UNCHANGED <<secrets, late>>
    /\ UNCHANGED <<papers, job, launches, faults>>

\* Somebody else takes a free name, or edits a Secret.
Interfere ==
  /\ Blame
  /\ \E l \in Labels :
       \/ secrets[l] = Absent /\ secrets' = [secrets EXCEPT ![l] = Record(Rival)]
       \/ /\ secrets[l] # Absent /\ secrets[l].version = 0
          /\ secrets' = [secrets EXCEPT ![l].version = 1]
  /\ UNCHANGED <<travelling, late, papers, job, launches>>

-----
Proceed ==
  \/ Preflight \/ OpenJournal \/ SendCreate \/ LookCreated \/ NoteCreated \/ Prepare \/ Commit
  \/ Audit \/ ReadPapers \/ EnterRollback \/ DeleteNext \/ NoteDeleted \/ CloseJournal
  \/ RollbackReceipt \/ CheckUnused \/ TeardownReceipt
Operator == StartMaterialize \/ StartRecovery \/ StartTeardown
Disturb == Raise \/ Kill \/ ServeLate \/ Interfere
Next == (Proceed \/ Operator \/ Disturb) /\ UNCHANGED targets
=============================================================================
