------------------------- MODULE EligibilityIssuer -------------------------
\* The materialiser of the eligibility issuer's Secret,
\* scripts/materialize-staging-participant-eligibility-issuer.py:
\* materialize_live and recover_from_journal.
\*
\* It creates one immutable Secret and never deletes anything: whatever
\* interrupts it leaves a journal, from which a recovery may only finish
\* what was begun.  An operation has one nonce, one journal and one
\* receipt; the nonce stands for the operation, so operations are
\* numbered.  The receipt is published by renaming a staged file over the
\* reserved one, which shows in its inode.
EXTENDS Naturals

CONSTANTS MaxOperations,  \* bound: operations started
          Absent          \* no object, no record

VARIABLES secret,    \* the live Secret or Absent
          travelling,\* operations whose create request was sent and not served yet
          journal,   \* [Operations -> the phase and the record on disk]
          receipt,   \* [Operations -> the receipt file and the record published in it]
          process,   \* the process; when idle, the exit code of the last one
          meddled    \* history: somebody else deleted or edited the Secret

Operations == 1 .. MaxOperations
Rival == 0                    \* the nonce of somebody else's Secret
Record(n) == [nonce |-> n, version |-> 0]
Records == [nonce : 0 .. MaxOperations, version : 0 .. 1] \cup {Absent}

Idle == [pc |-> "idle", op |-> 0, response |-> Absent, record |-> Absent, code |-> 0]
NoFile == [phase |-> "none", record |-> Absent]
NoReceipt == [state |-> "none", record |-> Absent]
Recoverable == {"create-attempting", "create-observed", "materialized-before-receipt-commit"}
Final == {"terminal-receipt-observed", "committed"}

IssuerConstants == MaxOperations \in Nat /\ Absent \notin [nonce : 0 .. MaxOperations, version : 0 .. 1]

Init == /\ secret = Absent /\ travelling = {}
        /\ journal = [n \in Operations |-> NoFile]
        /\ receipt = [n \in Operations |-> NoReceipt]
        /\ process = Idle /\ meddled = FALSE

-----
At(pc) == process.pc = pc
Goto(pc) == process' = [process EXCEPT !.pc = pc]
Exit(code) == process' = [Idle EXCEPT !.code = code]
Published(n) == receipt[n].state = "published"

\* write_journal: the file is replaced as a whole.  bind_journal refuses a
\* phase that does not fit the record.
Fits(phase, record) ==
  (record = Absent) <=> phase \in {"reserved-before-create", "create-attempting", "create-conflict"}
WriteJournal(phase, record) ==
  /\ Fits(phase, record)
  /\ journal' = [journal EXCEPT ![process.op] = [phase |-> phase, record |-> record]]

-----
Start(pc, n) == /\ At("idle")
                /\ process' = [Idle EXCEPT !.pc = pc, !.op = n]
                /\ UNCHANGED <<secret, travelling, journal, receipt, meddled>>

\* Both paths must be new: every materialisation has its own.
StartMaterialize(n) == journal[n] = NoFile /\ Start("dry-run", n)
StartRecovery(n) == receipt[n] # NoReceipt /\ Start("recover", n)

\* server_dry_run refuses a name that is taken; then the journal's path is
\* reserved by an empty file, which no recovery reads.
DryRun ==
  /\ At("dry-run")
  /\ IF secret = Absent
     THEN /\ journal' = [journal EXCEPT ![process.op].phase = "empty"]
          /\ Goto("reserve")
     ELSE Exit(2) /\ UNCHANGED journal
  /\ UNCHANGED <<secret, travelling, receipt, meddled>>

Reserve ==
  /\ At("reserve") /\ Goto("journal")
  /\ receipt' = [receipt EXCEPT ![process.op].state = "reserved"]
  /\ UNCHANGED <<secret, travelling, journal, meddled>>

\* new_journal, written before the cluster is looked at a second time.
OpenJournal ==
  /\ At("journal") /\ Goto("intent")
  /\ WriteJournal("reserved-before-create", Absent)
  /\ UNCHANGED <<secret, travelling, receipt, meddled>>

\* Mutant: the intent is written after the request.
IntendLater ==
  /\ At("intent") /\ Goto("create") /\ UNCHANGED journal
  /\ UNCHANGED <<secret, travelling, receipt, meddled>>

\* The intent is on disk before the request is sent.
Intend ==
  /\ At("intent") /\ Goto("create")
  /\ WriteJournal("create-attempting", Absent)
  /\ UNCHANGED <<secret, travelling, receipt, meddled>>

\* The one create request: served and answered, or refused because the name
\* is taken.
Create ==
  /\ At("create")
  /\ \/ /\ secret = Absent /\ secret' = Record(process.op)
        /\ process' = [process EXCEPT !.pc = "look", !.response = secret']
     \/ secret # Absent /\ Goto("conflict") /\ UNCHANGED secret
  /\ UNCHANGED <<travelling, journal, receipt, meddled>>

\* Nothing is answered: the request may be served at any time or never.
CreateUnanswered ==
  /\ At("create") /\ Goto("look")
  /\ travelling' = travelling \cup {process.op}
  /\ UNCHANGED <<secret, journal, receipt, meddled>>

\* partial_object_metadata_get: the live Secret bears this nonce and is what
\* the answer said, when there was one.  Otherwise the outcome is unresolved
\* and the journal stays as it is.
Look ==
  /\ At("look")
  /\ IF secret # Absent /\ secret.nonce = process.op /\ process.response \in {Absent, secret}
     THEN process' = [process EXCEPT !.pc = "observed", !.record = secret]
     ELSE Exit(2)
  /\ UNCHANGED <<secret, travelling, journal, receipt, meddled>>

\* ExistingObjectError: this operation created nothing, and never will.
NoteConflict ==
  /\ At("conflict") /\ Exit(2)
  /\ WriteJournal("create-conflict", Absent)
  /\ UNCHANGED <<secret, travelling, receipt, meddled>>

NoteObserved ==
  /\ At("observed") /\ Goto("prepare")
  /\ WriteJournal("create-observed", process.record)
  /\ UNCHANGED <<secret, travelling, receipt, meddled>>

Prepare ==
  /\ At("prepare") /\ Goto("publish")
  /\ WriteJournal("materialized-before-receipt-commit", process.record)
  /\ UNCHANGED <<secret, travelling, receipt, meddled>>

\* ReceiptSink.commit: the rename is the commit point.
Publish ==
  /\ At("publish")
  /\ receipt' = [receipt EXCEPT ![process.op] = [state |-> "published", record |-> process.record]]
  /\ Goto("committed")
  /\ UNCHANGED <<secret, travelling, journal, meddled>>

\* The rename happened, but the directory could not be synced.
PublishFails ==
  /\ At("publish")
  /\ receipt' = [receipt EXCEPT ![process.op] = [state |-> "published", record |-> process.record]]
  /\ Exit(2)
  /\ UNCHANGED <<secret, travelling, journal, meddled>>

NoteCommitted ==
  /\ At("committed") /\ Exit(0)
  /\ WriteJournal("committed", process.record)
  /\ UNCHANGED <<secret, travelling, receipt, meddled>>

-----
\* recover_from_journal: a journal that is empty, records a conflict or was
\* written before the intent is refused.  A receipt that was published ends
\* the matter; if it is still the reserved file, the cluster is asked.
ReadJournal ==
  /\ At("recover")
  /\ LET n == process.op IN
     IF journal[n].phase \notin Recoverable \cup Final
     THEN Exit(2) /\ UNCHANGED journal
     ELSE IF Published(n)
     THEN IF journal[n].record \in {Absent, receipt[n].record}
          THEN Exit(0) /\ WriteJournal("terminal-receipt-observed", receipt[n].record)
          ELSE Exit(2) /\ UNCHANGED journal
     ELSE Goto("adopt") /\ UNCHANGED journal
  /\ UNCHANGED <<secret, travelling, receipt, meddled>>

\* The live Secret must bear the nonce of the journal and be the one that the
\* journal recorded, if it recorded one.
Adopt ==
  /\ At("adopt")
  /\ LET n == process.op IN
     IF /\ secret # Absent /\ secret.nonce = n
        /\ journal[n].record \in {Absent, secret}
     THEN process' = [process EXCEPT !.pc = "observed", !.record = secret]
     ELSE Exit(2)
  /\ UNCHANGED <<secret, travelling, journal, receipt, meddled>>

-----
\* A call or a file fails, a signal arrives, or the process is killed: there
\* is no handler that does anything but end the process.
Stop == /\ ~At("idle") /\ Exit(2)
        /\ UNCHANGED <<secret, travelling, journal, receipt, meddled>>

\* The API server gets to a request whose sender no longer waits for it.
ServeLate ==
  \E n \in travelling :
    /\ travelling' = travelling \ {n}
    /\ secret' = IF secret = Absent THEN Record(n) ELSE secret
    /\ UNCHANGED <<journal, receipt, process, meddled>>

\* Somebody else takes the free name, edits the metadata of the Secret (its
\* data is immutable), or deletes it.
Interfere ==
  /\ \/ secret = Absent /\ secret' = Record(Rival) /\ UNCHANGED meddled
     \/ /\ secret # Absent /\ secret.version = 0
        /\ secret' = [secret EXCEPT !.version = 1] /\ meddled' = TRUE
     \/ secret # Absent /\ secret' = Absent /\ meddled' = TRUE
  /\ UNCHANGED <<travelling, journal, receipt, process>>

-----
Proceed ==
  \/ DryRun \/ Reserve \/ OpenJournal \/ Intend \/ Create \/ Look
  \/ NoteConflict \/ NoteObserved \/ Prepare \/ Publish \/ NoteCommitted
  \/ ReadJournal \/ Adopt
Fail == CreateUnanswered \/ PublishFails \/ Stop
=============================================================================
