------------------------- MODULE ParticipantSecrets -------------------------
\* The materialiser of the participant gateway's Secrets,
\* scripts/materialize-staging-participant-gateway-secrets.py: materialize
\* and teardown.
\*
\* There is no journal.  What the process created is known to its memory
\* alone until the receipt is committed; an exception leads to a rollback
\* of what the memory knows, and to a receipt that says how it went.  Each
\* Secret has a nonce of its own; it stands for the operation here, so
\* operations are numbered.
EXTENDS Naturals, Sequences

CONSTANTS CreateOrder,    \* the labels in CREATE_ORDER
          MaxOperations,  \* bound: operations started
          Absent          \* no object

VARIABLES secrets,    \* [Labels -> the live Secret or Absent]
          travelling, \* create requests that were sent and not served yet
          forgotten,  \* history: <<operation, label>> of creations cut off by an exception
          receipts,   \* [Operations -> the receipt of the materialisation]
          torn,       \* [Operations -> the receipt of the last teardown]
          job,        \* the process
          outcome,    \* its exit code
          inUse       \* requiredAbsentTargets now in the cluster (read only)

cluster == <<secrets, travelling, forgotten>>

Labels == {CreateOrder[i] : i \in DOMAIN CreateOrder}
Operations == 1 .. MaxOperations
Rival == 0                    \* the nonce of somebody else's Secret
Record(n) == [nonce |-> n, version |-> 0]
Identities == [nonce : 0 .. MaxOperations, version : 0 .. 1]
Records == [Labels -> Identities \cup {Absent}]  \* Absent: nothing is recorded
NoRecord == [l \in Labels |-> Absent]

Idle == [pc |-> "idle", mode |-> "none", op |-> 0, created |-> NoRecord,
         todo |-> {}, clean |-> TRUE]
NoReceipt == [status |-> "none", secrets |-> NoRecord]

SecretConstants ==
  /\ CreateOrder \in Seq(STRING) /\ CreateOrder # <<>>
  /\ \A i, j \in DOMAIN CreateOrder : CreateOrder[i] = CreateOrder[j] => i = j
  /\ MaxOperations \in Nat /\ Absent \notin Identities

Init == /\ secrets = [l \in Labels |-> Absent]
        /\ travelling = {} /\ forgotten = {}
        /\ receipts = [n \in Operations |-> NoReceipt]
        /\ torn = [n \in Operations |-> "none"]
        /\ job = Idle /\ outcome = Absent

-----
At(pc) == job.pc = pc
Goto(pc) == job' = [job EXCEPT !.pc = pc]
Exit(code) == job' = Idle /\ outcome' = code

Lives(n, l) == secrets[l] # Absent /\ secrets[l].nonce = n
Remains(n) == \E l \in Labels : Lives(n, l)

\* The label at hand: creation follows CREATE_ORDER, deletion DELETE_ORDER.
Before(k, l) == \E i, j \in DOMAIN CreateOrder :
                  i < j /\ CreateOrder[i] = k /\ CreateOrder[j] = l
First == {l \in job.todo : ~\E k \in job.todo : Before(k, l)}
Last == {l \in job.todo : ~\E k \in job.todo : Before(l, k)}

\* The rollback deletes what the memory knows.
Known == {l \in Labels : job.created[l] # Absent}
Rollback(unresolved) ==
  job' = [job EXCEPT !.pc = IF Known = {} THEN "settle" ELSE "delete",
                     !.todo = Known, !.clean = ~unresolved]

\* The memory knows now what the cluster holds under a label.
Learn(l) == job' = [job EXCEPT !.pc = "confirm", !.created[l] = secrets'[l]]

-----
\* The receipt is reserved before anything else is done.
StartMaterialize(n) ==
  /\ At("idle") /\ receipts[n] = NoReceipt
  /\ receipts' = [receipts EXCEPT ![n].status = "empty"]
  /\ job' = [Idle EXCEPT !.pc = "preflight", !.mode = "materialize", !.op = n]
  /\ outcome' = Absent /\ UNCHANGED <<cluster, torn>>

StartTeardown(n) ==
  /\ At("idle") /\ receipts[n].status = "materialized" /\ torn[n] # "torn-down"
  /\ torn' = [torn EXCEPT ![n] = "empty"]
  /\ job' = [Idle EXCEPT !.pc = "check", !.mode = "teardown", !.op = n]
  /\ outcome' = Absent /\ UNCHANGED <<cluster, receipts>>

Preflight ==
  /\ At("preflight")
  /\ IF \A l \in Labels : secrets[l] = Absent
     THEN job' = [job EXCEPT !.pc = "create", !.todo = Labels]
     ELSE Rollback(FALSE)
  /\ UNCHANGED <<cluster, receipts, torn, outcome>>

\* create_secret: the request is served and answered, or refused because the
\* name is taken (a plain error).
Create ==
  /\ At("create")
  /\ \E l \in First :
     \/ /\ secrets[l] = Absent
        /\ secrets' = [secrets EXCEPT ![l] = Record(job.op)] /\ Learn(l)
     \/ secrets[l] # Absent /\ Rollback(FALSE) /\ UNCHANGED secrets
  /\ UNCHANGED <<travelling, forgotten, receipts, torn, outcome>>

\* Nothing usable is answered: the request may be served at any time or never.
CreateUnanswered ==
  /\ At("create") /\ Goto("look")
  /\ travelling' = travelling \cup ({job.op} \X First)
  /\ UNCHANGED <<secrets, forgotten, receipts, torn, outcome>>

\* The Secret is looked for once: if it is not live under the nonce, the
\* outcome of the creation is unresolved (PostSendUncertainError).
Look ==
  /\ At("look")
  /\ UNCHANGED <<cluster, receipts, torn, outcome>>
  /\ \E l \in First : IF Lives(job.op, l) THEN Learn(l) ELSE Rollback(TRUE)

Confirm ==
  /\ At("confirm")
  /\ \E l \in First :
     IF secrets[l] = job.created[l]
     THEN job' = [job EXCEPT !.todo = @ \ {l},
                    !.pc = IF job.todo = {l} THEN "commit" ELSE "create"]
     ELSE Rollback(FALSE)
  /\ UNCHANGED <<cluster, receipts, torn, outcome>>

\* ReceiptSink.commit: the file is replaced.
Written(n, status) ==
  receipts' = [receipts EXCEPT ![n] = [status |-> status, secrets |-> job.created]]

Commit ==
  /\ At("commit")
  /\ Written(job.op, "materialized") /\ Exit(0)
  /\ UNCHANGED <<cluster, torn>>

\* The commit raises, before or after the file was replaced.
CommitFails ==
  /\ At("commit")
  /\ Written(job.op, "materialized") \/ UNCHANGED receipts
  /\ Rollback(FALSE)
  /\ UNCHANGED <<cluster, torn, outcome>>

-----
\* What delete_owned_secret compares, and the preconditions of its request:
\* the record of the rollback's memory, or of the teardown's source receipt.
Ownership == IF job.mode = "teardown" THEN receipts[job.op].secrets ELSE job.created

Crossed(l, clean) ==
  job' = [job EXCEPT !.todo = @ \ {l}, !.clean = clean /\ @,
            !.pc = IF job.mode = "teardown" /\ ~clean THEN "incomplete"
                   ELSE IF job.todo # {l} THEN "delete"
                   ELSE IF job.mode = "teardown" THEN "recheck" ELSE "settle"]

\* A Secret that is not the recorded one stays, and is an error.
Delete ==
  /\ At("delete")
  /\ \E l \in Last :
     \/ secrets[l] = Absent /\ UNCHANGED secrets /\ Crossed(l, TRUE)
     \/ /\ secrets[l] = Ownership[l]
        /\ secrets' = [secrets EXCEPT ![l] = Absent] /\ Crossed(l, TRUE)
     \/ secrets[l] \notin {Absent, Ownership[l]} /\ UNCHANGED secrets /\ Crossed(l, FALSE)
  /\ UNCHANGED <<travelling, forgotten, receipts, torn, outcome>>

\* The request or one of the reads around it fails; the request may have been
\* served.
DeleteFails ==
  /\ At("delete")
  /\ \E l \in Last :
     /\ Crossed(l, FALSE)
     /\ \/ secrets[l] = Ownership[l] /\ secrets' = [secrets EXCEPT ![l] = Absent]
        \/ UNCHANGED secrets
  /\ UNCHANGED <<travelling, forgotten, receipts, torn, outcome>>

\* The failure receipt.
Settle ==
  /\ At("settle")
  /\ Written(job.op, IF job.clean THEN "rolled-back" ELSE "rollback-incomplete")
  /\ Exit(2) /\ UNCHANGED <<cluster, torn>>

SettleFails ==
  /\ job.pc \in {"settle", "incomplete"} /\ Exit(2) /\ UNCHANGED <<cluster, receipts, torn>>

-----
\* Mutant: nobody asks what uses the Secrets.
CheckNothing ==
  /\ At("check")
  /\ job' = [job EXCEPT !.pc = "delete", !.todo = Labels]
  /\ UNCHANGED <<cluster, receipts, torn, outcome>>

\* require_deactivated, before the first deletion and after the last.
CheckUnused ==
  /\ At("check")
  /\ job' = IF inUse = {} THEN [job EXCEPT !.pc = "delete", !.todo = Labels]
            ELSE [job EXCEPT !.pc = "incomplete"]
  /\ UNCHANGED <<cluster, receipts, torn, outcome>>

Recheck ==
  /\ At("recheck") /\ Goto(IF inUse = {} THEN "torn" ELSE "incomplete")
  /\ UNCHANGED <<cluster, receipts, torn, outcome>>

\* The commit raises, before or after the file was replaced.
TornDownFails ==
  /\ At("torn") /\ Goto("incomplete")
  /\ torn' = [torn EXCEPT ![job.op] = "torn-down"] \/ UNCHANGED torn
  /\ UNCHANGED <<cluster, receipts, outcome>>

TornDown ==
  /\ At("torn") /\ torn' = [torn EXCEPT ![job.op] = "torn-down"] /\ Exit(0)
  /\ UNCHANGED <<cluster, receipts>>

Incomplete ==
  /\ At("incomplete") /\ Exit(2)
  /\ torn' = [torn EXCEPT ![job.op] = "teardown-incomplete"]
  /\ UNCHANGED <<cluster, receipts>>

-----
\* A read fails, or a signal arrives before signals are deferred.  A creation
\* in progress is then neither in the memory nor noted as unresolved.
Raise ==
  /\ \/ /\ job.pc \in {"preflight", "create", "look", "confirm"} /\ Rollback(FALSE)
        /\ forgotten' = IF At("look") THEN forgotten \cup ({job.op} \X First) ELSE forgotten
     \/ job.pc \in {"check", "delete", "recheck"} /\ job.mode = "teardown"
        /\ Goto("incomplete") /\ UNCHANGED forgotten
  /\ UNCHANGED <<secrets, travelling, receipts, torn, outcome>>

\* A signal arrives while the request is served and its answer read.
RaiseCreating ==
  /\ At("create") /\ Rollback(FALSE)
  /\ \E l \in First :
     /\ secrets[l] = Absent /\ secrets' = [secrets EXCEPT ![l] = Record(job.op)]
     /\ forgotten' = forgotten \cup {<<job.op, l>>}
  /\ UNCHANGED <<travelling, receipts, torn, outcome>>

\* SIGKILL, or the host is lost: nothing is rolled back.
Kill == /\ ~At("idle") /\ Exit(137) /\ UNCHANGED <<cluster, receipts, torn>>

\* The API server gets to a request whose sender no longer waits for it.
ServeLate ==
  \E r \in travelling :
    /\ travelling' = travelling \ {r}
    /\ IF secrets[r[2]] = Absent
       THEN secrets' = [secrets EXCEPT ![r[2]] = Record(r[1])]
       ELSE UNCHANGED secrets
    /\ UNCHANGED <<forgotten, receipts, torn, job, outcome>>

\* Somebody else takes a free name, or edits a Secret.
Interfere ==
  /\ \E l \in Labels :
       \/ secrets[l] = Absent /\ secrets' = [secrets EXCEPT ![l] = Record(Rival)]
       \/ /\ secrets[l] # Absent /\ secrets[l].version = 0
          /\ secrets' = [secrets EXCEPT ![l].version = 1]
  /\ UNCHANGED <<travelling, forgotten, receipts, torn, job, outcome>>

Proceed == \/ Preflight \/ Create \/ Look \/ Confirm \/ Commit
           \/ Delete \/ Settle \/ CheckUnused \/ Recheck \/ TornDown \/ Incomplete
Fail == CreateUnanswered \/ CommitFails \/ DeleteFails \/ SettleFails \/ TornDownFails
=============================================================================
