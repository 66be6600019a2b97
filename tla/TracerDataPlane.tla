-------------------------- MODULE TracerDataPlane --------------------------
\* The Secrets of the tracer and the data plane that uses them: the
\* materialiser (TracerSecrets) and the live runner (TracerRunner) in one
\* cluster.  The wrapper starts one process and waits for its end, so two
\* processes never run at once, but they come in any order, and a request
\* or a reconciliation outlives the process that caused it.
EXTENDS Naturals, Sequences, FiniteSets

CONSTANTS SecretOrder, Workloads, Tenancy, Kustomization,
          MaxOperations, MaxActivations, MaxLaunches, MaxFaults, Absent

VARIABLES secrets, travelling, late, papers, job,
          objects, reconciling, requests, tardy, ledger, worker,
          launches, faults

R == INSTANCE TracerRunner
\* requiredAbsentTargets of the Secret teardown: every object of the runner.
S == INSTANCE TracerSecrets WITH targets <- {o \in R!Names : objects[o] # Absent}

ASSUME PlaneConstants ==
  /\ S!SecretsConstants /\ R!RunnerConstants
  /\ Absent \notin S!Identities \cup R!Objects

secretSide == <<secrets, travelling, late, papers, job>>
runnerSide == <<objects, reconciling, requests, tardy, ledger, worker>>
planeVars == <<secretSide, runnerSide, launches, faults>>

PlaneInit == S!Init /\ R!Init

OfSecrets == /\ S!Proceed \/ (S!Operator /\ R!At("idle")) \/ S!Disturb
             /\ UNCHANGED runnerSide
OfRunner == /\ R!Proceed \/ (R!Operator /\ S!At("idle")) \/ R!Disturb
            /\ UNCHANGED secretSide
PlaneNext == OfSecrets \/ OfRunner
PlaneSpec == PlaneInit /\ [][PlaneNext]_planeVars

-----
TypeOK ==
  /\ secrets \in [S!Labels -> S!Identities \cup {Absent}]
  /\ travelling \subseteq [label : S!Labels, nonce : S!Operations]
  /\ late \subseteq S!Operations
  /\ papers \in [S!Operations ->
       [journal : [status : {"none", "in-progress", "committed", "rolled-back"}, records : S!Records],
        receipt : [state : S!Terminal \cup {"none", "empty", "partial"}, records : S!Records],
        torn : BOOLEAN]]
  /\ job.records \in S!Records
  /\ objects \in [R!Names -> R!Objects \cup {Absent}]
  /\ reconciling \in BOOLEAN
  /\ requests \subseteq [does : {"create", "plain", "wake"}, name : R!Names, op : R!Activations]
  /\ tardy \subseteq R!Activations
  /\ \A n \in R!Activations :
       /\ ledger[n].receipt \in R!Terminal \cup {"none", "empty", "partial"}
       /\ ledger[n].journal.source \in 0 .. MaxOperations
       /\ \A o \in DOMAIN ledger[n].journal.records : ledger[n].journal.records[o] \in BOOLEAN
  /\ launches \in 0 .. MaxLaunches /\ faults \in 0 .. MaxFaults

\* An object of operation o, Secret or tracer object, that is in the cluster
\* is named by a journal that a recovery accepts, by a receipt that was cut
\* short beside such a journal, or by a receipt that says so.  No rolled-back,
\* recovered or torn-down operation has left anything.  This includes what the
\* reconciler writes while it outlives its Kustomization: the runner removes
\* the rights of the tenant before the workloads.  Nothing is said of an operation
\* of which the API server served a creation after the program had looked for it
\* (late, tardy), of none of its objects, nor of what the reconciler writes once
\* there is such an activation.
WhatIsLeftIsNamed ==
  /\ \A l \in S!Labels : (secrets[l] # Absent /\ secrets[l].nonce # S!Rival) =>
       LET n == secrets[l].nonce  paper == papers[n] IN
       \/ n \in late
       \/ paper.journal.status = "in-progress" /\ paper.receipt.state \in {"empty", "partial"}
       \/ paper.receipt.state = "materialized" /\ ~paper.torn
  /\ \A o \in R!Names : (objects[o] # Absent /\ objects[o].uid # R!Rival) =>
       LET n == objects[o].uid IN
       IF n = R!Flux THEN tardy # {}
       ELSE \/ n \in tardy
            \/ ledger[n].journal.status = "in-progress" /\ ledger[n].receipt \in {"empty", "partial"}
            \/ ledger[n].receipt = "activated"

\* As long as an object of an activation is in the cluster, so is every Secret
\* of the operation whose receipt the activation was bound to, under the same
\* nonce: no rollback, recovery or teardown takes a Secret from under a
\* workload, whatever order the programs run in.  Activations in tardy are
\* excepted.
SecretsUnderWorkloads ==
  \A o \in R!Names : (objects[o] # Absent /\ objects[o].uid \in R!Activations \ tardy) =>
    \A l \in S!Labels : /\ secrets[l] # Absent
                        /\ secrets[l].nonce = ledger[objects[o].uid].journal.source

\* A Secret or an object disappears only by the program that runs for the
\* operation that created it: while the receipt of that operation is still
\* empty, or, for a Secret, by a teardown of a materialized receipt.  What is
\* somebody else's, and what a committed receipt promises, stays.
DeletesAreLicensed ==
  [][/\ \A l \in S!Labels : (secrets[l] # Absent /\ secrets'[l] = Absent) =>
          LET n == secrets[l].nonce IN
          /\ n # S!Rival /\ n = job.op
          /\ papers[n].receipt.state = IF job.mode = "teardown" THEN "materialized" ELSE "empty"
     /\ \A o \in R!Names : (objects[o] # Absent /\ objects'[o] = Absent) =>
          LET n == objects[o].uid IN
          n \in R!Activations /\ n = worker.op /\ ledger[n].receipt = "empty"]_planeVars

\* When a success receipt is committed it is true: every Secret is live under
\* the nonce; every object is live, rid of the nonce, the Kustomization is
\* active, and the Secrets below are still those of the source receipt.
ReceiptsAreTrue ==
  [][/\ \A n \in S!Operations :
          papers[n].receipt.state # "materialized" /\ papers'[n].receipt.state = "materialized" =>
            \A l \in S!Labels : secrets[l] # Absent /\ secrets[l].nonce = n
     /\ \A n \in R!Activations :
          ledger[n].receipt # "activated" /\ ledger'[n].receipt = "activated" =>
            /\ \A o \in R!Names : objects[o] # Absent /\ objects[o].uid = n /\ ~objects[o].nonce
            /\ R!Active
            /\ \A l \in S!Labels : /\ secrets[l] # Absent
                                   /\ secrets[l].nonce = ledger[n].journal.source]_planeVars

\* An interrupted operation can be recovered from its journal alone: if its
\* receipt is empty and nothing but its own objects, unedited, is in the
\* cluster, then each of these is in the journal or still bears the nonce.
Recoverable ==
  /\ \A n \in S!Operations :
       LET journal == papers[n].journal IN
       (/\ journal.status = "in-progress" /\ papers[n].receipt.state = "empty"
        /\ \A l \in S!Labels : secrets[l] # Absent => secrets[l] = S!Record(n)) =>
          \A l \in DOMAIN journal.records : secrets[l] \in {Absent, journal.records[l]}
  /\ \A n \in R!Activations :
       LET journal == ledger[n].journal IN
       (journal.status = "in-progress" /\ ledger[n].receipt = "empty") =>
          \A o \in R!Names : (objects[o] # Absent /\ objects[o].uid = n) =>
             \/ o \in DOMAIN journal.records /\ (journal.records[o] => ~objects[o].nonce)
             \/ objects[o].nonce

\* Nothing that an operation made and of which no creation was served too late is
\* lost sight of: it is named where a person or a recovery will look.
LeftIsRecoverable == WhatIsLeftIsNamed /\ Recoverable

=============================================================================
