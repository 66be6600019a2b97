--------------------------- MODULE LiveChainProofs ---------------------------
\* Theorems about LiveChain: the journal of the eligibility issuer and its
\* receipt are right, Secrets stay under the gateway and are deleted only
\* by who owns them, and the receipt of the wrapper is true.
\*
\* The invariant has three parts, one for each program and one for the
\* wrapper.  A step of Next is a step of at most one of the two programs
\* (StepOfIssuer, StepOfParticipant), so their parts are proved from their
\* own actions.
EXTENDS LiveChain, TLAPS

-----
\* The eligibility issuer

IssuerSteps == {"idle", "dry-run", "reserve", "journal", "intent", "create", "conflict",
                "look", "observed", "prepare", "publish", "committed", "recover", "adopt"}
\* Phases of a journal whose operation has not sent its request, or was refused.
Barren == {"none", "empty", "reserved-before-create", "create-conflict"}
\* Phases of a journal that records the Secret.
Recording == {"create-observed", "materialized-before-receipt-commit"} \cup I!Final

IssuerTypes ==
  /\ secret \in I!Records /\ asked \subseteq I!Operations
  /\ journal \in [I!Operations -> [phase : Barren \cup I!Recoverable \cup I!Final,
                                   record : I!Records]]
  /\ receipt \in [I!Operations -> [state : {"none", "reserved", "published"},
                                   record : I!Records]]
  /\ process \in [pc : IssuerSteps, op : 0 .. MaxOperations, response : I!Records,
                  record : I!Records, code : {0, 2}]
  /\ meddled \in BOOLEAN

\* The Secret of operation n is live, or may still come to be.
Made(n) == n \in asked \/ (secret # Absent /\ secret.nonce = n)

\* What somebody read of the live Secret of operation n.
Seen(n, record) == /\ record # Absent /\ record.nonce = n
                   /\ ~meddled => record = secret

IssuerFile(n) ==
  /\ journal[n].phase \in Barren => ~Made(n)
  /\ IF journal[n].phase \in Recording THEN Seen(n, journal[n].record)
     ELSE journal[n].record = Absent
  /\ journal[n].phase \in I!Final => I!Published(n) /\ journal[n].record = receipt[n].record
  /\ IF I!Published(n) THEN journal[n].phase \notin Barren /\ Seen(n, receipt[n].record)
     ELSE receipt[n].record = Absent
  /\ receipt[n].state # "none" => journal[n].phase # "none"

IssuerFiles == \A n \in I!Operations : IssuerFile(n)

\* The journal's phase at each step of the process.
PhasesAt(pc) ==
  CASE pc = "dry-run" -> {"none"}
    [] pc \in {"reserve", "journal"} -> {"empty"}
    [] pc = "intent" -> {"reserved-before-create"}
    [] pc \in {"create", "conflict", "look"} -> {"create-attempting"}
    [] pc = "prepare" -> {"create-observed"}
    [] pc \in {"publish", "committed"} -> {"materialized-before-receipt-commit"}
    [] pc \in {"observed", "adopt"} -> I!Recoverable
    [] OTHER -> Barren \cup I!Recoverable \cup I!Final

IssuerWork ==
  ~I!At("idle") =>
    /\ process.op \in I!Operations
    /\ journal[process.op].phase \in PhasesAt(process.pc)
    /\ process.pc \in {"create", "conflict"} => ~Made(process.op)
    /\ process.pc \in {"observed", "prepare", "publish", "committed"}
         => Seen(process.op, process.record)
    /\ IF process.pc = "committed"
       THEN I!Published(process.op) /\ receipt[process.op].record = process.record
       ELSE process.pc # "recover" => ~I!Published(process.op)

IssuerInv == IssuerTypes /\ IssuerFiles /\ IssuerWork

-----
\* The gateway's Secrets

JobSteps == {"idle", "preflight", "create", "look", "confirm", "commit", "delete", "settle",
             "check", "recheck", "torn", "incomplete"}
Statuses == {"none", "empty", "materialized", "rolled-back", "rollback-incomplete"}

SecretTypes ==
  /\ secrets \in P!Records
  /\ travelling \subseteq P!Operations \X P!Labels
  /\ forgotten \subseteq P!Operations \X P!Labels
  /\ receipts \in [P!Operations -> [status : Statuses, secrets : P!Records]]
  /\ torn \in [P!Operations -> {"none", "empty", "torn-down", "teardown-incomplete"}]
  /\ job \in [pc : JobSteps, mode : {"none", "materialize", "teardown"},
              op : 0 .. MaxOperations, created : P!Records, todo : SUBSET P!Labels,
              clean : BOOLEAN]

Unborn(n, l) == ~P!Lives(n, l) /\ <<n, l>> \notin travelling
Gone(n, l) == <<n, l>> \in forgotten \/ Unborn(n, l)
\* A record of Secrets of operation n, for which no request is under way.
Own(n, record) == \A l \in P!Labels :
                    record[l] # Absent => record[l].nonce = n /\ <<n, l>> \notin travelling

\* A request is under way only until it is served.
ServedOnce == \A r \in travelling : ~P!Lives(r[1], r[2])

SecretFile(n) ==
  /\ receipts[n].status = "none" => receipts[n] = P!NoReceipt /\ \A l \in P!Labels : Unborn(n, l)
  /\ receipts[n].status = "materialized" =>
       Own(n, receipts[n].secrets) /\ \A l \in P!Labels : <<n, l>> \notin travelling
  /\ receipts[n].status = "rolled-back" => \A l \in P!Labels : Gone(n, l)
  /\ torn[n] # "none" => receipts[n].status = "materialized"
  /\ torn[n] = "torn-down" => ~P!Remains(n)

SecretFiles == \A n \in P!Operations : SecretFile(n)

\* A label that the process has not come to.
Open(l) == Unborn(job.op, l) /\ job.created[l] = Absent

Materializing ==
  /\ job.pc \in {"preflight", "create", "look", "confirm", "commit", "delete", "settle"}
  /\ receipts[job.op].status \in {"empty", "materialized"} /\ torn[job.op] = "none"
  /\ job.pc \in {"preflight", "create", "look", "confirm"} => receipts[job.op].status = "empty"
  /\ Own(job.op, job.created)
  /\ job.pc = "preflight" => \A l \in P!Labels : Open(l)
  /\ job.pc \in {"create", "look", "confirm", "commit"} =>
       \A l \in P!Labels \ job.todo : job.created[l] # Absent
  /\ job.pc = "create" => \A l \in job.todo : Open(l)
  /\ job.pc = "look" => /\ \A l \in job.todo \ P!First : Open(l)
                        /\ \A l \in P!First : job.created[l] = Absent
  /\ job.pc = "confirm" => /\ \A l \in job.todo \ P!First : Open(l)
                           /\ \A l \in P!First : job.created[l] # Absent
  /\ job.pc = "commit" => job.todo = {}
  /\ job.pc = "delete" => \A l \in job.todo : job.created[l] # Absent
  /\ job.pc = "delete" /\ job.clean => \A l \in P!Labels \ job.todo : Gone(job.op, l)
  /\ job.pc = "settle" /\ job.clean => \A l \in P!Labels : Gone(job.op, l)

TearingDown ==
  /\ job.pc \in {"check", "delete", "recheck", "torn", "incomplete"}
  /\ receipts[job.op].status = "materialized" /\ torn[job.op] # "none"
  /\ job.pc = "delete" => \A l \in P!Labels \ job.todo : ~P!Lives(job.op, l)
  /\ job.pc \in {"recheck", "torn"} => ~P!Remains(job.op)

JobWork ==
  /\ P!At("idle") => job = P!Idle
  /\ ~P!At("idle") =>
       /\ job.op \in P!Operations /\ job.mode # "none"
       /\ job.mode = "materialize" => Materializing
       /\ job.mode = "teardown" => TearingDown

\* Over a gateway, the Secrets are there and nobody is about to delete one.
Covered ==
  gateway # "absent" =>
    /\ \A l \in P!Labels : secrets[l] # Absent
    /\ job.mode = "materialize" =>
         job.pc \in {"preflight", "settle"} /\ job.created = P!NoRecord
    /\ job.mode = "teardown" => job.pc \in {"check", "incomplete"}

SecretInv == SecretTypes /\ ServedOnce /\ SecretFiles /\ JobWork /\ Covered

-----
\* The wrapper

\* Before the first program of the chain has changed anything of Flux.
Early == {"prepare", "materialize", "materializing", "unmake", "unmaking", "issue", "issuing",
          "boot", "unboot"}
Midway == {"recover", "decide", "undo", "activate"}
Late == {"closing", "commit"}
Facts == [dormant : {"absent", "part", "ready", "active"}, gateway : {"absent", "part", "active"}]

Memory ==
  [at : {"idle"} \cup Early \cup Midway \cup Late, mode : Modes \cup {"none"},
   op : 0 .. MaxOperations, transport : BOOLEAN, signalled : BOOLEAN, stopping : BOOLEAN,
   base : Bases, booted : BOOLEAN, secreted : BOOLEAN, torndown : BOOLEAN, undone : BOOLEAN,
   activated : BOOLEAN, succeeded : BOOLEAN, tidy : BOOLEAN, found : Facts, blind : BOOLEAN]

WrapperTypes ==
  /\ dormant \in {"absent", "part", "ready", "active"}
  /\ gateway \in {"absent", "part", "active"}
  /\ boot \in {"none", "historical", "dormant-ready", "rolled-back", "rollback-incomplete", "empty"}
  /\ w \in Memory
  /\ evidence \in [status : Bases \cup {"none"}, clean : BOOLEAN, exit : {0, 2, 3},
                   dormantNext : BOOLEAN, secretNext : BOOLEAN, mode : Modes \cup {"none"},
                   op : 0 .. MaxOperations, found : Facts, blind : BOOLEAN]

\* Which program runs at which point of the chain, and about what.
Chained ==
  /\ ~At("idle") =>
       /\ w.mode \in Modes /\ evidence = NoEvidence
       /\ w.mode # "teardown-dormant" => w.op \in P!Operations
       /\ w.at \in {"materialize", "materializing"} => w.mode = "fresh"
       /\ w.at \in {"unmake", "unmaking"} => w.mode = "teardown-secrets"
       /\ w.at \in {"issue", "issuing"} => w.mode \in {"issuer-materialize", "issuer-recover"}
       /\ w.at = "unboot" => w.mode = "teardown-dormant"
       /\ w.stopping => w.blind
  /\ ~P!At("idle") => /\ w.op = job.op
                      /\ \/ At("materializing") /\ job.mode = "materialize"
                         \/ At("unmaking") /\ job.mode = "teardown"
  /\ ~I!At("idle") => At("issuing")

Plain == /\ ~w.activated /\ ~w.succeeded /\ ~w.torndown /\ ~w.undone
         /\ w.base = "blocked"

\* What was made of Flux is, at the end, in the continuation.
Traced(indeterminate) ==
  \/ w.mode = "continue" /\ ~w.activated
  \/ w.base \in {"dormant-ready", "dormant-cleanup-required", "bootstrap-state-indeterminate"}
  \/ indeterminate /\ w.booted /\ ~w.activated /\ ~w.torndown /\ w.base = "blocked"

FluxTraced ==
  /\ w.at \in Early => Plain /\ dormant = w.found.dormant /\ gateway = w.found.gateway
  /\ w.at = "recover" => /\ Plain /\ gateway = w.found.gateway
                         /\ \/ dormant = w.found.dormant
                            \/ dormant = "part" /\ boot = "rollback-incomplete"
                            \/ dormant = "absent"
  /\ w.at \in {"decide", "undo", "activate"} =>
       /\ Plain /\ gateway = w.found.gateway
       /\ w.booted \/ (At("decide") /\ dormant = w.found.dormant)
  /\ w.at \in Late /\ w.base # "activated" =>
       /\ dormant # "absent" /\ w.found.dormant = "absent" /\ ~w.blind =>
            Traced(At("closing")) \/ boot = "rollback-incomplete"
       /\ gateway # "absent" /\ w.found.gateway = "absent" => Traced(At("closing"))
       /\ ~w.activated

Achieved(base, op) ==
  \/ base = "activated" /\ gateway = "active" /\ dormant = "active"
  \/ base = "dormant-torn-down" /\ dormant = "absent"
  \/ base = "participant-secrets-torn-down" /\ op \in P!Operations /\ torn[op] = "torn-down"
  \/ /\ base \in {"eligibility-issuer-materialized", "eligibility-issuer-recovered"}
     /\ op \in I!Operations /\ I!Published(op)

\* What was made of the Secrets is known to the receipts.
SecretsTraced ==
  /\ w.mode = "fresh" /\ w.at \in {"prepare", "materialize"} => receipts[w.op].status = "none"
  /\ w.mode = "fresh" /\ w.at \in Late \cup Midway \cup {"boot"} /\ ~w.blind =>
       w.secreted \/ receipts[w.op].status # "materialized"
  /\ w.mode = "fresh" => ~w.undone

Outcome == w.succeeded => w.at \in Late /\ Achieved(w.base, w.op)

\* The evidence of the last launch.
Told ==
  Committed =>
    /\ evidence.exit = 0 => Achieved(evidence.status, evidence.op)
    /\ evidence.status # "activated" =>
         /\ dormant # "absent" /\ evidence.found.dormant = "absent" /\ ~evidence.blind
              => evidence.dormantNext \/ boot = "rollback-incomplete"
         /\ gateway # "absent" /\ evidence.found.gateway = "absent" => evidence.dormantNext
    /\ evidence.mode = "fresh" /\ evidence.status # "activated" /\ ~evidence.blind =>
         /\ evidence.op \in P!Operations
         /\ evidence.secretNext \/ receipts[evidence.op].status # "materialized"

WrapperInv == WrapperTypes /\ Chained /\ FluxTraced /\ SecretsTraced /\ Outcome /\ Told

ChainInv == IssuerInv /\ SecretInv /\ WrapperInv
-----
\* The eligibility issuer: every action of its process and its cluster

\* No object is mistaken for one, and nobody else has the number of an operation.
LEMMA IssuerRecords ==
  /\ MaxOperations \in Nat
  /\ Absent \notin [nonce : 0 .. MaxOperations, version : 0 .. 1]
  /\ I!Operations = 1 .. MaxOperations /\ P!Operations = I!Operations
  /\ \A n \in I!Operations : I!Record(n) \in I!Records /\ I!Record(n) # Absent
                              /\ I!Record(n).nonce = n
  /\ I!Record(I!Rival) \in I!Records /\ I!Record(I!Rival) # Absent
  /\ I!Record(I!Rival).nonce \notin I!Operations
BY ChainConstants DEF ChainConstants, I!IssuerConstants, I!Operations, P!Operations, I!Record,
   I!Records, I!Rival

LEMMA IssuerDryRun ==
  ASSUME IssuerInv, I!DryRun
  PROVE  IssuerInv'
<1> USE IssuerRecords DEF IssuerInv, I!At, I!Goto, I!Idle
<1>1. IssuerTypes'
  BY SMTT(120) DEF I!DryRun, I!Exit, IssuerTypes, IssuerWork, IssuerSteps, Barren, I!Recoverable, I!Final, I!Records
<1>2. IssuerFiles'
  BY DEF I!DryRun, I!Exit, IssuerTypes, IssuerFiles, IssuerFile, IssuerWork, Made, Seen, Barren, Recording,
     I!Recoverable, I!Final, I!Published, PhasesAt
<1>3. IssuerWork'
  BY DEF I!DryRun, I!Exit, IssuerTypes, IssuerFiles, IssuerFile, IssuerWork, Made, Seen, Barren, Recording,
     I!Recoverable, I!Final, I!Published, PhasesAt
<1>4. QED BY <1>1, <1>2, <1>3

LEMMA IssuerReserve ==
  ASSUME IssuerInv, I!Reserve
  PROVE  IssuerInv'
<1> USE IssuerRecords DEF IssuerInv, I!At, I!Goto, I!Idle
<1>1. IssuerTypes'
  BY DEF I!Reserve, IssuerTypes, IssuerWork, IssuerSteps, Barren, I!Recoverable, I!Final, I!Records
<1>2. IssuerFiles'
  BY DEF I!Reserve, IssuerTypes, IssuerFiles, IssuerFile, IssuerWork, Made, Seen, Barren, Recording,
     I!Recoverable, I!Final, I!Published, PhasesAt
<1>3. IssuerWork'
  BY DEF I!Reserve, IssuerTypes, IssuerFiles, IssuerFile, IssuerWork, Made, Seen, Barren, Recording,
     I!Recoverable, I!Final, I!Published, PhasesAt
<1>4. QED BY <1>1, <1>2, <1>3

LEMMA IssuerOpenJournal ==
  ASSUME IssuerInv, I!OpenJournal
  PROVE  IssuerInv'
<1> USE IssuerRecords DEF IssuerInv, I!At, I!Goto, I!Idle
<1>1. IssuerTypes'
  BY DEF I!OpenJournal, I!WriteJournal, I!Fits, IssuerTypes, IssuerWork, IssuerSteps, Barren, I!Recoverable, I!Final, I!Records
<1>2. IssuerFiles'
  BY DEF I!OpenJournal, I!WriteJournal, I!Fits, IssuerTypes, IssuerFiles, IssuerFile, IssuerWork, Made, Seen, Barren, Recording,
     I!Recoverable, I!Final, I!Published, PhasesAt
<1>3. IssuerWork'
  BY DEF I!OpenJournal, I!WriteJournal, I!Fits, IssuerTypes, IssuerFiles, IssuerFile, IssuerWork, Made, Seen, Barren, Recording,
     I!Recoverable, I!Final, I!Published, PhasesAt
<1>4. QED BY <1>1, <1>2, <1>3

LEMMA IssuerIntend ==
  ASSUME IssuerInv, I!Intend
  PROVE  IssuerInv'
<1> USE IssuerRecords DEF IssuerInv, I!At, I!Goto, I!Idle
<1>1. IssuerTypes'
  BY DEF I!Intend, I!WriteJournal, I!Fits, IssuerTypes, IssuerWork, IssuerSteps, Barren, I!Recoverable, I!Final, I!Records
<1>2. IssuerFiles'
  BY DEF I!Intend, I!WriteJournal, I!Fits, IssuerTypes, IssuerFiles, IssuerFile, IssuerWork, Made, Seen, Barren, Recording,
     I!Recoverable, I!Final, I!Published, PhasesAt
<1>3. IssuerWork'
  BY DEF I!Intend, I!WriteJournal, I!Fits, IssuerTypes, IssuerFiles, IssuerFile, IssuerWork, Made, Seen, Barren, Recording,
     I!Recoverable, I!Final, I!Published, PhasesAt
<1>4. QED BY <1>1, <1>2, <1>3

LEMMA IssuerCreate ==
  ASSUME IssuerInv, I!Create
  PROVE  IssuerInv'
<1> USE IssuerRecords DEF IssuerInv, I!At, I!Goto, I!Idle
<1> USE DEF I!Create
<1>1. /\ process.op \in I!Operations /\ process.pc = "create" /\ process.op \in 0 .. MaxOperations
      /\ journal[process.op].phase = "create-attempting" /\ ~Made(process.op)
      /\ ~I!Published(process.op)
  BY DEF IssuerTypes, IssuerWork, IssuerSteps, Barren, I!Recoverable, I!Final, I!Records, PhasesAt
<1>2. CASE secret = Absent
  <2>1. /\ secret' = I!Record(process.op) /\ secret' \in I!Records
        /\ process' = [process EXCEPT !.pc = "look", !.response = secret']
    BY <1>1, <1>2
  <2>2. IssuerTypes'
    BY <2>1 DEF IssuerTypes, IssuerSteps
  <2>3. IssuerFiles'
    BY <1>1, <1>2, <2>1 DEF IssuerTypes, IssuerFiles, IssuerFile, IssuerWork, Made, Seen, Barren, Recording,
     I!Recoverable, I!Final, I!Published, PhasesAt
  <2>4. IssuerWork'
    BY <1>1, <1>2, <2>1, <2>2 DEF IssuerTypes, IssuerWork, Made, I!Published, PhasesAt
  <2>5. QED BY <2>2, <2>3, <2>4
<1>3. CASE secret # Absent
  <2>1. process' = [process EXCEPT !.pc = "conflict"] /\ secret' = secret
    BY <1>3
  <2>2. IssuerTypes'
    BY <2>1 DEF IssuerTypes, IssuerSteps
  <2>3. IssuerFiles'
    BY <1>1, <2>1 DEF IssuerTypes, IssuerFiles, IssuerFile, IssuerWork, Made, Seen, Barren, Recording,
     I!Recoverable, I!Final, I!Published, PhasesAt
  <2>4. IssuerWork'
    BY <1>1, <2>1, <2>2 DEF IssuerTypes, IssuerWork, Made, I!Published, PhasesAt
  <2>5. QED BY <2>2, <2>3, <2>4
<1>4. QED BY <1>2, <1>3

LEMMA IssuerCreateUnanswered ==
  ASSUME IssuerInv, I!CreateUnanswered
  PROVE  IssuerInv'
<1> USE IssuerRecords DEF IssuerInv, I!At, I!Goto, I!Idle
<1>1. IssuerTypes'
  BY DEF I!CreateUnanswered, IssuerTypes, IssuerWork, IssuerSteps, Barren, I!Recoverable, I!Final, I!Records
<1>2. IssuerFiles'
  BY DEF I!CreateUnanswered, IssuerTypes, IssuerFiles, IssuerFile, IssuerWork, Made, Seen, Barren, Recording,
     I!Recoverable, I!Final, I!Published, PhasesAt
<1>3. IssuerWork'
  BY DEF I!CreateUnanswered, IssuerTypes, IssuerFiles, IssuerFile, IssuerWork, Made, Seen, Barren, Recording,
     I!Recoverable, I!Final, I!Published, PhasesAt
<1>4. QED BY <1>1, <1>2, <1>3

LEMMA IssuerLook ==
  ASSUME IssuerInv, I!Look
  PROVE  IssuerInv'
<1> USE IssuerRecords DEF IssuerInv, I!At, I!Goto, I!Idle
<1> USE DEF I!Look, I!Exit
<1>1. /\ process.op \in I!Operations /\ process.op \in 0 .. MaxOperations
      /\ journal[process.op].phase \in I!Recoverable /\ ~I!Published(process.op)
  BY DEF IssuerTypes, IssuerWork, IssuerSteps, Barren, I!Recoverable, I!Final, I!Records, PhasesAt
<1>2. CASE secret # Absent /\ secret.nonce = process.op /\ process.response \in {Absent, secret}
  <2>1. process' = [process EXCEPT !.pc = "observed", !.record = secret]
    BY <1>2
  <2>2. IssuerTypes'
    BY <2>1 DEF IssuerTypes, IssuerSteps
  <2>3. IssuerFiles'
    BY <1>1, <2>1 DEF IssuerTypes, IssuerFiles, IssuerFile, IssuerWork, Made, Seen, Barren, Recording,
     I!Recoverable, I!Final, I!Published, PhasesAt
  <2>4. IssuerWork'
    BY <1>1, <1>2, <2>1, <2>2 DEF IssuerTypes, IssuerWork, Seen, I!Published, PhasesAt
  <2>5. QED BY <2>2, <2>3, <2>4
<1>3. CASE ~(secret # Absent /\ secret.nonce = process.op /\ process.response \in {Absent, secret})
  <2>1. process' = [I!Idle EXCEPT !.code = 2]
    BY <1>3
  <2>2. IssuerTypes'
    BY <2>1 DEF IssuerTypes, IssuerSteps, I!Records
  <2>5. IssuerWork'
    BY <2>1 DEF IssuerWork
  <2>3. IssuerFiles'
    BY <1>1, <2>1 DEF IssuerTypes, IssuerFiles, IssuerFile, IssuerWork, Made, Seen, Barren, Recording,
     I!Recoverable, I!Final, I!Published, PhasesAt
  <2>4. QED BY <2>2, <2>5, <2>3
<1>4. QED BY <1>2, <1>3

LEMMA IssuerNoteConflict ==
  ASSUME IssuerInv, I!NoteConflict
  PROVE  IssuerInv'
<1> USE IssuerRecords DEF IssuerInv, I!At, I!Goto, I!Idle
<1>1. IssuerTypes'
  BY SMTT(40) DEF I!NoteConflict, I!Exit, I!WriteJournal, I!Fits, IssuerTypes, IssuerWork, IssuerSteps, Barren, I!Recoverable, I!Final, I!Records
<1>2. IssuerFiles'
  BY DEF I!NoteConflict, I!Exit, I!WriteJournal, I!Fits, IssuerTypes, IssuerFiles, IssuerFile, IssuerWork, Made, Seen, Barren, Recording,
     I!Recoverable, I!Final, I!Published, PhasesAt
<1>3. IssuerWork'
  BY DEF I!NoteConflict, I!Exit, I!WriteJournal, I!Fits, IssuerTypes, IssuerFiles, IssuerFile, IssuerWork, Made, Seen, Barren, Recording,
     I!Recoverable, I!Final, I!Published, PhasesAt
<1>4. QED BY <1>1, <1>2, <1>3

LEMMA IssuerNoteObserved ==
  ASSUME IssuerInv, I!NoteObserved
  PROVE  IssuerInv'
<1> USE IssuerRecords DEF IssuerInv, I!At, I!Goto, I!Idle
<1>1. IssuerTypes'
  BY DEF I!NoteObserved, I!WriteJournal, I!Fits, IssuerTypes, IssuerWork, IssuerSteps, Barren, I!Recoverable, I!Final, I!Records
<1>2. IssuerFiles'
  BY DEF I!NoteObserved, I!WriteJournal, I!Fits, IssuerTypes, IssuerFiles, IssuerFile, IssuerWork, Made, Seen, Barren, Recording,
     I!Recoverable, I!Final, I!Published, PhasesAt
<1>3. IssuerWork'
  BY DEF I!NoteObserved, I!WriteJournal, I!Fits, IssuerTypes, IssuerFiles, IssuerFile, IssuerWork, Made, Seen, Barren, Recording,
     I!Recoverable, I!Final, I!Published, PhasesAt
<1>4. QED BY <1>1, <1>2, <1>3

LEMMA IssuerPrepare ==
  ASSUME IssuerInv, I!Prepare
  PROVE  IssuerInv'
<1> USE IssuerRecords DEF IssuerInv, I!At, I!Goto, I!Idle
<1>1. IssuerTypes'
  BY DEF I!Prepare, I!WriteJournal, I!Fits, IssuerTypes, IssuerWork, IssuerSteps, Barren, I!Recoverable, I!Final, I!Records
<1>2. IssuerFiles'
  BY DEF I!Prepare, I!WriteJournal, I!Fits, IssuerTypes, IssuerFiles, IssuerFile, IssuerWork, Made, Seen, Barren, Recording,
     I!Recoverable, I!Final, I!Published, PhasesAt
<1>3. IssuerWork'
  BY DEF I!Prepare, I!WriteJournal, I!Fits, IssuerTypes, IssuerFiles, IssuerFile, IssuerWork, Made, Seen, Barren, Recording,
     I!Recoverable, I!Final, I!Published, PhasesAt
<1>4. QED BY <1>1, <1>2, <1>3

LEMMA IssuerPublish ==
  ASSUME IssuerInv, I!Publish
  PROVE  IssuerInv'
<1> USE IssuerRecords DEF IssuerInv, I!At, I!Goto, I!Idle
<1>1. IssuerTypes'
  BY DEF I!Publish, IssuerTypes, IssuerWork, IssuerSteps, Barren, I!Recoverable, I!Final, I!Records
<1>2. IssuerFiles'
  BY DEF I!Publish, IssuerTypes, IssuerFiles, IssuerFile, IssuerWork, Made, Seen, Barren, Recording,
     I!Recoverable, I!Final, I!Published, PhasesAt
<1>3. IssuerWork'
  BY DEF I!Publish, IssuerTypes, IssuerFiles, IssuerFile, IssuerWork, Made, Seen, Barren, Recording,
     I!Recoverable, I!Final, I!Published, PhasesAt
<1>4. QED BY <1>1, <1>2, <1>3

LEMMA IssuerPublishFails ==
  ASSUME IssuerInv, I!PublishFails
  PROVE  IssuerInv'
<1> USE IssuerRecords DEF IssuerInv, I!At, I!Goto, I!Idle
<1>1. IssuerTypes'
  BY SMTT(40) DEF I!PublishFails, I!Exit, IssuerTypes, IssuerWork, IssuerSteps, Barren, I!Recoverable, I!Final, I!Records
<1>2. IssuerFiles'
  BY DEF I!PublishFails, I!Exit, IssuerTypes, IssuerFiles, IssuerFile, IssuerWork, Made, Seen, Barren, Recording,
     I!Recoverable, I!Final, I!Published, PhasesAt
<1>3. IssuerWork'
  BY DEF I!PublishFails, I!Exit, IssuerTypes, IssuerFiles, IssuerFile, IssuerWork, Made, Seen, Barren, Recording,
     I!Recoverable, I!Final, I!Published, PhasesAt
<1>4. QED BY <1>1, <1>2, <1>3

LEMMA IssuerNoteCommitted ==
  ASSUME IssuerInv, I!NoteCommitted
  PROVE  IssuerInv'
<1> USE IssuerRecords DEF IssuerInv, I!At, I!Goto, I!Idle
<1>1. IssuerTypes'
  BY DEF I!NoteCommitted, I!Exit, I!WriteJournal, I!Fits, IssuerTypes, IssuerWork, IssuerSteps, Barren, I!Recoverable, I!Final, I!Records
<1>2. IssuerFiles'
  BY DEF I!NoteCommitted, I!Exit, I!WriteJournal, I!Fits, IssuerTypes, IssuerFiles, IssuerFile, IssuerWork, Made, Seen, Barren, Recording,
     I!Recoverable, I!Final, I!Published, PhasesAt
<1>3. IssuerWork'
  BY DEF I!NoteCommitted, I!Exit, I!WriteJournal, I!Fits, IssuerTypes, IssuerFiles, IssuerFile, IssuerWork, Made, Seen, Barren, Recording,
     I!Recoverable, I!Final, I!Published, PhasesAt
<1>4. QED BY <1>1, <1>2, <1>3

LEMMA IssuerReadJournal ==
  ASSUME IssuerInv, I!ReadJournal
  PROVE  IssuerInv'
<1> USE IssuerRecords DEF IssuerInv, I!At, I!Goto, I!Idle
<1>1. IssuerTypes'
  BY SMTT(120) DEF I!ReadJournal, I!Exit, I!WriteJournal, I!Fits, IssuerTypes, IssuerFiles, IssuerFile, IssuerWork, IssuerSteps, I!Published, Barren, I!Recoverable, I!Final, I!Records
<1>2. IssuerFiles'
  BY DEF I!ReadJournal, I!Exit, I!WriteJournal, I!Fits, IssuerTypes, IssuerFiles, IssuerFile, IssuerWork, Made, Seen, Barren, Recording,
     I!Recoverable, I!Final, I!Published, PhasesAt
<1>3. IssuerWork'
  BY DEF I!ReadJournal, I!Exit, I!WriteJournal, I!Fits, IssuerTypes, IssuerFiles, IssuerFile, IssuerWork, Made, Seen, Barren, Recording,
     I!Recoverable, I!Final, I!Published, PhasesAt
<1>4. QED BY <1>1, <1>2, <1>3

LEMMA IssuerAdopt ==
  ASSUME IssuerInv, I!Adopt
  PROVE  IssuerInv'
<1> USE IssuerRecords DEF IssuerInv, I!At, I!Goto, I!Idle
<1> USE DEF I!Adopt, I!Exit
<1>1. /\ process.op \in I!Operations /\ process.op \in 0 .. MaxOperations
      /\ journal[process.op].phase \in I!Recoverable /\ ~I!Published(process.op)
  BY DEF IssuerTypes, IssuerWork, IssuerSteps, Barren, I!Recoverable, I!Final, I!Records, PhasesAt
<1>2. CASE secret # Absent /\ secret.nonce = process.op /\ journal[process.op].record \in {Absent, secret}
  <2>1. process' = [process EXCEPT !.pc = "observed", !.record = secret]
    BY <1>2
  <2>2. IssuerTypes'
    BY <2>1 DEF IssuerTypes, IssuerSteps
  <2>3. IssuerFiles'
    BY <1>1, <2>1 DEF IssuerTypes, IssuerFiles, IssuerFile, IssuerWork, Made, Seen, Barren, Recording,
     I!Recoverable, I!Final, I!Published, PhasesAt
  <2>4. IssuerWork'
    BY <1>1, <1>2, <2>1, <2>2 DEF IssuerTypes, IssuerWork, Seen, I!Published, PhasesAt
  <2>5. QED BY <2>2, <2>3, <2>4
<1>3. CASE ~(secret # Absent /\ secret.nonce = process.op /\ journal[process.op].record \in {Absent, secret})
  <2>1. process' = [I!Idle EXCEPT !.code = 2]
    BY <1>3
  <2>2. IssuerTypes'
    BY <2>1 DEF IssuerTypes, IssuerSteps, I!Records
  <2>5. IssuerWork'
    BY <2>1 DEF IssuerWork
  <2>3. IssuerFiles'
    BY <1>1, <2>1 DEF IssuerTypes, IssuerFiles, IssuerFile, IssuerWork, Made, Seen, Barren, Recording,
     I!Recoverable, I!Final, I!Published, PhasesAt
  <2>4. QED BY <2>2, <2>5, <2>3
<1>4. QED BY <1>2, <1>3

LEMMA IssuerStop ==
  ASSUME IssuerInv, I!Stop
  PROVE  IssuerInv'
<1> USE IssuerRecords DEF IssuerInv, I!At, I!Goto, I!Idle
<1>1. IssuerTypes'
  BY DEF I!Stop, I!Exit, IssuerTypes, IssuerWork, IssuerSteps, Barren, I!Recoverable, I!Final, I!Records
<1>2. IssuerFiles'
  BY DEF I!Stop, I!Exit, IssuerTypes, IssuerFiles, IssuerFile, IssuerWork, Made, Seen, Barren, Recording,
     I!Recoverable, I!Final, I!Published, PhasesAt
<1>3. IssuerWork'
  BY DEF I!Stop, I!Exit, IssuerTypes, IssuerFiles, IssuerFile, IssuerWork, Made, Seen, Barren, Recording,
     I!Recoverable, I!Final, I!Published, PhasesAt
<1>4. QED BY <1>1, <1>2, <1>3

LEMMA IssuerStartMaterialize ==
  ASSUME IssuerInv, NEW n \in I!Operations, I!StartMaterialize(n)
  PROVE  IssuerInv'
<1> USE IssuerRecords DEF IssuerInv, I!At, I!Idle, I!StartMaterialize, I!Start
<1>0. n \in 0 .. MaxOperations /\ Absent \in I!Records
  BY DEF I!Records
<1>1. IssuerTypes'
  BY <1>0 DEF IssuerTypes, IssuerSteps
<1>2. IssuerFiles'
  BY DEF IssuerFiles, IssuerFile, Made, Seen, I!Published
<1>3. IssuerWork'
  BY <1>0, <1>1 DEF IssuerTypes, IssuerFiles, IssuerFile, IssuerWork, Made, Seen, Barren, Recording,
     I!Recoverable, I!Final, I!Published, PhasesAt, I!NoFile, I!NoReceipt
<1>4. QED BY <1>1, <1>2, <1>3

LEMMA IssuerStartRecovery ==
  ASSUME IssuerInv, NEW n \in I!Operations, I!StartRecovery(n)
  PROVE  IssuerInv'
<1> USE IssuerRecords DEF IssuerInv, I!At, I!Idle, I!StartRecovery, I!Start
<1>0. n \in 0 .. MaxOperations /\ Absent \in I!Records
  BY DEF I!Records
<1>1. IssuerTypes'
  BY <1>0 DEF IssuerTypes, IssuerSteps
<1>2. IssuerFiles'
  BY DEF IssuerFiles, IssuerFile, Made, Seen, I!Published
<1>3. IssuerWork'
  BY <1>0, <1>1 DEF IssuerTypes, IssuerFiles, IssuerFile, IssuerWork, Made, Seen, Barren, Recording,
     I!Recoverable, I!Final, I!Published, PhasesAt, I!NoFile, I!NoReceipt
<1>4. QED BY <1>1, <1>2, <1>3

\* What others do to the Secret or when a request is served: nothing of a
\* process or a file changes.
LEMMA IssuerElsewhere ==
  ASSUME IssuerInv, I!ServeLate \/ I!Interfere
  PROVE  IssuerInv'
<1> USE IssuerRecords DEF IssuerInv
<1>1. /\ UNCHANGED <<journal, receipt, process>> /\ asked' \subseteq asked
      /\ secret' \in I!Records /\ meddled' \in BOOLEAN /\ meddled \in BOOLEAN
      /\ meddled => meddled'
      /\ \A n \in I!Operations : Made(n)' => Made(n)
      /\ ~meddled' /\ secret # Absent => secret' = secret
  <2>1. CASE I!ServeLate
    <3>1. PICK n \in asked : /\ asked' = asked \ {n} /\ UNCHANGED <<journal, receipt, process, meddled>>
                             /\ secret' = IF secret = Absent THEN I!Record(n) ELSE secret
      BY <2>1 DEF I!ServeLate
    <3>2. n \in I!Operations
      BY DEF IssuerTypes
    <3>3. QED BY <3>1, <3>2 DEF IssuerTypes, Made
  <2>2. CASE I!Interfere
    <3>1. CASE secret = Absent /\ secret' = I!Record(I!Rival) /\ UNCHANGED meddled
      BY <2>2, <3>1 DEF I!Interfere, IssuerTypes, Made
    <3>2. CASE /\ secret # Absent /\ secret' = [secret EXCEPT !.version = 1] /\ meddled' = TRUE
      <4>1. secret' \in I!Records /\ secret'.nonce = secret.nonce
        BY <3>2 DEF IssuerTypes, I!Records
      <4>2. QED BY <2>2, <3>2, <4>1 DEF I!Interfere, IssuerTypes, Made
    <3>3. CASE secret # Absent /\ secret' = Absent /\ meddled' = TRUE
      BY <2>2, <3>3 DEF I!Interfere, IssuerTypes, Made, I!Records
    <3>4. QED BY <2>2, <3>1, <3>2, <3>3 DEF I!Interfere
  <2>3. QED BY <2>1, <2>2
<1>2. ASSUME NEW n, NEW record, Seen(n, record)
      PROVE  Seen(n, record)'
  BY <1>1, <1>2 DEF Seen
<1>3. IssuerTypes'
  BY <1>1 DEF IssuerTypes
<1>4. IssuerFiles'
  BY <1>1, <1>2 DEF IssuerFiles, IssuerFile, I!Published
<1>5. IssuerWork'
  BY <1>1, <1>2 DEF IssuerTypes, IssuerWork, I!Published, I!At
<1>6. QED BY <1>3, <1>4, <1>5

LEMMA IssuerUnchanged ==
  ASSUME IssuerInv, UNCHANGED issuer
  PROVE  IssuerInv'
BY DEF IssuerInv, IssuerTypes, IssuerFiles, IssuerFile, IssuerWork, Made, Seen, I!Published, I!At,
   issuer

LEMMA IssuerStep ==
  ASSUME IssuerInv,
         \/ \E n \in I!Operations : I!StartMaterialize(n) \/ I!StartRecovery(n)
         \/ I!Proceed \/ I!Fail \/ I!ServeLate \/ I!Interfere \/ UNCHANGED issuer
  PROVE  IssuerInv'
<1>1. CASE \E n \in I!Operations : I!StartMaterialize(n) \/ I!StartRecovery(n)
  BY <1>1, IssuerStartMaterialize, IssuerStartRecovery
<1>2. CASE I!Proceed
  BY <1>2, IssuerDryRun, IssuerReserve, IssuerOpenJournal, IssuerIntend, IssuerCreate, IssuerLook,
     IssuerNoteConflict, IssuerNoteObserved, IssuerPrepare, IssuerPublish, IssuerNoteCommitted,
     IssuerReadJournal, IssuerAdopt DEF I!Proceed
<1>3. CASE I!Fail
  BY <1>3, IssuerCreateUnanswered, IssuerPublishFails, IssuerStop DEF I!Fail
<1>4. CASE I!ServeLate \/ I!Interfere
  BY <1>4, IssuerElsewhere
<1>5. CASE UNCHANGED issuer
  BY <1>5, IssuerUnchanged
<1>6. QED BY <1>1, <1>2, <1>3, <1>4, <1>5

LEMMA IssuerInitially == Init => IssuerInv
<1> SUFFICES ASSUME Init PROVE IssuerInv
  OBVIOUS
<1> USE IssuerRecords DEF Init, I!Init, I!Idle, I!NoFile, I!NoReceipt
<1>1. IssuerTypes
  <2>1. Absent \in I!Records
    BY DEF I!Records
  <2>2. journal \in [I!Operations -> [phase : Barren \cup I!Recoverable \cup I!Final,
                                      record : I!Records]]
    BY <2>1 DEF Barren
  <2>3. receipt \in [I!Operations -> [state : {"none", "reserved", "published"},
                                      record : I!Records]]
    BY <2>1
  <2>4. process \in [pc : IssuerSteps, op : 0 .. MaxOperations, response : I!Records,
                     record : I!Records, code : {0, 2}]
    BY <2>1 DEF IssuerSteps
  <2>5. QED BY <2>1, <2>2, <2>3, <2>4 DEF IssuerTypes
<1>2. IssuerFiles
  BY DEF IssuerFiles, IssuerFile, Made, Barren, Recording, I!Final, I!Published
<1>3. IssuerWork
  BY DEF IssuerWork, I!At
<1>4. QED BY <1>1, <1>2, <1>3 DEF IssuerInv

\* What the property says of the journal and the receipt.
LEMMA IssuerInvImplies == IssuerInv => IssuerIsTrue
BY DEF IssuerInv, IssuerTypes, IssuerFiles, IssuerFile, IssuerWork, Made, Seen, Barren, Recording,
     I!Recoverable, I!Final, I!Published, PhasesAt, IssuerIsTrue, IssuerIsRecoverable, IssuerReceiptIsTrue

-----
\* The gateway's Secrets: every action of the materialiser and its cluster

LEMMA SecretRecords ==
  /\ MaxOperations \in Nat /\ Absent \notin P!Identities
  /\ P!Operations = 1 .. MaxOperations /\ P!Labels # {}
  /\ Absent \in P!Identities \cup {Absent}
  /\ P!NoRecord \in P!Records /\ \A l \in P!Labels : P!NoRecord[l] = Absent
  /\ \A n \in 0 .. MaxOperations : P!Record(n) \in P!Identities /\ P!Record(n) # Absent
                                   /\ P!Record(n).nonce = n
<1>1. MaxOperations \in Nat /\ Absent \notin P!Identities /\ P!Operations = 1 .. MaxOperations
  BY ChainConstants DEF ChainConstants, P!SecretConstants, P!Operations
<1>2. P!Labels # {}
  <2>1. CreateOrder \in Seq(STRING) /\ CreateOrder # <<>>
    BY ChainConstants DEF ChainConstants, P!SecretConstants
  <2>2. 1 \in DOMAIN CreateOrder
    BY <2>1
  <2>3. QED BY <2>2 DEF P!Labels
<1>3. P!NoRecord \in P!Records /\ \A l \in P!Labels : P!NoRecord[l] = Absent
  BY DEF P!NoRecord, P!Records
<1>4. \A n \in 0 .. MaxOperations : P!Record(n) \in P!Identities /\ P!Record(n).nonce = n
  BY <1>1 DEF P!Record, P!Identities
<1>5. QED BY <1>1, <1>2, <1>3, <1>4

\* The label at hand is one.
LEMMA FirstIsOne ==
  ASSUME SecretTypes
  PROVE  /\ P!First \subseteq job.todo /\ P!Last \subseteq job.todo /\ job.todo \subseteq P!Labels
         /\ \A k, l \in P!First : k = l
<1>1. /\ P!First \subseteq job.todo /\ P!Last \subseteq job.todo /\ job.todo \subseteq P!Labels
  BY DEF P!First, P!Last, SecretTypes
<1>2. ASSUME NEW k \in P!First, NEW l \in P!First
      PROVE  k = l
  <2>1. PICK i \in DOMAIN CreateOrder : CreateOrder[i] = k
    BY <1>1 DEF P!Labels
  <2>2. PICK j \in DOMAIN CreateOrder : CreateOrder[j] = l
    BY <1>1 DEF P!Labels
  <2>3. i \in Nat /\ j \in Nat
    BY ChainConstants DEF ChainConstants, P!SecretConstants
  <2>4. ~(i < j) /\ ~(j < i)
    BY <2>1, <2>2 DEF P!First, P!Before
  <2>5. QED BY <2>1, <2>2, <2>3, <2>4
<1>3. QED BY <1>1, <1>2

\* What a process that materialises knows of itself, as one fact to start from.
LEMMA AtWork ==
  ASSUME SecretInv, job.pc # "idle"
  PROVE  /\ job.op \in P!Operations /\ job.op \in 0 .. MaxOperations /\ job.created \in P!Records
         /\ job.mode \in {"materialize", "teardown"} /\ receipts[job.op].status \in Statuses
         /\ job.mode = "materialize" => Materializing
         /\ job.mode = "teardown" => TearingDown
         /\ job.pc \in {"preflight", "create", "look", "confirm", "commit", "settle"}
              => job.mode = "materialize"
         /\ job.pc \in {"check", "recheck", "torn", "incomplete"} => job.mode = "teardown"
BY SecretRecords DEF SecretInv, SecretTypes, JobWork, Materializing, TearingDown, P!At

\* A rollback begins: the memory covers what may live, unless it is said not to.
LEMMA RollbackBegins ==
  ASSUME SecretInv, job.pc # "idle", job.mode = "materialize", NEW u \in BOOLEAN, P!Rollback(u),
         torn' = torn, receipts'[job.op].status \in {"empty", "materialized"},
         \A l \in P!Labels : job.created[l] # Absent => <<job.op, l>> \notin travelling',
         ~u => \A l \in P!Labels : job.created[l] = Absent => Gone(job.op, l)'
  PROVE  /\ JobWork'
         /\ job' \in [pc : JobSteps, mode : {"none", "materialize", "teardown"},
                      op : 0 .. MaxOperations, created : P!Records, todo : SUBSET P!Labels,
                      clean : BOOLEAN]
         /\ job'.op = job.op /\ job'.mode = job.mode /\ job'.created = job.created
         /\ job'.pc \in {"delete", "settle"}
         /\ job'.pc = "delete" => \E l \in P!Labels : job.created[l] # Absent
<1> USE SecretRecords
<1>1. /\ job'.op = job.op /\ job'.mode = job.mode /\ job'.created = job.created
      /\ job'.pc = (IF P!Known = {} THEN "settle" ELSE "delete") /\ job'.todo = P!Known
      /\ job'.clean = ~u /\ P!Known \subseteq P!Labels
      /\ job' \in [pc : JobSteps, mode : {"none", "materialize", "teardown"},
                   op : 0 .. MaxOperations, created : P!Records, todo : SUBSET P!Labels,
                   clean : BOOLEAN]
  BY DEF P!Rollback, SecretInv, SecretTypes, P!Known, JobSteps
<1>2. job.op \in P!Operations /\ Materializing
  BY AtWork
<1>3. Own(job.op, job.created)'
  BY <1>1, <1>2 DEF Own, Materializing
<1>4. Materializing'
  <2>1. job'.pc = "delete" /\ job'.clean => \A l \in P!Labels \ job'.todo : Gone(job.op, l)'
    BY <1>1 DEF P!Known
  <2>2. job'.pc = "settle" /\ job'.clean => \A l \in P!Labels : Gone(job.op, l)'
    BY <1>1 DEF P!Known
  <2>3. \A l \in job'.todo : job'.created[l] # Absent
    BY <1>1 DEF P!Known
  <2>4. QED BY <1>1, <1>2, <1>3, <2>1, <2>2, <2>3 DEF Materializing, Gone, Unborn, P!Lives
<1>5. JobWork'
  BY <1>1, <1>2, <1>4 DEF JobWork, P!At
<1>6. QED BY <1>1, <1>5 DEF P!Known

\* Files claim something only of operations that have ended or were never begun.
LEMMA FilesStay ==
  ASSUME SecretInv, UNCHANGED <<receipts, torn>>, forgotten \subseteq forgotten',
         \A n \in P!Operations, l \in P!Labels :
           /\ receipts[n].status # "empty" /\ Unborn(n, l) => Unborn(n, l)'
           /\ receipts[n].status = "materialized" /\ <<n, l>> \notin travelling
                => <<n, l>> \notin travelling'
  PROVE  SecretFiles'
<1> SUFFICES ASSUME NEW n \in P!Operations
             PROVE  SecretFile(n)'
  BY DEF SecretFiles
<1>1. SecretFile(n)
  BY DEF SecretInv, SecretFiles
<1>2. torn[n] = "torn-down" => \A l \in P!Labels : Unborn(n, l)
  BY <1>1 DEF SecretFile, Unborn, P!Remains
<1>3. torn'[n] = "torn-down" => ~P!Remains(n)'
  BY <1>1, <1>2 DEF SecretFile, Unborn, P!Remains
<1>4. receipts'[n].status = "materialized" =>
        Own(n, receipts[n].secrets)' /\ \A l \in P!Labels : <<n, l>> \notin travelling'
  BY <1>1 DEF SecretFile, Own
<1>5. receipts'[n].status = "rolled-back" => \A l \in P!Labels : Gone(n, l)'
  BY <1>1 DEF SecretFile, Gone
<1>6. QED BY <1>1, <1>3, <1>4, <1>5 DEF SecretFile

\* A step that leaves the cluster and the files alone.
LEMMA ClusterStays ==
  ASSUME SecretInv, UNCHANGED <<P!cluster, receipts, torn>>
  PROVE  /\ ServedOnce' /\ SecretFiles'
         /\ job' \in [pc : JobSteps, mode : {"none", "materialize", "teardown"},
                           op : 0 .. MaxOperations, created : P!Records, todo : SUBSET P!Labels,
                           clean : BOOLEAN] => SecretTypes'
<1> USE DEF P!cluster
<1>1. ServedOnce'
  BY DEF SecretInv, ServedOnce, P!Lives
<1>2. SecretFiles'
  BY FilesStay DEF Unborn, P!Lives
<1>3. QED BY <1>1, <1>2 DEF SecretInv, SecretTypes

\* Who creates or deletes has seen that there is no gateway.
LEMMA NoGateway ==
  ASSUME SecretInv,
         job.pc \in {"create", "look", "confirm", "commit", "delete", "recheck", "torn"}
  PROVE  gateway = "absent"
BY AtWork DEF SecretInv, Covered

LEMMA SecretPreflight ==
  ASSUME SecretInv, P!Preflight, UNCHANGED gateway
  PROVE  SecretInv'
<1> USE SecretRecords DEF P!Preflight, P!At
<1>1. /\ job.pc = "preflight" /\ UNCHANGED <<P!cluster, receipts, torn>>
      /\ job.mode = "materialize" /\ Materializing /\ job.op \in P!Operations
  BY AtWork
<1>2. ServedOnce' /\ SecretFiles'
  BY <1>1, ClusterStays
<1>3. CASE \A l \in P!Labels : secrets[l] = Absent
  <2>1. job' = [job EXCEPT !.pc = "create", !.todo = P!Labels]
    BY <1>3
  <2>2. SecretTypes'
    BY <1>1, <2>1, ClusterStays DEF SecretInv, SecretTypes, JobSteps
  <2>3. JobWork'
    BY <1>1, <2>1 DEF SecretInv, SecretTypes, JobWork, Materializing, Own, Open, Unborn, P!Lives, P!cluster
  <2>4. gateway = "absent"
    BY <1>3 DEF SecretInv, Covered
  <2>5. QED BY <1>2, <2>2, <2>3, <2>4 DEF SecretInv, Covered
<1>4. CASE ~\A l \in P!Labels : secrets[l] = Absent
  <2>1. P!Rollback(FALSE)
    BY <1>4
  <2>0. job'.op = job.op /\ job'.mode = job.mode
    BY <2>1 DEF P!Rollback, SecretInv, SecretTypes
  <2>2. \A l \in P!Labels : job.created[l] = Absent /\ Gone(job.op, l)'
    BY <1>1, <2>0 DEF Materializing, Open, Gone, Unborn, P!Lives, P!cluster
  <2>3. JobWork' /\ SecretTypes' /\ job'.pc = "settle" /\ job'.created = job.created
    BY <1>1, <2>1, <2>2, RollbackBegins, ClusterStays DEF Materializing, P!cluster
  <2>4. Covered'
    BY <1>1, <2>0, <2>3 DEF SecretInv, Covered, P!cluster
  <2>5. QED BY <1>2, <2>3, <2>4 DEF SecretInv
<1>5. QED BY <1>3, <1>4

LEMMA SecretCreate ==
  ASSUME SecretInv, P!Create, UNCHANGED gateway
  PROVE  SecretInv'
<1> USE SecretRecords DEF P!At
<1>1. /\ job.pc = "create" /\ UNCHANGED <<travelling, forgotten, receipts, torn>>
      /\ job.mode = "materialize" /\ Materializing /\ job.op \in P!Operations
      /\ job.op \in 0 .. MaxOperations /\ gateway = "absent"
      /\ receipts[job.op].status = "empty"
  BY AtWork, NoGateway DEF P!Create, Materializing
<1>2. PICK l \in P!First :
        \/ /\ secrets[l] = Absent
           /\ secrets' = [secrets EXCEPT ![l] = P!Record(job.op)] /\ P!Learn(l)
        \/ secrets[l] # Absent /\ P!Rollback(FALSE) /\ UNCHANGED secrets
  BY DEF P!Create
<1>3. l \in P!Labels /\ l \in job.todo /\ Open(l) /\ \A k \in P!First : k = l
  BY <1>1, FirstIsOne DEF SecretInv, Materializing
<1>4. CASE secrets[l] = Absent
  <2>1. /\ secrets' = [secrets EXCEPT ![l] = P!Record(job.op)] /\ secrets' \in P!Records
        /\ secrets'[l] = P!Record(job.op)
        /\ job' = [job EXCEPT !.pc = "confirm", !.created[l] = P!Record(job.op)]
    BY <1>1, <1>2, <1>3, <1>4 DEF P!Learn, P!Records, SecretInv, SecretTypes
  <2>2. SecretTypes'
    BY <1>1, <1>3, <2>1 DEF SecretInv, SecretTypes, JobSteps, P!Records
  <2>3. ServedOnce'
    <3>1. ASSUME NEW n \in P!Operations, NEW k \in P!Labels, <<n, k>> \in travelling
          PROVE  ~P!Lives(n, k)'
      <4>1. ~P!Lives(n, k)
        BY <3>1 DEF SecretInv, ServedOnce
      <4>2. k = l => n # job.op
        BY <1>3, <3>1 DEF Open, Unborn
      <4>3. secrets'[k] = IF k = l THEN P!Record(job.op) ELSE secrets[k]
        BY <1>3, <2>1 DEF SecretInv, SecretTypes, P!Records
      <4>4. QED BY <1>1, <4>1, <4>2, <4>3 DEF P!Lives
    <3>2. QED BY <1>1, <3>1 DEF SecretInv, SecretTypes, ServedOnce
  <2>4. SecretFiles'
    BY <1>1, <1>3, <2>1, FilesStay DEF SecretInv, SecretTypes, Unborn, P!Lives, P!Records
  <2>5. P!First' = P!First
    BY <2>1 DEF P!First, SecretInv, SecretTypes
  <2>6. Materializing'
    <3>1. /\ job'.op = job.op /\ job'.pc = "confirm" /\ job'.todo = job.todo
          /\ \A k \in P!Labels : job'.created[k] = IF k = l THEN P!Record(job.op) ELSE job.created[k]
      BY <1>3, <2>1 DEF SecretInv, SecretTypes, P!Records
    <3>2. \A k \in P!Labels : k # l => secrets'[k] = secrets[k]
      BY <1>3, <2>1 DEF SecretInv, SecretTypes, P!Records
    <3>3. Own(job.op, job.created)'
      BY <1>1, <1>3, <3>1 DEF Own, Materializing, Open, Unborn
    <3>4. \A k \in job.todo \ P!First : Open(k)'
      BY <1>1, <1>3, <3>1, <3>2, FirstIsOne DEF Materializing, Open, Unborn, P!Lives, SecretInv
    <3>5. QED BY <1>1, <1>3, <2>5, <3>1, <3>3, <3>4 DEF Materializing
  <2>7. JobWork'
    BY <1>1, <2>1, <2>6 DEF JobWork, SecretInv, SecretTypes
  <2>8. QED BY <1>1, <2>2, <2>3, <2>4, <2>7 DEF SecretInv, Covered
<1>5. CASE secrets[l] # Absent
  <2>1. P!Rollback(FALSE) /\ UNCHANGED <<P!cluster, receipts, torn>>
    BY <1>1, <1>2, <1>5 DEF P!cluster
  <2>0. job'.op = job.op
    BY <2>1 DEF P!Rollback, SecretInv, SecretTypes
  <2>2. \A k \in P!Labels : job.created[k] = Absent => Gone(job.op, k)'
    BY <1>1, <2>0, <2>1 DEF Materializing, Open, Gone, Unborn, P!Lives, P!cluster
  <2>3. JobWork' /\ SecretTypes'
    BY <1>1, <2>1, <2>2, RollbackBegins, ClusterStays DEF Materializing, Own, P!cluster
  <2>4. QED BY <1>1, <2>1, <2>3, ClusterStays DEF SecretInv, Covered
<1>6. QED BY <1>4, <1>5

LEMMA SecretCreateUnanswered ==
  ASSUME SecretInv, P!CreateUnanswered, UNCHANGED gateway
  PROVE  SecretInv'
<1> USE SecretRecords DEF P!At
<1>1. /\ job.pc = "create" /\ UNCHANGED <<secrets, forgotten, receipts, torn>>
      /\ job.mode = "materialize" /\ Materializing /\ job.op \in P!Operations
      /\ gateway = "absent" /\ receipts[job.op].status = "empty"
      /\ travelling' = travelling \cup ({job.op} \X P!First)
      /\ job' = [job EXCEPT !.pc = "look"]
  BY AtWork, NoGateway DEF P!CreateUnanswered, P!Goto, Materializing
<1>2. /\ \A k \in P!First : k \in job.todo /\ k \in P!Labels /\ Open(k)
      /\ \A n \in P!Operations, k \in P!Labels :
           <<n, k>> \in travelling' <=> <<n, k>> \in travelling \/ (n = job.op /\ k \in P!First)
  BY <1>1, FirstIsOne DEF SecretInv, Materializing
<1>3. SecretTypes'
  BY <1>1, <1>2 DEF SecretInv, SecretTypes, JobSteps
<1>4. ServedOnce'
  <2>1. ASSUME NEW n \in P!Operations, NEW k \in P!Labels, <<n, k>> \in travelling'
        PROVE  ~P!Lives(n, k)'
    BY <1>1, <1>2, <2>1 DEF SecretInv, ServedOnce, Open, Unborn, P!Lives
  <2>2. QED BY <1>3, <2>1 DEF SecretTypes, ServedOnce
<1>5. SecretFiles'
  BY <1>1, <1>2, FilesStay DEF SecretInv, Unborn, P!Lives
<1>6. JobWork'
  <2>1. /\ job'.op = job.op /\ job'.pc = "look" /\ job'.todo = job.todo /\ job'.created = job.created
        /\ job'.mode = job.mode /\ P!First' = P!First
    BY <1>1 DEF SecretInv, SecretTypes, P!First
  <2>2. Own(job.op, job.created)'
    BY <1>1, <1>2, <2>1 DEF Materializing, Own, Open
  <2>3. \A k \in job.todo \ P!First : Open(k)'
    BY <1>1, <1>2, <2>1 DEF Materializing, Open, Unborn, P!Lives, SecretInv, SecretTypes
  <2>4. \A k \in P!First : job.created[k] = Absent
    BY <1>2 DEF Open
  <2>5. Materializing'
    BY <1>1, <2>1, <2>2, <2>3, <2>4 DEF Materializing
  <2>6. QED BY <1>1, <2>1, <2>5 DEF JobWork
<1>7. QED BY <1>1, <1>3, <1>4, <1>5, <1>6 DEF SecretInv, Covered

LEMMA SecretLook ==
  ASSUME SecretInv, P!Look, UNCHANGED gateway
  PROVE  SecretInv'
<1> USE SecretRecords DEF P!At
<1>1. /\ job.pc = "look" /\ UNCHANGED <<P!cluster, receipts, torn>>
      /\ job.mode = "materialize" /\ Materializing /\ job.op \in P!Operations
      /\ gateway = "absent" /\ receipts[job.op].status = "empty"
  BY AtWork, NoGateway DEF P!Look, Materializing
<1>2. PICK l \in P!First : IF P!Lives(job.op, l) THEN P!Learn(l) ELSE P!Rollback(TRUE)
  BY DEF P!Look
<1>3. l \in P!Labels /\ \A k \in P!First : k = l
  BY <1>1, FirstIsOne DEF SecretInv
<1>4. ServedOnce' /\ SecretFiles'
  BY <1>1, ClusterStays
<1>5. CASE P!Lives(job.op, l)
  <2>1. job' = [job EXCEPT !.pc = "confirm", !.created[l] = secrets[l]]
    BY <1>1, <1>2, <1>5 DEF P!Learn, P!cluster
  <2>2. /\ job'.op = job.op /\ job'.pc = "confirm" /\ job'.todo = job.todo
        /\ job'.mode = job.mode /\ P!First' = P!First
        /\ \A k \in P!Labels : job'.created[k] = IF k = l THEN secrets[l] ELSE job.created[k]
    BY <1>3, <2>1 DEF SecretInv, SecretTypes, P!Records, P!First
  <2>3. SecretTypes'
    BY <1>1, <1>3, <2>1, ClusterStays DEF SecretInv, SecretTypes, JobSteps, P!Records
  <2>4. Own(job.op, job.created)'
    <3>1. <<job.op, l>> \notin travelling /\ secrets[l].nonce = job.op
      BY <1>5 DEF SecretInv, ServedOnce, P!Lives
    <3>2. QED BY <1>1, <2>2, <3>1 DEF Own, Materializing, P!cluster
  <2>5. \A k \in job.todo \ P!First : Open(k)'
    BY <1>1, <1>3, <2>2, FirstIsOne DEF Materializing, Open, Unborn, P!Lives, P!cluster, SecretInv
  <2>6. Materializing'
    BY <1>1, <1>3, <1>5, <2>2, <2>4, <2>5 DEF Materializing, P!Lives
  <2>7. QED BY <1>1, <1>4, <2>2, <2>3, <2>6 DEF SecretInv, Covered, JobWork
<1>6. CASE ~P!Lives(job.op, l)
  <2>1. P!Rollback(TRUE)
    BY <1>2, <1>6
  <2>2. JobWork' /\ SecretTypes'
    BY <1>1, <2>1, RollbackBegins, ClusterStays DEF Materializing, Own, P!cluster
  <2>3. QED BY <1>1, <1>4, <2>2 DEF SecretInv, Covered
<1>7. QED BY <1>5, <1>6

\* While a creation is confirmed, every label of the memory that is empty was
\* never asked for.
LEMMA Unasked ==
  ASSUME SecretInv, job.mode = "materialize", job.pc \in {"preflight", "create", "confirm", "commit"}
  PROVE  \A l \in P!Labels : job.created[l] = Absent => Unborn(job.op, l)
BY AtWork, FirstIsOne DEF Materializing, Open, SecretInv

LEMMA SecretConfirm ==
  ASSUME SecretInv, P!Confirm, UNCHANGED gateway
  PROVE  SecretInv'
<1> USE SecretRecords DEF P!At
<1>1. /\ job.pc = "confirm" /\ UNCHANGED <<P!cluster, receipts, torn>>
      /\ job.mode = "materialize" /\ Materializing /\ job.op \in P!Operations
      /\ gateway = "absent" /\ receipts[job.op].status = "empty"
  BY AtWork, NoGateway DEF P!Confirm, Materializing
<1>2. PICK l \in P!First :
        IF secrets[l] = job.created[l]
        THEN job' = [job EXCEPT !.todo = @ \ {l},
                       !.pc = IF job.todo = {l} THEN "commit" ELSE "create"]
        ELSE P!Rollback(FALSE)
  BY DEF P!Confirm
<1>3. l \in P!Labels /\ (\A k \in P!First : k = l) /\ job.todo \subseteq P!Labels
  BY <1>1, FirstIsOne DEF SecretInv
<1>4. ServedOnce' /\ SecretFiles'
  BY <1>1, ClusterStays
<1>5. CASE secrets[l] = job.created[l]
  <2>1. job' = [job EXCEPT !.todo = @ \ {l}, !.pc = IF job.todo = {l} THEN "commit" ELSE "create"]
    BY <1>2, <1>5
  <2>2. /\ job'.op = job.op /\ job'.pc \in {"create", "commit"} /\ job'.todo = job.todo \ {l}
        /\ job'.mode = job.mode /\ job'.created = job.created
        /\ job'.pc = "commit" => job'.todo = {}
    BY <1>3, <2>1 DEF SecretInv, SecretTypes
  <2>3. SecretTypes'
    BY <1>1, <1>3, <2>1, ClusterStays DEF SecretInv, SecretTypes, JobSteps
  <2>4. Own(job.op, job.created)' /\ \A k \in job.todo \ {l} : Open(k)'
    BY <1>1, <1>3, <2>2 DEF Own, Materializing, Open, Unborn, P!Lives, P!cluster
  <2>5. Materializing'
    BY <1>1, <1>2, <2>2, <2>4 DEF Materializing
  <2>6. QED BY <1>1, <1>4, <2>2, <2>3, <2>5 DEF SecretInv, Covered, JobWork
<1>6. CASE secrets[l] # job.created[l]
  <2>1. P!Rollback(FALSE)
    BY <1>2, <1>6
  <2>2. job'.op = job.op
    BY <2>1 DEF P!Rollback, SecretInv, SecretTypes
  <2>3. \A k \in P!Labels : job.created[k] = Absent => Gone(job.op, k)'
    BY <1>1, <2>2, Unasked DEF Gone, Unborn, P!Lives, P!cluster
  <2>4. JobWork' /\ SecretTypes'
    BY <1>1, <2>1, <2>3, RollbackBegins, ClusterStays DEF Materializing, Own, P!cluster
  <2>5. QED BY <1>1, <1>4, <2>4 DEF SecretInv, Covered
<1>7. QED BY <1>5, <1>6

\* The process ends.
LEMMA JobEnds ==
  ASSUME job' = P!Idle
  PROVE  /\ JobWork'
         /\ job' \in [pc : JobSteps, mode : {"none", "materialize", "teardown"},
                      op : 0 .. MaxOperations, created : P!Records, todo : SUBSET P!Labels,
                      clean : BOOLEAN]
         /\ job'.mode = "none"
BY SecretRecords DEF P!Idle, JobWork, P!At, JobSteps

\* A receipt of the materialisation is written.
LEMMA FileWritten ==
  ASSUME SecretInv, job.pc # "idle", job.mode = "materialize", NEW status \in Statuses,
         P!Written(job.op, status), UNCHANGED <<P!cluster, torn>>,
         status # "none",
         status = "materialized" => \A l \in P!Labels : <<job.op, l>> \notin travelling,
         status = "rolled-back" => \A l \in P!Labels : Gone(job.op, l)
  PROVE  /\ SecretFiles' /\ ServedOnce'
         /\ receipts' \in [P!Operations -> [status : Statuses, secrets : P!Records]]
         /\ receipts'[job.op].status = status
         /\ secrets' = secrets /\ travelling' = travelling /\ forgotten' = forgotten /\ torn' = torn
<1> USE SecretRecords DEF P!cluster
<1>1. job.op \in P!Operations /\ job.created \in P!Records /\ Materializing
  BY AtWork
<1>2. /\ receipts'[job.op] = [status |-> status, secrets |-> job.created]
      /\ \A n \in P!Operations : n # job.op => receipts'[n] = receipts[n]
      /\ receipts' \in [P!Operations -> [status : Statuses, secrets : P!Records]]
  BY <1>1 DEF P!Written, SecretInv, SecretTypes
<1>3. ASSUME NEW n \in P!Operations
      PROVE  SecretFile(n)'
  <2>1. CASE n = job.op
    BY <1>1, <1>2, <2>1 DEF SecretFile, Materializing, Own, Gone, Unborn, P!Lives
  <2>2. CASE n # job.op
    BY <1>2, <2>2 DEF SecretInv, SecretFiles, SecretFile, Own, Gone, Unborn, P!Lives, P!Remains
  <2>3. QED BY <2>1, <2>2
<1>4. ServedOnce'
  BY DEF SecretInv, ServedOnce, P!Lives
<1>5. QED BY <1>2, <1>3, <1>4 DEF SecretFiles

LEMMA SecretCommit ==
  ASSUME SecretInv, P!Commit, UNCHANGED gateway
  PROVE  SecretInv'
<1> USE SecretRecords DEF P!At
<1>1. /\ job.pc = "commit" /\ UNCHANGED <<P!cluster, torn>> /\ job' = P!Idle
      /\ P!Written(job.op, "materialized")
      /\ job.mode = "materialize" /\ Materializing /\ job.op \in P!Operations
      /\ gateway = "absent"
  BY AtWork, NoGateway DEF P!Commit, P!Exit
<1>2. \A l \in P!Labels : <<job.op, l>> \notin travelling
  BY <1>1 DEF Materializing, Own
<1>3. /\ SecretFiles' /\ ServedOnce'
      /\ receipts' \in [P!Operations -> [status : Statuses, secrets : P!Records]]
      /\ secrets' = secrets /\ travelling' = travelling /\ forgotten' = forgotten /\ torn' = torn
  BY <1>1, <1>2, FileWritten DEF Statuses
<1>4. QED BY <1>1, <1>3, JobEnds DEF SecretInv, SecretTypes, Covered

LEMMA SecretSettle ==
  ASSUME SecretInv, P!Settle, UNCHANGED gateway
  PROVE  SecretInv'
<1> USE SecretRecords DEF P!At
<1>1. /\ job.pc = "settle" /\ UNCHANGED <<P!cluster, torn>> /\ job' = P!Idle
      /\ P!Written(job.op, IF job.clean THEN "rolled-back" ELSE "rollback-incomplete")
      /\ job.mode = "materialize" /\ Materializing /\ job.op \in P!Operations
  BY AtWork DEF P!Settle, P!Exit
<1>2. job.clean => \A l \in P!Labels : Gone(job.op, l)
  BY <1>1 DEF Materializing
<1>3. /\ SecretFiles' /\ ServedOnce'
      /\ receipts' \in [P!Operations -> [status : Statuses, secrets : P!Records]]
      /\ secrets' = secrets /\ travelling' = travelling /\ forgotten' = forgotten /\ torn' = torn
  BY <1>1, <1>2, FileWritten DEF Statuses
<1>4. QED BY <1>1, <1>3, JobEnds DEF SecretInv, SecretTypes, Covered

LEMMA SecretCommitFails ==
  ASSUME SecretInv, P!CommitFails, UNCHANGED gateway
  PROVE  SecretInv'
<1> USE SecretRecords DEF P!At
<1>1. /\ job.pc = "commit" /\ UNCHANGED <<P!cluster, torn>> /\ P!Rollback(FALSE)
      /\ P!Written(job.op, "materialized") \/ UNCHANGED receipts
      /\ job.mode = "materialize" /\ Materializing /\ job.op \in P!Operations
      /\ gateway = "absent"
  BY AtWork, NoGateway DEF P!CommitFails
<1>2. /\ \A l \in P!Labels : <<job.op, l>> \notin travelling
      /\ job'.op = job.op
  BY <1>1 DEF Materializing, Own, P!Rollback, SecretInv, SecretTypes
<1>3. /\ SecretFiles' /\ ServedOnce'
      /\ receipts' \in [P!Operations -> [status : Statuses, secrets : P!Records]]
      /\ secrets' = secrets /\ travelling' = travelling /\ forgotten' = forgotten /\ torn' = torn
      /\ receipts'[job.op].status \in {"empty", "materialized"}
  <2>1. CASE P!Written(job.op, "materialized")
    BY <1>1, <1>2, <2>1, FileWritten DEF Statuses
  <2>2. CASE UNCHANGED receipts
    BY <1>1, <2>2, ClusterStays DEF SecretInv, SecretTypes, Materializing, P!cluster
  <2>3. QED BY <1>1, <2>1, <2>2
<1>4. \A l \in P!Labels : job.created[l] = Absent => Gone(job.op, l)'
  BY <1>1, <1>2, <1>3, Unasked DEF Gone, Unborn, P!Lives
<1>5. JobWork' /\ job' \in [pc : JobSteps, mode : {"none", "materialize", "teardown"},
                      op : 0 .. MaxOperations, created : P!Records, todo : SUBSET P!Labels,
                      clean : BOOLEAN]
  BY <1>1, <1>2, <1>3, <1>4, RollbackBegins
<1>6. QED BY <1>1, <1>3, <1>5 DEF SecretInv, SecretTypes, Covered

\* The deletion of one label, whether it succeeded or not: "clean" only if nothing
\* is left under the label.
LEMMA SecretCrossed ==
  ASSUME SecretInv, job.pc = "delete", NEW l \in P!Last, NEW clean \in BOOLEAN, P!Crossed(l, clean),
         UNCHANGED <<travelling, forgotten, receipts, torn, gateway>>,
         secrets' = secrets \/ secrets' = [secrets EXCEPT ![l] = Absent],
         clean => secrets'[l] = Absent
  PROVE  SecretInv'
<1> USE SecretRecords
<1>1. /\ l \in job.todo /\ l \in P!Labels /\ job.todo \subseteq P!Labels /\ job.op \in P!Operations
      /\ gateway = "absent"
      /\ job.mode \in {"materialize", "teardown"}
      /\ job.mode = "materialize" => Materializing
      /\ job.mode = "teardown" => TearingDown
  BY FirstIsOne, AtWork, NoGateway DEF SecretInv
<1>2. /\ secrets' \in P!Records
      /\ \A k \in P!Labels : secrets'[k] = secrets[k] \/ secrets'[k] = Absent
  BY <1>1 DEF SecretInv, SecretTypes, P!Records
<1>3. \A n \in P!Operations, k \in P!Labels :
        /\ P!Lives(n, k)' => P!Lives(n, k)
        /\ Unborn(n, k) => Unborn(n, k)'
  BY <1>2 DEF P!Lives, Unborn
<1>4. ServedOnce' /\ SecretFiles'
  BY <1>3, FilesStay DEF SecretInv, SecretTypes, ServedOnce
<1>5. /\ job'.op = job.op /\ job'.mode = job.mode /\ job'.created = job.created
      /\ job'.todo = job.todo \ {l} /\ job'.clean = (clean /\ job.clean)
      /\ job'.pc = IF job.mode = "teardown" /\ ~clean THEN "incomplete"
                   ELSE IF job.todo # {l} THEN "delete"
                   ELSE IF job.mode = "teardown" THEN "recheck" ELSE "settle"
  BY DEF P!Crossed, SecretInv, SecretTypes
<1>6. SecretTypes'
  BY <1>1, <1>2 DEF P!Crossed, SecretInv, SecretTypes, JobSteps
<1>7. CASE job.mode = "materialize"
  <2>1. Materializing
    BY <1>1, <1>7
  <2>2. job'.pc = (IF job.todo # {l} THEN "delete" ELSE "settle")
    BY <1>5, <1>7
  <2>3. Own(job.op, job.created)' /\ \A k \in job'.todo : job'.created[k] # Absent
    BY <1>1, <1>5, <2>1 DEF Own, Materializing
  <2>4. job'.clean => \A k \in P!Labels \ job'.todo : Gone(job.op, k)'
    <3>1. ASSUME job'.clean, NEW k \in P!Labels \ job'.todo
          PROVE  Gone(job.op, k)'
      <4>1. CASE k = l
        <5>1. <<job.op, l>> \notin travelling
          BY <1>1, <2>1 DEF Materializing, Own
        <5>2. QED BY <1>5, <3>1, <4>1, <5>1 DEF Gone, Unborn, P!Lives
      <4>2. CASE k # l
        BY <1>1, <1>3, <1>5, <2>1, <3>1, <4>2 DEF Materializing, Gone
      <4>3. QED BY <4>1, <4>2
    <3>2. QED BY <3>1
  <2>5. job'.pc = "settle" => job'.todo = {}
    BY <1>5, <2>2
  <2>6. Materializing'
    BY <1>5, <2>1, <2>2, <2>3, <2>4, <2>5 DEF Materializing
  <2>7. QED BY <1>1, <1>4, <1>5, <1>6, <1>7, <2>2, <2>6 DEF SecretInv, JobWork, P!At, Covered
<1>8. CASE job.mode = "teardown"
  <2>1. TearingDown
    BY <1>1, <1>8
  <2>2. clean => \A k \in P!Labels \ job'.todo : ~P!Lives(job.op, k)'
    BY <1>1, <1>3, <1>5, <2>1 DEF TearingDown, P!Lives
  <2>3. job'.pc = "recheck" => clean /\ job'.todo = {}
    BY <1>5
  <2>4. job'.pc \in {"delete", "recheck", "incomplete"} /\ (job'.pc = "delete" => clean)
    BY <1>5, <1>8
  <2>5. TearingDown'
    BY <1>5, <2>1, <2>2, <2>3, <2>4 DEF TearingDown, P!Remains, P!Lives
  <2>6. QED BY <1>1, <1>4, <1>5, <1>6, <1>8, <2>4, <2>5 DEF SecretInv, JobWork, P!At, Covered
<1>9. QED BY <1>1, <1>7, <1>8

LEMMA SecretDelete ==
  ASSUME SecretInv, P!Delete, UNCHANGED gateway
  PROVE  SecretInv'
<1>1. PICK l \in P!Last :
        \/ secrets[l] = Absent /\ UNCHANGED secrets /\ P!Crossed(l, TRUE)
        \/ /\ secrets[l] = P!Ownership[l]
           /\ secrets' = [secrets EXCEPT ![l] = Absent] /\ P!Crossed(l, TRUE)
        \/ secrets[l] \notin {Absent, P!Ownership[l]} /\ UNCHANGED secrets /\ P!Crossed(l, FALSE)
  BY DEF P!Delete
<1>2. /\ job.pc = "delete" /\ UNCHANGED <<travelling, forgotten, receipts, torn, gateway>>
      /\ [secrets EXCEPT ![l] = Absent][l] = Absent
  BY FirstIsOne DEF P!Delete, P!At, SecretInv, SecretTypes, P!Records
<1>3. QED BY <1>1, <1>2, SecretCrossed

LEMMA SecretDeleteFails ==
  ASSUME SecretInv, P!DeleteFails, UNCHANGED gateway
  PROVE  SecretInv'
<1>1. PICK l \in P!Last :
        /\ P!Crossed(l, FALSE)
        /\ \/ secrets[l] = P!Ownership[l] /\ secrets' = [secrets EXCEPT ![l] = Absent]
           \/ UNCHANGED secrets
  BY DEF P!DeleteFails
<1>2. job.pc = "delete" /\ UNCHANGED <<travelling, forgotten, receipts, torn, gateway>>
  BY DEF P!DeleteFails, P!At
<1>3. QED BY <1>1, <1>2, SecretCrossed

\* A process that ends without writing anything.
LEMMA SecretQuits ==
  ASSUME SecretInv, P!SettleFails \/ P!Kill, UNCHANGED gateway
  PROVE  SecretInv'
<1>1. job' = P!Idle /\ UNCHANGED <<P!cluster, receipts, torn>>
  BY DEF P!SettleFails, P!Kill, P!Exit
<1>2. QED BY <1>1, JobEnds, ClusterStays DEF SecretInv, SecretTypes, Covered, P!cluster

LEMMA SecretCheck ==
  ASSUME SecretInv, P!CheckUnused \/ P!Recheck, UNCHANGED gateway
  PROVE  SecretInv'
<1> USE SecretRecords DEF P!At
<1>1. /\ job.pc \in {"check", "recheck"} /\ UNCHANGED <<P!cluster, receipts, torn>>
      /\ job.mode = "teardown" /\ TearingDown /\ job.op \in P!Operations
  BY AtWork DEF P!CheckUnused, P!Recheck
<1>2. /\ job'.op = job.op /\ job'.mode = job.mode /\ job'.created = job.created
      /\ \/ job.pc = "check" /\ job'.pc = "delete" /\ job'.todo = P!Labels /\ InUse = {}
         \/ job.pc = "recheck" /\ job'.pc = "torn" /\ gateway = "absent"
         \/ job'.pc = "incomplete"
  BY <1>1, NoGateway DEF P!CheckUnused, P!Recheck, P!Goto, SecretInv, SecretTypes
<1>3. ServedOnce' /\ SecretFiles'
  BY <1>1, ClusterStays
<1>4. SecretTypes'
  BY <1>1, ClusterStays, ZenonT(60) DEF P!CheckUnused, P!Recheck, P!Goto, SecretInv, SecretTypes, JobSteps
<1>5. TearingDown'
  BY <1>1, <1>2 DEF TearingDown, P!Remains, P!Lives, P!cluster
<1>6. Covered'
  BY <1>1, <1>2 DEF SecretInv, Covered, InUse, P!cluster
<1>7. QED BY <1>1, <1>2, <1>3, <1>4, <1>5, <1>6 DEF SecretInv, JobWork

\* The teardown's own receipt.
LEMMA SecretTorn ==
  ASSUME SecretInv, P!TornDown \/ P!TornDownFails \/ P!Incomplete, UNCHANGED gateway
  PROVE  SecretInv'
<1> USE SecretRecords DEF P!At
<1>1. /\ job.pc \in {"torn", "incomplete"} /\ UNCHANGED <<P!cluster, receipts>>
      /\ job.mode = "teardown" /\ TearingDown /\ job.op \in P!Operations
      /\ SecretFile(job.op)
  BY AtWork DEF P!TornDown, P!TornDownFails, P!Incomplete, SecretInv, SecretFiles
<1>2. /\ \A n \in P!Operations : n # job.op => torn'[n] = torn[n]
      /\ \/ torn'[job.op] = "torn-down" /\ job.pc = "torn"
         \/ torn'[job.op] = torn[job.op]
         \/ torn'[job.op] = "teardown-incomplete"
      /\ torn' \in [P!Operations -> {"none", "empty", "torn-down", "teardown-incomplete"}]
  BY <1>1 DEF P!TornDown, P!TornDownFails, P!Incomplete, SecretInv, SecretTypes
<1>3. SecretFiles'
  <2>1. ASSUME NEW n \in P!Operations
        PROVE  SecretFile(n)'
    <3>1. CASE n = job.op
      BY <1>1, <1>2, <3>1 DEF SecretFile, TearingDown, Own, Gone, Unborn, P!Lives, P!Remains, P!cluster
    <3>2. CASE n # job.op
      BY <1>1, <1>2, <3>2 DEF SecretInv, SecretFiles, SecretFile, Own, Gone, Unborn, P!Lives,
         P!Remains, P!cluster
    <3>3. QED BY <3>1, <3>2
  <2>2. QED BY <2>1 DEF SecretFiles
<1>4. ServedOnce'
  BY <1>1 DEF SecretInv, ServedOnce, P!Lives, P!cluster
<1>5. \/ job' = P!Idle
      \/ job' = [job EXCEPT !.pc = "incomplete"]
  BY DEF P!TornDown, P!TornDownFails, P!Incomplete, P!Goto, P!Exit
<1>6. CASE job' = P!Idle
  BY <1>1, <1>2, <1>3, <1>4, <1>6, JobEnds DEF SecretInv, SecretTypes, Covered, P!cluster
<1>7. CASE job' = [job EXCEPT !.pc = "incomplete"]
  <2>1. SecretTypes'
    BY <1>1, <1>2, <1>7 DEF SecretInv, SecretTypes, JobSteps, P!cluster
  <2>2. /\ job'.op = job.op /\ job'.mode = job.mode /\ job'.pc = "incomplete"
    BY <1>7 DEF SecretInv, SecretTypes
  <2>3. TearingDown'
    BY <1>1, <1>2, <2>2 DEF TearingDown
  <2>4. QED BY <1>1, <1>3, <1>4, <2>1, <2>2, <2>3 DEF SecretInv, JobWork, Covered, P!cluster
<1>8. QED BY <1>5, <1>6, <1>7

LEMMA SecretRaise ==
  ASSUME SecretInv, P!Raise, UNCHANGED gateway
  PROVE  SecretInv'
<1> USE SecretRecords DEF P!At
<1>1. UNCHANGED <<secrets, travelling, receipts, torn, gateway>> /\ job.pc # "idle"
  BY DEF P!Raise
<1>2. CASE /\ job.pc \in {"preflight", "create", "look", "confirm"} /\ P!Rollback(FALSE)
           /\ forgotten' = IF job.pc = "look" THEN forgotten \cup ({job.op} \X P!First) ELSE forgotten
  <2>1. /\ job.mode = "materialize" /\ Materializing /\ job.op \in P!Operations
        /\ receipts[job.op].status = "empty" /\ P!First \subseteq P!Labels
    BY <1>1, <1>2, AtWork, FirstIsOne DEF Materializing, SecretInv
  <2>2. /\ job'.op = job.op /\ forgotten \subseteq forgotten'
        /\ forgotten' \subseteq P!Operations \X P!Labels
    BY <1>2, <2>1 DEF P!Rollback, SecretInv, SecretTypes
  <2>3. ASSUME NEW k \in P!Labels, job.created[k] = Absent
        PROVE  Gone(job.op, k)'
    <3>1. CASE job.pc = "look"
      <4>1. k \in P!First => <<job.op, k>> \in forgotten'
        BY <1>2, <3>1
      <4>2. k \notin P!First => Unborn(job.op, k)
        BY <2>1, <2>3, <3>1 DEF Materializing, Open
      <4>3. QED BY <1>1, <2>2, <4>1, <4>2 DEF Gone, Unborn, P!Lives
    <3>2. CASE job.pc # "look"
      BY <1>1, <1>2, <2>1, <2>2, <2>3, <3>2, Unasked DEF Gone, Unborn, P!Lives
    <3>3. QED BY <3>1, <3>2
  <2>4. /\ JobWork' /\ job'.mode = job.mode /\ job'.created = job.created
        /\ job'.pc \in {"delete", "settle"}
        /\ job'.pc = "delete" => \E l \in P!Labels : job.created[l] # Absent
        /\ job' \in [pc : JobSteps, mode : {"none", "materialize", "teardown"},
                     op : 0 .. MaxOperations, created : P!Records, todo : SUBSET P!Labels,
                     clean : BOOLEAN]
    BY <1>1, <1>2, <2>1, <2>3, RollbackBegins DEF Materializing, Own
  <2>5. SecretTypes' /\ ServedOnce' /\ SecretFiles'
    BY <1>1, <2>2, <2>4, FilesStay DEF SecretInv, SecretTypes, ServedOnce, Unborn, P!Lives
  <2>6. Covered'
    BY <1>1, <1>2, <2>1, <2>4 DEF SecretInv, Covered
  <2>7. QED BY <2>4, <2>5, <2>6 DEF SecretInv
<1>3. CASE /\ job.pc \in {"check", "delete", "recheck"} /\ job.mode = "teardown"
           /\ P!Goto("incomplete") /\ UNCHANGED forgotten
  <2>1. TearingDown /\ job.op \in P!Operations /\ UNCHANGED P!cluster
    BY <1>1, <1>3, AtWork DEF P!cluster
  <2>2. job'.op = job.op /\ job'.mode = job.mode /\ job'.pc = "incomplete"
    BY <1>3 DEF P!Goto, SecretInv, SecretTypes
  <2>3. SecretTypes' /\ ServedOnce' /\ SecretFiles'
    BY <1>1, <1>3, <2>1, ClusterStays DEF SecretInv, SecretTypes, JobSteps, P!Goto
  <2>4. QED BY <1>1, <1>3, <2>1, <2>2, <2>3 DEF SecretInv, JobWork, TearingDown, Covered
<1>4. QED BY <1>2, <1>3 DEF P!Raise

LEMMA SecretRaiseCreating ==
  ASSUME SecretInv, P!RaiseCreating, UNCHANGED gateway
  PROVE  SecretInv'
<1> USE SecretRecords DEF P!At
<1>1. /\ job.pc = "create" /\ UNCHANGED <<travelling, receipts, torn, gateway>>
      /\ job.mode = "materialize" /\ Materializing /\ job.op \in P!Operations
      /\ job.op \in 0 .. MaxOperations /\ gateway = "absent" /\ P!Rollback(FALSE)
      /\ receipts[job.op].status = "empty"
  BY AtWork, NoGateway DEF P!RaiseCreating, Materializing
<1>2. PICK l \in P!First :
        /\ secrets[l] = Absent /\ secrets' = [secrets EXCEPT ![l] = P!Record(job.op)]
        /\ forgotten' = forgotten \cup {<<job.op, l>>}
  BY DEF P!RaiseCreating
<1>3. l \in P!Labels /\ l \in job.todo /\ Open(l)
  BY <1>1, FirstIsOne DEF SecretInv, Materializing
<1>4. /\ secrets' \in P!Records /\ job'.op = job.op
      /\ \A k \in P!Labels : secrets'[k] = IF k = l THEN P!Record(job.op) ELSE secrets[k]
  BY <1>1, <1>2, <1>3 DEF P!Rollback, SecretInv, SecretTypes, P!Records
<1>5. \A n \in P!Operations, k \in P!Labels :
        P!Lives(n, k)' => P!Lives(n, k) \/ (n = job.op /\ k = l)
  BY <1>1, <1>4 DEF P!Lives
<1>6. ServedOnce'
  <2>1. ASSUME NEW n \in P!Operations, NEW k \in P!Labels, <<n, k>> \in travelling
        PROVE  ~P!Lives(n, k)'
    BY <1>3, <1>5, <2>1 DEF SecretInv, ServedOnce, Open, Unborn
  <2>2. QED BY <1>1, <2>1 DEF SecretInv, SecretTypes, ServedOnce
<1>7. SecretFiles'
  BY <1>1, <1>2, <1>5, FilesStay DEF SecretInv, Unborn
<1>8. \A k \in P!Labels : job.created[k] = Absent => Gone(job.op, k)'
  BY <1>1, <1>2, <1>4, <1>5, Unasked DEF Gone, Unborn
<1>9. JobWork' /\ job' \in [pc : JobSteps, mode : {"none", "materialize", "teardown"},
                     op : 0 .. MaxOperations, created : P!Records, todo : SUBSET P!Labels,
                     clean : BOOLEAN]
  BY <1>1, <1>8, RollbackBegins DEF Materializing, Own
<1>10. SecretTypes'
  BY <1>1, <1>2, <1>3, <1>4, <1>9 DEF SecretInv, SecretTypes
<1>11. QED BY <1>1, <1>6, <1>7, <1>9, <1>10 DEF SecretInv, Covered

\* What happens while no process acts: requests are served, rivals appear, Secrets
\* are edited; nothing is deleted.
LEMMA SecretAbroad ==
  ASSUME SecretInv, UNCHANGED <<forgotten, receipts, torn, job, gateway>>,
         travelling' \subseteq travelling, secrets' \in P!Records,
         \A l \in P!Labels : secrets[l] # Absent => secrets'[l] # Absent,
         \A n \in P!Operations, l \in P!Labels :
           P!Lives(n, l)' => P!Lives(n, l) \/ <<n, l>> \in travelling \ travelling'
  PROVE  SecretInv'
<1> USE SecretRecords
<1>1. \A n \in P!Operations, l \in P!Labels :
        /\ Unborn(n, l) => Unborn(n, l)'
        /\ Gone(n, l) => Gone(n, l)'
        /\ <<n, l>> \notin travelling /\ ~P!Lives(n, l) => ~P!Lives(n, l)'
  BY DEF Unborn, Gone
<1>2. SecretTypes'
  BY DEF SecretInv, SecretTypes
<1>3. ServedOnce'
  <2>1. ASSUME NEW n \in P!Operations, NEW l \in P!Labels, <<n, l>> \in travelling'
        PROVE  ~P!Lives(n, l)'
    BY <2>1 DEF SecretInv, ServedOnce
  <2>2. QED BY <1>2, <2>1 DEF SecretTypes, ServedOnce
<1>4. SecretFiles'
  BY <1>1, FilesStay DEF SecretInv
<1>5. JobWork'
  <2>1. CASE P!At("idle")
    BY <2>1 DEF SecretInv, JobWork, P!At
  <2>2. CASE ~P!At("idle")
    <3>1. job.op \in P!Operations /\ P!First' = P!First /\ job.todo \subseteq P!Labels
      BY <2>2, AtWork DEF P!At, P!First, SecretInv, SecretTypes
    <3>2. Materializing => Materializing'
      <4>1. \A l \in P!Labels : Open(l) => Open(l)'
        BY <1>1, <3>1 DEF Open
      <4>2. Own(job.op, job.created) => Own(job.op, job.created)'
        BY <3>1 DEF Own
      <4>3. \A l \in P!Labels : Gone(job.op, l) => Gone(job.op, l)'
        BY <1>1, <3>1
      <4>4. QED BY <3>1, <4>1, <4>2, <4>3, FirstIsOne DEF Materializing, SecretInv
    <3>3. TearingDown => TearingDown'
      <4>1. ASSUME TearingDown, NEW l \in P!Labels
            PROVE  <<job.op, l>> \notin travelling
        BY <3>1, <4>1 DEF TearingDown, SecretInv, SecretFiles, SecretFile
      <4>2. QED BY <1>1, <3>1, <4>1 DEF TearingDown, P!Remains
    <3>4. QED BY <2>2, <3>2, <3>3 DEF SecretInv, JobWork, P!At
  <2>3. QED BY <2>1, <2>2
<1>6. Covered'
  BY DEF SecretInv, Covered
<1>7. QED BY <1>2, <1>3, <1>4, <1>5, <1>6 DEF SecretInv

LEMMA SecretServeLate ==
  ASSUME SecretInv, P!ServeLate, UNCHANGED gateway
  PROVE  SecretInv'
<1> USE SecretRecords
<1>1. PICK r \in travelling :
        /\ travelling' = travelling \ {r}
        /\ IF secrets[r[2]] = Absent
           THEN secrets' = [secrets EXCEPT ![r[2]] = P!Record(r[1])]
           ELSE UNCHANGED secrets
        /\ UNCHANGED <<forgotten, receipts, torn, job, outcome>>
  BY DEF P!ServeLate
<1>2. PICK m \in P!Operations, k \in P!Labels : r = <<m, k>>
  BY DEF SecretInv, SecretTypes
<1>3. m \in 0 .. MaxOperations /\ P!Record(m) \in P!Identities
  OBVIOUS
<1>4. CASE secrets[k] = Absent
  <2>0. secrets' = [secrets EXCEPT ![k] = P!Record(m)] /\ secrets \in P!Records
    <3>1. r[1] = m /\ r[2] = k
      BY <1>2
    <3>2. QED BY <1>1, <1>4, <3>1 DEF SecretInv, SecretTypes
  <2>1. /\ secrets' \in P!Records
        /\ \A l \in P!Labels : secrets'[l] = IF l = k THEN P!Record(m) ELSE secrets[l]
    BY <1>3, <2>0 DEF P!Records
  <2>2. \A n \in P!Operations, l \in P!Labels :
          P!Lives(n, l)' => P!Lives(n, l) \/ <<n, l>> \in travelling \ travelling'
    BY <1>1, <1>2, <1>3, <2>1 DEF P!Lives
  <2>3. QED BY <1>1, <1>3, <2>1, <2>2, SecretAbroad
<1>5. CASE secrets[k] # Absent
  BY <1>1, <1>2, <1>5, SecretAbroad DEF P!Lives, SecretInv, SecretTypes
<1>6. QED BY <1>4, <1>5

LEMMA SecretInterfere ==
  ASSUME SecretInv, P!Interfere, UNCHANGED gateway
  PROVE  SecretInv'
<1> USE SecretRecords
<1>1. PICK k \in P!Labels :
        \/ secrets[k] = Absent /\ secrets' = [secrets EXCEPT ![k] = P!Record(P!Rival)]
        \/ /\ secrets[k] # Absent /\ secrets[k].version = 0
           /\ secrets' = [secrets EXCEPT ![k].version = 1]
  BY DEF P!Interfere
<1>2. PICK i \in P!Identities :
        /\ secrets' = [secrets EXCEPT ![k] = i] /\ i # Absent
        /\ i.nonce \in P!Operations => secrets[k] # Absent /\ secrets[k].nonce = i.nonce
  <2>1. CASE secrets[k] = Absent /\ secrets' = [secrets EXCEPT ![k] = P!Record(P!Rival)]
    <3>1. P!Record(P!Rival) \in P!Identities /\ P!Record(P!Rival).nonce = 0
      BY DEF P!Rival, P!Record, P!Identities
    <3>2. P!Record(P!Rival).nonce \notin P!Operations
      BY <3>1 DEF P!Operations
    <3>3. QED BY <2>1, <3>1, <3>2
  <2>2. CASE secrets[k] # Absent /\ secrets' = [secrets EXCEPT ![k].version = 1]
    <3>1. secrets[k] \in P!Identities
      BY <2>2 DEF SecretInv, SecretTypes, P!Records
    <3>2. [secrets[k] EXCEPT !.version = 1] \in P!Identities
      BY <3>1 DEF P!Identities
    <3>3. [secrets[k] EXCEPT !.version = 1].nonce = secrets[k].nonce
      BY <3>1 DEF P!Identities
    <3>4. QED BY <2>2, <3>1, <3>2, <3>3
  <2>3. QED BY <1>1, <2>1, <2>2
<1>3. /\ secrets' \in P!Records
      /\ \A l \in P!Labels : secrets'[l] = IF l = k THEN i ELSE secrets[l]
  BY <1>2 DEF SecretInv, SecretTypes, P!Records
<1>4. \A n \in P!Operations, l \in P!Labels : P!Lives(n, l)' => P!Lives(n, l)
  BY <1>2, <1>3 DEF P!Lives
<1>5. UNCHANGED <<travelling, forgotten, receipts, torn, job, gateway>>
  BY DEF P!Interfere
<1>6. QED BY <1>2, <1>3, <1>4, <1>5, SecretAbroad

LEMMA SecretStartMaterialize ==
  ASSUME SecretInv, NEW n \in P!Operations, P!StartMaterialize(n), UNCHANGED gateway
  PROVE  SecretInv'
<1> USE SecretRecords DEF P!At, P!cluster
<1>1. /\ receipts[n] = P!NoReceipt /\ receipts' = [receipts EXCEPT ![n].status = "empty"]
      /\ job' = [P!Idle EXCEPT !.pc = "preflight", !.mode = "materialize", !.op = n]
      /\ UNCHANGED <<secrets, travelling, forgotten, torn>>
  BY DEF P!StartMaterialize
<1>2. SecretFile(n) /\ n \in 0 .. MaxOperations /\ (\A l \in P!Labels : Unborn(n, l)) /\ torn[n] = "none"
  BY <1>1 DEF SecretInv, SecretFiles, SecretFile, SecretTypes, P!NoReceipt
<1>3. /\ receipts' \in [P!Operations -> [status : Statuses, secrets : P!Records]]
      /\ receipts'[n].status = "empty"
      /\ \A m \in P!Operations : m # n => receipts'[m] = receipts[m]
  BY <1>1, SMTT(40) DEF SecretInv, SecretTypes, Statuses
<1>4. SecretFiles'
  <2>1. ASSUME NEW m \in P!Operations
        PROVE  SecretFile(m)'
    <3>1. CASE m = n
      BY <1>1, <1>2, <1>3, <3>1 DEF SecretFile
    <3>2. CASE m # n
      BY <1>1, <1>3, <3>2 DEF SecretInv, SecretFiles, SecretFile, Own, Gone, Unborn, P!Lives, P!Remains
    <3>3. QED BY <3>1, <3>2
  <2>2. QED BY <2>1 DEF SecretFiles
<1>5. /\ job'.pc = "preflight" /\ job'.mode = "materialize" /\ job'.op = n
      /\ job'.created = P!NoRecord
  BY <1>1 DEF P!Idle
<1>6. SecretTypes' /\ ServedOnce'
  BY <1>1, <1>2, <1>3 DEF SecretInv, SecretTypes, ServedOnce, P!Lives, P!Idle, JobSteps
<1>7. Materializing'
  BY <1>1, <1>2, <1>3, <1>5 DEF Materializing, Own, Open, Unborn, P!Lives
<1>8. QED BY <1>1, <1>4, <1>5, <1>6, <1>7 DEF SecretInv, JobWork, Covered

LEMMA SecretStartTeardown ==
  ASSUME SecretInv, NEW n \in P!Operations, P!StartTeardown(n), UNCHANGED gateway
  PROVE  SecretInv'
<1> USE SecretRecords DEF P!At, P!cluster
<1>1. /\ receipts[n].status = "materialized" /\ torn[n] # "torn-down"
      /\ torn' = [torn EXCEPT ![n] = "empty"]
      /\ job' = [P!Idle EXCEPT !.pc = "check", !.mode = "teardown", !.op = n]
      /\ UNCHANGED <<secrets, travelling, forgotten, receipts>>
  BY DEF P!StartTeardown
<1>2. SecretFile(n) /\ n \in 0 .. MaxOperations
  BY DEF SecretInv, SecretFiles
<1>3. /\ torn' \in [P!Operations -> {"none", "empty", "torn-down", "teardown-incomplete"}]
      /\ torn'[n] = "empty"
      /\ \A m \in P!Operations : m # n => torn'[m] = torn[m]
  BY <1>1 DEF SecretInv, SecretTypes
<1>4. SecretFiles'
  <2>1. ASSUME NEW m \in P!Operations
        PROVE  SecretFile(m)'
    BY <1>1, <1>2, <1>3 DEF SecretInv, SecretFiles, SecretFile, Own, Gone, Unborn, P!Lives, P!Remains
  <2>2. QED BY <2>1 DEF SecretFiles
<1>5. job'.pc = "check" /\ job'.mode = "teardown" /\ job'.op = n
  BY <1>1 DEF P!Idle
<1>6. SecretTypes' /\ ServedOnce'
  BY <1>1, <1>2, <1>3 DEF SecretInv, SecretTypes, ServedOnce, P!Lives, P!Idle, JobSteps
<1>7. TearingDown'
  BY <1>1, <1>3, <1>5 DEF TearingDown
<1>8. QED BY <1>1, <1>4, <1>5, <1>6, <1>7 DEF SecretInv, JobWork, Covered

LEMMA SecretUnchanged ==
  ASSUME SecretInv, UNCHANGED participant, UNCHANGED gateway
  PROVE  SecretInv'
<1>1. secrets' \in P!Records
  BY DEF participant, SecretInv, SecretTypes
<1>2. QED BY <1>1, SecretAbroad DEF participant, P!Lives

LEMMA SecretStep ==
  ASSUME SecretInv, UNCHANGED gateway,
         \/ \E n \in P!Operations : P!StartMaterialize(n) \/ P!StartTeardown(n)
         \/ P!Proceed \/ P!Fail \/ P!Raise \/ P!RaiseCreating \/ P!Kill
         \/ P!ServeLate \/ P!Interfere \/ UNCHANGED participant
  PROVE  SecretInv'
<1>1. CASE \E n \in P!Operations : P!StartMaterialize(n) \/ P!StartTeardown(n)
  BY <1>1, SecretStartMaterialize, SecretStartTeardown
<1>2. CASE P!Proceed
  BY <1>2, SecretPreflight, SecretCreate, SecretLook, SecretConfirm, SecretCommit, SecretDelete,
     SecretSettle, SecretCheck, SecretTorn DEF P!Proceed
<1>3. CASE P!Fail
  BY <1>3, SecretCreateUnanswered, SecretCommitFails, SecretDeleteFails, SecretQuits, SecretTorn
     DEF P!Fail
<1>4. CASE P!Raise \/ P!RaiseCreating \/ P!Kill
  BY <1>4, SecretRaise, SecretRaiseCreating, SecretQuits
<1>5. CASE P!ServeLate \/ P!Interfere
  BY <1>5, SecretServeLate, SecretInterfere
<1>6. CASE UNCHANGED participant
  BY <1>6, SecretUnchanged
<1>7. QED BY <1>1, <1>2, <1>3, <1>4, <1>5, <1>6

LEMMA SecretInitially == Init => SecretInv
<1> SUFFICES ASSUME Init PROVE SecretInv
  OBVIOUS
<1> USE SecretRecords DEF P!At
<1>1. SecretTypes
  <2>1. secrets \in P!Records
    <3>1. Past => 1 \in 0 .. MaxOperations
      BY ChainConstants DEF ChainConstants, Past, Init
    <3>2. QED BY <3>1 DEF Init, P!Records
  <2>2. QED BY <2>1 DEF Init, SecretTypes, P!Idle, P!NoReceipt, JobSteps, Statuses
<1>2. ServedOnce
  BY DEF Init, ServedOnce
<1>3. SecretFiles
  BY DEF Init, SecretFiles, SecretFile, P!NoReceipt, Own, Unborn, P!Lives
<1>4. JobWork /\ Covered
  <2>1. job = P!Idle /\ job.pc = "idle" /\ gateway = "absent"
    BY DEF Init, P!Idle
  <2>2. QED BY <2>1 DEF JobWork, Covered
<1>5. QED BY <1>1, <1>2, <1>3, <1>4 DEF SecretInv

-----
\* The wrapper: every action of its own

\* The two programs run when the wrapper waits for them, and only then.
LEMMA WhoRuns ==
  ASSUME SecretInv, IssuerInv, WrapperInv
  PROVE  /\ job.pc # "idle" => /\ w.at \in {"materializing", "unmaking"} /\ w.op = job.op
                               /\ w.op \in P!Operations
         /\ process.pc # "idle" => w.at = "issuing"
         /\ job.pc = "idle" => job.mode = "none"
BY DEF WrapperInv, Chained, At, P!At, I!At, SecretInv, JobWork, P!Idle

\* A step of a program that stays at work or ends.
LEMMA JobGoesOn ==
  ASSUME SecretTypes,
         P!Proceed \/ P!Fail \/ P!Raise \/ P!RaiseCreating \/ P!Kill
  PROVE  /\ job.pc # "idle"
         /\ job' = P!Idle \/ (job'.op = job.op /\ job'.mode = job.mode)
<1>1. CASE P!Proceed
  BY <1>1 DEF P!Proceed, P!Preflight, P!Create, P!Look, P!Confirm, P!Commit, P!Delete, P!Settle,
     P!CheckUnused, P!Recheck, P!TornDown, P!Incomplete, P!At, P!Goto, P!Exit, P!Rollback, P!Learn,
     P!Crossed, SecretTypes
<1>2. CASE P!Fail
  BY <1>2 DEF P!Fail, P!CreateUnanswered, P!CommitFails, P!DeleteFails, P!SettleFails,
     P!TornDownFails, P!At, P!Goto, P!Exit, P!Rollback, P!Crossed, SecretTypes
<1>3. CASE P!Raise \/ P!RaiseCreating \/ P!Kill
  BY <1>3 DEF P!Raise, P!RaiseCreating, P!Kill, P!At, P!Goto, P!Exit, P!Rollback, SecretTypes
<1>4. QED BY <1>1, <1>2, <1>3, SMTT(40)

LEMMA ProcessGoesOn ==
  ASSUME I!Proceed \/ I!Fail
  PROVE  process.pc # "idle"
BY DEF I!Proceed, I!DryRun, I!Reserve, I!OpenJournal, I!Intend, I!Create, I!Look, I!NoteConflict,
   I!NoteObserved, I!Prepare, I!Publish, I!NoteCommitted, I!ReadJournal, I!Adopt, I!Fail,
   I!CreateUnanswered, I!PublishFails, I!Stop, I!At

\* While a program is at work, the wrapper's part says little: it holds
\* whatever the program does, and when the time is over.
LEMMA WrapperWaits ==
  ASSUME WrapperInv, w.at \in {"materializing", "unmaking", "issuing"},
         UNCHANGED <<dormant, boot, gateway, evidence>>,
         w' = w \/ w' = [w EXCEPT !.stopping = TRUE, !.blind = TRUE],
         \/ job'.pc = "idle"
         \/ job.pc # "idle" /\ job'.op = job.op /\ job'.mode = job.mode,
         process'.pc = "idle" \/ process.pc # "idle"
  PROVE  WrapperInv'
<1>1. /\ w'.at = w.at /\ w'.mode = w.mode /\ w'.op = w.op /\ w'.activated = w.activated
      /\ w'.succeeded = w.succeeded /\ w'.torndown = w.torndown /\ w'.undone = w.undone
      /\ w'.base = w.base /\ w'.found = w.found /\ w' \in Memory
      /\ w'.stopping => w'.blind
  BY ZenonT(60) DEF WrapperInv, WrapperTypes, Memory, Chained, At
<1>2. WrapperTypes'
  BY <1>1 DEF WrapperInv, WrapperTypes
<1>3. Chained'
  BY <1>1 DEF WrapperInv, Chained, At, P!At, I!At
<1>4. FluxTraced'
  BY <1>1 DEF WrapperInv, FluxTraced, Plain, Early, Midway, Late
<1>5. SecretsTraced' /\ Outcome' /\ Told'
  BY <1>1 DEF WrapperInv, SecretsTraced, Outcome, Told, Committed, At, FluxTraced, Plain, Early,
     Midway, Late
<1>6. QED BY <1>2, <1>3, <1>4, <1>5 DEF WrapperInv

\* Nobody runs, and nothing that the wrapper's part is about changes.
LEMMA WrapperUnchanged ==
  ASSUME WrapperInv,
         UNCHANGED <<dormant, boot, gateway, w, evidence, receipts, torn, job, receipt, process>>
  PROVE  WrapperInv'
BY DEF WrapperInv, WrapperTypes, Chained, FluxTraced, Plain, Traced, SecretsTraced, Outcome,
   Achieved, Told, Committed, At, P!At, I!At, I!Published

\* The launch is lost, and what it would have said with it.
LEMMA WrapperHostLost ==
  ASSUME SecretInv, IssuerInv, WrapperInv, HostLost
  PROVE  WrapperInv'
<1>1. /\ w' = NotRunning /\ w.at # "idle"
      /\ UNCHANGED <<dormant, boot, gateway, evidence>>
      /\ job'.pc = "idle" /\ process'.pc = "idle"
  BY DEF HostLost, At, flux, P!At, I!At, P!Kill, I!Stop, P!Exit, I!Exit, P!Idle, I!Idle,
     participant, issuer
<1>2. evidence = NoEvidence
  BY <1>1 DEF WrapperInv, Chained, At
<1>3. w' \in Memory /\ w'.at = "idle" /\ ~w'.succeeded /\ w'.mode = "none"
  BY <1>1, IssuerRecords DEF NotRunning, Memory, NotThere, Facts, Bases
<1>4. WrapperTypes' /\ Chained' /\ FluxTraced'
  BY <1>1, <1>3 DEF WrapperInv, WrapperTypes, Chained, FluxTraced, At, P!At, I!At, Early, Midway, Late
<1>5. SecretsTraced' /\ Outcome' /\ Told'
  BY <1>1, <1>2, <1>3 DEF SecretsTraced, Outcome, Told, Committed, NoEvidence
<1>6. QED BY <1>4, <1>5 DEF WrapperInv

LEMMA WrapperLaunch ==
  ASSUME SecretInv, IssuerInv, WrapperInv,
         NEW m \in Modes, NEW n \in 0 .. MaxOperations, Launch(m, n)
  PROVE  WrapperInv'
<1>1. /\ w' = [NotRunning EXCEPT !.at = "prepare", !.mode = m, !.op = n,
                                 !.found = [dormant |-> dormant, gateway |-> gateway]]
      /\ evidence' = NoEvidence /\ w.at = "idle" /\ Admitted(m, n)
      /\ UNCHANGED <<dormant, boot, gateway, job, process, receipts, torn, receipt>>
  BY DEF Launch, At, children, participant, issuer, flux
<1>2. job.pc = "idle" /\ process.pc = "idle"
  BY <1>1, WhoRuns
<1>3. /\ w'.at = "prepare" /\ w'.mode = m /\ w'.op = n /\ ~w'.activated /\ ~w'.succeeded
      /\ ~w'.torndown /\ ~w'.undone /\ w'.base = "blocked" /\ ~w'.stopping
      /\ w'.found = [dormant |-> dormant, gateway |-> gateway]
  BY <1>1 DEF NotRunning
<1>4. w' \in Memory
  <2>1. [dormant |-> dormant, gateway |-> gateway] \in Facts
    BY DEF Facts, WrapperInv, WrapperTypes
  <2>2. "prepare" \in {"idle"} \cup Early \cup Midway \cup Late /\ "blocked" \in Bases
    BY DEF Early, Bases
  <2>3. QED BY <1>1, <2>1, <2>2 DEF NotRunning, Memory
<1>5. /\ m # "teardown-dormant" => n \in P!Operations
      /\ m = "fresh" => receipts[n] = P!NoReceipt
  <2>1. CASE m = "fresh"
    <3>1. n \in P!Operations /\ FirstUnused(n, [k \in P!Operations |-> receipts[k] # P!NoReceipt])
      BY <1>1, <2>1 DEF Admitted
    <3>2. n \in 1 .. n /\ ~(n < n)
      BY <3>1, IssuerRecords
    <3>3. QED BY <2>1, <3>1, <3>2 DEF FirstUnused
  <2>2. CASE m \in {"reuse", "continue"}
    <3>1. n = 1 /\ n \in 0 .. MaxOperations
      BY <1>1, <2>2 DEF Admitted
    <3>2. QED BY <2>2, <3>1, IssuerRecords
  <2>3. CASE m \in {"teardown-secrets", "issuer-materialize", "issuer-recover"}
    BY <1>1, <2>3, IssuerRecords DEF Admitted
  <2>4. QED BY <2>1, <2>2, <2>3 DEF Modes
<1>6. m = "fresh" => receipts[n].status = "none"
  BY <1>5, IssuerRecords DEF P!NoReceipt
<1>7. WrapperTypes'
  BY <1>1, <1>4, IssuerRecords DEF WrapperInv, WrapperTypes, NoEvidence, NotThere, Facts
<1>8. Chained'
  BY <1>1, <1>2, <1>3, <1>5 DEF Chained, At, P!At, I!At
<1>9. FluxTraced' /\ SecretsTraced' /\ Outcome' /\ Told'
  BY <1>1, <1>3, <1>6 DEF FluxTraced, Plain, SecretsTraced, Outcome, Told, Committed, At, Early,
     Midway, Late
<1>10. QED BY <1>7, <1>8, <1>9 DEF WrapperInv

LEMMA WrapperPrepare ==
  ASSUME SecretInv, IssuerInv, WrapperInv, Prepare
  PROVE  WrapperInv'
<1>1. /\ w.at = "prepare" /\ w.mode \in Modes
      /\ \/ w' = [w EXCEPT !.at = First(w.mode), !.transport = TRUE]
         \/ w' = [w EXCEPT !.at = "closing"]
      /\ UNCHANGED <<dormant, boot, gateway, evidence, job, process, receipts, torn, receipt>>
  BY DEF Prepare, At, Goto, children, participant, issuer, flux, WrapperInv, Chained
<1>2. job.pc = "idle" /\ process.pc = "idle"
  BY <1>1, WhoRuns
<1>3. /\ First(w.mode) \in Early \cup Midway
      /\ First(w.mode) \in {"materialize", "boot", "decide", "unboot", "unmake", "issue"}
      /\ First(w.mode) = "materialize" => w.mode = "fresh"
      /\ First(w.mode) = "unmake" => w.mode = "teardown-secrets"
      /\ First(w.mode) = "unboot" => w.mode = "teardown-dormant"
      /\ First(w.mode) = "boot" => w.mode = "reuse"
      /\ First(w.mode) = "decide" => w.mode = "continue"
      /\ First(w.mode) = "issue" => w.mode \in {"issuer-materialize", "issuer-recover"}
  BY <1>1 DEF First, Modes, Early, Midway
<1>4. /\ w' \in Memory /\ w'.mode = w.mode /\ w'.op = w.op /\ w'.stopping = w.stopping
      /\ w'.blind = w.blind /\ w'.base = w.base /\ w'.activated = w.activated
      /\ w'.succeeded = w.succeeded /\ w'.torndown = w.torndown /\ w'.undone = w.undone
      /\ w'.found = w.found /\ w'.secreted = w.secreted
      /\ w'.at = First(w.mode) \/ w'.at = "closing"
  BY <1>1, <1>3, ZenonT(60) DEF WrapperInv, WrapperTypes, Memory, Late
<1>5. WrapperTypes'
  BY <1>1, <1>4 DEF WrapperInv, WrapperTypes
<1>6. Chained'
  BY <1>1, <1>2, <1>3, <1>4 DEF WrapperInv, Chained, At, P!At, I!At
<1>7. FluxTraced'
  BY <1>1, <1>3, <1>4 DEF WrapperInv, FluxTraced, Plain, Early, Midway, Late, At
<1>8. SecretsTraced'
  BY <1>1, <1>3, <1>4 DEF WrapperInv, SecretsTraced, Early, Midway, Late
<1>9. Outcome' /\ Told'
  BY <1>1, <1>3, <1>4 DEF WrapperInv, Outcome, Told, Committed, FluxTraced, Plain, Early, At
<1>10. QED BY <1>5, <1>6, <1>7, <1>8, <1>9 DEF WrapperInv

LEMMA WrapperSpawn ==
  ASSUME SecretInv, IssuerInv, WrapperInv, Spawn \/ SpawnTeardown
  PROVE  WrapperInv'
<1>1. /\ w.at \in {"materialize", "issue", "unmake"} /\ w.mode \in Modes
      /\ w.op \in P!Operations
      /\ w.at = "materialize" => w.mode = "fresh"
      /\ w.at = "issue" => w.mode \in {"issuer-materialize", "issuer-recover"}
      /\ w.at = "unmake" => w.mode = "teardown-secrets"
      /\ job.pc = "idle" /\ process.pc = "idle"
      /\ UNCHANGED <<dormant, boot, gateway, evidence, receipt>>
  BY WhoRuns DEF Spawn, SpawnTeardown, At, flux, WrapperInv, Chained, issuer, I!StartMaterialize,
     I!StartRecovery, I!Start
<1>2. /\ w' = [w EXCEPT !.at = w'.at]
      /\ \/ /\ w.at = "materialize" /\ w'.at = "materializing" /\ UNCHANGED <<torn, process>>
            /\ job'.op = w.op /\ job'.mode = "materialize"
         \/ /\ w.at = "issue" /\ w'.at = "issuing" /\ UNCHANGED <<receipts, torn, job>>
         \/ /\ w.at = "unmake" /\ w'.at = "unmaking" /\ UNCHANGED <<receipts, process>>
            /\ job'.op = w.op /\ job'.mode = "teardown"
         \/ w'.at = "closing" /\ UNCHANGED <<receipts, torn, job, process>>
  <2>0. \A x \in {"materializing", "issuing", "unmaking", "closing"} :
          Goto(x) => w'.at = x /\ w' = [w EXCEPT !.at = w'.at]
    BY DEF Goto, WrapperInv, WrapperTypes, Memory
  <2>1. CASE Spawn /\ w.mode = "fresh"
    BY <1>1, <2>0, <2>1 DEF Spawn, P!StartMaterialize, participant, issuer, P!Idle
  <2>2. CASE Spawn /\ w.mode \in {"issuer-materialize", "issuer-recover"}
    BY <1>1, <2>0, <2>2 DEF Spawn, participant, issuer
  <2>3. CASE SpawnTeardown
    BY <1>1, <2>0, <2>3 DEF SpawnTeardown, P!StartTeardown, participant, issuer, P!Idle, At
  <2>4. QED BY <1>1, <2>1, <2>2, <2>3 DEF Spawn, SpawnTeardown, At
<1>3. /\ w' \in Memory /\ w'.mode = w.mode /\ w'.op = w.op /\ w'.stopping = w.stopping
      /\ w'.blind = w.blind /\ w'.base = w.base /\ w'.activated = w.activated
      /\ w'.succeeded = w.succeeded /\ w'.torndown = w.torndown /\ w'.undone = w.undone
      /\ w'.found = w.found /\ w'.secreted = w.secreted
  <2>1. w'.at \in Early \cup Late
    BY <1>2 DEF Early, Late
  <2>2. QED BY <1>2, <2>1 DEF WrapperInv, WrapperTypes, Memory
<1>4. WrapperTypes'
  BY <1>1, <1>3 DEF WrapperInv, WrapperTypes
<1>5. Chained'
  BY <1>1, <1>2, <1>3 DEF WrapperInv, Chained, At, P!At, I!At
<1>6. FluxTraced'
  BY <1>1, <1>2, <1>3 DEF WrapperInv, FluxTraced, Plain, Early, Midway, Late, At
<1>7. SecretsTraced'
  BY <1>1, <1>2, <1>3 DEF WrapperInv, SecretsTraced, Early, Midway, Late
<1>8. Outcome' /\ Told'
  BY <1>1, <1>2, <1>3 DEF WrapperInv, Outcome, Told, Committed, FluxTraced, Plain, Early, At
<1>9. QED BY <1>4, <1>5, <1>6, <1>7, <1>8 DEF WrapperInv

\* The wrapper goes on, with neither program at work: what is left to show.
LEMMA WrapperMoves ==
  ASSUME SecretInv, IssuerInv, WrapperInv, job.pc = "idle", process.pc = "idle",
         w.at # "idle", UNCHANGED <<evidence, job, process, receipts, torn, receipt>>,
         dormant' \in {"absent", "part", "ready", "active"}, gateway' \in {"absent", "part", "active"},
         boot' \in {"none", "historical", "dormant-ready", "rolled-back", "rollback-incomplete",
                    "empty"},
         w' \in Memory, w'.at \in {"boot"} \cup Midway \cup Late, w'.mode = w.mode, w'.op = w.op,
         w'.stopping = w.stopping, w.blind => w'.blind, FluxTraced', SecretsTraced', Outcome'
  PROVE  WrapperInv'
<1>1. WrapperTypes'
  BY DEF WrapperInv, WrapperTypes
<1>2. Chained'
  BY DEF WrapperInv, Chained, At, P!At, I!At, Midway, Late
<1>3. Told'
  BY DEF Told, Committed, At, Midway, Late
<1>4. QED BY <1>1, <1>2, <1>3 DEF WrapperInv

LEMMA WrapperJudgeSecrets ==
  ASSUME SecretInv, IssuerInv, WrapperInv, JudgeSecrets
  PROVE  WrapperInv'
<1>1. /\ w.at = "materializing" /\ job.pc = "idle" /\ process.pc = "idle" /\ w.mode = "fresh"
      /\ UNCHANGED <<dormant, boot, gateway, evidence, job, process, receipts, torn, receipt>>
  BY WhoRuns, SMTT(40) DEF JudgeSecrets, At, P!At, children, participant, issuer, flux, WrapperInv, Chained
<1>2. /\ w'.mode = w.mode /\ w'.op = w.op /\ w'.stopping = w.stopping /\ w'.base = w.base
      /\ w'.activated = w.activated /\ w'.succeeded = w.succeeded /\ w'.torndown = w.torndown
      /\ w'.undone = w.undone /\ w'.found = w.found /\ w'.at \in {"boot", "closing"}
      /\ w'.secreted \in BOOLEAN /\ w' \in Memory
      /\ w.blind => w'.blind
      /\ w'.blind \/ w'.secreted \/ receipts[w.op].status # "materialized"
  <2>1. w \in Memory /\ (w.stopping => w.blind) /\ {"boot", "closing"} \subseteq Early \cup Late
    BY <1>1 DEF WrapperInv, WrapperTypes, Chained, At, Early, Late
  <2>2. \/ w.stopping /\ w' = [w EXCEPT !.at = "closing"]
        \/ \E ok \in BOOLEAN : /\ ok <=> receipts[w.op].status = "materialized"
                              /\ w' = [w EXCEPT !.secreted = ok,
                                     !.at = IF ok /\ outcome = 0 THEN "boot" ELSE "closing"]
        \/ w' = [w EXCEPT !.at = "closing", !.blind = TRUE]
    BY DEF JudgeSecrets, Goto, Verified
  <2>3. CASE w.stopping /\ w' = [w EXCEPT !.at = "closing"]
    BY <2>1, <2>3 DEF Memory
  <2>4. CASE \E ok \in BOOLEAN, a \in {"boot", "closing"} :
               /\ ok <=> receipts[w.op].status = "materialized"
               /\ w' = [w EXCEPT !.secreted = ok, !.at = a]
    <3>1. PICK ok \in BOOLEAN, a \in {"boot", "closing"} :
            /\ ok <=> receipts[w.op].status = "materialized"
            /\ w' = [w EXCEPT !.secreted = ok, !.at = a]
      BY <2>4
    <3>2. QED BY <2>1, <3>1 DEF Memory
  <2>5. CASE w' = [w EXCEPT !.at = "closing", !.blind = TRUE]
    BY <2>1, <2>5 DEF Memory
  <2>6. QED BY <2>2, <2>3, <2>4, <2>5
<1>3. FluxTraced'
  BY <1>1, <1>2 DEF WrapperInv, FluxTraced, Plain, Early, Midway, Late
<1>4. SecretsTraced' /\ Outcome'
  BY <1>1, <1>2 DEF WrapperInv, SecretsTraced, Outcome, FluxTraced, Plain, Early, Midway, Late
<1>5. QED BY <1>1, <1>2, <1>3, <1>4, WrapperMoves DEF WrapperInv, WrapperTypes, Late

LEMMA WrapperJudgeTeardown ==
  ASSUME SecretInv, IssuerInv, WrapperInv, JudgeTeardown
  PROVE  WrapperInv'
<1>1. /\ w.at = "unmaking" /\ job.pc = "idle" /\ process.pc = "idle"
      /\ w.mode = "teardown-secrets" /\ w.op \in P!Operations
      /\ UNCHANGED <<dormant, boot, gateway, evidence, job, process, receipts, torn, receipt>>
  BY WhoRuns DEF JudgeTeardown, At, P!At, children, participant, issuer, flux, WrapperInv, Chained
<1>2. /\ w'.mode = w.mode /\ w'.op = w.op /\ w'.stopping = w.stopping
      /\ w'.activated = w.activated /\ w'.torndown = w.torndown
      /\ w'.found = w.found /\ w'.at = "closing" /\ w' \in Memory
      /\ w.blind => w'.blind
      /\ \/ w'.succeeded = w.succeeded /\ w'.base = w.base
         \/ /\ w'.succeeded /\ w'.base = "participant-secrets-torn-down"
            /\ torn[w.op] = "torn-down"
  <2>1. w \in Memory /\ "closing" \in Late /\ "participant-secrets-torn-down" \in Bases
    BY DEF WrapperInv, WrapperTypes, Late, Bases, Ends
  <2>2. \/ /\ torn[w.op] = "torn-down"
           /\ w' = [w EXCEPT !.at = "closing", !.undone = TRUE, !.succeeded = TRUE,
                             !.base = "participant-secrets-torn-down", !.tidy = outcome = 0]
        \/ w' = [w EXCEPT !.at = "closing"]
        \/ w' = [w EXCEPT !.at = "closing", !.blind = TRUE]
    BY DEF JudgeTeardown, Goto, Verified
  <2>3. CASE w' = [w EXCEPT !.at = "closing"]
    BY <2>1, <2>3 DEF Memory
  <2>4. CASE w' = [w EXCEPT !.at = "closing", !.blind = TRUE]
    BY <2>1, <2>4 DEF Memory
  <2>5. CASE /\ torn[w.op] = "torn-down"
             /\ w' = [w EXCEPT !.at = "closing", !.undone = TRUE, !.succeeded = TRUE,
                               !.base = "participant-secrets-torn-down", !.tidy = outcome = 0]
    BY <2>1, <2>5 DEF Memory
  <2>6. QED BY <2>2, <2>3, <2>4, <2>5
<1>3. FluxTraced'
  BY <1>1, <1>2 DEF WrapperInv, FluxTraced, Plain, Early, Midway, Late
<1>4. SecretsTraced' /\ Outcome'
  BY <1>1, <1>2 DEF WrapperInv, SecretsTraced, Outcome, Achieved, FluxTraced, Plain, Early, Midway, Late
<1>5. QED BY <1>1, <1>2, <1>3, <1>4, WrapperMoves DEF WrapperInv, WrapperTypes, Late

LEMMA WrapperJudgeIssuer ==
  ASSUME SecretInv, IssuerInv, WrapperInv, JudgeIssuer
  PROVE  WrapperInv'
<1>1. /\ w.at = "issuing" /\ job.pc = "idle" /\ process.pc = "idle"
      /\ w.mode \in {"issuer-materialize", "issuer-recover"} /\ w.op \in P!Operations
      /\ UNCHANGED <<dormant, boot, gateway, evidence, job, process, receipts, torn, receipt>>
  BY WhoRuns DEF JudgeIssuer, At, I!At, children, participant, issuer, flux, WrapperInv, Chained
<1>2. /\ w'.mode = w.mode /\ w'.op = w.op /\ w'.stopping = w.stopping
      /\ w'.activated = w.activated /\ w'.torndown = w.torndown
      /\ w'.found = w.found /\ w'.at = "closing" /\ w' \in Memory
      /\ w.blind => w'.blind
      /\ \/ w'.succeeded = w.succeeded /\ w'.base = w.base
         \/ /\ w'.succeeded /\ I!Published(w.op)
            /\ w'.base \in {"eligibility-issuer-materialized", "eligibility-issuer-recovered"}
  <2>1. /\ w \in Memory /\ "closing" \in Late
        /\ {"eligibility-issuer-materialized", "eligibility-issuer-recovered"} \subseteq Bases
    BY DEF WrapperInv, WrapperTypes, Late, Bases, Ends
  <2>2. \/ \E b \in {"eligibility-issuer-materialized", "eligibility-issuer-recovered"} :
             /\ I!Published(w.op)
             /\ w' = [w EXCEPT !.at = "closing", !.succeeded = TRUE, !.base = b]
        \/ w' = [w EXCEPT !.at = "closing"]
        \/ w' = [w EXCEPT !.at = "closing", !.blind = TRUE]
    BY DEF JudgeIssuer, Goto
  <2>3. CASE w' = [w EXCEPT !.at = "closing"]
    BY <2>1, <2>3 DEF Memory
  <2>4. CASE w' = [w EXCEPT !.at = "closing", !.blind = TRUE]
    BY <2>1, <2>4 DEF Memory
  <2>5. CASE \E b \in {"eligibility-issuer-materialized", "eligibility-issuer-recovered"} :
               /\ I!Published(w.op)
               /\ w' = [w EXCEPT !.at = "closing", !.succeeded = TRUE, !.base = b]
    <3>1. PICK b \in {"eligibility-issuer-materialized", "eligibility-issuer-recovered"} :
            /\ I!Published(w.op)
            /\ w' = [w EXCEPT !.at = "closing", !.succeeded = TRUE, !.base = b]
      BY <2>5
    <3>2. QED BY <2>1, <3>1 DEF Memory
  <2>6. QED BY <2>2, <2>3, <2>4, <2>5
<1>3. FluxTraced'
  BY <1>1, <1>2 DEF WrapperInv, FluxTraced, Plain, Early, Midway, Late
<1>4. SecretsTraced' /\ Outcome'
  BY <1>1, <1>2, IssuerRecords DEF WrapperInv, SecretsTraced, Outcome, Achieved, FluxTraced, Plain,
     Early, Midway, Late, I!Published
<1>5. QED BY <1>1, <1>2, <1>3, <1>4, WrapperMoves DEF WrapperInv, WrapperTypes, Late

LEMMA WrapperBoot ==
  ASSUME SecretInv, IssuerInv, WrapperInv, Boot
  PROVE  WrapperInv'
<1>1. /\ w.at = "boot" /\ job.pc = "idle" /\ process.pc = "idle" /\ w \in Memory
      /\ UNCHANGED <<gateway, evidence, job, process, receipts, torn, receipt>>
  BY WhoRuns DEF Boot, FluxStep, At, participant, issuer, WrapperInv, WrapperTypes
<1>2. /\ Plain /\ dormant = w.found.dormant /\ gateway = w.found.gateway
      /\ {"closing", "decide", "recover"} \subseteq Midway \cup Late /\ "dormant-ready" \in Bases
  BY <1>1 DEF WrapperInv, FluxTraced, Early, Midway, Late, Bases
<1>3. \/ w' = [w EXCEPT !.at = "closing"] /\ UNCHANGED <<dormant, boot>>
      \/ /\ dormant = "absent" /\ dormant' = "ready" /\ boot' = "dormant-ready"
         /\ \/ w' = [w EXCEPT !.at = "decide", !.booted = TRUE]
            \/ w' = [w EXCEPT !.at = "closing", !.booted = TRUE, !.base = "dormant-ready",
                              !.tidy = FALSE]
            \/ w' = [w EXCEPT !.at = "closing", !.blind = TRUE]
      \/ w' = [w EXCEPT !.at = "recover"] /\ UNCHANGED <<dormant, boot>>
      \/ w' = [w EXCEPT !.at = "recover"] /\ UNCHANGED dormant /\ boot' = "rolled-back"
      \/ w' = [w EXCEPT !.at = "recover"] /\ dormant' = "part" /\ boot' = "rollback-incomplete"
      \/ /\ w' = [w EXCEPT !.at = "closing", !.blind = TRUE]
         /\ dormant' \in {"absent", "part", "ready"} /\ boot' = "empty"
  BY DEF Boot, Goto
<1>4. /\ w'.mode = w.mode /\ w'.op = w.op /\ w'.stopping = w.stopping
      /\ w'.activated = w.activated /\ w'.succeeded = w.succeeded /\ w'.torndown = w.torndown
      /\ w'.undone = w.undone /\ w'.found = w.found /\ w'.secreted = w.secreted
      /\ w'.at \in Midway \cup Late /\ w' \in Memory
      /\ w.blind => w'.blind
  <2>1. CASE \E a \in {"closing", "recover"} : w' = [w EXCEPT !.at = a]
    BY <1>1, <1>2, <2>1 DEF Memory
  <2>2. CASE w' = [w EXCEPT !.at = "decide", !.booted = TRUE]
    BY <1>1, <1>2, <2>2 DEF Memory
  <2>3. CASE w' = [w EXCEPT !.at = "closing", !.booted = TRUE, !.base = "dormant-ready",
                            !.tidy = FALSE]
    BY <1>1, <1>2, <2>3 DEF Memory
  <2>4. CASE w' = [w EXCEPT !.at = "closing", !.blind = TRUE]
    BY <1>1, <1>2, <2>4 DEF Memory
  <2>5. QED BY <1>3, <2>1, <2>2, <2>3, <2>4
<1>5. FluxTraced'
  <2>1. CASE w'.at \in {"recover", "decide"}
    BY <1>1, <1>2, <1>3, <1>4, <2>1, ZenonT(60) DEF FluxTraced, Plain, Early, Midway, Late, Memory, At
  <2>2. CASE w'.at = "closing"
    <3>1. w'.blind \/ w'.base = "dormant-ready" \/ dormant' = dormant
      BY <1>1, <1>3, <2>2 DEF Memory
    <3>2. QED BY <1>1, <1>2, <1>4, <2>2, <3>1 DEF FluxTraced, Plain, Early, Midway, Late, Traced
  <2>3. QED BY <1>1, <1>3, <2>1, <2>2 DEF Memory
<1>6. SecretsTraced' /\ Outcome'
  BY <1>1, <1>2, <1>4 DEF WrapperInv, SecretsTraced, Outcome, Plain, Midway, Late
<1>7. QED BY <1>1, <1>3, <1>4, <1>5, <1>6, WrapperMoves DEF WrapperInv, WrapperTypes

LEMMA WrapperRecover ==
  ASSUME SecretInv, IssuerInv, WrapperInv, Recover
  PROVE  WrapperInv'
<1>1. /\ w.at = "recover" /\ job.pc = "idle" /\ process.pc = "idle" /\ w \in Memory
      /\ UNCHANGED <<boot, gateway, evidence, job, process, receipts, torn, receipt>>
  BY WhoRuns DEF Recover, FluxStep, At, participant, issuer, WrapperInv, WrapperTypes
<1>2. /\ w' = [w EXCEPT !.at = "closing"] /\ dormant' \in {dormant, "absent"} /\ "closing" \in Late
  BY DEF Recover, Goto, Late
<1>3. /\ w'.mode = w.mode /\ w'.op = w.op /\ w'.stopping = w.stopping
      /\ w'.activated = w.activated /\ w'.succeeded = w.succeeded /\ w'.torndown = w.torndown
      /\ w'.undone = w.undone /\ w'.found = w.found /\ w'.secreted = w.secreted
      /\ w'.at = "closing" /\ w' \in Memory /\ w'.blind = w.blind
  BY <1>1, <1>2 DEF Memory
<1>4. FluxTraced'
  BY <1>1, <1>2, <1>3 DEF WrapperInv, FluxTraced, Plain, Early, Midway, Late
<1>5. SecretsTraced' /\ Outcome'
  BY <1>1, <1>3 DEF WrapperInv, SecretsTraced, Outcome, FluxTraced, Plain, Midway, Late
<1>6. QED BY <1>1, <1>2, <1>3, <1>4, <1>5, WrapperMoves DEF WrapperInv, WrapperTypes

LEMMA WrapperDecide ==
  ASSUME SecretInv, IssuerInv, WrapperInv, Decide
  PROVE  WrapperInv'
<1>1. /\ w.at = "decide" /\ job.pc = "idle" /\ process.pc = "idle" /\ w \in Memory
      /\ UNCHANGED <<dormant, boot, gateway, evidence, job, process, receipts, torn, receipt>>
  BY WhoRuns DEF Decide, FluxStep, At, participant, issuer, flux, WrapperInv, WrapperTypes
<1>2. \/ w' = [w EXCEPT !.booted = TRUE, !.at = "activate"]
      \/ /\ w.mode = "continue"
         /\ w' = [w EXCEPT !.booted = TRUE, !.at = "closing", !.base = "dormant-continuation-required"]
      \/ w' = [w EXCEPT !.booted = TRUE, !.at = "undo"]
      \/ w' = [w EXCEPT !.booted = TRUE, !.at = "closing", !.base = "dormant-cleanup-required"]
  BY <1>1 DEF Decide, Memory
<1>3. /\ w'.mode = w.mode /\ w'.op = w.op /\ w'.stopping = w.stopping /\ w'.booted
      /\ w'.activated = w.activated /\ w'.succeeded = w.succeeded /\ w'.torndown = w.torndown
      /\ w'.undone = w.undone /\ w'.found = w.found /\ w'.secreted = w.secreted
      /\ w'.at \in {"activate", "undo", "closing"} /\ w' \in Memory /\ w'.blind = w.blind
  <2>1. /\ {"activate", "undo", "closing"} \subseteq Midway \cup Late
        /\ {"dormant-continuation-required", "dormant-cleanup-required"} \subseteq Bases
    BY DEF Midway, Late, Bases
  <2>2. CASE \E a \in {"activate", "undo"} : w' = [w EXCEPT !.booted = TRUE, !.at = a]
    <3>1. PICK a \in {"activate", "undo"} : w' = [w EXCEPT !.booted = TRUE, !.at = a]
      BY <2>2
    <3>2. QED BY <1>1, <2>1, <3>1 DEF Memory
  <2>3. CASE \E b \in {"dormant-continuation-required", "dormant-cleanup-required"} :
               w' = [w EXCEPT !.booted = TRUE, !.at = "closing", !.base = b]
    <3>1. PICK b \in {"dormant-continuation-required", "dormant-cleanup-required"} :
            w' = [w EXCEPT !.booted = TRUE, !.at = "closing", !.base = b]
      BY <2>3
    <3>2. QED BY <1>1, <2>1, <3>1 DEF Memory
  <2>4. QED BY <1>2, <2>2, <2>3
<1>4. FluxTraced'
  <2>1. w'.at = "closing" =>
          (w.mode = "continue" /\ w'.base = "dormant-continuation-required")
          \/ w'.base = "dormant-cleanup-required"
    <3>1. w'.at = "closing" =>
            w.mode = "continue" \/ w' = [w EXCEPT !.booted = TRUE, !.at = "closing",
                                                   !.base = "dormant-cleanup-required"]
      BY <1>1, <1>2 DEF Memory
    <3>2. w'.at = "closing" => w'.base \in {"dormant-continuation-required", "dormant-cleanup-required"}
      BY <1>1, <1>2 DEF Memory
    <3>3. QED BY <1>1, <3>1, <3>2 DEF Memory
  <2>2. w'.at # "closing" => w'.base = w.base
    BY <1>1, <1>2 DEF Memory
  <2>3. QED BY <1>1, <1>3, <2>1, <2>2 DEF WrapperInv, FluxTraced, Plain, Early, Midway, Late, Traced
<1>5. SecretsTraced' /\ Outcome'
  BY <1>1, <1>3 DEF WrapperInv, SecretsTraced, Outcome, FluxTraced, Plain, Midway, Late
<1>6. QED BY <1>1, <1>3, <1>4, <1>5, WrapperMoves DEF WrapperInv, WrapperTypes, Midway, Late

LEMMA WrapperTearDownDormant ==
  ASSUME SecretInv, IssuerInv, WrapperInv, TearDownDormant
  PROVE  WrapperInv'
<1>1. /\ w.at \in {"undo", "unboot"} /\ job.pc = "idle" /\ process.pc = "idle" /\ w \in Memory
      /\ UNCHANGED <<boot, gateway, evidence, job, process, receipts, torn, receipt>>
  BY WhoRuns DEF TearDownDormant, FluxStep, At, participant, issuer, WrapperInv, WrapperTypes
<1> DEFINE base == IF w.at = "unboot" THEN "dormant-torn-down" ELSE "cancelled-dormant-torn-down"
           done == [w EXCEPT !.at = "closing", !.torndown = TRUE, !.succeeded = w.at = "unboot",
                             !.base = base]
<1>2. \/ dormant' = "absent" /\ w' = done
      \/ dormant' = "absent" /\ w' = [done EXCEPT !.tidy = FALSE]
      \/ /\ w' = [w EXCEPT !.at = "closing"]
         /\ dormant' = dormant \/ (dormant' \in {"absent", "part"} /\ dormant # "absent")
  <2>1. \/ dormant' = "absent" /\ w' = done
        \/ dormant' = "absent" /\ w' = [done EXCEPT !.tidy = FALSE]
        \/ /\ w' = [w EXCEPT !.at = "closing"]
           /\ \/ dormant' \in IF dormant = "ready" THEN {"absent", "part", "ready"}
                             ELSE {"absent", dormant}
              \/ dormant' = dormant
    BY Zenon DEF TearDownDormant, Goto
  <2>2. ASSUME dormant' \in IF dormant = "ready" THEN {"absent", "part", "ready"}
                             ELSE {"absent", dormant}
        PROVE  dormant' = dormant \/ (dormant' \in {"absent", "part"} /\ dormant # "absent")
    BY <2>2
  <2> HIDE DEF done
  <2>3. QED BY <2>1, <2>2
<1>3. /\ w'.mode = w.mode /\ w'.op = w.op /\ w'.stopping = w.stopping
      /\ w'.activated = w.activated /\ w'.booted = w.booted /\ w'.blind = w.blind
      /\ w'.undone = w.undone /\ w'.found = w.found /\ w'.secreted = w.secreted
      /\ w'.at = "closing" /\ w' \in Memory
      /\ dormant' \in {"absent", "part", "ready", "active"}
      /\ \/ /\ dormant' = "absent" /\ w'.torndown /\ (w'.succeeded <=> w.at = "unboot")
            /\ w'.base = base
         \/ /\ w'.torndown = w.torndown /\ w'.succeeded = w.succeeded /\ w'.base = w.base
            /\ dormant' = dormant \/ (dormant' \in {"absent", "part"} /\ dormant # "absent")
  <2>1. /\ "closing" \in Late /\ {"dormant-torn-down", "cancelled-dormant-torn-down"} \subseteq Bases
    BY DEF Late, Bases, Ends
  <2>2. CASE w' = [w EXCEPT !.at = "closing"]
    BY <1>1, <1>2, <2>1, <2>2 DEF Memory, WrapperInv, WrapperTypes
  <2>3. CASE dormant' = "absent" /\ w' = done
    BY <1>1, <2>1, <2>3 DEF Memory
  <2>4. CASE dormant' = "absent" /\ w' = [done EXCEPT !.tidy = FALSE]
    BY <1>1, <2>1, <2>4 DEF Memory
  <2>5. QED BY <1>2, <2>2, <2>3, <2>4
<1>4. FluxTraced'
  BY <1>1, <1>3 DEF WrapperInv, FluxTraced, Plain, Early, Midway, Late, Traced, At
<1>5. SecretsTraced' /\ Outcome'
  BY <1>1, <1>3 DEF WrapperInv, Chained, At, SecretsTraced, Outcome, Achieved, FluxTraced, Plain, Early,
     Midway, Late
<1>6. QED BY <1>1, <1>3, <1>4, <1>5, WrapperMoves DEF WrapperInv, WrapperTypes, Late

LEMMA WrapperActivate ==
  ASSUME SecretInv, IssuerInv, WrapperInv, Activate
  PROVE  WrapperInv'
<1>1. /\ w.at = "activate" /\ job.pc = "idle" /\ process.pc = "idle" /\ w \in Memory
      /\ UNCHANGED <<boot, evidence, job, process, receipts, torn, receipt>>
  BY WhoRuns DEF Activate, FluxStep, At, participant, issuer, WrapperInv, WrapperTypes
<1>2. \/ /\ w' = [w EXCEPT !.at = "closing"]
         /\ \/ UNCHANGED <<dormant, gateway>>
            \/ gateway' \in {"absent", "part", "active"} /\ dormant' \in {"ready", "active"}
      \/ /\ gateway' = "active" /\ dormant' = "active"
         /\ \/ w' = [w EXCEPT !.at = "closing", !.activated = TRUE, !.succeeded = TRUE,
                               !.base = "activated"]
            \/ w' = [[w EXCEPT !.at = "closing", !.activated = TRUE, !.succeeded = TRUE,
                                !.base = "activated"] EXCEPT !.tidy = FALSE]
  BY DEF Activate, Goto
<1>3. /\ w'.mode = w.mode /\ w'.op = w.op /\ w'.stopping = w.stopping
      /\ w'.torndown = w.torndown /\ w'.booted = w.booted /\ w'.blind = w.blind
      /\ w'.undone = w.undone /\ w'.found = w.found /\ w'.secreted = w.secreted
      /\ w'.at = "closing" /\ w' \in Memory
      /\ dormant' \in {"absent", "part", "ready", "active"}
      /\ gateway' \in {"absent", "part", "active"}
      /\ \/ /\ gateway' = "active" /\ dormant' = "active" /\ w'.activated /\ w'.succeeded
            /\ w'.base = "activated"
         \/ /\ w'.activated = w.activated /\ w'.succeeded = w.succeeded /\ w'.base = w.base
  <2>1. "closing" \in Late /\ "activated" \in Bases
    BY DEF Late, Bases, Ends
  <2>2. /\ dormant' \in {"absent", "part", "ready", "active"}
        /\ gateway' \in {"absent", "part", "active"}
    BY <1>2 DEF WrapperInv, WrapperTypes
  <2>3. CASE w' = [w EXCEPT !.at = "closing"]
    BY <1>1, <2>1, <2>2, <2>3 DEF Memory
  <2>4. CASE /\ gateway' = "active" /\ dormant' = "active"
             /\ w' = [w EXCEPT !.at = "closing", !.activated = TRUE, !.succeeded = TRUE,
                               !.base = "activated"]
    BY <1>1, <2>1, <2>2, <2>4 DEF Memory
  <2>5. CASE /\ gateway' = "active" /\ dormant' = "active"
             /\ w' = [[w EXCEPT !.at = "closing", !.activated = TRUE, !.succeeded = TRUE,
                                !.base = "activated"] EXCEPT !.tidy = FALSE]
    BY <1>1, <2>1, <2>2, <2>5 DEF Memory
  <2>6. QED BY <1>2, <2>3, <2>4, <2>5
<1>4. FluxTraced'
  BY <1>1, <1>2, <1>3 DEF WrapperInv, FluxTraced, Plain, Early, Midway, Late, Traced, At
<1>5. SecretsTraced' /\ Outcome'
  BY <1>1, <1>2, <1>3 DEF WrapperInv, SecretsTraced, Outcome, Achieved, FluxTraced, Plain,
     Midway, Late
<1>6. QED BY <1>1, <1>3, <1>4, <1>5, WrapperMoves DEF WrapperInv, WrapperTypes, Late

LEMMA WrapperClose ==
  ASSUME SecretInv, IssuerInv, WrapperInv, Close
  PROVE  WrapperInv'
<1>1. /\ w.at = "closing" /\ job.pc = "idle" /\ process.pc = "idle" /\ w \in Memory
      /\ UNCHANGED <<dormant, boot, gateway, evidence, job, process, receipts, torn, receipt>>
  BY WhoRuns DEF Close, At, children, participant, issuer, flux, WrapperInv, WrapperTypes
<1> DEFINE base == IF w.booted /\ ~w.activated /\ ~w.torndown /\ w.base = "blocked"
                   THEN "bootstrap-state-indeterminate" ELSE w.base
<1>2. \/ w' = [w EXCEPT !.at = "commit", !.base = base]
      \/ w' = [[w EXCEPT !.at = "commit", !.base = base] EXCEPT !.tidy = FALSE]
  BY DEF Close
<1>3. /\ w'.mode = w.mode /\ w'.op = w.op /\ w'.stopping = w.stopping
      /\ w'.torndown = w.torndown /\ w'.booted = w.booted /\ w'.blind = w.blind
      /\ w'.undone = w.undone /\ w'.found = w.found /\ w'.secreted = w.secreted
      /\ w'.activated = w.activated /\ w'.succeeded = w.succeeded
      /\ w'.base = base /\ w'.at = "commit" /\ w' \in Memory
  <2>1. "commit" \in Late /\ base \in Bases
    BY <1>1 DEF Late, Bases, Memory
  <2> HIDE DEF base
  <2>2. CASE w' = [w EXCEPT !.at = "commit", !.base = base]
    BY <1>1, <2>1, <2>2 DEF Memory
  <2>3. CASE w' = [[w EXCEPT !.at = "commit", !.base = base] EXCEPT !.tidy = FALSE]
    BY <1>1, <2>1, <2>3 DEF Memory
  <2>4. QED BY <1>2, <2>2, <2>3
<1>4. FluxTraced'
  BY <1>1, <1>3 DEF WrapperInv, FluxTraced, Early, Midway, Late, Traced, At
<1>5. SecretsTraced' /\ Outcome'
  BY <1>1, <1>3 DEF WrapperInv, SecretsTraced, Outcome, Achieved, I!Published, Midway, Late
<1>6. QED BY <1>1, <1>3, <1>4, <1>5, WrapperMoves DEF WrapperInv, WrapperTypes, Late

LEMMA WrapperCommitReceipt ==
  ASSUME SecretInv, IssuerInv, WrapperInv, CommitReceipt
  PROVE  WrapperInv'
<1>1. /\ w.at = "commit" /\ job.pc = "idle" /\ process.pc = "idle" /\ w \in Memory
      /\ w' = NotRunning
      /\ UNCHANGED <<dormant, boot, gateway, job, process, receipts, torn, receipt>>
  BY WhoRuns DEF CommitReceipt, At, children, participant, issuer, flux, WrapperInv, WrapperTypes
<1>2. w' \in Memory /\ w'.at = "idle" /\ ~w'.succeeded /\ w'.mode = "none"
  BY <1>1, IssuerRecords DEF NotRunning, Memory, NotThere, Facts, Bases
<1>3. /\ Evidence.status = w.base /\ Evidence.mode = w.mode /\ Evidence.op = w.op
      /\ Evidence.found = w.found /\ Evidence.blind = w.blind /\ Evidence.exit = ExitCode
      /\ Evidence.dormantNext <=>
           \/ w.base \in {"dormant-cleanup-required", "dormant-ready", "bootstrap-state-indeterminate"}
           \/ w.mode = "continue" /\ ~w.activated
      /\ Evidence.secretNext <=> w.secreted /\ ~w.activated /\ ~w.undone
      /\ ExitCode \in {0, 2, 3} /\ (ExitCode = 0 => w.succeeded)
  <2>1. /\ Evidence.status = w.base /\ Evidence.mode = w.mode /\ Evidence.op = w.op
        /\ Evidence.found = w.found /\ Evidence.blind = w.blind /\ Evidence.exit = ExitCode
    BY DEF Evidence
  <2>2. Evidence.dormantNext <=>
          \/ w.base \in {"dormant-cleanup-required", "dormant-ready", "bootstrap-state-indeterminate"}
          \/ w.mode = "continue" /\ ~w.activated
    BY DEF Evidence
  <2>3. Evidence.secretNext <=> w.secreted /\ ~w.activated /\ ~w.undone
    BY DEF Evidence
  <2>4. ExitCode \in {0, 2, 3} /\ (ExitCode = 0 => w.succeeded)
    BY DEF ExitCode
  <2>5. QED BY <2>1, <2>2, <2>3, <2>4
<1> DEFINE Books == [status : Bases \cup {"none"}, clean : BOOLEAN, exit : {0, 2, 3},
                     dormantNext : BOOLEAN, secretNext : BOOLEAN, mode : Modes \cup {"none"},
                     op : 0 .. MaxOperations, found : Facts, blind : BOOLEAN]
<1>4. Evidence \in Books
  BY <1>1, <1>3 DEF Evidence, Memory
<1>5. /\ evidence' \in Books
      /\ \/ evidence' = NoEvidence
         \/ /\ evidence'.status = w.base /\ evidence'.mode = w.mode /\ evidence'.op = w.op
            /\ evidence'.found = w.found /\ evidence'.blind = w.blind
            /\ evidence'.dormantNext = Evidence.dormantNext
            /\ evidence'.secretNext = Evidence.secretNext
            /\ evidence'.exit \in {ExitCode, 3}
  <2>1. CASE evidence' = Evidence
    BY <1>3, <1>4, <2>1
  <2>2. CASE evidence' = NoEvidence
    BY <2>2, IssuerRecords DEF NoEvidence, NotThere, Facts
  <2>3. CASE evidence' = [Evidence EXCEPT !.exit = 3]
    BY <1>3, <1>4, <2>3
  <2>4. QED BY <2>1, <2>2, <2>3 DEF CommitReceipt
<1>6. WrapperTypes'
  BY <1>1, <1>2, <1>5 DEF WrapperInv, WrapperTypes
<1>7. Chained' /\ FluxTraced' /\ SecretsTraced' /\ Outcome'
  BY <1>1, <1>2 DEF Chained, At, P!At, I!At, FluxTraced, SecretsTraced, Outcome, Early, Midway, Late
<1>8. Told'
  <2>1. CASE evidence' = NoEvidence
    BY <2>1 DEF Told, Committed, NoEvidence
  <2>2. CASE evidence' # NoEvidence
    <3>1. evidence'.exit = 0 => Achieved(evidence'.status, evidence'.op)
      BY <1>1, <1>3, <1>5, <2>2 DEF WrapperInv, Outcome
    <3>2. evidence'.exit = 0 => Achieved(evidence.status, evidence.op)'
      BY <1>1, <3>1 DEF Achieved, I!Published
    <3>3. w.base # "activated" =>
            /\ dormant # "absent" /\ w.found.dormant = "absent" /\ ~w.blind
                 => Evidence.dormantNext \/ boot = "rollback-incomplete"
            /\ gateway # "absent" /\ w.found.gateway = "absent" => Evidence.dormantNext
            /\ ~w.activated
      BY <1>1, <1>3 DEF WrapperInv, FluxTraced, Traced, Late, At
    <3>4. w.mode = "fresh" /\ w.base # "activated" /\ ~w.blind =>
            /\ w.op \in P!Operations
            /\ Evidence.secretNext \/ receipts[w.op].status # "materialized"
      BY <1>1, <1>3, <3>3 DEF WrapperInv, SecretsTraced, Chained, At, Late
    <3>5. QED BY <1>1, <1>5, <2>2, <3>2, <3>3, <3>4 DEF Told
  <2>3. QED BY <2>1, <2>2
<1>9. QED BY <1>6, <1>7, <1>8 DEF WrapperInv

LEMMA WrapperDisturb ==
  ASSUME SecretInv, IssuerInv, WrapperInv, Disturb
  PROVE  WrapperInv'
<1>1. /\ w.at # "idle" /\ w \in Memory
      /\ w' = [w EXCEPT !.transport = FALSE] \/ w' = [w EXCEPT !.signalled = TRUE]
      /\ UNCHANGED <<dormant, boot, gateway, evidence, job, process, receipts, torn, receipt>>
  BY DEF Disturb, At, children, participant, issuer, flux, WrapperInv, WrapperTypes
<1>2. /\ w'.at = w.at /\ w'.mode = w.mode /\ w'.op = w.op /\ w'.stopping = w.stopping
      /\ w'.torndown = w.torndown /\ w'.booted = w.booted /\ w'.blind = w.blind
      /\ w'.undone = w.undone /\ w'.found = w.found /\ w'.secreted = w.secreted
      /\ w'.activated = w.activated /\ w'.succeeded = w.succeeded /\ w'.base = w.base
      /\ w' \in Memory
  <2>1. CASE w' = [w EXCEPT !.transport = FALSE]
    BY <1>1, <2>1 DEF Memory
  <2>2. CASE w' = [w EXCEPT !.signalled = TRUE]
    BY <1>1, <2>2 DEF Memory
  <2>3. QED BY <1>1, <2>1, <2>2
<1>3. QED
  BY <1>1, <1>2 DEF WrapperInv, WrapperTypes, Chained, FluxTraced, Plain, Traced, SecretsTraced,
     Outcome, Achieved, Told, Committed, At, P!At, I!At, I!Published

-----
\* The invariant

LEMMA WrapperInitially == Init => WrapperInv
<1> SUFFICES ASSUME Init PROVE WrapperInv
  OBVIOUS
<1>1. w = NotRunning /\ evidence = NoEvidence /\ job.pc = "idle" /\ process.pc = "idle"
  BY DEF Init, P!Idle, I!Init, I!Idle
<1>2. w \in Memory /\ w.at = "idle" /\ ~w.succeeded /\ w.mode = "none" /\ evidence.status = "none"
  BY <1>1, IssuerRecords DEF NotRunning, Memory, NotThere, Facts, Bases, NoEvidence
<1>3. WrapperTypes
  BY <1>1, <1>2, IssuerRecords DEF Init, WrapperTypes, NoEvidence, NotThere, Facts
<1>4. QED
  BY <1>1, <1>2, <1>3 DEF WrapperInv, Chained, At, P!At, I!At, FluxTraced, SecretsTraced, Outcome,
     Told, Committed, Early, Midway, Late

\* Whom a step concerns: the programs take the steps of their own modules,
\* and nobody but the activation touches the gateway.
LEMMA StepOfIssuer ==
  ASSUME SecretInv, IssuerInv, WrapperInv, [Next]_vars
  PROVE  \/ \E n \in I!Operations : I!StartMaterialize(n) \/ I!StartRecovery(n)
         \/ I!Proceed \/ I!Fail \/ I!ServeLate \/ I!Interfere \/ UNCHANGED issuer
<1>1. CASE Spawn
  <2>1. w.op \in I!Operations
    BY <1>1, IssuerRecords DEF Spawn, WrapperInv, Chained, At
  <2>2. I!StartMaterialize(w.op) \/ I!StartRecovery(w.op) \/ UNCHANGED issuer
    <3>1. Ready => w.mode \in {"fresh", "issuer-materialize", "issuer-recover"}
      BY <1>1 DEF Spawn, WrapperInv, Chained, At
    <3>2. QED BY <1>1, <3>1 DEF Spawn
  <2>3. QED BY <2>1, <2>2
<1>2. CASE SpawnTeardown \/ KillChild \/ FluxStep
  BY <1>2 DEF SpawnTeardown, KillChild, FluxStep
<1>3. CASE ChildSteps \/ ChildFails \/ Timeout \/ HostLost \/ Elsewhere
  BY <1>3 DEF ChildSteps, ChildFails, Timeout, HostLost, Elsewhere, I!Fail
<1>4. CASE \/ \E m \in Modes, n \in 0 .. MaxOperations : Launch(m, n)
           \/ Prepare \/ JudgeSecrets \/ JudgeTeardown \/ JudgeIssuer
           \/ Close \/ CommitReceipt \/ Disturb \/ UNCHANGED vars
  BY <1>4 DEF Launch, Prepare, JudgeSecrets, JudgeTeardown, JudgeIssuer, Close, CommitReceipt,
     Disturb, vars, children
<1>5. QED BY <1>1, <1>2, <1>3, <1>4 DEF Next, Boot, Recover, Decide, TearDownDormant, Activate

LEMMA StepOfParticipant ==
  ASSUME SecretInv, IssuerInv, WrapperInv, [Next]_vars
  PROVE  \/ Activate /\ UNCHANGED participant
         \/ /\ UNCHANGED gateway
            /\ \/ \E n \in P!Operations : P!StartMaterialize(n) \/ P!StartTeardown(n)
               \/ P!Proceed \/ P!Fail \/ P!Raise \/ P!RaiseCreating \/ P!Kill
               \/ P!ServeLate \/ P!Interfere \/ UNCHANGED participant
<1>1. CASE Spawn \/ SpawnTeardown
  <2>1. w.op \in P!Operations
    BY <1>1 DEF Spawn, SpawnTeardown, WrapperInv, Chained, At
  <2>2. \/ P!StartMaterialize(w.op) \/ P!StartTeardown(w.op) \/ UNCHANGED participant
    <3>1. Spawn => w.mode \in {"fresh", "issuer-materialize", "issuer-recover"}
      BY DEF Spawn, WrapperInv, Chained, At
    <3>2. QED BY <1>1, <3>1 DEF Spawn, SpawnTeardown
  <2>3. UNCHANGED gateway
    BY <1>1 DEF Spawn, SpawnTeardown, flux
  <2>4. QED BY <2>1, <2>2, <2>3
<1>2. CASE KillChild
  BY <1>2 DEF KillChild, flux
<1>3. CASE ChildSteps \/ ChildFails \/ Timeout \/ HostLost \/ Elsewhere
  BY <1>3 DEF ChildSteps, ChildFails, Timeout, HostLost, Elsewhere, flux
<1>4. CASE \/ \E m \in Modes, n \in 0 .. MaxOperations : Launch(m, n)
           \/ Prepare \/ JudgeSecrets \/ JudgeTeardown \/ JudgeIssuer
           \/ Close \/ CommitReceipt \/ Disturb \/ UNCHANGED vars
  BY <1>4 DEF Launch, Prepare, JudgeSecrets, JudgeTeardown, JudgeIssuer, Close, CommitReceipt,
     Disturb, vars, children, flux
<1>5. CASE Boot \/ Recover \/ Decide \/ TearDownDormant \/ Activate
  BY <1>5 DEF Boot, Recover, Decide, TearDownDormant, Activate, FluxStep, flux
<1>6. QED BY <1>1, <1>2, <1>3, <1>4, <1>5 DEF Next

\* Over the gateway that it starts, the activation has seen the Secrets.
LEMMA SecretActivate ==
  ASSUME SecretInv, IssuerInv, WrapperInv, Activate
  PROVE  SecretInv'
<1>1. /\ job.pc = "idle" /\ job.mode = "none"
      /\ UNCHANGED <<secrets, travelling, forgotten, receipts, torn, job>>
  BY WhoRuns DEF Activate, FluxStep, participant, At
<1>2. gateway' = gateway \/ \A l \in P!Labels : secrets[l] # Absent
  BY DEF Activate, SecretsFit
<1>3. Covered'
  BY <1>1, <1>2 DEF SecretInv, Covered
<1>4. SecretTypes' /\ ServedOnce' /\ SecretFiles'
  BY <1>1 DEF SecretInv, SecretTypes, ServedOnce, SecretFiles, SecretFile, Own, Gone, Unborn, P!Lives,
     P!Remains
<1>5. JobWork'
  BY <1>1 DEF SecretInv, JobWork, P!At
<1>6. QED BY <1>3, <1>4, <1>5 DEF SecretInv

LEMMA WrapperStep ==
  ASSUME SecretInv, IssuerInv, WrapperInv, [Next]_vars
  PROVE  WrapperInv'
<1>1. CASE ChildSteps \/ ChildFails \/ Timeout \/ KillChild
  <2>1. UNCHANGED <<dormant, boot, gateway, evidence>>
    BY <1>1 DEF ChildSteps, ChildFails, Timeout, KillChild, flux, wrapper
  <2>2. w' = w \/ w' = [w EXCEPT !.stopping = TRUE, !.blind = TRUE]
    BY <1>1 DEF ChildSteps, ChildFails, Timeout, KillChild, wrapper
  <2>3. \/ job.pc # "idle" /\ (job' = P!Idle \/ (job'.op = job.op /\ job'.mode = job.mode))
           /\ UNCHANGED process
        \/ process.pc # "idle" /\ UNCHANGED job
    BY <1>1, JobGoesOn, ProcessGoesOn DEF ChildSteps, ChildFails, Timeout, KillChild, P!At, I!At,
       participant, issuer, I!Fail, SecretInv
  <2>4. /\ w.at \in {"materializing", "unmaking", "issuing"}
        /\ job'.pc = "idle" \/ (job.pc # "idle" /\ job'.op = job.op /\ job'.mode = job.mode)
        /\ process'.pc = "idle" \/ process.pc # "idle"
    BY <2>3, WhoRuns DEF P!Idle
  <2>5. QED BY <2>1, <2>2, <2>4, WrapperWaits
<1>2. CASE Elsewhere \/ UNCHANGED vars
  <2>1. UNCHANGED <<dormant, boot, gateway, w, evidence, receipts, torn, job, receipt, process>>
    BY <1>2 DEF Elsewhere, vars, children, wrapper, participant, issuer, flux, P!Interfere,
       I!Interfere, P!ServeLate, I!ServeLate
  <2>2. QED BY <2>1, WrapperUnchanged
<1>3. QED BY <1>1, <1>2, WrapperLaunch, WrapperPrepare, WrapperSpawn, WrapperJudgeSecrets,
     WrapperJudgeTeardown, WrapperJudgeIssuer, WrapperBoot, WrapperRecover, WrapperDecide,
     WrapperTearDownDormant, WrapperActivate, WrapperClose, WrapperCommitReceipt, WrapperDisturb,
     WrapperHostLost DEF Next

LEMMA ChainStep == ChainInv /\ [Next]_vars => ChainInv'
<1> SUFFICES ASSUME ChainInv, [Next]_vars PROVE ChainInv'
  OBVIOUS
<1> USE DEF ChainInv
<1>1. IssuerInv'
  BY StepOfIssuer, IssuerStep
<1>2. SecretInv'
  BY StepOfParticipant, SecretStep, SecretActivate
<1>3. WrapperInv'
  BY WrapperStep
<1>4. QED BY <1>1, <1>2, <1>3

LEMMA ChainInvariant == Spec => []ChainInv
<1>1. Init => ChainInv
  BY IssuerInitially, SecretInitially, WrapperInitially DEF ChainInv
<1>2. QED BY <1>1, ChainStep, PTL DEF Spec

\* The bounds, and the world in which it all began.
LEMMA Bounds == Spec => [](world \in Worlds /\ launches \in 0 .. MaxLaunches /\ troubles \in 0 .. MaxTroubles)
<1> DEFINE Bounded == /\ world \in Worlds /\ launches \in 0 .. MaxLaunches
                      /\ troubles \in 0 .. MaxTroubles
<1>1. Init => Bounded
  BY ChainConstants DEF ChainConstants, Init
<1>2. Bounded /\ [Next]_vars => Bounded'
  <2> SUFFICES ASSUME Bounded, [Next]_vars PROVE Bounded'
    OBVIOUS
  <2>0. MaxLaunches \in Nat /\ MaxTroubles \in Nat
    BY ChainConstants DEF ChainConstants
  <2>1. CASE \E m \in Modes, n \in 0 .. MaxOperations : Launch(m, n)
    BY <2>0, <2>1 DEF Launch
  <2>2. CASE Spawn \/ SpawnTeardown \/ ChildSteps \/ ChildFails \/ Timeout \/ KillChild
    <3>1. UNCHANGED <<world, launches>>
      BY <2>2 DEF Spawn, SpawnTeardown, ChildSteps, ChildFails, Timeout, KillChild, wrapper
    <3>2. UNCHANGED troubles \/ Trouble
      BY <2>2 DEF Spawn, SpawnTeardown, ChildSteps, ChildFails, Timeout, KillChild
    <3>3. QED BY <2>0, <3>1, <3>2 DEF Trouble
  <2>3. CASE Prepare \/ JudgeSecrets \/ JudgeTeardown \/ JudgeIssuer \/ Close \/ CommitReceipt
    BY <2>0, <2>3 DEF Prepare, JudgeSecrets, JudgeTeardown, JudgeIssuer, Close, CommitReceipt, Trouble,
       Smooth
  <2>4. CASE Boot \/ Recover \/ Decide \/ TearDownDormant \/ Activate
    BY <2>0, <2>4 DEF Boot, Recover, Decide, TearDownDormant, Activate, FluxStep, Trouble, Smooth
  <2>5. CASE Disturb \/ HostLost \/ Elsewhere \/ UNCHANGED vars
    BY <2>0, <2>5 DEF Disturb, HostLost, Elsewhere, wrapper, vars, Trouble, Smooth
  <2>6. QED BY <2>1, <2>2, <2>3, <2>4, <2>5 DEF Next
<1>3. QED BY <1>1, <1>2, PTL DEF Spec

-----
\* Theorems

\* Every variable of the chain keeps its type, and the bounds hold.
THEOREM ChainTypeCorrect == Spec => []TypeOK
<1>1. ChainInv /\ world \in Worlds /\ launches \in 0 .. MaxLaunches /\ troubles \in 0 .. MaxTroubles
        => TypeOK
  <2> SUFFICES ASSUME ChainInv, world \in Worlds, launches \in 0 .. MaxLaunches,
                      troubles \in 0 .. MaxTroubles
               PROVE  TypeOK
    OBVIOUS
  <2>1. IssuerTypes /\ SecretTypes /\ WrapperTypes
    BY DEF ChainInv, IssuerInv, SecretInv, WrapperInv
  <2>2. secrets \in [P!Labels -> P!Identities \cup {Absent}]
    BY <2>1 DEF SecretTypes, P!Records
  <2>3. \A n \in P!Operations :
          /\ receipts[n].status \in {"none", "empty", "materialized", "rolled-back",
                                     "rollback-incomplete"}
          /\ receipts[n].secrets \in P!Records
          /\ torn[n] \in {"none", "empty", "torn-down", "teardown-incomplete"}
    BY <2>1 DEF SecretTypes, Statuses
  <2>4. /\ travelling \cup forgotten \subseteq P!Operations \X P!Labels
        /\ job.op \in 0 .. MaxOperations /\ job.created \in P!Records
    BY <2>1 DEF SecretTypes
  <2>5. /\ secret \in I!Records /\ asked \subseteq I!Operations
        /\ \A n \in I!Operations :
             journal[n].record \in I!Records /\ receipt[n].record \in I!Records
        /\ process.record \in I!Records /\ meddled \in BOOLEAN
    BY <2>1 DEF IssuerTypes
  <2>6. /\ dormant \in {"absent", "part", "ready", "active"}
        /\ gateway \in {"absent", "part", "active"}
        /\ w.mode \in Modes \cup {"none"} /\ w.base \in Bases
        /\ evidence.status \in Bases \cup {"none"} /\ evidence.exit \in {0, 2, 3}
    BY <2>1 DEF WrapperTypes, Memory
  <2>7. QED BY <2>2, <2>3, <2>4, <2>5, <2>6 DEF TypeOK
<1>2. QED BY <1>1, ChainInvariant, Bounds, PTL

\* The journal of the eligibility issuer, its receipt and the live Secret never
\* drift apart so far that a recovery could not tell which operation made it.
THEOREM IssuerRecovers == Spec => []IssuerIsTrue
<1>1. ChainInv => IssuerIsTrue
  BY IssuerInvImplies DEF ChainInv
<1>2. QED BY <1>1, ChainInvariant, PTL

LEMMA SuccessFollows == ChainInv => SuccessIsTrue
<1> SUFFICES ASSUME ChainInv, Committed, evidence.exit = 0 PROVE SuccessIsTrue
  BY DEF SuccessIsTrue
<1>1. Achieved(evidence.status, evidence.op)
  BY DEF ChainInv, WrapperInv, Told
<1>2. gateway = "active" => \A l \in P!Labels : secrets[l] # Absent
  BY DEF ChainInv, SecretInv, Covered
<1>3. \A n \in P!Operations : torn[n] = "torn-down" => ~P!Remains(n)
  BY DEF ChainInv, SecretInv, SecretFiles, SecretFile
<1>4. QED BY <1>1, <1>2, <1>3 DEF SuccessIsTrue, Achieved

\* A Secret of the operation that lives is in the continuation, or its receipt
\* does not say that it is gone, or its creation was forgotten.
LEMMA LeftoversFollow == ChainInv => LeftoversAreNamed
<1> SUFFICES ASSUME ChainInv, Committed, evidence.status # "activated", ~evidence.blind
             PROVE  LeftoversAreNamed
  BY DEF LeftoversAreNamed
<1>1. /\ dormant # "absent" /\ evidence.found.dormant = "absent"
           => evidence.dormantNext \/ boot = "rollback-incomplete"
      /\ gateway # "absent" /\ evidence.found.gateway = "absent" => evidence.dormantNext
      /\ evidence.mode = "fresh" =>
           /\ evidence.op \in P!Operations
           /\ evidence.secretNext \/ receipts[evidence.op].status # "materialized"
  BY DEF ChainInv, WrapperInv, Told
<1>2. ASSUME evidence.mode = "fresh", NEW l \in P!Labels, P!Lives(evidence.op, l), ~evidence.secretNext
      PROVE  \/ receipts[evidence.op].status \in {"empty", "rollback-incomplete"}
             \/ <<evidence.op, l>> \in forgotten
  <2>1. SecretFile(evidence.op) /\ receipts[evidence.op].status \in Statuses
    BY <1>1, <1>2 DEF ChainInv, SecretInv, SecretFiles, SecretTypes
  <2>2. receipts[evidence.op].status # "materialized"
    BY <1>1, <1>2
  <2>3. QED BY <1>2, <2>1, <2>2 DEF SecretFile, Gone, Unborn, Statuses
<1>3. QED BY <1>1, <1>2 DEF LeftoversAreNamed

\* Where a launch has committed its receipt, exit code 0 means that what it names
\* was achieved; and what a launch that did not activate the gateway leaves behind
\* is named, through signals and failing calls, unless it was blind: a child timed
\* out, or how one ended could not be verified.  A creation that the materialiser
\* forgot is excepted, and a launch without a receipt (a lost host, a failed
\* commit) claims nothing.
THEOREM EvidenceOfChainIsTrue == Spec => []EvidenceIsTrue
<1>1. ChainInv => EvidenceIsTrue
  BY SuccessFollows, LeftoversFollow DEF EvidenceIsTrue
<1>2. QED BY <1>1, ChainInvariant, PTL

LEMMA SecretsFollow == ChainInv => SecretsUnderGateway /\ WhatIsGoneIsGone
<1> SUFFICES ASSUME ChainInv PROVE SecretsUnderGateway /\ WhatIsGoneIsGone
  OBVIOUS
<1>1. SecretsUnderGateway
  BY DEF ChainInv, SecretInv, Covered, SecretsUnderGateway
<1>2. ASSUME NEW n \in P!Operations
      PROVE  /\ receipts[n].status = "rolled-back" =>
                  \A l \in P!Labels :
                    <<n, l>> \in forgotten \/ ~(P!Lives(n, l) \/ <<n, l>> \in travelling)
             /\ torn[n] = "torn-down" => ~P!Remains(n)
  BY DEF ChainInv, SecretInv, SecretFiles, SecretFile, Gone, Unborn
<1>3. QED BY <1>1, <1>2 DEF WhatIsGoneIsGone

\* What a deletion compares the Secret with is a record of the operation.
LEMMA OwnershipIsOwn ==
  ASSUME ChainInv, P!At("delete"), NEW l \in P!Labels, P!Ownership[l] # Absent
  PROVE  P!Ownership[l].nonce = w.op
<1>1. /\ w.op = job.op /\ job.op \in P!Operations
      /\ job.mode = "materialize" => Materializing
      /\ job.mode = "teardown" => TearingDown
      /\ job.mode \in {"materialize", "teardown"}
  BY WhoRuns, AtWork DEF ChainInv, P!At
<1>2. CASE job.mode = "teardown"
  <2>1. SecretFile(job.op) /\ receipts[job.op].status = "materialized"
    BY <1>1, <1>2 DEF ChainInv, SecretInv, SecretFiles, TearingDown
  <2>2. QED BY <1>1, <1>2, <2>1 DEF SecretFile, Own, P!Ownership
<1>3. CASE job.mode = "materialize"
  BY <1>1, <1>3 DEF Materializing, Own, P!Ownership
<1>4. QED BY <1>1, <1>2, <1>3

LEMMA OnlyOwnIsDeleted == ChainInv /\ [Next]_vars => DeletesOwn
<1> SUFFICES ASSUME ChainInv, [Next]_vars, NEW l \in P!Labels, secrets[l] # Absent, secrets'[l] = Absent
             PROVE  secrets[l].nonce = w.op /\ secrets[l] = P!Ownership[l]
  BY DEF DeletesOwn
<1>1. secrets \in P!Records /\ Absent \notin P!Identities
  BY SecretRecords DEF ChainInv, SecretInv, SecretTypes
<1>2. CASE P!Delete \/ P!DeleteFails
  <2>1. P!At("delete") /\ \E k \in P!Last : secrets[k] = P!Ownership[k]
                                            /\ secrets' = [secrets EXCEPT ![k] = Absent]
    BY <1>2 DEF P!Delete, P!DeleteFails
  <2>2. secrets[l] = P!Ownership[l]
    BY <1>1, <2>1 DEF P!Records
  <2>3. QED BY <2>1, <2>2, OwnershipIsOwn
<1>3. CASE UNCHANGED secrets
  BY <1>3
<1>4. CASE P!Create \/ P!RaiseCreating
  <2>1. UNCHANGED secrets \/ \E k \in P!First : secrets[k] = Absent
                                /\ secrets' = [secrets EXCEPT ![k] = P!Record(job.op)]
    BY <1>4 DEF P!Create, P!RaiseCreating
  <2>2. QED BY <1>1, <2>1 DEF P!Records
<1>5. CASE P!ServeLate
  <2>1. UNCHANGED secrets \/ \E r \in travelling : secrets[r[2]] = Absent
                                /\ secrets' = [secrets EXCEPT ![r[2]] = P!Record(r[1])]
    BY <1>5 DEF P!ServeLate
  <2>2. QED BY <1>1, <2>1 DEF P!Records
<1>6. CASE P!Interfere
  <2>1. \/ \E k \in P!Labels : /\ secrets[k] = Absent
                               /\ secrets' = [secrets EXCEPT ![k] = P!Record(P!Rival)]
        \/ \E k \in P!Labels : secrets' = [secrets EXCEPT ![k].version = 1]
    BY <1>6 DEF P!Interfere
  <2>2. secrets[l] \in P!Identities
    BY <1>1 DEF P!Records
  <2>3. [secrets[l] EXCEPT !.version = 1] \in P!Identities
    BY <2>2 DEF P!Identities
  <2>4. QED BY <1>1, <2>1, <2>3 DEF P!Records
<1>7. \/ P!Delete \/ P!DeleteFails \/ UNCHANGED secrets \/ P!Create \/ P!RaiseCreating
      \/ P!ServeLate \/ P!Interfere
  <2>1. \/ \E n \in P!Operations : P!StartMaterialize(n) \/ P!StartTeardown(n)
        \/ P!Proceed \/ P!Fail \/ P!Raise \/ P!RaiseCreating \/ P!Kill
        \/ P!ServeLate \/ P!Interfere \/ UNCHANGED participant
    BY StepOfParticipant DEF ChainInv
  <2>2. CASE \E n \in P!Operations : P!StartMaterialize(n) \/ P!StartTeardown(n)
    BY <2>2 DEF P!StartMaterialize, P!StartTeardown, P!cluster
  <2>3. CASE P!Proceed
    BY <2>3 DEF P!Proceed, P!Preflight, P!Look, P!Confirm, P!Commit, P!Settle, P!CheckUnused,
       P!Recheck, P!TornDown, P!Incomplete, P!cluster
  <2>4. CASE P!Fail \/ P!Raise \/ P!Kill \/ UNCHANGED participant
    BY <2>4 DEF P!Fail, P!CreateUnanswered, P!CommitFails, P!SettleFails, P!TornDownFails, P!Raise,
       P!Kill, P!cluster, participant
  <2>5. QED BY <2>1, <2>2, <2>3, <2>4
<1>8. QED BY <1>2, <1>3, <1>4, <1>5, <1>6, <1>7

\* After every step the gateway has its Secrets and the materialiser's
\* receipts are right about the cluster; and a step that deletes a Secret
\* deletes one of the operation at hand, as it was recorded.
THEOREM ChainKeepsSecrets == Spec => SecretsAreKept
<1>1. ChainInv /\ ChainInv' /\ [Next]_vars
        => [DeletesOwn /\ (SecretsUnderGateway /\ WhatIsGoneIsGone)']_vars
  <2> SUFFICES ASSUME ChainInv, ChainInv', [Next]_vars
               PROVE  DeletesOwn /\ (SecretsUnderGateway /\ WhatIsGoneIsGone)'
    OBVIOUS
  <2>1. (ChainInv => SecretsUnderGateway /\ WhatIsGoneIsGone)'
    BY SecretsFollow, PTL
  <2>2. QED BY <2>1, OnlyOwnIsDeleted
<1>2. QED BY <1>1, ChainInvariant, PTL DEF Spec, SecretsAreKept

=============================================================================
