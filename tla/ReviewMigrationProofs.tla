------------------------ MODULE ReviewMigrationProofs ------------------------
\* No request of the review migration is ever sent twice, and what it has
\* recorded is true of the cluster and of both stores at every moment: the
\* proofs of Spec => []NeverRepeated, []TypeOK and []EvidenceIsTrue.
\*
\* The first rests on the records a request leaves behind: one that has no
\* durable record was never sent, and the process that is about to send
\* one has just made the record.  The others rest on three things.  A
\* request that may still be served finds its object untouched.  An
\* operation runs only in its own stage, so what an earlier one has seen
\* stays recorded.  And what was seen is taken back by nothing that may
\* still happen.
EXTENDS ReviewMigration, TLAPS

Unsent(r) == r \in Requests => sent[r] = 0

\* The values of the fields.
Points == {"off", "reserved", "step", "effect", "return", "raised", "opened", "look", "send", "see",
           "command", "upload", "uploading", "invoke", "invoking", "answer", "collected",
           "encrypting", "sealing", "raising"}
Processes == [pc : Points, call : {"none", "perform", "resume"},
              child : Children \cup {"none"}, mode : Modes \cup {"none"}]
Places == {"none", "missing", "here"}
Parents == [file : Places, completed : Int, pending : BOOLEAN,
            status : {"reserved", "effect-intent", "awaiting-evidence",
                      "stopped-preserve-state", "complete"}]
ChildRecords == [file : Places, n : Nat, k : Nat,
                 status : {"reserved", "intent", "waiting", "done", "stopped"}]
Commands == [file : Places, upload : BOOLEAN, invoke : BOOLEAN, result : BOOLEAN,
             status : {"reserved", "intent", "waiting", "stopped", "complete"}]
Disks == [parent : Parents, child : [Children -> ChildRecords], command : [Modes -> Commands],
          released : SUBSET {"source", "migration"},
          backup : {"none", "directory", "pending", "sealing", "verified"}]

\* The files and the counters are of their kind.
Files == disk \in Disks /\ sent \in [Requests -> Nat]

\* A process that works on a child operation or on an exchange knows which.
Inside == {"opened", "look", "send", "see", "command", "upload", "uploading", "invoke",
           "invoking", "answer", "collected", "encrypting", "sealing", "raising"}

Working ==
  /\ run \in Processes
  /\ run.pc \in Inside => run.child \in Children
  /\ run.pc \in {"command", "upload", "uploading", "invoke", "invoking", "answer"} => run.mode \in Modes

\* What has no record was not sent.
Journaled ==
  /\ \A c \in Children : disk.child[c].n \in {disk.child[c].k, disk.child[c].k + 1}
  /\ \A r \in Requests :
       r[1] \in Children /\ r[2] \in Nat /\ r[2] > disk.child[r[1]].n => sent[r] = 0
  /\ \A m \in Modes : ~disk.command[m].invoke => Unsent(<<"invoke", m>>)
  /\ ~disk.command["verify-backup"].upload => Unsent(<<"upload", "verify-backup">>)

\* What is about to be sent has a record and was not sent.
AboutToSend ==
  /\ run.pc = "send" => /\ disk.child[run.child].n = disk.child[run.child].k + 1
                        /\ Unsent(<<run.child, disk.child[run.child].k + 1>>)
  /\ run.pc = "uploading" => /\ disk.command["verify-backup"].upload
                             /\ Unsent(<<"upload", "verify-backup">>)
  /\ run.pc = "invoking" => /\ disk.command[run.mode].invoke
                            /\ Unsent(<<"invoke", run.mode>>)

IInv == Files /\ Working /\ Journaled /\ AboutToSend /\ NeverRepeated

-----
LEMMA Names ==
  /\ Children = {"fence", "initializer", "create", "retire", "expired", "start", "restart",
                 "restore", "verify-backup", "prepare-migration", "activate-migration"}
  /\ "invoke" \notin Children /\ "upload" \notin Children
<1>1. DOMAIN Effects = {"fence", "initializer", "create", "retire", "expired", "start",
                        "restart", "restore"}
  BY DEF Effects
<1> QED BY <1>1 DEF Children, Stages

LEMMA ModeNames ==
  /\ "verify-backup" \in Modes /\ "capture-backup" \in Modes
  /\ \A s \in Stages : FirstMode[s] \in Modes
<1>1. "verify-backup" \in Modes /\ "capture-backup" \in Modes
  BY DEF Modes
<1>2. ASSUME NEW s \in Stages PROVE FirstMode[s] \in Modes
  <2>1. CASE s = "verify-backup"
    BY <2>1, Zenon DEF FirstMode, Modes, Stages
  <2>2. CASE s = "prepare-migration"
    BY <2>2, Zenon DEF FirstMode, Modes, Stages
  <2>3. CASE s = "activate-migration"
    BY <2>3, Zenon DEF FirstMode, Modes, Stages
  <2> QED BY <2>1, <2>2, <2>3 DEF Stages
<1> QED BY <1>1, <1>2

LEMMA InitInv == Init => IInv
<1> SUFFICES ASSUME Init PROVE IInv
  OBVIOUS
<1>1. disk = [parent |-> [file |-> "none", completed |-> 0, pending |-> FALSE, status |-> "reserved"],
              child |-> [c \in Children |-> NoChild],
              command |-> [m \in Modes |-> NoCommand],
              released |-> {}, backup |-> "none"]
      /\ sent = [r \in Requests |-> 0] /\ run = Off
  BY DEF Init
<1>2. NoChild \in ChildRecords /\ NoCommand \in Commands
  BY DEF NoChild, NoCommand, ChildRecords, Commands, Places
<1>3. Files
  BY <1>1, <1>2 DEF Files, Disks, Parents, Places
<1>4. Working
  BY <1>1 DEF Working, Inside, Off, Processes, Points
<1>5. Journaled
  BY <1>1, ModeNames DEF Journaled, Unsent, NoChild, NoCommand
<1>6. AboutToSend /\ NeverRepeated
  BY <1>1 DEF AboutToSend, NeverRepeated, Off
<1> QED BY <1>3, <1>4, <1>5, <1>6 DEF IInv

\* The records of what was sent stay as they are.
SameRecords ==
  /\ sent' = sent
  /\ \A c \in Children : disk'.child[c].n = disk.child[c].n /\ disk'.child[c].k = disk.child[c].k
  /\ \A m \in Modes : /\ disk'.command[m].upload = disk.command[m].upload
                      /\ disk'.command[m].invoke = disk.command[m].invoke

Sending == {"send", "uploading", "invoking"}

LEMMA Keep ==
  ASSUME IInv, Files', Working', SameRecords, run' = run \/ run'.pc \notin Sending
  PROVE  IInv'
<1>1. Journaled'
  BY ModeNames DEF IInv, Journaled, SameRecords, Unsent
<1>2. AboutToSend'
  <2>1. CASE run' = run
    BY <2>1, ModeNames DEF IInv, AboutToSend, SameRecords, Unsent, Working, Inside
  <2>2. CASE run'.pc \notin Sending
    BY <2>2 DEF AboutToSend, Sending
  <2> QED BY <2>1, <2>2
<1>3. NeverRepeated'
  BY DEF IInv, NeverRepeated, SameRecords
<1> QED BY <1>1, <1>2, <1>3 DEF IInv

\* The disk stays as it is.
LEMMA DiskStays ==
  ASSUME IInv, UNCHANGED <<sent, disk>>
  PROVE  Files' /\ SameRecords
BY DEF IInv, Files, SameRecords

-----
\* Steps that touch neither the disk nor a request.

LEMMA Elsewhere ==
  ASSUME IInv, UNCHANGED <<sent, disk, run>>
  PROVE  IInv'
<1>1. Working'
  BY DEF IInv, Working
<1> QED BY <1>1, DiskStays, Keep

LEMMA WorldSteps ==
  ASSUME IInv, ServeLate \/ Cluster \/ WindowCloses \/ Finalize
  PROVE  IInv'
<1>1. UNCHANGED <<sent, disk, run>>
  BY Zenon DEF ServeLate, Cluster, FluxBegins, FluxApplies, Merge, PodsFollow, Becomes,
               WindowCloses, Finalize
<1> QED BY <1>1, Elsewhere

LEMMA CrashStep ==
  ASSUME IInv, Crash \/ EndExpired
  PROVE  IInv'
<1>1. run' = Off /\ UNCHANGED <<sent, disk>>
  BY DEF Crash, EndExpired, Only
<1>2. Working' /\ run'.pc \notin Sending
  BY <1>1 DEF Working, Inside, Off, Processes, Points, Sending
<1> QED BY <1>1, <1>2, DiskStays, Keep

LEMMA RecoverStep ==
  ASSUME IInv, Recover
  PROVE  IInv'
<1>1. UNCHANGED <<sent, disk>>
  BY DEF Recover, Only
<1>2. Working' /\ run'.pc \notin Sending
  BY DEF IInv, Recover, Only, Working, Inside, Processes, Points, Sending
<1> QED BY <1>1, <1>2, DiskStays, Keep

LEMMA WorkerReadyStep ==
  ASSUME IInv, WorkerReady
  PROVE  IInv'
<1>1. UNCHANGED <<sent, disk>>
  BY DEF WorkerReady, Only
<1>2. Working' /\ run'.pc \notin Sending
  BY DEF IInv, WorkerReady, Only, Working, Inside, Processes, Points, Sending
<1> QED BY <1>1, <1>2, DiskStays, Keep

LEMMA StartExpiredStep ==
  ASSUME IInv, StartExpired
  PROVE  IInv'
<1>1. run' = [Off EXCEPT !.pc = "look", !.child = "expired"] /\ UNCHANGED <<sent, disk>>
  BY DEF StartExpired
<1>2. Working' /\ run'.pc \notin Sending
  BY <1>1, Names DEF Working, Inside, Off, Processes, Points, Sending
<1> QED BY <1>1, <1>2, DiskStays, Keep
-----
\* Steps that write a file but make no record of a request.

\* A checkpoint file of a child operation.
LEMMA ChildFile ==
  ASSUME IInv, NEW c \in Children, NEW f \in Places,
         disk' = [disk EXCEPT !.child[c].file = f], sent' = sent
  PROVE  Files' /\ SameRecords
BY ZenonT(60) DEF IInv, Files, Disks, ChildRecords, SameRecords

\* The coordinator's own receipt.
LEMMA ParentOnly ==
  ASSUME IInv, NEW p \in Parents, disk' = [disk EXCEPT !.parent = p], sent' = sent
  PROVE  Files' /\ SameRecords
BY DEF IInv, Files, Disks, SameRecords

LEMMA LaunchStep == ASSUME IInv, Launch PROVE IInv'
<1>1. disk' = [disk EXCEPT !.parent.file = "missing"] /\ sent' = sent
  BY DEF Launch, Disk
<1>2. Files' /\ SameRecords
  BY <1>1 DEF IInv, Files, Disks, Parents, Places, SameRecords
<1>3. Working' /\ run'.pc \notin Sending
  BY DEF IInv, Launch, Goto, Working, Inside, Processes, Points, Sending
<1> QED BY <1>2, <1>3, Keep

LEMMA BeginStep == ASSUME IInv, Begin PROVE IInv'
<1>1. disk' = [disk EXCEPT !.parent.file = "here"] /\ sent' = sent
  BY DEF Begin, Disk
<1>2. Files' /\ SameRecords
  BY <1>1 DEF IInv, Files, Disks, Parents, Places, SameRecords
<1>3. Working' /\ run'.pc \notin Sending
  BY DEF IInv, Begin, Goto, Working, Inside, Processes, Points, Sending
<1> QED BY <1>2, <1>3, Keep

LEMMA IntendStep == ASSUME IInv, Intend PROVE IInv'
<1>1. disk' = [disk EXCEPT !.parent.pending = TRUE, !.parent.status = "effect-intent"] /\ sent' = sent
  BY DEF Intend, Disk
<1>2. Files' /\ SameRecords
  BY <1>1 DEF IInv, Files, Disks, Parents, SameRecords
<1>3. Working' /\ run'.pc \notin Sending
  BY DEF IInv, Intend, Working, Inside, Processes, Points, Sending
<1> QED BY <1>2, <1>3, Keep

LEMMA RecordStep == ASSUME IInv, Record PROVE IInv'
<1> DEFINE s == IF Completed = 8 THEN "complete" ELSE "reserved"
           p == [file |-> "here", completed |-> Completed + 1, pending |-> FALSE, status |-> s]
<1>1. s \in {"complete", "reserved"}
  OBVIOUS
<1>2. disk' = [disk EXCEPT !.parent = p] /\ sent' = sent /\ run' = [Off EXCEPT !.pc = "step"]
  BY DEF Record, Disk
<1> HIDE DEF s
<1>3. p \in Parents
  BY <1>1 DEF IInv, Files, Disks, Parents, Completed, Places
<1> HIDE DEF p
<1>4. Files' /\ SameRecords
  BY <1>2, <1>3, ParentOnly
<1>5. Working' /\ run'.pc \notin Sending
  BY <1>2 DEF Off, Working, Inside, Processes, Points, Sending
<1> QED BY <1>4, <1>5, Keep

LEMMA AwaitStep == ASSUME IInv, Await \/ Finish PROVE IInv'
<1>1. \E s \in {"awaiting-evidence", "complete"} : disk' = [disk EXCEPT !.parent.status = s]
      /\ sent' = sent /\ run' = Off
  BY DEF Await, Finish, Disk
<1>2. Files' /\ SameRecords
  BY <1>1 DEF IInv, Files, Disks, Parents, SameRecords
<1>3. Working' /\ run'.pc \notin Sending
  BY <1>1 DEF Off, Working, Inside, Processes, Points, Sending
<1> QED BY <1>2, <1>3, Keep

LEMMA RaisedStep == ASSUME IInv, Raised PROVE IInv'
<1>1. /\ sent' = sent
      /\ \/ disk' = [disk EXCEPT !.parent.status = "stopped-preserve-state"]
         \/ disk' = disk
  BY DEF Raised, Disk, Only
<1>2. Files' /\ SameRecords
  BY <1>1 DEF IInv, Files, Disks, Parents, SameRecords
<1>3. Working' /\ run'.pc \notin Sending
  <2>1. run' = [run EXCEPT !.pc = "return"] \/ run' = Off
    BY DEF Raised, Only
  <2> QED BY <2>1 DEF IInv, Off, Working, Inside, Processes, Points, Sending
<1> QED BY <1>2, <1>3, Keep

LEMMA ReleaseSourceStep == ASSUME IInv, ReleaseSource PROVE IInv'
<1>1. disk' = [disk EXCEPT !.released = @ \cup {"source"}] /\ sent' = sent /\ run' = run
  BY DEF ReleaseSource, Disk
<1>2. Files' /\ SameRecords
  BY <1>1 DEF IInv, Files, Disks, SameRecords
<1>3. Working'
  BY <1>1 DEF IInv, Working
<1> QED BY <1>1, <1>2, <1>3, Keep

LEMMA StagesChildren == ASSUME NEW s PROVE ChildOf(s) \in Children
<1>1. CASE s \in Stages
  <2>1. s \in Children
    BY <1>1 DEF Children
  <2>2. s # "fence-source" /\ s # "release-mounts"
    BY <1>1 DEF Stages
  <2> QED BY <1>1, <2>1, <2>2, Names, Zenon DEF ChildOf
<1>2. CASE s \notin Stages
  BY <1>2, Names, Zenon DEF ChildOf, Stages
<1> QED BY <1>1, <1>2

LEMMA OpenChildStep == ASSUME IInv, OpenChild PROVE IInv'
<1> DEFINE c == ChildOf(Stage)
<1>1. /\ disk' = [disk EXCEPT !.child[c].file = "missing"] /\ sent' = sent
      /\ run' = [run EXCEPT !.pc = "opened", !.child = c, !.mode = "none"]
  BY DEF OpenChild, Disk
<1>2. c \in Children
  BY StagesChildren
<1> HIDE DEF c
<1>3. Files' /\ SameRecords
  BY <1>1, <1>2, ChildFile DEF Places
<1>4. Working' /\ run'.pc \notin Sending
  BY <1>1, <1>2 DEF IInv, Working, Inside, Processes, Points, Sending
<1> QED BY <1>3, <1>4, Keep

LEMMA BeginChildStep == ASSUME IInv, BeginChild PROVE IInv'
<1>1. disk' = [disk EXCEPT !.child[run.child].file = "here"] /\ sent' = sent
      /\ run' = [run EXCEPT !.pc = "look"] /\ run.pc = "opened"
  BY DEF BeginChild, Disk, Goto, Point
<1>2. run.child \in Children
  BY <1>1 DEF IInv, Working, Inside
<1>3. Files' /\ SameRecords
  BY <1>1, <1>2, ChildFile DEF Places
<1>4. Working' /\ run'.pc \notin Sending
  BY <1>1, <1>2 DEF IInv, Working, Inside, Processes, Points, Sending
<1> QED BY <1>3, <1>4, Keep

\* What a child operation saves of itself.
LEMMA SaveStep ==
  ASSUME IInv, run.child \in Children, NEW r \in ChildRecords, Save(r),
         r.n = child.n, r.k = child.k, run'.pc \notin Sending, Working'
  PROVE  IInv'
<1>1. disk' = [disk EXCEPT !.child[run.child] = r] /\ sent' = sent
  BY DEF Save, Disk
<1>2. Files' /\ SameRecords
  BY <1>1 DEF IInv, Files, Disks, SameRecords, child
<1> QED BY <1>2, Keep

LEMMA WaitStep == ASSUME IInv, run.pc \in Inside, Wait \/ Done PROVE IInv'
<1>1. PICK s \in {"waiting", "done"} : Save([child EXCEPT !.status = s])
  BY DEF Wait, Done
<1>2. run' = [run EXCEPT !.pc = "return"]
  BY DEF Wait, Done, Goto
<1>3. run.child \in Children
  BY DEF IInv, Working
<1> DEFINE r == [child EXCEPT !.status = s]
<1>4. r \in ChildRecords /\ r.n = child.n /\ r.k = child.k
  BY <1>3 DEF IInv, Files, Disks, ChildRecords, child
<1>5. Save(r)
  BY <1>1
<1> HIDE DEF r
<1>6. Working' /\ run'.pc \notin Sending
  BY <1>2 DEF IInv, Working, Inside, Processes, Points, Sending
<1> QED BY <1>3, <1>4, <1>5, <1>6, SaveStep

-----
\* The records of a request: made before it, never taken back.

\* A request beyond the record was not sent.
LEMMA Ahead ==
  ASSUME IInv, NEW c \in Children, NEW i \in Nat, i > disk.child[c].n
  PROVE  Unsent(<<c, i>>)
BY DEF IInv, Journaled, Unsent

LEMMA Counters ==
  ASSUME IInv, NEW c \in Children
  PROVE  /\ disk.child[c] \in ChildRecords /\ disk.child[c].n \in Nat /\ disk.child[c].k \in Nat
         /\ disk.child[c].n \in {disk.child[c].k, disk.child[c].k + 1}
BY DEF IInv, Files, Disks, ChildRecords, Journaled

\* A record of a child operation that covers no less than before.
LEMMA MoreRecords ==
  ASSUME IInv, NEW c \in Children, NEW r \in ChildRecords,
         disk' = [disk EXCEPT !.child[c] = r], sent' = sent,
         r.n >= disk.child[c].n, r.n \in {r.k, r.k + 1}
  PROVE  Files' /\ Journaled' /\ NeverRepeated'
<1>1. Files'
  BY DEF IInv, Files, Disks
<1>2. /\ disk'.child[c] = r /\ disk'.command = disk.command
      /\ \A d \in Children : d # c => disk'.child[d] = disk.child[d]
  BY DEF IInv, Files, Disks
<1>3. \A d \in Children : disk'.child[d].n \in {disk'.child[d].k, disk'.child[d].k + 1}
  BY <1>2 DEF IInv, Journaled
<1>4. \A d \in Children : disk'.child[d].n >= disk.child[d].n /\ disk'.child[d].n \in Nat
                          /\ disk.child[d].n \in Nat
  BY <1>2, Counters DEF ChildRecords
<1>5. Journaled'
  BY <1>2, <1>3, <1>4 DEF IInv, Journaled, Unsent
<1>6. NeverRepeated'
  BY DEF IInv, NeverRepeated
<1> QED BY <1>1, <1>5, <1>6

LEMMA IntentStep == ASSUME IInv, run.pc \in Inside, Intent PROVE IInv'
<1> DEFINE c == run.child
           r == [disk.child[c] EXCEPT !.n = @ + 1, !.status = "intent"]
<1>1. c \in Children
  BY DEF IInv, Working
<1>2. /\ disk' = [disk EXCEPT !.child[c] = r] /\ sent' = sent
      /\ run' = [run EXCEPT !.pc = "send"] /\ disk.child[c].n = disk.child[c].k
  BY DEF Intent, Save, RecordIntent, Disk, Goto, child
<1>3. disk.child[c] \in ChildRecords /\ disk.child[c].k \in Nat /\ disk.child[c].n \in Nat
  BY <1>1, Counters
<1>4. r \in ChildRecords /\ r.n = disk.child[c].k + 1 /\ r.k = disk.child[c].k
  <2>1. ASSUME NEW x \in ChildRecords, NEW i \in Nat
        PROVE  LET y == [x EXCEPT !.n = i, !.status = "intent"]
               IN  y \in ChildRecords /\ y.n = i /\ y.k = x.k
    BY DEF ChildRecords
  <2>2. r = [disk.child[c] EXCEPT !.n = disk.child[c].n + 1, !.status = "intent"]
    OBVIOUS
  <2>3. disk.child[c].n + 1 \in Nat
    BY <1>3
  <2> HIDE DEF r
  <2> QED BY <1>2, <1>3, <2>1, <2>2, <2>3
<1>5. Unsent(<<c, disk.child[c].k + 1>>)
  BY <1>1, <1>2, <1>3, Ahead
<1>6. disk'.child[c] = r
  BY <1>1, <1>2 DEF IInv, Files, Disks
<1> HIDE DEF r
<1>7. Files' /\ Journaled' /\ NeverRepeated'
  BY <1>1, <1>2, <1>3, <1>4, MoreRecords
<1>8. Working'
  BY <1>1, <1>2 DEF IInv, Working, Inside, Processes, Points
<1>9. AboutToSend'
  <2>1. run'.pc = "send" /\ run'.child = c
    BY <1>2 DEF IInv, Working, Processes
  <2>2. disk'.child[c].n = disk'.child[c].k + 1 /\ disk'.child[c].k = disk.child[c].k
    BY <1>4, <1>6
  <2>3. Unsent(<<c, disk.child[c].k + 1>>)'
    BY <1>2, <1>5, <2>2 DEF Unsent
  <2> QED BY <2>1, <2>2, <2>3 DEF AboutToSend, Unsent
<1> QED BY <1>7, <1>8, <1>9 DEF IInv

LEMMA ObserveStep == ASSUME IInv, run.pc \in Inside, Observe PROVE IInv'
<1> DEFINE c == run.child
<1>1. c \in Children
  BY DEF IInv, Working
<1>2. CASE Save([child EXCEPT !.status = "waiting"]) /\ Goto("return")
  BY <1>2, WaitStep DEF Wait
<1>3. CASE Save([file |-> child.file, n |-> child.k + 1, k |-> child.k + 1, status |-> "reserved"])
           /\ Goto("look")
  <2> DEFINE r == [file |-> disk.child[c].file, n |-> disk.child[c].k + 1,
                   k |-> disk.child[c].k + 1, status |-> "reserved"]
  <2>1. disk' = [disk EXCEPT !.child[c] = r] /\ sent' = sent /\ run' = [run EXCEPT !.pc = "look"]
    BY <1>3 DEF Save, Disk, Goto, child
  <2>2. /\ disk.child[c] \in ChildRecords /\ disk.child[c].n \in Nat /\ disk.child[c].k \in Nat
        /\ disk.child[c].n \in {disk.child[c].k, disk.child[c].k + 1}
    BY <1>1, Counters
  <2>3. r \in ChildRecords /\ r.n >= disk.child[c].n /\ r.n = r.k
    BY <2>2 DEF ChildRecords
  <2> HIDE DEF r
  <2>4. Files' /\ Journaled' /\ NeverRepeated'
    BY <1>1, <2>1, <2>3, MoreRecords
  <2>5. Working' /\ run'.pc \notin Sending
    BY <1>1, <2>1 DEF IInv, Working, Inside, Processes, Points, Sending
  <2> QED BY <2>4, <2>5 DEF IInv, AboutToSend, Sending
<1> QED BY <1>2, <1>3 DEF Observe

LEMMA LookStep == ASSUME IInv, run.pc \in Inside, Look PROVE IInv'
BY IntentStep, ObserveStep DEF Look

LEMMA SeeStep == ASSUME IInv, See PROVE IInv'
BY ObserveStep DEF See, Point, Inside

-----
\* The child operations.

LEMMA RetireReleases ==
  ASSUME IInv, disk' = [disk EXCEPT !.released = @ \cup {"migration"}], sent' = sent, run' = run
  PROVE  IInv'
<1>1. Files' /\ SameRecords
  BY DEF IInv, Files, Disks, SameRecords
<1>2. Working'
  BY DEF IInv, Working
<1> QED BY <1>1, <1>2, Keep

LEMMA ChildSteps ==
  ASSUME IInv, AdvanceFence \/ AdvanceInitializer \/ AdvanceCreation \/ AdvanceRetirement
               \/ AdvanceStart \/ AdvanceRestart \/ AdvanceRestore \/ RetireExpired
  PROVE  IInv'
<1>1. run.pc \in Inside
  BY DEF AdvanceFence, AdvanceInitializer, AdvanceCreation, AdvanceRetirement, AdvanceStart,
         AdvanceRestart, AdvanceRestore, RetireExpired, Pass, Point, Inside
<1>2. CASE Look \/ Wait \/ Done
  BY <1>1, <1>2, LookStep, WaitStep
<1>3. CASE disk' = [disk EXCEPT !.released = @ \cup {"migration"}] /\ sent' = sent /\ run' = run
  BY <1>3, RetireReleases
<1>4. Look \/ Wait \/ Done
      \/ (disk' = [disk EXCEPT !.released = @ \cup {"migration"}] /\ sent' = sent /\ run' = run)
  <2>1. CASE AdvanceRetirement
    BY <2>1, Zenon DEF AdvanceRetirement, Disk
  <2>2. CASE RetireExpired
    BY <2>2, Zenon DEF RetireExpired
  <2>3. CASE AdvanceFence \/ AdvanceInitializer \/ AdvanceCreation
    BY <2>3, Zenon DEF AdvanceFence, AdvanceInitializer, AdvanceCreation
  <2>4. CASE AdvanceStart \/ AdvanceRestart \/ AdvanceRestore
    BY <2>4, Zenon DEF AdvanceStart, AdvanceRestart, AdvanceRestore
  <2> QED BY <2>1, <2>2, <2>3, <2>4
<1> QED BY <1>2, <1>3, <1>4
-----
\* The requests.

\* A request that was not sent before is sent once.
LEMMA CountStep ==
  ASSUME IInv, NEW r, Unsent(r), Count(r)
  PROVE  /\ sent' \in [Requests -> Nat] /\ NeverRepeated'
         /\ \A q \in Requests : q # r => sent'[q] = sent[q]
<1>1. sent \in [Requests -> Nat] /\ \A q \in Requests : sent[q] <= 1
  BY DEF IInv, Files, NeverRepeated
<1>2. sent' = [sent EXCEPT ![r] = IF sent[r] < 2 THEN sent[r] + 1 ELSE sent[r]]
  BY DEF Count
<1>3. CASE r \in Requests
  <2>1. sent[r] = 0
    BY <1>3 DEF Unsent
  <2>2. sent' = [sent EXCEPT ![r] = 1]
    BY <1>2, <2>1
  <2>3. sent' \in [Requests -> Nat] /\ sent'[r] = 1
        /\ \A q \in Requests : q # r => sent'[q] = sent[q]
    BY <1>1, <1>3, <2>2
  <2> QED BY <1>1, <2>3 DEF NeverRepeated
<1>4. CASE r \notin Requests
  <2>1. sent' = sent
    BY <1>1, <1>2, <1>4
  <2> QED BY <1>1, <2>1 DEF NeverRepeated
<1> QED BY <1>3, <1>4

LEMMA SendStep == ASSUME IInv, Send PROVE IInv'
<1> DEFINE c == run.child
           r == <<c, disk.child[c].k + 1>>
<1>1. /\ run.pc = "send" /\ Count(r) /\ disk' = disk
      /\ run' = [run EXCEPT !.pc = "see"]
  BY DEF Send, Point, Goto, child
<1>2. c \in Children
  BY <1>1 DEF IInv, Working, Inside
<1>3. disk.child[c].n = disk.child[c].k + 1 /\ Unsent(r)
  BY <1>1 DEF IInv, AboutToSend
<1>4. /\ sent' \in [Requests -> Nat] /\ NeverRepeated'
      /\ \A q \in Requests : q # r => sent'[q] = sent[q]
  BY <1>1, <1>3, CountStep
<1>5. Journaled'
  <2>1. \A d \in Children : disk.child[d].n \in {disk.child[d].k, disk.child[d].k + 1}
    BY DEF IInv, Journaled
  <2>2. ASSUME NEW q \in Requests, q[1] \in Children, q[2] \in Nat, q[2] > disk.child[q[1]].n
        PROVE  sent'[q] = 0
    <3>1. q # r
      BY <1>2, <1>3, <2>2, Counters
    <3> QED BY <1>4, <2>2, <3>1 DEF IInv, Journaled
  <2>3. \A m : <<"invoke", m>> # r /\ <<"upload", m>> # r
    BY <1>2, Names
  <2>4. \A m \in Modes : ~disk.command[m].invoke => Unsent(<<"invoke", m>>)'
    BY <1>4, <2>3 DEF IInv, Journaled, Unsent
  <2>5. ~disk.command["verify-backup"].upload => Unsent(<<"upload", "verify-backup">>)'
    BY <1>4, <2>3 DEF IInv, Journaled, Unsent
  <2> QED BY <1>1, <2>1, <2>2, <2>4, <2>5 DEF Journaled, Unsent
<1>6. Files' /\ Working' /\ AboutToSend'
  BY <1>1, <1>2, <1>4 DEF IInv, Files, Working, Inside, Processes, Points, AboutToSend
<1> QED BY <1>4, <1>5, <1>6 DEF IInv

-----
\* The exchanges with the worker.

LEMMA Mails ==
  ASSUME IInv, NEW m \in Modes
  PROVE  disk.command[m] \in Commands
BY DEF IInv, Files, Disks

\* A checkpoint of an exchange in which no record of a request is undone.
LEMMA MoreMail ==
  ASSUME IInv, NEW m \in Modes, NEW x \in Commands,
         disk' = [disk EXCEPT !.command[m] = x], sent' = sent,
         disk.command[m].upload => x.upload, disk.command[m].invoke => x.invoke
  PROVE  Files' /\ Journaled' /\ NeverRepeated'
<1>1. Files'
  BY DEF IInv, Files, Disks
<1>2. /\ disk'.command[m] = x /\ disk'.child = disk.child
      /\ \A d \in Modes : d # m => disk'.command[d] = disk.command[d]
  BY DEF IInv, Files, Disks
<1>3. Journaled'
  <2>1. \A d \in Modes : ~disk'.command[d].invoke => ~disk.command[d].invoke
    BY <1>2
  <2>2. ~disk'.command["verify-backup"].upload => ~disk.command["verify-backup"].upload
    BY <1>2, ModeNames
  <2> QED BY <1>2, <2>1, <2>2 DEF IInv, Journaled, Unsent
<1> QED BY <1>1, <1>3 DEF IInv, NeverRepeated

\* The same when the process goes on without sending.
LEMMA MailStep ==
  ASSUME IInv, NEW m \in Modes, NEW x \in Commands,
         disk' = [disk EXCEPT !.command[m] = x], sent' = sent,
         disk.command[m].upload => x.upload, disk.command[m].invoke => x.invoke,
         Working', run'.pc \notin Sending
  PROVE  IInv'
<1>1. Files' /\ Journaled' /\ NeverRepeated'
  BY MoreMail
<1> QED BY <1>1 DEF IInv, AboutToSend, Sending

LEMMA OpenCommandStep ==
  ASSUME IInv, run.pc \in Inside, NEW m \in Modes, OpenCommand(m)
  PROVE  IInv'
<1> DEFINE c == run.child
<1>1. /\ disk' = [disk EXCEPT !.command[m].file = "missing", !.child[c].status = "intent"]
      /\ sent' = sent /\ run' = [run EXCEPT !.pc = "command", !.mode = m]
  BY DEF OpenCommand, Disk
<1>2. c \in Children
  BY DEF IInv, Working
<1>3. Files' /\ SameRecords
  <2> DEFINE d == [disk EXCEPT !.command[m].file = "missing"]
  <2>1. d \in Disks
    BY SMTT(40) DEF IInv, Files, Disks, Commands, Places
  <2>2. disk' = [d EXCEPT !.child[c].status = "intent"]
    BY <1>1, <1>2 DEF IInv, Files, Disks
  <2>3. /\ disk'.child = [disk.child EXCEPT ![c].status = "intent"]
        /\ disk'.command = [disk.command EXCEPT ![m].file = "missing"]
    BY <1>1, <1>2 DEF IInv, Files, Disks
  <2> HIDE DEF d
  <2>4. disk' \in Disks
    BY <1>2, <2>1, <2>2, SMTT(40) DEF Disks, ChildRecords
  <2> QED BY <1>1, <1>2, <2>3, <2>4 DEF IInv, Files, Disks, ChildRecords, Commands, SameRecords
<1>4. Working' /\ run'.pc \notin Sending
  BY <1>1, <1>2 DEF IInv, Working, Inside, Processes, Points, Sending
<1> QED BY <1>3, <1>4, Keep

LEMMA OpenSteps == ASSUME IInv, AdvanceStage \/ Restore PROVE IInv'
<1>1. CASE AdvanceStage
  <2>1. run.pc \in Inside /\ FirstMode[run.child] \in Modes
    BY <1>1, ModeNames DEF AdvanceStage, Point, Inside
  <2> QED BY <1>1, <2>1, OpenCommandStep DEF AdvanceStage
<1>2. CASE Restore
  BY <1>2, ModeNames, OpenCommandStep DEF Restore, Point, Inside
<1> QED BY <1>1, <1>2

LEMMA BeginCommandStep == ASSUME IInv, BeginCommand PROVE IInv'
<1> DEFINE m == run.mode
           x == [disk.command[m] EXCEPT !.file = "here"]
<1>1. /\ run.pc = "command" /\ disk' = [disk EXCEPT !.command[m] = x] /\ sent' = sent
      /\ run' = [run EXCEPT !.pc = "upload"]
  BY DEF BeginCommand, Point, Disk, Mail, mail, Goto
<1>2. m \in Modes /\ run.child \in Children
  BY <1>1 DEF IInv, Working, Inside
<1>3. x \in Commands /\ x.upload = disk.command[m].upload /\ x.invoke = disk.command[m].invoke
  BY <1>2, Mails DEF Commands, Places
<1>4. Working' /\ run'.pc \notin Sending
  BY <1>1, <1>2 DEF IInv, Working, Inside, Processes, Points, Sending
<1> HIDE DEF x
<1> QED BY <1>1, <1>2, <1>3, <1>4, MailStep

LEMMA GoOn ==
  ASSUME IInv, run.pc \in {"upload", "invoke"}, NEW pc \in {"invoke", "answer"},
         Only([run EXCEPT !.pc = pc])
  PROVE  IInv'
<1>1. run' = [run EXCEPT !.pc = pc] /\ UNCHANGED <<sent, disk>>
  BY DEF Only
<1>2. Working' /\ run'.pc \notin Sending
  BY <1>1 DEF IInv, Working, Inside, Processes, Points, Sending
<1> QED BY <1>1, <1>2, DiskStays, Keep

LEMMA UploadIntentStep == ASSUME IInv, UploadIntent PROVE IInv'
<1> DEFINE m == run.mode
           x == [disk.command[m] EXCEPT !.upload = TRUE, !.status = "intent"]
<1>0. run.pc = "upload"
  BY DEF UploadIntent, Point
<1>1. m \in Modes /\ run.child \in Children
  BY <1>0 DEF IInv, Working, Inside
<1>2. CASE /\ m = "verify-backup" /\ ~mail.upload
           /\ Disk(Mail([mail EXCEPT !.upload = TRUE, !.status = "intent"])) /\ Goto("uploading")
  <2>1. /\ disk' = [disk EXCEPT !.command[m] = x] /\ sent' = sent
        /\ run' = [run EXCEPT !.pc = "uploading"] /\ ~disk.command[m].upload
    BY <1>2 DEF Disk, Mail, mail, Goto
  <2>2. x \in Commands /\ x.upload /\ x.invoke = disk.command[m].invoke
    BY <1>1, Mails DEF Commands
  <2>3. disk'.command[m] = x
    BY <1>1, <2>1 DEF IInv, Files, Disks
  <2>4. Unsent(<<"upload", "verify-backup">>)'
    BY <1>2, <2>1 DEF IInv, Journaled, Unsent
  <2> HIDE DEF x
  <2>5. Files' /\ Journaled' /\ NeverRepeated'
    BY <1>1, <2>1, <2>2, MoreMail
  <2>6. Working' /\ run'.pc = "uploading"
    BY <1>1, <2>1 DEF IInv, Working, Inside, Processes, Points
  <2> QED BY <1>2, <2>2, <2>3, <2>4, <2>5, <2>6 DEF IInv, AboutToSend
<1>3. CASE Only([run EXCEPT !.pc = "invoke"])
  BY <1>0, <1>3, GoOn
<1> QED BY <1>2, <1>3 DEF UploadIntent

LEMMA InvokeIntentStep == ASSUME IInv, InvokeIntent PROVE IInv'
<1> DEFINE m == run.mode
           x == [disk.command[m] EXCEPT !.invoke = TRUE, !.status = "intent"]
<1>0. run.pc = "invoke"
  BY DEF InvokeIntent, Point
<1>1. m \in Modes /\ run.child \in Children
  BY <1>0 DEF IInv, Working, Inside
<1>2. CASE ~mail.invoke /\ Disk(Mail([mail EXCEPT !.invoke = TRUE, !.status = "intent"]))
           /\ Goto("invoking")
  <2>1. /\ disk' = [disk EXCEPT !.command[m] = x] /\ sent' = sent
        /\ run' = [run EXCEPT !.pc = "invoking"] /\ ~disk.command[m].invoke
    BY <1>2 DEF Disk, Mail, mail, Goto
  <2>2. x \in Commands /\ x.invoke /\ x.upload = disk.command[m].upload
    BY <1>1, Mails DEF Commands
  <2>3. disk'.command[m] = x
    BY <1>1, <2>1 DEF IInv, Files, Disks
  <2>4. Unsent(<<"invoke", m>>)
    BY <1>1, <2>1 DEF IInv, Journaled
  <2> HIDE DEF x
  <2>5. Files' /\ Journaled' /\ NeverRepeated'
    BY <1>1, <2>1, <2>2, MoreMail
  <2>6. Working' /\ run'.pc = "invoking" /\ run'.mode = m
    BY <1>1, <2>1 DEF IInv, Working, Inside, Processes, Points
  <2>7. AboutToSend'
    BY <2>1, <2>2, <2>3, <2>4, <2>6 DEF AboutToSend, Unsent
  <2> QED BY <2>5, <2>6, <2>7 DEF IInv
<1>3. CASE Only([run EXCEPT !.pc = "answer"])
  BY <1>0, <1>3, GoOn
<1> QED BY <1>2, <1>3 DEF InvokeIntent

\* A request to the worker that has its record and is sent, or never leaves.
LEMMA ExecStep ==
  ASSUME IInv, NEW r, Unsent(r), Count(r) \/ sent' = sent, disk' = disk,
         run' = [run EXCEPT !.pc = "invoke"] \/ run' = [run EXCEPT !.pc = "answer"],
         run.pc \in {"uploading", "invoking"},
         \/ r = <<"upload", "verify-backup">> /\ disk.command["verify-backup"].upload
         \/ \E m \in Modes : r = <<"invoke", m>> /\ disk.command[m].invoke
  PROVE  IInv'
<1>1. Working' /\ run'.pc \notin Sending
  BY DEF IInv, Working, Inside, Processes, Points, Sending
<1>2. CASE sent' = sent
  BY <1>1, <1>2, DiskStays, Keep
<1>3. CASE Count(r)
  <2>1. /\ sent' \in [Requests -> Nat] /\ NeverRepeated'
        /\ \A q \in Requests : q # r => sent'[q] = sent[q]
    BY <1>3, CountStep
  <2>2. r[1] \notin Children
    BY Names
  <2>3. \A q \in Requests :
          q[1] \in Children /\ q[2] \in Nat /\ q[2] > disk.child[q[1]].n => sent'[q] = 0
    BY <2>1, <2>2 DEF IInv, Journaled
  <2>4. \A m \in Modes : ~disk.command[m].invoke => <<"invoke", m>> # r
    OBVIOUS
  <2>5. ~disk.command["verify-backup"].upload => <<"upload", "verify-backup">> # r
    OBVIOUS
  <2>6. Journaled'
    BY <2>1, <2>3, <2>4, <2>5 DEF IInv, Journaled, Unsent
  <2>7. Files' /\ AboutToSend'
    BY <1>1, <2>1 DEF IInv, Files, AboutToSend, Sending
  <2> QED BY <1>1, <2>1, <2>6, <2>7 DEF IInv
<1> QED BY <1>2, <1>3

LEMMA UploadStep == ASSUME IInv, Upload PROVE IInv'
<1> DEFINE r == <<"upload", "verify-backup">>
<1>1. /\ run.pc = "uploading" /\ disk' = disk /\ run' = [run EXCEPT !.pc = "invoke"]
      /\ Count(r) \/ sent' = sent
  BY DEF Upload, Point, Goto, Exec
<1>2. Unsent(r) /\ disk.command["verify-backup"].upload
  BY <1>1 DEF IInv, AboutToSend
<1> HIDE DEF r
<1> QED BY <1>1, <1>2, ExecStep DEF r

LEMMA InvokeStep == ASSUME IInv, Invoke PROVE IInv'
<1> DEFINE r == <<"invoke", run.mode>>
<1>1. /\ run.pc = "invoking" /\ disk' = disk /\ run' = [run EXCEPT !.pc = "answer"]
      /\ Count(r) \/ sent' = sent
  BY DEF Invoke, Point, Goto, Exec
<1>2. Unsent(r) /\ disk.command[run.mode].invoke /\ run.mode \in Modes
  BY <1>1 DEF IInv, AboutToSend, Working
<1> QED BY <1>1, <1>2, ExecStep

LEMMA AnswerStep == ASSUME IInv, Answer PROVE IInv'
<1> DEFINE m == run.mode
           x == [disk.command[m] EXCEPT !.result = TRUE, !.status = "complete"]
<1>1. /\ run.pc = "answer" /\ disk' = [disk EXCEPT !.command[m] = x] /\ sent' = sent
      /\ run' = [run EXCEPT !.pc = "collected"]
  BY DEF Answer, Point, Disk, Mail, mail, Goto
<1>2. m \in Modes /\ run.child \in Children
  BY <1>1 DEF IInv, Working, Inside
<1>3. x \in Commands /\ x.upload = disk.command[m].upload /\ x.invoke = disk.command[m].invoke
  BY <1>2, Mails DEF Commands
<1>4. Working' /\ run'.pc \notin Sending
  BY <1>1, <1>2 DEF IInv, Working, Inside, Processes, Points, Sending
<1> HIDE DEF x
<1> QED BY <1>1, <1>2, <1>3, <1>4, MailStep

\* A checkpoint of an exchange and the stage's own, in one step.
LEMMA BothStatus ==
  ASSUME IInv, NEW m \in Modes, NEW c \in Children,
         NEW s \in {"waiting", "stopped"}, sent' = sent,
         disk' = [disk EXCEPT !.command[m].status = s, !.child[c].status = s]
  PROVE  Files' /\ SameRecords
<1> DEFINE d == [disk EXCEPT !.command[m].status = s]
<1>1. d \in Disks
  <2>1. [disk.command[m] EXCEPT !.status = s] \in Commands
    BY Mails DEF Commands
  <2>2. d = [disk EXCEPT !.command[m] = [disk.command[m] EXCEPT !.status = s]]
    BY DEF IInv, Files, Disks
  <2> HIDE DEF d
  <2> QED BY <2>1, <2>2 DEF IInv, Files, Disks
<1>2. disk' = [d EXCEPT !.child[c].status = s]
  BY DEF IInv, Files, Disks
<1>3. /\ disk'.child = [disk.child EXCEPT ![c].status = s]
      /\ disk'.command = [disk.command EXCEPT ![m].status = s]
  BY DEF IInv, Files, Disks
<1> HIDE DEF d
<1>4. disk' \in Disks
  BY <1>1, <1>2 DEF Disks, ChildRecords
<1> QED BY <1>3, <1>4 DEF IInv, Files, Disks, ChildRecords, Commands, SameRecords

LEMMA NoAnswerStep == ASSUME IInv, NoAnswer PROVE IInv'
<1> DEFINE m == run.mode
           x == [disk.command[m] EXCEPT !.status = "waiting"]
<1>1. run.pc \in {"answer", "invoke"}
  BY DEF NoAnswer, Point
<1>2. m \in Modes /\ run.child \in Children
  BY <1>1 DEF IInv, Working, Inside
<1>3. CASE m = "verify-backup"
  <2>1. disk' = [disk EXCEPT !.command[m] = x] /\ sent' = sent /\ run' = [run EXCEPT !.pc = "raising"]
    BY <1>3 DEF NoAnswer, Disk, Mail, mail, Goto
  <2>2. x \in Commands /\ x.upload = disk.command[m].upload /\ x.invoke = disk.command[m].invoke
    BY <1>2, Mails DEF Commands
  <2>3. Working' /\ run'.pc \notin Sending
    BY <1>2, <2>1 DEF IInv, Working, Inside, Processes, Points, Sending
  <2> HIDE DEF x
  <2> QED BY <1>2, <2>1, <2>2, <2>3, MailStep
<1>4. CASE m # "verify-backup"
  <2>1. /\ disk' = [disk EXCEPT !.command[m].status = "waiting", !.child[run.child].status = "waiting"]
        /\ sent' = sent /\ run' = [run EXCEPT !.pc = "return"]
    BY <1>4 DEF NoAnswer, Disk, Goto
  <2>2. Files' /\ SameRecords
    BY <1>2, <2>1, BothStatus
  <2>3. Working' /\ run'.pc \notin Sending
    BY <1>2, <2>1 DEF IInv, Working, Inside, Processes, Points, Sending
  <2> QED BY <2>2, <2>3, Keep
<1> QED BY <1>3, <1>4

LEMMA BackupStep == ASSUME IInv, Encrypt \/ Pend \/ Seal \/ Sealed PROVE IInv'
<1>1. /\ \E b \in {"directory", "pending", "sealing", "verified"} :
           disk' = [disk EXCEPT !.backup = b]
      /\ sent' = sent
  BY DEF Encrypt, Pend, Seal, Sealed, Disk
<1>2. Files' /\ SameRecords
  BY <1>1 DEF IInv, Files, Disks, SameRecords
<1>3. /\ run.pc \in Inside
      /\ \E p \in {"encrypting", "collected", "sealing"} : run' = [run EXCEPT !.pc = p]
  BY DEF Encrypt, Pend, Seal, Sealed, Point, Goto, Inside
<1>4. Working' /\ run'.pc \notin Sending
  BY <1>3 DEF IInv, Working, Inside, Processes, Points, Sending
<1> QED BY <1>2, <1>4, Keep

LEMMA StageDoneStep == ASSUME IInv, StageDone PROVE IInv'
BY WaitStep DEF StageDone, Point, Inside

-----
\* Stops, and the continuation behind the fence.

LEMMA StopStep == ASSUME IInv, Stop PROVE IInv'
<1>1. CASE Coordinating
  <2>1. run' = Off
    BY <1>1 DEF Stop
  <2>2. /\ disk' = [disk EXCEPT !.parent.status = "stopped-preserve-state"] \/ disk' = disk
        /\ sent' = sent
    BY <1>1 DEF Stop, Disk
  <2>3. Files' /\ SameRecords
    BY <2>2 DEF IInv, Files, Disks, Parents, SameRecords
  <2>4. Working' /\ run'.pc \notin Sending
    BY <2>1 DEF Off, Working, Inside, Processes, Points, Sending
  <2> QED BY <2>3, <2>4, Keep
<1>2. CASE ~Coordinating
  <2> DEFINE c == run.child
             m == run.mode
  <2>1. run.pc \in Inside
    BY <1>2 DEF IInv, Stop, Coordinating, Point, Working, Processes, Points, Inside
  <2>2. c \in Children /\ (run.pc \in Exchanging => m \in Modes)
    BY <2>1 DEF IInv, Working, Exchanging
  <2>3. run' = [run EXCEPT !.pc = "raised"] /\ sent' = sent
    BY <1>2 DEF Stop, Goto, Disk
  <2>4. Working' /\ run'.pc \notin Sending
    BY <2>2, <2>3 DEF IInv, Working, Inside, Processes, Points, Sending
  <2>5. CASE disk' = disk
    BY <2>3, <2>4, <2>5, DiskStays, Keep
  <2>6. CASE run.pc \in Exchanging /\ disk' # disk
    <3>1. disk' = [disk EXCEPT !.command[m].status = "stopped", !.child[c].status = "stopped"]
      BY <1>2, <2>2, <2>6 DEF Stop, Disk, IInv, Files, Disks
    <3>2. Files' /\ SameRecords
      BY <2>2, <2>3, <2>6, <3>1, BothStatus
    <3> QED BY <2>4, <3>2, Keep
  <2>7. CASE run.pc \notin Exchanging /\ disk' # disk
    <3>1. disk' = [disk EXCEPT !.child[c].status = "stopped"]
      BY <1>2, <2>2, <2>7 DEF Stop, Disk, IInv, Files, Disks
    <3>2. Files' /\ SameRecords
      BY <2>2, <2>3, <3>1, ZenonT(60) DEF IInv, Files, Disks, ChildRecords, SameRecords
    <3> QED BY <2>4, <3>2, Keep
  <2> QED BY <2>5, <2>6, <2>7
<1> QED BY <1>1, <1>2

\* What was sent to the old worker is forgotten together with its records.
LEMMA ContinueStep == ASSUME IInv, ContinueFenced PROVE IInv'
<1> DEFINE p == [file |-> "here", completed |-> 2, pending |-> FALSE, status |-> "reserved"]
           h == [c \in Children |-> IF c \in Carried THEN disk.child[c] ELSE NoChild]
           o == [m \in Modes |-> NoCommand]
<1>1. /\ disk' = [disk EXCEPT !.parent = p, !.child = h, !.command = o, !.backup = "none"]
      /\ sent' = [r \in Requests |-> IF r[1] \in Carried THEN sent[r] ELSE 0]
      /\ run.pc = "off" /\ run' = run
  BY DEF ContinueFenced, Point
<1>2. /\ p \in Parents /\ h \in [Children -> ChildRecords] /\ o \in [Modes -> Commands]
  BY DEF IInv, Files, Disks, Parents, Places, NoChild, NoCommand, ChildRecords, Commands
<1>3. /\ \A c \in Children : h[c] = IF c \in Carried THEN disk.child[c] ELSE NoChild
      /\ \A m \in Modes : ~o[m].invoke /\ ~o[m].upload
  BY DEF NoCommand
<1> HIDE DEF p, h, o
<1>4. disk'.child = h /\ disk'.command = o
  BY <1>1 DEF IInv, Files, Disks
<1>5. Files'
  BY <1>1, <1>2 DEF IInv, Files, Disks
<1>6. Working' /\ AboutToSend'
  BY <1>1 DEF IInv, Working, Inside, AboutToSend
<1>7. NeverRepeated'
  BY <1>1 DEF IInv, NeverRepeated
<1>8. Journaled'
  <2>1. \A c \in Children : h[c].n \in {h[c].k, h[c].k + 1}
    BY <1>3 DEF IInv, Journaled, NoChild
  <2>2. \A r \in Requests :
          r[1] \in Children /\ r[2] \in Nat /\ r[2] > h[r[1]].n => sent'[r] = 0
    BY <1>1, <1>3 DEF IInv, Journaled
  <2>3. \A m : <<"invoke", m>>[1] \notin Carried /\ <<"upload", m>>[1] \notin Carried
    BY DEF Carried
  <2>4. \A m : Unsent(<<"invoke", m>>)' /\ Unsent(<<"upload", m>>)'
    BY <1>1, <2>3 DEF Unsent
  <2> QED BY <1>4, <2>1, <2>2, <2>4 DEF Journaled
<1> QED BY <1>5, <1>6, <1>7, <1>8 DEF IInv

-----
LEMMA NextInv == IInv /\ [Next]_vars => IInv'
<1> SUFFICES ASSUME IInv, [Next]_vars PROVE IInv'
  OBVIOUS
<1>1. CASE Coordinate
  BY <1>1, LaunchStep, BeginStep, IntendStep, RecoverStep, RecordStep, AwaitStep, RaisedStep
     DEF Coordinate
<1>2. CASE Drive
  BY <1>2, OpenChildStep, BeginChildStep, ReleaseSourceStep, WorkerReadyStep, SendStep, SeeStep
     DEF Drive
<1>3. CASE Advance
  BY <1>3, ChildSteps, OpenSteps DEF Advance
<1>4. CASE Exchange
  BY <1>4, BeginCommandStep, UploadIntentStep, UploadStep, InvokeIntentStep, InvokeStep,
     AnswerStep, NoAnswerStep, BackupStep, OpenSteps, StageDoneStep DEF Exchange
<1>5. CASE Fault
  BY <1>5, StopStep, CrashStep, WorldSteps DEF Fault
<1>6. CASE Cluster
  BY <1>6, WorldSteps
<1>7. CASE Recovery
  BY <1>7, WorldSteps, StartExpiredStep, ChildSteps, CrashStep, ContinueStep DEF Recovery
<1>8. CASE UNCHANGED vars
  BY <1>8, Elsewhere DEF vars
<1> QED BY <1>1, <1>2, <1>3, <1>4, <1>5, <1>6, <1>7, <1>8 DEF Next

\* No request of the migration is ever sent twice, however often a pass stops,
\* crashes, loses an answer or its window, and is taken up again: neither by a
\* child operation (run_effects and its like) nor to the worker (the exchange),
\* since a request leaves only after its record, and a record allows only a look.
THEOREM SentOnce == Spec => []NeverRepeated
<1>1. IInv => NeverRepeated
  BY DEF IInv
<1> QED BY <1>1, InitInv, NextInv, PTL DEF Spec

\* Part 1.  The invariant.

Operations == DOMAIN Effects

\* The number of completed stages when an operation runs.
Rank(c) ==
  CASE c = "fence" -> 0
    [] c = "initializer" -> 1
    [] c \in {"create", "expired", "verify-backup"} -> 2
    [] c = "prepare-migration" -> 3
    [] c = "activate-migration" -> 4
    [] c = "retire" -> 5
    [] c = "start" -> 6
    [] c = "restart" -> 7
    [] OTHER -> 8

\* The operations whose end is evidence of a stage.
Deciding == Children \ {"create", "expired"}

Worlds ==
  [flux : {"active", "suspended"}, busy : {"no", "source", "target"},
   main : {"source", "target"}, applied : {"source", "target"},
   deploy : {"source", "zero", "successor"},
   src : {"running", "unmounting", "gone", "again"},
   init : {"running", "unmounting", "gone"}, policy : BOOLEAN, code : BOOLEAN,
   worker : Alive \cup {"absent", "unmounting", "gone"}, config : BOOLEAN,
   role : BOOLEAN, runtime : {"absent", "ready"}, restarts : 0..1]
Boxes == [archive : BOOLEAN, request : [Modes -> {"none", "done", "spoilt"}]]
Times == [open : BOOLEAN, plan : {"first", "between", "continued"}, tail : BOOLEAN]

Typed ==
  /\ world \in Worlds /\ box \in Boxes /\ time \in Times
  /\ store \in {"empty", "activated"} /\ lost \subseteq Requests
  /\ Completed \in 0..9

\* Which process runs in which stage.
Staged ==
  /\ run.pc = "off" => run.child = "none"
  /\ run.pc \notin {"off", "reserved", "step"} => Completed < 9
  /\ run.child # "none" => Completed = Rank(run.child)
  /\ run.child = "expired" => time.plan = "between"
  /\ time.plan = "between" => Completed = 2 /\ (run.pc = "off" \/ run.child = "expired")

\* What the records of the operations say of the stages.
Counted ==
  /\ \A c \in Children : disk.child[c].n > 0 => Completed >= Rank(c)
  /\ disk.child["expired"].n > 0 => time.plan = "between"
  /\ \A c \in Operations :
       /\ disk.child[c].k <= Len(Effects[c])
       /\ disk.child[c].status = "done" => disk.child[c].k = Len(Effects[c])
  /\ \A c \in Stages : disk.child[c].n = 0
  /\ \A c \in Deciding : Completed > Rank(c) => disk.child[c].status = "done"
  /\ Completed >= 2 => "source" \in disk.released
  /\ Completed >= 6 => "migration" \in disk.released

\* Who sends a request, or looks for its effect, has a record of it.
Sends ==
  run.pc \in {"send", "see"} =>
    /\ run.child \in Operations
    /\ disk.child[run.child].k < Len(Effects[run.child])
    /\ disk.child[run.child].n = disk.child[run.child].k + 1

\* The object of a request is as it was before it.
Before(e, w) ==
  \/ e = "suspend" /\ w.flux = "active"
  \/ e = "resume" /\ w.flux = "suspended"
  \/ e = "scale-zero" /\ w.deploy = "source"
  \/ e = "review-deployment" /\ w.deploy = "zero"
  \/ e = "drop-initializer" /\ w.init = "running"
  \/ e = "policy" /\ ~w.policy
  \/ e = "code" /\ ~w.code
  \/ e = "pod" /\ w.worker \notin Alive
  \/ e = "drop-pod" /\ w.worker \in Alive
  \/ e = "drop-code" /\ w.code
  \/ e = "drop-policy" /\ w.policy
  \/ e = "review-config" /\ ~w.config
  \/ e = "review-role" /\ ~w.role
  \/ e = "terminate" /\ w.restarts = 0

\* The i-th request of operation c is about to be sent or may still be served.
Abroad(c, i) ==
  \/ <<c, i>> \in lost
  \/ run.pc = "send" /\ run.child = c /\ disk.child[c].k + 1 = i

\* Such a request has a record, nobody has seen its effect, and there is none.
Untouched ==
  /\ \A c \in Operations : \A i \in DOMAIN Effects[c] :
       Abroad(c, i) => /\ disk.child[c].n = i /\ disk.child[c].k = i - 1
                       /\ Before(Effects[c][i], world)
  /\ \A r \in lost : sent[r] >= 1

\* What the operations have seen of the cluster stays so.
Standing ==
  /\ disk.child["fence"].n < 2 => world.deploy = "source" /\ world.src = "running"
  /\ disk.child["fence"].n >= 2 => world.busy # "source"
  /\ disk.child["fence"].k >= 2 => world.deploy # "source"
  /\ disk.child["restore"].n = 0 =>
       /\ world.busy # "target"
       /\ world.main = "source" \/ world.flux = "suspended"
       /\ disk.child["fence"].k >= 1 => world.flux = "suspended"
  /\ disk.child["restore"].n >= 1 => world.main = "target"
  /\ disk.child["restore"].k >= 1 => world.flux = "active"
  /\ disk.child["start"].k >= 3 => world.deploy = "successor"
  /\ disk.child["restart"].k >= 1 => world.restarts = 1
  /\ world.src # "again"
  /\ "source" \in disk.released => Completed >= 1 /\ world.src = "gone" /\ world.init = "gone"
  /\ "migration" \in disk.released => Completed >= 5 /\ world.worker = "gone"
  /\ world.worker \in Alive => Completed >= 2
  /\ world.deploy = "successor" \/ world.runtime = "ready" => Completed >= 6

\* The points of an exchange with the worker.
Talking == {"command", "upload", "uploading", "invoke", "invoking", "answer",
            "collected", "encrypting", "sealing", "raising"}

\* Who talks to the worker does so for a stage.
Talks ==
  /\ run.pc \in Talking =>
       /\ run.child \in Stages /\ disk.child[run.child].status = "intent"
       /\ run.mode = FirstMode[run.child]
            \/ (run.mode = "verify-backup" /\ run.child = "verify-backup")
  /\ run.pc \in {"collected", "encrypting", "sealing"} => disk.command[run.mode].result
  /\ run.pc \in {"encrypting", "sealing"} => run.child = "verify-backup"
  /\ run.child = "verify-backup" => disk.child["create"].status = "done"
  /\ run.child = "create" /\ run.pc \in Inside => disk.child["create"].status # "done"

\* What the exchanges have brought about.
Exchanged ==
  /\ box.request["activate"] = "done" => store = "activated"
  /\ disk.command["activate"].result => box.request["activate"] = "done"
  /\ disk.child["activate-migration"].status = "done" => disk.command["activate"].result
  /\ disk.child["verify-backup"].status = "done" => disk.backup = "verified"
  /\ store = "activated" \/ <<"invoke", "activate">> \in lost => Completed >= 4
  /\ disk.child["verify-backup"].status # "reserved" => disk.child["create"].status = "done"

EvidenceInv ==
  /\ IInv /\ Typed /\ Staged /\ Counted /\ Sends /\ Untouched /\ Standing
  /\ Talks /\ Exchanged

\* Part 2.  The operations, their stages and their requests.

LEMMA OperationNames ==
  /\ Operations = {"fence", "initializer", "create", "retire", "expired", "start", "restart",
                   "restore"}
  /\ Stages = {"verify-backup", "prepare-migration", "activate-migration"}
  /\ Children = Operations \cup Stages
  /\ Deciding = {"fence", "initializer", "retire", "start", "restart", "restore",
                 "verify-backup", "prepare-migration", "activate-migration"}
<1>1. DOMAIN Effects = {"fence", "initializer", "create", "retire", "expired", "start",
                        "restart", "restore"}
  BY DEF Effects
<1> QED BY <1>1 DEF Operations, Children, Stages, Deciding

LEMMA Ranks ==
  /\ Rank("fence") = 0 /\ Rank("initializer") = 1 /\ Rank("create") = 2 /\ Rank("expired") = 2
  /\ Rank("verify-backup") = 2 /\ Rank("prepare-migration") = 3
  /\ Rank("activate-migration") = 4 /\ Rank("retire") = 5 /\ Rank("start") = 6
  /\ Rank("restart") = 7 /\ Rank("restore") = 8
  /\ \A c \in Children : Rank(c) \in 0..8
<1>1. /\ Rank("fence") = 0 /\ Rank("initializer") = 1 /\ Rank("create") = 2 /\ Rank("expired") = 2
      /\ Rank("verify-backup") = 2 /\ Rank("prepare-migration") = 3
      /\ Rank("activate-migration") = 4 /\ Rank("retire") = 5 /\ Rank("start") = 6
      /\ Rank("restart") = 7 /\ Rank("restore") = 8
  BY DEF Rank
<1> QED BY <1>1, Names

\* The requests of the operations.
LEMMA Table ==
  /\ Effects["fence"] = <<"suspend", "scale-zero">>
  /\ Effects["initializer"] = <<"drop-initializer">>
  /\ Effects["create"] = <<"policy", "code", "pod">>
  /\ Effects["retire"] = <<"drop-pod", "drop-code", "drop-policy">>
  /\ Effects["expired"] = <<"drop-pod", "drop-code", "drop-policy">>
  /\ Effects["start"] = <<"review-config", "review-role", "review-deployment">>
  /\ Effects["restart"] = <<"terminate">>
  /\ Effects["restore"] = <<"resume">>
BY DEF Effects

LEMMA Lengths ==
  /\ Len(Effects["fence"]) = 2 /\ Len(Effects["initializer"]) = 1 /\ Len(Effects["create"]) = 3
  /\ Len(Effects["retire"]) = 3 /\ Len(Effects["expired"]) = 3 /\ Len(Effects["start"]) = 3
  /\ Len(Effects["restart"]) = 1 /\ Len(Effects["restore"]) = 1
  /\ \A c \in Operations : Len(Effects[c]) \in 1..3 /\ DOMAIN Effects[c] = 1..Len(Effects[c])
<1>1. /\ Len(Effects["fence"]) = 2 /\ Len(Effects["initializer"]) = 1 /\ Len(Effects["create"]) = 3
      /\ Len(Effects["retire"]) = 3 /\ Len(Effects["expired"]) = 3 /\ Len(Effects["start"]) = 3
      /\ Len(Effects["restart"]) = 1 /\ Len(Effects["restore"]) = 1
  BY Table
<1>2. /\ DOMAIN Effects["fence"] = 1..2 /\ DOMAIN Effects["initializer"] = 1..1
      /\ DOMAIN Effects["create"] = 1..3 /\ DOMAIN Effects["retire"] = 1..3
      /\ DOMAIN Effects["expired"] = 1..3 /\ DOMAIN Effects["start"] = 1..3
      /\ DOMAIN Effects["restart"] = 1..1 /\ DOMAIN Effects["restore"] = 1..1
  BY Table
<1> QED BY <1>1, <1>2, OperationNames

\* Which request that is.
Asks(c, i, e) ==
  \/ c = "fence" /\ i = 1 /\ e = "suspend"
  \/ c = "fence" /\ i = 2 /\ e = "scale-zero"
  \/ c = "initializer" /\ i = 1 /\ e = "drop-initializer"
  \/ c = "create" /\ i = 1 /\ e = "policy"
  \/ c = "create" /\ i = 2 /\ e = "code"
  \/ c = "create" /\ i = 3 /\ e = "pod"
  \/ c \in {"retire", "expired"} /\ i = 1 /\ e = "drop-pod"
  \/ c \in {"retire", "expired"} /\ i = 2 /\ e = "drop-code"
  \/ c \in {"retire", "expired"} /\ i = 3 /\ e = "drop-policy"
  \/ c = "start" /\ i = 1 /\ e = "review-config"
  \/ c = "start" /\ i = 2 /\ e = "review-role"
  \/ c = "start" /\ i = 3 /\ e = "review-deployment"
  \/ c = "restart" /\ i = 1 /\ e = "terminate"
  \/ c = "restore" /\ i = 1 /\ e = "resume"

EffectNames ==
  {"suspend", "resume", "scale-zero", "review-deployment", "drop-initializer", "policy", "code",
   "pod", "drop-pod", "drop-code", "drop-policy", "review-config", "review-role", "terminate"}

LEMMA Asked ==
  ASSUME NEW c \in Operations, NEW i \in DOMAIN Effects[c]
  PROVE  Asks(c, i, Effects[c][i]) /\ Effects[c][i] \in EffectNames /\ i \in 1..3
<1>1. i \in 1..Len(Effects[c]) /\ i \in 1..3
  BY Lengths
<1>2. Asks(c, i, Effects[c][i])
  <2>1. CASE c = "fence"
    BY <2>1, <1>1, Lengths, Table DEF Asks
  <2>2. CASE c = "create"
    BY <2>2, <1>1, Lengths, Table DEF Asks
  <2>3. CASE c \in {"retire", "expired"}
    BY <2>3, <1>1, Lengths, Table DEF Asks
  <2>4. CASE c = "start"
    BY <2>4, <1>1, Lengths, Table DEF Asks
  <2>5. CASE c \in {"initializer", "restart", "restore"}
    BY <2>5, <1>1, Lengths, Table DEF Asks
  <2> QED BY <2>1, <2>2, <2>3, <2>4, <2>5, OperationNames
<1> QED BY <1>1, <1>2 DEF Asks, EffectNames

\* What an observation of the object of a request tells.
Seen(e, w) ==
  /\ ~Before(e, w)
  /\ e = "suspend" => w.flux = "suspended"
  /\ e = "resume" => w.flux = "active"
  /\ e = "scale-zero" => w.deploy = "zero"
  /\ e = "review-deployment" => w.deploy = "successor"
  /\ e = "terminate" => w.restarts = 1

LEMMA Observed ==
  ASSUME Typed, NEW e \in EffectNames
  PROVE  /\ At(e) = "before" => Before(e, world)
         /\ At(e) = "after" => Seen(e, world)
<1>1. /\ world.flux \in {"active", "suspended"} /\ world.restarts \in 0..1
  BY DEF Typed, Worlds
<1>2. CASE e \in {"suspend", "resume"}
  BY <1>1, <1>2 DEF At, Before, Seen
<1>3. CASE e \in {"scale-zero", "review-deployment"}
  BY <1>3 DEF At, Before, Seen
<1>4. CASE e = "terminate"
  BY <1>1, <1>4 DEF At, Before, Seen
<1>5. CASE e \in {"drop-initializer", "policy", "code"}
  BY <1>5 DEF At, Before, Seen
<1>6. CASE e \in {"pod", "drop-pod", "drop-code", "drop-policy"}
  BY <1>6 DEF At, Before, Seen
<1>7. CASE e \in {"review-config", "review-role"}
  BY <1>7 DEF At, Before, Seen
<1> QED BY <1>2, <1>3, <1>4, <1>5, <1>6, <1>7 DEF EffectNames

\* Part 3.  A request is served.

\* The cluster v is w with the effect e.
Takes(e, w, v) ==
  /\ v \in Worlds
  /\ v.busy = w.busy /\ v.main = w.main /\ v.src = w.src /\ v.runtime = w.runtime
  /\ v.flux = IF e = "suspend" THEN "suspended" ELSE IF e = "resume" THEN "active" ELSE w.flux
  /\ v.deploy = IF e = "scale-zero" THEN "zero"
                ELSE IF e = "review-deployment" THEN "successor" ELSE w.deploy
  /\ v.init = IF e = "drop-initializer" THEN "unmounting" ELSE w.init
  /\ v.worker = IF e = "pod" THEN "starting" ELSE IF e = "drop-pod" THEN "unmounting" ELSE w.worker
  /\ v.restarts = IF e = "terminate" THEN 1 ELSE w.restarts
  /\ e \notin {"policy", "drop-policy"} => v.policy = w.policy
  /\ e \notin {"code", "drop-code"} => v.code = w.code
  /\ e # "review-config" => v.config = w.config
  /\ e # "review-role" => v.role = w.role
  /\ ~Before(e, v)

LEMMA Serving ==
  ASSUME Typed, NEW e \in EffectNames
  PROVE  Takes(e, world, Served(e))
<1> DEFINE w == world
           v == Served(e)
<1> SUFFICES Takes(e, w, v)
  OBVIOUS
<1>1. w \in Worlds
  BY DEF Typed
<1> HIDE DEF w
<1>2. /\ [w EXCEPT !.flux = "suspended"] \in Worlds /\ [w EXCEPT !.flux = "active"] \in Worlds
      /\ [w EXCEPT !.deploy = "zero"] \in Worlds /\ [w EXCEPT !.deploy = "successor"] \in Worlds
      /\ [w EXCEPT !.init = "unmounting"] \in Worlds /\ [w EXCEPT !.restarts = 1] \in Worlds
      /\ [w EXCEPT !.worker = "starting"] \in Worlds /\ [w EXCEPT !.worker = "unmounting"] \in Worlds
  BY <1>1 DEF Worlds, Alive
<1>3. /\ [w EXCEPT !.policy = TRUE] \in Worlds /\ [w EXCEPT !.policy = FALSE] \in Worlds
      /\ [w EXCEPT !.code = TRUE] \in Worlds /\ [w EXCEPT !.code = FALSE] \in Worlds
      /\ [w EXCEPT !.config = TRUE] \in Worlds /\ [w EXCEPT !.role = TRUE] \in Worlds
  BY <1>1 DEF Worlds
<1>4. CASE e = "suspend"
  <2>1. v = [w EXCEPT !.flux = "suspended"]
    BY <1>4 DEF Served, w, v
  <2> QED BY <1>1, <1>2, <1>4, <2>1 DEF Takes, Worlds, Before
<1>5. CASE e = "resume"
  <2>1. v = [w EXCEPT !.flux = "active"]
    BY <1>5 DEF Served, w, v
  <2> QED BY <1>1, <1>2, <1>5, <2>1 DEF Takes, Worlds, Before
<1>6. CASE e = "scale-zero"
  <2>1. v = [w EXCEPT !.deploy = "zero"]
    BY <1>6 DEF Served, w, v
  <2> QED BY <1>1, <1>2, <1>6, <2>1 DEF Takes, Worlds, Before
<1>7. CASE e = "review-deployment"
  <2>1. v = [w EXCEPT !.deploy = "successor"]
    BY <1>7 DEF Served, w, v
  <2> QED BY <1>1, <1>2, <1>7, <2>1 DEF Takes, Worlds, Before
<1>8. CASE e = "drop-initializer"
  <2>1. v = [w EXCEPT !.init = "unmounting"]
    BY <1>8 DEF Served, w, v
  <2> QED BY <1>1, <1>2, <1>8, <2>1 DEF Takes, Worlds, Before
<1>9. CASE e = "pod"
  <2>1. v = [w EXCEPT !.worker = "starting"]
    BY <1>9 DEF Served, w, v
  <2> QED BY <1>1, <1>2, <1>9, <2>1 DEF Takes, Worlds, Before, Alive
<1>10. CASE e = "drop-pod"
  <2>1. v = [w EXCEPT !.worker = "unmounting"]
    BY <1>10 DEF Served, w, v
  <2> QED BY <1>1, <1>2, <1>10, <2>1 DEF Takes, Worlds, Before, Alive
<1>11. CASE e = "terminate"
  <2>1. v = [w EXCEPT !.restarts = 1]
    BY <1>11 DEF Served, w, v
  <2> QED BY <1>1, <1>2, <1>11, <2>1 DEF Takes, Worlds, Before
<1>12. CASE e = "policy"
  <2>1. v = [w EXCEPT !.policy = TRUE]
    BY <1>12 DEF Served, w, v
  <2> HIDE DEF v
  <2>2. v \in Worlds
    BY <1>3, <2>1
  <2>3. ~Before(e, v)
    BY <1>1, <1>12, <2>1 DEF Before, Worlds
  <2> QED BY <1>1, <1>12, <2>1, <2>2, <2>3 DEF Takes, Worlds
<1>13. CASE e = "drop-policy"
  <2>1. v = [w EXCEPT !.policy = FALSE]
    BY <1>13 DEF Served, w, v
  <2> HIDE DEF v
  <2>2. v \in Worlds
    BY <1>3, <2>1
  <2>3. ~Before(e, v)
    BY <1>1, <1>13, <2>1 DEF Before, Worlds
  <2> QED BY <1>1, <1>13, <2>1, <2>2, <2>3 DEF Takes, Worlds
<1>14. CASE e = "code"
  <2>1. v = [w EXCEPT !.code = TRUE]
    BY <1>14 DEF Served, w, v
  <2> HIDE DEF v
  <2>2. v \in Worlds
    BY <1>3, <2>1
  <2>3. ~Before(e, v)
    BY <1>1, <1>14, <2>1 DEF Before, Worlds
  <2> QED BY <1>1, <1>14, <2>1, <2>2, <2>3 DEF Takes, Worlds
<1>15. CASE e = "drop-code"
  <2>1. v = [w EXCEPT !.code = FALSE]
    BY <1>15 DEF Served, w, v
  <2> HIDE DEF v
  <2>2. v \in Worlds
    BY <1>3, <2>1
  <2>3. ~Before(e, v)
    BY <1>1, <1>15, <2>1 DEF Before, Worlds
  <2> QED BY <1>1, <1>15, <2>1, <2>2, <2>3 DEF Takes, Worlds
<1>16. CASE e = "review-config"
  <2>1. v = [w EXCEPT !.config = TRUE]
    BY <1>16 DEF Served, w, v
  <2> HIDE DEF v
  <2>2. v \in Worlds
    BY <1>3, <2>1
  <2>3. ~Before(e, v)
    BY <1>1, <1>16, <2>1 DEF Before, Worlds
  <2> QED BY <1>1, <1>16, <2>1, <2>2, <2>3 DEF Takes, Worlds
<1>17. CASE e = "review-role"
  <2>1. v = [w EXCEPT !.role = TRUE]
    BY <1>17 DEF Served, w, v
  <2> HIDE DEF v
  <2>2. v \in Worlds
    BY <1>3, <2>1
  <2>3. ~Before(e, v)
    BY <1>1, <1>17, <2>1 DEF Before, Worlds
  <2> QED BY <1>1, <1>17, <2>1, <2>2, <2>3 DEF Takes, Worlds
<1> QED BY <1>4, <1>5, <1>6, <1>7, <1>8, <1>9, <1>10, <1>11, <1>12, <1>13, <1>14, <1>15,
     <1>16, <1>17 DEF EffectNames

\* What a completed stage has ended.
LEMMA InItsStage ==
  ASSUME EvidenceInv, NEW c \in Operations \ {"create", "expired"}, disk.child[c].k < Len(Effects[c])
  PROVE  Completed <= Rank(c)
<1>1. c \in Deciding /\ c \in Children
  BY OperationNames
<1>2. disk.child[c].status # "done"
  <2>1. disk.child[c].status = "done" => disk.child[c].k = Len(Effects[c])
    BY DEF EvidenceInv, Counted
  <2>2. disk.child[c].k \in Nat /\ Len(Effects[c]) \in Nat
    BY <1>1, Lengths, Counters DEF EvidenceInv
  <2> QED BY <2>1, <2>2
<1>3. Completed \in 0..9 /\ Rank(c) \in 0..8
  BY <1>1, Ranks DEF EvidenceInv, Typed
<1> QED BY <1>1, <1>2, <1>3 DEF EvidenceInv, Counted

\* From the backup on the creation of the worker is over.
LEMMA CreationOver ==
  ASSUME EvidenceInv, Completed >= 3
  PROVE  disk.child["create"].k = 3
<1>1. disk.child["verify-backup"].status = "done"
  BY Ranks, OperationNames DEF EvidenceInv, Counted, Typed
<1>2. disk.child["create"].status = "done"
  BY <1>1 DEF EvidenceInv, Exchanged
<1> QED BY <1>2, Lengths, OperationNames DEF EvidenceInv, Counted

\* Once the source is fenced no reconciliation is under way before the restoration.
LEMMA Resting ==
  ASSUME EvidenceInv, Completed \in 1..7
  PROVE  /\ world.flux = "suspended" /\ world.busy = "no" /\ world.deploy # "source"
         /\ disk.child["fence"].n >= 2 /\ disk.child["fence"].k = 2 /\ disk.child["restore"].n = 0
<1>0. "fence" \in Deciding /\ "fence" \in Operations /\ "fence" \in Children /\ "restore" \in Children
  BY OperationNames
<1>1. disk.child["fence"].status = "done"
  BY <1>0, Ranks DEF EvidenceInv, Counted
<1>2. disk.child["fence"].k = 2 /\ disk.child["fence"].n \in {2, 3}
  <2>1. disk.child["fence"].k = 2
    BY <1>0, <1>1, Lengths DEF EvidenceInv, Counted
  <2> QED BY <2>1, <1>0, Counters DEF EvidenceInv
<1>3. disk.child["restore"].n = 0
  BY <1>0, Ranks, Counters DEF EvidenceInv, Counted
<1>4. world.busy \in {"no", "source", "target"}
  BY DEF EvidenceInv, Typed, Worlds
<1> QED BY <1>2, <1>3, <1>4 DEF EvidenceInv, Standing

\* Part 4.  What a step leaves alone.

\* The counters of the operations stay as they are.
SameCounters ==
  \A c \in Children : disk'.child[c].n = disk.child[c].n /\ disk'.child[c].k = disk.child[c].k

SameStatus == \A c \in Children : disk'.child[c].status = disk.child[c].status

SameResults ==
  /\ \A m \in Modes : disk'.command[m].result = disk.command[m].result
  /\ disk'.backup = disk.backup

\* The cluster, the worker, the requests and the completed stages stay.
Undisturbed ==
  /\ UNCHANGED <<world, box, store, lost, sent, time>>
  /\ disk'.released = disk.released /\ Completed' = Completed
  /\ SameCounters

LEMMA Frame ==
  ASSUME EvidenceInv, Undisturbed, run' = run \/ run'.pc # "send"
  PROVE  Typed' /\ Untouched' /\ Standing'
<1>1. Typed'
  BY DEF EvidenceInv, Typed, Undisturbed
<1>2. Untouched'
  <2>1. ASSUME NEW c \in Operations, NEW i \in DOMAIN Effects[c], Abroad(c, i)'
        PROVE  Abroad(c, i)
    <3>1. c \in Children
      BY OperationNames
    <3> QED BY <2>1, <3>1 DEF Abroad, Undisturbed, SameCounters
  <2>2. Operations \subseteq Children
    BY OperationNames
  <2> QED BY <2>1, <2>2 DEF EvidenceInv, Untouched, Undisturbed, SameCounters, Before
<1>3. Standing'
  BY Names DEF EvidenceInv, Standing, Undisturbed, SameCounters
<1> QED BY <1>1, <1>2, <1>3

LEMMA FrameStatus ==
  ASSUME EvidenceInv, Undisturbed, SameStatus
  PROVE  Counted'
<1>1. Operations \subseteq Children /\ Stages \subseteq Children /\ Deciding \subseteq Children
      /\ "expired" \in Children
  BY OperationNames
<1>2. ASSUME NEW c PROVE Rank(c)' = Rank(c)
  BY DEF Rank
<1> QED BY <1>1 DEF EvidenceInv, Counted, Undisturbed, SameCounters, SameStatus

LEMMA FrameResults ==
  ASSUME EvidenceInv, Undisturbed, SameStatus, SameResults
  PROVE  Exchanged'
<1>1. "activate" \in Modes
  BY DEF Modes
<1> QED BY <1>1, Names DEF EvidenceInv, Exchanged, Undisturbed, SameStatus, SameResults

\* A process that is not in the middle of an operation.
LEMMA OutsideStep ==
  ASSUME EvidenceInv, IInv', Undisturbed, SameStatus, SameResults,
         run'.pc \notin Inside,
         \/ run'.pc = "off" /\ run'.child = "none"
         \/ run'.pc # "off" /\ run'.child = run.child /\ run.pc # "off"
         \/ run'.pc # "off" /\ run'.child = run.child /\ time.plan # "between",
         run'.pc \in {"off", "reserved", "step"} \/ Completed < 9
  PROVE  EvidenceInv'
<1>1. Typed' /\ Untouched' /\ Standing' /\ Counted' /\ Exchanged'
  BY Frame, FrameStatus, FrameResults DEF Inside
<1>2. Staged'
  BY DEF EvidenceInv, Staged, Undisturbed, Rank
<1>3. Sends'
  BY DEF Sends, Inside
<1>4. Talks'
  <2>1. "create" \in Children
    BY Names
  <2> QED BY <2>1 DEF EvidenceInv, Talks, Talking, Inside, Undisturbed, SameStatus
<1> QED BY <1>1, <1>2, <1>3, <1>4 DEF EvidenceInv

\* Part 5.  The coordinator and the driver.

\* Only the coordinator's own receipt is written, or nothing.
LEMMA Receipt ==
  ASSUME EvidenceInv, NEW p \in Parents, p.completed = Completed,
         disk' = [disk EXCEPT !.parent = p], UNCHANGED <<world, box, store, lost, sent, time>>
  PROVE  Undisturbed /\ SameStatus /\ SameResults
BY DEF EvidenceInv, IInv, Files, Disks, Undisturbed, SameCounters, SameStatus, SameResults, Completed

LEMMA NoReceipt ==
  ASSUME EvidenceInv, UNCHANGED <<world, box, store, lost, sent, disk, time>>
  PROVE  Undisturbed /\ SameStatus /\ SameResults
BY DEF Undisturbed, SameCounters, SameStatus, SameResults, Completed

LEMMA Kinds ==
  ASSUME EvidenceInv
  PROVE  /\ disk \in Disks /\ disk.parent \in Parents /\ run \in Processes
         /\ disk.parent.completed = Completed
BY DEF EvidenceInv, IInv, Files, Disks, Working, Completed

\* The status of the receipt.
LEMMA ReceiptStatus ==
  ASSUME EvidenceInv, NEW s \in {"effect-intent", "awaiting-evidence", "stopped-preserve-state", "complete"},
         disk' = [disk EXCEPT !.parent.status = s], UNCHANGED <<world, box, store, lost, sent, time>>
  PROVE  Undisturbed /\ SameStatus /\ SameResults
<1> DEFINE p == [disk.parent EXCEPT !.status = s]
<1>1. p \in Parents /\ p.completed = Completed
  BY Kinds DEF Parents
<1>2. disk' = [disk EXCEPT !.parent = p]
  BY Kinds DEF Disks
<1> HIDE DEF p
<1> QED BY <1>1, <1>2, Receipt

LEMMA LaunchEvidence == ASSUME EvidenceInv, IInv', Launch PROVE EvidenceInv'
<1> DEFINE p == [disk.parent EXCEPT !.file = "missing"]
<1>1. p \in Parents /\ p.completed = Completed
  BY Kinds DEF Parents, Places
<1>2. disk' = [disk EXCEPT !.parent = p] /\ UNCHANGED <<world, box, store, lost, sent, time>>
  BY Kinds DEF Launch, Disk, Disks
<1>3. run' = [run EXCEPT !.pc = "reserved"] /\ time.plan # "between"
  BY DEF Launch, Goto
<1>4. run'.pc = "reserved" /\ run'.child = run.child
  BY <1>3, Kinds DEF Processes
<1> HIDE DEF p
<1> QED BY <1>1, <1>2, <1>3, <1>4, Receipt, OutsideStep DEF Inside

LEMMA BeginEvidence == ASSUME EvidenceInv, IInv', Begin PROVE EvidenceInv'
<1> DEFINE p == [disk.parent EXCEPT !.file = "here"]
<1>1. p \in Parents /\ p.completed = Completed
  BY Kinds DEF Parents, Places
<1>2. disk' = [disk EXCEPT !.parent = p] /\ UNCHANGED <<world, box, store, lost, sent, time>>
  BY Kinds DEF Begin, Disk, Disks
<1>3. run' = [run EXCEPT !.pc = "step"] /\ run.pc = "reserved"
  BY DEF Begin, Goto, Point
<1>4. run'.pc = "step" /\ run'.child = run.child
  BY <1>3, Kinds DEF Processes
<1> HIDE DEF p
<1> QED BY <1>1, <1>2, <1>3, <1>4, Receipt, OutsideStep DEF Inside

LEMMA IntendEvidence == ASSUME EvidenceInv, IInv', Intend PROVE EvidenceInv'
<1> DEFINE p == [disk.parent EXCEPT !.pending = TRUE, !.status = "effect-intent"]
<1>1. p \in Parents /\ p.completed = Completed
  BY Kinds DEF Parents
<1>2. disk' = [disk EXCEPT !.parent = p] /\ UNCHANGED <<world, box, store, lost, sent, time>>
  BY Kinds DEF Intend, Disk, Disks
<1>3. run' = [run EXCEPT !.pc = "effect", !.call = "perform"] /\ run.pc = "step" /\ Completed < 9
  BY DEF Intend, Point
<1>4. run'.pc = "effect" /\ run'.child = run.child
  BY <1>3, Kinds DEF Processes
<1> HIDE DEF p
<1> QED BY <1>1, <1>2, <1>3, <1>4, Receipt, OutsideStep DEF Inside

LEMMA RecoverEvidence == ASSUME EvidenceInv, IInv', Recover PROVE EvidenceInv'
<1>1. UNCHANGED <<world, box, store, lost, sent, disk, time>> /\ run.pc = "step" /\ Completed < 9
  BY DEF Recover, Only, Point
<1>2. run'.pc \in {"return", "effect"} /\ run'.child = run.child
  BY Kinds DEF Recover, Only, Processes
<1> QED BY <1>1, <1>2, NoReceipt, OutsideStep DEF Inside

LEMMA WorkerReadyEvidence == ASSUME EvidenceInv, IInv', WorkerReady PROVE EvidenceInv'
<1>1. UNCHANGED <<world, box, store, lost, sent, disk, time>> /\ run.pc = "return" /\ Completed < 9
  BY DEF WorkerReady, Only, Point, EvidenceInv, Staged
<1>2. run'.pc = "effect" /\ run'.child = run.child
  BY Kinds DEF WorkerReady, Only, Processes
<1> QED BY <1>1, <1>2, NoReceipt, OutsideStep DEF Inside

LEMMA AwaitEvidence == ASSUME EvidenceInv, IInv', Await \/ Finish PROVE EvidenceInv'
<1>1. PICK s \in {"awaiting-evidence", "complete"} :
        disk' = [disk EXCEPT !.parent.status = s]
        /\ UNCHANGED <<world, box, store, lost, sent, time>>
  BY DEF Await, Finish, Disk
<1>2. run' = Off
  BY DEF Await, Finish
<1>3. run'.pc = "off" /\ run'.child = "none"
  BY <1>2 DEF Off
<1> QED BY <1>1, <1>3, ReceiptStatus, OutsideStep DEF Inside

LEMMA RaisedEvidence == ASSUME EvidenceInv, IInv', Raised PROVE EvidenceInv'
<1>1. /\ UNCHANGED <<world, box, store, lost, sent, time>>
      /\ disk' = disk \/ disk' = [disk EXCEPT !.parent.status = "stopped-preserve-state"]
  BY DEF Raised, Disk, Only
<1>2. Undisturbed /\ SameStatus /\ SameResults
  BY <1>1, ReceiptStatus, NoReceipt
<1>3. run.pc = "raised" /\ (run' = [run EXCEPT !.pc = "return"] \/ run' = Off)
  BY DEF Raised, Only, Point
<1>4. CASE run' = Off
  <2>1. run'.pc = "off" /\ run'.child = "none"
    BY <1>4 DEF Off
  <2> QED BY <1>2, <2>1, OutsideStep DEF Inside
<1>5. CASE run' = [run EXCEPT !.pc = "return"]
  <2>1. run'.pc = "return" /\ run'.child = run.child
    BY <1>5, Kinds DEF Processes
  <2>2. Completed < 9
    BY <1>3 DEF EvidenceInv, Staged
  <2> QED BY <1>2, <1>3, <2>1, <2>2, OutsideStep DEF Inside
<1> QED BY <1>3, <1>4, <1>5

LEMMA CrashEvidence == ASSUME EvidenceInv, IInv', Crash \/ EndExpired PROVE EvidenceInv'
<1>1. UNCHANGED <<world, box, store, lost, sent, disk, time>> /\ run' = Off
  BY DEF Crash, EndExpired, Only
<1>2. run'.pc = "off" /\ run'.child = "none"
  BY <1>1 DEF Off
<1> QED BY <1>1, <1>2, NoReceipt, OutsideStep DEF Inside

\* The checkpoint file of a child operation.
LEMMA Checkpoint ==
  ASSUME EvidenceInv, NEW c \in Children, NEW f,
         disk' = [disk EXCEPT !.child[c].file = f], UNCHANGED <<world, box, store, lost, sent, time>>
  PROVE  Undisturbed /\ SameStatus /\ SameResults
BY Kinds DEF Disks, ChildRecords, Undisturbed, SameCounters, SameStatus, SameResults, Completed

\* A process that has begun with an operation.
LEMMA InsideStep ==
  ASSUME EvidenceInv, IInv', Undisturbed, SameStatus, SameResults,
         run'.pc \in Inside \ (Talking \cup {"send", "see"}),
         run'.child \in Children, Completed = Rank(run'.child),
         run'.child = "expired" <=> time.plan = "between",
         run'.child = "verify-backup" => disk.child["create"].status = "done",
         run'.child = "create" => disk.child["create"].status # "done"
  PROVE  EvidenceInv'
<1>1. Typed' /\ Untouched' /\ Standing' /\ Counted' /\ Exchanged'
  BY Frame, FrameStatus, FrameResults
<1>2. Completed < 9
  BY Ranks
<1>3. Staged'
  BY <1>2, Names DEF Staged, Undisturbed, Rank, Inside
<1>4. Sends'
  BY DEF Sends
<1>5. Talks'
  BY Names DEF Talks, Talking, Undisturbed, SameStatus
<1> QED BY <1>1, <1>3, <1>4, <1>5 DEF EvidenceInv

\* Which operation a stage runs.
LEMMA Turns ==
  ASSUME EvidenceInv, Completed < 9
  PROVE  LET c == ChildOf(Stage) IN
           /\ c \in Children \ {"expired"} /\ Completed = Rank(c)
           /\ c = "verify-backup" => disk.child["create"].status = "done"
           /\ c = "create" => disk.child["create"].status # "done"
<1> DEFINE c == ChildOf(Stage)
<1>1. Completed \in 0..8
  BY DEF EvidenceInv, Typed
<1>2. /\ Steps[1] = "fence-source" /\ Steps[2] = "release-mounts" /\ Steps[3] = "verify-backup"
      /\ Steps[4] = "prepare-migration" /\ Steps[5] = "activate-migration"
      /\ Steps[6] = "release-migration" /\ Steps[7] = "start-review-runtime"
      /\ Steps[8] = "verify-review-runtime" /\ Steps[9] = "restore-gitops"
  BY DEF Steps
<1>3. CASE Completed = 0
  <2>1. Stage = "fence-source"
    BY <1>2, <1>3 DEF Stage
  <2>2. c = "fence"
    BY <2>1, OperationNames DEF ChildOf
  <2> QED BY <1>3, <2>2, Ranks, Names
<1>4. CASE Completed = 1
  <2>1. Stage = "release-mounts"
    BY <1>2, <1>4 DEF Stage
  <2>2. c = "initializer"
    BY <2>1, OperationNames DEF ChildOf
  <2> QED BY <1>4, <2>2, Ranks, Names
<1>5. CASE Completed = 2
  <2>1. Stage = "verify-backup"
    BY <1>2, <1>5 DEF Stage
  <2>2. c = IF disk.child["create"].status = "done" THEN "verify-backup" ELSE "create"
    BY <2>1, OperationNames DEF ChildOf
  <2> QED BY <1>5, <2>2, Ranks, Names
<1>6. CASE Completed = 3
  <2>1. Stage = "prepare-migration"
    BY <1>2, <1>6 DEF Stage
  <2>2. c = "prepare-migration"
    BY <2>1, OperationNames DEF ChildOf
  <2> QED BY <1>6, <2>2, Ranks, Names
<1>7. CASE Completed = 4
  <2>1. Stage = "activate-migration"
    BY <1>2, <1>7 DEF Stage
  <2>2. c = "activate-migration"
    BY <2>1, OperationNames DEF ChildOf
  <2> QED BY <1>7, <2>2, Ranks, Names
<1>8. CASE Completed = 5
  <2>1. Stage = "release-migration"
    BY <1>2, <1>8 DEF Stage
  <2>2. c = "retire"
    BY <2>1, OperationNames DEF ChildOf
  <2> QED BY <1>8, <2>2, Ranks, Names
<1>9. CASE Completed = 6
  <2>1. Stage = "start-review-runtime"
    BY <1>2, <1>9 DEF Stage
  <2>2. c = "start"
    BY <2>1, OperationNames DEF ChildOf
  <2> QED BY <1>9, <2>2, Ranks, Names
<1>10. CASE Completed = 7
  <2>1. Stage = "verify-review-runtime"
    BY <1>2, <1>10 DEF Stage
  <2>2. c = "restart"
    BY <2>1, OperationNames DEF ChildOf
  <2> QED BY <1>10, <2>2, Ranks, Names
<1>11. CASE Completed = 8
  <2>1. Stage = "restore-gitops"
    BY <1>2, <1>11 DEF Stage
  <2>2. c = "restore"
    BY <2>1, OperationNames DEF ChildOf
  <2> QED BY <1>11, <2>2, Ranks, Names
<1> QED BY <1>1, <1>3, <1>4, <1>5, <1>6, <1>7, <1>8, <1>9, <1>10, <1>11

LEMMA OpenChildEvidence == ASSUME EvidenceInv, IInv', OpenChild PROVE EvidenceInv'
<1> DEFINE c == ChildOf(Stage)
<1>1. /\ run.pc = "effect" /\ Fresh
      /\ disk' = [disk EXCEPT !.child[c].file = "missing"]
      /\ UNCHANGED <<world, box, store, lost, sent, time>>
      /\ run' = [run EXCEPT !.pc = "opened", !.child = c, !.mode = "none"]
  BY DEF OpenChild, Point, Disk
<1>2. Completed < 9 /\ time.plan # "between"
  BY <1>1 DEF EvidenceInv, Staged, Fresh, InWindow
<1>3. /\ c \in Children \ {"expired"} /\ Completed = Rank(c)
      /\ c = "verify-backup" => disk.child["create"].status = "done"
      /\ c = "create" => disk.child["create"].status # "done"
  BY <1>2, Turns
<1> HIDE DEF c
<1>4. run'.pc = "opened" /\ run'.child = c
  BY <1>1, Kinds DEF Processes
<1>5. Undisturbed /\ SameStatus /\ SameResults
  BY <1>1, <1>3, Checkpoint
<1> QED BY <1>2, <1>3, <1>4, <1>5, InsideStep DEF Inside, Talking

LEMMA BeginChildEvidence == ASSUME EvidenceInv, IInv', BeginChild PROVE EvidenceInv'
<1> DEFINE c == run.child
<1>1. /\ run.pc = "opened" /\ disk' = [disk EXCEPT !.child[c].file = "here"]
      /\ UNCHANGED <<world, box, store, lost, sent, time>>
      /\ run' = [run EXCEPT !.pc = "look"]
  BY DEF BeginChild, Point, Disk, Goto
<1>2. c \in Children /\ c # "none"
  BY <1>1, Names DEF EvidenceInv, IInv, Working, Inside
<1>3. /\ Completed = Rank(c) /\ (c = "expired" <=> time.plan = "between")
      /\ c = "verify-backup" => disk.child["create"].status = "done"
      /\ c = "create" => disk.child["create"].status # "done"
  BY <1>1, <1>2 DEF EvidenceInv, Staged, Talks, Inside
<1>4. run'.pc = "look" /\ run'.child = c
  BY <1>1, Kinds DEF Processes
<1>5. Undisturbed /\ SameStatus /\ SameResults
  BY <1>1, <1>2, Checkpoint
<1> QED BY <1>2, <1>3, <1>4, <1>5, InsideStep DEF Inside, Talking

\* Part 6.  The ends of an operation, and the exchanges.

\* The status of the operation c becomes s.
Becoming(c, s) ==
  \A d \in Children : disk'.child[d].status = IF d = c THEN s ELSE disk.child[d].status

LEMMA Writes ==
  ASSUME EvidenceInv, NEW c \in Children, NEW s, disk' = [disk EXCEPT !.child[c].status = s],
         UNCHANGED <<world, box, store, lost, sent, time>>
  PROVE  Undisturbed /\ SameResults /\ Becoming(c, s)
BY Kinds DEF Disks, ChildRecords, Undisturbed, SameCounters, SameResults, Completed, Becoming

\* A process inside an operation knows its stage.
LEMMA Within ==
  ASSUME EvidenceInv, run.pc \in Inside
  PROVE  /\ run.child \in Children /\ Completed = Rank(run.child) /\ Completed < 9
         /\ run.child = "expired" <=> time.plan = "between"
         /\ run.child = "verify-backup" => disk.child["create"].status = "done"
         /\ run.child = "create" => disk.child["create"].status # "done"
<1>1. run.child \in Children /\ run.child # "none"
  BY Names DEF EvidenceInv, IInv, Working
<1>2. run.pc # "off" /\ Completed < 9
  BY DEF EvidenceInv, Staged, Inside
<1> QED BY <1>1, <1>2 DEF EvidenceInv, Staged, Talks

LEMMA Staying ==
  ASSUME EvidenceInv, Undisturbed, run.pc \in Inside, run'.child = run.child, run'.pc # "off"
  PROVE  Staged'
<1>1. run.child # "none"
  BY Within, Names
<1> QED BY <1>1, Within DEF Staged, Undisturbed, Rank

LEMMA StatusStep ==
  ASSUME EvidenceInv, Undisturbed, SameResults, run.pc \in Inside,
         NEW s, s # "done", Becoming(run.child, s)
  PROVE  Counted' /\ Exchanged'
<1>1. Counted'
  <2>1. Operations \subseteq Children /\ Stages \subseteq Children /\ Deciding \subseteq Children
        /\ "expired" \in Children
    BY OperationNames
  <2>2. ASSUME NEW c PROVE Rank(c)' = Rank(c)
    BY DEF Rank
  <2>3. \A c \in Operations : disk'.child[c].status = "done" => disk.child[c].status = "done"
    BY <2>1 DEF Becoming
  <2>4. \A c \in Deciding : Completed > Rank(c) => disk'.child[c].status = "done"
    <3>1. SUFFICES ASSUME NEW c \in Deciding, Completed > Rank(c) PROVE disk'.child[c].status = "done"
      OBVIOUS
    <3>2. c # run.child
      BY <3>1, Within, Ranks
    <3> QED BY <2>1, <3>1, <3>2 DEF EvidenceInv, Counted, Becoming
  <2> QED BY <2>1, <2>2, <2>3, <2>4 DEF EvidenceInv, Counted, Undisturbed, SameCounters
<1>2. Exchanged'
  <2>1. "activate" \in Modes
    BY DEF Modes
  <2>2. disk'.child["verify-backup"].status # "reserved" => disk'.child["create"].status = "done"
    BY Within, Names DEF EvidenceInv, Exchanged, Becoming
  <2> QED BY <2>1, <2>2, Names DEF EvidenceInv, Exchanged, Undisturbed, SameResults, Becoming
<1> QED BY <1>1, <1>2

\* The operation goes back to the driver.
LEMMA LeaveStep ==
  ASSUME EvidenceInv, IInv', Undisturbed, run.pc \in Inside, Counted', Exchanged',
         run'.child = run.child, run'.pc \in {"return", "raised"},
         run.child # "create" => disk'.child["create"].status = disk.child["create"].status
  PROVE  EvidenceInv'
<1>1. Typed' /\ Untouched' /\ Standing'
  BY Frame
<1>2. Staged' /\ Sends'
  BY Staying DEF Sends
<1>3. Talks'
  BY Within DEF Talks, Talking, Inside
<1> QED BY <1>1, <1>2, <1>3 DEF EvidenceInv

LEMMA SavedStatus ==
  ASSUME EvidenceInv, run.pc \in Inside, NEW s, Save([child EXCEPT !.status = s])
  PROVE  Undisturbed /\ SameResults /\ Becoming(run.child, s)
<1> DEFINE c == run.child
<1>1. c \in Children
  BY Within
<1>2. disk' = [disk EXCEPT !.child[c].status = s] /\ UNCHANGED <<world, box, store, lost, sent, time>>
  BY <1>1, Kinds DEF Save, Disk, child, Disks
<1> QED BY <1>1, <1>2, Writes

LEMMA WaitEvidence == ASSUME EvidenceInv, IInv', run.pc \in Inside, Wait PROVE EvidenceInv'
<1>1. Undisturbed /\ SameResults /\ Becoming(run.child, "waiting")
  BY SavedStatus DEF Wait
<1>2. run' = [run EXCEPT !.pc = "return"]
  BY DEF Wait, Goto
<1>3. run'.pc = "return" /\ run'.child = run.child
  BY <1>2, Kinds DEF Processes
<1>4. Counted' /\ Exchanged'
  BY <1>1, StatusStep
<1>5. run.child # "create" => disk'.child["create"].status = disk.child["create"].status
  BY <1>1, Names DEF Becoming
<1> QED BY <1>1, <1>3, <1>4, <1>5, LeaveStep

\* An operation is done when it has seen all its effects, a stage when it has
\* what it was for.
LEMMA DoneEvidence ==
  ASSUME EvidenceInv, IInv', run.pc \in Inside, Done,
         run.child \in Operations => disk.child[run.child].k >= Len(Effects[run.child]),
         run.child = "verify-backup" => disk.backup = "verified",
         run.child = "activate-migration" => disk.command["activate"].result
  PROVE  EvidenceInv'
<1>1. Undisturbed /\ SameResults /\ Becoming(run.child, "done")
  BY SavedStatus DEF Done
<1>2. run' = [run EXCEPT !.pc = "return"]
  BY DEF Done, Goto
<1>3. run'.pc = "return" /\ run'.child = run.child
  BY <1>2, Kinds DEF Processes
<1>4. Counted'
  <2>1. Operations \subseteq Children /\ Stages \subseteq Children /\ Deciding \subseteq Children
        /\ "expired" \in Children
    BY OperationNames
  <2>2. ASSUME NEW c PROVE Rank(c)' = Rank(c)
    BY DEF Rank
  <2>3. \A c \in Operations : disk'.child[c].status = "done" => disk.child[c].k = Len(Effects[c])
    <3>1. SUFFICES ASSUME NEW c \in Operations, disk'.child[c].status = "done"
                   PROVE  disk.child[c].k = Len(Effects[c])
      OBVIOUS
    <3>2. CASE c = run.child
      <4>1. disk.child[c].k <= Len(Effects[c]) /\ disk.child[c].k \in Nat /\ Len(Effects[c]) \in Nat
        BY <2>1, Lengths, Counters DEF EvidenceInv, Counted
      <4> QED BY <3>2, <4>1
    <3>3. CASE c # run.child
      BY <1>1, <2>1, <3>1, <3>3 DEF EvidenceInv, Counted, Becoming
    <3> QED BY <3>2, <3>3
  <2>4. \A c \in Deciding : Completed > Rank(c) => disk'.child[c].status = "done"
    BY <1>1, <2>1 DEF EvidenceInv, Counted, Becoming
  <2> QED BY <1>1, <2>1, <2>2, <2>3, <2>4 DEF EvidenceInv, Counted, Undisturbed, SameCounters
<1>5. Exchanged'
  <2>1. "activate" \in Modes
    BY DEF Modes
  <2>2. disk'.child["verify-backup"].status # "reserved" => disk'.child["create"].status = "done"
    BY <1>1, Within, Names DEF EvidenceInv, Exchanged, Becoming
  <2> QED BY <1>1, <2>1, <2>2, Names DEF EvidenceInv, Exchanged, Undisturbed, SameResults, Becoming
<1>6. run.child # "create" => disk'.child["create"].status = disk.child["create"].status
  BY <1>1, Names DEF Becoming
<1> QED BY <1>1, <1>3, <1>4, <1>5, <1>6, LeaveStep

\* Part 7.  The exchanges with the worker.

LEMMA FirstModes ==
  /\ FirstMode["verify-backup"] = "capture-backup"
  /\ FirstMode["prepare-migration"] = "prepare"
  /\ FirstMode["activate-migration"] = "activate"
BY OperationNames, Zenon DEF FirstMode

\* Who talks to the worker, and about what.
LEMMA Speakers ==
  ASSUME EvidenceInv, run.pc \in Talking
  PROVE  /\ run.pc \in Inside
         /\ run.child \in Stages /\ run.child \in Children /\ run.mode \in Modes
         /\ disk.child[run.child].status = "intent"
         /\ run.mode = FirstMode[run.child]
              \/ (run.mode = "verify-backup" /\ run.child = "verify-backup")
         /\ run.mode \in {"capture-backup", "verify-backup"} => run.child = "verify-backup"
         /\ run.mode = "activate" => run.child = "activate-migration" /\ Completed = 4
<1>1. run.pc \in Inside
  BY DEF Talking, Inside
<1>2. /\ run.child \in Stages /\ disk.child[run.child].status = "intent"
      /\ run.mode = FirstMode[run.child]
           \/ (run.mode = "verify-backup" /\ run.child = "verify-backup")
  BY DEF EvidenceInv, Talks
<1>3. run.mode \in Modes
  BY <1>2, ModeNames
<1>4. /\ run.mode \in {"capture-backup", "verify-backup"} => run.child = "verify-backup"
      /\ run.mode = "activate" => run.child = "activate-migration"
  BY <1>2, FirstModes, OperationNames
<1>5. run.mode = "activate" => Completed = 4
  BY <1>1, <1>4, Within, Ranks
<1> QED BY <1>1, <1>2, <1>3, <1>4, <1>5, OperationNames

LEMMA TalkStep ==
  ASSUME EvidenceInv, IInv', Undisturbed, run.pc \in Inside, Counted', Exchanged',
         run'.child = run.child, run.child \in Stages, run'.pc \in Talking,
         disk'.child[run.child].status = "intent",
         disk'.child["create"].status = disk.child["create"].status,
         run'.mode = FirstMode[run.child]
           \/ (run'.mode = "verify-backup" /\ run.child = "verify-backup"),
         run'.pc \in {"collected", "encrypting", "sealing"} => disk'.command[run'.mode].result,
         run'.pc \in {"encrypting", "sealing"} => run.child = "verify-backup"
  PROVE  EvidenceInv'
<1>1. Typed' /\ Untouched' /\ Standing'
  BY Frame DEF Talking
<1>2. Staged' /\ Sends'
  BY Staying DEF Sends, Talking
<1>3. FirstMode' = FirstMode /\ Stages' = Stages
  BY DEF FirstMode, Stages
<1>4. Talks'
  BY <1>3, Within, OperationNames DEF Talks
<1> QED BY <1>1, <1>2, <1>4 DEF EvidenceInv

LEMMA OpenCommandEvidence ==
  ASSUME EvidenceInv, IInv', run.pc \in Inside, run.child \in Stages, NEW m \in Modes, OpenCommand(m),
         m = FirstMode[run.child] \/ (m = "verify-backup" /\ run.child = "verify-backup")
  PROVE  EvidenceInv'
<1> DEFINE c == run.child
<1>1. /\ disk' = [disk EXCEPT !.command[m].file = "missing", !.child[c].status = "intent"]
      /\ UNCHANGED <<world, box, store, lost, sent, time>>
      /\ run' = [run EXCEPT !.pc = "command", !.mode = m]
  BY DEF OpenCommand, Disk
<1>2. c \in Children
  BY Within
<1>3. /\ disk'.parent = disk.parent /\ disk'.released = disk.released /\ disk'.backup = disk.backup
      /\ disk'.child = [disk.child EXCEPT ![c].status = "intent"]
      /\ disk'.command = [disk.command EXCEPT ![m].file = "missing"]
  BY <1>1, <1>2, Kinds DEF Disks
<1>4. Undisturbed /\ Becoming(c, "intent")
  BY <1>1, <1>2, <1>3, Kinds DEF Disks, ChildRecords, Undisturbed, SameCounters, Becoming, Completed
<1>5. SameResults
  BY <1>3, Kinds DEF Disks, Commands, SameResults
<1>6. Counted' /\ Exchanged'
  BY <1>4, <1>5, StatusStep
<1>7. run'.pc = "command" /\ run'.child = c /\ run'.mode = m
  BY <1>1, Kinds DEF Processes
<1>8. disk'.child[c].status = "intent" /\ disk'.child["create"].status = disk.child["create"].status
  BY <1>2, <1>4, Names, OperationNames DEF Becoming
<1> QED BY <1>4, <1>6, <1>7, <1>8, TalkStep DEF Talking

LEMMA AdvanceStageEvidence == ASSUME EvidenceInv, IInv', AdvanceStage PROVE EvidenceInv'
<1>1. run.pc \in Inside /\ run.child \in Stages /\ OpenCommand(FirstMode[run.child])
  BY DEF AdvanceStage, Point, Inside
<1> QED BY <1>1, ModeNames, OpenCommandEvidence

LEMMA RestoreEvidence == ASSUME EvidenceInv, IInv', Restore PROVE EvidenceInv'
<1>1. run.pc \in Talking /\ run.mode = "capture-backup" /\ OpenCommand("verify-backup")
  BY DEF Restore, Point, Talking
<1>2. run.pc \in Inside /\ run.child \in Stages /\ run.child = "verify-backup"
  BY <1>1, Speakers
<1> QED BY <1>1, <1>2, ModeNames, OpenCommandEvidence

\* The checkpoint of an exchange, its result apart.
LEMMA Mailed ==
  ASSUME EvidenceInv, NEW m \in Modes, NEW x \in Commands, x.result = disk.command[m].result,
         disk' = [disk EXCEPT !.command[m] = x], UNCHANGED <<world, box, store, lost, sent, time>>
  PROVE  Undisturbed /\ SameStatus /\ SameResults
BY Kinds DEF Disks, Undisturbed, SameCounters, SameStatus, SameResults, Completed

\* The exchange goes on.
LEMMA GoOnTalking ==
  ASSUME EvidenceInv, IInv', Undisturbed, SameStatus, SameResults, run.pc \in Talking,
         NEW p \in Talking, run' = [run EXCEPT !.pc = p],
         p \in {"collected", "encrypting", "sealing"} =>
           run.pc \in {"collected", "encrypting", "sealing"},
         p \in {"encrypting", "sealing"} => run.child = "verify-backup"
  PROVE  EvidenceInv'
<1>1. run'.pc = p /\ run'.child = run.child /\ run'.mode = run.mode
  BY Kinds DEF Processes
<1>2. Counted' /\ Exchanged'
  BY FrameStatus, FrameResults
<1>3. /\ run.pc \in Inside /\ run.child \in Stages /\ disk.child[run.child].status = "intent"
      /\ run.child \in Children /\ run.mode \in Modes
      /\ run.mode = FirstMode[run.child]
           \/ (run.mode = "verify-backup" /\ run.child = "verify-backup")
  BY Speakers
<1>4. disk'.child[run.child].status = "intent" /\ disk'.child["create"].status = disk.child["create"].status
  BY <1>3, Names DEF SameStatus
<1>5. run'.pc \in {"collected", "encrypting", "sealing"} => disk'.command[run'.mode].result
  BY <1>1, <1>3 DEF EvidenceInv, Talks, SameResults
<1> QED BY <1>1, <1>2, <1>3, <1>4, <1>5, TalkStep

LEMMA BeginCommandEvidence == ASSUME EvidenceInv, IInv', BeginCommand PROVE EvidenceInv'
<1> DEFINE m == run.mode
           x == [disk.command[m] EXCEPT !.file = "here"]
<1>1. /\ run.pc = "command" /\ disk' = [disk EXCEPT !.command[m] = x]
      /\ UNCHANGED <<world, box, store, lost, sent, time>> /\ run' = [run EXCEPT !.pc = "upload"]
  BY DEF BeginCommand, Point, Disk, Mail, mail, Goto
<1>2. run.pc \in Talking /\ m \in Modes
  BY <1>1, Speakers DEF Talking
<1>3. x \in Commands /\ x.result = disk.command[m].result
  BY <1>2, Mails DEF EvidenceInv, Commands, Places
<1> HIDE DEF x
<1>4. Undisturbed /\ SameStatus /\ SameResults
  BY <1>1, <1>2, <1>3, Mailed
<1> QED BY <1>1, <1>2, <1>4, GoOnTalking DEF Talking

LEMMA UploadIntentEvidence == ASSUME EvidenceInv, IInv', UploadIntent PROVE EvidenceInv'
<1> DEFINE m == run.mode
           x == [disk.command[m] EXCEPT !.upload = TRUE, !.status = "intent"]
<1>1. run.pc = "upload" /\ run.pc \in Talking /\ m \in Modes
  BY Speakers DEF UploadIntent, Point, Talking
<1>2. CASE disk' = [disk EXCEPT !.command[m] = x] /\ UNCHANGED <<world, box, store, lost, sent, time>>
           /\ run' = [run EXCEPT !.pc = "uploading"]
  <2>1. x \in Commands /\ x.result = disk.command[m].result
    BY <1>1, Mails, ZenonT(60) DEF EvidenceInv, Commands
  <2> HIDE DEF x
  <2>2. Undisturbed /\ SameStatus /\ SameResults
    BY <1>1, <1>2, <2>1, Mailed
  <2> QED BY <1>1, <1>2, <2>2, GoOnTalking DEF Talking
<1>3. CASE Only([run EXCEPT !.pc = "invoke"])
  BY <1>1, <1>3, NoReceipt, GoOnTalking DEF Talking, Only
<1> QED BY <1>2, <1>3 DEF UploadIntent, Disk, Mail, mail, Goto

LEMMA InvokeIntentEvidence == ASSUME EvidenceInv, IInv', InvokeIntent PROVE EvidenceInv'
<1> DEFINE m == run.mode
           x == [disk.command[m] EXCEPT !.invoke = TRUE, !.status = "intent"]
<1>1. run.pc = "invoke" /\ run.pc \in Talking /\ m \in Modes
  BY Speakers DEF InvokeIntent, Point, Talking
<1>2. CASE disk' = [disk EXCEPT !.command[m] = x] /\ UNCHANGED <<world, box, store, lost, sent, time>>
           /\ run' = [run EXCEPT !.pc = "invoking"]
  <2>1. x \in Commands /\ x.result = disk.command[m].result
    BY <1>1, Mails, ZenonT(60) DEF EvidenceInv, Commands
  <2> HIDE DEF x
  <2>2. Undisturbed /\ SameStatus /\ SameResults
    BY <1>1, <1>2, <2>1, Mailed
  <2> QED BY <1>1, <1>2, <2>2, GoOnTalking DEF Talking
<1>3. CASE Only([run EXCEPT !.pc = "answer"])
  BY <1>1, <1>3, NoReceipt, GoOnTalking DEF Talking, Only
<1> QED BY <1>2, <1>3 DEF InvokeIntent, Disk, Mail, mail, Goto

LEMMA AnswerEvidence == ASSUME EvidenceInv, IInv', Answer PROVE EvidenceInv'
<1> DEFINE m == run.mode
           x == [disk.command[m] EXCEPT !.result = TRUE, !.status = "complete"]
<1>1. /\ run.pc = "answer" /\ disk' = [disk EXCEPT !.command[m] = x]
      /\ UNCHANGED <<world, box, store, lost, sent, time>> /\ run' = [run EXCEPT !.pc = "collected"]
      /\ disk.command[m].result \/ box.request[m] = "done"
  BY DEF Answer, Point, Disk, Mail, mail, Goto
<1>2. /\ run.pc \in Inside /\ run.child \in Stages /\ disk.child[run.child].status = "intent"
      /\ run.child \in Children /\ run.mode \in Modes
      /\ run.mode = FirstMode[run.child]
           \/ (run.mode = "verify-backup" /\ run.child = "verify-backup")
  BY <1>1, Speakers DEF Talking
<1>3. x.result
  BY <1>2, Mails DEF EvidenceInv, Commands
<1> HIDE DEF x
<1>4. disk'.command[m] = x /\ disk'.backup = disk.backup
      /\ \A d \in Modes : d # m => disk'.command[d] = disk.command[d]
  BY <1>1, <1>2, Kinds DEF Disks
<1>5. Undisturbed /\ SameStatus
  BY <1>1, Kinds DEF Disks, Undisturbed, SameCounters, SameStatus, Completed
<1>6. Counted'
  BY <1>5, FrameStatus
<1>7. Exchanged'
  <2>1. "activate" \in Modes
    BY DEF Modes
  <2>2. disk'.command["activate"].result => box.request["activate"] = "done"
    BY <1>1, <1>4, <2>1 DEF EvidenceInv, Exchanged
  <2>3. disk.command["activate"].result => disk'.command["activate"].result
    BY <1>3, <1>4, <2>1
  <2> QED BY <1>4, <1>5, <2>2, <2>3, Names DEF EvidenceInv, Exchanged, Undisturbed, SameStatus
<1>8. run'.pc = "collected" /\ run'.child = run.child /\ run'.mode = m
  BY <1>1, Kinds DEF Processes
<1>9. disk'.child[run.child].status = "intent" /\ disk'.child["create"].status = disk.child["create"].status
  BY <1>2, <1>5, Names DEF SameStatus
<1> QED BY <1>2, <1>3, <1>4, <1>5, <1>6, <1>7, <1>8, <1>9, TalkStep DEF Talking

LEMMA NoAnswerEvidence == ASSUME EvidenceInv, IInv', NoAnswer PROVE EvidenceInv'
<1> DEFINE m == run.mode
           c == run.child
           x == [disk.command[m] EXCEPT !.status = "waiting"]
<1>1. run.pc \in Talking /\ run.pc \in Inside /\ m \in Modes /\ c \in Children /\ c \in Stages
  BY Speakers DEF NoAnswer, Point, Talking
<1>2. CASE m = "verify-backup"
  <2>1. /\ disk' = [disk EXCEPT !.command[m] = x] /\ run' = [run EXCEPT !.pc = "raising"]
        /\ UNCHANGED <<world, box, store, lost, sent, time>>
    BY <1>2 DEF NoAnswer, Disk, Mail, mail, Goto
  <2>2. x \in Commands /\ x.result = disk.command[m].result
    BY <1>1, Mails DEF EvidenceInv, Commands
  <2> HIDE DEF x
  <2>3. Undisturbed /\ SameStatus /\ SameResults
    BY <1>1, <2>1, <2>2, Mailed
  <2> QED BY <1>1, <2>1, <2>3, GoOnTalking DEF Talking
<1>3. CASE m # "verify-backup"
  <2>1. /\ disk' = [disk EXCEPT !.command[m].status = "waiting", !.child[c].status = "waiting"]
        /\ UNCHANGED <<world, box, store, lost, sent, time>>
        /\ run' = [run EXCEPT !.pc = "return"]
    BY <1>3 DEF NoAnswer, Disk, Goto
  <2>2. /\ disk'.parent = disk.parent /\ disk'.released = disk.released /\ disk'.backup = disk.backup
        /\ disk'.child = [disk.child EXCEPT ![c].status = "waiting"]
        /\ disk'.command = [disk.command EXCEPT ![m].status = "waiting"]
    BY <1>1, <2>1, Kinds DEF Disks
  <2>3. Undisturbed /\ Becoming(c, "waiting")
    BY <1>1, <2>1, <2>2, Kinds DEF Disks, ChildRecords, Undisturbed, SameCounters, Becoming, Completed
  <2>4. SameResults
    BY <2>2, Kinds DEF Disks, Commands, SameResults
  <2>5. Counted' /\ Exchanged'
    BY <1>1, <2>3, <2>4, StatusStep
  <2>6. run'.pc = "return" /\ run'.child = c
    BY <2>1, Kinds DEF Processes
  <2>7. c # "create" => disk'.child["create"].status = disk.child["create"].status
    BY <2>3, Names DEF Becoming
  <2> QED BY <1>1, <2>3, <2>5, <2>6, <2>7, LeaveStep
<1> QED BY <1>2, <1>3

\* The backup is only verified while its stage is open.
LEMMA BackupEvidence == ASSUME EvidenceInv, IInv', Encrypt \/ Pend \/ Seal \/ Sealed PROVE EvidenceInv'
<1>1. PICK b \in {"directory", "pending", "sealing", "verified"} :
        disk' = [disk EXCEPT !.backup = b] /\ UNCHANGED <<world, box, store, lost, sent, time>>
  BY DEF Encrypt, Pend, Seal, Sealed, Disk
<1>2. run.pc \in {"collected", "encrypting", "sealing"} /\ run.pc \in Talking
  BY DEF Encrypt, Pend, Seal, Sealed, Point, Talking
<1>3. run.pc = "collected" => run.mode \in {"capture-backup", "verify-backup"}
  BY DEF Encrypt, Pend, Seal, Sealed, Point
<1>4. /\ run.pc \in Inside /\ run.child \in Stages /\ run.child \in Children
      /\ disk.child[run.child].status = "intent" /\ run.mode \in Modes
      /\ run.mode = FirstMode[run.child]
           \/ (run.mode = "verify-backup" /\ run.child = "verify-backup")
  BY <1>2, Speakers
<1>5. run.child = "verify-backup"
  BY <1>2, <1>3, Speakers DEF EvidenceInv, Talks
<1>6. PICK p \in {"encrypting", "collected", "sealing"} : run' = [run EXCEPT !.pc = p]
  BY DEF Encrypt, Pend, Seal, Sealed, Goto
<1>7. run'.pc = p /\ run'.child = run.child /\ run'.mode = run.mode
  BY <1>6, Kinds DEF Processes
<1>8. Undisturbed /\ SameStatus /\ \A m \in Modes : disk'.command[m].result = disk.command[m].result
  BY <1>1, Kinds DEF Disks, Undisturbed, SameCounters, SameStatus, Completed
<1>9. Counted'
  BY <1>8, FrameStatus
<1>10. Exchanged'
  <2>1. "activate" \in Modes
    BY DEF Modes
  <2>2. disk'.child["verify-backup"].status # "done"
    BY <1>4, <1>5, <1>8, Names DEF SameStatus
  <2> QED BY <1>8, <2>1, <2>2, Names DEF EvidenceInv, Exchanged, Undisturbed, SameStatus
<1>11. disk'.child[run.child].status = "intent" /\ disk'.child["create"].status = disk.child["create"].status
  BY <1>4, <1>8, Names DEF SameStatus
<1>12. disk'.command[run'.mode].result
  BY <1>2, <1>4, <1>7, <1>8 DEF EvidenceInv, Talks
<1> QED BY <1>4, <1>5, <1>7, <1>8, <1>9, <1>10, <1>11, <1>12, TalkStep DEF Talking

LEMMA StageDoneEvidence == ASSUME EvidenceInv, IInv', StageDone PROVE EvidenceInv'
<1>1. run.pc = "collected" /\ run.pc \in Talking /\ Done
  BY DEF StageDone, Point, Talking
<1>2. /\ run.pc \in Inside /\ run.child \in Stages
      /\ run.mode = FirstMode[run.child]
           \/ (run.mode = "verify-backup" /\ run.child = "verify-backup")
  BY <1>1, Speakers
<1>3. run.child \notin Operations
  BY <1>2, OperationNames
<1>4. run.mode # "capture-backup" /\ (run.mode = "verify-backup" => disk.backup = "verified")
  BY DEF StageDone
<1>5. run.child = "verify-backup" => disk.backup = "verified"
  BY <1>2, <1>4, FirstModes
<1>6. run.child = "activate-migration" => disk.command["activate"].result
  BY <1>1, <1>2, FirstModes DEF EvidenceInv, Talks
<1> QED BY <1>1, <1>2, <1>3, <1>5, <1>6, DoneEvidence

LEMMA StopEvidence == ASSUME EvidenceInv, IInv', Stop PROVE EvidenceInv'
<1>1. CASE Coordinating
  <2>1. run' = Off
    BY <1>1 DEF Stop
  <2>2. /\ disk' = disk \/ disk' = [disk EXCEPT !.parent.status = "stopped-preserve-state"]
        /\ UNCHANGED <<world, box, store, lost, sent, time>>
    BY <1>1 DEF Stop, Disk
  <2>3. Undisturbed /\ SameStatus /\ SameResults
    BY <2>2, ReceiptStatus, NoReceipt
  <2>4. run'.pc = "off" /\ run'.child = "none"
    BY <2>1 DEF Off
  <2> QED BY <2>3, <2>4, OutsideStep DEF Inside
<1>2. CASE ~Coordinating
  <2> DEFINE c == run.child
             m == run.mode
  <2>1. run.pc \in Inside
    BY <1>2, Kinds DEF Stop, Coordinating, Point, Processes, Points, Inside
  <2>2. c \in Children /\ (run.pc \in Exchanging => m \in Modes)
    BY <2>1, Within, Speakers DEF Exchanging, Talking
  <2>3. run' = [run EXCEPT !.pc = "raised"] /\ UNCHANGED <<world, box, store, lost, sent, time>>
    BY <1>2 DEF Stop, Goto, Disk
  <2>4. run'.pc = "raised" /\ run'.child = c
    BY <2>3, Kinds DEF Processes
  <2>5. CASE disk' = disk
    <3>1. Undisturbed /\ SameStatus /\ SameResults
      BY <2>3, <2>5, NoReceipt
    <3>2. Counted' /\ Exchanged'
      BY <3>1, FrameStatus, FrameResults
    <3>3. disk'.child["create"].status = disk.child["create"].status
      BY <2>5
    <3> QED BY <2>1, <2>4, <3>1, <3>2, <3>3, LeaveStep
  <2>6. CASE disk' # disk
    <3>1. Undisturbed /\ SameResults /\ Becoming(c, "stopped")
      <4>1. CASE run.pc \in Exchanging
        <5>1. disk' = [disk EXCEPT !.command[m].status = "stopped", !.child[c].status = "stopped"]
          BY <1>2, <2>2, <2>6, <4>1, Kinds DEF Stop, Disk, Disks
        <5>2. /\ disk'.parent = disk.parent /\ disk'.released = disk.released /\ disk'.backup = disk.backup
              /\ disk'.child = [disk.child EXCEPT ![c].status = "stopped"]
              /\ disk'.command = [disk.command EXCEPT ![m].status = "stopped"]
          BY <2>2, <4>1, <5>1, Kinds DEF Disks
        <5>3. Undisturbed /\ Becoming(c, "stopped")
          BY <2>2, <2>3, <5>2, Kinds DEF Disks, ChildRecords, Undisturbed, SameCounters, Becoming, Completed
        <5>4. SameResults
          BY <5>2, Kinds DEF Disks, Commands, SameResults
        <5> QED BY <5>3, <5>4
      <4>2. CASE run.pc \notin Exchanging
        <5>1. disk' = [disk EXCEPT !.child[c].status = "stopped"]
          BY <1>2, <2>2, <2>6, <4>2, Kinds DEF Stop, Disk, Disks
        <5> QED BY <2>2, <2>3, <5>1, Writes
      <4> QED BY <4>1, <4>2
    <3>2. Counted' /\ Exchanged'
      BY <2>1, <3>1, StatusStep
    <3>3. c # "create" => disk'.child["create"].status = disk.child["create"].status
      BY <3>1, Names DEF Becoming
    <3> QED BY <2>1, <2>4, <3>1, <3>2, <3>3, LeaveStep
  <2> QED BY <2>5, <2>6
<1> QED BY <1>1, <1>2

\* Part 8.  What the worker does.

\* A request to the worker is none of an operation's.
LEMMA WorkerRequests ==
  /\ \A m \in Modes : <<"invoke", m>> \in Requests
  /\ <<"upload", "verify-backup">> \in Requests
  /\ \A r \in Requests : \/ r[1] \in Operations /\ r[2] \in DOMAIN Effects[r[1]] /\ r = <<r[1], r[2]>>
                         \/ r[1] = "invoke" /\ r[2] \in Modes /\ r = <<"invoke", r[2]>>
                         \/ r = <<"upload", "verify-backup">>
<1>1. (\A m \in Modes : <<"invoke", m>> \in Requests) /\ <<"upload", "verify-backup">> \in Requests
  BY DEF Requests
<1>2. ASSUME NEW r \in Requests
      PROVE  \/ r[1] \in Operations /\ r[2] \in DOMAIN Effects[r[1]] /\ r = <<r[1], r[2]>>
             \/ r[1] = "invoke" /\ r[2] \in Modes /\ r = <<"invoke", r[2]>>
             \/ r = <<"upload", "verify-backup">>
  <2>1. CASE \E c \in Operations : \E i \in DOMAIN Effects[c] : r = <<c, i>>
    BY <2>1
  <2>2. CASE \E m \in Modes : r = <<"invoke", m>>
    BY <2>2
  <2>3. CASE r = <<"upload", "verify-backup">>
    BY <2>3
  <2> QED BY <2>1, <2>2, <2>3, Zenon DEF Requests, Operations
<1> QED BY <1>1, <1>2

\* Only the worker's directory, the successor store and requests to the worker
\* have changed.
LEMMA WorkerStep ==
  ASSUME EvidenceInv, UNCHANGED <<world, disk, time>>,
         box' \in Boxes, store' \in {"empty", "activated"},
         \A r \in lost' : r \in lost \/ r = <<"upload", "verify-backup">>
                          \/ \E m \in Modes : r = <<"invoke", m>>,
         \A r \in lost' : sent'[r] >= 1,
         run' = run \/ run'.pc # "send",
         box'.request["activate"] = "done" => store' = "activated",
         box.request["activate"] = "done" => box'.request["activate"] = "done",
         store' = "activated" \/ <<"invoke", "activate">> \in lost' => Completed >= 4
  PROVE  Typed' /\ Untouched' /\ Standing' /\ Counted' /\ Exchanged'
<1>1. Typed'
  BY WorkerRequests DEF EvidenceInv, Typed, Completed
<1>2. Untouched'
  <2>1. ASSUME NEW c \in Operations, NEW i \in DOMAIN Effects[c], Abroad(c, i)'
        PROVE  Abroad(c, i)
    <3>1. c # "invoke" /\ c # "upload"
      BY OperationNames
    <3>2. <<c, i>> \in lost' => <<c, i>> \in lost
      BY <3>1
    <3> QED BY <2>1, <3>2 DEF Abroad
  <2> QED BY <2>1 DEF EvidenceInv, Untouched, Before
<1>3. Standing'
  BY DEF EvidenceInv, Standing, Completed
<1>4. Counted'
  <2>1. ASSUME NEW c PROVE Rank(c)' = Rank(c)
    BY DEF Rank
  <2> QED BY <2>1 DEF EvidenceInv, Counted, Completed
<1>5. Exchanged'
  BY DEF EvidenceInv, Exchanged, Completed
<1> QED BY <1>1, <1>2, <1>3, <1>4, <1>5

\* What a worker that takes a request up brings about.
LEMMA Takings ==
  ASSUME EvidenceInv, NEW m \in Modes, Invoked(m), m = "activate" => Completed >= 4
  PROVE  /\ box' \in Boxes /\ store' \in {"empty", "activated"}
         /\ box'.request["activate"] = "done" => store' = "activated"
         /\ box.request["activate"] = "done" => box'.request["activate"] = "done"
         /\ store' = "activated" => Completed >= 4
<1>1. PICK r \in {"done", "spoilt"} :
        /\ box' = [box EXCEPT !.request[m] = IF @ = "none" THEN r ELSE @]
        /\ store' = IF m = "activate" /\ box'.request[m] = "done" THEN "activated" ELSE store
  BY DEF Invoked
<1>2. box \in Boxes /\ store \in {"empty", "activated"}
  BY DEF EvidenceInv, Typed
<1>3. "activate" \in Modes
  BY DEF Modes
<1> DEFINE x == IF box.request[m] = "none" THEN r ELSE box.request[m]
<1>4. x \in {"none", "done", "spoilt"} /\ (box.request[m] = "done" => x = "done")
  BY <1>2 DEF Boxes
<1>5. box' = [box EXCEPT !.request[m] = x]
  BY <1>1
<1> HIDE DEF x
<1>6. /\ box' \in Boxes /\ box'.request[m] = x
      /\ \A d \in Modes : d # m => box'.request[d] = box.request[d]
  BY <1>2, <1>4, <1>5 DEF Boxes
<1>7. box.request["activate"] = "done" => box'.request["activate"] = "done"
  BY <1>3, <1>4, <1>6
<1>8. box'.request["activate"] = "done" => store' = "activated"
  BY <1>1, <1>3, <1>6 DEF EvidenceInv, Exchanged
<1>9. store' = "activated" => Completed >= 4
  BY <1>1 DEF EvidenceInv, Exchanged
<1> QED BY <1>1, <1>2, <1>6, <1>7, <1>8, <1>9

LEMMA Counting ==
  ASSUME EvidenceInv, NEW r \in Requests, Count(r)
  PROVE  sent'[r] >= 1 /\ \A q \in lost : sent'[q] >= 1
<1>1. sent \in [Requests -> Nat] /\ lost \subseteq Requests /\ \A q \in lost : sent[q] >= 1
  BY DEF EvidenceInv, IInv, Files, Typed, Untouched
<1> DEFINE n == IF sent[r] < 2 THEN sent[r] + 1 ELSE sent[r]
<1>2. sent' = [sent EXCEPT ![r] = n]
  BY DEF Count
<1>3. n \in Nat /\ n >= 1
  BY <1>1
<1> HIDE DEF n
<1> QED BY <1>1, <1>2, <1>3

\* An exchange goes on, whatever became of its request.
LEMMA TalkOn ==
  ASSUME EvidenceInv, IInv', run.pc \in {"uploading", "invoking"}, NEW p \in {"invoke", "answer"},
         run' = [run EXCEPT !.pc = p], UNCHANGED <<disk, time>>,
         Typed', Untouched', Standing', Counted', Exchanged'
  PROVE  EvidenceInv'
<1>1. run'.pc = p /\ run'.child = run.child /\ run'.mode = run.mode
  BY Kinds DEF Processes
<1>2. run.pc \in Talking /\ run.pc \in Inside
  BY DEF Talking, Inside
<1>3. Staged' /\ Sends'
  <2>1. Completed < 9 /\ run.child # "none"
    BY <1>2, Within, Names
  <2> QED BY <1>1, <1>2, <2>1 DEF EvidenceInv, Staged, Sends, Rank, Completed
<1>4. Talks'
  BY <1>1, <1>2, Speakers, Within, OperationNames DEF Talks, FirstMode, Stages
<1> QED BY <1>3, <1>4 DEF EvidenceInv

LEMMA UploadEvidence == ASSUME EvidenceInv, IInv', Upload PROVE EvidenceInv'
<1> DEFINE r == <<"upload", "verify-backup">>
<1>1. /\ run.pc = "uploading" /\ run' = [run EXCEPT !.pc = "invoke"] /\ UNCHANGED <<world, disk, time>>
      /\ \/ Count(r) /\ box' = [box EXCEPT !.archive = TRUE] /\ store' = store /\ lost' = lost
         \/ Count(r) /\ UNCHANGED <<box, store>> /\ lost' = lost \cup {r}
         \/ UNCHANGED <<box, store, lost, sent>>
  BY DEF Upload, Point, Goto, Exec
<1>2. box' \in Boxes /\ box'.request = box.request /\ store' = store
  BY <1>1 DEF EvidenceInv, Typed, Boxes
<1>3. \A q \in lost' : sent'[q] >= 1
  BY <1>1, Counting, WorkerRequests DEF EvidenceInv, Untouched
<1>4. \A q \in lost' : q \in lost \/ q = r
  BY <1>1
<1>5. run'.pc = "invoke"
  BY <1>1, Kinds DEF Processes
<1>6. <<"invoke", "activate">> \in lost' => <<"invoke", "activate">> \in lost
  BY <1>4
<1>7. Typed' /\ Untouched' /\ Standing' /\ Counted' /\ Exchanged'
  BY <1>1, <1>2, <1>3, <1>4, <1>5, <1>6, WorkerStep DEF EvidenceInv, Exchanged, Typed
<1> QED BY <1>1, <1>7, TalkOn

LEMMA InvokeEvidence == ASSUME EvidenceInv, IInv', Invoke PROVE EvidenceInv'
<1> DEFINE m == run.mode
           r == <<"invoke", m>>
<1>1. /\ run.pc = "invoking" /\ run' = [run EXCEPT !.pc = "answer"] /\ UNCHANGED <<world, disk, time>>
      /\ \/ Count(r) /\ Invoked(m) /\ lost' = lost
         \/ Count(r) /\ UNCHANGED <<box, store>> /\ lost' = lost \cup {r}
         \/ UNCHANGED <<box, store, lost, sent>>
  BY DEF Invoke, Point, Goto, Exec
<1>2. m \in Modes /\ (m = "activate" => Completed = 4)
  BY <1>1, Speakers DEF Talking
<1>3. r \in Requests
  BY <1>2, WorkerRequests
<1>4. \A q \in lost' : sent'[q] >= 1
  BY <1>1, <1>3, Counting DEF EvidenceInv, Untouched
<1>5. \A q \in lost' : q \in lost \/ q = r
  BY <1>1
<1>6. run'.pc = "answer"
  BY <1>1, Kinds DEF Processes
<1>7. /\ box' \in Boxes /\ store' \in {"empty", "activated"}
      /\ box'.request["activate"] = "done" => store' = "activated"
      /\ box.request["activate"] = "done" => box'.request["activate"] = "done"
      /\ store' = "activated" => Completed >= 4
  <2>1. CASE Invoked(m)
    BY <1>2, <2>1, Takings
  <2>2. CASE UNCHANGED <<box, store>>
    BY <2>2 DEF EvidenceInv, Exchanged, Typed
  <2> QED BY <1>1, <2>1, <2>2
<1>8. <<"invoke", "activate">> \in lost' => Completed >= 4
  BY <1>2, <1>5 DEF EvidenceInv, Exchanged
<1>9. Typed' /\ Untouched' /\ Standing' /\ Counted' /\ Exchanged'
  BY <1>1, <1>2, <1>4, <1>5, <1>6, <1>7, <1>8, WorkerStep
<1> QED BY <1>1, <1>9, TalkOn

\* The process and the disk stay, the clock moves within its plan.
LEMMA OnlyOthers ==
  ASSUME EvidenceInv, IInv', UNCHANGED <<disk, run>>, time'.plan = time.plan,
         Typed', Untouched', Standing', Exchanged'
  PROVE  EvidenceInv'
<1>1. ASSUME NEW c PROVE Rank(c)' = Rank(c)
  BY DEF Rank
<1>2. Staged' /\ Counted'
  BY <1>1 DEF EvidenceInv, Staged, Counted, Completed
<1>3. Sends' /\ Talks'
  BY DEF EvidenceInv, Sends, Talks, FirstMode, Stages
<1> QED BY <1>2, <1>3 DEF EvidenceInv

\* A lost request reaches the worker late.
LEMMA WorkerLate ==
  ASSUME EvidenceInv, IInv', NEW r \in lost, r[1] \in {"invoke", "upload"},
         lost' = lost \ {r}, UNCHANGED <<world, sent, disk, run, time>>,
         r[1] = "invoke" => Invoked(r[2]),
         r[1] = "upload" => box' = [box EXCEPT !.archive = TRUE] /\ store' = store
  PROVE  EvidenceInv'
<1>1. r \in Requests /\ r[1] \notin Operations
  BY OperationNames DEF EvidenceInv, Typed
<1>2. CASE r[1] = "invoke"
  <2>1. r[2] \in Modes /\ r = <<"invoke", r[2]>>
    BY <1>1, <1>2, WorkerRequests
  <2>2. r[2] = "activate" => Completed >= 4
    BY <2>1 DEF EvidenceInv, Exchanged
  <2>3. /\ box' \in Boxes /\ store' \in {"empty", "activated"}
        /\ box'.request["activate"] = "done" => store' = "activated"
        /\ box.request["activate"] = "done" => box'.request["activate"] = "done"
        /\ store' = "activated" => Completed >= 4
    BY <1>2, <2>1, <2>2, Takings
  <2>4. Typed' /\ Untouched' /\ Standing' /\ Counted' /\ Exchanged'
    BY <2>3, WorkerStep DEF EvidenceInv, Untouched, Exchanged
  <2> QED BY <2>4, OnlyOthers
<1>3. CASE r[1] = "upload"
  <2>1. box' \in Boxes /\ box'.request = box.request /\ store' = store
    BY <1>3 DEF EvidenceInv, Typed, Boxes
  <2>2. Typed' /\ Untouched' /\ Standing' /\ Counted' /\ Exchanged'
    BY <2>1, WorkerStep DEF EvidenceInv, Untouched, Exchanged, Typed
  <2> QED BY <2>2, OnlyOthers
<1> QED BY <1>2, <1>3

LEMMA ClockEvidence == ASSUME EvidenceInv, IInv', WindowCloses \/ Finalize PROVE EvidenceInv'
<1>1. UNCHANGED <<world, box, store, lost, sent, disk, run>>
  BY DEF WindowCloses, Finalize
<1>2. time' \in Times /\ time'.plan = time.plan
  BY DEF EvidenceInv, Typed, Times, WindowCloses, Finalize
<1>3. Typed' /\ Untouched' /\ Standing' /\ Exchanged'
  BY <1>1, <1>2 DEF EvidenceInv, Typed, Untouched, Standing, Exchanged, Abroad, Before, Completed
<1> QED BY <1>1, <1>2, <1>3, OnlyOthers

\* The recovery of an expired setup begins.
LEMMA StartExpiredEvidence == ASSUME EvidenceInv, IInv', StartExpired PROVE EvidenceInv'
<1>1. /\ UNCHANGED <<world, box, store, lost, sent, disk>> /\ Completed = 2 /\ run.pc = "off"
      /\ run' = [Off EXCEPT !.pc = "look", !.child = "expired"]
  BY DEF StartExpired, Point
<1>2. time' \in Times /\ time'.plan = "between"
  BY DEF EvidenceInv, Typed, Times, StartExpired
<1>3. run'.pc = "look" /\ run'.child = "expired"
  BY <1>1 DEF Off
<1>4. Typed' /\ Untouched' /\ Standing' /\ Exchanged'
  BY <1>1, <1>2, <1>3 DEF EvidenceInv, Typed, Untouched, Standing, Exchanged, Abroad, Before, Completed
<1>5. ASSUME NEW c PROVE Rank(c)' = Rank(c)
  BY DEF Rank
<1>6. Counted'
  BY <1>1, <1>2, <1>5 DEF EvidenceInv, Counted, Completed
<1>7. Staged' /\ Sends' /\ Talks'
  BY <1>1, <1>2, <1>3, <1>5, Ranks DEF Staged, Sends, Talks, Talking, Completed
<1> QED BY <1>4, <1>6, <1>7 DEF EvidenceInv

\* Part 9.  The requests to the cluster.

\* Serving a request leaves the object of every other one as it was.
LEMMA Apart ==
  ASSUME NEW w \in Worlds, NEW v, NEW e \in EffectNames, NEW f \in EffectNames, e # f,
         Before(e, w), Before(f, w), Takes(e, w, v)
  PROVE  Before(f, v)
<1>1. CASE f \in {"suspend", "resume"}
  BY <1>1 DEF Before, Takes, EffectNames
<1>2. CASE f \in {"scale-zero", "review-deployment"}
  BY <1>2 DEF Before, Takes, EffectNames
<1>3. CASE f \in {"drop-initializer", "terminate"}
  BY <1>3 DEF Before, Takes, EffectNames
<1>4. CASE f \in {"pod", "drop-pod"}
  BY <1>4 DEF Before, Takes, EffectNames
<1>5. CASE f \in {"policy", "drop-policy"}
  BY <1>5, Zenon DEF Before, Takes, EffectNames
<1>6. CASE f \in {"code", "drop-code"}
  BY <1>6, Zenon DEF Before, Takes, EffectNames
<1>7. CASE f \in {"review-config", "review-role"}
  BY <1>7, Zenon DEF Before, Takes, EffectNames
<1> QED BY <1>1, <1>2, <1>3, <1>4, <1>5, <1>6, <1>7 DEF EffectNames

\* What a request that may still be served is for, and what is recorded of it.
LEMMA Standings ==
  ASSUME EvidenceInv, NEW c \in Operations, NEW i \in DOMAIN Effects[c], Abroad(c, i)
  PROVE  /\ disk.child[c].n = i /\ disk.child[c].k = i - 1 /\ i \in 1..3
         /\ Before(Effects[c][i], world) /\ Completed >= Rank(c)
         /\ c = "expired" => time.plan = "between" /\ Completed = 2
<1>1. disk.child[c].n = i /\ disk.child[c].k = i - 1 /\ Before(Effects[c][i], world)
  BY DEF EvidenceInv, Untouched
<1>2. i \in 1..3 /\ c \in Children
  BY Asked, OperationNames
<1>3. disk.child[c].n > 0
  BY <1>1, <1>2
<1> QED BY <1>1, <1>2, <1>3 DEF EvidenceInv, Counted, Staged

\* Different requests that may still be served want different things.
LEMMA NoneAlike ==
  ASSUME EvidenceInv, NEW c \in Operations, NEW i \in DOMAIN Effects[c], Abroad(c, i),
         NEW d \in Operations, NEW j \in DOMAIN Effects[d], Abroad(d, j), c # d \/ i # j
  PROVE  Effects[c][i] # Effects[d][j]
<1>1. Asks(c, i, Effects[c][i]) /\ Asks(d, j, Effects[d][j])
  BY Asked
<1>2. ~(c = "retire" /\ d = "expired") /\ ~(c = "expired" /\ d = "retire")
  BY Standings, Ranks
<1> QED BY <1>1, <1>2 DEF Asks

\* What was observed stays so when a request is served.
LEMMA ServedStanding ==
  ASSUME EvidenceInv, NEW c \in Operations, NEW i \in DOMAIN Effects[c], Abroad(c, i),
         Takes(Effects[c][i], world, world'), disk' = disk
  PROVE  Standing'
<1> DEFINE e == Effects[c][i]
<1>1. /\ disk.child[c].n = i /\ disk.child[c].k = i - 1 /\ i \in 1..3
      /\ Before(e, world) /\ Completed >= Rank(c)
  BY Standings
<1>2. Asks(c, i, e) /\ e \in EffectNames
  BY Asked
<1>3. Standing /\ Completed \in 0..9 /\ world \in Worlds
  BY DEF EvidenceInv, Typed
<1>4. Takes(e, world, world')
  OBVIOUS
<1> HIDE DEF e
<1>5. \A d \in Children : /\ disk.child[d].n \in Nat /\ disk.child[d].k \in Nat
                          /\ disk.child[d].n \in {disk.child[d].k, disk.child[d].k + 1}
  BY Counters DEF EvidenceInv
<1>6. CASE e = "suspend"
  <2>1. c = "fence" /\ disk.child["fence"].k = 0
    BY <1>1, <1>2, <1>6 DEF Asks
  <2>2. Completed <= 0
    BY <2>1, InItsStage, Lengths, Ranks, OperationNames
  <2>3. disk.child["restore"].n = 0 /\ disk.child["restore"].k = 0
    <3>1. "restore" \in Children /\ Rank("restore") = 8
      BY Names, Ranks
    <3>2. disk.child["restore"].n > 0 => Completed >= 8
      BY <3>1 DEF EvidenceInv, Counted
    <3> QED BY <1>3, <1>5, <2>2, <3>1, <3>2
  <2> QED BY <1>3, <1>4, <1>6, <2>3 DEF Standing, Takes, Completed
<1>7. CASE e = "resume"
  <2>1. disk.child["restore"].n = 1
    BY <1>1, <1>2, <1>7 DEF Asks
  <2> QED BY <1>3, <1>4, <1>7, <2>1 DEF Standing, Takes, Completed
<1>8. CASE e = "scale-zero"
  <2>1. disk.child["fence"].n = 2 /\ world.deploy = "source"
    BY <1>1, <1>2, <1>8 DEF Asks, Before
  <2> QED BY <1>3, <1>4, <1>5, <1>8, <2>1, Names DEF Standing, Takes, Completed
<1>9. CASE e = "review-deployment"
  <2>1. Completed >= 6 /\ world.deploy = "zero"
    BY <1>1, <1>2, <1>9, Ranks DEF Asks, Before
  <2> QED BY <1>3, <1>4, <1>5, <1>9, <2>1, Names DEF Standing, Takes, Completed
<1>10. CASE e = "drop-initializer"
  <2>1. world.init = "running"
    BY <1>1, <1>10 DEF Before
  <2> QED BY <1>3, <1>4, <1>10, <2>1 DEF Standing, Takes, Completed
<1>11. CASE e = "pod"
  <2>1. disk.child["create"].k = 2 /\ Completed >= 2
    BY <1>1, <1>2, <1>11, Ranks DEF Asks
  <2>2. Completed < 3
    BY <1>3, <2>1, CreationOver
  <2> QED BY <1>3, <1>4, <1>11, <2>1, <2>2 DEF Standing, Takes, Completed
<1>12. CASE e = "drop-pod"
  <2>1. world.worker \in Alive
    BY <1>1, <1>12 DEF Before
  <2> QED BY <1>3, <1>4, <1>12, <2>1 DEF Standing, Takes, Completed, Alive
<1>13. CASE e = "terminate"
  BY <1>3, <1>4, <1>13 DEF Standing, Takes, Completed
<1>14. CASE e \in {"policy", "code", "drop-code", "drop-policy", "review-config", "review-role"}
  <2>1. /\ world'.flux = world.flux /\ world'.deploy = world.deploy /\ world'.init = world.init
        /\ world'.worker = world.worker /\ world'.restarts = world.restarts
        /\ world'.busy = world.busy /\ world'.main = world.main /\ world'.src = world.src
        /\ world'.runtime = world.runtime
    BY <1>4, <1>14 DEF Takes
  <2> QED BY <1>3, <2>1 DEF Standing, Completed
<1> QED BY <1>2, <1>6, <1>7, <1>8, <1>9, <1>10, <1>11, <1>12, <1>13, <1>14 DEF EffectNames

\* A request is served, now or late, and is no longer abroad.
LEMMA ServedStep ==
  ASSUME EvidenceInv, NEW c \in Operations, NEW i \in DOMAIN Effects[c], Abroad(c, i),
         At(Effects[c][i]) = "before", world' = Served(Effects[c][i]),
         UNCHANGED <<box, store, disk, time>>, lost' \subseteq lost,
         \A r \in lost' : sent'[r] >= 1, ~Abroad(c, i)',
         \A d \in Operations : \A j \in DOMAIN Effects[d] : Abroad(d, j)' => Abroad(d, j)
  PROVE  Typed' /\ Untouched' /\ Standing' /\ Counted' /\ Exchanged'
<1> DEFINE e == Effects[c][i]
<1>1. e \in EffectNames
  BY Asked
<1>2. Takes(e, world, world') /\ Before(e, world)
  BY <1>1, Serving, Observed DEF EvidenceInv
<1>3. world \in Worlds /\ world' \in Worlds
  BY <1>2 DEF EvidenceInv, Typed, Takes
<1>4. Standing'
  BY <1>2, ServedStanding
<1>5. Typed'
  BY <1>3 DEF EvidenceInv, Typed, Completed
<1>6. Untouched'
  <2>1. ASSUME NEW d \in Operations, NEW j \in DOMAIN Effects[d], Abroad(d, j)'
        PROVE  disk.child[d].n = j /\ disk.child[d].k = j - 1 /\ Before(Effects[d][j], world')
    <3>1. Abroad(d, j) /\ (c # d \/ i # j)
      BY <2>1
    <3>2. Effects[d][j] # e /\ Effects[d][j] \in EffectNames
      BY <3>1, NoneAlike, Asked
    <3>3. disk.child[d].n = j /\ disk.child[d].k = j - 1 /\ Before(Effects[d][j], world)
      BY <3>1, Standings
    <3> QED BY <1>1, <1>2, <1>3, <3>2, <3>3, Apart
  <2> QED BY <2>1 DEF Untouched, Before
<1>7. Counted'
  <2>1. ASSUME NEW x PROVE Rank(x)' = Rank(x)
    BY DEF Rank
  <2> QED BY <2>1 DEF EvidenceInv, Counted, Completed
<1>8. Exchanged'
  BY DEF EvidenceInv, Exchanged, Completed
<1> QED BY <1>4, <1>5, <1>6, <1>7, <1>8

\* The request of a process that is about to send one.
LEMMA Own ==
  ASSUME EvidenceInv, run.pc \in {"send", "see"}
  PROVE  LET c == run.child
             i == disk.child[c].k + 1 IN
           /\ c \in Operations /\ c \in Children /\ i \in DOMAIN Effects[c]
           /\ disk.child[c].k < Len(Effects[c]) /\ disk.child[c].n = i
           /\ <<c, i>> \in Requests /\ run.pc \in Inside
           /\ run.pc = "send" => Abroad(c, i) /\ <<c, i>> \notin lost
<1> DEFINE c == run.child
           i == disk.child[c].k + 1
<1>1. c \in Operations /\ disk.child[c].k < Len(Effects[c]) /\ disk.child[c].n = i
  BY DEF EvidenceInv, Sends
<1>2. c \in Children
  BY <1>1, OperationNames
<1>3. disk.child[c].k \in Nat
  BY <1>2, Counters DEF EvidenceInv
<1>4. i \in DOMAIN Effects[c]
  BY <1>1, <1>3, Lengths
<1>5. <<c, i>> \in Requests
  BY <1>1, <1>4 DEF Requests, Operations
<1>6. run.pc = "send" => Abroad(c, i) /\ <<c, i>> \notin lost
  <2>1. run.pc = "send" => Abroad(c, i)
    BY DEF Abroad
  <2>2. run.pc = "send" => sent[<<c, i>>] = 0
    BY <1>5 DEF EvidenceInv, IInv, AboutToSend, Unsent
  <2>3. <<c, i>> \in lost => sent[<<c, i>>] >= 1
    BY DEF EvidenceInv, Untouched
  <2> QED BY <2>1, <2>2, <2>3
<1> QED BY <1>1, <1>2, <1>4, <1>5, <1>6 DEF Inside

LEMMA SendEvidence == ASSUME EvidenceInv, IInv', Send PROVE EvidenceInv'
<1> DEFINE c == run.child
           i == disk.child[c].k + 1
           r == <<c, i>>
           e == Effects[c][i]
<1>1. /\ run.pc = "send" /\ Count(r) /\ run' = [run EXCEPT !.pc = "see"]
      /\ UNCHANGED <<box, store, disk, time>>
      /\ \/ At(e) = "before" /\ world' = Served(e) /\ lost' = lost
         \/ world' = world /\ lost' = lost \cup {r}
  BY DEF Send, Point, Goto, child, Todo
<1>2. /\ c \in Operations /\ c \in Children /\ i \in DOMAIN Effects[c] /\ r \in Requests
      /\ run.pc \in Inside /\ Abroad(c, i) /\ r \notin lost
      /\ disk.child[c].k < Len(Effects[c]) /\ disk.child[c].n = i
  BY <1>1, Own
<1>3. sent'[r] >= 1 /\ \A q \in lost : sent'[q] >= 1
  BY <1>1, <1>2, Counting
<1>4. run'.pc = "see" /\ run'.child = c
  BY <1>1, Kinds DEF Processes
<1> HIDE DEF e
<1>5. Typed' /\ Untouched' /\ Standing' /\ Counted' /\ Exchanged'
  <2>1. CASE At(e) = "before" /\ world' = Served(e) /\ lost' = lost
    <3>1. ~Abroad(c, i)'
      BY <1>1, <1>2, <1>4, <2>1 DEF Abroad
    <3>2. \A d \in Operations : \A j \in DOMAIN Effects[d] : Abroad(d, j)' => Abroad(d, j)
      BY <1>4, <2>1 DEF Abroad
    <3>3. \A q \in lost' : sent'[q] >= 1
      BY <1>3, <2>1
    <3> QED BY <1>1, <1>2, <2>1, <3>1, <3>2, <3>3, ServedStep DEF e
  <2>2. CASE world' = world /\ lost' = lost \cup {r}
    <3>1. Typed' /\ Standing'
      BY <1>1, <1>2, <2>2 DEF EvidenceInv, Typed, Standing, Completed
    <3>2. \A d \in Operations : \A j \in DOMAIN Effects[d] : Abroad(d, j)' => Abroad(d, j)
      BY <1>2, <1>4, <2>2 DEF Abroad
    <3>3. \A q \in lost' : sent'[q] >= 1
      BY <1>3, <2>2
    <3>4. Untouched'
      BY <1>1, <2>2, <3>2, <3>3 DEF EvidenceInv, Untouched, Before
    <3>5. Counted'
      <4>1. ASSUME NEW x PROVE Rank(x)' = Rank(x)
        BY DEF Rank
      <4> QED BY <1>1, <4>1 DEF EvidenceInv, Counted, Completed
    <3>6. c # "invoke"
      BY <1>2, OperationNames
    <3>7. Exchanged'
      BY <1>1, <2>2, <3>6 DEF EvidenceInv, Exchanged, Completed
    <3> QED BY <3>1, <3>4, <3>5, <3>7
  <2> QED BY <1>1, <2>1, <2>2, SMTT(40)
<1>6. Staged' /\ Sends'
  BY <1>1, <1>2, <1>4, Within, Names DEF Staged, Sends, Rank, Completed
<1>7. Talks'
  BY <1>1, <1>2, <1>4, Within, OperationNames DEF Talks, Talking
<1> QED BY <1>5, <1>6, <1>7 DEF EvidenceInv

\* A lost request is served late.
LEMMA ServeLateEvidence == ASSUME EvidenceInv, IInv', ServeLate PROVE EvidenceInv'
<1>1. PICK r \in lost :
        /\ lost' = lost \ {r}
        /\ CASE r[1] = "invoke" -> world.worker = "running" /\ Invoked(r[2]) /\ UNCHANGED world
             [] r[1] = "upload" -> /\ world.worker = "running" /\ box' = [box EXCEPT !.archive = TRUE]
                                   /\ UNCHANGED <<world, store>>
             [] OTHER -> /\ At(Effects[r[1]][r[2]]) = "before" /\ world' = Served(Effects[r[1]][r[2]])
                         /\ UNCHANGED <<box, store>>
        /\ UNCHANGED <<sent, disk, run, time>>
  BY DEF ServeLate
<1>2. CASE r[1] = "invoke"
  BY <1>1, <1>2, WorkerLate
<1>3. CASE r[1] = "upload"
  BY <1>1, <1>3, WorkerLate
<1>4. CASE r[1] # "invoke" /\ r[1] # "upload"
  <2> DEFINE c == r[1]
             i == r[2]
             e == Effects[c][i]
  <2>1. c \in Operations /\ i \in DOMAIN Effects[c] /\ r = <<c, i>>
    BY <1>4, WorkerRequests DEF EvidenceInv, Typed
  <2>2. At(e) = "before" /\ world' = Served(e) /\ UNCHANGED <<box, store>>
    BY <1>1, <1>4
  <2> HIDE DEF c, i, e
  <2>3. Abroad(c, i)
    BY <2>1 DEF Abroad
  <2>4. ~Abroad(c, i)'
    <3>1. ~(run.pc = "send" /\ run.child = c /\ disk.child[c].k + 1 = i)
      BY <2>1, Own
    <3> QED BY <1>1, <2>1, <3>1 DEF Abroad
  <2>5. \A d \in Operations : \A j \in DOMAIN Effects[d] : Abroad(d, j)' => Abroad(d, j)
    BY <1>1 DEF Abroad
  <2>6. \A q \in lost' : sent'[q] >= 1
    BY <1>1 DEF EvidenceInv, Untouched
  <2>7. Typed' /\ Untouched' /\ Standing' /\ Counted' /\ Exchanged'
    BY <1>1, <2>1, <2>2, <2>3, <2>4, <2>5, <2>6, ServedStep DEF e
  <2> QED BY <1>1, <2>7, OnlyOthers
<1> QED BY <1>2, <1>3, <1>4

\* The operation writes a record that does not end it.
LEMMA RecordKept ==
  ASSUME EvidenceInv, run.pc \in Inside, run.child \in Operations, NEW r \in ChildRecords,
         disk' = [disk EXCEPT !.child[run.child] = r],
         UNCHANGED <<world, box, store, lost, sent, time>>,
         r.status # "done", r.k <= Len(Effects[run.child])
  PROVE  /\ Typed' /\ Counted' /\ Exchanged' /\ Completed' = Completed
         /\ disk'.released = disk.released /\ disk'.child[run.child] = r
         /\ \A d \in Children : d # run.child => disk'.child[d] = disk.child[d]
<1> DEFINE c == run.child
<1>0. c \in Children /\ Completed = Rank(c) /\ (c = "expired" => time.plan = "between")
  BY Within
<1>1. /\ disk'.parent = disk.parent /\ disk'.released = disk.released /\ disk'.backup = disk.backup
      /\ disk'.command = disk.command /\ disk'.child[c] = r
      /\ \A d \in Children : d # c => disk'.child[d] = disk.child[d]
  BY <1>0, Kinds DEF Disks
<1>2. Completed' = Completed /\ Typed'
  BY <1>1 DEF EvidenceInv, Typed, Completed
<1>3. Counted'
  <2>1. Operations \subseteq Children /\ Stages \subseteq Children /\ Deciding \subseteq Children
        /\ "expired" \in Children /\ c \notin Stages
    BY OperationNames
  <2>2. ASSUME NEW d PROVE Rank(d)' = Rank(d)
    BY DEF Rank
  <2>3. \A d \in Children : disk'.child[d].n > 0 => Completed >= Rank(d)
    BY <1>0, <1>1, Ranks DEF EvidenceInv, Counted
  <2>4. disk'.child["expired"].n > 0 => time.plan = "between"
    BY <1>0, <1>1, <2>1 DEF EvidenceInv, Counted
  <2>5. \A d \in Operations : /\ disk'.child[d].k <= Len(Effects[d])
                              /\ disk'.child[d].status = "done" => disk'.child[d].k = Len(Effects[d])
    BY <1>1, <2>1 DEF EvidenceInv, Counted
  <2>6. \A d \in Stages : disk'.child[d].n = 0
    BY <1>1, <2>1 DEF EvidenceInv, Counted
  <2>7. \A d \in Deciding : Completed > Rank(d) => disk'.child[d].status = "done"
    <3>1. SUFFICES ASSUME NEW d \in Deciding, Completed > Rank(d) PROVE disk'.child[d].status = "done"
      OBVIOUS
    <3>2. d # c
      BY <1>0, <3>1, Ranks
    <3> QED BY <1>1, <2>1, <3>1, <3>2 DEF EvidenceInv, Counted
  <2> QED BY <1>1, <1>2, <2>2, <2>3, <2>4, <2>5, <2>6, <2>7 DEF EvidenceInv, Counted
<1>4. Exchanged'
  <2>1. disk'.child["verify-backup"] = disk.child["verify-backup"]
        /\ disk'.child["activate-migration"] = disk.child["activate-migration"]
    BY <1>1, OperationNames
  <2>2. disk.child["verify-backup"].status # "reserved" => disk'.child["create"].status = "done"
    BY <1>1, Within, Names DEF EvidenceInv, Exchanged
  <2> QED BY <1>1, <1>2, <2>1, <2>2 DEF EvidenceInv, Exchanged
<1> QED BY <1>1, <1>2, <1>3, <1>4

\* A record is made while the object is still untouched: the fence scales the
\* source down only when no reconciliation is under way, and the restoration
\* resumes only towards the successor.
LEMMA IntentEvidence ==
  ASSUME EvidenceInv, IInv', run.pc = "look", run.child \in Operations,
         disk.child[run.child].k < Len(Effects[run.child]), Intent,
         run.child = "fence" /\ disk.child["fence"].k = 1 => Quiet,
         run.child = "restore" => TargetObserved
  PROVE  EvidenceInv'
<1> DEFINE c == run.child
           k == disk.child[c].k
           i == k + 1
           e == Effects[c][i]
           r == [disk.child[c] EXCEPT !.n = i, !.status = "intent"]
<1>0. run.pc \in Inside /\ c \in Children /\ c \notin Stages
  BY Within, OperationNames DEF Inside
<1>1. disk.child[c] \in ChildRecords /\ k \in Nat /\ disk.child[c].n = k
  BY <1>0, Counters DEF EvidenceInv, Intent, child
<1>2. i \in DOMAIN Effects[c]
  BY <1>1, Lengths
<1>3. e \in EffectNames
  BY <1>2, Asked
<1>4. Before(e, world)
  BY <1>3, Observed DEF Intent, child, Todo, EvidenceInv
<1>5. /\ disk' = [disk EXCEPT !.child[c] = r] /\ UNCHANGED <<world, box, store, lost, sent, time>>
      /\ run' = [run EXCEPT !.pc = "send"]
  BY <1>1 DEF Intent, Save, RecordIntent, Disk, Goto, child
<1>6. r \in ChildRecords /\ r.n = i /\ r.k = k /\ r.status = "intent"
  <2>1. ASSUME NEW x \in ChildRecords, NEW j \in Nat
        PROVE  LET y == [x EXCEPT !.n = j, !.status = "intent"]
               IN  y \in ChildRecords /\ y.n = j /\ y.k = x.k /\ y.status = "intent"
    BY DEF ChildRecords
  <2>2. i \in Nat
    BY <1>1
  <2> QED BY <1>1, <2>1, <2>2
<1> HIDE DEF r, e
<1>7. /\ Typed' /\ Counted' /\ Exchanged' /\ Completed' = Completed
      /\ disk'.released = disk.released /\ disk'.child[c] = r
      /\ \A d \in Children : d # c => disk'.child[d] = disk.child[d]
  BY <1>0, <1>1, <1>5, <1>6, RecordKept
<1>8. run'.pc = "send" /\ run'.child = c
  BY <1>5, Kinds DEF Processes
<1>9. Staged'
  BY <1>0, <1>5, <1>7, <1>8, Within, Names DEF Staged, Rank
<1>10. Sends'
  BY <1>6, <1>7, <1>8 DEF Sends
<1>11. Talks'
  <2>1. run.child # "verify-backup"
    BY OperationNames
  <2>2. disk'.child[c].status # "done"
    BY <1>6, <1>7
  <2> QED BY <1>8, <2>1, <2>2 DEF Talks, Talking
<1>12. Untouched'
  <2>1. ASSUME NEW d \in Operations, NEW j \in DOMAIN Effects[d], Abroad(d, j)'
        PROVE  disk'.child[d].n = j /\ disk'.child[d].k = j - 1 /\ Before(Effects[d][j], world)
    <3>1. CASE <<d, j>> \in lost
      <4>1. disk.child[d].n = j /\ disk.child[d].k = j - 1 /\ Before(Effects[d][j], world)
        BY <3>1, Standings DEF Abroad
      <4>2. j \in 1..3 /\ d \in Children
        BY Asked, OperationNames
      <4>3. d # c
        BY <1>1, <4>1, <4>2
      <4> QED BY <1>7, <4>1, <4>2, <4>3
    <3>2. CASE d = c /\ j = i
      BY <1>1, <1>4, <1>6, <1>7, <3>2 DEF e
    <3> QED BY <1>5, <1>6, <1>7, <1>8, <2>1, <3>1, <3>2 DEF Abroad
  <2> QED BY <1>5, <2>1 DEF EvidenceInv, Untouched, Before
<1>13. Standing'
  <2>1. \A d \in Children : disk'.child[d].k = disk.child[d].k
    BY <1>6, <1>7
  <2>2. disk'.child["fence"].n < 2 => disk.child["fence"].n < 2
    BY <1>1, <1>6, <1>7, Names
  <2>3. disk'.child["fence"].n >= 2 => world.busy # "source"
    BY <1>1, <1>6, <1>7, Names DEF EvidenceInv, Standing, Quiet
  <2>4. disk'.child["restore"].n >= 1 => world.main = "target"
    BY <1>7, Names DEF EvidenceInv, Standing, TargetObserved
  <2>5. disk'.child["restore"].n = 0 => disk.child["restore"].n = 0
    BY <1>1, <1>6, <1>7, Names
  <2> QED BY <1>5, <1>7, <2>1, <2>2, <2>3, <2>4, <2>5, Names DEF EvidenceInv, Standing
<1> QED BY <1>7, <1>9, <1>10, <1>11, <1>12, <1>13 DEF EvidenceInv

\* A look at the object of a recorded request.
LEMMA ObserveEvidence ==
  ASSUME EvidenceInv, IInv', run.pc \in {"look", "see"}, run.child \in Operations,
         disk.child[run.child].k < Len(Effects[run.child]),
         disk.child[run.child].n = disk.child[run.child].k + 1, Observe
  PROVE  EvidenceInv'
<1> DEFINE c == run.child
           k == disk.child[c].k
           i == k + 1
           e == Effects[c][i]
           r == [file |-> disk.child[c].file, n |-> i, k |-> i, status |-> "reserved"]
<1>0. run.pc \in Inside /\ c \in Children /\ c \notin Stages
  BY Within, OperationNames DEF Inside
<1>1. disk.child[c] \in ChildRecords /\ k \in Nat /\ disk.child[c].n = i
  BY <1>0, Counters DEF EvidenceInv
<1>2. i \in DOMAIN Effects[c]
  BY <1>1, Lengths
<1>3. e \in EffectNames /\ Asks(c, i, e)
  BY <1>2, Asked
<1>4. CASE Save([child EXCEPT !.status = "waiting"]) /\ Goto("return")
  BY <1>0, <1>4, WaitEvidence DEF Wait
<1>5. CASE /\ At(e) = "after" /\ Goto("look")
           /\ Save([file |-> child.file, n |-> child.k + 1, k |-> child.k + 1, status |-> "reserved"])
  <2>1. /\ disk' = [disk EXCEPT !.child[c] = r] /\ UNCHANGED <<world, box, store, lost, sent, time>>
        /\ run' = [run EXCEPT !.pc = "look"]
    BY <1>5 DEF Save, Disk, Goto, child
  <2>2. Seen(e, world)
    BY <1>3, <1>5, Observed DEF EvidenceInv
  <2>3. r \in ChildRecords /\ r.n = i /\ r.k = i /\ r.status = "reserved" /\ r.k <= Len(Effects[c])
    BY <1>1, Lengths DEF ChildRecords
  <2> HIDE DEF r, e
  <2>4. /\ Typed' /\ Counted' /\ Exchanged' /\ Completed' = Completed
        /\ disk'.released = disk.released /\ disk'.child[c] = r
        /\ \A d \in Children : d # c => disk'.child[d] = disk.child[d]
    BY <1>0, <2>1, <2>3, RecordKept
  <2>5. run'.pc = "look" /\ run'.child = c
    BY <2>1, Kinds DEF Processes
  <2>6. Staged'
    BY <1>0, <2>1, <2>4, <2>5, Within, Names DEF Staged, Rank
  <2>7. Sends'
    BY <2>5 DEF Sends
  <2>8. Talks'
    <3>1. run.child # "verify-backup"
      BY OperationNames
    <3>2. disk'.child[c].status # "done"
      BY <2>3, <2>4
    <3> QED BY <2>5, <3>1, <3>2 DEF Talks, Talking
  <2>9. Untouched'
    <3>1. ASSUME NEW d \in Operations, NEW j \in DOMAIN Effects[d], Abroad(d, j)'
          PROVE  disk'.child[d].n = j /\ disk'.child[d].k = j - 1 /\ Before(Effects[d][j], world)
      <4>1. disk.child[d].n = j /\ disk.child[d].k = j - 1 /\ Before(Effects[d][j], world)
        BY <2>1, <2>5, <3>1, Standings DEF Abroad
      <4>2. d \in Children
        BY OperationNames
      <4>3. d # c
        BY <1>1, <2>2, <4>1 DEF Seen, e
      <4> QED BY <2>4, <4>1, <4>2, <4>3
    <3> QED BY <2>1, <3>1 DEF EvidenceInv, Untouched, Before
  <2>10. Standing'
    <3>1. \A d \in Children : disk'.child[d].n = disk.child[d].n
      BY <1>1, <2>3, <2>4
    <3>2. disk'.child["fence"].k >= 2 => world.deploy # "source"
      <4>1. CASE c = "fence" /\ k = 1
        BY <1>3, <2>2, <4>1 DEF Asks, Seen
      <4>2. CASE ~(c = "fence" /\ k = 1)
        BY <1>1, <2>3, <2>4, <4>2, Names DEF EvidenceInv, Standing
      <4> QED BY <4>1, <4>2
    <3>3. disk'.child["restore"].n = 0 /\ disk'.child["fence"].k >= 1 => world.flux = "suspended"
      <4>1. CASE c = "fence" /\ k = 0
        BY <1>3, <2>2, <4>1 DEF Asks, Seen
      <4>2. CASE ~(c = "fence" /\ k = 0)
        BY <1>1, <2>3, <2>4, <3>1, <4>2, Names DEF EvidenceInv, Standing
      <4> QED BY <4>1, <4>2
    <3>4. disk'.child["restore"].k >= 1 => world.flux = "active"
      <4>1. CASE c = "restore"
        BY <1>3, <2>2, <4>1 DEF Asks, Seen
      <4>2. CASE c # "restore"
        BY <2>4, <4>2, Names DEF EvidenceInv, Standing
      <4> QED BY <4>1, <4>2
    <3>5. disk'.child["start"].k >= 3 => world.deploy = "successor"
      <4>1. CASE c = "start" /\ k = 2
        BY <1>3, <2>2, <4>1 DEF Asks, Seen
      <4>2. CASE ~(c = "start" /\ k = 2)
        BY <1>1, <2>3, <2>4, <4>2, Names DEF EvidenceInv, Standing
      <4> QED BY <4>1, <4>2
    <3>6. disk'.child["restart"].k >= 1 => world.restarts = 1
      <4>1. CASE c = "restart"
        BY <1>3, <2>2, <4>1 DEF Asks, Seen
      <4>2. CASE c # "restart"
        BY <2>4, <4>2, Names DEF EvidenceInv, Standing
      <4> QED BY <4>1, <4>2
    <3> QED BY <2>1, <2>4, <3>1, <3>2, <3>3, <3>4, <3>5, <3>6, Names DEF EvidenceInv, Standing
  <2> QED BY <2>4, <2>6, <2>7, <2>8, <2>9, <2>10 DEF EvidenceInv
<1> QED BY <1>4, <1>5 DEF Observe, child, Todo

LEMMA SeeEvidence == ASSUME EvidenceInv, IInv', See PROVE EvidenceInv'
<1>1. run.pc = "see" /\ Observe
  BY DEF See, Point
<1> QED BY <1>1, Own, ObserveEvidence

LEMMA LookEvidence ==
  ASSUME EvidenceInv, IInv', run.pc = "look", run.child \in Operations,
         disk.child[run.child].k < Len(Effects[run.child]), Look,
         run.child = "fence" /\ disk.child["fence"].k = 1 => Quiet,
         run.child = "restore" => TargetObserved
  PROVE  EvidenceInv'
BY IntentEvidence, ObserveEvidence DEF Look, child

\* Part 10.  The operations, the releases and the evidence of a stage.

\* Something is found released, once and for all.
LEMMA ReleasedStep ==
  ASSUME EvidenceInv, IInv', NEW x, disk' = [disk EXCEPT !.released = @ \cup {x}],
         UNCHANGED <<world, box, store, lost, sent, run, time>>,
         x = "source" => Completed >= 1 /\ world.src = "gone" /\ world.init = "gone",
         x = "migration" => Completed >= 5 /\ world.worker = "gone"
  PROVE  EvidenceInv'
<1>1. /\ disk'.parent = disk.parent /\ disk'.child = disk.child /\ disk'.command = disk.command
      /\ disk'.backup = disk.backup /\ disk'.released = disk.released \cup {x}
  BY Kinds DEF Disks
<1>2. Completed' = Completed
  BY <1>1 DEF Completed
<1>3. ASSUME NEW c PROVE Rank(c)' = Rank(c)
  BY DEF Rank
<1>4. Typed' /\ Staged' /\ Sends'
  BY <1>1, <1>2, <1>3 DEF EvidenceInv, Typed, Staged, Sends
<1>5. Counted' /\ Untouched'
  BY <1>1, <1>2, <1>3 DEF EvidenceInv, Counted, Untouched, Abroad, Before
<1>6. Standing'
  BY <1>1, <1>2 DEF EvidenceInv, Standing
<1>7. Talks' /\ Exchanged'
  BY <1>1, <1>2 DEF EvidenceInv, Talks, Exchanged, FirstMode, Stages
<1> QED BY <1>4, <1>5, <1>6, <1>7 DEF EvidenceInv

LEMMA ReleaseSourceEvidence == ASSUME EvidenceInv, IInv', ReleaseSource PROVE EvidenceInv'
<1>1. /\ disk' = [disk EXCEPT !.released = @ \cup {"source"}]
      /\ UNCHANGED <<world, box, store, lost, sent, run, time>>
      /\ run.child = "initializer" /\ world.src = "gone" /\ world.init = "gone"
  BY DEF ReleaseSource, Disk, MountsReleased
<1>2. Completed = 1
  BY <1>1, Ranks DEF EvidenceInv, Staged
<1> QED BY <1>1, <1>2, ReleasedStep

\* A pass of an operation: a look, a wait or the end of it.
LEMMA PassEvidence ==
  ASSUME EvidenceInv, IInv', run.pc = "look", run.child \in Operations,
         \/ More /\ Look
         \/ Wait
         \/ ~More /\ Done,
         run.child = "fence" /\ disk.child["fence"].k = 1 => Quiet \/ Wait,
         run.child = "restore" => TargetObserved
  PROVE  EvidenceInv'
<1>1. run.pc \in Inside /\ run.child \in Children /\ run.child \notin Stages
  BY OperationNames DEF Inside
<1>2. CASE Wait
  BY <1>1, <1>2, WaitEvidence
<1>3. CASE ~Wait /\ More /\ Look
  BY <1>3, LookEvidence DEF More, child, Todo
<1>4. CASE ~More /\ Done
  <2>1. disk.child[run.child].k \in Nat /\ Len(Effects[run.child]) \in Nat
    BY <1>1, Counters, Lengths DEF EvidenceInv
  <2>2. disk.child[run.child].k >= Len(Effects[run.child])
    BY <1>4, <2>1 DEF More, child, Todo
  <2>3. run.child # "verify-backup" /\ run.child # "activate-migration"
    BY <1>1, OperationNames
  <2> QED BY <1>1, <1>4, <2>2, <2>3, DoneEvidence
<1> QED BY <1>2, <1>3, <1>4

LEMMA Short ==
  ASSUME EvidenceInv, run.child \in Operations
  PROVE  child.k = 0 => More
<1> DEFINE l == Len(Effects[run.child])
<1>1. l \in 1..3
  BY Lengths
<1> HIDE DEF l
<1>2. 0 < l
  BY <1>1
<1> QED BY <1>2 DEF More, Todo, l

LEMMA OperationEvidence ==
  ASSUME EvidenceInv, IInv',
         AdvanceFence \/ AdvanceInitializer \/ AdvanceCreation \/ AdvanceRetirement
         \/ AdvanceStart \/ AdvanceRestart \/ AdvanceRestore \/ RetireExpired
  PROVE  EvidenceInv'
<1>1. CASE AdvanceFence
  <2>1. run.pc = "look" /\ run.child = "fence" /\ run.child \in Operations
    BY <1>1, OperationNames DEF AdvanceFence, Pass, Point
  <2>2. (More /\ Look) \/ Wait \/ (~More /\ Done)
    BY <1>1, Zenon DEF AdvanceFence
  <2>3. disk.child["fence"].k = 1 => Quiet \/ Wait
    BY <1>1, <2>1 DEF AdvanceFence, child
  <2> QED BY <2>1, <2>2, <2>3, PassEvidence
<1>2. CASE AdvanceInitializer
  <2>1. run.pc = "look" /\ run.child = "initializer" /\ run.child \in Operations
    BY <1>2, OperationNames DEF AdvanceInitializer, Pass, Point
  <2>2. (More /\ Look) \/ Wait \/ (~More /\ Done)
    BY <1>2, Zenon DEF AdvanceInitializer
  <2> QED BY <2>1, <2>2, PassEvidence
<1>3. CASE AdvanceCreation
  <2>1. run.pc = "look" /\ run.child = "create" /\ run.child \in Operations
    BY <1>3, OperationNames DEF AdvanceCreation, Pass, Point
  <2>2. (More /\ Look) \/ Wait \/ (~More /\ Done)
    BY <1>3, Zenon DEF AdvanceCreation
  <2> QED BY <2>1, <2>2, PassEvidence
<1>4. CASE AdvanceRetirement
  <2>1. run.pc = "look" /\ run.child = "retire" /\ run.child \in Operations
    BY <1>4, OperationNames DEF AdvanceRetirement, Pass, Point
  <2>2. CASE /\ MountsReleased(TRUE) /\ Disk([disk EXCEPT !.released = @ \cup {"migration"}])
             /\ UNCHANGED run
    <3>1. world.worker = "gone"
      BY <2>2 DEF MountsReleased
    <3>2. Completed = 5
      BY <2>1, Ranks DEF EvidenceInv, Staged
    <3> QED BY <2>2, <3>1, <3>2, ReleasedStep DEF Disk
  <2>3. CASE (More /\ Look) \/ Wait \/ (~More /\ Done)
    BY <2>1, <2>3, PassEvidence
  <2>4. child.k = 0 => More
    BY <2>1, Short
  <2> QED BY <1>4, <2>2, <2>3, <2>4, Zenon DEF AdvanceRetirement
<1>5. CASE AdvanceStart
  <2>1. run.pc = "look" /\ run.child = "start" /\ run.child \in Operations
    BY <1>5, OperationNames DEF AdvanceStart, Pass, Point
  <2>2. (More /\ Look) \/ Wait \/ (~More /\ Done)
    BY <1>5, Zenon DEF AdvanceStart
  <2> QED BY <2>1, <2>2, PassEvidence
<1>6. CASE AdvanceRestart
  <2>1. run.pc = "look" /\ run.child = "restart" /\ run.child \in Operations
    BY <1>6, OperationNames DEF AdvanceRestart, Pass, Point
  <2>2. (More /\ Look) \/ Wait \/ (~More /\ Done)
    BY <1>6, Zenon DEF AdvanceRestart
  <2> QED BY <2>1, <2>2, PassEvidence
<1>7. CASE AdvanceRestore
  <2>1. run.pc = "look" /\ run.child = "restore" /\ run.child \in Operations /\ TargetObserved
    BY <1>7, OperationNames DEF AdvanceRestore, Pass, Point
  <2>2. (More /\ Look) \/ Wait \/ (~More /\ Done)
    BY <1>7, Zenon DEF AdvanceRestore
  <2> QED BY <2>1, <2>2, PassEvidence
<1>8. CASE RetireExpired
  <2>1. run.pc = "look" /\ run.child = "expired" /\ run.child \in Operations
    BY <1>8, OperationNames DEF RetireExpired, Point
  <2>2. child.k = 0 => More
    BY <2>1, Short
  <2>3. (More /\ Look) \/ Wait \/ (~More /\ Done)
    BY <1>8, <2>2, Zenon DEF RetireExpired
  <2> QED BY <2>1, <2>3, PassEvidence
<1> QED BY <1>1, <1>2, <1>3, <1>4, <1>5, <1>6, <1>7, <1>8

\* The evidence of the stage that is next to be completed.
LEMMA EvidenceTells ==
  ASSUME EvidenceInv, Completed < 9, Evidence(Stage)
  PROVE  /\ \A c \in Deciding : Rank(c) = Completed => disk.child[c].status = "done"
         /\ Completed = 1 => "source" \in disk.released
         /\ Completed = 5 => "migration" \in disk.released
<1>1. Completed \in 0..8
  BY DEF EvidenceInv, Typed
<1>2. /\ Steps[1] = "fence-source" /\ Steps[2] = "release-mounts" /\ Steps[3] = "verify-backup"
      /\ Steps[4] = "prepare-migration" /\ Steps[5] = "activate-migration"
      /\ Steps[6] = "release-migration" /\ Steps[7] = "start-review-runtime"
      /\ Steps[8] = "verify-review-runtime" /\ Steps[9] = "restore-gitops"
  BY DEF Steps
<1>3. CASE Completed = 0
  <2>1. Stage = "fence-source"
    BY <1>2, <1>3 DEF Stage
  <2>2. disk.child["fence"].status = "done"
    BY <2>1, OperationNames DEF Evidence
  <2> QED BY <1>3, <2>2, Ranks, OperationNames
<1>4. CASE Completed = 1
  <2>1. Stage = "release-mounts"
    BY <1>2, <1>4 DEF Stage
  <2>2. disk.child["initializer"].status = "done" /\ "source" \in disk.released
    BY <2>1, OperationNames DEF Evidence
  <2> QED BY <1>4, <2>2, Ranks, OperationNames
<1>5. CASE Completed \in {2, 3, 4}
  <2>1. /\ Stage \in Stages
        /\ Completed = 2 => Stage = "verify-backup"
        /\ Completed = 3 => Stage = "prepare-migration"
        /\ Completed = 4 => Stage = "activate-migration"
    BY <1>2, <1>5, OperationNames DEF Stage
  <2>2. disk.child[Stage].status = "done"
    BY <2>1, OperationNames DEF Evidence
  <2> QED BY <1>5, <2>1, <2>2, Ranks, OperationNames
<1>6. CASE Completed = 5
  <2>1. Stage = "release-migration"
    BY <1>2, <1>6 DEF Stage
  <2>2. disk.child["retire"].status = "done" /\ "migration" \in disk.released
    BY <2>1, OperationNames DEF Evidence
  <2> QED BY <1>6, <2>2, Ranks, OperationNames
<1>7. CASE Completed = 6
  <2>1. Stage = "start-review-runtime"
    BY <1>2, <1>7 DEF Stage
  <2>2. disk.child["start"].status = "done"
    BY <2>1, OperationNames DEF Evidence
  <2> QED BY <1>7, <2>2, Ranks, OperationNames
<1>8. CASE Completed = 7
  <2>1. Stage = "verify-review-runtime"
    BY <1>2, <1>8 DEF Stage
  <2>2. disk.child["restart"].status = "done"
    BY <2>1, OperationNames DEF Evidence
  <2> QED BY <1>8, <2>2, Ranks, OperationNames
<1>9. CASE Completed = 8
  <2>1. Stage = "restore-gitops"
    BY <1>2, <1>9 DEF Stage
  <2>2. disk.child["restore"].status = "done"
    BY <2>1, OperationNames DEF Evidence
  <2> QED BY <1>9, <2>2, Ranks, OperationNames
<1> QED BY <1>1, <1>3, <1>4, <1>5, <1>6, <1>7, <1>8, <1>9

LEMMA RecordEvidence == ASSUME EvidenceInv, IInv', Record PROVE EvidenceInv'
<1>1. /\ run.pc = "return" /\ run.child # "expired" /\ Evidence(Stage)
      /\ run' = [Off EXCEPT !.pc = "step"] /\ UNCHANGED <<world, box, store, lost, sent, time>>
      /\ disk' = [disk EXCEPT !.parent =
            [file |-> "here", completed |-> Completed + 1, pending |-> FALSE,
             status |-> IF Completed = 8 THEN "complete" ELSE "reserved"]]
  BY DEF Record, Point, Disk
<1>2. Completed < 9 /\ time.plan # "between" /\ Completed \in 0..8
  BY <1>1 DEF EvidenceInv, Staged, Typed
<1>3. /\ disk'.child = disk.child /\ disk'.command = disk.command /\ disk'.released = disk.released
      /\ disk'.backup = disk.backup /\ Completed' = Completed + 1
  BY <1>1, Kinds DEF Disks, Completed
<1>4. run'.pc = "step" /\ run'.child = "none"
  BY <1>1 DEF Off
<1>5. ASSUME NEW c PROVE Rank(c)' = Rank(c)
  BY DEF Rank
<1>6. Counted'
  <2>1. \A c \in Children : disk.child[c].n > 0 => Completed + 1 >= Rank(c)
    BY <1>2, Ranks DEF EvidenceInv, Counted
  <2>2. \A c \in Deciding : Completed + 1 > Rank(c) => disk.child[c].status = "done"
    <3>1. SUFFICES ASSUME NEW c \in Deciding, Completed + 1 > Rank(c) PROVE disk.child[c].status = "done"
      OBVIOUS
    <3>2. Rank(c) \in 0..8
      BY Ranks, OperationNames
    <3>3. Completed > Rank(c) \/ Rank(c) = Completed
      BY <1>2, <3>1, <3>2
    <3> QED BY <1>1, <1>2, <3>3, EvidenceTells DEF EvidenceInv, Counted
  <2>3. /\ Completed + 1 >= 2 => "source" \in disk.released
        /\ Completed + 1 >= 6 => "migration" \in disk.released
    BY <1>1, <1>2, EvidenceTells DEF EvidenceInv, Counted
  <2> QED BY <1>1, <1>3, <1>5, <2>1, <2>2, <2>3 DEF EvidenceInv, Counted
<1>7. Typed' /\ Untouched' /\ Standing' /\ Exchanged'
  <2>1. Typed' /\ Standing' /\ Exchanged'
    BY <1>1, <1>2, <1>3 DEF EvidenceInv, Typed, Standing, Exchanged
  <2>2. Untouched'
    BY <1>1, <1>3, <1>4 DEF EvidenceInv, Untouched, Abroad, Before
  <2> QED BY <2>1, <2>2
<1>8. Staged' /\ Sends' /\ Talks'
  BY <1>1, <1>2, <1>4, Names DEF Staged, Sends, Talks, Talking, Inside
<1> QED BY <1>6, <1>7, <1>8 DEF EvidenceInv

\* Part 11.  The cluster, and the continuation behind the fence.

\* Only the cluster has moved.
LEMMA ClusterStep ==
  ASSUME EvidenceInv, IInv', UNCHANGED <<box, store, lost, sent, disk, run, time>>,
         world' \in Worlds, Standing',
         \A c \in Operations : \A i \in DOMAIN Effects[c] :
           Abroad(c, i) => Before(Effects[c][i], world')
  PROVE  EvidenceInv'
<1>1. Typed' /\ Exchanged'
  BY DEF EvidenceInv, Typed, Exchanged, Completed
<1>2. Untouched'
  BY DEF EvidenceInv, Untouched, Abroad, Before
<1> QED BY <1>1, <1>2, OnlyOthers

\* A request whose object did not move finds it as it was.
LEMMA StillBefore ==
  ASSUME NEW e \in EffectNames, NEW w, NEW v, Before(e, w),
         v.flux = w.flux, v.policy = w.policy, v.code = w.code, v.config = w.config,
         v.role = w.role, v.restarts = w.restarts,
         e = "scale-zero" \/ e = "review-deployment" => v.deploy = w.deploy,
         e = "drop-initializer" => v.init = w.init,
         v.worker \in Alive <=> w.worker \in Alive
  PROVE  Before(e, v)
BY ZenonT(60) DEF Before

LEMMA FluxEvidence == ASSUME EvidenceInv, IInv', FluxBegins \/ FluxApplies \/ Merge PROVE EvidenceInv'
<1>1. UNCHANGED <<box, store, lost, sent, disk, run, time>>
  BY DEF FluxBegins, FluxApplies, Merge, Becomes
<1>2. world \in Worlds /\ Standing /\ Completed \in 0..9
  BY DEF EvidenceInv, Typed
<1>3. /\ disk.child["fence"].n \in {disk.child["fence"].k, disk.child["fence"].k + 1}
      /\ disk.child["fence"].k \in Nat /\ disk.child["restore"].n \in Nat
  BY Counters, Names DEF EvidenceInv
<1>4. CASE FluxBegins
  <2>1. world' = [world EXCEPT !.busy = world.main] /\ world.flux = "active" /\ world.busy = "no"
    BY <1>4 DEF FluxBegins, Becomes, Quiet
  <2>2. /\ world' \in Worlds /\ world'.busy = world.main
        /\ world'.flux = world.flux /\ world'.main = world.main /\ world'.deploy = world.deploy
        /\ world'.src = world.src /\ world'.init = world.init /\ world'.worker = world.worker
        /\ world'.policy = world.policy /\ world'.code = world.code /\ world'.config = world.config
        /\ world'.role = world.role /\ world'.runtime = world.runtime
        /\ world'.restarts = world.restarts /\ world.main \in {"source", "target"}
    BY <1>2, <2>1 DEF Worlds
  <2>3. disk.child["fence"].n >= 2 => world.main = "target"
    BY <1>2, <1>3, <2>1 DEF Standing
  <2>4. disk.child["restore"].n = 0 => world.main = "source"
    BY <1>2, <2>1 DEF Standing
  <2>5. Standing'
    BY <1>1, <1>2, <2>1, <2>2, <2>3, <2>4 DEF Standing, Completed
  <2>6. ASSUME NEW c \in Operations, NEW i \in DOMAIN Effects[c], Abroad(c, i)
        PROVE  Before(Effects[c][i], world')
    BY <2>2, <2>6, Standings, Asked, StillBefore
  <2> QED BY <1>1, <2>2, <2>5, <2>6, ClusterStep
<1>5. CASE FluxApplies /\ world.busy = "source"
  <2>1. world.deploy = "source" /\ world.src = "running"
    BY <1>2, <1>3, <1>5 DEF Standing
  <2>2. world' = [world EXCEPT !.busy = "no", !.applied = "source", !.deploy = "source",
                               !.src = "running", !.runtime = "absent"]
    BY <1>2, <1>5, <2>1 DEF FluxApplies, Becomes, Worlds
  <2>3. /\ world' \in Worlds /\ world'.busy = "no"
        /\ world'.flux = world.flux /\ world'.main = world.main /\ world'.deploy = world.deploy
        /\ world'.src = world.src /\ world'.init = world.init /\ world'.worker = world.worker
        /\ world'.policy = world.policy /\ world'.code = world.code /\ world'.config = world.config
        /\ world'.role = world.role /\ world'.runtime = "absent"
        /\ world'.restarts = world.restarts
    BY <1>2, <2>1, <2>2 DEF Worlds
  <2>4. Standing'
    BY <1>1, <1>2, <2>1, <2>3 DEF Standing, Completed
  <2>5. ASSUME NEW c \in Operations, NEW i \in DOMAIN Effects[c], Abroad(c, i)
        PROVE  Before(Effects[c][i], world')
    BY <2>3, <2>5, Standings, Asked, StillBefore
  <2> QED BY <1>1, <2>3, <2>4, <2>5, ClusterStep
<1>6. CASE FluxApplies /\ world.busy = "target"
  <2>1. disk.child["restore"].n > 0
    BY <1>2, <1>3, <1>6 DEF Standing
  <2>2. Completed >= 8
    <3>1. "restore" \in Children /\ Rank("restore") = 8
      BY Names, Ranks
    <3> QED BY <2>1, <3>1 DEF EvidenceInv, Counted
  <2>3. disk.child["fence"].k = 2
    <3>1. "fence" \in Deciding /\ "fence" \in Operations
      BY OperationNames
    <3>2. disk.child["fence"].status = "done"
      BY <1>2, <2>2, <3>1, Ranks DEF EvidenceInv, Counted
    <3> QED BY <3>1, <3>2, Lengths DEF EvidenceInv, Counted
  <2>4. world' = [world EXCEPT !.busy = "no", !.applied = "target", !.deploy = "successor"]
    <3>1. world' = [world EXCEPT !.busy = "no", !.applied = "target", !.deploy = "successor",
                                 !.src = world.src, !.runtime = world.runtime]
      BY <1>2, <1>6 DEF FluxApplies, Becomes, Worlds
    <3> QED BY <1>2, <3>1 DEF Worlds
  <2>5. /\ world' \in Worlds /\ world'.busy = "no" /\ world'.deploy = "successor"
        /\ world'.flux = world.flux /\ world'.main = world.main
        /\ world'.src = world.src /\ world'.init = world.init /\ world'.worker = world.worker
        /\ world'.policy = world.policy /\ world'.code = world.code /\ world'.config = world.config
        /\ world'.role = world.role /\ world'.runtime = world.runtime
        /\ world'.restarts = world.restarts
    BY <1>2, <2>4 DEF Worlds
  <2>6. Standing'
    BY <1>1, <1>2, <1>3, <2>2, <2>3, <2>5 DEF Standing, Completed
  <2>7. ASSUME NEW c \in Operations, NEW i \in DOMAIN Effects[c], Abroad(c, i)
        PROVE  Before(Effects[c][i], world')
    <3> DEFINE e == Effects[c][i]
    <3>1. Before(e, world) /\ disk.child[c].k = i - 1 /\ e \in EffectNames /\ Asks(c, i, e)
      BY <2>7, Standings, Asked
    <3> HIDE DEF e
    <3>2. ~(c = "fence" /\ i = 2)
      BY <2>3, <3>1
    <3>3. ~(c = "start" /\ i = 3)
      <4>1. SUFFICES ASSUME c = "start", i = 3 PROVE FALSE
        OBVIOUS
      <4>2. Completed <= 6
        BY <3>1, <4>1, InItsStage, Lengths, Ranks, OperationNames
      <4> QED BY <1>2, <2>2, <4>2
    <3>4. e # "scale-zero" /\ e # "review-deployment"
      BY <3>1, <3>2, <3>3 DEF Asks
    <3>5. Before(e, world')
      BY <2>5, <3>1, <3>4, StillBefore
    <3> QED BY <3>5 DEF e
  <2> QED BY <1>1, <2>5, <2>6, <2>7, ClusterStep
<1>7. CASE Merge
  <2>1. world' = [world EXCEPT !.main = "target"] /\ world.flux = "suspended"
    BY <1>7 DEF Merge, Becomes
  <2>2. /\ world' \in Worlds /\ world'.busy = world.busy /\ world'.main = "target"
        /\ world'.flux = world.flux /\ world'.deploy = world.deploy
        /\ world'.src = world.src /\ world'.init = world.init /\ world'.worker = world.worker
        /\ world'.policy = world.policy /\ world'.code = world.code /\ world'.config = world.config
        /\ world'.role = world.role /\ world'.runtime = world.runtime
        /\ world'.restarts = world.restarts
    BY <1>2, <2>1 DEF Worlds
  <2>3. Standing'
    BY <1>1, <1>2, <2>1, <2>2 DEF Standing, Completed
  <2>4. ASSUME NEW c \in Operations, NEW i \in DOMAIN Effects[c], Abroad(c, i)
        PROVE  Before(Effects[c][i], world')
    BY <2>2, <2>4, Standings, Asked, StillBefore
  <2> QED BY <1>1, <2>2, <2>3, <2>4, ClusterStep
<1>8. FluxApplies => world.busy \in {"source", "target"}
  BY <1>2 DEF FluxApplies, Quiet, Worlds
<1> QED BY <1>4, <1>5, <1>6, <1>7, <1>8

\* What the Pods do when they follow their Deployments.
LEMMA PodsEvidence == ASSUME EvidenceInv, IInv', PodsFollow PROVE EvidenceInv'
<1>1. UNCHANGED <<box, store, lost, sent, disk, run, time>>
  BY Zenon DEF PodsFollow, Becomes
<1>2. world \in Worlds /\ Standing /\ Completed \in 0..9
  BY DEF EvidenceInv, Typed
<1>3. \/ /\ world.deploy # "source" /\ world.src \in {"running", "again"}
         /\ world' = [world EXCEPT !.src = "unmounting"]
      \/ world.src = "unmounting" /\ world' = [world EXCEPT !.src = "gone"]
      \/ world.init = "unmounting" /\ world' = [world EXCEPT !.init = "gone"]
      \/ /\ world.worker \in {"starting", "running"}
         /\ world' = [world EXCEPT !.worker = "running"] \/ world' = [world EXCEPT !.worker = "dead"]
      \/ world.worker = "unmounting" /\ world' = [world EXCEPT !.worker = "gone"]
      \/ world.deploy = "successor" /\ world' = [world EXCEPT !.runtime = "ready"]
  BY DEF PodsFollow, Becomes
<1>4. /\ world' \in Worlds /\ world'.busy = world.busy /\ world'.main = world.main
      /\ world'.flux = world.flux /\ world'.deploy = world.deploy
      /\ world'.policy = world.policy /\ world'.code = world.code /\ world'.config = world.config
      /\ world'.role = world.role /\ world'.restarts = world.restarts
      /\ world'.init = world.init \/ (world.init = "unmounting" /\ world'.init = "gone")
      /\ world'.worker \in Alive <=> world.worker \in Alive
      /\ world.worker = "gone" => world'.worker = "gone"
      /\ world'.runtime = world.runtime \/ world.deploy = "successor"
      /\ \/ world'.src = world.src
         \/ /\ world.deploy # "source" \/ world.src = "unmounting"
            /\ world'.src \in {"unmounting", "gone"} /\ world.src # "gone"
  <2>1. CASE /\ world.deploy # "source" /\ world.src \in {"running", "again"}
             /\ world' = [world EXCEPT !.src = "unmounting"]
    BY <1>2, <2>1 DEF Worlds
  <2>2. CASE world.src = "unmounting" /\ world' = [world EXCEPT !.src = "gone"]
    BY <1>2, <2>2 DEF Worlds
  <2>3. CASE world.init = "unmounting" /\ world' = [world EXCEPT !.init = "gone"]
    BY <1>2, <2>3 DEF Worlds
  <2>4. CASE /\ world.worker \in {"starting", "running"}
             /\ world' = [world EXCEPT !.worker = "running"] \/ world' = [world EXCEPT !.worker = "dead"]
    BY <1>2, <2>4 DEF Worlds, Alive
  <2>5. CASE world.worker = "unmounting" /\ world' = [world EXCEPT !.worker = "gone"]
    BY <1>2, <2>5 DEF Worlds, Alive
  <2>6. CASE world.deploy = "successor" /\ world' = [world EXCEPT !.runtime = "ready"]
    BY <1>2, <2>6 DEF Worlds
  <2> QED BY <1>3, <2>1, <2>2, <2>3, <2>4, <2>5, <2>6
<1>5. Standing'
  BY <1>1, <1>2, <1>4 DEF Standing, Completed
<1>6. ASSUME NEW c \in Operations, NEW i \in DOMAIN Effects[c], Abroad(c, i)
      PROVE  Before(Effects[c][i], world')
  <2> DEFINE e == Effects[c][i]
  <2>1. Before(e, world) /\ e \in EffectNames
    BY <1>6, Standings, Asked
  <2> HIDE DEF e
  <2>2. e = "drop-initializer" => world'.init = world.init
    BY <1>4, <2>1 DEF Before
  <2>3. Before(e, world')
    BY <1>4, <2>1, <2>2, StillBefore
  <2> QED BY <2>3 DEF e
<1> QED BY <1>1, <1>4, <1>5, <1>6, ClusterStep

LEMMA ContinueEvidence == ASSUME EvidenceInv, IInv', ContinueFenced PROVE EvidenceInv'
<1> DEFINE p == [file |-> "here", completed |-> 2, pending |-> FALSE, status |-> "reserved"]
           h == [c \in Children |-> IF c \in Carried THEN disk.child[c] ELSE NoChild]
           o == [m \in Modes |-> NoCommand]
<1>1. /\ run.pc = "off" /\ time.plan = "between" /\ UNCHANGED <<store, run>>
      /\ disk' = [disk EXCEPT !.parent = p, !.child = h, !.command = o, !.backup = "none"]
      /\ time' = [time EXCEPT !.plan = "continued"]
      /\ world' = [world EXCEPT !.worker = "absent"] /\ box' = EmptyBox
      /\ lost' = {r \in lost : r[1] \in Carried}
      /\ sent' = [r \in Requests |-> IF r[1] \in Carried THEN sent[r] ELSE 0]
  BY DEF ContinueFenced, Point
<1>2. Completed = 2 /\ run.child = "none"
  BY <1>1 DEF EvidenceInv, Staged
<1>3. Carried \subseteq Operations /\ Carried \subseteq Children /\ Operations \subseteq Children
      /\ Stages \subseteq Children /\ Deciding \subseteq Children
  BY OperationNames DEF Carried
<1>4. /\ \A c \in Children : h[c] = IF c \in Carried THEN disk.child[c] ELSE NoChild
      /\ \A m \in Modes : ~o[m].result
  BY DEF NoCommand
<1> HIDE DEF h, o
<1>5. /\ disk'.child = h /\ disk'.command = o /\ disk'.released = disk.released
      /\ disk'.backup = "none" /\ Completed' = 2
  BY <1>1, Kinds DEF Disks, Completed
<1>6. /\ world \in Worlds /\ world' \in Worlds /\ world'.worker = "absent"
      /\ world'.busy = world.busy /\ world'.main = world.main
      /\ world'.flux = world.flux /\ world'.deploy = world.deploy
      /\ world'.src = world.src /\ world'.init = world.init
      /\ world'.runtime = world.runtime /\ world'.restarts = world.restarts
  BY <1>1 DEF EvidenceInv, Typed, Worlds
<1>7. time' \in Times /\ time'.plan = "continued"
  BY <1>1 DEF EvidenceInv, Typed, Times
<1>8. ASSUME NEW c PROVE Rank(c)' = Rank(c)
  BY DEF Rank
<1>9. NoChild.n = 0 /\ NoChild.k = 0 /\ NoChild.status = "reserved"
  BY DEF NoChild
<1>10. Typed'
  BY <1>1, <1>5, <1>6, <1>7 DEF EvidenceInv, Typed, Boxes, EmptyBox
<1>11. Staged' /\ Sends' /\ Talks'
  BY <1>1, <1>2, <1>7 DEF Staged, Sends, Talks, Talking, Inside
<1>12. Counted'
  <2>1. \A c \in Children : h[c].n > 0 => 2 >= Rank(c)
    BY <1>2, <1>4, <1>9 DEF EvidenceInv, Counted
  <2>2. h["expired"].n = 0
    BY <1>4, <1>9, Names DEF Carried
  <2>3. \A c \in Operations : h[c].k <= Len(Effects[c]) /\ (h[c].status = "done" => h[c].k = Len(Effects[c]))
    <3>1. SUFFICES ASSUME NEW c \in Operations
                   PROVE  h[c].k <= Len(Effects[c]) /\ (h[c].status = "done" => h[c].k = Len(Effects[c]))
      OBVIOUS
    <3>2. CASE c \in Carried
      BY <1>3, <1>4, <3>2 DEF EvidenceInv, Counted
    <3>3. CASE c \notin Carried
      <4>1. h[c] = NoChild
        BY <1>3, <1>4, <3>3
      <4> DEFINE l == Len(Effects[c])
      <4>2. l \in 1..3
        BY Lengths
      <4> HIDE DEF l
      <4>3. 0 <= l
        BY <4>2
      <4> QED BY <1>9, <4>1, <4>3 DEF l
    <3> QED BY <3>2, <3>3
  <2>4. \A c \in Stages : h[c].n = 0
    BY <1>3, <1>4, <1>9 DEF EvidenceInv, Counted
  <2>5. \A c \in Deciding : 2 > Rank(c) => h[c].status = "done"
    <3>1. SUFFICES ASSUME NEW c \in Deciding, 2 > Rank(c) PROVE h[c].status = "done"
      OBVIOUS
    <3>2. c \in Carried
      BY <3>1, Ranks, OperationNames DEF Carried
    <3> QED BY <1>2, <1>3, <1>4, <3>1, <3>2 DEF EvidenceInv, Counted
  <2> QED BY <1>2, <1>5, <1>8, <2>1, <2>2, <2>3, <2>4, <2>5 DEF EvidenceInv, Counted
<1>13. Untouched'
  <2>1. ASSUME NEW c \in Operations, NEW i \in DOMAIN Effects[c], Abroad(c, i)'
        PROVE  h[c].n = i /\ h[c].k = i - 1 /\ Before(Effects[c][i], world')
    <3> DEFINE e == Effects[c][i]
    <3>1. <<c, i>> \in lost /\ c \in Carried
      BY <1>1, <2>1 DEF Abroad
    <3>2. h[c] = disk.child[c]
      BY <1>3, <1>4, <3>1
    <3>3. disk.child[c].n = i /\ disk.child[c].k = i - 1 /\ Before(e, world)
          /\ Asks(c, i, e) /\ e \in EffectNames
      BY <3>1, Standings, Asked DEF Abroad
    <3> HIDE DEF e
    <3>4. e \in {"suspend", "scale-zero", "drop-initializer"}
      BY <3>1, <3>3 DEF Asks, Carried
    <3>5. Before(e, world')
      BY <1>6, <3>3, <3>4 DEF Before
    <3> QED BY <3>2, <3>3, <3>5 DEF e
  <2>2. ASSUME NEW r \in lost' PROVE sent'[r] >= 1
    <3>1. r \in lost /\ r[1] \in Carried /\ r \in Requests
      BY <1>1 DEF EvidenceInv, Typed
    <3>2. sent'[r] = sent[r]
      BY <1>1, <3>1
    <3> QED BY <3>1, <3>2 DEF EvidenceInv, Untouched
  <2> QED BY <1>5, <2>1, <2>2 DEF Untouched, Before
<1>14. Standing'
  <2>1. "fence" \in Carried /\ h["fence"] = disk.child["fence"]
    BY <1>4, Names DEF Carried
  <2>2. h["restore"] = NoChild /\ h["start"] = NoChild /\ h["restart"] = NoChild
    BY <1>4, Names DEF Carried
  <2>3. disk.child["restore"].n = 0
    BY <1>2, Resting
  <2>4. "absent" \notin Alive
    BY DEF Alive
  <2> QED BY <1>2, <1>5, <1>6, <1>9, <2>1, <2>2, <2>3, <2>4 DEF EvidenceInv, Standing
<1>15. Exchanged'
  <2>1. "activate" \in Modes
    BY DEF Modes
  <2>2. h["activate-migration"] = NoChild /\ h["verify-backup"] = NoChild
    BY <1>4, Names DEF Carried
  <2>3. box'.request["activate"] = "none"
    BY <1>1, <2>1 DEF EmptyBox
  <2>4. ~(store' = "activated" \/ <<"invoke", "activate">> \in lost')
    BY <1>1, <1>2 DEF EvidenceInv, Exchanged
  <2> QED BY <1>4, <1>5, <1>9, <2>1, <2>2, <2>3, <2>4 DEF Exchanged
<1> QED BY <1>10, <1>11, <1>12, <1>13, <1>14, <1>15 DEF EvidenceInv

\* Part 12.  The theorems.

LEMMA InitEvidence == Init => EvidenceInv
<1> SUFFICES ASSUME Init PROVE EvidenceInv
  OBVIOUS
<1>1. IInv
  BY InitInv
<1>2. /\ disk.parent.completed = 0 /\ disk.released = {} /\ disk.backup = "none"
      /\ disk.child = [c \in Children |-> NoChild] /\ disk.command = [m \in Modes |-> NoCommand]
      /\ run = Off /\ lost = {} /\ box = EmptyBox /\ store = "empty"
      /\ time = [open |-> TRUE, plan |-> "first", tail |-> FALSE]
  BY DEF Init
<1>3. world = [flux |-> "active", busy |-> "no", main |-> "source", applied |-> "source",
               deploy |-> "source", src |-> "running", init |-> "running",
               policy |-> FALSE, code |-> FALSE, worker |-> "absent",
               config |-> FALSE, role |-> FALSE, runtime |-> "absent", restarts |-> 0]
  BY DEF Init
<1>4. Completed = 0
  BY <1>2 DEF Completed
<1>5. \A c \in Children : disk.child[c] = NoChild
  BY <1>2
<1>6. NoChild.n = 0 /\ NoChild.k = 0 /\ NoChild.status = "reserved"
  BY DEF NoChild
<1>7. run.pc = "off" /\ run.child = "none"
  BY <1>2 DEF Off
<1>8. Typed
  BY <1>2, <1>3, <1>4 DEF Typed, Worlds, Boxes, Times, EmptyBox
<1>9. Staged /\ Sends /\ Talks
  BY <1>2, <1>7 DEF Staged, Sends, Talks, Talking, Inside
<1>10. Counted
  <2>1. ASSUME NEW c \in Operations PROVE 0 <= Len(Effects[c])
    <3> DEFINE l == Len(Effects[c])
    <3>1. l \in 1..3
      BY Lengths
    <3> HIDE DEF l
    <3>2. 0 <= l
      BY <3>1
    <3> QED BY <3>2 DEF l
  <2>2. Operations \subseteq Children /\ Stages \subseteq Children /\ "expired" \in Children
    BY OperationNames
  <2>3. ASSUME NEW c \in Children PROVE ~(disk.child[c].n > 0) /\ disk.child[c].status # "done"
    BY <1>5, <1>6
  <2>4. \A c \in Operations : disk.child[c].k <= Len(Effects[c])
    BY <1>5, <1>6, <2>1, <2>2
  <2>5. \A c \in Deciding : ~(Completed > Rank(c))
    <3>1. \A c \in Deciding : Rank(c) \in 0..8
      BY Ranks, OperationNames
    <3> QED BY <1>4, <3>1
  <2> QED BY <1>2, <1>4, <1>5, <1>6, <2>2, <2>3, <2>4, <2>5 DEF Counted
<1>11. Untouched
  BY <1>2, <1>7 DEF Untouched, Abroad
<1>12. Standing
  BY <1>2, <1>3, <1>5, <1>6, Names DEF Standing, Alive
<1>13. Exchanged
  <2>1. "activate" \in Modes
    BY DEF Modes
  <2>2. ~disk.command["activate"].result /\ box.request["activate"] = "none"
    BY <1>2, <2>1 DEF NoCommand, EmptyBox
  <2> QED BY <1>2, <1>5, <1>6, <2>2, Names DEF Exchanged
<1> QED BY <1>1, <1>8, <1>9, <1>10, <1>11, <1>12, <1>13 DEF EvidenceInv

LEMMA Unmoved == ASSUME EvidenceInv, IInv', UNCHANGED vars PROVE EvidenceInv'
<1>1. UNCHANGED <<world, box, store, lost, sent, disk, run, time>>
  BY DEF vars
<1>2. Typed' /\ Untouched' /\ Standing' /\ Exchanged'
  BY <1>1 DEF EvidenceInv, Typed, Untouched, Standing, Exchanged, Abroad, Before, Completed
<1> QED BY <1>1, <1>2, OnlyOthers

LEMMA NextEvidence == EvidenceInv /\ [Next]_vars => EvidenceInv'
<1> SUFFICES ASSUME EvidenceInv, [Next]_vars PROVE EvidenceInv'
  OBVIOUS
<1>0. IInv'
  BY NextInv DEF EvidenceInv
<1>1. CASE Coordinate
  BY <1>0, <1>1, LaunchEvidence, BeginEvidence, IntendEvidence, RecoverEvidence, RecordEvidence,
     AwaitEvidence, RaisedEvidence DEF Coordinate
<1>2. CASE Drive
  BY <1>0, <1>2, OpenChildEvidence, BeginChildEvidence, ReleaseSourceEvidence, WorkerReadyEvidence,
     SendEvidence, SeeEvidence DEF Drive
<1>3. CASE Advance
  BY <1>0, <1>3, OperationEvidence, AdvanceStageEvidence DEF Advance
<1>4. CASE Exchange
  BY <1>0, <1>4, BeginCommandEvidence, UploadIntentEvidence, UploadEvidence, InvokeIntentEvidence,
     InvokeEvidence, AnswerEvidence, NoAnswerEvidence, BackupEvidence, RestoreEvidence,
     StageDoneEvidence DEF Exchange
<1>5. CASE Fault
  BY <1>0, <1>5, StopEvidence, CrashEvidence, ServeLateEvidence, ClockEvidence DEF Fault
<1>6. CASE Cluster
  BY <1>0, <1>6, FluxEvidence, PodsEvidence DEF Cluster
<1>7. CASE Recovery
  BY <1>0, <1>7, ClockEvidence, StartExpiredEvidence, OperationEvidence, CrashEvidence,
     ContinueEvidence DEF Recovery
<1>8. CASE UNCHANGED vars
  BY <1>0, <1>8, Unmoved
<1> QED BY <1>1, <1>2, <1>3, <1>4, <1>5, <1>6, <1>7, <1>8 DEF Next

\* The counters stay within the requests of their operation.
LEMMA TypesHold == EvidenceInv => TypeOK
<1> SUFFICES ASSUME EvidenceInv PROVE TypeOK
  OBVIOUS
<1>1. Typed
  BY DEF EvidenceInv
<1>2. ASSUME NEW c \in Children
      PROVE  /\ disk.child[c].n \in disk.child[c].k..(disk.child[c].k + 1)
             /\ disk.child[c].k \in 0..3
  <2> DEFINE n == disk.child[c].n
             k == disk.child[c].k
             l == Len(Effects[c])
  <2>1. n \in Nat /\ k \in Nat /\ n \in {k, k + 1}
    BY Counters DEF EvidenceInv
  <2>2. k <= 3
    <3>1. CASE c \in Operations
      <4>1. l \in 1..3 /\ k <= l
        BY <3>1, Lengths DEF EvidenceInv, Counted
      <4> HIDE DEF l, k
      <4> QED BY <2>1, <4>1
    <3>2. CASE c \in Stages
      <4>1. n = 0
        BY <3>2 DEF EvidenceInv, Counted
      <4> QED BY <2>1, <4>1
    <3> QED BY <3>1, <3>2, OperationNames
  <2> HIDE DEF n, k
  <2>3. n \in k..(k + 1) /\ k \in 0..3
    BY <2>1, <2>2
  <2> QED BY <2>3 DEF n, k
<1> QED BY <1>1, <1>2 DEF Typed, Worlds, TypeOK, Completed

\* What has been seen and nothing can take back is what the stages claim.
LEMMA RecordsTell == EvidenceInv => EvidenceIsTrue
<1> SUFFICES ASSUME EvidenceInv PROVE EvidenceIsTrue
  OBVIOUS
<1>1. Standing /\ Exchanged /\ Completed \in 0..9
  BY DEF EvidenceInv, Typed
<1>2. \A c \in Deciding : Completed > Rank(c) => disk.child[c].status = "done"
  BY DEF EvidenceInv, Counted
<1>3. \A c \in Operations : disk.child[c].status = "done" => disk.child[c].k = Len(Effects[c])
  BY DEF EvidenceInv, Counted
<1>4. FenceHolds
  <2>1. Completed >= 1 => world.deploy # "source"
    <3>1. "fence" \in Deciding /\ "fence" \in Operations
      BY OperationNames
    <3>2. Completed >= 1 => disk.child["fence"].status = "done"
      BY <1>1, <1>2, <3>1, Ranks
    <3>3. Completed >= 1 => disk.child["fence"].k = 2
      BY <1>3, <3>1, <3>2, Lengths
    <3> QED BY <1>1, <3>3 DEF Standing
  <2>2. Completed \in 1..7 => world.flux = "suspended" /\ Quiet
    BY Resting DEF Quiet
  <2> QED BY <1>1, <2>1, <2>2 DEF FenceHolds, Standing
<1>5. BackupComesFirst
  <2>1. "verify-backup" \in Deciding /\ "activate-migration" \in Deciding
    BY OperationNames
  <2>2. /\ Completed >= 3 => disk.child["verify-backup"].status = "done"
        /\ Completed >= 5 => disk.child["activate-migration"].status = "done"
    BY <1>1, <1>2, <2>1, Ranks
  <2> QED BY <1>1, <2>2 DEF BackupComesFirst, Exchanged
<1>6. StoresPassOn
  <2>1. "start" \in Deciding /\ "restart" \in Deciding /\ "restore" \in Deciding
        /\ "start" \in Operations /\ "restart" \in Operations /\ "restore" \in Operations
        /\ "restore" \in Children
    BY OperationNames
  <2>2. /\ Completed >= 7 => disk.child["start"].k = 3
        /\ Completed >= 8 => disk.child["restart"].k = 1
        /\ Completed = 9 => disk.child["restore"].k = 1
    <3>1. /\ Completed >= 7 => disk.child["start"].status = "done"
          /\ Completed >= 8 => disk.child["restart"].status = "done"
          /\ Completed = 9 => disk.child["restore"].status = "done"
      BY <1>1, <1>2, <2>1, Ranks
    <3> QED BY <1>3, <2>1, <3>1, Lengths
  <2>3. Completed = 9 => disk.child["restore"].n >= 1
    BY <2>1, <2>2, Counters DEF EvidenceInv
  <2>4. /\ Completed >= 2 => "source" \in disk.released
        /\ Completed >= 6 => "migration" \in disk.released
    BY DEF EvidenceInv, Counted
  <2> QED BY <1>1, <2>2, <2>3, <2>4 DEF StoresPassOn, Standing
<1> QED BY <1>4, <1>5, <1>6 DEF EvidenceIsTrue

\* The migration keeps to its domains, and no operation claims to have seen
\* more than it has recorded, nor more than its requests (run_effects).
THEOREM MigrationTypes == Spec => []TypeOK
<1> QED BY InitEvidence, NextEvidence, TypesHold, PTL DEF Spec

\* What the recorded stages say is true of the cluster and of both stores at
\* every moment (advance_review_handover): the fence holds until the successor
\* is verified, the activation comes after a restored backup and a recorded
\* preparation, and the stores pass from Pod to Pod, through lost answers,
\* crashes, a closing window and the continuation behind the fence.
THEOREM RecordsAreTrue == Spec => []EvidenceIsTrue
<1> QED BY InitEvidence, NextEvidence, RecordsTell, PTL DEF Spec
=============================================================================
