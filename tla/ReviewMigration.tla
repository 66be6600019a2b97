--------------------------- MODULE ReviewMigration ---------------------------
\* The review migration (case_review_handover.py,
\* run-case-review-migration.mjs): nine ordered stages move the Case from
\* its source store to a successor store.  The coordinator
\* (advance_review_handover) records an intent before each stage and
\* evidence after it; the driver journals a checkpoint file for every
\* attempt of a child operation before it runs it; each child records an
\* intent before every request it sends, sends it once, and afterwards
\* only looks.  Every pass ends in evidence, in "waiting" or in a stop,
\* and a later pass resumes from the files.  Recovery after the reviewed
\* window has closed is part of the model: ExpiredReviewSetupRecovery
\* before the backup, the finalization window after the migration.
\*
\* Faults: any answer lost, its request served late or never; a stop or a
\* crash between any two steps; a failing commit of the stop itself; Flux
\* working from what it read before it was suspended; a worker that dies
\* or spoils a result; the window closing at any moment.
EXTENDS Integers, Sequences

Steps == <<"fence-source", "release-mounts", "verify-backup",
           "prepare-migration", "activate-migration", "release-migration",
           "start-review-runtime", "verify-review-runtime", "restore-gitops">>

\* The requests of each child operation, in its order; "expired" is the
\* retirement of ExpiredReviewSetupRecovery.
Effects ==
  [fence |-> <<"suspend", "scale-zero">>, initializer |-> <<"drop-initializer">>,
   create |-> <<"policy", "code", "pod">>,
   retire |-> <<"drop-pod", "drop-code", "drop-policy">>,
   expired |-> <<"drop-pod", "drop-code", "drop-policy">>,
   start |-> <<"review-config", "review-role", "review-deployment">>,
   restart |-> <<"terminate">>, restore |-> <<"resume">>]

Modes == {"capture-backup", "verify-backup", "prepare", "activate"}
Stages == {"verify-backup", "prepare-migration", "activate-migration"}
Children == DOMAIN Effects \cup Stages
FirstMode == [s \in Stages |-> CASE s = "verify-backup" -> "capture-backup"
                                 [] s = "prepare-migration" -> "prepare"
                                 [] s = "activate-migration" -> "activate"]

\* A request is the i-th one of a child operation, or one to the worker.
Requests == (UNION {{<<c, i>> : i \in DOMAIN Effects[c]} : c \in DOMAIN Effects})
              \cup {<<"invoke", m>> : m \in Modes} \cup {<<"upload", "verify-backup">>}

VARIABLES
  world,  \* the cluster
  box,    \* the worker's private directory
  store,  \* the successor store: "empty" or "activated"
  lost,   \* requests whose answer was lost and that may still be served
  sent,   \* how often each request was sent
  disk,   \* the journal, the checkpoints and the backup directory on disk
  run,    \* the running process
  time    \* the reviewed window

vars == <<world, box, store, lost, sent, disk, run, time>>

NoChild == [file |-> "none", n |-> 0, k |-> 0, status |-> "reserved"]
NoCommand == [file |-> "none", upload |-> FALSE, invoke |-> FALSE,
              result |-> FALSE, status |-> "reserved"]
EmptyBox == [archive |-> FALSE, request |-> [m \in Modes |-> "none"]]
Off == [pc |-> "off", call |-> "none", child |-> "none", mode |-> "none"]

Init ==
  /\ world = [flux |-> "active", busy |-> "no", main |-> "source", applied |-> "source",
              deploy |-> "source", src |-> "running", init |-> "running",
              policy |-> FALSE, code |-> FALSE, worker |-> "absent",
              config |-> FALSE, role |-> FALSE, runtime |-> "absent", restarts |-> 0]
  /\ box = EmptyBox /\ store = "empty" /\ lost = {}
  /\ sent = [r \in Requests |-> 0]
  /\ disk = [parent |-> [file |-> "none", completed |-> 0, pending |-> FALSE, status |-> "reserved"],
             child |-> [c \in Children |-> NoChild],
             command |-> [m \in Modes |-> NoCommand],
             released |-> {}, backup |-> "none"]
  /\ run = Off
  /\ time = [open |-> TRUE, plan |-> "first", tail |-> FALSE]

-----
\* The cluster, as the requests and the observations see it.

Alive == {"starting", "running", "dead"}   \* a worker Pod the API still lists

\* Whether the object of a request is still as it was before it, or as it is
\* after it; anything else is drift.
At(e) ==
  LET to(b, a) == IF b THEN "before" ELSE IF a THEN "after" ELSE "drift" IN
  CASE e = "suspend" -> to(world.flux = "active", TRUE)
    [] e = "resume" -> to(world.flux = "suspended", TRUE)
    [] e = "scale-zero" -> to(world.deploy = "source", world.deploy = "zero")
    [] e = "review-deployment" -> to(world.deploy = "zero", world.deploy = "successor")
    [] e = "drop-initializer" -> to(world.init = "running", TRUE)
    [] e = "policy" -> to(~world.policy, TRUE)
    [] e = "code" -> to(~world.code, TRUE)
    [] e = "pod" -> to(world.worker \notin Alive, TRUE)
    [] e = "drop-pod" -> to(world.worker \in Alive, TRUE)
    [] e = "drop-code" -> to(world.code, TRUE)
    [] e = "drop-policy" -> to(world.policy, TRUE)
    [] e = "review-config" -> to(~world.config, TRUE)
    [] e = "review-role" -> to(~world.role, TRUE)
    [] e = "terminate" -> to(world.restarts = 0, world.restarts = 1)

\* The effect of a served request.  Each carries the uid, the resourceVersion
\* or the value it was decided on, so it changes nothing unless it still fits.
Served(e) ==
  CASE e = "suspend" -> [world EXCEPT !.flux = "suspended"]
    [] e = "resume" -> [world EXCEPT !.flux = "active"]
    [] e = "scale-zero" -> [world EXCEPT !.deploy = "zero"]
    [] e = "review-deployment" -> [world EXCEPT !.deploy = "successor"]
    [] e = "drop-initializer" -> [world EXCEPT !.init = "unmounting"]
    [] e = "policy" -> [world EXCEPT !.policy = TRUE]
    [] e = "code" -> [world EXCEPT !.code = TRUE]
    [] e = "pod" -> [world EXCEPT !.worker = "starting"]
    [] e = "drop-pod" -> [world EXCEPT !.worker = "unmounting"]
    [] e = "drop-code" -> [world EXCEPT !.code = FALSE]
    [] e = "drop-policy" -> [world EXCEPT !.policy = FALSE]
    [] e = "review-config" -> [world EXCEPT !.config = TRUE]
    [] e = "review-role" -> [world EXCEPT !.role = TRUE]
    [] e = "terminate" -> [world EXCEPT !.restarts = 1]

\* No reconciliation is in progress: nothing Flux read before it was suspended
\* can still be applied.
Quiet == world.busy = "no"

\* Neither the API nor the node holds the two stores any more; with `worker`
\* the migration worker is one of the Pods that must be gone.
MountsReleased(worker) ==
  /\ world.src = "gone" /\ world.init = "gone" /\ world.runtime = "absent"
  /\ world.worker \in (IF worker THEN {"gone"} ELSE {"absent", "gone"})

\* The worker may be talked to: it runs, and alone holds the fenced stores.
Ownership ==
  /\ world.worker = "running" /\ world.policy /\ world.code
  /\ world.deploy = "zero" /\ world.flux = "suspended" /\ Quiet
  /\ world.src # "running" /\ world.src # "again" /\ world.init # "running" /\ world.runtime = "absent"

\* The successor is the one ready Pod of its Deployment.
RuntimeReady == world.deploy = "successor" /\ world.runtime = "ready"

\* The source controller has observed exactly the successor revision.
TargetObserved == world.main = "target"
-----
\* Readiness: the checks shared by every step.

Completed == disk.parent.completed
Recorded(c, i) == disk.child[c].n >= i

\* The writer and the reconciler are in a state this stage may find them in.
ObjectsReady ==
  /\ world.deploy \in CASE Recorded("start", 3) /\ Completed < 7 -> {"zero", "successor"}
                       [] Completed >= 7 -> {"successor"}
                       [] Completed = 0 /\ Recorded("fence", 2) -> {"source", "zero"}
                       [] Completed = 0 /\ ~Recorded("fence", 2) -> {"source"}
                       [] OTHER -> {"zero"}
  /\ world.flux \in CASE ~Recorded("fence", 1) \/ Completed = 9 -> {"active"}
                     [] Recorded("fence", 1) /\ (Completed = 0 \/ (Completed = 8 /\ Recorded("restore", 1)))
                        -> {"active", "suspended"}
                     [] OTHER -> {"suspended"}

\* Only owned Pods, or a successor Pod after its intent, use the two stores.
StoresReady ==
  /\ world.src # "again"
  /\ world.worker \in Alive => Recorded("create", 3)
  /\ world.runtime # "absent" => Recorded("start", 3)

InWindow ==
  /\ time.open /\ time.plan # "between"
  /\ time.tail => Completed >= 6

Ready == ObjectsReady /\ StoresReady
Fresh == InWindow /\ Ready

\* What the driver observes of a stage: the verified end of its child.
Evidence(s) ==
  LET done(c) == disk.child[c].status = "done" IN
  CASE s = "fence-source" -> done("fence")
    [] s = "release-mounts" -> done("initializer") /\ "source" \in disk.released
    [] s \in Stages -> done(s)
    [] s = "release-migration" -> done("retire") /\ "migration" \in disk.released
    [] s = "start-review-runtime" -> done("start")
    [] s = "verify-review-runtime" -> done("restart")
    [] s = "restore-gitops" -> done("restore")

\* The child operation a stage runs next.
ChildOf(s) ==
  CASE s = "fence-source" -> "fence"
    [] s = "release-mounts" -> "initializer"
    [] s = "verify-backup" -> IF disk.child["create"].status = "done" THEN s ELSE "create"
    [] s \in Stages \ {"verify-backup"} -> s
    [] s = "release-migration" -> "retire"
    [] s = "start-review-runtime" -> "start"
    [] s = "verify-review-runtime" -> "restart"
    [] OTHER -> "restore"

Stage == Steps[Completed + 1]
Goto(pc) == run' = [run EXCEPT !.pc = pc]
Point(pc) == run.pc = pc
Disk(f) == disk' = f /\ UNCHANGED <<world, box, store, lost, sent, time>>
Only(x) == run' = x /\ UNCHANGED <<world, box, store, lost, sent, disk, time>>

-----
\* The driver and the coordinator.

\* A checkpoint that was journalled but never written is unreadable, and every
\* later recovery refuses it.
Readable == disk.parent.file # "missing"
            /\ \A c \in Children : disk.child[c].file # "missing"

\* A new pass: its checkpoint is journalled before it exists.
Launch ==
  /\ Point("off") /\ Readable /\ time.plan # "between"
  /\ Disk([disk EXCEPT !.parent.file = "missing"])
  /\ Goto("reserved")

Begin ==
  /\ Point("reserved")
  /\ Disk([disk EXCEPT !.parent.file = "here"])
  /\ Goto("step")

\* Every completed stage is observed again before the next one is touched.
Verified == \A i \in 1..Completed : Evidence(Steps[i])

Intend ==
  /\ Point("step") /\ Fresh /\ Verified /\ Completed < 9
  /\ ~disk.parent.pending /\ ~Evidence(Stage)
  /\ Disk([disk EXCEPT !.parent.pending = TRUE, !.parent.status = "effect-intent"])
  /\ run' = [run EXCEPT !.pc = "effect", !.call = "perform"]

Recover ==
  /\ Point("step") /\ Fresh /\ Verified /\ Completed < 9 /\ disk.parent.pending
  /\ Only([run EXCEPT !.pc = IF Evidence(Stage) THEN "return" ELSE "effect",
                      !.call = "resume"])

\* perform and resume: the child operation's checkpoint is journalled first.
OpenChild ==
  /\ Point("effect") /\ Fresh
  /\ LET c == ChildOf(Stage) IN
       /\ c \in Stages => world.worker # "absent"
       /\ Disk([disk EXCEPT !.child[c].file = "missing"])
       /\ run' = [run EXCEPT !.pc = "opened", !.child = c, !.mode = "none"]

BeginChild ==
  /\ Point("opened")
  /\ Disk([disk EXCEPT !.child[run.child].file = "here"])
  /\ Goto("look")

\* The proof that the source mounts are gone follows the initializer's removal.
ReleaseSource ==
  /\ Point("return") /\ run.child = "initializer" /\ disk.child["initializer"].status = "done"
  /\ "source" \notin disk.released /\ Fresh /\ MountsReleased(FALSE)
  /\ Disk([disk EXCEPT !.released = @ \cup {"source"}])
  /\ UNCHANGED run

\* A ready worker lets the same pass go on to the backup.
WorkerReady ==
  /\ Point("return") /\ run.child = "create" /\ disk.child["create"].status = "done"
  /\ Only([run EXCEPT !.pc = "effect"])

Record ==
  /\ Point("return") /\ run.child # "expired" /\ Evidence(Stage)
  /\ Disk([disk EXCEPT !.parent =
             [file |-> "here", completed |-> Completed + 1, pending |-> FALSE,
              status |-> IF Completed = 8 THEN "complete" ELSE "reserved"]])
  /\ run' = [Off EXCEPT !.pc = "step"]

Await ==
  /\ Point("return") /\ run.child # "expired" /\ ~Evidence(Stage)
  /\ run.child = "create" => disk.child["create"].status # "done"
  /\ Disk([disk EXCEPT !.parent.status = "awaiting-evidence"])
  /\ run' = Off

Finish ==
  /\ Point("step") /\ Fresh /\ Verified /\ Completed = 9
  /\ Disk([disk EXCEPT !.parent.status = "complete"])
  /\ run' = Off

\* A child raised: perform looks for its evidence, resume stops.
Raised ==
  /\ Point("raised")
  /\ \/ run.call = "perform" /\ Evidence(Stage) /\ Only([run EXCEPT !.pc = "return"])
     \/ /\ ~(run.call = "perform" /\ Evidence(Stage))
        /\ \/ Disk([disk EXCEPT !.parent.status = "stopped-preserve-state"])
           \/ UNCHANGED <<world, box, store, lost, sent, disk, time>>
        /\ run' = Off

-----
\* The protocol every child operation follows.

child == disk.child[run.child]
Todo == Effects[run.child]
More == child.k < Len(Todo)

Save(r) == Disk([disk EXCEPT !.child[run.child] = r])

\* What was observed must still hold.
Kept == \A i \in 1..child.k : At(Todo[i]) = "after"

\* Mutant: the record is only completed with the answer.
IntentAfterAnswer(r) == [r EXCEPT !.status = "intent"]

\* The intent is durable before the request.
RecordIntent(r) == [r EXCEPT !.n = @ + 1, !.status = "intent"]

\* Mutant: nobody asks whether there is a record already.
IntentAgain ==
  At(Todo[child.k + 1]) = "before" /\ Save(RecordIntent(child)) /\ Goto("send")

\* Without a record the object must still be untouched.
Intent ==
  /\ child.n = child.k /\ At(Todo[child.k + 1]) = "before"
  /\ Save(RecordIntent(child)) /\ Goto("send")

\* With a record the object is only looked at; a request is never repeated.
Observe ==
  \/ /\ At(Todo[child.k + 1]) = "after"
     /\ Save([file |-> child.file, n |-> child.k + 1, k |-> child.k + 1, status |-> "reserved"])
     /\ Goto("look")
  \/ /\ At(Todo[child.k + 1]) = "before"
     /\ Save([child EXCEPT !.status = "waiting"]) /\ Goto("return")

Look == Intent \/ (child.n = child.k + 1 /\ Observe)
Wait == Save([child EXCEPT !.status = "waiting"]) /\ Goto("return")
Done == Save([child EXCEPT !.status = "done"]) /\ Goto("return")
Pass(c) == Point("look") /\ run.child = c /\ Fresh /\ Kept

Count(r) == sent' = [sent EXCEPT ![r] = IF @ < 2 THEN @ + 1 ELSE @]

\* One request.  It is served, or its answer is lost and it may be served later.
Send ==
  /\ Point("send") /\ (IF run.child = "expired" THEN time.open ELSE InWindow) /\ Ready
  /\ LET r == <<run.child, child.k + 1>>
         e == Todo[child.k + 1] IN
       /\ Count(r)
       /\ \/ At(e) = "before" /\ world' = Served(e) /\ lost' = lost
          \/ world' = world /\ lost' = lost \cup {r}
  /\ Goto("see") /\ UNCHANGED <<box, store, disk, time>>

\* The one look after the request.
See == Point("see") /\ Observe

\* Mutant: a reconciliation in progress is not waited for.
FenceAtOnce ==
  /\ Pass("fence")
  /\ IF More THEN Look ELSE Done

\* Suspend the reconciler, wait until what it had begun is over, scale the
\* source to zero, and wait again.
AdvanceFence ==
  /\ Pass("fence")
  /\ \/ More /\ (child.k = 1 => Quiet) /\ Look
     \/ (child.k = 1 \/ ~More) /\ ~Quiet /\ Wait
     \/ ~More /\ Quiet /\ Done

\* Only the completed initializer Pod is removed.
AdvanceInitializer ==
  /\ Pass("initializer")
  /\ IF More THEN Look ELSE Done

\* Network policy and code before the Pod, all of them absent at first; ready
\* once the Pod runs.
AdvanceCreation ==
  /\ Pass("create")
  /\ \/ More /\ (child.n = 0 => \A i \in 1..3 : At(Todo[i]) = "before") /\ Look
     \/ ~More /\ world.worker = "running" /\ Done
     \/ ~More /\ world.worker = "starting" /\ Wait

\* The Pod first; its policy and code only once its mounts are gone.
AdvanceRetirement ==
  /\ Pass("retire")
  /\ \/ child.k = 0 /\ Look
     \/ /\ child.k > 0 /\ MountsReleased(TRUE)
        /\ \/ "migration" \notin disk.released /\ Disk([disk EXCEPT !.released = @ \cup {"migration"}])
              /\ UNCHANGED run
           \/ "migration" \in disk.released /\ (IF More THEN Look ELSE Done)
     \/ child.k > 0 /\ ~MountsReleased(TRUE) /\ Wait

\* Configuration, role, Deployment; complete once the successor is ready.  A
\* finalization window may only look.
AdvanceStart ==
  /\ Pass("start")
  /\ time.tail => child.n = 3 /\ child.k = 3
  /\ \/ More /\ Look
     \/ ~More /\ RuntimeReady /\ Done
     \/ ~More /\ ~RuntimeReady /\ Wait

\* One SIGTERM, then the same Pod restarted once.
AdvanceRestart ==
  /\ Pass("restart")
  /\ \/ RuntimeReady /\ (IF More THEN Look ELSE Done)
     \/ ~RuntimeReady /\ Wait

\* GitOps resumes only when the source controller has the successor.
AdvanceRestore ==
  /\ Pass("restore") /\ TargetObserved
  /\ \/ More /\ Look
     \/ ~More /\ world.applied = "target" /\ Quiet /\ RuntimeReady /\ Done
     \/ ~More /\ ~(world.applied = "target" /\ Quiet /\ RuntimeReady) /\ Wait

-----
\* A migration stage: exchanges with the worker's private directory, and
\* for the backup its encryption and restore.

mail == disk.command[run.mode]
Mail(x) == [disk EXCEPT !.command[run.mode] = x]

\* The checkpoint of an exchange is journalled before it exists; a missing one
\* is never passed over.
OpenCommand(m) ==
  /\ disk.command[m].file # "missing"
  /\ Disk([disk EXCEPT !.command[m].file = "missing", !.child[run.child].status = "intent"])
  /\ run' = [run EXCEPT !.pc = "command", !.mode = m]

AdvanceStage ==
  /\ Point("look") /\ run.child \in Stages /\ Fresh
  /\ OpenCommand(FirstMode[run.child])

BeginCommand ==
  /\ Point("command")
  /\ Disk(Mail([mail EXCEPT !.file = "here"])) /\ Goto("upload")

\* The archive is uploaded once; an upload that failed is not noticed here.
UploadIntent ==
  /\ Point("upload") /\ Fresh
  /\ \/ /\ run.mode = "verify-backup" /\ ~mail.upload
        /\ Disk(Mail([mail EXCEPT !.upload = TRUE, !.status = "intent"])) /\ Goto("uploading")
     \/ /\ run.mode # "verify-backup" \/ mail.upload
        /\ Only([run EXCEPT !.pc = "invoke"])

\* The request reaches the worker, is lost, or is never sent.
Exec(r, served) ==
  \/ Fresh /\ Ownership /\ Count(r) /\ served /\ lost' = lost
  \/ Fresh /\ Ownership /\ Count(r) /\ UNCHANGED <<box, store>> /\ lost' = lost \cup {r}
  \/ UNCHANGED <<box, store, lost, sent>>

Upload ==
  /\ Point("uploading")
  /\ Exec(<<"upload", "verify-backup">>, box' = [box EXCEPT !.archive = TRUE] /\ UNCHANGED store)
  /\ Goto("invoke") /\ UNCHANGED <<world, disk, time>>

\* A restore is only asked for once the uploaded archive was read back.
InvokeIntent ==
  /\ Point("invoke")
  /\ run.mode = "verify-backup" => Fresh /\ Ownership /\ box.archive
  /\ \/ ~mail.invoke /\ Disk(Mail([mail EXCEPT !.invoke = TRUE, !.status = "intent"])) /\ Goto("invoking")
     \/ mail.invoke /\ Only([run EXCEPT !.pc = "answer"])

\* The worker reserves a request's directory for good before it works on it:
\* what it has begun it never begins again, even when it failed.
Invoked(m) ==
  /\ \E r \in {"done", "spoilt"} :
       /\ box' = [box EXCEPT !.request[m] = IF @ = "none" THEN r ELSE @]
       /\ m = "verify-backup" /\ box.request[m] = "none" /\ ~box.archive => r = "spoilt"
       /\ store' = IF m = "activate" /\ box'.request[m] = "done" THEN "activated" ELSE store

Invoke ==
  /\ Point("invoking")
  /\ Exec(<<"invoke", run.mode>>, Invoked(run.mode))
  /\ Goto("answer") /\ UNCHANGED <<world, disk, time>>

\* The retained result is collected, in this pass or a later one.
Answer ==
  /\ Point("answer")
  /\ Fresh /\ (mail.result \/ (Ownership /\ box.request[run.mode] = "done"))
  /\ Disk(Mail([mail EXCEPT !.result = TRUE, !.status = "complete"])) /\ Goto("collected")

\* No answer yet: the stage waits.  In the middle of the restore it stops.
NoAnswer ==
  /\ \/ Point("answer") /\ ~mail.result
     \/ Point("invoke") /\ run.mode = "verify-backup"
  /\ IF run.mode = "verify-backup"
     THEN Disk(Mail([mail EXCEPT !.status = "waiting"])) /\ Goto("raising")
     ELSE /\ Disk([disk EXCEPT !.command[run.mode].status = "waiting",
                            !.child[run.child].status = "waiting"])
          /\ Goto("return")

\* Encrypted into a fresh directory, whose pending receipt follows; a directory
\* without one is ambiguous and is left alone.
Encrypt ==
  /\ Point("collected") /\ run.mode = "capture-backup" /\ disk.backup = "none"
  /\ Disk([disk EXCEPT !.backup = "directory"]) /\ Goto("encrypting")

Pend ==
  /\ Point("encrypting")
  /\ Disk([disk EXCEPT !.backup = "pending"]) /\ Goto("collected")

\* The ciphertext is decrypted again and the copy restored by the worker.
Restore ==
  /\ Point("collected") /\ run.mode = "capture-backup" /\ disk.backup \in {"pending", "sealing", "verified"}
  /\ Fresh /\ OpenCommand("verify-backup")

Seal ==
  /\ Point("collected") /\ run.mode = "verify-backup" /\ disk.backup = "pending"
  /\ Disk([disk EXCEPT !.backup = "sealing"]) /\ Goto("sealing")

Sealed ==
  /\ Point("sealing")
  /\ Disk([disk EXCEPT !.backup = "verified"]) /\ Goto("collected")

StageDone ==
  /\ Point("collected") /\ Fresh
  /\ CASE run.mode = "capture-backup" -> FALSE
       [] run.mode = "verify-backup" -> disk.backup = "verified"
       [] OTHER -> TRUE
  /\ Done

-----
\* Stops, crashes, and what the world does meanwhile.

Exchanging == {"upload", "uploading", "invoke", "invoking", "answer"}
Coordinating == run.pc \in {"reserved", "step", "effect", "return", "raised"}

\* A check fails, a commit fails, the window closes: a child leaves its status
\* and raises, the coordinator leaves its own; either commit may fail too.
Stop ==
  /\ ~Point("off") /\ ~Point("raised") /\ run.child # "expired"
  /\ IF Coordinating
     THEN /\ run' = Off
          /\ \/ disk.parent.file = "here" /\ Disk([disk EXCEPT !.parent.status = "stopped-preserve-state"])
             \/ UNCHANGED <<world, box, store, lost, sent, disk, time>>
     ELSE /\ Goto("raised")
          /\ \/ /\ child.file = "here"
                /\ Disk([disk EXCEPT !.child[run.child].status = "stopped",
                                  !.command = IF run.pc \in Exchanging
                                              THEN [@ EXCEPT ![run.mode].status = "stopped"] ELSE @])
             \/ UNCHANGED <<world, box, store, lost, sent, disk, time>>

Crash ==
  /\ ~Point("off")
  /\ Only(Off)

ServeLate ==
  \E r \in lost :
    /\ lost' = lost \ {r}
    /\ CASE r[1] = "invoke" -> world.worker = "running" /\ Invoked(r[2]) /\ UNCHANGED world
         [] r[1] = "upload" -> /\ world.worker = "running" /\ box' = [box EXCEPT !.archive = TRUE]
                               /\ UNCHANGED <<world, store>>
         [] OTHER -> /\ At(Effects[r[1]][r[2]]) = "before" /\ world' = Served(Effects[r[1]][r[2]])
                     /\ UNCHANGED <<box, store>>
    /\ UNCHANGED <<sent, disk, run, time>>

Becomes(x) == world' = x /\ UNCHANGED <<box, store, lost, sent, disk, run, time>>

\* A reconciliation applies the revision it began with, even when the
\* Kustomization was suspended in between; applying the source anew brings a
\* new source Pod.
FluxBegins == world.flux = "active" /\ Quiet /\ Becomes([world EXCEPT !.busy = world.main])
FluxApplies ==
  /\ ~Quiet
  /\ Becomes([world EXCEPT !.busy = "no", !.applied = world.busy,
                     !.deploy = IF world.busy = "target" THEN "successor" ELSE "source",
                     !.src = IF world.busy = "source" /\ @ # "running" THEN "again" ELSE @,
                     !.runtime = IF world.busy = "source" THEN "absent" ELSE @])

\* The reviewed successor revision reaches main once the reconciler rests.
Merge == world.flux = "suspended" /\ world.main = "source" /\ Becomes([world EXCEPT !.main = "target"])

\* Pods follow their Deployments; a store is mounted by one Pod at a time.
PodsFollow ==
  \/ /\ world.deploy # "source" /\ world.src \in {"running", "again"} /\ Becomes([world EXCEPT !.src = "unmounting"])
  \/ world.src = "unmounting" /\ Becomes([world EXCEPT !.src = "gone"])
  \/ world.init = "unmounting" /\ Becomes([world EXCEPT !.init = "gone"])
  \/ /\ world.worker = "starting" /\ world.src = "gone" /\ world.init = "gone" /\ world.runtime = "absent"
     /\ Becomes([world EXCEPT !.worker = "running"])
  \/ world.worker \in {"starting", "running"} /\ Becomes([world EXCEPT !.worker = "dead"])
  \/ world.worker = "unmounting" /\ Becomes([world EXCEPT !.worker = "gone"])
  \/ /\ world.deploy = "successor" /\ world.runtime = "absent" /\ world.init = "gone"
     /\ world.worker \in {"absent", "gone"} /\ Becomes([world EXCEPT !.runtime = "ready"])

WindowCloses ==
  /\ time.open /\ time' = [time EXCEPT !.open = FALSE]
  /\ UNCHANGED <<world, box, store, lost, sent, disk, run>>

-----
\* Recovery after the window.

\* A separately pinned tail window, only from the stopped journal in which the
\* successor's start was fully observed.
Finalize ==
  /\ Point("off") /\ Readable /\ ~time.open /\ ~time.tail /\ time.plan # "between"
  /\ Completed = 6 /\ disk.parent.pending /\ disk.parent.status = "stopped-preserve-state"
  /\ disk.child["start"].k = 3 /\ disk.child["start"].status = "stopped"
  /\ disk.child["restart"].file = "none"
  /\ time' = [time EXCEPT !.open = TRUE, !.tail = TRUE]
  /\ UNCHANGED <<world, box, store, lost, sent, disk, run>>

\* A setup that stopped before any backup: the Pod's creation was never seen
\* answered, or a capture was asked for and nothing of it was collected.
Unstarted == disk.child["create"].status = "done" /\ disk.child["verify-backup"].status = "waiting"
             /\ disk.command["capture-backup"].status = "waiting"
             /\ disk.command["capture-backup"].invoke /\ ~disk.command["capture-backup"].result
SetupOnly == disk.child["create"].status = "stopped" /\ disk.child["create"].n = 3
             /\ disk.child["create"].k = 2 /\ disk.child["verify-backup"].file = "none"

StartExpired ==
  /\ Point("off") /\ Readable /\ disk.parent.pending /\ Completed = 2
  /\ "source" \in disk.released /\ disk.command["verify-backup"].file = "none"
  /\ \/ SetupOnly /\ disk.parent.status = "stopped-preserve-state"
     \/ Unstarted /\ disk.parent.status \in {"stopped-preserve-state", "awaiting-evidence"}
  /\ \/ ~time.open /\ time.plan = "first" /\ time' = [time EXCEPT !.open = TRUE, !.plan = "between"]
     \/ time.open /\ time.plan = "between" /\ UNCHANGED time
  /\ run' = [Off EXCEPT !.pc = "look", !.child = "expired"]
  /\ UNCHANGED <<world, box, store, lost, sent, disk>>

\* The worker may go when it is dead, or alive with an untouched mailbox.
Unused == world.worker = "dead" \/ (Unstarted /\ Ownership /\ \A m \in Modes : box.request[m] = "none")

\* The Pod, its code, its policy; the latter two once its mounts are gone.
RetireExpired ==
  /\ Point("look") /\ run.child = "expired" /\ time.open /\ Ready /\ Kept
  /\ \/ child.k = 0 /\ (child.n = 0 => Unused) /\ Look
     \/ child.k > 0 /\ MountsReleased(TRUE) /\ (IF More THEN Look ELSE Done)
     \/ child.k > 0 /\ ~MountsReleased(TRUE) /\ Wait

EndExpired ==
  /\ Point("return") /\ run.child = "expired"
  /\ Only(Off)

Carried == {"fence", "initializer"}

\* The fenced prefix is carried into a new journal under the new plan; nothing
\* of the worker or of a backup is, and what was sent to the old worker names
\* identities that are gone.
ContinueFenced ==
  /\ Point("off") /\ time.open /\ time.plan = "between" /\ Ready
  /\ disk.child["expired"].status = "done" /\ MountsReleased(TRUE)
  /\ ~world.policy /\ ~world.code
  /\ disk' = [disk EXCEPT !.parent = [file |-> "here", completed |-> 2, pending |-> FALSE, status |-> "reserved"],
                    !.child = [c \in Children |-> IF c \in Carried THEN @[c] ELSE NoChild],
                    !.command = [m \in Modes |-> NoCommand], !.backup = "none"]
  /\ time' = [time EXCEPT !.plan = "continued"]
  /\ world' = [world EXCEPT !.worker = "absent"] /\ box' = EmptyBox
  /\ lost' = {r \in lost : r[1] \in Carried}
  /\ sent' = [r \in Requests |-> IF r[1] \in Carried THEN sent[r] ELSE 0]
  /\ UNCHANGED <<store, run>>

-----
Coordinate == Launch \/ Begin \/ Intend \/ Recover \/ Record \/ Await \/ Finish \/ Raised
Drive == OpenChild \/ BeginChild \/ ReleaseSource \/ WorkerReady \/ Send \/ See
Advance == AdvanceFence \/ AdvanceInitializer \/ AdvanceCreation \/ AdvanceRetirement
           \/ AdvanceStart \/ AdvanceRestart \/ AdvanceRestore \/ AdvanceStage
Exchange == BeginCommand \/ UploadIntent \/ Upload \/ InvokeIntent \/ Invoke \/ Answer \/ NoAnswer
            \/ Encrypt \/ Pend \/ Restore \/ Seal \/ Sealed \/ StageDone
Fault == Stop \/ Crash \/ ServeLate \/ WindowCloses
Cluster == FluxBegins \/ FluxApplies \/ Merge \/ PodsFollow
Recovery == Finalize \/ StartExpired \/ RetireExpired \/ EndExpired \/ ContinueFenced

Next == Coordinate \/ Drive \/ Advance \/ Exchange \/ Fault \/ Cluster \/ Recovery

Spec == Init /\ [][Next]_vars
-----
\* Properties.

\* The state stays within its domains, and an operation never claims to have
\* seen what it has no record of.
TypeOK ==
  /\ world \in [flux : {"active", "suspended"}, busy : {"no", "source", "target"},
            main : {"source", "target"}, applied : {"source", "target"},
            deploy : {"source", "zero", "successor"},
            src : {"running", "unmounting", "gone", "again"},
            init : {"running", "unmounting", "gone"}, policy : BOOLEAN, code : BOOLEAN,
            worker : Alive \cup {"absent", "unmounting", "gone"}, config : BOOLEAN,
            role : BOOLEAN, runtime : {"absent", "ready"}, restarts : 0..1]
  /\ store \in {"empty", "activated"} /\ lost \subseteq Requests
  /\ disk.parent.completed \in 0..9
  /\ \A c \in Children : disk.child[c].n \in disk.child[c].k..(disk.child[c].k + 1)
                         /\ disk.child[c].k \in 0..3

\* No request is ever sent twice, through stops, crashes, resumed passes and
\* recoveries.
NeverRepeated == \A r \in Requests : sent[r] <= 1

\* From the recorded fence on the source writer never returns, and the
\* reconciler rests until the successor has been verified.
FenceHolds ==
  /\ Completed >= 1 => world.deploy # "source" /\ world.src # "again"
  /\ Completed \in 1..7 => world.flux = "suspended" /\ Quiet

\* The successor store is activated only from a backup that was encrypted and
\* restored, and only after the preparation was recorded.
BackupComesFirst ==
  /\ Completed >= 3 => disk.backup = "verified"
  /\ store = "activated" => Completed >= 4
  /\ Completed >= 5 => store = "activated"

\* The two stores pass from Pod to Pod: the source and the initializer are gone
\* before the worker is created, the worker before the successor starts.
StoresPassOn ==
  /\ world.worker \in Alive => Completed >= 2 /\ world.src = "gone" /\ world.init = "gone"
  /\ Completed >= 6 => world.worker = "gone"
  /\ world.runtime = "ready" => Completed >= 6
  /\ Completed >= 7 => world.deploy = "successor"
  /\ Completed >= 8 => world.restarts = 1
  /\ Completed = 9 => world.flux = "active" /\ world.main = "target"

\* What the recorded stages say is true of the cluster and the stores, at every
\* moment and not only when it was recorded.
EvidenceIsTrue == FenceHolds /\ BackupComesFirst /\ StoresPassOn
=============================================================================
