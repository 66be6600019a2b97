------------------------- MODULE CaseRuntimeUpgrade -------------------------
\* The offline release upgrade of a sealed Case on its retained volume
\* (scripts/case_runtime_upgrade.mjs) and the worker that runs it
\* (scripts/run-case-runtime-upgrade.mjs).
\*
\* A plan pins the exact bytes of the closed root directory and of the
\* directory that shall replace it.  Activation writes an intent beside
\* the root, copies a candidate, and makes two renames: root to
\* retained-source, candidate to root.  Any step can be the last of its
\* worker, two workers may run at once (an exec whose stream was lost is
\* repeated while the first process lives), the host's fence is an
\* observation that can be a minute old, and power can fail.
\*
\* A directory's bytes are abstracted to its lineage (one link for each
\* upgrade that built it), the number of Case events in it, and whether a
\* runtime has it open.  The lineage also identifies the directory: every
\* candidate is built by one plan.
EXTENDS Naturals, Sequences

CONSTANTS Releases,     \* release digests
          First,        \* the release that wrote the original directory
          Workers,      \* worker processes
          None,         \* no directory, no inode, no plan
          MaxEvents,    \* bound: Case events the runtimes write
          MaxUpgrades,  \* bound: links of a lineage (a source may have 32 in the code)
          MaxFaults     \* bound: crashes, power failures and refused fences

ASSUME FirstAssumption == First \in Releases
ASSUME BoundAssumption == MaxEvents \in Nat /\ MaxUpgrades \in Nat /\ MaxFaults \in Nat

Link  == [to: Releases, ev: 0..MaxEvents]
Chain == UNION {[1..n -> Link] : n \in 0..MaxUpgrades}
Dir   == [chain: Chain, ev: 0..MaxEvents, open: BOOLEAN]
ASSUME NoneAssumption == None \notin Dir \cup Chain \cup Workers \cup {"whole"}
ASSUME WorkersAssumption == "whole" \notin Workers

\* The release whose deployment claim the directory holds.
Claim(chain) == IF chain = <<>> THEN First ELSE chain[Len(chain)].to

\* A plan names the source bytes and a target release that differs from the source's.
Plans == {p \in [chain: Chain, ev: 0..MaxEvents, to: Releases] :
            Len(p.chain) < MaxUpgrades /\ p.to # Claim(p.chain)}

Source(p)  == [chain |-> p.chain, ev |-> p.ev, open |-> FALSE]
Lineage(p) == Append(p.chain, [to |-> p.to, ev |-> p.ev])
Target(p)  == [chain |-> Lineage(p), ev |-> p.ev, open |-> FALSE]

\* A record file and its .pending name: the inode each name holds, which is whole
\* or is the prefix its worker has written so far.
Inode  == Workers \cup {"whole"}
Record == [pend: Inode \cup {None}, path: Inode \cup {None}]
Kinds  == {"intent", "result"}
Volume == [root: Dir \cup {None}, made: SUBSET Plans,
           cand: [Plans -> {"none", "partial", "full"}],
           ret: [Plans -> Dir \cup {None}],
           rec: [Kinds -> [Plans -> Record]]]

VARIABLES vol,       \* the volume as processes see it
          after,     \* what a power failure may leave of it
          pc, plan,  \* each worker's step and its plan
          held,      \* the owner databases each worker holds, by lineage
          runtime,   \* the directory a Case runtime serves, or None
          fence,     \* a fence observation younger than a minute exists
          plans,     \* plans the host has from prepare
          verified,  \* plans whose verification note is in /work/private
          answered,  \* plans whose activation result is in /work/private
          reported,  \* plans whose receipt a worker ever answered
          acked,     \* Case events the runtimes acknowledged
          faults

vars == <<vol, after, pc, plan, held, runtime, fence, plans, verified, answered, reported, acked, faults>>
env  == <<runtime, fence, plans, verified, answered, reported, acked, faults>>

\* The steps of writeRecord, for the intent and for the result.
OpenAt    == [intent |-> "openIntent", result |-> "openResult"]
FillAt    == [intent |-> "fillIntent", result |-> "fillResult"]
PublishAt == [intent |-> "publishIntent", result |-> "publishResult"]
SyncAt    == [intent |-> "syncIntent", result |-> "syncResult"]
Written   == [intent |-> "admit", result |-> "release"]

\* Where each directory sync continues.
Flushed == [s \in {"syncJournal", "syncIntent", "syncCandidate", "syncMove", "syncSwap", "syncResult"} |->
              CASE s = "syncJournal"   -> "intent"
                [] s = "syncIntent"    -> Written["intent"]
                [] s = "syncCandidate" -> "copy"
                [] s = "syncMove"      -> "install"
                [] s = "syncSwap"      -> "final"
                [] s = "syncResult"    -> Written["result"]]

Steps == {"idle", "journal", "intent", "admit", "branch", "lockSource", "recheck", "copy",
          "lockCandidate", "ready", "move", "lockRetained", "install", "swap", "final", "release", "report"}
         \cup DOMAIN Flushed \cup UNION {{OpenAt[k], FillAt[k], PublishAt[k]} : k \in Kinds}

Init ==
  /\ vol = [root |-> [chain |-> <<>>, ev |-> 0, open |-> FALSE], made |-> {},
            cand |-> [p \in Plans |-> "none"], ret |-> [p \in Plans |-> None],
            rec |-> [k \in Kinds |-> [p \in Plans |-> [pend |-> None, path |-> None]]]]
  /\ after = {vol}
  /\ pc = [w \in Workers |-> "idle"] /\ plan = [w \in Workers |-> None]
  /\ held = [w \in Workers |-> {}] /\ runtime = None /\ fence = FALSE
  /\ plans = {} /\ verified = {} /\ answered = {} /\ reported = {} /\ acked = 0 /\ faults = 0

-----
\* The volume is ext4 (case_review_storage.py:106): its journal keeps the
\* order of directory operations, and any fsync makes all earlier ones
\* durable.  A power failure leaves one of the states since the last one.
Do(v)     == vol' = v /\ after' = after \cup {v}

DoSync(v) == vol' = v /\ after' = {v}
Same      == UNCHANGED <<vol, after>>

Goto(w, l) == pc' = [pc EXCEPT ![w] = l] /\ UNCHANGED <<plan, held>>
\* A failed check ends the worker; closing the databases releases them.
Halt(w)    == /\ pc' = [pc EXCEPT ![w] = "idle"] /\ plan' = [plan EXCEPT ![w] = None]
              /\ held' = [held EXCEPT ![w] = {}]
Stop(w)    == Halt(w) /\ Same

\* An EXCLUSIVE transaction on the directory's owner database, busy_timeout 0.
Free(w, chain) == runtime # chain /\ \A x \in Workers \ {w} : chain \notin held[x]
Hold(w, chain, l) == /\ held' = [held EXCEPT ![w] = @ \cup {chain}]
                     /\ pc' = [pc EXCEPT ![w] = l] /\ UNCHANGED plan

\* assertFiles: the directory exists and its bytes are the expected ones.
Exact(dir, expected)  == dir = expected
CandidateExact(v, p)  == v.cand[p] = "full"

\* Worker w takes the step named l; only the volume, its step and its locks change.
At(w, l) == pc[w] = l /\ UNCHANGED env

-----
\* The worker

\* Mutant of Prepare: the plan names the source's own release as its target.
PrepareSwapped(p) ==
  /\ fence /\ p \notin plans /\ Exact(vol.root, Source(p))
  /\ plans' = plans \cup {[p EXCEPT !.to = Claim(p.chain)]}
  /\ UNCHANGED <<vol, after, pc, plan, held, runtime, fence, verified, answered, reported, acked, faults>>

\* prepare: two equal snapshots of a closed root under the fence pin the plan.
Prepare(p) ==
  /\ fence /\ p \notin plans /\ Exact(vol.root, Source(p))
  /\ plans' = plans \cup {p}
  /\ UNCHANGED <<vol, after, pc, plan, held, runtime, fence, verified, answered, reported, acked, faults>>

\* verify: the plan and the restored archive are replayed, and a note is created.
Verify(p) ==
  /\ fence /\ p \in plans \ verified
  /\ verified' = verified \cup {p}
  /\ UNCHANGED <<vol, after, pc, plan, held, runtime, fence, plans, answered, reported, acked, faults>>

\* activate: needs the note; a saved result forbids a second run of the request in this pod.
Enter(w, p) ==
  /\ pc[w] = "idle" /\ fence /\ p \in (plans \cap verified) \ answered
  /\ plan' = [plan EXCEPT ![w] = p] /\ pc' = [pc EXCEPT ![w] = "journal"]
  /\ UNCHANGED <<vol, after, held, env>>

MakeJournal(w, p) ==
  LET made   == p \in vol.made
      source == Exact(vol.root, Source(p))
  IN /\ At(w, "journal")
     /\ \/ fence /\ made /\ Goto(w, "intent") /\ Same
        \/ /\ fence /\ ~made /\ source /\ Goto(w, "syncJournal")
           /\ Do([vol EXCEPT !.made = @ \cup {p}])
        \/ ~(fence /\ (made \/ source)) /\ Stop(w)

\* Only an untouched journal may receive an intent.
CheckIntent(w, p) ==
  LET written   == vol.rec["intent"][p].path # None
      untouched == /\ vol.cand[p] = "none" /\ vol.ret[p] = None
                   /\ vol.rec["result"][p].path = None /\ Exact(vol.root, Source(p))
  IN /\ At(w, "intent")
     /\ \/ written /\ Goto(w, "admit") /\ Same
        \/ ~written /\ untouched /\ Goto(w, OpenAt["intent"]) /\ Same
        \/ ~written /\ ~untouched /\ Stop(w)

\* writeRecord: a .pending file left behind is a prefix of the same bytes; it is
\* unlinked and the directory flushed before the new one is created.
OpenRecord(w, p, k) ==
  LET r       == vol.rec[k][p]
      pend(i) == [vol EXCEPT !.rec[k][p].pend = i]
  IN /\ At(w, OpenAt[k])
     /\ \/ r.path = "whole" /\ Goto(w, Written[k]) /\ Same
        \/ r.path \in Workers /\ Stop(w)
        \/ r.path = None /\ r.pend = None /\ Goto(w, FillAt[k]) /\ Do(pend(w))
        \/ /\ r.path = None /\ r.pend # None /\ Goto(w, FillAt[k])
           /\ vol' = pend(w) /\ after' = {pend(None), pend(w)}

\* writeNew writes and fsyncs the inode it opened, whatever name that has by now.
FillRecord(w, p, k) ==
  LET filled(i) == IF i = w THEN "whole" ELSE i
  IN /\ At(w, FillAt[k]) /\ Goto(w, PublishAt[k])
     /\ DoSync([vol EXCEPT !.rec[k][p] = [pend |-> filled(@.pend), path |-> filled(@.path)]])

PublishRecord(w, p, k) ==
  LET r == vol.rec[k][p]
  IN /\ At(w, PublishAt[k])
     /\ \/ r.pend = None /\ Stop(w)
        \/ /\ r.pend # None /\ Goto(w, SyncAt[k])
           /\ Do([vol EXCEPT !.rec[k][p] = [pend |-> None, path |-> r.pend]])

\* A journal whose intent differs from the plan is refused; a result ends the run.
Admit(w, p) ==
  LET intent == vol.rec["intent"][p].path
      result == vol.rec["result"][p].path
      done   == /\ Exact(vol.ret[p], Source(p)) /\ Exact(vol.root, Target(p))
                /\ vol.cand[p] = "none" /\ result = "whole" /\ fence
  IN /\ At(w, "admit")
     /\ \/ intent = "whole" /\ result = None /\ Goto(w, "branch") /\ Same
        \/ intent = "whole" /\ result # None /\ done /\ Goto(w, "release") /\ Same
        \/ (intent = "whole" => result # None /\ ~done) /\ Stop(w)

\* Mutant of Branch: a journal that already holds the source is refused.
BranchAtRoot(w, p) ==
  LET expected == vol.ret[p] = None /\ Exact(vol.root, Source(p))
  IN /\ At(w, "branch")
     /\ \/ expected /\ Goto(w, "lockSource") /\ Same
        \/ ~expected /\ Stop(w)

\* Whether the source was already moved decides where the run resumes.
Branch(w, p) ==
  LET moved    == vol.ret[p] # None
      expected == Exact(IF moved THEN vol.ret[p] ELSE vol.root, Source(p))
  IN /\ At(w, "branch")
     /\ \/ expected /\ Goto(w, IF moved THEN "lockRetained" ELSE "lockSource") /\ Same
        \/ ~expected /\ Stop(w)

\* Mutant of LockSource: the bytes are compared but the owner database is not locked.
UnlockedSource(w) == /\ At(w, "lockSource") /\ Goto(w, "recheck") /\ Same

\* hold(root) locks whatever directory has the root's name by now.
LockSource(w) ==
  LET free == vol.root # None /\ Free(w, vol.root.chain)
  IN /\ At(w, "lockSource")
     /\ \/ free /\ Hold(w, vol.root.chain, "recheck") /\ Same
        \/ ~free /\ Stop(w)

\* Under the lock the bytes are compared again before the candidate is begun.
Recheck(w, p) ==
  LET expected == Exact(vol.root, Source(p))
  IN /\ At(w, "recheck")
     /\ \/ /\ expected /\ vol.cand[p] = "none" /\ Goto(w, "syncCandidate")
           /\ Do([vol EXCEPT !.cand[p] = "partial"])
        \/ expected /\ vol.cand[p] # "none" /\ Goto(w, "copy") /\ Same
        \/ ~expected /\ Stop(w)

\* completeCandidate finishes what an interrupted run of the same plan left.
CopyCandidate(w, p) ==
  /\ At(w, "copy")
  /\ \/ vol.cand[p] # "none" /\ Goto(w, "lockCandidate") /\ DoSync([vol EXCEPT !.cand[p] = "full"])
     \/ vol.cand[p] = "none" /\ Stop(w)

LockCandidate(w, p) ==
  LET free == CandidateExact(vol, p) /\ Free(w, Lineage(p)) /\ fence
  IN /\ At(w, "lockCandidate")
     /\ \/ free /\ Hold(w, Lineage(p), "ready") /\ Same
        \/ ~free /\ Stop(w)

Ready(w, p) ==
  LET expected == Exact(vol.root, Source(p)) /\ CandidateExact(vol, p)
  IN /\ At(w, "ready")
     /\ \/ expected /\ Goto(w, "move") /\ Same
        \/ ~expected /\ Stop(w)

\* The first rename moves whatever directory has the root's name at that instant.
MoveSource(w, p) ==
  LET possible == vol.root # None /\ vol.ret[p] = None
  IN /\ At(w, "move")
     /\ \/ possible /\ Goto(w, "syncMove") /\ Do([vol EXCEPT !.root = None, !.ret[p] = vol.root])
        \/ ~possible /\ Stop(w)

LockRetained(w, p) ==
  /\ At(w, "lockRetained")
  /\ \/ Free(w, p.chain) /\ Hold(w, p.chain, "install") /\ Same
     \/ ~Free(w, p.chain) /\ Stop(w)

\* Missing root: install the candidate.  Present root: it must be the target already.
Install(w, p) ==
  LET missing == vol.root = None
      free    == CandidateExact(vol, p) /\ Free(w, Lineage(p)) /\ fence
      there   == vol.cand[p] = "none" /\ Exact(vol.root, Target(p))
  IN /\ At(w, "install")
     /\ \/ missing /\ free /\ Hold(w, Lineage(p), "swap") /\ Same
        \/ ~missing /\ there /\ Goto(w, "final") /\ Same
        \/ ~(IF missing THEN free ELSE there) /\ Stop(w)

SwapCandidate(w, p) ==
  LET possible == vol.root = None /\ CandidateExact(vol, p)
  IN /\ At(w, "swap")
     /\ \/ possible /\ Goto(w, "syncSwap") /\ Do([vol EXCEPT !.root = Target(p), !.cand[p] = "none"])
        \/ ~possible /\ Stop(w)

Final(w, p) ==
  LET proved == Exact(vol.ret[p], Source(p)) /\ Exact(vol.root, Target(p)) /\ fence
  IN /\ At(w, "final")
     /\ \/ proved /\ Goto(w, OpenAt["result"]) /\ Same
        \/ ~proved /\ Stop(w)

\* syncDirectory after a directory operation.
Sync(w) ==
  /\ pc[w] \in DOMAIN Flushed /\ Goto(w, Flushed[pc[w]]) /\ DoSync(vol)
  /\ UNCHANGED env

\* The locks are released before the worker saves its answer.
Release(w) ==
  /\ At(w, "release") /\ Same
  /\ pc' = [pc EXCEPT ![w] = "report"] /\ held' = [held EXCEPT ![w] = {}] /\ UNCHANGED plan

\* Mutant of Report: the retained source is removed once the result is saved.
ReportAndTidy(w, p) ==
  /\ pc[w] = "report" /\ Halt(w) /\ Do([vol EXCEPT !.ret[p] = None])
  /\ answered' = answered \cup {p} /\ reported' = reported \cup {p}
  /\ UNCHANGED <<runtime, fence, plans, verified, acked, faults>>

\* The worker's answer is saved and then given.
Report(w, p) ==
  /\ pc[w] = "report" /\ Halt(w)
  /\ answered' = answered \cup {p} /\ reported' = reported \cup {p}
  /\ UNCHANGED <<vol, after, runtime, fence, plans, verified, acked, faults>>

Work(w) ==
  \/ MakeJournal(w, plan[w]) \/ CheckIntent(w, plan[w])
  \/ \E k \in Kinds : OpenRecord(w, plan[w], k) \/ FillRecord(w, plan[w], k) \/ PublishRecord(w, plan[w], k)
  \/ Admit(w, plan[w]) \/ Branch(w, plan[w]) \/ LockSource(w) \/ Recheck(w, plan[w])
  \/ CopyCandidate(w, plan[w]) \/ LockCandidate(w, plan[w]) \/ Ready(w, plan[w])
  \/ MoveSource(w, plan[w]) \/ LockRetained(w, plan[w]) \/ Install(w, plan[w])
  \/ SwapCandidate(w, plan[w]) \/ Final(w, plan[w]) \/ Sync(w) \/ Release(w) \/ Report(w, plan[w])

-----
\* The Case runtime, which opens the root only with its own release's
\* claim and under the owner database's lock, and the host.

\* A change of the directory the runtime has open, under whatever name it has.
Edit(chain, open, events) ==
  LET e(d) == IF d # None /\ d.chain = chain
                THEN [d EXCEPT !.open = open, !.ev = @ + events] ELSE d
  IN [vol EXCEPT !.root = e(@), !.ret = [p \in Plans |-> e(vol.ret[p])]]

StartRuntime ==
  /\ runtime = None /\ vol.root # None
  /\ \A w \in Workers : vol.root.chain \notin held[w]
  /\ runtime' = vol.root.chain /\ Do(Edit(vol.root.chain, TRUE, 0))
  /\ UNCHANGED <<pc, plan, held, fence, plans, verified, answered, reported, acked, faults>>

WriteEvent ==
  /\ runtime # None /\ acked < MaxEvents
  /\ DoSync(Edit(runtime, TRUE, 1)) /\ acked' = acked + 1
  /\ UNCHANGED <<pc, plan, held, runtime, fence, plans, verified, answered, reported, faults>>

SealRuntime ==
  /\ runtime # None
  /\ DoSync(Edit(runtime, FALSE, 0)) /\ runtime' = None
  /\ UNCHANGED <<pc, plan, held, fence, plans, verified, answered, reported, acked, faults>>

\* The host saw zero writers, a suspended reconciler and the worker alone on the volume.
Observe ==
  /\ ~fence /\ runtime = None /\ fence' = TRUE
  /\ UNCHANGED <<vol, after, pc, plan, held, runtime, plans, verified, answered, reported, acked, faults>>

Fault == faults < MaxFaults /\ faults' = faults + 1

Expire ==
  /\ Fault /\ fence /\ fence' = FALSE
  /\ UNCHANGED <<vol, after, pc, plan, held, runtime, plans, verified, answered, reported, acked>>

\* A process ends between two steps; the volume keeps what it did.
CrashWorker(w) ==
  /\ Fault /\ pc[w] # "idle" /\ Stop(w)
  /\ UNCHANGED <<runtime, fence, plans, verified, answered, reported, acked>>

CrashRuntime ==
  /\ Fault /\ runtime # None /\ runtime' = None
  /\ UNCHANGED <<vol, after, pc, plan, held, fence, plans, verified, answered, reported, acked>>

\* Every process and the worker's memory-backed /work/private are gone.
PowerFailure ==
  /\ Fault
  /\ \E v \in after : vol' = v /\ after' = {v}
  /\ pc' = [w \in Workers |-> "idle"] /\ plan' = [w \in Workers |-> None]
  /\ held' = [w \in Workers |-> {}] /\ runtime' = None /\ fence' = FALSE
  /\ verified' = {} /\ answered' = {}
  /\ UNCHANGED <<plans, reported, acked>>

Next ==
  \/ \E p \in Plans : Prepare(p) \/ Verify(p)
  \/ \E w \in Workers : Work(w) \/ CrashWorker(w) \/ \E p \in Plans : Enter(w, p)
  \/ StartRuntime \/ WriteEvent \/ SealRuntime \/ CrashRuntime
  \/ Observe \/ Expire \/ PowerFailure

Spec == Init /\ [][Next]_vars

\* Workers run on, the host renews its observation, verifies its plans again in a new
\* pod and keeps repeating them.
FairSpec ==
  /\ Spec /\ WF_vars(Observe)
  /\ \A w \in Workers : WF_vars(Work(w))
  /\ \A p \in Plans : WF_vars(Verify(p)) /\ SF_vars(\E w \in Workers : Enter(w, p))

-----
TypeOK ==
  /\ vol \in Volume /\ after \subseteq Volume /\ vol \in after
  /\ pc \in [Workers -> Steps] /\ plan \in [Workers -> Plans \cup {None}]
  /\ held \in [Workers -> SUBSET Chain] /\ runtime \in Chain \cup {None}
  /\ fence \in BOOLEAN /\ plans \subseteq Plans /\ verified \subseteq Plans /\ answered \subseteq Plans /\ reported \subseteq Plans
  /\ acked \in 0..MaxEvents /\ faults \in 0..MaxFaults

\* What a volume must offer whatever happened: a root with every acknowledged
\* event, or none and an interrupted plan whose source holds them all.
Whole(v) ==
  IF v.root # None THEN v.root.ev = acked
  ELSE \E p \in Plans : /\ v.ret[p] = Source(p) /\ p.ev = acked
                        /\ v.cand[p] = "full" /\ v.rec["intent"][p].path = "whole"

\* No interleaving of workers, runtimes and power failures loses an acknowledged
\* Case event, and every missing root is explained by a complete intent, the
\* exact retained source and a whole candidate.
NothingLost == \A v \in after : Whole(v)

\* Every upgrade in the root's lineage left its source directory byte for byte
\* beside it, under the plan that moved it, and a durable intent.
LineageRetained ==
  \A v \in after : v.root # None =>
    \A i \in 1..Len(v.root.chain) :
      \E p \in Plans : /\ Lineage(p) = SubSeq(v.root.chain, 1, i)
                       /\ v.ret[p] = Source(p) /\ v.rec["intent"][p].path = "whole"

\* Once a worker answered with a plan's receipt no failure and no other plan, old
\* or rival, takes the root back behind that upgrade.
NeverRolledBack ==
  \A p \in reported : \A v \in after :
    /\ v.ret[p] = Source(p)
    /\ v.root # None => /\ Len(v.root.chain) > Len(p.chain)
                        /\ SubSeq(v.root.chain, 1, Len(p.chain) + 1) = Lineage(p)

\* An upgrade stands and so does what it was made from, whatever crashes and
\* whichever plans are run again later.
UpgradesStand == LineageRetained /\ NeverRolledBack

\* A moved source is always followed by a root again.
RootReturns == vol.root = None ~> vol.root # None
=============================================================================
