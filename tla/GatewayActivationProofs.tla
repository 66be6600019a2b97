---------------------- MODULE GatewayActivationProofs ----------------------
\* What the participant gateway activation and its recoveries promise, for
\* every order of creation, every number of failures of every kind and of
\* reconciliations by Flux: the gateway is never without its isolation,
\* the rollback deletes only what the run posted and in its order, and the
\* receipts tell the truth.
\*
\* All of it follows from one inductive invariant, ActivationInv, that
\* Spec keeps: what each place of the process knows (Places, Asks, Phases,
\* Ahead), what may still come about behind its back (Quietly, Pushing,
\* Kept, MayRun, the history variable stray), and what the receipts say of
\* it (Named, Papers, Claims).  It is proved in parts: the rollback first,
\* then the two ends of a run, the run forward, and the world around it.
EXTENDS GatewayActivation, FiniteSetTheorems, WellFoundedInduction, TLAPS

-----
\* The order of creation and the order of the phases.

\* A set of numbers that is not empty has a least one.
LEMMA Least ==
  ASSUME NEW T, T \subseteq Nat, T # {}
  PROVE  \E x \in T : \A y \in T : x <= y
<1> DEFINE R == {ss \in Nat \X Nat : ss[1] < ss[2]}
<1>1. OpToRel(<, Nat) = R
  BY Zenon DEF OpToRel
<1>2. IsWellFoundedOn(R, Nat)
  BY <1>1, NatLessThanWellFounded, Zenon
<1>3. PICK x \in T : \A y \in T : ~ (<<y, x>> \in R)
  <2> HIDE DEF R
  <2> QED BY <1>2, WFMin
<1>4. \A y \in T : ~ (y < x)
  BY <1>3
<1>. QED BY <1>4

\* The phases of the rollback, one by one.
LEMMA StageFacts ==
  /\ DOMAIN Stages = 1..14
  /\ Stages[1] = "bind" /\ Stages[2] = "ingress" /\ Stages[3] = "service"
  /\ Stages[4] = "suspend" /\ Stages[5] = "quiet" /\ Stages[6] = "ingressAgain"
  /\ Stages[7] = "serviceAgain" /\ Stages[8] = "unbound" /\ Stages[9] = "delete"
  /\ Stages[10] = "absent" /\ Stages[11] = "flux" /\ Stages[12] = "preserved"
  /\ Stages[13] = "rebind" /\ Stages[14] = "settle"
BY DEF Stages

LEMMA RollingBackIs ==
  RollingBack = {"bind", "ingress", "service", "suspend", "quiet", "ingressAgain",
                 "serviceAgain", "unbound", "delete", "absent", "flux", "preserved",
                 "rebind", "settle"}
<1>1. \A i \in 1..14 : i \in {1,2,3,4,5,6,7,8,9,10,11,12,13,14}
  OBVIOUS
<1>2. \A i \in {1,2,3,4,5,6,7,8,9,10,11,12,13,14} : i \in 1..14
  OBVIOUS
<1> QED BY <1>1, <1>2, StageFacts DEF RollingBack

\* No phase occurs twice, so the process knows which one it is in.
LEMMA HereIs ==
  ASSUME NEW i \in 1..14, run.pc = Stages[i]
  PROVE  Here = i
<1>1. \A j \in 1..14 : Stages[j] = Stages[i] => j = i
  <2> SUFFICES ASSUME NEW j \in 1..14, Stages[j] = Stages[i] PROVE j = i
    OBVIOUS
  <2>1. i \in {1,2,3,4,5,6,7,8,9,10,11,12,13,14} /\ j \in {1,2,3,4,5,6,7,8,9,10,11,12,13,14}
    OBVIOUS
  <2> QED BY <2>1, StageFacts
<1>2. Here \in 1..14 /\ Stages[Here] = run.pc
  BY StageFacts DEF Here
<1> QED BY <1>1, <1>2

\* The next phase is the first that is due; "settle" always is.
LEMMA AdvanceIs ==
  ASSUME NEW i \in 1..13, NEW r
  PROVE  \E j \in i+1..14 :
           /\ Due(Stages[j], r) /\ \A h \in i+1..j-1 : ~Due(Stages[h], r)
           /\ Advance(i, r) = [r EXCEPT !.pc = Stages[j], !.step = "look", !.at = 1,
                                 !.left = IF Stages[j] = "delete" THEN Remaining(r) ELSE {}]
<1> DEFINE T == {j \in i+1..14 : Due(Stages[j], r)}
<1>1. Due("settle", r)
  BY DEF Due
<1>2. 14 \in T /\ T \subseteq Nat
  BY <1>1, StageFacts
<1> HIDE DEF T
<1>3. PICK l \in T : \A y \in T : l <= y
  BY <1>2, Least, Zenon
<1>4. l \in i+1..14 /\ Due(Stages[l], r) /\ \A h \in i+1..l-1 : ~Due(Stages[h], r)
  BY <1>3 DEF T
<1> DEFINE P(j) == Due(Stages[j], r) /\ \A h \in i+1..j-1 : ~Due(Stages[h], r)
           c == CHOOSE j \in i+1..Len(Stages) : P(j)
<1>5. Len(Stages) = 14
  BY DEF Stages
<1>6. c \in i+1..14 /\ P(c)
  <2> HIDE DEF P
  <2>1. P(l)
    BY <1>4 DEF P
  <2> QED BY <1>4, <1>5, <2>1
<1>7. Advance(i, r) = [r EXCEPT !.pc = Stages[c], !.step = "look", !.at = 1,
                                 !.left = IF Stages[c] = "delete" THEN Remaining(r) ELSE {}]
  BY Zenon DEF Advance
<1> QED
  <2> HIDE DEF c
  <2> QED BY <1>6, <1>7

\* The order of creation names each of the objects once.
LEMMA OrderFacts ==
  /\ Len(Order) \in Nat /\ Len(Order) >= 4 /\ DOMAIN Order = 1..Len(Order)
  /\ Order[Len(Order)] = Ingress /\ Order[Len(Order) - 1] = Deployment
  /\ \A i \in DOMAIN Order : Order[i] \in Names
  /\ \A i, j \in DOMAIN Order : Order[i] = Order[j] => i = j
  /\ Names \subseteq Six
  /\ {Isolation, Service, Deployment, Ingress} \subseteq Names
<1>1. Order \in Seq(Six) /\ {Isolation, Service, Deployment, Ingress} \subseteq Names
      /\ Cardinality(Names) = Len(Order)
      /\ Order[Len(Order)] = Ingress /\ Order[Len(Order) - 1] = Deployment
  BY ActivationConstants
<1>2. Len(Order) \in Nat /\ DOMAIN Order = 1..Len(Order)
      /\ \A i \in 1..Len(Order) : Order[i] \in Six
  BY <1>1
<1>3. Names \subseteq Six /\ \A i \in DOMAIN Order : Order[i] \in Names
  BY <1>2 DEF Names
<1>4. PICK a, b, c, d \in DOMAIN Order :
        Order[a] = Isolation /\ Order[b] = Service /\ Order[c] = Deployment /\ Order[d] = Ingress
  BY <1>1 DEF Names
<1>5. Len(Order) >= 4
  BY <1>2, <1>4 DEF Isolation, Service, Deployment, Ingress
<1>6. Order \in Surjection(DOMAIN Order, Names)
  <2>1. Order \in [DOMAIN Order -> Names]
    BY <1>1, <1>2, <1>3
  <2>2. \A n \in Names : \E i \in DOMAIN Order : Order[i] = n
    BY DEF Names
  <2> QED BY <2>1, <2>2 DEF Surjection
<1>7. IsFiniteSet(DOMAIN Order) /\ Cardinality(DOMAIN Order) = Len(Order)
  <2> 1 \in Int /\ Len(Order) \in Int /\ ~(1 > Len(Order)) /\ DOMAIN Order = 1..Len(Order)
    BY <1>2, <1>5
  <2>1. IsFiniteSet(1..Len(Order)) /\ Cardinality(1..Len(Order)) = Len(Order) - 1 + 1
    BY FS_Interval
  <2> QED BY <2>1
<1>8. Order \in Injection(DOMAIN Order, Names)
  BY <1>1, <1>6, <1>7, FS_SurjSameCardinalityImpliesInj
<1>9. \A i, j \in DOMAIN Order : Order[i] = Order[j] => i = j
  BY <1>8 DEF Injection, IsInjective
<1> QED BY <1>1, <1>2, <1>3, <1>5, <1>9
-----
\* The invariant, part by part.

\* A Kustomization that reconciles is busy; its condition says so, and it
\* applies what is its own.
Owning ==
  \A k \in Owners :
    /\ kust[k].todo \subseteq Applies(k)
    /\ ~kust[k].busy => kust[k].todo = {}
    /\ ~kust[k].cond => ~kust[k].busy

\* Only what the run posted is ever about to be deleted.
OwnDeletes ==
  /\ \A q \in net : q.op = "delete" => q.seen.by = "run"
  /\ \A n \in Names : live[n] # None /\ live[n].going => live[n].by = "run"

Creating == {"create", "posted", "discover"}
Owned == {"strip", "stripping", "stripped", "health", "gate", "routes"}
Handing == {"unsuspend", "unsuspending", "ready", "verify", "commit"}
Early == {"idle"} \cup Forward \cup {"rediscover", "rescue", "bind"}

\* Where the process is, and what its memory then holds.
Places ==
  /\ run.pc \in Forward \cup {"idle", "rediscover"} => run.mode = "activate"
  /\ run.pc \in Early => ~run.quiet
  /\ run.pc \in Creating \cup Owned => run.at \in DOMAIN Order
  /\ run.pc \in {"idle", "preflight"} => run.own = {} /\ ~run.begun
  /\ run.pc \in Creating => run.own = {Order[j] : j \in 1..run.at-1}
  /\ run.pc \in Owned => run.own = {Order[j] : j \in 1..run.at}
  /\ run.pc \in {"health", "gate"} => This = Deployment
  /\ run.pc = "routes" => This = Ingress
  /\ run.pc \in Handing => run.own = Names
  /\ run.pc = "create" => (run.at > 1 <=> run.begun)
  /\ run.pc \in Forward \ {"preflight", "create"} => run.begun
  /\ run.pc \in (Forward \ {"posted", "discover"}) \cup {"idle"} => run.unsure = None
  /\ run.pc \in {"posted", "discover"} => run.unsure = This
  /\ run.pc = "rediscover" => run.unsure # None /\ run.begun
  /\ run.pc = "strip" => run.tries < Attempts
  /\ run.pc \in {"unsuspend", "unsuspending", "ready", "suspend", "quiet", "flux"} =>
       run.at \in 1..2
  /\ run.pc \in RollingBack \ {"settle"} => run.begun
  /\ run.pc \in RollingBack /\ run.mode # "activate" => run.begun
  /\ run.mode # "activate" => run.pc \in RollingBack \cup {"rescue", "end", "dead"}
  /\ run.pc = "rescue" => run.mode # "activate"
  /\ run.pc = "delete" => run.left # {} /\ run.left \subseteq run.own

\* What a request in flight is waited for by.
Asks ==
  /\ run.asked # None => run.pc \in {"posted", "stripping", "unsuspending", "suspend"} \cup Deleting
  /\ run.pc = "posted" => run.asked = [op |-> "create", at |-> This]
  /\ run.pc = "stripping" => run.asked # None /\ run.asked.op = "strip"
  /\ run.pc = "unsuspending" => run.asked # None /\ run.asked.op = "patch"
  /\ run.asked # None /\ run.pc = "suspend" =>
        run.asked.op = "patch" /\ run.asked.susp
  /\ run.asked # None /\ run.pc \in Deleting => run.asked.op = "delete"
  /\ run.asked # None /\ run.pc \in Deleting \cup {"suspend"} => run.step = "sent"

\* Nothing has been sent yet.
Pristine ==
  /\ net = {}
  /\ \A k \in Owners : kust[k].susp /\ ~kust[k].busy
  /\ \A n \in Names : ~Ours(n)
Quietly == run.mode = "activate" /\ run.pc \notin {"end", "dead"} /\ ~run.begun => Pristine

\* Until the run turns back, it takes nothing back.
Won == receipt.status = "activated" /\ run.pc = "end" /\ run.exit # "unsaved"
Onward == \A q \in net : q.op # "delete" /\ (q.op = "patch" => ~q.susp)
Pushing == run.pc \in Forward \cup {"rediscover"} \/ Won => Onward
\* What was bound is there as long as nothing is taken back.
Kept == run.pc \in Forward \cup {"rediscover"} =>
          \A n \in run.own : live[n] # None /\ ~live[n].going

\* The Deployment may yet be made, by the run or by Flux.
MayRun ==
  \/ ~kust["gateway"].susp \/ Applying("gateway")
  \/ ~Unseen /\ \E q \in net : \/ q.op = "create" /\ q.at = Deployment
                               \/ q.op = "patch" /\ q.at = "gateway" /\ ~q.susp
Isolated ==
  \/ {Deployment, "gateway"} \cap stray # {}
  \/ Ours(Deployment) \/ MayRun =>
       /\ live[Isolation] # None
       /\ \A q \in net : ~(q.op = "delete" /\ q.at = Isolation)

\* Nothing of ours is at a name, unless a straggler put it there.
Away(n) == {n, OwnerOf(n)} \cap stray # {} \/ ~Ours(n)
Still(k) == k \notin stray => kust[k].susp /\ ~Applying(k)

\* What the phases of the rollback up to number i have established for a
\* process with memory m.
Passed(m, i) ==
  /\ m.quiet => i >= 5 /\ m.auth /\ \A k \in Owners : Still(k)
  /\ i >= 1 /\ ~m.err => m.auth
  /\ i >= 5 /\ ~m.err => m.quiet
  /\ i >= 6 /\ m.quiet /\ ~m.err /\ Ingress \in m.own => Away(Ingress)
  /\ i >= 7 /\ m.quiet /\ ~m.err /\ Service \in m.own => Away(Service)
  /\ i >= 8 /\ m.quiet /\ ~m.err /\ Isolation \in m.own /\ Deployment \notin m.own
       => Away(Deployment)
  /\ i >= 10 /\ ~m.err => \A n \in Names : Away(n)
Phases ==
  /\ \A i \in DOMAIN Stages : run.pc = Stages[i] /\ run.begun => Passed(run, i - 1)
  /\ run.pc = "quiet" => run.auth /\ (run.at = 2 => Still("gateway"))
  /\ run.pc = "delete" => /\ run.quiet /\ ~run.err
                          /\ Deployment \in run.own \ run.left => Away(Deployment)
  /\ run.mode = "B" /\ run.pc \in RollingBack =>
       \A k \in Owners : /\ run.base[k] <= kust[k].rv
                         /\ kust[k].rv = run.base[k] => kust[k].susp /\ ~Applying(k)

Unposted(n) ==
  /\ [op |-> "create", at |-> n] \notin net
  /\ live[n] # None => live[n].by # "run"
Ahead ==
  /\ run.pc \in Creating \cup Owned =>
       \A i \in DOMAIN Order : i > run.at => Unposted(Order[i])
  /\ run.pc = "create" => Unposted(This)
  /\ run.pc = "posted" /\ run.answer = None =>
        (live[This] # None => live[This].by # "run")
  /\ run.pc = "posted" /\ run.answer = "refused" => Unposted(This)
  /\ run.pc = "posted" /\ run.answer = "ok" => live[This] # None /\ ~live[This].going

Heads == run.mode = "activate" /\ run.pc \notin {"end", "dead"}
Named ==
  Heads => \A n \in Names :
    \/ live[n] # None /\ live[n].by = "run"
    \/ ~Unseen /\ [op |-> "create", at |-> n] \in net
    => n \in run.own \cup {run.unsure, forgotten} \cup stray

Papers ==
  /\ run.pc = "idle" <=> receipt.status = None
  /\ Heads /\ run.pc # "idle" => receipt.status \in {"reserved", "activated"}
  /\ Heads /\ receipt.status = "activated" => run.pc \in RollingBack \cup {"rediscover"}
  /\ run.mode # "activate" => receipt.status = "rollback-incomplete"
  /\ rescue # None => run.mode # "activate"
  /\ run.pc \in Forward \cup {"idle"} => forgotten = None
  /\ rescue \in {"recovered", "recovery-incomplete", "recovery-blocked"} => run.pc \in Ended

Clear == (\A n \in Names : Away(n)) /\ (\A k \in Owners : Still(k))
AllThere ==
  /\ \A n \in Names : /\ live[n] # None /\ ~live[n].going
                      /\ live[n].by = "run" => ~live[n].tag
  /\ \A k \in Owners : ~kust[k].susp
Claims ==
  /\ receipt.status = "rolled-back" \/ rescue = "recovered" => Clear
  /\ run.pc = "commit" \/ Won => AllThere
  /\ WhatIsLeftIsNamed

ActivationInv ==
  /\ TypeOK /\ Owning /\ OwnDeletes /\ Places /\ Asks /\ Quietly /\ Pushing /\ Kept
  /\ Isolated /\ Phases /\ Ahead /\ Named /\ Papers /\ Claims
-----
\* What a step of the process leaves alone.

\* What the process cannot change by itself.
World == <<live, kust, drift, stray, passes>>

\* What the activation keeps from its first failure on, and a recovery from
\* its proofs on.
Steady ==
  /\ run' \in Memory
  /\ run'.mode = run.mode /\ run'.own = run.own /\ run'.unsure = run.unsure
  /\ run'.begun = run.begun /\ run'.base = run.base

\* The facts about the world that do not speak of the process.
LEMMA KeepIsolated ==
  ASSUME Isolated, UNCHANGED <<live, kust, net, stray>>, Unseen => Unseen'
  PROVE  Isolated'
BY DEF Isolated, MayRun, Ours, Applying, Unseen

LEMMA KeepWorld ==
  ASSUME Owning, OwnDeletes, UNCHANGED <<live, kust, net>>
  PROVE  Owning' /\ OwnDeletes'
BY DEF Owning, OwnDeletes, Applies

LEMMA KeepNamed ==
  ASSUME Named, UNCHANGED <<live, net, stray, forgotten>>, Unseen => Unseen',
         Heads' => Heads, run.own \subseteq run'.own,
         run'.unsure = run.unsure \/ run.unsure \in run'.own \cup {None},
         NoneIsApart
  PROVE  Named'
<1> SUFFICES ASSUME Heads', NEW n \in Names,
                    \/ live[n] # None /\ live[n].by = "run"
                    \/ ~Unseen /\ [op |-> "create", at |-> n] \in net
             PROVE  n \in run'.own \cup {run'.unsure, forgotten} \cup stray
  BY DEF Named
<1>1. n \in run.own \cup {run.unsure, forgotten} \cup stray
  BY DEF Named
<1>2. n # None
  BY NoneIsApart
<1> QED BY <1>1, <1>2

\* A step within the rollback.
LEMMA RollbackStep ==
  ASSUME ActivationInv, run.pc \in RollingBack \ {"settle"}, run'.pc \in RollingBack,
         Steady, Places', Asks', Phases', UNCHANGED World, faults' \in 0..MaxFaults,
         Unseen => Unseen',
         UNCHANGED <<net, receipt, rescue, forgotten, rescues>>
  PROVE  ActivationInv'
<1> USE RollingBackIs
<1>1. run.begun
  BY DEF ActivationInv, Places
<1>2. TypeOK'
  BY DEF ActivationInv, TypeOK, World, Steady
<1>3. Owning' /\ OwnDeletes' /\ Isolated'
  BY KeepIsolated, KeepWorld DEF ActivationInv, World
<1>4. Quietly'
  BY <1>1 DEF Quietly, Steady
<1>5. Pushing' /\ Kept' /\ Ahead'
  BY DEF Pushing, Kept, Ahead, Won, Forward, Creating, Owned
<1>6. Heads' => Heads
  BY DEF Heads, Steady
<1>7. Named'
  BY <1>6, KeepNamed, NoneIsApart DEF ActivationInv, World, Steady
<1>8. Papers'
  BY DEF ActivationInv, Papers, Heads, Steady, Ended, Forward
<1>9. Claims'
  <2>1. ~Won' /\ run'.pc # "commit"
    BY DEF Won
  <2>2. (receipt.status = "rolled-back" \/ rescue = "recovered") => Clear'
    BY DEF ActivationInv, Claims, Clear, Away, Still, Ours, Applying, World
  <2>3. WhatIsLeftIsNamed'
    BY DEF ActivationInv, Claims, WhatIsLeftIsNamed, World
  <2> QED BY <2>1, <2>2, <2>3 DEF Claims
<1> QED BY <1>2, <1>3, <1>4, <1>5, <1>7, <1>8, <1>9 DEF ActivationInv

\* A step of the activation forward, that only reads.
LEMMA ForwardStep ==
  ASSUME ActivationInv, run.pc \in Forward, run'.pc \in Forward \ {"preflight"},
         run' \in Memory, run'.mode = "activate", ~run'.quiet, run'.begun \/ ~run.begun,
         UNCHANGED World, faults' \in 0..MaxFaults,
         Places', Asks', Ahead', run.own \subseteq run'.own,
         run'.own \subseteq run.own \/ (run'.own = run.own \cup {This}
                      /\ live[This] # None /\ ~live[This].going),
         run'.unsure = run.unsure \/ run.unsure \in run'.own \cup {None},
         run'.pc = "commit" => AllThere',
         UNCHANGED <<net, receipt, rescue, forgotten, rescues>>
  PROVE  ActivationInv'
<1>1. TypeOK'
  BY DEF ActivationInv, TypeOK, World
<1>2. ~Unseen /\ ~Unseen' /\ run.pc \notin Ended /\ run'.pc \notin Ended
  BY DEF ActivationInv, Places, Unseen, Ended, Forward
<1>3. Owning' /\ OwnDeletes' /\ Isolated'
  BY <1>2, KeepIsolated, KeepWorld DEF ActivationInv, World
<1>4. Quietly'
  BY DEF Quietly, ActivationInv, Places, Forward, World, Pristine, Ours
<1>5. Pushing'
  BY <1>2 DEF ActivationInv, Pushing, Won, Ended, Onward
<1>6. Kept'
  BY DEF ActivationInv, Kept, World
<1>7. Heads' => Heads
  BY <1>2 DEF ActivationInv, Places, Heads, Forward
<1>8. Named'
  BY <1>2, <1>7, KeepNamed, NoneIsApart DEF ActivationInv, World
<1>9. Phases'
  <2>1. run'.pc \notin RollingBack
    BY RollingBackIs DEF Forward
  <2> QED BY <2>1, RollingBackIs DEF Phases, RollingBack
<1>10. Papers'
  BY <1>2, RollingBackIs DEF ActivationInv, Papers, Heads, Places, Ended, Forward
<1>11. Claims'
  <2>1. ~Won'
    BY <1>2 DEF Won, Ended
  <2>2. (receipt.status = "rolled-back" \/ rescue = "recovered") => Clear'
    BY DEF ActivationInv, Claims, Clear, Away, Still, Ours, Applying, World
  <2>3. WhatIsLeftIsNamed'
    BY DEF ActivationInv, Claims, WhatIsLeftIsNamed, World
  <2> QED BY <2>1, <2>2, <2>3 DEF Claims
<1> QED BY <1>1, <1>3, <1>4, <1>5, <1>6, <1>8, <1>9, <1>10, <1>11 DEF ActivationInv

-----
\* The failure of the activation.

\* What Fail makes of a memory.
LEMMA FailMemory ==
  ASSUME NEW r \in Memory, run' = Fail(r)
  PROVE  /\ run' \in Memory /\ run'.mode = r.mode /\ run'.own = r.own
         /\ run'.begun = r.begun /\ run'.quiet = r.quiet /\ run'.asked = None
         /\ run'.unsure = r.unsure
         /\ run'.pc = (IF ~r.begun THEN "settle" ELSE IF r.unsure # None THEN "rediscover" ELSE "bind")
<1> DEFINE p == IF ~r.begun THEN "settle" ELSE IF r.unsure # None THEN "rediscover" ELSE "bind"
<1>1. run' = [r EXCEPT !.asked = None, !.answer = None, !.pc = p]
  BY DEF Fail, Heard, Memory
<1>2. p \in Forward \cup RollingBack \cup Ended \cup {"rediscover", "rescue"}
  BY RollingBackIs
<1> HIDE DEF p
<1>3. run' \in Memory /\ run'.pc = p /\ run'.asked = None
        /\ run'.mode = r.mode /\ run'.own = r.own /\ run'.begun = r.begun
        /\ run'.quiet = r.quiet /\ run'.unsure = r.unsure
  BY <1>1, <1>2 DEF Memory
<1> QED BY <1>3 DEF p

\* The except clause of activate: whatever the run was doing, what it has
\* proved by then is what the rollback may start from.
LEMMA FailStep ==
  ASSUME ActivationInv, run.pc \in Forward,
         NEW r, r = run \/ r = [run EXCEPT !.unsure = None], run' = Fail(r),
         Named', UNCHANGED World, faults' \in 0..MaxFaults,
         forgotten' \in Names \cup {None}, receipt' \in Receipts,
         receipt'.status \in {"reserved", "activated"},
         UNCHANGED <<net, rescue, rescues>>
  PROVE  ActivationInv'
<1> USE RollingBackIs
<1>1. /\ run' \in Memory /\ run'.mode = "activate" /\ run'.own = run.own
      /\ run'.begun = run.begun /\ ~run'.quiet /\ run'.asked = None
      /\ run'.pc = (IF ~run.begun THEN "settle" ELSE IF r.unsure # None THEN "rediscover" ELSE "bind")
      /\ run'.unsure = r.unsure
  <2>1. run \in Memory /\ run.mode = "activate" /\ ~run.quiet
    BY DEF ActivationInv, TypeOK, Places, Early
  <2>2. r \in Memory /\ r.mode = run.mode /\ r.own = run.own /\ r.begun = run.begun /\ r.quiet = run.quiet
    BY <2>1 DEF Memory
  <2> QED BY <2>1, <2>2, FailMemory
<1>2. TypeOK'
  BY <1>1 DEF ActivationInv, TypeOK, World
<1>3. ~Unseen /\ run.pc \notin Ended /\ run'.pc \notin Ended /\ Heads
  BY <1>1 DEF ActivationInv, Places, Unseen, Ended, Forward, Heads
<1>4. Owning' /\ OwnDeletes' /\ Isolated'
  BY <1>3, KeepIsolated, KeepWorld DEF ActivationInv, World
<1>5. Quietly'
  BY <1>1, <1>3 DEF Quietly, ActivationInv, Places, Forward, World, Pristine, Ours, Ended
<1>6. Pushing'
  BY <1>3 DEF ActivationInv, Pushing, Won, Ended, Onward
<1>7. Kept'
  BY <1>1 DEF ActivationInv, Kept, World
<1>8. Ahead'
  BY <1>1 DEF Ahead, Creating, Owned
<1>9. Places'
  BY <1>1 DEF Places, Forward, Early, Creating, Owned, Handing
<1>10. Asks'
  BY <1>1, NoneIsApart DEF Asks
<1>11. Phases'
  <2>1. \A i \in DOMAIN Stages : run'.pc = Stages[i] /\ run'.begun => i = 1
    <3> SUFFICES ASSUME NEW i \in 1..14, run'.pc = Stages[i], run'.begun PROVE i = 1
      BY StageFacts
    <3>1. i \in {1,2,3,4,5,6,7,8,9,10,11,12,13,14}
      OBVIOUS
    <3>2. Stages[i] \in {"rediscover", "bind"}
      BY <1>1
    <3> QED BY <3>1, <3>2, StageFacts
  <2>2. Passed(run, 0)'
    BY <1>1 DEF Passed
  <2> QED BY <1>1, <2>1, <2>2 DEF Phases
<1>12. Papers'
  BY <1>1, <1>3, NoneIsApart DEF ActivationInv, Papers, Heads, Places, Ended, Forward
<1>13. Claims'
  <2>1. ~Won' /\ run'.pc # "commit"
    BY <1>1 DEF Won
  <2>2. rescue # "recovered"
    BY <1>3, NoneIsApart DEF ActivationInv, Papers, Heads
  <2> QED BY <2>1, <2>2 DEF Claims, WhatIsLeftIsNamed
<1> QED BY <1>2, <1>4, <1>5, <1>6, <1>7, <1>8, <1>9, <1>10, <1>11, <1>12, <1>13, Named' DEF ActivationInv

-----
\* From one phase of the rollback to the next.

\* Which phases may be skipped, in terms of the memory.
LEMMA DueIs ==
  ASSUME NEW r
  PROVE  /\ Due("quiet", r) <=> r.auth
         /\ Due("ingressAgain", r) <=> Ingress \in r.own /\ ~r.err
         /\ Due("serviceAgain", r) <=> r.auth /\ Service \in r.own
         /\ Due("unbound", r) <=> UnboundDue(r)
         /\ Due("delete", r) <=> RestDue(r)
         /\ Due("absent", r) <=> ~r.err
BY DEF Due

LEMMA StagesDiffer ==
  ASSUME NEW i \in 1..14, NEW j \in 1..14, Stages[i] = Stages[j]
  PROVE  i = j
<1>1. i \in {1,2,3,4,5,6,7,8,9,10,11,12,13,14} /\ j \in {1,2,3,4,5,6,7,8,9,10,11,12,13,14}
  OBVIOUS
<1> QED BY <1>1, StageFacts

\* What Advance makes of a memory.
LEMMA PastMemory ==
  ASSUME NEW i \in 1..13, NEW r \in Memory, run' = Advance(i, r)
  PROVE  \E j \in i+1..14 :
           /\ Due(Stages[j], r) /\ \A h \in i+1..j-1 : ~Due(Stages[h], r)
           /\ run' \in Memory /\ run'.pc = Stages[j] /\ run'.at = 1
           /\ run'.left = (IF Stages[j] = "delete" THEN Remaining(r) ELSE {})
           /\ run'.mode = r.mode /\ run'.own = r.own /\ run'.unsure = r.unsure
           /\ run'.begun = r.begun /\ run'.base = r.base /\ run'.asked = r.asked
           /\ run'.auth = r.auth /\ run'.err = r.err /\ run'.quiet = r.quiet
<1>1. PICK j \in i+1..14 :
           /\ Due(Stages[j], r) /\ \A h \in i+1..j-1 : ~Due(Stages[h], r)
           /\ Advance(i, r) = [r EXCEPT !.pc = Stages[j], !.step = "look", !.at = 1,
                                 !.left = IF Stages[j] = "delete" THEN Remaining(r) ELSE {}]
  BY AdvanceIs, Zenon
<1> DEFINE p == Stages[j]  l == IF Stages[j] = "delete" THEN Remaining(r) ELSE {}
<1>2. p \in Forward \cup RollingBack \cup Ended \cup {"rediscover", "rescue"}
  BY StageFacts DEF RollingBack
<1>3. l \in SUBSET Names
  BY DEF Memory, Remaining
<1>4. 1 \in 0..Len(Order)
  BY OrderFacts
<1>5. run' = [r EXCEPT !.pc = p, !.step = "look", !.at = 1, !.left = l]
  BY <1>1
<1> HIDE DEF p, l
<1>6. /\ run' \in Memory /\ run'.pc = p /\ run'.at = 1 /\ run'.left = l
      /\ run'.mode = r.mode /\ run'.own = r.own /\ run'.unsure = r.unsure
      /\ run'.begun = r.begun /\ run'.base = r.base /\ run'.asked = r.asked
      /\ run'.auth = r.auth /\ run'.err = r.err /\ run'.quiet = r.quiet
  BY <1>2, <1>3, <1>4, <1>5, ZenonT(60) DEF Memory
<1> QED BY <1>1, <1>6 DEF p, l

\* A phase ends: what it had to establish, with what the phases that are not
\* due say by that, is what the next one starts from.
LEMMA PastStep ==
  ASSUME ActivationInv, NEW i \in 1..13, run.pc = Stages[i],
         NEW r \in Memory, r.mode = run.mode, r.own = run.own, r.unsure = run.unsure,
         r.begun = run.begun, r.base = run.base, r.asked = None, Passed(r, i),
         run' = Past(r), UNCHANGED World, faults' \in 0..MaxFaults,
         UNCHANGED <<net, receipt, rescue, forgotten, rescues>>
  PROVE  ActivationInv'
<1>1. i \in 1..14 /\ Here = i
  BY HereIs
<1>2. PICK j \in i+1..14 :
           /\ Due(Stages[j], r) /\ \A h \in i+1..j-1 : ~Due(Stages[h], r)
           /\ run' \in Memory /\ run'.pc = Stages[j] /\ run'.at = 1
           /\ run'.left = (IF Stages[j] = "delete" THEN Remaining(r) ELSE {})
           /\ run'.mode = r.mode /\ run'.own = r.own /\ run'.unsure = r.unsure
           /\ run'.begun = r.begun /\ run'.base = r.base /\ run'.asked = r.asked
           /\ run'.auth = r.auth /\ run'.err = r.err /\ run'.quiet = r.quiet
  BY <1>1, PastMemory DEF Past
<1>3. j \in 1..14
  OBVIOUS
<1>4. i \in {1,2,3,4,5,6,7,8,9,10,11,12,13} /\ j \in {2,3,4,5,6,7,8,9,10,11,12,13,14}
  OBVIOUS
<1>5. run.pc \in RollingBack \ {"settle"} /\ run'.pc \in RollingBack
  <2>1. Stages[i] # "settle"
    BY <1>4, StageFacts
  <2> QED BY <1>2, <1>3, <2>1, StageFacts DEF RollingBack
<1>6. run.begun
  BY <1>5 DEF ActivationInv, Places
<1>7. Steady
  BY <1>2 DEF Steady
<1>8. Unseen => Unseen'
  <2>1. run'.pc \in {"quiet", "ingressAgain", "serviceAgain", "unbound", "delete", "absent", "flux",
                     "preserved", "rebind", "settle"} \/ j < 5
    BY <1>2, <1>4, StageFacts
  <2>2. run.pc \notin {"quiet", "ingressAgain", "serviceAgain", "unbound", "delete", "absent", "flux",
                     "preserved", "rebind", "settle"} \cup Ended \/ i >= 5
    BY <1>4, StageFacts DEF Ended
  <2> QED BY <1>2, <2>1, <2>2 DEF Unseen
<1>9. /\ i < 5 /\ 5 <= j - 1 => ~r.auth
      /\ i < 6 /\ 6 <= j - 1 => ~(Ingress \in r.own /\ ~r.err)
      /\ i < 7 /\ 7 <= j - 1 => ~(r.auth /\ Service \in r.own)
      /\ i < 8 /\ 8 <= j - 1 => ~UnboundDue(r)
      /\ i < 10 /\ 10 <= j - 1 => r.err
  <2>1. \A h \in {5, 6, 7, 8, 10} : i < h /\ h <= j - 1 => ~Due(Stages[h], r)
    BY <1>2
  <2> QED BY <2>1, StageFacts, DueIs
<1>10. Passed(r, j - 1)
  BY <1>9, <1>4 DEF Passed, UnboundDue
<1>11. Passed(run, j - 1)'
  BY <1>2, <1>10 DEF Passed, World, Still, Away, Applying, Ours
<1>12. run'.pc = "delete" => RestDue(r)
  BY <1>2, DueIs
<1>12a. run'.pc # "bind"
  BY <1>2, <1>4, StageFacts
<1>13. Places'
  BY <1>2, <1>5, <1>12a, <1>6, <1>12, RollingBackIs, OrderFacts
     DEF ActivationInv, Places, Forward, Early, Creating, Owned, Handing, RestDue, Remaining
<1>14. Asks'
  BY <1>2, <1>5, RollingBackIs, NoneIsApart DEF Asks
<1>15. Phases'
  <2>1. \A h \in DOMAIN Stages : run'.pc = Stages[h] /\ run'.begun => Passed(run, h - 1)'
    <3> SUFFICES ASSUME NEW h \in 1..14, run'.pc = Stages[h] PROVE Passed(run, h - 1)'
      BY StageFacts
    <3>1. h = j
      BY <1>2, <1>3, StagesDiffer
    <3> QED BY <1>11, <3>1
  <2>2. run'.pc = "quiet" => run'.auth /\ run'.at # 2
    BY <1>2, DueIs
  <2>3. run'.pc = "delete" => /\ run'.quiet /\ ~run'.err
                              /\ Deployment \in run'.own \ run'.left => Away(Deployment)'
    BY <1>2, <1>12 DEF RestDue, Remaining, Deployment, Ingress, Service
  <2>4. run'.mode = "B" /\ run'.pc \in RollingBack =>
       \A k \in Owners : /\ run'.base[k] <= kust'[k].rv
                         /\ kust'[k].rv = run'.base[k] => kust'[k].susp /\ ~Applying(k)'
    BY <1>5, <1>7 DEF ActivationInv, Phases, World, Steady, Applying
  <2> QED BY <2>1, <2>2, <2>3, <2>4 DEF Phases
<1> QED BY <1>5, <1>7, <1>8, <1>13, <1>14, <1>15, RollbackStep

-----
\* The rollback, action by action.

\* The process is in phase number i.
LEMMA InPhase ==
  ASSUME ActivationInv, NEW i \in 1..13, run.pc = Stages[i]
  PROVE  Passed(run, i - 1) /\ run.begun /\ run \in Memory
<1>1. i \in {1,2,3,4,5,6,7,8,9,10,11,12,13} /\ i \in 1..14
  OBVIOUS
<1>2. run.pc \in RollingBack \ {"settle"}
  BY <1>1, StageFacts DEF RollingBack
<1>3. run.begun
  BY <1>2 DEF ActivationInv, Places
<1> QED BY <1>1, <1>3, StageFacts DEF ActivationInv, Phases, TypeOK

\* An answer that is taken note of changes nothing else.
LEMMA HeardMemory ==
  ASSUME NEW m \in Memory
  PROVE  /\ Heard(m) \in Memory /\ Heard(m).mode = m.mode /\ Heard(m).own = m.own
         /\ Heard(m).unsure = m.unsure /\ Heard(m).begun = m.begun /\ Heard(m).base = m.base
         /\ Heard(m).asked = None /\ Heard(m).err = m.err /\ Heard(m).quiet = m.quiet
         /\ Heard(m).auth = m.auth
BY DEF Memory, Heard

LEMMA ErringMemory ==
  ASSUME NEW m \in Memory, NEW e, e = [m EXCEPT !.err = TRUE]
  PROVE
         /\ e \in Memory /\ e.mode = m.mode /\ e.own = m.own
         /\ e.unsure = m.unsure /\ e.begun = m.begun /\ e.base = m.base
         /\ e.asked = m.asked /\ e.err /\ e.quiet = m.quiet /\ e.auth = m.auth
BY DEF Memory

\* A phase that ends with an error: nothing but the bookkeeping is claimed.
LEMMA ErringStep ==
  ASSUME ActivationInv, NEW i \in 1..13, run.pc = Stages[i],
         NEW r, r = run \/ r = Heard(run) , run.asked = None \/ r = Heard(run),
         run' = Erring(r), UNCHANGED World, faults' \in 0..MaxFaults,
         UNCHANGED <<net, receipt, rescue, forgotten, rescues>>
  PROVE  ActivationInv'
<1> DEFINE e == [r EXCEPT !.err = TRUE]
<1>1. Passed(run, i - 1) /\ run.begun /\ run \in Memory
  BY InPhase
<1>2. e \in Memory /\ e.mode = run.mode /\ e.own = run.own /\ e.unsure = run.unsure
      /\ e.begun = run.begun /\ e.base = run.base /\ e.asked = None /\ e.err
      /\ e.quiet = run.quiet /\ e.auth = run.auth
  <2>1. r \in Memory /\ r.mode = run.mode /\ r.own = run.own /\ r.unsure = run.unsure
        /\ r.begun = run.begun /\ r.base = run.base /\ r.asked = None
        /\ r.quiet = run.quiet /\ r.auth = run.auth
    BY <1>1, HeardMemory
  <2> HIDE DEF e
  <2> QED BY <2>1, ErringMemory DEF e
<1>3. Passed(e, i)
  BY <1>1, <1>2 DEF Passed
<1>4. run' = Past(e)
  BY DEF Erring
<1> HIDE DEF e
<1> QED BY <1>2, <1>3, <1>4, PastStep

\* A phase that ends well.
LEMMA PassingStep ==
  ASSUME ActivationInv, NEW i \in 1..13, run.pc = Stages[i],
         NEW r, r = run \/ r = Heard(run) , run.asked = None \/ r = Heard(run),
         Passed(run, i), run' = Past(r), UNCHANGED World, faults' \in 0..MaxFaults,
         UNCHANGED <<net, receipt, rescue, forgotten, rescues>>
  PROVE  ActivationInv'
<1>1. run \in Memory
  BY InPhase
<1>2. r \in Memory /\ r.mode = run.mode /\ r.own = run.own /\ r.unsure = run.unsure
      /\ r.begun = run.begun /\ r.base = run.base /\ r.asked = None /\ r.err = run.err
      /\ r.quiet = run.quiet /\ r.auth = run.auth
  BY <1>1, HeardMemory
<1>3. Passed(r, i)
  BY <1>1, <1>2 DEF Passed
<1> QED BY <1>2, <1>3, PastStep

\* What Local, Unproved and Failing leave alone.
LEMMA LocalFrame ==
  ASSUME ActivationInv, NEW r, Local(r)
  PROVE  /\ run' = r /\ UNCHANGED World /\ faults' \in 0..MaxFaults
         /\ UNCHANGED <<net, receipt, rescue, forgotten, rescues>>
BY DEF ActivationInv, TypeOK, Local, Becomes, World

\* ... and so does a proof that did not hold, but for the failures.
LEMMA UnprovedFrame ==
  ASSUME ActivationInv, NEW r, NEW P, Unproved(P, r)
  PROVE  /\ run' = r /\ UNCHANGED World /\ faults' \in 0..MaxFaults
         /\ UNCHANGED <<net, receipt, rescue, forgotten, rescues>>
BY ActivationConstants DEF ActivationInv, TypeOK, Unproved, Failing, Becomes, World

\* Without the proof of the cluster nothing may be called quiet.
LEMMA BindClusterStep == ASSUME ActivationInv, BindCluster PROVE ActivationInv'
<1> DEFINE g == [run EXCEPT !.auth = TRUE]
           b == [run EXCEPT !.auth = FALSE, !.err = TRUE]
<1>1. 1 \in 1..13 /\ run.pc = Stages[1] /\ run.pc = "bind"
  BY StageFacts DEF BindCluster
<1>2. run \in Memory /\ run.asked = None /\ ~run.quiet
  BY <1>1 DEF ActivationInv, TypeOK, Asks, Deleting, Places, Early
<1>3. CASE run' = Past(g) /\ Local(Past(g))
  <2>1. /\ g \in Memory /\ g.mode = run.mode /\ g.own = run.own /\ g.unsure = run.unsure
        /\ g.begun = run.begun /\ g.base = run.base /\ g.asked = None /\ g.auth /\ ~g.quiet
    BY <1>2, ZenonT(60) DEF Memory
  <2> HIDE DEF g
  <2>2. Passed(g, 1)
    BY <2>1 DEF Passed
  <2> QED BY <1>1, <1>3, <2>1, <2>2, PastStep, LocalFrame
<1>4. CASE Unproved(ClusterBound, Past(b))
  <2>1. /\ b \in Memory /\ b.mode = run.mode /\ b.own = run.own /\ b.unsure = run.unsure
        /\ b.begun = run.begun /\ b.base = run.base /\ b.asked = None /\ b.err /\ ~b.quiet
    BY <1>2, ZenonT(60) DEF Memory
  <2> HIDE DEF b
  <2>2. Passed(b, 1)
    BY <2>1 DEF Passed
  <2>3. run' = Past(b) /\ UNCHANGED World /\ faults' \in 0..MaxFaults
        /\ UNCHANGED <<net, receipt, rescue, forgotten, rescues>>
    BY <1>4, UnprovedFrame
  <2> QED BY <1>1, <2>1, <2>2, <2>3, PastStep
<1>5. Local(Past(g)) => run' = Past(g)
  BY DEF Local, Becomes
<1> QED BY <1>3, <1>4, <1>5 DEF BindCluster

\* A step that stays in its phase.
LEMMA WithinStep ==
  ASSUME ActivationInv, NEW i \in 1..13, run.pc = Stages[i], Steady,
         run'.pc = run.pc, run'.quiet = run.quiet, run'.auth = run.auth,
         run'.err = run.err \/ (run'.err /\ run.pc # "delete"),
         run.pc \in {"suspend", "quiet", "flux"} => run'.at \in 1..2,
         run.pc = "quiet" /\ run'.at = 2 => Still("gateway"),
         run.pc = "delete" => /\ run'.left # {} /\ run'.left \subseteq run.own
                              /\ Deployment \in run.own \ run'.left => Away(Deployment),
         Asks', UNCHANGED World, faults' \in 0..MaxFaults,
         UNCHANGED <<net, receipt, rescue, forgotten, rescues>>
  PROVE  ActivationInv'
<1>1. i \in {1,2,3,4,5,6,7,8,9,10,11,12,13} /\ i \in 1..14
  OBVIOUS
<1>2. run.pc \in RollingBack \ {"settle"}
  BY <1>1, StageFacts DEF RollingBack
<1>3. Unseen => Unseen'
  BY DEF Unseen, Steady
<1>4. Places'
  BY <1>2, RollingBackIs
     DEF ActivationInv, Places, Steady, Forward, Early, Creating, Owned, Handing
<1>5. Phases'
  <2>1. \A h \in DOMAIN Stages : run'.pc = Stages[h] /\ run'.begun => Passed(run, h - 1)'
    <3> SUFFICES ASSUME NEW h \in 1..14, run'.pc = Stages[h] PROVE Passed(run, h - 1)'
      BY StageFacts
    <3>1. h = i
      BY <1>1, StagesDiffer
    <3>2. Passed(run, i - 1)
      BY InPhase
    <3> QED BY <3>1, <3>2 DEF Passed, World, Still, Away, Applying, Ours, Steady
  <2>2. run'.pc = "quiet" => run'.auth /\ (run'.at = 2 => Still("gateway")')
    BY DEF Still, World, Applying, ActivationInv, Phases
  <2>3. run'.pc = "delete" => /\ run'.quiet /\ ~run'.err
                              /\ Deployment \in run'.own \ run'.left => Away(Deployment)'
    BY DEF ActivationInv, Phases, World, Away, Ours, Steady
  <2>4. run'.mode = "B" /\ run'.pc \in RollingBack =>
       \A k \in Owners : /\ run'.base[k] <= kust'[k].rv
                         /\ kust'[k].rv = run'.base[k] => kust'[k].susp /\ ~Applying(k)'
    BY DEF ActivationInv, Phases, World, Steady, Applying
  <2> QED BY <2>1, <2>2, <2>3, <2>4 DEF Phases
<1> QED BY <1>2, <1>3, <1>4, <1>5, RollbackStep

\* The rest is deleted from the last name on, the Deployment first.
LEMMA TargetIs ==
  ASSUME ActivationInv, run.pc \in Deleting
  PROVE  /\ Target \in Names
         /\ run.pc \in {"ingress", "ingressAgain"} => Target = Ingress
         /\ run.pc \in {"service", "serviceAgain"} => Target = Service
         /\ run.pc = "delete" => /\ Target \in run.left
                                 /\ Target # Deployment => Deployment \notin run.left
<1>1. CASE run.pc # "delete"
  BY <1>1, OrderFacts DEF Target, Deleting
<1>2. CASE run.pc = "delete"
  <2>1. run.left # {} /\ run.left \subseteq Names
    BY <1>2 DEF ActivationInv, Places, TypeOK, Memory
  <2>2. CASE Deployment \in run.left
    BY <1>2, <2>1, <2>2 DEF Target
  <2>3. CASE Deployment \notin run.left
    <3> DEFINE T == {Len(Order) - i : i \in {j \in DOMAIN Order : Order[j] \in run.left}}
    <3>1. PICK n \in run.left : TRUE
      BY <2>1
    <3>2. PICK j \in DOMAIN Order : Order[j] = n
      BY <2>1, <3>1 DEF Names
    <3>3. T \subseteq Nat /\ T # {}
      BY <3>2, OrderFacts
    <3>4. PICK x \in T : \A y \in T : x <= y
      <4> HIDE DEF T
      <4> QED BY <3>3, Least
    <3>5. PICK i \in DOMAIN Order : x = Len(Order) - i /\ Order[i] \in run.left
      BY <3>4
    <3>6. \A h \in i+1..Len(Order) : Order[h] \notin run.left
      <4> SUFFICES ASSUME NEW h \in i+1..Len(Order), Order[h] \in run.left PROVE FALSE
        OBVIOUS
      <4>1. Len(Order) - h \in T
        BY <3>5, OrderFacts
      <4> HIDE DEF T
      <4> QED BY <3>4, <3>5, <4>1, OrderFacts
    <3> DEFINE c == CHOOSE i_1 \in DOMAIN Order :
                             /\ Order[i_1] \in run.left
                             /\ \A h \in i_1+1..Len(Order) : Order[h] \notin run.left
    <3>7. c \in DOMAIN Order /\ Order[c] \in run.left
      BY <3>5, <3>6
    <3>8. Target = Order[c]
      BY <1>2, <2>3 DEF Target
    <3> HIDE DEF c
    <3> QED BY <1>2, <2>1, <2>3, <3>7, <3>8
  <2> QED BY <2>2, <2>3
<1> QED BY <1>1, <1>2

\* Five of the phases delete.
LEMMA DeletingStage ==
  ASSUME run.pc \in Deleting
  PROVE  \E i \in {2, 3, 6, 7, 9} : run.pc = Stages[i]
BY StageFacts DEF Deleting

\* The target of a phase is absent.
LEMMA DeletedStep ==
  ASSUME ActivationInv, run.pc \in Deleting, run.asked = None,
         live[Target] = None, Local(Deleted)
  PROVE  ActivationInv'
<1>1. run' = Deleted /\ UNCHANGED World /\ faults' \in 0..MaxFaults
         /\ UNCHANGED <<net, receipt, rescue, forgotten, rescues>>
  BY LocalFrame
<1>2. PICK i \in {2, 3, 6, 7, 9} : run.pc = Stages[i]
  BY DeletingStage
<1>3. i \in 1..13
  OBVIOUS
<1>4. Passed(run, i - 1) /\ run.begun /\ run \in Memory
  BY <1>2, <1>3, InPhase
<1>5. Passed(run, i)
  <2>1. i = 6 => Away(Ingress)
    BY <1>2, StageFacts, TargetIs DEF Away, Ours
  <2>2. i = 7 => Away(Service)
    BY <1>2, StageFacts, TargetIs DEF Away, Ours
  <2> QED BY <1>4, <2>1, <2>2 DEF Passed
<1>6. CASE i = 3
  <2> DEFINE r == [Heard(run) EXCEPT !.broken = TRUE]
  <2>1. run' = Past(r)
    BY <1>1, <1>2, <1>6, StageFacts DEF Deleted
  <2>2. /\ r \in Memory /\ r.mode = run.mode /\ r.own = run.own /\ r.unsure = run.unsure
        /\ r.begun = run.begun /\ r.base = run.base /\ r.asked = None
        /\ r.auth = run.auth /\ r.err = run.err /\ r.quiet = run.quiet
    <3>1. r = [run EXCEPT !.asked = None, !.answer = None, !.broken = TRUE]
      BY <1>4 DEF Heard, Memory
    <3> HIDE DEF r
    <3> QED BY <1>4, <3>1 DEF Memory
  <2> HIDE DEF r
  <2>3. Passed(r, i)
    BY <1>5, <2>2 DEF Passed
  <2> QED BY <1>1, <1>2, <1>3, <2>1, <2>2, <2>3, PastStep
<1>7. CASE i = 9 /\ run.left # {Target}
  <2>1. run.pc = "delete"
    BY <1>2, <1>7, StageFacts
  <2>2. run' = [Heard(run) EXCEPT !.left = @ \ {Target}, !.step = "look"]
    BY <1>1, <1>7, <2>1 DEF Deleted
  <2>3. run' = [run EXCEPT !.asked = None, !.answer = None, !.left = run.left \ {Target}, !.step = "look"]
    BY <1>4, <2>2 DEF Heard, Memory
  <2>4. /\ run' \in Memory /\ run'.mode = run.mode /\ run'.own = run.own /\ run'.unsure = run.unsure
        /\ run'.begun = run.begun /\ run'.base = run.base /\ run'.asked = None
        /\ run'.auth = run.auth /\ run'.err = run.err /\ run'.quiet = run.quiet
        /\ run'.pc = run.pc /\ run'.left = run.left \ {Target}
    <3> HIDE <1>1, <1>2
    <3> QED BY <1>4, <2>3 DEF Memory
  <2>5. /\ run'.left # {} /\ run'.left \subseteq run.own
        /\ Deployment \in run.own \ run'.left => Away(Deployment)
    BY <1>7, <2>1, <2>4, TargetIs DEF ActivationInv, Places, Phases, Away, Ours
  <2>6. Asks'
    BY <2>1, <2>4 DEF Asks
  <2>7. Steady
    BY <2>4 DEF Steady
  <2> QED BY <1>1, <1>2, <1>3, <2>1, <2>4, <2>5, <2>6, <2>7, WithinStep
<1>8. CASE i # 3 /\ ~(i = 9 /\ run.left # {Target})
  <2>1. run' = Past(Heard(run))
    BY <1>1, <1>2, <1>8, StageFacts DEF Deleted
  <2> QED BY <1>1, <1>2, <1>3, <1>5, <2>1, PassingStep
<1> QED BY <1>6, <1>7, <1>8

\* A request that takes something back is sent: a DELETE of what was read, or
\* the suspension of a Kustomization.
LEMMA BackSend ==
  ASSUME ActivationInv, NEW i \in 1..13, run.pc = Stages[i],
         run.pc \in Deleting \cup {"suspend"}, NEW q \in Requests,
         Send([run EXCEPT !.step = "sent"], q),
         run.pc \in Deleting => /\ q.op = "delete" /\ q.at = Target
                                /\ live[Target] # None /\ q.seen = live[Target]
                                /\ live[Target].by = "run",
         run.pc = "suspend" => q.op = "patch" /\ q.susp
  PROVE  ActivationInv'
<1>1. i \in {1,2,3,4,5,6,7,8,9,10,11,12,13} /\ i \in 1..14
  OBVIOUS
<1>2. run.pc \in RollingBack \ {"settle"}
  BY <1>1, StageFacts DEF RollingBack
<1>3. Passed(run, i - 1) /\ run.begun /\ run \in Memory
  BY InPhase
<1>4. /\ net' = net \cup {q} /\ UNCHANGED World
      /\ UNCHANGED <<receipt, rescue, forgotten, rescues, faults>>
      /\ run' = [run EXCEPT !.step = "sent", !.asked = q, !.answer = None]
  BY <1>3 DEF Send, Becomes, World, Memory
<1>5. /\ run' \in Memory /\ run'.mode = run.mode /\ run'.own = run.own /\ run'.unsure = run.unsure
      /\ run'.begun = run.begun /\ run'.base = run.base /\ run'.asked = q
      /\ run'.auth = run.auth /\ run'.err = run.err /\ run'.quiet = run.quiet
      /\ run'.pc = run.pc /\ run'.left = run.left /\ run'.step = "sent" /\ run'.at = run.at
  BY <1>3, <1>4 DEF Memory
<1> HIDE DEF ActivationInv
<1>6. TypeOK'
  BY <1>4, <1>5 DEF ActivationInv, TypeOK, World
<1>7. Owning' /\ OwnDeletes'
  BY <1>4 DEF ActivationInv, Owning, OwnDeletes, Applies, World, Deleting
<1>8. Places'
  BY <1>2, <1>5, RollingBackIs
     DEF ActivationInv, Places, Forward, Early, Creating, Owned, Handing
<1>9. Asks'
  BY <1>5 DEF Asks, Deleting
<1>10. Quietly' /\ Pushing' /\ Kept' /\ Ahead'
  BY <1>2, <1>3, <1>5, RollingBackIs
     DEF Quietly, Pushing, Kept, Ahead, Won, Forward, Creating, Owned
<1>11. Phases'
  <2>1. \A h \in DOMAIN Stages : run'.pc = Stages[h] /\ run'.begun => Passed(run, h - 1)'
    <3> SUFFICES ASSUME NEW h \in 1..14, run'.pc = Stages[h] PROVE Passed(run, h - 1)'
      BY StageFacts
    <3>1. h = i
      BY <1>1, <1>5, StagesDiffer
    <3> QED BY <1>3, <1>4, <1>5, <3>1 DEF Passed, World, Still, Away, Applying, Ours
  <2>2. ~(run'.pc = "quiet")
    BY <1>5 DEF Deleting
  <2>3. run'.pc = "delete" => /\ run'.quiet /\ ~run'.err
                              /\ Deployment \in run'.own \ run'.left => Away(Deployment)'
    BY <1>4, <1>5 DEF ActivationInv, Phases, World, Away, Ours
  <2>4. run'.mode = "B" /\ run'.pc \in RollingBack =>
       \A k \in Owners : /\ run'.base[k] <= kust'[k].rv
                         /\ kust'[k].rv = run'.base[k] => kust'[k].susp /\ ~Applying(k)'
    BY <1>4, <1>5 DEF ActivationInv, Phases, World, Applying
  <2> QED BY <2>1, <2>2, <2>3, <2>4 DEF Phases
<1>12. Isolated'
  <2>1. CASE q.op = "delete" /\ q.at = Isolation
    <3>1. run.pc = "delete" /\ Isolation \in run.left /\ Deployment \notin run.left
      BY <2>1, TargetIs DEF Deleting, Isolation, Ingress, Service, Deployment
    <3>2. run.quiet /\ Still("gateway") /\ ~run.err /\ Isolation \in run.own
      BY <1>3, <3>1 DEF Passed, ActivationInv, Phases, Places, Owners
    <3>3. i = 9
      BY <1>1, <3>1, StageFacts
    <3>4. Away(Deployment)
      BY <1>3, <3>1, <3>2, <3>3 DEF Passed, ActivationInv, Phases
    <3>5. Unseen'
      BY <1>5, <3>1 DEF Unseen
    <3>6. {Deployment, "gateway"} \cap stray # {} \/ (~Ours(Deployment) /\ ~MayRun')
      BY <1>4, <3>2, <3>4, <3>5
         DEF Away, Still, MayRun, OwnerOf, Deployment, World, Applying
    <3> QED BY <1>4, <3>6 DEF Isolated, World, Ours
  <2>2. CASE ~(q.op = "delete" /\ q.at = Isolation)
    <3>1. Unseen = Unseen'
      BY <1>5 DEF Unseen
    <3>2. MayRun' => MayRun
      BY <1>4, <3>1 DEF MayRun, World, Applying, Deleting
    <3> QED BY <1>4, <2>2, <3>2 DEF ActivationInv, Isolated, World, Ours
  <2> QED BY <2>1, <2>2
<1>13. Named'
  <2>1. Unseen = Unseen' /\ Heads = Heads'
    BY <1>5 DEF Unseen, Heads
  <2> QED BY <1>4, <1>5, <2>1 DEF ActivationInv, Named, World, Deleting
<1>14. Papers'
  BY <1>2, <1>4, <1>5, RollingBackIs DEF ActivationInv, Papers, Heads, Ended
<1>15. Claims'
  <2>1. ~Won' /\ run'.pc # "commit"
    BY <1>2, <1>5, RollingBackIs DEF Won
  <2>2. (receipt.status = "rolled-back" \/ rescue = "recovered") => Clear'
    BY <1>4 DEF ActivationInv, Claims, Clear, Away, Still, Ours, Applying, World
  <2>3. WhatIsLeftIsNamed'
    BY <1>4 DEF ActivationInv, Claims, WhatIsLeftIsNamed, World
  <2> QED BY <1>4, <2>1, <2>2, <2>3 DEF Claims
<1> QED BY <1>6, <1>7, <1>8, <1>9, <1>10, <1>11, <1>12, <1>13, <1>14, <1>15 DEF ActivationInv

\* The look at a target: gone, ours and about to be deleted, or an error.
LEMMA LookStep == ASSUME ActivationInv, Look PROVE ActivationInv'
<1> DEFINE o == live[Target]  own == o # None /\ Deletable(Target)
           q == [op |-> "delete", at |-> Target, seen |-> o]
<1>1. run.pc \in Deleting /\ run.step = "look"
  BY DEF Look
<1>2. PICK i \in {2, 3, 6, 7, 9} : run.pc = Stages[i]
  BY <1>1, DeletingStage
<1>3. i \in 1..13 /\ run.asked = None
  BY <1>1 DEF ActivationInv, Asks
<1>4. CASE o = None /\ Local(Deleted)
  BY <1>1, <1>3, <1>4, DeletedStep
<1>5. CASE own /\ Send([run EXCEPT !.step = "sent"], q)
  <2>1. Target \in Names /\ live \in [Names -> Objects \cup {None}]
    BY <1>1, TargetIs DEF ActivationInv, TypeOK
  <2>2. o \in Objects /\ o # None /\ o.by = "run"
    BY <1>5, <2>1 DEF Deletable
  <2>3. q \in Requests /\ q.op = "delete" /\ q.at = Target /\ q.seen = live[Target]
    BY <2>1, <2>2 DEF Requests
  <2>4. run.pc # "suspend"
    BY <1>1 DEF Deleting
  <2> HIDE DEF q
  <2> QED BY <1>1, <1>2, <1>3, <1>5, <2>2, <2>3, <2>4, BackSend
<1>6. CASE Unproved(o = None \/ own, Erring(run))
  <2>1. run' = Erring(run) /\ UNCHANGED World /\ faults' \in 0..MaxFaults
        /\ UNCHANGED <<net, receipt, rescue, forgotten, rescues>>
    BY <1>6, UnprovedFrame
  <2> QED BY <1>2, <1>3, <2>1, ErringStep
<1> QED BY <1>4, <1>5, <1>6 DEF Look

\* Only an object that was deleted is waited for.
LEMMA DeleteAnsweredStep == ASSUME ActivationInv, DeleteAnswered PROVE ActivationInv'
<1> DEFINE r == IF run.answer = "ok" THEN [Heard(run) EXCEPT !.step = "gone"] ELSE Erring(Heard(run))
<1>1. run.pc \in Deleting
  BY DEF DeleteAnswered
<1>2. PICK i \in {2, 3, 6, 7, 9} : run.pc = Stages[i]
  BY <1>1, DeletingStage
<1>3. i \in 1..13
  OBVIOUS
<1>4. Local(r)
  BY DEF DeleteAnswered
<1>5. run' = r /\ UNCHANGED World /\ faults' \in 0..MaxFaults
      /\ UNCHANGED <<net, receipt, rescue, forgotten, rescues>>
  <2> HIDE DEF r
  <2> QED BY <1>4, LocalFrame
<1>6. CASE run.answer = "ok"
  <2>1. run \in Memory
    BY DEF ActivationInv, TypeOK
  <2>2. run' = [run EXCEPT !.asked = None, !.answer = None, !.step = "gone"]
    BY <1>5, <1>6, <2>1 DEF Heard, Memory
  <2>3. /\ run' \in Memory /\ run'.mode = run.mode /\ run'.own = run.own /\ run'.unsure = run.unsure
        /\ run'.begun = run.begun /\ run'.base = run.base /\ run'.asked = None
        /\ run'.auth = run.auth /\ run'.err = run.err /\ run'.quiet = run.quiet
        /\ run'.pc = run.pc /\ run'.left = run.left
    <3> HIDE <1>5
    <3> QED BY <2>1, <2>2 DEF Memory
  <2>4. run.pc = "delete" => /\ run'.left # {} /\ run'.left \subseteq run.own
                             /\ Deployment \in run.own \ run'.left => Away(Deployment)
    BY <2>3 DEF ActivationInv, Places, Phases
  <2>5. Asks'
    BY <1>1, <2>3 DEF Asks, Deleting
  <2>6. Steady
    BY <2>3 DEF Steady
  <2>7. run.pc \notin {"suspend", "quiet", "flux"}
    BY <1>1 DEF Deleting
  <2> QED BY <1>2, <1>3, <1>5, <2>3, <2>4, <2>5, <2>6, <2>7, WithinStep
<1>7. CASE run.answer # "ok"
  <2>1. run' = Erring(Heard(run))
    BY <1>5, <1>7
  <2> QED BY <1>2, <1>3, <1>5, <2>1, ErringStep
<1> QED BY <1>6, <1>7

\* A name that is not free at the deadline is an error.
LEMMA AwaitGoneStep == ASSUME ActivationInv, AwaitGone PROVE ActivationInv'
<1>1. run.pc \in Deleting /\ run.step = "gone" /\ run.asked = None
  BY DEF AwaitGone, ActivationInv, Asks
<1>2. PICK i \in {2, 3, 6, 7, 9} : run.pc = Stages[i]
  BY <1>1, DeletingStage
<1>3. i \in 1..13
  OBVIOUS
<1>4. CASE live[Target] = None
  <2>1. Local(Deleted)
    BY <1>4 DEF AwaitGone
  <2> QED BY <1>1, <1>4, <2>1, DeletedStep
<1>5. CASE live[Target] # None
  <2>1. Local(Erring(run))
    BY <1>5 DEF AwaitGone
  <2>2. run' = Erring(run) /\ UNCHANGED World /\ faults' \in 0..MaxFaults
        /\ UNCHANGED <<net, receipt, rescue, forgotten, rescues>>
    BY <2>1, LocalFrame
  <2> QED BY <1>1, <1>2, <1>3, <2>2, ErringStep
<1> QED BY <1>4, <1>5

\* What counts as quiet is suspended and applies nothing.
LEMMA CalmIs ==
  ASSUME ActivationInv, run.pc \in RollingBack, NEW k \in Owners, Calm(k)
  PROVE  kust[k].susp /\ ~Applying(k)
<1>1. CASE run.mode = "B"
  BY <1>1 DEF ActivationInv, Phases, Calm
<1>2. CASE run.mode # "B"
  BY <1>2 DEF ActivationInv, Owning, Calm, Quiescent, Applying
<1> QED BY <1>1, <1>2

LEMMA ThisOwnerIs ==
  ASSUME run.at \in 1..2
  PROVE  /\ ThisOwner \in Owners
         /\ run.at = 1 => ThisOwner = "gateway"
         /\ run.at = 2 => ThisOwner = "workbenchIngress"
<1>1. run.at = 1 \/ run.at = 2
  OBVIOUS
<1> QED BY <1>1 DEF ThisOwner, OwnerOrder, Owners

\* On to the second Kustomization, in the same phase.
LEMMA NextOwnerMemory ==
  ASSUME NEW r \in Memory, run' = [r EXCEPT !.at = 2, !.step = "look"], 2 \in 0..Len(Order)
  PROVE  /\ run' \in Memory /\ run'.mode = r.mode /\ run'.own = r.own /\ run'.unsure = r.unsure
         /\ run'.begun = r.begun /\ run'.base = r.base /\ run'.asked = r.asked
         /\ run'.auth = r.auth /\ run'.err = r.err /\ run'.quiet = r.quiet
         /\ run'.pc = r.pc /\ run'.at = 2
BY DEF Memory

\* On to the second Kustomization, or to the next phase.
LEMMA NextOwnerStep ==
  ASSUME ActivationInv, run.pc = "suspend",
         NEW r \in Memory, r.pc = run.pc, r.at = run.at, r.mode = run.mode, r.own = run.own,
         r.unsure = run.unsure, r.begun = run.begun, r.base = run.base, r.asked = None,
         r.quiet = run.quiet, r.auth = run.auth, r.err = run.err \/ r.err,
         run' = NextOwner(r), UNCHANGED World, faults' \in 0..MaxFaults,
         UNCHANGED <<net, receipt, rescue, forgotten, rescues>>
  PROVE  ActivationInv'
<1>1. 4 \in 1..13 /\ run.pc = Stages[4]
  BY StageFacts
<1>2. Passed(run, 3)
  <2>1. Passed(run, 4 - 1)
    BY <1>1, InPhase
  <2> QED BY <2>1
<1>3. CASE run.at = 1
  <2>1. run' = [r EXCEPT !.at = 2, !.step = "look"]
    BY <1>3 DEF NextOwner
  <2>2. 2 \in 0..Len(Order)
    BY OrderFacts
  <2>3. /\ run' \in Memory /\ run'.mode = r.mode /\ run'.own = r.own /\ run'.unsure = r.unsure
        /\ run'.begun = r.begun /\ run'.base = r.base /\ run'.asked = r.asked
        /\ run'.auth = r.auth /\ run'.err = r.err /\ run'.quiet = r.quiet
        /\ run'.pc = r.pc /\ run'.at = 2
    BY <2>1, <2>2, NextOwnerMemory
  <2>4. Asks'
    BY <2>3 DEF Asks, Deleting
  <2>5. Steady
    BY <2>3 DEF Steady
  <2> QED BY <1>1, <2>3, <2>4, <2>5, WithinStep
<1>4. CASE run.at # 1
  <2>1. run' = Past(r)
    BY <1>4 DEF NextOwner
  <2>2. Passed(r, 4)
    BY <1>2 DEF Passed
  <2> QED BY <1>1, <2>1, <2>2, PastStep
<1> QED BY <1>3, <1>4

\* A reconciler that is suspended is left alone; any other is told to be.
LEMMA SuspendStep == ASSUME ActivationInv, Suspend PROVE ActivationInv'
<1> DEFINE s == kust[ThisOwner]
           e == [run EXCEPT !.err = TRUE]
           q == [op |-> "patch", at |-> ThisOwner, susp |-> TRUE, rv |-> s.rv]
<1>1. run.pc = "suspend" /\ run.step = "look" /\ run.asked = None /\ run \in Memory
      /\ run.at \in 1..2 /\ ThisOwner \in Owners
  BY ThisOwnerIs DEF Suspend, ActivationInv, Asks, TypeOK, Places
<1>2. CASE Local(NextOwner(run))
  <2>1. run' = NextOwner(run) /\ UNCHANGED World /\ faults' \in 0..MaxFaults
        /\ UNCHANGED <<net, receipt, rescue, forgotten, rescues>>
    BY <1>2, LocalFrame
  <2> QED BY <1>1, <2>1, NextOwnerStep
<1>3. CASE Send([run EXCEPT !.step = "sent"], q)
  <2>1. 4 \in 1..13 /\ run.pc = Stages[4]
    BY <1>1, StageFacts
  <2>2. q \in Requests /\ q.op = "patch" /\ q.susp
    <3>1. s.rv \in Nat
      BY <1>1 DEF ActivationInv, TypeOK, Kustomizations
    <3> QED BY <1>1, <3>1 DEF Requests
  <2> HIDE DEF q
  <2> QED BY <1>1, <1>3, <2>1, <2>2, BackSend DEF Deleting
<1>4. CASE Unproved(TRUE, NextOwner(e))
  <2>1. run' = NextOwner(e) /\ UNCHANGED World /\ faults' \in 0..MaxFaults
        /\ UNCHANGED <<net, receipt, rescue, forgotten, rescues>>
    <3> HIDE DEF e
    <3> QED BY <1>4, UnprovedFrame
  <2>2. /\ e \in Memory /\ e.mode = run.mode /\ e.own = run.own
        /\ e.unsure = run.unsure /\ e.begun = run.begun /\ e.base = run.base
        /\ e.asked = run.asked /\ e.err /\ e.quiet = run.quiet /\ e.auth = run.auth
        /\ e.pc = run.pc /\ e.at = run.at
    BY <1>1, ZenonT(60) DEF Memory
  <2> HIDE DEF e
  <2> QED BY <1>1, <2>1, <2>2, NextOwnerStep
<1> QED BY <1>2, <1>3, <1>4 DEF Suspend

LEMMA SuspendAnsweredStep == ASSUME ActivationInv, SuspendAnswered PROVE ActivationInv'
<1> DEFINE r == [Heard(run) EXCEPT !.err = @ \/ run.answer # "ok"]
<1>1. run.pc = "suspend" /\ run \in Memory /\ Local(NextOwner(r))
  BY DEF SuspendAnswered, ActivationInv, TypeOK
<1>2. run' = NextOwner(r) /\ UNCHANGED World /\ faults' \in 0..MaxFaults
        /\ UNCHANGED <<net, receipt, rescue, forgotten, rescues>>
  <2> HIDE DEF r
  <2> QED BY <1>1, LocalFrame
<1> DEFINE b == run.err \/ run.answer # "ok"
<1>3. b \in BOOLEAN /\ (b = run.err \/ b)
  BY <1>1 DEF Memory
<1>4. r = [run EXCEPT !.asked = None, !.answer = None, !.err = b]
  BY <1>1 DEF Heard, Memory
<1> HIDE DEF b, r
<1>5. /\ r \in Memory /\ r.mode = run.mode /\ r.own = run.own
      /\ r.unsure = run.unsure /\ r.begun = run.begun /\ r.base = run.base
      /\ r.asked = None /\ r.err = b /\ r.quiet = run.quiet /\ r.auth = run.auth
      /\ r.pc = run.pc /\ r.at = run.at
  BY <1>1, <1>3, <1>4 DEF Memory
<1>6. r.err = run.err \/ r.err
  BY <1>3, <1>5
<1> QED BY <1>1, <1>2, <1>5, <1>6, NextOwnerStep

\* Both Kustomizations are looked at, one after the other.
LEMMA AwaitQuietFirst ==
  ASSUME ActivationInv, run.pc \in {"quiet", "flux"}, run.at = 1, run.asked = None,
         Calm(ThisOwner), Local([run EXCEPT !.at = 2])
  PROVE  ActivationInv'
<1>1. PICK i \in {5, 11} : run.pc = Stages[i]
  BY StageFacts
<1>2. i \in 1..13 /\ run \in Memory
  BY DEF ActivationInv, TypeOK
<1>3. run' = [run EXCEPT !.at = 2] /\ UNCHANGED World /\ faults' \in 0..MaxFaults
        /\ UNCHANGED <<net, receipt, rescue, forgotten, rescues>>
  BY LocalFrame
<1>4. ThisOwner = "gateway" /\ "gateway" \in Owners
  BY ThisOwnerIs DEF Owners
<1>5. Still("gateway")
  BY <1>4, CalmIs, RollingBackIs DEF Still
<1>6. 2 \in 0..Len(Order)
  BY OrderFacts
<1>7. /\ run' \in Memory /\ run'.mode = run.mode /\ run'.own = run.own /\ run'.unsure = run.unsure
      /\ run'.begun = run.begun /\ run'.base = run.base /\ run'.asked = None
      /\ run'.auth = run.auth /\ run'.err = run.err /\ run'.quiet = run.quiet
      /\ run'.pc = run.pc /\ run'.at = 2
  BY <1>2, <1>3, <1>6 DEF Memory
<1>8. Asks'
  BY <1>7 DEF Asks
<1>9. Steady
  BY <1>7 DEF Steady
<1> QED BY <1>1, <1>2, <1>3, <1>5, <1>7, <1>8, <1>9, WithinStep

\* Quiet is said of both reconcilers, after both were looked at.
LEMMA BothSuspendedStep == ASSUME ActivationInv, BothSuspended PROVE ActivationInv'
<1> DEFINE r == [run EXCEPT !.quiet = TRUE]
<1>1. run.pc = "quiet" /\ 5 \in 1..13 /\ run.pc = Stages[5] /\ run.asked = None
      /\ run \in Memory /\ run.at \in 1..2 /\ run.auth
  BY StageFacts DEF BothSuspended, AwaitQuiet, ActivationInv, Asks, TypeOK, Places, Phases, Deleting
<1>2. Passed(run, 4)
  <2>1. Passed(run, 5 - 1)
    BY <1>1, InPhase
  <2> QED BY <2>1
<1>3. CASE Calm(ThisOwner) /\ run.at = 1 /\ Local([run EXCEPT !.at = 2])
  BY <1>1, <1>3, AwaitQuietFirst
<1>4. CASE Calm(ThisOwner) /\ run.at = 2 /\ Local(Past(r))
  <2>1. run' = Past(r) /\ UNCHANGED World /\ faults' \in 0..MaxFaults
        /\ UNCHANGED <<net, receipt, rescue, forgotten, rescues>>
    <3> HIDE DEF r
    <3> QED BY <1>4, LocalFrame
  <2>2. /\ r \in Memory /\ r.mode = run.mode /\ r.own = run.own
        /\ r.unsure = run.unsure /\ r.begun = run.begun /\ r.base = run.base
        /\ r.asked = None /\ r.err = run.err /\ r.quiet /\ r.auth = run.auth
    BY <1>1, ZenonT(60) DEF Memory
  <2>3. Still("gateway") /\ Still("workbenchIngress")
    <3>1. ThisOwner = "workbenchIngress" /\ ThisOwner \in Owners
      BY <1>4, ThisOwnerIs
    <3>2. Still("workbenchIngress")
      BY <1>1, <1>4, <3>1, CalmIs, RollingBackIs DEF Still
    <3> QED BY <1>1, <1>4, <3>2 DEF ActivationInv, Phases
  <2> HIDE DEF r
  <2>4. Passed(r, 5)
    BY <1>1, <1>2, <2>2, <2>3 DEF Passed, Owners
  <2> QED BY <1>1, <2>1, <2>2, <2>4, PastStep
<1>5. CASE Unproved(Calm(ThisOwner) /\ (run.at = 2 => TRUE), Erring(run))
  <2>1. run' = Erring(run) /\ UNCHANGED World /\ faults' \in 0..MaxFaults
        /\ UNCHANGED <<net, receipt, rescue, forgotten, rescues>>
    BY <1>5, UnprovedFrame
  <2> QED BY <1>1, <2>1, ErringStep
<1> QED BY <1>3, <1>4, <1>5 DEF BothSuspended, AwaitQuiet

\* The second look at both adds nothing to what quiet already means.
LEMMA StillSuspendedStep == ASSUME ActivationInv, StillSuspended PROVE ActivationInv'
<1>1. run.pc = "flux" /\ 11 \in 1..13 /\ run.pc = Stages[11] /\ run.asked = None
  BY StageFacts DEF StillSuspended, AwaitQuiet, ActivationInv, Asks, Deleting
<1>2. Passed(run, 11)
  <2>1. Passed(run, 11 - 1)
    BY <1>1, InPhase
  <2> QED BY <2>1 DEF Passed
<1>3. CASE Calm(ThisOwner) /\ run.at = 1 /\ Local([run EXCEPT !.at = 2])
  BY <1>1, <1>3, AwaitQuietFirst
<1>4. CASE Local(Past(run))
  <2>1. run' = Past(run) /\ UNCHANGED World /\ faults' \in 0..MaxFaults
        /\ UNCHANGED <<net, receipt, rescue, forgotten, rescues>>
    BY <1>4, LocalFrame
  <2> QED BY <1>1, <1>2, <2>1, PassingStep
<1>5. CASE Unproved(Calm(ThisOwner) /\ (run.at = 2 => SharedSource), Erring(run))
  <2>1. run' = Erring(run) /\ UNCHANGED World /\ faults' \in 0..MaxFaults
        /\ UNCHANGED <<net, receipt, rescue, forgotten, rescues>>
    BY <1>5, UnprovedFrame
  <2> QED BY <1>1, <2>1, ErringStep
<1> QED BY <1>3, <1>4, <1>5 DEF StillSuspended, AwaitQuiet

\* A phase that only reads.
LEMMA ReadingStep ==
  ASSUME ActivationInv, NEW i \in {8, 10, 12, 13}, run.pc = Stages[i], NEW P,
         (P /\ Local(Past(run))) \/ Unproved(P, Erring(run)),
         P => Passed(run, i)
  PROVE  ActivationInv'
<1>1. i \in 1..13 /\ run.asked = None
  <2>1. run.pc \in {"unbound", "absent", "preserved", "rebind"}
    BY StageFacts
  <2> QED BY <2>1 DEF ActivationInv, Asks, Deleting
<1>2. CASE P /\ Local(Past(run))
  <2>1. run' = Past(run) /\ UNCHANGED World /\ faults' \in 0..MaxFaults
        /\ UNCHANGED <<net, receipt, rescue, forgotten, rescues>>
    BY <1>2, LocalFrame
  <2> QED BY <1>1, <1>2, <2>1, PassingStep
<1>3. CASE Unproved(P, Erring(run))
  <2>1. run' = Erring(run) /\ UNCHANGED World /\ faults' \in 0..MaxFaults
        /\ UNCHANGED <<net, receipt, rescue, forgotten, rescues>>
    BY <1>3, UnprovedFrame
  <2> QED BY <1>1, <2>1, ErringStep
<1> QED BY <1>2, <1>3

\* The Deployment that was never bound is looked for before its isolation goes.
LEMMA UnboundAbsentStep == ASSUME ActivationInv, UnboundAbsent PROVE ActivationInv'
<1>1. run.pc = Stages[8] /\ 8 \in 1..13
  BY StageFacts DEF UnboundAbsent
<1>2. Passed(run, 8 - 1)
  BY <1>1, InPhase
<1>3. live[Deployment] = None => Passed(run, 8)
  BY <1>2 DEF Passed, Away, Ours
<1>4. \/ live[Deployment] = None /\ Local(Past(run))
      \/ Unproved(live[Deployment] = None, Erring(run))
  BY DEF UnboundAbsent
<1> DEFINE P == live[Deployment] = None
<1>5. ((P /\ Local(Past(run))) \/ Unproved(P, Erring(run))) /\ (P => Passed(run, 8))
  BY <1>3, <1>4
<1> HIDE DEF P
<1> QED BY <1>1, <1>5, ReadingStep

\* All names are free at once: nothing of ours is left.
LEMMA AllGoneStep == ASSUME ActivationInv, AllGone PROVE ActivationInv'
<1>1. run.pc = Stages[10] /\ 10 \in 1..13
  BY StageFacts DEF AllGone
<1>2. Passed(run, 10 - 1)
  BY <1>1, InPhase
<1>3. AllAbsent => Passed(run, 10)
  BY <1>2 DEF Passed, Away, Ours, AllAbsent
<1>4. (AllAbsent /\ Local(Past(run))) \/ Unproved(AllAbsent, Erring(run))
  BY DEF AllGone
<1> QED BY <1>1, <1>3, <1>4, ReadingStep

LEMMA ProvePreservedStep == ASSUME ActivationInv, ProvePreserved PROVE ActivationInv'
<1>1. run.pc = Stages[12] /\ 12 \in 1..13
  BY StageFacts DEF ProvePreserved
<1>2. Passed(run, 12 - 1)
  BY <1>1, InPhase
<1>3. Preserved => Passed(run, 12)
  BY <1>2 DEF Passed
<1>4. (Preserved /\ Local(Past(run))) \/ Unproved(Preserved, Erring(run))
  BY DEF ProvePreserved
<1> QED BY <1>1, <1>3, <1>4, ReadingStep

LEMMA RebindClusterStep == ASSUME ActivationInv, RebindCluster PROVE ActivationInv'
<1>1. run.pc = Stages[13] /\ 13 \in 1..13
  BY StageFacts DEF RebindCluster
<1>2. Passed(run, 13 - 1)
  BY <1>1, InPhase
<1>3. ClusterBound => Passed(run, 13)
  BY <1>2 DEF Passed
<1>4. (ClusterBound /\ Local(Past(run))) \/ Unproved(ClusterBound, Erring(run))
  BY DEF RebindCluster
<1> QED BY <1>1, <1>3, <1>4, ReadingStep

-----
\* The uncertain create, the end of a process, and the next one.

\* A create that was unresolved is bound.
LEMMA BindMemory ==
  ASSUME run \in Memory, NEW o \in SUBSET Names,
         \/ run' = [run EXCEPT !.pc = "bind"]
         \/ run' = [run EXCEPT !.pc = "bind", !.own = o, !.unsure = None]
  PROVE  /\ run' \in Memory /\ run'.mode = run.mode /\ run'.begun = run.begun
         /\ run'.quiet = run.quiet /\ run'.asked = run.asked /\ run'.pc = "bind"
         /\ \/ run'.own = run.own /\ run'.unsure = run.unsure
            \/ run'.own = o /\ run'.unsure = None
<1>1. "bind" \in RollingBack
  BY RollingBackIs
<1>2. CASE run' = [run EXCEPT !.pc = "bind"]
  BY <1>1, <1>2 DEF Memory
<1>3. CASE run' = [run EXCEPT !.pc = "bind", !.own = o, !.unsure = None]
  BY <1>1, <1>3 DEF Memory
<1> QED BY <1>2, <1>3

\* The search for an unresolved create before the rollback.
LEMMA RediscoverStep == ASSUME ActivationInv, Rediscover PROVE ActivationInv'
<1> DEFINE u == run.unsure
           r == [run EXCEPT !.pc = "bind"]
           f == [r EXCEPT !.own = @ \cup {u}, !.unsure = None]
<1>1. /\ run.pc = "rediscover" /\ run \in Memory /\ run.mode = "activate" /\ run.begun /\ ~run.quiet
      /\ u \in Names /\ u # None /\ run.asked = None
  BY DEF Rediscover, ActivationInv, TypeOK, Places, Asks, Early, Memory, Deleting
<1>2. /\ run' = f \/ run' = r
      /\ UNCHANGED World /\ faults' \in 0..MaxFaults
      /\ UNCHANGED <<net, receipt, rescue, forgotten, rescues>>
  <2>1. CASE Local(f)
    <3> HIDE DEF f
    <3> QED BY <2>1, LocalFrame
  <2>2. CASE Unproved(live[u] = Posted, r)
    <3> HIDE DEF r
    <3> QED BY <2>2, UnprovedFrame
  <2> QED BY <2>1, <2>2 DEF Rediscover
<1>3. /\ run' \in Memory /\ run'.mode = run.mode /\ run'.begun = run.begun /\ run'.quiet = run.quiet
      /\ run'.asked = None /\ run'.pc = "bind"
      /\ \/ run'.own = run.own /\ run'.unsure = run.unsure
         \/ run'.own = run.own \cup {u} /\ run'.unsure = None
  <2> DEFINE o == run.own \cup {u}
  <2>1. o \in SUBSET Names
    BY <1>1 DEF Memory
  <2>2. \/ run' = [run EXCEPT !.pc = "bind"]
        \/ run' = [run EXCEPT !.pc = "bind", !.own = o, !.unsure = None]
    BY <1>1, <1>2 DEF Memory
  <2> HIDE DEF o, u, f, r
  <2>3. /\ run' \in Memory /\ run'.mode = run.mode /\ run'.begun = run.begun
        /\ run'.quiet = run.quiet /\ run'.asked = run.asked /\ run'.pc = "bind"
        /\ \/ run'.own = run.own /\ run'.unsure = run.unsure
           \/ run'.own = o /\ run'.unsure = None
    BY <1>1, <2>1, <2>2, BindMemory
  <2> QED BY <1>1, <2>3 DEF o
<1> HIDE DEF u, r, f
<1>4. TypeOK'
  BY <1>2, <1>3 DEF ActivationInv, TypeOK, World
<1>5. ~Unseen /\ ~Unseen' /\ Heads /\ run.pc \notin Ended
  BY <1>1, <1>3 DEF Unseen, Ended, Heads
<1>6. Owning' /\ OwnDeletes' /\ Isolated'
  BY <1>2, <1>5, KeepIsolated, KeepWorld DEF ActivationInv, World
<1>7. Quietly' /\ Kept' /\ Ahead' /\ Pushing'
  BY <1>1, <1>3 DEF Quietly, Kept, Ahead, Forward, Creating, Owned, Pushing, Won
<1>8. Places' /\ Asks'
  BY <1>1, <1>3, RollingBackIs, NoneIsApart DEF Places, Asks, Forward, Early, Creating, Owned, Handing
<1>9. Phases'
  <2>1. \A i \in DOMAIN Stages : run'.pc = Stages[i] /\ run'.begun => i = 1
    <3> SUFFICES ASSUME NEW i \in 1..14, run'.pc = Stages[i] PROVE i = 1
      BY StageFacts
    <3>1. i \in {1,2,3,4,5,6,7,8,9,10,11,12,13,14}
      OBVIOUS
    <3> QED BY <1>3, <3>1, StageFacts
  <2>2. Passed(run, 0)'
    BY <1>1, <1>3 DEF Passed
  <2> QED BY <1>1, <1>3, <2>1, <2>2 DEF Phases
<1>10. Named'
  <2>1. run.own \subseteq run'.own /\ (run'.unsure = run.unsure \/ run.unsure \in run'.own \cup {None})
    BY <1>3 DEF u
  <2> QED BY <1>2, <1>5, <2>1, KeepNamed, NoneIsApart DEF ActivationInv, World
<1>11. Papers'
  BY <1>1, <1>2, <1>3, <1>5, RollingBackIs, NoneIsApart DEF ActivationInv, Papers, Heads, Ended, Forward
<1>12. Claims'
  <2>1. ~Won' /\ run'.pc # "commit" /\ rescue # "recovered"
    BY <1>3, <1>5, NoneIsApart DEF Won, ActivationInv, Papers, Heads
  <2>2. receipt.status = "rolled-back" => FALSE
    BY <1>1, <1>5 DEF ActivationInv, Papers
  <2>3. WhatIsLeftIsNamed'
    BY <1>2 DEF ActivationInv, Claims, WhatIsLeftIsNamed, World
  <2> QED BY <1>2, <2>1, <2>2, <2>3 DEF Claims
<1> QED BY <1>4, <1>6, <1>7, <1>8, <1>9, <1>10, <1>11, <1>12 DEF ActivationInv

\* The process ends.
LEMMA EndStep ==
  ASSUME ActivationInv, run.pc \notin Ended, run' \in Memory, run'.pc \in {"end", "dead"},
         run'.mode = run.mode, run'.asked = None, run'.quiet = FALSE,
         UNCHANGED World, UNCHANGED <<net, forgotten, rescues>>, faults' \in 0..MaxFaults,
         receipt' \in Receipts, receipt'.status # None,
         rescue' \in {None, "reserved", "recovery-blocked", "recovered", "recovery-incomplete"},
         run.mode # "activate" => receipt'.status = "rollback-incomplete",
         run.mode = "activate" => rescue' = rescue,
         Claims', Won' => Onward
  PROVE  ActivationInv'
<1>1. TypeOK'
  BY DEF ActivationInv, TypeOK, World
<1>2. Unseen'
  BY DEF Unseen, Ended
<1>3. Owning' /\ OwnDeletes' /\ Isolated'
  BY <1>2, KeepIsolated, KeepWorld DEF ActivationInv, World
<1>4. Places' /\ Asks'
  BY RollingBackIs DEF Places, Asks, Forward, Early, Creating, Owned, Handing
<1>5. Quietly' /\ Kept' /\ Ahead' /\ Pushing' /\ Named'
  BY DEF Quietly, Kept, Ahead, Forward, Creating, Owned, Pushing, Won, Named, Heads, Onward
<1>6. Phases'
  <2>1. run'.pc \notin RollingBack
    BY RollingBackIs
  <2> QED BY <2>1 DEF Phases, RollingBack
<1>7. Papers'
  BY DEF ActivationInv, Papers, Heads, Ended, Forward
<1> QED BY <1>1, <1>3, <1>4, <1>5, <1>6, <1>7 DEF ActivationInv

LEMMA FinishMemory ==
  ASSUME NEW n \in Memory, NEW m \in {"activate", "A", "B"}, NEW x \in {"ok", "raised", "unsaved"},
         run' = [n EXCEPT !.pc = "end", !.mode = m, !.exit = x]
  PROVE  run' \in Memory /\ run'.pc = "end" /\ run'.mode = m /\ run'.asked = n.asked
         /\ run'.quiet = n.quiet /\ run'.exit = x
BY DEF Memory, Ended

LEMMA FinishIs ==
  ASSUME run \in Memory, NEW x \in {"ok", "raised", "unsaved"}, run' = Finish(x)
  PROVE  run' \in Memory /\ run'.pc = "end" /\ run'.mode = run.mode /\ run'.asked = None
         /\ run'.quiet = FALSE /\ run'.exit = x
<1>1. NoRun \in Memory
  BY OrderFacts, ActivationConstants DEF NoRun, Memory, Forward, Ended, Owners
<1>2. NoRun.asked = None /\ NoRun.quiet = FALSE
  BY DEF NoRun
<1>3. run.mode \in {"activate", "A", "B"} /\ "end" \in Ended
  BY DEF Memory, Ended
<1>4. run' = [NoRun EXCEPT !.pc = "end", !.mode = run.mode, !.exit = x]
  BY DEF Finish
<1> DEFINE n == NoRun  m == run.mode
<1> HIDE DEF n, m
<1>5. n \in Memory /\ n.asked = None /\ n.quiet = FALSE /\ m \in {"activate", "A", "B"}
      /\ run' = [n EXCEPT !.pc = "end", !.mode = m, !.exit = x]
  BY <1>1, <1>2, <1>3, <1>4 DEF n, m
<1>6. run' \in Memory /\ run'.pc = "end" /\ run'.mode = m /\ run'.asked = None
      /\ run'.quiet = FALSE /\ run'.exit = x
  BY <1>5, FinishMemory
<1> QED BY <1>6 DEF m

LEMMA DeadMemory ==
  ASSUME NEW n \in Memory, NEW m \in {"activate", "A", "B"},
         run' = [n EXCEPT !.pc = "dead", !.mode = m]
  PROVE  run' \in Memory /\ run'.pc = "dead" /\ run'.mode = m /\ run'.asked = n.asked
         /\ run'.quiet = n.quiet
BY DEF Memory, Ended

\* A crash forgets everything: what was left is in the receipt or nowhere.
LEMMA CrashStep == ASSUME ActivationInv, Crash PROVE ActivationInv'
<1> DEFINE m == run.mode
<1>1. /\ run.pc \notin Ended /\ faults' \in 0..MaxFaults /\ run \in Memory
      /\ run' = [NoRun EXCEPT !.pc = "dead", !.mode = m]
      /\ UNCHANGED <<net, receipt, rescue, forgotten, rescues>> /\ UNCHANGED World
  BY ActivationConstants DEF Crash, Failing, ActivationInv, TypeOK, World
<1>2. NoRun \in Memory /\ NoRun.asked = None /\ NoRun.quiet = FALSE
  BY OrderFacts, ActivationConstants DEF NoRun, Memory, Forward, Ended, Owners
<1>3. m \in {"activate", "A", "B"}
  BY <1>1 DEF Memory
<1> HIDE DEF m
<1> DEFINE n == NoRun
<1>4. run' \in Memory /\ run'.pc = "dead" /\ run'.mode = m /\ run'.asked = None /\ run'.quiet = FALSE
  <2> HIDE DEF n
  <2>1. n \in Memory /\ run' = [n EXCEPT !.pc = "dead", !.mode = m] /\ n.asked = None /\ n.quiet = FALSE
    BY <1>1, <1>2 DEF n
  <2> QED BY <2>1, <1>3, DeadMemory
<1>5. ~Won'
  BY <1>4 DEF Won
<1>6. Claims'
  <2>1. (receipt.status = "rolled-back" \/ rescue = "recovered") => Clear'
    BY <1>1 DEF ActivationInv, Claims, Clear, Away, Still, Ours, Applying, World
  <2>2. WhatIsLeftIsNamed'
    BY <1>1 DEF ActivationInv, Claims, WhatIsLeftIsNamed, World
  <2> QED BY <1>1, <1>4, <1>5, <2>1, <2>2 DEF Claims
<1>7. receipt.status # None /\ receipt \in Receipts
      /\ (run.mode # "activate" => receipt.status = "rollback-incomplete")
  BY <1>1 DEF ActivationInv, Papers, TypeOK, Ended
<1>8. rescue \in {None, "reserved", "recovery-blocked", "recovered", "recovery-incomplete"}
  BY DEF ActivationInv, TypeOK
<1> QED BY <1>1, <1>4, <1>5, <1>6, <1>7, <1>8, EndStep DEF m

\* The success receipt is written over the last proofs.
LEMMA CommitStep == ASSUME ActivationInv, Commit PROVE ActivationInv'
<1>1. /\ run.pc = "commit" /\ run.pc \notin Ended /\ run \in Memory /\ run.mode = "activate"
      /\ receipt \in Receipts /\ receipt' = [receipt EXCEPT !.status = "activated", !.own = run.own]
      /\ run' = Finish("ok") /\ faults' \in 0..MaxFaults
      /\ UNCHANGED <<net, rescue, forgotten, rescues>> /\ UNCHANGED World
      /\ rescue \in {None, "reserved", "recovery-blocked", "recovered", "recovery-incomplete"}
  BY DEF Commit, ActivationInv, TypeOK, World, Ended, Places, Forward
<1>2. run' \in Memory /\ run'.pc = "end" /\ run'.mode = run.mode /\ run'.asked = None
      /\ run'.quiet = FALSE
  BY <1>1, FinishIs
<1>3. run.own \in SUBSET Names
  BY <1>1 DEF Memory
<1>4. receipt' \in Receipts /\ receipt'.status = "activated"
  <2> HIDE <1>2
  <2> QED BY <1>1, <1>3 DEF Receipts
<1>5. Onward /\ AllThere
  BY <1>1 DEF ActivationInv, Pushing, Claims, Forward
<1>6. rescue = None
  BY <1>1 DEF ActivationInv, Papers
<1>7. Claims'
  <2>1. AllThere'
    BY <1>1, <1>5 DEF AllThere, World
  <2> QED BY <1>1, <1>4, <1>6, <2>1, NoneIsApart DEF Claims, WhatIsLeftIsNamed
<1> QED BY <1>1, <1>2, <1>4, <1>5, <1>7, NoneIsApart, EndStep

\* A process that concludes without an error has undone everything.
LEMMA CompleteIsClear ==
  ASSUME ActivationInv, run.pc = "settle", Complete
  PROVE  Clear
<1>1. CASE ~run.begun
  <2>1. Pristine
    BY <1>1, RollingBackIs DEF ActivationInv, Quietly, Places, Complete
  <2> QED BY <2>1 DEF Pristine, Clear, Away, Still, ActivationInv, Owning, Applying
<1>2. CASE run.begun
  <2>1. 14 \in DOMAIN Stages /\ run.pc = Stages[14]
    BY StageFacts
  <2>2. Passed(run, 14 - 1)
    BY <1>2, <2>1 DEF ActivationInv, Phases
  <2>3. ~run.err
    BY DEF Complete
  <2> QED BY <2>2, <2>3 DEF Passed, Clear
<1> QED BY <1>1, <1>2

\* What the process writes about itself.
LEMMA ConcludeIs ==
  ASSUME ActivationInv, run.pc = "settle", Conclude, UNCHANGED World, UNCHANGED forgotten,
         run'.pc = "end"
  PROVE  /\ receipt' \in Receipts
         /\ rescue' \in {None, "reserved", "recovery-blocked", "recovered", "recovery-incomplete"}
         /\ run.mode # "activate" => receipt'.status = "rollback-incomplete"
         /\ run.mode = "activate" => rescue' = rescue /\ receipt'.status \in {"rolled-back", "rollback-incomplete"}
         /\ Claims'
<1>1. run \in Memory /\ receipt \in Receipts
      /\ rescue \in {None, "reserved", "recovery-blocked", "recovered", "recovery-incomplete"}
  BY DEF ActivationInv, TypeOK
<1>2. Clear => Clear'
  BY DEF Clear, Away, Still, Ours, Applying, World
<1>3. CASE run.mode = "activate"
  <2>1. receipt' = FailureReceipt /\ UNCHANGED rescue
    BY <1>3 DEF Conclude
  <2>2. /\ receipt' \in Receipts /\ receipt'.own = run.own /\ receipt'.unsure = run.unsure
        /\ receipt'.status = (IF Complete THEN "rolled-back" ELSE "rollback-incomplete")
    BY <1>1, <2>1 DEF FailureReceipt, Receipts, Memory
  <2>3. Heads /\ rescue # "recovered"
    BY <1>3, NoneIsApart DEF Heads, ActivationInv, Papers
  <2>4. WhatIsLeftIsNamed'
    BY <2>2, <2>3 DEF WhatIsLeftIsNamed, ActivationInv, Named, World
  <2>5. receipt'.status = "rolled-back" => Clear'
    BY <2>2, <1>2, CompleteIsClear
  <2>6. Claims'
    BY <2>1, <2>2, <2>3, <2>4, <2>5 DEF Claims, Won
  <2> QED BY <1>1, <1>3, <2>1, <2>2, <2>6, NoneIsApart
<1>4. CASE run.mode # "activate"
  <2>1. rescue' = RescueStatus /\ UNCHANGED receipt
    BY <1>4 DEF Conclude
  <2>2. receipt.status = "rollback-incomplete"
    BY <1>4 DEF ActivationInv, Papers
  <2>3. rescue' = "recovered" => Clear'
    BY <1>2, <2>1, CompleteIsClear DEF RescueStatus
  <2>4. WhatIsLeftIsNamed'
    BY <2>1 DEF ActivationInv, Claims, WhatIsLeftIsNamed, World
  <2>5. Claims'
    BY <2>1, <2>2, <2>3, <2>4 DEF Claims, Won
  <2> QED BY <1>1, <1>4, <2>1, <2>2, <2>5, NoneIsApart DEF RescueStatus
<1> QED BY <1>3, <1>4

\* The rollback ends, whether its receipt is saved or not.
LEMMA SettleStep == ASSUME ActivationInv, Settle \/ SettleFails PROVE ActivationInv'
<1>1. /\ run.pc = "settle" /\ run.pc \notin Ended /\ run \in Memory /\ UNCHANGED World
      /\ UNCHANGED <<net, forgotten, rescues>> /\ faults' \in 0..MaxFaults
      /\ receipt \in Receipts
      /\ rescue \in {None, "reserved", "recovery-blocked", "recovered", "recovery-incomplete"}
  BY ActivationConstants DEF Settle, SettleFails, Failing, ActivationInv, TypeOK, World, Ended
<1>2. \E x \in {"ok", "raised", "unsaved"} :
        run' = Finish(x) /\ (Conclude \/ (x = "unsaved" /\ UNCHANGED <<receipt, rescue>>))
  BY DEF Settle, SettleFails
<1>3. PICK x \in {"ok", "raised", "unsaved"} :
        run' = Finish(x) /\ (Conclude \/ (x = "unsaved" /\ UNCHANGED <<receipt, rescue>>))
  BY <1>2
<1>4. run' \in Memory /\ run'.pc = "end" /\ run'.mode = run.mode /\ run'.asked = None
      /\ run'.quiet = FALSE /\ run'.exit = x
  BY <1>1, <1>3, FinishIs
<1>5. CASE Conclude
  <2>1. /\ receipt' \in Receipts
        /\ rescue' \in {None, "reserved", "recovery-blocked", "recovered", "recovery-incomplete"}
        /\ run.mode # "activate" => receipt'.status = "rollback-incomplete"
        /\ run.mode = "activate" => rescue' = rescue /\ receipt'.status \in {"rolled-back", "rollback-incomplete"}
        /\ Claims'
    BY <1>1, <1>4, <1>5, ConcludeIs
  <2>2. receipt'.status # None /\ receipt'.status # "activated"
    BY <2>1, NoneIsApart
  <2>3. ~Won'
    BY <2>2 DEF Won
  <2> QED BY <1>1, <1>4, <2>1, <2>2, <2>3, EndStep
<1>6. CASE x = "unsaved" /\ UNCHANGED <<receipt, rescue>>
  <2>1. ~Won'
    BY <1>4, <1>6 DEF Won
  <2>2. Claims'
    <3>1. (receipt.status = "rolled-back" \/ rescue = "recovered") => Clear'
      BY <1>1 DEF ActivationInv, Claims, Clear, Away, Still, Ours, Applying, World
    <3>2. WhatIsLeftIsNamed'
      BY <1>1, <1>6 DEF ActivationInv, Claims, WhatIsLeftIsNamed, World
    <3> QED BY <1>4, <1>6, <2>1, <3>1, <3>2 DEF Claims
  <2>3. receipt.status # None /\ (run.mode # "activate" => receipt.status = "rollback-incomplete")
    BY <1>1 DEF ActivationInv, Papers
  <2> QED BY <1>1, <1>4, <1>6, <2>1, <2>2, <2>3, EndStep
<1> QED BY <1>3, <1>5, <1>6

LEMMA RescueBlockedStep == ASSUME ActivationInv, RescueBlocked PROVE ActivationInv'
<1>1. /\ run.pc = "rescue" /\ run.pc \notin Ended /\ run \in Memory /\ UNCHANGED World
      /\ UNCHANGED <<net, receipt, forgotten, rescues>> /\ faults' \in 0..MaxFaults
      /\ receipt \in Receipts /\ rescue' = "recovery-blocked" /\ run' = Finish("raised")
      /\ run.mode # "activate"
  BY ActivationConstants DEF RescueBlocked, Failing, ActivationInv, TypeOK, World, Ended, Places
<1>2. run' \in Memory /\ run'.pc = "end" /\ run'.mode = run.mode /\ run'.asked = None
      /\ run'.quiet = FALSE
  BY <1>1, FinishIs
<1>3. receipt.status = "rollback-incomplete"
  BY <1>1 DEF ActivationInv, Papers
<1>4. Claims'
  <2>1. WhatIsLeftIsNamed'
    BY <1>1 DEF ActivationInv, Claims, WhatIsLeftIsNamed, World
  <2> QED BY <1>1, <1>2, <1>3, <2>1 DEF Claims, Won
<1> QED BY <1>1, <1>2, <1>3, <1>4, NoneIsApart, EndStep DEF Won

\* A success receipt that fails half-way leads into the rollback.
LEMMA CommitFailsStep == ASSUME ActivationInv, CommitFails PROVE ActivationInv'
<1>1. /\ run.pc = "commit" /\ run \in Memory /\ run.mode = "activate"
      /\ run' = Fail(run) /\ UNCHANGED World /\ faults' \in 0..MaxFaults
      /\ UNCHANGED <<net, rescue, forgotten, rescues>>
      /\ receipt \in Receipts /\ forgotten \in Names \cup {None}
      /\ run.own \in SUBSET Names
      /\ \/ receipt' = receipt
         \/ receipt' = [receipt EXCEPT !.status = "activated", !.own = run.own]
  BY ActivationConstants
     DEF CommitFails, Failing, ActivationInv, TypeOK, World, Places, Forward, Memory
<1>2. run.pc \in Forward /\ run.pc # "idle" /\ Heads /\ ~Unseen
  BY <1>1 DEF Forward, Heads, Unseen, Ended
<1>3. receipt'.status \in {"reserved", "activated"} /\ receipt' \in Receipts
  <2>1. receipt.status \in {"reserved", "activated"}
    BY <1>2 DEF ActivationInv, Papers
  <2>2. CASE receipt' = receipt
    BY <1>1, <2>1, <2>2
  <2>3. CASE receipt' = [receipt EXCEPT !.status = "activated", !.own = run.own]
    <3> DEFINE o == run.own
    <3>1. o \in SUBSET Names /\ receipt' = [receipt EXCEPT !.status = "activated", !.own = o]
          /\ receipt \in Receipts
      BY <1>1, <2>3
    <3> HIDE DEF o
    <3> HIDE <1>1, <2>3
    <3> QED BY <3>1 DEF Receipts
  <2> QED BY <1>1, <2>2, <2>3
<1>4. /\ run'.own = run.own /\ run'.unsure = run.unsure /\ run'.mode = "activate"
      /\ run'.pc \notin {"idle", "end", "dead"}
  BY <1>1, FailMemory
<1>5. Named'
  BY <1>1, <1>2, <1>4, KeepNamed, NoneIsApart DEF ActivationInv, World
<1> QED BY <1>1, <1>2, <1>3, <1>5, FailStep

\* A signal forgets a POST that is waited for, and history remembers it.
LEMMA InterruptStep == ASSUME ActivationInv, Interrupt PROVE ActivationInv'
<1> DEFINE r == IF run.pc = "posted" THEN [run EXCEPT !.unsure = None] ELSE run
<1>1. /\ run.pc \in Forward /\ run.pc # "commit" /\ run \in Memory /\ run.mode = "activate"
      /\ run' = Fail(r) /\ UNCHANGED World /\ faults' \in 0..MaxFaults
      /\ UNCHANGED <<net, receipt, rescue, rescues>>
      /\ receipt \in Receipts /\ forgotten \in Names \cup {None}
      /\ forgotten' = IF run.pc = "posted" THEN This ELSE forgotten
  BY ActivationConstants DEF Interrupt, Failing, ActivationInv, TypeOK, World, Places
<1>2. Heads /\ ~Unseen /\ run.pc # "idle" /\ forgotten = None
  BY <1>1 DEF Forward, Heads, Unseen, Ended, ActivationInv, Papers
<1>3. receipt.status \in {"reserved", "activated"}
  BY <1>2 DEF ActivationInv, Papers
<1>4. r = run \/ r = [run EXCEPT !.unsure = None]
  OBVIOUS
<1>5. r \in Memory /\ r.own = run.own /\ r.mode = run.mode
      /\ (run.pc = "posted" => r.unsure = None) /\ (run.pc # "posted" => r.unsure = run.unsure)
  BY <1>1 DEF Memory
<1>6. run.pc = "posted" => run.unsure = This /\ This \in Names
  BY OrderFacts DEF ActivationInv, Places, Creating, This
<1>7. forgotten' \in Names \cup {None}
  BY <1>1, <1>6
<1>8. run'.own = run.own /\ run'.unsure = r.unsure /\ run'.mode = run.mode
  <2> HIDE DEF r
  <2> QED BY <1>1, <1>5, FailMemory
<1>9. Named'
  <2> SUFFICES ASSUME NEW n \in Names,
                      \/ live'[n] # None /\ live'[n].by = "run"
                      \/ ~Unseen' /\ [op |-> "create", at |-> n] \in net'
               PROVE  n \in run'.own \cup {run'.unsure, forgotten'} \cup stray'
    BY DEF Named
  <2>1. n \in run.own \cup {run.unsure, forgotten} \cup stray
    BY <1>1, <1>2 DEF ActivationInv, Named, World
  <2>2. n # None
    BY NoneIsApart
  <2> HIDE DEF r
  <2> QED BY <1>1, <1>2, <1>5, <1>6, <1>8, <2>1, <2>2 DEF World
<1> HIDE DEF r
<1> QED BY <1>1, <1>3, <1>4, <1>7, <1>9, FailStep

\* A failure that changes nothing else.
LEMMA FailedStep ==
  ASSUME ActivationInv, run.pc \in Forward, run' = Fail(run),
         UNCHANGED World, faults' \in 0..MaxFaults,
         UNCHANGED <<net, receipt, rescue, forgotten, rescues>>
  PROVE  ActivationInv'
<1>1. /\ run \in Memory /\ run.mode = "activate"
      /\ receipt \in Receipts /\ forgotten \in Names \cup {None}
  BY DEF ActivationInv, TypeOK, Places
<1>2. Heads /\ ~Unseen /\ run.pc # "idle"
  BY <1>1 DEF Forward, Heads, Unseen, Ended
<1>3. receipt.status \in {"reserved", "activated"}
  BY <1>2 DEF ActivationInv, Papers
<1>4. run'.own = run.own /\ run'.unsure = run.unsure
  BY <1>1, FailMemory
<1>5. Named'
  BY <1>2, <1>4, KeepNamed, NoneIsApart DEF ActivationInv, World
<1> QED BY <1>1, <1>3, <1>5, FailStep

\* A proof of the activation that does not hold.
LEMMA UnprovedFails ==
  ASSUME ActivationInv, run.pc \in Forward, NEW P, Unproved(P, Fail(run))
  PROVE  ActivationInv'
<1>1. /\ run' = Fail(run) /\ UNCHANGED World /\ faults' \in 0..MaxFaults
      /\ UNCHANGED <<net, receipt, rescue, forgotten, rescues>>
  BY UnprovedFrame
<1> QED BY <1>1, FailedStep

\* main starts the activation.
LEMMA StartStep == ASSUME ActivationInv, Start PROVE ActivationInv'
<1>1. /\ run.pc = "idle" /\ run \in Memory /\ run.mode = "activate" /\ ~run.begun
      /\ run' = [NoRun EXCEPT !.pc = "preflight"]
      /\ receipt \in Receipts /\ receipt' = [receipt EXCEPT !.status = "reserved"]
      /\ UNCHANGED World /\ UNCHANGED <<net, rescue, forgotten, faults, rescues>>
  BY DEF Start, ActivationInv, TypeOK, World, Places, Forward
<1>2. /\ run' \in Memory /\ run'.pc = "preflight" /\ run'.mode = "activate" /\ run'.own = {}
      /\ run'.begun = FALSE /\ run'.unsure = None /\ run'.asked = None /\ run'.quiet = FALSE
  <2>1. NoRun \in Memory
    BY OrderFacts, ActivationConstants DEF NoRun, Memory, Forward, Ended, Owners
  <2>2. run' = [NoRun EXCEPT !.pc = "preflight"] /\ "preflight" \in Forward
    BY <1>1 DEF Forward
  <2>3. run' \in Memory
    <3> HIDE <1>1
    <3> QED BY <2>1, <2>2 DEF Memory
  <2>4. run'.pc = "preflight" /\ run'.mode = "activate" /\ run'.own = {}
      /\ run'.begun = FALSE /\ run'.unsure = None /\ run'.asked = None /\ run'.quiet = FALSE
    BY <2>2 DEF NoRun
  <2> QED BY <2>3, <2>4
<1>3. receipt' \in Receipts /\ receipt'.status = "reserved"
  <2> HIDE <1>2
  <2> QED BY <1>1 DEF Receipts
<1>4. Pristine
  BY <1>1 DEF ActivationInv, Quietly
<1>5. TypeOK'
  BY <1>1, <1>2, <1>3 DEF ActivationInv, TypeOK, World
<1>6. Owning' /\ OwnDeletes'
  BY <1>1, KeepWorld DEF ActivationInv, World
<1>7. Isolated'
  BY <1>1, <1>4 DEF Isolated, MayRun, Pristine, Ours, Applying, World, ActivationInv, Owning, Owners
<1>8. Places' /\ Asks'
  BY <1>2, RollingBackIs DEF Places, Asks, Forward, Early, Creating, Owned, Handing
<1>9. Quietly' /\ Kept' /\ Ahead' /\ Pushing' /\ Named'
  BY <1>1, <1>2, <1>4 DEF Quietly, Kept, Ahead, Creating, Owned, Pushing, Won, Named,
                          Onward, Pristine, Ours, World
<1>10. Phases'
  BY <1>2, RollingBackIs DEF Phases, RollingBack
<1>11. Papers'
  BY <1>1, <1>2, <1>3, RollingBackIs, NoneIsApart DEF ActivationInv, Papers, Heads, Ended, Forward
<1>12. Claims'
  BY <1>1, <1>2, <1>3, NoneIsApart DEF ActivationInv, Papers, Claims, Won, WhatIsLeftIsNamed
<1> QED BY <1>5, <1>6, <1>7, <1>8, <1>9, <1>10, <1>11, <1>12 DEF ActivationInv

LEMMA RescueMemory ==
  ASSUME NEW n \in Memory, NEW m \in {"activate", "A", "B"},
         run' = [n EXCEPT !.pc = "rescue", !.mode = m]
  PROVE  run' \in Memory /\ run'.pc = "rescue" /\ run'.mode = m /\ run'.asked = n.asked
         /\ run'.quiet = n.quiet
BY DEF Memory

\* A recovery starts after the end of the activation.
LEMMA RescueStartStep ==
  ASSUME ActivationInv, NEW mode \in {"A", "B"}, RescueStart(mode)
  PROVE  ActivationInv'
<1>1. /\ run.pc \in {"end", "dead"} /\ receipt.status = "rollback-incomplete"
      /\ run' = [NoRun EXCEPT !.pc = "rescue", !.mode = mode] /\ rescue' = "reserved"
      /\ rescues' \in 0..MaxRescues
      /\ UNCHANGED World /\ UNCHANGED <<net, receipt, forgotten, faults>>
  BY ActivationConstants DEF RescueStart, Incident, ActivationInv, TypeOK, World
<1>2. NoRun \in Memory /\ NoRun.asked = None /\ NoRun.quiet = FALSE
  BY OrderFacts, ActivationConstants DEF NoRun, Memory, Forward, Ended, Owners
<1> DEFINE n == NoRun
<1>3. run' \in Memory /\ run'.pc = "rescue" /\ run'.mode = mode /\ run'.asked = None
      /\ run'.quiet = FALSE
  <2> HIDE DEF n
  <2>1. n \in Memory /\ run' = [n EXCEPT !.pc = "rescue", !.mode = mode] /\ n.asked = None
        /\ n.quiet = FALSE
    BY <1>1, <1>2 DEF n
  <2> QED BY <2>1, RescueMemory
<1>4. TypeOK'
  BY <1>1, <1>3 DEF ActivationInv, TypeOK, World
<1>5. Unseen'
  BY <1>3 DEF Unseen
<1>6. Owning' /\ OwnDeletes' /\ Isolated'
  BY <1>1, <1>5, KeepIsolated, KeepWorld DEF ActivationInv, World
<1>7. Places' /\ Asks'
  BY <1>3, RollingBackIs DEF Places, Asks, Forward, Early, Creating, Owned, Handing
<1>8. Quietly' /\ Kept' /\ Ahead' /\ Pushing' /\ Named'
  BY <1>3 DEF Quietly, Kept, Ahead, Forward, Creating, Owned, Pushing, Won, Named, Heads
<1>9. Phases'
  BY <1>3, RollingBackIs DEF Phases, RollingBack
<1>10. Papers'
  BY <1>1, <1>3, NoneIsApart DEF Papers, Heads, Ended, Forward
<1>11. Claims'
  <2>1. WhatIsLeftIsNamed'
    BY <1>1 DEF ActivationInv, Claims, WhatIsLeftIsNamed, World
  <2> QED BY <1>1, <1>3, <2>1 DEF Claims, Won
<1> QED BY <1>4, <1>6, <1>7, <1>8, <1>9, <1>10, <1>11 DEF ActivationInv

LEMMA RescuedMemory ==
  ASSUME run \in Memory, NEW c, NEW o, NEW b,
         c \in SUBSET Names, o \in SUBSET Names, b \in [Owners -> Nat],
         run' = [run EXCEPT !.pc = "bind", !.begun = TRUE, !.clean = c, !.own = o, !.base = b]
  PROVE  run' \in Memory /\ run'.pc = "bind" /\ run'.mode = run.mode /\ run'.asked = run.asked
         /\ run'.quiet = run.quiet /\ run'.begun = TRUE /\ run'.base = b
<1>1. "bind" \in RollingBack
  BY RollingBackIs
<1> QED BY <1>1 DEF Memory

\* The proofs of a recovery pass: what it finds stands still.
LEMMA RescuePassesStep == ASSUME ActivationInv, RescuePasses PROVE ActivationInv'
<1> DEFINE c == receipt.own
           o == receipt.own \cup {n \in {Deployment} : live[n] # None}
           b == [k \in Owners |-> kust[k].rv]
           r == [run EXCEPT !.pc = "bind", !.begun = TRUE, !.clean = c, !.own = o, !.base = b]
<1>1. /\ run.pc = "rescue" /\ run \in Memory /\ run.mode # "activate" /\ ~run.quiet
      /\ run.asked = None /\ receipt.status = "rollback-incomplete"
  BY DEF RescuePasses, ActivationInv, TypeOK, Places, Early, Asks, Papers, Deleting
<1>2. run' = r /\ UNCHANGED World /\ faults' \in 0..MaxFaults
      /\ UNCHANGED <<net, receipt, rescue, forgotten, rescues>>
  <2>1. Local(r)
    BY DEF RescuePasses
  <2> HIDE DEF r
  <2> QED BY <2>1, LocalFrame
<1>3. c \in SUBSET Names /\ o \in SUBSET Names
  BY OrderFacts DEF ActivationInv, TypeOK, Receipts
<1>4. b \in [Owners -> Nat] /\ \A k \in Owners : b[k] = kust[k].rv
  BY DEF ActivationInv, TypeOK, Kustomizations
<1>5. run.mode = "B" => \A k \in Owners : kust[k].susp /\ ~Applying(k)
  <2> SUFFICES ASSUME run.mode = "B" PROVE \A k \in Owners : kust[k].susp /\ ~Applying(k)
    OBVIOUS
  <2>1. DormantFlux /\ AsHealthCheckLeft
    BY DEF RescuePasses, RescueProofs, FluxAsLeft
  <2> QED BY <2>1 DEF DormantFlux, AsHealthCheckLeft, ActivationInv, Owning, Owners, Applying
<1> HIDE DEF c, o, b
<1>6. /\ run' \in Memory /\ run'.pc = "bind" /\ run'.mode = run.mode /\ run'.asked = None
      /\ ~run'.quiet /\ run'.begun /\ run'.base = b
  <2>1. run' = [run EXCEPT !.pc = "bind", !.begun = TRUE, !.clean = c, !.own = o, !.base = b]
    BY <1>2
  <2>2. run' \in Memory /\ run'.pc = "bind" /\ run'.mode = run.mode /\ run'.asked = run.asked
        /\ run'.quiet = run.quiet /\ run'.begun = TRUE /\ run'.base = b
    <3> HIDE DEF r
    <3>1. run \in Memory /\ b \in [Owners -> Nat]
      BY <1>1, <1>4
    <3> QED BY <1>3, <2>1, <3>1, RescuedMemory
  <2> QED BY <1>1, <2>2
<1> HIDE DEF r
<1>7. TypeOK'
  BY <1>2, <1>6 DEF ActivationInv, TypeOK, World
<1>8. Unseen'
  BY <1>1, <1>6 DEF Unseen
<1>9. Owning' /\ OwnDeletes' /\ Isolated'
  BY <1>2, <1>8, KeepIsolated, KeepWorld DEF ActivationInv, World
<1>10. Places' /\ Asks'
  BY <1>1, <1>6, RollingBackIs DEF Places, Asks, Forward, Early, Creating, Owned, Handing
<1>11. Quietly' /\ Kept' /\ Ahead' /\ Pushing' /\ Named'
  BY <1>1, <1>6 DEF Quietly, Kept, Ahead, Forward, Creating, Owned, Pushing, Won, Named, Heads
<1>12. Phases'
  <2>1. \A i \in DOMAIN Stages : run'.pc = Stages[i] => i = 1
    <3> SUFFICES ASSUME NEW i \in 1..14, run'.pc = Stages[i] PROVE i = 1
      BY StageFacts
    <3>1. i \in {1,2,3,4,5,6,7,8,9,10,11,12,13,14}
      OBVIOUS
    <3> QED BY <1>6, <3>1, StageFacts
  <2>2. Passed(run, 0)'
    BY <1>6 DEF Passed
  <2>3. run'.mode = "B" =>
       \A k \in Owners : /\ run'.base[k] <= kust'[k].rv
                         /\ kust'[k].rv = run'.base[k] => kust'[k].susp /\ ~Applying(k)'
    BY <1>2, <1>4, <1>5, <1>6 DEF World, Applying
  <2> QED BY <1>6, <2>1, <2>2, <2>3 DEF Phases
<1>13. Papers'
  BY <1>1, <1>2, <1>6, NoneIsApart DEF ActivationInv, Papers, Heads, Ended, Forward
<1>14. Claims'
  <2>1. WhatIsLeftIsNamed'
    BY <1>2 DEF ActivationInv, Claims, WhatIsLeftIsNamed, World
  <2>2. rescue # "recovered"
    BY <1>1 DEF ActivationInv, Papers, Ended
  <2> QED BY <1>1, <1>2, <1>6, <2>1, <2>2 DEF Claims, Won
<1> QED BY <1>7, <1>9, <1>10, <1>11, <1>12, <1>13, <1>14 DEF ActivationInv

-----
\* The activation, action by action.

LEMMA CreatingMemory ==
  ASSUME run \in Memory, NEW b, b \in [Owners -> Nat], 1 \in 0..Len(Order),
         run' = [run EXCEPT !.pc = "create", !.at = 1, !.base = b]
  PROVE  /\ run' \in Memory /\ run'.pc = "create" /\ run'.at = 1
         /\ run'.mode = run.mode /\ run'.own = run.own /\ run'.unsure = run.unsure
         /\ run'.begun = run.begun /\ run'.quiet = run.quiet /\ run'.asked = run.asked
<1>1. "create" \in Forward
  BY DEF Forward
<1> QED BY <1>1 DEF Memory

\* The preflight has found all names free.
LEMMA PreflightPassesStep == ASSUME ActivationInv, PreflightPasses PROVE ActivationInv'
<1> DEFINE b == [k \in Owners |-> kust[k].rv]
           r == [run EXCEPT !.pc = "create", !.at = 1, !.base = b]
<1>1. /\ run.pc = "preflight" /\ run \in Memory /\ run.mode = "activate" /\ ~run.quiet
      /\ run.asked = None /\ run.own = {} /\ ~run.begun /\ run.unsure = None
  BY DEF PreflightPasses, ActivationInv, TypeOK, Places, Early, Asks, Forward, Deleting
<1>2. run' = r /\ UNCHANGED World /\ faults' \in 0..MaxFaults
      /\ UNCHANGED <<net, receipt, rescue, forgotten, rescues>>
  <2>1. Local(r)
    BY DEF PreflightPasses
  <2> HIDE DEF r
  <2> QED BY <2>1, LocalFrame
<1>3. b \in [Owners -> Nat]
  BY DEF ActivationInv, TypeOK, Kustomizations
<1>4. 1 \in 0..Len(Order) /\ 1 \in DOMAIN Order
  BY OrderFacts
<1> HIDE DEF b
<1>5. /\ run' \in Memory /\ run'.pc = "create" /\ run'.at = 1
      /\ run'.mode = run.mode /\ run'.own = run.own /\ run'.unsure = run.unsure
      /\ run'.begun = run.begun /\ run'.quiet = run.quiet /\ run'.asked = run.asked
  <2>1. run' = [run EXCEPT !.pc = "create", !.at = 1, !.base = b]
    BY <1>2
  <2> HIDE DEF r
  <2> QED BY <1>1, <1>3, <1>4, <2>1, CreatingMemory
<1> HIDE DEF r
<1>6. Pristine
  BY <1>1 DEF ActivationInv, Quietly
<1>7. Places' /\ Asks'
  <2>1. run'.own = {Order[j] : j \in 1..run'.at-1}
    BY <1>1, <1>5
  <2> QED BY <1>1, <1>4, <1>5, <2>1, RollingBackIs
       DEF Places, Asks, Forward, Early, Creating, Owned, Handing, Deleting
<1>8. Ahead'
  <2>1. \A n \in Names : Unposted(n)'
    BY <1>2, <1>6 DEF Unposted, Pristine, Ours, World
  <2>2. \A i \in DOMAIN Order : Order[i] \in Names
    BY OrderFacts
  <2> QED BY <1>4, <1>5, <2>1, <2>2 DEF Ahead, This
<1> QED BY <1>1, <1>2, <1>5, <1>7, <1>8, ForwardStep DEF Forward

LEMMA PreflightFailsStep == ASSUME ActivationInv, PreflightFails PROVE ActivationInv'
BY UnprovedFails DEF PreflightFails, Forward

\* The Deployment is created, and its owner unsuspended, under an isolation
\* that nothing takes back.
LEMMA IsolationFirst ==
  ASSUME ActivationInv, run.pc \in Forward,
         (run.pc = "create" /\ This = Deployment) \/ run.pc \in Handing
  PROVE  live[Isolation] # None /\ \A q \in net : ~(q.op = "delete" /\ q.at = Isolation)
<1>1. Isolation \in run.own
  <2>1. CASE run.pc \in Handing
    BY <2>1, OrderFacts DEF ActivationInv, Places
  <2>2. CASE run.pc = "create" /\ This = Deployment
    <3>1. run.at \in DOMAIN Order /\ run.own = {Order[j] : j \in 1..run.at-1}
      BY <2>2 DEF ActivationInv, Places, Creating
    <3>2. PICK i \in DOMAIN Order : Order[i] = Isolation
      BY OrderFacts DEF Names
    <3>3. run.at = Len(Order) - 1
      <4>1. Len(Order) - 1 \in DOMAIN Order /\ Order[Len(Order) - 1] = Deployment
        BY OrderFacts
      <4> QED BY <2>2, <3>1, <4>1, OrderFacts DEF This
    <3>4. i # Len(Order) /\ i # Len(Order) - 1
      BY <3>2, OrderFacts DEF Isolation, Deployment, Ingress
    <3>5. i \in 1..run.at-1
      BY <3>2, <3>3, <3>4, OrderFacts
    <3> QED BY <3>1, <3>2, <3>5
  <2> QED BY <2>1, <2>2
<1> QED BY <1>1, OrderFacts DEF ActivationInv, Kept, Pushing, Onward

\* A request of the activation is sent.
LEMMA ForwardSend ==
  ASSUME ActivationInv, run.pc \in {"create", "strip", "unsuspend"},
         NEW q \in Requests, q.op # "delete", q.op = "patch" => ~q.susp,
         q.op = "create" <=> run.pc = "create", q.op = "strip" <=> run.pc = "strip",
         q.op = "create" => q = [op |-> "create", at |-> This],
         net' = net \cup {q}, UNCHANGED World,
         UNCHANGED <<receipt, rescue, forgotten, rescues, faults>>,
         run' \in Memory, run'.mode = run.mode, run'.own = run.own, run'.begun,
         run'.quiet = run.quiet, run'.at = run.at, run'.asked = q, run'.answer = None,
         run'.unsure = (IF q.op = "create" THEN This ELSE run.unsure),
         run'.pc = (IF q.op = "create" THEN "posted"
                    ELSE IF q.op = "strip" THEN "stripping" ELSE "unsuspending")
  PROVE  ActivationInv'
<1>1. /\ run \in Memory /\ run.mode = "activate" /\ ~run.quiet /\ run.unsure = None
      /\ run.pc \in Forward /\ run'.pc \in Forward
      /\ run'.pc \in {"posted", "stripping", "unsuspending"}
  BY DEF ActivationInv, TypeOK, Places, Early, Forward
<1>2. ~Unseen /\ ~Unseen' /\ Heads
  BY <1>1 DEF Unseen, Ended, Heads
<1>3. TypeOK'
  BY DEF ActivationInv, TypeOK, World
<1>4. Owning' /\ OwnDeletes'
  BY DEF ActivationInv, Owning, OwnDeletes, Applies, World
<1>5. Places'
  BY <1>1, RollingBackIs
     DEF ActivationInv, Places, Early, Creating, Owned, Handing, Forward, This
<1>6. Asks'
  BY <1>1, NoneIsApart DEF Asks, Deleting, This, Requests
<1>7. Quietly' /\ Kept'
  BY <1>1 DEF Quietly, ActivationInv, Kept, World
<1>8. Pushing'
  BY <1>1 DEF ActivationInv, Pushing, Won, Onward
<1>9. Isolated'
  <2>1. CASE q.op = "strip" \/ (q.op = "create" /\ q.at # Deployment)
    <3>1. MayRun' => MayRun
      BY <1>2, <2>1 DEF MayRun, World, Applying
    <3> QED BY <2>1, <3>1 DEF ActivationInv, Isolated, World, Ours
  <2>2. CASE q.op = "create" /\ q.at = Deployment
    BY <1>1, <2>2, IsolationFirst DEF Isolated, World
  <2>3. CASE q.op = "patch"
    <3>1. run.pc = "unsuspend"
      BY <2>3
    <3> QED BY <1>1, <2>3, <3>1, IsolationFirst DEF Isolated, World, Handing
  <2>4. q.op = "create" \/ q.op = "strip" \/ q.op = "patch"
    BY DEF Requests
  <2> QED BY <2>1, <2>2, <2>3, <2>4, Zenon
<1>10. Phases'
  BY <1>1, RollingBackIs DEF Phases, RollingBack
<1>11. Ahead'
  <2>1. CASE q.op = "create"
    <3>1. run.pc = "create" /\ run.at \in DOMAIN Order
      BY <2>1 DEF ActivationInv, Places, Creating
    <3>2. \A i \in DOMAIN Order : i > run.at => Unposted(Order[i])
      BY <3>1 DEF ActivationInv, Ahead, Creating
    <3>3. \A i \in DOMAIN Order : i > run.at => Unposted(Order[i])'
      <4> SUFFICES ASSUME NEW i \in DOMAIN Order, i > run.at PROVE Unposted(Order[i])'
        OBVIOUS
      <4>1. Order[i] # This
        BY <3>1, OrderFacts DEF This
      <4>2. q # [op |-> "create", at |-> Order[i]]
        BY <2>1, <4>1
      <4> QED BY <3>2, <4>2 DEF Unposted, World
    <3>4. live[This] # None => live[This].by # "run"
      BY <3>1 DEF ActivationInv, Ahead, Unposted
    <3> QED BY <2>1, <3>3, <3>4, NoneIsApart DEF Ahead, World, This
  <2>2. CASE q.op # "create"
    <3>1. \A n : q # [op |-> "create", at |-> n]
      BY <2>2
    <3>2. \A n \in Names : Unposted(n)' <=> Unposted(n)
      BY <3>1 DEF Unposted, World
    <3>3. run'.pc \in Creating \cup Owned => run.pc \in Creating \cup Owned
      BY <2>2, <1>1 DEF Creating, Owned
    <3>4. \A i \in DOMAIN Order : Order[i] \in Names
      BY OrderFacts
    <3> QED BY <2>2, <1>1, <3>2, <3>3, <3>4 DEF ActivationInv, Ahead
  <2> QED BY <2>1, <2>2
<1>12. Named'
  <2> SUFFICES ASSUME NEW n \in Names,
                      \/ live[n] # None /\ live[n].by = "run"
                      \/ [op |-> "create", at |-> n] \in net'
               PROVE  n \in run'.own \cup {run'.unsure, forgotten} \cup stray
    BY DEF Named, World
  <2>1. n # None
    BY NoneIsApart
  <2>2. CASE [op |-> "create", at |-> n] = q
    BY <2>2
  <2>3. CASE [op |-> "create", at |-> n] # q
    BY <1>1, <1>2, <2>1, <2>3 DEF ActivationInv, Named
  <2> QED BY <2>2, <2>3
<1>13. Papers'
  BY <1>1, <1>2, RollingBackIs DEF ActivationInv, Papers, Heads, Ended, Forward
<1>14. Claims'
  <2>1. WhatIsLeftIsNamed'
    BY DEF ActivationInv, Claims, WhatIsLeftIsNamed, World
  <2>2. (receipt.status = "rolled-back" \/ rescue = "recovered") => Clear'
    BY DEF ActivationInv, Claims, Clear, Away, Still, Ours, Applying, World
  <2> QED BY <1>1, <2>1, <2>2 DEF Claims, Won
<1> QED BY <1>3, <1>4, <1>5, <1>6, <1>7, <1>8, <1>9, <1>10, <1>11, <1>12, <1>13, <1>14 DEF ActivationInv

LEMMA PostMemory ==
  ASSUME run \in Memory, NEW n \in Names, NEW q \in Requests,
         run' = [[run EXCEPT !.pc = "posted", !.begun = TRUE, !.unsure = n]
                   EXCEPT !.asked = q, !.answer = None]
  PROVE  /\ run' \in Memory /\ run'.mode = run.mode /\ run'.own = run.own /\ run'.begun
         /\ run'.quiet = run.quiet /\ run'.at = run.at /\ run'.asked = q /\ run'.answer = None
         /\ run'.unsure = n /\ run'.pc = "posted"
<1>1. "posted" \in Forward
  BY DEF Forward
<1> QED BY <1>1 DEF Memory

\* A create is sent for a name that no create was sent for before.
LEMMA SendCreateStep == ASSUME ActivationInv, SendCreate PROVE ActivationInv'
<1> DEFINE q == [op |-> "create", at |-> This]
           n == This
<1>1. /\ run.pc = "create" /\ run \in Memory /\ run.at \in DOMAIN Order
      /\ net' = net \cup {q} /\ UNCHANGED World
      /\ UNCHANGED <<receipt, rescue, forgotten, rescues, faults>>
      /\ run' = [[run EXCEPT !.pc = "posted", !.begun = TRUE, !.unsure = n]
                   EXCEPT !.asked = q, !.answer = None]
  BY DEF SendCreate, Send, Becomes, World, ActivationInv, TypeOK, Places, Creating
<1>2. n \in Names /\ q \in Requests /\ q.op = "create" /\ q = [op |-> "create", at |-> This]
  BY <1>1, OrderFacts DEF This, Requests
<1> HIDE DEF n, q
<1>3. /\ run' \in Memory /\ run'.mode = run.mode /\ run'.own = run.own /\ run'.begun
      /\ run'.quiet = run.quiet /\ run'.at = run.at /\ run'.asked = q /\ run'.answer = None
      /\ run'.unsure = n /\ run'.pc = "posted"
  BY <1>1, <1>2, PostMemory
<1>4. /\ q.op # "delete" /\ q.op # "patch" /\ q.op # "strip" /\ run.pc # "strip"
  BY <1>1, <1>2
<1> QED BY <1>1, <1>2, <1>3, <1>4, ForwardSend DEF n

LEMMA StripMemory ==
  ASSUME run \in Memory, NEW t \in 0..Attempts, NEW q \in Requests,
         run' = [[run EXCEPT !.pc = "stripping", !.tries = t]
                   EXCEPT !.asked = q, !.answer = None]
  PROVE  /\ run' \in Memory /\ run'.mode = run.mode /\ run'.own = run.own
         /\ run'.begun = run.begun
         /\ run'.quiet = run.quiet /\ run'.at = run.at /\ run'.asked = q /\ run'.answer = None
         /\ run'.unsure = run.unsure /\ run'.pc = "stripping"
<1>1. "stripping" \in Forward
  BY DEF Forward
<1> QED BY <1>1 DEF Memory

LEMMA NonceMemory ==
  ASSUME run \in Memory, NEW c \in SUBSET Names, NEW a \in 0..Len(Order),
         NEW p \in {"health", "routes", "create", "strip", "stripped"},
         run' = [[run EXCEPT !.asked = None, !.answer = None] EXCEPT !.clean = c, !.pc = p, !.at = a]
  PROVE  /\ run' \in Memory /\ run'.mode = run.mode /\ run'.own = run.own
         /\ run'.begun = run.begun /\ run'.tries = run.tries
         /\ run'.quiet = run.quiet /\ run'.at = a /\ run'.asked = None
         /\ run'.unsure = run.unsure /\ run'.pc = p
<1>1. p \in Forward
  BY DEF Forward
<1> QED BY <1>1 DEF Memory

\* The nonce is gone, and the next step begins.
LEMMA StrippedStep ==
  ASSUME ActivationInv, run.pc \in {"strip", "stripping", "stripped"}, Local(Stripped)
  PROVE  ActivationInv'
<1> DEFINE p == IF This = Deployment THEN "health"
                ELSE IF This = Ingress THEN "routes" ELSE "create"
           a == IF This \in {Deployment, Ingress} THEN run.at ELSE run.at + 1
           c == run.clean \cup {This}
<1>1. /\ run \in Memory /\ run.at \in DOMAIN Order /\ run.pc \in Owned /\ run.pc \in Forward
      /\ run.mode = "activate" /\ ~run.quiet /\ run.begun /\ run.unsure = None
      /\ run.own = {Order[j] : j \in 1..run.at}
  BY DEF ActivationInv, TypeOK, Places, Owned, Forward, Early
<1>2. run' = Stripped /\ UNCHANGED World /\ faults' \in 0..MaxFaults
      /\ UNCHANGED <<net, receipt, rescue, forgotten, rescues>>
  BY LocalFrame
<1>3. run' = [[run EXCEPT !.asked = None, !.answer = None] EXCEPT !.clean = c, !.pc = p, !.at = a]
  BY <1>1, <1>2 DEF Stripped, Heard, Memory
<1>4. a \in DOMAIN Order /\ a \in 0..Len(Order) /\ (This \notin {Deployment, Ingress} => a = run.at + 1)
  <2>1. This # Ingress => run.at # Len(Order)
    BY OrderFacts DEF This
  <2> QED BY <1>1, <2>1, OrderFacts
<1>5. c \in SUBSET Names /\ This \in Names /\ p \in {"health", "routes", "create", "strip", "stripped"}
  BY <1>1, OrderFacts DEF This, Memory
<1>6. (p = "health" <=> This = Deployment) /\ (p = "routes" <=> This = Ingress)
      /\ p \in {"health", "routes", "create"}
  BY DEF Deployment, Ingress
<1>7. p \in {"health", "routes"} => a = run.at
  BY <1>6
<1>8. p = "create" => a = run.at + 1
  BY <1>4, <1>6
<1> HIDE DEF p, a, c
<1>9. /\ run' \in Memory /\ run'.mode = run.mode /\ run'.own = run.own
      /\ run'.begun = run.begun
      /\ run'.quiet = run.quiet /\ run'.at = a /\ run'.asked = None
      /\ run'.unsure = run.unsure /\ run'.pc = p
  BY <1>1, <1>3, <1>4, <1>5, NonceMemory, ZenonT(60)
<1>10. Places' /\ Asks'
  <2>1. p = "create" => run'.own = {Order[j] : j \in 1..run'.at-1} /\ run'.at > 1
    <3>1. run.at + 1 - 1 = run.at /\ run.at \in 1..Len(Order)
      BY <1>1, OrderFacts
    <3> QED BY <1>1, <1>8, <1>9, <3>1
  <2>2. p \in {"health", "routes"} => run'.own = {Order[j] : j \in 1..run'.at} /\ This' = This
    BY <1>1, <1>7, <1>9 DEF This
  <2> QED BY <1>1, <1>4, <1>6, <1>9, <2>1, <2>2, RollingBackIs
       DEF Places, Asks, Forward, Early, Creating, Owned, Handing
<1>11. Ahead'
  <2>1. \A i \in DOMAIN Order : i > run.at => Unposted(Order[i])
    BY <1>1 DEF ActivationInv, Ahead
  <2>2. \A i \in DOMAIN Order : i > run.at => Unposted(Order[i])'
    BY <1>2, <2>1 DEF Unposted, World
  <2>3. a = run.at \/ a = run.at + 1
    BY <1>6, <1>7, <1>8
  <2>4. \A i \in DOMAIN Order : i > a => i > run.at
    BY <1>1, <2>3, OrderFacts
  <2>5. p = "create" => Unposted(This)'
    <3>1. run.at + 1 > run.at
      BY <1>1, OrderFacts
    <3> QED BY <1>4, <1>8, <1>9, <2>2, <3>1 DEF This
  <2> QED BY <1>6, <1>9, <2>2, <2>4, <2>5 DEF Ahead
<1>12. run'.pc \in Forward \ {"preflight"} /\ run'.pc # "commit"
  BY <1>6, <1>9 DEF Forward
<1> QED BY <1>1, <1>2, <1>9, <1>10, <1>11, <1>12, ForwardStep

\* The nonce is taken from the object that was read.
LEMMA StripStep == ASSUME ActivationInv, Strip PROVE ActivationInv'
<1> DEFINE o == live[This]
           gone == o = [Posted EXCEPT !.tag = FALSE] /\ run.tries > 0
           q == [op |-> "strip", at |-> This, seen |-> o]
           t == run.tries + 1
<1>1. /\ run.pc = "strip" /\ run \in Memory /\ run.at \in DOMAIN Order /\ run.begun
      /\ run.tries < Attempts /\ run.tries \in 0..Attempts /\ run.unsure = None
  BY DEF Strip, ActivationInv, TypeOK, Places, Owned, Forward, Memory
<1>2. CASE o = Posted /\ Send([run EXCEPT !.pc = "stripping", !.tries = @ + 1], q)
  <2>1. This \in Names /\ o \in Objects /\ t \in 0..Attempts
    BY <1>1, <1>2, OrderFacts, ActivationConstants DEF This, Posted, Objects
  <2>2. q \in Requests /\ q.op = "strip" /\ q.op # "create" /\ q.op # "delete" /\ q.op # "patch"
    BY <2>1 DEF Requests
  <2>3. /\ net' = net \cup {q} /\ UNCHANGED World
        /\ UNCHANGED <<receipt, rescue, forgotten, rescues, faults>>
        /\ run' = [[run EXCEPT !.pc = "stripping", !.tries = t]
                     EXCEPT !.asked = q, !.answer = None]
    BY <1>1, <1>2 DEF Send, Becomes, World, Memory
  <2> HIDE DEF q, t
  <2>4. /\ run' \in Memory /\ run'.mode = run.mode /\ run'.own = run.own
        /\ run'.begun = run.begun
        /\ run'.quiet = run.quiet /\ run'.at = run.at /\ run'.asked = q /\ run'.answer = None
        /\ run'.unsure = run.unsure /\ run'.pc = "stripping"
    BY <1>1, <2>1, <2>2, <2>3, StripMemory
  <2> QED BY <1>1, <2>2, <2>3, <2>4, ForwardSend
<1>3. CASE Local(Stripped)
  BY <1>1, <1>3, StrippedStep
<1>4. CASE Unproved(o = Posted \/ gone, Fail(run))
  BY <1>1, <1>4, UnprovedFails DEF Forward
<1> QED BY <1>2, <1>3, <1>4 DEF Strip

LEMMA StripAnsweredStep == ASSUME ActivationInv, StripAnswered PROVE ActivationInv'
<1> DEFINE p == IF run.tries < Attempts THEN "strip" ELSE "stripped"
           r == [Heard(run) EXCEPT !.pc = p]
<1>1. /\ run.pc = "stripping" /\ run.pc \in Forward /\ run \in Memory /\ run.mode = "activate"
      /\ ~run.quiet /\ run.begun /\ run.unsure = None /\ run.at \in DOMAIN Order
      /\ run.own = {Order[j] : j \in 1..run.at}
  BY DEF StripAnswered, ActivationInv, TypeOK, Places, Owned, Forward, Early
<1>2. CASE run.answer = "ok"
  BY <1>1, <1>2, StrippedStep DEF StripAnswered
<1>3. CASE run.answer # "ok"
  <2>1. Local(r)
    BY <1>3 DEF StripAnswered
  <2>2. run' = r /\ UNCHANGED World /\ faults' \in 0..MaxFaults
        /\ UNCHANGED <<net, receipt, rescue, forgotten, rescues>>
    <3> HIDE DEF r
    <3> QED BY <2>1, LocalFrame
  <2>3. p \in {"health", "routes", "create", "strip", "stripped"} /\ p \in {"strip", "stripped"}
        /\ (p = "strip" => run.tries < Attempts)
    OBVIOUS
  <2>4. run.clean \in SUBSET Names /\ run.at \in 0..Len(Order)
    BY <1>1 DEF Memory
  <2>5. run' = [[run EXCEPT !.asked = None, !.answer = None]
                  EXCEPT !.clean = run.clean, !.pc = p, !.at = run.at]
    <3> HIDE DEF p
    <3> QED BY <1>1, <2>2 DEF Heard, Memory
  <2> HIDE DEF p, r
  <2> DEFINE c == run.clean  a == run.at
  <2>6. /\ run' \in Memory /\ run'.mode = run.mode /\ run'.own = run.own
        /\ run'.begun = run.begun /\ run'.tries = run.tries
        /\ run'.quiet = run.quiet /\ run'.at = a /\ run'.asked = None
        /\ run'.unsure = run.unsure /\ run'.pc = p
    <3>1. run' = [[run EXCEPT !.asked = None, !.answer = None] EXCEPT !.clean = c, !.pc = p, !.at = a]
      BY <2>5
    <3>2. c \in SUBSET Names /\ a \in 0..Len(Order)
      BY <2>4
    <3> HIDE DEF c, a
    <3> QED BY <1>1, <2>3, <3>1, <3>2, NonceMemory
  <2>7. Places' /\ Asks'
    BY <1>1, <2>3, <2>6, RollingBackIs
       DEF Places, Asks, Forward, Early, Creating, Owned, Handing
  <2>8. Ahead'
    BY <1>1, <2>2, <2>3, <2>6 DEF ActivationInv, Ahead, Creating, Owned, Unposted, World
  <2>9. run'.pc \in Forward \ {"preflight"} /\ run'.pc # "commit"
    BY <2>3, <2>6 DEF Forward
  <2> QED BY <1>1, <2>2, <2>6, <2>7, <2>8, <2>9, ForwardStep
<1> QED BY <1>2, <1>3

LEMMA StripConcludedStep == ASSUME ActivationInv, StripConcluded PROVE ActivationInv'
<1> DEFINE gone == live[This] = [Posted EXCEPT !.tag = FALSE]
<1>1. CASE Local(Stripped)
  BY <1>1, StrippedStep DEF StripConcluded
<1>2. CASE Unproved(gone, Fail(run))
  BY <1>2, UnprovedFails DEF Forward, StripConcluded
<1> QED BY <1>1, <1>2 DEF StripConcluded

LEMMA BoundMemory ==
  ASSUME run \in Memory, NEW o \in SUBSET Names,
         run' = [[run EXCEPT !.asked = None, !.answer = None]
                   EXCEPT !.own = o, !.unsure = None, !.pc = "strip", !.tries = 0]
  PROVE  /\ run' \in Memory /\ run'.mode = run.mode /\ run'.own = o
         /\ run'.begun = run.begun /\ run'.quiet = run.quiet /\ run'.at = run.at
         /\ run'.asked = None /\ run'.unsure = None /\ run'.pc = "strip" /\ run'.tries = 0
<1>1. "strip" \in Forward
  BY DEF Forward
<1>2. 0 \in 0..Attempts
  BY ActivationConstants
<1> QED BY <1>1, <1>2 DEF Memory

\* The object of this name is the one that was posted: it is bound.
LEMMA BoundStep ==
  ASSUME ActivationInv, run.pc \in {"posted", "discover"}, Local(Bound(run)),
         live[This] # None /\ ~live[This].going
  PROVE  ActivationInv'
<1> DEFINE o == run.own \cup {This}
<1>1. /\ run \in Memory /\ run.at \in DOMAIN Order /\ run.pc \in Creating /\ run.pc \in Forward
      /\ run.mode = "activate" /\ ~run.quiet /\ run.begun /\ run.unsure = This
      /\ run.own = {Order[j] : j \in 1..run.at-1}
  BY DEF ActivationInv, TypeOK, Places, Creating, Forward, Early
<1>2. run' = Bound(run) /\ UNCHANGED World /\ faults' \in 0..MaxFaults
      /\ UNCHANGED <<net, receipt, rescue, forgotten, rescues>>
  BY LocalFrame
<1>3. run' = [[run EXCEPT !.asked = None, !.answer = None]
                EXCEPT !.own = o, !.unsure = None, !.pc = "strip", !.tries = 0]
  BY <1>1, <1>2 DEF Bound, Heard, Memory
<1>4. o \in SUBSET Names /\ This \in Names
  BY <1>1, OrderFacts DEF This, Memory
<1>5. o = {Order[j] : j \in 1..run.at}
  <2>1. run.at \in 1..Len(Order)
    BY <1>1, OrderFacts
  <2>2. 1..run.at = 1..run.at-1 \cup {run.at}
    BY <2>1, OrderFacts
  <2> QED BY <1>1, <2>2 DEF This
<1> HIDE DEF o
<1>6. /\ run' \in Memory /\ run'.mode = run.mode /\ run'.own = o
      /\ run'.begun = run.begun /\ run'.quiet = run.quiet /\ run'.at = run.at
      /\ run'.asked = None /\ run'.unsure = None /\ run'.pc = "strip" /\ run'.tries = 0
  BY <1>1, <1>3, <1>4, BoundMemory
<1>7. Places' /\ Asks'
  <2>1. 0 < Attempts
    BY ActivationConstants
  <2> QED BY <1>1, <1>5, <1>6, <2>1, RollingBackIs
       DEF Places, Asks, Forward, Early, Creating, Owned, Handing
<1>8. Ahead'
  <2>1. \A i \in DOMAIN Order : i > run.at => Unposted(Order[i])
    BY <1>1 DEF ActivationInv, Ahead
  <2> QED BY <1>2, <1>6, <2>1 DEF Ahead, Unposted, World
<1>9. run'.pc \in Forward \ {"preflight"} /\ run'.pc # "commit"
  BY <1>6 DEF Forward
<1>10. run.own \subseteq run'.own /\ run'.own = run.own \cup {This}
       /\ run.unsure \in run'.own \cup {None}
  BY <1>1, <1>6 DEF o
<1> QED BY <1>1, <1>2, <1>6, <1>7, <1>8, <1>9, <1>10, ForwardStep

LEMMA DiscoverMemory ==
  ASSUME run \in Memory,
         run' = [[run EXCEPT !.asked = None, !.answer = None] EXCEPT !.pc = "discover"]
  PROVE  /\ run' \in Memory /\ run'.mode = run.mode /\ run'.own = run.own
         /\ run'.begun = run.begun /\ run'.quiet = run.quiet /\ run'.at = run.at
         /\ run'.asked = None /\ run'.unsure = run.unsure /\ run'.pc = "discover"
<1>1. "discover" \in Forward
  BY DEF Forward
<1> QED BY <1>1 DEF Memory

\* A create is answered: bound, refused, or lost.
LEMMA CreateAnsweredStep == ASSUME ActivationInv, CreateAnswered PROVE ActivationInv'
<1> DEFINE u == [run EXCEPT !.unsure = None]
           d == [Heard(run) EXCEPT !.pc = "discover"]
<1>1. /\ run.pc = "posted" /\ run.answer # None /\ run \in Memory /\ run.pc \in Forward
      /\ run.mode = "activate" /\ ~run.quiet /\ run.begun /\ run.unsure = This
      /\ run.at \in DOMAIN Order /\ run.own = {Order[j] : j \in 1..run.at-1}
  BY DEF CreateAnswered, ActivationInv, TypeOK, Places, Creating, Forward, Early
<1>2. run.answer = "ok" \/ run.answer = "refused" \/ run.answer = "lost"
  BY <1>1 DEF Memory
<1>3. CASE run.answer = "ok"
  <2>1. Local(Bound(run))
    BY <1>3 DEF CreateAnswered
  <2>2. live[This] # None /\ ~live[This].going
    BY <1>1, <1>3 DEF ActivationInv, Ahead
  <2> QED BY <1>1, <2>1, <2>2, BoundStep
<1>4. CASE run.answer = "refused"
  <2>1. Local(Fail(u))
    BY <1>4 DEF CreateAnswered
  <2>2. run' = Fail(u) /\ UNCHANGED World /\ faults' \in 0..MaxFaults
        /\ UNCHANGED <<net, receipt, rescue, forgotten, rescues>>
    <3> HIDE DEF u
    <3> QED BY <2>1, LocalFrame
  <2>3. u \in Memory /\ u.own = run.own /\ u.unsure = None /\ u.mode = "activate"
    BY <1>1 DEF Memory
  <2>4. run'.own = run.own /\ run'.unsure = None
    <3> HIDE DEF u
    <3> QED BY <2>2, <2>3, FailMemory
  <2>5. Heads /\ ~Unseen /\ run.pc # "idle"
    BY <1>1 DEF Heads, Unseen, Ended
  <2>6. Unposted(This)
    BY <1>1, <1>4 DEF ActivationInv, Ahead
  <2>7. Named'
    <3> SUFFICES ASSUME NEW n \in Names,
                        \/ live[n] # None /\ live[n].by = "run"
                        \/ [op |-> "create", at |-> n] \in net
                 PROVE  n \in run'.own \cup {run'.unsure, forgotten} \cup stray
      BY <2>2 DEF Named, World
    <3>1. n # This
      BY <2>6 DEF Unposted
    <3>2. n \in run.own \cup {run.unsure, forgotten} \cup stray
      BY <2>5 DEF ActivationInv, Named
    <3> QED BY <1>1, <2>4, <3>1, <3>2
  <2>8. receipt.status \in {"reserved", "activated"} /\ receipt \in Receipts
        /\ forgotten \in Names \cup {None}
    BY <2>5 DEF ActivationInv, Papers, TypeOK
  <2>9. u = run \/ u = [run EXCEPT !.unsure = None]
    OBVIOUS
  <2> HIDE DEF u
  <2> QED BY <1>1, <2>2, <2>7, <2>8, <2>9, FailStep
<1>5. CASE run.answer = "lost"
  <2>1. Local(d)
    BY <1>5 DEF CreateAnswered
  <2>2. run' = d /\ UNCHANGED World /\ faults' \in 0..MaxFaults
        /\ UNCHANGED <<net, receipt, rescue, forgotten, rescues>>
    <3> HIDE DEF d
    <3> QED BY <2>1, LocalFrame
  <2>3. run' = [[run EXCEPT !.asked = None, !.answer = None] EXCEPT !.pc = "discover"]
    BY <2>2 DEF Heard
  <2> HIDE DEF d
  <2>4. /\ run' \in Memory /\ run'.mode = run.mode /\ run'.own = run.own
        /\ run'.begun = run.begun /\ run'.quiet = run.quiet /\ run'.at = run.at
        /\ run'.asked = None /\ run'.unsure = run.unsure /\ run'.pc = "discover"
    BY <1>1, <2>3, DiscoverMemory
  <2>5. Places' /\ Asks'
    BY <1>1, <2>4, RollingBackIs
       DEF Places, Asks, Forward, Early, Creating, Owned, Handing, This
  <2>6. Ahead'
    BY <1>1, <2>2, <2>4 DEF ActivationInv, Ahead, Creating, Owned, Unposted, World
  <2>7. run'.pc \in Forward \ {"preflight"} /\ run'.pc # "commit"
    BY <2>4 DEF Forward
  <2> QED BY <1>1, <2>2, <2>4, <2>5, <2>6, <2>7, ForwardStep
<1> QED BY <1>2, <1>3, <1>4, <1>5

LEMMA PostedIs ==
  Posted \in Objects /\ Posted # None /\ ~Posted.going /\ Posted.by = "run"
<1>1. Posted \in Objects /\ ~Posted.going /\ Posted.by = "run"
  BY DEF Posted, Objects
<1>2. Posted # None
  <2> HIDE DEF Posted
  <2> QED BY <1>1, NoneIsApart
<1> QED BY <1>1, <1>2

\* One read decides what a lost answer meant.
LEMMA DiscoverStep == ASSUME ActivationInv, Discover PROVE ActivationInv'
<1> DEFINE found == live[This] = Posted
<1>1. run.pc = "discover"
  BY DEF Discover
<1>2. CASE found /\ Local(Bound(run))
  BY <1>1, <1>2, BoundStep, PostedIs
<1>3. CASE Unproved(found, Fail(run))
  BY <1>1, <1>3, UnprovedFails DEF Forward
<1> QED BY <1>2, <1>3 DEF Discover

\* A step of proofs: it goes on, or the activation fails.
LEMMA ProvingMemory ==
  ASSUME run \in Memory, NEW p \in Forward, NEW a \in 0..Len(Order),
         run' = [run EXCEPT !.pc = p, !.at = a]
  PROVE  /\ run' \in Memory /\ run'.mode = run.mode /\ run'.own = run.own
         /\ run'.begun = run.begun /\ run'.quiet = run.quiet /\ run'.at = a
         /\ run'.asked = run.asked /\ run'.unsure = run.unsure /\ run'.pc = p
BY DEF Memory

LEMMA ProveHealthStep == ASSUME ActivationInv, ProveHealth PROVE ActivationInv'
<1> DEFINE r == [run EXCEPT !.pc = "gate"]
           a == run.at
<1>1. /\ run.pc = "health" /\ run \in Memory /\ run.pc \in Forward
      /\ run.mode = "activate" /\ ~run.quiet /\ run.begun /\ run.unsure = None /\ run.asked = None
      /\ run.at \in DOMAIN Order /\ run.own = {Order[j] : j \in 1..run.at} /\ This = Deployment
  BY DEF ProveHealth, Proving, ActivationInv, TypeOK, Places, Asks, Owned, Forward, Early, Deleting
<1>2. CASE Local(r)
  <2>1. run' = r /\ UNCHANGED World /\ faults' \in 0..MaxFaults
        /\ UNCHANGED <<net, receipt, rescue, forgotten, rescues>>
    <3> HIDE DEF r
    <3> QED BY <1>2, LocalFrame
  <2>2. run' = [run EXCEPT !.pc = "gate", !.at = a] /\ a \in 0..Len(Order) /\ "gate" \in Forward
    BY <1>1, <2>1 DEF Memory, Forward
  <2> HIDE DEF r, a
  <2>3. /\ run' \in Memory /\ run'.mode = run.mode /\ run'.own = run.own
        /\ run'.begun = run.begun /\ run'.quiet = run.quiet /\ run'.at = a
        /\ run'.asked = run.asked /\ run'.unsure = run.unsure /\ run'.pc = "gate"
    BY <1>1, <2>2, ProvingMemory
  <2>4. run'.at = run.at
    BY <2>3 DEF a
  <2>5. Places' /\ Asks'
    BY <1>1, <2>3, <2>4, RollingBackIs
       DEF Places, Asks, Forward, Early, Creating, Owned, Handing, This
  <2>6. Ahead'
    BY <1>1, <2>1, <2>3, <2>4 DEF ActivationInv, Ahead, Creating, Owned, Unposted, World
  <2> QED BY <1>1, <2>1, <2>3, <2>5, <2>6, ForwardStep DEF Forward
<1>3. CASE Unproved(Healthy, Fail(run))
  BY <1>1, <1>3, UnprovedFails
<1> QED BY <1>2, <1>3 DEF ProveHealth, Proving

LEMMA ProveBeforeIngressStep == ASSUME ActivationInv, ProveBeforeIngress PROVE ActivationInv'
<1> DEFINE r == [run EXCEPT !.pc = "create", !.at = @ + 1]
           a == run.at + 1
<1>1. /\ run.pc = "gate" /\ run \in Memory /\ run.pc \in Forward
      /\ run.mode = "activate" /\ ~run.quiet /\ run.begun /\ run.unsure = None /\ run.asked = None
      /\ run.at \in DOMAIN Order /\ run.own = {Order[j] : j \in 1..run.at} /\ This = Deployment
  BY DEF ProveBeforeIngress, Proving, ActivationInv, TypeOK, Places, Asks, Owned, Forward, Early, Deleting
<1>2. CASE Local(r)
  <2>1. run' = r /\ UNCHANGED World /\ faults' \in 0..MaxFaults
        /\ UNCHANGED <<net, receipt, rescue, forgotten, rescues>>
    <3> HIDE DEF r
    <3> QED BY <1>2, LocalFrame
  <2>2. a \in DOMAIN Order /\ a \in 0..Len(Order) /\ a > 1 /\ a - 1 = run.at /\ a > run.at
    <3>1. run.at # Len(Order)
      BY <1>1, OrderFacts DEF This, Deployment, Ingress
    <3> QED BY <1>1, <3>1, OrderFacts
  <2>3. run' = [run EXCEPT !.pc = "create", !.at = a] /\ "create" \in Forward
    BY <1>1, <2>1 DEF Memory, Forward
  <2> HIDE DEF r, a
  <2>4. /\ run' \in Memory /\ run'.mode = run.mode /\ run'.own = run.own
        /\ run'.begun = run.begun /\ run'.quiet = run.quiet /\ run'.at = a
        /\ run'.asked = run.asked /\ run'.unsure = run.unsure /\ run'.pc = "create"
    BY <1>1, <2>2, <2>3, ProvingMemory
  <2>5. Places' /\ Asks'
    BY <1>1, <2>2, <2>4, RollingBackIs
       DEF Places, Asks, Forward, Early, Creating, Owned, Handing
  <2>6. Ahead'
    <3>1. \A i \in DOMAIN Order : i > run.at => Unposted(Order[i])
      BY <1>1 DEF ActivationInv, Ahead, Owned
    <3>2. \A i \in DOMAIN Order : i > run.at => Unposted(Order[i])'
      BY <2>1, <3>1 DEF Unposted, World
    <3>3. \A i \in DOMAIN Order : i > a => i > run.at
      BY <1>1, <2>2, OrderFacts
    <3>4. Unposted(This)'
      BY <2>2, <2>4, <3>2 DEF This
    <3> QED BY <2>4, <3>2, <3>3, <3>4 DEF Ahead
  <2> QED BY <1>1, <2>1, <2>4, <2>5, <2>6, ForwardStep DEF Forward
<1>3. CASE Unproved(BeforeIngress, Fail(run))
  BY <1>1, <1>3, UnprovedFails
<1> QED BY <1>2, <1>3 DEF ProveBeforeIngress, Proving

LEMMA ProveRoutesStep == ASSUME ActivationInv, ProveRoutes PROVE ActivationInv'
<1> DEFINE r == [run EXCEPT !.pc = "unsuspend", !.at = 1]
<1>1. /\ run.pc = "routes" /\ run \in Memory /\ run.pc \in Forward
      /\ run.mode = "activate" /\ ~run.quiet /\ run.begun /\ run.unsure = None /\ run.asked = None
      /\ run.at \in DOMAIN Order /\ run.own = {Order[j] : j \in 1..run.at} /\ This = Ingress
  BY DEF ProveRoutes, Proving, ActivationInv, TypeOK, Places, Asks, Owned, Forward, Early, Deleting
<1>2. CASE Local(r)
  <2>1. run' = r /\ UNCHANGED World /\ faults' \in 0..MaxFaults
        /\ UNCHANGED <<net, receipt, rescue, forgotten, rescues>>
    <3> HIDE DEF r
    <3> QED BY <1>2, LocalFrame
  <2>2. 1 \in 0..Len(Order) /\ "unsuspend" \in Forward
    BY OrderFacts DEF Forward
  <2>3. run.own = Names
    <3>1. run.at = Len(Order)
      <4>1. Len(Order) \in DOMAIN Order
        BY OrderFacts
      <4> QED BY <1>1, <4>1, OrderFacts DEF This
    <3> QED BY <1>1, <3>1, OrderFacts DEF Names
  <2>4. /\ run' \in Memory /\ run'.mode = run.mode /\ run'.own = run.own
        /\ run'.begun = run.begun /\ run'.quiet = run.quiet /\ run'.at = 1
        /\ run'.asked = run.asked /\ run'.unsure = run.unsure /\ run'.pc = "unsuspend"
    BY <1>1, <2>1, <2>2, ProvingMemory
  <2>5. Places' /\ Asks'
    BY <1>1, <2>3, <2>4, RollingBackIs
       DEF Places, Asks, Forward, Early, Creating, Owned, Handing
  <2>6. Ahead'
    BY <2>4 DEF Ahead, Creating, Owned
  <2> QED BY <1>1, <2>1, <2>4, <2>5, <2>6, ForwardStep DEF Forward
<1>3. CASE Unproved(RouteMatrix /\ SharedSource /\ ClusterBound, Fail(run))
  BY <1>1, <1>3, UnprovedFails
<1> QED BY <1>2, <1>3 DEF ProveRoutes, Proving

LEMMA PatchMemory ==
  ASSUME run \in Memory, NEW q \in Requests,
         run' = [[run EXCEPT !.pc = "unsuspending"] EXCEPT !.asked = q, !.answer = None]
  PROVE  /\ run' \in Memory /\ run'.mode = run.mode /\ run'.own = run.own
         /\ run'.begun = run.begun
         /\ run'.quiet = run.quiet /\ run'.at = run.at /\ run'.asked = q /\ run'.answer = None
         /\ run'.unsure = run.unsure /\ run'.pc = "unsuspending"
<1>1. "unsuspending" \in Forward
  BY DEF Forward
<1> QED BY <1>1 DEF Memory

\* The gateway is handed to Flux with its isolation in place.
LEMMA UnsuspendStep == ASSUME ActivationInv, Unsuspend PROVE ActivationInv'
<1> DEFINE q == [op |-> "patch", at |-> ThisOwner, susp |-> FALSE, rv |-> run.base[ThisOwner]]
<1>1. /\ run.pc = "unsuspend" /\ run \in Memory /\ run.begun /\ run.at \in 1..2
      /\ run.unsure = None
      /\ net' = net \cup {q} /\ UNCHANGED World
      /\ UNCHANGED <<receipt, rescue, forgotten, rescues, faults>>
      /\ run' = [[run EXCEPT !.pc = "unsuspending"] EXCEPT !.asked = q, !.answer = None]
  BY DEF Unsuspend, Send, Becomes, World, ActivationInv, TypeOK, Places, Forward
<1>2. q \in Requests
  <2>1. ThisOwner \in Owners
    BY <1>1, ThisOwnerIs
  <2>2. run.base[ThisOwner] \in Nat
    BY <1>1, <2>1 DEF Memory
  <2> QED BY <2>1, <2>2 DEF Requests
<1>3. q.op = "patch" /\ q.op # "create" /\ q.op # "strip" /\ q.op # "delete" /\ ~q.susp
  OBVIOUS
<1> HIDE DEF q
<1>4. /\ run' \in Memory /\ run'.mode = run.mode /\ run'.own = run.own
      /\ run'.begun = run.begun
      /\ run'.quiet = run.quiet /\ run'.at = run.at /\ run'.asked = q /\ run'.answer = None
      /\ run'.unsure = run.unsure /\ run'.pc = "unsuspending"
  BY <1>1, <1>2, PatchMemory
<1> QED BY <1>1, <1>2, <1>3, <1>4, ForwardSend

\* A step of the activation once everything is created.
LEMMA HandingStep ==
  ASSUME ActivationInv, run.pc \in Handing, NEW p \in Handing, NEW a \in 1..2,
         /\ run' \in Memory /\ run'.mode = run.mode /\ run'.own = run.own
         /\ run'.begun = run.begun /\ run'.quiet = run.quiet /\ run'.at = a
         /\ run'.asked = None /\ run'.unsure = run.unsure /\ run'.pc = p,
         p # "unsuspending", p = "commit" => AllThere,
         UNCHANGED World, faults' \in 0..MaxFaults,
         UNCHANGED <<net, receipt, rescue, forgotten, rescues>>
  PROVE  ActivationInv'
<1>1. /\ run \in Memory /\ run.pc \in Forward /\ p \in Forward /\ run.mode = "activate"
      /\ ~run.quiet /\ run.begun /\ run.unsure = None /\ run.own = Names
  BY DEF ActivationInv, TypeOK, Places, Handing, Forward, Early
<1>2. Places' /\ Asks'
  BY <1>1, RollingBackIs
     DEF Places, Asks, Forward, Early, Creating, Owned, Handing
<1>3. Ahead'
  BY DEF Ahead, Creating, Owned, Handing
<1>4. p = "commit" => AllThere'
  BY DEF AllThere, World
<1> QED BY <1>1, <1>2, <1>3, <1>4, ForwardStep DEF Handing

LEMMA HeardOn ==
  ASSUME run \in Memory, NEW p \in Forward, NEW a \in 0..Len(Order),
         run' = [Heard(run) EXCEPT !.pc = p, !.at = a]
  PROVE  /\ run' \in Memory /\ run'.mode = run.mode /\ run'.own = run.own
         /\ run'.begun = run.begun /\ run'.quiet = run.quiet /\ run'.at = a
         /\ run'.asked = None /\ run'.unsure = run.unsure /\ run'.pc = p
BY DEF Memory, Heard

LEMMA UnsuspendAnsweredStep == ASSUME ActivationInv, UnsuspendAnswered PROVE ActivationInv'
<1>1. run.pc = "unsuspending" /\ run.pc \in Handing /\ run.pc \in Forward /\ run \in Memory
      /\ 1 \in 0..Len(Order) /\ 2 \in 0..Len(Order)
  BY OrderFacts DEF UnsuspendAnswered, Handing, Forward, ActivationInv, TypeOK
<1> DEFINE x == [Heard(run) EXCEPT !.pc = "unsuspend", !.at = 2]
           y == [Heard(run) EXCEPT !.pc = "ready", !.at = 1]
<1>2. Local(Fail(run)) \/ Local(x) \/ Local(y)
  BY DEF UnsuspendAnswered
<1>3. CASE Local(Fail(run))
  BY <1>1, <1>3, LocalFrame, FailedStep
<1>4. CASE Local(x)
  <2>1. run' = x /\ UNCHANGED World /\ faults' \in 0..MaxFaults
        /\ UNCHANGED <<net, receipt, rescue, forgotten, rescues>>
    <3> HIDE DEF x
    <3> QED BY <1>4, LocalFrame
  <2>2. "unsuspend" \in Handing /\ "unsuspend" \in Forward /\ 2 \in 1..2
    BY DEF Handing, Forward
  <2>3. /\ run' \in Memory /\ run'.mode = run.mode /\ run'.own = run.own
        /\ run'.begun = run.begun /\ run'.quiet = run.quiet /\ run'.at = 2
        /\ run'.asked = None /\ run'.unsure = run.unsure /\ run'.pc = "unsuspend"
    BY <1>1, <2>1, <2>2, HeardOn
  <2> HIDE DEF x, y
  <2> QED BY <1>1, <2>1, <2>2, <2>3, HandingStep
<1>5. CASE Local(y)
  <2>1. run' = y /\ UNCHANGED World /\ faults' \in 0..MaxFaults
        /\ UNCHANGED <<net, receipt, rescue, forgotten, rescues>>
    <3> HIDE DEF y
    <3> QED BY <1>5, LocalFrame
  <2>2. "ready" \in Handing /\ "ready" \in Forward /\ 1 \in 1..2
    BY DEF Handing, Forward
  <2>3. /\ run' \in Memory /\ run'.mode = run.mode /\ run'.own = run.own
        /\ run'.begun = run.begun /\ run'.quiet = run.quiet /\ run'.at = 1
        /\ run'.asked = None /\ run'.unsure = run.unsure /\ run'.pc = "ready"
    BY <1>1, <2>1, <2>2, HeardOn
  <2> HIDE DEF x, y
  <2> QED BY <1>1, <2>1, <2>2, <2>3, HandingStep
<1> HIDE DEF x, y
<1> QED BY <1>2, <1>3, <1>4, <1>5

LEMMA AwaitReadyStep == ASSUME ActivationInv, AwaitReady PROVE ActivationInv'
<1> DEFINE p == IF run.at = 1 THEN "ready" ELSE "verify"
           a == IF run.at = 1 THEN 2 ELSE 1
           r == [run EXCEPT !.pc = p, !.at = a]
<1>1. /\ run.pc = "ready" /\ run.pc \in Handing /\ run.pc \in Forward /\ run \in Memory
      /\ run.asked = None
  BY DEF AwaitReady, Handing, Forward, ActivationInv, TypeOK, Asks, Deleting
<1>2. CASE Local(Fail(run))
  BY <1>1, <1>2, LocalFrame, FailedStep
<1>3. CASE Local(r)
  <2>1. run' = r /\ UNCHANGED World /\ faults' \in 0..MaxFaults
        /\ UNCHANGED <<net, receipt, rescue, forgotten, rescues>>
    <3> HIDE DEF r
    <3> QED BY <1>3, LocalFrame
  <2>2. p \in Handing /\ p # "unsuspending" /\ p # "commit" /\ a \in 1..2
        /\ p \in Forward /\ a \in 0..Len(Order)
    BY OrderFacts DEF Handing, Forward
  <2>3. run' = [run EXCEPT !.pc = p, !.at = a]
    BY <2>1
  <2> HIDE DEF p, a, r
  <2>4. /\ run' \in Memory /\ run'.mode = run.mode /\ run'.own = run.own
        /\ run'.begun = run.begun /\ run'.quiet = run.quiet /\ run'.at = a
        /\ run'.asked = run.asked /\ run'.unsure = run.unsure /\ run'.pc = p
    BY <1>1, <2>2, <2>3, ProvingMemory
  <2> QED BY <1>1, <2>1, <2>2, <2>4, HandingStep
<1>4. Local(Fail(run)) \/ Local(r)
  BY DEF AwaitReady
<1> QED BY <1>2, <1>3, <1>4

\* The last proofs find all objects there and both reconcilers active.
LEMMA ProveSuccessStep == ASSUME ActivationInv, ProveSuccess PROVE ActivationInv'
<1> DEFINE r == [run EXCEPT !.pc = "commit"]
           a == run.at
<1>1. /\ run.pc = "verify" /\ run.pc \in Handing /\ run.pc \in Forward /\ run \in Memory
      /\ run.asked = None /\ run.mode = "activate" /\ run.own = Names
      /\ ~run.quiet /\ run.begun /\ run.unsure = None
  BY DEF ProveSuccess, Proving, Handing, Forward, ActivationInv, TypeOK, Places, Asks, Deleting, Early
<1>2. CASE FinalProofs /\ Local(r)
  <2>1. run' = r /\ UNCHANGED World /\ faults' \in 0..MaxFaults
        /\ UNCHANGED <<net, receipt, rescue, forgotten, rescues>>
    <3> HIDE DEF r
    <3> QED BY <1>2, LocalFrame
  <2>2. run' = [run EXCEPT !.pc = "commit", !.at = a] /\ a \in 0..Len(Order) /\ "commit" \in Forward
    BY <1>1, <2>1 DEF Memory, Forward
  <2> HIDE DEF r, a
  <2>3. /\ run' \in Memory /\ run'.mode = run.mode /\ run'.own = run.own
        /\ run'.begun = run.begun /\ run'.quiet = run.quiet /\ run'.at = a
        /\ run'.asked = run.asked /\ run'.unsure = run.unsure /\ run'.pc = "commit"
    BY <1>1, <2>2, ProvingMemory
  <2>4. AllThere
    <3>1. \A n \in Names : live[n] # None /\ ~live[n].going /\ ~live[n].tag
      BY <1>2 DEF FinalProofs, Tracked, Posted
    <3>2. \A k \in Owners : ~kust[k].susp
      BY <1>2 DEF FinalProofs, FluxReady
    <3> QED BY <3>1, <3>2 DEF AllThere
  <2>5. AllThere'
    BY <2>1, <2>4 DEF AllThere, World
  <2>6. Places' /\ Asks'
    BY <1>1, <2>3, RollingBackIs
       DEF Places, Asks, Forward, Early, Creating, Owned, Handing
  <2>7. Ahead'
    BY <2>3 DEF Ahead, Creating, Owned
  <2> QED BY <1>1, <2>1, <2>3, <2>5, <2>6, <2>7, ForwardStep DEF Forward
<1>3. CASE Unproved(FinalProofs, Fail(run))
  BY <1>1, <1>3, UnprovedFails
<1> QED BY <1>2, <1>3 DEF ProveSuccess, Proving

-----
\* The API server, the controllers, and everybody else.

\* What the process knows, but for the answer it waits for.
Listening ==
  /\ run' \in Memory
  /\ run'.mode = run.mode /\ run'.pc = run.pc /\ run'.at = run.at
  /\ run'.tries = run.tries /\ run'.step = run.step /\ run'.own = run.own
  /\ run'.unsure = run.unsure /\ run'.begun = run.begun /\ run'.base = run.base
  /\ run'.asked = run.asked /\ run'.left = run.left /\ run'.auth = run.auth
  /\ run'.err = run.err /\ run'.quiet = run.quiet /\ run'.exit = run.exit

\* The arrival of an answer is all that a process may notice.
LEMMA ListeningIs ==
  ASSUME run \in Memory, NEW a \in {None, "ok", "refused", "lost"},
         run' = run \/ run' = [run EXCEPT !.answer = a]
  PROVE  Listening
BY DEF Listening, Memory

\* What depends on the process alone stays as it was.
LEMMA ListeningFacts ==
  ASSUME ActivationInv, Listening, UNCHANGED <<receipt, rescue, forgotten, rescues>>
  PROVE  /\ Places' /\ Asks' /\ Papers' /\ This' = This
         /\ Unseen' = Unseen /\ Heads' = Heads /\ Won' = Won
<1>1. Places'
  <2>1. This' = This
    BY DEF This, Listening
  <2> QED BY <2>1 DEF ActivationInv, Places, Listening
<1>2. Asks' /\ This' = This
  BY DEF ActivationInv, Asks, Listening, This
<1>3. Unseen' = Unseen /\ Heads' = Heads /\ Won' = Won
  BY DEF Unseen, Heads, Won, Listening
<1>4. Papers'
  BY <1>3 DEF ActivationInv, Papers, Listening
<1> QED BY <1>1, <1>2, <1>3, <1>4

\* A step of the world leaves the invariant alone, if it takes away nothing
\* that was bound and brings back, once the run no longer looks, only what a
\* straggler may.
LEMMA WorldStep ==
  ASSUME ActivationInv, Listening, UNCHANGED <<receipt, rescue, forgotten, rescues>>,
         TypeOK', Owning', OwnDeletes', Quietly', Kept', Isolated', Ahead', Named',
         net' \subseteq net, stray \subseteq stray',
         \A n \in Names : Unseen /\ Away(n) /\ (\A k \in Owners : Still(k)) => Away(n)',
         \A k \in Owners : Unseen /\ Still(k) => Still(k)',
         \A k \in Owners :
           /\ kust[k].rv <= kust'[k].rv
           /\ kust'[k].rv = kust[k].rv /\ kust[k].susp => kust'[k].susp
           /\ kust'[k].rv = kust[k].rv /\ ~Applying(k) => ~Applying(k)',
         AllThere /\ (run.pc = "commit" \/ Won) => AllThere',
         WhatIsLeftIsNamed'
  PROVE  ActivationInv'
<1>1. /\ Places' /\ Asks' /\ Papers' /\ Unseen' = Unseen /\ Heads' = Heads /\ Won' = Won
  BY ListeningFacts
<1>2. Pushing'
  BY <1>1 DEF ActivationInv, Pushing, Onward, Listening
<1>3. Phases'
  <2>1. ASSUME NEW i \in DOMAIN Stages, run.pc = Stages[i], run.begun
        PROVE  Passed(run, i - 1)'
    <3>1. i \in {1,2,3,4,5,6,7,8,9,10,11,12,13,14}
      BY StageFacts
    <3>2. Passed(run, i - 1)
      BY <2>1 DEF ActivationInv, Phases
    <3>3. i - 1 >= 5 => Unseen
      BY <2>1, <3>1, StageFacts DEF Unseen
    <3>4. run.quiet => \A k \in Owners : Still(k)'
      BY <3>2, <3>3 DEF Passed
    <3>5. run.quiet => \A n \in Names : Away(n) => Away(n)'
      BY <3>2, <3>3 DEF Passed
    <3> QED BY <3>1, <3>2, <3>4, <3>5, OrderFacts DEF Passed, Listening
  <2>2. run.pc = "quiet" => run.auth /\ (run.at = 2 => Still("gateway")')
    BY DEF ActivationInv, Phases, Unseen, Owners
  <2>3. run.pc = "delete" => /\ run.quiet /\ ~run.err
                             /\ Deployment \in run.own \ run.left => Away(Deployment)'
    <3> SUFFICES ASSUME run.pc = "delete"
                 PROVE  /\ run.quiet /\ ~run.err
                        /\ Deployment \in run.own \ run.left => Away(Deployment)'
      OBVIOUS
    <3>1. run.pc = Stages[9] /\ 9 \in 1..13 /\ Unseen
      BY StageFacts DEF Unseen
    <3>2. Passed(run, 9 - 1)
      BY <3>1, InPhase
    <3>3. run.quiet /\ ~run.err
      BY DEF ActivationInv, Phases
    <3> QED BY <3>1, <3>2, <3>3, OrderFacts DEF Passed, ActivationInv, Phases
  <2>4. run.mode = "B" /\ run.pc \in RollingBack =>
       \A k \in Owners : /\ run.base[k] <= kust'[k].rv
                         /\ kust'[k].rv = run.base[k] => kust'[k].susp /\ ~Applying(k)'
    <3> SUFFICES ASSUME run.mode = "B", run.pc \in RollingBack, NEW k \in Owners
                 PROVE  /\ run.base[k] <= kust'[k].rv
                        /\ kust'[k].rv = run.base[k] => kust'[k].susp /\ ~Applying(k)'
      OBVIOUS
    <3>1. run.base[k] \in Nat /\ kust[k].rv \in Nat /\ kust'[k].rv \in Nat
      BY DEF ActivationInv, TypeOK, Memory, Kustomizations
    <3>2. /\ run.base[k] <= kust[k].rv
          /\ kust[k].rv = run.base[k] => kust[k].susp /\ ~Applying(k)
      BY DEF ActivationInv, Phases
    <3> QED BY <3>1, <3>2
  <2> QED BY <2>1, <2>2, <2>3, <2>4 DEF Phases, Listening
<1>4. Claims'
  <2>1. receipt.status = "rolled-back" \/ rescue = "recovered" => Clear'
    <3> SUFFICES ASSUME receipt.status = "rolled-back" \/ rescue = "recovered" PROVE Clear'
      OBVIOUS
    <3>1. Unseen
      <4>1. CASE receipt.status = "rolled-back"
        BY <4>1, NoneIsApart DEF ActivationInv, Papers, Heads, Unseen, Ended
      <4>2. CASE rescue = "recovered"
        BY <4>2 DEF ActivationInv, Papers, Unseen
      <4> QED BY <4>1, <4>2
    <3>2. Clear
      BY DEF ActivationInv, Claims
    <3> QED BY <3>1, <3>2 DEF Clear
  <2>2. run.pc = "commit" \/ Won => AllThere'
    BY DEF ActivationInv, Claims
  <2> QED BY <1>1, <2>1, <2>2 DEF Claims, Listening
<1> QED BY <1>1, <1>2, <1>3, <1>4 DEF ActivationInv

\* Nothing changes but what is under way, and what the run hears of it.
LEMMA TransitStep ==
  ASSUME ActivationInv, Listening, UNCHANGED <<live, kust, stray, receipt, rescue, forgotten, passes, rescues>>,
         net' \subseteq net, drift' \subseteq Facets, faults' \in 0..MaxFaults, Ahead'
  PROVE  ActivationInv'
<1>1. /\ Places' /\ Asks' /\ Papers' /\ Unseen' = Unseen /\ Heads' = Heads /\ Won' = Won
  BY ListeningFacts
<1>2. TypeOK'
  BY DEF ActivationInv, TypeOK, Listening
<1>3. Owning' /\ OwnDeletes'
  BY DEF ActivationInv, Owning, OwnDeletes, Applies
<1>4. Quietly' /\ Kept'
  BY DEF ActivationInv, Quietly, Kept, Listening, Pristine, Ours
<1>5. Isolated'
  BY <1>1 DEF ActivationInv, Isolated, MayRun, Ours, Applying
<1>6. Named'
  BY <1>1 DEF ActivationInv, Named, Listening
<1>7. \A n \in Names : Away(n) => Away(n)'
  BY DEF Away, Ours
<1>8. \A k \in Owners : Still(k) => Still(k)'
  BY DEF Still, Applying
<1>9. \A k \in Owners :
           /\ kust[k].rv <= kust'[k].rv
           /\ kust'[k].rv = kust[k].rv /\ kust[k].susp => kust'[k].susp
           /\ kust'[k].rv = kust[k].rv /\ ~Applying(k) => ~Applying(k)'
  BY DEF ActivationInv, TypeOK, Kustomizations, Applying
<1>10. AllThere => AllThere'
  BY DEF AllThere
<1>11. WhatIsLeftIsNamed'
  BY DEF ActivationInv, Claims, WhatIsLeftIsNamed
<1> QED BY <1>2, <1>3, <1>4, <1>5, <1>6, <1>7, <1>8, <1>9, <1>10, <1>11, WorldStep

\* What is not yet created stays so while the run only hears of its request.
LEMMA KeepAhead ==
  ASSUME ActivationInv, Listening, UNCHANGED live, net' \subseteq net,
         run'.answer = None => run.answer = None,
         run.pc = "posted" /\ run'.answer = "refused" /\ run.answer # "refused" => Unposted(This)',
         run.pc = "posted" /\ run'.answer = "ok" => run.answer = "ok"
  PROVE  Ahead'
<1>1. This' = This /\ run'.pc = run.pc /\ run'.at = run.at
  BY DEF This, Listening
<1>2. \A n : Unposted(n) => Unposted(n)'
  BY DEF Unposted
<1> QED BY <1>1, <1>2 DEF ActivationInv, Ahead

\* An answer arrives where it is waited for.
LEMMA AnsweringIs ==
  ASSUME ActivationInv, NEW q, NEW a \in {"ok", "refused", "lost"}, Answering(q, a)
  PROVE  /\ Listening
         /\ run'.answer = (IF Awaited(q) THEN a ELSE run.answer)
<1>1. run \in Memory
  BY DEF ActivationInv, TypeOK
<1>2. CASE Awaited(q)
  <2>1. run' = [run EXCEPT !.answer = a]
    BY <1>2 DEF Answering
  <2>2. run'.answer = a
    BY <1>1, <2>1 DEF Memory
  <2> QED BY <1>1, <1>2, <2>1, <2>2, ListeningIs
<1>3. CASE ~Awaited(q)
  <2>1. run' = run
    BY <1>3 DEF Answering
  <2> QED BY <1>1, <1>3, <2>1, ListeningIs
<1> QED BY <1>2, <1>3

\* A create is waited for by the run that posted it, and by no other.
LEMMA PostedAsks ==
  ASSUME ActivationInv
  PROVE  /\ run.pc = "posted" => run.asked = [op |-> "create", at |-> This] /\ run.asked # None
         /\ \A q \in Requests : run.asked = q /\ q.op = "create" => run.pc = "posted"
         /\ \A q \in Requests : run.asked = q /\ q.op = "patch" =>
              run.pc \in {"suspend", "unsuspending"} /\ (run.pc = "suspend" => q.susp)
<1>1. run.pc = "posted" => This \in Names
  BY OrderFacts DEF ActivationInv, Places, Creating, This
<1>2. run.pc = "posted" => run.asked = [op |-> "create", at |-> This]
  BY DEF ActivationInv, Asks
<1>3. run.pc = "posted" => run.asked \in Requests
  BY <1>1, <1>2 DEF Requests
<1>4. \A q \in Requests : q # None
  BY NoneIsApart
<1> QED BY <1>2, <1>3, <1>4 DEF ActivationInv, Asks, Deleting

\* A request is refused, or overtaken by a status write.
LEMMA RefusedStep ==
  ASSUME ActivationInv, NEW q \in net, net' = net \ {q},
         NEW a \in {"ok", "refused"}, Answering(q, a),
         q.op = "create" => a = "refused" /\ live[q.at] # None,
         UNCHANGED <<live, kust, stray, drift, receipt, rescue, forgotten, passes, rescues>>,
         faults' \in 0..MaxFaults
  PROVE  ActivationInv'
<1>1. q \in Requests
  BY DEF ActivationInv, TypeOK
<1>2. Listening /\ run'.answer = (IF Awaited(q) THEN a ELSE run.answer)
  BY AnsweringIs
<1>3. run.pc = "posted" /\ Awaited(q) =>
        q = [op |-> "create", at |-> This] /\ a = "refused" /\ run.answer = None
  BY PostedAsks DEF Awaited
<1>4. run.pc = "posted" /\ Awaited(q) => Unposted(This)'
  <2> SUFFICES ASSUME run.pc = "posted", Awaited(q) PROVE Unposted(This)'
    OBVIOUS
  <2>1. This' = This
    BY <1>2 DEF This, Listening
  <2>2. live[This] # None /\ live[This].by # "run"
    BY <1>3 DEF ActivationInv, Ahead
  <2> QED BY <1>3, <2>1, <2>2 DEF Unposted
<1>5. Ahead'
  <2>1. a # None
    BY NoneIsApart
  <2>2. run'.answer = None => run.answer = None
    BY <1>2, <2>1
  <2>3. run.pc = "posted" /\ run'.answer = "refused" /\ run.answer # "refused" => Unposted(This)'
    BY <1>2, <1>4
  <2>4. run.pc = "posted" /\ run'.answer = "ok" => run.answer = "ok"
    BY <1>2, <1>3
  <2> QED BY <1>2, <2>2, <2>3, <2>4, KeepAhead
<1> QED BY <1>2, <1>5, TransitStep DEF ActivationInv, TypeOK

\* A request overtaken by a status write is refused.
LEMMA OvertakenStep ==
  ASSUME ActivationInv, NEW q \in net, Overtaken(q)
  PROVE  ActivationInv'
<1>1. faults' \in 0..MaxFaults
  BY ActivationConstants DEF Overtaken, Failing, ActivationInv, TypeOK
<1>2. q.op # "create" /\ "refused" \in {"ok", "refused"}
  BY DEF Overtaken
<1> QED BY <1>1, <1>2, RefusedStep DEF Overtaken

\* A lost answer leaves the request where it was.
LEMMA LoseAnswerStep == ASSUME ActivationInv, LoseAnswer PROVE ActivationInv'
<1>1. /\ run \in Memory /\ faults' \in 0..MaxFaults /\ run' = [run EXCEPT !.answer = "lost"]
      /\ UNCHANGED <<live, kust, stray, net, drift, receipt, rescue, forgotten, passes, rescues>>
  BY ActivationConstants DEF LoseAnswer, Failing, ActivationInv, TypeOK
<1>2. Listening /\ run'.answer = "lost"
  <2>1. run'.answer = "lost"
    BY <1>1 DEF Memory
  <2> QED BY <1>1, <2>1, ListeningIs
<1>3. Ahead'
  BY <1>1, <1>2, KeepAhead, NoneIsApart
<1> QED BY <1>1, <1>2, <1>3, TransitStep DEF ActivationInv, TypeOK

\* A request that is dropped was not waited for.
LEMMA DropStep == ASSUME ActivationInv, NEW q \in net, Drop(q) PROVE ActivationInv'
<1>1. /\ run \in Memory /\ faults' \in 0..MaxFaults /\ run' = run /\ net' \subseteq net
      /\ UNCHANGED <<live, kust, stray, drift, receipt, rescue, forgotten, passes, rescues>>
  BY DEF Drop, ActivationInv, TypeOK
<1>2. Listening
  BY <1>1, ListeningIs
<1>3. Ahead'
  BY <1>1, <1>2, KeepAhead
<1> QED BY <1>1, <1>2, <1>3, TransitStep DEF ActivationInv, TypeOK

\* Drift is noticed by the next proof only.
LEMMA DriftStep == ASSUME ActivationInv, NEW f \in Facets, Drift(f) PROVE ActivationInv'
<1>1. /\ run \in Memory /\ faults' \in 0..MaxFaults /\ run' = run /\ drift' \subseteq Facets
      /\ UNCHANGED <<live, kust, stray, net, receipt, rescue, forgotten, passes, rescues>>
  BY ActivationConstants DEF Drift, Failing, ActivationInv, TypeOK
<1>2. Listening
  BY <1>1, ListeningIs
<1>3. Ahead'
  BY <1>1, <1>2, KeepAhead
<1> QED BY <1>1, <1>2, <1>3, TransitStep

-----
\* Requests that are served.

\* A request that is not waited for, after the last look of the run, is a
\* straggler.
LEMMA StrayingIs ==
  ASSUME ActivationInv, NEW q \in Requests, Straying(q)
  PROVE  /\ stray \subseteq stray' /\ stray' \subseteq Names \cup Owners
         /\ Unseen /\ ~Awaited(q) => q.at \in stray'
         /\ ~(Unseen /\ ~Awaited(q)) => stray' = stray
<1>1. q.at \in Names \cup Owners
  BY DEF Requests
<1> QED BY <1>1 DEF Straying, ActivationInv, TypeOK

\* A create is served, late or in time.
LEMMA ServeCreate ==
  ASSUME ActivationInv, NEW q \in net, q.op = "create", live[q.at] = None, Serve(q)
  PROVE  ActivationInv'
<1>1. q \in Requests /\ q.at \in Names /\ q = [op |-> "create", at |-> q.at]
  BY DEF ActivationInv, TypeOK, Requests
<1>2. /\ live' = [live EXCEPT ![q.at] = Posted] /\ UNCHANGED kust /\ net' = net \ {q}
      /\ Answering(q, "ok") /\ Straying(q)
      /\ UNCHANGED <<drift, receipt, rescue, forgotten, faults, passes, rescues>>
  BY DEF Serve, Accepted, Effect, Patched
<1>3. Listening /\ run'.answer = (IF Awaited(q) THEN "ok" ELSE run.answer)
  BY <1>2, AnsweringIs
<1>4. /\ Unseen' = Unseen /\ Heads' = Heads /\ This' = This
  BY <1>2, <1>3, ListeningFacts
<1>5. /\ stray \subseteq stray' /\ stray' \subseteq Names \cup Owners
      /\ Unseen /\ ~Awaited(q) => q.at \in stray'
      /\ ~(Unseen /\ ~Awaited(q)) => stray' = stray
  BY <1>1, <1>2, StrayingIs
<1>6. Awaited(q) => run.pc = "posted" /\ q.at = This /\ ~Unseen
  <2> SUFFICES ASSUME Awaited(q) PROVE run.pc = "posted" /\ q.at = This /\ ~Unseen
    OBVIOUS
  <2>1. run.asked = q /\ run.pc = "posted"
    BY <1>1, PostedAsks DEF Awaited
  <2> QED BY <1>1, <2>1, PostedAsks DEF ActivationInv, Places, Unseen, Forward, Ended
<1>7. Unseen => q.at \in stray'
  BY <1>5, <1>6
<1>8. /\ live' \in [Names -> Objects \cup {None}]
      /\ live'[q.at] = Posted /\ \A n \in Names \ {q.at} : live'[n] = live[n]
  BY <1>1, <1>2, PostedIs DEF ActivationInv, TypeOK
<1>9. TypeOK'
  BY <1>2, <1>3, <1>5, <1>8 DEF ActivationInv, TypeOK, Listening
<1>10. Owning' /\ OwnDeletes'
  BY <1>2, <1>8, PostedIs DEF ActivationInv, Owning, OwnDeletes, Applies
<1>11. Quietly'
  BY <1>3 DEF ActivationInv, Quietly, Pristine, Listening
<1>12. Kept'
  BY <1>3, <1>8, PostedIs DEF ActivationInv, Kept, Listening, TypeOK, Memory
<1>13. Isolated'
  <2>1. MayRun' => MayRun
    BY <1>2, <1>4 DEF MayRun, Applying
  <2>2. Ours(Deployment)' => Ours(Deployment) \/ MayRun \/ {Deployment, "gateway"} \cap stray' # {}
    <3>1. CASE q.at = Deployment
      <4>1. CASE Unseen
        BY <1>7, <3>1, <4>1
      <4>2. CASE ~Unseen
        BY <3>1, <4>2 DEF MayRun
      <4> QED BY <4>1, <4>2
    <3>2. CASE q.at # Deployment
      BY <1>8, <3>2, OrderFacts DEF Ours
    <3> QED BY <3>1, <3>2
  <2>3. live[Isolation] # None => live'[Isolation] # None
    BY <1>8, OrderFacts, PostedIs
  <2> QED BY <1>2, <1>5, <2>1, <2>2, <2>3 DEF ActivationInv, Isolated
<1>14. Ahead'
  <2>1. \A n \in Names : n # q.at /\ Unposted(n) => Unposted(n)'
    BY <1>2, <1>8 DEF Unposted
  <2>2. \A n \in Names : Unposted(n) => n # q.at
    BY <1>1 DEF Unposted
  <2>3. \A n \in Names : Unposted(n) => Unposted(n)'
    BY <2>1, <2>2
  <2>4. \A i \in DOMAIN Order : Order[i] \in Names
    BY OrderFacts
  <2>5. run.pc \in Creating \cup Owned => This \in Names
    BY OrderFacts DEF ActivationInv, Places, This
  <2>6. run.pc = "posted" /\ run'.answer = None =>
          (live'[This] # None => live'[This].by # "run")
    <3> SUFFICES ASSUME run.pc = "posted", run'.answer = None
                 PROVE  live'[This] # None => live'[This].by # "run"
      OBVIOUS
    <3>1. ~Awaited(q) /\ run.answer = None
      BY <1>3, NoneIsApart
    <3>2. q.at # This
      BY <1>1, <3>1, PostedAsks DEF Awaited
    <3> QED BY <1>8, <2>5, <3>1, <3>2 DEF ActivationInv, Ahead, Creating
  <2>7. run.pc = "posted" /\ run'.answer = "refused" => Unposted(This)'
    <3> SUFFICES ASSUME run.pc = "posted", run'.answer = "refused" PROVE Unposted(This)'
      OBVIOUS
    <3>1. run.answer = "refused"
      BY <1>3
    <3>2. Unposted(This)
      BY <3>1 DEF ActivationInv, Ahead
    <3> QED BY <1>4, <2>3, <2>5, <3>2 DEF Creating, Unposted
  <2>8. run.pc = "posted" /\ run'.answer = "ok" => live'[This] # None /\ ~live'[This].going
    <3> SUFFICES ASSUME run.pc = "posted", run'.answer = "ok"
                 PROVE  live'[This] # None /\ ~live'[This].going
      OBVIOUS
    <3>1. CASE q.at = This
      BY <1>8, <3>1, PostedIs
    <3>2. CASE q.at # This
      <4>1. run.answer = "ok"
        BY <1>3, <1>6, <3>2
      <4> QED BY <1>8, <2>5, <3>2, <4>1 DEF ActivationInv, Ahead, Creating
    <3> QED BY <3>1, <3>2
  <2>9. run'.pc = run.pc /\ run'.at = run.at
    BY <1>3 DEF Listening
  <2> QED BY <1>4, <2>3, <2>4, <2>5, <2>6, <2>7, <2>8, <2>9 DEF ActivationInv, Ahead, Creating
<1>15. Named'
  <2> SUFFICES ASSUME Heads, NEW n \in Names,
                      \/ live'[n] # None /\ live'[n].by = "run"
                      \/ ~Unseen /\ [op |-> "create", at |-> n] \in net'
               PROVE  n \in run.own \cup {run.unsure, forgotten} \cup stray'
    BY <1>2, <1>3, <1>4 DEF Named, Listening
  <2>1. CASE n = q.at
    BY <1>1, <1>5, <1>7, <2>1 DEF ActivationInv, Named
  <2>2. CASE n # q.at
    BY <1>2, <1>5, <1>8, <2>2 DEF ActivationInv, Named
  <2> QED BY <2>1, <2>2
<1>16. \A n \in Names : Unseen /\ Away(n) => Away(n)'
  BY <1>5, <1>7, <1>8 DEF Away, Ours
<1>17. \A k \in Owners : Still(k) => Still(k)'
  BY <1>2, <1>5 DEF Still, Applying
<1>18. \A k \in Owners :
           /\ kust[k].rv <= kust'[k].rv
           /\ kust'[k].rv = kust[k].rv /\ kust[k].susp => kust'[k].susp
           /\ kust'[k].rv = kust[k].rv /\ ~Applying(k) => ~Applying(k)'
  BY <1>2 DEF ActivationInv, TypeOK, Kustomizations, Applying
<1>19. ~AllThere
  <2>1. q.at \in Names /\ live[q.at] = None
    BY <1>1
  <2> QED BY <2>1, Zenon DEF AllThere
<1>20. WhatIsLeftIsNamed'
  <2>1. receipt.status \in {"rolled-back", "rollback-incomplete"} => Unseen
    BY NoneIsApart DEF ActivationInv, Papers, Heads, Unseen, Ended
  <2> QED BY <1>2, <1>5, <1>7, <1>8, <2>1 DEF ActivationInv, Claims, WhatIsLeftIsNamed
<1> QED BY <1>2, <1>3, <1>5, <1>9, <1>10, <1>11, <1>12, <1>13, <1>14, <1>15, <1>16, <1>17,
           <1>18, <1>19, <1>20, WorldStep

\* An object without its nonce is still whose it was.
LEMMA UntaggedIs ==
  ASSUME NEW o \in Objects, NEW x, x = [o EXCEPT !.tag = FALSE]
  PROVE  x \in Objects /\ x.by = o.by /\ x.going = o.going /\ x.label = o.label /\ ~x.tag
BY DEF Objects

\* The removal of a nonce is served.
LEMMA ServeStrip ==
  ASSUME ActivationInv, NEW q \in net, q.op = "strip", live[q.at] = q.seen, Serve(q)
  PROVE  ActivationInv'
<1>1. q \in Requests /\ q.at \in Names /\ q.seen \in Objects /\ live \in [Names -> Objects \cup {None}]
  BY DEF ActivationInv, TypeOK, Requests
<1>2. /\ live' = [live EXCEPT ![q.at].tag = FALSE] /\ UNCHANGED kust /\ net' = net \ {q}
      /\ Answering(q, "ok") /\ Straying(q)
      /\ UNCHANGED <<drift, receipt, rescue, forgotten, faults, passes, rescues>>
  BY DEF Serve, Accepted, Effect, Patched
<1>3. Listening /\ run'.answer = (IF Awaited(q) THEN "ok" ELSE run.answer)
  BY <1>2, AnsweringIs
<1>4. /\ Unseen' = Unseen /\ Heads' = Heads /\ This' = This
  BY <1>2, <1>3, ListeningFacts
<1>5. stray \subseteq stray' /\ stray' \subseteq Names \cup Owners
  BY <1>1, <1>2, StrayingIs
<1>6. Awaited(q) => run.pc # "posted"
  BY PostedAsks DEF Awaited
<1>7. /\ live' \in [Names -> Objects \cup {None}]
      /\ \A n \in Names : /\ live'[n] # None <=> live[n] # None
                          /\ live[n] # None => /\ live'[n].by = live[n].by
                                               /\ live'[n].going = live[n].going
                                               /\ ~live[n].tag => ~live'[n].tag
  <2> DEFINE o == live[q.at]  x == [o EXCEPT !.tag = FALSE]
  <2>1. x \in Objects /\ x.by = o.by /\ x.going = o.going /\ ~x.tag
    <3>1. o \in Objects
      BY <1>1
    <3> HIDE DEF o
    <3> QED BY <3>1, UntaggedIs
  <2>2. live' = [live EXCEPT ![q.at] = x]
    BY <1>2
  <2>3. x # None /\ o # None
    <3>1. o \in Objects
      BY <1>1
    <3> HIDE DEF o, x
    <3> QED BY <2>1, <3>1, NoneIsApart
  <2>4. live'[q.at] = x /\ live[q.at] = o /\ \A n \in Names \ {q.at} : live'[n] = live[n]
    <3> HIDE DEF x
    <3> QED BY <1>1, <2>2
  <2>5. live' \in [Names -> Objects \cup {None}]
    <3> HIDE DEF x
    <3> QED BY <1>1, <2>1, <2>2
  <2> HIDE DEF x, o
  <2> QED BY <2>1, <2>3, <2>4, <2>5
<1>8. TypeOK'
  BY <1>2, <1>3, <1>5, <1>7 DEF ActivationInv, TypeOK, Listening
<1>9. Owning' /\ OwnDeletes'
  BY <1>2, <1>7 DEF ActivationInv, Owning, OwnDeletes, Applies
<1>10. Quietly'
  BY <1>3 DEF ActivationInv, Quietly, Pristine, Listening
<1>11. Kept'
  BY <1>3, <1>7, SMTT(40) DEF ActivationInv, Kept, Listening, TypeOK, Memory
<1>12. Isolated'
  <2>1. MayRun' => MayRun
    BY <1>2, <1>4 DEF MayRun, Applying
  <2>2. Ours(Deployment)' => Ours(Deployment)
    BY <1>7, OrderFacts DEF Ours
  <2>3. live[Isolation] # None => live'[Isolation] # None
    BY <1>7, OrderFacts
  <2> QED BY <1>2, <1>5, <2>1, <2>2, <2>3 DEF ActivationInv, Isolated
<1>13. Ahead'
  <2>1. \A n \in Names : Unposted(n) => Unposted(n)'
    BY <1>2, <1>7 DEF Unposted
  <2>2. \A i \in DOMAIN Order : Order[i] \in Names
    BY OrderFacts
  <2>3. run.pc \in Creating \cup Owned => This \in Names
    BY OrderFacts DEF ActivationInv, Places, This
  <2>4. run'.pc = run.pc /\ run'.at = run.at /\ (run.pc = "posted" => run'.answer = run.answer)
    BY <1>3, <1>6 DEF Listening
  <2>5. run.pc \in Creating \cup Owned => (Unposted(This) => Unposted(This)')
    BY <1>4, <2>1, <2>3 DEF Unposted
  <2> QED BY <1>4, <1>7, <2>1, <2>2, <2>3, <2>4, <2>5 DEF ActivationInv, Ahead, Creating
<1>14. Named'
  BY <1>2, <1>3, <1>4, <1>5, <1>7 DEF ActivationInv, Named, Listening
<1>15. \A n \in Names : Away(n) => Away(n)'
  BY <1>5, <1>7 DEF Away, Ours
<1>16. \A k \in Owners : Still(k) => Still(k)'
  BY <1>2, <1>5 DEF Still, Applying
<1>17. \A k \in Owners :
           /\ kust[k].rv <= kust'[k].rv
           /\ kust'[k].rv = kust[k].rv /\ kust[k].susp => kust'[k].susp
           /\ kust'[k].rv = kust[k].rv /\ ~Applying(k) => ~Applying(k)'
  BY <1>2 DEF ActivationInv, TypeOK, Kustomizations, Applying
<1>18. AllThere => AllThere'
  BY <1>2, <1>7 DEF AllThere
<1>19. WhatIsLeftIsNamed'
  BY <1>2, <1>5, <1>7 DEF ActivationInv, Claims, WhatIsLeftIsNamed
<1> QED BY <1>2, <1>3, <1>5, <1>8, <1>9, <1>10, <1>11, <1>12, <1>13, <1>14, <1>15, <1>16,
           <1>17, <1>18, <1>19, WorldStep

\* Something is taken away: nothing that had to stay.
LEMMA TakenStep ==
  ASSUME ActivationInv, Listening, NEW n \in Names,
         live' \in [Names -> Objects \cup {None}],
         \A m \in Names : m # n => live'[m] = live[m],
         live[n] # None /\ live[n].by = "run",
         live'[n] = None \/ (live'[n] # None /\ live'[n].by = "run" /\ n # Isolation),
         net' \subseteq net, stray \subseteq stray', stray' \subseteq Names \cup Owners,
         UNCHANGED <<kust, drift, receipt, rescue, forgotten, faults, passes, rescues>>,
         \* what was bound does not go
         run.pc \in Forward \cup {"rediscover"} => n \notin run.own,
         run.pc = "posted" /\ run.answer = "ok" => n # This,
         run.pc = "posted" => run'.answer = run.answer,
         AllThere => ~(run.pc = "commit" \/ Won),
         n = Isolation => {Deployment, "gateway"} \cap stray # {}
                          \/ ~(Ours(Deployment) \/ MayRun),
         run.mode = "activate" /\ run.pc \notin {"end", "dead"} => run.begun
  PROVE  ActivationInv'
<1>1. /\ Unseen' = Unseen /\ Heads' = Heads /\ This' = This
  BY ListeningFacts
<1>2. TypeOK'
  BY DEF ActivationInv, TypeOK, Listening
<1>3. Owning' /\ OwnDeletes'
  BY DEF ActivationInv, Owning, OwnDeletes, Applies
<1>4. Quietly'
  BY DEF Quietly, Listening
<1>5. Kept'
  BY DEF ActivationInv, Kept, Listening, TypeOK, Memory
<1>6. Isolated'
  <2>1. MayRun' => MayRun
    BY <1>1 DEF MayRun, Applying
  <2>2. Ours(Deployment)' => Ours(Deployment)
    BY OrderFacts DEF Ours
  <2>3. n # Isolation => (live[Isolation] # None => live'[Isolation] # None)
    BY OrderFacts
  <2> QED BY <2>1, <2>2, <2>3 DEF ActivationInv, Isolated
<1>7. Ahead'
  <2>1. \A m \in Names : Unposted(m) => Unposted(m)'
    BY DEF Unposted
  <2>2. \A i \in DOMAIN Order : Order[i] \in Names
    BY OrderFacts
  <2>3. run.pc \in Creating \cup Owned => This \in Names
    BY OrderFacts DEF ActivationInv, Places, This
  <2>4. run'.pc = run.pc /\ run'.at = run.at
    BY DEF Listening
  <2>5. run.pc \in Creating \cup Owned => (Unposted(This) => Unposted(This)')
    BY <1>1, <2>1, <2>3 DEF Unposted
  <2>6. run.pc = "posted" /\ run'.answer = None =>
          (live'[This] # None => live'[This].by # "run")
    BY <2>3 DEF ActivationInv, Ahead, Creating
  <2>7. run.pc = "posted" /\ run'.answer = "ok" => live'[This] # None /\ ~live'[This].going
    BY <2>3 DEF ActivationInv, Ahead, Creating
  <2> QED BY <1>1, <2>1, <2>2, <2>3, <2>4, <2>5, <2>6, <2>7 DEF ActivationInv, Ahead, Creating
<1>8. Named'
  BY <1>1 DEF ActivationInv, Named, Listening
<1>9. \A m \in Names : Away(m) => Away(m)'
  BY DEF Away, Ours
<1>10. \A k \in Owners : Still(k) => Still(k)'
  BY DEF Still, Applying
<1>11. \A k \in Owners :
           /\ kust[k].rv <= kust'[k].rv
           /\ kust'[k].rv = kust[k].rv /\ kust[k].susp => kust'[k].susp
           /\ kust'[k].rv = kust[k].rv /\ ~Applying(k) => ~Applying(k)'
  BY DEF ActivationInv, TypeOK, Kustomizations, Applying
<1>12. WhatIsLeftIsNamed'
  BY DEF ActivationInv, Claims, WhatIsLeftIsNamed
<1> QED BY <1>2, <1>3, <1>4, <1>5, <1>6, <1>7, <1>8, <1>9, <1>10, <1>11, <1>12, WorldStep

\* An object in foreground deletion is still whose it was.
LEMMA GoingIs ==
  ASSUME NEW o \in Objects, NEW x, x = [o EXCEPT !.going = TRUE]
  PROVE  x \in Objects /\ x.by = o.by
BY DEF Objects

\* A DELETE is served: nothing goes that isolation or success rests on.
LEMMA ServeDelete ==
  ASSUME ActivationInv, NEW q \in net, q.op = "delete", live[q.at] = q.seen, Serve(q)
  PROVE  ActivationInv'
<1>1. q \in Requests /\ q.at \in Names /\ q.seen \in Objects /\ live \in [Names -> Objects \cup {None}]
      /\ q.seen.by = "run" /\ q.seen # None
  BY NoneIsApart DEF ActivationInv, TypeOK, Requests, OwnDeletes
<1>2. /\ live' = IF q.at = Deployment THEN [live EXCEPT ![q.at].going = TRUE]
                 ELSE [live EXCEPT ![q.at] = None]
      /\ UNCHANGED kust /\ net' = net \ {q}
      /\ Answering(q, "ok") /\ Straying(q)
      /\ UNCHANGED <<drift, receipt, rescue, forgotten, faults, passes, rescues>>
  BY DEF Serve, Accepted, Effect, Patched
<1>3. Listening /\ run'.answer = (IF Awaited(q) THEN "ok" ELSE run.answer)
  BY <1>2, AnsweringIs
<1>4. stray \subseteq stray' /\ stray' \subseteq Names \cup Owners
  BY <1>1, <1>2, StrayingIs
<1>5. Awaited(q) => run.pc # "posted"
  BY PostedAsks DEF Awaited
<1>6. /\ live' \in [Names -> Objects \cup {None}]
      /\ \A m \in Names : m # q.at => live'[m] = live[m]
      /\ live'[q.at] = None \/ (live'[q.at] # None /\ live'[q.at].by = "run" /\ q.at # Isolation)
  <2>1. CASE q.at = Deployment
    <3> DEFINE o == live[q.at]  x == [o EXCEPT !.going = TRUE]
    <3>1. o \in Objects /\ o.by = "run"
      BY <1>1
    <3>2. x \in Objects /\ x.by = "run"
      <4> HIDE DEF o
      <4> QED BY <3>1, GoingIs
    <3>3. live' = [live EXCEPT ![q.at] = x]
      BY <1>2, <2>1
    <3> HIDE DEF x, o
    <3>4. x # None
      BY <3>2, NoneIsApart
    <3>5. q.at # Isolation
      BY <2>1 DEF Deployment, Isolation
    <3> QED BY <1>1, <3>2, <3>3, <3>4, <3>5
  <2>2. CASE q.at # Deployment
    BY <1>1, <1>2, <2>2
  <2> QED BY <2>1, <2>2
<1>7. ~Onward
  BY DEF Onward
<1>8. ~(run.pc \in Forward \cup {"rediscover"}) /\ ~Won
  BY <1>7 DEF ActivationInv, Pushing
<1>9. run.pc # "posted" /\ run.pc # "commit"
  BY <1>8 DEF Forward
<1>10. q.at = Isolation => {Deployment, "gateway"} \cap stray # {} \/ ~(Ours(Deployment) \/ MayRun)
  BY DEF ActivationInv, Isolated
<1>11. run.mode = "activate" /\ run.pc \notin {"end", "dead"} => run.begun
  BY DEF ActivationInv, Quietly, Pristine
<1>12. live[q.at] # None /\ live[q.at].by = "run"
  BY <1>1
<1> QED BY <1>1, <1>2, <1>3, <1>4, <1>6, <1>8, <1>9, <1>10, <1>11, <1>12, TakenStep

\* The Pods are gone, and the Deployment with them.
LEMMA PodsGoneStep == ASSUME ActivationInv, PodsGone PROVE ActivationInv'
<1>1. /\ run \in Memory /\ run' = run /\ Deployment \in Names /\ live \in [Names -> Objects \cup {None}]
      /\ live[Deployment] # None /\ live[Deployment].going /\ live[Deployment].by = "run"
      /\ live' = [live EXCEPT ![Deployment] = None]
      /\ UNCHANGED <<kust, net, drift, receipt, rescue, stray, forgotten, faults, passes, rescues>>
  BY OrderFacts DEF PodsGone, ActivationInv, TypeOK, OwnDeletes
<1>2. Listening
  BY <1>1, ListeningIs
<1>3. /\ live' \in [Names -> Objects \cup {None}]
      /\ \A m \in Names : m # Deployment => live'[m] = live[m]
      /\ live'[Deployment] = None
  BY <1>1
<1>4. run.pc \in Forward \cup {"rediscover"} => Deployment \notin run.own
  BY <1>1 DEF ActivationInv, Kept
<1>5. run.pc = "posted" /\ run.answer = "ok" => Deployment # This
  BY <1>1 DEF ActivationInv, Ahead
<1>6. ~AllThere
  BY <1>1 DEF AllThere
<1>7. run.mode = "activate" /\ run.pc \notin {"end", "dead"} => run.begun
  BY <1>1 DEF ActivationInv, Quietly, Pristine, Ours
<1>8. Deployment # Isolation
  BY DEF Deployment, Isolation
<1>9. stray' \subseteq Names \cup Owners
  BY <1>1 DEF ActivationInv, TypeOK
<1> QED BY <1>1, <1>2, <1>3, <1>4, <1>5, <1>6, <1>7, <1>8, <1>9, TakenStep

\* A Kustomization changes, and its version with it.
LEMMA KustStep ==
  ASSUME ActivationInv, Listening, NEW k \in Owners, NEW x \in Kustomizations,
         kust' = [kust EXCEPT ![k] = x], x.rv = kust[k].rv + 1,
         x.todo \subseteq Applies(k), ~x.busy => x.todo = {}, ~x.cond => ~x.busy,
         net' \subseteq net, stray \subseteq stray', stray' \subseteq Names \cup Owners,
         UNCHANGED <<live, drift, receipt, rescue, forgotten, rescues>>,
         faults' \in 0..MaxFaults, passes' \in 0..MaxPasses,
         Unseen /\ Still(k) => k \in stray' \/ (x.susp /\ x.todo = {}),
         k = "gateway" /\ (~x.susp \/ x.todo # {}) => MayRun \/ "gateway" \in stray',
         run.pc = "posted" => run'.answer = run.answer,
         AllThere /\ (run.pc = "commit" \/ Won) => ~x.susp,
         run.mode = "activate" /\ run.pc \notin {"end", "dead"} => run.begun
  PROVE  ActivationInv'
<1>1. /\ Unseen' = Unseen /\ Heads' = Heads /\ This' = This
  BY ListeningFacts
<1>2. /\ kust \in [Owners -> Kustomizations] /\ kust' \in [Owners -> Kustomizations]
      /\ kust'[k] = x /\ \A h \in Owners : h # k => kust'[h] = kust[h]
  BY DEF ActivationInv, TypeOK
<1>3. TypeOK'
  BY <1>2 DEF ActivationInv, TypeOK, Listening
<1>4. Owning' /\ OwnDeletes'
  BY <1>2 DEF ActivationInv, Owning, OwnDeletes, Applies
<1>5. Quietly'
  BY DEF Quietly, Listening
<1>6. Kept'
  BY DEF ActivationInv, Kept, Listening
<1>7. Isolated'
  <2>1. MayRun' => MayRun \/ "gateway" \in stray'
    BY <1>1, <1>2 DEF MayRun, Applying, Owners
  <2> QED BY <2>1 DEF ActivationInv, Isolated, Ours
<1>8. Ahead'
  <2>1. run'.pc = run.pc /\ run'.at = run.at
    BY DEF Listening
  <2>2. \A n : Unposted(n) => Unposted(n)'
    BY DEF Unposted
  <2> QED BY <1>1, <2>1, <2>2 DEF ActivationInv, Ahead
<1>9. Named'
  BY <1>1 DEF ActivationInv, Named, Listening
<1>10. \A n \in Names : Away(n) => Away(n)'
  BY DEF Away, Ours
<1>11. \A h \in Owners : Unseen /\ Still(h) => Still(h)'
  BY <1>2 DEF Still, Applying
<1>12. \A h \in Owners :
           /\ kust[h].rv <= kust'[h].rv
           /\ kust'[h].rv = kust[h].rv /\ kust[h].susp => kust'[h].susp
           /\ kust'[h].rv = kust[h].rv /\ ~Applying(h) => ~Applying(h)'
  <2>1. \A h \in Owners : kust[h].rv \in Nat
    BY <1>2 DEF Kustomizations
  <2> QED BY <1>2, <2>1 DEF Applying
<1>13. AllThere /\ (run.pc = "commit" \/ Won) => AllThere'
  BY <1>2 DEF AllThere
<1>14. WhatIsLeftIsNamed'
  BY DEF ActivationInv, Claims, WhatIsLeftIsNamed
<1> QED BY <1>3, <1>4, <1>5, <1>6, <1>7, <1>8, <1>9, <1>10, <1>11, <1>12, <1>13, <1>14, WorldStep

\* A compare-and-set on a Kustomization is served.
LEMMA ServePatch ==
  ASSUME ActivationInv, NEW q \in net, q.op = "patch", Accepted(q), Serve(q)
  PROVE  ActivationInv'
<1> DEFINE k == q.at
           s == kust[k]
           x == [s EXCEPT !.susp = q.susp, !.rv = @ + 1, !.ready = @ /\ q.susp]
<1>1. q \in Requests /\ k \in Owners /\ q.susp \in BOOLEAN /\ s \in Kustomizations
  BY DEF ActivationInv, TypeOK, Requests
<1>2. /\ kust' = [kust EXCEPT ![k] = x]
      /\ live' = live /\ net' = net \ {q}
      /\ Answering(q, "ok") /\ Straying(q)
      /\ UNCHANGED <<drift, receipt, rescue, forgotten, faults, passes, rescues>>
  <2>1. kust' = Patched(q)
    BY DEF Serve
  <2>2. Patched(q) = [kust EXCEPT ![k] = x]
    <3>1. kust \in [Owners -> Kustomizations]
      BY DEF ActivationInv, TypeOK
    <3> QED BY <3>1, <1>1 DEF Patched
  <2> HIDE DEF x, k
  <2> QED BY <2>1, <2>2 DEF Serve, Effect
<1>3. Listening /\ run'.answer = (IF Awaited(q) THEN "ok" ELSE run.answer)
  BY <1>2, AnsweringIs
<1>4. /\ stray \subseteq stray' /\ stray' \subseteq Names \cup Owners
      /\ Unseen /\ ~Awaited(q) => k \in stray'
  BY <1>1, <1>2, StrayingIs
<1>5. Awaited(q) => run.pc # "posted"
  BY PostedAsks DEF Awaited
<1>6. /\ x \in Kustomizations /\ x.susp = q.susp /\ x.rv = s.rv + 1
      /\ x.todo = s.todo /\ x.busy = s.busy /\ x.cond = s.cond
  <2> DEFINE b == q.susp  v == s.rv + 1  r == s.ready /\ q.susp
  <2>1. b \in BOOLEAN /\ v \in Nat /\ r \in BOOLEAN
    BY <1>1 DEF Kustomizations
  <2>2. x = [s EXCEPT !.susp = b, !.rv = v, !.ready = r]
    BY <1>1 DEF Kustomizations
  <2>3. b = q.susp /\ v = s.rv + 1
    OBVIOUS
  <2> HIDE DEF s, x, b, v, r
  <2>4. /\ x \in Kustomizations /\ x.susp = b /\ x.rv = v
        /\ x.todo = s.todo /\ x.busy = s.busy /\ x.cond = s.cond
    <3>1. s \in Kustomizations
      BY <1>1
    <3> QED BY <2>1, <2>2, <3>1 DEF Kustomizations
  <2> QED BY <2>3, <2>4
<1>7. /\ x.todo \subseteq Applies(k) /\ (~x.busy => x.todo = {}) /\ (~x.cond => ~x.busy)
  BY <1>1, <1>6 DEF ActivationInv, Owning
<1>8. Unseen /\ ~q.susp => ~Awaited(q)
  <2> SUFFICES ASSUME Awaited(q), ~q.susp PROVE ~Unseen
    OBVIOUS
  <2>1. run.pc = "unsuspending"
    BY <1>1, PostedAsks DEF Awaited
  <2> QED BY <2>1 DEF ActivationInv, Places, Forward, Unseen, Ended
<1>9. Unseen /\ Still(k) => k \in stray' \/ (x.susp /\ x.todo = {})
  BY <1>4, <1>6, <1>8 DEF Still, Applying
<1>10. k = "gateway" /\ (~x.susp \/ x.todo # {}) => MayRun \/ "gateway" \in stray'
  BY <1>4, <1>6, <1>8 DEF MayRun, Applying
<1>11. AllThere /\ (run.pc = "commit" \/ Won) => ~x.susp
  BY <1>6 DEF ActivationInv, Pushing, Onward, Forward
<1>12. run.mode = "activate" /\ run.pc \notin {"end", "dead"} => run.begun
  BY DEF ActivationInv, Quietly, Pristine
<1>13. faults' \in 0..MaxFaults /\ passes' \in 0..MaxPasses /\ net' \subseteq net
  BY <1>2 DEF ActivationInv, TypeOK
<1>14. run.pc = "posted" => run'.answer = run.answer
  BY <1>3, <1>5
<1> HIDE DEF x
<1> QED BY <1>1, <1>2, <1>3, <1>4, <1>6, <1>7, <1>9, <1>10, <1>11, <1>12, <1>13, <1>14, KustStep

\* A request is served, accepted or not.
LEMMA ServeStep == ASSUME ActivationInv, NEW q \in net, Serve(q) PROVE ActivationInv'
<1>1. q \in Requests /\ q.op \in {"create", "strip", "delete", "patch"}
  BY DEF ActivationInv, TypeOK, Requests
<1>2. CASE Accepted(q)
  <2>1. CASE q.op = "create"
    BY <1>2, <2>1, ServeCreate DEF Accepted
  <2>2. CASE q.op = "strip"
    BY <1>2, <2>2, ServeStrip DEF Accepted
  <2>3. CASE q.op = "delete"
    BY <1>2, <2>3, ServeDelete DEF Accepted
  <2>4. CASE q.op = "patch"
    BY <1>2, <2>4, ServePatch
  <2> QED BY <1>1, <2>1, <2>2, <2>3, <2>4
<1>3. CASE ~Accepted(q)
  <2> DEFINE a == IF q.op = "delete" /\ live[q.at] = None THEN "ok" ELSE "refused"
  <2>1. /\ net' = net \ {q} /\ Answering(q, a) /\ a \in {"ok", "refused"}
        /\ UNCHANGED <<live, kust, stray, drift, receipt, rescue, forgotten, passes, rescues>>
        /\ faults' \in 0..MaxFaults
    BY <1>3 DEF Serve, ActivationInv, TypeOK
  <2>2. q.op = "create" => a = "refused" /\ live[q.at] # None
    BY <1>3 DEF Accepted
  <2> HIDE DEF a
  <2> QED BY <2>1, <2>2, RefusedStep
<1> QED BY <1>2, <1>3

\* A pass of Flux starts under a reconciler that is not suspended.
LEMMA FluxStartStep == ASSUME ActivationInv, NEW k \in Owners, FluxStart(k) PROVE ActivationInv'
<1> DEFINE s == kust[k]
           x == [s EXCEPT !.busy = TRUE, !.todo = Applies(k), !.cond = TRUE, !.rv = @ + 1]
<1>1. /\ run \in Memory /\ run' = run /\ s \in Kustomizations /\ ~s.susp /\ ~s.busy
      /\ kust' = [kust EXCEPT ![k] = x] /\ passes' \in 0..MaxPasses /\ faults' \in 0..MaxFaults
      /\ UNCHANGED <<live, net, drift, receipt, rescue, stray, forgotten, rescues>>
      /\ Applies(k) \in SUBSET Names /\ stray' \subseteq Names \cup Owners
  BY ActivationConstants DEF FluxStart, Flux, ActivationInv, TypeOK, Applies
<1>2. Listening
  BY <1>1, ListeningIs
<1>3. /\ x \in Kustomizations /\ x.susp = s.susp /\ x.rv = s.rv + 1
      /\ x.todo = Applies(k) /\ x.busy /\ x.cond
  <2> DEFINE v == s.rv + 1  T == Applies(k)
  <2>1. v \in Nat
    BY <1>1 DEF Kustomizations
  <2>2. x = [s EXCEPT !.busy = TRUE, !.todo = T, !.cond = TRUE, !.rv = v]
    BY <1>1 DEF Kustomizations
  <2>3. v = s.rv + 1 /\ T = Applies(k) /\ T \in SUBSET Names /\ s \in Kustomizations
    BY <1>1
  <2> HIDE DEF s, x, v, T
  <2>4. x \in Kustomizations /\ x.susp = s.susp /\ x.rv = v /\ x.todo = T /\ x.busy /\ x.cond
    BY <2>1, <2>2, <2>3 DEF Kustomizations
  <2> QED BY <2>3, <2>4
<1>4. Still(k) => k \in stray'
  BY <1>1 DEF Still
<1>5. k = "gateway" => MayRun
  BY <1>1 DEF MayRun
<1>6. run.mode = "activate" /\ run.pc \notin {"end", "dead"} => run.begun
  BY <1>1 DEF ActivationInv, Quietly, Pristine
<1> HIDE DEF x
<1> QED BY <1>1, <1>2, <1>3, <1>4, <1>5, <1>6, KustStep

\* A pass of Flux ends, well or not.
LEMMA FluxEndStep ==
  ASSUME ActivationInv, NEW k \in Owners, FluxDone(k) \/ FluxFails(k)
  PROVE  ActivationInv'
<1> DEFINE s == kust[k]
<1>1. /\ run \in Memory /\ run' = run /\ s \in Kustomizations /\ s.busy
      /\ passes' \in 0..MaxPasses /\ faults' \in 0..MaxFaults
      /\ UNCHANGED <<live, net, drift, receipt, rescue, stray, forgotten, rescues>>
      /\ stray' \subseteq Names \cup Owners
  BY ActivationConstants DEF FluxDone, FluxFails, Failing, Flux, ActivationInv, TypeOK
<1>2. Listening
  BY <1>1, ListeningIs
<1>3. PICK x : /\ kust' = [kust EXCEPT ![k] = x] /\ x \in Kustomizations
               /\ x.susp = s.susp /\ x.rv = s.rv + 1 /\ x.todo = {} /\ ~x.busy
  <2>1. CASE FluxDone(k)
    <3> DEFINE y == [s EXCEPT !.busy = FALSE, !.cond = FALSE, !.ready = TRUE, !.rv = @ + 1]
    <3>1. kust' = [kust EXCEPT ![k] = y] /\ s.todo = {}
      BY <2>1 DEF FluxDone, Flux, Applying
    <3>3. y \in Kustomizations /\ y.susp = s.susp /\ y.rv = s.rv + 1 /\ y.todo = {} /\ ~y.busy
      <4> DEFINE c == FALSE  r == TRUE  v == s.rv + 1
      <4>1. c \in BOOLEAN /\ r \in BOOLEAN /\ v \in Nat
        BY <1>1 DEF Kustomizations
      <4>2. y = [s EXCEPT !.busy = FALSE, !.todo = {}, !.cond = c, !.ready = r, !.rv = v]
        BY <1>1, <3>1 DEF Kustomizations
      <4>3. v = s.rv + 1
        OBVIOUS
      <4> HIDE DEF s, y, c, r, v
      <4>4. s \in Kustomizations
        BY <1>1
      <4>5. y \in Kustomizations /\ y.susp = s.susp /\ y.rv = v /\ y.todo = {} /\ ~y.busy
        BY <4>1, <4>2, <4>4 DEF Kustomizations
      <4> QED BY <4>3, <4>5
    <3> HIDE DEF y
    <3> QED BY <3>1, <3>3
  <2>2. CASE FluxFails(k)
    <3> DEFINE y == [s EXCEPT !.busy = FALSE, !.todo = {}, !.ready = FALSE, !.rv = @ + 1]
    <3>1. kust' = [kust EXCEPT ![k] = y]
      BY <2>2 DEF FluxFails, Flux
    <3>4. y \in Kustomizations /\ y.susp = s.susp /\ y.rv = s.rv + 1 /\ y.todo = {} /\ ~y.busy
      <4> DEFINE c == s.cond  r == FALSE  v == s.rv + 1
      <4>1. c \in BOOLEAN /\ r \in BOOLEAN /\ v \in Nat
        BY <1>1 DEF Kustomizations
      <4>2. y = [s EXCEPT !.busy = FALSE, !.todo = {}, !.cond = c, !.ready = r, !.rv = v]
        BY <1>1, <3>1 DEF Kustomizations
      <4>3. v = s.rv + 1
        OBVIOUS
      <4> HIDE DEF s, y, c, r, v
      <4>4. s \in Kustomizations
        BY <1>1
      <4>5. y \in Kustomizations /\ y.susp = s.susp /\ y.rv = v /\ y.todo = {} /\ ~y.busy
        BY <4>1, <4>2, <4>4 DEF Kustomizations
      <4> QED BY <4>3, <4>5
    <3> HIDE DEF y
    <3> QED BY <3>1, <3>4
  <2> QED BY <2>1, <2>2
<1>4. Unseen /\ Still(k) => k \in stray' \/ (x.susp /\ x.todo = {})
  BY <1>1, <1>3 DEF Still
<1>5. k = "gateway" /\ (~x.susp \/ x.todo # {}) => MayRun
  BY <1>3 DEF MayRun
<1>6. run.mode = "activate" /\ run.pc \notin {"end", "dead"} => run.begun
  BY <1>1 DEF ActivationInv, Quietly, Pristine
<1>7. AllThere => ~x.susp
  BY <1>3 DEF AllThere
<1>8. x.todo \subseteq Applies(k) /\ run'.answer = run.answer /\ stray \subseteq stray' /\ net' \subseteq net
  BY <1>1, <1>3
<1> QED BY <1>1, <1>2, <1>3, <1>4, <1>5, <1>6, <1>7, <1>8, KustStep

\* An object that Flux labels is still whose it was.
LEMMA LabelledIs ==
  ASSUME NEW o \in Objects, NEW x, x = [o EXCEPT !.label = TRUE]
  PROVE  x \in Objects /\ x.by = o.by /\ x.going = o.going /\ x.tag = o.tag
BY DEF Objects

\* What Flux and others write.
LEMMA WrittenIs ==
  /\ Applied \in Objects /\ Applied.by = "flux" /\ ~Applied.going /\ ~Applied.tag
  /\ Others \in Objects /\ Others.by = "other" /\ ~Others.going /\ ~Others.tag
  /\ Applied # None /\ Others # None
<1>1. /\ Applied \in Objects /\ Applied.by = "flux" /\ ~Applied.going /\ ~Applied.tag
      /\ Others \in Objects /\ Others.by = "other" /\ ~Others.going /\ ~Others.tag
  BY DEF Applied, Others, Objects
<1> QED BY <1>1, NoneIsApart

\* Something is written, by Flux or by somebody else, that the run did not post.
LEMMA WrittenStep ==
  ASSUME ActivationInv, Listening, NEW n \in Names,
         live' \in [Names -> Objects \cup {None}],
         \A m \in Names : m # n => live'[m] = live[m],
         live'[n] # None,
         \/ live'[n].by # "run" /\ ~live'[n].going
         \/ live[n] # None /\ live'[n].by = live[n].by /\ live'[n].going = live[n].going
            /\ live'[n].tag = live[n].tag,
         Unseen /\ (\A k \in Owners : Still(k)) /\ Ours(n)' =>
            Ours(n) \/ {n, OwnerOf(n)} \cap stray # {},
         n = Deployment /\ Ours(n)' => Ours(n) \/ MayRun,
         TypeOK', Owning',
         \A k \in Owners : kust'[k].rv = kust[k].rv /\ kust'[k].susp = kust[k].susp
                           /\ kust'[k].todo \subseteq kust[k].todo,
         run.pc = "posted" => run'.answer = run.answer,
         run.mode = "activate" /\ run.pc \notin {"end", "dead"} /\ ~run.begun => Pristine',
         UNCHANGED <<net, stray, receipt, rescue, forgotten, rescues>>
  PROVE  ActivationInv'
<1>1. /\ Unseen' = Unseen /\ Heads' = Heads /\ This' = This
  BY ListeningFacts
<1>2. \A m \in Names : live[m] # None => live'[m] # None
  OBVIOUS
<1>3. \A m \in Names : live'[m] # None /\ live'[m].by = "run" => live[m] # None /\ live[m].by = "run"
  OBVIOUS
<1>4. \A k \in Owners : Applying(k)' => Applying(k)
  BY DEF Applying
<1>5. OwnDeletes'
  <2>1. \A m \in Names : live'[m] # None /\ live'[m].going => live'[m].by = "run"
    BY DEF ActivationInv, OwnDeletes
  <2> QED BY <2>1 DEF ActivationInv, OwnDeletes
<1>6. Quietly'
  BY DEF Quietly, Listening
<1>7. \A m \in Names : live[m] # None /\ ~live[m].going => ~live'[m].going
  OBVIOUS
<1>8. Kept'
  <2>1. run.own \subseteq Names
    BY DEF ActivationInv, TypeOK, Memory
  <2> QED BY <1>2, <1>7, <2>1 DEF ActivationInv, Kept, Listening
<1>9. Isolated'
  <2>1. MayRun' => MayRun
    BY <1>1, <1>4 DEF MayRun, Owners
  <2>2. Ours(Deployment)' => Ours(Deployment) \/ MayRun
    BY OrderFacts DEF Ours
  <2>3. live[Isolation] # None => live'[Isolation] # None
    BY <1>2, OrderFacts
  <2> QED BY <2>1, <2>2, <2>3 DEF ActivationInv, Isolated
<1>10. Ahead'
  <2>1. \A m \in Names : Unposted(m) => Unposted(m)'
    BY <1>3 DEF Unposted
  <2>2. \A i \in DOMAIN Order : Order[i] \in Names
    BY OrderFacts
  <2>3. run.pc \in Creating \cup Owned => This \in Names
    BY OrderFacts DEF ActivationInv, Places, This
  <2>4. run'.pc = run.pc /\ run'.at = run.at
    BY DEF Listening
  <2>5. run.pc \in Creating \cup Owned => (Unposted(This) => Unposted(This)')
    BY <1>1, <2>1, <2>3 DEF Unposted
  <2>6. run.pc = "posted" /\ run'.answer = None =>
          (live'[This] # None => live'[This].by # "run")
    BY <1>3, <2>3 DEF ActivationInv, Ahead, Creating
  <2>7. run.pc = "posted" /\ run'.answer = "ok" => live'[This] # None /\ ~live'[This].going
    BY <1>2, <1>7, <2>3 DEF ActivationInv, Ahead, Creating
  <2> QED BY <1>1, <2>1, <2>2, <2>3, <2>4, <2>5, <2>6, <2>7 DEF ActivationInv, Ahead, Creating
<1>11. Named'
  BY <1>1, <1>3 DEF ActivationInv, Named, Listening
<1>12. \A m \in Names : Unseen /\ Away(m) /\ (\A k \in Owners : Still(k)) => Away(m)'
  BY DEF Away, Ours
<1>13. \A k \in Owners : Still(k) => Still(k)'
  BY <1>4 DEF Still
<1>14. \A k \in Owners :
           /\ kust[k].rv <= kust'[k].rv
           /\ kust'[k].rv = kust[k].rv /\ kust[k].susp => kust'[k].susp
           /\ kust'[k].rv = kust[k].rv /\ ~Applying(k) => ~Applying(k)'
  BY <1>4 DEF ActivationInv, TypeOK, Kustomizations
<1>15. AllThere => AllThere'
  <2>1. \A m \in Names : live'[m].by = "run" /\ live[m] # None =>
           live[m].by = "run" /\ live'[m].tag = live[m].tag
    OBVIOUS
  <2> QED BY <1>2, <1>7, <2>1 DEF AllThere
<1>16. WhatIsLeftIsNamed'
  BY <1>3 DEF ActivationInv, Claims, WhatIsLeftIsNamed
<1> QED BY <1>5, <1>6, <1>8, <1>9, <1>10, <1>11, <1>12, <1>13, <1>14, <1>15, <1>16, WorldStep

\* Somebody takes a name, or replaces what holds it.
LEMMA ForeignWriteStep ==
  ASSUME ActivationInv, NEW n \in Names, ForeignWrite(n)
  PROVE  ActivationInv'
<1>1. /\ run \in Memory /\ run' = run /\ live \in [Names -> Objects \cup {None}]
      /\ live' = [live EXCEPT ![n] = Others] /\ faults' \in 0..MaxFaults
      /\ UNCHANGED <<kust, net, drift, receipt, rescue, stray, forgotten, passes, rescues>>
  BY ActivationConstants DEF ForeignWrite, Failing, ActivationInv, TypeOK
<1>2. Listening
  BY <1>1, ListeningIs
<1>3. /\ live' \in [Names -> Objects \cup {None}] /\ live'[n] = Others
      /\ \A m \in Names : m # n => live'[m] = live[m]
  BY <1>1, WrittenIs
<1>4. ~Ours(n)' /\ live'[n] # None /\ live'[n].by # "run" /\ ~live'[n].going
  BY <1>3, WrittenIs DEF Ours
<1>5. TypeOK'
  BY <1>1, <1>3 DEF ActivationInv, TypeOK
<1>6. Owning'
  BY <1>1 DEF ActivationInv, Owning, Applies
<1>7. run.mode = "activate" /\ run.pc \notin {"end", "dead"} /\ ~run.begun => Pristine'
  BY <1>1, <1>3, <1>4 DEF ActivationInv, Quietly, Pristine, Ours
<1> QED BY <1>1, <1>2, <1>3, <1>4, <1>5, <1>6, <1>7, WrittenStep

\* Flux applies one of its objects.
LEMMA FluxApplyStep ==
  ASSUME ActivationInv, NEW k \in Owners, FluxApply(k)
  PROVE  ActivationInv'
<1>1. PICK n \in kust[k].todo :
        /\ live' = [live EXCEPT ![n] = IF @ = None THEN Applied ELSE [@ EXCEPT !.label = TRUE]]
        /\ Flux(k, [kust[k] EXCEPT !.todo = @ \ {n}])
  BY DEF FluxApply
<1>2. /\ run \in Memory /\ run' = run /\ live \in [Names -> Objects \cup {None}]
      /\ kust \in [Owners -> Kustomizations] /\ kust[k] \in Kustomizations
      /\ UNCHANGED <<net, drift, receipt, rescue, stray, forgotten, rescues, faults, passes>>
  BY <1>1 DEF FluxApply, Flux, ActivationInv, TypeOK
<1>3. n \in Names /\ OwnerOf(n) = k /\ kust[k].busy /\ Applying(k)
  BY <1>1 DEF ActivationInv, Owning, Applies, Applying
<1>4. Listening
  BY <1>2, ListeningIs
<1>5. /\ kust' \in [Owners -> Kustomizations]
      /\ kust'[k].todo = kust[k].todo \ {n} /\ kust'[k].susp = kust[k].susp
      /\ kust'[k].rv = kust[k].rv /\ kust'[k].busy = kust[k].busy /\ kust'[k].cond = kust[k].cond
      /\ \A h \in Owners : h # k => kust'[h] = kust[h]
  <2> DEFINE s == kust[k]  T == s.todo \ {n}  x == [s EXCEPT !.todo = T]
  <2>1. kust' = [kust EXCEPT ![k] = x]
    BY <1>1 DEF Flux
  <2>2. T \in SUBSET Names /\ s \in Kustomizations
    BY <1>2 DEF Kustomizations
  <2>3. x = [s EXCEPT !.todo = T] /\ T = s.todo \ {n} /\ s = kust[k]
    OBVIOUS
  <2> HIDE DEF s, T, x
  <2>4. x \in Kustomizations /\ x.todo = T /\ x.susp = s.susp /\ x.rv = s.rv
         /\ x.busy = s.busy /\ x.cond = s.cond
    BY <2>2, <2>3 DEF Kustomizations
  <2> QED BY <1>2, <2>1, <2>3, <2>4
<1>6. /\ live' \in [Names -> Objects \cup {None}] /\ live'[n] # None
      /\ \A m \in Names : m # n => live'[m] = live[m]
      /\ \/ live'[n].by # "run" /\ ~live'[n].going
         \/ live[n] # None /\ live'[n].by = live[n].by /\ live'[n].going = live[n].going
            /\ live'[n].tag = live[n].tag
      /\ live[n] # None => live'[n].by = live[n].by
  <2>1. CASE live[n] = None
    <3>1. live' = [live EXCEPT ![n] = Applied]
      BY <1>1, <2>1
    <3> QED BY <1>2, <1>3, <2>1, <3>1, WrittenIs
  <2>2. CASE live[n] # None
    <3> DEFINE o == live[n]  x == [o EXCEPT !.label = TRUE]
    <3>1. live' = [live EXCEPT ![n] = x] /\ o = live[n] /\ o \in Objects
      BY <1>1, <1>2, <1>3, <2>2
    <3>2. x \in Objects /\ x.by = o.by /\ x.going = o.going /\ x.tag = o.tag
      <4> HIDE DEF o
      <4> QED BY <3>1, LabelledIs
    <3> HIDE DEF o, x
    <3>3. x # None
      BY <3>2, NoneIsApart
    <3> QED BY <1>2, <1>3, <2>2, <3>1, <3>2, <3>3
  <2> QED BY <2>1, <2>2
<1>7. Unseen /\ (\A h \in Owners : Still(h)) => {n, OwnerOf(n)} \cap stray # {}
  BY <1>3 DEF Still
<1>8. n = Deployment => MayRun
  <2>1. OwnerOf(Deployment) = "gateway"
    BY DEF OwnerOf, Deployment
  <2> QED BY <1>3, <2>1 DEF MayRun
<1>9. TypeOK'
  BY <1>2, <1>5, <1>6 DEF ActivationInv, TypeOK
<1>10. Owning'
  BY <1>3, <1>5 DEF ActivationInv, Owning, Applies
<1>11. ~(run.mode = "activate" /\ run.pc \notin {"end", "dead"} /\ ~run.begun)
  BY <1>3 DEF ActivationInv, Quietly, Pristine
<1>12. \A h \in Owners : kust'[h].rv = kust[h].rv /\ kust'[h].susp = kust[h].susp
                           /\ kust'[h].todo \subseteq kust[h].todo
  BY <1>5
<1> QED BY <1>2, <1>3, <1>4, <1>6, <1>7, <1>8, <1>9, <1>10, <1>11, <1>12, WrittenStep

-----
\* The invariant of the specification.

\* The invariant holds at first,
LEMMA InitActivation == ASSUME Init PROVE ActivationInv
<1>1. NoRun \in Memory
  <2>1. 0 \in 0..Len(Order) /\ 0 \in 0..Attempts
    BY ActivationConstants, OrderFacts
  <2>2. [k \in Owners |-> 0] \in [Owners -> Nat]
    OBVIOUS
  <2>3. "idle" \in Ended
    BY DEF Ended
  <2> QED BY <2>1, <2>2, <2>3 DEF NoRun, Memory
<1>2. Dormant \in Kustomizations
  BY DEF Dormant, Kustomizations
<1>3. NoReceipt \in Receipts
  BY DEF NoReceipt, Receipts
<1>4. TypeOK
  BY <1>1, <1>2, <1>3, ActivationConstants DEF Init, TypeOK
<1>5. /\ run.mode = "activate" /\ run.pc = "idle" /\ run.own = {} /\ ~run.begun /\ run.unsure = None
      /\ run.asked = None /\ run.exit = None /\ ~run.quiet /\ receipt.status = None
      /\ net = {} /\ rescue = None /\ forgotten = None
  BY DEF Init, NoRun, NoReceipt
<1>6. \A k \in Owners : kust[k].susp /\ ~kust[k].busy /\ kust[k].todo = {} /\ ~kust[k].cond
  BY DEF Init, Dormant
<1>7. \A n \in Names : live[n] = None
  BY DEF Init
<1>8. Owning /\ OwnDeletes
  BY <1>5, <1>6, <1>7 DEF Owning, OwnDeletes
<1>9. run.pc \notin Forward \cup RollingBack \cup Creating \cup Owned \cup Handing \cup {"rediscover", "rescue"}
  BY <1>5, RollingBackIs DEF Forward, Creating, Owned, Handing
<1>10. Places
  BY <1>5, <1>9 DEF Places, Creating, Owned, Handing, Forward
<1>11. Asks
  BY <1>5 DEF Asks, Deleting
<1>12. Quietly /\ Pushing /\ Kept
  BY <1>5, <1>6, <1>7, <1>9 DEF Quietly, Pristine, Ours, Pushing, Onward, Kept
<1>13. Isolated
  <2>1. ~MayRun
    BY <1>5, <1>6 DEF MayRun, Applying, Owners
  <2> QED BY <1>7, <2>1, OrderFacts DEF Isolated, Ours
<1>14. Phases
  <2>1. \A i \in DOMAIN Stages : run.pc # Stages[i]
    BY <1>9 DEF RollingBack
  <2> QED BY <1>5, <2>1 DEF Phases
<1>15. Ahead
  BY <1>5, <1>9 DEF Ahead, Creating
<1>16. Named
  BY <1>5, <1>7 DEF Named
<1>17. Papers
  BY <1>5, NoneIsApart DEF Papers, Heads
<1>18. Claims
  BY <1>5, NoneIsApart, SMTT(40) DEF Claims, Won, WhatIsLeftIsNamed
<1> QED BY <1>4, <1>8, <1>10, <1>11, <1>12, <1>13, <1>14, <1>15, <1>16, <1>17, <1>18
        DEF ActivationInv

\* ... while nothing happens,
LEMMA StutterActivation == ASSUME ActivationInv, UNCHANGED vars PROVE ActivationInv'
BY DEF vars, ActivationInv, TypeOK, Owning, OwnDeletes, Places, Asks, Quietly, Pushing, Kept,
       Isolated, Phases, Ahead, Named, Papers, Claims, Applies, Pristine, Ours, Won, Onward,
       MayRun, Unseen, Applying, Passed, Still, Away, Unposted, Heads, Clear, AllThere,
       WhatIsLeftIsNamed, This

\* ... when the process takes a step,
LEMMA ProceedStep == ASSUME ActivationInv, Proceed PROVE ActivationInv'
<1>1. CASE PreflightPasses \/ PreflightFails \/ SendCreate \/ CreateAnswered \/ Discover
  BY <1>1, PreflightPassesStep, PreflightFailsStep, SendCreateStep, CreateAnsweredStep, DiscoverStep
<1>2. CASE Strip \/ StripAnswered \/ StripConcluded
           \/ ProveHealth \/ ProveBeforeIngress \/ ProveRoutes
  BY <1>2, StripStep, StripAnsweredStep, StripConcludedStep, ProveHealthStep,
     ProveBeforeIngressStep, ProveRoutesStep
<1>3. CASE Unsuspend \/ UnsuspendAnswered \/ AwaitReady \/ ProveSuccess
  BY <1>3, UnsuspendStep, UnsuspendAnsweredStep, AwaitReadyStep, ProveSuccessStep
<1>4. CASE Commit \/ CommitFails \/ Settle \/ SettleFails
  BY <1>4, CommitStep, CommitFailsStep, SettleStep
<1>5. CASE Rediscover \/ BindCluster \/ Look \/ DeleteAnswered \/ AwaitGone
  BY <1>5, RediscoverStep, BindClusterStep, LookStep, DeleteAnsweredStep, AwaitGoneStep
<1>6. CASE Suspend \/ SuspendAnswered \/ BothSuspended \/ UnboundAbsent \/ AllGone \/ StillSuspended
  BY <1>6, SuspendStep, SuspendAnsweredStep, BothSuspendedStep, UnboundAbsentStep, AllGoneStep,
     StillSuspendedStep
<1>7. CASE ProvePreserved \/ RebindCluster \/ RescuePasses \/ RescueBlocked
  BY <1>7, ProvePreservedStep, RebindClusterStep, RescuePassesStep, RescueBlockedStep
<1> QED BY <1>1, <1>2, <1>3, <1>4, <1>5, <1>6, <1>7 DEF Proceed

\* ... and when anything does.
LEMMA NextActivation == ASSUME ActivationInv, Next PROVE ActivationInv'
<1>1. CASE Start \/ Proceed \/ Interrupt \/ Crash \/ LoseAnswer
  BY <1>1, StartStep, ProceedStep, InterruptStep, CrashStep, LoseAnswerStep
<1>2. CASE \E q \in net : Serve(q) \/ Overtaken(q) \/ Drop(q)
  BY <1>2, ServeStep, OvertakenStep, DropStep
<1>3. CASE \E k \in Owners : FluxStart(k) \/ FluxApply(k) \/ FluxDone(k) \/ FluxFails(k)
  BY <1>3, FluxStartStep, FluxApplyStep, FluxEndStep
<1>4. CASE PodsGone \/ (\E n \in Names : ForeignWrite(n)) \/ (\E f \in Facets : Drift(f))
  BY <1>4, PodsGoneStep, ForeignWriteStep, DriftStep
<1>5. CASE \E mode \in {"A", "B"} : RescueStart(mode)
  BY <1>5, RescueStartStep
<1> QED BY <1>1, <1>2, <1>3, <1>4, <1>5 DEF Next

\* The whole invariant: in every reachable state the memory of the process is
\* true of the cluster, up to what requests it no longer looks at may bring.
THEOREM ActivationInvariant == Spec => []ActivationInv
<1>1. ActivationInv /\ [Next]_vars => ActivationInv'
  BY NextActivation, StutterActivation
<1> QED BY InitActivation, <1>1, PTL DEF Spec

\* Every reachable state is well typed: cursors stay within the order of
\* creation and the budget of tries, books hold names, versions are numbers.
THEOREM ActivationTypes == Spec => []TypeOK
<1>1. ActivationInv => TypeOK
  BY DEF ActivationInv
<1> QED BY ActivationInvariant, <1>1, PTL

\* A gateway Deployment of the run or of Flux never exists without its
\* NetworkPolicy, in whatever order creations, deletions, late requests and
\* reconciliations come, but for what an abandoned request brings about.
THEOREM GatewayIsolated == Spec => []IsolatedWhileRunning
<1>1. ActivationInv => IsolatedWhileRunning
  BY DEF ActivationInv, Isolated, IsolatedWhileRunning
<1> QED BY ActivationInvariant, <1>1, PTL

\* What the receipts claim, as the invariant has it.
LEMMA ReceiptsHold == ASSUME ActivationInv PROVE ReceiptsAreTrue
<1>1. RolledBackIsTrue
  <2> SUFFICES ASSUME receipt.status = "rolled-back" \/ rescue = "recovered"
               PROVE  /\ \A n \in Names : Ours(n) => {n, OwnerOf(n)} \cap stray # {}
                      /\ \A k \in Owners \ stray : kust[k].susp /\ ~Applying(k)
    BY DEF RolledBackIsTrue
  <2>1. Clear
    BY DEF ActivationInv, Claims
  <2> QED BY <2>1 DEF Clear, Away, Still
<1>2. ActivatedIsTrue
  <2> SUFFICES ASSUME receipt.status = "activated" /\ run.pc = "end" /\ run.exit # "unsaved"
               PROVE  /\ \A n \in Names : live[n] # None /\ (live[n].by = "run" => ~live[n].tag)
                      /\ \A k \in Owners : ~kust[k].susp
    BY DEF ActivatedIsTrue
  <2>1. AllThere
    BY DEF ActivationInv, Claims, Won
  <2> QED BY <2>1 DEF AllThere
<1>3. WhatIsLeftIsNamed
  BY DEF ActivationInv, Claims
<1> QED BY <1>1, <1>2, <1>3 DEF ReceiptsAreTrue

\* The receipt is right except for what stray, forgotten and unsaved name; there
\* it can be wrong, and nothing is claimed.  Rolled back and recovered: nothing
\* of the run or of Flux is left and both reconcilers stand still, but for what
\* requests that nobody waited for changed after the proof of quiet (stray).
\* Activated: all is there when the run has ended, unless the commit of its
\* failure failed as well (unsaved).  A failure: what the run has left is in the
\* receipt, but for stray and the POST that a signal made it forget (forgotten).
THEOREM ReceiptsTrue == Spec => []ReceiptsAreTrue
BY ActivationInvariant, ReceiptsHold, PTL

\* The process itself touches no object and no Kustomization.
LEMMA ProceedLive == ASSUME Proceed PROVE UNCHANGED <<live, kust, stray>>
<1> USE DEF Local, Becomes, Send, Unproved
<1>1. CASE PreflightPasses \/ PreflightFails \/ SendCreate \/ CreateAnswered \/ Discover
  BY <1>1 DEF PreflightPasses, PreflightFails, SendCreate, CreateAnswered, Discover
<1>2. CASE Strip \/ StripAnswered \/ StripConcluded
           \/ ProveHealth \/ ProveBeforeIngress \/ ProveRoutes
  BY <1>2 DEF Strip, StripAnswered, StripConcluded, ProveHealth, ProveBeforeIngress,
              ProveRoutes, Proving
<1>3. CASE Unsuspend \/ UnsuspendAnswered \/ AwaitReady \/ ProveSuccess
  BY <1>3 DEF Unsuspend, UnsuspendAnswered, AwaitReady, ProveSuccess, Proving
<1>4. CASE Commit \/ CommitFails \/ Settle \/ SettleFails
  BY <1>4 DEF Commit, CommitFails, Settle, SettleFails
<1>5. CASE Rediscover \/ BindCluster \/ Look \/ DeleteAnswered \/ AwaitGone
  BY <1>5 DEF Rediscover, BindCluster, Look, DeleteAnswered, AwaitGone
<1>6. CASE Suspend \/ SuspendAnswered \/ BothSuspended \/ UnboundAbsent \/ AllGone \/ StillSuspended
  BY <1>6 DEF Suspend, SuspendAnswered, BothSuspended, UnboundAbsent, AllGone, StillSuspended,
              AwaitQuiet
<1>7. CASE ProvePreserved \/ RebindCluster \/ RescuePasses \/ RescueBlocked
  BY <1>7 DEF ProvePreserved, RebindCluster, RescuePasses, RescueBlocked
<1> QED BY <1>1, <1>2, <1>3, <1>4, <1>5, <1>6, <1>7 DEF Proceed

\* Only a served DELETE and the end of a foreground deletion take away.
LEMMA OwnDeleted ==
  ASSUME ActivationInv, [Next]_vars
  PROVE  \A n \in Names :
           live[n] # None /\ live[n].by # "run" =>
             live'[n] # None /\ live'[n].going = live[n].going
<1> SUFFICES ASSUME NEW n \in Names, live[n] # None, live[n].by # "run"
             PROVE  live'[n] # None /\ live'[n].going = live[n].going
  OBVIOUS
<1>1. /\ live \in [Names -> Objects \cup {None}] /\ live[n] \in Objects /\ ~live[n].going
      /\ live[n].going = FALSE
  BY DEF ActivationInv, TypeOK, OwnDeletes, Objects
<1>2. CASE UNCHANGED live
  BY <1>2
<1>3. CASE \E q \in net : Serve(q)
  <2>1. PICK q \in net : Serve(q)
    BY <1>3
  <2>2. q \in Requests /\ q.op \in {"create", "strip", "delete", "patch"}
    BY DEF ActivationInv, TypeOK, Requests
  <2>3. CASE ~Accepted(q)
    BY <1>2, <2>1, <2>3 DEF Serve
  <2>4. CASE Accepted(q) /\ q.op = "create"
    <3>1. live[q.at] = None /\ live' = [live EXCEPT ![q.at] = Posted]
      BY <2>1, <2>4 DEF Serve, Accepted, Effect
    <3> QED BY <1>1, <3>1
  <2>5. CASE Accepted(q) /\ q.op = "strip"
    <3> DEFINE o == live[q.at]  x == [o EXCEPT !.tag = FALSE]
    <3>1. live' = [live EXCEPT ![q.at] = x] /\ o = live[q.at] /\ o \in Objects
      <4>1. live' = [live EXCEPT ![q.at].tag = FALSE] /\ live[q.at] = q.seen /\ q.seen \in Objects
        BY <2>1, <2>2, <2>5 DEF Serve, Accepted, Effect, Requests
      <4> QED BY <4>1
    <3>2. x \in Objects /\ x.going = o.going
      <4>1. o \in Objects
        BY <3>1
      <4> HIDE DEF o
      <4> QED BY <4>1, UntaggedIs
    <3> HIDE DEF x, o
    <3> QED BY <1>1, <3>1, <3>2, NoneIsApart
  <2>6. CASE Accepted(q) /\ q.op = "delete"
    <3>1. q.at # n
      BY <2>6 DEF Accepted, ActivationInv, OwnDeletes
    <3>2. live' = IF q.at = Deployment THEN [live EXCEPT ![q.at].going = TRUE]
                  ELSE [live EXCEPT ![q.at] = None]
      BY <2>1, <2>6 DEF Serve, Effect
    <3> QED BY <1>1, <3>1, <3>2
  <2>7. CASE Accepted(q) /\ q.op = "patch"
    BY <1>2, <2>1, <2>7 DEF Serve, Effect
  <2> QED BY <2>2, <2>3, <2>4, <2>5, <2>6, <2>7
<1>4. CASE PodsGone
  <2>1. n # Deployment
    BY <1>1, <1>4 DEF PodsGone
  <2> QED BY <1>1, <1>4, <2>1 DEF PodsGone
<1>5. CASE \E m \in Names : ForeignWrite(m)
  <2>1. PICK m \in Names : live' = [live EXCEPT ![m] = Others]
    BY <1>5 DEF ForeignWrite
  <2> QED BY <1>1, <2>1, WrittenIs DEF Others
<1>6. CASE \E k \in Owners : FluxApply(k)
  <2>1. PICK m : live' = [live EXCEPT ![m] = IF @ = None THEN Applied ELSE [@ EXCEPT !.label = TRUE]]
    BY <1>6 DEF FluxApply
  <2>2. CASE m # n
    BY <1>1, <2>1, <2>2
  <2>3. CASE m = n
    <3> DEFINE o == live[n]  x == [o EXCEPT !.label = TRUE]
    <3>1. live' = [live EXCEPT ![n] = x] /\ o = live[n] /\ o \in Objects
      BY <1>1, <2>1, <2>3
    <3>2. x \in Objects /\ x.going = o.going
      <4> HIDE DEF o
      <4> QED BY <3>1, LabelledIs
    <3> HIDE DEF x, o
    <3> QED BY <1>1, <3>1, <3>2, NoneIsApart
  <2> QED BY <2>2, <2>3
<1>7. live' = live \/ (\E q \in net : Serve(q)) \/ PodsGone
      \/ (\E m \in Names : ForeignWrite(m)) \/ (\E k \in Owners : FluxApply(k))
  <2>1. CASE UNCHANGED vars
    BY <2>1 DEF vars
  <2>2. CASE Start \/ Interrupt \/ Crash \/ LoseAnswer
    BY <2>2 DEF Start, Interrupt, Crash, LoseAnswer
  <2>3. CASE Proceed
    BY <2>3, ProceedLive
  <2>4. CASE \E q \in net : Serve(q) \/ Overtaken(q) \/ Drop(q)
    BY <2>4 DEF Overtaken, Drop
  <2>5. CASE \E k \in Owners : FluxStart(k) \/ FluxApply(k) \/ FluxDone(k) \/ FluxFails(k)
    BY <2>5 DEF FluxStart, FluxDone, FluxFails
  <2>6. CASE PodsGone \/ (\E m \in Names : ForeignWrite(m)) \/ (\E f \in Facets : Drift(f))
    BY <2>6 DEF Drift
  <2>7. CASE \E mode \in {"A", "B"} : RescueStart(mode)
    BY <2>7 DEF RescueStart
  <2> QED BY <2>1, <2>2, <2>3, <2>4, <2>5, <2>6, <2>7 DEF Next
<1> QED BY <1>2, <1>3, <1>4, <1>5, <1>6, <1>7

-----
\* Who asks for a DELETE of the rest.

\* A memory in which no answer is waited for.
Hush(r) == "asked" \in DOMAIN r /\ r.asked = None

\* The phases of the rollback start with no answer to wait for.
LEMMA HushPast == ASSUME NEW r, Hush(r) PROVE Past(r).asked = None
<1> DEFINE j == CHOOSE j \in Here+1..Len(Stages) :
                   /\ Due(Stages[j], r)
                   /\ \A h \in Here+1..j-1 : ~Due(Stages[h], r)
           p == Stages[j]
           l == IF Stages[j] = "delete" THEN Remaining(r) ELSE {}
<1>1. Past(r) = [r EXCEPT !.pc = p, !.step = "look", !.at = 1, !.left = l]
  BY Zenon DEF Past, Advance
<1> HIDE DEF j, p, l
<1> QED BY <1>1 DEF Hush

LEMMA HushErring == ASSUME NEW r, Hush(r) PROVE Erring(r).asked = None
<1> DEFINE e == [r EXCEPT !.err = TRUE]
<1>1. Hush(e)
  BY DEF Hush
<1> HIDE DEF e
<1>2. Past(e).asked = None
  BY <1>1, HushPast
<1> QED BY <1>2 DEF Erring, e

LEMMA HushNow ==
  ASSUME run \in Memory
  PROVE  Hush(Heard(run)) /\ (run.asked = None => Hush(run))
BY DEF Memory, Hush, Heard

LEMMA HushFail == ASSUME NEW r, "asked" \in DOMAIN r PROVE Fail(r).asked = None
BY DEF Fail, Heard

LEMMA HushNext == ASSUME NEW r, Hush(r) PROVE NextOwner(r).asked = None
<1>1. [r EXCEPT !.at = 2, !.step = "look"].asked = None
  BY DEF Hush
<1> QED BY <1>1, HushPast DEF NextOwner

\* The answers of the forward run lead nowhere near a deletion.
LEMMA ForwardAsks ==
  ASSUME ActivationInv, run.asked = None, run'.asked # None,
         \/ PreflightPasses \/ PreflightFails \/ SendCreate \/ CreateAnswered \/ Discover
         \/ Strip \/ StripAnswered \/ StripConcluded
         \/ ProveHealth \/ ProveBeforeIngress \/ ProveRoutes
         \/ Unsuspend \/ UnsuspendAnswered \/ AwaitReady \/ ProveSuccess
         \/ Commit \/ CommitFails \/ Settle \/ SettleFails \/ Rediscover
         \/ RescuePasses \/ RescueBlocked
  PROVE  run'.pc # "delete"
<1>1. run \in Memory /\ "asked" \in DOMAIN run
  BY DEF ActivationInv, TypeOK, Memory
<1>2. \A r : (r = Fail(run) \/ r = Fail([run EXCEPT !.unsure = None])) => r.asked = None
  <2> DEFINE u == [run EXCEPT !.unsure = None]
  <2>1. "asked" \in DOMAIN u
    BY <1>1
  <2> HIDE DEF u
  <2>2. Fail(u).asked = None /\ Fail(run).asked = None
    BY <1>1, <2>1, HushFail
  <2> QED BY <2>2 DEF u
<1>3. run' # Fail(run) /\ run' # Fail([run EXCEPT !.unsure = None])
  BY <1>2
<1>4. CASE PreflightPasses \/ PreflightFails
  BY <1>1, <1>3, <1>4 DEF PreflightPasses, PreflightFails, Local, Becomes, Unproved, Memory
<1>5. CASE SendCreate
  BY <1>1, <1>5 DEF SendCreate, Send, Becomes, Memory
<1>6. Bound(run).pc = "strip"
  BY <1>1 DEF Bound, Heard, Memory
<1>7. CASE CreateAnswered
  <2>1. run' = Bound(run) \/ run' = [Heard(run) EXCEPT !.pc = "discover"]
    <3>1. run.answer \in {"ok", "refused", "lost"}
      BY <1>1, <1>7 DEF CreateAnswered, Memory
    <3> QED BY <1>3, <1>7, <3>1 DEF CreateAnswered, Local, Becomes
  <2>2. [Heard(run) EXCEPT !.pc = "discover"].pc = "discover"
    BY <1>1 DEF Heard, Memory
  <2> QED BY <1>6, <2>1, <2>2
<1>8. CASE Discover
  BY <1>3, <1>6, <1>8 DEF Discover, Local, Becomes, Unproved
<1>9. Stripped.pc \in {"health", "routes", "create"}
  BY <1>1 DEF Stripped, Heard, Memory
<1>10. CASE Strip
  <2> DEFINE q == [op |-> "strip", at |-> This, seen |-> live[This]]
             s == [[run EXCEPT !.pc = "stripping", !.tries = @ + 1]
                     EXCEPT !.asked = q, !.answer = None]
  <2>1. run' = Stripped \/ run' = s
    BY <1>3, <1>10 DEF Strip, Local, Becomes, Unproved, Send
  <2>2. s.pc = "stripping"
    BY <1>1 DEF Memory
  <2> HIDE DEF s
  <2> QED BY <1>9, <2>1, <2>2
<1>11. CASE StripAnswered
  <2>1. [Heard(run) EXCEPT !.pc = IF run.tries < Attempts THEN "strip" ELSE "stripped"].pc
           \in {"strip", "stripped"}
    BY <1>1 DEF Heard, Memory
  <2> QED BY <1>9, <1>11, <2>1 DEF StripAnswered, Local, Becomes
<1>12. CASE StripConcluded
  BY <1>3, <1>9, <1>12 DEF StripConcluded, Local, Becomes, Unproved
<1>13. CASE ProveHealth \/ ProveBeforeIngress \/ ProveRoutes \/ ProveSuccess
  <2> DEFINE a == [run EXCEPT !.pc = "gate"]
             b == [run EXCEPT !.pc = "create", !.at = @ + 1]
             c == [run EXCEPT !.pc = "unsuspend", !.at = 1]
             d == [run EXCEPT !.pc = "commit"]
  <2>1. a.pc = "gate" /\ b.pc = "create" /\ c.pc = "unsuspend" /\ d.pc = "commit"
    BY <1>1 DEF Memory
  <2>2. run' = a \/ run' = b \/ run' = c \/ run' = d
    BY <1>3, <1>13 DEF ProveHealth, ProveBeforeIngress, ProveRoutes, ProveSuccess, Proving,
                       Local, Becomes, Unproved
  <2> HIDE DEF a, b, c, d
  <2> QED BY <2>1, <2>2
<1>14. CASE Unsuspend
  BY <1>1, <1>14 DEF Unsuspend, Send, Becomes, Memory
<1>15. CASE UnsuspendAnswered
  BY <1>1, <1>3, <1>15 DEF UnsuspendAnswered, Local, Becomes, Heard, Memory
<1>16. CASE AwaitReady
  BY <1>1, <1>3, <1>16 DEF AwaitReady, Local, Becomes, Memory
<1>17. \A e : Finish(e).asked = None
  BY DEF Finish, NoRun
<1>18. CASE Commit \/ CommitFails \/ Settle \/ SettleFails
  BY <1>3, <1>17, <1>18 DEF Commit, CommitFails, Settle, SettleFails
<1>19. CASE Rediscover
  <2> DEFINE r == [run EXCEPT !.pc = "bind"]
             s == [r EXCEPT !.own = @ \cup {run.unsure}, !.unsure = None]
  <2>1. run' = r \/ run' = s
    BY <1>19 DEF Rediscover, Local, Becomes, Unproved
  <2>2. r.pc = "bind" /\ s.pc = "bind"
    BY <1>1 DEF Memory
  <2> HIDE DEF r, s
  <2> QED BY <2>1, <2>2
<1>20. CASE RescuePasses
  BY <1>1, <1>20 DEF RescuePasses, Local, Becomes, Memory
<1>21. CASE RescueBlocked
  BY <1>17, <1>21 DEF RescueBlocked
<1> QED BY <1>4, <1>5, <1>7, <1>8, <1>10, <1>11, <1>12, <1>13, <1>14, <1>15, <1>16, <1>18,
           <1>19, <1>20, <1>21

\* In the rollback, only the look at a target does.
LEMMA RollbackAsks ==
  ASSUME ActivationInv, run.asked = None, run'.asked # None, run'.pc = "delete",
         \/ BindCluster \/ Look \/ DeleteAnswered \/ AwaitGone
         \/ Suspend \/ SuspendAnswered \/ BothSuspended
         \/ UnboundAbsent \/ AllGone \/ StillSuspended
         \/ ProvePreserved \/ RebindCluster
  PROVE  run'.own = run.own
<1>1. run \in Memory /\ Hush(run) /\ Hush(Heard(run))
  BY HushNow DEF ActivationInv, TypeOK
<1>2. run' # Past(run) /\ run' # Past(Heard(run)) /\ run' # Erring(run) /\ run' # Erring(Heard(run))
  BY <1>1, HushPast, HushErring
<1>3. CASE BindCluster
  <2> DEFINE g == [run EXCEPT !.auth = TRUE]
             b == [run EXCEPT !.auth = FALSE, !.err = TRUE]
  <2>1. Hush(g) /\ Hush(b)
    BY <1>1 DEF Hush
  <2>2. run' = Past(g) \/ run' = Past(b)
    BY <1>3 DEF BindCluster, Local, Becomes, Unproved
  <2> HIDE DEF g, b
  <2> QED BY <2>1, <2>2, HushPast
<1>4. run' # Deleted
  <2> DEFINE b == [Heard(run) EXCEPT !.broken = TRUE]
             l == [Heard(run) EXCEPT !.left = @ \ {Target}, !.step = "look"]
  <2>1. Hush(b) /\ l.asked = None
    BY <1>1 DEF Hush
  <2>2. Deleted = Past(b) \/ Deleted = l \/ Deleted = Past(Heard(run))
    BY DEF Deleted
  <2> HIDE DEF b, l
  <2> QED BY <1>2, <2>1, <2>2, HushPast
<1>5. CASE Look
  <2> DEFINE q == [op |-> "delete", at |-> Target, seen |-> live[Target]]
             s == [[run EXCEPT !.step = "sent"] EXCEPT !.asked = q, !.answer = None]
  <2>1. run' = s
    BY <1>2, <1>4, <1>5 DEF Look, Local, Becomes, Unproved, Send
  <2>2. s.own = run.own
    <3> HIDE DEF q
    <3> QED BY <1>1 DEF Memory
  <2> HIDE DEF s
  <2> QED BY <2>1, <2>2
<1>6. CASE DeleteAnswered
  <2>1. [Heard(run) EXCEPT !.step = "gone"].asked = None
    BY <1>1 DEF Hush
  <2> QED BY <1>2, <1>6, <2>1 DEF DeleteAnswered, Local, Becomes
<1>7. CASE AwaitGone
  BY <1>2, <1>4, <1>7 DEF AwaitGone, Local, Becomes
<1>8. CASE Suspend
  <2> DEFINE e == [run EXCEPT !.err = TRUE]
             q == [op |-> "patch", at |-> ThisOwner, susp |-> TRUE, rv |-> kust[ThisOwner].rv]
             s == [[run EXCEPT !.step = "sent"] EXCEPT !.asked = q, !.answer = None]
  <2>1. Hush(e)
    BY <1>1 DEF Hush
  <2>2. run.pc = "suspend"
    BY <1>8 DEF Suspend
  <2>3. run' = NextOwner(run) \/ run' = NextOwner(e) \/ run' = s
    <3> HIDE DEF e
    <3> QED BY <1>8 DEF Suspend, Local, Becomes, Unproved, Send, e
  <2>4. s.pc = run.pc
    <3> HIDE DEF q
    <3> QED BY <1>1 DEF Memory
  <2> HIDE DEF e, s
  <2> QED BY <1>1, <2>1, <2>2, <2>3, <2>4, HushNext
<1>9. CASE SuspendAnswered
  <2> DEFINE e == [Heard(run) EXCEPT !.err = @ \/ run.answer # "ok"]
  <2>1. Hush(e)
    BY <1>1 DEF Hush
  <2>2. run' = NextOwner(e)
    BY <1>9 DEF SuspendAnswered, Local, Becomes
  <2> HIDE DEF e
  <2> QED BY <2>1, <2>2, HushNext
<1>10. CASE BothSuspended \/ StillSuspended
  <2> DEFINE a == [run EXCEPT !.at = 2]  t == [run EXCEPT !.quiet = TRUE]
  <2>1. a.asked = None /\ Hush(t)
    BY <1>1 DEF Hush
  <2>2. run' = a \/ run' = Past(t) \/ run' = Past(run) \/ run' = Erring(run)
    BY <1>10 DEF BothSuspended, StillSuspended, AwaitQuiet, Local, Becomes, Unproved
  <2> HIDE DEF a, t
  <2> QED BY <1>2, <2>1, <2>2, HushPast
<1>11. CASE UnboundAbsent \/ AllGone \/ ProvePreserved \/ RebindCluster
  BY <1>2, <1>11 DEF UnboundAbsent, AllGone, ProvePreserved, RebindCluster, Local, Becomes, Unproved
<1> QED BY <1>3, <1>5, <1>6, <1>7, <1>8, <1>9, <1>10, <1>11

\* The first DELETE of the rest comes after all that the phases before it
\* have established.
LEMMA ExposedFirst ==
  ASSUME ActivationInv, [Next]_vars, run'.pc = "delete", run'.asked # None, run.asked = None
  PROVE  /\ \A n \in {Ingress, Service} \cap run.own :
              {n, "gateway"} \cap stray = {} => ~Ours(n)
         /\ \A k \in Owners : k \notin stray => kust[k].susp /\ ~Applying(k)
<1>1. ActivationInv'
  BY NextActivation, StutterActivation
<1>2. Proceed
  <2>1. CASE UNCHANGED vars
    BY <2>1 DEF vars
  <2>2. CASE Start \/ Crash \/ \E mode \in {"A", "B"} : RescueStart(mode)
    BY <2>2 DEF Start, Crash, RescueStart, NoRun
  <2>3. CASE Interrupt
    <3> DEFINE r == IF run.pc = "posted" THEN [run EXCEPT !.unsure = None] ELSE run
    <3>1. "asked" \in DOMAIN r
      BY DEF ActivationInv, TypeOK, Memory
    <3>2. run' = Fail(r)
      BY <2>3 DEF Interrupt
    <3> HIDE DEF r
    <3> QED BY <3>1, <3>2, HushFail
  <2>4. \A q, a : Answering(q, a) => run'.asked = run.asked
    BY DEF Answering, ActivationInv, TypeOK, Memory
  <2>5. CASE LoseAnswer
    BY <2>5 DEF LoseAnswer
  <2>6. CASE \E q \in net : Serve(q) \/ Overtaken(q) \/ Drop(q)
    BY <2>4, <2>6 DEF Serve, Overtaken, Drop
  <2>7. CASE \E k \in Owners : FluxStart(k) \/ FluxApply(k) \/ FluxDone(k) \/ FluxFails(k)
    BY <2>7 DEF FluxStart, FluxApply, FluxDone, FluxFails, Flux
  <2>8. CASE PodsGone \/ (\E m \in Names : ForeignWrite(m)) \/ (\E f \in Facets : Drift(f))
    BY <2>8 DEF PodsGone, ForeignWrite, Drift
  <2> QED BY <2>1, <2>2, <2>3, <2>5, <2>6, <2>7, <2>8 DEF Next
<1>3. UNCHANGED <<live, kust, stray>>
  BY <1>2, ProceedLive
<1>4. run'.own = run.own
  BY <1>2, ForwardAsks, RollbackAsks DEF Proceed
<1>5. run'.begun /\ run'.quiet /\ ~run'.err
  BY <1>1, RollingBackIs DEF ActivationInv, Places, Phases
<1>6. Passed(run, 8)'
  <2>1. 9 \in DOMAIN Stages /\ Stages[9] = "delete" /\ 9 - 1 = 8
    BY StageFacts
  <2>2. run'.pc = Stages[9] /\ run'.begun => Passed(run, 9 - 1)'
    BY <1>1, <2>1 DEF ActivationInv, Phases
  <2> QED BY <1>5, <2>1, <2>2
<1>7. \A k \in Owners : Still(k)'
  BY <1>5, <1>6 DEF Passed
<1>8. /\ Ingress \in run.own => Away(Ingress)
      /\ Service \in run.own => Away(Service)
  BY <1>3, <1>4, <1>5, <1>6 DEF Passed, Away, Ours
<1>9. OwnerOf(Ingress) = "gateway" /\ OwnerOf(Service) = "gateway"
  BY DEF OwnerOf, Ingress, Service
<1> QED BY <1>3, <1>7, <1>8, <1>9 DEF Away, Still, Applying

\* No step takes away an object of Flux or of anybody else, and the rollback
\* deletes the rest only after Ingress and Service are gone and both
\* reconcilers stand still.
THEOREM DeletionsInOrder == Spec => DeletesInOrder
<1>1. ActivationInv /\ [Next]_vars =>
        \A n \in Names :
          live[n] # None /\ live[n].by # "run" =>
            live'[n] # None /\ live'[n].going = live[n].going
  BY OwnDeleted
<1>2. ActivationInv /\ [Next]_vars =>
        (run'.pc = "delete" /\ run'.asked # None /\ run.asked = None =>
           /\ \A n \in {Ingress, Service} \cap run.own :
                {n, "gateway"} \cap stray = {} => ~Ours(n)
           /\ \A k \in Owners :
                k \notin stray => kust[k].susp /\ ~Applying(k))
  BY ExposedFirst
<1>3. Spec => OnlyOwnDeleted
  BY ActivationInvariant, <1>1, PTL DEF Spec, OnlyOwnDeleted
<1>4. Spec => ExposureFirst
  BY ActivationInvariant, <1>2, PTL DEF Spec, ExposureFirst
<1> QED BY <1>3, <1>4 DEF DeletesInOrder

=============================================================================
