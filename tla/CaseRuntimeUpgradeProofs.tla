---------------------- MODULE CaseRuntimeUpgradeProofs ----------------------
\* Theorems about CaseRuntimeUpgrade, for any releases, any number of
\* workers, Case events and upgrades, and any number of faults.
EXTENDS CaseRuntimeUpgrade, SequenceTheorems, TLAPS

\* Part 1.  The inductive invariant.

Retained(v, p) == v.ret[p] # None
Intended(v, p) == v.rec["intent"][p].path = "whole"

\* Some name of the plan's result already holds the whole receipt.
Finished(v, p) ==
  v.rec["result"][p].path = "whole" \/ v.rec["result"][p].pend = "whole"

\* The chain has plan p's upgrade as one of its links, after the same source.
On(p, chain) ==
  Len(chain) > Len(p.chain) /\ SubSeq(chain, 1, Len(p.chain) + 1) = Lineage(p)

\* Every link of a chain is explained by a retained source and an intent.
Grown(v, chain) ==
  \A i \in 1..Len(chain) :
    \E p \in Plans : /\ Lineage(p) = SubSeq(chain, 1, i)
                     /\ v.ret[p] = Source(p) /\ Intended(v, p)

\* A volume with a root: every plan that retained a source is complete and its
\* upgrade is on the root's chain.
Rooted(v, n) ==
  /\ v.root.ev = n /\ Grown(v, v.root.chain)
  /\ \A p \in Plans : Retained(v, p) => v.cand[p] = "none" /\ On(p, v.root.chain)

\* A volume without a root: plan m moved it, and only m can put one back.
Moving(v, n, m) ==
  /\ v.ret[m] = Source(m) /\ m.ev = n /\ v.cand[m] = "full" /\ Intended(v, m)
  /\ Grown(v, m.chain)
  /\ \A p \in Plans : p # m /\ Retained(v, p) => v.cand[p] = "none" /\ On(p, m.chain)

Orderly(v) ==
  /\ \A p \in Plans : v.ret[p] \in {None, Source(p)}
  /\ \A k \in Kinds, p \in Plans : v.rec[k][p].path # None => v.rec[k][p].pend = None

\* What is true of every volume a power failure may leave, after n Case events.
Sound(v, n) ==
  /\ Orderly(v)
  /\ v.root # None => Rooted(v, n)
  /\ v.root = None => \E m \in Plans : Moving(v, n, m)

\* Steps at which a worker holds the root, owns it, has the candidate whole,
\* works under a whole intent, and works after the first rename.
Owning   == {"syncCandidate", "copy", "lockCandidate", "ready", "move"}
Holding  == Owning \cup {"recheck"}
Copied   == {"lockCandidate", "ready", "move"}
Ending   == {"publishResult", "syncResult", "release", "report"}
Moved    == Ending \cup {"syncMove", "lockRetained", "install", "swap", "syncSwap", "final",
                         "openResult", "fillResult"}
Admitted == Moved \cup Holding \cup {"branch", "lockSource"}

\* What a worker at step l of plan p with locks h may count on, when v is the
\* volume and the set A has all that a power failure may leave of it.
Entitled(l, p, h, v, A) ==
  /\ l \in Holding => v.root # None /\ v.root.chain \in h
  /\ l \in Owning => v.root = Source(p) /\ v.cand[p] # "none"
  /\ l \in Copied => v.cand[p] = "full"
  /\ l \in Admitted => Intended(v, p)
  /\ l \in Moved => Retained(v, p)
  /\ l \in Ending => \A u \in A : Retained(u, p)

AtWork(w) ==
  /\ pc[w] # "idle" => plan[w] \in Plans
  /\ Entitled(pc[w], plan[w], held[w], vol, after)

\* An owner database has one holder, a worker or the runtime that serves the root.
Exclusive ==
  /\ \A w, x \in Workers : w # x => held[w] \cap held[x] = {}
  /\ \A w \in Workers : runtime \notin held[w]
  /\ runtime # None => vol.root # None /\ vol.root.chain = runtime

Durable ==
  /\ \A v \in after : Sound(v, acked)
  /\ \A u, v \in after : \A p \in Plans : Finished(u, p) => Retained(v, p)
  /\ \A p \in reported : \A v \in after : Retained(v, p)

IInv == TypeOK /\ Durable /\ Exclusive /\ \A w \in Workers : AtWork(w)

\* Part 2.  Lineages.

\* A chain is a sequence of links.
LEMMA ChainIsSeq ==
  ASSUME NEW c \in Chain
  PROVE  /\ c \in Seq(Link) /\ Len(c) \in 0..MaxUpgrades /\ Len(c) \in Nat
         /\ DOMAIN c = 1..Len(c)
<1>1. PICK n \in 0..MaxUpgrades : c \in [1..n -> Link]
  BY DEF Chain
<1>2. n \in Nat
  BY BoundAssumption
<1>3. c \in Seq(Link) /\ Len(c) = n
  BY <1>1, <1>2
<1> QED BY <1>1, <1>2, <1>3

LEMMA PlanType ==
  ASSUME NEW p \in Plans
  PROVE  /\ p \in [chain: Chain, ev: 0..MaxEvents, to: Releases]
         /\ p.chain \in Chain /\ p.ev \in 0..MaxEvents /\ p.to \in Releases
         /\ Len(p.chain) < MaxUpgrades
         /\ p.chain \in Seq(Link) /\ Len(p.chain) \in Nat
<1>1. /\ p \in [chain: Chain, ev: 0..MaxEvents, to: Releases]
      /\ Len(p.chain) < MaxUpgrades
  BY DEF Plans
<1>2. p.chain \in Chain /\ p.ev \in 0..MaxEvents /\ p.to \in Releases
  BY <1>1
<1> QED BY <1>1, <1>2, ChainIsSeq

\* The lineage a plan makes is its source's chain with one more link.
LEMMA LineageType ==
  ASSUME NEW p \in Plans
  PROVE  /\ Lineage(p) \in Chain /\ Lineage(p) \in Seq(Link)
         /\ Len(Lineage(p)) = Len(p.chain) + 1
         /\ \A i \in 1..Len(p.chain) : Lineage(p)[i] = p.chain[i]
<1> DEFINE l == [to |-> p.to, ev |-> p.ev]
<1>1. l \in Link
  BY PlanType DEF Link
<1>2. p.chain \in Seq(Link) /\ Len(p.chain) \in Nat /\ Len(p.chain) < MaxUpgrades
  BY PlanType
<1>3. /\ Append(p.chain, l) \in Seq(Link) /\ Len(Append(p.chain, l)) = Len(p.chain) + 1
      /\ \A i \in 1..Len(p.chain) : Append(p.chain, l)[i] = p.chain[i]
  BY <1>1, <1>2
<1>4. Append(p.chain, l) \in [1..(Len(p.chain) + 1) -> Link]
  <2>1. Append(p.chain, l) \in [1..Len(Append(p.chain, l)) -> Link]
    BY <1>3, LenProperties
  <2> QED BY <2>1, <1>3
<1>5. Len(p.chain) + 1 \in 0..MaxUpgrades
  BY <1>2, BoundAssumption
<1>6. Append(p.chain, l) \in Chain
  BY <1>4, <1>5 DEF Chain
<1> QED BY <1>3, <1>6 DEF Lineage

LEMMA SourceType ==
  ASSUME NEW p \in Plans
  PROVE  /\ Source(p) \in Dir /\ Target(p) \in Dir /\ Source(p) # None /\ Target(p) # None
         /\ Source(p).chain = p.chain /\ Source(p).ev = p.ev /\ Source(p).open = FALSE
         /\ Target(p).chain = Lineage(p) /\ Target(p).ev = p.ev /\ Target(p).open = FALSE
<1>1. /\ p.chain \in Chain /\ p.ev \in 0..MaxEvents /\ Lineage(p) \in Chain
  BY PlanType, LineageType
<1>2. Source(p) \in Dir /\ Target(p) \in Dir
  BY <1>1 DEF Source, Target, Dir
<1>3. None \notin Dir
  BY NoneAssumption
<1> QED BY <1>2, <1>3 DEF Source, Target

\* Up to its source's length a lineage is the source's chain.
LEMMA LineagePrefix ==
  ASSUME NEW p \in Plans, NEW i \in 1..Len(p.chain)
  PROVE  SubSeq(Lineage(p), 1, i) = SubSeq(p.chain, 1, i)
<1>1. /\ p.chain \in Seq(Link) /\ Len(p.chain) \in Nat
      /\ Lineage(p) \in Seq(Link) /\ Len(Lineage(p)) = Len(p.chain) + 1
  BY PlanType, LineageType
<1>2. \A j \in 1..i : Lineage(p)[j] = p.chain[j]
  BY <1>1, LineageType
<1>3. /\ SubSeq(Lineage(p), 1, i) = [j \in 1..i |-> Lineage(p)[j]]
      /\ SubSeq(p.chain, 1, i) = [j \in 1..i |-> p.chain[j]]
  BY <1>1
<1> QED BY <1>2, <1>3

\* A sequence is its own longest prefix.
LEMMA WholeSeq ==
  ASSUME NEW S, NEW c \in Seq(S)
  PROVE  SubSeq(c, 1, Len(c)) = c
BY SubSeqFull

LEMMA OnOwn ==
  ASSUME NEW p \in Plans
  PROVE  On(p, Lineage(p))
<1>1. Len(Lineage(p)) = Len(p.chain) + 1 /\ Lineage(p) \in Seq(Link) /\ Len(p.chain) \in Nat
  BY LineageType, PlanType
<1>2. SubSeq(Lineage(p), 1, Len(Lineage(p))) = Lineage(p)
  BY <1>1, WholeSeq
<1> QED BY <1>1, <1>2 DEF On

LEMMA OnGrows ==
  ASSUME NEW p \in Plans, NEW m \in Plans, On(p, m.chain)
  PROVE  On(p, Lineage(m))
<1>1. /\ Len(m.chain) \in Nat /\ Len(p.chain) \in Nat /\ Len(Lineage(m)) = Len(m.chain) + 1
  BY PlanType, LineageType
<1>2. Len(p.chain) + 1 \in 1..Len(m.chain)
  BY <1>1 DEF On
<1>3. SubSeq(Lineage(m), 1, Len(p.chain) + 1) = SubSeq(m.chain, 1, Len(p.chain) + 1)
  BY <1>2, LineagePrefix
<1> QED BY <1>1, <1>2, <1>3 DEF On

\* A chain with a plan's upgrade on it is not the chain the plan upgrades.
LEMMA OnDiffers ==
  ASSUME NEW p \in Plans, NEW c, On(p, c)
  PROVE  c # p.chain
BY PlanType DEF On

\* The installed lineage is explained when the source's chain is.
LEMMA GrownByUpgrade ==
  ASSUME NEW v, NEW m \in Plans, Grown(v, m.chain), v.ret[m] = Source(m), Intended(v, m)
  PROVE  Grown(v, Lineage(m))
<1> SUFFICES ASSUME NEW i \in 1..Len(Lineage(m))
             PROVE  \E p \in Plans : /\ Lineage(p) = SubSeq(Lineage(m), 1, i)
                                     /\ v.ret[p] = Source(p) /\ Intended(v, p)
  BY DEF Grown
<1>1. Len(Lineage(m)) = Len(m.chain) + 1 /\ Len(m.chain) \in Nat /\ Lineage(m) \in Seq(Link)
  BY LineageType, PlanType
<1>2. CASE i \in 1..Len(m.chain)
  BY <1>2, LineagePrefix DEF Grown
<1>3. CASE i = Len(Lineage(m))
  <2>1. SubSeq(Lineage(m), 1, i) = Lineage(m)
    BY <1>1, <1>3, WholeSeq
  <2> QED BY <2>1
<1> QED BY <1>1, <1>2, <1>3

\* Part 3.  What the steps do to a volume.

\* Nothing that explains a lineage is lost from one volume to the next.
Preserved(u, v) ==
  \A p \in Plans : /\ Retained(u, p) => Retained(v, p)
                   /\ Intended(u, p) => Intended(v, p)

\* The root stays, and no candidate falls behind.
Undisturbed(u, v) ==
  /\ v.root = u.root
  /\ \A p \in Plans : /\ u.cand[p] # "none" => v.cand[p] # "none"
                      /\ u.cand[p] = "full" => v.cand[p] = "full"

\* The directories of complete plans stay as they are.
Untouched(u, v) ==
  /\ v.root = u.root /\ v.ret = u.ret
  /\ \A p \in Plans : Retained(u, p) => v.cand[p] = u.cand[p]
  /\ \A p \in Plans : Intended(u, p) => Intended(v, p)

LEMMA VolumeType ==
  ASSUME NEW v \in Volume
  PROVE  /\ v = [root |-> v.root, made |-> v.made, cand |-> v.cand, ret |-> v.ret, rec |-> v.rec]
         /\ v.root \in Dir \cup {None} /\ v.made \in SUBSET Plans
         /\ v.cand \in [Plans -> {"none", "partial", "full"}]
         /\ v.ret \in [Plans -> Dir \cup {None}]
         /\ v.rec \in [Kinds -> [Plans -> Record]]
BY DEF Volume

LEMMA KindsType == "intent" \in Kinds /\ "result" \in Kinds /\ \A k \in Kinds : k = "intent" \/ k = "result"
BY DEF Kinds

LEMMA GrownStays ==
  ASSUME NEW u, NEW v, NEW c, Grown(u, c),
         \A p \in Plans : u.ret[p] = Source(p) => v.ret[p] = Source(p),
         \A p \in Plans : Intended(u, p) => Intended(v, p)
  PROVE  Grown(v, c)
BY DEF Grown

\* A volume on which only journals, records and unfinished candidates changed.
LEMMA UntouchedIsSound ==
  ASSUME NEW u, NEW v, NEW n, Sound(u, n), Untouched(u, v), Orderly(v)
  PROVE  Sound(v, n)
<1>1. \A c : Grown(u, c) => Grown(v, c)
  BY GrownStays DEF Untouched
<1>2. v.root # None => Rooted(v, n)
  BY <1>1 DEF Sound, Rooted, Untouched, Retained
<1>3. ASSUME v.root = None
      PROVE  \E m \in Plans : Moving(v, n, m)
  <2>1. PICK m \in Plans : Moving(u, n, m)
    BY <1>3 DEF Sound, Untouched
  <2>2. Retained(u, m)
    BY <2>1, SourceType DEF Moving, Retained
  <2>3. Moving(v, n, m)
    BY <1>1, <2>1, <2>2 DEF Moving, Untouched, Retained
  <2> QED BY <2>3
<1> QED BY <1>2, <1>3 DEF Sound

LEMMA MadeOf ==
  ASSUME NEW u \in Volume, NEW p \in Plans, NEW v, v = [u EXCEPT !.made = @ \cup {p}]
  PROVE  /\ v \in Volume
         /\ v.root = u.root /\ v.cand = u.cand /\ v.ret = u.ret /\ v.rec = u.rec
<1>1. \A s : [u EXCEPT !.made = s] =
               [root |-> u.root, made |-> s, cand |-> u.cand, ret |-> u.ret, rec |-> u.rec]
  BY VolumeType
<1>2. u.made \cup {p} \in SUBSET Plans
  BY VolumeType
<1>3. v = [root |-> u.root, made |-> u.made \cup {p}, cand |-> u.cand, ret |-> u.ret, rec |-> u.rec]
  BY <1>1
<1> QED BY <1>2, <1>3, VolumeType DEF Volume

LEMMA CandOf ==
  ASSUME NEW u \in Volume, NEW p \in Plans, NEW x \in {"none", "partial", "full"},
         NEW v, v = [u EXCEPT !.cand[p] = x]
  PROVE  /\ v \in Volume
         /\ v.root = u.root /\ v.ret = u.ret /\ v.rec = u.rec
         /\ v.cand[p] = x /\ \A q \in Plans : q # p => v.cand[q] = u.cand[q]
<1>1. v = [root |-> u.root, made |-> u.made, cand |-> [u.cand EXCEPT ![p] = x],
           ret |-> u.ret, rec |-> u.rec]
  BY VolumeType
<1>2. u.cand \in [Plans -> {"none", "partial", "full"}]
  BY VolumeType
<1>3. [u.cand EXCEPT ![p] = x] \in [Plans -> {"none", "partial", "full"}]
  BY <1>2
<1>4. /\ v.root = u.root /\ v.ret = u.ret /\ v.rec = u.rec /\ v.cand = [u.cand EXCEPT ![p] = x]
  BY <1>1
<1>5. v \in Volume
  BY <1>1, <1>3, VolumeType DEF Volume
<1> QED BY <1>2, <1>4, <1>5

\* A change of one record.
WithRecord(u, k, p, r) == [u EXCEPT !.rec[k][p] = r]

LEMMA RecOf ==
  ASSUME NEW u \in Volume, NEW k \in Kinds, NEW p \in Plans, NEW r \in Record,
         NEW v, v = WithRecord(u, k, p, r)
  PROVE  /\ v \in Volume
         /\ v.root = u.root /\ v.cand = u.cand /\ v.ret = u.ret
         /\ v.rec[k][p] = r
         /\ \A j \in Kinds, q \in Plans : j # k \/ q # p => v.rec[j][q] = u.rec[j][q]
<1> DEFINE f == [u.rec EXCEPT ![k][p] = r]
<1>0. v = [u EXCEPT !.rec = f]
  BY Zenon DEF WithRecord
<1> HIDE DEF f
<1>1. v = [root |-> u.root, made |-> u.made, cand |-> u.cand, ret |-> u.ret, rec |-> f]
  BY <1>0, VolumeType
<1>2. u.rec \in [Kinds -> [Plans -> Record]]
  BY VolumeType
<1>3. /\ f \in [Kinds -> [Plans -> Record]] /\ f[k][p] = r
      /\ \A j \in Kinds, q \in Plans : j # k \/ q # p => f[j][q] = u.rec[j][q]
  BY <1>2 DEF f
<1>4. /\ v.root = u.root /\ v.cand = u.cand /\ v.ret = u.ret /\ v.rec = f
  BY <1>1
<1>5. v \in Volume
  BY <1>1, <1>3, VolumeType DEF Volume
<1> QED BY <1>3, <1>4, <1>5

LEMMA RecordType ==
  ASSUME NEW u \in Volume, NEW k \in Kinds, NEW p \in Plans
  PROVE  /\ u.rec[k][p] \in Record
         /\ u.rec[k][p].pend \in Inode \cup {None} /\ u.rec[k][p].path \in Inode \cup {None}
         /\ u.rec[k][p] = [pend |-> u.rec[k][p].pend, path |-> u.rec[k][p].path]
<1>1. u.rec[k][p] \in Record
  BY VolumeType
<1> QED BY <1>1 DEF Record

\* A change of a record that keeps what is whole and names one inode.
LEMMA RecIsSound ==
  ASSUME NEW u \in Volume, NEW n, Sound(u, n), NEW k \in Kinds, NEW p \in Plans, NEW r \in Record,
         u.rec[k][p].path = "whole" => r.path = "whole",
         r.path # None => r.pend = None,
         NEW v, v = WithRecord(u, k, p, r)
  PROVE  /\ v \in Volume /\ Sound(v, n) /\ Preserved(u, v) /\ Undisturbed(u, v)
         /\ \A q \in Plans : Finished(v, q) =>
              Finished(u, q) \/ (q = p /\ k = "result" /\ (r.path = "whole" \/ r.pend = "whole"))
         /\ \A q \in Plans : Retained(u, q) => Retained(v, q)
<1>1. /\ v \in Volume
      /\ v.root = u.root /\ v.cand = u.cand /\ v.ret = u.ret
      /\ v.rec[k][p] = r
      /\ \A j \in Kinds, q \in Plans : j # k \/ q # p => v.rec[j][q] = u.rec[j][q]
  BY RecOf
<1>2. \A q \in Plans : Intended(u, q) => Intended(v, q)
  BY <1>1, KindsType DEF Intended
<1>3. Orderly(v)
  BY <1>1 DEF Orderly, Sound
<1>4. Untouched(u, v)
  BY <1>1, <1>2 DEF Untouched
<1>5. \A q \in Plans : Finished(v, q) =>
        Finished(u, q) \/ (q = p /\ k = "result" /\ (r.path = "whole" \/ r.pend = "whole"))
  BY <1>1, KindsType DEF Finished
<1>6. Sound(v, n)
  BY <1>3, <1>4, UntouchedIsSound
<1> QED BY <1>1, <1>2, <1>5, <1>6 DEF Preserved, Undisturbed, Retained

\* The first rename.
WithMoved(u, p) == [u EXCEPT !.root = None, !.ret[p] = u.root]

LEMMA MoveIsSound ==
  ASSUME NEW u \in Volume, NEW n, Sound(u, n), NEW p \in Plans, u.root = Source(p),
         u.cand[p] = "full", Intended(u, p), NEW v, v = WithMoved(u, p)
  PROVE  /\ v \in Volume /\ Sound(v, n) /\ Preserved(u, v) /\ Retained(v, p)
         /\ v.root = None /\ v.cand = u.cand /\ v.rec = u.rec
<1> DEFINE f == [u.ret EXCEPT ![p] = u.root]
<1>0. v = [u EXCEPT !.root = None, !.ret = f]
  BY Zenon DEF WithMoved
<1>1. u.ret \in [Plans -> Dir \cup {None}] /\ u.root \in Dir
  BY VolumeType, SourceType
<1>2. /\ f \in [Plans -> Dir \cup {None}] /\ f[p] = Source(p)
      /\ \A q \in Plans : q # p => f[q] = u.ret[q]
  BY <1>1
<1> HIDE DEF f
<1>3. v = [root |-> None, made |-> u.made, cand |-> u.cand, ret |-> f, rec |-> u.rec]
  BY <1>0, VolumeType
<1>4. /\ v.root = None /\ v.made = u.made /\ v.cand = u.cand /\ v.rec = u.rec /\ v.ret = f
  BY <1>3
<1>5. v \in Volume
  BY <1>3, <1>2, VolumeType DEF Volume
<1>6. u.root # None /\ u.root.chain = p.chain /\ u.root.ev = p.ev /\ Source(p) # None
  BY SourceType
<1>7. Rooted(u, n) /\ Orderly(u)
  BY <1>6 DEF Sound
<1>8. ~Retained(u, p)
  BY <1>6, <1>7, OnDiffers DEF Rooted
<1>9. \A q \in Plans : Retained(u, q) => q # p /\ Retained(v, q)
  BY <1>2, <1>4, <1>8 DEF Retained
<1>10. \A q \in Plans : Intended(v, q) <=> Intended(u, q)
  BY <1>4 DEF Intended
<1>11. Preserved(u, v)
  BY <1>9, <1>10 DEF Preserved
<1>12. Orderly(v)
  BY <1>2, <1>4, <1>7 DEF Orderly
<1>13. Grown(v, p.chain)
  <2>1. Grown(u, p.chain)
    BY <1>6, <1>7 DEF Rooted
  <2>2. \A q \in Plans : u.ret[q] = Source(q) => v.ret[q] = Source(q)
    BY <1>2, <1>4
  <2> QED BY <1>10, <2>1, <2>2, GrownStays
<1>14. \A q \in Plans : q # p /\ Retained(v, q) => v.cand[q] = "none" /\ On(q, p.chain)
  BY <1>2, <1>4, <1>6, <1>7 DEF Rooted, Retained
<1>15. Moving(v, n, p)
  BY <1>2, <1>4, <1>6, <1>7, <1>10, <1>13, <1>14 DEF Moving, Rooted
<1>16. Sound(v, n)
  BY <1>4, <1>12, <1>15 DEF Sound
<1> QED BY <1>2, <1>4, <1>5, <1>6, <1>11, <1>16 DEF Retained

\* The second rename.
WithSwapped(u, p) == [u EXCEPT !.root = Target(p), !.cand[p] = "none"]

LEMMA SwapIsSound ==
  ASSUME NEW u \in Volume, NEW n, Sound(u, n), NEW p \in Plans, u.root = None,
         u.cand[p] = "full", Retained(u, p), NEW v, v = WithSwapped(u, p)
  PROVE  /\ v \in Volume /\ Sound(v, n) /\ Preserved(u, v)
         /\ v.root = Target(p) /\ v.ret = u.ret /\ v.rec = u.rec
<1> DEFINE f == [u.cand EXCEPT ![p] = "none"]
<1>0. v = [u EXCEPT !.root = Target(p), !.cand = f]
  BY Zenon DEF WithSwapped
<1>1. u.cand \in [Plans -> {"none", "partial", "full"}] /\ Target(p) \in Dir /\ Target(p) # None
  BY VolumeType, SourceType
<1>2. /\ f \in [Plans -> {"none", "partial", "full"}] /\ f[p] = "none"
      /\ \A q \in Plans : q # p => f[q] = u.cand[q]
  BY <1>1
<1> HIDE DEF f
<1>3. v = [root |-> Target(p), made |-> u.made, cand |-> f, ret |-> u.ret, rec |-> u.rec]
  BY <1>0, VolumeType
<1>4. /\ v.root = Target(p) /\ v.made = u.made /\ v.cand = f /\ v.rec = u.rec /\ v.ret = u.ret
  BY <1>3
<1>5. v \in Volume
  BY <1>1, <1>2, <1>3, VolumeType DEF Volume
<1>6. PICK m \in Plans : Moving(u, n, m)
  BY DEF Sound
<1>7. m = p
  BY <1>6 DEF Moving
<1>8. Preserved(u, v)
  BY <1>4 DEF Preserved, Retained, Intended
<1>9. Orderly(v)
  BY <1>4 DEF Orderly, Sound
<1>10. /\ v.root.chain = Lineage(p) /\ v.root.ev = p.ev /\ Source(p) # None
  BY <1>4, SourceType
<1>11. Grown(v, Lineage(p))
  <2>1. Grown(u, p.chain) /\ u.ret[p] = Source(p) /\ Intended(u, p)
    BY <1>6, <1>7 DEF Moving
  <2>2. Grown(v, p.chain)
    BY <1>4, <2>1, GrownStays DEF Intended
  <2>3. v.ret[p] = Source(p) /\ Intended(v, p)
    BY <1>4, <2>1 DEF Intended
  <2> QED BY <2>2, <2>3, GrownByUpgrade
<1>12. ASSUME NEW q \in Plans, Retained(v, q)
       PROVE  v.cand[q] = "none" /\ On(q, Lineage(p))
  <2>1. CASE q = p
    BY <1>2, <1>4, <2>1, OnOwn
  <2>2. CASE q # p
    <3>1. u.cand[q] = "none" /\ On(q, p.chain)
      BY <1>4, <1>6, <1>7, <1>12, <2>2 DEF Moving, Retained
    <3> QED BY <1>2, <1>4, <2>2, <3>1, OnGrows
  <2> QED BY <2>1, <2>2
<1>13. Rooted(v, n)
  BY <1>6, <1>7, <1>10, <1>11, <1>12 DEF Rooted, Moving
<1>14. Sound(v, n)
  BY <1>1, <1>4, <1>9, <1>13 DEF Sound
<1> QED BY <1>4, <1>5, <1>8, <1>14

\* The runtime's change of the root: no retained source is the same directory.
LEMMA EditIsSound ==
  ASSUME vol \in Volume, NEW n \in 0..MaxEvents, Sound(vol, n), vol.root # None,
         NEW open \in BOOLEAN, NEW k \in 0..1, n + k \in 0..MaxEvents,
         NEW v, v = Edit(vol.root.chain, open, k)
  PROVE  /\ v \in Volume /\ Sound(v, n + k) /\ Preserved(vol, v)
         /\ v.root # None /\ v.root.chain = vol.root.chain
         /\ v.ret = vol.ret /\ v.cand = vol.cand /\ v.rec = vol.rec
<1> DEFINE e(d) == IF d # None /\ d.chain = vol.root.chain
                     THEN [d EXCEPT !.open = open, !.ev = @ + k] ELSE d
           f == [p \in Plans |-> e(vol.ret[p])]
           r == e(vol.root)
<1>0. v = [vol EXCEPT !.root = r, !.ret = f]
  BY Zenon DEF Edit
<1>1. vol.root \in Dir /\ vol.ret \in [Plans -> Dir \cup {None}]
  BY VolumeType
<1>2. Rooted(vol, n) /\ Orderly(vol)
  BY DEF Sound
<1>3. vol.root.ev = n /\ vol.root.chain \in Chain
  BY <1>1, <1>2 DEF Rooted, Dir
<1>4. r = [chain |-> vol.root.chain, ev |-> n + k, open |-> open]
  BY <1>1, <1>3 DEF Dir
<1>5. r \in Dir /\ r # None /\ r.chain = vol.root.chain /\ r.ev = n + k
  BY <1>3, <1>4, NoneAssumption DEF Dir
<1>6. ASSUME NEW p \in Plans
      PROVE  e(vol.ret[p]) = vol.ret[p]
  <2>1. vol.ret[p] = None \/ vol.ret[p] = Source(p)
    BY <1>2 DEF Orderly
  <2>2. CASE vol.ret[p] = None
    BY <2>2
  <2>3. CASE vol.ret[p] = Source(p)
    <3>1. Retained(vol, p) /\ vol.ret[p].chain = p.chain
      BY <2>3, SourceType DEF Retained
    <3>2. vol.root.chain # p.chain
      BY <1>2, <3>1, OnDiffers DEF Rooted
    <3> QED BY <3>1, <3>2
  <2> QED BY <2>1, <2>2, <2>3
<1>7. f = vol.ret
  BY <1>1, <1>6
<1> HIDE DEF f, r, e
<1>8. v = [root |-> r, made |-> vol.made, cand |-> vol.cand, ret |-> vol.ret, rec |-> vol.rec]
  BY <1>0, <1>7, VolumeType
<1>9. v.root = r /\ v.cand = vol.cand /\ v.ret = vol.ret /\ v.rec = vol.rec
  BY <1>8
<1>10. v \in Volume
  BY <1>5, <1>8, VolumeType DEF Volume
<1>11. Preserved(vol, v) /\ Orderly(v)
  BY <1>2, <1>9 DEF Preserved, Orderly, Retained, Intended
<1>12. Grown(v, vol.root.chain)
  BY <1>2, <1>9, GrownStays DEF Rooted, Intended
<1>13. Rooted(v, n + k)
  BY <1>2, <1>5, <1>9, <1>12 DEF Rooted, Retained
<1> QED BY <1>5, <1>9, <1>10, <1>11, <1>13 DEF Sound

\* Part 4.  A worker's step.

LEMMA StepNames ==
  /\ {"idle", "journal", "intent", "admit", "branch", "lockSource", "recheck", "copy",
      "lockCandidate", "ready", "move", "lockRetained", "install", "swap", "final", "release", "report",
      "syncJournal", "syncIntent", "syncCandidate", "syncMove", "syncSwap", "syncResult",
      "openIntent", "fillIntent", "publishIntent", "openResult", "fillResult", "publishResult"} \subseteq Steps
  /\ OpenAt["intent"] = "openIntent" /\ FillAt["intent"] = "fillIntent"
  /\ PublishAt["intent"] = "publishIntent" /\ SyncAt["intent"] = "syncIntent" /\ Written["intent"] = "admit"
  /\ OpenAt["result"] = "openResult" /\ FillAt["result"] = "fillResult"
  /\ PublishAt["result"] = "publishResult" /\ SyncAt["result"] = "syncResult" /\ Written["result"] = "release"
<1>1. /\ OpenAt["intent"] = "openIntent" /\ FillAt["intent"] = "fillIntent"
      /\ PublishAt["intent"] = "publishIntent" /\ SyncAt["intent"] = "syncIntent"
      /\ OpenAt["result"] = "openResult" /\ FillAt["result"] = "fillResult"
      /\ PublishAt["result"] = "publishResult" /\ SyncAt["result"] = "syncResult"
      /\ Written["intent"] = "admit" /\ Written["result"] = "release"
  BY DEF OpenAt, FillAt, PublishAt, SyncAt, Written
<1>2. DOMAIN Flushed = {"syncJournal", "syncIntent", "syncCandidate", "syncMove", "syncSwap", "syncResult"}
  BY DEF Flushed
<1>3. {"openIntent", "fillIntent", "publishIntent", "openResult", "fillResult", "publishResult"}
        \subseteq UNION {{OpenAt[k], FillAt[k], PublishAt[k]} : k \in Kinds}
  BY <1>1, KindsType
<1> QED BY <1>1, <1>2, <1>3 DEF Steps

LEMMA FlushedValues ==
  /\ DOMAIN Flushed = {"syncJournal", "syncIntent", "syncCandidate", "syncMove", "syncSwap", "syncResult"}
  /\ Flushed["syncJournal"] = "intent" /\ Flushed["syncIntent"] = "admit"
  /\ Flushed["syncCandidate"] = "copy" /\ Flushed["syncMove"] = "install"
  /\ Flushed["syncSwap"] = "final" /\ Flushed["syncResult"] = "release"
BY StepNames DEF Flushed

\* What every volume that a step adds to the possible ones has in common.
Follows(v) ==
  /\ v \in Volume /\ Sound(v, acked) /\ Preserved(vol, v)
  /\ \A p \in Plans : Finished(v, p) => Finished(vol, p)

\* The possible volumes after a step are possible ones or follow from the present one.
LEMMA DurableStep ==
  ASSUME IInv, \A v \in after' : v \in after \/ Follows(v),
         acked' = acked, reported' = reported
  PROVE  Durable'
<1>1. vol \in after
  BY DEF IInv, TypeOK
<1>2. \A v \in after' : Sound(v, acked)
  BY DEF IInv, Durable, Follows
<1>3. \A v \in after' : \A p \in Plans :
        (\A u \in after : Retained(u, p)) => Retained(v, p)
  BY <1>1 DEF Follows, Preserved
<1>4. \A v \in after' : \A p \in Plans : Finished(v, p) => \E u \in after : Finished(u, p)
  BY <1>1 DEF Follows
<1>5. \A u, v \in after' : \A p \in Plans : Finished(u, p) => Retained(v, p)
  BY <1>3, <1>4 DEF IInv, Durable
<1>6. \A p \in reported : p \in Plans
  BY DEF IInv, TypeOK
<1>7. \A p \in reported : \A v \in after' : Retained(v, p)
  BY <1>3, <1>6 DEF IInv, Durable
<1> QED BY <1>2, <1>5, <1>7 DEF Durable

\* What a worker counts on survives a step of somebody else.
LEMMA OthersStep ==
  ASSUME IInv, NEW x \in Workers,
         pc'[x] = pc[x], plan'[x] = plan[x], held'[x] = held[x],
         Preserved(vol, vol'), \A v \in after' : v \in after \/ Preserved(vol, v),
         Undisturbed(vol, vol') \/ pc[x] \notin Holding
  PROVE  AtWork(x)'
<1>1. AtWork(x) /\ vol \in after
  BY DEF IInv, TypeOK
<1>2. CASE pc[x] = "idle"
  BY <1>2 DEF AtWork, Entitled, Holding, Owning, Copied, Admitted, Moved, Ending
<1>3. CASE pc[x] # "idle"
  <2> DEFINE p == plan[x]
  <2>1. p \in Plans
    BY <1>1, <1>3 DEF AtWork
  <2>2. /\ Retained(vol, p) => Retained(vol', p)
        /\ Intended(vol, p) => Intended(vol', p)
        /\ (\A v \in after : Retained(v, p)) => \A v \in after' : Retained(v, p)
    BY <1>1, <2>1 DEF Preserved
  <2>3. ASSUME pc[x] \in Holding
        PROVE  /\ vol'.root = vol.root
               /\ vol.cand[p] # "none" => vol'.cand[p] # "none"
               /\ vol.cand[p] = "full" => vol'.cand[p] = "full"
    BY <2>1, <2>3 DEF Undisturbed
  <2>4. Entitled(pc[x], p, held[x], vol, after)
    BY <1>1 DEF AtWork
  <2>5. (pc[x] \in Owning => pc[x] \in Holding) /\ (pc[x] \in Copied => pc[x] \in Holding)
    BY DEF Owning, Holding, Copied
  <2>6. /\ pc[x] \in Holding => vol'.root # None /\ vol'.root.chain \in held[x]
        /\ pc[x] \in Owning => vol'.root = Source(p) /\ vol'.cand[p] # "none"
        /\ pc[x] \in Copied => vol'.cand[p] = "full"
    BY <2>3, <2>4, <2>5 DEF Entitled
  <2>7. /\ pc[x] \in Admitted => Intended(vol', p)
        /\ pc[x] \in Moved => Retained(vol', p)
        /\ pc[x] \in Ending => \A v \in after' : Retained(v, p)
    BY <2>2, <2>4 DEF Entitled
  <2>8. Entitled(pc[x], p, held[x], vol', after')
    BY <2>6, <2>7 DEF Entitled
  <2> QED BY <2>1, <2>8 DEF AtWork
<1> QED BY <1>2, <1>3

\* A step of worker w: its new place, its locks and what it counts on.
LEMMA WorkerStep ==
  ASSUME IInv, NEW w \in Workers, NEW l \in Steps, NEW q \in Plans \cup {None}, NEW h \in SUBSET Chain,
         pc' = [pc EXCEPT ![w] = l], plan' = [plan EXCEPT ![w] = q], held' = [held EXCEPT ![w] = h],
         UNCHANGED <<runtime, plans, verified, acked>>, fence' \in BOOLEAN,
         answered' \in SUBSET Plans, reported' \in SUBSET Plans, faults' \in 0..MaxFaults,
         vol' \in Volume, after' \in SUBSET Volume, vol' \in after', Durable',
         Preserved(vol, vol'), \A v \in after' : v \in after \/ Preserved(vol, v),
         \/ Undisturbed(vol, vol')
         \/ runtime = None /\ \A x \in Workers : x # w => pc[x] \notin Holding,
         \A x \in Workers : x # w => h \cap held[x] = {},
         runtime \notin h,
         l # "idle" => q \in Plans, Entitled(l, q, h, vol', after')
  PROVE  IInv'
<1>1. TypeOK /\ Exclusive
  BY DEF IInv
<1>2. /\ \A x \in Workers : x # w => pc'[x] = pc[x] /\ plan'[x] = plan[x] /\ held'[x] = held[x]
      /\ held'[w] = h
  BY <1>1 DEF TypeOK
<1>3. /\ pc' \in [Workers -> Steps] /\ plan' \in [Workers -> Plans \cup {None}]
      /\ held' \in [Workers -> SUBSET Chain]
  BY <1>1 DEF TypeOK
<1>4. TypeOK'
  BY <1>1, <1>3 DEF TypeOK
<1>5. Exclusive'
  <2>1. \A x, y \in Workers : x # y => held'[x] \cap held'[y] = {}
    BY <1>1, <1>2 DEF Exclusive
  <2>2. \A x \in Workers : runtime' \notin held'[x]
    BY <1>1, <1>2 DEF Exclusive
  <2>3. runtime' # None => vol'.root # None /\ vol'.root.chain = runtime'
    BY <1>1 DEF Exclusive, Undisturbed
  <2> QED BY <2>1, <2>2, <2>3 DEF Exclusive
<1>6. \A x \in Workers : x # w => AtWork(x)'
  BY <1>2, OthersStep
<1>7. pc'[w] = l /\ plan'[w] = q
  BY <1>1 DEF TypeOK
<1>8. AtWork(w)'
  BY <1>2, <1>7 DEF AtWork
<1> QED BY <1>4, <1>5, <1>6, <1>8 DEF IInv

\* The present volume may be what a power failure leaves.
LEMMA Present ==
  ASSUME IInv
  PROVE  /\ vol \in after /\ vol \in Volume /\ after \in SUBSET Volume
         /\ Sound(vol, acked) /\ Orderly(vol) /\ Follows(vol)
BY DEF IInv, TypeOK, Durable, Sound, Follows, Preserved

\* A worker goes on: the volume changed in a way that disturbs nobody.
LEMMA Advance ==
  ASSUME IInv, NEW w \in Workers, NEW l \in Steps, pc[w] # "idle", Goto(w, l), UNCHANGED env,
         vol' \in after', Follows(vol'), \A v \in after' : v \in after \/ Follows(v),
         Undisturbed(vol, vol'),
         Entitled(l, plan[w], held[w], vol', after')
  PROVE  IInv'
<1>1. TypeOK /\ Exclusive /\ AtWork(w)
  BY DEF IInv
<1>2. plan[w] \in Plans /\ plan[w] \in Plans \cup {None} /\ held[w] \in SUBSET Chain
  BY <1>1 DEF AtWork, TypeOK
<1>3. /\ pc' = [pc EXCEPT ![w] = l] /\ plan' = [plan EXCEPT ![w] = plan[w]]
      /\ held' = [held EXCEPT ![w] = held[w]]
  BY <1>1 DEF Goto, TypeOK
<1>4. Durable'
  BY DurableStep DEF env
<1>5. after' \in SUBSET Volume /\ vol' \in Volume /\ Preserved(vol, vol')
  BY Present DEF Follows
<1>6. \A v \in after' : v \in after \/ Preserved(vol, v)
  BY DEF Follows
<1>7. /\ \A x \in Workers : x # w => held[w] \cap held[x] = {}
      /\ runtime \notin held[w]
  BY <1>1 DEF Exclusive
<1>8. /\ UNCHANGED <<runtime, plans, verified, acked>> /\ fence' \in BOOLEAN
      /\ answered' \in SUBSET Plans /\ reported' \in SUBSET Plans /\ faults' \in 0..MaxFaults
  BY <1>1 DEF env, TypeOK
<1> QED BY <1>2, <1>3, <1>4, <1>5, <1>6, <1>7, <1>8, WorkerStep

\* A worker goes on after it looked.
LEMMA Look ==
  ASSUME IInv, NEW w \in Workers, NEW l \in Steps, pc[w] # "idle", Goto(w, l), Same, UNCHANGED env,
         Entitled(l, plan[w], held[w], vol, after)
  PROVE  IInv'
<1>1. /\ vol' = vol /\ after' = after /\ vol \in after /\ Follows(vol)
      /\ Undisturbed(vol, vol)
  BY Present DEF Same, Undisturbed
<1> QED BY <1>1, Advance

\* A worker goes on with one more owner database.
LEMMA Take ==
  ASSUME IInv, NEW w \in Workers, NEW l \in Steps, NEW c \in Chain, pc[w] # "idle",
         Hold(w, c, l), Free(w, c), Same, UNCHANGED env,
         Entitled(l, plan[w], held[w] \cup {c}, vol, after)
  PROVE  IInv'
<1>1. TypeOK /\ Exclusive /\ AtWork(w)
  BY DEF IInv
<1>2. /\ plan[w] \in Plans /\ plan[w] \in Plans \cup {None} /\ held[w] \cup {c} \in SUBSET Chain
  BY <1>1 DEF AtWork, TypeOK
<1>3. /\ pc' = [pc EXCEPT ![w] = l] /\ plan' = [plan EXCEPT ![w] = plan[w]]
      /\ held' = [held EXCEPT ![w] = held[w] \cup {c}]
  BY <1>1 DEF Hold, TypeOK
<1>4. /\ vol' = vol /\ after' = after /\ vol \in after /\ vol \in Volume /\ after \in SUBSET Volume
      /\ Undisturbed(vol, vol) /\ Preserved(vol, vol)
  BY Present DEF Same, Undisturbed, Preserved
<1>5. Durable'
  BY <1>4, DurableStep DEF env
<1>6. /\ \A x \in Workers : x # w => (held[w] \cup {c}) \cap held[x] = {}
      /\ runtime \notin held[w] \cup {c}
  BY <1>1 DEF Exclusive, Free
<1>7. /\ UNCHANGED <<runtime, plans, verified, acked>> /\ fence' \in BOOLEAN
      /\ answered' \in SUBSET Plans /\ reported' \in SUBSET Plans /\ faults' \in 0..MaxFaults
  BY <1>1 DEF env, TypeOK
<1> QED BY <1>2, <1>3, <1>4, <1>5, <1>6, <1>7, WorkerStep

\* A worker that ends counts on nothing.
LEMMA Ends ==
  ASSUME IInv, NEW w \in Workers, Halt(w), Same, Durable',
         UNCHANGED <<runtime, plans, verified, acked>>, fence' \in BOOLEAN,
         answered' \in SUBSET Plans, reported' \in SUBSET Plans, faults' \in 0..MaxFaults
  PROVE  IInv'
<1>1. TypeOK /\ Exclusive
  BY DEF IInv
<1>2. /\ pc' = [pc EXCEPT ![w] = "idle"] /\ plan' = [plan EXCEPT ![w] = None]
      /\ held' = [held EXCEPT ![w] = {}]
  BY DEF Halt
<1>3. /\ vol' = vol /\ after' = after /\ vol \in after /\ vol \in Volume /\ after \in SUBSET Volume
      /\ Undisturbed(vol, vol) /\ Preserved(vol, vol)
  BY Present DEF Same, Undisturbed, Preserved
<1>4. Entitled("idle", None, {}, vol, after)
  BY DEF Entitled, Holding, Owning, Copied, Admitted, Moved, Ending
<1>5. "idle" \in Steps /\ {} \in SUBSET Chain /\ None \in Plans \cup {None}
  BY StepNames
<1>6. (\A x \in Workers : x # w => {} \cap held[x] = {}) /\ runtime \notin {}
  OBVIOUS
<1> QED BY <1>2, <1>3, <1>4, <1>5, <1>6, WorkerStep

LEMMA Stops ==
  ASSUME IInv, NEW w \in Workers, Stop(w), UNCHANGED <<runtime, plans, verified, acked, answered, reported>>,
         fence' \in BOOLEAN, faults' \in 0..MaxFaults
  PROVE  IInv'
<1>1. Durable'
  BY DurableStep DEF Stop, Same
<1>2. answered' \in SUBSET Plans /\ reported' \in SUBSET Plans
  BY DEF IInv, TypeOK
<1> QED BY <1>1, <1>2, Ends DEF Stop

LEMMA AtPlan ==
  ASSUME IInv, NEW w \in Workers, NEW p, p = plan[w], pc[w] # "idle"
  PROVE  p \in Plans /\ Entitled(pc[w], p, held[w], vol, after)
BY DEF IInv, AtWork

\* A worker may stop at every step.
LEMMA StopsAt ==
  ASSUME IInv, NEW w \in Workers, Stop(w), UNCHANGED env
  PROVE  IInv'
<1>1. /\ UNCHANGED <<runtime, plans, verified, acked, answered, reported>>
      /\ fence' \in BOOLEAN /\ faults' \in 0..MaxFaults
  BY DEF env, IInv, TypeOK
<1> QED BY <1>1, Stops

\* A step that makes a change the next sync will flush, or flushes it itself.
LEMMA Changes ==
  ASSUME IInv, NEW w \in Workers, NEW l \in Steps, pc[w] # "idle", Goto(w, l), UNCHANGED env,
         NEW v, Do(v) \/ DoSync(v), Follows(v), Undisturbed(vol, v),
         Entitled(l, plan[w], held[w], v, after \cup {v})
  PROVE  IInv'
<1>1. vol' = v /\ v \in after' /\ \A u \in after' : u \in after \/ u = v
  BY DEF Do, DoSync
<1>2. Entitled(l, plan[w], held[w], v, after')
  BY <1>1 DEF Entitled
<1> QED BY <1>1, <1>2, Advance

\* Making the journal directory changes nothing that a volume is judged by.
LEMMA MakeJournalStep ==
  ASSUME IInv, NEW w \in Workers, NEW p, p = plan[w], MakeJournal(w, p)
  PROVE  IInv'
<1>1. pc[w] = "journal" /\ UNCHANGED env /\ pc[w] # "idle"
  BY DEF MakeJournal, At
<1>2. p \in Plans
  BY <1>1, AtPlan
<1>3. \A v, A : Entitled("intent", p, held[w], v, A) /\ Entitled("syncJournal", p, held[w], v, A)
  BY DEF Entitled, Holding, Owning, Copied, Admitted, Moved, Ending
<1>4. "intent" \in Steps /\ "syncJournal" \in Steps
  BY StepNames
<1>5. CASE Goto(w, "intent") /\ Same
  BY <1>1, <1>3, <1>4, <1>5, Look
<1>6. CASE Goto(w, "syncJournal") /\ Do([vol EXCEPT !.made = @ \cup {p}])
  <2> DEFINE v == [vol EXCEPT !.made = @ \cup {p}]
  <2>1. Do(v)
    BY <1>6
  <2>2. /\ v \in Volume
        /\ v.root = vol.root /\ v.cand = vol.cand /\ v.ret = vol.ret /\ v.rec = vol.rec
    BY <1>2, Present, MadeOf
  <2> HIDE DEF v
  <2>3. Untouched(vol, v) /\ Orderly(v)
    BY <2>2, Present DEF Untouched, Orderly, Intended
  <2>4. Sound(v, acked)
    BY <2>3, Present, UntouchedIsSound
  <2>5. Follows(v) /\ Undisturbed(vol, v)
    BY <2>2, <2>4 DEF Follows, Undisturbed, Preserved, Retained, Intended, Finished
  <2> QED BY <1>1, <1>3, <1>4, <1>6, <2>1, <2>5, Changes
<1>7. CASE Stop(w)
  BY <1>1, <1>7, StopsAt
<1> QED BY <1>5, <1>6, <1>7 DEF MakeJournal

LEMMA CheckIntentStep ==
  ASSUME IInv, NEW w \in Workers, NEW p, p = plan[w], CheckIntent(w, p)
  PROVE  IInv'
<1>1. pc[w] = "intent" /\ UNCHANGED env /\ pc[w] # "idle"
  BY DEF CheckIntent, At
<1>2. Entitled("admit", p, held[w], vol, after) /\ Entitled("openIntent", p, held[w], vol, after)
  BY DEF Entitled, Holding, Owning, Copied, Admitted, Moved, Ending
<1>3. "admit" \in Steps /\ "openIntent" \in Steps /\ OpenAt["intent"] = "openIntent"
  BY StepNames
<1>4. CASE Goto(w, "admit") /\ Same
  BY <1>1, <1>2, <1>3, <1>4, Look
<1>5. CASE Goto(w, OpenAt["intent"]) /\ Same
  BY <1>1, <1>2, <1>3, <1>5, Look
<1>6. CASE Stop(w)
  BY <1>1, <1>6, StopsAt
<1> QED BY <1>4, <1>5, <1>6 DEF CheckIntent

\* A new record file, in the place of the prefix that was there.
LEMMA OpenedIsSound ==
  ASSUME IInv, NEW k \in Kinds, NEW p \in Plans, NEW i \in Workers \cup {None},
         vol.rec[k][p].path = None, NEW v, v = [vol EXCEPT !.rec[k][p].pend = i]
  PROVE  Follows(v) /\ Undisturbed(vol, v)
<1> DEFINE r == [pend |-> i, path |-> vol.rec[k][p].path]
<1>1. vol.rec[k][p] = [pend |-> vol.rec[k][p].pend, path |-> vol.rec[k][p].path]
  BY Present, RecordType
<1>2. [vol.rec[k][p] EXCEPT !.pend = i] = r
  BY <1>1
<1>3. v = [vol EXCEPT !.rec[k][p] = [vol.rec[k][p] EXCEPT !.pend = i]]
  BY <1>1, Zenon
<1>4. v = WithRecord(vol, k, p, r)
  BY <1>2, <1>3 DEF WithRecord
<1>5. r \in Record /\ (vol.rec[k][p].path = "whole" => r.path = "whole") /\ (r.path # None => r.pend = None)
      /\ r.path # "whole" /\ r.pend # "whole"
  BY NoneAssumption, WorkersAssumption DEF Record, Inode
<1> HIDE DEF r
<1>6. /\ v \in Volume /\ Sound(v, acked) /\ Preserved(vol, v) /\ Undisturbed(vol, v)
      /\ \A q \in Plans : Finished(v, q) => Finished(vol, q)
  BY <1>4, <1>5, Present, RecIsSound
<1> QED BY <1>6 DEF Follows

\* Where a worker may be while it writes a record.
LEMMA WritingAt ==
  ASSUME IInv, NEW w \in Workers, NEW p, p = plan[w], NEW k \in Kinds, pc[w] # "idle",
         pc[w] = OpenAt[k] \/ pc[w] = FillAt[k] \/ pc[w] = PublishAt[k]
  PROVE  /\ p \in Plans
         /\ k = "result" => Retained(vol, p) /\ Intended(vol, p)
         /\ k = "result" /\ pc[w] = PublishAt[k] => \A u \in after : Retained(u, p)
<1>1. p \in Plans /\ Entitled(pc[w], p, held[w], vol, after)
  BY AtPlan
<1>2. k = "result" => pc[w] \in {"openResult", "fillResult", "publishResult"}
  BY StepNames
<1>3. k = "result" => Retained(vol, p) /\ Intended(vol, p)
  BY <1>1, <1>2 DEF Entitled, Admitted, Moved, Ending
<1>4. k = "result" /\ pc[w] = PublishAt[k] => \A u \in after : Retained(u, p)
  BY <1>1, <1>2, StepNames DEF Entitled, Ending
<1> QED BY <1>1, <1>3, <1>4

\* What writing a record needs at each of its steps.
LEMMA WritingNeeds ==
  ASSUME NEW k \in Kinds, NEW p \in Plans, NEW h, NEW v, NEW A,
         k = "result" => Retained(v, p) /\ Intended(v, p)
  PROVE  /\ OpenAt[k] \in Steps /\ FillAt[k] \in Steps /\ PublishAt[k] \in Steps
         /\ SyncAt[k] \in Steps /\ Written[k] \in Steps
         /\ Entitled(FillAt[k], p, h, v, A)
         /\ (k = "result" => \A u \in A : Retained(u, p)) =>
              /\ Entitled(PublishAt[k], p, h, v, A) /\ Entitled(SyncAt[k], p, h, v, A)
              /\ Entitled(Written[k], p, h, v, A)
<1>1. CASE k = "intent"
  BY <1>1, StepNames DEF Entitled, Holding, Owning, Copied, Admitted, Moved, Ending
<1>2. CASE k = "result"
  BY <1>2, StepNames, SMTT(40) DEF Entitled, Holding, Owning, Copied, Admitted, Moved, Ending
<1> QED BY <1>1, <1>2, KindsType

LEMMA OpenRecordStep ==
  ASSUME IInv, NEW w \in Workers, NEW p, p = plan[w], NEW k \in Kinds, OpenRecord(w, p, k)
  PROVE  IInv'
<1> DEFINE r == vol.rec[k][p]
           pend(i) == [vol EXCEPT !.rec[k][p].pend = i]
<1>1. pc[w] = OpenAt[k] /\ UNCHANGED env
  BY DEF OpenRecord, At
<1>2. pc[w] # "idle"
  BY <1>1, StepNames, KindsType
<1>3. /\ p \in Plans
      /\ k = "result" => Retained(vol, p) /\ Intended(vol, p)
  BY <1>1, <1>2, WritingAt
<1>4. CASE r.path = "whole" /\ Goto(w, Written[k]) /\ Same
  <2>1. k = "result" => \A u \in after : Retained(u, p)
    BY <1>3, <1>4, Present DEF IInv, Durable, Finished
  <2>2. Written[k] \in Steps /\ Entitled(Written[k], p, held[w], vol, after)
    BY <1>3, <2>1, WritingNeeds
  <2> QED BY <1>1, <1>2, <1>4, <2>2, Look
<1>5. CASE Stop(w)
  BY <1>1, <1>5, StopsAt
<1>6. ASSUME r.path = None
      PROVE  /\ Follows(pend(w)) /\ Undisturbed(vol, pend(w))
             /\ Follows(pend(None)) /\ FillAt[k] \in Steps
             /\ \A A : Entitled(FillAt[k], p, held[w], pend(w), A)
  <2>1. /\ Follows(pend(w)) /\ Undisturbed(vol, pend(w))
        /\ Follows(pend(None))
    BY <1>3, <1>6, OpenedIsSound
  <2>2. k = "result" => Retained(pend(w), p) /\ Intended(pend(w), p)
    BY <1>3, <2>1 DEF Follows, Preserved
  <2>3. FillAt[k] \in Steps /\ \A A : Entitled(FillAt[k], p, held[w], pend(w), A)
    BY <1>3, <2>2, WritingNeeds
  <2> QED BY <2>1, <2>3
<1>7. CASE r.path = None /\ r.pend = None /\ Goto(w, FillAt[k]) /\ Do(pend(w))
  BY <1>1, <1>2, <1>6, <1>7, Changes
<1>8. CASE /\ r.path = None /\ r.pend # None /\ Goto(w, FillAt[k])
           /\ vol' = pend(w) /\ after' = {pend(None), pend(w)}
  <2>1. \A v \in after' : Follows(v)
    BY <1>6, <1>8, SMTT(40)
  <2>2. vol' \in after' /\ Undisturbed(vol, vol') /\ Entitled(FillAt[k], p, held[w], vol', after')
    BY <1>6, <1>8
  <2> QED BY <1>1, <1>2, <1>6, <1>8, <2>1, <2>2, Advance
<1> QED BY <1>4, <1>5, <1>7, <1>8 DEF OpenRecord

\* Filling a record flushes everything before it, the two renames included.
LEMMA FillRecordStep ==
  ASSUME IInv, NEW w \in Workers, NEW p, p = plan[w], NEW k \in Kinds, FillRecord(w, p, k)
  PROVE  IInv'
<1> DEFINE filled(i) == IF i = w THEN "whole" ELSE i
           r == [pend |-> filled(vol.rec[k][p].pend), path |-> filled(vol.rec[k][p].path)]
           v == [vol EXCEPT !.rec[k][p] = [pend |-> filled(@.pend), path |-> filled(@.path)]]
<1>1. pc[w] = FillAt[k] /\ UNCHANGED env /\ Goto(w, PublishAt[k]) /\ DoSync(v)
  BY DEF FillRecord, At
<1>2. pc[w] # "idle"
  BY <1>1, StepNames, KindsType
<1>3. /\ p \in Plans
      /\ k = "result" => Retained(vol, p) /\ Intended(vol, p)
  BY <1>1, <1>2, WritingAt
<1>4. v = WithRecord(vol, k, p, r)
  BY Zenon DEF WithRecord
<1>5. /\ vol.rec[k][p].pend \in Inode \cup {None} /\ vol.rec[k][p].path \in Inode \cup {None}
      /\ vol.rec[k][p].path # None => vol.rec[k][p].pend = None
  BY <1>3, Present, RecordType DEF Orderly
<1>6. None \notin Workers /\ w \in Inode /\ "whole" \in Inode
  BY NoneAssumption DEF Inode
<1>7. r \in Record /\ (vol.rec[k][p].path = "whole" => r.path = "whole") /\ (r.path # None => r.pend = None)
  BY <1>5, <1>6 DEF Record
<1> HIDE DEF v, r
<1>8. /\ v \in Volume /\ Sound(v, acked) /\ Preserved(vol, v) /\ Undisturbed(vol, v)
      /\ \A q \in Plans : Finished(v, q) => Finished(vol, q) \/ (q = p /\ k = "result")
  BY <1>3, <1>4, <1>7, Present, RecIsSound
<1>9. vol' = v /\ after' = {v} /\ acked' = acked /\ reported' = reported
  BY <1>1 DEF DoSync, env
<1>10. \A q \in Plans : Finished(v, q) => Retained(v, q)
  BY <1>3, <1>8, Present DEF IInv, Durable, Preserved
<1>11. \A q \in reported : Retained(v, q)
  BY <1>8, Present DEF IInv, Durable, TypeOK, Preserved
<1>12. Durable'
  BY <1>8, <1>9, <1>10, <1>11 DEF Durable
<1>13. PublishAt[k] \in Steps /\ Entitled(PublishAt[k], p, held[w], v, {v})
  <2>1. k = "result" => Retained(v, p) /\ Intended(v, p)
    BY <1>3, <1>8 DEF Preserved
  <2>2. k = "result" => \A u \in {v} : Retained(u, p)
    BY <2>1
  <2> QED BY <1>3, <2>1, <2>2, WritingNeeds
<1>14. TypeOK /\ Exclusive
  BY DEF IInv
<1>15. /\ pc' = [pc EXCEPT ![w] = PublishAt[k]] /\ plan' = [plan EXCEPT ![w] = plan[w]]
       /\ held' = [held EXCEPT ![w] = held[w]]
  BY <1>1, <1>14 DEF Goto, TypeOK
<1>16. /\ \A x \in Workers : x # w => held[w] \cap held[x] = {}
       /\ runtime \notin held[w] /\ held[w] \in SUBSET Chain /\ plan[w] \in Plans \cup {None}
  BY <1>3, <1>14 DEF Exclusive, TypeOK
<1>17. /\ UNCHANGED <<runtime, plans, verified, acked>> /\ fence' \in BOOLEAN
       /\ answered' \in SUBSET Plans /\ reported' \in SUBSET Plans /\ faults' \in 0..MaxFaults
  BY <1>1, <1>14 DEF env, TypeOK
<1>18. after' \in SUBSET Volume /\ vol' \in after'
  BY <1>8, <1>9
<1> QED BY <1>3, <1>8, <1>9, <1>12, <1>13, <1>15, <1>16, <1>17, <1>18, WorkerStep

LEMMA PublishRecordStep ==
  ASSUME IInv, NEW w \in Workers, NEW p, p = plan[w], NEW k \in Kinds, PublishRecord(w, p, k)
  PROVE  IInv'
<1> DEFINE o == vol.rec[k][p]
           r == [pend |-> None, path |-> vol.rec[k][p].pend]
           v == [vol EXCEPT !.rec[k][p] = [pend |-> None, path |-> vol.rec[k][p].pend]]
<1>1. pc[w] = PublishAt[k] /\ UNCHANGED env
  BY DEF PublishRecord, At
<1>2. pc[w] # "idle"
  BY <1>1, StepNames, KindsType
<1>3. /\ p \in Plans
      /\ k = "result" => Retained(vol, p) /\ Intended(vol, p)
      /\ k = "result" => \A u \in after : Retained(u, p)
  BY <1>1, <1>2, WritingAt
<1>4. CASE Stop(w)
  BY <1>1, <1>4, StopsAt
<1>5. CASE o.pend # None /\ Goto(w, SyncAt[k]) /\ Do(v)
  <2>1. v = WithRecord(vol, k, p, r)
    BY Zenon DEF WithRecord
  <2>2. /\ vol.rec[k][p].pend \in Inode \cup {None}
        /\ vol.rec[k][p].path = None
    BY <1>3, <1>5, Present, RecordType DEF Orderly
  <2>3. r \in Record /\ (vol.rec[k][p].path = "whole" => r.path = "whole") /\ (r.path # None => r.pend = None)
    BY <2>2, NoneAssumption DEF Record
  <2>4. r.pend # "whole" /\ (r.path = "whole" => vol.rec[k][p].pend = "whole")
    BY NoneAssumption
  <2>5. Do(v) /\ Goto(w, SyncAt[k])
    BY <1>5
  <2> HIDE DEF v, r
  <2>6. /\ v \in Volume /\ Sound(v, acked) /\ Preserved(vol, v) /\ Undisturbed(vol, v)
        /\ \A q \in Plans : Finished(v, q) =>
             Finished(vol, q) \/ (q = p /\ k = "result" /\ (r.path = "whole" \/ r.pend = "whole"))
    BY <1>3, <2>1, <2>3, Present, RecIsSound
  <2>7. Follows(v)
    BY <2>4, <2>6 DEF Follows, Finished
  <2>8. SyncAt[k] \in Steps /\ Entitled(SyncAt[k], p, held[w], v, after \cup {v})
    <3>1. k = "result" => Retained(v, p) /\ Intended(v, p)
      BY <1>3, <2>6 DEF Preserved
    <3>2. k = "result" => \A u \in after \cup {v} : Retained(u, p)
      BY <1>3, <3>1
    <3> QED BY <1>3, <3>1, <3>2, WritingNeeds
  <2> QED BY <1>1, <1>2, <2>5, <2>6, <2>7, <2>8, Changes
<1> QED BY <1>4, <1>5 DEF PublishRecord

LEMMA AdmitStep ==
  ASSUME IInv, NEW w \in Workers, NEW p, p = plan[w], Admit(w, p)
  PROVE  IInv'
<1>1. pc[w] = "admit" /\ UNCHANGED env /\ pc[w] # "idle"
  BY DEF Admit, At
<1>2. p \in Plans
  BY <1>1, AtPlan
<1>3. "branch" \in Steps /\ "release" \in Steps
  BY StepNames
<1>4. CASE vol.rec["intent"][p].path = "whole" /\ Goto(w, "branch") /\ Same
  <2>1. Entitled("branch", p, held[w], vol, after)
    BY <1>4 DEF Entitled, Intended, Holding, Owning, Copied, Admitted, Moved, Ending
  <2> QED BY <1>1, <1>3, <1>4, <2>1, Look
<1>5. CASE /\ vol.rec["intent"][p].path = "whole" /\ vol.rec["result"][p].path = "whole"
           /\ Goto(w, "release") /\ Same
  <2>1. \A u \in after : Retained(u, p)
    BY <1>2, <1>5, Present DEF IInv, Durable, Finished
  <2>2. Entitled("release", p, held[w], vol, after)
    BY <1>5, <2>1, Present DEF Entitled, Intended, Holding, Owning, Copied, Admitted, Moved, Ending
  <2> QED BY <1>1, <1>3, <1>5, <2>2, Look
<1>6. CASE Stop(w)
  BY <1>1, <1>6, StopsAt
<1> QED BY <1>4, <1>5, <1>6 DEF Admit

LEMMA BranchStep ==
  ASSUME IInv, NEW w \in Workers, NEW p, p = plan[w], Branch(w, p)
  PROVE  IInv'
<1>1. pc[w] = "branch" /\ UNCHANGED env /\ pc[w] # "idle"
  BY DEF Branch, At
<1>2. p \in Plans /\ Intended(vol, p)
  BY <1>1, AtPlan DEF Entitled, Admitted
<1>3. "lockRetained" \in Steps /\ "lockSource" \in Steps
  BY StepNames
<1>4. CASE vol.ret[p] # None /\ Goto(w, "lockRetained") /\ Same
  <2>1. Entitled("lockRetained", p, held[w], vol, after)
    BY <1>2, <1>4 DEF Entitled, Retained, Holding, Owning, Copied, Admitted, Moved, Ending
  <2> QED BY <1>1, <1>3, <1>4, <2>1, Look
<1>5. CASE Goto(w, "lockSource") /\ Same
  <2>1. Entitled("lockSource", p, held[w], vol, after)
    BY <1>2 DEF Entitled, Holding, Owning, Copied, Admitted, Moved, Ending
  <2> QED BY <1>1, <1>3, <1>5, <2>1, Look
<1>6. CASE Stop(w)
  BY <1>1, <1>6, StopsAt
<1> QED BY <1>4, <1>5, <1>6 DEF Branch

\* The root that the worker locks is there, and stays while it holds it.
LEMMA LockSourceStep ==
  ASSUME IInv, NEW w \in Workers, NEW p, p = plan[w], LockSource(w)
  PROVE  IInv'
<1>1. pc[w] = "lockSource" /\ UNCHANGED env /\ pc[w] # "idle"
  BY DEF LockSource, At
<1>2. p \in Plans /\ Intended(vol, p)
  BY <1>1, AtPlan DEF Entitled, Admitted
<1>3. "recheck" \in Steps
  BY StepNames
<1>4. CASE /\ vol.root # None /\ Free(w, vol.root.chain)
           /\ Hold(w, vol.root.chain, "recheck") /\ Same
  <2>1. vol.root.chain \in Chain
    BY <1>4, Present, VolumeType DEF Dir
  <2>2. Entitled("recheck", p, held[w] \cup {vol.root.chain}, vol, after)
    BY <1>2, <1>4 DEF Entitled, Holding, Owning, Copied, Admitted, Moved, Ending
  <2> QED BY <1>1, <1>3, <1>4, <2>1, <2>2, Take
<1>5. CASE Stop(w)
  BY <1>1, <1>5, StopsAt
<1> QED BY <1>4, <1>5 DEF LockSource

\* While a plan's source is the root the plan has retained nothing.
LEMMA SourceNotRetained ==
  ASSUME IInv, NEW p \in Plans, vol.root = Source(p)
  PROVE  ~Retained(vol, p)
<1>1. vol.root # None /\ vol.root.chain = p.chain
  BY SourceType
<1>2. Rooted(vol, acked)
  BY <1>1, Present DEF Sound
<1> QED BY <1>1, <1>2, OnDiffers DEF Rooted

\* A candidate that grows under its source is no plan's proof.
LEMMA CandidateIsSound ==
  ASSUME IInv, NEW p \in Plans, vol.root = Source(p), NEW x \in {"partial", "full"},
         x = "partial" => vol.cand[p] # "full",
         NEW v, v = [vol EXCEPT !.cand[p] = x]
  PROVE  /\ Follows(v) /\ Undisturbed(vol, v) /\ v.root = vol.root
         /\ v.cand[p] = x
<1>1. /\ v \in Volume
      /\ v.root = vol.root /\ v.ret = vol.ret /\ v.rec = vol.rec
      /\ v.cand[p] = x /\ \A q \in Plans : q # p => v.cand[q] = vol.cand[q]
  BY Present, CandOf
<1>2. ~Retained(vol, p)
  BY SourceNotRetained
<1>3. Untouched(vol, v) /\ Orderly(v)
  BY <1>1, <1>2, Present DEF Untouched, Orderly, Intended
<1>4. Sound(v, acked)
  BY <1>3, Present, UntouchedIsSound
<1> QED BY <1>1, <1>4 DEF Follows, Undisturbed, Preserved, Retained, Intended, Finished

\* Under the lock the source is what the plan says, and cannot change any more.
LEMMA RecheckStep ==
  ASSUME IInv, NEW w \in Workers, NEW p, p = plan[w], Recheck(w, p)
  PROVE  IInv'
<1>1. pc[w] = "recheck" /\ UNCHANGED env /\ pc[w] # "idle"
  BY DEF Recheck, At
<1>2. /\ p \in Plans /\ Intended(vol, p)
      /\ vol.root # None /\ vol.root.chain \in held[w]
  BY <1>1, AtPlan DEF Entitled, Admitted, Holding
<1>3. "syncCandidate" \in Steps /\ "copy" \in Steps
  BY StepNames
<1>4. CASE /\ vol.root = Source(p) /\ vol.cand[p] = "none" /\ Goto(w, "syncCandidate")
           /\ Do([vol EXCEPT !.cand[p] = "partial"])
  <2> DEFINE v == [vol EXCEPT !.cand[p] = "partial"]
  <2>1. Do(v)
    BY <1>4
  <2>2. Follows(v) /\ Undisturbed(vol, v) /\ v.root = vol.root /\ v.cand[p] = "partial"
    BY <1>2, <1>4, CandidateIsSound
  <2> HIDE DEF v
  <2>3. Intended(v, p)
    BY <1>2, <2>2 DEF Follows, Preserved
  <2>4. Entitled("syncCandidate", p, held[w], v, after \cup {v})
    BY <1>2, <1>4, <2>2, <2>3 DEF Entitled, Holding, Owning, Copied, Admitted, Moved, Ending
  <2> QED BY <1>1, <1>3, <1>4, <2>1, <2>2, <2>4, Changes
<1>5. CASE vol.root = Source(p) /\ vol.cand[p] # "none" /\ Goto(w, "copy") /\ Same
  <2>1. Entitled("copy", p, held[w], vol, after)
    BY <1>2, <1>5 DEF Entitled, Holding, Owning, Copied, Admitted, Moved, Ending
  <2> QED BY <1>1, <1>3, <1>5, <2>1, Look
<1>6. CASE Stop(w)
  BY <1>1, <1>6, StopsAt
<1> QED BY <1>4, <1>5, <1>6 DEF Recheck, Exact

LEMMA CopyCandidateStep ==
  ASSUME IInv, NEW w \in Workers, NEW p, p = plan[w], CopyCandidate(w, p)
  PROVE  IInv'
<1>1. pc[w] = "copy" /\ UNCHANGED env /\ pc[w] # "idle"
  BY DEF CopyCandidate, At
<1>2. /\ p \in Plans /\ Intended(vol, p) /\ vol.root = Source(p)
      /\ vol.root # None /\ vol.root.chain \in held[w]
  BY <1>1, AtPlan DEF Entitled, Admitted, Holding, Owning
<1>3. "lockCandidate" \in Steps
  BY StepNames
<1>4. CASE Goto(w, "lockCandidate") /\ DoSync([vol EXCEPT !.cand[p] = "full"])
  <2> DEFINE v == [vol EXCEPT !.cand[p] = "full"]
  <2>1. DoSync(v)
    BY <1>4
  <2>2. Follows(v) /\ Undisturbed(vol, v) /\ v.root = vol.root /\ v.cand[p] = "full"
    BY <1>2, CandidateIsSound
  <2> HIDE DEF v
  <2>3. Intended(v, p)
    BY <1>2, <2>2 DEF Follows, Preserved
  <2>4. Entitled("lockCandidate", p, held[w], v, after \cup {v})
    BY <1>2, <2>2, <2>3 DEF Entitled, Holding, Owning, Copied, Admitted, Moved, Ending
  <2> QED BY <1>1, <1>3, <1>4, <2>1, <2>2, <2>4, Changes
<1>5. CASE Stop(w)
  BY <1>1, <1>5, StopsAt
<1> QED BY <1>4, <1>5 DEF CopyCandidate

LEMMA LockCandidateStep ==
  ASSUME IInv, NEW w \in Workers, NEW p, p = plan[w], LockCandidate(w, p)
  PROVE  IInv'
<1>1. pc[w] = "lockCandidate" /\ UNCHANGED env /\ pc[w] # "idle"
  BY DEF LockCandidate, At
<1>2. p \in Plans /\ Entitled("lockCandidate", p, held[w], vol, after)
  BY <1>1, AtPlan
<1>3. "ready" \in Steps /\ Lineage(p) \in Chain
  BY <1>2, StepNames, LineageType
<1>4. CASE Free(w, Lineage(p)) /\ Hold(w, Lineage(p), "ready") /\ Same
  <2>1. Entitled("ready", p, held[w] \cup {Lineage(p)}, vol, after)
    BY <1>2 DEF Entitled, Holding, Owning, Copied, Admitted, Moved, Ending
  <2> QED BY <1>1, <1>3, <1>4, <2>1, Take
<1>5. CASE Stop(w)
  BY <1>1, <1>5, StopsAt
<1> QED BY <1>4, <1>5 DEF LockCandidate

LEMMA ReadyStep ==
  ASSUME IInv, NEW w \in Workers, NEW p, p = plan[w], Ready(w, p)
  PROVE  IInv'
<1>1. pc[w] = "ready" /\ UNCHANGED env /\ pc[w] # "idle"
  BY DEF Ready, At
<1>2. Entitled("ready", p, held[w], vol, after)
  BY <1>1, AtPlan
<1>3. "move" \in Steps /\ Entitled("move", p, held[w], vol, after)
  BY <1>2, StepNames DEF Entitled, Holding, Owning, Copied, Admitted, Moved, Ending
<1>4. CASE Goto(w, "move") /\ Same
  BY <1>1, <1>3, <1>4, Look
<1>5. CASE Stop(w)
  BY <1>1, <1>5, StopsAt
<1> QED BY <1>4, <1>5 DEF Ready

\* The first rename moves the very directory the plan was made for.
LEMMA MoveSourceStep ==
  ASSUME IInv, NEW w \in Workers, NEW p, p = plan[w], MoveSource(w, p)
  PROVE  IInv'
<1>1. pc[w] = "move" /\ UNCHANGED env /\ pc[w] # "idle"
  BY DEF MoveSource, At
<1>2. p \in Plans /\ Entitled("move", p, held[w], vol, after)
  BY <1>1, AtPlan
<1>3. /\ vol.root # None /\ vol.root.chain \in held[w] /\ vol.root = Source(p)
      /\ vol.cand[p] = "full" /\ Intended(vol, p)
  BY <1>2 DEF Entitled, Holding, Owning, Copied, Admitted
<1>4. CASE Stop(w)
  BY <1>1, <1>4, StopsAt
<1>5. CASE Goto(w, "syncMove") /\ Do([vol EXCEPT !.root = None, !.ret[p] = vol.root])
  <2> DEFINE v == [vol EXCEPT !.root = None, !.ret[p] = vol.root]
  <2>1. v = WithMoved(vol, p)
    BY DEF WithMoved
  <2>2. Do(v)
    BY <1>5
  <2> HIDE DEF v
  <2>3. /\ v \in Volume /\ Sound(v, acked) /\ Preserved(vol, v) /\ Retained(v, p)
        /\ v.rec = vol.rec
    BY <1>2, <1>3, <2>1, Present, MoveIsSound
  <2>4. Follows(v)
    BY <2>3 DEF Follows, Finished
  <2>5. /\ vol' = v /\ \A u \in after' : u \in after \/ u = v
        /\ v \in after' /\ after' = after \cup {v}
    BY <2>2 DEF Do
  <2>6. \A u \in after' : u \in after \/ Follows(u)
    BY <2>4, <2>5
  <2>7. Durable'
    BY <1>1, <2>6, DurableStep DEF env
  <2>8. TypeOK /\ Exclusive /\ \A x \in Workers : AtWork(x)
    BY DEF IInv
  <2>9. /\ pc' = [pc EXCEPT ![w] = "syncMove"] /\ plan' = [plan EXCEPT ![w] = plan[w]]
        /\ held' = [held EXCEPT ![w] = held[w]]
    BY <1>5, <2>8 DEF Goto, TypeOK
  <2>10. /\ \A x \in Workers : x # w => held[w] \cap held[x] = {}
         /\ runtime \notin held[w] /\ held[w] \in SUBSET Chain /\ plan[w] \in Plans \cup {None}
    BY <1>2, <2>8 DEF Exclusive, TypeOK
  <2>11. /\ UNCHANGED <<runtime, plans, verified, acked>> /\ fence' \in BOOLEAN
         /\ answered' \in SUBSET Plans /\ reported' \in SUBSET Plans /\ faults' \in 0..MaxFaults
    BY <1>1, <2>8 DEF env, TypeOK
  <2>12. runtime = None
    BY <1>3, <2>10, <2>8 DEF Exclusive
  <2>13. ASSUME NEW x \in Workers, x # w
         PROVE  pc[x] \notin Holding
    <3>1. pc[x] \in Holding => vol.root.chain \in held[x]
      BY <2>8 DEF AtWork, Entitled
    <3>2. held[w] \cap held[x] = {}
      BY <2>10, <2>13
    <3> QED BY <1>3, <3>1, <3>2
  <2>14. Entitled("syncMove", p, held[w], v, after')
    BY <1>2, <1>3, <2>3 DEF Entitled, Preserved, Holding, Owning, Copied, Admitted, Moved, Ending
  <2>15. after' \in SUBSET Volume /\ "syncMove" \in Steps
    BY <2>3, <2>5, Present, StepNames
  <2>16. \A u \in after' : u \in after \/ Preserved(vol, u)
    BY <2>6 DEF Follows
  <2> QED
    BY <1>2, <2>3, <2>5, <2>7, <2>9, <2>10, <2>11, <2>12, <2>13, <2>14, <2>15, <2>16, WorkerStep
<1> QED BY <1>4, <1>5 DEF MoveSource

LEMMA LockRetainedStep ==
  ASSUME IInv, NEW w \in Workers, NEW p, p = plan[w], LockRetained(w, p)
  PROVE  IInv'
<1>1. pc[w] = "lockRetained" /\ UNCHANGED env /\ pc[w] # "idle"
  BY DEF LockRetained, At
<1>2. p \in Plans /\ Entitled("lockRetained", p, held[w], vol, after)
  BY <1>1, AtPlan
<1>3. "install" \in Steps /\ p.chain \in Chain
  BY <1>2, StepNames, PlanType
<1>4. CASE Free(w, p.chain) /\ Hold(w, p.chain, "install") /\ Same
  <2>1. Entitled("install", p, held[w] \cup {p.chain}, vol, after)
    BY <1>2 DEF Entitled, Holding, Owning, Copied, Admitted, Moved, Ending
  <2> QED BY <1>1, <1>3, <1>4, <2>1, Take
<1>5. CASE Stop(w)
  BY <1>1, <1>5, StopsAt
<1> QED BY <1>4, <1>5 DEF LockRetained

LEMMA InstallStep ==
  ASSUME IInv, NEW w \in Workers, NEW p, p = plan[w], Install(w, p)
  PROVE  IInv'
<1>1. pc[w] = "install" /\ UNCHANGED env /\ pc[w] # "idle"
  BY DEF Install, At
<1>2. p \in Plans /\ Entitled("install", p, held[w], vol, after)
  BY <1>1, AtPlan
<1>3. "swap" \in Steps /\ "final" \in Steps /\ Lineage(p) \in Chain
  BY <1>2, StepNames, LineageType
<1>4. CASE Free(w, Lineage(p)) /\ Hold(w, Lineage(p), "swap") /\ Same
  <2>1. Entitled("swap", p, held[w] \cup {Lineage(p)}, vol, after)
    BY <1>2 DEF Entitled, Holding, Owning, Copied, Admitted, Moved, Ending
  <2> QED BY <1>1, <1>3, <1>4, <2>1, Take
<1>5. CASE Goto(w, "final") /\ Same
  <2>1. Entitled("final", p, held[w], vol, after)
    BY <1>2 DEF Entitled, Holding, Owning, Copied, Admitted, Moved, Ending
  <2> QED BY <1>1, <1>3, <1>5, <2>1, Look
<1>6. CASE Stop(w)
  BY <1>1, <1>6, StopsAt
<1> QED BY <1>4, <1>5, <1>6 DEF Install

\* The second rename: nobody holds the root, since there is none.
LEMMA SwapCandidateStep ==
  ASSUME IInv, NEW w \in Workers, NEW p, p = plan[w], SwapCandidate(w, p)
  PROVE  IInv'
<1>1. pc[w] = "swap" /\ UNCHANGED env /\ pc[w] # "idle"
  BY DEF SwapCandidate, At
<1>2. p \in Plans /\ Entitled("swap", p, held[w], vol, after)
  BY <1>1, AtPlan
<1>3. Retained(vol, p) /\ Intended(vol, p)
  BY <1>2 DEF Entitled, Moved, Admitted
<1>4. CASE Stop(w)
  BY <1>1, <1>4, StopsAt
<1>5. CASE /\ vol.root = None /\ vol.cand[p] = "full"
           /\ Goto(w, "syncSwap") /\ Do([vol EXCEPT !.root = Target(p), !.cand[p] = "none"])
  <2> DEFINE v == [vol EXCEPT !.root = Target(p), !.cand[p] = "none"]
  <2>1. v = WithSwapped(vol, p)
    BY DEF WithSwapped
  <2>2. Do(v)
    BY <1>5
  <2> HIDE DEF v
  <2>3. /\ v \in Volume /\ Sound(v, acked) /\ Preserved(vol, v) /\ v.rec = vol.rec
    BY <1>2, <1>3, <1>5, <2>1, Present, SwapIsSound
  <2>4. Follows(v)
    BY <2>3 DEF Follows, Finished
  <2>5. /\ vol' = v /\ \A u \in after' : u \in after \/ u = v
        /\ v \in after' /\ after' = after \cup {v}
    BY <2>2 DEF Do
  <2>6. \A u \in after' : u \in after \/ Follows(u)
    BY <2>4, <2>5
  <2>7. Durable'
    BY <1>1, <2>6, DurableStep DEF env
  <2>8. TypeOK /\ Exclusive /\ \A x \in Workers : AtWork(x)
    BY DEF IInv
  <2>9. /\ pc' = [pc EXCEPT ![w] = "syncSwap"] /\ plan' = [plan EXCEPT ![w] = plan[w]]
        /\ held' = [held EXCEPT ![w] = held[w]]
    BY <1>5, <2>8 DEF Goto, TypeOK
  <2>10. /\ \A x \in Workers : x # w => held[w] \cap held[x] = {}
         /\ runtime \notin held[w] /\ held[w] \in SUBSET Chain /\ plan[w] \in Plans \cup {None}
    BY <1>2, <2>8 DEF Exclusive, TypeOK
  <2>11. /\ UNCHANGED <<runtime, plans, verified, acked>> /\ fence' \in BOOLEAN
         /\ answered' \in SUBSET Plans /\ reported' \in SUBSET Plans /\ faults' \in 0..MaxFaults
    BY <1>1, <2>8 DEF env, TypeOK
  <2>12. runtime = None
    BY <1>5, <2>8 DEF Exclusive
  <2>13. \A x \in Workers : pc[x] \notin Holding
    BY <1>5, <2>8 DEF AtWork, Entitled
  <2>14. Entitled("syncSwap", p, held[w], v, after')
    BY <1>2, <1>3, <2>3 DEF Entitled, Preserved, Holding, Owning, Copied, Admitted, Moved, Ending
  <2>15. after' \in SUBSET Volume /\ "syncSwap" \in Steps
    BY <2>3, <2>5, Present, StepNames
  <2>16. \A u \in after' : u \in after \/ Preserved(vol, u)
    BY <2>6 DEF Follows
  <2> QED
    BY <1>2, <2>3, <2>5, <2>7, <2>9, <2>10, <2>11, <2>12, <2>13, <2>14, <2>15, <2>16, WorkerStep
<1> QED BY <1>4, <1>5 DEF SwapCandidate, CandidateExact

LEMMA FinalStep ==
  ASSUME IInv, NEW w \in Workers, NEW p, p = plan[w], Final(w, p)
  PROVE  IInv'
<1>1. pc[w] = "final" /\ UNCHANGED env /\ pc[w] # "idle"
  BY DEF Final, At
<1>2. Entitled("final", p, held[w], vol, after)
  BY <1>1, AtPlan
<1>3. /\ OpenAt["result"] = "openResult" /\ "openResult" \in Steps
      /\ Entitled("openResult", p, held[w], vol, after)
  BY <1>2, StepNames DEF Entitled, Holding, Owning, Copied, Admitted, Moved, Ending
<1>4. CASE Goto(w, OpenAt["result"]) /\ Same
  BY <1>1, <1>3, <1>4, Look
<1>5. CASE Stop(w)
  BY <1>1, <1>5, StopsAt
<1> QED BY <1>4, <1>5 DEF Final

\* After a sync the present volume is all a power failure can leave.
LEMMA SyncStep ==
  ASSUME IInv, NEW w \in Workers, Sync(w)
  PROVE  IInv'
<1> DEFINE p == plan[w]
<1>1. /\ pc[w] \in DOMAIN Flushed /\ UNCHANGED env
      /\ Goto(w, Flushed[pc[w]]) /\ DoSync(vol)
  BY DEF Sync
<1>2. pc[w] # "idle"
  BY <1>1, FlushedValues
<1>3. p \in Plans /\ Entitled(pc[w], p, held[w], vol, after)
  BY <1>2, AtPlan
<1>4. Flushed[pc[w]] \in {"intent", "admit", "copy", "install", "final", "release"}
  BY <1>1, FlushedValues
<1>5. /\ Flushed[pc[w]] \in Owning => pc[w] \in Owning
      /\ Flushed[pc[w]] \in Holding => pc[w] \in Holding
      /\ Flushed[pc[w]] \in Moved => pc[w] \in Moved
      /\ Flushed[pc[w]] \in Ending => pc[w] \in Ending
      /\ Flushed[pc[w]] \in Admitted => pc[w] \in Admitted
      /\ Flushed[pc[w]] \notin Copied
  BY <1>1, FlushedValues DEF Holding, Owning, Copied, Admitted, Moved, Ending
<1>6. Entitled(Flushed[pc[w]], p, held[w], vol, after \cup {vol})
  BY <1>3, <1>5, Present DEF Entitled
<1>7. Flushed[pc[w]] \in Steps /\ Follows(vol) /\ Undisturbed(vol, vol)
  BY <1>4, StepNames, Present DEF Undisturbed
<1> QED BY <1>1, <1>2, <1>6, <1>7, Changes

LEMMA ReleaseStep ==
  ASSUME IInv, NEW w \in Workers, Release(w)
  PROVE  IInv'
<1>1. pc[w] = "release" /\ UNCHANGED env /\ pc[w] # "idle" /\ Same
  BY DEF Release, At
<1>2. plan[w] \in Plans /\ Entitled("release", plan[w], held[w], vol, after)
  BY <1>1, AtPlan
<1>3. Entitled("report", plan[w], {}, vol, after) /\ "report" \in Steps
  BY <1>2, StepNames DEF Entitled, Holding, Owning, Copied, Admitted, Moved, Ending
<1>4. TypeOK
  BY DEF IInv
<1>5. /\ pc' = [pc EXCEPT ![w] = "report"] /\ plan' = [plan EXCEPT ![w] = plan[w]]
      /\ held' = [held EXCEPT ![w] = {}]
  BY <1>4 DEF Release, TypeOK
<1>6. /\ vol' = vol /\ after' = after /\ vol \in after /\ vol \in Volume /\ after \in SUBSET Volume
      /\ Undisturbed(vol, vol) /\ Preserved(vol, vol)
  BY <1>1, Present DEF Same, Undisturbed, Preserved
<1>7. Durable'
  BY <1>1, <1>6, DurableStep DEF env
<1>8. /\ UNCHANGED <<runtime, plans, verified, acked>> /\ fence' \in BOOLEAN
      /\ answered' \in SUBSET Plans /\ reported' \in SUBSET Plans /\ faults' \in 0..MaxFaults
  BY <1>1, <1>4 DEF env, TypeOK
<1>9. (\A x \in Workers : x # w => {} \cap held[x] = {}) /\ runtime \notin {} /\ {} \in SUBSET Chain
  OBVIOUS
<1> QED BY <1>2, <1>3, <1>5, <1>6, <1>7, <1>8, <1>9, WorkerStep

\* A reported plan has its source in every volume a power failure may leave.
LEMMA ReportStep ==
  ASSUME IInv, NEW w \in Workers, NEW p, p = plan[w], Report(w, p)
  PROVE  IInv'
<1>1. /\ pc[w] = "report" /\ pc[w] # "idle" /\ Halt(w)
      /\ answered' = answered \cup {p} /\ reported' = reported \cup {p}
      /\ UNCHANGED <<vol, after, runtime, fence, plans, verified, acked, faults>>
  BY DEF Report
<1>2. p \in Plans /\ \A u \in after : Retained(u, p)
  BY <1>1, AtPlan DEF Entitled, Ending
<1>3. Durable'
  BY <1>1, <1>2 DEF IInv, Durable
<1>4. /\ fence' \in BOOLEAN /\ faults' \in 0..MaxFaults
      /\ answered' \in SUBSET Plans /\ reported' \in SUBSET Plans
  BY <1>1, <1>2 DEF IInv, TypeOK
<1> QED BY <1>1, <1>3, <1>4, Ends DEF Same

LEMMA WorkStep ==
  ASSUME IInv, NEW w \in Workers, Work(w)
  PROVE  IInv'
BY MakeJournalStep, CheckIntentStep, OpenRecordStep, FillRecordStep, PublishRecordStep, AdmitStep,
   BranchStep, LockSourceStep, RecheckStep, CopyCandidateStep, LockCandidateStep, ReadyStep,
   MoveSourceStep, LockRetainedStep, InstallStep, SwapCandidateStep, FinalStep, SyncStep,
   ReleaseStep, ReportStep DEF Work

\* Part 5.  The runtime, the host, and failures.

\* A step that touches neither the volume nor a worker.
LEMMA HostStep ==
  ASSUME IInv, UNCHANGED <<vol, after, pc, plan, held, acked, reported>>, TypeOK',
         runtime' = runtime \/ runtime' = None
  PROVE  IInv'
<1>1. Durable'
  BY DurableStep
<1>2. Exclusive'
  <2>1. \A w \in Workers : None \notin held[w]
    BY NoneAssumption DEF IInv, TypeOK
  <2> QED BY <2>1 DEF IInv, Exclusive
<1>3. \A w \in Workers : AtWork(w)'
  BY DEF IInv, AtWork
<1> QED BY <1>1, <1>2, <1>3 DEF IInv

LEMMA PrepareStep ==
  ASSUME IInv, NEW p \in Plans, Prepare(p)
  PROVE  IInv'
BY HostStep DEF IInv, TypeOK, Prepare

LEMMA VerifyStep ==
  ASSUME IInv, NEW p \in Plans, Verify(p)
  PROVE  IInv'
BY HostStep DEF IInv, TypeOK, Verify

LEMMA ObserveStep ==
  ASSUME IInv, Observe
  PROVE  IInv'
BY HostStep DEF IInv, TypeOK, Observe

LEMMA FaultType ==
  ASSUME TypeOK, Fault
  PROVE  faults' \in 0..MaxFaults
BY BoundAssumption DEF TypeOK, Fault

LEMMA ExpireStep ==
  ASSUME IInv, Expire
  PROVE  IInv'
<1>1. TypeOK'
  BY FaultType DEF IInv, TypeOK, Expire
<1> QED BY <1>1, HostStep DEF Expire

LEMMA CrashRuntimeStep ==
  ASSUME IInv, CrashRuntime
  PROVE  IInv'
<1>1. TypeOK'
  BY FaultType DEF IInv, TypeOK, CrashRuntime
<1> QED BY <1>1, HostStep DEF CrashRuntime

LEMMA CrashWorkerStep ==
  ASSUME IInv, NEW w \in Workers, CrashWorker(w)
  PROVE  IInv'
<1>1. faults' \in 0..MaxFaults /\ fence' \in BOOLEAN
  BY FaultType DEF IInv, TypeOK, CrashWorker
<1> QED BY <1>1, Stops DEF CrashWorker

LEMMA EnterStep ==
  ASSUME IInv, NEW w \in Workers, NEW p \in Plans, Enter(w, p)
  PROVE  IInv'
<1>1. /\ pc' = [pc EXCEPT ![w] = "journal"] /\ plan' = [plan EXCEPT ![w] = p]
      /\ UNCHANGED <<vol, after, held, env>>
  BY DEF Enter
<1>2. TypeOK /\ Exclusive
  BY DEF IInv
<1>3. held' = [held EXCEPT ![w] = held[w]] /\ held[w] \in SUBSET Chain
  BY <1>1, <1>2 DEF TypeOK
<1>4. /\ vol' = vol /\ after' = after /\ vol \in after /\ vol \in Volume /\ after \in SUBSET Volume
      /\ Undisturbed(vol, vol) /\ Preserved(vol, vol)
  BY <1>1, Present DEF Undisturbed, Preserved
<1>5. Durable'
  BY <1>1, <1>4, DurableStep DEF env
<1>6. Entitled("journal", p, held[w], vol, after)
  BY DEF Entitled, Holding, Owning, Copied, Admitted, Moved, Ending
<1>7. /\ UNCHANGED <<runtime, plans, verified, acked>> /\ fence' \in BOOLEAN
      /\ answered' \in SUBSET Plans /\ reported' \in SUBSET Plans /\ faults' \in 0..MaxFaults
  BY <1>1, <1>2 DEF env, TypeOK
<1>8. /\ \A x \in Workers : x # w => held[w] \cap held[x] = {}
      /\ runtime \notin held[w]
  BY <1>2 DEF Exclusive
<1>9. "journal" \in Steps /\ p \in Plans \cup {None}
  BY StepNames
<1>10. /\ vol' \in Volume /\ after' \in SUBSET Volume /\ vol' \in after'
       /\ Undisturbed(vol, vol') /\ Preserved(vol, vol')
       /\ \A v \in after' : v \in after \/ Preserved(vol, v)
       /\ Entitled("journal", p, held[w], vol', after')
  BY <1>4, <1>6
<1> QED BY <1>1, <1>3, <1>5, <1>7, <1>8, <1>9, <1>10, WorkerStep

\* A change of the root that no worker holds disturbs no worker.
LEMMA RootStep ==
  ASSUME IInv, UNCHANGED <<pc, plan, held, reported>>, TypeOK', Durable', Exclusive',
         Preserved(vol, vol'), \A v \in after' : v \in after \/ Preserved(vol, v),
         \A w \in Workers : vol.root.chain \notin held[w]
  PROVE  IInv'
<1>1. ASSUME NEW w \in Workers
      PROVE  AtWork(w)'
  <2>1. pc[w] \notin Holding
    BY DEF IInv, AtWork, Entitled
  <2> QED BY <2>1, OthersStep
<1> QED BY <1>1 DEF IInv

LEMMA StartRuntimeStep ==
  ASSUME IInv, StartRuntime
  PROVE  IInv'
<1> DEFINE v == Edit(vol.root.chain, TRUE, 0)
<1>1. /\ vol.root # None /\ \A w \in Workers : vol.root.chain \notin held[w]
      /\ runtime' = vol.root.chain /\ Do(v)
      /\ UNCHANGED <<pc, plan, held, fence, plans, verified, answered, reported, acked, faults>>
  BY DEF StartRuntime
<1>2. TypeOK /\ Exclusive /\ acked \in 0..MaxEvents /\ acked + 0 = acked
  BY BoundAssumption DEF IInv, TypeOK
<1>3. acked + 0 \in 0..MaxEvents /\ 0 \in 0..1 /\ TRUE \in BOOLEAN
  BY <1>2
<1>4. /\ v \in Volume /\ Sound(v, acked + 0) /\ Preserved(vol, v)
      /\ v.root # None /\ v.root.chain = vol.root.chain
      /\ v.ret = vol.ret /\ v.cand = vol.cand /\ v.rec = vol.rec
  BY <1>1, <1>2, <1>3, Present, EditIsSound
<1> HIDE DEF v
<1>5. Follows(v)
  BY <1>2, <1>4 DEF Follows, Finished
<1>6. vol' = v /\ after' = after \cup {v}
  BY <1>1 DEF Do
<1>7. \A u \in after' : u \in after \/ Follows(u)
  BY <1>5, <1>6
<1>8. Durable'
  BY <1>1, <1>7, DurableStep
<1>9. vol.root.chain \in Chain
  BY <1>1, Present, VolumeType DEF Dir
<1>10. TypeOK'
  BY <1>1, <1>2, <1>4, <1>6, <1>9 DEF TypeOK
<1>11. Exclusive'
  BY <1>1, <1>2, <1>4, <1>6 DEF Exclusive
<1>12. Preserved(vol, vol') /\ \A u \in after' : u \in after \/ Preserved(vol, u)
  BY <1>4, <1>6, <1>7 DEF Follows
<1> QED BY <1>1, <1>8, <1>10, <1>11, <1>12, RootStep

\* What the runtime flushes is all that a power failure can leave.
LEMMA FlushedEdit ==
  ASSUME IInv, runtime # None, NEW open \in BOOLEAN, NEW k \in 0..1, acked + k \in 0..MaxEvents,
         DoSync(Edit(runtime, open, k)), acked' = acked + k, runtime' \in {runtime, None},
         UNCHANGED <<pc, plan, held, fence, plans, verified, answered, reported, faults>>
  PROVE  IInv'
<1> DEFINE v == Edit(vol.root.chain, open, k)
<1>1. TypeOK /\ Exclusive /\ acked \in 0..MaxEvents
  BY DEF IInv, TypeOK
<1>2. vol.root # None /\ vol.root.chain = runtime
  BY <1>1 DEF Exclusive
<1>3. \A w \in Workers : vol.root.chain \notin held[w]
  BY <1>1, <1>2 DEF Exclusive
<1>4. /\ v \in Volume /\ Sound(v, acked + k) /\ Preserved(vol, v)
      /\ v.root # None /\ v.root.chain = vol.root.chain
      /\ v.ret = vol.ret /\ v.cand = vol.cand /\ v.rec = vol.rec
  BY <1>1, <1>2, Present, EditIsSound
<1>5. vol' = v /\ after' = {v}
  BY <1>2 DEF DoSync
<1> HIDE DEF v
<1>6. \A q \in Plans : Finished(v, q) => Retained(v, q)
  BY <1>4, Present DEF IInv, Durable, Preserved, Finished
<1>7. \A q \in reported : Retained(v, q)
  BY <1>4, Present DEF IInv, Durable, TypeOK, Preserved
<1>8. Durable'
  BY <1>4, <1>5, <1>6, <1>7 DEF Durable
<1>9. TypeOK'
  BY <1>1, <1>4, <1>5 DEF TypeOK
<1>10. \A w \in Workers : None \notin held[w]
  BY <1>1, NoneAssumption DEF TypeOK
<1>11. Exclusive'
  BY <1>1, <1>2, <1>4, <1>5, <1>10 DEF Exclusive
<1>12. Preserved(vol, vol') /\ \A u \in after' : u \in after \/ Preserved(vol, u)
  BY <1>4, <1>5
<1> QED BY <1>3, <1>8, <1>9, <1>11, <1>12, RootStep

LEMMA WriteEventStep ==
  ASSUME IInv, WriteEvent
  PROVE  IInv'
<1>1. acked \in 0..MaxEvents
  BY DEF IInv, TypeOK
<1>2. acked + 1 \in 0..MaxEvents /\ 1 \in 0..1 /\ TRUE \in BOOLEAN
  BY <1>1, BoundAssumption DEF WriteEvent
<1> QED BY <1>2, FlushedEdit DEF WriteEvent

LEMMA SealRuntimeStep ==
  ASSUME IInv, SealRuntime
  PROVE  IInv'
<1>1. acked \in 0..MaxEvents
  BY DEF IInv, TypeOK
<1>2. acked + 0 \in 0..MaxEvents /\ 0 \in 0..1 /\ FALSE \in BOOLEAN /\ acked + 0 = acked
  BY <1>1, BoundAssumption
<1> QED BY <1>2, FlushedEdit DEF SealRuntime

\* Whatever the failure leaves was sound already, and no process counts on more.
LEMMA PowerFailureStep ==
  ASSUME IInv, PowerFailure
  PROVE  IInv'
<1>1. PICK v \in after : vol' = v /\ after' = {v}
  BY DEF PowerFailure
<1>2. /\ pc' = [w \in Workers |-> "idle"] /\ plan' = [w \in Workers |-> None]
      /\ held' = [w \in Workers |-> {}] /\ runtime' = None /\ fence' = FALSE
      /\ verified' = {} /\ answered' = {}
      /\ UNCHANGED <<plans, reported, acked>> /\ Fault
  BY DEF PowerFailure
<1>3. TypeOK /\ "idle" \in Steps
  BY StepNames DEF IInv
<1>4. faults' \in 0..MaxFaults
  BY <1>2, <1>3, FaultType
<1>5. TypeOK'
  BY <1>1, <1>2, <1>3, <1>4 DEF TypeOK
<1>6. Durable'
  BY <1>1, <1>2 DEF IInv, Durable
<1>7. Exclusive'
  BY <1>2 DEF Exclusive
<1>8. ASSUME NEW w \in Workers
      PROVE  AtWork(w)'
  <2>1. pc'[w] = "idle"
    BY <1>2
  <2> QED BY <2>1 DEF AtWork, Entitled, Holding, Owning, Copied, Admitted, Moved, Ending
<1> QED BY <1>5, <1>6, <1>7, <1>8 DEF IInv

LEMMA InitIInv ==
  ASSUME Init
  PROVE  IInv
<1> DEFINE d == [chain |-> <<>>, ev |-> 0, open |-> FALSE]
<1>1. <<>> \in Chain /\ Len(<<>>) = 0
  <2>1. <<>> \in [1..0 -> Link] /\ 0 \in 0..MaxUpgrades
    BY BoundAssumption
  <2> QED BY <2>1 DEF Chain
<1>2. d \in Dir /\ d # None /\ d.chain = <<>> /\ d.ev = 0
  <2>1. 0 \in 0..MaxEvents
    BY BoundAssumption
  <2>2. d \in Dir
    BY <1>1, <2>1 DEF Dir
  <2>3. None \notin Dir
    BY NoneAssumption
  <2> QED BY <2>2, <2>3
<1>3. /\ vol.root = d /\ vol.made = {} /\ vol.cand = [p \in Plans |-> "none"]
      /\ vol.ret = [p \in Plans |-> None]
      /\ vol.rec = [k \in Kinds |-> [p \in Plans |-> [pend |-> None, path |-> None]]]
      /\ vol = [root |-> vol.root, made |-> vol.made, cand |-> vol.cand, ret |-> vol.ret, rec |-> vol.rec]
  BY DEF Init
<1> HIDE DEF d
<1>4. vol \in Volume
  <2>1. vol.cand \in [Plans -> {"none", "partial", "full"}] /\ vol.ret \in [Plans -> Dir \cup {None}]
    BY <1>3
  <2>2. [pend |-> None, path |-> None] \in Record
    BY DEF Record
  <2>3. vol.rec \in [Kinds -> [Plans -> Record]]
    BY <1>3, <2>2
  <2> QED BY <1>2, <1>3, <2>1, <2>3 DEF Volume
<1>5. /\ after = {vol} /\ pc = [w \in Workers |-> "idle"] /\ plan = [w \in Workers |-> None]
      /\ held = [w \in Workers |-> {}] /\ runtime = None /\ fence = FALSE
      /\ plans = {} /\ verified = {} /\ answered = {} /\ reported = {} /\ acked = 0 /\ faults = 0
  BY DEF Init
<1>6. TypeOK
  <2>1. 0 \in 0..MaxEvents /\ 0 \in 0..MaxFaults /\ "idle" \in Steps
    BY BoundAssumption, StepNames
  <2> QED BY <1>4, <1>5, <2>1 DEF TypeOK
<1>7. \A p \in Plans : ~Retained(vol, p) /\ ~Finished(vol, p)
  BY <1>3, NoneAssumption, KindsType DEF Retained, Finished
<1>8. Orderly(vol)
  BY <1>3 DEF Orderly
<1>9. Rooted(vol, acked)
  BY <1>1, <1>2, <1>3, <1>5, <1>7 DEF Rooted, Grown
<1>10. Durable
  BY <1>2, <1>3, <1>5, <1>7, <1>8, <1>9 DEF Durable, Sound
<1>11. Exclusive
  BY <1>5 DEF Exclusive
<1>12. \A w \in Workers : AtWork(w)
  BY <1>5 DEF AtWork, Entitled, Holding, Owning, Copied, Admitted, Moved, Ending
<1> QED BY <1>6, <1>10, <1>11, <1>12 DEF IInv

\* Part 6.  The theorems.

LEMMA NextIInv ==
  ASSUME IInv, [Next]_vars
  PROVE  IInv'
<1>1. CASE Next
  BY <1>1, PrepareStep, VerifyStep, WorkStep, CrashWorkerStep, EnterStep, StartRuntimeStep,
     WriteEventStep, SealRuntimeStep, CrashRuntimeStep, ObserveStep, ExpireStep, PowerFailureStep
     DEF Next
<1>2. CASE UNCHANGED vars
  <2>1. TypeOK'
    BY <1>2 DEF vars, IInv, TypeOK
  <2> QED BY <1>2, <2>1, HostStep DEF vars
<1> QED BY <1>1, <1>2

LEMMA AlwaysIInv == Spec => []IInv
BY InitIInv, NextIInv, PTL DEF Spec

\* Every reachable state is well typed: no lineage grows past the bound, every
\* worker is at a step of activateCaseRuntimeUpgrade with a plan of its own.
THEOREM UpgradeTypes == Spec => []TypeOK
<1>1. IInv => TypeOK
  BY DEF IInv
<1> QED BY <1>1, AlwaysIInv, PTL

LEMMA SoundIsWhole ==
  ASSUME NEW v \in after, Sound(v, acked)
  PROVE  Whole(v)
BY DEF Sound, Rooted, Moving, Whole, Intended

\* Whichever workers, runtimes, crashes and power failures meet, the volume has a
\* root with every acknowledged Case event, or a complete intent, the exact
\* retained source with all of them and a whole candidate to go on with.
THEOREM NoEventIsLost == Spec => []NothingLost
<1>1. IInv => NothingLost
  BY SoundIsWhole DEF IInv, Durable, NothingLost
<1> QED BY <1>1, AlwaysIInv, PTL

LEMMA SoundStands ==
  ASSUME IInv
  PROVE  UpgradesStand
<1>1. ASSUME NEW v \in after, v.root # None, NEW i \in 1..Len(v.root.chain)
      PROVE  \E p \in Plans : /\ Lineage(p) = SubSeq(v.root.chain, 1, i)
                              /\ v.ret[p] = Source(p) /\ v.rec["intent"][p].path = "whole"
  BY <1>1 DEF IInv, Durable, Sound, Rooted, Grown, Intended
<1>2. ASSUME NEW p \in reported, NEW v \in after
      PROVE  /\ v.ret[p] = Source(p)
             /\ v.root # None => /\ Len(v.root.chain) > Len(p.chain)
                                 /\ SubSeq(v.root.chain, 1, Len(p.chain) + 1) = Lineage(p)
  <2>1. p \in Plans /\ Retained(v, p) /\ Sound(v, acked)
    BY DEF IInv, TypeOK, Durable
  <2>2. v.ret[p] = Source(p)
    BY <2>1 DEF Sound, Orderly, Retained
  <2>3. v.root # None => On(p, v.root.chain)
    BY <2>1 DEF Sound, Rooted
  <2> QED BY <2>2, <2>3 DEF On
<1>3. LineageRetained
  BY <1>1 DEF LineageRetained
<1>4. NeverRolledBack
  BY <1>2 DEF NeverRolledBack
<1> QED BY <1>3, <1>4 DEF UpgradesStand

\* Every upgrade on the root's lineage keeps its source and its intent, and an
\* upgrade a worker answered for is never taken back, by a failure or by a plan.
THEOREM EveryUpgradeStands == Spec => []UpgradesStand
BY SoundStands, AlwaysIInv, PTL
=============================================================================
