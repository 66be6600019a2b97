----------------------- MODULE WorkbenchHandoverProofs -----------------------
\* Theorems about WorkbenchHandover: its types, the truth of its two files
\* at any moment a process may die, the order of a rollback, and that a
\* durable receipt is the last word.
EXTENDS WorkbenchHandover, TLAPS

\* Where the process stands, or will stand once its journal is durable.
Due(m) == IF m.pc = "save" THEN m.cont ELSE m.pc

\* The places a commit of the journal leads to.
Conts == {"post", "strip", "unmark", "create", "adopt", "receipt", "end", "suspending",
          "restoring", "owned", "rreceipt", "rediscover", "remark"}

Open == {"in-progress", "finalizing"}
Unsettled == Open \cup {"rollback-finalizing"}
Terminal == {"completed"} \cup RollbackStatuses

Agree(a, b) == a \in Complete <=> b \in Complete

\* The journal j knows of a creation of object n.
Noted(j, n) == j.recs[n] # None \/ j.create[n] = "open"

\* j knows whatever jr knows.
Carries(jr, j) ==
  \A n \in Objs : /\ jr.recs[n] # None => j.recs[n] # None
                  /\ Noted(jr, n) => Noted(j, n)

WellKept(j) ==
  /\ \A n \in Objs : j.recs[n] # None => j.recs[n].uid = "ours"
  /\ j.status = "rollback-finalizing" => j.rollback # "none"

\* The two files.
Filed(jr, rc) ==
  /\ jr \in Journals \cup {None} /\ rc \in Receipts
  /\ IF jr = None THEN rc \in {None, "blocked"} ELSE rc # "blocked" /\ WellKept(jr)
  /\ rc = "completed" => jr.status \in {"finalizing", "completed"}
  /\ rc \in RollbackStatuses => /\ jr.status \in {"rollback-finalizing", rc}
                                /\ jr.rollback \in RollbackStatuses
                                /\ Agree(jr.rollback, rc)
  /\ jr # None /\ jr.status \in Terminal => rc = jr.status

Placed(m) ==
  /\ Due(m) \in {"create", "post", "bind", "look", "strip", "unmark", "unmarked", "relook",
                 "rediscover", "remark", "owned", "deleting", "waiting"} => m.at \in Objs
  /\ Due(m) = "classify" => m.at = Kust
  /\ Due(m) = "bind" => m.answer # None /\ m.answer.uid = "ours"
  /\ Due(m) = "post" => m.j.create[m.at] = "open"
  /\ Due(m) = "owned" => m.j.recs[m.at] # None
  /\ Due(m) \in {"adopt", "activate", "unsuspend"} => m.j.recs[Kust] # None

\* A run that has no journal yet.
Beginning(m, jr, rc) ==
  Due(m) \in {"preflight", "reserve"} => jr = None /\ rc = None /\ m.j = FreshJournal

\* The memory against the journal file.
Backed(m, jr) ==
  /\ Due(m) \notin {"idle", "preflight", "reserve"} => jr # None /\ Carries(jr, m.j)
  /\ m.pc \in Guarded => jr = m.j

\* A run, or a recovery that looks around, is under an open journal.
Running(m, jr, rc) ==
  /\ Due(m) \in Guarded \cup Discovering =>
       rc = None /\ jr.status \in Open /\ m.j.status \in Open
  /\ Due(m) = "receipt" => m.j.status = "finalizing"

Undoing(m, jr, rc) ==
  Due(m) \in RollingBack => rc = None /\ jr.status \in Unsettled /\ m.j.status \in Unsettled

Reporting(m, jr, rc) ==
  /\ Due(m) \in {"prepare", "rreceipt", "rebuild"} =>
       /\ rc = None /\ jr.status \in Unsettled /\ m.j.status = "rollback-finalizing"
       /\ m.claim \in RollbackStatuses /\ m.j.rollback \in RollbackStatuses
       /\ Agree(m.claim, m.j.rollback)
  /\ m.pc \in {"rreceipt", "rebuild", "rfinal", "finish"} => jr = m.j
  /\ Due(m) = "rfinal" => rc = m.claim /\ rc \in RollbackStatuses
  /\ Due(m) = "finish" => rc = "completed"
  /\ Due(m) = "end" => /\ rc = m.j.status /\ rc \in Terminal
                       /\ rc \in RollbackStatuses => m.j.rollback = rc
                       /\ m.j.recs = jr.recs /\ m.j.create = jr.create

Fit(m, jr, rc) ==
  /\ m \in Memory /\ Filed(jr, rc) /\ WellKept(m.j)
  /\ m.pc = "save" => m.cont \in Conts
  /\ Placed(m) /\ Beginning(m, jr, rc) /\ Backed(m, jr)
  /\ Running(m, jr, rc) /\ Undoing(m, jr, rc) /\ Reporting(m, jr, rc)

OursIn(lv, n) == lv[n] # None /\ lv[n].uid = "ours"

\* The cluster against the journal file.
Ahead(lv, jr) ==
  /\ lv \in [Objs -> Objects \cup {None}]
  /\ \A n \in Objs :
       /\ lv[n] # None /\ lv[n].mark => lv[n].uid = "ours"
       /\ OursIn(lv, n) => jr # None /\ Noted(jr, n)
  /\ lv[Kust] # None /\ ~lv[Kust].susp => jr # None /\ jr.recs[Kust] # None

Halted(lv) == lv[Kust] = None \/ lv[Kust].susp

\* What the rollback has seen of the cluster is still so.
Sees(m, lv) ==
  /\ Due(m) \in {"restore", "restoring"} => Halted(lv)
  /\ Due(m) \in RollingBack /\ m.gone /\ m.j.recs[Kust] # None => ~OursIn(lv, Kust)
  /\ Due(m) \in {"owned", "deleting", "waiting"} /\ m.at # Kust => m.gone
  /\ m.pc = "deleting" =>
       /\ m.answer # None /\ m.answer.uid = "ours" /\ m.answer.exact
       /\ OursIn(lv, m.at) => /\ lv[m.at].rv >= m.answer.rv
                              /\ lv[m.at].rv = m.answer.rv => lv[m.at].exact

Undone(lv, p, j) ==
  p.state = "before" /\ \A n \in Objs : j.recs[n] # None => lv[n] = None

\* A claim that everything is undone is true while nobody else writes.
Claims(m, lv, p, jr, rc, f) ==
  f = 0 =>
    /\ Due(m) = "rreceipt" /\ m.claim \in Complete => Undone(lv, p, m.j)
    /\ rc \in Complete => Undone(lv, p, jr)

HandoverInv ==
  /\ np \in Policies /\ faults \in Nat /\ foreign \in Nat
  /\ Fit(proc, journal, receipt)
  /\ Ahead(live, journal)
  /\ Sees(proc, live)
  /\ Claims(proc, live, np, journal, receipt, foreign)

-----
\* Constants and values

LEMMA Names ==
  /\ Kust \in Objs /\ 1 \in Objs /\ N \in Nat /\ N \in 0 .. N /\ 0 \in 0 .. N
  /\ \A n \in Objs : n \in 0 .. N /\ n \in Nat /\ n - 1 \in 0 .. N
                     /\ (n < N => n + 1 \in Objs)
BY HandoverConstants DEF Objs, Kust

LEMMA NoneIsNothing ==
  /\ \A o \in Objects : o # None
  /\ \A r \in Records : r # None
  /\ \A j \in Journals : j # None
  /\ \A s \in {"blocked", "completed"} \cup RollbackStatuses : s # None
BY NoneIsApart

LEMMA FreshIsEmpty ==
  /\ FreshJournal \in Journals /\ WellKept(FreshJournal)
  /\ FreshJournal.status = "in-progress"
  /\ \A n \in Objs : FreshJournal.recs[n] = None /\ FreshJournal.create[n] = "none"
BY DEF FreshJournal, Journals, Stages, WellKept

LEMMA IdleMemory == NoProcess \in Memory
BY FreshIsEmpty, Names DEF NoProcess, Memory, PCs, Receipts

\* What a process knows before it has read anything fits any two files.
LEMMA FitIdle ==
  ASSUME NEW jr, NEW rc, Filed(jr, rc)
  PROVE  Fit(NoProcess, jr, rc)
<1>1. NoProcess \in Memory
  BY IdleMemory
<1>2. NoProcess.pc = "idle" /\ Due(NoProcess) = "idle" /\ NoProcess.j = FreshJournal
  BY DEF NoProcess, Due
<1> QED BY <1>1, <1>2, FreshIsEmpty
  DEF Fit, Placed, Beginning, Backed, Running, Undoing, Reporting, Guarded, Discovering,
      RollingBack, Suspending, Restoring, Deleting

\* A rollback that starts from a journal j which knows whatever the file knows.
LEMMA FitRollback ==
  ASSUME NEW j \in Journals, NEW jr \in Journals, NEW r \in BOOLEAN, NEW a \in BOOLEAN,
         proc \in Memory, WellKept(j), Carries(jr, j), Filed(jr, None),
         j.status \in Unsettled, jr.status \in Unsettled
  PROVE  /\ Fit(Rollback(j, r, a), jr, None)
         /\ Due(Rollback(j, r, a)) = "suspend" /\ Rollback(j, r, a).pc = "suspend"
         /\ Rollback(j, r, a).gone = (j.recs[Kust] = None) /\ Rollback(j, r, a).j = j
<1> DEFINE m == Rollback(j, r, a)
<1>1. m \in Memory
  <2> DEFINE g == j.recs[Kust] = None
  <2>1. proc.stale \in BOOLEAN /\ g \in BOOLEAN
    BY DEF Memory
  <2>2. m = [NoProcess EXCEPT !.pc = "suspend", !.j = j, !.recovered = r, !.active = a,
                             !.gone = g, !.stale = proc.stale]
    BY DEF Rollback
  <2>3. "suspend" \in PCs /\ "idle" \in PCs
    BY DEF PCs, RollingBack, Suspending
  <2>4. 0 \in 0..N /\ None \in Receipts
    <3>1. NoProcess.at = 0 /\ NoProcess.claim = None
      BY DEF NoProcess
    <3>2. NoProcess.at \in 0..N /\ NoProcess.claim \in Receipts
      BY IdleMemory DEF Memory
    <3> QED BY <3>1, <3>2
  <2> HIDE DEF m, g
  <2>5. m = [pc |-> "suspend", cont |-> "idle", at |-> 0, j |-> j, nprv |-> 0,
             answer |-> None, retry |-> FALSE, recovered |-> r, active |-> a, gone |-> g,
             pend |-> FALSE, err |-> FALSE, claim |-> None, stale |-> proc.stale]
    BY <2>2 DEF NoProcess
  <2> QED BY <2>1, <2>3, <2>4, <2>5 DEF Memory
<1>2. /\ m.pc = "suspend" /\ Due(m) = "suspend" /\ m.j = j
      /\ m.gone = (j.recs[Kust] = None)
  BY DEF Rollback, NoProcess, Due
<1> HIDE DEF m
<1>3. Fit(m, jr, None)
  BY <1>1, <1>2, NoneIsNothing
  DEF Fit, Placed, Beginning, Backed, Running, Undoing, Reporting, Guarded, Discovering,
      RollingBack, Suspending, Restoring, Deleting
<1> QED BY <1>2, <1>3 DEF m

-----
\* What a process does when a step of it raises

\* A memory that suits the files and the cluster, and claims nothing of it.
Suits(m, lv, jr, rc) ==
  /\ Fit(m, jr, rc) /\ Sees(m, lv)
  /\ Due(m) = "rreceipt" => m.claim \in Incomplete

LEMMA IdleSuits ==
  ASSUME NEW lv, NEW jr, NEW rc, Filed(jr, rc)
  PROVE  Suits(NoProcess, lv, jr, rc)
<1>1. NoProcess.pc = "idle" /\ Due(NoProcess) = "idle"
  BY DEF NoProcess, Due
<1> QED BY <1>1, FitIdle
  DEF Suits, Sees, RollingBack, Suspending, Restoring, Deleting

LEMMA RollbackSuits ==
  ASSUME NEW lv, NEW j \in Journals, NEW jr \in Journals, NEW r \in BOOLEAN, NEW a \in BOOLEAN,
         proc \in Memory, WellKept(j), Carries(jr, j), Filed(jr, None),
         j.status \in Unsettled, jr.status \in Unsettled
  PROVE  Suits(Rollback(j, r, a), lv, jr, None)
<1> DEFINE m == Rollback(j, r, a)
<1>1. /\ Fit(m, jr, None) /\ Due(m) = "suspend" /\ m.pc = "suspend"
      /\ m.gone = (j.recs[Kust] = None) /\ m.j = j
  BY FitRollback
<1> HIDE DEF m
<1>2. Sees(m, lv)
  BY <1>1 DEF Sees
<1>3. Suits(m, lv, jr, None)
  BY <1>1, <1>2 DEF Suits
<1> QED BY <1>3 DEF m

LEMMA AbortSuits ==
  ASSUME NEW lv, NEW jr, NEW rc, proc \in Memory, jr # None, WellKept(proc.j),
         Carries(jr, proc.j), Filed(jr, rc), rc \in {None, "completed"},
         proc.j.status \in Open, jr.status \in Open
  PROVE  Suits(Abort(proc.j, rc), lv, jr, rc)
<1>1. proc.j \in Journals /\ jr \in Journals
  BY DEF Memory, Filed
<1>2. CASE rc = "completed"
  BY <1>2, IdleSuits DEF Abort
<1>3. CASE rc = None
  <2>1. rc # "completed"
    BY <1>3, NoneIsNothing
  <2> QED BY <1>1, <1>3, <2>1, RollbackSuits DEF Abort, Open, Unsettled
<1> QED BY <1>2, <1>3

LEMMA UnprovenSuits ==
  ASSUME NEW lv, NEW jr, NEW rc, Fit(proc, jr, rc), Sees(proc, lv), Due(proc) \in RollingBack
  PROVE  Suits(Unproven, lv, jr, rc)
<1> DEFINE m == Unproven
<1>1. proc \in Memory
  BY DEF Fit
<1>2. m \in Memory
  BY <1>1 DEF Unproven, Memory, PCs, RollingBack
<1>3. /\ m.pc = "settle" /\ Due(m) = "settle" /\ m.j = proc.j /\ m.gone = proc.gone
  BY <1>1 DEF Unproven, Memory, Due
<1> HIDE DEF m
<1>4. Fit(m, jr, rc)
  BY <1>2, <1>3
  DEF Fit, Placed, Beginning, Backed, Running, Undoing, Reporting, Guarded, Discovering,
      RollingBack, Suspending, Restoring, Deleting
<1>5. Sees(m, lv)
  BY <1>3 DEF Sees, RollingBack
<1> QED BY <1>3, <1>4, <1>5 DEF Suits, m

LEMMA UnrestoredSuits ==
  ASSUME NEW lv, NEW jr, NEW rc, Fit(proc, jr, rc), Sees(proc, lv), Due(proc) \in RollingBack
  PROVE  Suits(Unrestored, lv, jr, rc)
<1> DEFINE m == Unrestored
<1>1. proc \in Memory
  BY DEF Fit
<1>2. m \in Memory
  BY <1>1, Names DEF Unrestored, Memory, PCs, RollingBack, Deleting
<1>3. /\ m.pc = "delete" /\ Due(m) = "delete" /\ m.j = proc.j /\ m.gone = proc.gone
  BY <1>1 DEF Unrestored, Memory, Due
<1> HIDE DEF m
<1>4. Fit(m, jr, rc)
  BY <1>2, <1>3
  DEF Fit, Placed, Beginning, Backed, Running, Undoing, Reporting, Guarded, Discovering,
      RollingBack, Suspending, Restoring, Deleting
<1>5. Sees(m, lv)
  BY <1>3 DEF Sees, RollingBack, Deleting
<1> QED BY <1>3, <1>4, <1>5 DEF Suits, m

LEMMA UndeletedSuits ==
  ASSUME NEW lv, NEW jr, NEW rc, Fit(proc, jr, rc), Sees(proc, lv), Due(proc) \in RollingBack,
         proc.at \in Objs
  PROVE  Suits(Undeleted, lv, jr, rc)
<1> DEFINE m == Undeleted
<1>1. proc \in Memory
  BY DEF Fit
<1>2. CASE proc.at = Kust
  <2>1. m = [proc EXCEPT !.err = TRUE, !.gone = FALSE, !.pc = "settle"]
    BY <1>2 DEF Undeleted
  <2>2. m \in Memory
    BY <1>1, <2>1 DEF Memory, PCs, RollingBack
  <2>3. /\ m.pc = "settle" /\ Due(m) = "settle" /\ m.j = proc.j /\ m.gone = FALSE
    BY <1>1, <2>1 DEF Memory, Due
  <2> HIDE DEF m
  <2>4. Fit(m, jr, rc)
    BY <2>2, <2>3
    DEF Fit, Placed, Beginning, Backed, Running, Undoing, Reporting, Guarded, Discovering,
        RollingBack, Suspending, Restoring, Deleting
  <2>5. Sees(m, lv)
    BY <2>3 DEF Sees, RollingBack
  <2> QED BY <2>3, <2>4, <2>5 DEF Suits, m
<1>3. CASE proc.at # Kust
  <2>1. m = [proc EXCEPT !.err = TRUE, !.at = proc.at - 1, !.pc = "delete"]
    BY <1>3 DEF Undeleted
  <2>2. m \in Memory
    BY <1>1, <2>1, Names DEF Memory, PCs, RollingBack, Deleting
  <2>3. /\ m.pc = "delete" /\ Due(m) = "delete" /\ m.j = proc.j /\ m.gone = proc.gone
    BY <1>1, <2>1 DEF Memory, Due
  <2> HIDE DEF m
  <2>4. Fit(m, jr, rc)
    BY <2>2, <2>3
    DEF Fit, Placed, Beginning, Backed, Running, Undoing, Reporting, Guarded, Discovering,
        RollingBack, Suspending, Restoring, Deleting
  <2>5. Sees(m, lv)
    BY <2>3 DEF Sees, RollingBack, Deleting
  <2> QED BY <2>3, <2>4, <2>5 DEF Suits, m
<1> QED BY <1>2, <1>3

LEMMA NamedIs ==
  ASSUME NEW r \in BOOLEAN
  PROVE  /\ \A i \in BOOLEAN : Named(r, i) \in RollbackStatuses
         /\ Named(r, TRUE) \in Incomplete /\ Named(r, FALSE) \in Complete
BY DEF Named, RollbackStatuses, Complete, Incomplete

LEMMA Kinds2 ==
  /\ Complete \cap Incomplete = {}
  /\ RollbackStatuses = Complete \cup Incomplete
  /\ RollbackStatuses \subseteq Receipts
  /\ \A s \in RollbackStatuses : s # "completed" /\ s # "blocked" /\ s \notin Unsettled
                                 /\ s # "none" /\ s # "pending" /\ s # None
BY NoneIsNothing DEF Complete, Incomplete, RollbackStatuses, Unsettled, Open, Receipts

LEMMA UnverifiedSuits ==
  ASSUME NEW lv, NEW jr, NEW rc, Fit(proc, jr, rc), Due(proc) = "prepare"
  PROVE  Suits(Unverified, lv, jr, rc)
<1>0. proc \in Memory /\ proc.claim \in RollbackStatuses /\ proc.j \in Journals
  BY DEF Fit, Reporting, Memory
<1>1. CASE proc.claim \in Complete
  <2> DEFINE c == Named(proc.claim = "recovered-rolled-back", TRUE)
             j == [proc.j EXCEPT !.rollback = c]
             m == Unverified
  <2>1. c \in Incomplete /\ c \in RollbackStatuses /\ c \in Receipts
    BY NamedIs, Kinds2 DEF Named, Incomplete
  <2>2. m = [proc EXCEPT !.claim = c, !.j.rollback = c, !.pc = "save", !.cont = "rreceipt"]
    BY <1>1 DEF Unverified
  <2>3. /\ j \in Journals /\ j.recs = proc.j.recs /\ j.create = proc.j.create
        /\ j.status = proc.j.status /\ j.rollback = c
    BY <1>0, <2>1 DEF Journals
  <2>4. m = [proc EXCEPT !.claim = c, !.j = j, !.pc = "save", !.cont = "rreceipt"]
    BY <1>0, <2>2 DEF Memory
  <2> HIDE DEF c, j, m
  <2>5. m \in Memory
    BY <1>0, <2>1, <2>3, <2>4 DEF Memory, PCs, Concluding
  <2>6. m.pc = "save" /\ m.cont = "rreceipt" /\ Due(m) = "rreceipt" /\ m.j = j /\ m.claim = c
    BY <1>0, <2>4 DEF Memory, Due
  <2>7. WellKept(j) /\ (jr # None /\ Carries(jr, proc.j) => Carries(jr, j))
    BY <2>1, <2>3, Kinds2 DEF Fit, WellKept, Carries, Noted
  <2>8. Fit(m, jr, rc)
    BY <2>1, <2>3, <2>5, <2>6, <2>7, Kinds2
    DEF Fit, Placed, Beginning, Backed, Running, Undoing, Reporting, Guarded, Discovering,
        RollingBack, Suspending, Restoring, Deleting, Conts, Agree
  <2> QED BY <2>1, <2>6, <2>8 DEF Suits, Sees, RollingBack, Suspending, Restoring, Deleting, m
<1>2. CASE proc.claim \notin Complete
  BY <1>2, IdleSuits DEF Unverified, Fit
<1> QED BY <1>1, <1>2

\* Where a step of the process raises, and the cluster and the files are jr, rc and lv.
LEMMA RaisedSuits ==
  ASSUME NEW lv, NEW jr, Fit(proc, jr, receipt), Sees(proc, lv), receipt' = receipt,
         Due(proc) = "delete" => proc.at \in Objs
  PROVE  Suits(Raised(Due(proc)), lv, jr, receipt)
<1> DEFINE w == Due(proc)
<1>0. Filed(jr, receipt) /\ proc \in Memory
  BY DEF Fit
<1>1. CASE w \in Guarded
  <2>1. Raised(w) = Abort(proc.j, receipt)
    BY <1>1 DEF Raised, Guarded, Suspending, Restoring, Deleting
  <2>2. /\ jr # None /\ receipt = None /\ WellKept(proc.j) /\ Carries(jr, proc.j)
        /\ proc.j.status \in Open /\ jr.status \in Open
    BY <1>1 DEF Fit, Backed, Running, Guarded
  <2> QED BY <1>0, <2>1, <2>2, AbortSuits
<1>2. CASE w \in Suspending
  <2>1. Raised(w) = Unproven
    BY <1>2 DEF Raised, Guarded, Suspending, Restoring, Deleting
  <2> QED BY <1>2, <2>1, UnprovenSuits DEF RollingBack
<1>3. CASE w \in Restoring
  <2>1. Raised(w) = Unrestored
    BY <1>3 DEF Raised, Guarded, Suspending, Restoring, Deleting
  <2> QED BY <1>3, <2>1, UnrestoredSuits DEF RollingBack
<1>4. CASE w \in Deleting
  <2>1. proc.at \in Objs
    BY <1>4, Names DEF Fit, Placed, Deleting
  <2> QED
    BY <1>4, <2>1, UndeletedSuits DEF Raised, Guarded, Suspending, Restoring, Deleting, RollingBack
<1>5. CASE w = "prepare"
  BY <1>5, UnverifiedSuits DEF Raised, Guarded, Suspending, Restoring, Deleting
<1>6. CASE w \notin Guarded \cup Suspending \cup Restoring \cup Deleting \cup {"prepare"}
  BY <1>0, <1>6, IdleSuits DEF Raised
<1> QED BY <1>1, <1>2, <1>3, <1>4, <1>5, <1>6

\* What a signal may make of it.
LEMMA InterruptedSuits ==
  ASSUME NEW lv, NEW jr, Fit(proc, jr, receipt), Sees(proc, lv), receipt' = receipt,
         NEW m \in Interrupted(Due(proc)), Due(proc) \in {"suspend", "restore", "delete"} => proc.pc = Due(proc),
         Due(proc) \in {"bind", "unmarked"} => proc.pc = Due(proc)
  PROVE  Suits(m, lv, jr, receipt)
<1> DEFINE w == Due(proc)
<1>0. Filed(jr, receipt) /\ proc \in Memory
  BY DEF Fit
<1>1. CASE m = Rollback(proc.j, TRUE, TRUE) /\ w \in Discovering \cup {"settle"} \cup RollingBack
  <2>1. /\ jr # None /\ receipt = None /\ WellKept(proc.j) /\ Carries(jr, proc.j)
        /\ proc.j.status \in Unsettled /\ jr.status \in Unsettled
    BY <1>1 DEF Fit, Backed, Running, Undoing, Discovering, RollingBack, Suspending, Restoring,
                Deleting, Open, Unsettled
  <2>2. jr \in Journals /\ proc.j \in Journals
    BY <1>0, <2>1 DEF Filed, Memory
  <2> QED BY <1>0, <1>1, <2>1, <2>2, RollbackSuits
<1>2. CASE m = Raised(w) /\ (w = "delete" => Reading)
  <2>1. w = "delete" => proc.at \in Objs
    BY <1>0, <1>2 DEF Reading, Memory, Objs
  <2> QED BY <1>2, <2>1, RaisedSuits
<1>3. CASE w = "bind" /\ m = [proc EXCEPT !.pc = "look"]
  <2>1. m \in Memory /\ m.pc = "look" /\ Due(m) = "look" /\ m.j = proc.j /\ m.at = proc.at
    BY <1>0, <1>3 DEF Memory, PCs, Guarded, Due
  <2>2. Fit(m, jr, receipt)
    BY <1>3, <2>1
    DEF Fit, Placed, Beginning, Backed, Running, Undoing, Reporting, Guarded, Discovering,
        RollingBack, Suspending, Restoring, Deleting
  <2> QED BY <2>1, <2>2 DEF Suits, Sees, RollingBack, Suspending, Restoring, Deleting
<1>4. CASE w = "unmarked" /\ m = [proc EXCEPT !.pc = "relook"]
  <2>1. m \in Memory /\ m.pc = "relook" /\ Due(m) = "relook" /\ m.j = proc.j /\ m.at = proc.at
    BY <1>0, <1>4 DEF Memory, PCs, Guarded, Due
  <2>2. Fit(m, jr, receipt)
    BY <1>4, <2>1
    DEF Fit, Placed, Beginning, Backed, Running, Undoing, Reporting, Guarded, Discovering,
        RollingBack, Suspending, Restoring, Deleting
  <2> QED BY <2>1, <2>2 DEF Suits, Sees, RollingBack, Suspending, Restoring, Deleting
<1> QED
  <2>1. CASE w \in Discovering \cup {"settle"}
    BY <1>1, <2>1 DEF Interrupted, Discovering
  <2>2. CASE w = "bind"
    BY <1>2, <1>3, <2>2 DEF Interrupted, Discovering
  <2>3. CASE w = "unmarked"
    BY <1>2, <1>4, <2>3 DEF Interrupted, Discovering
  <2>4. CASE w \in {"suspend", "restore", "delete"}
    <3>1. m \in {Rollback(proc.j, TRUE, TRUE)} \cup (IF Reading THEN {Raised(w)} ELSE {})
      BY <2>4 DEF Interrupted, Discovering
    <3> QED BY <1>1, <1>2, <2>4, <3>1 DEF RollingBack, Suspending, Restoring, Deleting
  <2>5. CASE w \notin Discovering \cup {"settle", "bind", "unmarked", "suspend", "restore", "delete"}
    BY <1>2, <2>5 DEF Interrupted
  <2> QED BY <2>1, <2>2, <2>3, <2>4, <2>5

LEMMA StalingSuits ==
  ASSUME NEW m, NEW lv, NEW jr, NEW rc, Suits(m, lv, jr, rc)
  PROVE  Suits(Staling(m), lv, jr, rc)
<1> DEFINE s == Staling(m)
<1>1. CASE m.pc = "idle"
  BY <1>1 DEF Staling
<1>2. CASE m.pc # "idle"
  <2>1. s = [m EXCEPT !.stale = TRUE] /\ m \in Memory
    BY <1>2 DEF Staling, Suits, Fit
  <2>2. /\ s \in Memory /\ s.pc = m.pc /\ s.cont = m.cont /\ Due(s) = Due(m) /\ s.j = m.j
        /\ s.at = m.at /\ s.answer = m.answer /\ s.gone = m.gone /\ s.claim = m.claim
    BY <2>1 DEF Memory, Due
  <2> HIDE DEF s
  <2>3. Fit(s, jr, rc)
    BY <2>2 DEF Suits, Fit, Placed, Beginning, Backed, Running, Undoing, Reporting
  <2>4. Sees(s, lv)
    BY <2>2 DEF Suits, Sees
  <2> QED BY <2>2, <2>3, <2>4 DEF Suits, s
<1> QED BY <1>1, <1>2

-----
\* Steps that leave the cluster alone

\* What a receipt of a complete rollback says of the file jr.
Vouched(jr) == foreign = 0 /\ receipt \in Complete => Undone(live, np, jr)

\* The process goes on with a memory that suits the files as they then are.
LEMMA Proceeds ==
  ASSUME HandoverInv, UNCHANGED <<live, np, receipt, foreign>>, faults' \in Nat,
         NEW jr, journal' = jr, Ahead(live, jr), Vouched(jr), Suits(proc', live, jr, receipt)
  PROVE  HandoverInv'
<1>1. Fit(proc', journal', receipt') /\ Ahead(live', journal') /\ Sees(proc', live')
  BY DEF Suits
<1>2. Claims(proc', live', np', journal', receipt', foreign')
  BY Kinds2 DEF Suits, Claims, Vouched
<1> QED BY <1>1, <1>2 DEF HandoverInv

LEMMA VouchedIs == HandoverInv => Vouched(journal)
BY DEF HandoverInv, Claims, Vouched

\* The commit under way may become visible at any moment.
LEMMA Saved ==
  ASSUME HandoverInv, proc.pc = "save"
  PROVE  /\ Fit(proc, proc.j, receipt) /\ Ahead(live, proc.j) /\ Vouched(proc.j)
<1> DEFINE j == proc.j
<1>0. Fit(proc, journal, receipt) /\ proc \in Memory /\ j \in Journals
  BY DEF HandoverInv, Fit, Memory
<1>1. /\ Due(proc) = proc.cont /\ proc.cont \in Conts /\ WellKept(j)
      /\ journal # None /\ Carries(journal, j) /\ j # None
  BY <1>0, NoneIsNothing DEF Fit, Due, Backed, Conts
<1>2. \/ /\ Due(proc) = "end" /\ receipt = j.status /\ receipt \in Terminal
         /\ receipt \in RollbackStatuses => j.rollback = receipt
      \/ receipt = None /\ j.status \in Unsettled /\ journal.status \in Unsettled
  BY <1>0, <1>1
  DEF Fit, Running, Undoing, Reporting, Conts, Guarded, Discovering, RollingBack, Suspending,
      Restoring, Deleting, Unsettled, Open
<1>3. Filed(j, receipt)
  <2>1. receipt \in Receipts
    BY <1>0 DEF Fit, Filed
  <2>2. receipt = None => j.status \notin Terminal /\ receipt \notin RollbackStatuses /\ receipt # "completed"
    BY <1>2, Kinds2, NoneIsNothing DEF Terminal, Unsettled, Open
  <2>3. receipt # "blocked"
    BY <1>2, Kinds2, NoneIsNothing DEF Terminal
  <2> QED BY <1>0, <1>1, <1>2, <2>1, <2>2, <2>3, Kinds2 DEF Filed, Agree, Terminal
<1>4. Carries(j, j)
  BY DEF Carries
<1>5. Fit(proc, j, receipt)
  BY <1>0, <1>1, <1>2, <1>3, <1>4
  DEF Fit, Backed, Beginning, Running, Undoing, Reporting, Conts, Guarded, Discovering,
      RollingBack, Suspending, Restoring, Deleting, Concluding, Unsettled, Open
<1>6. Ahead(live, j)
  BY <1>1, Names DEF HandoverInv, Ahead, Carries
<1>7. Vouched(j)
  <2> SUFFICES ASSUME foreign = 0, receipt \in Complete
               PROVE  Undone(live, np, j)
    BY DEF Vouched
  <2>1. Undone(live, np, journal)
    BY DEF HandoverInv, Claims
  <2>2. j.recs = journal.recs
    BY <1>0, <1>2, Kinds2 DEF Fit, Reporting
  <2> QED BY <2>1, <2>2 DEF Undone
<1> QED BY <1>5, <1>6, <1>7

LEMMA SaveKeeps == ASSUME HandoverInv, Save PROVE HandoverInv'
<1> DEFINE j == proc.j
<1>1. /\ Fit(proc, j, receipt) /\ Ahead(live, j) /\ Vouched(j) /\ Sees(proc, live)
      /\ proc.pc = "save" /\ proc \in Memory /\ faults' \in Nat
  BY Saved DEF Save, HandoverInv, Fit
<1>2. CASE proc.cont = "end"
  <2>1. Suits(proc', live, j, receipt)
    BY <1>1, <1>2, IdleSuits DEF Save, Step, Fit
  <2> QED BY <1>1, <2>1, Proceeds DEF Save
<1>3. CASE proc.cont # "end"
  <2> DEFINE m == [proc EXCEPT !.pc = proc.cont]
  <2>1. proc' = m /\ proc.cont \in Conts
    BY <1>1, <1>3 DEF Save, Step, Fit
  <2>2. m \in Memory
    BY <1>1 DEF Memory
  <2>3. /\ m.pc = proc.cont /\ m.cont = proc.cont /\ m.j = j /\ m.at = proc.at
        /\ m.answer = proc.answer /\ m.gone = proc.gone /\ m.claim = proc.claim
    BY <1>1 DEF Memory
  <2>4. Due(m) = Due(proc) /\ m.pc # "save" /\ Due(m) = proc.cont
    BY <1>1, <2>1, <2>3 DEF Due, Conts
  <2> HIDE DEF m
  <2>5. Fit(m, j, receipt)
    BY <1>1, <1>3, <2>1, <2>2, <2>3, <2>4
    DEF Fit, Placed, Beginning, Backed, Running, Undoing, Reporting, Conts
  <2>6. Sees(m, live)
    BY <1>1, <2>1, <2>3, <2>4 DEF Sees, Conts
  <2>7. Claims(m, live, np, j, receipt, foreign)
    BY <1>1, <2>3, <2>4 DEF HandoverInv, Claims, Vouched
  <2> QED BY <1>1, <2>1, <2>5, <2>6, <2>7 DEF Save, HandoverInv
<1> QED BY <1>2, <1>3

LEMMA SaveFailsKeeps == ASSUME HandoverInv, SaveFails PROVE HandoverInv'
<1>1. /\ proc.pc = "save" /\ Due(proc) = proc.cont /\ proc.cont \in Conts
      /\ UNCHANGED <<live, np, receipt, foreign>>
  BY DEF SaveFails, HandoverInv, Fit, Due
<1>2. PICK m \in {Raised(proc.cont)} \cup Interrupted(proc.cont) :
        /\ \/ journal' = journal /\ proc' = m
           \/ journal' = proc.j /\ proc' \in {m, Staling(m)}
        /\ faults' \in Nat
  BY DEF SaveFails, Step, Fault, HandoverInv
<1>3. PICK jr \in {journal, proc.j} : journal' = jr /\ proc' \in {m, Staling(m)}
  BY <1>2
<1>4. /\ Fit(proc, jr, receipt) /\ Ahead(live, jr) /\ Vouched(jr) /\ Sees(proc, live)
  BY <1>1, <1>3, Saved, VouchedIs DEF HandoverInv
<1>5. Suits(m, live, jr, receipt)
  BY <1>1, <1>2, <1>4, RaisedSuits, InterruptedSuits DEF Conts
<1>6. Suits(proc', live, jr, receipt)
  BY <1>3, <1>5, StalingSuits
<1> QED BY <1>1, <1>2, <1>3, <1>4, <1>6, Proceeds

LEMMA SaveStaleKeeps == ASSUME HandoverInv, SaveStale PROVE HandoverInv'
<1>1. /\ proc.pc = "save" /\ Due(proc) = proc.cont /\ proc.cont \in Conts
      /\ UNCHANGED <<live, np, receipt, journal, foreign>> /\ faults' \in Nat
      /\ proc' = Raised(proc.cont)
  BY DEF SaveStale, HandoverInv, Fit, Due, Step
<1>2. Suits(proc', live, journal, receipt)
  BY <1>1, RaisedSuits DEF Conts, HandoverInv
<1> QED BY <1>1, <1>2, VouchedIs, Proceeds DEF HandoverInv

\* The places where the process may read are places of its own.
LEMMA ReadingIs ==
  ASSUME HandoverInv, Reading
  PROVE  Due(proc) = proc.pc /\ (proc.pc = "delete" => proc.at \in Objs)
<1>1. proc.pc # "save" /\ proc.at \in 0 .. N
  BY DEF Reading, HandoverInv, Fit, Memory
<1>2. proc.pc = "delete" => proc.at > 0
  BY DEF Reading
<1> QED BY <1>1, <1>2 DEF Due, Objs

LEMMA ReadFailsKeeps == ASSUME HandoverInv, ReadFails PROVE HandoverInv'
<1>1. /\ UNCHANGED <<live, np, receipt, journal, foreign>> /\ faults' \in Nat
      /\ proc' \in {Raised(proc.pc), Staling(Raised(proc.pc))}
  BY DEF ReadFails, Step, Fault, HandoverInv
<1>2. Suits(Raised(proc.pc), live, journal, receipt)
  BY <1>1, ReadingIs, RaisedSuits DEF ReadFails, HandoverInv
<1>3. Suits(proc', live, journal, receipt)
  BY <1>1, <1>2, StalingSuits
<1> QED BY <1>1, <1>3, VouchedIs, Proceeds DEF HandoverInv

LEMMA SignalKeeps == ASSUME HandoverInv, Signal PROVE HandoverInv'
<1>1. /\ UNCHANGED <<live, np, receipt, journal, foreign>> /\ faults' \in Nat
      /\ proc' \in Interrupted(proc.pc) /\ Listening(proc.pc)
  BY DEF Signal, Fault, HandoverInv
<1>2. proc.pc # "save" /\ Due(proc) = proc.pc
  BY <1>1
  DEF Listening, Due, Guarded, Discovering, RollingBack, Suspending, Restoring, Deleting
<1>3. Suits(proc', live, journal, receipt)
  BY <1>1, <1>2, InterruptedSuits DEF HandoverInv
<1> QED BY <1>1, <1>3, VouchedIs, Proceeds DEF HandoverInv

LEMMA CrashKeeps == ASSUME HandoverInv, Crash PROVE HandoverInv'
<1>1. /\ UNCHANGED <<live, np, receipt, journal, foreign>> /\ faults' \in Nat
      /\ proc' = NoProcess
  BY DEF Crash, Fault, HandoverInv, Step
<1>2. Suits(proc', live, journal, receipt)
  BY <1>1, IdleSuits DEF HandoverInv, Fit
<1> QED BY <1>1, <1>2, VouchedIs, Proceeds DEF HandoverInv

-----
\* The API server, Flux and other writers

\* What anybody makes of a name after it was created: nothing, a newer form of the
\* same object, or a look-alike.
Newer(o, was) ==
  \/ o = None
  \/ /\ o # None /\ was # None /\ o.uid = was.uid /\ o.mark = was.mark
     /\ ~o.susp => ~was.susp
     /\ o.rv > was.rv \/ (o.rv = was.rv /\ o.exact = was.exact)
  \/ o # None /\ o.uid = "other" /\ ~o.mark /\ o.susp

LEMMA NewerForm ==
  ASSUME NEW was \in Objects
  PROVE  /\ LET o == [was EXCEPT !.rv = @ + 1] IN
              /\ o \in Objects /\ o.uid = was.uid /\ o.mark = was.mark
              /\ o.susp = was.susp /\ o.rv > was.rv
         /\ LET o == [was EXCEPT !.ready = TRUE, !.rv = @ + 1] IN
              /\ o \in Objects /\ o.uid = was.uid /\ o.mark = was.mark
              /\ o.susp = was.susp /\ o.rv > was.rv
         /\ LET o == [was EXCEPT !.exact = FALSE, !.rv = @ + 1] IN
              /\ o \in Objects /\ o.uid = was.uid /\ o.mark = was.mark
              /\ o.susp = was.susp /\ o.rv > was.rv
<1> was.rv \in Nat /\ was.rv + 1 \in Nat /\ was.rv + 1 > was.rv
  BY DEF Objects
<1> QED BY DEF Objects

LEMMA Writes ==
  ASSUME HandoverInv, NEW n \in Objs, NEW o \in Objects \cup {None}, Newer(o, live[n]), Write(n, o)
  PROVE  Ahead(live', journal) /\ Sees(proc, live')
<1>1. /\ live \in [Objs -> Objects \cup {None}] /\ live' = [live EXCEPT ![n] = o]
      /\ live' \in [Objs -> Objects \cup {None}]
      /\ live'[n] = o /\ \A k \in Objs : k # n => live'[k] = live[k]
  BY DEF HandoverInv, Ahead, Write
<1>2. \A k \in Objs : /\ OursIn(live', k) => OursIn(live, k)
                      /\ OursIn(live', k) => \/ live'[k] = live[k] \/ live'[k].rv > live[k].rv
                                            \/ /\ live'[k].rv = live[k].rv
                                               /\ live'[k].exact = live[k].exact
                      /\ live'[k] # None /\ live'[k].mark => live[k] # None /\ live[k].mark /\ live'[k].uid = live[k].uid
                      /\ live'[k] # None /\ ~live'[k].susp => live[k] # None /\ ~live[k].susp
  BY <1>1 DEF Newer, OursIn
<1>3. Ahead(live', journal)
  BY <1>1, <1>2, Names, ZenonT(40) DEF HandoverInv, Ahead
<1>4. proc.pc = "deleting" => proc.at \in Objs /\ Due(proc) = "deleting" /\ (proc.answer # None => proc.answer \in Objects)
  BY DEF HandoverInv, Fit, Placed, Due, Memory
<1>5. \A k \in Objs : (live[k] # None => live[k].rv \in Nat) /\ (live'[k] # None => live'[k].rv \in Nat)
  BY <1>1 DEF Objects
<1>6. proc.pc = "deleting" =>
        /\ proc.answer # None /\ proc.answer.uid = "ours" /\ proc.answer.exact
        /\ OursIn(live', proc.at) => /\ live'[proc.at].rv >= proc.answer.rv
                                     /\ live'[proc.at].rv = proc.answer.rv => live'[proc.at].exact
  <2> SUFFICES ASSUME proc.pc = "deleting" PROVE
        /\ proc.answer # None /\ proc.answer.uid = "ours" /\ proc.answer.exact
        /\ OursIn(live', proc.at) => /\ live'[proc.at].rv >= proc.answer.rv
                                     /\ live'[proc.at].rv = proc.answer.rv => live'[proc.at].exact
    OBVIOUS
  <2>1. /\ proc.answer # None /\ proc.answer.uid = "ours" /\ proc.answer.exact
        /\ OursIn(live, proc.at) => /\ live[proc.at].rv >= proc.answer.rv
                                    /\ live[proc.at].rv = proc.answer.rv => live[proc.at].exact
    BY DEF HandoverInv, Sees
  <2>2. proc.answer.rv \in Nat /\ proc.at \in Objs
    BY <1>4, <2>1 DEF Objects
  <2> DEFINE a == proc.at
  <2>3. CASE live'[a] = live[a]
    BY <2>1, <2>3 DEF OursIn
  <2>6. CASE OursIn(live', a) /\ live'[a].rv = live[a].rv /\ live'[a].exact = live[a].exact
    BY <1>2, <2>1, <2>2, <2>6
  <2>4. CASE ~OursIn(live', a)
    BY <2>1, <2>4
  <2>5. CASE OursIn(live', a) /\ live'[a].rv > live[a].rv
    <3>1. OursIn(live, a) /\ live[a].rv \in Nat /\ live'[a].rv \in Nat
      BY <1>2, <1>5, <2>2, <2>5 DEF OursIn
    <3> QED BY <2>1, <2>2, <2>5, <3>1
  <2> QED BY <1>2, <2>2, <2>3, <2>4, <2>5, <2>6
<1>7. Sees(proc, live')
  BY <1>2, <1>6, Names DEF HandoverInv, Sees, Halted
<1> QED BY <1>3, <1>7

LEMMA Unclaimed ==
  ASSUME HandoverInv, UNCHANGED <<journal, receipt, proc, faults>>, np' \in Policies,
         foreign' \in Nat, Ahead(live', journal), Sees(proc, live'),
         foreign' = 0 => foreign = 0 /\ \A j \in {proc.j, journal} :
                            Undone(live, np, j) /\ Carries(journal, j) => Undone(live', np', j)
  PROVE  HandoverInv'
<1>1. Claims(proc, live', np', journal, receipt, foreign')
  <2>1. Due(proc) = "rreceipt" => Carries(journal, proc.j)
    BY DEF HandoverInv, Fit, Backed
  <2>2. Carries(journal, journal)
    BY DEF Carries
  <2> QED BY <2>1, <2>2 DEF HandoverInv, Claims
<1> QED BY <1>1 DEF HandoverInv

LEMMA FinishDeleteKeeps ==
  ASSUME HandoverInv, NEW n \in Objs, FinishDelete(n) PROVE HandoverInv'
<1>1. Ahead(live', journal) /\ Sees(proc, live')
  BY Writes DEF FinishDelete, Newer
<1>2. \A j \in {proc.j, journal} : Undone(live, np, j) => Undone(live', np, j)
  BY DEF HandoverInv, Ahead, FinishDelete, Write, Undone
<1> QED BY <1>1, <1>2, Unclaimed DEF FinishDelete, HandoverInv

LEMMA ReconcileKeeps == ASSUME HandoverInv, Reconcile PROVE HandoverInv'
<1> DEFINE o == [live[Kust] EXCEPT !.ready = TRUE, !.rv = @ + 1]
<1>1. live[Kust] \in Objects /\ live[Kust] # None /\ ~live[Kust].susp /\ Write(Kust, o)
  BY Names DEF HandoverInv, Ahead, Reconcile
<1>2. /\ o \in Objects /\ o.uid = live[Kust].uid /\ o.mark = live[Kust].mark
      /\ o.susp = live[Kust].susp /\ o.rv > live[Kust].rv
  BY <1>1, NewerForm DEF Objects
<1>3. o # None
  BY <1>2, NoneIsNothing
<1>4. Ahead(live', journal) /\ Sees(proc, live')
  BY <1>1, <1>2, <1>3, Names, Writes DEF Newer
<1>5. np.rv \in Nat /\ np' = [state |-> "reconciled", rv |-> np.rv + 1]
  BY DEF HandoverInv, Policies, Reconcile
<1>6. np' \in Policies
  BY <1>5 DEF Policies
<1>7. \A j \in {proc.j, journal} : ~(Undone(live, np, j) /\ Carries(journal, j))
  <2>1. journal.recs[Kust] # None
    BY <1>1 DEF HandoverInv, Ahead
  <2> QED BY <1>1, <2>1, Names DEF Undone, Carries
<1> QED BY <1>4, <1>6, <1>7, Unclaimed DEF Reconcile, HandoverInv

LEMMA OthersKeep ==
  ASSUME HandoverInv, Ahead(live', journal), Sees(proc, live'), np' \in Policies, ByOthers
  PROVE  HandoverInv'
<1>1. foreign' \in Nat /\ foreign' # 0
  BY DEF HandoverInv, ByOthers
<1> QED BY <1>1, Unclaimed DEF ByOthers

LEMMA ForeignKeeps ==
  ASSUME HandoverInv, NEW n \in Objs,
         ForeignCreate(n) \/ ForeignDelete(n) \/ ForeignTouch(n) \/ ForeignEdit(n)
  PROVE  HandoverInv'
<1>0. /\ live[n] \in Objects \cup {None} /\ np' = np /\ np \in Policies /\ ByOthers
  BY DEF HandoverInv, Ahead, ForeignCreate, ForeignDelete, ForeignTouch, ForeignEdit
<1>1. CASE ForeignCreate(n)
  <2> DEFINE o == [uid |-> "other", mark |-> FALSE, susp |-> TRUE, exact |-> TRUE,
                   ready |-> FALSE, going |-> FALSE, rv |-> 0]
  <2>1. o \in Objects /\ o.uid = "other" /\ ~o.mark /\ o.susp /\ Write(n, o)
    BY <1>1 DEF Objects, ForeignCreate
  <2> HIDE DEF o
  <2>2. Newer(o, live[n])
    BY <2>1, NoneIsNothing DEF Newer
  <2> QED BY <1>0, <2>1, <2>2, Writes, OthersKeep
<1>2. CASE ForeignDelete(n)
  <2>1. Write(n, None) /\ Newer(None, live[n])
    BY <1>2 DEF ForeignDelete, Newer
  <2> QED BY <1>0, <2>1, Writes, OthersKeep
<1>3. CASE ForeignTouch(n)
  <2> DEFINE o == [live[n] EXCEPT !.rv = @ + 1]
  <2>1. live[n] # None /\ Write(n, o)
    BY <1>3 DEF ForeignTouch
  <2>2. /\ o \in Objects /\ o.uid = live[n].uid /\ o.mark = live[n].mark
        /\ o.susp = live[n].susp /\ o.rv > live[n].rv
    BY <1>0, <2>1, NewerForm DEF Objects
  <2> HIDE DEF o
  <2>3. Newer(o, live[n])
    BY <2>1, <2>2, NoneIsNothing DEF Newer
  <2> QED BY <1>0, <2>1, <2>2, <2>3, Writes, OthersKeep
<1>4. CASE ForeignEdit(n)
  <2> DEFINE o == [live[n] EXCEPT !.exact = FALSE, !.rv = @ + 1]
  <2>1. live[n] # None /\ Write(n, o)
    BY <1>4 DEF ForeignEdit
  <2>2. /\ o \in Objects /\ o.uid = live[n].uid /\ o.mark = live[n].mark
        /\ o.susp = live[n].susp /\ o.rv > live[n].rv
    BY <1>0, <2>1, NewerForm DEF Objects
  <2> HIDE DEF o
  <2>3. Newer(o, live[n])
    BY <2>1, <2>2, NoneIsNothing DEF Newer
  <2> QED BY <1>0, <2>1, <2>2, <2>3, Writes, OthersKeep
<1> QED BY <1>1, <1>2, <1>3, <1>4

LEMMA ForeignPolicyKeeps == ASSUME HandoverInv, ForeignPolicy PROVE HandoverInv'
<1>1. np' \in Policies /\ live' = live /\ ByOthers
  <2>1. np.state \in {"before", "adopted", "reconciled", "drift", "replaced"} /\ np.rv \in Nat
    BY DEF HandoverInv, Policies
  <2> QED BY <2>1 DEF ForeignPolicy, Policies
<1> QED BY <1>1, OthersKeep DEF HandoverInv

-----
\* Entries of the journal

\* j is k with more noted in it.
Extends(j, k) ==
  /\ j \in Journals /\ j.status = k.status /\ j.rollback = k.rollback
  /\ Carries(k, j) /\ (WellKept(k) => WellKept(j))

LEMMA JournalFields ==
  ASSUME NEW j \in Journals
  PROVE  /\ j.recs \in [Objs -> Records \cup {None}]
         /\ j.create \in [Objs -> Stages] /\ j.strip \in [Objs -> Stages]
BY DEF Journals

LEMMA IntendsCreate ==
  ASSUME NEW j \in Journals, NEW n \in Objs
  PROVE  LET k == [j EXCEPT !.create[n] = "open"] IN
         Extends(k, j) /\ k.create[n] = "open" /\ k.recs = j.recs
<1> DEFINE c == [j.create EXCEPT ![n] = "open"]
           k == [j EXCEPT !.create = c]
<1>1. c \in [Objs -> Stages] /\ c[n] = "open" /\ \A i \in Objs : i # n => c[i] = j.create[i]
  BY JournalFields DEF Stages
<1> HIDE DEF c
<1>2. /\ k \in Journals /\ k.create = c /\ k.recs = j.recs /\ k.status = j.status
      /\ k.rollback = j.rollback
  BY <1>1 DEF Journals
<1>3. k = [j EXCEPT !.create[n] = "open"]
  BY DEF c
<1> HIDE DEF k
<1>4. Extends(k, j)
  BY <1>1, <1>2 DEF Extends, Carries, Noted, WellKept
<1> QED BY <1>1, <1>2, <1>3, <1>4

LEMMA NotesStrip ==
  ASSUME NEW j \in Journals, NEW n \in Objs, NEW s \in Stages
  PROVE  LET k == [j EXCEPT !.strip[n] = s] IN Extends(k, j) /\ k.recs = j.recs
<1> DEFINE c == [j.strip EXCEPT ![n] = s]
           k == [j EXCEPT !.strip = c]
<1>1. c \in [Objs -> Stages]
  BY JournalFields
<1> HIDE DEF c
<1>2. /\ k \in Journals /\ k.create = j.create /\ k.recs = j.recs /\ k.status = j.status
      /\ k.rollback = j.rollback
  BY <1>1 DEF Journals
<1>3. k = [j EXCEPT !.strip[n] = s]
  BY DEF c
<1> HIDE DEF k
<1>4. Extends(k, j)
  BY <1>2 DEF Extends, Carries, Noted, WellKept
<1> QED BY <1>2, <1>3, <1>4

\* A record of an object of ours.
LEMMA Records1 ==
  ASSUME NEW j \in Journals, NEW n \in Objs, NEW r \in Records, r.uid = "ours"
  PROVE  /\ LET k == [j EXCEPT !.recs[n] = r] IN Extends(k, j) /\ k.recs[n] # None
         /\ LET k == [j EXCEPT !.recs[n] = r, !.create[n] = "after"] IN
            Extends(k, j) /\ k.recs[n] # None
<1> DEFINE c == [j.recs EXCEPT ![n] = r]
           d == [j.create EXCEPT ![n] = "after"]
           k == [j EXCEPT !.recs = c]
           l == [j EXCEPT !.recs = c, !.create = d]
<1>1. /\ c \in [Objs -> Records \cup {None}] /\ c[n] = r /\ r # None
      /\ \A i \in Objs : i # n => c[i] = j.recs[i]
  BY JournalFields, NoneIsNothing
<1>2. d \in [Objs -> Stages] /\ \A i \in Objs : i # n => d[i] = j.create[i]
  BY JournalFields DEF Stages
<1> HIDE DEF c, d
<1>3. /\ k \in Journals /\ k.create = j.create /\ k.recs = c /\ k.status = j.status
      /\ k.rollback = j.rollback
  BY <1>1 DEF Journals
<1>4. /\ l \in Journals /\ l.create = d /\ l.recs = c /\ l.status = j.status
      /\ l.rollback = j.rollback
  BY <1>1, <1>2 DEF Journals
<1>5. k = [j EXCEPT !.recs[n] = r] /\ l = [j EXCEPT !.recs[n] = r, !.create[n] = "after"]
  BY DEF c, d
<1> HIDE DEF k, l
<1>6. Extends(k, j)
  BY <1>1, <1>3 DEF Extends, Carries, Noted, WellKept
<1>7. Extends(l, j)
  BY <1>1, <1>2, <1>4 DEF Extends, Carries, Noted, WellKept
<1> QED BY <1>1, <1>3, <1>4, <1>5, <1>6, <1>7

\* The recorded object is clean.
LEMMA Cleans ==
  ASSUME NEW j \in Journals, NEW n \in Objs, j.recs[n] # None
  PROVE  /\ LET k == [j EXCEPT !.recs[n].clean = TRUE] IN Extends(k, j) /\ k.recs[n] # None
         /\ LET k == [j EXCEPT !.recs[n].clean = TRUE, !.strip[n] = "after"] IN
            Extends(k, j) /\ k.recs[n] # None
<1> DEFINE r == [j.recs[n] EXCEPT !.clean = TRUE]
           c == [j.recs EXCEPT ![n] = r]
           d == [j.strip EXCEPT ![n] = "after"]
           k == [j EXCEPT !.recs = c]
           l == [j EXCEPT !.recs = c, !.strip = d]
<1>0. j.recs[n] \in Records
  BY JournalFields
<1>1. r \in Records /\ r.uid = j.recs[n].uid
  BY <1>0 DEF Records
<1>2. r # None
  BY <1>1, NoneIsNothing
<1> HIDE DEF r
<1>3. /\ c \in [Objs -> Records \cup {None}] /\ c[n] = r
      /\ \A i \in Objs : i # n => c[i] = j.recs[i]
  BY <1>1, JournalFields
<1>4. d \in [Objs -> Stages]
  BY JournalFields DEF Stages
<1>5. k = [j EXCEPT !.recs[n].clean = TRUE]
  BY DEF c, r
<1>6. l = [j EXCEPT !.recs[n].clean = TRUE, !.strip[n] = "after"]
  BY DEF c, d, r
<1> HIDE DEF c, d
<1>7. /\ k \in Journals /\ k.create = j.create /\ k.recs = c /\ k.status = j.status
      /\ k.rollback = j.rollback
  BY <1>3 DEF Journals
<1>8. /\ l \in Journals /\ l.create = j.create /\ l.recs = c /\ l.status = j.status
      /\ l.rollback = j.rollback
  BY <1>3, <1>4 DEF Journals
<1> HIDE DEF k, l
<1>9. Extends(k, j)
  BY <1>1, <1>2, <1>3, <1>7 DEF Extends, Carries, Noted, WellKept
<1>10. Extends(l, j)
  BY <1>1, <1>2, <1>3, <1>8 DEF Extends, Carries, Noted, WellKept
<1> QED BY <1>2, <1>3, <1>5, <1>6, <1>7, <1>8, <1>9, <1>10

-----
\* The guarded run

LEMMA QuietGoes ==
  ASSUME HandoverInv, Quiet, Suits(proc', live, journal, receipt)
  PROVE  HandoverInv'
BY VouchedIs, Proceeds DEF Quiet, HandoverInv

LEMMA InGuard ==
  ASSUME HandoverInv, proc.pc \in Guarded
  PROVE  /\ Fit(proc, journal, None) /\ receipt = None /\ proc \in Memory
         /\ journal = proc.j /\ proc.j \in Journals /\ journal # None /\ WellKept(proc.j)
         /\ proc.j.status \in Open /\ Due(proc) = proc.pc
<1>1. Due(proc) = proc.pc
  BY DEF Due, Guarded
<1> QED BY <1>1, NoneIsNothing DEF HandoverInv, Fit, Backed, Running, Memory, Guarded

LEMMA AbortHere ==
  ASSUME HandoverInv, proc.pc \in Guarded, NEW lv
  PROVE  Suits(Abort(proc.j, receipt), lv, journal, receipt)
<1>1. Carries(journal, proc.j)
  BY InGuard DEF Carries
<1> QED BY <1>1, InGuard, AbortSuits DEF Fit

\* The next step of the run, under the same journal.
LEMMA GuardedMoves ==
  ASSUME HandoverInv, proc.pc \in Guarded, NEW m \in Memory, m.pc \in Guarded \ {"receipt"},
         m.j = proc.j, Placed(m), NEW lv
  PROVE  Suits(m, lv, journal, receipt)
<1>1. Due(m) = m.pc
  BY DEF Due, Guarded
<1>2. Carries(journal, m.j)
  BY InGuard DEF Carries
<1>3. Fit(m, journal, receipt)
  BY <1>1, <1>2, InGuard
  DEF Fit, Beginning, Backed, Running, Undoing, Reporting, Guarded, Discovering, RollingBack,
      Suspending, Restoring, Deleting
<1> QED BY <1>1, <1>3 DEF Suits, Sees, Guarded, RollingBack, Suspending, Restoring, Deleting

\* The next step, once the journal says more.
LEMMA GuardedSaves ==
  ASSUME HandoverInv, proc.pc \in Guarded, NEW m \in Memory, m.pc = "save",
         m.cont \in (Guarded \cap Conts) \ {"receipt"}, Extends(m.j, proc.j), Placed(m), NEW lv
  PROVE  Suits(m, lv, journal, receipt)
<1>1. Due(m) = m.cont
  BY DEF Due
<1>2. Carries(journal, m.j) /\ m.j.status \in Open /\ WellKept(m.j)
  BY InGuard DEF Extends
<1>3. Fit(m, journal, receipt)
  BY <1>1, <1>2, InGuard
  DEF Fit, Beginning, Backed, Running, Undoing, Reporting, Guarded, Discovering, RollingBack,
      Suspending, Restoring, Deleting
<1> QED BY <1>1, <1>3 DEF Suits, Sees, Guarded, RollingBack, Suspending, Restoring, Deleting

LEMMA SavingIs ==
  ASSUME proc \in Memory, NEW j \in Journals, NEW c \in Conts
  PROVE  /\ Saving(j, c) \in Memory /\ Saving(j, c).pc = "save" /\ Saving(j, c).cont = c
         /\ Due(Saving(j, c)) = c /\ Saving(j, c).j = j /\ Saving(j, c).at = proc.at
         /\ Saving(j, c).answer = proc.answer /\ Saving(j, c).gone = proc.gone
         /\ Saving(j, c).claim = proc.claim
<1>1. c \in PCs /\ "save" \in PCs
  BY DEF Conts, PCs, Guarded, Discovering, RollingBack, Suspending, Restoring, Deleting, Concluding
<1> QED BY <1>1 DEF Saving, Memory, Due

LEMMA CreateKeeps == ASSUME HandoverInv, Create PROVE HandoverInv'
<1> DEFINE k == [proc.j EXCEPT !.create[proc.at] = "open"]
           m == Saving(k, "post")
<1>1. proc.pc = "create" /\ proc.pc \in Guarded /\ proc.at \in Objs /\ proc' = m
  BY DEF Create, Guarded, Step, HandoverInv, Fit, Placed, Due
<1>2. Extends(k, proc.j) /\ k.create[proc.at] = "open"
  BY <1>1, InGuard, IntendsCreate
<1> HIDE DEF k
<1>3. /\ m \in Memory /\ m.pc = "save" /\ m.cont = "post" /\ Due(m) = "post"
      /\ m.j = k /\ m.at = proc.at
  BY <1>1, <1>2, InGuard, SavingIs DEF Extends, Conts
<1> HIDE DEF m
<1>4. Placed(m)
  BY <1>1, <1>2, <1>3 DEF Placed
<1>5. Suits(m, live, journal, receipt)
  BY <1>1, <1>2, <1>3, <1>4, GuardedSaves DEF Guarded, Conts
<1> QED BY <1>1, <1>5, QuietGoes DEF Create

LEMMA MarkedIs == Marked \in Objects /\ Marked # None /\ Marked.uid = "ours" /\ Marked.susp
<1> Marked \in Objects /\ Marked.uid = "ours" /\ Marked.susp
  BY DEF Marked, Objects
<1> QED BY NoneIsNothing

\* A write of the guarded run under a name that the journal notes.
LEMMA RunWrites ==
  ASSUME HandoverInv, proc.pc \in Guarded, NEW n \in Objs, NEW o \in Objects, Write(n, o),
         o.mark => o.uid = "ours", o.uid = "ours" => Noted(journal, n),
         n = Kust /\ ~o.susp => journal.recs[Kust] # None
  PROVE  Ahead(live', journal)
<1>1. /\ live \in [Objs -> Objects \cup {None}] /\ live' = [live EXCEPT ![n] = o]
      /\ live' \in [Objs -> Objects \cup {None}]
      /\ live'[n] = o /\ \A k \in Objs : k # n => live'[k] = live[k]
  BY DEF HandoverInv, Ahead, Write
<1>2. Ahead(live, journal) /\ journal # None
  BY InGuard DEF HandoverInv
<1> QED BY <1>1, <1>2, Names DEF Ahead, OursIn

\* The run goes on, whatever became of the cluster.
LEMMA RunGoes ==
  ASSUME HandoverInv, proc.pc \in Guarded, UNCHANGED <<journal, receipt, foreign>>,
         faults' \in Nat, np' \in Policies, Ahead(live', journal),
         Suits(proc', live', journal, receipt)
  PROVE  HandoverInv'
<1>1. receipt \notin Complete
  BY InGuard, Kinds2
<1>2. Claims(proc', live', np', journal, receipt, foreign)
  BY <1>1, Kinds2 DEF Claims, Suits
<1> QED BY <1>2 DEF HandoverInv, Suits

\* The process in another step, with another answer or without.
LEMMA Turns ==
  ASSUME proc \in Memory, NEW pc \in Guarded \cup RollingBack, NEW m,
         m = [proc EXCEPT !.pc = pc]
  PROVE  /\ m \in Memory /\ m.pc = pc /\ Due(m) = pc /\ m.j = proc.j /\ m.at = proc.at
         /\ m.answer = proc.answer /\ m.gone = proc.gone
<1>1. pc \in PCs /\ pc # "save"
  BY DEF PCs, Guarded, RollingBack, Suspending, Restoring, Deleting
<1> QED BY <1>1 DEF Memory, Due

LEMMA PostKeeps == ASSUME HandoverInv, Post \/ PostLost PROVE HandoverInv'
<1>1. /\ proc.pc = "post" /\ proc.pc \in Guarded /\ proc.at \in Objs /\ proc \in Memory
      /\ proc.j.create[proc.at] = "open"
  BY DEF Post, PostLost, Guarded, HandoverInv, Fit, Placed, Due
<1>2. Write(proc.at, Marked) => Ahead(live', journal)
  BY <1>1, MarkedIs, InGuard, RunWrites DEF Noted, Marked
<1>3. Ahead(live', journal)
  BY <1>2 DEF Post, PostLost, HandoverInv
<1>4. proc' \in {[proc EXCEPT !.pc = "look"], [proc EXCEPT !.pc = "bind", !.answer = Marked]}
  BY DEF Post, PostLost, Step
<1>5. Suits(proc', live', journal, receipt)
  <2>1. CASE proc' = [proc EXCEPT !.pc = "look"]
    <3>1. /\ proc' \in Memory /\ proc'.pc = "look" /\ Due(proc') = "look" /\ proc'.j = proc.j
          /\ proc'.at = proc.at
      BY <1>1, <2>1, Turns DEF Guarded
    <3>2. Placed(proc')
      BY <1>1, <3>1 DEF Placed
    <3> QED BY <1>1, <3>1, <3>2, GuardedMoves DEF Guarded
  <2>2. CASE proc' = [proc EXCEPT !.pc = "bind", !.answer = Marked]
    <3>1. /\ proc' \in Memory /\ proc'.pc = "bind" /\ Due(proc') = "bind" /\ proc'.j = proc.j
          /\ proc'.at = proc.at /\ proc'.answer = Marked
      BY <1>1, <2>2, MarkedIs DEF Memory, PCs, Guarded, Due
    <3>2. Placed(proc')
      BY <1>1, <3>1, MarkedIs DEF Placed
    <3> QED BY <1>1, <3>1, <3>2, GuardedMoves DEF Guarded
  <2> QED BY <1>4, <2>1, <2>2
<1>6. UNCHANGED <<np, journal, receipt, foreign>> /\ faults' \in Nat
  BY DEF Post, PostLost, NoAnswer, Fault, HandoverInv
<1> QED BY <1>1, <1>3, <1>5, <1>6, RunGoes DEF HandoverInv

LEMMA BoundSuits ==
  ASSUME HandoverInv, proc.pc \in {"bind", "look"}, NEW o \in Objects, o.uid = "ours"
  PROVE  Suits(Bound(o), live, journal, receipt)
<1> DEFINE r == [uid |-> o.uid, clean |-> FALSE]
           k == [proc.j EXCEPT !.recs[proc.at] = r, !.create[proc.at] = "after"]
           s == Saving(k, "strip")
           m == Bound(o)
<1>1. proc.pc \in Guarded /\ proc.at \in Objs /\ proc \in Memory /\ proc.j \in Journals
  BY InGuard DEF Guarded, HandoverInv, Fit, Placed, Due
<1>2. r \in Records /\ r.uid = "ours"
  BY DEF Records
<1> HIDE DEF r
<1>3. Extends(k, proc.j)
  BY <1>1, <1>2, Records1
<1>4. m = [s EXCEPT !.answer = o, !.retry = FALSE]
  BY DEF Bound, r
<1> HIDE DEF k
<1>5. /\ s \in Memory /\ s.pc = "save" /\ s.cont = "strip" /\ s.j = k /\ s.at = proc.at
  BY <1>1, <1>3, SavingIs DEF Extends, Conts
<1> HIDE DEF s, m
<1>6. /\ m \in Memory /\ m.pc = "save" /\ m.cont = "strip" /\ m.j = k /\ m.at = proc.at
      /\ Due(m) = "strip"
  BY <1>4, <1>5 DEF Memory, Due
<1>7. Placed(m)
  BY <1>1, <1>6 DEF Placed
<1>8. Suits(m, live, journal, receipt)
  BY <1>1, <1>3, <1>6, <1>7, GuardedSaves DEF Guarded, Conts
<1> QED BY <1>8 DEF m

LEMMA BindKeeps == ASSUME HandoverInv, Bind PROVE HandoverInv'
<1>1. proc.answer \in Objects /\ proc.answer.uid = "ours" /\ proc.pc = "bind"
  BY DEF Bind, HandoverInv, Fit, Placed, Due, Memory
<1> QED BY <1>1, BoundSuits, QuietGoes DEF Bind, Step

LEMMA LookKeeps == ASSUME HandoverInv, Look PROVE HandoverInv'
<1>1. proc.pc = "look" /\ proc.pc \in Guarded /\ proc.at \in Objs
  BY DEF Look, Guarded, HandoverInv, Fit, Placed, Due
<1>2. CASE ExactMarked(live[proc.at])
  <2>1. live[proc.at] \in Objects /\ live[proc.at].uid = "ours"
    BY <1>1, <1>2 DEF ExactMarked, HandoverInv, Ahead
  <2> QED BY <1>1, <1>2, <2>1, BoundSuits, QuietGoes DEF Look, Step
<1>3. CASE ~ExactMarked(live[proc.at])
  BY <1>1, <1>3, AbortHere, QuietGoes DEF Look, Step
<1> QED BY <1>2, <1>3

LEMMA StripKeeps == ASSUME HandoverInv, Strip PROVE HandoverInv'
<1> DEFINE k == [proc.j EXCEPT !.strip[proc.at] = "open"]
           m == Saving(k, "unmark")
<1>1. proc.pc = "strip" /\ proc.pc \in Guarded /\ proc.at \in Objs /\ proc' = m
  BY DEF Strip, Guarded, Step, HandoverInv, Fit, Placed, Due
<1>2. Extends(k, proc.j)
  BY <1>1, InGuard, NotesStrip DEF Stages
<1> HIDE DEF k
<1>3. /\ m \in Memory /\ m.pc = "save" /\ m.cont = "unmark" /\ Due(m) = "unmark"
      /\ m.j = k /\ m.at = proc.at
  BY <1>1, <1>2, InGuard, SavingIs DEF Extends, Conts
<1> HIDE DEF m
<1>4. Placed(m)
  BY <1>1, <1>3 DEF Placed
<1>5. Suits(m, live, journal, receipt)
  BY <1>1, <1>2, <1>3, <1>4, GuardedSaves DEF Guarded, Conts
<1> QED BY <1>1, <1>5, QuietGoes DEF Strip

LEMMA StrippedIs ==
  ASSUME NEW o \in Objects
  PROVE  /\ Stripped(o) \in Objects /\ Stripped(o).uid = o.uid /\ ~Stripped(o).mark
         /\ Stripped(o).susp = o.susp
<1> o.rv + 1 \in Nat
  BY DEF Objects
<1> QED BY DEF Stripped, Objects

LEMMA UnmarkKeeps == ASSUME HandoverInv, Unmark \/ UnmarkLost PROVE HandoverInv'
<1> DEFINE o == live[proc.at]
           s == Stripped(o)
<1>1. proc.pc = "unmark" /\ proc.pc \in Guarded /\ proc.at \in Objs /\ proc \in Memory
  BY DEF Unmark, UnmarkLost, Guarded, HandoverInv, Fit, Placed, Due
<1>2. Strippable(o) => /\ o \in Objects /\ o # None /\ s \in Objects /\ s.uid = o.uid /\ ~s.mark
                       /\ s.susp = o.susp
  BY <1>1, StrippedIs DEF Strippable, HandoverInv, Ahead
<1>3. Strippable(o) => /\ o.uid = "ours" => Noted(journal, proc.at)
                       /\ proc.at = Kust /\ ~o.susp => journal.recs[Kust] # None
  BY <1>1, <1>2 DEF HandoverInv, Ahead, OursIn
<1> HIDE DEF s
<1>4. Strippable(o) /\ Write(proc.at, s) => Ahead(live', journal)
  BY <1>1, <1>2, <1>3, RunWrites
<1>5. Ahead(live', journal)
  BY <1>4 DEF Unmark, UnmarkLost, HandoverInv, s
<1>6. \/ proc' = [proc EXCEPT !.pc = "relook"]
      \/ s \in Objects /\ proc' = [proc EXCEPT !.pc = "unmarked", !.answer = s]
  BY <1>2 DEF Unmark, UnmarkLost, Step, s
<1>7. /\ proc' \in Memory /\ proc'.pc \in {"relook", "unmarked"} /\ Due(proc') = proc'.pc
      /\ proc'.j = proc.j /\ proc'.at = proc.at
  <2>1. CASE proc' = [proc EXCEPT !.pc = "relook"]
    BY <1>1, <2>1, Turns DEF Guarded
  <2>2. CASE s \in Objects /\ proc' = [proc EXCEPT !.pc = "unmarked", !.answer = s]
    BY <1>1, <2>2 DEF Memory, PCs, Guarded, Due
  <2> QED BY <1>6, <2>1, <2>2
<1>8. Placed(proc')
  BY <1>1, <1>7 DEF Placed
<1>9. Suits(proc', live', journal, receipt)
  BY <1>1, <1>7, <1>8, GuardedMoves DEF Guarded
<1>10. UNCHANGED <<np, journal, receipt, foreign>> /\ faults' \in Nat
  BY DEF Unmark, UnmarkLost, NoAnswer, Fault, HandoverInv
<1> QED BY <1>1, <1>5, <1>9, <1>10, RunGoes DEF HandoverInv

LEMMA CleanedSuits ==
  ASSUME HandoverInv, proc.pc \in {"unmarked", "relook"}
  PROVE  Suits(Cleaned, live, journal, receipt)
<1> DEFINE n == proc.at
           k == [proc.j EXCEPT !.recs[n].clean = TRUE, !.strip[n] = "after"]
           c == IF n < N THEN "create" ELSE "adopt"
           a == IF n < N THEN n + 1 ELSE n
           s == Saving(k, c)
           m == Cleaned
<1>1. proc.pc \in Guarded /\ n \in Objs /\ proc \in Memory /\ proc.j \in Journals
  BY InGuard DEF Guarded, HandoverInv, Fit, Placed, Due
<1>2. CASE proc.j.recs[n] = None
  BY <1>1, <1>2, AbortHere DEF Cleaned
<1>3. CASE proc.j.recs[n] # None
  <2>1. Extends(k, proc.j) /\ k.recs[n] # None
    BY <1>1, <1>3, Cleans
  <2>2. m = [s EXCEPT !.at = a]
    BY <1>3 DEF Cleaned
  <2>3. c \in {"create", "adopt"} /\ a \in Objs /\ a \in 0 .. N /\ (c = "adopt" => n = Kust)
    BY <1>1, Names DEF Kust, Objs
  <2> HIDE DEF k, c, a
  <2>4. /\ s \in Memory /\ s.pc = "save" /\ s.cont = c /\ s.j = k
    BY <1>1, <2>1, <2>3, SavingIs DEF Extends, Conts
  <2> HIDE DEF s, m
  <2>5. /\ m \in Memory /\ m.pc = "save" /\ m.cont = c /\ m.j = k /\ m.at = a /\ Due(m) = c
    BY <2>2, <2>3, <2>4 DEF Memory, Due
  <2>6. Placed(m)
    BY <2>1, <2>3, <2>5 DEF Placed
  <2>7. Suits(m, live, journal, receipt)
    BY <1>1, <2>1, <2>3, <2>5, <2>6, GuardedSaves DEF Guarded, Conts
  <2> QED BY <2>7, Zenon DEF m
<1> QED BY <1>2, <1>3

LEMMA UnmarkedKeeps == ASSUME HandoverInv, Unmarked PROVE HandoverInv'
BY CleanedSuits, QuietGoes DEF Unmarked, Step

LEMMA RelookKeeps == ASSUME HandoverInv, Relook PROVE HandoverInv'
<1> DEFINE o == live[proc.at]
           k == [proc.j EXCEPT !.strip[Kust] = "conflict"]
           s == Saving(k, "strip")
           m == [s EXCEPT !.retry = TRUE, !.answer = o]
<1>1. /\ proc.pc = "relook" /\ proc.pc \in Guarded /\ proc.at \in Objs /\ proc \in Memory
      /\ o \in Objects \cup {None}
  BY DEF Relook, Guarded, HandoverInv, Fit, Placed, Due, Ahead
<1>2. proc' = Cleaned \/ proc' = Abort(proc.j, receipt) \/ (ExactMarked(o) /\ proc' = m)
  BY DEF Relook, Step
<1>3. CASE proc' = Cleaned
  BY <1>1, <1>3, CleanedSuits, QuietGoes DEF Relook
<1>4. CASE proc' = Abort(proc.j, receipt)
  BY <1>1, <1>4, AbortHere, QuietGoes DEF Relook
<1>5. CASE ExactMarked(o) /\ proc' = m
  <2>1. Extends(k, proc.j) /\ o \in Objects
    BY <1>1, <1>5, InGuard, NotesStrip, Names DEF Stages, ExactMarked
  <2> HIDE DEF k
  <2>2. s \in Memory /\ s.pc = "save" /\ s.cont = "strip" /\ s.j = k /\ s.at = proc.at
    BY <1>1, <2>1, SavingIs DEF Extends, Conts
  <2> HIDE DEF s, o
  <2>3. /\ m \in Memory /\ m.pc = "save" /\ m.cont = "strip" /\ Due(m) = "strip"
        /\ m.j = k /\ m.at = proc.at
    BY <2>1, <2>2 DEF Memory, Due
  <2> HIDE DEF m
  <2>4. Placed(m)
    BY <1>1, <2>3 DEF Placed
  <2>5. Suits(m, live, journal, receipt)
    BY <1>1, <2>1, <2>3, <2>4, GuardedSaves DEF Guarded, Conts
  <2> QED BY <1>5, <2>5, QuietGoes DEF Relook
<1> QED BY <1>2, <1>3, <1>4, <1>5

LEMMA AdoptKeeps == ASSUME HandoverInv, Adopt \/ AdoptLost PROVE HandoverInv'
<1>1. proc.pc = "adopt" /\ proc.pc \in Guarded /\ proc \in Memory /\ proc.j.recs[Kust] # None
  BY DEF Adopt, AdoptLost, Guarded, HandoverInv, Fit, Placed, Due
<1>2. /\ np' \in Policies /\ UNCHANGED <<live, journal, receipt, foreign>> /\ faults' \in Nat
  <2>1. np.rv + 1 \in Nat /\ np \in Policies
    BY DEF HandoverInv, Policies
  <2> QED BY <2>1 DEF Adopt, AdoptLost, Policies, NoAnswer, Fault, HandoverInv
<1>3. proc' = Abort(proc.j, receipt) \/ proc' = [proc EXCEPT !.pc = "activate"]
  BY DEF Adopt, AdoptLost, Step
<1>4. CASE proc' = Abort(proc.j, receipt)
  BY <1>1, <1>2, <1>4, AbortHere, RunGoes DEF HandoverInv
<1>5. CASE proc' = [proc EXCEPT !.pc = "activate"]
  <2>1. /\ proc' \in Memory /\ proc'.pc = "activate" /\ Due(proc') = "activate" /\ proc'.j = proc.j
    BY <1>1, <1>5, Turns DEF Guarded
  <2>2. Placed(proc')
    BY <1>1, <2>1 DEF Placed
  <2>3. Suits(proc', live, journal, receipt)
    BY <1>1, <2>1, <2>2, GuardedMoves DEF Guarded
  <2> QED BY <1>1, <1>2, <2>3, RunGoes DEF HandoverInv
<1> QED BY <1>3, <1>4, <1>5

LEMMA ActivateKeeps == ASSUME HandoverInv, Activate PROVE HandoverInv'
<1> DEFINE o == live[Kust]
<1>1. /\ proc.pc = "activate" /\ proc.pc \in Guarded /\ proc \in Memory /\ proc.j.recs[Kust] # None
      /\ o \in Objects \cup {None}
  BY Names DEF Activate, Guarded, HandoverInv, Fit, Placed, Due, Ahead
<1>2. \/ proc' = Abort(proc.j, receipt)
      \/ o # None /\ proc' = [proc EXCEPT !.pc = "unsuspend", !.answer = o]
  BY DEF Activate, Step
<1>3. CASE proc' = Abort(proc.j, receipt)
  BY <1>1, <1>3, AbortHere, QuietGoes DEF Activate
<1>4. CASE o # None /\ proc' = [proc EXCEPT !.pc = "unsuspend", !.answer = o]
  <2> HIDE DEF o
  <2>1. /\ proc' \in Memory /\ proc'.pc = "unsuspend" /\ Due(proc') = "unsuspend" /\ proc'.j = proc.j
    BY <1>1, <1>4 DEF Memory, PCs, Guarded, Due
  <2>2. Placed(proc')
    BY <1>1, <2>1 DEF Placed
  <2>3. Suits(proc', live, journal, receipt)
    BY <1>1, <2>1, <2>2, GuardedMoves DEF Guarded
  <2> QED BY <2>3, QuietGoes DEF Activate
<1> QED BY <1>2, <1>3, <1>4

LEMMA UnsuspendedIs ==
  ASSUME NEW o \in Objects
  PROVE  LET s == [o EXCEPT !.susp = FALSE, !.rv = @ + 1] IN
         s \in Objects /\ s.uid = o.uid /\ s.mark = o.mark
<1> o.rv + 1 \in Nat
  BY DEF Objects
<1> QED BY DEF Objects

LEMMA UnsuspendKeeps == ASSUME HandoverInv, Unsuspend \/ UnsuspendLost PROVE HandoverInv'
<1> DEFINE o == live[Kust]
           s == [o EXCEPT !.susp = FALSE, !.rv = @ + 1]
<1>1. /\ proc.pc = "unsuspend" /\ proc.pc \in Guarded /\ proc \in Memory
      /\ journal.recs[Kust] # None /\ o \in Objects \cup {None}
  BY Names, InGuard DEF Unsuspend, UnsuspendLost, Guarded, HandoverInv, Fit, Placed, Due, Ahead
<1>2. Unsuspendable(o) => s \in Objects /\ s.uid = o.uid /\ s.mark = o.mark /\ o # None
  BY <1>1, UnsuspendedIs DEF Unsuspendable
<1>3. Unsuspendable(o) => /\ o.uid = "ours" => Noted(journal, Kust)
                          /\ o.mark => o.uid = "ours"
  BY <1>1, <1>2, Names DEF HandoverInv, Ahead, OursIn
<1>4. UNCHANGED live \/ (Unsuspendable(o) /\ Write(Kust, s))
  BY DEF Unsuspend, UnsuspendLost
<1> HIDE DEF s, o
<1>5. Ahead(live', journal)
  BY <1>1, <1>2, <1>3, <1>4, RunWrites, Names DEF HandoverInv
<1>6. UNCHANGED <<np, journal, receipt, foreign>> /\ faults' \in Nat /\ np' \in Policies
  BY DEF Unsuspend, UnsuspendLost, NoAnswer, Fault, HandoverInv
<1>7. proc' = Abort(proc.j, receipt) \/ proc' = [proc EXCEPT !.pc = "ready"]
  BY DEF Unsuspend, UnsuspendLost, Step
<1>8. CASE proc' = Abort(proc.j, receipt)
  BY <1>1, <1>5, <1>6, <1>8, AbortHere, RunGoes
<1>9. CASE proc' = [proc EXCEPT !.pc = "ready"]
  <2>1. /\ proc' \in Memory /\ proc'.pc = "ready" /\ Due(proc') = "ready" /\ proc'.j = proc.j
    BY <1>1, <1>9, Turns DEF Guarded
  <2>2. Placed(proc')
    BY <2>1 DEF Placed
  <2>3. Suits(proc', live', journal, receipt)
    BY <1>1, <2>1, <2>2, GuardedMoves DEF Guarded
  <2> QED BY <1>1, <1>5, <1>6, <2>3, RunGoes
<1> QED BY <1>7, <1>8, <1>9

LEMMA ReadyKeeps == ASSUME HandoverInv, Ready \/ ReadyTimeout PROVE HandoverInv'
<1>1. proc.pc = "ready" /\ proc.pc \in Guarded /\ proc \in Memory
  BY DEF Ready, ReadyTimeout, Guarded, HandoverInv, Fit
<1>2. proc' = Abort(proc.j, receipt) \/ proc' = [proc EXCEPT !.pc = "final", !.at = 0]
  BY DEF Ready, ReadyTimeout, Step
<1>3. CASE proc' = Abort(proc.j, receipt)
  BY <1>1, <1>3, AbortHere, QuietGoes DEF Ready, ReadyTimeout
<1>4. CASE proc' = [proc EXCEPT !.pc = "final", !.at = 0]
  <2>1. /\ proc' \in Memory /\ proc'.pc = "final" /\ Due(proc') = "final" /\ proc'.j = proc.j
    BY <1>1, <1>4, Names DEF Memory, PCs, Guarded, Due
  <2>2. Placed(proc')
    BY <2>1 DEF Placed
  <2>3. Suits(proc', live, journal, receipt)
    BY <1>1, <2>1, <2>2, GuardedMoves DEF Guarded
  <2> QED BY <2>3, QuietGoes DEF Ready, ReadyTimeout
<1> QED BY <1>2, <1>3, <1>4

LEMMA FinalKeeps == ASSUME HandoverInv, Final PROVE HandoverInv'
<1> DEFINE k == [proc.j EXCEPT !.status = "finalizing"]
           m == Saving(k, "receipt")
<1>1. proc.pc = "final" /\ proc.pc \in Guarded /\ proc \in Memory /\ proc.at \in 0 .. N
  BY DEF Final, Guarded, HandoverInv, Fit, Memory
<1>2. \/ proc' = Abort(proc.j, receipt)
      \/ proc.at < N /\ proc' = [proc EXCEPT !.at = proc.at + 1]
      \/ proc' = m
  BY DEF Final, Step
<1>3. CASE proc' = Abort(proc.j, receipt)
  BY <1>1, <1>3, AbortHere, QuietGoes DEF Final
<1>4. CASE proc.at < N /\ proc' = [proc EXCEPT !.at = proc.at + 1]
  <2>1. proc.at + 1 \in 0 .. N
    BY <1>1, <1>4, Names
  <2>2. /\ proc' \in Memory /\ proc'.pc = "final" /\ Due(proc') = "final" /\ proc'.j = proc.j
    BY <1>1, <1>4, <2>1 DEF Memory, Due
  <2>3. Placed(proc')
    BY <2>2 DEF Placed
  <2>4. Suits(proc', live, journal, receipt)
    BY <1>1, <2>2, <2>3, GuardedMoves DEF Guarded
  <2> QED BY <2>4, QuietGoes DEF Final
<1>5. CASE proc' = m
  <2>1. k \in Journals /\ k.recs = proc.j.recs /\ k.create = proc.j.create /\ k.status = "finalizing"
    BY <1>1, InGuard DEF Journals
  <2> HIDE DEF k
  <2>2. m \in Memory /\ m.pc = "save" /\ m.cont = "receipt" /\ Due(m) = "receipt" /\ m.j = k
    BY <1>1, <2>1, SavingIs DEF Conts
  <2> HIDE DEF m
  <2>3. Carries(journal, k) /\ WellKept(k) /\ k.status \in Open
    BY <1>1, <2>1, InGuard DEF Carries, Noted, WellKept, Open
  <2>4. Fit(m, journal, receipt)
    BY <1>1, <2>1, <2>2, <2>3, InGuard
    DEF Fit, Placed, Beginning, Backed, Running, Undoing, Reporting, Guarded, Discovering,
        RollingBack, Suspending, Restoring, Deleting, Conts
  <2>5. Suits(m, live, journal, receipt)
    BY <2>2, <2>4 DEF Suits, Sees, RollingBack, Suspending, Restoring, Deleting
  <2> QED BY <1>5, <2>5, QuietGoes DEF Final
<1> QED BY <1>2, <1>3, <1>4, <1>5

LEMMA CommitReceiptKeeps == ASSUME HandoverInv, CommitReceipt PROVE HandoverInv'
<1> DEFINE k == [proc.j EXCEPT !.status = "completed"]
           m == Saving(k, "end")
<1>1. /\ proc.pc = "receipt" /\ proc.pc \in Guarded /\ proc \in Memory /\ Due(proc) = "receipt"
      /\ journal.status = "finalizing"
  BY InGuard DEF CommitReceipt, Guarded, HandoverInv, Fit, Running
<1>2. Filed(journal, receipt') /\ receipt' \in {None, "completed"}
  <2>1. receipt' \in {None, "completed"} /\ Filed(journal, None) /\ receipt = None
    BY <1>1, InGuard DEF CommitReceipt, Fit
  <2>2. Filed(journal, "completed")
    BY <1>1, <2>1, InGuard, Kinds2, NoneIsNothing DEF Filed, Receipts, Terminal, Unsettled, Open
  <2> QED BY <2>1, <2>2
<1>3. UNCHANGED <<live, np, journal, foreign>> /\ faults' \in Nat
  BY DEF CommitReceipt, Fault, HandoverInv
<1>4. Suits(proc', live, journal, receipt')
  <2>1. CASE receipt' = "completed" /\ proc' = m
    <3>1. k \in Journals /\ k.recs = proc.j.recs /\ k.create = proc.j.create /\ k.status = "completed"
      BY <1>1, InGuard DEF Journals
    <3> HIDE DEF k
    <3>2. m \in Memory /\ m.pc = "save" /\ m.cont = "end" /\ Due(m) = "end" /\ m.j = k
      BY <1>1, <3>1, SavingIs DEF Conts
    <3> HIDE DEF m
    <3>3. Carries(journal, k) /\ WellKept(k)
      BY <1>1, <3>1, InGuard DEF Carries, Noted, WellKept
    <3>4. Fit(m, journal, receipt')
      BY <1>1, <1>2, <2>1, <3>1, <3>2, <3>3, InGuard, Kinds2
      DEF Fit, Placed, Beginning, Backed, Running, Undoing, Reporting, Guarded, Discovering,
          RollingBack, Suspending, Restoring, Deleting, Conts, Terminal
    <3> QED BY <2>1, <3>2, <3>4 DEF Suits, Sees, RollingBack, Suspending, Restoring, Deleting
  <2>2. CASE proc' = Raised("receipt")
    <3>1. proc' = Abort(proc.j, receipt')
      BY <2>2 DEF Raised, Guarded, Suspending, Restoring, Deleting
    <3>2. Carries(journal, proc.j)
      BY InGuard, <1>1 DEF Carries
    <3> QED BY <1>1, <1>2, <3>1, <3>2, InGuard, AbortSuits
  <2> QED BY <2>1, <2>2 DEF CommitReceipt, Step
<1>5. Claims(proc', live, np, journal, receipt', foreign)
  BY <1>2, <1>4, Kinds2 DEF Claims, Suits
<1> QED BY <1>3, <1>4, <1>5 DEF Suits, HandoverInv

LEMMA FinishKeeps == ASSUME HandoverInv, Finish PROVE HandoverInv'
<1> DEFINE k == [proc.j EXCEPT !.status = "completed"]
           m == Saving(k, "end")
<1>1. /\ proc.pc = "finish" /\ proc \in Memory /\ journal = proc.j /\ receipt = "completed"
      /\ journal # None /\ WellKept(proc.j) /\ Filed(journal, receipt) /\ proc.j \in Journals
  BY DEF Finish, HandoverInv, Fit, Reporting, Backed, Due, Memory
<1>2. CASE proc' = NoProcess
  BY <1>1, <1>2, IdleSuits, QuietGoes DEF Finish
<1>3. CASE proc' = m
  <2>1. k \in Journals /\ k.recs = proc.j.recs /\ k.create = proc.j.create /\ k.status = "completed"
    BY <1>1 DEF Journals
  <2> HIDE DEF k
  <2>2. m \in Memory /\ m.pc = "save" /\ m.cont = "end" /\ Due(m) = "end" /\ m.j = k
    BY <1>1, <2>1, SavingIs DEF Conts
  <2> HIDE DEF m
  <2>3. Carries(journal, k) /\ WellKept(k)
    BY <1>1, <2>1 DEF Carries, Noted, WellKept
  <2>4. Fit(m, journal, receipt)
    BY <1>1, <2>1, <2>2, <2>3, Kinds2
    DEF Fit, Placed, Beginning, Backed, Running, Undoing, Reporting, Guarded, Discovering,
        RollingBack, Suspending, Restoring, Deleting, Conts, Terminal
  <2>5. Suits(m, live, journal, receipt)
    BY <2>2, <2>4 DEF Suits, Sees, RollingBack, Suspending, Restoring, Deleting
  <2> QED BY <1>3, <2>5, QuietGoes DEF Finish
<1> QED BY <1>2, <1>3 DEF Finish, Step

-----
\* The command is entered

LEMMA AtRest ==
  ASSUME HandoverInv, proc.pc \in {"idle", "preflight", "reserve"}
  PROVE  /\ proc \in Memory /\ Filed(journal, receipt) /\ Due(proc) = proc.pc
         /\ proc.pc # "idle" => journal = None /\ receipt = None /\ proc.j = FreshJournal
BY DEF HandoverInv, Fit, Beginning, Due

LEMMA EnterKeeps == ASSUME HandoverInv, Enter PROVE HandoverInv'
<1>0. /\ proc \in Memory /\ Filed(journal, receipt) /\ NoProcess \in Memory /\ Quiet
      /\ NoProcess.claim = None
  BY AtRest, IdleMemory DEF Enter, NoProcess
<1>1. CASE journal = None /\ receipt = None /\ proc' = [NoProcess EXCEPT !.pc = "preflight"]
  <2>1. /\ proc' \in Memory /\ proc'.pc = "preflight" /\ Due(proc') = "preflight"
        /\ proc'.j = FreshJournal
    BY <1>0, <1>1 DEF Memory, PCs, Due, NoProcess
  <2>2. Fit(proc', journal, receipt)
    BY <1>0, <1>1, <2>1, FreshIsEmpty
    DEF Fit, Placed, Beginning, Backed, Running, Undoing, Reporting, Guarded, Discovering,
        RollingBack, Suspending, Restoring, Deleting
  <2>3. Suits(proc', live, journal, receipt)
    BY <2>1, <2>2 DEF Suits, Sees, RollingBack, Suspending, Restoring, Deleting
  <2> QED BY <1>0, <2>3, QuietGoes
<1>2. ASSUME journal # None
      PROVE  journal \in Journals /\ WellKept(journal) /\ Carries(journal, journal)
  BY <1>0, <1>2 DEF Filed, Carries
<1>3. CASE /\ journal # None /\ receipt = "completed"
           /\ proc' = [NoProcess EXCEPT !.j = journal, !.pc = "finish"]
  <2>1. /\ proc' \in Memory /\ proc'.pc = "finish" /\ Due(proc') = "finish" /\ proc'.j = journal
    BY <1>0, <1>2, <1>3 DEF Memory, PCs, Concluding, Due
  <2>2. Fit(proc', journal, receipt)
    BY <1>0, <1>2, <1>3, <2>1
    DEF Fit, Placed, Beginning, Backed, Running, Undoing, Reporting, Guarded, Discovering,
        RollingBack, Suspending, Restoring, Deleting
  <2>3. Suits(proc', live, journal, receipt)
    BY <2>1, <2>2 DEF Suits, Sees, RollingBack, Suspending, Restoring, Deleting
  <2> QED BY <1>0, <2>3, QuietGoes
<1>4. CASE /\ journal # None /\ receipt \in RollbackStatuses
           /\ proc' = [NoProcess EXCEPT !.j = journal, !.pc = "rfinal", !.claim = receipt]
  <2>1. /\ proc' \in Memory /\ proc'.pc = "rfinal" /\ Due(proc') = "rfinal" /\ proc'.j = journal
        /\ proc'.claim = receipt
    BY <1>0, <1>2, <1>4, Kinds2 DEF Memory, PCs, Concluding, Due
  <2>2. Fit(proc', journal, receipt)
    BY <1>0, <1>2, <1>4, <2>1
    DEF Fit, Placed, Beginning, Backed, Running, Undoing, Reporting, Guarded, Discovering,
        RollingBack, Suspending, Restoring, Deleting
  <2>3. Suits(proc', live, journal, receipt)
    BY <2>1, <2>2 DEF Suits, Sees, RollingBack, Suspending, Restoring, Deleting
  <2> QED BY <1>0, <2>3, QuietGoes
<1>5. CASE /\ journal # None /\ receipt = None /\ journal.status # "completed"
           /\ proc' = Recover(journal)
  <2>0. journal.status \in Unsettled /\ Filed(journal, None)
    BY <1>0, <1>2, <1>5, Kinds2 DEF Filed, Terminal, Journals, Unsettled, Open
  <2>1. CASE journal.status \in {"in-progress", "finalizing"}
    <3>1. proc' = [NoProcess EXCEPT !.j = journal, !.pc = "rediscover", !.at = 1]
      BY <1>5, <2>1 DEF Recover
    <3>2. /\ proc' \in Memory /\ proc'.pc = "rediscover" /\ Due(proc') = "rediscover"
          /\ proc'.j = journal /\ proc'.at = 1
      BY <1>0, <1>2, <1>5, <3>1, Names DEF Memory, PCs, Discovering, Due
    <3>3. Fit(proc', journal, receipt)
      BY <1>0, <1>2, <1>5, <2>1, <3>2, Names
      DEF Fit, Placed, Beginning, Backed, Running, Undoing, Reporting, Guarded, Discovering,
          RollingBack, Suspending, Restoring, Deleting, Open
    <3>4. Suits(proc', live, journal, receipt)
      BY <3>2, <3>3 DEF Suits, Sees, RollingBack, Suspending, Restoring, Deleting
    <3> QED BY <1>0, <3>4, QuietGoes
  <2>2. CASE journal.status \notin {"in-progress", "finalizing"} /\ journal.rollback = "pending"
    <3>1. proc' = Rollback(journal, TRUE, TRUE)
      BY <1>5, <2>2 DEF Recover
    <3> QED BY <1>0, <1>2, <1>5, <2>0, <3>1, RollbackSuits, QuietGoes
  <2>3. CASE journal.status \notin {"in-progress", "finalizing"} /\ journal.rollback # "pending"
    <3> DEFINE c == Named(TRUE, journal.rollback \in Incomplete)
    <3>0. journal.status = "rollback-finalizing" /\ journal.rollback \in RollbackStatuses
      BY <1>2, <1>5, <2>0, <2>3 DEF Unsettled, Open, WellKept, Journals
    <3>1. c \in RollbackStatuses /\ c \in Receipts /\ Agree(c, journal.rollback)
      <4>1. CASE journal.rollback \in Incomplete
        <5>1. c = Named(TRUE, TRUE) /\ c \in Incomplete
          BY <4>1, NamedIs DEF Named
        <5> QED BY <4>1, <5>1, Kinds2 DEF Agree
      <4>2. CASE journal.rollback \notin Incomplete
        <5>1. c = Named(TRUE, FALSE) /\ c \in Complete
          BY <4>2, NamedIs DEF Named
        <5> QED BY <3>0, <4>2, <5>1, Kinds2 DEF Agree
      <4> QED BY <4>1, <4>2
    <3>2. proc' = [NoProcess EXCEPT !.j = journal, !.pc = "rebuild", !.claim = c]
      BY <1>5, <2>3, <3>0 DEF Recover
    <3> HIDE DEF c
    <3>3. /\ proc' \in Memory /\ proc'.pc = "rebuild" /\ Due(proc') = "rebuild"
          /\ proc'.j = journal /\ proc'.claim = c
      BY <1>0, <1>2, <1>5, <3>1, <3>2 DEF Memory, PCs, Concluding, Due
    <3>4. Fit(proc', journal, receipt)
      BY <1>0, <1>2, <1>5, <2>0, <3>0, <3>1, <3>3
      DEF Fit, Placed, Beginning, Backed, Running, Undoing, Reporting, Guarded, Discovering,
          RollingBack, Suspending, Restoring, Deleting
    <3>5. Suits(proc', live, journal, receipt)
      BY <3>3, <3>4 DEF Suits, Sees, RollingBack, Suspending, Restoring, Deleting
    <3> QED BY <1>0, <3>5, QuietGoes
  <2> QED BY <2>1, <2>2, <2>3
<1> QED BY <1>1, <1>3, <1>4, <1>5 DEF Enter, Step

LEMMA PreflightKeeps == ASSUME HandoverInv, Preflight PROVE HandoverInv'
<1>1. /\ proc.pc = "preflight" /\ proc \in Memory /\ Filed(journal, receipt) /\ journal = None
      /\ receipt = None /\ proc.j = FreshJournal /\ proc.at \in 0 .. N
  BY AtRest DEF Preflight, Memory
<1>2. /\ proc' \in Memory /\ proc'.pc \in {"preflight", "reserve"} /\ Due(proc') = proc'.pc
      /\ proc'.j = FreshJournal
  <2>1. CASE proc.at < N /\ proc' = [proc EXCEPT !.at = proc.at + 1]
    <3>1. proc.at + 1 \in 0 .. N
      BY <1>1, <2>1, Names
    <3> QED BY <1>1, <2>1, <3>1 DEF Memory, Due
  <2>2. CASE proc' = [proc EXCEPT !.pc = "reserve"]
    BY <1>1, <2>2 DEF Memory, PCs, Due
  <2> QED BY <2>1, <2>2 DEF Preflight, Step
<1>3. Fit(proc', journal, receipt)
  BY <1>1, <1>2, FreshIsEmpty
  DEF Fit, Placed, Beginning, Backed, Running, Undoing, Reporting, Guarded, Discovering,
      RollingBack, Suspending, Restoring, Deleting
<1>4. Suits(proc', live, journal, receipt)
  BY <1>2, <1>3 DEF Suits, Sees, RollingBack, Suspending, Restoring, Deleting
<1> QED BY <1>4, QuietGoes DEF Preflight

LEMMA BlockedKeeps == ASSUME HandoverInv, Blocked PROVE HandoverInv'
<1>1. journal = None /\ receipt = None /\ Filed(journal, receipt)
  BY AtRest DEF Blocked
<1>2. receipt' \in {None, "blocked"} /\ proc' = NoProcess
  BY <1>1 DEF Blocked, Step
<1>3. Filed(journal, receipt')
  BY <1>1, <1>2, Kinds2, NoneIsNothing DEF Filed, Receipts
<1>4. Suits(proc', live, journal, receipt')
  BY <1>2, <1>3, IdleSuits
<1>5. UNCHANGED <<live, np, journal, foreign>> /\ faults' \in Nat
  BY DEF Blocked, Fault, HandoverInv
<1>6. Claims(proc', live, np, journal, receipt', foreign)
  BY <1>2, <1>4, Kinds2 DEF Claims, Suits
<1> QED BY <1>4, <1>5, <1>6 DEF Suits, HandoverInv

LEMMA ReserveKeeps == ASSUME HandoverInv, Reserve PROVE HandoverInv'
<1>1. /\ journal = None /\ receipt = None /\ proc \in Memory /\ proc.j = FreshJournal
      /\ proc.pc = "reserve" /\ Filed(None, None)
  BY AtRest DEF Reserve
<1>2. /\ UNCHANGED <<live, np, receipt, foreign>> /\ faults' \in Nat
      /\ journal' \in {None, FreshJournal}
      /\ \/ journal' = FreshJournal /\ proc' = [proc EXCEPT !.pc = "create", !.at = 1]
         \/ proc' = NoProcess
  BY DEF Reserve, Step, Fault, HandoverInv
<1>3. Filed(journal', None) /\ Ahead(live, journal') /\ Vouched(journal')
  <2>1. Filed(FreshJournal, None)
    BY <1>1, FreshIsEmpty, Kinds2, NoneIsNothing DEF Filed, Terminal, Unsettled, Open
  <2>2. Ahead(live, None) => Ahead(live, FreshJournal)
    BY FreshIsEmpty DEF Ahead
  <2> QED BY <1>1, <1>2, <2>1, <2>2, Kinds2 DEF HandoverInv, Vouched
<1>4. Suits(proc', live, journal', receipt)
  <2>1. CASE proc' = NoProcess
    BY <1>1, <1>3, <2>1, IdleSuits
  <2>2. CASE journal' = FreshJournal /\ proc' = [proc EXCEPT !.pc = "create", !.at = 1]
    <3>1. /\ proc' \in Memory /\ proc'.pc = "create" /\ Due(proc') = "create"
          /\ proc'.j = FreshJournal /\ proc'.at = 1
      BY <1>1, <2>2, Names DEF Memory, PCs, Guarded, Due, Objs
    <3>2. Carries(FreshJournal, FreshJournal)
      BY DEF Carries
    <3>3. Fit(proc', journal', receipt)
      BY <1>1, <1>3, <2>2, <3>1, <3>2, Names, FreshIsEmpty, NoneIsNothing
      DEF Fit, Placed, Beginning, Backed, Running, Undoing, Reporting, Guarded, Discovering,
          RollingBack, Suspending, Restoring, Deleting, Open
    <3> QED BY <3>1, <3>3 DEF Suits, Sees, RollingBack, Suspending, Restoring, Deleting
  <2> QED BY <1>2, <2>1, <2>2
<1> QED BY <1>2, <1>3, <1>4, Proceeds

-----
\* The rollback

LEMMA InRollback ==
  ASSUME HandoverInv, Due(proc) \in RollingBack
  PROVE  /\ Fit(proc, journal, None) /\ receipt = None /\ proc \in Memory /\ Sees(proc, live)
         /\ journal \in Journals /\ journal # None /\ proc.j \in Journals
         /\ Carries(journal, proc.j) /\ WellKept(proc.j)
         /\ proc.j.status \in Unsettled /\ journal.status \in Unsettled
<1>1. Due(proc) \notin {"idle", "preflight", "reserve"}
  BY DEF RollingBack, Suspending, Restoring, Deleting
<1> QED BY <1>1 DEF HandoverInv, Fit, Filed, Backed, Undoing, Memory

\* It goes on from the journal it has.
LEMMA RollsOn ==
  ASSUME HandoverInv, Due(proc) \in RollingBack, NEW lv, NEW m \in Memory, m.j = proc.j,
         Due(m) \in RollingBack, m.pc = Due(m) \/ (m.pc = "save" /\ m.cont \in Conts),
         Placed(m), Sees(m, lv)
  PROVE  Suits(m, lv, journal, receipt)
<1>1. Fit(m, journal, receipt)
  BY InRollback
  DEF Fit, Beginning, Backed, Running, Undoing, Reporting, Guarded, Discovering, RollingBack,
      Suspending, Restoring, Deleting
<1> QED BY <1>1 DEF Suits, RollingBack, Suspending, Restoring, Deleting

LEMMA RollGoes ==
  ASSUME HandoverInv, Due(proc) \in RollingBack, UNCHANGED <<journal, receipt, foreign>>,
         faults' \in Nat, np' \in Policies, Ahead(live', journal),
         Suits(proc', live', journal, receipt)
  PROVE  HandoverInv'
<1>1. receipt \notin Complete
  BY InRollback, Kinds2
<1>2. Claims(proc', live', np', journal, receipt, foreign)
  BY <1>1, Kinds2 DEF Claims, Suits
<1> QED BY <1>2 DEF HandoverInv, Suits

\* An unsuspended Kustomization is one that the memory has a record of.
LEMMA RunsRecorded ==
  ASSUME HandoverInv, Due(proc) \in RollingBack, proc.j.recs[Kust] = None
  PROVE  Halted(live)
BY InRollback, Names DEF HandoverInv, Ahead, Carries, Halted

LEMMA SuspendKeeps == ASSUME HandoverInv, Suspend PROVE HandoverInv'
<1> DEFINE o == live[Kust]
           s == Saving(proc.j, "suspending")
<1>1. /\ proc.pc = "suspend" /\ Due(proc) = "suspend" /\ Due(proc) \in RollingBack
      /\ proc \in Memory /\ o \in Objects \cup {None} /\ proc.j \in Journals
  BY Names DEF Suspend, Due, RollingBack, Suspending, HandoverInv, Fit, Ahead, Memory
<1>2. \/ (proc.j.recs[Kust] = None \/ o = None) /\ proc' = [proc EXCEPT !.pc = "restore", !.gone = TRUE]
      \/ o # None /\ proc' = [s EXCEPT !.answer = o]
      \/ o # None /\ SuspensionProof(proc.j, o) /\ proc' = [proc EXCEPT !.pc = "restore"]
      \/ proc' = Unproven
  BY DEF Suspend, Step
<1>3. CASE (proc.j.recs[Kust] = None \/ o = None) /\ proc' = [proc EXCEPT !.pc = "restore", !.gone = TRUE]
  <2>1. /\ proc' \in Memory /\ proc'.pc = "restore" /\ Due(proc') = "restore" /\ proc'.j = proc.j
    BY <1>1, <1>3 DEF Memory, PCs, RollingBack, Restoring, Due
  <2>2. Halted(live)
    BY <1>1, <1>3, RunsRecorded DEF Halted
  <2>3. Placed(proc') /\ Sees(proc', live)
    BY <1>3, <2>1, <2>2 DEF Placed, Sees, OursIn
  <2>4. Suits(proc', live, journal, receipt)
    BY <1>1, <2>1, <2>3, RollsOn DEF RollingBack, Restoring
  <2> QED BY <2>4, QuietGoes DEF Suspend
<1>4. CASE o # None /\ proc' = [s EXCEPT !.answer = o]
  <2>1. s \in Memory /\ s.pc = "save" /\ s.cont = "suspending" /\ s.j = proc.j /\ s.gone = proc.gone
    BY <1>1, SavingIs DEF Conts
  <2> HIDE DEF s, o
  <2>2. /\ proc' \in Memory /\ proc'.pc = "save" /\ Due(proc') = "suspending" /\ proc'.j = proc.j
        /\ proc'.cont = "suspending" /\ proc'.gone = proc.gone
    BY <1>1, <1>4, <2>1 DEF Memory, Due
  <2>3. Placed(proc')
    BY <2>2 DEF Placed
  <2>4. Sees(proc', live)
    BY <1>1, <2>2, InRollback DEF Sees
  <2>5. Suits(proc', live, journal, receipt)
    BY <1>1, <2>2, <2>3, <2>4, RollsOn DEF RollingBack, Suspending, Conts
  <2> QED BY <2>5, QuietGoes DEF Suspend
<1>5. CASE o # None /\ SuspensionProof(proc.j, o) /\ proc' = [proc EXCEPT !.pc = "restore"]
  <2>1. /\ proc' \in Memory /\ proc'.pc = "restore" /\ Due(proc') = "restore" /\ proc'.j = proc.j
        /\ proc'.gone = proc.gone
    BY <1>1, <1>5 DEF Memory, PCs, RollingBack, Restoring, Due
  <2>2. Halted(live)
    BY <1>5 DEF Halted, SuspensionProof, Static, ExactMarked
  <2>3. Placed(proc') /\ Sees(proc', live)
    BY <1>1, <2>1, <2>2, InRollback DEF Placed, Sees
  <2>4. Suits(proc', live, journal, receipt)
    BY <1>1, <2>1, <2>3, RollsOn DEF RollingBack, Restoring
  <2> QED BY <2>4, QuietGoes DEF Suspend
<1>6. CASE proc' = Unproven
  BY <1>1, <1>6, UnprovenSuits, QuietGoes DEF Suspend, HandoverInv
<1> QED BY <1>2, <1>3, <1>4, <1>5, <1>6

LEMMA SuspendedIs ==
  ASSUME NEW o \in Objects
  PROVE  /\ Suspended(o) \in Objects /\ Suspended(o).uid = o.uid /\ Suspended(o).mark = o.mark
         /\ Suspended(o).susp /\ Suspended(o).rv > o.rv
<1> o.rv \in Nat /\ o.rv + 1 \in Nat /\ o.rv + 1 > o.rv
  BY DEF Objects
<1> QED BY DEF Suspended, Objects

LEMMA SuspendPatchKeeps == ASSUME HandoverInv, SuspendPatch \/ SuspendLost PROVE HandoverInv'
<1> DEFINE o == live[Kust]
           s == Suspended(o)
<1>1. /\ proc.pc = "suspending" /\ Due(proc) = "suspending" /\ Due(proc) \in RollingBack
      /\ proc \in Memory /\ o \in Objects \cup {None}
  BY Names DEF SuspendPatch, SuspendLost, Due, RollingBack, Suspending, HandoverInv, Fit, Ahead
<1>2. Suspendable(o) => /\ s \in Objects /\ s.uid = o.uid /\ s.mark = o.mark /\ s.susp
                        /\ s.rv > o.rv /\ s # None /\ o # None
  BY <1>1, SuspendedIs, NoneIsNothing DEF Suspendable
<1>3. \/ Suspendable(o) /\ Write(Kust, s) /\ proc' = [proc EXCEPT !.pc = "restore"]
      \/ UNCHANGED live /\ proc' = Unproven
      \/ Suspendable(o) /\ Write(Kust, s) /\ proc' = Unproven
  BY DEF SuspendPatch, SuspendLost, Step
<1>4. UNCHANGED <<np, journal, receipt, foreign>> /\ faults' \in Nat /\ np' \in Policies
  BY DEF SuspendPatch, SuspendLost, NoAnswer, Fault, HandoverInv
<1> HIDE DEF s
<1>5. Suspendable(o) /\ Write(Kust, s) => Ahead(live', journal) /\ Sees(proc, live')
  BY <1>2, Names, Writes DEF Newer
<1> HIDE DEF o
<1>6. CASE UNCHANGED live /\ proc' = Unproven
  BY <1>1, <1>4, <1>6, UnprovenSuits, RollGoes DEF HandoverInv
<1>7. CASE Suspendable(o) /\ Write(Kust, s) /\ proc' = Unproven
  <2>1. Fit(proc, journal, receipt)
    BY DEF HandoverInv
  <2> QED BY <1>1, <1>4, <1>5, <1>7, <2>1, UnprovenSuits, RollGoes
<1>8. CASE Suspendable(o) /\ Write(Kust, s) /\ proc' = [proc EXCEPT !.pc = "restore"]
  <2>1. /\ proc' \in Memory /\ proc'.pc = "restore" /\ Due(proc') = "restore" /\ proc'.j = proc.j
        /\ proc'.gone = proc.gone
    BY <1>1, <1>8 DEF Memory, PCs, RollingBack, Restoring, Due
  <2>2. Halted(live')
    BY <1>2, <1>8, Names DEF Halted, Write, HandoverInv, Ahead
  <2>3. Placed(proc') /\ Sees(proc', live')
    BY <1>1, <1>5, <1>8, <2>1, <2>2 DEF Placed, Sees
  <2>4. Suits(proc', live', journal, receipt)
    BY <1>1, <2>1, <2>3, RollsOn DEF RollingBack, Restoring
  <2> QED BY <1>1, <1>4, <1>5, <1>8, <2>4, RollGoes
<1> QED BY <1>3, <1>6, <1>7, <1>8

LEMMA ToDeleteSuits ==
  ASSUME HandoverInv, Due(proc) \in RollingBack
  PROVE  Suits(ToDelete, live, journal, receipt)
<1> DEFINE m == ToDelete
<1>1. proc \in Memory /\ Sees(proc, live)
  BY InRollback
<1>2. /\ m \in Memory /\ m.pc = "delete" /\ Due(m) = "delete" /\ m.j = proc.j /\ m.gone = proc.gone
  BY <1>1, Names DEF ToDelete, Memory, PCs, RollingBack, Deleting, Due
<1> HIDE DEF m
<1>3. Placed(m) /\ Sees(m, live)
  BY <1>1, <1>2 DEF Placed, Sees
<1>4. Suits(m, live, journal, receipt)
  BY <1>2, <1>3, RollsOn DEF RollingBack, Deleting
<1> QED BY <1>4 DEF m

LEMMA RestoreKeeps == ASSUME HandoverInv, Restore PROVE HandoverInv'
<1> DEFINE s == Saving(proc.j, "restoring")
<1>1. /\ proc.pc = "restore" /\ Due(proc) = "restore" /\ Due(proc) \in RollingBack
      /\ proc \in Memory /\ proc.j \in Journals /\ np.rv \in Nat /\ Sees(proc, live)
  BY DEF Restore, Due, RollingBack, Restoring, HandoverInv, Fit, Memory, Policies
<1>2. proc' = ToDelete \/ proc' = [s EXCEPT !.nprv = np.rv] \/ proc' = Unrestored
  BY DEF Restore, Step, HandoverInv, Policies
<1>3. CASE proc' = ToDelete
  BY <1>1, <1>3, ToDeleteSuits, QuietGoes DEF Restore
<1>4. CASE proc' = [s EXCEPT !.nprv = np.rv]
  <2>1. s \in Memory /\ s.pc = "save" /\ s.cont = "restoring" /\ s.j = proc.j /\ s.gone = proc.gone
    BY <1>1, SavingIs DEF Conts
  <2> HIDE DEF s
  <2>2. /\ proc' \in Memory /\ proc'.pc = "save" /\ Due(proc') = "restoring" /\ proc'.j = proc.j
        /\ proc'.cont = "restoring" /\ proc'.gone = proc.gone
    BY <1>1, <1>4, <2>1 DEF Memory, Due
  <2>3. Placed(proc') /\ Sees(proc', live)
    BY <1>1, <2>2 DEF Placed, Sees
  <2>4. Suits(proc', live, journal, receipt)
    BY <1>1, <2>2, <2>3, RollsOn DEF RollingBack, Restoring, Conts
  <2> QED BY <2>4, QuietGoes DEF Restore
<1>5. CASE proc' = Unrestored
  BY <1>1, <1>5, UnrestoredSuits, QuietGoes DEF Restore, HandoverInv
<1> QED BY <1>2, <1>3, <1>4, <1>5

LEMMA RestorePatchKeeps == ASSUME HandoverInv, RestorePatch \/ RestoreLost PROVE HandoverInv'
<1>1. /\ proc.pc = "restoring" /\ Due(proc) = "restoring" /\ Due(proc) \in RollingBack
  BY DEF RestorePatch, RestoreLost, Due, RollingBack, Restoring
<1>2. /\ UNCHANGED <<live, journal, receipt, foreign>> /\ faults' \in Nat /\ np' \in Policies
  <2>1. np.rv + 1 \in Nat /\ np \in Policies
    BY DEF HandoverInv, Policies
  <2> QED BY <2>1 DEF RestorePatch, RestoreLost, Policies, NoAnswer, Fault, HandoverInv
<1>3. proc' = ToDelete \/ proc' = Unrestored
  BY DEF RestorePatch, RestoreLost, Step
<1>4. Suits(proc', live, journal, receipt)
  BY <1>1, <1>3, ToDeleteSuits, UnrestoredSuits DEF HandoverInv
<1> QED BY <1>1, <1>2, <1>4, RollGoes DEF HandoverInv

\* The object under the cursor is found absent.
LEMMA PastSuits ==
  ASSUME HandoverInv, Due(proc) \in RollingBack, proc.at \in Objs, live[proc.at] = None
  PROVE  Suits(Past, live, journal, receipt)
<1> DEFINE m == Past
           g == proc.gone \/ proc.at = Kust
<1>1. proc \in Memory /\ Sees(proc, live) /\ g \in BOOLEAN /\ proc.at - 1 \in 0 .. N
  BY InRollback, Names DEF Memory
<1>2. m = [proc EXCEPT !.gone = g, !.at = proc.at - 1, !.pc = "delete"]
  BY DEF Past
<1> HIDE DEF m, g
<1>3. /\ m \in Memory /\ m.pc = "delete" /\ Due(m) = "delete" /\ m.j = proc.j /\ m.gone = g
  BY <1>1, <1>2, ZenonT(40) DEF Memory, PCs, RollingBack, Deleting, Due
<1>4. g /\ m.j.recs[Kust] # None => ~OursIn(live, Kust)
  BY <1>1, <1>3 DEF Sees, OursIn, g
<1>5. Placed(m) /\ Sees(m, live)
  BY <1>3, <1>4 DEF Placed, Sees
<1>6. Suits(m, live, journal, receipt)
  BY <1>3, <1>5, RollsOn DEF RollingBack, Deleting
<1> QED BY <1>6 DEF m

LEMMA DeleteKeeps == ASSUME HandoverInv, Delete PROVE HandoverInv'
<1> DEFINE s == Saving(proc.j, "owned")
<1>1. /\ proc.pc = "delete" /\ Due(proc) = "delete" /\ Due(proc) \in RollingBack
      /\ proc \in Memory /\ proc.j \in Journals /\ proc.at \in 0 .. N /\ Sees(proc, live)
  BY DEF Delete, Due, RollingBack, Deleting, HandoverInv, Fit, Memory
<1>2. \/ proc' = [proc EXCEPT !.pc = "settle"]
      \/ /\ proc.at \in Objs
         /\ proc' \in {[proc EXCEPT !.at = proc.at - 1], [proc EXCEPT !.err = TRUE, !.at = proc.at - 1]}
      \/ proc.at \in Objs /\ live[proc.at] = None /\ proc' = Past
      \/ /\ proc.at \in Objs /\ proc.j.recs[proc.at] # None /\ (proc.at # Kust => proc.gone)
         /\ proc' = s
  BY <1>1 DEF Delete, Step, Objs
<1>3. CASE proc' = [proc EXCEPT !.pc = "settle"]
  <2>1. /\ proc' \in Memory /\ proc'.pc = "settle" /\ Due(proc') = "settle" /\ proc'.j = proc.j
        /\ proc'.gone = proc.gone
    BY <1>1, <1>3 DEF Memory, PCs, RollingBack, Due
  <2>2. Placed(proc') /\ Sees(proc', live)
    BY <1>1, <2>1 DEF Placed, Sees
  <2>3. Suits(proc', live, journal, receipt)
    BY <1>1, <2>1, <2>2, RollsOn DEF RollingBack
  <2> QED BY <2>3, QuietGoes DEF Delete
<1>4. CASE /\ proc.at \in Objs
           /\ proc' \in {[proc EXCEPT !.at = proc.at - 1], [proc EXCEPT !.err = TRUE, !.at = proc.at - 1]}
  <2>0. proc.at - 1 \in 0 .. N
    BY <1>4, Names
  <2>1. /\ proc' \in Memory /\ proc'.pc = "delete" /\ Due(proc') = "delete" /\ proc'.j = proc.j
        /\ proc'.gone = proc.gone
    <3>1. CASE proc' = [proc EXCEPT !.at = proc.at - 1]
      BY <1>1, <2>0, <3>1 DEF Memory, Due
    <3>2. CASE proc' = [proc EXCEPT !.err = TRUE, !.at = proc.at - 1]
      BY <1>1, <2>0, <3>2 DEF Memory, Due
    <3> QED BY <1>4, <3>1, <3>2
  <2>2. Placed(proc') /\ Sees(proc', live)
    BY <1>1, <2>1 DEF Placed, Sees
  <2>3. Suits(proc', live, journal, receipt)
    BY <1>1, <2>1, <2>2, RollsOn DEF RollingBack, Deleting
  <2> QED BY <2>3, QuietGoes DEF Delete
<1>5. CASE proc.at \in Objs /\ live[proc.at] = None /\ proc' = Past
  BY <1>1, <1>5, PastSuits, QuietGoes DEF Delete
<1>6. CASE /\ proc.at \in Objs /\ proc.j.recs[proc.at] # None /\ (proc.at # Kust => proc.gone)
           /\ proc' = s
  <2>1. /\ proc' \in Memory /\ proc'.pc = "save" /\ proc'.cont = "owned" /\ proc'.j = proc.j
        /\ Due(proc') = "owned" /\ proc'.gone = proc.gone /\ proc'.at = proc.at
    BY <1>1, <1>6, SavingIs DEF Conts
  <2>2. Placed(proc') /\ Sees(proc', live)
    BY <1>1, <1>6, <2>1 DEF Placed, Sees
  <2>3. Suits(proc', live, journal, receipt)
    BY <1>1, <2>1, <2>2, RollsOn DEF RollingBack, Deleting, Conts
  <2> QED BY <2>3, QuietGoes DEF Delete
<1> QED BY <1>2, <1>3, <1>4, <1>5, <1>6

LEMMA OwnedKeeps == ASSUME HandoverInv, Owned PROVE HandoverInv'
<1> DEFINE o == live[proc.at]
<1>1. /\ proc.pc = "owned" /\ Due(proc) = "owned" /\ Due(proc) \in RollingBack
      /\ proc \in Memory /\ proc.at \in Objs /\ proc.j.recs[proc.at] # None
  BY DEF Owned, Due, RollingBack, Deleting, HandoverInv, Fit, Placed
<1>2. \/ o = None /\ proc' = Past
      \/ /\ o # None /\ Deletable(proc.j, proc.at, o)
         /\ proc' = [proc EXCEPT !.pc = "deleting", !.answer = o]
      \/ proc' = Undeleted
  BY DEF Owned, Step
<1>3. CASE o = None /\ proc' = Past
  BY <1>1, <1>3, PastSuits, QuietGoes DEF Owned
<1>4. CASE /\ o # None /\ Deletable(proc.j, proc.at, o)
           /\ proc' = [proc EXCEPT !.pc = "deleting", !.answer = o]
  <2>1. o \in Objects /\ o.uid = "ours" /\ o.exact /\ o.rv \in Nat
    BY <1>1, <1>4, InRollback DEF HandoverInv, Ahead, Objects, Deletable, WellKept
  <2>2. o.rv >= o.rv
    BY <2>1
  <2>3. Sees(proc, live)
    BY <1>1, InRollback
  <2>4. /\ proc' \in Memory /\ proc'.pc = "deleting" /\ Due(proc') = "deleting"
        /\ proc'.j = proc.j /\ proc'.gone = proc.gone /\ proc'.at = proc.at /\ proc'.answer = o
    <3> HIDE DEF o
    <3> QED BY <1>1, <1>4, <2>1 DEF Memory, PCs, RollingBack, Deleting, Due
  <2>5. Placed(proc') /\ Sees(proc', live)
    BY <1>1, <1>4, <2>1, <2>2, <2>3, <2>4 DEF Placed, Sees
  <2>6. Suits(proc', live, journal, receipt)
    BY <1>1, <2>4, <2>5, RollsOn DEF RollingBack, Deleting
  <2> QED BY <2>6, QuietGoes DEF Owned
<1>5. CASE proc' = Undeleted
  BY <1>1, <1>5, UndeletedSuits, QuietGoes DEF Owned, HandoverInv
<1> QED BY <1>2, <1>3, <1>4, <1>5

LEMMA GoingIs ==
  ASSUME NEW o \in Objects
  PROVE  LET g == [o EXCEPT !.going = TRUE] IN
         /\ g \in Objects /\ g.uid = o.uid /\ g.mark = o.mark /\ g.susp = o.susp
         /\ g.rv = o.rv /\ g.exact = o.exact
BY DEF Objects

LEMMA SendDeleteKeeps == ASSUME HandoverInv, SendDelete \/ SendDeleteLost PROVE HandoverInv'
<1> DEFINE o == live[proc.at]
           g == [o EXCEPT !.going = TRUE]
<1>1. /\ proc.pc = "deleting" /\ Due(proc) = "deleting" /\ Due(proc) \in RollingBack
      /\ proc \in Memory /\ proc.at \in Objs /\ o \in Objects \cup {None}
  BY DEF SendDelete, SendDeleteLost, Due, RollingBack, Deleting, HandoverInv, Fit, Placed, Ahead
<1>2. UNCHANGED live \/ DeleteServed(o)
  BY DEF SendDelete, SendDeleteLost
<1>3. Ahead(live', journal) /\ Sees(proc, live')
  <2>1. CASE UNCHANGED live
    BY <2>1 DEF HandoverInv
  <2>2. CASE DeleteServed(o)
    <3>1. CASE Write(proc.at, None)
      BY <1>1, <3>1, Writes DEF Newer
    <3>2. CASE proc.at = Kust /\ Write(Kust, g)
      <4>1. o \in Objects /\ o # None
        BY <1>1, <2>2 DEF DeleteServed
      <4>2. /\ g \in Objects /\ g.uid = o.uid /\ g.mark = o.mark /\ g.susp = o.susp
            /\ g.rv = o.rv /\ g.exact = o.exact
        BY <4>1, GoingIs
      <4> HIDE DEF g
      <4>3. Newer(g, o)
        BY <4>1, <4>2, NoneIsNothing DEF Newer
      <4> QED BY <1>1, <3>2, <4>2, <4>3, Writes
    <3> QED BY <2>2, <3>1, <3>2 DEF DeleteServed
  <2> QED BY <1>2, <2>1, <2>2
<1>4. UNCHANGED <<np, journal, receipt, foreign>> /\ faults' \in Nat /\ np' \in Policies
  BY DEF SendDelete, SendDeleteLost, NoAnswer, Fault, HandoverInv
<1>5. proc' = [proc EXCEPT !.pc = "waiting"] \/ proc' = Undeleted
  BY DEF SendDelete, SendDeleteLost, Step
<1>6. CASE proc' = [proc EXCEPT !.pc = "waiting"]
  <2>1. /\ proc' \in Memory /\ proc'.pc = "waiting" /\ Due(proc') = "waiting" /\ proc'.j = proc.j
        /\ proc'.at = proc.at /\ proc'.gone = proc.gone
    BY <1>1, <1>6, Turns DEF RollingBack, Deleting
  <2>2. Placed(proc') /\ Sees(proc', live')
    BY <1>1, <1>3, <2>1 DEF Placed, Sees
  <2>3. Suits(proc', live', journal, receipt)
    BY <1>1, <2>1, <2>2, RollsOn DEF RollingBack, Deleting
  <2> QED BY <1>1, <1>3, <1>4, <2>3, RollGoes
<1>7. CASE proc' = Undeleted
  <2>1. Suits(proc', live', journal, receipt)
    BY <1>1, <1>3, <1>7, UndeletedSuits DEF HandoverInv
  <2> QED BY <1>1, <1>3, <1>4, <2>1, RollGoes
<1> QED BY <1>5, <1>6, <1>7

LEMMA WaitKeeps == ASSUME HandoverInv, Waited \/ WaitTimeout PROVE HandoverInv'
<1>1. /\ proc.pc = "waiting" /\ Due(proc) = "waiting" /\ Due(proc) \in RollingBack
      /\ proc \in Memory /\ proc.at \in Objs /\ Sees(proc, live) /\ Quiet
  BY DEF Waited, WaitTimeout, Due, RollingBack, Deleting, HandoverInv, Fit, Placed
<1>2. \/ live[proc.at] = None /\ proc' = Past
      \/ proc.at = Kust /\ proc' = [proc EXCEPT !.pc = "classify"]
      \/ proc' = Undeleted
  BY DEF Waited, WaitTimeout, Step
<1>3. CASE live[proc.at] = None /\ proc' = Past
  BY <1>1, <1>3, PastSuits, QuietGoes
<1>4. CASE proc.at = Kust /\ proc' = [proc EXCEPT !.pc = "classify"]
  <2>1. /\ proc' \in Memory /\ proc'.pc = "classify" /\ Due(proc') = "classify"
        /\ proc'.j = proc.j /\ proc'.at = proc.at /\ proc'.gone = proc.gone
    BY <1>1, <1>4, Turns DEF RollingBack, Deleting
  <2>2. Placed(proc') /\ Sees(proc', live)
    BY <1>1, <1>4, <2>1 DEF Placed, Sees
  <2>3. Suits(proc', live, journal, receipt)
    BY <1>1, <2>1, <2>2, RollsOn DEF RollingBack, Deleting
  <2> QED BY <1>1, <2>3, QuietGoes
<1>5. CASE proc' = Undeleted
  BY <1>1, <1>5, UndeletedSuits, QuietGoes DEF HandoverInv
<1> QED BY <1>2, <1>3, <1>4, <1>5

LEMMA ClassifyKeeps == ASSUME HandoverInv, Classify PROVE HandoverInv'
<1>1. /\ proc.pc = "classify" /\ Due(proc) = "classify" /\ Due(proc) \in RollingBack
      /\ proc \in Memory /\ proc.at = Kust /\ proc.at \in Objs /\ Sees(proc, live) /\ Quiet
  BY Names DEF Classify, Due, RollingBack, Deleting, HandoverInv, Fit, Placed
<1>2. \/ live[Kust] = None /\ proc' = Past
      \/ proc' = [proc EXCEPT !.pend = TRUE, !.gone = FALSE, !.pc = "settle"]
      \/ proc' = Undeleted
  BY DEF Classify, Step
<1>3. CASE live[Kust] = None /\ proc' = Past
  BY <1>1, <1>3, PastSuits, QuietGoes
<1>4. CASE proc' = [proc EXCEPT !.pend = TRUE, !.gone = FALSE, !.pc = "settle"]
  <2>1. /\ proc' \in Memory /\ proc'.pc = "settle" /\ Due(proc') = "settle"
        /\ proc'.j = proc.j /\ proc'.gone = FALSE
    BY <1>1, <1>4 DEF Memory, PCs, RollingBack, Due
  <2>2. Placed(proc') /\ Sees(proc', live)
    BY <2>1 DEF Placed, Sees
  <2>3. Suits(proc', live, journal, receipt)
    BY <1>1, <2>1, <2>2, RollsOn DEF RollingBack
  <2> QED BY <1>1, <2>3, QuietGoes
<1>5. CASE proc' = Undeleted
  BY <1>1, <1>5, UndeletedSuits, QuietGoes DEF HandoverInv
<1> QED BY <1>2, <1>3, <1>4, <1>5

-----
\* The end of a rollback

LEMMA SettledIs ==
  ASSUME HandoverInv, proc.pc = "settle"
  PROVE  /\ Settled \in Journals /\ Settled.recs = proc.j.recs /\ Settled.create = proc.j.create
         /\ Settled.status = "rollback-finalizing" /\ Settled.rollback # "none"
         /\ ~Pending => Settled.rollback = Named(proc.recovered, proc.err)
         /\ WellKept(Settled) /\ Carries(journal, Settled)
         /\ Filed(Settled, None) /\ Ahead(live, Settled) /\ Due(proc) \in RollingBack
<1> DEFINE r == IF Pending THEN "pending" ELSE Named(proc.recovered, proc.err)
<1>0. Due(proc) \in RollingBack
  BY DEF Due, RollingBack
<1>1. /\ proc \in Memory /\ proc.recovered \in BOOLEAN /\ proc.err \in BOOLEAN
      /\ proc.j \in Journals /\ Carries(journal, proc.j) /\ WellKept(proc.j)
  BY <1>0, InRollback DEF Memory
<1>2. r \in {"pending"} \cup RollbackStatuses
  BY <1>1, NamedIs
<1>3. Settled = [proc.j EXCEPT !.status = "rollback-finalizing", !.rollback = r]
  BY DEF Settled
<1>4. r # "none"
  BY <1>2, Kinds2
<1>5. ~Pending => r = Named(proc.recovered, proc.err)
  OBVIOUS
<1> HIDE DEF r
<1>6. /\ Settled \in Journals /\ Settled.recs = proc.j.recs /\ Settled.create = proc.j.create
      /\ Settled.status = "rollback-finalizing" /\ Settled.rollback = r
  BY <1>1, <1>2, <1>3 DEF Journals
<1>7. WellKept(Settled) /\ Carries(journal, Settled)
  BY <1>1, <1>4, <1>6 DEF WellKept, Carries, Noted
<1>8. Filed(Settled, None)
  BY <1>6, <1>7, Kinds2, NoneIsNothing DEF Filed, Receipts, Terminal, Unsettled
<1>9. Ahead(live, Settled)
  <2>1. Settled # None /\ journal # None /\ Kust \in Objs
    BY <1>0, <1>6, NoneIsNothing, InRollback, Names
  <2> QED BY <1>7, <2>1 DEF HandoverInv, Ahead, Carries
<1> QED BY <1>0, <1>4, <1>5, <1>6, <1>7, <1>8, <1>9

\* A settled journal with the claim c, under the old journal or its own.
LEMMA ClaimingSuits ==
  ASSUME HandoverInv, proc.pc = "settle", NEW c \in RollbackStatuses,
         NEW jr \in {journal, Settled}
  PROVE  /\ Suits(Claiming(Settled, c), live, jr, None)
         /\ Due(Claiming(Settled, c)) = "prepare"
<1> DEFINE k == [Settled EXCEPT !.rollback = c]
           m == Claiming(Settled, c)
<1>0. /\ Due(proc) \in RollingBack /\ proc \in Memory /\ c \in Receipts
      /\ journal.status \in Unsettled /\ Filed(journal, None) /\ journal # None
  BY SettledIs, InRollback, Kinds2 DEF Fit
<1>1. /\ k \in Journals /\ k.recs = Settled.recs /\ k.create = Settled.create
      /\ k.status = "rollback-finalizing" /\ k.rollback = c
  BY SettledIs DEF Journals
<1>2. /\ m = [proc EXCEPT !.j = k, !.claim = c, !.active = TRUE, !.pc = "prepare"]
  BY DEF Claiming
<1> HIDE DEF k, m
<1>3. /\ m \in Memory /\ m.pc = "prepare" /\ Due(m) = "prepare" /\ m.j = k /\ m.claim = c
  BY <1>0, <1>1, <1>2 DEF Memory, PCs, Concluding, Due
<1>4. /\ WellKept(k) /\ Carries(jr, k) /\ jr # None /\ Filed(jr, None) /\ jr.status \in Unsettled
  <2>1. WellKept(k)
    BY <1>1, SettledIs, Kinds2 DEF WellKept
  <2>2. Carries(jr, k)
    BY <1>1, SettledIs DEF Carries, Noted
  <2>3. Settled # None
    BY SettledIs, NoneIsNothing
  <2> QED BY <1>0, <2>1, <2>2, <2>3, SettledIs DEF Unsettled
<1>5. Fit(m, jr, None)
  BY <1>0, <1>1, <1>3, <1>4
  DEF Fit, Placed, Beginning, Backed, Running, Undoing, Reporting, Guarded, Discovering,
      RollingBack, Suspending, Restoring, Deleting, Agree
<1>6. Suits(m, live, jr, None)
  BY <1>3, <1>5 DEF Suits, Sees, RollingBack, Suspending, Restoring, Deleting
<1> QED BY <1>3, <1>6 DEF m

LEMMA SettleKeeps == ASSUME HandoverInv, Settle \/ SettleFails PROVE HandoverInv'
<1>1. /\ proc.pc = "settle" /\ receipt = None /\ UNCHANGED <<live, np, receipt, foreign>>
      /\ faults' \in Nat /\ proc.recovered \in BOOLEAN /\ proc.err \in BOOLEAN
      /\ Filed(journal, None) /\ Ahead(live, journal)
  <2>1. proc.pc = "settle" /\ UNCHANGED <<live, np, receipt, foreign>> /\ faults' \in Nat
    <3>1. faults \in Nat /\ faults + 1 \in Nat
      BY DEF HandoverInv
    <3>2. CASE Settle
      BY <3>1, <3>2 DEF Settle
    <3>3. CASE SettleFails
      BY <3>1, <3>3 DEF SettleFails, Fault
    <3> QED BY <3>2, <3>3
  <2>2. Fit(proc, journal, None) /\ receipt = None /\ proc \in Memory
    BY <2>1, SettledIs, InRollback
  <2> QED BY <2>1, <2>2 DEF HandoverInv, Memory, Fit
<1> DEFINE c == Named(proc.recovered, proc.err)
           d == Named(proc.recovered, TRUE)
<1>2. PICK jr \in {journal, Settled} : /\ journal' = jr
        /\ \/ jr = Settled /\ proc' = NoProcess
           \/ ~Pending /\ proc' = Claiming(Settled, Settled.rollback)
           \/ proc' \in {Claiming(Settled, d), Staling(Claiming(Settled, d))}
  BY DEF Settle, SettleFails, Step
<1>3. c \in RollbackStatuses /\ d \in RollbackStatuses
  BY <1>1, NamedIs
<1>4. Filed(jr, None) /\ Ahead(live, jr) /\ Vouched(jr)
  BY <1>1, <1>2, SettledIs, Kinds2 DEF Vouched
<1>5. Suits(proc', live, jr, None)
  <2>1. CASE proc' = NoProcess
    BY <1>4, <2>1, IdleSuits
  <2>2. CASE ~Pending /\ proc' = Claiming(Settled, Settled.rollback)
    BY <1>1, <1>2, <1>3, <2>2, SettledIs, ClaimingSuits
  <2>3. Suits(Claiming(Settled, d), live, jr, None)
    BY <1>1, <1>2, <1>3, ClaimingSuits
  <2> HIDE DEF d
  <2> QED BY <1>2, <2>1, <2>2, <2>3, StalingSuits
<1> QED BY <1>1, <1>2, <1>4, <1>5, Proceeds

LEMMA ProofIsUndone ==
  ASSUME NEW j, NEW c \in Complete, LiveProof(j, c)
  PROVE  Undone(live, np, j)
BY DEF LiveProof, Undone

\* Where a claim is prepared, committed or concluded.
LEMMA Reports ==
  ASSUME HandoverInv, proc.pc \in {"prepare", "rreceipt", "rebuild", "rfinal"}
  PROVE  /\ Due(proc) = proc.pc /\ proc \in Memory /\ proc.j \in Journals /\ WellKept(proc.j)
         /\ journal # None /\ journal \in Journals /\ Carries(journal, proc.j)
         /\ Filed(journal, receipt) /\ proc.claim \in RollbackStatuses
         /\ proc.pc # "prepare" => journal = proc.j
         /\ proc.pc = "rfinal" => receipt = proc.claim
         /\ proc.pc # "rfinal" =>
              /\ receipt = None /\ journal.status \in Unsettled
              /\ proc.j.status = "rollback-finalizing" /\ proc.j.rollback \in RollbackStatuses
              /\ Agree(proc.claim, proc.j.rollback)
<1>1. Due(proc) = proc.pc
  BY DEF Due
<1> QED BY <1>1 DEF HandoverInv, Fit, Filed, Backed, Reporting, Memory

LEMMA PrepareKeeps == ASSUME HandoverInv, Prepare PROVE HandoverInv'
<1> DEFINE m == Saving(proc.j, "rreceipt")
<1>1. proc.pc = "prepare" /\ Due(proc) = "prepare" /\ proc \in Memory /\ proc.j \in Journals
  BY Reports DEF Prepare
<1>2. CASE proc' = Unverified
  BY <1>1, <1>2, UnverifiedSuits, QuietGoes DEF Prepare, HandoverInv
<1>3. CASE LiveProof(proc.j, proc.claim) /\ proc' = m
  <2>1. /\ m \in Memory /\ m.pc = "save" /\ m.cont = "rreceipt" /\ Due(m) = "rreceipt"
        /\ m.j = proc.j /\ m.claim = proc.claim
    BY <1>1, SavingIs DEF Conts
  <2> HIDE DEF m
  <2>2. Fit(m, journal, receipt)
    BY <1>1, <2>1, Reports
    DEF Fit, Placed, Beginning, Backed, Running, Undoing, Reporting, Guarded, Discovering,
        RollingBack, Suspending, Restoring, Deleting, Conts
  <2>3. Sees(m, live)
    BY <2>1 DEF Sees, RollingBack, Suspending, Restoring, Deleting
  <2>4. Claims(m, live, np, journal, receipt, foreign)
    BY <1>1, <1>3, <2>1, ProofIsUndone, Reports, Kinds2 DEF Claims
  <2> QED BY <1>3, <2>2, <2>3, <2>4 DEF HandoverInv, Prepare, Quiet
<1> QED BY <1>2, <1>3 DEF Prepare, Step

LEMMA RebuildKeeps == ASSUME HandoverInv, Rebuild PROVE HandoverInv'
<1>1. proc.pc = "rebuild" /\ Due(proc) = "rebuild" /\ proc \in Memory /\ proc.j \in Journals
  BY Reports DEF Rebuild
<1>2. CASE proc' = NoProcess
  BY <1>1, <1>2, Reports, IdleSuits, QuietGoes DEF Rebuild
<1>3. CASE LiveProof(proc.j, proc.claim) /\ proc' = [proc EXCEPT !.pc = "rreceipt"]
  <2> DEFINE m == proc'
  <2>1. /\ m \in Memory /\ m.pc = "rreceipt" /\ Due(m) = "rreceipt" /\ m.j = proc.j
        /\ m.claim = proc.claim
    BY <1>1, <1>3 DEF Memory, PCs, Concluding, Due
  <2>2. Fit(m, journal, receipt)
    BY <1>1, <2>1, Reports
    DEF Fit, Placed, Beginning, Backed, Running, Undoing, Reporting, Guarded, Discovering,
        RollingBack, Suspending, Restoring, Deleting
  <2>3. Sees(m, live)
    BY <2>1 DEF Sees, RollingBack, Suspending, Restoring, Deleting
  <2>4. Claims(m, live, np, journal, receipt, foreign)
    BY <1>1, <1>3, <2>1, ProofIsUndone, Reports, Kinds2 DEF Claims
  <2> QED BY <2>2, <2>3, <2>4 DEF HandoverInv, Rebuild, Quiet
<1> QED BY <1>2, <1>3 DEF Rebuild, Step

LEMMA CommitRollbackReceiptKeeps == ASSUME HandoverInv, CommitRollbackReceipt PROVE HandoverInv'
<1>1. /\ proc.pc = "rreceipt" /\ Due(proc) = "rreceipt" /\ proc \in Memory /\ journal = proc.j
      /\ proc.claim \in RollbackStatuses /\ journal.status = "rollback-finalizing"
      /\ receipt = None /\ journal # None
  BY Reports DEF CommitRollbackReceipt
<1>2. /\ UNCHANGED <<live, np, journal, foreign>> /\ faults' \in Nat
      /\ receipt' \in {None, proc.claim}
      /\ \/ receipt' = proc.claim /\ proc' = [proc EXCEPT !.pc = "rfinal"]
         \/ proc' = NoProcess
  BY <1>1 DEF CommitRollbackReceipt, Step, Fault, HandoverInv
<1>3. Filed(journal, receipt')
  <2>1. Filed(journal, None)
    BY <1>1, Reports
  <2>2. Filed(journal, proc.claim)
    BY <1>1, <2>1, Reports, Kinds2 DEF Filed, Agree, Terminal, Unsettled
  <2> QED BY <1>2, <2>1, <2>2
<1>4. Fit(proc', journal, receipt') /\ Sees(proc', live) /\ Due(proc') \in {"idle", "rfinal"}
  <2>1. CASE proc' = NoProcess
    BY <1>3, <2>1, IdleSuits DEF Suits, NoProcess, Due
  <2>2. CASE receipt' = proc.claim /\ proc' = [proc EXCEPT !.pc = "rfinal"]
    <3> DEFINE m == proc'
    <3>1. /\ m \in Memory /\ m.pc = "rfinal" /\ Due(m) = "rfinal" /\ m.j = proc.j
          /\ m.claim = proc.claim
      BY <1>1, <2>2 DEF Memory, PCs, Concluding, Due
    <3>2. Fit(m, journal, receipt')
      BY <1>1, <1>3, <2>2, <3>1, Reports
      DEF Fit, Placed, Beginning, Backed, Running, Undoing, Reporting, Guarded, Discovering,
          RollingBack, Suspending, Restoring, Deleting
    <3>3. Sees(m, live)
      BY <3>1 DEF Sees, RollingBack, Suspending, Restoring, Deleting
    <3> QED BY <3>1, <3>2, <3>3
  <2> QED BY <1>2, <2>1, <2>2
<1>5. Claims(proc', live, np, journal, receipt', foreign)
  BY <1>1, <1>2, <1>4, Kinds2 DEF HandoverInv, Claims
<1> QED BY <1>2, <1>4, <1>5 DEF HandoverInv

LEMMA FinalizeRollbackKeeps == ASSUME HandoverInv, FinalizeRollback PROVE HandoverInv'
<1> DEFINE c == proc.claim
           k == [proc.j EXCEPT !.status = c, !.rollback = c]
           m == Saving(k, "end")
<1>1. /\ proc.pc = "rfinal" /\ proc \in Memory /\ proc.j \in Journals /\ journal = proc.j
      /\ c \in RollbackStatuses /\ receipt = c /\ journal # None /\ WellKept(proc.j)
      /\ Filed(journal, receipt)
  BY Reports DEF FinalizeRollback
<1>2. CASE proc' = NoProcess
  BY <1>1, <1>2, IdleSuits, QuietGoes DEF FinalizeRollback
<1>3. CASE proc' = m
  <2>1. /\ k \in Journals /\ k.recs = proc.j.recs /\ k.create = proc.j.create /\ k.status = c
        /\ k.rollback = c
    BY <1>1 DEF Journals
  <2> HIDE DEF k
  <2>2. m \in Memory /\ m.pc = "save" /\ m.cont = "end" /\ Due(m) = "end" /\ m.j = k
    BY <1>1, <2>1, SavingIs DEF Conts
  <2> HIDE DEF m
  <2>3. Carries(journal, k) /\ WellKept(k)
    BY <1>1, <2>1, Kinds2 DEF Carries, Noted, WellKept
  <2>4. Fit(m, journal, receipt)
    BY <1>1, <2>1, <2>2, <2>3, Kinds2
    DEF Fit, Placed, Beginning, Backed, Running, Undoing, Reporting, Guarded, Discovering,
        RollingBack, Suspending, Restoring, Deleting, Conts, Terminal
  <2>5. Suits(m, live, journal, receipt)
    BY <2>2, <2>4 DEF Suits, Sees, RollingBack, Suspending, Restoring, Deleting
  <2> QED BY <1>3, <2>5, QuietGoes DEF FinalizeRollback
<1> QED BY <1>2, <1>3 DEF FinalizeRollback, Step

-----
\* The recovery that looks around

LEMMA InDiscovery ==
  ASSUME HandoverInv, proc.pc \in Discovering
  PROVE  /\ Due(proc) = proc.pc /\ proc \in Memory /\ proc.at \in Objs /\ proc.j \in Journals
         /\ WellKept(proc.j) /\ journal # None /\ journal \in Journals /\ Carries(journal, proc.j)
         /\ receipt = None /\ Filed(journal, None) /\ journal.status \in Open
         /\ proc.j.status \in Open /\ live[proc.at] \in Objects \cup {None}
<1>1. Due(proc) = proc.pc /\ Due(proc) \in {"rediscover", "remark"}
  BY DEF Due, Discovering
<1> QED BY <1>1 DEF HandoverInv, Fit, Filed, Placed, Backed, Running, Memory, Discovering, Ahead

LEMMA DiscoverySuits ==
  ASSUME HandoverInv, proc.pc \in Discovering, NEW m \in Memory, Due(m) \in Discovering,
         m.pc = Due(m) \/ (m.pc = "save" /\ m.cont \in Conts),
         m.j \in Journals, WellKept(m.j), Carries(proc.j, m.j), m.j.status \in Open, m.at \in Objs
  PROVE  Suits(m, live, journal, receipt)
<1>1. Carries(journal, m.j)
  BY InDiscovery DEF Carries
<1>2. Fit(m, journal, receipt)
  BY <1>1, InDiscovery
  DEF Fit, Placed, Beginning, Backed, Running, Undoing, Reporting, Guarded, Discovering,
      RollingBack, Suspending, Restoring, Deleting
<1> QED BY <1>2 DEF Suits, Sees, Discovering, RollingBack, Suspending, Restoring, Deleting

LEMMA OnwardSuits ==
  ASSUME HandoverInv, proc.pc \in Discovering, NEW c \in Discovering
  PROVE  Suits(Onward(c), live, journal, receipt)
<1> DEFINE m == Onward(c)
<1>0. c \in PCs /\ c # "save" /\ "remark" \in PCs /\ proc \in Memory /\ proc.at \in Objs
  BY InDiscovery DEF PCs, Discovering
<1>1. CASE proc.at < N
  <2>1. m = [proc EXCEPT !.at = proc.at + 1, !.pc = c] /\ proc.at + 1 \in Objs /\ proc.at + 1 \in 0 .. N
    BY <1>0, <1>1, Names DEF Onward
  <2> HIDE DEF m
  <2>2. m \in Memory /\ m.pc = c /\ Due(m) = c /\ m.j = proc.j /\ m.at = proc.at + 1
    BY <1>0, <2>1 DEF Memory, Due
  <2>3. Carries(proc.j, proc.j)
    BY DEF Carries
  <2>4. Suits(m, live, journal, receipt)
    BY <2>1, <2>2, <2>3, InDiscovery, DiscoverySuits
  <2> QED BY <2>4 DEF m
<1>2. CASE ~(proc.at < N) /\ c = "rediscover"
  <2>1. m = [proc EXCEPT !.at = 1, !.pc = "remark"] /\ 1 \in Objs /\ 1 \in 0 .. N
    BY <1>0, <1>2, Names DEF Onward
  <2> HIDE DEF m
  <2>2. m \in Memory /\ m.pc = "remark" /\ Due(m) = "remark" /\ m.j = proc.j /\ m.at = 1
    BY <1>0, <2>1 DEF Memory, Due
  <2>3. Carries(proc.j, proc.j) /\ "remark" \in Discovering
    BY DEF Carries, Discovering
  <2>4. Suits(m, live, journal, receipt)
    BY <2>1, <2>2, <2>3, InDiscovery, DiscoverySuits
  <2> QED BY <2>4 DEF m
<1>3. CASE ~(proc.at < N) /\ c # "rediscover"
  <2>1. m = Rollback(proc.j, TRUE, FALSE)
    BY <1>3 DEF Onward
  <2>2. proc.j.status \in Unsettled /\ journal.status \in Unsettled
    BY InDiscovery DEF Unsettled
  <2> QED BY <1>0, <2>1, <2>2, InDiscovery, RollbackSuits
<1> QED BY <1>1, <1>2, <1>3

LEMMA RediscoverKeeps == ASSUME HandoverInv, Rediscover PROVE HandoverInv'
<1> DEFINE n == proc.at
           o == live[n]
           r == [uid |-> o.uid, clean |-> FALSE]
           k == [proc.j EXCEPT !.recs[n] = r]
           m == Saving(k, "rediscover")
<1>1. /\ proc.pc = "rediscover" /\ proc.pc \in Discovering /\ "rediscover" \in Discovering
      /\ proc \in Memory /\ n \in Objs /\ proc.j \in Journals /\ o \in Objects \cup {None}
  BY InDiscovery DEF Rediscover, Discovering
<1>2. proc' = Onward("rediscover") \/ proc' = NoProcess \/ (ExactMarked(o) /\ proc' = m)
  BY DEF Rediscover, Step
<1>3. CASE proc' = Onward("rediscover")
  BY <1>1, <1>3, OnwardSuits, QuietGoes DEF Rediscover
<1>4. CASE proc' = NoProcess
  BY <1>1, <1>4, InDiscovery, IdleSuits, QuietGoes DEF Rediscover
<1>5. CASE ExactMarked(o) /\ proc' = m
  <2>1. o \in Objects /\ o.uid = "ours"
    BY <1>1, <1>5 DEF ExactMarked, HandoverInv, Ahead
  <2>2. r \in Records /\ r.uid = "ours"
    BY <2>1 DEF Records
  <2> HIDE DEF r
  <2>3. Extends(k, proc.j)
    BY <1>1, <2>2, Records1
  <2> HIDE DEF k
  <2>4. /\ m \in Memory /\ m.pc = "save" /\ m.cont = "rediscover" /\ Due(m) = "rediscover"
        /\ m.j = k /\ m.at = n
    BY <1>1, <2>3, SavingIs DEF Extends, Conts
  <2> HIDE DEF m
  <2>5. Suits(m, live, journal, receipt)
    BY <1>1, <2>3, <2>4, InDiscovery, DiscoverySuits DEF Extends, Conts
  <2> QED BY <1>5, <2>5, QuietGoes DEF Rediscover
<1> QED BY <1>2, <1>3, <1>4, <1>5

LEMMA RemarkKeeps == ASSUME HandoverInv, Remark PROVE HandoverInv'
<1> DEFINE n == proc.at
           k == [proc.j EXCEPT !.recs[n].clean = TRUE]
           m == Saving(k, "remark")
<1>1. /\ proc.pc = "remark" /\ proc.pc \in Discovering /\ "remark" \in Discovering
      /\ proc \in Memory /\ n \in Objs /\ proc.j \in Journals
  BY InDiscovery DEF Remark, Discovering
<1>2. \/ proc' = Onward("remark")
      \/ proc' = NoProcess
      \/ proc.j.recs[n] # None /\ proc' = m
  BY DEF Remark, Step
<1>3. CASE proc' = Onward("remark")
  BY <1>1, <1>3, OnwardSuits, QuietGoes DEF Remark
<1>4. CASE proc' = NoProcess
  BY <1>1, <1>4, InDiscovery, IdleSuits, QuietGoes DEF Remark
<1>5. CASE proc.j.recs[n] # None /\ proc' = m
  <2>1. Extends(k, proc.j)
    BY <1>1, <1>5, Cleans
  <2> HIDE DEF k
  <2>2. /\ m \in Memory /\ m.pc = "save" /\ m.cont = "remark" /\ Due(m) = "remark"
        /\ m.j = k /\ m.at = n
    BY <1>1, <2>1, SavingIs DEF Extends, Conts
  <2> HIDE DEF m
  <2>3. Suits(m, live, journal, receipt)
    BY <1>1, <2>1, <2>2, InDiscovery, DiscoverySuits DEF Extends, Conts
  <2> QED BY <1>5, <2>3, QuietGoes, SMTT(30) DEF Remark
<1> QED BY <1>2, <1>3, <1>4, <1>5

-----
\* The theorems

LEMMA InitIsInv == Init => HandoverInv
<1> SUFFICES ASSUME Init PROVE HandoverInv
  OBVIOUS
<1>1. Filed(None, None)
  BY Kinds2, NoneIsNothing DEF Filed, Receipts
<1>2. Suits(NoProcess, live, None, None)
  BY <1>1, IdleSuits
<1>3. Ahead(live, None)
  BY Names DEF Init, Ahead, OursIn
<1>4. np \in Policies /\ faults \in Nat /\ foreign \in Nat
  BY DEF Init, Policies
<1>5. Claims(NoProcess, live, np, None, None, foreign)
  BY <1>2, Kinds2 DEF Claims, Suits
<1> QED BY <1>2, <1>3, <1>4, <1>5 DEF Init, HandoverInv, Suits

LEMMA ProcessKeeps == ASSUME HandoverInv, Process PROVE HandoverInv'
<1>1. CASE Enter \/ Save \/ SaveFails \/ SaveStale \/ ReadFails
  BY <1>1, EnterKeeps, SaveKeeps, SaveFailsKeeps, SaveStaleKeeps, ReadFailsKeeps
<1>2. CASE FreshRun
  BY <1>2, PreflightKeeps, BlockedKeeps, ReserveKeeps, CreateKeeps, PostKeeps, BindKeeps,
     LookKeeps, StripKeeps, UnmarkKeeps, UnmarkedKeeps, RelookKeeps, AdoptKeeps, ActivateKeeps,
     UnsuspendKeeps, ReadyKeeps, FinalKeeps, CommitReceiptKeeps DEF FreshRun
<1>3. CASE RollbackTransaction
  BY <1>3, SuspendKeeps, SuspendPatchKeeps, RestoreKeeps, RestorePatchKeeps, DeleteKeeps,
     OwnedKeeps, SendDeleteKeeps, WaitKeeps, ClassifyKeeps, SettleKeeps DEF RollbackTransaction
<1>4. CASE Conclude
  BY <1>4, PrepareKeeps, CommitRollbackReceiptKeeps, FinalizeRollbackKeeps, RebuildKeeps,
     FinishKeeps DEF Conclude
<1>5. CASE Rediscover \/ Remark
  BY <1>5, RediscoverKeeps, RemarkKeeps
<1> QED BY <1>1, <1>2, <1>3, <1>4, <1>5 DEF Process

LEMMA OtherStepsKeep == ASSUME HandoverInv, Others PROVE HandoverInv'
BY ReconcileKeeps, ForeignPolicyKeeps, FinishDeleteKeeps, ForeignKeeps DEF Others

LEMMA StutterKeeps == ASSUME HandoverInv, UNCHANGED vars PROVE HandoverInv'
BY DEF HandoverInv, vars

LEMMA Inductive == HandoverInv /\ [Next]_vars => HandoverInv'
BY ProcessKeeps, SignalKeeps, CrashKeeps, OtherStepsKeep, StutterKeeps DEF Next

LEMMA Invariance == Spec => []HandoverInv
BY InitIsInv, Inductive, PTL DEF Spec

\* Every variable stays in its type through every failure, retry and write by others
\* (the counterpart of the checks of _journal_validate_state and _read_receipt_file).
THEOREM HandoverTypes == Spec => []TypeOK
<1>1. HandoverInv => TypeOK
  BY DEF HandoverInv, TypeOK, Fit, Filed, Ahead
<1> QED BY <1>1, Invariance, PTL

LEMMA FilesFollow == HandoverInv => FilesAreTrue
<1> SUFFICES ASSUME HandoverInv PROVE FilesAreTrue
  OBVIOUS
<1>1. Filed(journal, receipt) /\ Ahead(live, journal)
  BY DEF HandoverInv, Fit
<1>2. WriteAhead
  BY <1>1 DEF WriteAhead, Ahead, Ours, OursIn, Noted
<1>3. FilesAgree
  <2>1. receipt \in {"completed"} \cup RollbackStatuses => journal # None
    BY <1>1, Kinds2, NoneIsNothing DEF Filed
  <2> QED BY <1>1, <2>1 DEF Filed, FilesAgree, Agree, Terminal
<1>4. RolledBackIsTrue
  <2> SUFFICES ASSUME receipt \in Complete, foreign = 0
               PROVE  /\ np.state = "before"
                      /\ \A n \in Objs : Ours(n) =>
                           journal.recs[n] = None /\ journal.create[n] = "open"
    BY DEF RolledBackIsTrue
  <2>1. Undone(live, np, journal)
    BY DEF HandoverInv, Claims
  <2> QED BY <1>2, <2>1 DEF Undone, WriteAhead, Ours
<1> QED BY <1>2, <1>3, <1>4 DEF FilesAreTrue

\* Whenever the process dies, the journal names all it has made, the two files agree, and
\* a receipt that says rolled back is true (JournalSink.commit before every mutation,
\* _verify_rollback_live_postconditions before every claim).
THEOREM FilesNeverLie == Spec => []FilesAreTrue
BY FilesFollow, Invariance, PTL

\* Where a step may write the cluster or the receipt.
Writing == {"post", "unmark", "adopt", "unsuspend", "suspending", "restoring", "deleting"}
Committing == {"preflight", "receipt", "rreceipt"}

LEMMA WhoWrites ==
  ASSUME Next
  PROVE  \/ proc' = proc /\ receipt' = receipt
         \/ proc.pc \in Writing /\ receipt' = receipt
         \/ UNCHANGED <<live, np>> /\ (receipt' = receipt \/ proc.pc \in Committing)
<1>1. CASE Enter \/ Save \/ SaveFails \/ SaveStale \/ ReadFails \/ Signal \/ Crash
  BY <1>1 DEF Enter, Save, SaveFails, SaveStale, ReadFails, Signal, Crash, Quiet
<1>2. CASE FreshRun
  <2>1. CASE Preflight \/ Reserve \/ Create \/ Bind \/ Look \/ Strip \/ Unmarked \/ Relook
               \/ Activate \/ Ready \/ ReadyTimeout \/ Final
    BY <2>1 DEF Preflight, Reserve, Create, Bind, Look, Strip, Unmarked, Relook, Activate,
                Ready, ReadyTimeout, Final, Quiet
  <2>2. CASE Post \/ PostLost \/ Unmark \/ UnmarkLost \/ Adopt \/ AdoptLost \/ Unsuspend
               \/ UnsuspendLost
    BY <2>2 DEF Post, PostLost, Unmark, UnmarkLost, Adopt, AdoptLost, Unsuspend, UnsuspendLost,
                Writing
  <2>3. CASE Blocked \/ CommitReceipt
    BY <2>3 DEF Blocked, CommitReceipt, Committing
  <2> QED BY <1>2, <2>1, <2>2, <2>3 DEF FreshRun
<1>3. CASE RollbackTransaction
  <2>1. CASE Suspend \/ Restore \/ Delete \/ Owned \/ Waited \/ WaitTimeout \/ Classify
               \/ Settle \/ SettleFails
    BY <2>1 DEF Suspend, Restore, Delete, Owned, Waited, WaitTimeout, Classify, Settle,
                SettleFails, Quiet
  <2>2. CASE SuspendPatch \/ SuspendLost \/ RestorePatch \/ RestoreLost \/ SendDelete
               \/ SendDeleteLost
    BY <2>2 DEF SuspendPatch, SuspendLost, RestorePatch, RestoreLost, SendDelete,
                SendDeleteLost, Writing
  <2> QED BY <1>3, <2>1, <2>2 DEF RollbackTransaction
<1>4. CASE Conclude \/ Rediscover \/ Remark
  BY <1>4 DEF Conclude, Prepare, CommitRollbackReceipt, FinalizeRollback, Rebuild, Finish,
              Rediscover, Remark, Quiet, Committing
<1>5. CASE Others
  BY <1>5 DEF Others, Reconcile, ForeignPolicy, FinishDelete, ForeignCreate, ForeignDelete,
              ForeignTouch, ForeignEdit, ByOthers
<1> QED BY <1>1, <1>2, <1>3, <1>4, <1>5 DEF Next, Process

\* Nobody is at work where there is a receipt, but to conclude it.
LEMMA WhoIsAtWork ==
  ASSUME HandoverInv, proc.pc \in Writing \cup Committing
  PROVE  receipt = None
<1>1. Due(proc) = proc.pc
  BY DEF Due, Writing, Committing
<1>2. Due(proc) \in Guarded \cup RollingBack \cup {"preflight", "rreceipt"}
  BY <1>1 DEF Guarded, RollingBack, Suspending, Restoring, Deleting, Writing, Committing
<1> QED BY <1>2 DEF HandoverInv, Fit, Beginning, Running, Undoing, Reporting

\* Once a receipt is durable, nothing of any later execution changes it or the cluster
\* (run's except clause, _finalize_completed_receipt, _finalize_rollback_receipt).
THEOREM ReceiptStays == Spec => ReceiptIsFinal
<1>1. HandoverInv /\ [Next]_vars =>
        [receipt # None => receipt' = receipt /\ (proc' # proc => UNCHANGED <<live, np>>)]_vars
  BY WhoWrites, WhoIsAtWork
<1> QED BY <1>1, Invariance, PTL DEF Spec, ReceiptIsFinal

LEMMA WhoWritesThere ==
  ASSUME Next, proc' # proc, proc.pc \in {"deleting", "restoring"}
  PROVE  \/ UNCHANGED <<live, np>>
         \/ proc.pc = "deleting" /\ (SendDelete \/ SendDeleteLost)
         \/ proc.pc = "restoring" /\ UNCHANGED live
<1>1. CASE Enter \/ Save \/ SaveFails \/ SaveStale \/ ReadFails \/ Signal \/ Crash
  BY <1>1 DEF Enter, Save, SaveFails, SaveStale, ReadFails, Signal, Crash, Quiet
<1>2. ~FreshRun
  BY DEF FreshRun, Preflight, Blocked, Reserve, Create, Post, PostLost, Bind, Look, Strip,
         Unmark, UnmarkLost, Unmarked, Relook, Adopt, AdoptLost, Activate, Unsuspend,
         UnsuspendLost, Ready, ReadyTimeout, Final, CommitReceipt
<1>3. CASE RollbackTransaction
  BY <1>3 DEF RollbackTransaction, Suspend, SuspendPatch, SuspendLost, Restore, RestorePatch,
              RestoreLost, Delete, Owned, Waited, WaitTimeout, Classify, Settle, SettleFails,
              SendDelete, SendDeleteLost
<1>4. ~(Conclude \/ Rediscover \/ Remark)
  BY DEF Conclude, Prepare, CommitRollbackReceipt, FinalizeRollback, Rebuild, Finish,
         Rediscover, Remark
<1>5. ~Others
  BY DEF Others, Reconcile, ForeignPolicy, FinishDelete, ForeignCreate, ForeignDelete,
         ForeignTouch, ForeignEdit, ByOthers
<1> QED BY <1>1, <1>2, <1>3, <1>4, <1>5 DEF Next, Process

\* What a DELETE of the rollback does.
LEMMA Deletes ==
  ASSUME HandoverInv, SendDelete \/ SendDeleteLost
  PROVE  \A n \in Objs : live'[n] # live[n] =>
           /\ Ours(n) /\ live[n].exact
           /\ n # Kust /\ proc.j.recs[Kust] # None => ~Ours(Kust)
<1> SUFFICES ASSUME NEW n \in Objs, live'[n] # live[n]
             PROVE  /\ Ours(n) /\ live[n].exact
                    /\ n # Kust /\ proc.j.recs[Kust] # None => ~Ours(Kust)
  OBVIOUS
<1>1. proc.pc = "deleting" /\ Due(proc) = "deleting" /\ Due(proc) \in RollingBack /\ proc.at \in Objs
  BY DEF SendDelete, SendDeleteLost, Due, RollingBack, Deleting, HandoverInv, Fit, Placed
<1>2. DeleteServed(live[proc.at]) /\ live \in [Objs -> Objects \cup {None}]
  BY DEF SendDelete, SendDeleteLost, HandoverInv, Ahead
<1>3. n = proc.at
  BY <1>1, <1>2, Names DEF DeleteServed, Write
<1>4. Ours(n) /\ live[n].exact
  BY <1>1, <1>2, <1>3 DEF DeleteServed, HandoverInv, Sees, Ours, OursIn
<1>5. n # Kust /\ proc.j.recs[Kust] # None => ~Ours(Kust)
  BY <1>1, <1>3 DEF HandoverInv, Sees, Ours, OursIn
<1> QED BY <1>4, <1>5

\* A DELETE takes only what this transaction posted and what is as it was looked at, no
\* RBAC object goes before the Kustomization it serves, and the old policy returns only
\* once Flux cannot apply the new one (_owned_created, the order of _rollback_transaction).
THEOREM RollbackIsInOrder == Spec => RollbackInOrder
<1>1. HandoverInv /\ [Next]_vars =>
        [proc.pc = "deleting" /\ proc' # proc =>
           \A n \in Objs : live'[n] # live[n] => Ours(n) /\ live[n].exact]_vars
  <2> SUFFICES ASSUME HandoverInv, Next, proc.pc = "deleting", proc' # proc,
                      NEW n \in Objs, live'[n] # live[n]
               PROVE  Ours(n) /\ live[n].exact
    BY DEF vars
  <2>1. SendDelete \/ SendDeleteLost
    BY WhoWritesThere
  <2> QED BY <2>1, Deletes
<1>2. HandoverInv /\ [Next]_vars =>
        [proc.pc = "deleting" /\ proc' # proc /\ proc.j.recs[Kust] # None =>
           \A n \in Objs \ {Kust} : live'[n] # live[n] => ~Ours(Kust)]_vars
  <2> SUFFICES ASSUME HandoverInv, Next, proc.pc = "deleting", proc' # proc,
                      proc.j.recs[Kust] # None, NEW n \in Objs \ {Kust}, live'[n] # live[n]
               PROVE  ~Ours(Kust)
    BY DEF vars
  <2>1. SendDelete \/ SendDeleteLost
    BY WhoWritesThere
  <2> QED BY <2>1, Deletes
<1>3. HandoverInv /\ [Next]_vars =>
        [proc.pc = "restoring" /\ proc' # proc /\ np' # np =>
           live[Kust] = None \/ live[Kust].susp]_vars
  <2> SUFFICES ASSUME HandoverInv, proc.pc = "restoring"
               PROVE  live[Kust] = None \/ live[Kust].susp
    BY DEF vars
  <2> QED BY DEF HandoverInv, Sees, Halted, Due
<1> QED BY <1>1, <1>2, <1>3, Invariance, PTL
  DEF Spec, RollbackInOrder, OnlyOwnDeleted, RbacLast, SuspendedBeforeRestore

=============================================================================
