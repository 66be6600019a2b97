------------------------- MODULE LiveTransportProofs -------------------------
\* What a promotion of the workbench image and a reset of the relays leave
\* behind and say of it is right, whatever the live wrapper does to them:
\* the theorems ReceiptsAreTrue, LeftIsJournaled, ResetWhileQuiet and
\* CompletedIsDone of LiveTransport, and that the promotion implements
\* OneChange.
\*
\* Each program has an inductive invariant, proved action by action; no
\* step of the wrapper does anything to the files and the cluster that is
\* not a step of the child (NextIsOfChild), so the two carry over.
EXTENDS LiveTransport, TLAPS

-----
\* The promotion

\* The intent to change the image is in the journal s,
Asked(s) == P!At(s, "patch-intent") # {}
\* ... and to change it back.
Back(s) == P!RollbackRequired(s)

\* What outlives a run: the image, the requests on their way, the journal and
\* the receipt agree, whoever runs next.
Lasting(im, fl, s, rf, lt) ==
  /\ im = "target" \/ fl # {} => Asked(s)
  /\ im = "target" => "target" \notin fl
  /\ Back(s) => Asked(s) /\ "target" \notin fl
  /\ "old" \in fl => Back(s)
  /\ rf = "completed" => im = "target" /\ ~Back(s)
  /\ rf = "preflight-failed" => ~Asked(s)
  /\ rf \in {"not-applied", "rolled-back"} => im = "old" \/ lt
  /\ rf = "rolled-back" => Asked(s)

\* The journal in memory and the one on disk differ by at most the last entry,
\* which a commit that raised may have written or not.
Logs(im, s, rf, m) ==
  /\ Asked(m.log) <=> Asked(s)
  /\ Back(s) => Back(m.log)
  /\ Back(m.log) => Back(s) \/ im = "target"
  /\ m.pc \in {"receipt", "terminal"} \/ rf \in P!Verdicts
       => (Back(m.log) => Back(s))
  /\ rf \in P!Verdicts
       => m.pc \in {"terminal", "incomplete"} /\ rf = m.verdict

\* The verdict a program carries, once it has decided, is true of the image,
\* unless a request was served after the read it decided upon.
Verdict(im, lt, m) ==
  /\ m.verdict # None <=> m.pc \in P!Closing
  /\ m.verdict = "completed" => im = "target" /\ ~Back(m.log)
  /\ m.verdict = "preflight-failed" => ~Asked(m.log)
  /\ m.verdict \in {"not-applied", "rolled-back"} => im = "old" \/ lt
  /\ m.verdict = "rolled-back" => Asked(m.log)

\* The steps before the patch is intended, those from the patch to its proof,
\* those once a rollback is intended, and those of a resumed run.
Early == {"reserve", "open", "preflight", "noted", "intent"}
Onward == {"patch", "patched", "discover", "classify", "verify", "post"}
Undoing == {"rbPatch", "rbAfter", "rbDiscover", "rbUncertain", "rbVerify"}
Resuming == {"resume", "reread", "rejudge", "oldImage"}

\* What holds when the program m is about to make its next step: how far the
\* journal is, what the image is, and what it read of it.
Due(im, fl, s, lt, m) ==
  /\ m.pc \in Early => ~Asked(m.log) /\ ~Back(m.log)
  /\ m.pc \in Onward => Asked(m.log) /\ ~Back(m.log)
  /\ m.pc \in {"rbRead", "rbIntent"} \cup Resuming => Asked(m.log)
  /\ m.pc \in Undoing => Back(s)
  /\ m.pc = "patch" => im = "old" /\ fl = {}
  /\ m.pc = "post" => im = "target"
  /\ m.pc = "rbIntent" => "target" \notin fl /\ (im = "target" \/ Back(s))
  /\ m.pc \in {"classify", "rejudge"} => m.saw # None
  /\ m.pc \in {"classify", "rejudge", "oldImage"}
       => (m.saw = "old" => im = "old" \/ lt)
  /\ m.pc = "oldImage" => m.saw = "old"
  /\ m.pc = "classify" => (m.saw = "target" => im = "target")

\* The domains of the variables the promotion uses.
Typed ==
  /\ image \in {"old", "target"} /\ flying \subseteq {"old", "target"}
  /\ disk.status \in P!JournalStates /\ disk.events \in Seq(P!Events)
  /\ rfile \in {"absent", "empty"} \cup P!Verdicts
  /\ prog \in P!Programs /\ late \in BOOLEAN

\* The inductive invariant of a promotion.  ReceiptIsTrue and
\* TargetIsJournaled are about image, journal and receipt; that a step keeps
\* them depends on where the program is, on what it saw, and on which requests
\* may still be served.
PromotionInv ==
  /\ Typed
  /\ Lasting(image, flying, disk.events, rfile, late)
  /\ disk.status = "absent" => disk.events = <<>>
  /\ prog.pc \in {"reserve", "open"} => disk.events = <<>> /\ prog.log = <<>>
  /\ prog.pc = "idle" => prog = P!Idle
  /\ prog.pc # "idle" => /\ Logs(image, disk.events, rfile, prog)
                         /\ Verdict(image, late, prog)
                         /\ Due(image, flying, disk.events, late, prog)

\* What one more entry makes of a journal (JournalWriter.append).
LEMMA EventAdded ==
  ASSUME NEW s \in Seq(P!Events), NEW e \in P!Events
  PROVE /\ Append(s, e) \in Seq(P!Events)
        /\ Asked(Append(s, e)) <=> Asked(s) \/ e = "patch-intent"
        /\ Back(Append(s, e)) <=> Back(s) \/ e \in {"rollback-intent", "rollback-after",
                                                    "rollback-uncertain"}
PROOF
<1> DEFINE a == Append(s, e)  n == Len(s)
<1>1. a \in Seq(P!Events) /\ n \in Nat /\ Len(a) = n + 1 /\ a[n + 1] = e
      /\ \A i \in 1..n : a[i] = s[i]
  OBVIOUS
<1>2. DOMAIN s = 1..n /\ DOMAIN a = 1..(n + 1)
  BY <1>1
<1> HIDE DEF a, n
<1>3. \A i \in DOMAIN a : i \in DOMAIN s \/ i = n + 1
  BY <1>1, <1>2
<1>4. n + 1 \in DOMAIN a /\ \A i \in DOMAIN s : i \in DOMAIN a /\ a[i] = s[i]
  BY <1>1, <1>2
<1>5. Asked(a) <=> Asked(s) \/ e = "patch-intent"
  BY <1>1, <1>3, <1>4 DEF Asked, P!At
<1>6. Back(a) <=> Back(s) \/ e \in {"rollback-intent", "rollback-after",
                                   "rollback-uncertain"}
  BY <1>1, <1>3, <1>4 DEF Back, P!RollbackRequired, P!Outcomes, P!RollbackOutcomes
<1> QED BY <1>1, <1>5, <1>6 DEF a

\* An empty journal asks for nothing.
LEMMA NothingAsked == ~Asked(<<>>) /\ ~Back(<<>>) /\ <<>> \in Seq(P!Events)
BY DEF Asked, P!At, Back, P!RollbackRequired, P!Outcomes, P!RollbackOutcomes

\* The next program, by the fields the invariant reads.
Becomes(pc, log, v, saw) ==
  /\ prog' \in P!Programs
  /\ prog'.pc = pc /\ prog'.log = log /\ prog'.verdict = v /\ prog'.saw = saw

\* The program goes to its next step (Goto).
LEMMA GotoBecomes ==
  ASSUME PromotionInv, NEW pc \in P!Steps, P!Goto(pc)
  PROVE  Becomes(pc, prog.log, prog.verdict, prog.saw)
<1>1. prog \in P!Programs /\ prog' = [prog EXCEPT !.pc = pc]
  BY DEF PromotionInv, Typed, P!Goto
<1> QED BY <1>1 DEF P!Programs, Becomes

\* The program has its verdict (Decide).
LEMMA DecideBecomes ==
  ASSUME PromotionInv, NEW v \in P!Verdicts, P!Decide(v)
  PROVE  Becomes("finalizing", prog.log, v, prog.saw)
<1>1. prog \in P!Programs /\ prog' = [prog EXCEPT !.pc = "finalizing", !.verdict = v]
  BY DEF PromotionInv, Typed, P!Decide
<1> QED BY <1>1 DEF P!Programs, P!Steps, P!Closing, Becomes

\* The image was read (Read),
LEMMA ReadBecomes ==
  ASSUME PromotionInv, NEW pc \in P!Steps, P!Read(pc)
  PROVE  Becomes(pc, prog.log, prog.verdict, P!Seen)
<1>1. prog \in P!Programs /\ prog' = [prog EXCEPT !.pc = pc, !.saw = P!Seen]
  BY DEF PromotionInv, Typed, P!Read
<1>2. P!Seen \in {"old", "target", "ambiguous"}
  BY DEF PromotionInv, Typed, P!Seen
<1> HIDE DEF P!Seen
<1> QED BY <1>1, <1>2 DEF P!Programs, Becomes

\* ... or could not be (ReadFails).
LEMMA ReadFailsBecomes ==
  ASSUME PromotionInv, NEW pc \in P!Steps, P!ReadFails(pc)
  PROVE  Becomes(pc, prog.log, prog.verdict, "unread")
<1>1. prog \in P!Programs /\ prog' = [prog EXCEPT !.pc = pc, !.saw = "unread"]
  BY DEF PromotionInv, Typed, P!ReadFails
<1> QED BY <1>1 DEF P!Programs, Becomes

\* An entry added to the journal in memory.
LEMMA Grown ==
  ASSUME PromotionInv, NEW e \in P!Events
  PROVE  /\ P!Logged(e) \in Seq(P!Events)
         /\ Asked(P!Logged(e)) <=> Asked(prog.log) \/ e = "patch-intent"
         /\ Back(P!Logged(e)) <=> Back(prog.log) \/ e \in {"rollback-intent", "rollback-after",
                                                    "rollback-uncertain"}
<1>1. prog.log \in Seq(P!Events)
  BY DEF PromotionInv, Typed, P!Programs
<1> QED BY <1>1, EventAdded DEF P!Logged

\* A commit of the journal that holds (Commit).
LEMMA CommitBecomes ==
  ASSUME PromotionInv, NEW s, NEW e \in P!Events, NEW pc \in P!Steps, P!Commit(s, e, pc)
  PROVE  /\ Becomes(pc, P!Logged(e), prog.verdict, prog.saw)
         /\ disk'.status = s /\ disk'.events = P!Logged(e)
         /\ UNCHANGED <<image, flying, late, rfile>>
<1>1. prog \in P!Programs /\ P!Logged(e) \in Seq(P!Events)
  BY Grown DEF PromotionInv, Typed
<1>2. prog' = [prog EXCEPT !.log = P!Logged(e), !.pc = pc]
      /\ disk' = [status |-> s, events |-> P!Logged(e)]
      /\ UNCHANGED <<image, flying, late, rfile>>
  BY DEF P!Commit, P!Written, P!cluster
<1> HIDE DEF P!Logged
<1>3. Becomes(pc, P!Logged(e), prog.verdict, prog.saw)
  BY <1>1, <1>2 DEF P!Programs, Becomes
<1> QED BY <1>2, <1>3

\* A commit that raised: the file may be the new one or the old.
Half(s, e) ==
  /\ \/ disk' = disk
     \/ disk'.status = s /\ disk'.events = P!Logged(e)
  /\ UNCHANGED <<image, flying, late, rfile>>

\* A commit that raises (CommitRaises), and the program
LEMMA RaisesHalf ==
  ASSUME NEW s, NEW e, P!CommitRaises(s, e)
  PROVE  Half(s, e)
<1>1. UNCHANGED <<image, flying, late, rfile>>
  BY DEF P!CommitRaises, P!cluster
<1>2. disk' \in {disk, [status |-> s, events |-> P!Logged(e)]}
  BY DEF P!CommitRaises, P!Written
<1> QED BY <1>1, <1>2 DEF Half

\* ... goes on elsewhere (CommitFails),
LEMMA FailsBecomes ==
  ASSUME PromotionInv, NEW s, NEW e \in P!Events, NEW pc \in P!Steps, P!CommitFails(s, e, pc)
  PROVE  Becomes(pc, P!Logged(e), prog.verdict, prog.saw) /\ Half(s, e)
<1>1. prog \in P!Programs /\ P!Logged(e) \in Seq(P!Events)
  BY Grown DEF PromotionInv, Typed
<1>2. prog' = [prog EXCEPT !.log = P!Logged(e), !.pc = pc] /\ P!CommitRaises(s, e)
  BY DEF P!CommitFails
<1>3. Becomes(pc, P!Logged(e), prog.verdict, prog.saw)
  BY <1>1, <1>2 DEF P!Programs, Becomes
<1> QED BY <1>2, <1>3, RaisesHalf

\* ... decides (CommitDecides),
LEMMA DecidesBecomes ==
  ASSUME PromotionInv, NEW s, NEW e \in P!Events, NEW v \in P!Verdicts, P!CommitDecides(s, e, v)
  PROVE  Becomes("finalizing", P!Logged(e), v, prog.saw) /\ Half(s, e)
<1>1. prog \in P!Programs /\ P!Logged(e) \in Seq(P!Events)
  BY Grown DEF PromotionInv, Typed
<1>2. prog' = [prog EXCEPT !.log = P!Logged(e), !.pc = "finalizing", !.verdict = v]
      /\ P!CommitRaises(s, e)
  BY DEF P!CommitDecides
<1>3. Becomes("finalizing", P!Logged(e), v, prog.saw)
  BY <1>1, <1>2 DEF P!Programs, P!Steps, P!Closing, Becomes
<1> QED BY <1>2, <1>3, RaisesHalf

\* ... or ends (CommitEscapes).
LEMMA EscapesEnds ==
  ASSUME NEW s, NEW e, P!CommitEscapes(s, e)
  PROVE  prog' = P!Idle /\ Half(s, e)
BY RaisesHalf DEF P!CommitEscapes, P!End

\* A program that has ended is a program.
LEMMA IdleIsProgram == P!Idle \in P!Programs /\ P!Idle.pc = "idle"
BY NothingAsked DEF P!Idle, P!Programs, P!Steps

\* What the receipt says, once it says something.
Said(rf) == IF rf \in P!Verdicts THEN rf ELSE None

\* The parts of a step of OneChange.
Made == image = "old" /\ image' = "target"
Undone == image = "target" /\ image' = "old"
SameImage == image' = image
SameAsked == Asked(disk'.events) <=> Asked(disk.events)
SameBack == Back(disk'.events) <=> Back(disk.events)
SameSaid == Said(rfile') = Said(rfile)

\* A step of the promotion, read as one of OneChange: a stutter, Ask, Make,
\* TakeBack, Undo or Say.
ChangesOnce ==
  \/ SameImage /\ SameAsked /\ SameBack /\ SameSaid
  \/ /\ ~Asked(disk.events) /\ Asked(disk'.events)
     /\ SameImage /\ SameBack /\ SameSaid
  \/ /\ Asked(disk.events) /\ ~Back(disk.events) /\ Made
     /\ SameAsked /\ SameBack /\ SameSaid
  \/ /\ image = "target" /\ ~Back(disk.events) /\ Said(rfile) = None
     /\ Back(disk'.events) /\ SameImage /\ SameAsked /\ SameSaid
  \/ Back(disk.events) /\ Undone /\ SameAsked /\ SameBack /\ SameSaid
  \/ /\ Said(rfile) = None /\ rfile' \in P!Verdicts
     /\ rfile' = "completed" => image = "target" /\ ~Back(disk.events)
     /\ rfile' = "preflight-failed" => ~Asked(disk.events)
     /\ rfile' = "rolled-back" => Asked(disk.events)
     /\ SameImage /\ SameAsked /\ SameBack

-----
\* The actions of a promotion.  Their lemmas are about the invariant's parts
\* and the fields an action changes; the building blocks stay closed.

USE NoneIsApart DEF PromotionInv, Typed, Lasting, Logs, Verdict, Due, Early, Onward,
    Undoing, Resuming, P!cluster, P!files, P!NoJournal,
    Becomes, Half, ChangesOnce, Said, Made, Undone, SameImage,
    SameAsked, SameBack, SameSaid,
    P!JournalStates, P!Verdicts, P!Steps, P!Open, P!Closing

\* The record of the preflight (NotePreflight).
LEMMA PromotionNotePreflight ==
  ASSUME PromotionInv, P!NotePreflight
  PROVE  PromotionInv' /\ ChangesOnce
<1>1. prog.pc = "noted" /\ "preflight" \in P!Events
  BY DEF P!NotePreflight, P!Events
<1>2. /\ P!Logged("preflight") \in Seq(P!Events)
      /\ Asked(P!Logged("preflight")) <=> Asked(prog.log)
      /\ Back(P!Logged("preflight")) <=> Back(prog.log)
  BY <1>1, Grown
<1>3. CASE P!Commit("preflight", "preflight", "intent")
  <2>1. /\ Becomes("intent", P!Logged("preflight"), prog.verdict, prog.saw)
        /\ disk'.status = "preflight" /\ disk'.events = P!Logged("preflight")
        /\ UNCHANGED <<image, flying, late, rfile>>
    BY <1>1, <1>3, CommitBecomes
  <2> QED BY <1>1, <1>2, <2>1, NothingAsked, IdleIsProgram
<1>4. CASE P!CommitDecides("preflight", "preflight", "preflight-failed")
  <2>1. Becomes("finalizing", P!Logged("preflight"), "preflight-failed", prog.saw)
        /\ Half("preflight", "preflight")
    BY <1>1, <1>4, DecidesBecomes
  <2> QED BY <1>1, <1>2, <2>1, NothingAsked, IdleIsProgram
<1> QED BY <1>3, <1>4 DEF P!NotePreflight

\* The intent to change the image becomes durable (Intend): Ask.
LEMMA PromotionIntend ==
  ASSUME PromotionInv, P!Intend
  PROVE  PromotionInv' /\ ChangesOnce
<1>1. prog.pc = "intent" /\ "patch-intent" \in P!Events
  BY DEF P!Intend, P!Events
<1>2. /\ P!Logged("patch-intent") \in Seq(P!Events)
      /\ Asked(P!Logged("patch-intent"))
      /\ Back(P!Logged("patch-intent")) <=> Back(prog.log)
  BY <1>1, Grown
<1>3. CASE P!Commit("preflight", "patch-intent", "patch")
  <2>1. /\ Becomes("patch", P!Logged("patch-intent"), prog.verdict, prog.saw)
        /\ disk'.status = "preflight" /\ disk'.events = P!Logged("patch-intent")
        /\ UNCHANGED <<image, flying, late, rfile>>
    BY <1>1, <1>3, CommitBecomes
  <2> QED BY <1>1, <1>2, <2>1, NothingAsked, IdleIsProgram
<1>4. CASE P!CommitEscapes("preflight", "patch-intent")
  <2>1. prog' = P!Idle /\ Half("preflight", "patch-intent")
    BY <1>1, <1>4, EscapesEnds
  <2> QED BY <1>1, <1>2, <2>1, NothingAsked, IdleIsProgram
<1> QED BY <1>3, <1>4 DEF P!Intend

\* The answer in the journal (NotePatched).
LEMMA PromotionNotePatched ==
  ASSUME PromotionInv, P!NotePatched
  PROVE  PromotionInv' /\ ChangesOnce
<1>1. prog.pc = "patched" /\ "patch-after" \in P!Events
  BY DEF P!NotePatched, P!Events
<1>2. /\ P!Logged("patch-after") \in Seq(P!Events)
      /\ Asked(P!Logged("patch-after")) <=> Asked(prog.log)
      /\ Back(P!Logged("patch-after")) <=> Back(prog.log)
  BY <1>1, Grown
<1>3. CASE P!Commit("preflight", "patch-after", "verify")
  <2>1. /\ Becomes("verify", P!Logged("patch-after"), prog.verdict, prog.saw)
        /\ disk'.status = "preflight" /\ disk'.events = P!Logged("patch-after")
        /\ UNCHANGED <<image, flying, late, rfile>>
    BY <1>1, <1>3, CommitBecomes
  <2> QED BY <1>1, <1>2, <2>1, NothingAsked, IdleIsProgram
<1>4. CASE P!CommitFails("preflight", "patch-after", "discover")
  <2>1. Becomes("discover", P!Logged("patch-after"), prog.verdict, prog.saw)
        /\ Half("preflight", "patch-after")
    BY <1>1, <1>4, FailsBecomes
  <2> QED BY <1>1, <1>2, <2>1, NothingAsked, IdleIsProgram
<1> QED BY <1>3, <1>4 DEF P!NotePatched

\* The intent to take the change back (RollbackIntend): TakeBack.
LEMMA PromotionRollbackIntend ==
  ASSUME PromotionInv, P!RollbackIntend
  PROVE  PromotionInv' /\ ChangesOnce
<1>1. prog.pc = "rbIntent" /\ "rollback-intent" \in P!Events
  BY DEF P!RollbackIntend, P!Events
<1>2. /\ P!Logged("rollback-intent") \in Seq(P!Events)
      /\ Asked(P!Logged("rollback-intent")) <=> Asked(prog.log)
      /\ Back(P!Logged("rollback-intent"))
  BY <1>1, Grown
<1>3. CASE P!Commit("preflight", "rollback-intent", "rbPatch")
  <2>1. /\ Becomes("rbPatch", P!Logged("rollback-intent"), prog.verdict, prog.saw)
        /\ disk'.status = "preflight" /\ disk'.events = P!Logged("rollback-intent")
        /\ UNCHANGED <<image, flying, late, rfile>>
    BY <1>1, <1>3, CommitBecomes
  <2> QED BY <1>1, <1>2, <2>1, NothingAsked, IdleIsProgram
<1>4. CASE P!CommitDecides("preflight", "rollback-intent", "rollback-incomplete")
  <2>1. Becomes("finalizing", P!Logged("rollback-intent"), "rollback-incomplete", prog.saw)
        /\ Half("preflight", "rollback-intent")
    BY <1>1, <1>4, DecidesBecomes
  <2> QED BY <1>1, <1>2, <2>1, NothingAsked, IdleIsProgram
<1> QED BY <1>3, <1>4 DEF P!RollbackIntend

\* The answer of the rollback in the journal (NoteRolledBack).
LEMMA PromotionNoteRolledBack ==
  ASSUME PromotionInv, P!NoteRolledBack
  PROVE  PromotionInv' /\ ChangesOnce
<1>1. prog.pc = "rbAfter" /\ "rollback-after" \in P!Events
  BY DEF P!NoteRolledBack, P!Events
<1>2. /\ P!Logged("rollback-after") \in Seq(P!Events)
      /\ Asked(P!Logged("rollback-after")) <=> Asked(prog.log)
      /\ Back(P!Logged("rollback-after"))
  BY <1>1, Grown
<1>3. CASE P!Commit("preflight", "rollback-after", "rbVerify")
  <2>1. /\ Becomes("rbVerify", P!Logged("rollback-after"), prog.verdict, prog.saw)
        /\ disk'.status = "preflight" /\ disk'.events = P!Logged("rollback-after")
        /\ UNCHANGED <<image, flying, late, rfile>>
    BY <1>1, <1>3, CommitBecomes
  <2> QED BY <1>1, <1>2, <2>1, NothingAsked, IdleIsProgram
<1>4. CASE P!CommitDecides("preflight", "rollback-after", "rollback-incomplete")
  <2>1. Becomes("finalizing", P!Logged("rollback-after"), "rollback-incomplete", prog.saw)
        /\ Half("preflight", "rollback-after")
    BY <1>1, <1>4, DecidesBecomes
  <2> QED BY <1>1, <1>2, <2>1, NothingAsked, IdleIsProgram
<1> QED BY <1>3, <1>4 DEF P!NoteRolledBack

\* The record that a run was resumed (NoteResume).
LEMMA PromotionNoteResume ==
  ASSUME PromotionInv, P!NoteResume
  PROVE  PromotionInv' /\ ChangesOnce
<1>1. prog.pc = "resume" /\ "resume-before" \in P!Events
  BY DEF P!NoteResume, P!Events
<1>2. /\ P!Logged("resume-before") \in Seq(P!Events)
      /\ Asked(P!Logged("resume-before")) <=> Asked(prog.log)
      /\ Back(P!Logged("resume-before")) <=> Back(prog.log)
  BY <1>1, Grown
<1>3. CASE P!Commit("preflight", "resume-before", "reread")
  <2>1. /\ Becomes("reread", P!Logged("resume-before"), prog.verdict, prog.saw)
        /\ disk'.status = "preflight" /\ disk'.events = P!Logged("resume-before")
        /\ UNCHANGED <<image, flying, late, rfile>>
    BY <1>1, <1>3, CommitBecomes
  <2> QED BY <1>1, <1>2, <2>1, NothingAsked, IdleIsProgram
<1>4. CASE P!CommitEscapes("preflight", "resume-before")
  <2>1. prog' = P!Idle /\ Half("preflight", "resume-before")
    BY <1>1, <1>4, EscapesEnds
  <2> QED BY <1>1, <1>2, <2>1, NothingAsked, IdleIsProgram
<1> QED BY <1>3, <1>4 DEF P!NoteResume

\* The verdict in the journal (Finalizing).
LEMMA PromotionFinalizing ==
  ASSUME PromotionInv, P!Finalizing
  PROVE  PromotionInv' /\ ChangesOnce
<1>1. prog.pc = "finalizing" /\ "transaction" \in P!Events
  BY DEF P!Finalizing, P!Events
<1>2. /\ P!Logged("transaction") \in Seq(P!Events)
      /\ Asked(P!Logged("transaction")) <=> Asked(prog.log)
      /\ Back(P!Logged("transaction")) <=> Back(prog.log)
  BY <1>1, Grown
<1>3. CASE P!Commit("finalizing", "transaction", "receipt")
  <2>1. /\ Becomes("receipt", P!Logged("transaction"), prog.verdict, prog.saw)
        /\ disk'.status = "finalizing" /\ disk'.events = P!Logged("transaction")
        /\ UNCHANGED <<image, flying, late, rfile>>
    BY <1>1, <1>3, CommitBecomes
  <2> QED BY <1>1, <1>2, <2>1, NothingAsked, IdleIsProgram
<1>4. CASE P!CommitFails("finalizing", "transaction", "incomplete")
  <2>1. Becomes("incomplete", P!Logged("transaction"), prog.verdict, prog.saw)
        /\ Half("finalizing", "transaction")
    BY <1>1, <1>4, FailsBecomes
  <2> QED BY <1>1, <1>2, <2>1, NothingAsked, IdleIsProgram
<1> QED BY <1>3, <1>4 DEF P!Finalizing

\* A first run (Begin).
LEMMA PromotionBegin ==
  ASSUME PromotionInv, P!Begin
  PROVE  PromotionInv' /\ ChangesOnce
<1>1. prog.pc = "idle" /\ prog = P!Idle /\ prog' = [prog EXCEPT !.pc = "reserve"]
      /\ rfile' = rfile /\ rfile = "absent"
      /\ UNCHANGED <<image, flying, late>>
  BY DEF P!Begin
<1>2. Becomes("reserve", <<>>, None, None)
  BY <1>1, IdleIsProgram DEF P!Programs, P!Idle
<1>3. disk'.status = "empty" /\ disk'.events = <<>> /\ disk.events = <<>>
  BY DEF P!Begin
<1> QED BY <1>1, <1>2, <1>3, NothingAsked

\* A run that resumes a journal (Restart).
LEMMA PromotionRestart ==
  ASSUME PromotionInv, P!Restart
  PROVE  PromotionInv' /\ ChangesOnce
<1>1. rfile = "empty" /\ UNCHANGED <<image, flying, late, disk, rfile>>
      /\ prog' = [P!Idle EXCEPT !.pc = "resume", !.log = disk.events,
                          !.resumed = TRUE]
  BY DEF P!Restart
<1>2. Becomes("resume", disk.events, None, None)
  <2> DEFINE l == disk.events
  <2>1. l \in Seq(P!Events)
        /\ prog' = [P!Idle EXCEPT !.pc = "resume", !.log = l, !.resumed = TRUE]
    BY <1>1
  <2> HIDE DEF l
  <2>2. Becomes("resume", l, None, None)
    BY <2>1 DEF P!Programs, P!Idle
  <2> QED BY <2>2 DEF l
<1>3. Asked(disk.events)
  BY DEF P!Restart, P!Resumable, Asked, P!At
<1> QED BY <1>1, <1>2, <1>3

\* What the look found is recorded and judged (Classify).
LEMMA PromotionClassify ==
  ASSUME PromotionInv, P!Classify
  PROVE  PromotionInv' /\ ChangesOnce
<1> DEFINE e == CASE prog.saw = "unread" -> "patch-uncertain"
                [] prog.saw = "target" -> "patch-applied"
                [] OTHER -> "patch-classified"
           found(v) == [prog EXCEPT !.log = P!Logged(e), !.pc = "finalizing",
                                  !.verdict = v]
           on == [prog EXCEPT !.log = P!Logged(e),
                             !.pc = IF prog.stopped THEN "rbRead" ELSE "verify"]
<1>1. prog.pc = "classify" /\ e \in {"patch-uncertain", "patch-applied", "patch-classified"}
  BY DEF P!Classify
<1>2. prog \in P!Programs
  OBVIOUS
<1>3. \/ P!CommitEscapes("preflight", e)
      \/ /\ disk' = P!Written("preflight", e)
         /\ UNCHANGED <<image, flying, late, rfile>>
         /\ prog' = CASE prog.saw = "target" -> on
                     [] prog.saw = "old" -> found("not-applied")
                     [] OTHER -> found("uncertain")
  BY DEF P!Classify
<1> HIDE DEF e
<1>4. e \in P!Events /\ e # "patch-intent"
      /\ e \notin {"rollback-intent", "rollback-after", "rollback-uncertain"}
  BY <1>1 DEF P!Events
<1>5. /\ P!Logged(e) \in Seq(P!Events)
      /\ Asked(P!Logged(e)) <=> Asked(prog.log)
      /\ Back(P!Logged(e)) <=> Back(prog.log)
  BY <1>4, Grown
<1>6. CASE P!CommitEscapes("preflight", e)
  <2>1. prog' = P!Idle /\ Half("preflight", e)
    BY <1>6, EscapesEnds
  <2> QED BY <1>1, <1>5, <2>1, NothingAsked, IdleIsProgram
<1>7. CASE ~P!CommitEscapes("preflight", e)
  <2>1. disk'.status = "preflight" /\ disk'.events = P!Logged(e)
        /\ UNCHANGED <<image, flying, late, rfile>>
    BY <1>3, <1>7 DEF P!Written
  <2>2. /\ prog.saw = "target" => \/ Becomes("rbRead", P!Logged(e), prog.verdict, prog.saw)
                                 \/ Becomes("verify", P!Logged(e), prog.verdict, prog.saw)
        /\ prog.saw = "old" => Becomes("finalizing", P!Logged(e), "not-applied", prog.saw)
        /\ prog.saw \notin {"old", "target"}
             => Becomes("finalizing", P!Logged(e), "uncertain", prog.saw)
    <3>1. CASE prog.saw = "target"
      <4>1. \/ prog' = [prog EXCEPT !.log = P!Logged(e), !.pc = "rbRead"]
            \/ prog' = [prog EXCEPT !.log = P!Logged(e), !.pc = "verify"]
        BY <1>3, <1>7, <3>1
      <4>2. CASE prog' = [prog EXCEPT !.log = P!Logged(e), !.pc = "rbRead"]
        BY <1>2, <1>5, <3>1, <4>2 DEF P!Programs
      <4>3. CASE prog' = [prog EXCEPT !.log = P!Logged(e), !.pc = "verify"]
        BY <1>2, <1>5, <3>1, <4>3 DEF P!Programs
      <4> QED BY <4>1, <4>2, <4>3
    <3>2. CASE prog.saw = "old"
      <4>1. prog' = [prog EXCEPT !.log = P!Logged(e), !.pc = "finalizing",
                                 !.verdict = "not-applied"]
        BY <1>3, <1>7, <3>2
      <4> QED BY <1>2, <1>5, <3>2, <4>1 DEF P!Programs
    <3>3. CASE prog.saw \notin {"old", "target"}
      <4>1. prog' = [prog EXCEPT !.log = P!Logged(e), !.pc = "finalizing", !.verdict = "uncertain"]
        BY <1>3, <1>7, <3>3
      <4> QED BY <1>2, <1>5, <3>3, <4>1 DEF P!Programs
    <3> QED BY <3>1, <3>2, <3>3
  <2> HIDE DEF found, on
  <2> QED BY <1>1, <1>5, <2>1, <2>2
<1> QED BY <1>6, <1>7

\* A resumed run that finds the old image (OldImage).
LEMMA PromotionOldImage ==
  ASSUME PromotionInv, P!OldImage
  PROVE  PromotionInv' /\ ChangesOnce
<1>1. prog.pc = "oldImage" /\ UNCHANGED <<image, flying, late, disk, rfile>>
  BY DEF P!OldImage, P!Escape
<1>2. P!Decide("rolled-back") \/ prog' = P!Idle
  BY DEF P!OldImage, P!Escape, P!End
<1>3. CASE P!Decide("rolled-back")
  <2>1. Becomes("finalizing", prog.log, "rolled-back", prog.saw)
    BY <1>3, DecideBecomes
  <2> QED BY <1>1, <2>1
<1>4. CASE prog' = P!Idle
  BY <1>1, <1>4, NothingAsked, IdleIsProgram
<1> QED BY <1>2, <1>3, <1>4

\* The receipt, committed or not (CommitReceipt): Say.
LEMMA PromotionCommitReceipt ==
  ASSUME PromotionInv, P!CommitReceipt
  PROVE  PromotionInv' /\ ChangesOnce
<1>1. prog.pc = "receipt" /\ UNCHANGED <<image, flying, late, disk>>
      /\ rfile' \in {rfile, prog.verdict}
  BY DEF P!CommitReceipt
<1>2. \/ Becomes("terminal", prog.log, prog.verdict, prog.saw) /\ rfile' = prog.verdict
      \/ Becomes("incomplete", prog.log, prog.verdict, prog.saw)
  BY GotoBecomes DEF P!CommitReceipt
<1>3. prog.verdict \in P!Verdicts
  BY <1>1 DEF P!Programs
<1> QED BY <1>1, <1>2, <1>3

\* The last commit of the journal (Terminal).
LEMMA PromotionTerminal ==
  ASSUME PromotionInv, P!Terminal
  PROVE  PromotionInv' /\ ChangesOnce
<1>1. prog.pc = "terminal" /\ "transaction" \in P!Events /\ prog.verdict \in P!Verdicts
  BY DEF P!Terminal, P!Events, P!Programs
<1>2. /\ P!Logged("transaction") \in Seq(P!Events)
      /\ Asked(P!Logged("transaction")) <=> Asked(prog.log)
      /\ Back(P!Logged("transaction")) <=> Back(prog.log)
  BY <1>1, Grown
<1>3. CASE P!CommitFails(prog.verdict, "transaction", "incomplete")
  <2>1. Becomes("incomplete", P!Logged("transaction"), prog.verdict, prog.saw)
        /\ Half(prog.verdict, "transaction")
    BY <1>1, <1>3, FailsBecomes
  <2> QED BY <1>1, <1>2, <2>1
<1>4. CASE ~P!CommitFails(prog.verdict, "transaction", "incomplete")
  <2>1. prog' = P!Idle /\ disk'.status = prog.verdict /\ disk'.events = P!Logged("transaction")
        /\ UNCHANGED <<image, flying, late, rfile>>
    BY <1>4 DEF P!Terminal, P!Written, P!End
  <2> QED BY <1>1, <1>2, <2>1, NothingAsked, IdleIsProgram
<1> QED BY <1>3, <1>4

\* A run that could not finish its files (Incomplete).
LEMMA PromotionIncomplete ==
  ASSUME PromotionInv, P!Incomplete
  PROVE  PromotionInv' /\ ChangesOnce
<1>1. prog.pc = "incomplete" /\ "transaction" \in P!Events
  BY DEF P!Incomplete, P!Events
<1>2. /\ P!Logged("transaction") \in Seq(P!Events)
      /\ Asked(P!Logged("transaction")) <=> Asked(prog.log)
      /\ Back(P!Logged("transaction")) <=> Back(prog.log)
  BY <1>1, Grown
<1>3. prog' = P!Idle /\ UNCHANGED <<image, flying, late, rfile>>
      /\ \/ disk' = disk
         \/ disk'.status = "finalization-incomplete" /\ disk'.events = P!Logged("transaction")
  BY DEF P!Incomplete, P!Written, P!End
<1> QED BY <1>1, <1>2, <1>3, NothingAsked, IdleIsProgram

\* What a resumed run reads (Reread).
LEMMA PromotionReread ==
  ASSUME PromotionInv, P!Reread
  PROVE  PromotionInv' /\ ChangesOnce
<1>1. prog.pc = "reread" /\ UNCHANGED <<image, flying, disk, rfile>> /\ late' = FALSE
  BY DEF P!Reread
<1>2. Becomes("rejudge", prog.log, prog.verdict, P!Seen)
  BY ReadBecomes DEF P!Reread
<1>3. P!Seen \in {"ambiguous", image}
  BY DEF P!Seen
<1> HIDE DEF P!Seen
<1>4. Typed' /\ disk' = disk /\ prog'.pc = "rejudge"
  BY <1>1, <1>2
<1>5. Lasting(image, flying, disk.events, rfile, late)'
  BY <1>1
<1>6. Logs(image, disk.events, rfile, prog)' /\ Verdict(image, late, prog)'
  BY <1>1, <1>2
<1>7. Due(image, flying, disk.events, late, prog)'
  BY <1>1, <1>2, <1>3
<1>8. ChangesOnce
  BY <1>1
<1> HIDE DEF Typed, Lasting, Logs, Verdict, Due, ChangesOnce
<1> QED BY <1>4, <1>5, <1>6, <1>7, <1>8

\* What a resumed run makes of it (Rejudge).
LEMMA PromotionRejudge ==
  ASSUME PromotionInv, P!Rejudge
  PROVE  PromotionInv' /\ ChangesOnce
<1> DEFINE e == IF prog.saw = "target" THEN "resume-target" ELSE "resume-classified"
<1>1. prog.pc = "rejudge" /\ e \in {"resume-target", "resume-classified"}
  BY DEF P!Rejudge
<1>2. prog \in P!Programs
  OBVIOUS
<1>3. \/ P!CommitEscapes("preflight", e)
      \/ /\ disk' = P!Written("preflight", e)
         /\ UNCHANGED <<image, flying, late, rfile>>
         /\ \/ prog' = [prog EXCEPT !.log = P!Logged(e), !.pc = "finalizing",
                                    !.verdict = "uncertain"]
            \/ prog.saw = "old" /\ prog' = [prog EXCEPT !.log = P!Logged(e), !.pc = "oldImage"]
            \/ Back(prog.log) /\ prog' = [prog EXCEPT !.log = P!Logged(e), !.pc = "rbRead"]
            \/ ~Back(prog.log) /\ prog' = [prog EXCEPT !.log = P!Logged(e), !.pc = "verify"]
  BY DEF P!Rejudge, Back
<1> HIDE DEF e
<1>4. e \in P!Events /\ e # "patch-intent"
      /\ e \notin {"rollback-intent", "rollback-after", "rollback-uncertain"}
  BY <1>1 DEF P!Events
<1>5. /\ P!Logged(e) \in Seq(P!Events)
      /\ Asked(P!Logged(e)) <=> Asked(prog.log)
      /\ Back(P!Logged(e)) <=> Back(prog.log)
  BY <1>4, Grown
<1>6. CASE P!CommitEscapes("preflight", e)
  <2>1. prog' = P!Idle /\ Half("preflight", e)
    BY <1>6, EscapesEnds
  <2> QED BY <1>1, <1>5, <2>1, NothingAsked, IdleIsProgram
<1>7. CASE ~P!CommitEscapes("preflight", e)
  <2>1. disk'.status = "preflight" /\ disk'.events = P!Logged(e)
        /\ UNCHANGED <<image, flying, late, rfile>>
    BY <1>3, <1>7 DEF P!Written
  <2>2. \/ Becomes("finalizing", P!Logged(e), "uncertain", prog.saw)
        \/ prog.saw = "old" /\ Becomes("oldImage", P!Logged(e), prog.verdict, prog.saw)
        \/ Becomes("rbRead", P!Logged(e), prog.verdict, prog.saw)
        \/ ~Back(prog.log) /\ Becomes("verify", P!Logged(e), prog.verdict, prog.saw)
    <3>1. CASE prog' = [prog EXCEPT !.log = P!Logged(e), !.pc = "finalizing",
                                    !.verdict = "uncertain"]
      BY <1>2, <1>5, <3>1 DEF P!Programs
    <3>2. CASE prog.saw = "old" /\ prog' = [prog EXCEPT !.log = P!Logged(e), !.pc = "oldImage"]
      BY <1>2, <1>5, <3>2 DEF P!Programs
    <3>3. CASE prog' = [prog EXCEPT !.log = P!Logged(e), !.pc = "rbRead"]
      BY <1>2, <1>5, <3>3 DEF P!Programs
    <3>4. CASE ~Back(prog.log) /\ prog' = [prog EXCEPT !.log = P!Logged(e), !.pc = "verify"]
      BY <1>2, <1>5, <3>4 DEF P!Programs
    <3> QED BY <1>3, <1>7, <3>1, <3>2, <3>3, <3>4
  <2> QED BY <1>1, <1>5, <2>1, <2>2
<1> QED BY <1>6, <1>7

\* The record of the proof, and the verdict (NoteVerified).
LEMMA PromotionNoteVerified ==
  ASSUME PromotionInv, P!NoteVerified
  PROVE  PromotionInv' /\ ChangesOnce
<1> DEFINE l == P!Logged("postconditions")
<1>1. prog.pc = "post" /\ prog \in P!Programs /\ "postconditions" \in P!Events
  BY DEF P!NoteVerified, P!Events
<1>2. l \in Seq(P!Events) /\ (Asked(l) <=> Asked(prog.log)) /\ (Back(l) <=> Back(prog.log))
  BY <1>1, Grown
<1>3. CASE P!CommitFails("preflight", "postconditions", "rbRead")
  <2>1. Becomes("rbRead", l, prog.verdict, prog.saw) /\ Half("preflight", "postconditions")
    BY <1>1, <1>3, FailsBecomes
  <2> QED BY <1>1, <1>2, <2>1
<1>4. CASE ~P!CommitFails("preflight", "postconditions", "rbRead")
  <2>1. prog' = [prog EXCEPT !.log = l, !.pc = "finalizing", !.verdict = "completed"]
        /\ disk'.status = "preflight" /\ disk'.events = l
        /\ UNCHANGED <<image, flying, late, rfile>>
    BY <1>4 DEF P!NoteVerified, P!Written
  <2> HIDE DEF l
  <2>2. Becomes("finalizing", l, "completed", prog.saw)
    BY <1>1, <1>2, <2>1 DEF P!Programs
  <2> QED BY <1>1, <1>2, <2>1, <2>2
<1> QED BY <1>3, <1>4

\* A rollback nobody knows of (RollbackUncertain).
LEMMA PromotionRollbackUncertain ==
  ASSUME PromotionInv, P!RollbackUncertain
  PROVE  PromotionInv' /\ ChangesOnce
<1> DEFINE l == P!Logged("rollback-uncertain")
<1>1. prog.pc = "rbUncertain" /\ prog \in P!Programs /\ "rollback-uncertain" \in P!Events
  BY DEF P!RollbackUncertain, P!Events
<1>2. l \in Seq(P!Events) /\ (Asked(l) <=> Asked(prog.log)) /\ Back(l)
  BY <1>1, Grown
<1>3. CASE P!CommitDecides("preflight", "rollback-uncertain", "rollback-incomplete")
  <2>1. Becomes("finalizing", l, "rollback-incomplete", prog.saw)
        /\ Half("preflight", "rollback-uncertain")
    BY <1>1, <1>3, DecidesBecomes
  <2> QED BY <1>1, <1>2, <2>1
<1>4. CASE ~P!CommitDecides("preflight", "rollback-uncertain", "rollback-incomplete")
  <2>1. prog' = [prog EXCEPT !.log = l, !.pc = "finalizing", !.verdict = "rollback-incomplete"]
        /\ disk'.status = "preflight" /\ disk'.events = l
        /\ UNCHANGED <<image, flying, late, rfile>>
    BY <1>4 DEF P!RollbackUncertain, P!Written
  <2> HIDE DEF l
  <2>2. Becomes("finalizing", l, "rollback-incomplete", prog.saw)
    BY <1>1, <1>2, <2>1 DEF P!Programs
  <2> QED BY <1>1, <1>2, <2>1, <2>2
<1> QED BY <1>3, <1>4

\* The patch is served, cut off or refused (PatchImage): Make.
LEMMA PromotionPatchImage ==
  ASSUME PromotionInv, P!PatchImage
  PROVE  PromotionInv' /\ ChangesOnce
<1>1. prog.pc = "patch" /\ UNCHANGED <<disk, rfile, late>>
      /\ \/ image' = "target" /\ flying' = {}
         \/ image' = image /\ flying' = flying
         \/ image' = image /\ flying' = flying \cup {"target"}
  BY DEF P!PatchImage, P!Patch, P!CutOff
<1>2. \/ Becomes("patched", prog.log, prog.verdict, prog.saw)
      \/ Becomes("discover", prog.log, prog.verdict, prog.saw)
  BY GotoBecomes DEF P!PatchImage, P!Patch
<1>3. CASE image' = "target" /\ flying' = {}
  BY <1>1, <1>2, <1>3
<1>4. CASE image' = image /\ flying' = flying
  BY <1>1, <1>2, <1>4
<1>5. CASE image' = image /\ flying' = flying \cup {"target"}
  BY <1>1, <1>2, <1>5
<1> QED BY <1>1, <1>3, <1>4, <1>5

\* The patch that takes it back (RollbackPatch): Undo.
LEMMA PromotionRollbackPatch ==
  ASSUME PromotionInv, P!RollbackPatch
  PROVE  PromotionInv' /\ ChangesOnce
<1>1. prog.pc = "rbPatch" /\ UNCHANGED <<disk, rfile, late>>
      /\ \/ image' = "old" /\ flying' = {}
         \/ image' = image /\ flying' = flying
         \/ image' = image /\ flying' = flying \cup {"old"}
  BY DEF P!RollbackPatch, P!Patch, P!CutOff
<1>2. \/ Becomes("rbAfter", prog.log, prog.verdict, prog.saw)
      \/ Becomes("rbDiscover", prog.log, prog.verdict, prog.saw)
  BY GotoBecomes DEF P!RollbackPatch, P!Patch
<1>3. CASE image' = "old" /\ flying' = {}
  BY <1>1, <1>2, <1>3
<1>4. CASE image' = image /\ flying' = flying
  BY <1>1, <1>2, <1>4
<1>5. CASE image' = image /\ flying' = flying \cup {"old"}
  BY <1>1, <1>2, <1>5
<1> QED BY <1>1, <1>3, <1>4, <1>5

\* PromotionInterrupted, raised wherever it is caught (Interrupt).
LEMMA PromotionInterrupt ==
  ASSUME PromotionInv, P!Interrupt
  PROVE  PromotionInv' /\ ChangesOnce
<1>1. prog.pc \in P!Open /\ UNCHANGED <<rfile, late>> /\ prog \in P!Programs
  BY DEF P!Interrupt
<1>2. CASE prog' = P!Idle /\ UNCHANGED <<image, flying, disk>>
  BY <1>1, <1>2, NothingAsked, IdleIsProgram
<1>3. CASE /\ prog.pc \in {"preflight", "noted"} /\ P!Decide("preflight-failed")
           /\ UNCHANGED <<image, flying, disk>>
  <2>1. Becomes("finalizing", prog.log, "preflight-failed", prog.saw)
    BY <1>3, DecideBecomes
  <2> QED BY <1>1, <1>3, <2>1
<1>4. CASE prog.pc = "patch" /\ P!CutOff("target") /\ UNCHANGED disk
           /\ prog' = [prog EXCEPT !.pc = "discover", !.stopped = TRUE]
  <2>1. Becomes("discover", prog.log, prog.verdict, prog.saw)
    BY <1>1, <1>4 DEF P!Programs
  <2>2. \/ image' = "target" /\ flying' = {}
        \/ image' = image /\ flying' = flying
        \/ image' = image /\ flying' = flying \cup {"target"}
    BY <1>4 DEF P!CutOff
  <2> QED BY <1>1, <1>4, <2>1, <2>2
<1>5. CASE prog.pc = "patched" /\ UNCHANGED <<image, flying, disk>>
           /\ prog' = [prog EXCEPT !.pc = "discover", !.stopped = TRUE]
  <2>1. Becomes("discover", prog.log, prog.verdict, prog.saw)
    BY <1>1, <1>5 DEF P!Programs
  <2> QED BY <1>1, <1>5, <2>1
<1>6. CASE /\ prog.pc = "patched" /\ UNCHANGED <<image, flying>>
           /\ disk' \in {disk, P!Written("preflight", "patch-after")}
           /\ prog' = [prog EXCEPT !.pc = "discover", !.stopped = TRUE,
                                      !.log = P!Logged("patch-after")]
  <2> DEFINE l == P!Logged("patch-after")
  <2>1. l \in Seq(P!Events) /\ (Asked(l) <=> Asked(prog.log)) /\ (Back(l) <=> Back(prog.log))
    BY Grown DEF P!Events
  <2>2. prog' = [prog EXCEPT !.pc = "discover", !.stopped = TRUE, !.log = l]
        /\ \/ disk' = disk
           \/ disk'.status = "preflight" /\ disk'.events = l
    BY <1>6 DEF P!Written
  <2> HIDE DEF l
  <2>3. Becomes("discover", l, prog.verdict, prog.saw)
    BY <1>1, <2>1, <2>2 DEF P!Programs
  <2> QED BY <1>1, <1>6, <2>1, <2>2, <2>3
<1>7. CASE /\ prog.pc = "verify" /\ P!Goto("rbRead")
           /\ UNCHANGED <<image, flying, disk>>
  <2>1. Becomes("rbRead", prog.log, prog.verdict, prog.saw)
    BY <1>7, GotoBecomes
  <2> QED BY <1>1, <1>7, <2>1
<1> QED BY <1>2, <1>3, <1>4, <1>5, <1>6, <1>7 DEF P!Interrupt, P!End

\* SIGKILL, or the host (Kill).
LEMMA PromotionKill ==
  ASSUME PromotionInv, P!Kill
  PROVE  PromotionInv' /\ ChangesOnce
<1>1. prog.pc # "idle" /\ UNCHANGED <<rfile, late, disk>> /\ prog' = P!Idle
  BY DEF P!Kill, P!End
<1>2. \/ image' = image /\ flying' = flying
      \/ prog.pc = "patch" /\ image' = "target" /\ flying' = {}
      \/ prog.pc = "patch" /\ image' = image /\ flying' = flying \cup {"target"}
      \/ prog.pc = "rbPatch" /\ image' = "old" /\ flying' = {}
      \/ prog.pc = "rbPatch" /\ image' = image /\ flying' = flying \cup {"old"}
  BY DEF P!Kill, P!CutOff
<1>3. CASE image' = image /\ flying' = flying
  BY <1>1, <1>3, NothingAsked, IdleIsProgram
<1>4. CASE prog.pc = "patch" /\ image' = "target" /\ flying' = {}
  BY <1>1, <1>4, NothingAsked, IdleIsProgram
<1>5. CASE prog.pc = "patch" /\ image' = image /\ flying' = flying \cup {"target"}
  BY <1>1, <1>5, NothingAsked, IdleIsProgram
<1>6. CASE prog.pc = "rbPatch" /\ image' = "old" /\ flying' = {}
  BY <1>1, <1>6, NothingAsked, IdleIsProgram
<1>7. CASE prog.pc = "rbPatch" /\ image' = image /\ flying' = flying \cup {"old"}
  BY <1>1, <1>7, NothingAsked, IdleIsProgram
<1> QED BY <1>2, <1>3, <1>4, <1>5, <1>6, <1>7

\* Late requests, status writes and drift (Others).
LEMMA PromotionOthers ==
  ASSUME PromotionInv, P!Others
  PROVE  PromotionInv' /\ ChangesOnce
<1>1. CASE P!StatusWrite
  BY <1>1 DEF P!StatusWrite
<1>2. CASE \E to \in {"old", "target"} : P!Land(to)
  <2> PICK to \in {"old", "target"} : P!Land(to)
    BY <1>2
  <2>1. to \in flying /\ image' = to /\ flying' = {} /\ UNCHANGED <<disk, rfile, prog>>
        /\ late' = (late \/ P!Judging)
    BY DEF P!Land
  <2>2. late' \in BOOLEAN /\ (late => late')
        /\ (prog.saw # None \/ prog.verdict # None \/ rfile \in P!Verdicts => late')
    BY <2>1 DEF P!Judging, P!Decided
  <2> QED BY <2>1, <2>2
<1>3. CASE \E f \in PromotionFacets : P!Drift(f)
  <2> PICK f \in PromotionFacets : P!Drift(f)
    BY <1>3
  <2>1. image' = image /\ flying' \in {flying, {}} /\ UNCHANGED <<disk, rfile, prog, late>>
    BY DEF P!Drift
  <2>2. CASE flying' = flying
    BY <2>1, <2>2
  <2>3. CASE flying' = {}
    BY <2>1, <2>3
  <2> QED BY <2>1, <2>2, <2>3
<1> QED BY <1>1, <1>2, <1>3 DEF P!Others

\* The outputs are reserved (Reserve).
LEMMA PromotionReserve ==
  ASSUME PromotionInv, P!Reserve
  PROVE  PromotionInv' /\ ChangesOnce
BY NothingAsked, IdleIsProgram, GotoBecomes, DecideBecomes
   DEF P!Reserve, P!Fault, P!End, P!Escape

\* The journal is opened (OpenJournal).
LEMMA PromotionOpenJournal ==
  ASSUME PromotionInv, P!OpenJournal
  PROVE  PromotionInv' /\ ChangesOnce
BY NothingAsked, IdleIsProgram, GotoBecomes, DecideBecomes
   DEF P!OpenJournal, P!Fault, P!End, P!Escape

\* The preflight (RunPreflight).
LEMMA PromotionRunPreflight ==
  ASSUME PromotionInv, P!RunPreflight
  PROVE  PromotionInv' /\ ChangesOnce
BY NothingAsked, IdleIsProgram, GotoBecomes, DecideBecomes
   DEF P!RunPreflight, P!Fault, P!End, P!Escape, P!Preflight

\* The look for a lost answer (Discover).
LEMMA PromotionDiscover ==
  ASSUME PromotionInv, P!Discover
  PROVE  PromotionInv' /\ ChangesOnce
BY NothingAsked, IdleIsProgram, GotoBecomes, DecideBecomes, ReadBecomes, ReadFailsBecomes
   DEF P!Discover, P!Fault, P!End, P!Escape, P!Seen

\* The proof that the target runs (Verify).
LEMMA PromotionVerify ==
  ASSUME PromotionInv, P!Verify
  PROVE  PromotionInv' /\ ChangesOnce
BY NothingAsked, IdleIsProgram, GotoBecomes, DecideBecomes
   DEF P!Verify, P!Fault, P!End, P!Escape, P!LiveTarget, P!WorkbenchIs

\* What a rollback starts from (RollbackRead).
LEMMA PromotionRollbackRead ==
  ASSUME PromotionInv, P!RollbackRead
  PROVE  PromotionInv' /\ ChangesOnce
BY NothingAsked, IdleIsProgram, GotoBecomes, DecideBecomes
   DEF P!RollbackRead, P!Fault, P!End, P!Escape, P!WorkbenchIs

\* The look for its answer (RollbackDiscover).
LEMMA PromotionRollbackDiscover ==
  ASSUME PromotionInv, P!RollbackDiscover
  PROVE  PromotionInv' /\ ChangesOnce
BY NothingAsked, IdleIsProgram, GotoBecomes, DecideBecomes, ReadBecomes, ReadFailsBecomes
   DEF P!RollbackDiscover, P!Fault, P!End, P!Escape, P!Seen

\* The proof that the old image runs (RollbackVerify).
LEMMA PromotionRollbackVerify ==
  ASSUME PromotionInv, P!RollbackVerify
  PROVE  PromotionInv' /\ ChangesOnce
BY NothingAsked, IdleIsProgram, GotoBecomes, DecideBecomes
   DEF P!RollbackVerify, P!Fault, P!End, P!Escape, P!RolledBackLive, P!WorkbenchIs

\* A read that fails (RereadFails).
LEMMA PromotionRereadFails ==
  ASSUME PromotionInv, P!RereadFails
  PROVE  PromotionInv' /\ ChangesOnce
BY NothingAsked, IdleIsProgram, GotoBecomes, DecideBecomes
   DEF P!RereadFails, P!Fault, P!End, P!Escape

\* The promotion has not begun.
LEMMA PromotionBegins ==
  ASSUME image = "old", flying = {}, disk = P!NoJournal, rfile = "absent", prog = P!Idle,
         late = FALSE
  PROVE  PromotionInv
BY NothingAsked, IdleIsProgram

\* A step that is not of the promotion.
LEMMA PromotionStays ==
  ASSUME PromotionInv, UNCHANGED <<image, flying, disk, rfile, prog, late>>
  PROVE  PromotionInv' /\ ChangesOnce
<1>1. disk' = disk /\ disk'.events = disk.events /\ disk'.status = disk.status
      /\ prog' = prog /\ prog'.pc = prog.pc /\ prog'.log = prog.log
  OBVIOUS
<1> QED BY <1>1

HIDE NoneIsApart DEF PromotionInv, Typed, Lasting, Logs, Verdict, Due, Early, Onward,
    Undoing, Resuming, P!cluster, P!files, P!NoJournal,
    Becomes, Half, ChangesOnce, Said, Made, Undone, SameImage,
    SameAsked, SameBack, SameSaid,
    P!JournalStates, P!Verdicts, P!Steps, P!Open, P!Closing

-----
\* The reset

\* The domains of the variables the reset uses.
ResetTyped ==
  /\ gate \in {"open", "gated"} /\ flux \in {"active", "suspended"}
  /\ agent \in {0, 1} /\ relays \subseteq R!Relays
  /\ flying \subseteq R!Mutations
  /\ disk \subseteq R!Mutations \cup {"opened", "preflight", "again", "final", "receipt"}
  /\ rfile \in {"absent", "empty"} \cup R!Verdicts
  /\ prog \in R!Programs /\ unnoted \in BOOLEAN /\ spoiled \subseteq R!Relays
  /\ late \subseteq R!Mutations

\* All three temporary changes are taken back for good: none of the requests
\* that make them is still on its way.
Restored == /\ gate = "open" /\ flux = "active" /\ agent = 1
            /\ "gate" \notin flying /\ "suspend" \notin flying /\ "down" \notin flying

\* The deletions of the events of the two relays.
Deletions == {"deleteCitizen", "deleteAgent"}
\* Nothing was deleted, and nothing that deletes is on its way.
Untouched == relays = R!Relays /\ flying \cap Deletions = {}

\* what a verdict says
Says(v) ==
  /\ v \in R!Verdicts \ {"uncertain"} /\ ~unnoted => Restored
  /\ v = "completed" => relays = {} /\ ~unnoted
  /\ v \in {"preflight-failed", "failed-restored"} => Untouched

\* A mutation that was made is not on its way a second time.
Objects ==
  /\ gate = "gated" => "gate" \notin flying
  /\ flux = "suspended" => "suspend" \notin flying
  /\ agent = 0 => "down" \notin flying

\* What is changed or on its way is in the journal.
Journaled ==
  /\ gate = "gated" \/ "gate" \in flying => "gate" \in disk
  /\ flux = "suspended" \/ "suspend" \in flying => "suspend" \in disk
  /\ agent = 0 \/ "down" \in flying => "down" \in disk
  /\ relays # R!Relays \/ flying \cap Deletions # {} => "deleteCitizen" \in disk

\* The steps between the cut of a request and the record of the look for it.
Doubt == {"look", "shown", "denied", "unread"}
\* The steps before a request is made.
Before == {"check", "intent", "send"}

\* What the locals of a program know: of each change they name, that no second
\* one follows; of each they do not name, that it was not made and will not be.
\* A run whose error is of the transport, or that forgot a look, claims nothing.
Locals(m) ==
  /\ m.active => "gate" \notin flying
  /\ m.suspended => "suspend" \notin flying
  /\ m.down => "down" \notin flying
  /\ unnoted => m.error # None
  /\ m.error # "transport" /\ ~unnoted =>
       /\ ~m.active /\ ~(m.at = "gate" /\ m.step \in Doubt)
            => gate = "open" /\ "gate" \notin flying
       /\ ~m.suspended /\ ~(m.at = "suspend" /\ m.step \in Doubt)
            => flux = "active" /\ "suspend" \notin flying
       /\ ~m.down /\ ~(m.at = "down" /\ m.step \in Doubt)
            => agent = 1 /\ "down" \notin flying
  /\ ~m.begun => Untouched

\* The places before the first mutation.
Opening == {"start", "preflight", "noted"}
\* The places of the forward sequence.
Outward == {"gate", "quiet", "suspend", "down", "deleteCitizen", "deleteAgent", "up"}

\* What holds where the program is: the order of the forward sequence, what
\* each mutation may rely on, and what its step has established.
Place(m) ==
  /\ m.at \in Opening => /\ ~unnoted /\ m.error = None /\ flying = {}
                         /\ ~m.active /\ ~m.suspended /\ ~m.down /\ ~m.begun
  /\ m.at \in Outward => m.error = None /\ flying \cap {"open", "resume", "scale"} = {}
  /\ m.at \in Outward \ {"up"} => "up" \notin flying
  /\ m.at = "gate" /\ m.step \in Before => ~m.active
  /\ m.at \in {"gate", "quiet"} \/ (m.at = "suspend" /\ m.step \in Before) => ~m.suspended
  /\ m.at \in {"gate", "quiet", "suspend"} \/ (m.at = "down" /\ m.step \in Before) => ~m.down
  /\ m.at \in {"quiet", "suspend", "down"} \cup Deletions => gate = "gated"
  /\ m.at \in {"down"} \cup Deletions => flux = "suspended"
  /\ m.at \in Deletions => agent = 0
  /\ m.at \in Deletions \cup {"up", "scale"} => "down" \notin flying
  /\ m.at = "resume" => "suspend" \notin flying
  /\ m.at = "open" => "gate" \notin flying
  /\ m.at \in R!Mutations /\ m.step \in {"answered", "shown", "wait"} => R!Applied(m.at)
  /\ m.at \in R!Mutations /\ m.step = "send" => m.at \in disk
  /\ m.at \in Deletions /\ m.step = "send" => m.begun
  /\ m.at = "deleteAgent" => "deleteCitizen" \in disk
  /\ m.at \notin R!Mutations => m.step = "check"
  /\ m.at \in Outward => m.step # "failing"
  /\ m.at \in {"final", "intended", "receipt"} => m.verdict \in R!Verdicts
  /\ m.at \notin {"final", "intended", "receipt"} => m.verdict = None
  /\ Says(m.verdict)

\* The inductive invariant of a reset.  A receipt is true when it is written
\* because the locals are (Locals), and stays true because nothing that would
\* undo it is on its way (Restored, Untouched).
ResetInv ==
  /\ ResetTyped /\ Objects /\ Journaled /\ R!ResetWhileQuiet /\ Says(rfile)
  /\ prog.at = "idle" => /\ prog = R!Idle /\ Restored /\ Untouched /\ flying = {}
                          /\ ~unnoted /\ disk = {} /\ rfile = "absent"
  /\ prog.at \notin {"idle", "closed"} =>
       rfile = "empty" /\ Locals(prog) /\ Place(prog)

\* The mutations of the restoration.
Restore == {"scale", "resume", "open"}
\* The mutations of both sequences.
Nine == {"gate", "suspend", "down", "deleteCitizen", "deleteAgent",
         "up", "scale", "resume", "open"}

\* The mutations of the two sequences, by name.
LEMMA MutationsAre ==
  /\ R!Mutations = Nine
  /\ {R!Forward[i] : i \in DOMAIN R!Forward} = Outward \ {"quiet"}
  /\ R!InForward <=> prog.at \in Outward \ {"quiet"}
  /\ R!InRestoring <=> prog.at \in Restore
<1>1. DOMAIN R!Forward = 1..6 /\ DOMAIN R!Restoring = 1..3
  BY DEF R!Forward, R!Restoring
<1>2. /\ R!Forward[1] = "gate" /\ R!Forward[2] = "suspend" /\ R!Forward[3] = "down"
      /\ R!Forward[4] = "deleteCitizen" /\ R!Forward[5] = "deleteAgent"
      /\ R!Forward[6] = "up"
  BY DEF R!Forward
<1>3. R!Restoring[1] = "scale" /\ R!Restoring[2] = "resume" /\ R!Restoring[3] = "open"
  BY DEF R!Restoring
<1>4. 1..6 = {1, 2, 3, 4, 5, 6} /\ 1..3 = {1, 2, 3}
  OBVIOUS
<1> QED BY <1>1, <1>2, <1>3, <1>4
        DEF R!Mutations, R!InForward, R!InRestoring, Outward, Restore, Nine

\* A change of the program that leaves what the locals know.
Kept(n, m) ==
  /\ n \in R!Programs
  /\ n.active = m.active /\ n.suspended = m.suspended /\ n.down = m.down
  /\ n.begun = m.begun /\ n.verdict = m.verdict

\* The next step within a mutation.
LEMMA StepKept ==
  ASSUME NEW m \in R!Programs, NEW st \in R!AtSteps
  PROVE  LET n == [m EXCEPT !.step = st] IN
         Kept(n, m) /\ n.at = m.at /\ n.step = st /\ n.error = m.error
BY DEF R!Programs, Kept

\* The next place.
LEMMA AtKept ==
  ASSUME NEW m \in R!Programs, NEW a \in R!Mutations \cup R!Outside
  PROVE  LET n == [m EXCEPT !.at = a] IN
         Kept(n, m) /\ n.at = a /\ n.step = m.step /\ n.error = m.error
BY DEF R!Programs, Kept

\* The first error of the run is kept (Failed).
LEMMA FailedKept ==
  ASSUME NEW m \in R!Programs, NEW e \in {"transport", "other"}
  PROVE  LET n == R!Failed(m, e) IN
         /\ Kept(n, m) /\ n.at = m.at /\ n.step = m.step
         /\ n.error = IF m.error = None THEN e ELSE m.error
BY DEF R!Programs, Kept, R!Failed

\* Where the coordinator of the restoration goes (ToRestoration).
LEMMA RestorationKept ==
  ASSUME NEW m \in R!Programs, NEW ms \in SUBSET Restore
  PROVE  LET n == R!ToRestoration(m, ms) IN
         /\ Kept(n, m) /\ n.step = "check" /\ n.error = m.error
         /\ n.at \in Restore \cup {"assess"}
         /\ n.at = "scale" => m.down
         /\ n.at = "resume" => m.suspended
         /\ n.at = "open" => m.active
<1> DEFINE f == R!FirstRestoration(m, ms)
<1>1. /\ f \in Restore \cup {"assess"}
      /\ f = "scale" => m.down
      /\ f = "resume" => m.suspended
      /\ f = "open" => m.active
  BY DEF R!FirstRestoration, R!Restores, Restore
<1>2. f \in R!Mutations \cup R!Outside
  BY <1>1, MutationsAre DEF Restore, Nine, R!Outside
<1>3. R!ToRestoration(m, ms) = [m EXCEPT !.at = f, !.step = "check"]
  BY DEF R!ToRestoration
<1> HIDE DEF f
<1>4. /\ Kept([m EXCEPT !.at = f, !.step = "check"], m)
      /\ [m EXCEPT !.at = f, !.step = "check"].at = f
      /\ [m EXCEPT !.at = f, !.step = "check"].step = "check"
      /\ [m EXCEPT !.at = f, !.step = "check"].error = m.error
  BY <1>2 DEF R!Programs, Kept, R!AtSteps
<1> QED BY <1>1, <1>3, <1>4

\* Where an exception goes (Raised).
LEMMA RaisedKept ==
  ASSUME NEW m \in R!Programs, m.at = prog.at, NEW e \in {"transport", "other"},
         prog.at \in Outward \cup Restore
  PROVE  LET n == R!Raised(m, e) IN
         /\ Kept(n, m)
         /\ n.error = IF m.error = None THEN e ELSE m.error
         /\ IF prog.at \in Outward
              THEN /\ n.step = "check" /\ n.at \in Restore \cup {"assess"}
                   /\ n.at = "scale" => m.down
                   /\ n.at = "resume" => m.suspended
                   /\ n.at = "open" => m.active
              ELSE n.at = m.at /\ n.step = "failing"
<1> DEFINE g == R!Failed(m, e)
<1>1. /\ Kept(g, m) /\ g.at = m.at /\ g.error = IF m.error = None THEN e ELSE m.error
  BY FailedKept
<1>2. CASE prog.at \in Outward
  <2>1. R!Raised(m, e) = R!ToRestoration(g, Restore)
    BY <1>2, MutationsAre DEF R!Raised, Outward, Restore
  <2> HIDE DEF g
  <2> QED BY <1>1, <1>2, <2>1, RestorationKept DEF Kept
<1>3. CASE prog.at \notin Outward
  <2>1. R!Raised(m, e) = [g EXCEPT !.step = "failing"]
    BY <1>3, MutationsAre DEF R!Raised, Outward, Restore
  <2> HIDE DEF g
  <2> QED BY <1>1, <1>3, <2>1, StepKept DEF Kept, R!AtSteps
<1> QED BY <1>2, <1>3

\* The objects of the cluster.
ObjectsTyped ==
  /\ gate \in {"open", "gated"} /\ flux \in {"active", "suspended"}
  /\ agent \in {0, 1} /\ relays \subseteq R!Relays
  /\ flying \subseteq R!Mutations /\ spoiled \subseteq R!Relays

\* What it does to each object when a mutation is served.
LEMMA ServeIs ==
  ASSUME ObjectsTyped, NEW m \in Nine, R!Serve(m)
  PROVE  /\ gate' = IF m = "gate" THEN "gated" ELSE IF m = "open" THEN "open" ELSE gate
         /\ flux' = IF m = "suspend" THEN "suspended" ELSE IF m = "resume" THEN "active"
                    ELSE flux
         /\ agent' = IF m = "down" THEN 0 ELSE IF m \in {"up", "scale"} THEN 1 ELSE agent
         /\ relays' = IF m = "deleteCitizen" THEN relays \ {"citizen"}
                      ELSE IF m = "deleteAgent" THEN relays \ {"agent"} ELSE relays
         /\ flying' \subseteq flying
         /\ m \in {"gate", "open"} => flying' = flying \ {"gate", "open"}
         /\ m \in {"suspend", "resume"} => flying' = flying \ {"suspend", "resume"}
         /\ m \in {"down", "up", "scale"} => flying' = flying \ {"down", "up", "scale"}
         /\ m \in Deletions => flying' = flying \ {m}
         /\ m \notin Deletions => spoiled' = spoiled
         /\ R!Quiet => spoiled' = spoiled
         /\ m = "deleteCitizen" => spoiled' \subseteq spoiled \cup {"citizen"}
         /\ m = "deleteAgent" => spoiled' \subseteq spoiled \cup {"agent"}
<1>1. /\ gate' = IF m = "gate" THEN "gated" ELSE IF m = "open" THEN "open" ELSE gate
      /\ flux' = IF m = "suspend" THEN "suspended" ELSE IF m = "resume" THEN "active"
                 ELSE flux
      /\ agent' = IF m = "down" THEN 0 ELSE IF m \in {"up", "scale"} THEN 1 ELSE agent
  BY DEF R!Serve, Nine
<1>2. relays' = IF m = "deleteCitizen" THEN relays \ {"citizen"}
                ELSE IF m = "deleteAgent" THEN relays \ {"agent"} ELSE relays
  BY DEF R!Serve, Nine
<1>3. flying' = {q \in flying : R!Object(q) # R!Object(m)}
  BY DEF R!Serve
<1>4. spoiled' = IF R!Quiet THEN spoiled ELSE spoiled \cup (relays \ relays')
  BY DEF R!Serve
<1>5. flying \subseteq Nine
  BY MutationsAre DEF ObjectsTyped
<1>6. /\ R!Object("gate") = "gate" /\ R!Object("open") = "gate"
      /\ R!Object("suspend") = "flux" /\ R!Object("resume") = "flux"
      /\ R!Object("down") = "agent" /\ R!Object("up") = "agent" /\ R!Object("scale") = "agent"
      /\ R!Object("deleteCitizen") = "deleteCitizen"
      /\ R!Object("deleteAgent") = "deleteAgent"
  BY DEF R!Object
<1>7. /\ m \in {"gate", "open"} => flying' = flying \ {"gate", "open"}
      /\ m \in {"suspend", "resume"} => flying' = flying \ {"suspend", "resume"}
      /\ m \in {"down", "up", "scale"} => flying' = flying \ {"down", "up", "scale"}
      /\ m \in Deletions => flying' = flying \ {m}
  BY <1>3, <1>5, <1>6 DEF Nine, Deletions
<1> QED BY <1>1, <1>2, <1>3, <1>4, <1>7 DEF Deletions

\* The part of the invariant that is not about the program.
World == ObjectsTyped /\ Objects /\ Journaled /\ R!ResetWhileQuiet

\* when a mutation may be served
Sendable(m) ==
  /\ m \in {"gate", "suspend", "down"} => m \in disk
  /\ m \in Deletions => "deleteCitizen" \in disk /\ (R!Quiet \/ m \in late')

\* The world is kept by a mutation that is served,
LEMMA WorldServed ==
  ASSUME World, NEW m \in Nine, R!Serve(m), Sendable(m), disk \subseteq disk', late \subseteq late'
  PROVE  World'
<1>1. ObjectsTyped'
  <2>1. gate' \in {"open", "gated"} /\ flux' \in {"active", "suspended"}
        /\ agent' \in {0, 1} /\ relays' \subseteq relays /\ flying' \subseteq flying
    BY ServeIs DEF World, ObjectsTyped
  <2>2. spoiled' \subseteq R!Relays
    BY ServeIs DEF World, ObjectsTyped, R!Relays, Nine, Deletions
  <2> QED BY <2>1, <2>2 DEF World, ObjectsTyped
<1>2. Objects'
  BY ServeIs DEF World, ObjectsTyped, Objects, Nine
<1>3. Journaled'
  BY ServeIs DEF World, ObjectsTyped, Journaled, Nine, Sendable, Deletions
<1>4. R!ResetWhileQuiet'
  <2>1. \A r \in spoiled : (IF r = "citizen" THEN "deleteCitizen" ELSE "deleteAgent") \in late'
    BY DEF World, R!ResetWhileQuiet
  <2>2. \A r \in spoiled' : (IF r = "citizen" THEN "deleteCitizen" ELSE "deleteAgent") \in late'
    BY <2>1, ServeIs DEF World, Sendable, Nine, Deletions
  <2> QED BY <2>2 DEF R!ResetWhileQuiet
<1> QED BY <1>1, <1>2, <1>3, <1>4 DEF World

\* ... by a step that leaves the cluster,
LEMMA WorldStays ==
  ASSUME World, UNCHANGED R!objects, disk \subseteq disk', late \subseteq late'
  PROVE  World'
<1>1. UNCHANGED <<gate, flux, agent, relays, flying, spoiled>>
  BY DEF R!objects
<1> QED BY <1>1 DEF World, ObjectsTyped, Objects, Journaled, R!ResetWhileQuiet

\* ... and by a mutation that is cut off.
LEMMA WorldCut ==
  ASSUME World, NEW m \in Nine, R!CutOff(m), Sendable(m), disk \subseteq disk', late \subseteq late',
         m = "gate" => gate = "open", m = "suspend" => flux = "active",
         m = "down" => agent = 1
  PROVE  World'
<1>1. CASE flying' = flying \cup {m} /\ UNCHANGED <<gate, flux, agent, relays, spoiled>>
  BY <1>1, MutationsAre
     DEF World, ObjectsTyped, Objects, Journaled, R!ResetWhileQuiet, Sendable, Nine, Deletions
<1> QED BY <1>1, WorldServed, WorldStays DEF R!CutOff

\* What the locals become when a request is answered or observed (Known),
LEMMA KnownKept ==
  ASSUME NEW p \in R!Programs, NEW m \in Nine
  PROVE  LET n == R!Known(p, m) IN
         /\ n \in R!Programs /\ n.at = p.at /\ n.step = p.step /\ n.begun = p.begun
         /\ n.verdict = p.verdict /\ n.error = p.error
         /\ n.active <=> (p.active \/ m = "gate")
         /\ n.suspended <=> (p.suspended \/ m = "suspend")
         /\ n.down <=> (m = "down" \/ (p.down /\ m # "up"))
BY DEF R!Programs, R!Known, Nine

\* ... when what it causes was awaited (Reached),
LEMMA ReachedKept ==
  ASSUME NEW p \in R!Programs, NEW m \in Nine
  PROVE  LET n == R!Reached(p, m) IN
         /\ n \in R!Programs /\ n.at = p.at /\ n.step = p.step /\ n.begun = p.begun
         /\ n.verdict = p.verdict /\ n.error = p.error
         /\ n.active <=> (p.active /\ m # "open")
         /\ n.suspended <=> (p.suspended /\ m # "resume")
         /\ n.down <=> (p.down /\ m \notin {"up", "scale"})
BY DEF R!Programs, R!Reached, Nine

\* ... when the look did not show it (Unproved),
LEMMA UnprovedKept ==
  ASSUME NEW p \in R!Programs, NEW m \in Nine, NEW b \in BOOLEAN
  PROVE  LET n == R!Unproved(p, m, b) IN
         Kept(n, p) /\ n.at = p.at /\ n.step = p.step /\ n.error = p.error
BY ZenonT(40) DEF R!Programs, R!Unproved, Nine, Kept

\* ... and before it is made (Ask).
LEMMA AskKept ==
  ASSUME NEW p \in R!Programs, NEW m \in Nine
  PROVE  LET n == R!Ask(p, m) IN
         /\ n \in R!Programs /\ n.at = p.at /\ n.step = p.step
         /\ n.active = p.active /\ n.suspended = p.suspended /\ n.down = p.down
         /\ n.verdict = p.verdict /\ n.error = p.error
         /\ n.begun = (p.begun \/ m \in Deletions)
BY DEF R!Programs, R!Ask, Nine, Deletions

\* What a journal may name.
Noted == Nine \cup {"opened", "preflight", "again", "final", "receipt"}
\* The program runs.
Live == prog.at \notin {"idle", "closed"}

\* The invariant in the parts the lemmas below use.
LEMMA ResetFacts ==
  ASSUME ResetInv
  PROVE  /\ World /\ disk \subseteq Noted /\ prog \in R!Programs /\ unnoted \in BOOLEAN
         /\ late \subseteq R!Mutations
         /\ Live => rfile = "empty" /\ Locals(prog) /\ Place(prog)
BY MutationsAre DEF ResetInv, ResetTyped, World, ObjectsTyped, Noted, Live

\* The invariant after a step of a program that runs on.
LEMMA StillRuns ==
  ASSUME World', disk' \subseteq Noted, prog' \in R!Programs, unnoted' \in BOOLEAN,
         late' \subseteq R!Mutations, rfile' = "empty", prog'.at # "idle",
         Locals(prog)', Place(prog)'
  PROVE  ResetInv'
<1>1. Says(rfile)'
  BY DEF Says, R!Verdicts
<1> QED BY <1>1, MutationsAre
        DEF ResetInv, ResetTyped, World, ObjectsTyped, Noted

\* nothing but the memory, the journal and unnoted changes
Inside ==
  /\ UNCHANGED R!objects /\ UNCHANGED <<late, rfile>>
  /\ disk \subseteq disk' /\ disk' \subseteq Noted
  /\ unnoted' \in BOOLEAN /\ (unnoted => unnoted')

\* A step inside the program that runs on.
LEMMA InsideRuns ==
  ASSUME ResetInv, Live, Inside, prog' \in R!Programs, prog'.at # "idle",
         Locals(prog)', Place(prog)'
  PROVE  ResetInv'
<1>1. World'
  BY ResetFacts, WorldStays DEF Inside
<1> QED BY <1>1, ResetFacts, StillRuns DEF Inside

\* An exception (Raised) takes the program to the restoration, or to the except
\* block of the restoration it is in.
LEMMA ResetRaises ==
  ASSUME ResetInv, Inside, prog.at \in Outward \cup Restore,
         NEW p \in R!Programs, p.at = prog.at, p.verdict = prog.verdict, p.error = prog.error,
         Locals(p), NEW e \in {"transport", "other"}, prog' = R!Raised(p, e),
         e = "transport" \/ unnoted' \/ p.step \notin Doubt
           \/ prog.at \notin {"gate", "suspend", "down"}
  PROVE  ResetInv'
<1>1. Live /\ Locals(prog) /\ Place(prog)
  BY ResetFacts DEF Live, Outward, Restore
<1>2. /\ Kept(prog', p)
      /\ prog'.error = IF p.error = None THEN e ELSE p.error
      /\ IF prog.at \in Outward
           THEN /\ prog'.step = "check" /\ prog'.at \in Restore \cup {"assess"}
                /\ prog'.at = "scale" => p.down
                /\ prog'.at = "resume" => p.suspended
                /\ prog'.at = "open" => p.active
           ELSE prog'.at = p.at /\ prog'.step = "failing"
  BY RaisedKept
<1>3. UNCHANGED <<gate, flux, agent, relays, flying>>
  BY DEF Inside, R!objects
<1>4. Locals(prog)'
  <2>1. prog'.at \notin {"gate", "suspend", "down"}
    BY <1>2 DEF Outward, Restore
  <2>2. unnoted' => prog'.error # None
    BY <1>2, NoneIsApart
  <2>3. prog'.error # "transport" /\ ~unnoted' =>
          p.error # "transport" /\ ~unnoted
            /\ ~(prog.at \in {"gate", "suspend", "down"} /\ p.step \in Doubt)
    BY <1>1, <1>2, NoneIsApart DEF Inside, Place, Outward, Restore
  <2>4. Locals(p) /\ p.at = prog.at
    OBVIOUS
  <2> QED BY <1>2, <1>3, <2>1, <2>2, <2>3, <2>4 DEF Locals, Kept, Untouched
<1>5. Place(prog)'
  <2>1. prog.verdict = None
    BY <1>1 DEF Place, Outward, Restore
  <2>2. prog'.verdict = None /\ Says(prog.verdict)'
    BY <1>2, <2>1, NoneIsApart DEF Kept, Says, R!Verdicts
  <2>3. CASE prog.at \in Outward
    BY <1>2, <1>3, <2>2, <2>3, MutationsAre, NoneIsApart
       DEF Place, Kept, Opening, Outward, Restore, Deletions, Nine, Locals, R!Verdicts, Says
  <2>4. CASE prog.at \in Restore
    BY <1>1, <1>2, <1>3, <2>2, <2>4, MutationsAre, NoneIsApart
       DEF Place, Kept, Opening, Outward, Restore, Deletions, Nine, R!Verdicts, Says
  <2> QED BY <2>3, <2>4
<1>6. prog' \in R!Programs /\ prog'.at # "idle"
  BY <1>2 DEF Kept, Outward, Restore
<1> QED BY <1>1, <1>4, <1>5, <1>6, InsideRuns

\* A mutation goes on to its next step.
LEMMA PlaceStays ==
  ASSUME ResetInv, Place(prog), NEW m \in Nine, prog.at = m,
         UNCHANGED <<gate, flux, agent, relays, flying, unnoted>>, disk \subseteq disk',
         prog'.at = m, prog'.active = prog.active, prog'.suspended = prog.suspended,
         prog'.down = prog.down, prog'.verdict = prog.verdict, prog'.error = prog.error,
         prog.begun => prog'.begun,
         prog'.step \in Before => prog.step \in Before,
         prog'.step = "failing" => m \notin Outward,
         prog'.step \in {"answered", "shown", "wait"} => R!Applied(m),
         prog'.step = "send" => m \in disk' /\ (m \in Deletions => prog'.begun)
  PROVE  Place(prog)'
<1>1. m \in R!Mutations /\ R!Mutations' = R!Mutations
  BY MutationsAre
<1>2. R!Applied(m)' <=> R!Applied(m)
  BY DEF R!Applied
<1>3. Says(prog.verdict)'
  BY DEF Place, Says, Restored, Untouched
<1>4. R!Applied(prog.at)' <=> R!Applied(m)'
  BY DEF R!Applied
<1>5. prog'.at \in R!Mutations /\ prog'.step \in {"answered", "shown", "wait"} => R!Applied(prog.at)'
  BY <1>2, <1>4
<1> HIDE DEF R!Applied
<1> QED BY <1>1, <1>3, <1>5 DEF Place, Nine, Opening

\* A program that is at a mutation runs.
LEMMA NineAt ==
  ASSUME NEW m \in Nine, prog.at = m
  PROVE  prog.at \in Outward \cup Restore /\ Live /\ m \in R!Mutations
BY MutationsAre DEF Nine, Outward, Restore, Live

\* The read before a mutation (Check).
LEMMA ResetCheck ==
  ASSUME ResetInv, NEW m \in Nine, R!Check(m)
  PROVE  ResetInv'
<1>1. prog.at = m /\ prog.step = "check" /\ Inside
  BY ResetFacts DEF R!Check, R!others, R!files, Inside
<1>2. prog.at \in Outward \cup Restore /\ Live /\ m \in R!Mutations /\ prog \in R!Programs
      /\ Locals(prog) /\ Place(prog)
  BY <1>1, NineAt, ResetFacts
<1>3. CASE prog' = [prog EXCEPT !.step = "intent"]
  <2>1. Kept(prog', prog) /\ prog'.at = m /\ prog'.step = "intent" /\ prog'.error = prog.error
    BY <1>1, <1>2, <1>3, StepKept DEF R!AtSteps
  <2>2. UNCHANGED <<gate, flux, agent, relays, flying, disk, unnoted>>
    BY DEF R!Check, R!objects, R!files, R!others
  <2>3. Locals(prog)'
    BY <1>1, <1>2, <2>1, <2>2 DEF Locals, Kept, Untouched, Doubt
  <2>4. Place(prog)'
    BY <1>1, <1>2, <2>1, <2>2, MutationsAre
       DEF Place, Kept, Says, Restored, Untouched, Before, Opening, Outward
  <2> QED BY <1>1, <1>2, <2>1, <2>3, <2>4, InsideRuns DEF Kept, Nine
<1>4. CASE \E e \in {"transport", "other"} : prog' = R!Raised(prog, e)
  BY <1>1, <1>2, <1>4, ResetRaises DEF Doubt
<1> QED BY <1>3, <1>4 DEF R!Check

\* The intent in the journal (Intend).
LEMMA ResetIntend ==
  ASSUME ResetInv, NEW m \in Nine, R!Intend(m)
  PROVE  ResetInv'
<1>1. prog.at = m /\ prog.step = "intent"
  BY DEF R!Intend
<1>2. prog.at \in Outward \cup Restore /\ Live /\ m \in R!Mutations /\ prog \in R!Programs
      /\ Locals(prog) /\ Place(prog)
  BY <1>1, NineAt, ResetFacts
<1>3. Inside /\ UNCHANGED <<gate, flux, agent, relays, flying, unnoted>>
  BY ResetFacts DEF R!Intend, R!others, R!objects, Inside, R!Durable, R!NotDurable, Noted
<1>4. CASE R!Durable({m}) /\ prog' = R!Ask([prog EXCEPT !.step = "send"], m)
  <2> DEFINE p == [prog EXCEPT !.step = "send"]
  <2>1. Kept(p, prog) /\ p.at = m /\ p.step = "send" /\ p.error = prog.error
    BY <1>1, <1>2, StepKept DEF R!AtSteps
  <2>2. prog' = R!Ask(p, m) /\ disk' = disk \cup {m}
    BY <1>4 DEF R!Durable
  <2> HIDE DEF p
  <2>3. /\ prog' \in R!Programs /\ prog'.at = m /\ prog'.step = "send"
        /\ prog'.active = prog.active /\ prog'.suspended = prog.suspended
        /\ prog'.down = prog.down /\ prog'.verdict = prog.verdict
        /\ prog'.error = prog.error /\ prog'.begun = (prog.begun \/ m \in Deletions)
    BY <2>1, <2>2, AskKept DEF Kept
  <2>4. Locals(prog)'
    BY <1>1, <1>2, <1>3, <2>3 DEF Locals, Untouched, Doubt
  <2>5. Place(prog)'
    BY <1>1, <1>2, <1>3, <2>2, <2>3, PlaceStays DEF Before
  <2> QED BY <1>2, <1>3, <2>3, <2>4, <2>5, InsideRuns DEF Nine
<1>5. CASE prog' = R!Raised(prog, "other")
  BY <1>1, <1>2, <1>3, <1>5, ResetRaises DEF Doubt
<1> QED BY <1>4, <1>5 DEF R!Intend

\* The answer in the journal, or a commit that raises (NoteAnswer).
LEMMA ResetNoteAnswer ==
  ASSUME ResetInv, NEW m \in Nine, R!NoteAnswer(m)
  PROVE  ResetInv'
<1>1. prog.at = m /\ prog.step = "answered"
  BY DEF R!NoteAnswer
<1>2. prog.at \in Outward \cup Restore /\ Live /\ m \in R!Mutations /\ prog \in R!Programs
      /\ Locals(prog) /\ Place(prog)
  BY <1>1, NineAt, ResetFacts
<1>3. Inside /\ UNCHANGED <<gate, flux, agent, relays, flying, unnoted>>
  BY ResetFacts DEF R!NoteAnswer, R!others, R!objects, Inside, R!Durable, R!NotDurable, Noted
<1>4. \E st \in {"wait", "look"} :
        Kept(prog', prog) /\ prog'.at = m /\ prog'.step = st /\ prog'.error = prog.error
  BY <1>1, <1>2 DEF R!NoteAnswer, R!AtSteps, R!Programs, Kept
<1>5. Locals(prog)'
  BY <1>1, <1>2, <1>3, <1>4 DEF Locals, Untouched, Doubt, Kept
<1>6. Place(prog)'
  <2>1. R!Applied(m)
    BY <1>1, <1>2 DEF Place
  <2> QED BY <1>1, <1>2, <1>3, <1>4, <2>1, PlaceStays DEF Before, Kept, Inside
<1> QED BY <1>2, <1>3, <1>4, <1>5, <1>6, InsideRuns DEF Nine, Kept

\* The one look for a lost answer (Look).
LEMMA ResetLook ==
  ASSUME ResetInv, NEW m \in Nine, R!Look(m)
  PROVE  ResetInv'
<1>1. prog.at = m /\ prog.step = "look" /\ Inside
  BY ResetFacts DEF R!Look, R!others, R!files, Inside
<1>2. prog.at \in Outward \cup Restore /\ Live /\ m \in R!Mutations /\ prog \in R!Programs
      /\ Locals(prog) /\ Place(prog)
  BY <1>1, NineAt, ResetFacts
<1>3. UNCHANGED <<gate, flux, agent, relays, flying, disk, unnoted>>
  BY DEF R!Look, R!objects, R!files, R!others
<1>4. \E st \in {"shown", "denied", "unread"} :
        /\ Kept(prog', prog) /\ prog'.at = m /\ prog'.step = st /\ prog'.error = prog.error
        /\ st = "shown" => R!Applied(m)
  BY <1>1, <1>2 DEF R!Look, R!AtSteps, R!Looked, R!Programs, Kept
<1>5. Locals(prog)'
  BY <1>1, <1>2, <1>3, <1>4 DEF Locals, Untouched, Doubt, Kept
<1>6. Place(prog)'
  BY <1>1, <1>2, <1>3, <1>4, PlaceStays DEF Before, Kept, Inside
<1> QED BY <1>1, <1>2, <1>3, <1>4, <1>5, <1>6, InsideRuns DEF Nine, Kept

\* The coordinator of the restoration takes up what is left to restore.
LEMMA ResetRestores ==
  ASSUME ResetInv, Inside, unnoted' = unnoted, prog.at \in Outward \cup Restore,
         NEW p \in R!Programs, p.verdict = None, Locals(p),
         p.at \notin {"gate", "suspend", "down"} \/ p.step \notin Doubt,
         NEW ms \in SUBSET Restore, prog' = R!ToRestoration(p, ms)
  PROVE  ResetInv'
<1>1. Live
  BY DEF Live, Outward, Restore
<1>2. /\ Kept(prog', p) /\ prog'.step = "check" /\ prog'.error = p.error
      /\ prog'.at \in Restore \cup {"assess"}
      /\ prog'.at = "scale" => p.down
      /\ prog'.at = "resume" => p.suspended
      /\ prog'.at = "open" => p.active
  BY RestorationKept
<1>3. UNCHANGED <<gate, flux, agent, relays, flying, unnoted>>
  BY DEF Inside, R!objects
<1>4. Locals(prog)'
  <2>1. prog'.at \notin {"gate", "suspend", "down"}
    BY <1>2 DEF Restore
  <2> QED BY <1>2, <1>3, <2>1 DEF Locals, Kept, Untouched
<1>5. Place(prog)'
  <2>1. prog'.verdict = None /\ Says(prog.verdict)'
    BY <1>2, NoneIsApart DEF Kept, Says, R!Verdicts
  <2> QED BY <1>2, <1>3, <2>1, MutationsAre
          DEF Place, Kept, Opening, Outward, Restore, Deletions, Nine, Locals
<1>6. prog' \in R!Programs /\ prog'.at # "idle"
  BY <1>2 DEF Kept, Restore
<1> QED BY <1>1, <1>4, <1>5, <1>6, InsideRuns

\* The program ends where it is.
LEMMA InsideEnds ==
  ASSUME ResetInv, Live, Inside, prog' = [prog EXCEPT !.at = "closed"]
  PROVE  ResetInv'
<1>1. World'
  BY ResetFacts, WorldStays DEF Inside
<1>2. prog' \in R!Programs /\ prog'.at = "closed"
  BY <1>1, ResetFacts, AtKept DEF R!Outside, Kept
<1>3. rfile' = "empty" /\ Says(rfile)'
  BY ResetFacts DEF Inside, Says, R!Verdicts
<1> QED BY <1>1, <1>2, <1>3, ResetFacts, MutationsAre
        DEF ResetInv, ResetTyped, World, ObjectsTyped, Noted, Inside

\* The record of the look, and what it makes of the locals (NoteLook).
LEMMA ResetNoteLook ==
  ASSUME ResetInv, NEW m \in Nine, R!NoteLook(m)
  PROVE  ResetInv'
<1>1. prog.at = m /\ prog.step \in {"shown", "denied", "unread"}
  BY DEF R!NoteLook, R!Looked
<1>2. prog.at \in Outward \cup Restore /\ Live /\ m \in R!Mutations /\ prog \in R!Programs
      /\ Locals(prog) /\ Place(prog)
  BY <1>1, NineAt, ResetFacts
<1>3. Inside /\ UNCHANGED <<gate, flux, agent, relays, flying>>
  <2>1. UNCHANGED <<gate, flux, agent, relays, flying, spoiled, late, rfile>>
    BY DEF R!NoteLook, R!objects
  <2>2. disk \subseteq disk' /\ disk' \subseteq disk \cup {"again"}
    BY DEF R!NoteLook, R!Durable, R!NotDurable
  <2>3. unnoted' = unnoted \/ unnoted' = TRUE
    BY DEF R!NoteLook
  <2>4. unnoted' \in BOOLEAN /\ (unnoted => unnoted')
    <3>1. unnoted \in BOOLEAN
      BY ResetFacts
    <3>2. CASE unnoted' = unnoted
      BY <3>1, <3>2
    <3>3. CASE unnoted' = TRUE
      BY <3>3
    <3> QED BY <2>3, <3>2, <3>3
  <2>5. disk' \subseteq Noted
    BY <2>2, ResetFacts DEF Noted
  <2> QED BY <2>1, <2>2, <2>4, <2>5 DEF Inside, R!objects
<1>4. CASE unnoted' = TRUE /\ prog' = R!Raised(prog, "other")
  BY <1>1, <1>2, <1>3, <1>4, ResetRaises
<1>5. CASE prog.step = "shown" /\ unnoted' = unnoted
           /\ prog' = R!Known([prog EXCEPT !.step = "wait",
                                  !.down = IF m = "scale" THEN FALSE ELSE @], m)
  <2> DEFINE d == IF m = "scale" THEN FALSE ELSE prog.down
             p == [prog EXCEPT !.step = "wait", !.down = d]
  <2>1. prog' = R!Known(p, m)
    BY <1>5
  <2>2. d \in BOOLEAN
    BY <1>2 DEF R!Programs
  <2>3. /\ p \in R!Programs /\ p.at = m /\ p.step = "wait" /\ p.error = prog.error
        /\ p.begun = prog.begun /\ p.verdict = prog.verdict /\ p.active = prog.active
        /\ p.suspended = prog.suspended /\ p.down = d
    <3> HIDE DEF d
    <3> QED BY <1>1, <1>2, <2>2 DEF R!Programs, R!AtSteps
  <2> HIDE DEF p
  <2>4. /\ prog' \in R!Programs /\ prog'.at = m /\ prog'.step = "wait" /\ prog'.begun = prog.begun
        /\ prog'.verdict = prog.verdict /\ prog'.error = prog.error
        /\ prog'.active <=> (prog.active \/ m = "gate")
        /\ prog'.suspended <=> (prog.suspended \/ m = "suspend")
        /\ prog'.down <=> (m = "down" \/ (prog.down /\ m \notin {"up", "scale"}))
    <3>1. p.down <=> (prog.down /\ m # "scale")
      BY <1>2, <2>3 DEF R!Programs
    <3>2. p \in R!Programs
      BY <2>3
    <3>3. /\ prog' \in R!Programs /\ prog'.at = p.at /\ prog'.step = p.step
          /\ prog'.begun = p.begun /\ prog'.verdict = p.verdict /\ prog'.error = p.error
      BY <2>1, <3>2, KnownKept
    <3>4. /\ prog'.active <=> (p.active \/ m = "gate")
          /\ prog'.suspended <=> (p.suspended \/ m = "suspend")
          /\ prog'.down <=> (m = "down" \/ (p.down /\ m # "up"))
      BY <2>1, <3>2, KnownKept
    <3> QED BY <2>3, <3>1, <3>3, <3>4
  <2>5. R!Applied(m)
    BY <1>1, <1>2, <1>5 DEF Place
  <2>6. Locals(prog)'
    BY <1>1, <1>2, <1>3, <1>5, <2>4, <2>5, ResetFacts
       DEF Locals, Untouched, Doubt, World, Objects, ObjectsTyped, R!Applied, Place, Nine, Outward
  <2>7. Place(prog)'
    <3>1. R!Applied(prog.at)' <=> R!Applied(m)
      BY <1>3, <2>4 DEF R!Applied
    <3>2. Says(prog.verdict)'
      BY <1>2, <1>3, <1>5, <2>4 DEF Place, Says, Restored, Untouched
    <3> HIDE DEF R!Applied
    <3> QED BY <1>1, <1>2, <1>3, <1>5, <2>4, <2>5, <3>1, <3>2, MutationsAre
            DEF Place, Opening, Before, Nine, Inside, Outward, Deletions
  <2> QED BY <1>2, <1>3, <2>4, <2>6, <2>7, InsideRuns DEF Nine
<1>6. CASE unnoted' = unnoted
           /\ prog' = R!Raised(R!Unproved(prog, m, prog.step = "denied"), "transport")
  <2> DEFINE p == R!Unproved(prog, m, prog.step = "denied")
  <2>1. Kept(p, prog) /\ p.at = prog.at /\ p.step = prog.step /\ p.error = prog.error
    BY <1>2, UnprovedKept
  <2> HIDE DEF p
  <2>2. Locals(p)
    BY <1>2, <2>1 DEF Locals, Kept
  <2> QED BY <1>2, <1>3, <1>6, <2>1, <2>2, ResetRaises DEF Kept, p
<1> QED BY <1>4, <1>5, <1>6 DEF R!NoteLook

\* The wait for what a mutation causes, and what follows (Wait).
LEMMA ResetWait ==
  ASSUME ResetInv, NEW m \in Nine, R!Wait(m)
  PROVE  ResetInv'
<1>1. prog.at = m /\ prog.step = "wait"
  BY DEF R!Wait
<1>2. prog.at \in Outward \cup Restore /\ Live /\ m \in R!Mutations /\ prog \in R!Programs
      /\ Locals(prog) /\ Place(prog)
  BY <1>1, NineAt, ResetFacts
<1>3. Inside /\ UNCHANGED <<gate, flux, agent, relays, flying, unnoted>>
  BY ResetFacts DEF R!Wait, R!objects, R!others, Inside, R!Durable, R!NotDurable, Noted
<1>4. R!Applied(m)
  BY <1>1, <1>2 DEF Place
<1> DEFINE p == R!Reached(prog, m)
<1>5. /\ p \in R!Programs /\ p.at = m /\ p.step = "wait" /\ p.begun = prog.begun
      /\ p.verdict = prog.verdict /\ p.error = prog.error
      /\ p.active <=> (prog.active /\ m # "open")
      /\ p.suspended <=> (prog.suspended /\ m # "resume")
      /\ p.down <=> (prog.down /\ m \notin {"up", "scale"})
  BY <1>1, <1>2, ReachedKept
<1> HIDE DEF p
<1>6. Locals(p)
  BY <1>1, <1>2, <1>4, <1>5, ResetFacts
     DEF Locals, Untouched, Doubt, World, Objects, ObjectsTyped, R!Applied, Place, Nine, Outward
<1>7. CASE prog' = R!Raised(prog, "other")
  BY <1>1, <1>2, <1>3, <1>7, ResetRaises DEF Doubt
<1>8. CASE prog' = R!Raised(p, "other")
  BY <1>1, <1>2, <1>3, <1>5, <1>6, <1>8, ResetRaises DEF Doubt
<1>9. CASE prog' = R!After(p, m)
  <2>1. CASE m \in {"gate", "suspend", "down", "deleteCitizen", "deleteAgent"}
    <3> DEFINE to == R!NextForward(m)
    <3>1. /\ to = CASE m = "gate" -> "quiet" [] m = "suspend" -> "down"
                    [] m = "down" -> "deleteCitizen" [] m = "deleteCitizen" -> "deleteAgent"
                    [] m = "deleteAgent" -> "up"
          /\ to \in Outward
      BY <2>1 DEF R!NextForward, Outward
    <3>2. prog' = [p EXCEPT !.at = to, !.step = "check"]
      BY <1>9, <2>1, MutationsAre DEF R!After, Outward
    <3> HIDE DEF to
    <3>3. to \in R!Mutations \cup R!Outside
      <4>1. to \in Outward
        BY <3>1
      <4> QED BY <4>1, MutationsAre DEF Outward, Nine, R!Outside
    <3>4. Kept(prog', p) /\ prog'.at = to /\ prog'.step = "check" /\ prog'.error = p.error
      BY <1>5, <3>2, <3>3 DEF R!Programs, Kept, R!AtSteps
    <3>5. prog.error = None /\ prog.verdict = None /\ flying \cap {"open", "resume", "scale"} = {}
          /\ "up" \notin flying
      BY <1>1, <1>2, <2>1 DEF Place, Outward
    <3>6. Locals(prog)'
      BY <1>3, <1>5, <1>6, <2>1, <3>1, <3>4 DEF Locals, Kept, Untouched, Doubt
    <3>7. Place(prog)'
      <4>1. /\ to \in {"quiet", "down"} \cup Deletions => gate = "gated"
            /\ to \in {"down"} \cup Deletions => flux = "suspended"
            /\ to \in Deletions => agent = 0
            /\ to \in Deletions \cup {"up"} => "down" \notin flying
            /\ to = "quiet" => ~prog.suspended
            /\ to \in {"quiet", "down"} => ~prog.down
            /\ to = "deleteAgent" => "deleteCitizen" \in disk
        BY <1>1, <1>2, <1>4, <2>1, <3>1, ResetFacts
           DEF Place, R!Applied, World, Objects, Journaled, R!Relays, Deletions, Before
      <4>2. Says(prog.verdict)'
        BY <1>5, <3>4, <3>5, NoneIsApart DEF Kept, Says, R!Verdicts
      <4> QED BY <1>3, <1>5, <2>1, <3>1, <3>4, <3>5, <4>1, <4>2
              DEF Place, Kept, Inside, Opening, Outward, Deletions, Before
    <3> QED BY <1>2, <1>3, <3>1, <3>4, <3>6, <3>7, InsideRuns DEF Kept, Outward
  <2>2. CASE m \in {"up", "scale", "resume"}
    <3>1. prog' = R!ToRestoration(p, IF m = "up" THEN Restore ELSE R!Later(m))
      BY <1>9, <2>2, MutationsAre DEF R!After, Restore, Outward
    <3>2. R!Later(m) \subseteq Restore
      BY DEF R!Later, Restore
    <3>3. prog.verdict = None
      BY <1>1, <1>2 DEF Place, Nine
    <3> QED BY <1>2, <1>3, <1>5, <1>6, <2>2, <3>1, <3>2, <3>3, ResetRestores
  <2>3. CASE m = "open"
    <3>1. prog' = [p EXCEPT !.at = "reads", !.step = "check"]
      BY <1>9, <2>3, MutationsAre DEF R!After, Outward
    <3>2. Kept(prog', p) /\ prog'.at = "reads" /\ prog'.step = "check" /\ prog'.error = p.error
      BY <1>5, <3>1 DEF R!Programs, Kept, R!AtSteps, R!Outside
    <3>3. prog.verdict = None
      BY <1>1, <1>2, <2>3 DEF Place
    <3>4. Locals(prog)'
      BY <1>3, <1>5, <1>6, <2>3, <3>2 DEF Locals, Kept, Untouched, Doubt
    <3>5. Says(prog.verdict)'
      BY <1>5, <3>2, <3>3, NoneIsApart DEF Kept, Says, R!Verdicts
    <3>6. Place(prog)'
      BY <1>3, <1>5, <3>2, <3>3, <3>5, MutationsAre
         DEF Place, Kept, Opening, Outward, Deletions, Nine
    <3> QED BY <1>2, <1>3, <3>2, <3>4, <3>6, InsideRuns DEF Kept
  <2> QED BY <2>1, <2>2, <2>3 DEF Nine
<1> QED BY <1>7, <1>8, <1>9 DEF R!Wait, p

\* The except block of a restoration (Failing).
LEMMA ResetFailing ==
  ASSUME ResetInv, NEW m \in Restore, R!Failing(m)
  PROVE  ResetInv'
<1>1. prog.at = m /\ prog.step = "failing" /\ m \in Nine
  BY DEF R!Failing, Restore, Nine
<1>2. prog.at \in Outward \cup Restore /\ Live /\ prog \in R!Programs
      /\ Locals(prog) /\ Place(prog)
  BY <1>1, NineAt, ResetFacts
<1>3. CASE R!Durable({}) /\ prog' = R!ToRestoration(prog, R!Later(m))
           /\ UNCHANGED <<R!objects, rfile, exit>>
  <2>1. Inside /\ unnoted' = unnoted
    BY <1>3, ResetFacts DEF R!Failing, R!others, Inside, R!Durable
  <2>2. R!Later(m) \subseteq Restore
    BY DEF R!Later, Restore
  <2>3. prog.verdict = None
    BY <1>1, <1>2 DEF Place, Nine
  <2>4. prog.step \notin Doubt /\ R!Later(m) \in SUBSET Restore
    BY <1>1, <2>2 DEF Doubt
  <2>5. prog' = R!ToRestoration(prog, R!Later(m))
    BY <1>3
  <2> QED BY <1>2, <2>1, <2>3, <2>4, <2>5, ResetRestores
<1>4. CASE R!NotDurable({}) /\ R!Escape
  <2>1. Inside /\ unnoted' = unnoted
    BY <1>4, ResetFacts DEF R!Failing, R!others, Inside, R!NotDurable, R!Escape
  <2>2. prog' = [prog EXCEPT !.at = "closed"]
    BY <1>4 DEF R!Escape, R!End
  <2> QED BY <1>2, <2>1, <2>2, InsideEnds
<1> QED BY <1>3, <1>4 DEF R!Failing

\* The start of the one run (Begin).
LEMMA ResetBegin ==
  ASSUME ResetInv, R!Begin
  PROVE  ResetInv'
<1>1. prog.at = "idle" /\ prog = R!Idle /\ Restored /\ Untouched /\ flying = {} /\ ~unnoted
  BY DEF R!Begin, ResetInv
<1>2. UNCHANGED <<gate, flux, agent, relays, flying, spoiled, late, unnoted, disk>>
      /\ rfile' = "empty" /\ prog' = [prog EXCEPT !.at = "start"]
  BY DEF R!Begin, R!objects, R!others
<1>3. Kept(prog', prog) /\ prog'.at = "start" /\ prog'.step = "check" /\ prog'.error = None
  BY <1>1, <1>2, ResetFacts, AtKept DEF R!Outside, Kept, R!Idle
<1>4. ~prog'.active /\ ~prog'.suspended /\ ~prog'.down /\ prog'.verdict = None
        /\ ~prog'.begun
  BY <1>1, <1>3 DEF Kept, R!Idle
<1>5. World'
  BY <1>2, ResetFacts, WorldStays DEF R!objects
<1>6. Locals(prog)'
  BY <1>1, <1>2, <1>3, <1>4 DEF Locals, Restored, Untouched, Doubt
<1>7. Place(prog)'
  <2>1. Says(prog.verdict)'
    BY <1>4, NoneIsApart DEF Says, R!Verdicts
  <2> QED BY <1>1, <1>2, <1>3, <1>4, <2>1, MutationsAre
          DEF Place, Opening, Outward, Deletions, Nine
<1> QED BY <1>2, <1>3, <1>5, <1>6, <1>7, ResetFacts, StillRuns DEF Kept

\* A step outside the mutations.
LEMMA ResetAdvances ==
  ASSUME ResetInv, Live, Inside, unnoted' = unnoted, prog.at \notin Nine,
         Kept(prog', prog), prog'.error = prog.error,
         prog'.step = "check", prog'.at \notin Nine \cup Outward \cup {"idle", "closed"},
         prog'.at \in Opening => prog.at \in Opening,
         prog'.at \in {"final", "intended", "receipt"}
           <=> prog.at \in {"final", "intended", "receipt"}
  PROVE  ResetInv'
<1>1. Locals(prog) /\ Place(prog)
  BY ResetFacts
<1>2. UNCHANGED <<gate, flux, agent, relays, flying, unnoted>>
  BY DEF Inside, R!objects
<1>3. Locals(prog)'
  BY <1>1, <1>2 DEF Locals, Kept, Untouched, Nine
<1>4. Place(prog)'
  <2>1. Says(prog.verdict)'
    BY <1>1, <1>2 DEF Place, Kept, Says, Restored, Untouched
  <2> QED BY <1>1, <1>2, <2>1, MutationsAre DEF Place, Kept, Deletions, Nine, Outward
<1> QED BY <1>3, <1>4, InsideRuns DEF Kept

\* The first commit of the journal (OpenJournal).
LEMMA ResetOpenJournal ==
  ASSUME ResetInv, R!OpenJournal
  PROVE  ResetInv'
<1>1. prog.at = "start" /\ prog.step = "check" /\ Live /\ prog \in R!Programs
  BY ResetFacts, MutationsAre DEF R!OpenJournal, Live, Place, Nine
<1>2. Inside /\ unnoted' = unnoted
  BY ResetFacts DEF R!OpenJournal, R!Durable, R!NotDurable, R!Escape, Inside, R!others, Noted
<1>3. CASE prog' = [prog EXCEPT !.at = "preflight"]
  <2>1. Kept(prog', prog) /\ prog'.at = "preflight" /\ prog'.step = "check"
        /\ prog'.error = prog.error
    BY <1>1, <1>3, AtKept DEF R!Outside
  <2> QED BY <1>1, <1>2, <2>1, ResetAdvances DEF Nine, Outward, Opening
<1>4. CASE prog' = [prog EXCEPT !.at = "closed"]
  BY <1>1, <1>2, <1>4, InsideEnds
<1> QED BY <1>3, <1>4 DEF R!OpenJournal, R!Escape, R!End

\* The preflight failed: nothing was touched.
LEMMA ResetRefuses ==
  ASSUME ResetInv, prog.at \in {"preflight", "noted"}, Inside, unnoted' = unnoted,
         prog' = R!RefusePreflight
  PROVE  ResetInv'
<1>1. Live /\ prog \in R!Programs /\ prog.step = "check" /\ Locals(prog) /\ Place(prog)
  BY ResetFacts, MutationsAre DEF Live, Place, Nine
<1>2. /\ prog' \in R!Programs /\ prog'.at = "final" /\ prog'.verdict = "preflight-failed"
      /\ prog'.step = "check" /\ prog'.active = prog.active
      /\ prog'.suspended = prog.suspended /\ prog'.down = prog.down
      /\ prog'.begun = prog.begun /\ prog'.error = prog.error
  BY <1>1 DEF R!RefusePreflight, R!Programs, R!Outside, R!Verdicts
<1>3. UNCHANGED <<gate, flux, agent, relays, flying, unnoted>>
  BY DEF Inside, R!objects
<1>4. Restored /\ Untouched /\ ~unnoted
  <2>1. ~unnoted /\ prog.error = None /\ flying = {}
        /\ ~prog.active /\ ~prog.suspended /\ ~prog.down /\ ~prog.begun
    BY <1>1 DEF Place, Opening
  <2> QED BY <1>1, <2>1, NoneIsApart DEF Locals, Restored
<1>5. Locals(prog)'
  BY <1>1, <1>2, <1>3 DEF Locals, Untouched
<1>6. Place(prog)'
  <2>1. Says(prog.verdict)'
    BY <1>2, <1>3, <1>4 DEF Says, Restored, Untouched
  <2> QED BY <1>1, <1>2, <1>3, <2>1, MutationsAre
     DEF Place, Deletions, Nine, Opening, Outward, R!Verdicts
<1> QED BY <1>1, <1>2, <1>5, <1>6, InsideRuns

\* The preflight (RunPreflight).
LEMMA ResetRunPreflight ==
  ASSUME ResetInv, R!RunPreflight
  PROVE  ResetInv'
<1>1. prog.at = "preflight" /\ prog.step = "check" /\ Live /\ prog \in R!Programs
  BY ResetFacts, MutationsAre DEF R!RunPreflight, Live, Place, Nine
<1>2. Inside /\ unnoted' = unnoted
  BY ResetFacts DEF R!RunPreflight, Inside, R!others, R!files
<1>3. CASE prog' = [prog EXCEPT !.at = "noted", !.ready = TRUE]
  <2>1. Kept(prog', prog) /\ prog'.at = "noted" /\ prog'.step = "check"
        /\ prog'.error = prog.error
    BY <1>1, <1>3 DEF R!Programs, Kept, R!Outside
  <2> QED BY <1>1, <1>2, <2>1, ResetAdvances DEF Nine, Outward, Opening
<1> QED BY <1>1, <1>2, <1>3, ResetRefuses DEF R!RunPreflight

\* The record of the preflight (NotePreflight).
LEMMA ResetNotePreflight ==
  ASSUME ResetInv, R!NotePreflight
  PROVE  ResetInv'
<1>1. prog.at = "noted" /\ prog.step = "check" /\ Live /\ prog \in R!Programs
      /\ Locals(prog) /\ Place(prog)
  BY ResetFacts, MutationsAre DEF R!NotePreflight, Live, Place, Nine
<1>2. Inside /\ unnoted' = unnoted
  BY ResetFacts DEF R!NotePreflight, R!Durable, R!NotDurable, Inside, R!others, Noted
<1>3. UNCHANGED <<gate, flux, agent, relays, flying, unnoted>>
  BY <1>2 DEF Inside, R!objects
<1>4. CASE prog' = [prog EXCEPT !.at = "gate", !.step = "check"]
  <2>1. Kept(prog', prog) /\ prog'.at = "gate" /\ prog'.step = "check"
        /\ prog'.error = prog.error
    BY <1>1, <1>4, MutationsAre DEF R!Programs, Kept, R!AtSteps, Nine
  <2>2. Locals(prog)'
    BY <1>1, <1>3, <2>1 DEF Locals, Kept, Untouched, Doubt
  <2>3. Place(prog)'
    <3>1. Says(prog.verdict)'
      BY <1>1, <1>3, <2>1 DEF Place, Kept, Says, Restored, Untouched
    <3> QED BY <1>1, <1>3, <2>1, <3>1, MutationsAre
            DEF Place, Kept, Deletions, Nine, Outward, Opening
  <2> QED BY <1>1, <1>2, <2>1, <2>2, <2>3, InsideRuns DEF Kept
<1>5. CASE prog' = R!RefusePreflight
  BY <1>1, <1>2, <1>5, ResetRefuses
<1> QED BY <1>4, <1>5 DEF R!NotePreflight

\* Sixty quiet seconds behind the gate (QuietObservations).
LEMMA ResetQuietObservations ==
  ASSUME ResetInv, R!QuietObservations
  PROVE  ResetInv'
<1>1. prog.at = "quiet" /\ prog.step = "check" /\ Live /\ prog \in R!Programs
      /\ Locals(prog) /\ Place(prog)
  BY ResetFacts, MutationsAre DEF R!QuietObservations, Live, Place, Nine
<1>2. Inside /\ unnoted' = unnoted
  BY ResetFacts DEF R!QuietObservations, Inside, R!others, R!files
<1>3. UNCHANGED <<gate, flux, agent, relays, flying, unnoted, disk>>
  BY DEF R!QuietObservations, R!objects, R!others, R!files
<1>4. CASE prog' = [prog EXCEPT !.at = "suspend", !.step = "check"]
  <2>1. Kept(prog', prog) /\ prog'.at = "suspend" /\ prog'.step = "check"
        /\ prog'.error = prog.error
    BY <1>1, <1>4, MutationsAre DEF R!Programs, Kept, R!AtSteps, Nine
  <2>2. Locals(prog)'
    BY <1>1, <1>3, <2>1 DEF Locals, Kept, Untouched, Doubt
  <2>3. Place(prog)'
    <3>1. Says(prog.verdict)'
      BY <1>1, <1>3, <2>1 DEF Place, Kept, Says, Restored, Untouched
    <3> QED BY <1>1, <1>3, <2>1, <3>1, MutationsAre
            DEF Place, Kept, Deletions, Nine, Outward, Opening
  <2> QED BY <1>1, <1>2, <2>1, <2>2, <2>3, InsideRuns DEF Kept
<1>5. CASE \E e \in {"transport", "other"} : prog' = R!Raised(prog, e)
  BY <1>1, <1>2, <1>5, ResetRaises DEF Outward
<1> QED BY <1>4, <1>5 DEF R!QuietObservations

\* The error of a later step.
LEMMA ResetFailsAfter ==
  ASSUME ResetInv, Live, Inside, unnoted' = unnoted, NEW e \in {"transport", "other"},
         prog.at \notin Nine \cup Outward \cup Opening \cup {"final", "intended", "receipt"},
         prog' = [R!Failed(prog, e) EXCEPT !.at = "assess"]
  PROVE  ResetInv'
<1>1. prog \in R!Programs /\ Locals(prog) /\ Place(prog) /\ prog.step = "check"
      /\ prog.verdict = None
  BY ResetFacts, MutationsAre DEF Place
<1>2. Kept(prog', prog) /\ prog'.at = "assess" /\ prog'.step = "check"
      /\ prog'.error = IF prog.error = None THEN e ELSE prog.error
  BY <1>1, FailedKept, AtKept DEF Kept, R!Outside
<1>3. UNCHANGED <<gate, flux, agent, relays, flying, unnoted>>
  BY DEF Inside, R!objects
<1>4. Locals(prog)'
  BY <1>1, <1>2, <1>3, NoneIsApart DEF Locals, Kept, Untouched, Nine
<1>5. Place(prog)'
  <2>1. Says(prog.verdict)'
    BY <1>1, <1>2, NoneIsApart DEF Kept, Says, R!Verdicts
  <2> QED BY <1>1, <1>2, <1>3, <2>1, MutationsAre
          DEF Place, Kept, Deletions, Nine, Outward, Opening
<1> QED BY <1>2, <1>4, <1>5, InsideRuns DEF Kept

\* The public reads after the route is open again (PublicReads).
LEMMA ResetPublicReads ==
  ASSUME ResetInv, R!PublicReads
  PROVE  ResetInv'
<1>1. prog.at = "reads" /\ prog.step = "check" /\ Live /\ prog \in R!Programs
  BY ResetFacts, MutationsAre DEF R!PublicReads, Live, Place, Nine
<1>2. Inside /\ unnoted' = unnoted
  BY ResetFacts DEF R!PublicReads, R!Durable, R!NotDurable, R!Escape, Inside, R!others, Noted
<1>3. CASE prog' = [prog EXCEPT !.at = "assess"]
  <2>1. Kept(prog', prog) /\ prog'.at = "assess" /\ prog'.step = "check"
        /\ prog'.error = prog.error
    BY <1>1, <1>3, AtKept DEF R!Outside
  <2> QED BY <1>1, <1>2, <2>1, ResetAdvances DEF Nine, Outward, Opening
<1>4. CASE \E e \in {"transport", "other"} :
             prog' = [R!Failed(prog, e) EXCEPT !.at = "assess"]
  BY <1>1, <1>2, <1>4, ResetFailsAfter DEF Nine, Outward, Opening
<1>5. CASE prog' = [prog EXCEPT !.at = "closed"]
  BY <1>1, <1>2, <1>5, InsideEnds
<1> QED BY <1>3, <1>4, <1>5 DEF R!PublicReads, R!Escape, R!End

\* The verdict.
LEMMA ResetConcludes ==
  ASSUME ResetInv, Inside, unnoted' = unnoted, prog.at \in {"assess", "proof"},
         NEW p \in R!Programs, Kept(p, prog), p.step = "check",
         p.error = prog.error \/ (prog.error = None /\ p.error = "other"),
         p.error = None /\ R!RestorationComplete => relays = {},
         prog' = R!Conclude(p), p.unknown = prog.unknown
  PROVE  ResetInv'
<1>1. prog \in R!Programs /\ Live /\ Locals(prog) /\ Place(prog) /\ prog.verdict = None
  BY ResetFacts DEF Place, Live
<1> DEFINE v == IF p.error = None /\ R!RestorationComplete THEN "completed"
                ELSE IF p.begun \/ ~R!RestorationComplete \/ p.error = "transport"
                  THEN "uncertain" ELSE "failed-restored"
<1>2. prog' = [p EXCEPT !.at = "final", !.verdict = v]
  BY DEF R!Conclude
<1>3. v \in R!Verdicts
  BY DEF R!Verdicts
<1>4. Says(v)
  <2>1. v # "uncertain" => R!RestorationComplete /\ p.error # "transport"
    BY NoneIsApart
  <2>2. R!RestorationComplete => ~prog.active /\ ~prog.suspended /\ ~prog.down
    BY DEF R!RestorationComplete
  <2>3. v \in R!Verdicts \ {"uncertain"} /\ ~unnoted => Restored
    BY <1>1, <2>1, <2>2, NoneIsApart DEF Locals, Restored
  <2>4. v = "completed" => relays = {} /\ ~unnoted
    BY <1>1, NoneIsApart DEF Locals
  <2>5. v # "preflight-failed" /\ (v = "failed-restored" => ~p.begun)
    OBVIOUS
  <2>6. v = "failed-restored" => Untouched
    BY <1>1, <2>5 DEF Locals, Kept
  <2> HIDE DEF v
  <2> QED BY <2>3, <2>4, <2>5, <2>6 DEF Says
<1> HIDE DEF v
<1>5. /\ prog' \in R!Programs /\ prog'.at = "final" /\ prog'.verdict = v
      /\ prog'.step = "check" /\ prog'.active = prog.active
      /\ prog'.suspended = prog.suspended /\ prog'.down = prog.down
      /\ prog'.begun = prog.begun /\ prog'.error = p.error
  BY <1>2, <1>3 DEF Kept, R!Programs, R!Outside
<1>6. UNCHANGED <<gate, flux, agent, relays, flying, unnoted>>
  BY DEF Inside, R!objects
<1>7. Locals(prog)'
  BY <1>1, <1>5, <1>6, NoneIsApart DEF Locals, Untouched
<1>8. Place(prog)'
  <2>1. Says(prog.verdict)'
    BY <1>4, <1>5, <1>6 DEF Says, Restored, Untouched
  <2> QED BY <1>1, <1>3, <1>5, <1>6, <2>1, MutationsAre
          DEF Place, Deletions, Nine, Outward, Opening
<1> QED BY <1>1, <1>5, <1>7, <1>8, InsideRuns

\* Whether the restoration is complete (Assess).
LEMMA ResetAssess ==
  ASSUME ResetInv, R!Assess
  PROVE  ResetInv'
<1>1. prog.at = "assess" /\ prog.step = "check" /\ Live /\ prog \in R!Programs
  BY ResetFacts, MutationsAre DEF R!Assess, Live, Place, Nine
<1>2. Inside /\ unnoted' = unnoted
  BY ResetFacts DEF R!Assess, Inside, R!others, R!files
<1>3. CASE prog.error = None /\ R!RestorationComplete
  <2>1. Kept(prog', prog) /\ prog'.at = "proof" /\ prog'.step = "check"
        /\ prog'.error = prog.error
    BY <1>1, <1>3, AtKept DEF R!Assess, R!Outside
  <2> QED BY <1>1, <1>2, <2>1, ResetAdvances DEF Nine, Outward, Opening
<1>4. CASE ~(prog.error = None /\ R!RestorationComplete)
  <2>1. prog' = R!Conclude(prog) /\ Kept(prog, prog)
    BY <1>1, <1>4 DEF R!Assess, Kept
  <2> QED BY <1>1, <1>2, <1>4, <2>1, ResetConcludes
<1> QED BY <1>3, <1>4

\* The final proof (Prove).
LEMMA ResetProve ==
  ASSUME ResetInv, R!Prove
  PROVE  ResetInv'
<1>1. prog.at = "proof" /\ prog.step = "check" /\ Live /\ prog \in R!Programs
  BY ResetFacts, MutationsAre DEF R!Prove, Live, Place, Nine
<1>2. Inside /\ unnoted' = unnoted
  BY ResetFacts DEF R!Prove, R!Durable, R!NotDurable, Inside, R!others, Noted
<1>3. CASE R!FinalPreservation /\ prog' = R!Conclude(prog)
  BY <1>1, <1>2, <1>3, ResetConcludes DEF R!FinalPreservation, Kept
<1>4. CASE prog' = R!Conclude(R!Failed(prog, "other"))
  <2> DEFINE p == R!Failed(prog, "other")
  <2>1. /\ Kept(p, prog) /\ p.at = prog.at /\ p.step = prog.step
        /\ p.error = IF prog.error = None THEN "other" ELSE prog.error
    BY <1>1, FailedKept
  <2>2. p.error # None /\ (p.error = prog.error \/ (prog.error = None /\ p.error = "other"))
    BY <2>1, NoneIsApart
  <2>3. p.unknown = prog.unknown
    BY <1>1 DEF R!Failed, R!Programs
  <2>4. prog' = R!Conclude(p)
    BY <1>4
  <2> HIDE DEF p
  <2> QED BY <1>1, <1>2, <2>1, <2>2, <2>3, <2>4, ResetConcludes DEF Kept
<1> QED BY <1>3, <1>4 DEF R!Prove

\* The verdict in the journal (Finalize).
LEMMA ResetFinalize ==
  ASSUME ResetInv, R!Finalize
  PROVE  ResetInv'
<1>1. prog.at = "final" /\ prog.step = "check" /\ Live /\ prog \in R!Programs
  BY ResetFacts, MutationsAre DEF R!Finalize, Live, Place, Nine
<1>2. Inside /\ unnoted' = unnoted
  BY ResetFacts DEF R!Finalize, R!Durable, R!NotDurable, R!Escape, Inside, R!others, Noted
<1>3. CASE prog' = [prog EXCEPT !.at = "intended"]
  <2>1. Kept(prog', prog) /\ prog'.at = "intended" /\ prog'.step = "check"
        /\ prog'.error = prog.error
    BY <1>1, <1>3, AtKept DEF R!Outside
  <2> QED BY <1>1, <1>2, <2>1, ResetAdvances DEF Nine, Outward, Opening
<1>4. CASE prog' = [prog EXCEPT !.at = "closed"]
  BY <1>1, <1>2, <1>4, InsideEnds
<1> QED BY <1>3, <1>4 DEF R!Finalize, R!Escape, R!End

\* The intent of the receipt (IntendReceipt).
LEMMA ResetIntendReceipt ==
  ASSUME ResetInv, R!IntendReceipt
  PROVE  ResetInv'
<1>1. prog.at = "intended" /\ prog.step = "check" /\ Live /\ prog \in R!Programs
  BY ResetFacts, MutationsAre DEF R!IntendReceipt, Live, Place, Nine
<1>2. Inside /\ unnoted' = unnoted
  BY ResetFacts DEF R!IntendReceipt, R!Durable, R!NotDurable, R!Escape, Inside, R!others, Noted
<1>3. CASE prog' = [prog EXCEPT !.at = "receipt"]
  <2>1. Kept(prog', prog) /\ prog'.at = "receipt" /\ prog'.step = "check"
        /\ prog'.error = prog.error
    BY <1>1, <1>3, AtKept DEF R!Outside
  <2> QED BY <1>1, <1>2, <2>1, ResetAdvances DEF Nine, Outward, Opening
<1>4. CASE prog' = [prog EXCEPT !.at = "closed"]
  BY <1>1, <1>2, <1>4, InsideEnds
<1> QED BY <1>3, <1>4 DEF R!IntendReceipt, R!Escape, R!End

\* The receipt, committed or not (CommitReceipt).
LEMMA ResetCommitReceipt ==
  ASSUME ResetInv, R!CommitReceipt
  PROVE  ResetInv'
<1>1. prog.at = "receipt" /\ Live /\ prog \in R!Programs /\ Place(prog) /\ rfile = "empty"
  BY ResetFacts DEF R!CommitReceipt, Live
<1>2. UNCHANGED <<gate, flux, agent, relays, flying, spoiled, late, unnoted, disk>>
      /\ rfile' \in {rfile, prog.verdict} /\ prog' = [prog EXCEPT !.at = "closed"]
  BY DEF R!CommitReceipt, R!objects, R!others, R!End
<1>3. prog' \in R!Programs /\ prog'.at = "closed"
  BY <1>1, <1>2, AtKept DEF R!Outside, Kept
<1>4. prog.verdict \in R!Verdicts /\ Says(prog.verdict) /\ Says("empty")
  BY <1>1 DEF Place, Says, R!Verdicts
<1>5. Says(rfile)'
  BY <1>1, <1>2, <1>4 DEF Says, Restored, Untouched
<1>6. World'
  BY <1>2, ResetFacts, WorldStays DEF R!objects
<1> QED BY <1>1, <1>2, <1>3, <1>4, <1>5, <1>6, ResetFacts, MutationsAre
        DEF ResetInv, ResetTyped, World, ObjectsTyped, Noted

\* A request that is about to be sent may be served.
LEMMA StepSendable ==
  ASSUME ResetInv, NEW m \in Nine, prog.at = m, prog.step = "send"
  PROVE  /\ Sendable(m)
         /\ m = "gate" => gate = "open"
         /\ m = "suspend" => flux = "active"
         /\ m = "down" => agent = 1
<1>1. prog.at \in Outward \cup Restore /\ Live /\ m \in R!Mutations
      /\ Locals(prog) /\ Place(prog)
  BY NineAt, ResetFacts
<1>2. m \in disk
  BY <1>1 DEF Place
<1>3. m \in Deletions => R!Quiet /\ (m = "deleteCitizen" \/ "deleteCitizen" \in disk)
  BY <1>1 DEF Place, R!Quiet, Deletions
<1>4. m \in {"gate", "suspend", "down"} => prog.error = None /\ ~unnoted
  BY <1>1 DEF Place, Locals, Outward
<1>5. /\ m = "gate" => ~prog.active
      /\ m = "suspend" => ~prog.suspended
      /\ m = "down" => ~prog.down
  BY <1>1 DEF Place, Before
<1> QED BY <1>1, <1>2, <1>3, <1>4, <1>5, NoneIsApart
        DEF Sendable, Locals, Doubt, Deletions

\* A request is made: its answer comes, or it is cut off.
LEMMA ResetIsAnswered ==
  ASSUME ResetInv, NEW m \in Nine, prog.at = m, prog.step = "send", R!Serve(m),
         UNCHANGED <<late, unnoted, disk, rfile>>,
         prog' = R!Known([prog EXCEPT !.step = "answered"], m)
  PROVE  ResetInv'
<1>1. prog.at \in Outward \cup Restore /\ Live /\ m \in R!Mutations /\ prog \in R!Programs
      /\ Locals(prog) /\ Place(prog)
  BY NineAt, ResetFacts
<1> DEFINE p == [prog EXCEPT !.step = "answered"]
<1>2. Kept(p, prog) /\ p.at = m /\ p.step = "answered" /\ p.error = prog.error
  BY <1>1, StepKept DEF R!AtSteps
<1>3. prog' = R!Known(p, m)
  OBVIOUS
<1> HIDE DEF p
<1>4. p \in R!Programs
  BY <1>2 DEF Kept
<1>5. /\ prog' \in R!Programs /\ prog'.at = p.at /\ prog'.step = p.step
      /\ prog'.begun = p.begun /\ prog'.verdict = p.verdict /\ prog'.error = p.error
  BY <1>3, <1>4, KnownKept
<1>6. /\ prog'.active <=> (p.active \/ m = "gate")
      /\ prog'.suspended <=> (p.suspended \/ m = "suspend")
      /\ prog'.down <=> (m = "down" \/ (p.down /\ m # "up"))
  BY <1>3, <1>4, KnownKept
<1>7. /\ prog'.at = m /\ prog'.step = "answered" /\ prog'.verdict = prog.verdict
      /\ prog'.error = prog.error /\ prog'.begun = prog.begun
      /\ prog'.active <=> (prog.active \/ m = "gate")
      /\ prog'.suspended <=> (prog.suspended \/ m = "suspend")
      /\ prog'.down <=> (m = "down" \/ (prog.down /\ m # "up"))
  BY <1>2, <1>5, <1>6 DEF Kept
<1>8. World /\ World'
  BY <1>1, StepSendable, WorldServed, ResetFacts
<1>9. Locals(prog)'
  BY <1>1, <1>7, <1>8, ServeIs
     DEF Locals, Untouched, Doubt, World, Objects, ObjectsTyped, Deletions, Place
<1>10. Place(prog)'
  <2>1. R!Applied(prog.at)'
    <3>1. /\ m = "gate" => gate' = "gated"
          /\ m = "open" => gate' = "open"
          /\ m = "suspend" => flux' = "suspended"
          /\ m = "resume" => flux' = "active"
          /\ m = "down" => agent' = 0
          /\ m \in {"up", "scale"} => agent' = 1
          /\ m = "deleteCitizen" => "citizen" \notin relays'
          /\ m = "deleteAgent" => "agent" \notin relays'
      BY <1>8, ServeIs DEF World
    <3>2. prog'.at = m
      BY <1>7
    <3> QED BY <3>1, <3>2 DEF R!Applied, Nine
  <2>2. Says(prog.verdict)'
    BY <1>1, <1>7, NoneIsApart DEF Place, Says, R!Verdicts, Nine
  <2>3. UNCHANGED <<disk, unnoted>>
    OBVIOUS
  <2> HIDE DEF R!Applied
  <2> QED BY <1>1, <1>7, <1>8, <2>1, <2>2, <2>3, ServeIs, MutationsAre
          DEF Place, Opening, Before, Nine, Outward, Deletions, World, Objects
<1>11. disk' \subseteq Noted /\ unnoted' \in BOOLEAN /\ late' \subseteq R!Mutations
       /\ rfile' = "empty" /\ prog'.at # "idle"
  BY <1>1, <1>7, ResetFacts DEF Nine
<1> QED BY <1>5, <1>8, <1>9, <1>10, <1>11, StillRuns

\* A request is cut off: it was served, will be, or never.
LEMMA ResetIsCutOff ==
  ASSUME ResetInv, NEW m \in Nine, prog.at = m, prog.step = "send", R!CutOff(m),
         UNCHANGED <<late, unnoted, disk, rfile>>, prog' = [prog EXCEPT !.step = "look"]
  PROVE  ResetInv'
<1>1. prog.at \in Outward \cup Restore /\ Live /\ m \in R!Mutations /\ prog \in R!Programs
      /\ Locals(prog) /\ Place(prog)
  BY NineAt, ResetFacts
<1>2. Kept(prog', prog) /\ prog'.at = m /\ prog'.step = "look" /\ prog'.error = prog.error
  BY <1>1, StepKept DEF R!AtSteps
<1>3. World /\ World'
  BY <1>1, StepSendable, WorldCut, ResetFacts
<1>4. CASE UNCHANGED R!objects
  <2>1. UNCHANGED <<gate, flux, agent, relays, flying>>
    BY <1>4 DEF R!objects
  <2>2. Locals(prog)'
    BY <1>1, <1>2, <2>1 DEF Locals, Kept, Untouched, Doubt
  <2>3. Place(prog)'
    BY <1>1, <1>2, <2>1, PlaceStays DEF Kept, Before
  <2> QED BY <1>1, <1>2, <1>3, <2>2, <2>3, ResetFacts, StillRuns DEF Kept, Nine
<1>5. CASE R!Serve(m)
  <2>1. Locals(prog)'
    BY <1>1, <1>2, <1>3, <1>5, ServeIs
       DEF Locals, Untouched, Doubt, World, Objects, ObjectsTyped, Deletions, Place, Kept
  <2>2. Place(prog)'
    <3>1. Says(prog.verdict)'
      BY <1>1, <1>2, NoneIsApart DEF Place, Says, R!Verdicts, Nine, Kept
    <3> QED BY <1>1, <1>2, <1>3, <1>5, <3>1, ServeIs, MutationsAre
            DEF Place, Opening, Before, Nine, Outward, Deletions, World, Objects, Kept
  <2> QED BY <1>1, <1>2, <1>3, <2>1, <2>2, ResetFacts, StillRuns DEF Kept, Nine
<1>6. CASE flying' = flying \cup {m} /\ UNCHANGED <<gate, flux, agent, relays, spoiled>>
  <2>1. Locals(prog)'
    BY <1>1, <1>2, <1>3, <1>6
       DEF Locals, Untouched, Doubt, Deletions, Place, Kept, Before
  <2>2. Place(prog)'
    <3>1. Says(prog.verdict)'
      BY <1>1, <1>2, NoneIsApart DEF Place, Says, R!Verdicts, Nine, Kept
    <3> QED BY <1>1, <1>2, <1>3, <1>6, <3>1, MutationsAre
            DEF Place, Opening, Before, Nine, Outward, Deletions, World, Objects, Kept
  <2> QED BY <1>1, <1>2, <1>3, <2>1, <2>2, ResetFacts, StillRuns DEF Kept, Nine
<1> QED BY <1>4, <1>5, <1>6 DEF R!CutOff

\* The request (Send).
LEMMA ResetSend ==
  ASSUME ResetInv, NEW m \in Nine, R!Send(m)
  PROVE  ResetInv'
<1>1. prog.at = m /\ prog.step = "send" /\ UNCHANGED <<late, unnoted, disk, rfile>>
  BY DEF R!Send, R!others, R!files
<1> QED BY <1>1, ResetIsAnswered, ResetIsCutOff DEF R!Send

\* RelayResetInterrupted, raised wherever the program is (Interrupt).
LEMMA ResetInterrupt ==
  ASSUME ResetInv, R!Interrupt
  PROVE  ResetInv'
<1>1. Live /\ prog \in R!Programs /\ Locals(prog) /\ Place(prog) /\ rfile = "empty"
  BY ResetFacts DEF R!Interrupt, Live
<1>2. UNCHANGED <<late, disk, rfile>> /\ (unnoted' <=> (unnoted \/ prog.step \in R!Looked))
      /\ unnoted' \in BOOLEAN
  BY DEF R!Interrupt, R!files
<1>3. prog.step \notin R!Looked => unnoted' = unnoted
  BY ResetFacts DEF R!Interrupt
<1>4. UNCHANGED R!objects => Inside
  BY <1>2, ResetFacts DEF Inside
<1>5. CASE /\ prog.at \in {"preflight", "noted"} /\ prog' = R!RefusePreflight
           /\ UNCHANGED R!objects
  <2>1. prog.step = "check"
    BY <1>1, <1>5, MutationsAre DEF Place, Nine
  <2> QED BY <1>3, <1>4, <1>5, <2>1, ResetRefuses DEF R!Looked
<1>6. CASE /\ prog.at \in Outward /\ prog.step \in {"check", "intent", "wait"}
           /\ prog' = R!Raised(prog, "other") /\ UNCHANGED R!objects
  BY <1>1, <1>4, <1>6, ResetRaises DEF Doubt
<1>7. CASE /\ prog.step = "send" /\ R!CutOff(prog.at)
           /\ prog' = [prog EXCEPT !.step = "look"]
  <2>1. prog.at \in Nine
    BY <1>1, <1>7, MutationsAre DEF Place
  <2>2. UNCHANGED <<late, unnoted, disk, rfile>>
    BY <1>2, <1>3, <1>7 DEF R!Looked
  <2> QED BY <1>7, <2>1, <2>2, ResetIsCutOff
<1>8. CASE /\ prog.step = "answered" /\ UNCHANGED R!objects
           /\ \E a \in {prog.again, TRUE} :
                prog' = [prog EXCEPT !.step = "look", !.again = a]
  <2>1. prog.at \in Nine
    BY <1>1, <1>8, MutationsAre DEF Place
  <2>2. Kept(prog', prog) /\ prog'.at = prog.at /\ prog'.step = "look" /\ prog'.error = prog.error
    BY <1>1, <1>8 DEF R!Programs, R!AtSteps, Kept
  <2>3. UNCHANGED <<gate, flux, agent, relays, flying, unnoted, disk>>
    BY <1>2, <1>3, <1>8 DEF R!objects, R!Looked
  <2>4. Locals(prog)'
    BY <1>1, <1>8, <2>2, <2>3 DEF Locals, Kept, Untouched, Doubt
  <2>5. Place(prog)'
    BY <1>1, <2>1, <2>2, <2>3, PlaceStays DEF Kept, Before
  <2> QED BY <1>1, <1>4, <1>8, <2>1, <2>2, <2>4, <2>5, InsideRuns DEF Kept, Nine
<1>9. CASE /\ prog.step = "look" /\ UNCHANGED R!objects
           /\ prog' = [prog EXCEPT !.step = "unread"]
  <2>1. prog.at \in Nine
    BY <1>1, <1>9, MutationsAre DEF Place
  <2>2. Kept(prog', prog) /\ prog'.at = prog.at /\ prog'.step = "unread" /\ prog'.error = prog.error
    BY <1>1, <1>9, StepKept DEF R!AtSteps, R!Looked
  <2>3. UNCHANGED <<gate, flux, agent, relays, flying, unnoted, disk>>
    BY <1>2, <1>3, <1>9 DEF R!objects, R!Looked
  <2>4. Locals(prog)'
    BY <1>1, <1>9, <2>2, <2>3 DEF Locals, Kept, Untouched, Doubt
  <2>5. Place(prog)'
    BY <1>1, <2>1, <2>2, <2>3, PlaceStays DEF Kept, Before
  <2> QED BY <1>1, <1>4, <1>9, <2>1, <2>2, <2>4, <2>5, InsideRuns DEF Kept, Nine
<1>10. CASE /\ prog.step \in R!Looked /\ prog' = R!Raised(prog, "other")
            /\ UNCHANGED R!objects
  <2>1. prog.at \in Nine
    BY <1>1, <1>10, MutationsAre DEF Place, R!Looked
  <2>2. unnoted'
    BY <1>2, <1>10
  <2> QED BY <1>1, <1>4, <1>10, <2>1, <2>2, NineAt, ResetRaises
<1>11. CASE /\ prog.at \in Restore /\ prog' = R!Raised(prog, "other")
            /\ UNCHANGED R!objects
  BY <1>1, <1>4, <1>11, ResetRaises DEF Restore
<1>12. CASE prog' = [prog EXCEPT !.at = "closed"] /\ UNCHANGED R!objects
  BY <1>1, <1>4, <1>12, InsideEnds
<1>13. \/ /\ prog.at \in {"preflight", "noted"} /\ prog' = R!RefusePreflight
          /\ UNCHANGED R!objects
       \/ /\ prog.at \in Outward /\ prog.step \in {"check", "intent", "wait"}
          /\ prog' = R!Raised(prog, "other") /\ UNCHANGED R!objects
       \/ /\ prog.step = "send" /\ R!CutOff(prog.at)
          /\ prog' = [prog EXCEPT !.step = "look"]
       \/ /\ prog.step = "answered" /\ UNCHANGED R!objects
          /\ \E a \in {prog.again, TRUE} :
                prog' = [prog EXCEPT !.step = "look", !.again = a]
       \/ /\ prog.step = "look" /\ UNCHANGED R!objects
          /\ prog' = [prog EXCEPT !.step = "unread"]
       \/ /\ prog.step \in R!Looked /\ prog' = R!Raised(prog, "other")
          /\ UNCHANGED R!objects
       \/ /\ prog.at \in Restore /\ prog' = R!Raised(prog, "other")
          /\ UNCHANGED R!objects
       \/ prog' = [prog EXCEPT !.at = "closed"] /\ UNCHANGED R!objects
  BY MutationsAre DEF R!Interrupt, R!End, Outward
<1> QED BY <1>5, <1>6, <1>7, <1>8, <1>9, <1>10, <1>11, <1>12, <1>13

\* SIGKILL, or the host (Kill).
LEMMA ResetKill ==
  ASSUME ResetInv, R!Kill
  PROVE  ResetInv'
<1>1. Live /\ prog \in R!Programs /\ Locals(prog) /\ Place(prog) /\ rfile = "empty"
  BY ResetFacts DEF R!Kill, Live
<1>2. UNCHANGED <<late, unnoted, disk, rfile>> /\ prog' = [prog EXCEPT !.at = "closed"]
  BY DEF R!Kill, R!others, R!files, R!End
<1>3. prog' \in R!Programs /\ prog'.at = "closed"
  BY <1>1, <1>2, AtKept DEF R!Outside, Kept
<1>4. World'
  <2>1. CASE prog.step = "send" /\ prog.at \in R!Mutations
    <3>1. R!CutOff(prog.at)
      BY <2>1 DEF R!Kill
    <3> QED BY <1>2, <2>1, <3>1, MutationsAre, StepSendable, WorldCut, ResetFacts
  <2>2. CASE ~(prog.step = "send" /\ prog.at \in R!Mutations)
    <3>1. UNCHANGED R!objects
      BY <2>2 DEF R!Kill
    <3> QED BY <1>2, <3>1, WorldStays, ResetFacts
  <2> QED BY <2>1, <2>2
<1>5. Says(rfile)'
  BY <1>1, <1>2 DEF Says, R!Verdicts
<1> QED BY <1>2, <1>3, <1>4, <1>5, ResetFacts, MutationsAre
        DEF ResetInv, ResetTyped, World, ObjectsTyped, Noted

\* What others do leaves the program where it is.
LEMMA ProgramStays ==
  ASSUME ResetInv, World', UNCHANGED <<disk, rfile, prog, unnoted>>,
         late' \subseteq R!Mutations, Says(rfile)',
         prog.at = "idle" => Restored' /\ Untouched' /\ flying' = {},
         Live => Locals(prog)' /\ Place(prog)'
  PROVE  ResetInv'
BY ResetFacts, MutationsAre
   DEF ResetInv, ResetTyped, World, ObjectsTyped, Noted, Live

\* A mutation that was looked for in vain is served (Land).
LEMMA ResetLand ==
  ASSUME ResetInv, NEW m \in Nine, R!Land(m)
  PROVE  ResetInv'
<1>1. m \in flying /\ R!Serve(m) /\ late' = late \cup {m}
      /\ UNCHANGED <<disk, rfile, prog, unnoted>>
  BY DEF R!Land, R!files
<1>2. World /\ World'
  <2>1. Sendable(m)
    BY <1>1, ResetFacts DEF Sendable, World, Journaled, Deletions
  <2> QED BY <1>1, <2>1, ResetFacts, WorldServed
<1>3. late' \subseteq R!Mutations
  BY <1>1, ResetFacts, MutationsAre
<1>4. \A v : Says(v) => Says(v)'
  BY <1>1, <1>2, ServeIs DEF Says, Restored, Untouched, World, Deletions, Nine
<1>5. Says(rfile)'
  BY <1>1, <1>4 DEF ResetInv
<1>6. prog.at # "idle"
  BY <1>1 DEF ResetInv
<1>7. ASSUME Live PROVE Locals(prog)'
  <2>1. Locals(prog) /\ Place(prog)
    BY <1>7, ResetFacts
  <2> QED BY <1>1, <1>2, <2>1, ServeIs
          DEF Locals, Untouched, World, Objects, ObjectsTyped, Deletions, Nine
<1>8. ASSUME Live PROVE Place(prog)'
  <2>1. Place(prog) /\ prog.at \notin Opening
    BY <1>1, <1>8, ResetFacts DEF Place
  <2>2. ObjectsTyped /\ flying' \subseteq flying
    BY <1>1, <1>2, ServeIs DEF World
  <2>3. /\ gate' = IF m = "gate" THEN "gated" ELSE IF m = "open" THEN "open" ELSE gate
        /\ flux' = IF m = "suspend" THEN "suspended" ELSE IF m = "resume" THEN "active"
                   ELSE flux
        /\ agent' = IF m = "down" THEN 0 ELSE IF m \in {"up", "scale"} THEN 1 ELSE agent
        /\ relays' \subseteq relays
    BY <1>1, <2>2, ServeIs
  <2>4. prog.at \in Nine /\ prog.step \in {"answered", "shown", "wait"}
          => R!Applied(prog.at)'
    BY <1>1, <2>1, <2>3, MutationsAre DEF Place, R!Applied, Nine, Outward, Deletions
  <2> QED BY <1>1, <1>4, <2>1, <2>2, <2>3, <2>4, MutationsAre
          DEF Place, Outward, Deletions, Opening
<1> QED BY <1>1, <1>2, <1>3, <1>5, <1>6, <1>7, <1>8, ProgramStays

\* The kustomize-controller restores the replicas (Reconcile).
LEMMA ResetReconcile ==
  ASSUME ResetInv, R!Reconcile
  PROVE  ResetInv'
<1>1. /\ agent = 0 /\ agent' = 1 /\ flying' \subseteq flying \ {"down", "up", "scale"}
      /\ UNCHANGED <<gate, flux, relays, spoiled, late, unnoted, disk, rfile, prog>>
  BY ResetFacts, MutationsAre
     DEF R!Reconcile, R!others, R!files, R!Object, World, ObjectsTyped, Nine
<1>2. flux = "active"
  BY DEF R!Reconcile
<1>3. World'
  BY <1>1, ResetFacts
     DEF World, ObjectsTyped, Objects, Journaled, R!ResetWhileQuiet, Deletions
<1>4. \A v : Says(v) => Says(v)'
  BY <1>1 DEF Says, Restored, Untouched
<1>5. Says(rfile)'
  BY <1>1, <1>4 DEF ResetInv
<1>6. prog.at # "idle"
  BY <1>1 DEF ResetInv, Restored
<1>7. ASSUME Live PROVE Locals(prog)' /\ Place(prog)'
  <2>1. Locals(prog) /\ Place(prog)
    BY <1>7, ResetFacts
  <2>2. Locals(prog)'
    BY <1>1, <2>1 DEF Locals, Untouched
  <2>3. prog.at \notin Deletions
    BY <1>2, <2>1 DEF Place
  <2>4. prog.at \in Nine /\ prog.step \in {"answered", "shown", "wait"}
          => R!Applied(prog.at)'
    BY <1>1, <1>2, <2>1, MutationsAre DEF Place, R!Applied, Nine, Outward, Deletions
  <2> QED BY <1>1, <1>4, <2>1, <2>2, <2>3, <2>4, MutationsAre
          DEF Place, Outward, Deletions, Opening
<1> QED BY <1>1, <1>3, <1>5, <1>6, <1>7, ResetFacts, ProgramStays

\* A request on its way dies, or nothing the invariant reads changes.
LEMMA ResetStays ==
  ASSUME ResetInv, flying' \subseteq flying,
         UNCHANGED <<gate, flux, agent, relays, spoiled, late, unnoted, disk, rfile, prog>>
  PROVE  ResetInv'
<1>1. World'
  BY ResetFacts DEF World, ObjectsTyped, Objects, Journaled, R!ResetWhileQuiet
<1>2. \A v : Says(v) => Says(v)'
  BY DEF Says, Restored, Untouched
<1>3. Says(rfile)'
  BY <1>2 DEF ResetInv
<1>4. prog.at = "idle" => Restored' /\ Untouched' /\ flying' = {}
  BY DEF ResetInv, Restored, Untouched
<1>5. ASSUME Live PROVE Locals(prog)' /\ Place(prog)'
  <2>1. Locals(prog) /\ Place(prog)
    BY <1>5, ResetFacts
  <2>2. Locals(prog)'
    BY <2>1 DEF Locals, Untouched
  <2>3. R!Applied(prog.at) => R!Applied(prog.at)'
    BY DEF R!Applied
  <2> QED BY <1>2, <2>1, <2>2, <2>3, MutationsAre DEF Place
<1> QED BY <1>1, <1>3, <1>4, <1>5, ResetFacts, ProgramStays

\* What others do to the cluster (Others).
LEMMA ResetOthers ==
  ASSUME ResetInv, R!Others
  PROVE  ResetInv'
<1>1. CASE \E m \in R!Mutations : R!Land(m)
  BY <1>1, MutationsAre, ResetLand
<1>2. CASE R!Reconcile
  BY <1>2, ResetReconcile
<1>3. CASE \E o \in {"gate", "flux", "agent"} : R!StatusWrite(o)
  BY <1>3, ResetStays DEF R!StatusWrite, R!others, R!files
<1>4. CASE \E f \in ResetFacets : R!Drift(f)
  BY <1>4, ResetStays DEF R!Drift, R!objects, R!files
<1> QED BY <1>1, <1>2, <1>3, <1>4 DEF R!Others

\* The start of a transport.
LEMMA ResetBegins ==
  ASSUME gate = "open", flux = "active", agent = 1, relays = R!Relays, unnoted = FALSE,
         spoiled = {}, flying = {}, rfile = "absent", disk = {}, prog = R!Idle, late = {}
  PROVE  ResetInv
<1>1. R!Idle \in R!Programs /\ R!Idle.at = "idle"
  BY DEF R!Idle, R!Programs, R!Outside, R!AtSteps
<1>2. ResetTyped
  BY <1>1 DEF ResetTyped
<1>3. Restored /\ Untouched /\ Says("absent")
  BY DEF Says, Restored, Untouched, R!Verdicts
<1>4. Objects /\ Journaled /\ R!ResetWhileQuiet
  BY DEF Objects, Journaled, R!ResetWhileQuiet
<1> QED BY <1>1, <1>2, <1>3, <1>4 DEF ResetInv

-----
\* The transport

\* The invariant of whichever of the two runs.
TransportInv ==
  /\ mode \in Modes
  /\ mode = "promotion" => PromotionInv
  /\ mode = "reset" => ResetInv

\* What the wrapper calls completed, the child's receipt calls completed.
WrapperInv ==
  /\ w \in Wrappers
  /\ w.completed \/ wexit \in {0, 3} \/ wfile \in {"completed", "completed-cleanup-incomplete"}
       => rfile = "completed"

\* A step of the child, of others on its cluster, or neither.
ChildActs ==
  \/ UNCHANGED child
  \/ Promotes /\ (P!Start \/ P!Proceed \/ P!Interrupt \/ P!Kill \/ P!Others)
  \/ Resets /\ (R!Begin \/ R!Proceed \/ R!Interrupt \/ R!Kill \/ R!Others)

\* A behaviour keeps its mode, and all a step does to the files and the
\* cluster is a step of the child, or of others.
LEMMA NextIsOfChild ==
  ASSUME [Next]_vars
  PROVE  mode' = mode /\ ChildActs
<1>1. CASE Launch \/ Prepare \/ ChildRefuses \/ TransportAbsent \/ Collect \/ Judge
             \/ Close \/ CommitReceipt
  BY <1>1 DEF Launch, Prepare, ChildRefuses, TransportAbsent, Collect, Judge, Close,
              CommitReceipt, ChildActs
<1>2. CASE Spawn \/ ChildSteps \/ KillChild \/ Elsewhere
  BY <1>2 DEF Spawn, ChildSteps, KillChild, Elsewhere, ChildActs
<1>3. CASE Signal \/ Timeout \/ HostLost
  BY <1>3 DEF Signal, Timeout, HostLost, Interrupted, ChildActs
<1>4. CASE UNCHANGED vars
  BY <1>4 DEF vars, ChildActs
<1> QED BY <1>1, <1>2, <1>3, <1>4 DEF Next

\* What the child is made of.
LEMMA ChildIs ==
  UNCHANGED child <=>
    UNCHANGED <<image, runs, gate, flux, agent, relays, unnoted, spoiled,
                drift, flying, disk, rfile, prog, exit, late, faults>>
BY DEF child, promotionOnly, resetOnly, common

\* Every step of a promotion keeps its invariant and changes the image once.
LEMMA PromotionActs ==
  ASSUME PromotionInv,
         UNCHANGED child \/ P!Start \/ P!Proceed \/ P!Interrupt \/ P!Kill \/ P!Others
  PROVE  PromotionInv' /\ ChangesOnce
<1>1. CASE UNCHANGED child
  <2>1. UNCHANGED <<image, flying, disk, rfile, prog, late>>
    BY <1>1, ChildIs
  <2> QED BY <2>1, PromotionStays
<1>2. CASE P!Start
  BY <1>2, PromotionBegin, PromotionRestart DEF P!Start
<1>3. CASE P!Interrupt \/ P!Kill \/ P!Others
  BY <1>3, PromotionInterrupt, PromotionKill, PromotionOthers
<1>4. CASE P!Proceed
  <2>1. CASE P!Reserve \/ P!OpenJournal \/ P!RunPreflight \/ P!NotePreflight \/ P!Intend
               \/ P!PatchImage \/ P!NotePatched \/ P!Discover \/ P!Classify \/ P!Verify
    BY <2>1, PromotionReserve, PromotionOpenJournal, PromotionRunPreflight, PromotionNotePreflight,
       PromotionIntend, PromotionPatchImage, PromotionNotePatched, PromotionDiscover, PromotionClassify,
       PromotionVerify
  <2>2. CASE P!NoteVerified \/ P!RollbackRead \/ P!RollbackIntend \/ P!RollbackPatch
               \/ P!RollbackDiscover \/ P!RollbackUncertain \/ P!NoteRolledBack
               \/ P!RollbackVerify
    BY <2>2, PromotionNoteVerified, PromotionRollbackRead, PromotionRollbackIntend,
       PromotionRollbackPatch, PromotionRollbackDiscover, PromotionRollbackUncertain,
       PromotionNoteRolledBack, PromotionRollbackVerify
  <2>3. CASE P!NoteResume \/ P!Reread \/ P!RereadFails \/ P!Rejudge \/ P!OldImage
               \/ P!Finalizing \/ P!CommitReceipt \/ P!Terminal \/ P!Incomplete
    BY <2>3, PromotionNoteResume, PromotionReread, PromotionRereadFails, PromotionRejudge, PromotionOldImage,
       PromotionFinalizing, PromotionCommitReceipt, PromotionTerminal, PromotionIncomplete
  <2> QED BY <1>4, <2>1, <2>2, <2>3 DEF P!Proceed
<1> QED BY <1>1, <1>2, <1>3, <1>4

\* Every step of a reset keeps its invariant.
LEMMA ResetActs ==
  ASSUME ResetInv,
         UNCHANGED child \/ R!Begin \/ R!Proceed \/ R!Interrupt \/ R!Kill \/ R!Others
  PROVE  ResetInv'
<1>1. CASE UNCHANGED child
  BY <1>1, ChildIs, ResetStays
<1>2. CASE R!Begin \/ R!Interrupt \/ R!Kill \/ R!Others
  BY <1>2, ResetBegin, ResetInterrupt, ResetKill, ResetOthers
<1>3. CASE R!Proceed
  <2>1. CASE R!OpenJournal \/ R!RunPreflight \/ R!NotePreflight \/ R!QuietObservations
               \/ R!PublicReads \/ R!Assess \/ R!Prove \/ R!Finalize \/ R!IntendReceipt
               \/ R!CommitReceipt
    BY <2>1, ResetOpenJournal, ResetRunPreflight, ResetNotePreflight,
       ResetQuietObservations, ResetPublicReads, ResetAssess, ResetProve, ResetFinalize,
       ResetIntendReceipt, ResetCommitReceipt
  <2>2. CASE \E m \in R!Mutations : R!Mutate(m)
    BY <2>2, MutationsAre, ResetCheck, ResetIntend, ResetSend, ResetNoteAnswer,
       ResetLook, ResetNoteLook, ResetWait DEF R!Mutate
  <2>3. CASE \E m \in R!Restore : R!Failing(m)
    BY <2>3, ResetFailing DEF R!Restore, Restore
  <2> QED BY <1>3, <2>1, <2>2, <2>3 DEF R!Proceed
<1> QED BY <1>1, <1>2, <1>3

\* The transport starts in the invariants.
LEMMA TransportStarts == Init => TransportInv /\ WrapperInv
<1> SUFFICES ASSUME Init PROVE TransportInv /\ WrapperInv
  OBVIOUS
<1>1. mode \in Modes /\ mode \in {"promotion", "reset"}
  BY TransportConstants DEF Init
<1>2. mode = "promotion" => PromotionInv
  <2> HAVE mode = "promotion"
  <2>1. /\ image = "old" /\ flying = {} /\ disk = P!NoJournal /\ rfile = "absent"
        /\ prog = P!Idle /\ late = FALSE
    BY DEF Init
  <2> QED BY <2>1, PromotionBegins
<1>3. mode = "reset" => ResetInv
  <2> HAVE mode = "reset"
  <2>1. /\ gate = "open" /\ flux = "active" /\ agent = 1 /\ relays = R!Relays
        /\ unnoted = FALSE /\ spoiled = {} /\ flying = {} /\ rfile = "absent"
        /\ disk = {} /\ prog = R!Idle /\ late = {}
    BY DEF Init
  <2> QED BY <2>1, ResetBegins
<1>4. WrapperInv
  BY NoneIsApart DEF Init, WrapperInv, NotRunning, Wrappers, Phases
<1> QED BY <1>1, <1>2, <1>3, <1>4 DEF TransportInv

\* Every step of the wrapper and of its child keeps the invariant.
LEMMA TransportKeeps ==
  ASSUME TransportInv, [Next]_vars
  PROVE  TransportInv'
<1>1. mode' = mode /\ ChildActs
  BY NextIsOfChild
<1>2. mode = "promotion" => PromotionInv'
  BY <1>1, PromotionActs DEF TransportInv, ChildActs, Promotes, Resets
<1>3. mode = "reset" => ResetInv'
  BY <1>1, ResetActs DEF TransportInv, ChildActs, Promotes, Resets
<1> QED BY <1>1, <1>2, <1>3 DEF TransportInv

\* A receipt that was committed as completed is never replaced.
LEMMA CompletedStays ==
  ASSUME TransportInv, [Next]_vars, rfile = "completed"
  PROVE  rfile' = "completed"
<1>1. ChildActs /\ mode \in {"promotion", "reset"}
  BY NextIsOfChild, TransportConstants DEF TransportInv
<1>2. CASE UNCHANGED child
  BY <1>2, ChildIs
<1>3. CASE mode = "promotion"
  <2>1. ChangesOnce
    BY <1>1, <1>3, PromotionActs DEF TransportInv, ChildActs, Promotes, Resets
  <2> QED BY <2>1, NoneIsApart DEF ChangesOnce, SameSaid, Said, P!Verdicts
<1>4. CASE mode = "reset" /\ ~UNCHANGED child
  <2>1. R!Begin \/ R!Proceed \/ R!Interrupt \/ R!Kill \/ R!Others
    BY <1>1, <1>4 DEF ChildActs, Promotes
  <2>2. prog.at = "closed"
    BY <1>4 DEF TransportInv, ResetInv
  <2>3. ~(R!Begin \/ R!Interrupt \/ R!Kill)
    BY <2>2 DEF R!Begin, R!Interrupt, R!Kill
  <2>4. ~R!Proceed
    <3>1. ~\E m \in R!Mutations : R!Mutate(m)
      BY <2>2, MutationsAre
         DEF R!Mutate, R!Check, R!Intend, R!Send, R!NoteAnswer, R!Look, R!NoteLook, R!Wait,
             Nine
    <3> QED BY <2>2, <3>1
            DEF R!Proceed, R!OpenJournal, R!RunPreflight, R!NotePreflight,
                R!QuietObservations, R!Failing, R!Restore, R!PublicReads, R!Assess, R!Prove,
                R!Finalize, R!IntendReceipt, R!CommitReceipt
  <2> QED BY <2>1, <2>3, <2>4
          DEF R!Others, R!Land, R!Reconcile, R!StatusWrite, R!Drift, R!files
<1> QED BY <1>1, <1>2, <1>3, <1>4

\* The wrapper completes only what the child completed (Judge, CommitReceipt).
LEMMA WrapperKeeps ==
  ASSUME TransportInv, WrapperInv, [Next]_vars
  PROVE  WrapperInv'
<1>1. rfile = "completed" => rfile' = "completed"
  BY CompletedStays
<1>2. w \in Wrappers
  BY DEF WrapperInv
<1>3. CASE Launch \/ HostLost
  <2>1. NotRunning \in Wrappers /\ ~NotRunning.completed
        /\ [NotRunning EXCEPT !.phase = "prepare"] \in Wrappers
        /\ ~[NotRunning EXCEPT !.phase = "prepare"].completed
    BY DEF Wrappers, Phases, NotRunning
  <2>2. wexit' = None /\ wfile' \in {wfile, "empty"}
    BY <1>3 DEF Launch, HostLost
  <2>3. w' \in {NotRunning, [NotRunning EXCEPT !.phase = "prepare"]}
    BY <1>3 DEF Launch, HostLost
  <2> HIDE DEF NotRunning
  <2> QED BY <1>1, <2>1, <2>2, <2>3, NoneIsApart DEF WrapperInv
<1>4. CASE Prepare \/ Spawn \/ ChildRefuses \/ TransportAbsent \/ Collect \/ Close
             \/ Signal \/ Timeout
  <2>1. UNCHANGED <<wexit, wfile>>
    BY <1>4 DEF Prepare, Spawn, ChildRefuses, TransportAbsent, Collect, Close, Signal, Timeout
  <2>2. CASE Prepare \/ Close
    <3>1. \/ \E p \in Phases, g \in {"down", "up"} :
                 \/ w' = [w EXCEPT !.phase = p, !.guards = g]
                 \/ \E t \in BOOLEAN : w' = [w EXCEPT !.phase = p, !.guards = g, !.tidy = t]
          \/ w' = [w EXCEPT !.phase = "closing"]
      BY <1>2, <2>2, ZenonT(40) DEF Prepare, Close, Goto, Wrappers, Phases
    <3>2. w' \in Wrappers /\ w'.completed = w.completed
      BY <1>2, <3>1 DEF Wrappers, Phases
    <3> QED BY <1>1, <2>1, <3>2 DEF WrapperInv
  <2>3. CASE Spawn \/ ChildRefuses \/ TransportAbsent \/ Collect
    <3>1. \E p \in Phases : w' = [w EXCEPT !.phase = p]
      BY <2>3 DEF Spawn, ChildRefuses, TransportAbsent, Collect, Goto, Phases
    <3> QED BY <1>1, <1>2, <2>1, <3>1 DEF WrapperInv, Wrappers
  <2>4. CASE Signal \/ Timeout
    <3>1. w' = [w EXCEPT !.signalled = TRUE] \/ w' = [w EXCEPT !.stopping = TRUE]
      BY <2>4 DEF Signal, Timeout
    <3> QED BY <1>1, <1>2, <2>1, <3>1 DEF WrapperInv, Wrappers
  <2> QED BY <1>4, <2>2, <2>3, <2>4
<1>5. CASE ChildSteps \/ KillChild \/ Elsewhere \/ UNCHANGED vars
  BY <1>1, <1>2, <1>5 DEF WrapperInv, ChildSteps, KillChild, Elsewhere, vars, wrapper
<1>6. CASE Judge
  <2>1. EvidenceAccepted => rfile = "completed"
    BY DEF EvidenceAccepted, PromotionAccepted, ResetAccepted
  <2>2. EvidenceAccepted \in BOOLEAN
    BY DEF EvidenceAccepted, PromotionAccepted, ResetAccepted
  <2> HIDE DEF EvidenceAccepted
  <2> QED BY <1>1, <1>2, <1>6, <2>1, <2>2 DEF WrapperInv, Wrappers, Phases, Goto, Judge
<1>7. CASE CommitReceipt
  BY <1>1, <1>2, <1>7, NoneIsApart
     DEF WrapperInv, Wrappers, Phases, NotRunning, CommitReceipt, Status
<1> QED BY <1>3, <1>4, <1>5, <1>6, <1>7 DEF Next

\* Both invariants, of every behaviour.
LEMMA TransportIsInvariant == Spec => [](TransportInv /\ WrapperInv)
<1>1. (TransportInv /\ WrapperInv) /\ [Next]_vars => (TransportInv /\ WrapperInv)'
  BY TransportKeeps, WrapperKeeps
<1> QED BY <1>1, TransportStarts, PTL DEF Spec

\* The receipt of a promotion or of a reset is true of the cluster, also after
\* the wrapper has cut the child off, killed it, or launched it again.
THEOREM TransportReceiptsAreTrue == Spec => []ReceiptsAreTrue
<1>1. TransportInv => ReceiptsAreTrue
  <2> SUFFICES ASSUME TransportInv PROVE ReceiptsAreTrue
    OBVIOUS
  <2>1. CASE mode = "promotion"
    <3>1. Lasting(image, flying, disk.events, rfile, late) /\ Typed
      BY <2>1 DEF TransportInv, PromotionInv
    <3>2. rfile = "preflight-failed" => image = "old"
      BY <3>1 DEF Lasting, Typed
    <3> QED BY <2>1, <3>1, <3>2 DEF Lasting, ReceiptsAreTrue, P!ReceiptIsTrue
  <2>2. CASE mode = "reset"
    BY <2>2 DEF TransportInv, ResetInv, ResetTyped, Says, Restored, Untouched,
                ReceiptsAreTrue, R!ReceiptIsTrue
  <2> QED BY <2>1, <2>2, TransportConstants DEF TransportInv
<1> QED BY <1>1, TransportIsInvariant, PTL

\* However a launch ends, the journal of the child names what it may have left
\* changed or on its way.
THEOREM WhatIsLeftIsJournaled == Spec => []LeftIsJournaled
<1>1. TransportInv => LeftIsJournaled
  <2> SUFFICES ASSUME TransportInv PROVE LeftIsJournaled
    OBVIOUS
  <2>1. CASE mode = "promotion"
    BY <2>1 DEF TransportInv, PromotionInv, Lasting, Asked, LeftIsJournaled,
                P!TargetIsJournaled
  <2>2. CASE mode = "reset"
    BY <2>2 DEF TransportInv, ResetInv, Journaled, LeftIsJournaled, R!LeftIsJournaled
  <2> QED BY <2>1, <2>2, TransportConstants DEF TransportInv
<1> QED BY <1>1, TransportIsInvariant, PTL

\* A reset empties a relay only behind the gate, with Flux suspended and the
\* agent at zero, unless its deletion was given up and is served late.
THEOREM RelaysAreEmptiedWhileQuiet == Spec => []ResetWhileQuiet
<1>1. TransportInv => ResetWhileQuiet
  BY DEF TransportInv, ResetInv, ResetWhileQuiet
<1> QED BY <1>1, TransportIsInvariant, PTL

\* What the wrapper's exit code or receipt calls completed is done and stays
\* done: the target runs, or the relays are empty and all else is restored.
THEOREM CompletedIsTrue == Spec => []CompletedIsDone
<1>1. TransportInv /\ WrapperInv => CompletedIsDone
  <2> SUFFICES ASSUME TransportInv, WrapperInv, rfile = "completed"
               PROVE  CASE mode = "promotion" -> image = "target" /\ rfile = "completed"
                        [] mode = "reset" -> /\ relays = {} /\ gate = "open"
                                             /\ flux = "active" /\ agent = 1
                                             /\ rfile = "completed"
    BY DEF WrapperInv, CompletedIsDone
  <2>1. CASE mode = "promotion"
    BY <2>1 DEF TransportInv, PromotionInv, Lasting
  <2>2. CASE mode = "reset"
    BY <2>2 DEF TransportInv, ResetInv, Says, Restored, R!Verdicts
  <2> QED BY <2>1, <2>2, TransportConstants DEF TransportInv
<1> QED BY <1>1, TransportIsInvariant, PTL

\* OneChange starts where the transport starts,
LEMMA ChangeStarts == Init => Change!Init
<1> SUFFICES ASSUME Init PROVE Change!Init
  OBVIOUS
<1>1. image = "old" /\ rfile = "absent"
  BY DEF Init
<1>2. mode = "promotion" => disk.events = <<>>
  <2>1. mode = "promotion" => disk = P!NoJournal
    BY DEF Init
  <2> QED BY <2>1 DEF P!NoJournal
<1>3. ~Asked(<<>>) /\ ~Back(<<>>)
  BY NothingAsked
<1> QED BY <1>1, <1>2, <1>3 DEF Change!Init, Asked, Back, P!Verdicts

\* ChangesOnce is a step of OneChange.
LEMMA ChangeIsStep ==
  ASSUME mode = "promotion", mode' = mode, ChangesOnce, Typed, Typed'
  PROVE  [Change!Next]_(Change!vars)
<1>1. /\ image \in {"old", "target"} /\ image' \in {"old", "target"}
      /\ rfile \in P!Verdicts => rfile # None
      /\ rfile' \in P!Verdicts => rfile' # None
  BY NoneIsApart DEF Typed
<1>2. CASE SameImage /\ SameAsked /\ SameBack /\ SameSaid
  BY <1>2 DEF SameImage, SameAsked, SameBack, SameSaid, Said, Asked, Back, Change!vars
<1>3. CASE /\ ~Asked(disk.events) /\ Asked(disk'.events)
           /\ SameImage /\ SameBack /\ SameSaid
  BY <1>3 DEF SameImage, SameBack, SameSaid, Said, Asked, Back, Change!Next, Change!Ask
<1>4. CASE /\ Asked(disk.events) /\ ~Back(disk.events) /\ Made
           /\ SameAsked /\ SameBack /\ SameSaid
  BY <1>4 DEF Made, SameAsked, SameBack, SameSaid, Said, Asked, Back, Change!Next, Change!Make
<1>5. CASE /\ image = "target" /\ ~Back(disk.events) /\ Said(rfile) = None
           /\ Back(disk'.events) /\ SameImage /\ SameAsked /\ SameSaid
  BY <1>5 DEF SameImage, SameAsked, SameSaid, Said, Asked, Back, Change!Next, Change!TakeBack
<1>6. CASE Back(disk.events) /\ Undone /\ SameAsked /\ SameBack /\ SameSaid
  BY <1>6 DEF Undone, SameAsked, SameBack, SameSaid, Said, Asked, Back, Change!Next, Change!Undo
<1>7. CASE /\ Said(rfile) = None /\ rfile' \in P!Verdicts
           /\ rfile' = "completed" => image = "target" /\ ~Back(disk.events)
           /\ rfile' = "preflight-failed" => ~Asked(disk.events)
           /\ rfile' = "rolled-back" => Asked(disk.events)
           /\ SameImage /\ SameAsked /\ SameBack
  <2>1. Change!Say(rfile')
    BY <1>1, <1>7 DEF SameImage, SameAsked, SameBack, Said, Asked, Back, Change!Say
  <2> QED BY <1>7, <2>1 DEF Change!Next
<1> QED BY <1>2, <1>3, <1>4, <1>5, <1>6, <1>7 DEF ChangesOnce

\* ... and every step of the transport is one of it, or a stutter.
LEMMA ChangeSteps ==
  ASSUME TransportInv, [Next]_vars
  PROVE  [Change!Next]_(Change!vars)
<1>1. mode' = mode /\ ChildActs /\ mode \in {"promotion", "reset"}
  BY NextIsOfChild, TransportConstants DEF TransportInv
<1>2. CASE mode = "promotion"
  <2>1. ChangesOnce /\ PromotionInv /\ PromotionInv'
    BY <1>1, <1>2, PromotionActs DEF TransportInv, ChildActs, Promotes, Resets
  <2> QED BY <1>1, <1>2, <2>1, ChangeIsStep DEF PromotionInv
<1>3. CASE mode = "reset"
  BY <1>1, <1>3 DEF Change!vars
<1> QED BY <1>1, <1>2, <1>3

\* The promotion implements OneChange: through every launch, resume, kill and
\* lost answer the image changes at most once, after its intent is durable,
\* and a change that began to be taken back is never made again.
THEOREM PromotionChangesOnce == Spec => PromotionIsOneChange
<1>1. TransportInv /\ [Next]_vars => [Change!Next]_(Change!vars)
  BY ChangeSteps
<1> QED BY <1>1, ChangeStarts, TransportIsInvariant, PTL
        DEF Spec, PromotionIsOneChange, Change!Spec

=============================================================================
