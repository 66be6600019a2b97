------------------------------ MODULE OneChange ------------------------------
\* What a one-shot operator promises about the one thing it changes, with
\* a journal before it and a receipt after it, however often it is cut off
\* and started again: the change is made at most once and only once it was
\* asked for; it may be taken back, and is then never made again; and once
\* the receipt says it is complete it stays.
CONSTANTS None, Verdicts

VARIABLES
  state,      \* "old" or "new"
  asked,      \* the intent to change it is durable
  takenBack,  \* the intent to change it back is durable
  said        \* what the receipt says

vars == <<state, asked, takenBack, said>>

Init == state = "old" /\ asked = FALSE /\ takenBack = FALSE /\ said = None

Ask == ~asked /\ asked' = TRUE /\ UNCHANGED <<state, takenBack, said>>

\* The request is served, at once or late.
Make ==
  /\ asked /\ ~takenBack /\ state = "old"
  /\ state' = "new" /\ UNCHANGED <<asked, takenBack, said>>

TakeBack ==
  /\ state = "new" /\ ~takenBack /\ said = None
  /\ takenBack' = TRUE /\ UNCHANGED <<state, asked, said>>

Undo ==
  /\ takenBack /\ state = "new"
  /\ state' = "old" /\ UNCHANGED <<asked, takenBack, said>>

Say(v) ==
  /\ said = None /\ v \in Verdicts
  /\ v = "completed" => state = "new" /\ ~takenBack
  /\ v = "preflight-failed" => ~asked
  /\ v = "rolled-back" => asked
  /\ said' = v /\ UNCHANGED <<state, asked, takenBack>>

Next == Ask \/ Make \/ TakeBack \/ Undo \/ (\E v \in Verdicts : Say(v))

Spec == Init /\ [][Next]_vars
=============================================================================
