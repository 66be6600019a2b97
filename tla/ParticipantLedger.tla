-------------------------- MODULE ParticipantLedger --------------------------
\* What the participant gateway's database promises: one call after the
\* other.  Every call that succeeds does all it does at one instant, on
\* what earlier calls have left; one that fails leaves nothing.
EXTENDS ParticipantTables

CONSTANTS
  Calls,    \* the calls that may be made
  Starts,   \* the tables one may begin with
  Times

VARIABLES
  rows,     \* what is committed
  revoked,  \* the wallets whose admission was revoked
  said      \* the latest answer: None, or <<call, what it was told>>

vars == <<rows, revoked, said>>

Init == rows \in Starts /\ revoked = {} /\ said = None

Admissible(c) == c.op \in Admitted => c.w \notin revoked

\* The answer arrives or is lost.
Say(c, state) == said' = <<c, state>> \/ said' = None

\* A call that was not made before writes its row.
Write(c) ==
  /\ c.op \in Inserting /\ Admissible(c) /\ Based(c, rows)
  /\ \E time \in Times :
       /\ \A r \in rows : ~Clash(r, Row(c, time))
       /\ rows' = rows \cup {Row(c, time)} /\ InLimits(rows')
       /\ Say(c, Row(c, time).state)
  /\ UNCHANGED revoked

\* One that was made before is told what there is.
Repeat(c) ==
  /\ c.op \in Inserting \cup Completing
  /\ Admissible(c) \/ c.op \in {"post", "comment"}
  /\ \E r \in rows : Same(r, c) /\ (c.op \in Completing => r.state = "published") /\ Say(c, r.state)
  /\ UNCHANGED <<rows, revoked>>

\* A reservation becomes a publication, a challenge is used up: once.
Turn(c, from, to) ==
  /\ Admissible(c)
  /\ \E r \in rows :
       /\ Same(r, c) /\ r.state = from
       /\ rows' = (rows \ {r}) \cup {[r EXCEPT !.state = to]}
  /\ Say(c, to) /\ UNCHANGED revoked

Complete(c) == c.op \in Completing /\ Turn(c, "reserved", "published")
Consume(c) == c.op \in Consuming /\ Turn(c, "issued", "consumed")

Read(c) ==
  /\ c.op \in Reading /\ Admissible(c)
  /\ \/ Reported(c, rows) = {} /\ Say(c, "none")
     \/ \E r \in Reported(c, rows) : Readable(r, c) /\ Say(c, r.state)
  /\ UNCHANGED <<rows, revoked>>

Refuse(c) == said' = <<c, "refused">> /\ UNCHANGED <<rows, revoked>>

Silence == said' = None /\ UNCHANGED <<rows, revoked>>

Revoke(w) == revoked' = revoked \cup {w} /\ said' = None /\ UNCHANGED rows

Next ==
  \/ \E c \in Calls : Write(c) \/ Repeat(c) \/ Complete(c) \/ Consume(c) \/ Read(c) \/ Refuse(c)
  \/ Silence
  \/ \E w \in Wallets : Revoke(w)

Spec == Init /\ [][Next]_vars
=============================================================================
