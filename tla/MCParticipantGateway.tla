------------------------ MODULE MCParticipantGateway ------------------------
\* Six loads: what rivals try at each stage of a participant's way.
EXTENDS ParticipantGateway, TLC

CONSTANTS a, b

Call(op, w, key, req, who, src, event) ==
  [op |-> op, w |-> w, key |-> key, req |-> req, who |-> who, src |-> src, event |-> event]

Stands(c, state) == [Row(c, 0) EXCEPT !.state = state]

MCLimits == [post |-> {<<1, 1>>, <<3, 2>>}, comment |-> {<<2, 1>>}]

PostA == Call("post", a, None, "p1", None, None, "x")
PostB == Call("post", b, None, "p2", None, None, "y")
Mirror(w, key, req, event) == Call("mirror", w, key, req, None, None, event)
Mirrored(w, key, req, event) == Call("mirrored", w, key, req, None, None, event)
Suggest(w, key, req, who, event) == Call("suggest", w, key, req, who, None, event)

PostQ == Call("post", a, None, "q", None, None, "x")

\* One author at the limits of two windows.
Posts ==
  [calls |-> {PostA, PostQ, Call("post", a, None, "r", None, None, "x")},
   rows |-> {}, until |-> 2]

\* One request id in two wallets and two procedures, comments at their limit,
\* a retried post beside its mirror.
Writers ==
  [calls |-> {PostA, PostQ, Call("comment", b, None, "q", None, "p1", "z"),
              Call("comment", b, None, "s", None, "p1", "z"), Mirror(a, "p1", "m", "e")},
   rows |-> {Stands(PostA, "final")}, until |-> 1]

\* One post mirrored as two events, bound to two keys, promoted twice.
Relay ==
  [calls |-> {Mirror(a, "p1", "m", "e"), Mirror(a, "p1", "m", "f"), Mirror(a, "p1", "n", "e"),
              Mirror(b, "p2", "m", "g"), Mirrored(a, "p1", "m", "e"), Mirrored(a, "p1", "m", "f"),
              Call("bind", a, "p1", None, "k", None, "e"), Call("bind", a, "p1", None, "l", None, "e"),
              Call("look", a, "p1", None, None, None, None)},
   rows |-> {Stands(PostA, "final"), Stands(PostB, "final")}, until |-> 0]

\* Two promotions of one post, two suggestions from one root.
Topics ==
  [calls |-> {Call("promote", a, "p1", "m", None, None, "root"), Call("promote", a, "p1", "n", None, None, "top"),
              Call("promoted", a, "p1", "m", None, None, "root"), Call("trace", a, None, None, "k", None, "root"),
              Suggest(a, "root", "t", "k", "idea"), Suggest(a, "root", "t", "k", "plan"),
              Call("suggested", a, "root", "t", "k", None, "idea")},
   rows |-> {Stands(PostA, "final"), Stands(Mirror(a, "p1", "m", "e"), "published"),
             Stands(Call("bind", a, "p1", None, "k", None, "e"), "final")}, until |-> 0]

Suggested == {Stands(Suggest(a, "root", "t", "k", "idea"), "published")}

Challenge(op, w, event) == Call(op, w, "c", None, "n", "idea", event)
Consumption(op, w, event) == Call(op, w, "c", None, None, None, event)

\* One challenge in two sessions, two receipts, rival adoptions.
Citizens ==
  [calls |-> {Challenge("challenge", a, "one"), Challenge("challenge", a, "two"),
              Consumption("consume", a, "one"), Consumption("consume", a, "two"),
              Call("store", None, "r", None, "n", "c", "proof"), Call("store", None, "s", None, "n", "c", "proof"),
              Call("adopt", None, "idea", "v", "n", "r", "yes"), Call("adopt", None, "idea", "w", "n", "s", "also"),
              Call("adopt", None, "idea", "v", "n", "r", "no"), Call("resolve", None, None, "v", None, None, "yes")},
   rows |-> Suggested, until |-> 0]

\* The same with a test pass: no receipt, no lock of the replay.
Synthetic ==
  [calls |-> {Challenge("testChallenge", a, "one"), Challenge("testChallenge", a, "two"),
              Consumption("testConsume", a, "one"), Consumption("testConsume", a, "two"),
              Call("testAdopt", None, "idea", "v", "n", "c", "yes"), Call("testAdopt", None, "idea", "w", "n", "c", "also"),
              Call("testResolve", None, None, "v", None, None, "yes")},
   rows |-> Suggested, until |-> 0]

MCLoads == {Posts, Writers, Relay, Topics, Citizens, Synthetic}

Symmetric == Permutations(Sessions)
=============================================================================
