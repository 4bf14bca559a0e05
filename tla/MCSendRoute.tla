----------------------------- MODULE MCSendRoute -----------------------------
(* Values of the constants of SendRoute for model checking. *)
EXTENDS SendRoute, TLC
CONSTANTS c1, c2, w1, w2, r1, r2, r3, person

\* Two windows of one workspace; the second has tabs of both chats.
MCWindows == <<w1, w2>>
MCTabs    == (w1 :> {c2}) @@ (w2 :> {c1, c2})
MCHinted  == (c1 :> {w1, w2}) @@ (c2 :> {w1})

\* The same prompt twice over HTTP, and one of another process.
MCWay     == (r1 :> "http") @@ (r2 :> "onBusy") @@ (r3 :> "process")
MCTo      == (r1 :> c1) @@ (r2 :> c1) @@ (r3 :> c1)
MCText    == (r1 :> "a") @@ (r2 :> "a") @@ (r3 :> "b")
==============================================================================
