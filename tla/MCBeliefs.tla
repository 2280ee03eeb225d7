----------------------------- MODULE MCBeliefs ------------------------------
(***************************************************************************)
(* Small instances of ConflictCards over MemoryEngine.                     *)
(***************************************************************************)
EXTENDS ConflictCards, TLC

CONSTANTS i1, i2, i3, q1, q2, c1, d1, v1, v2, p1, p2

MCOld == {<<"old", 1>>, <<"old", 2>>}
MCFlagged == {<< <<"old", 1>>, <<"old", 2>> >>}
MCFacts == i1 :> 2 @@ i2 :> 1 @@ i3 :> 1
MCFading == {<<"old", 1>>}
MCSure == {<<"old", 1>>, <<i2, 1>>}

\* Each pair of requests that can disturb each other, and the cards with them.
MCCasts ==
  {{i1}, {i2, i3}, {q1, q2}, {q1, i2}, {i2, c1, d1}, {q1, c1, d1},
   {v1, p1, p2}, {v1, v2}, {v1, p1, d1}, {v1, i2}, {v1, p1, c1}}
=============================================================================
