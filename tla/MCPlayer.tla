------------------------------ MODULE MCPlayer ------------------------------
(* Player on up to three requested songs and two recommended ones. *)
EXTENDS Player, TLC

CONSTANTS a, b, c, r1, r2

Identifiers ==
  (a :> "t1") @@ (b :> "t2") @@ (c :> "t3") @@ (r1 :> "t4") @@ (r2 :> "t5")

MCTrackID == [s \in Songs |-> Identifiers[s]]

Two == {a, b}
Three == {a, b, c}
TwoAndMix == {a, b, r1, r2}
TheMix == {r1, r2}
NoMix == {}
=============================================================================
