---------------------------- MODULE MCHotReload ----------------------------
(* Instances of HotReload for TLC: two files, which may bear the same name. *)
EXTENDS HotReload

CONSTANTS a, b, a1, a2, u, w1

TwoFiles    == {1, 2}
TwoNames    == {a, b}
ThreeSkills == {a1, a2, u}

\* u has no name of its own: it takes that of its directory.
Bears == [e \in [file : TwoFiles, skill : ThreeSkills] |->
             IF e.skill = u /\ e.file = 2 THEN b ELSE a]

OneStream == {w1}

=============================================================================
