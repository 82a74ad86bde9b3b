---------------------------- MODULE MCSceneMemory ----------------------------
(* Small instances of the scene memory for TLC. *)
EXTENDS SceneMemory

TwoCaptures == {1, 2}
SecondRequested == {2}
TwoSegments == {1, 2}

\* The first segment ends before the first capture, the second one before the second.
EndsInTurn == [s \in TwoSegments |-> s]

Said(s, r, final) == [seg |-> s, rev |-> r, final |-> final]

\* A hypothesis, the first segment and its correction; a second segment.
Corrected == { Said(1, 0, FALSE), Said(1, 1, TRUE), Said(1, 2, TRUE), Said(2, 0, TRUE) }

\* The second segment has been posted before the first photo.
Second == { Said(2, 0, TRUE) }

=============================================================================
