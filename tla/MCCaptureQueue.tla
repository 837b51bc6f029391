--------------------------- MODULE MCCaptureQueue ---------------------------
(***************************************************************************)
(* Three pictures, two of which document the same attempt.                 *)
(***************************************************************************)
EXTENDS CaptureQueue, TLC

CONSTANTS p1, p2, p3, a1, a2

MCCaptures == {p1, p2, p3}
MCTwoCaptures == {p1, p2}
MCAttempts == {a1, a2}
MCAttemptOf == [c \in MCCaptures |-> IF c = p3 THEN a2 ELSE a1]
MCOwnAttempt == [c \in MCTwoCaptures |-> IF c = p1 THEN a1 ELSE a2]
============================================================================
