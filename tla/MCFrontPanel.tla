---------------------------- MODULE MCFrontPanel ----------------------------
(* Two wheels: one is turned to and fro through all four quarters of a      *)
(* detent, to either side of where it stood first, the other once.  The     *)
(* second wheel is turned along with the first one, or along with a button. *)
EXTENDS FrontPanel, TLC

CONSTANTS b1, w1, w2

Adjacent(positions) == {p \in positions \X positions : p[2] \in {p[1] - 1, p[1] + 1}}

MCTurns == w1 :> Adjacent(-2..1) @@ w2 :> {<<0, 1>>}
MCTogether == {{w1, w2}, {b1, w2}}
=============================================================================
