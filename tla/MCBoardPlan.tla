----------------------------- MODULE MCBoardPlan -----------------------------
(* The founder u1 sponsors u2 and u3; u2 sponsors the others, who are      *)
(* interchangeable.                                                        *)
EXTENDS BoardPlan

CONSTANTS u1, u2, u3

TwoSponsors == [u \in Users |-> IF u \in {u1, u2, u3} THEN u1 ELSE u2]

Config(reEntry, position, maxCascade) ==
    [reEntry |-> reEntry, position |-> position, maxCascade |-> maxCascade]

(* Re-entry at the bottom and near the sponsor, and none.  Only near the   *)
(* sponsor can a re-entry fill a board: under a bound of two that board    *)
(* cycles in the same cascade (u5 fills u2's board, u2 fills the board of  *)
(* u1), under a bound of one it is left standing full.                     *)
FourConfigs ==
    {Config(TRUE, "bottom", 1), Config(FALSE, "bottom", 2)}
    \cup {Config(TRUE, "sponsor_board", depth) : depth \in 1 .. 2}

Symmetry == Permutations(Users \ {u1, u2, u3})

=============================================================================
