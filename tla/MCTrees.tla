------------------------------- MODULE MCTrees -------------------------------
(***************************************************************************)
(* A unilevel and a binary tree of one worker.  They share the arena code  *)
(* and nothing else, so one of them is left empty while the other grows.   *)
(***************************************************************************)
EXTENDS ArenaRestore

CONSTANTS
    NoPos,
    MostBinary  \* members of the binary tree at a time

VARIABLES unilevel, binary, slots

vars == <<unilevel, binary, slots>>

Unilevel == INSTANCE UnilevelTree WITH arena <- unilevel
Binary == INSTANCE BinaryTree WITH arena <- binary

Init == Unilevel!Init /\ Binary!Init

UnilevelStep == binary = EmptyArena /\ Unilevel!Next /\ UNCHANGED <<binary, slots>>

BinaryStep ==
    /\ unilevel = EmptyArena
    /\ Binary!Next /\ Cardinality(DOMAIN binary'.index) <= MostBinary
    /\ UNCHANGED unilevel

Next == UnilevelStep \/ BinaryStep

Spec == Init /\ [][Next]_vars

Symmetry == Permutations(Users)

(* A worker restores whatever a worker saved: every tree the operations of *)
(* unilevel.rs and binary.rs reach, whichever slots were freed and used    *)
(* again, passes every check of validate_restored, the slot map included.  *)
TreesRestore == Unilevel!RestoresItself /\ Binary!RestoresItself

(* The queries of navigator.rs tell one story: the branches of a node are  *)
(* its downline split by child, the counts are their sizes without the     *)
(* child itself, a position is the branch the node leads, and a walk       *)
(* limited to d levels stops at d levels.                                  *)
QueriesAgree == Unilevel!QueriesAgree /\ Binary!QueriesAgree

(* Both trees implement TreeEngine, over which the write path is modelled: *)
(* every mutation of an arena is its mutation on the users' view, which    *)
(* slots are used, freed and used again does not show, and the checks      *)
(* answer every call with its error.                                       *)
ImplementsEngine ==
    /\ Unilevel!ImplementsEngine /\ Binary!ImplementsEngine
    /\ [](Unilevel!AnswersAsEngine /\ Binary!AnswersAsEngine)

=============================================================================
