---------------------------- MODULE MCMatrixTree ----------------------------
(***************************************************************************)
(* Two instances of MatrixTree, told apart by a variable.  In the wide one *)
(* many users join and few promotions follow; in the other a few users     *)
(* take every way, in and out of the tank.  Users who are not in the tree  *)
(* are interchangeable, so that the least of them joins; those in the tank *)
(* try to.                                                                 *)
(***************************************************************************)
EXTENDS MatrixTree

CONSTANTS Few, MaxFreed   \* users of the small instance; freed slots at a time in the wide one

VARIABLE wide

Known == DOMAIN tree.arena.index \cup TankUsers(tree)

Newcomers ==
    LET absent == IF wide THEN {u \in Users : \A k \in Known : k < u} ELSE (1..Few) \ Known
    IN  TankUsers(tree) \cup IF absent = {} THEN {} ELSE {Min(absent)}

Placing ==
    /\ UNCHANGED wide
    /\ \E u \in Newcomers, at \in IF wide THEN Times ELSE {Min(Times)} :
           AddRoot(u, at) \/ \E s \in Users : AddNode(u, s, at)

Promoting ==
    /\ UNCHANGED wide
    /\ wide => Len(tree.arena.free) < MaxFreed
    /\ \E u \in Users : Removal(u, "promote_earliest")

Tanking ==
    /\ ~ wide /\ UNCHANGED wide
    /\ \/ \E u \in Newcomers, s, p \in Users, pos \in AdminSlots : AddNodeAt(u, s, p, pos, Min(Times))
       \/ \E u \in Users : Removal(u, "holding_tank")
       \/ \E u, p \in Users, pos \in 0..Width - 1 : PlaceFromTank(u, p, pos)

MCInit == Init /\ wide \in BOOLEAN

MCNext == Placing \/ Promoting \/ Tanking

MCSpec == MCInit /\ [][MCNext]_<<tree, wide>>

=============================================================================
