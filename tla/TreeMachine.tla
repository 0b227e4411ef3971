---------------------------- MODULE TreeMachine ----------------------------
(***************************************************************************)
(* What the unilevel and the binary tree promise whoever calls them: a     *)
(* tree of users that changes by the three mutations of TreeEngine, each   *)
(* made exactly when its check says so.  The write path is modelled over   *)
(* this tree; UnilevelTree and BinaryTree are shown to implement it.       *)
(***************************************************************************)
EXTENDS TreeEngine

CONSTANT Slot       \* the positions an add names: Positions, or {NoPos}

VARIABLE tree

MachineInit == tree = EmptyTree

MachineNext ==
    \/ \E u \in Users : CheckAddRoot(tree, u) = "ok" /\ tree' = AddRoot(tree, u)
    \/ \E u, p, s \in Users, pos \in Slot :
          CheckAddNode(tree, u, p, s, pos) = "ok" /\ tree' = AddNode(tree, u, p, s, pos)
    \/ \E u \in Users : CheckRemoveNode(tree, u) = "ok" /\ tree' = RemoveNode(tree, u)

MachineSpec == MachineInit /\ [][MachineNext]_tree

=============================================================================
