----------------------------- MODULE BinaryTree -----------------------------
(***************************************************************************)
(* The binary tree over the arena (tree/binary.rs): every node has a row   *)
(* of two child slots, and its children list is the occupied ones in slot  *)
(* order.  A call the checks refuse changes nothing and is not a step.     *)
(***************************************************************************)
EXTENDS ArenaRestore

CONSTANT NoPos      \* the position of a root

VARIABLES arena, slots

vars == <<arena, slots>>

OpenRow == <<None, None>>

CheckAddRoot(u) ==
    IF u = Nil THEN "NIL_USER_ID"
    ELSE IF arena.root # None THEN "ROOT_ALREADY_EXISTS"
    ELSE IF Holds(arena, u) THEN "USER_ALREADY_EXISTS"
    ELSE "ok"

CheckAddNode(u, p, pos, s) ==
    IF u = Nil THEN "NIL_USER_ID"
    ELSE IF pos > 1 THEN "POSITION_OUT_OF_RANGE"
    ELSE IF Holds(arena, u) THEN "USER_ALREADY_EXISTS"
    ELSE IF ~Holds(arena, p) THEN "USER_NOT_FOUND"
    ELSE IF ~Holds(arena, s) THEN "SPONSOR_NOT_FOUND"
    ELSE IF slots[arena.index[p]][pos + 1] # None THEN "POSITION_OCCUPIED"
    ELSE "ok"

CheckRemoveNode(u) ==
    IF ~Holds(arena, u) THEN "USER_NOT_FOUND"
    ELSE IF arena.nodes[arena.index[u]].children # <<>> THEN "HAS_CHILDREN"
    ELSE CheckSponsoredRemovable(arena, <<arena.index[u]>>)

Init == arena = EmptyArena /\ slots = <<>>

AddRoot(u, at) ==
    /\ CheckAddRoot(u) = "ok"
    /\ arena' = [Enter(arena, NewNode(u, None, None, 0, at)) EXCEPT !.root = NextSlot(arena)]
    /\ slots' = (NextSlot(arena) :> OpenRow) @@ slots

RebuildChildren(a, rows, p) == [a EXCEPT !.nodes[p].children = Occupied(rows[p])]

AddNode(u, p, pos, s, at) ==
    /\ CheckAddNode(u, p, pos, s) = "ok"
    /\ LET i       == NextSlot(arena)
           pi      == arena.index[p]
           entered == Enter(arena, NewNode(u, pi, arena.index[s], arena.nodes[pi].depth + 1, at))
       IN  /\ slots' = [(i :> OpenRow) @@ slots EXCEPT ![pi][pos + 1] = i]
           /\ arena' = [RebuildChildren(entered, slots', pi)
                            EXCEPT !.nodes[arena.index[s]].sponsored = Append(@, i)]

Unslot(rows, p, i) == IF p = None THEN rows ELSE [rows EXCEPT ![p] = ReplaceAll(@, i, None)]

RemoveNode(u) ==
    /\ CheckRemoveNode(u) = "ok"
    /\ LET i  == arena.index[u]
           n  == arena.nodes[i]
           rows      == Unslot(slots, n.parent, i)
           unslotted == IF n.parent = None THEN arena ELSE RebuildChildren(arena, rows, n.parent)
           detached  == IF n.sponsor = None THEN unslotted
                        ELSE [unslotted EXCEPT !.nodes[n.sponsor].sponsored = Remove(@, i)]
           unrooted  == [detached EXCEPT !.root = IF @ = i THEN None ELSE @]
       IN  /\ slots' = Restrict(rows, DOMAIN rows \ {i})
           /\ arena' = Leave(ReparentSponsored(unrooted, <<i>>), i)

Next == \/ \E u \in Users : AddRoot(u, 0) \/ RemoveNode(u)
        \/ \E u, p, s \in Users, pos \in 0..1 : AddNode(u, p, pos, s, 0)

Spec == Init /\ [][Next]_vars

(* get_position: the slot under the parent, and the downline under each    *)
(* child slot, an open one counting nobody.                                *)
SlotOf(rows, p, i) == SelectInSeq(rows[p], LAMBDA c : c = i) - 1

Counts(i) ==
    [pos \in 0..1 |-> IF slots[i][pos + 1] = None THEN 0
                      ELSE CountDownline(arena, slots[i][pos + 1], 0)]

(* get_branch and count_branch by slot. *)
BranchAt(i, pos) ==
    IF slots[i][pos + 1] = None THEN <<>> ELSE CollectSubtree(arena, slots[i][pos + 1])

(***************************************************************************)
(* Properties.                                                             *)
(***************************************************************************)
View == [u \in DOMAIN arena.index |->
            LET i == arena.index[u]
                n == arena.nodes[i]
            IN  [parent |-> UserAt(arena, n.parent), sponsor |-> UserAt(arena, n.sponsor),
                 pos |-> IF n.parent = None THEN NoPos ELSE SlotOf(slots, n.parent, i),
                 depth |-> n.depth]]

Engine == INSTANCE TreeMachine WITH NoUser <- Nil, Slot <- 0..1, tree <- View

(* A worker restores whatever a worker saved: every binary tree the        *)
(* operations reach passes validate_restored, its slot map included.       *)
RestoresItself ==
    /\ ArenaRestores(arena) /\ WalksAreSound(arena)
    /\ RowsAreLive(arena, slots, 2) /\ SlotsRestore(arena, slots)

(* The checks answer what the tree of TreeEngine answers. *)
AnswersAsEngine ==
    \A u \in Users :
        /\ CheckAddRoot(u) = Engine!CheckAddRoot(View, u)
        /\ CheckRemoveNode(u) = Engine!CheckRemoveNode(View, u)
        /\ \A p, s \in Users, pos \in 0..1 :
              CheckAddNode(u, p, pos, s) = Engine!CheckAddNode(View, u, p, s, pos)

(* Every mutation is the mutation of TreeEngine on the users' view. *)
ImplementsEngine == Engine!MachineSpec

(* The queries of navigator.rs tell one story: a branch holds exactly the  *)
(* descendants on its side, the counts are its size without its top, and   *)
(* a walk limited to d levels stops at d levels.                           *)
QueriesAgree ==
    \A i \in Live(arena) :
        /\ \A pos \in 0..1 :
              /\ Counts(i)[pos] = Max({0, Len(BranchAt(i, pos)) - 1})
              /\ Range(BranchAt(i, pos)) =
                    {j \in Live(arena) : slots[i][pos + 1] \in {j} \cup Range(WalkUpline(arena, j, 0))}
        /\ {j \in Live(arena) : IsDescendantOf(arena, j, i)} = Range(BfsDownline(arena, i, 0))
        /\ \A d \in 1..2 :
              Range(BfsDownline(arena, i, d)) =
                 {j \in Live(arena) : i \in Range(WalkUpline(arena, j, d))}

=============================================================================
