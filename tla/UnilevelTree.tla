---------------------------- MODULE UnilevelTree ----------------------------
(***************************************************************************)
(* The unilevel tree over the arena (tree/unilevel.rs).  A call the checks *)
(* refuse changes nothing and is not a step.                               *)
(***************************************************************************)
EXTENDS ArenaRestore

CONSTANT NoPos      \* the position of every unilevel node

VARIABLE arena

CheckAddRoot(u) ==
    IF u = Nil THEN "NIL_USER_ID"
    ELSE IF arena.root # None THEN "ROOT_ALREADY_EXISTS"
    ELSE IF Holds(arena, u) THEN "USER_ALREADY_EXISTS"
    ELSE "ok"

CheckAddNode(u, p, s) ==
    IF u = Nil THEN "NIL_USER_ID"
    ELSE IF Holds(arena, u) THEN "USER_ALREADY_EXISTS"
    ELSE IF ~Holds(arena, p) THEN "USER_NOT_FOUND"
    ELSE IF ~Holds(arena, s) THEN "SPONSOR_NOT_FOUND"
    ELSE "ok"

CheckRemoveNode(u) ==
    IF ~Holds(arena, u) THEN "USER_NOT_FOUND"
    ELSE IF arena.nodes[arena.index[u]].children # <<>> THEN "HAS_CHILDREN"
    ELSE CheckSponsoredRemovable(arena, <<arena.index[u]>>)

Init == arena = EmptyArena

AddRoot(u, at) ==
    /\ CheckAddRoot(u) = "ok"
    /\ arena' = [Enter(arena, NewNode(u, None, None, 0, at)) EXCEPT !.root = NextSlot(arena)]

AddNode(u, p, s, at) ==
    /\ CheckAddNode(u, p, s) = "ok"
    /\ LET i  == NextSlot(arena)
           pi == arena.index[p]
           si == arena.index[s]
       IN  arena' = [Enter(arena, NewNode(u, pi, si, arena.nodes[pi].depth + 1, at))
                        EXCEPT !.nodes[pi].children = Append(@, i),
                               !.nodes[si].sponsored = Append(@, i)]

Unroot(a, i) == [a EXCEPT !.root = IF @ = i THEN None ELSE @]

RemoveNode(u) ==
    /\ CheckRemoveNode(u) = "ok"
    /\ LET i == arena.index[u]
           n == arena.nodes[i]
           detached ==
             [Unroot(arena, i) EXCEPT !.nodes = [j \in Slots(arena) |->
                [@[j] EXCEPT !.children = IF j = n.parent THEN Remove(@, i) ELSE @,
                             !.sponsored = IF j = n.sponsor THEN Remove(@, i) ELSE @]]]
       IN  arena' = Leave(ReparentSponsored(detached, <<i>>), i)

Next == \/ \E u \in Users : AddRoot(u, 0) \/ RemoveNode(u)
        \/ \E u, p, s \in Users : AddNode(u, p, s, 0)

Spec == Init /\ [][Next]_arena

(***************************************************************************)
(* Properties.                                                             *)
(***************************************************************************)
View == [u \in DOMAIN arena.index |->
            LET n == arena.nodes[arena.index[u]]
            IN  [parent |-> UserAt(arena, n.parent), sponsor |-> UserAt(arena, n.sponsor),
                 pos |-> NoPos, depth |-> n.depth]]

Engine == INSTANCE TreeMachine WITH NoUser <- Nil, Slot <- {NoPos}, tree <- View

(* A worker restores whatever a worker saved: every arena the operations   *)
(* of unilevel.rs reach passes validate_restored, and is what every walk   *)
(* takes for granted.                                                      *)
RestoresItself == ArenaRestores(arena) /\ WalksAreSound(arena)

(* The checks answer what the tree of TreeEngine, over which the write     *)
(* path is modelled, answers.                                              *)
AnswersAsEngine ==
    \A u \in Users :
        /\ CheckAddRoot(u) = Engine!CheckAddRoot(View, u)
        /\ CheckRemoveNode(u) = Engine!CheckRemoveNode(View, u)
        /\ \A p, s \in Users : CheckAddNode(u, p, s) = Engine!CheckAddNode(View, u, p, s, NoPos)

(* Every mutation of the arena is the mutation of TreeEngine on the users' *)
(* view of it: which slots are used, freed and used again does not show.   *)
ImplementsEngine == Engine!MachineSpec

(* The queries tell one story: the branches of a node are its downline,    *)
(* split by child; the counts are their sizes without the child itself;    *)
(* and a node's position is the branch of its parent that it leads.        *)
QueriesAgree ==
    \A i \in Live(arena) :
        LET q == PositionOf(arena, i)
            n == arena.nodes[i]
        IN  /\ \A pos \in 0..q.children - 1 :
                  /\ q.counts[pos] = Len(Branch(arena, i, pos)) - 1
                  /\ \A j \in Range(Branch(arena, i, pos)) : IsDescendantOf(arena, j, i)
            /\ CountDownline(arena, i, 0) =
                  q.children + FoldLeft(+, 0, [k \in 1..q.children |-> q.counts[k - 1]])
            /\ n.parent # None => Head(Branch(arena, n.parent, q.pos)) = i
            /\ \A d \in 1..2 :
                  Range(BfsDownline(arena, i, d)) =
                     {j \in Live(arena) : i \in Range(WalkUpline(arena, j, d))}

=============================================================================
