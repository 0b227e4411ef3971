----------------------------- MODULE MatrixTree -----------------------------
(***************************************************************************)
(* The matrix tree over the arena (tree/matrix.rs): rows of Width child    *)
(* slots, placement by breadth-first spillover or at a named slot, removal *)
(* that promotes a child or moves the subtree to the holding tank, and     *)
(* placement from the tank.  The tree is one value, so that an operation   *)
(* is a function of it.  A call that is refused changes nothing and is not *)
(* a step.                                                                 *)
(***************************************************************************)
EXTENDS ArenaRestore

CONSTANTS
    Width,      \* child slots per node, at least 2
    Times,      \* enrolment seconds
    AdminSlots, \* the positions explicit placements name
    Modes       \* the pruning modes removals ask for

ASSUME WidthAssumption == Width \in Nat /\ Width >= 2

VARIABLE tree   \* arena, slots and tank

OpenRow == [k \in 1..Width |-> None]

TankUsers(t) == {t.tank[k].user : k \in DOMAIN t.tank}

(* Mutant: the tank is not asked. *)
UserAnswerIgnoresTank(t, u) ==
    IF Holds(t.arena, u) THEN "USER_ALREADY_EXISTS" ELSE "ok"

UserAnswer(t, u) ==
    IF Holds(t.arena, u) THEN "USER_ALREADY_EXISTS"
    ELSE IF u \in TankUsers(t) THEN "USER_IN_HOLDING_TANK"
    ELSE "ok"

CheckAddRoot(t, u) ==
    IF u = Nil THEN "NIL_USER_ID"
    ELSE IF t.arena.root # None THEN "ROOT_ALREADY_EXISTS"
    ELSE UserAnswer(t, u)

CheckAddNodeAt(t, u, s, p, pos) ==
    IF u = Nil THEN "NIL_USER_ID"
    ELSE IF t.arena.root = None THEN "TREE_EMPTY"
    ELSE IF pos >= Width THEN "POSITION_OUT_OF_RANGE"
    ELSE IF UserAnswer(t, u) # "ok" THEN UserAnswer(t, u)
    ELSE IF ~Holds(t.arena, p) THEN "USER_NOT_FOUND"
    ELSE IF ~Holds(t.arena, s) THEN "SPONSOR_NOT_FOUND"
    ELSE IF t.slots[t.arena.index[p]][pos + 1] # None THEN "POSITION_OCCUPIED"
    ELSE "ok"

(* The checks add_node makes before it looks for a slot. *)
CheckAddNode(t, u, s) ==
    IF u = Nil THEN "NIL_USER_ID"
    ELSE IF t.arena.root = None THEN "TREE_EMPTY"
    ELSE IF UserAnswer(t, u) # "ok" THEN UserAnswer(t, u)
    ELSE IF ~Holds(t.arena, s) THEN "SPONSOR_NOT_FOUND"
    ELSE "ok"

(* Mutant: a user may leave the tank before their sponsor. *)
CheckPlaceFromTankAnyOrder(t, u, p, pos) ==
    IF u = Nil THEN "NIL_USER_ID"
    ELSE IF pos >= Width THEN "POSITION_OUT_OF_RANGE"
    ELSE IF ~Holds(t.arena, p) THEN "USER_NOT_FOUND"
    ELSE IF t.slots[t.arena.index[p]][pos + 1] # None THEN "POSITION_OCCUPIED"
    ELSE IF u \notin TankUsers(t) THEN "USER_NOT_IN_HOLDING_TANK"
    ELSE "ok"

TankPos(t, u) == SelectInSeq(t.tank, LAMBDA e : e.user = u)

CheckPlaceFromTank(t, u, p, pos) ==
    IF u = Nil THEN "NIL_USER_ID"
    ELSE IF pos >= Width THEN "POSITION_OUT_OF_RANGE"
    ELSE IF ~Holds(t.arena, p) THEN "USER_NOT_FOUND"
    ELSE IF t.slots[t.arena.index[p]][pos + 1] # None THEN "POSITION_OCCUPIED"
    ELSE IF u \notin TankUsers(t) THEN "USER_NOT_IN_HOLDING_TANK"
    ELSE IF t.tank[TankPos(t, u)].sponsor \in TankUsers(t) THEN "SPONSOR_IN_HOLDING_TANK"
    ELSE "ok"

(***************************************************************************)
(* Placement.                                                              *)
(***************************************************************************)
RebuildChildren(t, p) == [t EXCEPT !.arena.nodes[p].children = Occupied(t.slots[p])]

(* Every placement: a new node with an open row in slot pos of p. *)
PlaceAt(t, u, p, pos, sponsor, at) ==
    LET i == NextSlot(t.arena)
        entered == [t EXCEPT
            !.arena = Enter(@, NewNode(u, p, sponsor, t.arena.nodes[p].depth + 1, at)),
            !.slots = [(i :> OpenRow) @@ @ EXCEPT ![p][pos + 1] = i]]
        rebuilt == RebuildChildren(entered, p)
    IN  IF sponsor = None THEN rebuilt
        ELSE [rebuilt EXCEPT !.arena.nodes[sponsor].sponsored = Append(@, i)]

(* The walk of find_spillover_slot, which goes by the rows: the children   *)
(* lists may be behind while a removal is under way.                       *)
SlotWalk(t, i) ==
    LET next(j) == Occupied(t.slots[j]) IN <<i>> \o Bfs(i, Len(t.arena.nodes), next)

(* The first node of the walk with an open slot, and its first open slot.  *)
(* The subtree is finite, so there always is one (SubtreeFull is never     *)
(* returned).                                                              *)
FindSpilloverSlot(t, i) ==
    LET open == SelectSeq(SlotWalk(t, i), LAMBDA j : None \in Range(t.slots[j]))
        p    == Head(open)
    IN  <<p, SelectInSeq(t.slots[p], LAMBDA c : c = None) - 1>>

(***************************************************************************)
(* Removal.                                                                *)
(***************************************************************************)
Descendants(t, i) ==
    LET next(j) == t.arena.nodes[j].children IN Bfs(i, Len(t.arena.nodes), next)

RemovalSet(t, i, mode) == IF mode = "promote_earliest" THEN <<i>> ELSE <<i>> \o Descendants(t, i)

CheckRemoveNode(t, u, mode) ==
    IF ~Holds(t.arena, u) THEN "USER_NOT_FOUND"
    ELSE IF t.arena.index[u] = t.arena.root THEN "CANNOT_REMOVE_ROOT"
    ELSE CheckSponsoredRemovable(t.arena, RemovalSet(t, t.arena.index[u], mode))

SlotOf(t, p, i) == SelectInSeq(t.slots[p], LAMBDA c : c = i) - 1

(* Slot pos of p holds c, or is open when c is None. *)
SetSlot(t, p, pos, c) == RebuildChildren([t EXCEPT !.slots[p][pos + 1] = c], p)

Unsponsor(a, i) ==
    IF a.nodes[i].sponsor = None THEN a
    ELSE [a EXCEPT !.nodes[a.nodes[i].sponsor].sponsored = Remove(@, i)]

(* Step 4 of a promotion and the end of a leaf removal. *)
DropNode(t, i) ==
    [t EXCEPT !.arena = Leave(ReparentSponsored(Unsponsor(@, i), <<i>>), i),
              !.slots = Restrict(@, DOMAIN @ \ {i})]

(* recalculate_depths, which goes by the children lists. *)
RecalculateDepths(t, i) ==
    LET below == Range(Descendants(t, i)) \cup {i}
        depth[j \in below] ==
            IF j = i THEN t.arena.nodes[t.arena.nodes[i].parent].depth + 1
            ELSE depth[t.arena.nodes[j].parent] + 1
    IN  [t EXCEPT !.arena.nodes = [j \in DOMAIN @ |->
            IF j \in below THEN [@[j] EXCEPT !.depth = depth[j]] ELSE @[j]]]

(* The earliest-enrolled child, the lowest slot among equals. *)
Earliest(t, children) ==
    LET at(k) == t.arena.nodes[children[k]].at
    IN  children[CHOOSE k \in DOMAIN children :
                    \A j \in DOMAIN children : at(k) < at(j) \/ (at(k) = at(j) /\ k <= j)]

(* Mutant: the siblings go in front of the children already there. *)
RepositionInFront(t, promoted, c) ==
    LET to == FindSpilloverSlot(t, promoted)
    IN  RebuildChildren([t EXCEPT !.arena.nodes[c].parent = to[1],
                                  !.slots[to[1]] = <<c>> \o RemoveAt(@, to[2] + 1)], to[1])

(* A sibling of the promoted node moves under it: its own first open slot, *)
(* which is where the walk starts, or one further down.                    *)
Reposition(t, promoted, c) ==
    LET to == FindSpilloverSlot(t, promoted)
    IN  SetSlot([t EXCEPT !.arena.nodes[c].parent = to[1]], to[1], to[2], c)

RemovePromoteEarliest(t, u) ==
    LET i        == t.arena.index[u]
        p        == t.arena.nodes[i].parent
        children == Occupied(t.slots[i])
        promoted == Earliest(t, children)
        moved    == SetSlot([t EXCEPT !.slots[i] = ReplaceAll(@, promoted, None),
                                      !.arena.nodes[promoted].parent = p],
                            p, SlotOf(t, p, i), promoted)
        settled  == FoldLeft(LAMBDA s, c : Reposition(s, promoted, c), moved,
                             Remove(children, promoted))
    IN  IF children = <<>> THEN DropNode(SetSlot(t, p, SlotOf(t, p, i), None), i)
        ELSE RecalculateDepths(DropNode(settled, i), promoted)

(* An entry for each node that leaves, naming its sponsor by user. *)
TankEntries(a, leaving) ==
    [k \in DOMAIN leaving |->
        [user |-> a.nodes[leaving[k]].user,
         sponsor |-> UserAt(a, a.nodes[leaving[k]].sponsor), at |-> a.nodes[leaving[k]].at]]

(* The subtree goes to the tank, descendants first. *)
RemoveToHoldingTank(t, u) ==
    LET i       == t.arena.index[u]
        leaving == Append(Descendants(t, i), i)
        a       == ReparentSponsored(t.arena, RemovalSet(t, i, "holding_tank"))
        cleared == FoldLeft(LAMBDA b, j : Leave(Unsponsor(b, j), j), a, Front(leaving))
        p       == t.arena.nodes[i].parent
        cut     == SetSlot([t EXCEPT !.arena = Unsponsor(cleared, i),
                                     !.tank = @ \o TankEntries(a, leaving)],
                           p, SlotOf(t, p, i), None)
    IN  [cut EXCEPT !.arena = Leave(@, i), !.slots = Restrict(@, DOMAIN @ \ Range(leaving))]

RemoveNode(t, u, mode) ==
    IF mode = "promote_earliest" THEN RemovePromoteEarliest(t, u) ELSE RemoveToHoldingTank(t, u)

(* What a removal reports to the projection: who went to the tank, whose   *)
(* sponsor changed, and which survivors sit elsewhere than before.         *)
PlacementOf(t, i) ==
    LET n == t.arena.nodes[i]
    IN  [user |-> n.user, parent |-> UserAt(t.arena, n.parent),
         pos |-> SlotOf(t, n.parent, i), depth |-> n.depth]

(* Mutant: a change of depth alone does not count. *)
MovedAcross(t, after, i) ==
    [PlacementOf(after, i) EXCEPT !.depth = 0] # [PlacementOf(t, i) EXCEPT !.depth = 0]

Moved(t, after, i) == PlacementOf(after, i) # PlacementOf(t, i)

Relocated(t, u) ==
    LET children == Occupied(t.slots[t.arena.index[u]])
        after    == RemovePromoteEarliest(t, u)
        moved    == SelectSeq(SlotWalk(after, Earliest(t, children)),
                              LAMBDA i : Moved(t, after, i))
    IN  IF children = <<>> THEN <<>> ELSE [k \in DOMAIN moved |-> PlacementOf(after, moved[k])]

RemovalResult(t, u, mode) ==
    LET leaving == RemovalSet(t, t.arena.index[u], mode)
    IN  [removed     |-> {UserAt(t.arena, i) : i \in Range(leaving)},
         responsored |-> Responsored(t.arena, leaving),
         relocated   |-> IF mode = "promote_earliest" THEN Relocated(t, u) ELSE <<>>]

(***************************************************************************)
(* The steps.                                                              *)
(***************************************************************************)
Init == tree = [arena |-> EmptyArena, slots |-> <<>>, tank |-> <<>>]

AddRoot(u, at) ==
    /\ CheckAddRoot(tree, u) = "ok"
    /\ LET i == NextSlot(tree.arena)
       IN  tree' = [tree EXCEPT
                       !.arena = [Enter(@, NewNode(u, None, None, 0, at)) EXCEPT !.root = i],
                       !.slots = (i :> OpenRow) @@ @]

AddNodeAt(u, s, p, pos, at) ==
    /\ CheckAddNodeAt(tree, u, s, p, pos) = "ok"
    /\ tree' = PlaceAt(tree, u, tree.arena.index[p], pos, tree.arena.index[s], at)

AddNode(u, s, at) ==
    /\ CheckAddNode(tree, u, s) = "ok"
    /\ LET to == FindSpilloverSlot(tree, tree.arena.index[s])
       IN  tree' = PlaceAt(tree, u, to[1], to[2], tree.arena.index[s], at)

Removal(u, mode) ==
    /\ CheckRemoveNode(tree, u, mode) = "ok"
    /\ tree' = RemoveNode(tree, u, mode)

(* The stored sponsor is taken up again if the tree still holds them. *)
PlaceFromTank(u, p, pos) ==
    /\ CheckPlaceFromTank(tree, u, p, pos) = "ok"
    /\ LET k == TankPos(tree, u)
           s == tree.tank[k].sponsor
       IN  tree' = PlaceAt([tree EXCEPT !.tank = RemoveAt(@, k)], u, tree.arena.index[p], pos,
                           IF Holds(tree.arena, s) THEN tree.arena.index[s] ELSE None,
                           tree.tank[k].at)

Next ==
    \E u \in Users :
        \/ \E at \in Times : AddRoot(u, at)
        \/ \E s \in Users, at \in Times : AddNode(u, s, at)
        \/ \E s, p \in Users, pos \in AdminSlots, at \in Times : AddNodeAt(u, s, p, pos, at)
        \/ \E mode \in Modes : Removal(u, mode)
        \/ \E p \in Users, pos \in 0..Width - 1 : PlaceFromTank(u, p, pos)

Spec == Init /\ [][Next]_tree

(***************************************************************************)
(* Restore: what MatrixTree::validate_restored demands of a payload.       *)
(***************************************************************************)
TankSponsor(t, u) == t.tank[TankPos(t, u)].sponsor

(* check_tank_sponsor_chains_end: no chain comes back to its start. *)
TankChainsEnd(t) ==
    \A k \in DOMAIN t.tank :
        LET n == Len(t.tank)
            chain[j \in 0..n] ==
                IF j = 0 THEN t.tank[k].user
                ELSE LET u == chain[j - 1]
                     IN  IF u \in TankUsers(t) THEN TankSponsor(t, u) ELSE u
        IN  chain[n] \notin TankUsers(t)

TankRestores(t) ==
    /\ Nil \notin TankUsers(t)
    /\ \A k \in DOMAIN t.tank : ~Holds(t.arena, t.tank[k].user)
    /\ Cardinality(TankUsers(t)) = Len(t.tank)
    /\ TankChainsEnd(t)

MatrixRestores(t) ==
    /\ ArenaRestores(t.arena) /\ RowsAreLive(t.arena, t.slots, Width)
    /\ TankRestores(t) /\ SlotsRestore(t.arena, t.slots)

(***************************************************************************)
(* Properties.                                                             *)
(***************************************************************************)
View(t) == [u \in DOMAIN t.arena.index |->
               LET i == t.arena.index[u]
                   n == t.arena.nodes[i]
               IN  [parent |-> UserAt(t.arena, n.parent), sponsor |-> UserAt(t.arena, n.sponsor),
                    pos |-> IF n.parent = None THEN None ELSE SlotOf(t, n.parent, i),
                    depth |-> n.depth]]

(* A worker restores whatever a worker saved: through every mix of         *)
(* placements, promotions, evictions to the tank and placements from it,   *)
(* the arena, the rows of slots and the tank pass validate_restored.       *)
RestoresItself == MatrixRestores(tree)

Everyone(t) == DOMAIN t.arena.index \cup TankUsers(t)

(* The users a step takes out of the tree. *)
Gone == DOMAIN tree.arena.index \ DOMAIN tree'.arena.index

(* A user's sponsor, in the tree or as the tank remembers it. *)
SponsorName(t, u) ==
    IF Holds(t.arena, u) THEN View(t)[u].sponsor ELSE TankSponsor(t, u)

(* Nobody is lost or duplicated: a promotion takes out the one user it is  *)
(* asked to, an eviction keeps everybody, in the tree or in the tank.  And *)
(* whatever way through the tank a user takes, in whatever order the tank  *)
(* is emptied, they keep their sponsor until the sponsor is removed.       *)
NobodyIsLost ==
    [][/\ \A u \in Gone, mode \in Modes :
             Removal(u, mode) =>
                Everyone(tree') = Everyone(tree) \ (IF mode = "promote_earliest" THEN {u} ELSE {})
       /\ \A u \in Everyone(tree) \cap Everyone(tree') :
             SponsorName(tree', u) # SponsorName(tree, u)
                => SponsorName(tree, u) \in Gone \/ SponsorName(tree, u) \notin Everyone(tree)]_tree

(* The placements r moves are free to be taken in any order: each is a     *)
(* slot nobody but the removed user and the moved one had.                 *)
InAnyOrder(r, u) ==
    \A m \in Range(r.relocated) :
        \A x \in DOMAIN View(tree) \ {u, m.user} :
            ~ (View(tree)[x].parent = m.parent /\ View(tree)[x].pos = m.pos)

(* The rows of the adjacency table follow from what a removal reports:     *)
(* tombstone the removed, repoint the responsored, move the relocated in   *)
(* whatever order, and the table shows the engine's tree.                  *)
ReportsTellAll ==
    [][\A u \in Gone, mode \in Modes :
          Removal(u, mode) =>
             LET r    == RemovalResult(tree, u, mode)
                 rows == Restrict(View(tree), DOMAIN View(tree) \ r.removed)
                 resp == Range(r.responsored)
             IN  InAnyOrder(r, u) /\ View(tree') = [x \in DOMAIN rows |->
                    LET s == {m.sponsor : m \in {y \in resp : y.user = x}}
                        l == {m \in Range(r.relocated) : m.user = x}
                        sponsor == IF s = {} THEN rows[x].sponsor ELSE CHOOSE y \in s : TRUE
                    IN  IF l = {} THEN [rows[x] EXCEPT !.sponsor = sponsor]
                        ELSE LET m == CHOOSE y \in l : TRUE
                             IN  [parent |-> m.parent, sponsor |-> sponsor,
                                  pos |-> m.pos, depth |-> m.depth]]]_tree

=============================================================================
