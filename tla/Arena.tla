------------------------------- MODULE Arena -------------------------------
(***************************************************************************)
(* The node store all tree types share (tree/arena.rs): a vector of slots, *)
(* the map from users to slots, the free list and the root.  A slot number *)
(* is the Rust index plus one, and None is 0.  The arena is a value; the   *)
(* trees that own one pass it to these operators.                          *)
(***************************************************************************)
EXTENDS Integers, Sequences, FiniteSets, SequencesExt

CONSTANTS
    Users,      \* user IDs
    Nil         \* the nil UUID, which marks a freed slot

None == 0

NewNode(u, parent, sponsor, depth, at) ==
    [user |-> u, parent |-> parent, children |-> <<>>,
     sponsor |-> sponsor, sponsored |-> <<>>, depth |-> depth, at |-> at]

Cleared == NewNode(Nil, None, None, 0, 0)

EmptyArena == [nodes |-> <<>>, index |-> <<>>, free |-> <<>>, root |-> None]

Holds(a, u) == u \in DOMAIN a.index
Slots(a) == DOMAIN a.nodes
Live(a) == {i \in Slots(a) : a.nodes[i].user # Nil}
UserAt(a, i) == IF i = None THEN Nil ELSE a.nodes[i].user

(***************************************************************************)
(* Mutations.                                                              *)
(***************************************************************************)
NextSlot(a) == IF a.free # <<>> THEN Last(a.free) ELSE Len(a.nodes) + 1

(* Mutant: the slot taken from the free list stays on it. *)
AllocSlotKeepsFree(a, n) ==
    IF a.free # <<>> THEN [a EXCEPT !.nodes[NextSlot(a)] = n]
    ELSE [a EXCEPT !.nodes = Append(@, n)]

AllocSlot(a, n) ==
    IF a.free # <<>>
    THEN [a EXCEPT !.nodes[NextSlot(a)] = n, !.free = Front(@)]
    ELSE [a EXCEPT !.nodes = Append(@, n)]

(* Every add allocates the slot and enters it in the index. *)
Enter(a, n) == [AllocSlot(a, n) EXCEPT !.index = (n.user :> NextSlot(a)) @@ @]

Tombstone(a, i) == [a EXCEPT !.nodes[i] = Cleared, !.free = Append(@, i)]

(* Every removal drops the index entry and tombstones the slot. *)
Leave(a, i) ==
    Tombstone([a EXCEPT !.index = Restrict(@, DOMAIN @ \ {a.nodes[i].user})], i)

(* The sponsor reached from i after skipping k sponsors that are removed.  *)
SponsorPast(a, i, removed, n) ==
    LET past[k \in 0..n] ==
            IF k = 0 THEN a.nodes[i].sponsor
            ELSE LET s == past[k - 1] IN IF s \in removed THEN a.nodes[s].sponsor ELSE s
    IN  past[n]

(* surviving_sponsor: a slot, None, or Cycle when the slot count is spent. *)
Cycle == -1

(* Mutant: the recruits of whoever leaves go to the root. *)
SurvivingSponsorRoot(a, i, removed) == IF a.nodes[i].sponsor = None THEN None ELSE a.root

SurvivingSponsor(a, i, removed) ==
    LET found == SponsorPast(a, i, removed, Len(a.nodes) - 1)
    IN  IF found \in removed THEN Cycle ELSE found

SurvivingRecruits(a, i, removed) ==
    SelectSeq(a.nodes[i].sponsored, LAMBDA s : s \notin removed)

(* check_sponsored_removable: the first failing node, in the caller's      *)
(* order, is the one reported.                                             *)
SponsoredRemovable(a, i, removed) ==
    LET survivors == SurvivingRecruits(a, i, removed)
        target    == SurvivingSponsor(a, i, removed)
    IN  IF survivors = <<>> THEN "ok"
        ELSE IF target = Cycle THEN "SPONSOR_CYCLE"
        ELSE IF target = None THEN "SPONSORLESS_WITH_RECRUITS"
        ELSE IF target \in Range(survivors) THEN "SPONSOR_CYCLE"
        ELSE "ok"

CheckSponsoredRemovable(a, removed) ==
    LET answer == [k \in DOMAIN removed |->
                      SponsoredRemovable(a, removed[k], Range(removed))]
        bad    == SelectSeq(answer, LAMBDA r : r # "ok")
    IN  IF bad = <<>> THEN "ok" ELSE Head(bad)

(* The moves reparent_sponsored makes, in order: recruit and new sponsor.  *)
PlannedMoves(a, removed) ==
    FlattenSeq([k \in DOMAIN removed |->
        LET survivors == SurvivingRecruits(a, removed[k], Range(removed))
        IN  [j \in DOMAIN survivors |->
                <<survivors[j], SurvivingSponsor(a, removed[k], Range(removed))>>]])

ReparentSponsored(a, removed) ==
    LET moves   == PlannedMoves(a, removed)
        to(i)   == {m[2] : m \in {x \in Range(moves) : x[1] = i}}
        from(i) == LET mine == SelectSeq(moves, LAMBDA m : m[2] = i)
                   IN  [k \in DOMAIN mine |-> mine[k][1]]
    IN  [a EXCEPT !.nodes = [i \in Slots(a) |->
            [a.nodes[i] EXCEPT
                !.sponsor   = IF to(i) # {} THEN CHOOSE t \in to(i) : TRUE ELSE @,
                !.sponsored = IF i \in Range(removed) THEN <<>> ELSE @ \o from(i)]]]

(* What reparent_sponsored reports: who moved, and to whom. *)
Responsored(a, removed) ==
    LET moves == PlannedMoves(a, removed)
    IN  [k \in DOMAIN moves |-> [user |-> a.nodes[moves[k][1]].user,
                                 sponsor |-> a.nodes[moves[k][2]].user]]

(***************************************************************************)
(* Traversals.  A walk is limited to depth levels, 0 meaning all of them.  *)
(***************************************************************************)
Chain(a, i, up(_), depth) ==
    LET limit == IF depth = 0 THEN Len(a.nodes) ELSE Min({depth, Len(a.nodes)})
        walk[k \in 0..limit] ==
            IF k = 0 THEN <<i>>
            ELSE LET w == walk[k - 1]
                     n == up(a.nodes[Last(w)])
                 IN  IF Len(w) < k \/ n = None THEN w ELSE Append(w, n)
    IN  Tail(walk[limit])

ParentOf(n) == n.parent
SponsorOf(n) == n.sponsor

WalkUpline(a, i, depth) == Chain(a, i, ParentOf, depth)
WalkSponsorUpline(a, i, depth) == Chain(a, i, SponsorOf, depth)

(* A breadth-first walk from i over at most n levels, a level at a time:   *)
(* what the queue has held, and the level it was given last.               *)
Bfs(i, n, next(_)) ==
    LET walk[k \in 0..n] ==
            IF k = 0 THEN [queued |-> <<>>, level |-> <<i>>]
            ELSE LET w == walk[k - 1]
                     l == FlattenSeq([j \in DOMAIN w.level |-> next(w.level[j])])
                 IN  [queued |-> w.queued \o l, level |-> l]
    IN  walk[n].queued

(* Mutant: a limited walk goes one level too far. *)
BfsDownlineOneMore(a, i, depth) ==
    LET next(j) == IF depth = 0 \/ a.nodes[j].depth - a.nodes[i].depth <= depth
                   THEN a.nodes[j].children ELSE <<>>
    IN  Bfs(i, Len(a.nodes), next)

BfsDownline(a, i, depth) ==
    LET next(j) == IF \/ j = i \/ depth = 0
                      \/ a.nodes[j].depth - a.nodes[i].depth < depth
                   THEN a.nodes[j].children ELSE <<>>
    IN  Bfs(i, Len(a.nodes), next)

CountDownline(a, i, depth) == Len(BfsDownline(a, i, depth))

CollectSubtree(a, i) == <<i>> \o BfsDownline(a, i, 0)

IsDescendantOf(a, i, ancestor) ==
    i # ancestor /\ ancestor \in Range(WalkUpline(a, i, 0))

(* get_branch by index into the children list. *)
Branch(a, i, pos) ==
    IF pos >= Len(a.nodes[i].children) THEN "POSITION_OUT_OF_RANGE"
    ELSE CollectSubtree(a, a.nodes[i].children[pos + 1])

(* get_position, the parts that are computed. *)
PositionOf(a, i) ==
    LET n == a.nodes[i]
    IN  [parent   |-> UserAt(a, n.parent),
         sponsor  |-> UserAt(a, n.sponsor),
         pos      |-> IF n.parent = None THEN 0
                      ELSE SelectInSeq(a.nodes[n.parent].children, LAMBDA c : c = i) - 1,
         depth    |-> n.depth,
         children |-> Len(n.children),
         counts   |-> [k \in 0..Len(n.children) - 1 |->
                          CountDownline(a, n.children[k + 1], 0)]]

=============================================================================
