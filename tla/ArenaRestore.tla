---------------------------- MODULE ArenaRestore ----------------------------
(***************************************************************************)
(* What a restore proves of a deserialized arena before a worker uses it   *)
(* (Arena::validate_restored and the child-slot checks of the binary and   *)
(* the matrix tree).  The passes run in the order of the conjuncts: a pass *)
(* indexes by what the ones before it have shown to be in range.  Which of *)
(* several faults is named is left out.                                    *)
(***************************************************************************)
EXTENDS Arena

IndexIsLive(a) ==
    \A u \in DOMAIN a.index :
        /\ a.index[u] \in Slots(a)
        /\ a.nodes[a.index[u]].user # Nil
        /\ a.nodes[a.index[u]].user = u

SlotIsLive(a, i) == i \in Slots(a) /\ a.nodes[i].user # Nil
EdgeIsLive(a, i) == i = None \/ SlotIsLive(a, i)

NodesAreIndexed(a) ==
    \A i \in Slots(a) :
        LET n == a.nodes[i]
        IN  IF n.user = Nil
            THEN /\ n.parent = None /\ n.sponsor = None
                 /\ n.children = <<>> /\ n.sponsored = <<>>
            ELSE /\ Holds(a, n.user) /\ a.index[n.user] = i
                 /\ \A e \in {n.parent, n.sponsor} \cup Range(n.children)
                              \cup Range(n.sponsored) : EdgeIsLive(a, e)

DepthsFollowParents(a) ==
    \A i \in Live(a) :
        LET n == a.nodes[i]
        IN  n.depth = IF n.parent = None THEN 0 ELSE a.nodes[n.parent].depth + 1

FreeSlotsAreCleared(a) ==
    /\ \A k \in DOMAIN a.free : a.free[k] \in Slots(a) \ Live(a)
    /\ IsInjective(a.free)

RootIsLive(a) ==
    a.root # None => SlotIsLive(a, a.root) /\ a.nodes[a.root].sponsor = None

(* check_reciprocal: every edge listed downward is named upward once, and  *)
(* the reverse.                                                            *)
IsReciprocal(a, down(_), up(_)) ==
    \A i \in Live(a) :
        /\ IsInjective(down(a.nodes[i]))
        /\ \A c \in Range(down(a.nodes[i])) : up(a.nodes[c]) = i
        /\ LET p == up(a.nodes[i]) IN p # None => i \in Range(down(a.nodes[p]))

ChildrenOf(n) == n.children
SponsoredOf(n) == n.sponsored
ChildrenAgree(a) == IsReciprocal(a, ChildrenOf, ParentOf)
SponsoredAgree(a) == IsReciprocal(a, SponsoredOf, SponsorOf)

HasSingleRoot(a) ==
    IF a.root = None THEN Live(a) = {}
    ELSE \A i \in Live(a) \ {a.root} : a.nodes[i].parent # None

(* check_sponsor_chains_end: a chain that does not end revisits a slot. *)
SponsorChainsEnd(a) ==
    \A i \in Live(a) : IsInjective(<<i>> \o WalkSponsorUpline(a, i, 0))

ArenaRestores(a) ==
    /\ IndexIsLive(a) /\ NodesAreIndexed(a) /\ DepthsFollowParents(a)
    /\ FreeSlotsAreCleared(a) /\ RootIsLive(a)
    /\ ChildrenAgree(a) /\ HasSingleRoot(a)
    /\ SponsoredAgree(a) /\ SponsorChainsEnd(a)

(***************************************************************************)
(* The child-slot map of a binary or matrix tree: a row of slots, in which *)
(* None is an open one, for each parent.                                   *)
(***************************************************************************)
Occupied(row) == SelectSeq(row, LAMBDA c : c # None)

RowsAreLive(a, slots, width) ==
    \A p \in DOMAIN slots :
        /\ SlotIsLive(a, p) /\ Len(slots[p]) = width
        /\ \A c \in Range(slots[p]) : EdgeIsLive(a, c)

EveryNodeHasRow(a, slots) == Live(a) \subseteq DOMAIN slots

SlottedUnder(slots, c) ==
    {<<p, k>> \in UNION {{p} \X DOMAIN slots[p] : p \in DOMAIN slots} : slots[p][k] = c}

EveryNodeSlottedOnce(a, slots) ==
    /\ a.root # None => SlottedUnder(slots, a.root) = {}
    /\ \A p \in DOMAIN slots : p \notin Range(slots[p])
    /\ \A c \in Live(a) \ {a.root} : Cardinality(SlottedUnder(slots, c)) = 1

ChildrenMatchSlots(a, slots) ==
    \A p \in DOMAIN slots : Occupied(slots[p]) = a.nodes[p].children

SlotsRestore(a, slots) ==
    /\ EveryNodeHasRow(a, slots) /\ EveryNodeSlottedOnce(a, slots)
    /\ ChildrenMatchSlots(a, slots)

(***************************************************************************)
(* What every walk over an arena takes for granted, stated apart from the  *)
(* passes above.                                                           *)
(***************************************************************************)
Listed(a, lists(_)) == FlattenSeq([i \in Slots(a) |-> lists(a.nodes[i])])

WalksAreSound(a) ==
    \* a user has one slot, and the next add overwrites nobody
    /\ \A i \in Live(a) : Holds(a, a.nodes[i].user) /\ a.index[a.nodes[i].user] = i
    /\ Cardinality(DOMAIN a.index) = Cardinality(Live(a))
    /\ NextSlot(a) \notin Live(a)
    \* the downline of the root is everybody else, once
    /\ IF a.root = None THEN Live(a) = {}
       ELSE IsInjective(CollectSubtree(a, a.root))
            /\ Range(CollectSubtree(a, a.root)) = Live(a)
    \* every upline ends at the root, as many steps away as the depth says
    /\ \A i \in Live(a) :
          LET up == <<i>> \o WalkUpline(a, i, 0)
          IN  Last(up) = a.root /\ Len(up) = a.nodes[i].depth + 1
    \* every sponsor chain ends, and the recruit lists say what the chains say
    /\ \A i \in Live(a) : i \notin Range(WalkSponsorUpline(a, i, 0))
    /\ IsInjective(Listed(a, SponsoredOf))
    /\ \A s, i \in Live(a) : (a.nodes[i].sponsor = s) = (i \in Range(a.nodes[s].sponsored))

=============================================================================
