----------------------------- MODULE TreeStore ------------------------------
(***************************************************************************)
(* The adjacency table of one tree (tree_nodes) and the stream version its *)
(* rows reflect (tree_projections), as operators on one value              *)
(*                                                                         *)
(*   [active    : users with an active row -> that row,                    *)
(*    tombs     : the soft-deleted rows, oldest removal first,             *)
(*    projected : the projected version]                                   *)
(*                                                                         *)
(* Each Project... operation is one transaction that locks the projection  *)
(* row first, so it is one step.  A tree without a projection row reads as *)
(* projected version 0.  A row's id is the id of the event that placed it. *)
(* A root row's stored sponsor is metadata that no load reads.             *)
(***************************************************************************)
EXTENDS TreeEngine, Sequences

NoEvent == 0    \* no event id: the stamp of a row no removal event removed

Row == [id : Nat, node : Node]
Tombstone == [id : Nat, user : Users, stamp : Nat]
AreRows(r) == DOMAIN r \subseteq Users /\ r \in [DOMAIN r -> Row]

EmptyStore == [active |-> [u \in {} |-> [id |-> NoEvent, node |-> {}]],
               tombs |-> <<>>, projected |-> 0]

(* The tree the active rows describe. *)
View(active) == [u \in DOMAIN active |-> active[u].node]

(* Mutant: no event is too old. *)
BelowNothing(st, v) == FALSE

(* refuseBelow: an event older than the projection writes nothing. *)
Below(st, v) == v < st.projected

HoldsID(st, id) ==
    \/ \E u \in DOMAIN st.active : st.active[u].id = id
    \/ \E i \in DOMAIN st.tombs : st.tombs[i].id = id

(***************************************************************************)
(* ProjectInsert: what stops the insert, or "ok".  ErrNodeAlreadyProjected *)
(* is the primary key, the others are the partial unique indexes over the  *)
(* active rows.                                                            *)
(***************************************************************************)
InsertOutcome(st, id, u, n, v) ==
    IF Below(st, v) THEN "ProjectionRefused"
    ELSE IF HoldsID(st, id) THEN "ErrNodeAlreadyProjected"
    ELSE IF u \in DOMAIN st.active THEN "ErrActiveUserConflict"
    ELSE IF n.depth = 0 /\ \E x \in DOMAIN st.active : st.active[x].node.depth = 0
         THEN "ErrRootConflict"
    ELSE IF SlotTaken(View(st.active), n.parent, n.pos) THEN "ErrSlotConflict"
    ELSE "ok"

ProjectInsert(st, id, u, n, v) ==
    [active |-> With(st.active, u, [id |-> id, node |-> n]), tombs |-> st.tombs, projected |-> v]

(* Mutant: the recruits' rows keep the sponsor that left. *)
ProjectRemovalAlone(st, id, u, moved, to, v) ==
    [active |-> [x \in DOMAIN st.active \ {u} |-> st.active[x]],
     tombs |-> Append(st.tombs, [id |-> st.active[u].id, user |-> u, stamp |-> id]),
     projected |-> v]

(***************************************************************************)
(* ProjectRemoval: tombstone the removed user and re-sponsor its recruits. *)
(* A count that does not match the active rows rolls the whole back.       *)
(***************************************************************************)
RemovalOutcome(st, u, moved, v) ==
    IF Below(st, v) THEN "ProjectionRefused"
    ELSE IF {u} \cup moved \subseteq DOMAIN st.active THEN "ok"
    ELSE "RowsNotMatched"

ProjectRemoval(st, id, u, moved, to, v) ==
    [active |-> [x \in DOMAIN st.active \ {u} |->
                    IF x \in moved THEN [st.active[x] EXCEPT !.node.sponsor = to]
                    ELSE st.active[x]],
     tombs |-> Append(st.tombs, [id |-> st.active[u].id, user |-> u, stamp |-> id]),
     projected |-> v]

(* ProjectRejection: soft delete the rejected event's row, when it has one. *)
RejectionOutcome(st, v) == IF Below(st, v) THEN "ProjectionRefused" ELSE "ok"

(* Mutant: only the version moves. *)
ProjectRejectionVersion(st, rejected, v) == [st EXCEPT !.projected = v]

ProjectRejection(st, rejected, v) ==
    LET gone == {x \in DOMAIN st.active : st.active[x].id = rejected}
    IN  [active |-> [x \in DOMAIN st.active \ gone |-> st.active[x]],
         tombs |-> IF gone = {} THEN st.tombs
                   ELSE Append(st.tombs, [id |-> rejected, user |-> CHOOSE x \in gone : TRUE,
                                          stamp |-> NoEvent]),
         projected |-> v]

(* GetNodeByRemovalEvent: some row carries the removal's stamp. *)
StampedBy(st, id) == \E i \in DOMAIN st.tombs : st.tombs[i].stamp = id

(* GetNodeIncludingRemoved for a user with no active row: the stamp of the *)
(* newest tombstone, or NoEvent when that stamp is null or there is no row.*)
NewestStamp(st, u) ==
    LET mine == {i \in DOMAIN st.tombs : st.tombs[i].user = u}
    IN  IF mine = {} THEN NoEvent
        ELSE st.tombs[CHOOSE i \in mine : \A j \in mine : j <= i].stamp

(***************************************************************************)
(* validateNodes and orderForReplay, the preflight of a load: an empty     *)
(* table passes; otherwise one root, every other row hangs one level below *)
(* an active parent, names an active sponsor, neither of them itself, no   *)
(* slot is claimed twice, and no set of rows waits for itself.             *)
(***************************************************************************)
Waits(t, u) == IF t[u].depth = 0 THEN {} ELSE {t[u].parent, t[u].sponsor}

RowFits(t, u) ==
    \/ t[u].depth = 0 /\ t[u].parent = NoUser /\ t[u].pos = NoPos
    \/ /\ u \notin Waits(t, u)
       /\ Waits(t, u) \subseteq DOMAIN t
       /\ t[u].depth = t[t[u].parent].depth + 1
       /\ t[u].pos # NoPos =>
             \A c \in DOMAIN t \ {u} : t[c].parent = t[u].parent => t[c].pos # t[u].pos

Preflight(t) ==
    \/ DOMAIN t = {}
    \/ /\ \E r \in DOMAIN t : \A u \in DOMAIN t : t[u].depth = 0 <=> u = r
       /\ \A u \in DOMAIN t : RowFits(t, u)
       /\ ~ \E S \in SUBSET DOMAIN t :
                S # {} /\ \A u \in S : Waits(t, u) \cap S # {}

=============================================================================
