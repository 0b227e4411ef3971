----------------------------- MODULE TreeEngine -----------------------------
(***************************************************************************)
(* The tree a worker holds, and the checks and mutations the tree writer   *)
(* asks of it: the unilevel and binary trees of                            *)
(* engine/network-engine/src/tree.  A tree is a function from the users it *)
(* holds to their nodes.  The arena's index lists (children, sponsored,    *)
(* the binary slot table) are the inverses of parent, sponsor and pos and  *)
(* are not kept a second time.  Enrolment times are left out: nothing the  *)
(* writer decides orders by them.                                          *)
(***************************************************************************)
EXTENDS Integers

CONSTANTS
    Users,      \* user IDs
    NoUser,     \* the root's parent and sponsor
    NoPos       \* the position of a root and of every unilevel node

Positions == {0, 1}

Node == [parent  : Users \cup {NoUser},
         sponsor : Users \cup {NoUser},
         pos     : Positions \cup {NoPos},
         depth   : Nat]

(* A tree: a function from the users it holds to their nodes. *)
IsTree(t) == DOMAIN t \subseteq Users /\ t \in [DOMAIN t -> Node]

EmptyTree == [u \in {} |-> [parent |-> NoUser, sponsor |-> NoUser,
                            pos |-> NoPos, depth |-> 0]]

With(t, u, n) == [x \in DOMAIN t \cup {u} |-> IF x = u THEN n ELSE t[x]]

HasRoot(t) == \E u \in DOMAIN t : t[u].parent = NoUser
HasChildren(t, u) == \E c \in DOMAIN t : t[c].parent = u
SlotTaken(t, p, pos) ==
    /\ pos # NoPos
    /\ \E c \in DOMAIN t : t[c].parent = p /\ t[c].pos = pos

(***************************************************************************)
(* check_add_root, check_add_node and check_remove_node.  Each returns     *)
(* "ok" or the code the worker reports, in the order the code tests.       *)
(***************************************************************************)
CheckAddRoot(t, u) ==
    IF HasRoot(t) THEN "ROOT_ALREADY_EXISTS"
    ELSE IF u \in DOMAIN t THEN "USER_ALREADY_EXISTS"
    ELSE "ok"

CheckAddNode(t, u, p, s, pos) ==
    IF u \in DOMAIN t THEN "USER_ALREADY_EXISTS"
    ELSE IF p \notin DOMAIN t THEN "USER_NOT_FOUND"
    ELSE IF s \notin DOMAIN t THEN "SPONSOR_NOT_FOUND"
    ELSE IF SlotTaken(t, p, pos) THEN "POSITION_OCCUPIED"
    ELSE "ok"

(* The recruits of u: the nodes that lose their sponsor when u goes. *)
Recruits(t, u) == {x \in DOMAIN t \ {u} : t[x].sponsor = u}

CheckRemoveNode(t, u) ==
    IF u \notin DOMAIN t THEN "USER_NOT_FOUND"
    ELSE IF HasChildren(t, u) THEN "HAS_CHILDREN"
    ELSE IF Recruits(t, u) # {} /\ t[u].sponsor = NoUser
         THEN "SPONSORLESS_WITH_RECRUITS"
    ELSE IF t[u].sponsor \in Recruits(t, u) THEN "SPONSOR_CYCLE"
    ELSE "ok"

AddRoot(t, u) ==
    With(t, u, [parent |-> NoUser, sponsor |-> NoUser, pos |-> NoPos, depth |-> 0])

AddNode(t, u, p, s, pos) ==
    With(t, u, [parent |-> p, sponsor |-> s, pos |-> pos, depth |-> t[p].depth + 1])

(* remove_node: the leaf goes, and its recruits move to its own sponsor. *)
RemoveNode(t, u) ==
    [x \in DOMAIN t \ {u} |->
        IF t[x].sponsor = u THEN [t[x] EXCEPT !.sponsor = t[u].sponsor] ELSE t[x]]

=============================================================================
