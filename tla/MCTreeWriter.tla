---------------------------- MODULE MCTreeWriter ----------------------------
(* Instances of TreeWriter small enough for TLC. *)
EXTENDS TreeWriterLedger, TLC

CONSTANTS w1, w2, u1, u2, u3

Two == {u1, u2}
Three == {u1, u2, u3}
NoSlot == -1
Swap == Permutations({w1, w2})

Placement(u, p, s, pos) == [user |-> u, parent |-> p, sponsor |-> s, pos |-> pos]

(* Recruits whose sponsor can leave before they do, for each type of tree, *)
(* and two users for one binary slot.                                      *)
Newcomers == {Placement(u2, u1, u1, NoSlot), Placement(u3, u1, u2, NoSlot),
             Placement(u2, u1, u1, 0), Placement(u3, u1, u2, 0), Placement(u3, u1, u2, 1)}
(* A user with a sponsor that is in the tree and one that never is. *)
Orphan == {Placement(u2, u1, u1, NoSlot), Placement(u2, u1, u3, NoSlot)}

(* The view of the runs with a lost lock and with a repair: a command      *)
(* about to unlock reads nothing of its own any more, so states that       *)
(* differ in that alone, or in what was reported, are one.                 *)
Held(w) ==
    IF pc[w] = "unlock" THEN <<pc[w], req[w]>>
    ELSE <<pc[w], req[w], shape[w], loaded[w], seen[w], engine[w], at[w], base[w], last[w],
           cur[w], phase[w], depth[w]>>
Live == <<stream, trees, store, snap, holder, inflight, losses, strays, [w \in Writers |-> Held(w)]>>

=============================================================================
