----------------------------- MODULE TreeLedger -----------------------------
(***************************************************************************)
(* What the write path of a tree promises its callers: a ledger of trees   *)
(* that only grows, each tree one accepted mutation away from the one      *)
(* before it, and a table that shows one entry of it.  The table never     *)
(* goes back, moves to the newest entry in one step, and shows every       *)
(* mutation recorded before a new one is taken.                            *)
(***************************************************************************)
EXTENDS TreeEngine, Sequences

VARIABLES
    ledger,     \* the trees, oldest first; the empty tree is the first
    shown,      \* the entry the table shows
    table       \* the tree the table shows

ledgerVars == <<ledger, shown, table>>

Newest == ledger[Len(ledger)]

(* The trees one accepted mutation makes of t. *)
Successors(t) ==
    {AddRoot(t, u) : u \in {x \in Users : CheckAddRoot(t, x) = "ok"}}
    \cup {AddNode(t, p.user, p.parent, p.sponsor, p.pos) :
             p \in {q \in [user : Users, parent : Users, sponsor : Users, pos : Positions \cup {NoPos}] :
                        CheckAddNode(t, q.user, q.parent, q.sponsor, q.pos) = "ok"}}
    \cup {RemoveNode(t, u) : u \in {x \in Users : CheckRemoveNode(t, x) = "ok"}}

LedgerInit == ledger = <<EmptyTree>> /\ shown = 1 /\ table = EmptyTree

Mutate ==
    /\ shown = Len(ledger) /\ ledger' # ledger
    /\ \E t \in Successors(Newest) : ledger' = Append(ledger, t)
    /\ UNCHANGED <<shown, table>>

(* An entry that changes nothing: an event that does not apply, which only *)
(* code other than the writer appends, or its rejection.                   *)
Void ==
    /\ shown >= Len(ledger) - 1
    /\ ledger' = Append(ledger, Newest)
    /\ UNCHANGED <<shown, table>>

Show ==
    /\ shown' = Len(ledger) /\ table' = Newest
    /\ UNCHANGED ledger

LedgerNext == Mutate \/ Void \/ Show

LedgerSpec == LedgerInit /\ [][LedgerNext]_ledgerVars

=============================================================================
