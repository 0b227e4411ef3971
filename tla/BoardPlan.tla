------------------------------ MODULE BoardPlan ------------------------------
(***************************************************************************)
(* The board plan engine (board_plan/engine.rs, board.rs): boards that     *)
(* fill from the top, cycle their first member out when they are full and  *)
(* split into one board for each child of the top, with re-entry, the      *)
(* displaced pool, dissolution and compression.                            *)
(*                                                                         *)
(* A board is known by its seq, which is unique as its random id is.  The  *)
(* events field holds the cycle events of the last operation.  A refused   *)
(* call changes nothing and is not a step.                                 *)
(***************************************************************************)
EXTENDS Integers, Sequences, FiniteSets, SequencesExt

CONSTANTS
    Users, None,
    SponsorOf,          \* the sponsor an add of each user names
    Width, Height,      \* of every board
    Configs,            \* the re-entry and cascade settings a plan may have
    Times,              \* the timestamps calls bring
    MaxSeq              \* bound on the boards ever made

ASSUME DimensionsAssumption ==
    Width \in 2..5 /\ Height \in 1..4

ASSUME ConfigsAssumption ==
    Configs \subseteq [reEntry : BOOLEAN, position : {"bottom", "sponsor_board"},
                       maxCascade : Nat \ {0}]

VARIABLE plan

(***************************************************************************)
(* Boards: positions in breadth-first order, the top at 1.                 *)
(***************************************************************************)
Children(i) == [k \in 1..Width |-> Width * (i - 1) + 1 + k]

(* The positions of the subtree at i, height levels of it. *)
Levels(i, height) ==
    LET level[k \in 0..height] ==
            IF k = 0 THEN <<i>>
            ELSE LET above == level[k - 1]
                 IN  FlattenSeq([j \in DOMAIN above |-> Children(above[j])])
    IN  FlattenSeq([k \in 1..height + 1 |-> level[k - 1]])

TotalPositions == Len(Levels(1, Height))

(* The positions of a board that holds these members. *)
Packed(members) ==
    members \o [i \in 1..(TotalPositions - Len(members)) |-> None]

NewBoard(t, seq) ==
    [pos |-> Packed(<<>>), at |-> t, seq |-> seq, active |-> t]

IsFull(b) == None \notin Range(b.pos)
FirstOpen(b) == SelectInSeq(b.pos, LAMBDA m : m = None)
Members(b) == SelectSeq(b.pos, LAMBDA m : m # None)

Older(a, b) == a.at < b.at \/ (a.at = b.at /\ a.seq < b.seq)

NoBoard == -1

(***************************************************************************)
(* Placement.                                                              *)
(***************************************************************************)
OldestBoardWithOpening(e) ==
    LET open == {b \in DOMAIN e.boards : ~IsFull(e.boards[b])}
    IN  IF open = {} THEN NoBoard
        ELSE CHOOSE b \in open :
                \A c \in open \ {b} : Older(e.boards[b], e.boards[c])

FindPlacementBoard(e, sponsor) ==
    IF /\ e.config.position = "sponsor_board"
       /\ sponsor \in DOMAIN e.member
       /\ ~IsFull(e.boards[e.member[sponsor]])
    THEN e.member[sponsor] ELSE OldestBoardWithOpening(e)

Seat(e, u, b, t) ==
    [e EXCEPT !.boards[b].pos[FirstOpen(e.boards[b])] = u, !.boards[b].active = t,
              !.member = (u :> b) @@ @]

(***************************************************************************)
(* Cycling.                                                                *)
(***************************************************************************)
SplitBoard(e, b, t) ==
    LET old == e.boards[b].pos
        part(k) == Levels(k + 1, Height - 1)
        new(k) == [NewBoard(t, e.nextSeq + k - 1) EXCEPT !.pos =
                      Packed([i \in DOMAIN part(k) |-> old[part(k)[i]]])]
        ids == e.nextSeq..e.nextSeq + Width - 1
    IN  [e EXCEPT !.boards = [i \in ids |-> new(i - e.nextSeq + 1)] @@ @,
                  !.member = [u \in Range(Tail(old)) |->
                                 CHOOSE i \in ids : u \in Range(new(i - e.nextSeq + 1).pos)] @@ @,
                  !.nextSeq = @ + Width]

ReEntryBoard(left, sponsor) == IF left.config.reEntry THEN FindPlacementBoard(left, sponsor) ELSE NoBoard

ReEnter(left, top, to, t) ==
    IF to = NoBoard THEN [left EXCEPT !.displaced = Append(@, top)] ELSE Seat(left, top, to, t)

(* Mutant: one cycle deeper. *)
CascadeIsSpentLate(e, depth) == depth > e.config.maxCascade

CascadeIsSpent(e, depth) == depth >= e.config.maxCascade

RECURSIVE ProcessCycles(_, _, _, _)
ProcessCycles(e, b, t, depth) ==
    IF CascadeIsSpent(e, depth) \/ b \notin DOMAIN e.boards \/ ~IsFull(e.boards[b]) THEN e
    ELSE LET top     == e.boards[b].pos[1]
             split   == SplitBoard(e, b, t)
             left    == [split EXCEPT !.boards = Restrict(@, DOMAIN @ \ {b}),
                                      !.member = Restrict(@, DOMAIN @ \ {top})]
             sponsor == IF top \in DOMAIN e.sponsor THEN e.sponsor[top] ELSE top
             to      == ReEntryBoard(left, sponsor)
             told    == [ReEnter(left, top, to, t) EXCEPT !.events = Append(@, [board |-> b, member |-> top])]
             next    == <<to>> \o [k \in 1..Width |-> e.nextSeq + k - 1]
         IN  FoldLeft(LAMBDA x, c : ProcessCycles(x, c, t, depth + 1), told, next)

DrainFullBoards(e, t) ==
    LET full == {b \in DOMAIN e.boards : IsFull(e.boards[b])}
    IN  FoldLeft(LAMBDA x, b : ProcessCycles(x, b, t, 0), e,
                 SetToSortSeq(full, LAMBDA a, b : Older(e.boards[a], e.boards[b])))

SeatAndCycle(e, u, b, t) == ProcessCycles(Seat(e, u, b, t), b, t, 0)

PlaceDisplacedMembers(e, t) ==
    FoldLeft(LAMBDA x, u :
                LET b == OldestBoardWithOpening(x)
                IN  IF b = NoBoard THEN [x EXCEPT !.displaced = Append(@, u)]
                    ELSE SeatAndCycle(x, u, b, t),
             [e EXCEPT !.displaced = <<>>], e.displaced)

(***************************************************************************)
(* Operations.                                                             *)
(***************************************************************************)
Seated(e) == DOMAIN e.member
Known(e) == Seated(e) \cup Range(e.displaced)

(* Mutant: no look at the boards. *)
CheckAddMemberOnly(e, u, s) ==
    IF u \in Known(e) THEN "MEMBER_ALREADY_EXISTS"
    ELSE IF (Seated(e) # {} \/ DOMAIN e.sponsor # {}) /\ s \notin Known(e) THEN "SPONSOR_NOT_FOUND"
    ELSE "ok"

CheckAddMember(e, u, s) ==
    IF u \in Seated(e) THEN "MEMBER_ALREADY_EXISTS"
    ELSE IF u \in Range(e.displaced) THEN "MEMBER_AWAITING_REASSIGNMENT"
    ELSE IF (Seated(e) # {} \/ DOMAIN e.sponsor # {}) /\ s \notin Known(e) THEN "SPONSOR_NOT_FOUND"
    ELSE IF DOMAIN e.boards = {} THEN "NO_BOARDS_AVAILABLE"
    ELSE "ok"

(* What add_member has done when it looks for the member's board. *)
MakeRoom(e, u, s, t) ==
    PlaceDisplacedMembers(
        DrainFullBoards([e EXCEPT !.sponsor = (u :> s) @@ @, !.events = <<>>], t), t)

(* Mutant: the gap stays. *)
VacateOnly(b, u) == ReplaceAll(b.pos, u, None)

(* The positions with u taken off and the gap closed. *)
CompactBoard(b, u) == Packed(Remove(Members(b), u))

(* Takes u off their board, or out of the pool, and closes the gap. *)
TakeMemberOut(e, u, t) ==
    LET c    == IF u \in Seated(e) THEN ProcessCycles(e, e.member[u], t, 0) ELSE e
        b    == c.member[u]
    IN  IF u \notin Seated(c) THEN [c EXCEPT !.displaced = Remove(@, u)]
        ELSE [c EXCEPT !.boards[b].pos = CompactBoard(c.boards[b], u),
                       !.boards[b].active = t,
                       !.member = Restrict(@, DOMAIN @ \ {u})]

Init == \E t \in Times, config \in Configs :
    plan = [config |-> config, boards |-> (0 :> NewBoard(t, 0)), member |-> <<>>,
            sponsor |-> <<>>, displaced |-> <<>>, nextSeq |-> 1, events |-> <<>>]

AddMember(u, s, t) ==
    /\ CheckAddMember(plan, u, s) = "ok"
    /\ LET e == MakeRoom(plan, u, s, t)
           b == FindPlacementBoard(e, s)
       IN  plan' = IF b = NoBoard THEN e ELSE SeatAndCycle(e, u, b, t)

RemoveMember(u, t) ==
    /\ u \in Known(plan)
    /\ plan' = TakeMemberOut(DrainFullBoards([plan EXCEPT !.events = <<>>], t), u, t)

Dissolved(e, b, out) ==
    [e EXCEPT !.boards = Restrict(@, DOMAIN @ \ {b}), !.events = <<>>,
              !.member = Restrict(@, DOMAIN @ \ Range(out)), !.displaced = @ \o out]

DissolveBoard(b, t) ==
    /\ b \in DOMAIN plan.boards /\ ~IsFull(plan.boards[b])
    /\ plan' = DrainFullBoards(Dissolved(plan, b, Members(plan.boards[b])), t)

(* Members on no board when the call starts are skipped. *)
CompressInactive(us, t) ==
    /\ LET drained == DrainFullBoards([plan EXCEPT !.events = <<>>], t)
       IN  plan' = FoldLeft(LAMBDA x, u : IF u \in Known(x) THEN TakeMemberOut(x, u, t) ELSE x,
                            drained, SelectSeq(us, LAMBDA u : u \in Seated(plan)))

InBounds == plan'.nextSeq <= MaxSeq

Step(t) ==
    \/ \E u \in Users : AddMember(u, SponsorOf[u], t) /\ InBounds
    \/ \E u \in Users : RemoveMember(u, t) /\ InBounds
    \/ \E b \in DOMAIN plan.boards : DissolveBoard(b, t) /\ InBounds
    \/ \E u, v \in Users : CompressInactive(<<u, v>>, t) /\ InBounds

Next == \E t \in Times : Step(t)

Spec == Init /\ [][Next]_plan

(***************************************************************************)
(* Restore: what BoardPlanEngine::validate_restored demands of a payload.  *)
(* Its limit on the seq counter, half of u64, lies far beyond MaxSeq.      *)
(***************************************************************************)
FillsFromTop(b) == Members(b) = SubSeq(b.pos, 1, Len(Members(b)))

EngineRestores(e) ==
    /\ \A b \in DOMAIN e.boards : Len(e.boards[b].pos) = TotalPositions
    /\ \A b \in DOMAIN e.boards : IsInjective(Members(e.boards[b]))
    /\ \A b, c \in DOMAIN e.boards :
          b # c => Range(Members(e.boards[b])) \cap Range(Members(e.boards[c])) = {}
    /\ \A u \in Seated(e) :
          e.member[u] \in DOMAIN e.boards /\ u \in Range(e.boards[e.member[u]].pos)
    /\ \A b \in DOMAIN e.boards : \A u \in Range(Members(e.boards[b])) :
          u \in Seated(e) /\ e.member[u] = b
    /\ IsInjective(e.displaced) /\ Range(e.displaced) \cap Seated(e) = {}
    /\ \A b \in DOMAIN e.boards : FillsFromTop(e.boards[b])
    /\ \A b \in DOMAIN e.boards : e.boards[b].seq < e.nextSeq
    /\ IsInjective([b \in DOMAIN e.boards |-> e.boards[b].seq])

(***************************************************************************)
(* Cycle commissions of a period (commission/board_plan.rs).               *)
(***************************************************************************)
CountOf(counts, u) == IF u \in DOMAIN counts THEN counts[u] ELSE 0

(* Mutant: one cycle more is paid. *)
IsCappedLate(n, cap) == n > cap + 1

IsCapped(n, cap) == n > cap

CalculateBoardCommissions(events, counts, cap) ==
    FoldLeft(LAMBDA r, ev :
                LET n == CountOf(r.counts, ev.member) + 1
                IN  [counts   |-> (ev.member :> n) @@ r.counts,
                     earnings |-> Append(r.earnings,
                                    [earner |-> ev.member, number |-> n, capped |-> IsCapped(n, cap)])],
             [counts |-> counts, earnings |-> <<>>], events)

(***************************************************************************)
(* Properties.                                                             *)
(***************************************************************************)

(* Through every cascade, displacement and compaction a worker restores    *)
(* whatever a worker saved: nobody is seated twice, or seated and waiting. *)
RestoresItself == EngineRestores(plan)

(* max_cascade_depth bounds an operation: each cascade it starts (one for  *)
(* a board that was full, one for a member it seats or takes out) makes at *)
(* most that many cycles.  So it is for bounds of one and two, where a     *)
(* re-entry can fill only the board it enters; a deeper cascade could come *)
(* back to the boards an outer cycle made, and branch.                     *)
WithinCascadeBound(gone, come) ==
    LET full == {b \in DOMAIN plan.boards : IsFull(plan.boards[b])}
        seated == IF come = {} THEN Cardinality(gone) ELSE 1 + Len(plan.displaced)
    IN  Len(plan'.events) <= plan.config.maxCascade * (Cardinality(full) + seated)

(* A cascade ends and loses nobody: an operation makes no more cycles than *)
(* the bound on its cascades allows, a member leaves the plan only by      *)
(* being removed or compressed, and an add brings in the one it names.     *)
NobodyIsLost ==
    [][LET gone == Known(plan) \ Known(plan')
           come == Known(plan') \ Known(plan)
       IN  /\ gone # {} => come = {} /\ \E t \in Times, u, v \in gone :
                             \/ RemoveMember(u, t) /\ gone = {u}
                             \/ CompressInactive(<<u, v>>, t) /\ gone = {u, v}
           /\ \A u \in come : come = {u} /\ \E t \in Times : AddMember(u, SponsorOf[u], t)
           /\ plan.config.reEntry => WithinCascadeBound(gone, come)]_plan

(* An add that passes its checks seats its member: once the full boards    *)
(* have cycled there is an open position, and the error returns behind the *)
(* first change of state are never taken.                                  *)
AddsAreSeated ==
    \A u \in Users, t \in Times :
        CheckAddMember(plan, u, SponsorOf[u]) = "ok"
           => FindPlacementBoard(MakeRoom(plan, u, SponsorOf[u], t), SponsorOf[u]) # NoBoard

(* The commission of a period does not depend on how its cycle events are  *)
(* split into calculations, as long as each is given the counts the one    *)
(* before returned; and nobody is paid beyond the cap.                     *)
PayIgnoresBatches ==
    \A counts \in [{ev.member : ev \in Range(plan.events)} -> 0..1], cap \in 1..2, cut \in 0..Len(plan.events) :
        LET whole == CalculateBoardCommissions(plan.events, counts, cap)
            first == CalculateBoardCommissions(SubSeq(plan.events, 1, cut), counts, cap)
            rest  == CalculateBoardCommissions(SubSeq(plan.events, cut + 1, Len(plan.events)),
                                               first.counts, cap)
        IN  /\ whole = [counts |-> rest.counts, earnings |-> first.earnings \o rest.earnings]
            /\ \A u \in DOMAIN counts :
                  counts[u] + Cardinality({k \in DOMAIN whole.earnings :
                     whole.earnings[k].earner = u /\ ~whole.earnings[k].capped}) <= cap

=============================================================================
