--------------------------- MODULE RankEvaluation ---------------------------
(***************************************************************************)
(* The engine's rank evaluation: which rank of the plan's ladder every     *)
(* distributor holds in a period.  A ladder is a sequence of ranks, a tree *)
(* maps its members to their parents, and inputs are what one request      *)
(* brings: distributors, volume, the axis of earlier periods (latest       *)
(* first) and the ordinals achieved in them.  An optional requirement is a *)
(* sequence of at most one.  Volumes are whole numbers, a leg fraction is  *)
(* in hundredths, and ordinal 0 stands for "not ranked yet".               *)
(***************************************************************************)
EXTENDS Integers, Sequences, FiniteSets, Functions, FiniteSetsExt, SequencesExt

CONSTANT NoParent

Sorted(ladder) == SortSeq(ladder, LAMBDA a, b : a.ordinal < b.ordinal)
Base(ladder) == Head(Sorted(ladder))
AboveLowest(ladder) == Tail(Sorted(ladder))

StructuresOf(rank) == {sq.structure : sq \in Range(rank.structures)}
StructuresAboveLowestRank(ladder) == UNION {StructuresOf(r) : r \in Range(AboveLowest(ladder))}

(* The rank-ladder part of CompensationPlan::validate.  Which ranks and    *)
(* structures a rank refers to is not looked at.                           *)
AsksForNothing(rank) ==
    /\ rank.products = {} /\ rank.window = <<>> /\ rank.tenure = <<>>
    /\ \A sq \in Range(rank.structures) :
          /\ sq.pv = 0 /\ sq.gv = 0 /\ sq.retail = 0
          /\ sq.count = <<>> /\ sq.legs = <<>>

CapsAreValid(rank) ==
    \A sq \in Range(rank.structures) :
        sq.cap >= 0 /\ sq.fraction \in 0 .. 100 /\ (sq.cap = 0 \/ sq.fraction = 0)

VolumesAreValid(rank) ==
    \A sq \in Range(rank.structures) :
        /\ sq.pv >= 0 /\ sq.gv >= 0 /\ sq.retail >= 0
        /\ \A req \in Range(sq.count) : req.minLegVolume >= 0
        /\ \A req \in Range(sq.legs) : req.kind = "pv" => req.minPv >= 0

LadderIsValid(ladder) ==
    /\ ladder # <<>> /\ AsksForNothing(ladder[1])
    /\ \A i \in DOMAIN ladder : ladder[i].name # "" /\ ladder[i].ordinal >= 1
    /\ \A i, j \in DOMAIN ladder :
          i < j => ladder[i].ordinal < ladder[j].ordinal /\ ladder[i].name # ladder[j].name
    /\ \A r \in Range(ladder) : VolumesAreValid(r) /\ CapsAreValid(r)

(***************************************************************************)
(* What the predicates read: the trees and the volume index.               *)
(***************************************************************************)
Children(tree, u) == {c \in DOMAIN tree : tree[c] = u}

Level(tree, u) ==
    LET At[k \in 0 .. Cardinality(DOMAIN tree)] ==
            IF k = 0 THEN {u} ELSE UNION {Children(tree, c) : c \in At[k - 1]}
    IN  At

(* get_downline: depth 0 is unbounded. *)
Downline(tree, u, depth) ==
    LET size == Cardinality(DOMAIN tree)
        deepest == IF depth = 0 THEN size ELSE Min({depth, size})
    IN  UNION {Level(tree, u)[k] : k \in 1 .. deepest}

Leg(tree, u) == {u} \cup Downline(tree, u, 0)

DepthIn(tree, u) == CHOOSE k \in 0 .. Cardinality(DOMAIN tree) :
    \E r \in DOMAIN tree : tree[r] = NoParent /\ u \in Level(tree, r)[k]

CvFor(volume, u) == SumFunctionOnSet([i \in DOMAIN volume |-> volume[i].cv],
                                     {i \in DOMAIN volume : volume[i].source = u})
LegVolume(tree, volume, u) ==
    SumFunctionOnSet([v \in DOMAIN tree |-> CvFor(volume, v)], Leg(tree, u))

IsNamed(ladder, name) == \E r \in Range(ladder) : r.name = name
OrdinalOf(ladder, name) == (CHOOSE r \in Range(ladder) : r.name = name).ordinal

(***************************************************************************)
(* The predicates.  Each answers "yes", "no", or the error it raises.      *)
(***************************************************************************)
Met(condition) == IF condition THEN "yes" ELSE "no"

FirstUnmet(outcomes) ==
    IF \A i \in DOMAIN outcomes : outcomes[i] = "yes" THEN "yes"
    ELSE Head(SelectSeq(outcomes, LAMBDA o : o # "yes"))

EffectiveLegCap(sq) == IF sq.cap > 0 THEN sq.cap ELSE (sq.fraction * sq.gv) \div 100

Capped(volume, cap) == IF cap > 0 /\ volume > cap THEN cap ELSE volume

CappedGvMeets(sq, u, tree, inputs) ==
    LET Counted(c) == Capped(LegVolume(tree, inputs.volume, c), EffectiveLegCap(sq))
    IN  inputs.distributors[u].pv + MapThenSumSet(Counted, Children(tree, u)) >= sq.gv

Holds(already, n, ordinal) == already[n] # 0 /\ already[n] >= ordinal

EnoughDistributors(req, scope, tree, already, ordinal, volume) ==
    /\ Cardinality(scope) >= req.total
    /\ Cardinality({n \in scope : /\ Holds(already, n, ordinal)
                                  /\ LegVolume(tree, volume, n) >= req.minLegVolume}) >= req.count

DistributorCountMeets(req, u, tree, already, ladder, inputs) ==
    IF ~IsNamed(ladder, req.minRank) THEN "UnknownMinRank"
    ELSE Met(EnoughDistributors(req, Downline(tree, u, req.depth), tree, already,
                                OrdinalOf(ladder, req.minRank), inputs.volume))

NodeMatches(req, n, already, ladder, inputs) ==
    IF req.kind = "rank"
    THEN Holds(already, n, OrdinalOf(ladder, req.minRank))
    ELSE n \in DOMAIN inputs.distributors /\ inputs.distributors[n].pv >= req.minPv

LegQualityMeets(req, u, tree, already, ladder, inputs) ==
    IF req.count = 0 THEN "yes"
    ELSE IF req.count > Cardinality(Children(tree, u)) THEN "no"
    ELSE IF req.kind = "rank" /\ ~IsNamed(ladder, req.minRank) THEN "UnknownMinRank"
    ELSE Met(Cardinality({c \in Children(tree, u) : \E n \in Leg(tree, c) :
                             NodeMatches(req, n, already, ladder, inputs)}) >= req.count)

InTreeMeets(sq, u, tree, already, ladder, inputs) ==
    IF u \notin DOMAIN tree THEN "DistributorNotInTree"
    ELSE IF inputs.distributors[u].pv < sq.pv \/ inputs.distributors[u].retail < sq.retail
            \/ ~CappedGvMeets(sq, u, tree, inputs) THEN "no"
    ELSE FirstUnmet(
            [i \in DOMAIN sq.count |->
                DistributorCountMeets(sq.count[i], u, tree, already, ladder, inputs)]
            \o [i \in DOMAIN sq.legs |->
                LegQualityMeets(sq.legs[i], u, tree, already, ladder, inputs)])

StructureMeets(sq, u, already, ladder, trees, inputs) ==
    IF sq.structure \notin DOMAIN trees THEN "UnknownStructure"
    ELSE InTreeMeets(sq, u, trees[sq.structure], already, ladder, inputs)

AchievedAtLeast(ordinal, u, period, inputs) ==
    /\ u \in DOMAIN inputs.history /\ period \in DOMAIN inputs.history[u]
    /\ inputs.history[u][period] >= ordinal

(* windowed_meets and tenure_meets: a tenure of X periods is a window in   *)
(* which X of the last X periods count.                                    *)
WindowedMeets(gate, u, ladder, inputs) ==
    IF ~IsNamed(ladder, gate.threshold) THEN "UnknownThresholdRank"
    ELSE Met(/\ Len(inputs.axis) >= gate.periods
             /\ Cardinality({i \in 1 .. gate.periods :
                    AchievedAtLeast(OrdinalOf(ladder, gate.threshold), u, inputs.axis[i], inputs)})
                >= gate.qualifying)

TenureMeets(gate, u, ladder, inputs) ==
    WindowedMeets([threshold |-> gate.threshold, periods |-> gate.periods,
                   qualifying |-> gate.periods], u, ladder, inputs)

Satisfies(rank, u, already, ladder, trees, inputs) ==
    IF rank.products # {} /\ rank.products \cap inputs.distributors[u].products = {} THEN "no"
    ELSE FirstUnmet(
            [i \in DOMAIN rank.structures |->
                StructureMeets(rank.structures[i], u, already, ladder, trees, inputs)]
            \o [i \in DOMAIN rank.window |-> WindowedMeets(rank.window[i], u, ladder, inputs)]
            \o [i \in DOMAIN rank.tenure |-> TenureMeets(rank.tenure[i], u, ladder, inputs)])

(***************************************************************************)
(* The ladder and the fixpoint.                                            *)
(***************************************************************************)
(* The highest rank met, the lowest when none is, or the first error. *)
Ascend(ladder, higher, outcomes) ==
    IF \E i \in DOMAIN outcomes : outcomes[i] \notin {"yes", "no"}
    THEN [error |-> Head(SelectSeq(outcomes, LAMBDA o : o \notin {"yes", "no"})), ordinal |-> 0]
    ELSE [error |-> "", ordinal |-> Max({Base(ladder).ordinal} \cup
                                        {higher[i].ordinal : i \in {j \in DOMAIN outcomes : outcomes[j] = "yes"}})]

EvaluateDistributor(u, already, ladder, trees, inputs) ==
    LET higher == AboveLowest(ladder)
    IN  Ascend(ladder, higher,
               [i \in DOMAIN higher |-> Satisfies(higher[i], u, already, ladder, trees, inputs)])

(* evaluation_order_for_users: deepest first over all trees, then by id. *)
EvaluationOrder(trees, users) ==
    LET placed == {u \in users : \E t \in Range(trees) : u \in DOMAIN t}
        deepest == [u \in placed |->
                       Max({DepthIn(t, u) : t \in {x \in Range(trees) : u \in DOMAIN x}})]
    IN  SetToSortSeq(placed, LAMBDA a, b :
            deepest[a] > deepest[b] \/ (deepest[a] = deepest[b] /\ a < b))

(* Mutant: a change that does not ask for another pass. *)
RecordQuietly(pass, u, e) ==
    IF e.error # "" THEN [pass EXCEPT !.error = e.error] ELSE [pass EXCEPT !.already[u] = e.ordinal]

Record(pass, u, e) ==
    IF e.error # "" THEN [pass EXCEPT !.error = e.error]
    ELSE IF e.ordinal = pass.already[u] THEN pass
    ELSE [pass EXCEPT !.already[u] = e.ordinal, !.changed = TRUE]

EvaluateNext(pass, u, ladder, trees, inputs) ==
    IF pass.error # "" THEN pass
    ELSE Record(pass, u, EvaluateDistributor(u, pass.already, ladder, trees, inputs))

RunPass(pass, order, ladder, trees, inputs) ==
    FoldLeft(LAMBDA p, u : EvaluateNext(p, u, ladder, trees, inputs),
             [pass EXCEPT !.changed = FALSE], order)

MaxPasses(order, ladder) == Len(order) * (Len(ladder) + 1) + 1

Settled(pass) == IF pass.error = "" /\ pass.changed
                 THEN [pass EXCEPT !.error = "RankEvaluationDidNotConverge"] ELSE pass

IterateToFixpoint(order, ladder, trees, inputs) ==
    LET start == [already |-> [u \in DOMAIN inputs.distributors |-> 0],
                  error |-> "", changed |-> TRUE]
    IN  Settled(FoldLeft(LAMBDA p, k : IF p.changed /\ p.error = ""
                                       THEN RunPass(p, order, ladder, trees, inputs) ELSE p,
                         start, [k \in 1 .. MaxPasses(order, ladder) |-> k]))

Refused(error) == [error |-> error, ranks |-> <<>>]

(* Everyone the fixpoint did not rank holds the lowest rank. *)
WithBase(end, ladder) ==
    IF end.error # "" THEN Refused(end.error)
    ELSE [error |-> "",
          ranks |-> [u \in DOMAIN end.already |->
                        IF end.already[u] = 0 THEN Base(ladder).ordinal ELSE end.already[u]]]

EveryMemberIsKnown(trees, inputs) ==
    \A t \in Range(trees) : DOMAIN t \subseteq DOMAIN inputs.distributors

EvaluateRanks(ladder, trees, inputs) ==
    IF /\ inputs.axis = <<>>
       /\ \E r \in Range(AboveLowest(ladder)) : r.window # <<>> \/ r.tenure # <<>>
    THEN Refused("TimeGateWithoutHistory")
    ELSE IF ~EveryMemberIsKnown(trees, inputs) THEN Refused("DistributorNotInInputs")
    ELSE WithBase(IterateToFixpoint(EvaluationOrder(trees, DOMAIN inputs.distributors),
                                    ladder, trees, inputs), ladder)

(* handle_evaluate_ranks: ladder is <<>> while no plan is loaded, loaded   *)
(* maps the names of the worker's navigable structures to their trees.     *)
Respond(e) == IF e.error = "" THEN e ELSE Refused("EVALUATION_ERROR")

HandleEvaluateRanks(ladder, loaded, inputs) ==
    IF ladder = <<>> THEN Refused("NO_PLAN")
    ELSE IF ~(StructuresAboveLowestRank(ladder) \subseteq DOMAIN loaded)
    THEN Refused("STRUCTURE_NOT_FOUND")
    ELSE Respond(EvaluateRanks(ladder, Restrict(loaded, StructuresAboveLowestRank(ladder)), inputs))

(***************************************************************************)
(* What a ladder means, apart from orders and passes.  Ranks agree when    *)
(* every placed distributor holds the highest rank whose requirements they *)
(* meet given everyone's ranks, or the lowest; the true ranks are the      *)
(* least that agree.                                                       *)
(***************************************************************************)
HighestMet(u, ranks, ladder, trees, inputs) ==
    Max({Base(ladder).ordinal} \cup
        {r.ordinal : r \in {q \in Range(AboveLowest(ladder)) :
                               Satisfies(q, u, ranks, ladder, trees, inputs) = "yes"}})

Agree(ranks, ladder, trees, inputs) ==
    \A u \in DOMAIN ranks :
        ranks[u] = IF \E t \in Range(trees) : u \in DOMAIN t
                   THEN HighestMet(u, ranks, ladder, trees, inputs)
                   ELSE Base(ladder).ordinal

AreTrueRanks(ranks, ladder, loaded, inputs) ==
    LET trees == Restrict(loaded, StructuresAboveLowestRank(ladder))
        below == {lower \in [DOMAIN ranks -> {r.ordinal : r \in Range(ladder)}] :
                     lower # ranks /\ \A u \in DOMAIN ranks : lower[u] <= ranks[u]}
    IN  /\ DOMAIN ranks = DOMAIN inputs.distributors
        /\ Agree(ranks, ladder, trees, inputs)
        /\ \A lower \in below : ~Agree(lower, ladder, trees, inputs)

=============================================================================
