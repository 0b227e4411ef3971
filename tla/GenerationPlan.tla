--------------------------- MODULE GenerationPlan ---------------------------
(***************************************************************************)
(* Generation commissions (commission/generation.rs): a source's volume    *)
(* pays the leaders above it by generation, one boundary leader to each.   *)
(* The count of generations is shared with the stairstep overrides.        *)
(***************************************************************************)
EXTENDS LevelWalk

EarnerMaxGenerations(rank, g) ==
    IF rank \in DOMAIN g.maxPerRank THEN g.maxPerRank[rank] ELSE g.maxGenerations

WalkDepth(g) == Max({g.maxGenerations} \cup Range(g.maxPerRank))

AtOrAbove(snaps, rank) == {u \in DOMAIN snaps : snaps[u].rank >= rank}

(* One node of the upline: only those of `leaders` matter, and of them the *)
(* ones that are no boundary use up a generation only if `consumes`.       *)
VisitLeader(leaders, boundary, max, consumes, w, node) ==
    LET step(outcome) == [node |-> node, outcome |-> outcome]
    IN  IF w.stop # "root" THEN w
        ELSE IF w.gen >= max THEN [w EXCEPT !.stop = "max_generations", !.at = node]
        ELSE IF node \in leaders /\ node \in boundary
        THEN [w EXCEPT !.gen = @ + 1, !.steps = Append(@, step("paid")),
                       !.entries = Append(@, [earner |-> node, generation |-> w.gen + 1])]
        ELSE IF node \in leaders /\ consumes
        THEN [w EXCEPT !.gen = @ + 1, !.steps = Append(@, step("forfeited"))]
        ELSE w

CountGenerationsUpward(t, start, leaders, boundary, max, consumes) ==
    FoldLeft(LAMBDA w, node : VisitLeader(leaders, boundary, max, consumes, w, node),
             [gen |-> 0, steps |-> <<>>, entries |-> <<>>, stop |-> "root", at |-> Nobody],
             IF start \in Members(t) THEN Upline(t, start) ELSE <<>>)

EmitGenerationEarnings(entries, v, g, elig, id) ==
    LET rate(n) == RateAt(<<g.rates>>, 1, n.generation)
        paid == SelectSeq(entries, LAMBDA n : elig[n.earner].eligible /\ rate(n) > 0)
    IN  [i \in DOMAIN paid |->
            [earner |-> paid[i].earner, source |-> v.source, level |-> paid[i].generation,
             rate |-> rate(paid[i]), cv |-> v.cv,
             amount |-> v.cv * g.multiplier * rate(paid[i]), walk |-> id]]

(* Who makes a boundary: every leader, or only the eligible ones. *)
BoundaryCheck(g, elig) ==
    {u \in DOMAIN elig : g.ineligibleCreatesBoundary \/ elig[u].eligible}

(* One traversal of one source, kept under the rank it was taken for (0    *)
(* for threshold_rank) and paid to the entries among `earners`.            *)
WalkGenerations(t, g, elig, snaps, leaders, max, rank, earners, sofar, v) ==
    LET id == Len(sofar.walks) + 1
        w == CountGenerationsUpward(t, v.source, leaders, BoundaryCheck(g, elig), max, g.emptyConsumes)
        mine == SelectSeq(w.entries, LAMBDA n : <<n.earner, n.generation>> \in earners)
    IN  [sofar EXCEPT !.walks = Append(@, WalkRecord(id, v.source, 1, 0, rank, w)),
                      !.earnings = @ \o EmitGenerationEarnings(mine, v, g, elig, id)]

ThresholdRank(t, g, elig, snaps, volume, sofar) ==
    LET leaders == AtOrAbove(snaps, g.boundaryRank)
        max == WalkDepth(g)
        earners == {<<u, n>> \in (DOMAIN snaps) \X (1 .. max) :
                       n <= EarnerMaxGenerations(snaps[u].rank, g)}
    IN  FoldLeft(LAMBDA acc, v :
            WalkGenerations(t, g, elig, snaps, leaders, max, 0, earners, acc, v), sofar, volume)

SameRank(t, g, elig, snaps, volume, sofar) ==
    LET held == SetToSortSeq({snaps[u].rank : u \in DOMAIN snaps}, <)
        max(rank) == EarnerMaxGenerations(rank, g)
        earners(rank) == {u \in DOMAIN snaps : snaps[u].rank = rank} \X (1 .. max(rank))
    IN  FoldLeft(LAMBDA acc, rank : FoldLeft(LAMBDA inner, v :
            WalkGenerations(t, g, elig, snaps, AtOrAbove(snaps, rank), max(rank), rank,
                            earners(rank), inner, v), acc, volume), sofar, held)

(* The level commissions of a structure that states none. *)
NoLevels == <<>>

(* Level commissions, when they are enabled, share the collector.  Every  *)
(* source is checked before a boundary rank the plan does not define can   *)
(* end the calculation.                                                    *)
CalculateGeneration(t, plan, s, snaps, volume) ==
    LET g == s.generation
        fault == FirstOf(PlanMinorUnits(plan), ValidateSnapshots(plan, snaps, Members(t)))
        elig == EvaluateEligibility(snaps, t, plan.eligibility)
        c == LevelConfig(plan, s.level, s.level.maxDepth, s.compression, NoPassUp(t))
        levels == CASE ~s.levelsEnabled -> NothingYet
                    [] s.levelsEnabled /\ s.level = NoLevels -> [NothingYet EXCEPT !.fault.error = "ConfigError"]
                    [] s.levelsEnabled /\ s.level # NoLevels ->
                          WalkLevelCommissions(c, elig, snaps, t, volume, {}, 0, NothingYet)
        checked == FoldLeft(LAMBDA acc, v : [acc EXCEPT !.fault =
                       FirstOf(@, ValidateSource(Members(t), snaps, v))], levels, volume)
    IN  IF fault # Ok THEN [NothingYet EXCEPT !.fault = fault]
        ELSE IF checked.fault # Ok THEN [NothingYet EXCEPT !.fault = checked.fault]
        ELSE IF g.mode = "same_rank"
             THEN Assemble(SameRank(t, g, elig, snaps, volume, levels), volume, plan)
        ELSE IF g.boundaryRank \in plan.ranks
             THEN Assemble(ThresholdRank(t, g, elig, snaps, volume, levels), volume, plan)
        ELSE Assemble(levels, volume, plan)

=============================================================================
