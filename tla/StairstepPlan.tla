---------------------------- MODULE StairstepPlan ----------------------------
(***************************************************************************)
(* Stairstep breakaway commissions (commission/stairstep.rs): level        *)
(* commissions inside a group, overrides on the volume of the groups that  *)
(* have broken away.  An override carries no walk.                         *)
(***************************************************************************)
EXTENDS GenerationPlan

IdentifyBreakaways(plan, s, snaps) ==
    IF s.breakaway.threshold \in plan.ranks THEN AtOrAbove(snaps, s.breakaway.threshold) ELSE {}

(* The nearest breakaway at or above u, else the root. *)
FindGroupLeader(t, u, breakaways) ==
    LET line == <<u>> \o (IF u \in Members(t) THEN Upline(t, u) ELSE <<>>)
        met == {i \in DOMAIN line : line[i] \in breakaways}
    IN  IF met = {} THEN Last(line) ELSE line[Min(met)]

GroupLeaders(t, snaps, breakaways) == [u \in DOMAIN snaps |-> FindGroupLeader(t, u, breakaways)]

GroupVolume(leaders, snaps, leader) ==
    SumFunctionOnSet([u \in DOMAIN snaps |-> snaps[u].pv], {u \in DOMAIN leaders : leaders[u] = leader})

(* The breakaways whose nearest breakaway-or-root ancestor is u. *)
CountFirstLineSplitOuts(t, breakaways, u) ==
    Cardinality({b \in breakaways \cap Members(t) :
        t.parent[b] # Nobody /\ FindGroupLeader(t, t.parent[b], breakaways) = u})

-----------------------------------------------------------------------------
(* What the first generation above a breakaway earns: a rate of the pool,  *)
(* a fixed amount, or nothing.                                             *)

Nothing == [rate |-> 0, amount |-> 0]

NoGenerations == [boundaryRank |-> 0]

ResolveGen1Payout(o, ancestorRank, breakawayRank) ==
    LET rateOf(rank) == IF rank \in DOMAIN o.rankRates THEN o.rankRates[rank] ELSE 0
        gap == rateOf(ancestorRank) - rateOf(breakawayRank)
    IN  IF o.mode = "fixed" THEN [Nothing EXCEPT !.rate = rateOf(ancestorRank)]
        ELSE IF gap > 0 THEN [Nothing EXCEPT !.rate = gap]
        ELSE IF rateOf(ancestorRank) > 0 THEN o.minOverride
        ELSE Nothing

(* A fixed amount larger than the pool is not paid. *)
Earns(payout, pool) == payout.rate > 0 \/ (payout.amount > 0 /\ payout.amount <= pool * Whole)

PayoutAmount(payout, pool) == IF payout.rate > 0 THEN pool * payout.rate ELSE payout.amount

Override(earner, b, level, rate, volume, amount) ==
    [earner |-> earner, source |-> b, level |-> level, rate |-> rate, cv |-> volume,
     amount |-> amount, walk |-> Nobody]

(* With the break of the climb lost: everyone above earns.                 *)
OverridesAllTheWay(t, s, snaps, elig, volume, b) ==
    LET o == s.breakaway.overrides
        pool == volume * s.level.broad * s.level.multiplier
        gen1(u) == ResolveGen1Payout(o, snaps[u].rank, snaps[b].rank)
        earning == SelectSeq(IF b \in Members(t) THEN Upline(t, b) ELSE <<>>,
                             LAMBDA u : elig[u].eligible /\ Earns(gen1(u), pool))
    IN  [i \in DOMAIN earning |-> Override(earning[i], b, 1, gen1(earning[i]).rate, volume,
                                           PayoutAmount(gen1(earning[i]), pool))]

(* The overrides on one breakaway's group.  Without generations the first  *)
(* ancestor that earns anything ends the climb.                            *)
SingleOverrides(t, s, snaps, elig, volume, b) ==
    LET o == s.breakaway.overrides
        pool == volume * s.level.broad * s.level.multiplier
        up == IF b \in Members(t) THEN Upline(t, b) ELSE <<>>
        gen1(u) == ResolveGen1Payout(o, snaps[u].rank, snaps[b].rank)
        earning == SelectSeq(up, LAMBDA u : elig[u].eligible /\ Earns(gen1(u), pool))
        first == SubSeq(earning, 1, Min({1, Len(earning)}))
    IN  [i \in DOMAIN first |-> Override(first[i], b, 1, gen1(first[i]).rate, volume,
                                         PayoutAmount(gen1(first[i]), pool))]

GenerationOverrides(t, s, snaps, elig, volume, b) ==
    LET o == s.breakaway.overrides
        pool == volume * s.level.broad * s.level.multiplier
        payout(n) == IF n.generation = 1
                     THEN ResolveGen1Payout(o, snaps[n.earner].rank, snaps[b].rank)
                     ELSE [Nothing EXCEPT !.rate = RateAt(<<o.generations.rates>>, 1, n.generation)]
        climbed == CountGenerationsUpward(t, b, AtOrAbove(snaps, o.generations.boundaryRank),
                                          DOMAIN snaps, o.generations.max, FALSE)
        paid == SelectSeq(climbed.entries, LAMBDA n : elig[n.earner].eligible /\ Earns(payout(n), pool))
    IN  [i \in DOMAIN paid |-> Override(paid[i].earner, b, paid[i].generation, payout(paid[i]).rate,
                                        volume, PayoutAmount(payout(paid[i]), pool))]

QualifiesForTier(n, floor, tier, elig, splitOuts) ==
    n.generation >= floor /\ elig[n.earner].eligible /\ splitOuts[n.earner] >= tier.minSplitOuts

(* Each tier of the ladder pays its nearest qualifying breakaway ancestor. *)
MultiTierOverrides(t, s, snaps, elig, breakaways, volume, b) ==
    LET tiers == s.breakaway.overrides.tiers
        splitOuts == [u \in DOMAIN snaps |-> CountFirstLineSplitOuts(t, breakaways, u)]
        ancestors == CountGenerationsUpward(t, b, breakaways, DOMAIN snaps, 255, FALSE).entries
        qualifying(k) == SelectSeq(ancestors, LAMBDA n : QualifiesForTier(n, k, tiers[k], elig, splitOuts))
        paying == SelectSeq([k \in DOMAIN tiers |-> k], LAMBDA k : qualifying(k) # <<>>)
    IN  [i \in DOMAIN paying |->
            LET k == paying[i]
            IN  Override(Head(qualifying(k)).earner, b, k, tiers[k].rate, volume,
                         volume * s.level.multiplier * tiers[k].rate)]

WalkOverrides(t, plan, s, snaps, elig, breakaways, leaders) ==
    LET o == s.breakaway.overrides
        of(b) == LET volume == GroupVolume(leaders, snaps, b)
                 IN  IF volume <= 0 THEN <<>>
                     ELSE IF o.mode = "multi_tier"
                     THEN MultiTierOverrides(t, s, snaps, elig, breakaways, volume, b)
                     ELSE IF o.generations.boundaryRank \in plan.ranks
                     THEN GenerationOverrides(t, s, snaps, elig, volume, b)
                     ELSE SingleOverrides(t, s, snaps, elig, volume, b)
    IN  FoldLeft(LAMBDA all, b : all \o of(b), <<>>, SetToSortSeq(breakaways, <))

(* Walk 1 is taken source by source: it stops at the first ancestor of     *)
(* another group than the source's.                                        *)
WalkInGroup(c, t, snaps, elig, leaders, sofar, v) ==
    LET leader == IF v.source \in DOMAIN leaders THEN leaders[v.source] ELSE v.source
        stops == {u \in DOMAIN leaders : leaders[u] # leader}
    IN  WalkSource(c, elig, snaps, t, stops, 0, sofar, v)

CalculateStairstep(t, plan, s, snaps, volume) ==
    LET fault == FirstOf(PlanMinorUnits(plan), ValidateSnapshots(plan, snaps, Members(t)))
        elig == EvaluateEligibility(snaps, t, plan.eligibility)
        breakaways == IdentifyBreakaways(plan, s, snaps)
        leaders == GroupLeaders(t, snaps, breakaways)
        c == LevelConfig(plan, s.level, s.level.maxDepth, s.compression, NoPassUp(t))
        walked == FoldLeft(LAMBDA acc, v : WalkInGroup(c, t, snaps, elig, leaders, acc, v),
                           NothingYet, volume)
        overrides == WalkOverrides(t, plan, s, snaps, elig, breakaways, leaders)
    IN  IF fault # Ok THEN [NothingYet EXCEPT !.fault = fault]
        ELSE Assemble([walked EXCEPT !.earnings = @ \o overrides], volume, plan)

=============================================================================
