---------------------------- MODULE MCCommissions ----------------------------
(***************************************************************************)
(* The plans and requests the commission calculators are checked on, and   *)
(* the numbers their decimals are.  The two share no state: plans are      *)
(* calculated with whole numbers while no decimal is asked for, decimals   *)
(* are asked for while one of the plans rests.                             *)
(***************************************************************************)
EXTENDS Commissions, Decimal

Ranks == 1 .. 3
Everyone == 1 .. 4
Active == [minimumPv |-> 1, requireOrder |-> FALSE, statuses |-> {}, tiers |-> <<>>]
Tiered == [minimumPv |-> 0, requireOrder |-> TRUE, statuses |-> {"active"},
           tiers |-> <<[legs |-> 0, depth |-> 1], [legs |-> 1, depth |-> 2], [legs |-> 2, depth |-> 0]>>]
Plan(eligibility) == [ranks |-> Ranks, minor |-> 4, eligibility |-> eligibility, paysInBase |-> TRUE,
                      amounts |-> {0, 8}, caps |-> [company |-> 5, perDistributor |-> 12]]
PlanCase(kind, eligibility, structure) == [kind |-> kind, plan |-> Plan(eligibility), structure |-> structure]

-----------------------------------------------------------------------------
(* Requests.  In OwnRecruits 1 has recruited everyone, the last placed     *)
(* first.                                                                  *)
Placed(parent) == [parent |-> parent, sponsor |-> parent, enrolled |-> [u \in DOMAIN parent |-> u],
                   width |-> 2, spillover |-> "balanced"]
Chain == Placed(<<0, 1, 2, 3>>)
Crossed == Placed(<<2, 4, 1, 0>>)
Branches == Placed(<<0, 1, 1, 3>>)
OwnRecruits == [Chain EXCEPT !.sponsor = <<0, 1, 1, 1>>, !.enrolled = <<0, 3, 2, 1>>]
Wide == [Chain EXCEPT !.width = 3]

(* 3 and 4 are on both streams, in either order; nobody but 3 is on the    *)
(* third.                                                                  *)
On(line) == [parent |-> [u \in Range(line) |-> LET i == CHOOSE j \in DOMAIN line : line[j] = u
                                               IN  IF i = 1 THEN Nobody ELSE line[i - 1]],
             sponsor |-> [u \in Range(line) |-> Nobody], enrolled |-> [u \in Range(line) |-> u]]
Stream(line, frozen) == [tree |-> On(line), frozen |-> frozen]
StreamSets == {<<Stream(<<1, 2, 3, 4>>, FALSE), Stream(<<2, 4, 3>>, FALSE), Stream(<<3>>, FALSE)>>,
               <<Stream(<<2, 1, 4>>, FALSE), Stream(<<1, 3, 2>>, TRUE)>>}

Profile(rank, pv) == [rank |-> rank, pv |-> pv, order |-> TRUE, status |-> "active"]
Snaps(ranks) == [Everyone -> {Profile(r, pv) : r \in ranks, pv \in {0, 2}}]
(* Someone without an order, of another status, outside the tree; and      *)
(* requests to refuse: a snapshot missing, an unknown rank, a negative     *)
(* volume.                                                                 *)
Regular == [u \in Everyone |-> Profile(4 - u \div 2, u)]
OddSnaps == {[Regular EXCEPT ![2].order = FALSE], [Regular EXCEPT ![2].status = "on_hold"],
             (5 :> Profile(3, 7)) @@ Regular,
             Restrict(Regular, {1, 2, 3}), [Regular EXCEPT ![1].rank = 9], [Regular EXCEPT ![3].pv = -1]}

From(sources) == [i \in DOMAIN sources |-> [source |-> sources[i], cv |-> 4 - i]]
Lists == {From(<<4>>), From(<<3, 4>>), From(<<4, 3, 4>>)}
BadLists == {<<[source |-> 4, cv |-> 1], [source |-> 3, cv |-> -1]>>, From(<<4, 9>>)}

-----------------------------------------------------------------------------
(* Structures. *)
Levels(depth) == [broad |-> 1, multiplier |-> 1, maxDepth |-> depth,
                  rates |-> [r \in {1, 3} |-> [n \in 1 .. 2 |-> r + n]]]
NoCompression == [mode |-> "none"]
SkipInactive == [mode |-> "skip_inactive"]
SkipBelow(rank) == [mode |-> "skip_below_rank", rank |-> rank]

Unilevel(depth, compression, count, commissions) ==
    [level |-> Levels(depth), compression |-> compression,
     passUp |-> [count |-> count, commissions |-> commissions]]
UnilevelCases ==
    {PlanCase("unilevel", Active, Unilevel(3, NoCompression, 1, FALSE)),
     PlanCase("unilevel", Active, Unilevel(2, SkipInactive, 0, FALSE)),
     PlanCase("unilevel", Tiered, Unilevel(3, SkipBelow(2), 1, TRUE)),
     PlanCase("unilevel", Tiered, Unilevel(1, SkipBelow(9), 0, FALSE)),
     \* plans that do not load: four times the volume, an unknown currency
     PlanCase("unilevel", Active, [Unilevel(2, NoCompression, 0, FALSE) EXCEPT !.level.broad = 4]),
     [PlanCase("unilevel", Active, Unilevel(2, NoCompression, 0, FALSE)) EXCEPT !.plan.minor = 0]}

MatrixCases ==
    {PlanCase("matrix", Tiered, [level |-> Levels(2), compression |-> SkipInactive, width |-> 2,
                             spillover |-> "balanced", height |-> h]) : h \in {1, 3}}

Generation(mode, rank, enabled, level, empty, ineligible, perRank) ==
    [generation |-> [maxGenerations |-> 2, maxPerRank |-> perRank, rates |-> <<3, 1, 2>>, mode |-> mode,
                     boundaryRank |-> rank, emptyConsumes |-> empty,
                     ineligibleCreatesBoundary |-> ineligible, multiplier |-> 2],
     levelsEnabled |-> enabled, level |-> level, compression |-> SkipInactive]
GenerationCases ==
    {PlanCase("generation", Active, Generation("threshold_rank", 2, TRUE, Levels(2), empty, ineligible, [r \in {3} |-> 3])) :
        empty \in BOOLEAN, ineligible \in BOOLEAN}
    \cup {PlanCase("generation", Active, Generation("same_rank", 9, on, Levels(2), TRUE, FALSE, [r \in {1} |-> 1])) :
        on \in BOOLEAN}
    \cup {PlanCase("generation", Active, Generation("threshold_rank", 9, TRUE, l, FALSE, TRUE, <<>>)) :
        l \in {Levels(2), NoLevels}}
    \cup {PlanCase("generation", Active, Generation("threshold_rank", 3, FALSE, NoLevels, FALSE, TRUE, <<>>))}

RankRates == [r \in {2, 3} |-> r]
Override1(mode, min, generations) == [mode |-> mode, rankRates |-> RankRates, minOverride |-> min,
                                      generations |-> generations]
Floor(rate, amount) == [rate |-> rate, amount |-> amount]
Generations == [boundaryRank |-> 2, max |-> 2, rates |-> <<9, 1>>]
TierRates == [mode |-> "multi_tier", tiers |-> <<[rate |-> 2, minSplitOuts |-> 1], [rate |-> 1, minSplitOuts |-> 0]>>]
Stairstep(threshold, overrides) ==
    [level |-> Levels(3), compression |-> NoCompression,
     breakaway |-> [threshold |-> threshold, overrides |-> overrides]]
StairstepCases ==
    {PlanCase("stairstep", Active, Stairstep(2, o)) :
        o \in {Override1("differential", Floor(0, 28), NoGenerations), Override1("fixed", Floor(0, 0), NoGenerations),
               Override1("differential", Floor(1, 0), Generations), TierRates}}
    \cup {PlanCase("stairstep", Active, Stairstep(9, TierRates))}

StreamLevels == {<<[level |-> 2, minRank |-> 2, percent |-> 1], [level |-> 1, minRank |-> 0, percent |-> 3]>>,
                 <<[level |-> 1, minRank |-> 3, percent |-> 3], [level |-> 2, minRank |-> 2, percent |-> 1]>>,
                 <<[level |-> 1, minRank |-> 9, percent |-> 1]>>,
                 <<[level |-> 2, minRank |-> 2, percent |-> 1]>>, <<>>}
StreamlineCases == {PlanCase("streamline", Active, [levels |-> l, maxDepth |-> 2, multiplier |-> 1]) :
                       l \in StreamLevels}

(* 1 has both legs, 2 on its left has both of its own.  One owner may hold *)
(* 1, 2 and 3.                                                             *)
TwoLegs == [slots |-> <<<<2, 3>>, <<4, 5>>, <<0, 0>>, <<0, 0>>, <<0, 0>>>>]
PowerLeg == [slots |-> <<<<2, 0>>, <<3, 4>>, <<5, 0>>, <<0, 0>>, <<0, 0>>>>]
OwnerMaps == {{}, {<<>>}, {[p \in 1 .. 3 |-> 1]}}
BinarySnaps == {[u \in 1 .. 5 |-> Profile(1, IF u \in idle THEN 0 ELSE 2)] : idle \in SUBSET {1, 2}}
BinaryLists == {<<>>, <<[source |-> 4, cv |-> 3], [source |-> 5, cv |-> 1]>>, <<[source |-> 3, cv |-> 2]>>,
                <<[source |-> 5, cv |-> 1], [source |-> 3, cv |-> 2], [source |-> 4, cv |-> 2], [source |-> 5, cv |-> 1]>>}

Pairing(calculation, after, cap, carryCap, aggregate) ==
    [mode |-> "pairing", percent |-> 3, multiplier |-> 1, calculation |-> calculation,
     afterPayout |-> after, cap |-> cap, carryCap |-> carryCap, aggregate |-> aggregate]
Cycles(steps, after, cap, carryCap, aggregate) ==
    [mode |-> "cycle_step", steps |-> steps, multiplier |-> 1, afterPayout |-> after, cap |-> cap, carryCap |-> carryCap,
     aggregate |-> aggregate]
Steps == <<[threshold |-> 3, amount |-> 8], [threshold |-> 1, amount |-> 4]>>
BinaryCases ==
    {PlanCase("binary", Active, s) : s \in
        {Pairing("weaker_leg", "net_off", NoCap, NoCap, FALSE), Pairing("volume_ratio", "carry_forward", 8, 3, TRUE),
         Pairing("weaker_leg", "carry_forward", 4, NoCap, FALSE), Pairing("weaker_leg", "full_flush", 12, NoCap, TRUE),
         Cycles(Steps, "carry_forward", NoCap, NoCap, FALSE), Cycles(Steps, "full_flush", 8, 4, TRUE),
         Cycles(Steps, "carry_forward", 8, NoCap, FALSE), Cycles(Steps, "full_flush", NoCap, NoCap, FALSE),
         \* refused: a cap below zero or of part of a minor unit, a rate above the
         \* whole, no steps, steps that net off
         Pairing("weaker_leg", "net_off", -4, NoCap, FALSE), Pairing("weaker_leg", "net_off", 3, NoCap, FALSE),
         [Pairing("weaker_leg", "net_off", NoCap, NoCap, FALSE) EXCEPT !.percent = Whole + 1],
         Cycles(<<>>, "full_flush", NoCap, NoCap, FALSE), Cycles(Steps, "net_off", NoCap, NoCap, FALSE)}}

RequestTrees == [unilevel |-> {Chain, Crossed, OwnRecruits}, matrix |-> {Branches, Wide},
                 generation |-> {Crossed}, stairstep |-> {Chain, Branches}, streamline |-> StreamSets,
                 binary |-> {TwoLegs, PowerLeg}]
RequestSnapshots ==
    [unilevel |-> Snaps({1, 3}) \cup OddSnaps, matrix |-> Snaps({3}) \cup OddSnaps,
     generation |-> Snaps(Ranks) \cup OddSnaps, stairstep |-> Snaps(Ranks) \cup OddSnaps,
     streamline |-> Snaps(Ranks) \cup OddSnaps, binary |-> BinarySnaps]
RequestVolumes ==
    [kind \in {"unilevel", "matrix", "generation", "stairstep", "streamline"} |-> Lists \cup BadLists]
    @@ [binary |-> BinaryLists \cup BadLists]

PlanCases == UnilevelCases \cup MatrixCases \cup GenerationCases \cup StairstepCases
             \cup StreamlineCases \cup BinaryCases

-----------------------------------------------------------------------------
(* Numbers around every limit of the scaled-down decimals: coefficients    *)
(* below 200, three places, quotients at one.                              *)
Operands == {Dec(m, s) : m \in {0, 1, -1, 2, -3, 5, -5, 7, 10, -10, 25, 30, 32, 50, 100, 123, -128, 199, -199},
                         s \in 0 .. MaxScale}
Summands == {Dec(0, 0), Dec(1, 0), Dec(-7, 1), Dec(5, 1), Dec(199, 0), Dec(-199, 0), Dec(199, 1), Dec(10, 1),
             Dec(32, 2), Dec(-199, 2), Dec(-1, 3), Dec(100, 3)}
Ratios == {Dec(0, 0), Dec(1, 0), Dec(2, 0), Dec(3, 0), Dec(7, 1), Dec(-5, 1), Dec(19, 0), Dec(13, 1)}
Written == [digits : {0, 1, 5, 10, 49, 50, 199, 200, 640, 6400, 123456}, places : 0 .. 2,
            exponent : {-7, 7} \cup -4 .. 4, negative : BOOLEAN, json : {TRUE}]
           \cup [digits : {1}, places : {0}, exponent : {0}, negative : {FALSE}, json : {FALSE}]

Resting == case = (CHOOSE c \in BinaryCases : TRUE) /\ request = None

InitAll == Init /\ DecimalInit
NextAll ==
    \/ Idle /\ Next /\ UNCHANGED <<asked, given>>
    \/ Resting /\ DecimalNext /\ UNCHANGED <<case, request, result, ledger>>
SpecAll == InitAll /\ [][NextAll]_<<vars, decimalVars>>

=============================================================================
