------------------------------ MODULE LevelWalk ------------------------------
(***************************************************************************)
(* The level-commission walk shared by the unilevel, matrix, stairstep,    *)
(* generation and streamline calculators (commission/walk.rs), the total   *)
(* order of a response's walks (walk_order.rs) and the rounding of its     *)
(* money (finalize.rs).                                                    *)
(*                                                                         *)
(* Distributors are numbers, in the order of their ids; 0 is "none".  A    *)
(* rank is its ordinal in the ladder: a plan whose ordinals repeat does    *)
(* not load.  A tree is a record of functions: parent, sponsor and the     *)
(* time of enrolment.  Rates are whole numbers of tenths and so are exact  *)
(* amounts; plan.minor of them make the currency's minor unit (0: the plan *)
(* names no known currency).  Amounts too large for a decimal are left out.*)
(***************************************************************************)
EXTENDS Integers, Sequences, FiniteSets, SequencesExt

Nobody == 0

(* The rate that pays all of the volume. *)
Whole == 10

Members(t) == DOMAIN t.parent

(* The ancestors of u, nearest first. *)
Upline(t, u) ==
    LET up[v \in Members(t)] ==
            IF t.parent[v] = Nobody THEN <<>> ELSE <<t.parent[v]>> \o up[t.parent[v]]
    IN  up[u]

Downline(t, u) == {v \in Members(t) : u \in Range(Upline(t, v))}

Sponsored(t, u) == {v \in Members(t) : t.sponsor[v] = u}

(* Ties go away from zero; no amount is negative. *)
RoundMinor(x, minor) == ((x + minor \div 2) \div minor) * minor

(* Lexicographic order of two tuples of numbers of one length. *)
Before(a, b) ==
    \E i \in DOMAIN a : a[i] < b[i] /\ \A j \in 1 .. i - 1 : a[j] = b[j]

-----------------------------------------------------------------------------
(* The checks of a calculation's input, each naming the lowest offender.   *)

Ok == [error |-> "none", id |-> Nobody]

Refused(error, ids) == IF ids = {} THEN Ok ELSE [error |-> error, id |-> Min(ids)]

FirstOf(a, b) == IF a # Ok THEN a ELSE b

PlanMinorUnits(plan) ==
    IF plan.minor = 0 THEN [error |-> "UnknownCurrency", id |-> Nobody] ELSE Ok

ValidateSnapshots(plan, snaps, required) ==
    LET ids == DOMAIN snaps
    IN  FirstOf(Refused("UnknownSnapshotRank", {u \in ids : snaps[u].rank \notin plan.ranks}),
        FirstOf(Refused("InvalidPersonalVolume", {u \in ids : snaps[u].pv < 0}),
                Refused("DistributorNotInSnapshot", required \ ids)))

ValidateSource(members, snaps, v) ==
    FirstOf(Refused("InvalidCvAmount", {u \in {v.source} : v.cv < 0}),
    FirstOf(Refused("SourceNotInTree", {v.source} \ members),
            Refused("SourceNotInSnapshot", {v.source} \ DOMAIN snaps)))

-----------------------------------------------------------------------------
(* Eligibility, and how deep a distributor may earn (0: no limit). *)

IsEligible(s, e) ==
    /\ s.pv >= e.minimumPv
    /\ e.requireOrder => s.order
    /\ e.statuses # {} => s.status \in e.statuses

CountActiveLegs(t, u, snaps, e) ==
    Cardinality({v \in Sponsored(t, u) : v \in DOMAIN snaps /\ IsEligible(snaps[v], e)})

DetermineMaxDepth(legs, tiers) ==
    LET met == {i \in DOMAIN tiers : legs >= tiers[i].legs}
    IN  IF met = {} THEN 0 ELSE tiers[Max(met)].depth

EvaluateEligibility(snaps, t, e) ==
    [u \in DOMAIN snaps |->
        LET eligible == IsEligible(snaps[u], e)
            legs == IF eligible /\ e.tiers # <<>> THEN CountActiveLegs(t, u, snaps, e) ELSE 0
        IN  [eligible |-> eligible, depth |-> DetermineMaxDepth(legs, e.tiers)]]

(* For each distributor, the sources it passes up: its first recruits and, *)
(* when commissions pass up too, everyone below them.                      *)
BuildPassUpContext(t, passUp) ==
    [u \in Members(t) |->
        LET recruits == SetToSortSeq(Sponsored(t, u),
                            LAMBDA a, b : Before(<<t.enrolled[a], a>>, <<t.enrolled[b], b>>))
            passed == {recruits[i] : i \in 1 .. Min({passUp.count, Len(recruits)})}
        IN  passed \cup (IF passUp.commissions
                         THEN UNION {Downline(t, r) : r \in passed} ELSE {})]

NoPassUp(t) == [u \in Members(t) |-> {}]

(* The rank below which compression skips a distributor; a mode without a  *)
(* rank, or with one the plan does not define, skips nobody.               *)
ResolveThresholdOrdinal(compression, ranks) ==
    IF compression.mode = "skip_below_rank" /\ compression.rank \in ranks
    THEN compression.rank ELSE 0

-----------------------------------------------------------------------------
(***************************************************************************)
(* The walk.  A config c holds maxDepth, percent (broad percent times      *)
(* multiplier), compression, threshold, rates (by rank, then level),       *)
(* passUp, and dynamic: the minimum rank of each level, for streamline.    *)
(***************************************************************************)
(* With the rank bound off by one. *)
CompressedAtBound(c, rank, eligible, level) ==
    IF c.dynamic # <<>>
    THEN level <= Len(c.dynamic) /\ rank <= c.dynamic[level]
    ELSE \/ c.compression.mode = "skip_inactive" /\ ~eligible
         \/ c.compression.mode = "skip_below_rank" /\ rank <= c.threshold

Compressed(c, rank, eligible, level) ==
    IF c.dynamic # <<>>
    THEN level <= Len(c.dynamic) /\ rank < c.dynamic[level]
    ELSE \/ c.compression.mode = "skip_inactive" /\ ~eligible
         \/ c.compression.mode = "skip_below_rank" /\ rank < c.threshold

RateAt(rates, key, level) ==
    IF key \in DOMAIN rates /\ level \in DOMAIN rates[key] THEN rates[key][level] ELSE 0

(* One node of the upline: the walk stops there, passes over it, or gives  *)
(* it the level, which it earns or forfeits.  Every member has a snapshot: *)
(* ValidateSnapshots has run.                                              *)
VisitNode(c, elig, snaps, v, stops, w, node) ==
    LET rank == snaps[node].rank
        eligible == elig[node].eligible
        deep == elig[node].depth # 0 /\ w.level > elig[node].depth
        rate == IF eligible /\ ~deep THEN RateAt(c.rates, rank, w.level) ELSE 0
        outcome == IF rate > 0 THEN "paid" ELSE "forfeited"
        earning == [earner |-> node, source |-> v.source, level |-> w.level, rate |-> rate,
                    cv |-> v.cv, amount |-> v.cv * c.percent * rate, walk |-> w.id]
    IN  IF w.stop # "root" THEN w
        ELSE IF w.level > c.maxDepth THEN [w EXCEPT !.stop = "max_depth", !.at = node]
        ELSE IF node \in stops THEN [w EXCEPT !.stop = "boundary", !.at = node]
        ELSE IF v.source \in c.passUp[node] \/ Compressed(c, rank, eligible, w.level) THEN w
        ELSE [w EXCEPT !.level = @ + 1,
                       !.steps = Append(@, [node |-> node, outcome |-> outcome]),
                       !.earned = IF rate > 0 THEN Append(@, earning) ELSE @]

WalkUp(c, elig, snaps, t, v, stops, id) ==
    FoldLeft(LAMBDA w, node : VisitNode(c, elig, snaps, v, stops, w, node),
             [id |-> id, level |-> 1, steps |-> <<>>, earned |-> <<>>, stop |-> "root", at |-> Nobody],
             Upline(t, v.source))

WalkRecord(id, source, kind, stream, rank, w) ==
    [index |-> id, source |-> source, kind |-> kind, stream |-> stream, rank |-> rank,
     steps |-> w.steps, stop |-> w.stop, at |-> w.at]

(* What a calculator has gathered so far: its walks, numbered in the order *)
(* they were taken, its earnings, and the error that ends it.              *)
NothingYet == [walks |-> <<>>, earnings |-> <<>>, fault |-> Ok]

WalkSource(c, elig, snaps, t, stops, stream, sofar, v) ==
    LET fault == ValidateSource(Members(t), snaps, v)
        id == Len(sofar.walks) + 1
    IN  IF sofar.fault # Ok THEN sofar
        ELSE IF fault # Ok THEN [sofar EXCEPT !.fault = fault]
        ELSE LET w == WalkUp(c, elig, snaps, t, v, stops, id)
             IN  [sofar EXCEPT !.walks = Append(@, WalkRecord(id, v.source, 0, stream, 0, w)),
                               !.earnings = @ \o w.earned]

WalkLevelCommissions(c, elig, snaps, t, volume, stops, stream, sofar) ==
    FoldLeft(LAMBDA acc, v : WalkSource(c, elig, snaps, t, stops, stream, acc, v), sofar, volume)

-----------------------------------------------------------------------------
(* A response: its walks in their total order, its earnings renumbered,    *)
(* rounded and sorted.  A level walk is of kind 0, a generation walk of 1. *)

SourcePosition(volume, source) == Min({i \in DOMAIN volume : volume[i].source = source})

WalkKey(volume, w) ==
    <<w.kind, w.stream, w.rank, SourcePosition(volume, w.source), w.index>>

AssignIndexes(walks, volume) ==
    SortSeq(walks, LAMBDA a, b : Before(WalkKey(volume, a), WalkKey(volume, b)))

EarningKey(e) == <<e.earner, e.source, e.level, e.walk>>

SortEarnings(earnings) == SortSeq(earnings, LAMBDA a, b : Before(EarningKey(a), EarningKey(b)))

(* With earnings left under the numbers the collector gave their walks. *)
AssembleAsCollected(done, volume, plan) ==
    LET ordered == AssignIndexes(done.walks, volume)
        rounded(e) == [e EXCEPT !.amount = RoundMinor(@, plan.minor)]
    IN  IF done.fault # Ok THEN [NothingYet EXCEPT !.fault = done.fault]
        ELSE [fault |-> Ok,
              walks |-> [i \in DOMAIN ordered |-> [ordered[i] EXCEPT !.index = i]],
              earnings |-> SortEarnings([i \in DOMAIN done.earnings |-> rounded(done.earnings[i])])]

Assemble(done, volume, plan) ==
    LET ordered == AssignIndexes(done.walks, volume)
        remap(id) == IF id = Nobody THEN Nobody
                     ELSE CHOOSE i \in DOMAIN ordered : ordered[i].index = id
        final(e) == [e EXCEPT !.walk = remap(e.walk), !.amount = RoundMinor(@, plan.minor)]
    IN  IF done.fault # Ok THEN [NothingYet EXCEPT !.fault = done.fault]
        ELSE [fault |-> Ok,
              walks |-> [i \in DOMAIN ordered |-> [ordered[i] EXCEPT !.index = i]],
              earnings |-> SortEarnings([i \in DOMAIN done.earnings |-> final(done.earnings[i])])]

-----------------------------------------------------------------------------
(* The calculators that are this walk and no more. *)

LevelConfig(plan, level, maxDepth, compression, passUp) ==
    [maxDepth |-> maxDepth, percent |-> level.broad * level.multiplier,
     compression |-> compression,
     threshold |-> ResolveThresholdOrdinal(compression, plan.ranks),
     rates |-> level.rates, passUp |-> passUp, dynamic |-> <<>>]

CalculateUnilevel(t, plan, s, snaps, volume) ==
    LET fault == FirstOf(PlanMinorUnits(plan), ValidateSnapshots(plan, snaps, Members(t)))
        c == LevelConfig(plan, s.level, s.level.maxDepth, s.compression,
                         BuildPassUpContext(t, s.passUp))
    IN  IF fault # Ok THEN [NothingYet EXCEPT !.fault = fault]
        ELSE Assemble(WalkLevelCommissions(c, EvaluateEligibility(snaps, t, plan.eligibility),
                                           snaps, t, volume, {}, 0, NothingYet), volume, plan)

(* A matrix tree carries the width and spillover it was created with; the  *)
(* walk goes no deeper than the matrix is high.                            *)
CalculateMatrix(t, plan, s, snaps, volume) ==
    LET mismatch == IF t.width = s.width /\ t.spillover = s.spillover THEN Ok
                    ELSE [error |-> "TreeConfigMismatch", id |-> Nobody]
        fault == FirstOf(PlanMinorUnits(plan),
                 FirstOf(mismatch, ValidateSnapshots(plan, snaps, Members(t))))
        c == LevelConfig(plan, s.level, Min({s.level.maxDepth, s.height}), s.compression, NoPassUp(t))
    IN  IF fault # Ok THEN [NothingYet EXCEPT !.fault = fault]
        ELSE Assemble(WalkLevelCommissions(c, EvaluateEligibility(snaps, t, plan.eligibility),
                                           snaps, t, volume, {}, 0, NothingYet), volume, plan)

=============================================================================
