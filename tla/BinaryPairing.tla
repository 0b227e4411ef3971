---------------------------- MODULE BinaryPairing ----------------------------
(***************************************************************************)
(* Binary commissions (commission/binary.rs), by pairing or by cycle step, *)
(* over the two legs of each position, and the leg volumes one period      *)
(* hands to the next.                                                      *)
(*                                                                         *)
(* A position is a number; slots gives its left and right child (0: none). *)
(* Owners and their snapshots are apart from positions: owner holds the    *)
(* ownership map if the request brings one (Option), which maps a position *)
(* that has an owner of its own.  Percents are whole numbers and amounts exact,   *)
(* but for the ratio of a pairing: its quotient is rounded half to even,   *)
(* at the finest amount there is.                                          *)
(***************************************************************************)
EXTENDS LevelWalk

Lesser(a, b) == IF a <= b THEN a ELSE b
Greater(a, b) == IF a <= b THEN b ELSE a

Positions(t) == DOMAIN t.slots

ResolveOwner(owner, p) ==
    IF \E map \in owner : p \in DOMAIN map THEN (CHOOSE map \in owner : TRUE)[p] ELSE p

(* The position and everyone below it. *)
Subtree(t, p) ==
    LET down(S, n) == S \cup (UNION {Range(t.slots[q]) : q \in S} \ {Nobody})
    IN  FoldLeft(down, {p}, [n \in 1 .. Cardinality(Positions(t)) |-> n])

(* Personal totals, by position. *)
AggregateVolume(t, volume) ==
    [p \in Positions(t) |->
        FoldLeft(LAMBDA sum, v : IF v.source = p THEN sum + v.cv ELSE sum, 0, volume)]

ValidateVolume(t, owner, snaps, volume) ==
    FoldLeft(LAMBDA fault, v :
                 FirstOf(fault,
                 FirstOf(Refused("InvalidCvAmount", {p \in {v.source} : v.cv < 0}),
                 FirstOf(Refused("SourceNotInTree", {v.source} \ Positions(t)),
                         Refused("SourceNotInSnapshot", {ResolveOwner(owner, v.source)} \ DOMAIN snaps)))),
             Ok, volume)

(* A leg is the volume of the subtree in its slot, and what was carried. *)
AccumulateLegVolumes(t, totals, carried) ==
    [p \in Positions(t) |-> [leg \in 1 .. 2 |->
        (IF t.slots[p][leg] = Nobody THEN 0 ELSE SumFunctionOnSet(totals, Subtree(t, t.slots[p][leg])))
        + (IF p \in DOMAIN carried THEN carried[p][leg] ELSE 0)]]

CheckCarriedLegs(carried) ==
    Refused("NegativeCarriedLegVolume", {p \in DOMAIN carried : \E leg \in 1 .. 2 : carried[p][leg] < 0})

NoCap == -1

CheckCap(cap, minor) ==
    IF cap < NoCap THEN [error |-> "NegativeCap", id |-> Nobody]
    ELSE IF cap # NoCap /\ RoundMinor(cap, minor) # cap
    THEN [error |-> "CapNotWholeMinorUnits", id |-> Nobody] ELSE Ok

(* What both modes check after their own configuration. *)
CheckInput(t, plan, s, snaps, volume, carried, owner) ==
    FirstOf(PlanMinorUnits(plan),
    FirstOf(CheckCap(s.cap, plan.minor),
    FirstOf(CheckCarriedLegs(carried),
    FirstOf(ValidateSnapshots(plan, snaps, {ResolveOwner(owner, p) : p \in Positions(t)}),
            ValidateVolume(t, owner, snaps, volume)))))

-----------------------------------------------------------------------------
(* Settling the earnings of a period, sorted by earner and position. *)

(* Dec::allocate_largest_remainder: the cap in whole minor units, shared   *)
(* in proportion; what is left goes to the largest remainders, the earlier *)
(* share first.                                                            *)
AllocateLargestRemainder(shares, cap, minor) ==
    LET total == FoldLeft(+, 0, shares)
        units == [i \in DOMAIN shares |-> (shares[i] * (cap \div minor)) \div total]
        remainder == [i \in DOMAIN shares |-> (shares[i] * (cap \div minor)) % total]
        leftover == cap \div minor - FoldLeft(+, 0, units)
        order == SetToSortSeq(DOMAIN shares, LAMBDA i, j : Before(<<-remainder[i], i>>, <<-remainder[j], j>>))
    IN  [i \in DOMAIN shares |->
            minor * (units[i] + (IF \E k \in 1 .. leftover : order[k] = i THEN 1 ELSE 0))]

(* With only the exact sum held against the cap. *)
CapOnExactSum(raw, cap, minor) ==
    IF FoldLeft(+, 0, raw) <= cap
    THEN [amounts |-> [i \in DOMAIN raw |-> RoundMinor(raw[i], minor)], capped |-> FALSE]
    ELSE [amounts |-> AllocateLargestRemainder(raw, cap, minor), capped |-> TRUE]

(* One owner's amounts against the cap: rounded, unless either the exact   *)
(* or the rounded ones sum to more.                                        *)
ApplyAggregateCap(raw, cap, minor) ==
    LET rounded == [i \in DOMAIN raw |-> RoundMinor(raw[i], minor)]
    IN  IF FoldLeft(+, 0, raw) <= cap /\ FoldLeft(+, 0, rounded) <= cap
        THEN [amounts |-> rounded, capped |-> FALSE]
        ELSE [amounts |-> AllocateLargestRemainder(raw, cap, minor), capped |-> TRUE]

UsesAggregateCap(s, owner) == s.aggregate /\ owner # {} /\ s.cap # NoCap

SettleOwner(s, minor, earnings, who) ==
    LET mine == SelectSeq(earnings, LAMBDA e : e.earner = who)
        settled == ApplyAggregateCap([i \in DOMAIN mine |-> mine[i].amount], s.cap, minor)
    IN  [i \in DOMAIN mine |-> [mine[i] EXCEPT !.amount = settled.amounts[i], !.capped = settled.capped]]

FinalizeEarnings(s, plan, owner, earnings) ==
    LET sorted == SortSeq(earnings, LAMBDA a, b : Before(<<a.earner, a.position>>, <<b.earner, b.position>>))
        earners == SetToSortSeq({earnings[i].earner : i \in DOMAIN earnings}, <)
    IN  IF UsesAggregateCap(s, owner)
        THEN FoldLeft(LAMBDA all, who : all \o SettleOwner(s, plan.minor, sorted, who), <<>>, earners)
        ELSE [i \in DOMAIN sorted |-> [sorted[i] EXCEPT !.amount = RoundMinor(@, plan.minor)]]

(* The cap on one position, in force unless the owner's total is capped. *)
Earning(s, owner, p, legs, amount) ==
    LET over == ~UsesAggregateCap(s, owner) /\ s.cap # NoCap /\ amount > s.cap
    IN  [earner |-> ResolveOwner(owner, p), position |-> p, matched |-> Lesser(legs[1], legs[2]),
         amount |-> IF over THEN s.cap ELSE amount, capped |-> over]

CarryLegs(s, legs) ==
    [leg \in 1 .. 2 |-> Greater(0, IF s.carryCap = NoCap THEN legs[leg] ELSE Lesser(legs[leg], s.carryCap))]

-----------------------------------------------------------------------------
(* Pairing: a percentage of the weaker leg. *)

RoundHalfEven(n, d) ==
    LET q == n \div d
    IN  IF 2 * (n % d) > d \/ (2 * (n % d) = d /\ q % 2 = 1) THEN q + 1 ELSE q

PairingAmount(s, legs) ==
    LET weaker == Lesser(legs[1], legs[2])
        exact == weaker * s.percent * s.multiplier
    IN  IF s.calculation = "weaker_leg" THEN exact
        ELSE RoundHalfEven(exact * weaker, Greater(legs[1], legs[2]))

(* An ineligible owner has matched nothing. *)
LegsAfterPayout(s, legs, eligible) ==
    LET matched == IF eligible THEN Lesser(legs[1], legs[2]) ELSE 0
        weaker == IF legs[1] <= legs[2] THEN 1 ELSE 2
    IN  [leg \in 1 .. 2 |->
            CASE s.afterPayout = "full_flush" -> 0
              [] s.afterPayout = "net_off" -> legs[leg] - matched
              [] s.afterPayout = "carry_forward" -> IF leg = weaker THEN 0 ELSE legs[leg] - matched]

PercentIsRefused(s) == s.percent < 0 \/ s.percent > Whole

-----------------------------------------------------------------------------
(* Cycle step: fixed amounts at thresholds both legs reach. *)

StepsAreRefused(s) ==
    \/ s.steps = <<>> \/ s.afterPayout = "net_off"
    \/ \E i \in DOMAIN s.steps : s.steps[i].threshold <= 0 \/ s.steps[i].amount <= 0
    \/ ~IsInjective([i \in DOMAIN s.steps |-> s.steps[i].threshold])
    \/ s.cap < NoCap \/ s.carryCap < NoCap

AmountReached(s, volume) ==
    FoldLeft(LAMBDA sum, step : IF volume >= step.threshold THEN sum + step.amount ELSE sum, 0, s.steps)

HighestStep(s) == Max({s.steps[i].threshold : i \in DOMAIN s.steps})

(* Mutant: completed cycles take no volume, but for a flush. *)
LegsKeptByCycles(s, legs, full) ==
    [leg \in 1 .. 2 |-> IF s.afterPayout = "full_flush" /\ full = 1 THEN 0 ELSE legs[leg]]

LegsAfterCycles(s, legs, full) ==
    [leg \in 1 .. 2 |-> IF s.afterPayout = "full_flush" /\ full = 1 THEN 0
                        ELSE legs[leg] - full * HighestStep(s)]

(* The full cycles, one at most when the legs are flushed; then one more   *)
(* pass that takes no volume.                                              *)
CycleStep(s, legs) ==
    LET matched == Lesser(legs[1], legs[2])
        full == IF s.afterPayout = "full_flush" THEN Lesser(1, matched \div HighestStep(s))
                ELSE matched \div HighestStep(s)
        left == LegsAfterCycles(s, legs, full)
    IN  [legs |-> left,
         amount |-> full * AmountReached(s, HighestStep(s)) + AmountReached(s, Lesser(left[1], left[2]))]

-----------------------------------------------------------------------------
(* A period.  Only an eligible owner's position earns, and only if it has  *)
(* matched volume (pairing) or reached a step.                             *)
CalculateBinary(t, plan, s, snaps, volume, carried, owner) ==
    LET own == IF s.mode = "pairing" /\ PercentIsRefused(s) THEN "PairingPercentOutOfRange"
               ELSE IF s.mode # "pairing" /\ StepsAreRefused(s) THEN "ConfigError" ELSE "none"
        fault == FirstOf([error |-> own, id |-> Nobody],
                         CheckInput(t, plan, s, snaps, volume, carried, owner))
        legs == AccumulateLegVolumes(t, AggregateVolume(t, volume), carried)
        eligible(p) == IsEligible(snaps[ResolveOwner(owner, p)], plan.eligibility)
        earns(p) == /\ eligible(p)
                    /\ IF s.mode = "pairing" THEN Lesser(legs[p][1], legs[p][2]) # 0
                       ELSE CycleStep(s, legs[p]).amount # 0
        earning(p) == Earning(s, owner, p, legs[p], IF s.mode = "pairing" THEN PairingAmount(s, legs[p])
                                                    ELSE CycleStep(s, legs[p]).amount)
        paid == SelectSeq(SetToSortSeq(Positions(t), <), earns)
        after(p) == IF s.mode = "pairing" THEN LegsAfterPayout(s, legs[p], eligible(p))
                    ELSE IF eligible(p) THEN CycleStep(s, legs[p]).legs ELSE legs[p]
    IN  IF fault # Ok THEN [fault |-> fault, earnings |-> <<>>, carry |-> carried]
        ELSE [fault |-> Ok,
              earnings |-> FinalizeEarnings(s, plan, owner, [i \in DOMAIN paid |-> earning(paid[i])]),
              carry |-> [p \in Positions(t) |-> CarryLegs(s, after(p))]]

=============================================================================
