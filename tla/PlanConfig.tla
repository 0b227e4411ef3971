----------------------------- MODULE PlanConfig -----------------------------
(***************************************************************************)
(* What load_plan asks of a plan before any calculator sees it             *)
(* (CompensationPlan::validate in config/validate.rs, minor_units.rs and   *)
(* binary.rs): whether it is accepted, not which fault is named.  The      *)
(* ladder of ranks is that of RankEvaluation; here it is the set of its    *)
(* ordinals.  A multiplier is the one in force, the structure's own or the *)
(* plan's.  A board plan is not among the structures: it pays one amount,  *)
(* which must be whole minor units and not below zero.                     *)
(***************************************************************************)
EXTENDS StairstepPlan, StreamlinePlan, BinaryPairing

(* With a fraction held to its lower bound only. *)
CheckNotNegative(v, whole) == v >= 0

CheckFraction(v, whole) == v >= 0 /\ v <= whole
CheckPositive(v) == v > 0
CheckNonNegative(v) == v >= 0

(* An absent cap is NoCap, which is not below zero. *)
CheckOptionalNonNegative(v) == v = NoCap \/ CheckNonNegative(v)

AreFractions(rates) == \A n \in DOMAIN rates : CheckFraction(rates[n], Whole)

LevelCommissionIsValid(l) ==
    /\ CheckFraction(l.broad, 1) /\ CheckPositive(l.multiplier) /\ l.maxDepth >= 1
    /\ \A rank \in DOMAIN l.rates : AreFractions(l.rates[rank])

MatrixParamsAreValid(s) == s.width >= 2 /\ s.spillover # "depth_first"

PairingIsValid(s) ==
    /\ CheckFraction(s.percent, Whole)
    /\ CheckOptionalNonNegative(s.cap) /\ CheckOptionalNonNegative(s.carryCap)

BinaryCommissionIsValid(s) ==
    /\ CheckPositive(s.multiplier)
    /\ IF s.mode = "pairing" THEN PairingIsValid(s) ELSE ~StepsAreRefused(s)

(* The levels run from 1 in order; min_rank is not looked at. *)
StreamlineCommissionIsValid(s) ==
    /\ CheckPositive(s.multiplier) /\ s.maxDepth >= 1
    /\ s.levels # <<>> /\ \A i \in DOMAIN s.levels : s.levels[i].level = i
    /\ s.maxDepth >= Len(s.levels)
    /\ \A i \in DOMAIN s.levels : CheckFraction(s.levels[i].percent, Whole)

GenerationCommissionIsValid(g) ==
    g.maxGenerations >= 1 /\ CheckPositive(g.multiplier) /\ AreFractions(g.rates)

MinOverrideIsValid(min) == CheckFraction(min.rate, Whole) /\ CheckNonNegative(min.amount)

BreakawayIsValid(o) ==
    IF o.mode = "multi_tier"
    THEN Len(o.tiers) \in 1 .. 255 /\ \A k \in DOMAIN o.tiers : CheckFraction(o.tiers[k].rate, Whole)
    ELSE /\ AreFractions(o.rankRates)
         /\ o.mode = "differential" => MinOverrideIsValid(o.minOverride)
         /\ o.generations # NoGenerations => o.generations.max >= 1 /\ AreFractions(o.generations.rates)

StructureIsValid(kind, s) ==
    CASE kind = "unilevel" -> LevelCommissionIsValid(s.level)
      [] kind = "binary" -> BinaryCommissionIsValid(s)
      [] kind = "matrix" -> MatrixParamsAreValid(s) /\ LevelCommissionIsValid(s.level)
      [] kind = "stairstep" -> LevelCommissionIsValid(s.level) /\ BreakawayIsValid(s.breakaway.overrides)
      [] kind = "generation" -> /\ GenerationCommissionIsValid(s.generation)
                                /\ s.level = NoLevels \/ LevelCommissionIsValid(s.level)
                                /\ s.levelsEnabled => s.level # NoLevels
      [] kind = "streamline" -> StreamlineCommissionIsValid(s)

(* The money a structure states: what must be whole minor units of the     *)
(* base currency, with the plan's own amounts (its bonuses, its payout     *)
(* minimum and its cap per distributor).                                   *)
MoneyOf(kind, s) ==
    CASE kind = "binary" ->
            ({s.cap} \ {NoCap})
            \cup (IF s.mode = "pairing" THEN {} ELSE {s.steps[i].amount : i \in DOMAIN s.steps})
      [] kind = "stairstep" /\ s.breakaway.overrides.mode = "differential" ->
            {s.breakaway.overrides.minOverride.amount}
      [] OTHER -> {}

CheckWholeMinorUnits(plan, kind, s) == \A x \in plan.amounts \cup MoneyOf(kind, s) : x % plan.minor = 0

CheckCurrency(plan) == plan.minor # 0 /\ plan.paysInBase

CapsAreFair(plan) ==
    CheckFraction(plan.caps.company, Whole) /\ CheckOptionalNonNegative(plan.caps.perDistributor)

PlanIsValid(plan, kind, s) ==
    /\ CapsAreFair(plan) /\ CheckCurrency(plan) /\ CheckWholeMinorUnits(plan, kind, s)
    /\ plan.ranks # {} /\ StructureIsValid(kind, s)

=============================================================================
