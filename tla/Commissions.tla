----------------------------- MODULE Commissions -----------------------------
(***************************************************************************)
(* The commission calculators together: a worker holding a plan answers    *)
(* calculation requests, each a pure function of what it is sent.  For a   *)
(* binary structure the legs a period leaves are what the next one is      *)
(* sent.  A request that finds no plan, no tree or no structure of its     *)
(* kind never reaches a calculator and is left out.                        *)
(***************************************************************************)
EXTENDS PlanConfig

CONSTANTS
    Cases,          \* the plans: kind, plan and structure
    Trees,          \* by kind: the trees (streams, for streamline) requests name,
    Snapshots,      \*          their snapshots
    Volumes,        \*          and their volume lists
    Owners,         \* the owner maps of binary positions
    MaxArrived      \* bound on the volume a binary plan ever sees

VARIABLES
    case,           \* the plan loaded
    request,        \* the last request, or None
    result,         \* its answer, or None
    ledger          \* binary only: what the positions carry, and what they have
                    \* received and been paid for over all periods

vars == <<case, request, result, ledger>>

None == <<>>
NewLedger == [total |-> 0, carried |-> <<>>, arrived |-> <<>>, spent |-> <<>>]

Init ==
    /\ case \in Cases
    /\ request = None /\ result = None /\ ledger = NewLedger

Answer(c, r) ==
    CASE c.kind = "unilevel" -> CalculateUnilevel(r.tree, c.plan, c.structure, r.snaps, r.volume)
      [] c.kind = "matrix" -> CalculateMatrix(r.tree, c.plan, c.structure, r.snaps, r.volume)
      [] c.kind = "generation" -> CalculateGeneration(r.tree, c.plan, c.structure, r.snaps, r.volume)
      [] c.kind = "stairstep" -> CalculateStairstep(r.tree, c.plan, c.structure, r.snaps, r.volume)
      [] c.kind = "streamline" -> CalculateStreamline(r.tree, c.plan, c.structure, r.snaps, r.volume)

Calculate ==
    /\ case.kind # "binary" /\ result = None
    /\ \E t \in Trees[case.kind], snaps \in Snapshots[case.kind], volume \in Volumes[case.kind] :
          /\ request' = [tree |-> t, snaps |-> snaps, volume |-> volume]
          /\ result' = Answer(case, request')
    /\ UNCHANGED <<case, ledger>>

Respond ==
    /\ case.kind # "binary" /\ result # None
    /\ request' = None /\ result' = None
    /\ UNCHANGED <<case, ledger>>

(* What a period adds to the books: the volume that came into each leg,    *)
(* and the volume a paid position uses up for good, read off its earning,  *)
(* which names the matched volume whatever a cap left of the amount: a     *)
(* pairing uses up all of it, a cycle step only its completed cycles.      *)
ArrivedIn(t, volume) == AccumulateLegVolumes(t, AggregateVolume(t, volume), <<>>)

CompletedCycles(s, e) ==
    LET reached == e.matched \div HighestStep(s)
    IN  IF s.afterPayout = "full_flush" THEN Lesser(1, reached) ELSE reached

UsedUp(s, e) ==
    IF s.mode = "pairing" THEN e.matched ELSE HighestStep(s) * CompletedCycles(s, e)

SpentIn(s, t, earnings) ==
    [p \in Positions(t) |->
        FoldLeft(LAMBDA sum, e : IF e.position = p THEN sum + UsedUp(s, e) ELSE sum, 0, earnings)]

Volume(v) == FoldLeft(LAMBDA sum, x : sum + x.cv, 0, v)

Kept(book, p, new) == (IF p \in DOMAIN book THEN book[p] ELSE 0) + new

Booked(s, books, r, answer) ==
    LET arrived == ArrivedIn(r.tree, r.volume)
        spent == SpentIn(s, r.tree, answer.earnings)
        before(p, leg) == IF p \in DOMAIN books.arrived THEN books.arrived[p][leg] ELSE 0
    IN  [total |-> books.total + Volume(r.volume), carried |-> answer.carry,
         arrived |-> [p \in Positions(r.tree) |-> [leg \in 1 .. 2 |-> before(p, leg) + arrived[p][leg]]],
         spent |-> [p \in Positions(r.tree) |-> Kept(books.spent, p, spent[p])]]

ClosePeriod ==
    /\ case.kind = "binary"
    /\ \E t \in Trees["binary"], owner \in Owners, snaps \in Snapshots["binary"],
          volume \in Volumes["binary"] :
          /\ request # None => t = request.tree /\ owner = request.owner
          /\ ledger.total + Volume(volume) <= MaxArrived
          /\ request' = [tree |-> t, owner |-> owner, snaps |-> snaps, volume |-> volume,
                         carried |-> ledger.carried]
          /\ result' = CalculateBinary(t, case.plan, case.structure, snaps, volume, ledger.carried, owner)
          /\ ledger' = IF result'.fault # Ok THEN ledger
                       ELSE Booked(case.structure, ledger, request', result')
    /\ UNCHANGED case

Next == Calculate \/ Respond \/ ClosePeriod

Spec == Init /\ [][Next]_vars

-----------------------------------------------------------------------------
Answered == result # None /\ result.fault = Ok
ByLevels == case.kind # "binary"

Entries == DOMAIN result.earnings

(* Every earning of a response names the walk that produced it and its     *)
(* place on it (CommissionEarning.walk and level): the walk is of the same *)
(* source and its step at that level paid that earner.  Each paid step of  *)
(* a level walk has its earning, walks stand in the total order of         *)
(* walk_order.rs under indexes that are their places, and no two earnings  *)
(* tie in the response's sort, so the persisted record has one order.      *)
EarningsNameTheirWalks ==
    Answered /\ ByLevels =>
        LET walks == result.walks
            on(i) == {k \in Entries : result.earnings[k].walk = i}
            key(w) == <<w.kind, w.stream, w.rank, SourcePosition(request.volume, w.source)>>
        IN  /\ \A k \in Entries :
                  LET e == result.earnings[k]
                  IN  e.walk # Nobody =>
                        /\ e.walk \in DOMAIN walks /\ walks[e.walk].source = e.source
                        /\ e.level \in DOMAIN walks[e.walk].steps
                        /\ walks[e.walk].steps[e.level] = [node |-> e.earner, outcome |-> "paid"]
            /\ \A i \in DOMAIN walks :
                  /\ walks[i].index = i
                  /\ walks[i].kind = 0 =>
                        Cardinality(on(i)) = Len(SelectSeq(walks[i].steps, LAMBDA s : s.outcome = "paid"))
                  /\ \A j \in i + 1 .. Len(walks) : ~Before(key(walks[j]), key(walks[i]))
            /\ \A j, k \in Entries : j < k =>
                  Before(EarningKey(result.earnings[j]), EarningKey(result.earnings[k]))

(* A plan that load_plan accepts can be calculated with: no calculator     *)
(* refuses a request for what the plan says, but for a streamline level    *)
(* whose minimum rank is not on the ladder, which only the calculator      *)
(* looks up.  No accepted plan pays an earning below zero, or above the    *)
(* whole value of the volume the earning is on.                            *)
PlanFaults == {"UnknownCurrency", "NegativeCap", "CapNotWholeMinorUnits", "PairingPercentOutOfRange", "ConfigError"}

LoadedPlansCalculate ==
    result # None /\ PlanIsValid(case.plan, case.kind, case.structure) =>
        LET s == case.structure
            ranksAreKnown == case.kind = "streamline" =>
                \A i \in DOMAIN s.levels : s.levels[i].minRank \in case.plan.ranks \cup {0}
            value(e) == CASE case.kind = "streamline" -> e.cv * s.multiplier
                          [] case.kind = "binary" -> e.matched * s.multiplier
                          [] case.kind = "generation" /\ result.walks[e.walk].kind = 1 -> e.cv * s.generation.multiplier
                          [] OTHER -> e.cv * s.level.multiplier
        IN  /\ result.fault.error \in PlanFaults => ~ranksAreKnown
            /\ \A k \in Entries :
                  LET e == result.earnings[k]
                  IN  /\ e.amount >= 0
                      /\ ByLevels \/ s.mode = "pairing" =>
                            e.amount <= RoundMinor(value(e) * Whole, case.plan.minor)

-----------------------------------------------------------------------------
(***************************************************************************)
(* Who earns, said of a whole upline at once: which of its members take a  *)
(* level, and which number each of them takes.                             *)
(***************************************************************************)
PassesUp(t, passUp, u, source) ==
    \E r \in Sponsored(t, u) :
        /\ source = r \/ (passUp.commissions /\ r \in Range(Upline(t, source)))
        /\ passUp.count > Cardinality({q \in Sponsored(t, u) :
                Before(<<t.enrolled[q], q>>, <<t.enrolled[r], r>>)})

PassedOver(c, t, snaps, elig, source, u, n) ==
    IF c.kind = "streamline"
    THEN n <= Height(c.structure.levels) /\ snaps[u].rank < DeclaredAt(c.structure.levels, n).minRank
    ELSE \/ c.kind = "unilevel" /\ PassesUp(t, c.structure.passUp, u, source)
         \/ c.structure.compression.mode = "skip_inactive" /\ ~elig[u].eligible
         \/ /\ c.structure.compression.mode = "skip_below_rank"
            /\ c.structure.compression.rank \in c.plan.ranks
            /\ snaps[u].rank < c.structure.compression.rank

(* Only stairstep walks end early: past the first breakaway at or above    *)
(* the source.                                                             *)
IsLeader(c, snaps, u) ==
    /\ c.kind = "stairstep" /\ c.structure.breakaway.threshold \in c.plan.ranks
    /\ snaps[u].rank >= c.structure.breakaway.threshold

LevelTerms(c) ==
    LET s == c.structure
    IN  IF c.kind = "streamline"
        THEN [depth |-> s.maxDepth, percent |-> s.multiplier, rate |-> [r \in c.plan.ranks |->
                [n \in 1 .. Height(s.levels) |-> DeclaredAt(s.levels, n).percent]]]
        ELSE [depth |-> IF c.kind = "matrix" THEN Lesser(s.level.maxDepth, s.height) ELSE s.level.maxDepth,
              percent |-> s.level.broad * s.level.multiplier, rate |-> s.level.rates]

LevelPays(c, t, snaps, stream, v) ==
    LET terms == LevelTerms(c)
        elig == EvaluateEligibility(snaps, t, c.plan.eligibility)
        up == Upline(t, v.source)
        line == <<v.source>> \o up
        number(taken, k) == 1 + Cardinality({j \in taken : j < k})
        takes(taken, k) ==
            /\ number(taken, k) <= terms.depth
            /\ \A j \in 1 .. k : ~IsLeader(c, snaps, line[j])
            /\ ~PassedOver(c, t, snaps, elig, v.source, up[k], number(taken, k))
        taken == CHOOSE T \in SUBSET DOMAIN up : \A k \in DOMAIN up : k \in T <=> takes(T, k)
        rate(k) == RateAt(terms.rate, snaps[up[k]].rank, number(taken, k))
        earns(k) == /\ elig[up[k]].eligible /\ rate(k) > 0
                    /\ elig[up[k]].depth = 0 \/ number(taken, k) <= elig[up[k]].depth
    IN  {[kind |-> 0, stream |-> stream, source |-> v.source, earner |-> up[k], level |-> number(taken, k),
          amount |-> RoundMinor(v.cv * terms.percent * rate(k), c.plan.minor)] :
            k \in {j \in taken : earns(j)}}

(* A leader's generation is its place among the leaders that count, seen   *)
(* from the boundary rank or, in same_rank mode, from the leader's own.    *)
GenerationPays(c, t, snaps, v) ==
    LET g == c.structure.generation
        elig == EvaluateEligibility(snaps, t, c.plan.eligibility)
        up == Upline(t, v.source)
        bar(k) == IF g.mode = "same_rank" THEN snaps[up[k]].rank ELSE g.boundaryRank
        isBoundary(k) == g.ineligibleCreatesBoundary \/ elig[up[k]].eligible
        number(k) == Cardinality({j \in 1 .. k : /\ snaps[up[j]].rank >= bar(k)
                                                 /\ isBoundary(j) \/ g.emptyConsumes})
        rate(k) == RateAt(<<g.rates>>, 1, number(k))
        earns(k) == /\ g.mode = "threshold_rank" => g.boundaryRank \in c.plan.ranks
                    /\ snaps[up[k]].rank >= bar(k) /\ elig[up[k]].eligible /\ rate(k) > 0
                    /\ number(k) <= EarnerMaxGenerations(snaps[up[k]].rank, g)
    IN  {[kind |-> 1, stream |-> 0, source |-> v.source, earner |-> up[k], level |-> number(k),
          amount |-> RoundMinor(v.cv * g.multiplier * rate(k), c.plan.minor)] :
            k \in {j \in DOMAIN up : earns(j)}}

Pays(c, r, v) ==
    IF c.kind = "streamline"
    THEN UNION {LevelPays(c, r.tree[i].tree, r.snaps, i, v) :
                   i \in {j \in DOMAIN r.tree : ~r.tree[j].frozen /\ v.source \in Members(r.tree[j].tree)}}
    ELSE (IF c.kind = "generation" /\ ~c.structure.levelsEnabled THEN {}
          ELSE LevelPays(c, r.tree, r.snaps, 0, v))
         \cup (IF c.kind = "generation" THEN GenerationPays(c, r.tree, r.snaps, v) ELSE {})

(* The requests the calculators' documentation accepts. *)
WellFormed(c, r) ==
    LET members == IF c.kind = "streamline" THEN UNION {Members(r.tree[i].tree) : i \in DOMAIN r.tree}
                   ELSE Members(r.tree)
    IN  /\ c.plan.minor > 0 /\ members \subseteq DOMAIN r.snaps
        /\ \A u \in DOMAIN r.snaps : r.snaps[u].rank \in c.plan.ranks /\ r.snaps[u].pv >= 0
        /\ \A i \in DOMAIN r.volume : r.volume[i].source \in members /\ r.volume[i].cv >= 0
        /\ c.kind = "matrix" => r.tree.width = c.structure.width /\ r.tree.spillover = c.structure.spillover
        /\ c.kind = "generation" /\ c.structure.levelsEnabled => c.structure.level # NoLevels
        /\ c.kind = "streamline" => ~LevelsAreRefused(c.plan, c.structure.levels)

(* A calculation refuses exactly the requests that are not well formed,    *)
(* with nothing paid, and otherwise pays each volume entry to the upline   *)
(* members that a level or a generation is due to, each once, under its    *)
(* number and at its rate: however compression, pass-up, forfeits,         *)
(* boundaries and depth limits fall together, and whatever other entries   *)
(* the request holds.                                                      *)
PaidAsDefined ==
    result # None /\ ByLevels =>
        LET due == [i \in DOMAIN request.volume |-> Pays(case, request, request.volume[i])]
            walked == {k \in Entries : result.earnings[k].walk # Nobody}
            pay(k) == LET e == result.earnings[k]
                          w == result.walks[e.walk]
                      IN  [kind |-> w.kind, stream |-> w.stream, source |-> e.source,
                           earner |-> e.earner, level |-> e.level, amount |-> e.amount]
        IN  IF WellFormed(case, request)
            THEN /\ result.fault = Ok
                 /\ \A x \in {pay(k) : k \in walked} \cup UNION {due[i] : i \in DOMAIN due} :
                       Cardinality({k \in walked : pay(k) = x}) = Cardinality({i \in DOMAIN due : x \in due[i]})
            ELSE result.fault # Ok /\ result.earnings = <<>> /\ result.walks = <<>>

(* Stairstep pays a distributor's volume inside its group or above its     *)
(* group's leader, never both to one earner: nobody holds a level earning  *)
(* on a source and an override on that source's group.  Each override is   *)
(* drawn on the whole personal volume of one leader's group by an eligible *)
(* distributor above that leader, and a group pays one override to each    *)
(* generation or tier.                                                     *)
GroupsPayOnce ==
    Answered /\ case.kind = "stairstep" =>
        LET snaps == request.snaps
            breakaways == IdentifyBreakaways(case.plan, case.structure, snaps)
            leaders == GroupLeaders(request.tree, snaps, breakaways)
            overrides == {k \in Entries : result.earnings[k].walk = Nobody}
            pv == [u \in DOMAIN snaps |-> snaps[u].pv]
        IN  /\ \A k \in overrides :
                  LET o == result.earnings[k]
                      group == {u \in DOMAIN snaps : leaders[u] = o.source}
                  IN  /\ o.earner \in Range(Upline(request.tree, o.source))
                      /\ IsEligible(snaps[o.earner], case.plan.eligibility)
                      /\ o.cv = SumFunctionOnSet(pv, group)
                      /\ \A j \in Entries \ overrides :
                            result.earnings[j].source \in group => result.earnings[j].earner # o.earner
                      /\ \A j \in overrides \ {k} : result.earnings[j].source = o.source =>
                            result.earnings[j].level # o.level

(* Over all the periods a position has been carried through, the volume it *)
(* was paid for as pairs or as completed cycles and the volume it still    *)
(* carries in a leg never exceed what came into that leg: no volume makes  *)
(* two pairs or completes two cycles, or appears from nowhere, whatever    *)
(* the owner's eligibility did in between.  Without a flush or a cap on    *)
(* what is carried, nothing is lost either.  The steps of a cycle that is  *)
(* not completed take no volume: what an uncut amount holds beyond the     *)
(* completed cycles is exactly what the volume still carried reaches, and  *)
(* a later period pays on that volume again.                               *)
LegsAreAccounted ==
    case.kind = "binary" =>
        LET s == case.structure
            lossless == /\ s.afterPayout = IF s.mode = "pairing" THEN "net_off" ELSE "carry_forward"
                        /\ s.carryCap = NoCap
            partial(p) == AmountReached(s, Lesser(ledger.carried[p][1], ledger.carried[p][2]))
        IN  /\ \A p \in DOMAIN ledger.carried : \A leg \in 1 .. 2 :
                  LET kept == ledger.spent[p] + ledger.carried[p][leg]
                  IN  /\ ledger.carried[p][leg] >= 0 /\ kept <= ledger.arrived[p][leg]
                      /\ lossless => kept = ledger.arrived[p][leg]
            /\ Answered /\ s.mode = "cycle_step" /\ s.carryCap = NoCap =>
                  \A k \in Entries :
                      LET e == result.earnings[k]
                      IN  ~e.capped => e.amount = RoundMinor(partial(e.position)
                              + CompletedCycles(s, e) * AmountReached(s, HighestStep(s)), case.plan.minor)

(* A cap binds: on each position, or on an owner's positions together.     *)
(* Together they are paid whole minor units that sum to the cap exactly    *)
(* when the cap cut them, each within one unit of its proportion, and a    *)
(* position that earned more is not paid less.                             *)
CapIsSettled ==
    Answered /\ case.kind = "binary" =>
        LET s == case.structure
            legs == AccumulateLegVolumes(request.tree, AggregateVolume(request.tree, request.volume), request.carried)
            raw(k) == LET p == result.earnings[k].position
                      IN  IF s.mode = "pairing" THEN PairingAmount(s, legs[p]) ELSE CycleStep(s, legs[p]).amount
            paid(k) == result.earnings[k].amount
            exact == [k \in Entries |-> raw(k)]
            amounts == [k \in Entries |-> paid(k)]
            of(who) == {k \in Entries : result.earnings[k].earner = who}
        IN  /\ \A k \in Entries : paid(k) % case.plan.minor = 0
            /\ IF ~UsesAggregateCap(s, request.owner)
               THEN \A k \in Entries : paid(k) = RoundMinor(IF s.cap = NoCap THEN raw(k) ELSE Lesser(raw(k), s.cap),
                                                           case.plan.minor)
               ELSE \A who \in {result.earnings[k].earner : k \in Entries} :
                       LET total == SumFunctionOnSet(exact, of(who))
                           cut == \E k \in of(who) : result.earnings[k].capped
                       IN  /\ SumFunctionOnSet(amounts, of(who)) <= s.cap
                           /\ total > s.cap => cut
                           /\ cut => SumFunctionOnSet(amounts, of(who)) = s.cap
                           /\ \A j, k \in of(who) : raw(j) > raw(k) => paid(j) >= paid(k)
                           /\ cut => \A k \in of(who) :
                                 LET gap == paid(k) * total - raw(k) * s.cap
                                 IN  gap < case.plan.minor * total /\ -gap < case.plan.minor * total

=============================================================================
