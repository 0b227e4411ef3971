----------------------------- MODULE MCServices -----------------------------
(***************************************************************************)
(* What surrounds the calculations, side by side: the rank driver with the *)
(* engine's rank evaluation, the commission run store, and the worker's    *)
(* request loop.  They share no state, so a behaviour exercises one side.  *)
(***************************************************************************)
EXTENDS CommissionRuns, Worker

CONSTANTS NoParent, Ladders, BadLadders, TreesOf, OtherTrees, Figures, Periods,
          MaxJobs, MaxCorrections, MaxFaults

VARIABLES side,
          ranked, ladder, loaded, figures, history, used, job, spent

Sq(structure) == [structure |-> structure, pv |-> 0, gv |-> 0, retail |-> 0, cap |-> 0,
                  fraction |-> 0, count |-> <<>>, legs |-> <<>>]
R(name, ordinal, structures) == [name |-> name, ordinal |-> ordinal, structures |-> structures,
                                 products |-> {}, window |-> <<>>, tenure |-> <<>>]
Member == R("member", 1, <<>>)
ContainsRank(count, name) == [kind |-> "rank", count |-> count, minRank |-> name]
ContainsPv(count, pv) == [kind |-> "pv", count |-> count, minPv |-> pv]
CountOf(count, name, total, depth, volume) ==
    [count |-> count, minRank |-> name, total |-> total, depth |-> depth, minLegVolume |-> volume]
Within(qualifying, periods) == [threshold |-> "silver", periods |-> periods, qualifying |-> qualifying]
For(periods) == [threshold |-> "silver", periods |-> periods]

ByVolume == R("silver", 2, <<[Sq("A") EXCEPT !.pv = 2]>>)

(* Gold and silver read each other's ranks in two trees that disagree on   *)
(* who is above whom; in Circular they would support each other.           *)
Crossed == <<Member, ByVolume,
             R("gold", 4, <<[Sq("A") EXCEPT !.legs = <<ContainsRank(1, "silver")>>],
                            [Sq("B") EXCEPT !.count = <<CountOf(1, "silver", 1, 1, 2)>>]>>),
             R("star", 5, <<[Sq("B") EXCEPT !.legs = <<ContainsRank(1, "gold"), ContainsPv(0, 9)>>]>>)>>
Circular == <<Member,
              R("silver", 2, <<[Sq("B") EXCEPT !.legs = <<ContainsRank(1, "gold")>>]>>),
              R("gold", 3, <<[Sq("A") EXCEPT !.legs = <<ContainsRank(1, "silver")>>]>>)>>
Grouped == <<Member, [ByVolume EXCEPT !.products = {"kit", "site"}],
             R("gold", 3, <<[Sq("A") EXCEPT !.gv = 4, !.fraction = 50, !.retail = 1]>>),
             R("star", 4, <<[Sq("A") EXCEPT !.gv = 5, !.cap = 3, !.legs = <<ContainsPv(1, 3)>>]>>)>>
Windowed == <<Member, ByVolume,
              [R("gold", 3, <<[Sq("A") EXCEPT !.pv = 1]>>) EXCEPT !.window = <<Within(1, 2)>>]>>
Tenured == <<Member, ByVolume,
             [R("gold", 3, <<Sq("A")>>) EXCEPT !.tenure = <<For(1)>>, !.window = <<Within(2, 2)>>]>>

(* Valid, but an evaluation fails: a rank nobody defines, a tree not every *)
(* distributor is in.                                                      *)
Dangling == <<Member, R("silver", 2, <<[Sq("A") EXCEPT !.count = <<CountOf(1, "platinum", 0, 0, 0)>>]>>)>>
Scattered == <<Member, R("silver", 2, <<Sq("A"), Sq("C")>>)>>

AllLadders == {Crossed, Circular, Grouped, Windowed, Tenured, Dangling, Scattered}
Refusable == {<<>>, <<ByVolume>>, <<Member, Member>>, <<Member, R("", 2, <<Sq("A")>>)>>,
              <<Member, R("silver", 2, <<[Sq("A") EXCEPT !.legs = <<ContainsPv(1, -1)>>]>>)>>,
              <<Member, R("silver", 2, <<[Sq("B") EXCEPT !.count = <<CountOf(1, "silver", 0, 0, -1)>>]>>)>>,
              <<Member, [ByVolume EXCEPT !.structures[1].cap = 1, !.structures[1].fraction = 50]>>}

(* C is a tree of one; 4 is in no tree. *)
AllTrees == [A |-> <<NoParent, 1, 2>>, B |-> <<3, 1, NoParent>>, C |-> <<NoParent>>]

Person(pv) == [pv |-> pv, retail |-> pv, products |-> IF pv > 2 THEN {"kit"} ELSE {}]
Sold(pvs) == [distributors |-> [u \in 1 .. Len(pvs) |-> Person(pvs[u])],
              volume |-> [u \in 1 .. Len(pvs) |-> [source |-> u, cv |-> pvs[u]]] \o <<[source |-> 3, cv |-> 1]>>]
AllFigures == <<Sold(<<1, 3, 2, 3>>), Sold(<<2, 0, 3, 0>>), Sold(<<3, 2>>)>>

(* Plans for the worker: two that load, one that does not validate and one *)
(* of an old version.                                                      *)
P(hash, version2, valid, a, b) ==
    [hash |-> hash, version2 |-> version2, valid |-> valid, structures |-> [a |-> a, b |-> b]]
AllPlans == {P("p1", TRUE, TRUE, "unilevel", "board_plan"), P("p2", TRUE, TRUE, "binary", "streamline"),
             P("p3", TRUE, FALSE, "matrix", "streamline"), P("p4", FALSE, TRUE, "generation", "matrix")}

Ranks == INSTANCE RankDriver WITH plan <- ranked

rankVars == <<ranked, ladder, loaded, figures, history, used, job, spent>>
allVars == <<side, rankVars, vars, workerVars>>

InitAll ==
    /\ side \in {"ranks", "runs", "worker"}
    /\ Ranks!Init /\ (side # "ranks" => ranked = Crossed)
    /\ Init /\ WorkerInit

NextAll ==
    \/ side = "ranks" /\ Ranks!Next /\ UNCHANGED <<side, vars, workerVars>>
    \/ side = "runs" /\ Next /\ UNCHANGED <<side, rankVars, workerVars>>
    \/ side = "worker" /\ Dispatch /\ UNCHANGED <<side, rankVars, vars>>

SpecAll == InitAll /\ [][NextAll]_allVars

(* The rank driver: the ranks saved for a period are the ones its figures  *)
(* and the history before it call for.                                     *)
RanksAreTrue == Ranks!RanksAreTrue

=============================================================================
