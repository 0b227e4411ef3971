--------------------------- MODULE StreamlinePlan ---------------------------
(***************************************************************************)
(* Streamline commissions (commission/streamline.rs): one level walk over  *)
(* each unfrozen stream that holds the source, each level open to a        *)
(* minimum rank.  The streams, by id, are records of a tree and whether    *)
(* the stream is frozen.                                                   *)
(***************************************************************************)
EXTENDS LevelWalk

(* The levels as declared, in any order; the last entry of a level counts. *)
DeclaredAt(levels, n) == levels[Max({i \in DOMAIN levels : levels[i].level = n})]

Height(levels) == Max({levels[i].level : i \in DOMAIN levels})

(* An empty table, a level 0, an unknown rank or a level left out; a       *)
(* minimum rank of 0 is none.                                              *)
LevelsAreRefused(plan, levels) ==
    \/ levels = <<>>
    \/ \E i \in DOMAIN levels : levels[i].level < 1 \/ levels[i].minRank \notin plan.ranks \cup {0}
    \/ \E n \in 1 .. Height(levels) : \A i \in DOMAIN levels : levels[i].level # n

StreamConfig(plan, s, t) ==
    LET depth == 1 .. Height(s.levels)
    IN  [maxDepth |-> s.maxDepth, percent |-> s.multiplier,
         compression |-> [mode |-> "none"], threshold |-> 0,
         rates |-> [rank \in plan.ranks |-> [n \in depth |-> DeclaredAt(s.levels, n).percent]],
         passUp |-> NoPassUp(t), dynamic |-> [n \in depth |-> DeclaredAt(s.levels, n).minRank]]

WalkStream(plan, s, streams, snaps, volume, sofar, id) ==
    LET t == streams[id].tree
        held == SelectSeq(volume, LAMBDA v : v.source \in Members(t))
    IN  WalkLevelCommissions(StreamConfig(plan, s, t), EvaluateEligibility(snaps, t, plan.eligibility),
                             snaps, t, held, {}, id, sofar)

(* Frozen streams are not walked, but their members must have snapshots    *)
(* and their sources are accepted; every source is checked before a walk.  *)
CalculateStreamline(streams, plan, s, snaps, volume) ==
    LET members == UNION {Members(streams[i].tree) : i \in DOMAIN streams}
        config == IF LevelsAreRefused(plan, s.levels) THEN [error |-> "ConfigError", id |-> Nobody] ELSE Ok
        prior == FirstOf(PlanMinorUnits(plan), FirstOf(config, ValidateSnapshots(plan, snaps, members)))
        fault == FoldLeft(LAMBDA f, v : FirstOf(f, ValidateSource(members, snaps, v)), prior, volume)
        active == SetToSortSeq({i \in DOMAIN streams : ~streams[i].frozen}, <)
    IN  IF fault # Ok THEN [NothingYet EXCEPT !.fault = fault]
        ELSE Assemble(FoldLeft(LAMBDA acc, i : WalkStream(plan, s, streams, snaps, volume, acc, i),
                               NothingYet, active), volume, plan)

=============================================================================
