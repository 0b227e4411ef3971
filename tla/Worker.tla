------------------------------- MODULE Worker -------------------------------
(***************************************************************************)
(* The engine worker's request loop: one plan, any number of named         *)
(* structures of five kinds, one request at a time, whoever sent it.  What *)
(* the engines do with an operation is in their own modules; here a        *)
(* structure is its kind and the number of mutations it has accepted, and  *)
(* an engine refuses another one after Limit.  Parameters are well formed: *)
(* a request that does not parse is answered before anything is looked up. *)
(* A refusing engine changes nothing (see AddsAreSeated, RemovalsComplete).*)
(* A handler that panics is not modelled.                                  *)
(***************************************************************************)
EXTENDS Integers, FiniteSets

CONSTANTS
    Names,          \* names of structures
    Plans,          \* plans sent: hash, whether version and content pass, name -> kind
    Limit,
    NoPlan

VARIABLES
    plan,           \* the plan loaded, and
    identity,       \* the identity of the plan loaded
    trees,          \* name -> kind and content
    kept,           \* the snapshot the callers keep
    answer,         \* the last answer
    view            \* what the answers have told the callers: plan and structures

workerVars == <<plan, identity, trees, kept, answer, view>>

TreeKinds == {"unilevel", "binary", "matrix"}
Nothing == <<>>

(* Operations, the kinds they are for, and the code for another kind. *)
Ops(names, kinds, code) == [names |-> names, kinds |-> kinds, code |-> code]
AddRoot == Ops({"add_root"}, TreeKinds, "UNSUPPORTED_OP")
AddNode == Ops({"add_node"}, TreeKinds, "UNSUPPORTED_OP")
AddNodeAt == Ops({"add_node_at"}, {"matrix"}, "INVALID_PARAMS")
RemoveNode == Ops({"remove_node"}, TreeKinds, "UNSUPPORTED_OP")
PlaceFromTank == Ops({"place_from_tank"}, {"matrix"}, "INVALID_PARAMS")
BoardMembers == Ops({"board_add_member", "board_remove_member"}, {"board_plan"}, "INVALID_PARAMS")
BoardCompresses == Ops({"board_compress_inactive"}, {"board_plan"}, "INVALID_PARAMS")
BoardDissolves == Ops({"board_dissolve"}, {"board_plan"}, "INVALID_PARAMS")
StreamMembers == Ops({"streamline_add_member", "streamline_remove_member"}, {"streamline"}, "INVALID_PARAMS")
StreamCounts == Ops({"streamline_expand_streams", "streamline_update_allowance"}, {"streamline"}, "INVALID_PARAMS")
TreeMutations == {AddRoot, AddNode, AddNodeAt, RemoveNode}
Mutations == TreeMutations \cup {PlaceFromTank, BoardMembers, BoardCompresses, BoardDissolves,
                                 StreamMembers, StreamCounts}

PlacementQueries == Ops({"get_parent", "get_children", "get_upline", "get_downline"}, TreeKinds, "UNSUPPORTED_OP")
PositionQueries == Ops({"get_position", "is_descendant_of"}, TreeKinds, "UNSUPPORTED_OP")
SponsorQueries == Ops({"get_sponsor", "get_sponsor_upline", "get_sponsored"}, TreeKinds, "UNSUPPORTED_OP")
GetHoldingTank == Ops({"get_holding_tank"}, {"matrix"}, "INVALID_PARAMS")
StallQueries == Ops({"board_detect_stalled"}, {"board_plan"}, "INVALID_PARAMS")
BoardQueries == Ops({"board_get_state", "board_get_member", "board_list"}, {"board_plan"}, "INVALID_PARAMS")
StreamQueries == Ops({"streamline_list_streams", "streamline_get_member", "streamline_get_stream"},
                     {"streamline"}, "INVALID_PARAMS")
Queries == {PlacementQueries, PositionQueries, SponsorQueries, GetHoldingTank,
            StallQueries, BoardQueries, StreamQueries}

(* A calculation needs a loaded structure of one kind and a structure of   *)
(* that name and another kind in the plan; some name the plan they used.   *)
Calc(tree, config, names) == [tree |-> tree, config |-> config, namesPlan |-> names]
GenerationCalculation == Calc("unilevel", "generation", TRUE)
StreamlineCalculation == Calc("streamline", "streamline", TRUE)
Calculations == {Calc("unilevel", "unilevel", TRUE), GenerationCalculation,
                 Calc("unilevel", "stairstep", TRUE), Calc("matrix", "matrix", TRUE),
                 Calc("binary", "binary", FALSE), StreamlineCalculation}

WorkerInit ==
    /\ plan = NoPlan /\ identity = NoPlan
    /\ trees = Nothing /\ kept = Nothing
    /\ answer = [kind |-> "none"]
    /\ view = [plan |-> NoPlan, trees |-> Nothing]

With(t, n, s) == [m \in DOMAIN t \cup {n} |-> IF m = n THEN s ELSE t[m]]
Without(t, n) == [m \in DOMAIN t \ {n} |-> t[m]]

Fail(code) == answer' = [kind |-> "error", code |-> code] /\ UNCHANGED view

-----------------------------------------------------------------------------
(* Mutant: the identity computed before the plan has been validated. *)
IdentityFirst(p) ==
    /\ identity' = IF p.version2 THEN p.hash ELSE identity
    /\ IF ~p.version2 \/ ~p.valid
       THEN /\ Fail(IF ~p.version2 THEN "UNSUPPORTED_PLAN_VERSION" ELSE "INVALID_PLAN")
            /\ UNCHANGED plan
       ELSE /\ plan' = p
            /\ answer' = [kind |-> "loaded", hash |-> p.hash]
            /\ view' = [view EXCEPT !.plan = p]
    /\ UNCHANGED <<trees, kept>>

(* handle_load_plan: the version, then validate(), then both fields. *)
LoadPlan(p) ==
    /\ IF ~p.version2 \/ ~p.valid
       THEN /\ Fail(IF ~p.version2 THEN "UNSUPPORTED_PLAN_VERSION" ELSE "INVALID_PLAN")
            /\ UNCHANGED <<plan, identity>>
       ELSE /\ identity' = p.hash /\ plan' = p
            /\ answer' = [kind |-> "loaded", hash |-> p.hash]
            /\ view' = [view EXCEPT !.plan = p]
    /\ UNCHANGED <<trees, kept>>

(* bad stands for dimensions, a spillover or settings the constructor      *)
(* refuses.                                                                *)
Create(n, k, bad) ==
    /\ IF n \in DOMAIN trees THEN Fail("TREE_EXISTS") /\ UNCHANGED trees
       ELSE IF bad THEN Fail("refused") /\ UNCHANGED trees
       ELSE /\ trees' = With(trees, n, [kind |-> k, content |-> 0])
            /\ answer' = [kind |-> "created"]
            /\ view' = [view EXCEPT !.trees = With(@, n, [kind |-> k, content |-> 0])]
    /\ UNCHANGED <<plan, identity, kept>>

CreateTree(n) == \E k \in TreeKinds, bad \in BOOLEAN : (bad => k = "matrix") /\ Create(n, k, bad)
CreateBoardPlan(n) == \E bad \in BOOLEAN : Create(n, "board_plan", bad)
CreateStreamline(n) == \E bad \in BOOLEAN : Create(n, "streamline", bad)

DropStructure(n) ==
    /\ trees' = Without(trees, n)
    /\ answer' = [kind |-> "dropped", existed |-> n \in DOMAIN trees]
    /\ view' = [view EXCEPT !.trees = Without(@, n)]
    /\ UNCHANGED <<plan, identity, kept>>

(* The lookups shared by the handlers. *)
IsOfKind(n, op) == trees[n].kind \in op.kinds
LookUp(n, op) == IF n \notin DOMAIN trees THEN "STRUCTURE_NOT_FOUND"
                 ELSE IF ~IsOfKind(n, op) THEN op.code ELSE "found"
EngineAccepts(n) == trees[n].content < Limit
Mutated(t, n) == [t EXCEPT ![n].content = @ + 1]

Mutate(n, op) ==
    /\ IF LookUp(n, op) # "found" THEN Fail(LookUp(n, op)) /\ UNCHANGED trees
       ELSE IF ~EngineAccepts(n) THEN Fail("refused") /\ UNCHANGED trees
       ELSE /\ trees' = Mutated(trees, n)
            /\ answer' = [kind |-> "applied"]
            /\ view' = [view EXCEPT !.trees = Mutated(@, n)]
    /\ UNCHANGED <<plan, identity, kept>>

(* check_mutation runs the checks of a tree mutation and nothing else. *)
CheckMutation(n, op) ==
    /\ IF LookUp(n, op) # "found" THEN Fail(LookUp(n, op))
       ELSE IF op = AddNode /\ trees[n].kind = "matrix" THEN Fail("UNSUPPORTED_OP")
       ELSE IF ~EngineAccepts(n) THEN Fail("refused")
       ELSE answer' = [kind |-> "checked"] /\ UNCHANGED view
    /\ UNCHANGED <<plan, identity, trees, kept>>

(* A query shows the structure; the callers learn what it holds. *)
Query(n, op) ==
    /\ IF LookUp(n, op) # "found" THEN Fail(LookUp(n, op))
       ELSE answer' = [kind |-> "shown", name |-> n, structure |-> trees[n]] /\ UNCHANGED view
    /\ UNCHANGED <<plan, identity, trees, kept>>

TakeSnapshot(n) ==
    /\ IF n \notin DOMAIN trees THEN Fail("STRUCTURE_NOT_FOUND") /\ UNCHANGED kept
       ELSE /\ kept' = trees[n] /\ UNCHANGED view
            /\ answer' = [kind |-> "shown", name |-> n, structure |-> trees[n]]
    /\ UNCHANGED <<plan, identity, trees>>

(* damage: none, data that does not parse as its tree_type, or data        *)
(* validate_restored rejects.                                              *)
RestoreSnapshot(n, damage) ==
    /\ kept # Nothing
    /\ IF n \in DOMAIN trees THEN Fail("TREE_EXISTS") /\ UNCHANGED trees
       ELSE IF damage # "none"
       THEN Fail(IF damage = "type" THEN "INVALID_PARAMS" ELSE "INCONSISTENT_SNAPSHOT") /\ UNCHANGED trees
       ELSE /\ trees' = With(trees, n, kept)
            /\ answer' = [kind |-> "restored"]
            /\ view' = [view EXCEPT !.trees = With(@, n, kept)]
    /\ UNCHANGED <<plan, identity, kept>>

(* require_plan, require_plan_identity. *)
HasPlan(namesPlan) == IF plan = NoPlan THEN "NO_PLAN"
                      ELSE IF namesPlan /\ identity = NoPlan THEN "INTERNAL_ERROR" ELSE "found"

(* The calculation handlers: the plan, its identity, the loaded structure, *)
(* the plan's structure of that name.                                      *)
Calculate(n, c) ==
    /\ IF HasPlan(c.namesPlan) # "found" THEN Fail(HasPlan(c.namesPlan))
       ELSE IF LookUp(n, Ops({}, {c.tree}, "INVALID_PARAMS")) # "found"
       THEN Fail(LookUp(n, Ops({}, {c.tree}, "INVALID_PARAMS")))
       ELSE IF plan.structures[n] # c.config THEN Fail("STRUCTURE_NOT_FOUND")
       ELSE /\ answer' = [kind |-> "calculated", by |-> plan.hash, on |-> trees[n], name |-> n,
                          hash |-> IF c.namesPlan THEN identity ELSE NoPlan]
            /\ UNCHANGED view
    /\ UNCHANGED <<plan, identity, trees, kept>>

(* board_calculate_commissions looks at no loaded structure. *)
CalculateBoard(n) ==
    /\ IF HasPlan(FALSE) # "found" THEN Fail(HasPlan(FALSE))
       ELSE IF plan.structures[n] # "board_plan" THEN Fail("STRUCTURE_NOT_FOUND")
       ELSE answer' = [kind |-> "board_calculated", by |-> plan.hash] /\ UNCHANGED view
    /\ UNCHANGED <<plan, identity, trees, kept>>

Dispatch ==
    \/ \E p \in Plans : LoadPlan(p)
    \/ \E n \in Names :
          \/ CreateTree(n) \/ CreateBoardPlan(n) \/ CreateStreamline(n)
          \/ DropStructure(n)
          \/ \E op \in Mutations : Mutate(n, op)
          \/ \E op \in TreeMutations : CheckMutation(n, op)
          \/ \E op \in Queries : Query(n, op)
          \/ TakeSnapshot(n)
          \/ \E damage \in {"none", "type", "content"} : RestoreSnapshot(n, damage)
          \/ \E c \in Calculations : Calculate(n, c)
          \/ CalculateBoard(n)

WorkerSpec == WorkerInit /\ [][Dispatch]_workerVars

(***************************************************************************)
(* The callers know the worker from its answers alone: after any requests  *)
(* its plan is the last one it answered as loaded, and every structure is  *)
(* what the accepted creations, restores, mutations and drops since make   *)
(* it.  A refusal, a check, a query or a snapshot leaves nothing behind.   *)
(* And a calculation is over the structure the callers know, by the plan   *)
(* they last loaded, under that plan's own hash: the comparison with the   *)
(* hash a commission run recorded means what it says.  (dispatch, the      *)
(* comment on WorkerState.plan_identity, Effect::Check.)                   *)
(***************************************************************************)
AnswersTellAll ==
    /\ trees = view.trees /\ plan = view.plan
    /\ answer.kind = "calculated" =>
          /\ answer.by = view.plan.hash /\ answer.hash \in {view.plan.hash, NoPlan}
          /\ answer.on = view.trees[answer.name]

=============================================================================
