----------------------------- MODULE TreeWriter -----------------------------
(***************************************************************************)
(* The write path of one tree: networkengine.TreeWriter over the event     *)
(* store, the adjacency table, the snapshot store and the tree's advisory  *)
(* lock, with TreeEventConsumer projecting the events.                     *)
(*                                                                         *)
(* Every command (add-root, place, remove, load, reject-event) runs in a   *)
(* process of its own with a fresh worker, so a writer's engine is local   *)
(* and lives for one operation.  What writers share is the stream, the     *)
(* table, the snapshot and the lock.  One action is one call to a shared   *)
(* store together with the local work up to the next one; an engine call   *)
(* is local.                                                               *)
(*                                                                         *)
(* What goes wrong here: a process dies, a call returns an error, an       *)
(* append commits after its error was reported, the server ends the lock's *)
(* session without the writer noticing, and the stream receives an event   *)
(* that was not checked (Stray), which reject-event exists for.            *)
(***************************************************************************)
EXTENDS TreeStore, FiniteSets

CONSTANTS
    Writers,            \* concurrent command invocations
    NoWriter,
    TreeTypes,          \* the types add-root may ask for
    Roots,              \* users add-root may name
    Placements,         \* placements requested: [user, parent, sponsor, pos]
    SnapshotInterval,   \* snapshotInterval, events between two snapshots
    MaxEvents,          \* bound: events in the stream, and MaxStrays rejections more
    MaxLosses,          \* bound: lock sessions ended by the server
    MaxStrays           \* bound: events appended without the writer

ASSUME ConstantsAssumption ==
    /\ NoUser \notin Users
    /\ NoWriter \notin Writers
    /\ NoPos \in Int /\ NoPos \notin Positions
    /\ TreeTypes \subseteq {"unilevel", "binary"}
    /\ Roots \subseteq Users
    /\ Placements \subseteq [user : Users, parent : Users, sponsor : Users,
                             pos : Positions \cup {NoPos}]
    /\ SnapshotInterval \in Nat \ {0}
    /\ MaxEvents \in Nat /\ MaxLosses \in Nat /\ MaxStrays \in Nat

VARIABLES
    stream,     \* the tree's event stream; an event's version is its index
    trees,      \* history: trees[v + 1] is the tree the stream means at version v
    store,      \* the adjacency table and its projected version
    snap,       \* the stored snapshot; version 0 is none
    holder,     \* who holds the advisory lock
    inflight,   \* appends whose caller got an error before the outcome was settled
    losses,     \* lock sessions ended so far
    strays,     \* events appended without the writer so far
    pc,         \* per writer: the next step of its operation
    req,        \* per writer: the request it serves
    shape,      \* per writer: the tree type it goes ahead with, NoType when unread
    loaded,     \* per writer: the projected version its load read
    seen,       \* per writer: the active rows its load read
    engine,     \* per writer: the tree its worker holds
    at,         \* per writer: the version its replay reached
    base,       \* per writer: the version of the snapshot its load kept, or 0
    last,       \* per writer: the version of the last event it read
    cur,        \* per writer: the version HandleEvent is projecting
    phase,      \* per writer: "load", "catchup", "project" or "resume"
    depth,      \* per writer: the depth it derived from the parent's row
    result      \* per writer: what its operation reports

streamVars == <<stream, trees>>
faultVars == <<losses, strays>>
buildVars == <<loaded, seen, engine, at, base>>
handleVars == <<cur, phase, depth>>
vars == <<stream, trees, store, snap, holder, inflight, losses, strays,
          pc, req, shape, loaded, seen, engine, at, base, last, cur, phase, depth, result>>

NoType == "none"

(***************************************************************************)
(* Events and requests.  A request becomes the event with the same id.     *)
(***************************************************************************)
EventTypes == {"root_added", "node_placed", "node_removed", "event_rejected"}
Bodies == [id : Nat, user : Users \cup {NoUser}, parent : Users \cup {NoUser},
           sponsor : Users \cup {NoUser}, pos : Positions \cup {NoPos}, target : Nat]
Events == {e \in [type : EventTypes, body : Bodies, ttype : TreeTypes, stray : BOOLEAN] :
               e.type # "event_rejected" => e.body.user \in Users}
Requests == {r \in [kind : EventTypes \cup {"load"}, body : Bodies, ttype : TreeTypes \cup {NoType}] :
                 r.kind \notin {"event_rejected", "load"} => r.body.user \in Users}

Body(id, u, p, s, pos, target) ==
    [id |-> id, user |-> u, parent |-> p, sponsor |-> s, pos |-> pos, target |-> target]
NoBody == Body(0, NoUser, NoUser, NoUser, NoPos, 0)
NoRequest == [kind |-> "load", body |-> NoBody, ttype |-> NoType]

IsRejection(v) == stream[v].type = "event_rejected"

(* checkRejectionTarget: a rejection names the event directly before it. *)
NamesPrevious(v) == v >= 2 /\ stream[v].body.target = stream[v - 1].body.id

(* The engine's answer to an event, and the tree it leaves. *)
Refusal(t, e) ==
    LET b == e.body
    IN  CASE e.type = "root_added"   -> CheckAddRoot(t, b.user)
          [] e.type = "node_placed"  -> CheckAddNode(t, b.user, b.parent, b.sponsor, b.pos)
          [] e.type = "node_removed" -> CheckRemoveNode(t, b.user)

Accepts(t, e) == Refusal(t, e) = "ok"

Apply(t, e) ==
    LET b == e.body
    IN  CASE e.type = "root_added"   -> AddRoot(t, b.user)
          [] e.type = "node_placed"  -> AddNode(t, b.user, b.parent, b.sponsor, b.pos)
          [] e.type = "node_removed" -> RemoveNode(t, b.user)

(***************************************************************************)
(* What the stream means: an event that applies changes the tree, one that *)
(* does not leaves it, and a rejection takes back the event before it.     *)
(***************************************************************************)
TreeAfter(e) ==
    IF e.type = "event_rejected" THEN trees[Len(trees) - 1]
    ELSE IF Accepts(trees[Len(trees)], e) THEN Apply(trees[Len(trees)], e)
    ELSE trees[Len(trees)]

Extend(e) == /\ stream' = Append(stream, e)
             /\ trees' = Append(trees, TreeAfter(e))

NoResult == [out |-> "none", id |-> 0, version |-> 0, observed |-> 0]

Init ==
    /\ stream = <<>> /\ trees = <<EmptyTree>>
    /\ store = EmptyStore
    /\ snap = [version |-> 0, tree |-> EmptyTree]
    /\ holder = NoWriter /\ inflight = {} /\ losses = 0 /\ strays = 0
    /\ pc = [w \in Writers |-> "idle"]
    /\ req = [w \in Writers |-> NoRequest]
    /\ shape = [w \in Writers |-> NoType]
    /\ loaded = [w \in Writers |-> 0]
    /\ seen = [w \in Writers |-> EmptyStore.active]
    /\ engine = [w \in Writers |-> EmptyTree]
    /\ at = [w \in Writers |-> 0]
    /\ base = [w \in Writers |-> 0]
    /\ last = [w \in Writers |-> 0]
    /\ cur = [w \in Writers |-> 0]
    /\ phase = [w \in Writers |-> "load"]
    /\ depth = [w \in Writers |-> 0]
    /\ result = [w \in Writers |-> NoResult]

-----------------------------------------------------------------------------
(***************************************************************************)
(* Steps of the operations, before the lock.                               *)
(***************************************************************************)
Goto(w, l) == pc' = [pc EXCEPT ![w] = l]
Report(w, out, v, o) ==
    result' = [result EXCEPT ![w] = [out |-> out, id |-> req[w].body.id,
                                     version |-> v, observed |-> o]]
Keep == result' = result

(* End with an error or a refusal that appended nothing; the deferred      *)
(* unlock runs next.                                                       *)
Refuse(w, out) == Goto(w, "unlock") /\ Report(w, out, 0, 0)

(* The process ends: its local state is gone. *)
Forget(w) ==
    /\ Goto(w, "idle")
    /\ req' = [req EXCEPT ![w] = NoRequest]
    /\ shape' = [shape EXCEPT ![w] = NoType]
    /\ loaded' = [loaded EXCEPT ![w] = 0]
    /\ seen' = [seen EXCEPT ![w] = EmptyStore.active]
    /\ engine' = [engine EXCEPT ![w] = EmptyTree]
    /\ at' = [at EXCEPT ![w] = 0]
    /\ base' = [base EXCEPT ![w] = 0]
    /\ last' = [last EXCEPT ![w] = 0]
    /\ cur' = [cur EXCEPT ![w] = 0]
    /\ phase' = [phase EXCEPT ![w] = "load"]
    /\ depth' = [depth EXCEPT ![w] = 0]
    /\ result' = [result EXCEPT ![w] = NoResult]

(* readShape: the tree type version 1 records. *)
Recorded == IF stream = <<>> THEN NoType ELSE stream[1].ttype

(* uuid.NewString: an id that nothing else carries. *)
EventIDs == 1..(MaxEvents + 2 * MaxStrays)
UsedIDs == {stream[v].body.id : v \in DOMAIN stream} \cup {f.event.body.id : f \in inflight}
           \cup {req[w].body.id : w \in Writers}
NewID == CHOOSE n \in EventIDs : n \notin UsedIDs

(* The bound counts the events recorded, undecided, and still to come from *)
(* the commands running; a rejection, and its resumption, always has room. *)
HasRoom(extra) ==
    /\ \E n \in EventIDs : n \notin UsedIDs
    /\ Len(stream) + Cardinality(inflight) + Cardinality({w \in Writers : req[w].body.id > 0})
          < MaxEvents + extra

Start(w, kind, body, ttype) ==
    /\ pc[w] = "idle"
    /\ kind # "load" => HasRoom(IF kind = "event_rejected" THEN 2 * MaxStrays ELSE 0)
    /\ req' = [req EXCEPT ![w] = [kind |-> kind, body |-> body, ttype |-> ttype]]
    /\ shape' = [shape EXCEPT ![w] = Recorded]
    /\ Goto(w, "lock")
    /\ UNCHANGED <<streamVars, store, snap, holder, inflight, faultVars, buildVars, last, handleVars, result>>

(* AddRoot and Load take a type; shapeConflict refuses one that differs    *)
(* from version 1's.  The others need a version 1.                         *)
StartAddRoot(w) == \E u \in Roots, t \in TreeTypes :
    /\ Recorded \in {NoType, t}
    /\ Start(w, "root_added", Body(NewID, u, NoUser, NoUser, NoPos, 0), t)

(* checkNodePlacedShape: a unilevel placement names no position. *)
FittingPlacements == {p \in Placements : (p.pos = NoPos) = (Recorded = "unilevel")}

StartPlace(w) == \E p \in FittingPlacements :
    /\ Recorded # NoType
    /\ Start(w, "node_placed", Body(NewID, p.user, p.parent, p.sponsor, p.pos, 0), NoType)

StartRemove(w) == \E u \in Users :
    /\ Recorded # NoType
    /\ Start(w, "node_removed", Body(NewID, u, NoUser, NoUser, NoPos, 0), NoType)

StartLoad(w) == \E t \in TreeTypes :
    /\ Recorded \in {NoType, t}
    /\ Start(w, "load", NoBody, t)

(* An operator names one of the last two events; any other id meets the    *)
(* same refusal as one of these.                                           *)
StartReject(w) == \E v \in DOMAIN stream :
    /\ v >= Len(stream) - 1
    /\ Start(w, "event_rejected", Body(NewID, NoUser, NoUser, NoUser, NoPos, stream[v].body.id), NoType)

(* lock: the wait ends with the lock, or with TreeLockWaitError. *)
Lock(w) ==
    /\ pc[w] = "lock" /\ holder = NoWriter
    /\ holder' = w
    /\ Goto(w, IF req[w].kind = "event_rejected" THEN "rejectProjected"
               ELSE IF shape[w] = NoType THEN "underLock" ELSE "rows")
    /\ UNCHANGED <<streamVars, store, snap, inflight, faultVars, req, shape, buildVars, last, handleVars, result>>

LockTimeout(w) ==
    /\ pc[w] = "lock" /\ holder # NoWriter
    /\ Forget(w)
    /\ UNCHANGED <<streamVars, store, snap, holder, inflight, faultVars>>

(* Mutant: no second read. *)
SecondReadSkipped == NoType

(* readShape again, under the lock. *)
SecondRead == Recorded

(* A stream that was empty before the lock is read again under it. *)
UnderLock(w) ==
    /\ pc[w] = "underLock"
    /\ shape' = [shape EXCEPT ![w] = IF SecondRead = NoType THEN req[w].ttype ELSE SecondRead]
    /\ IF SecondRead \in {NoType, req[w].ttype} THEN Goto(w, "rows") /\ Keep
       ELSE Refuse(w, "refused")
    /\ UNCHANGED <<streamVars, store, snap, holder, inflight, faultVars, req, buildVars, last, handleVars>>

-----------------------------------------------------------------------------
(***************************************************************************)
(* prepare: read the projection, build the engine's tree, fence the stream.*)
(***************************************************************************)
ReadRows(w) ==
    /\ pc[w] = "rows"
    /\ loaded' = [loaded EXCEPT ![w] = store.projected]
    /\ seen' = [seen EXCEPT ![w] = store.active]
    /\ Goto(w, IF Preflight(View(store.active)) THEN "snapshot" ELSE "buildFailed")
    /\ UNCHANGED <<streamVars, store, snap, holder, inflight, faultVars, req, shape,
                   engine, at, base, last, handleVars, result>>

(* unusableReason: above the projection, or of a version a rejection names. *)
(* The tree type it records is that of version 1, which no writer changes.  *)
SnapshotUsable(p) ==
    /\ snap.version <= p
    /\ ~ (snap.version < p /\ IsRejection(snap.version + 1) /\ NamesPrevious(snap.version + 1))

NoSnap == [version |-> 0, tree |-> EmptyTree]

(* usableSnapshot with the restore: a usable snapshot seeds the engine, an *)
(* unusable one is deleted, unless the delete fails, and without one the   *)
(* replay starts at version 1.                                             *)
UsableSnapshot(w) ==
    LET use == snap.version > 0 /\ SnapshotUsable(loaded[w])
    IN  /\ pc[w] = "snapshot"
        /\ engine' = [engine EXCEPT ![w] = IF use THEN snap.tree ELSE EmptyTree]
        /\ at' = [at EXCEPT ![w] = IF use THEN snap.version ELSE 0]
        /\ base' = [base EXCEPT ![w] = IF use THEN snap.version ELSE 0]
        /\ snap' \in IF use THEN {snap} ELSE {snap, NoSnap}
        /\ Goto(w, "replay")
        /\ UNCHANGED <<streamVars, store, holder, inflight, faultVars, req, shape,
                       loaded, seen, last, handleVars, result>>

(* A snapshot read that fails is a warning: the load replays the stream. *)
SnapshotUnread(w) ==
    /\ pc[w] = "snapshot" /\ snap.version > 0
    /\ engine' = [engine EXCEPT ![w] = EmptyTree]
    /\ at' = [at EXCEPT ![w] = 0]
    /\ base' = [base EXCEPT ![w] = 0]
    /\ Goto(w, "replay")
    /\ UNCHANGED <<streamVars, store, snap, holder, inflight, faultVars, req, shape,
                   loaded, seen, last, handleVars, result>>

(* A build that fails from a snapshot drops both and replays the stream;   *)
(* one that fails from the stream ends the load.                           *)
BuildFails(w) ==
    IF base[w] > 0
    THEN /\ snap' \in IF snap.version = base[w] THEN {snap, NoSnap} ELSE {snap}
         /\ engine' = [engine EXCEPT ![w] = EmptyTree]
         /\ at' = [at EXCEPT ![w] = 0]
         /\ base' = [base EXCEPT ![w] = 0]
         /\ UNCHANGED pc
    ELSE /\ Goto(w, "buildFailed")
         /\ UNCHANGED <<snap, engine, at, base>>

(* The event at v is skipped by a replay through p: a rejection, or the    *)
(* event the next one rejects.                                             *)
Skipped(v, p) == IsRejection(v) \/ (v < p /\ IsRejection(v + 1))

(* Mutant: a skipped event does not count as replayed. *)
ReachedUnskipped(v, p) == IF Skipped(v, p) THEN v - 1 ELSE v

(* The version a replay has reached with the event at v, applied or not. *)
Reached(v, p) == v

(* replayStream: one event, in version order. *)
Replay(w) ==
    LET v == at[w] + 1
    IN  /\ pc[w] = "replay" /\ at[w] < loaded[w]
        /\ IF Skipped(v, loaded[w]) \/ Accepts(engine[w], stream[v])
           THEN /\ engine' = [engine EXCEPT ![w] =
                                IF Skipped(v, loaded[w]) THEN @ ELSE Apply(@, stream[v])]
                /\ at' = [at EXCEPT ![w] = Reached(v, loaded[w])]
                /\ UNCHANGED <<pc, snap, base>>
           ELSE BuildFails(w)
        /\ UNCHANGED <<streamVars, store, holder, inflight, faultVars, req, shape,
                       loaded, seen, last, handleVars, result>>

(* checkReplayed and checkMembership: the engine and the rows hold the     *)
(* same users at the same depths.                                          *)
MembersAgree(w) ==
    IF DOMAIN seen[w] = {} THEN base[w] = 0 /\ ~ HasRoot(engine[w])
    ELSE /\ DOMAIN seen[w] = DOMAIN engine[w]
         /\ \A u \in DOMAIN seen[w] : seen[w][u].node.depth = engine[w][u].depth

CheckMembership(w) ==
    /\ pc[w] = "replay" /\ at[w] = loaded[w]
    /\ IF MembersAgree(w) THEN Goto(w, "last") /\ UNCHANGED <<snap, engine, at, base>>
       ELSE BuildFails(w)
    /\ UNCHANGED <<streamVars, store, holder, inflight, faultVars, req, shape,
                   loaded, seen, last, handleVars, result>>

(* pendingRejection: the stream ends with a rejection one or two versions  *)
(* past the store.                                                         *)
Pending(v, p) == v > 0 /\ IsRejection(v) /\ v > p /\ v - 2 <= p

(* checkStream: a pending rejection, an applied one that names another     *)
(* event, or a last version the store cannot reach by one redelivery.      *)
StreamRefused(v, p) ==
    \/ Pending(v, p)
    \/ v > 0 /\ IsRejection(v) /\ v = p /\ ~ NamesPrevious(v)
    \/ v \notin {p, p + 1}

(* HandleEvent starts on event e of version v. *)
Handle(w, e, v, ph) ==
    /\ cur' = [cur EXCEPT ![w] = v]
    /\ phase' = [phase EXCEPT ![w] = ph]
    /\ Goto(w, CASE e.type = "root_added"     -> "insert"
                 [] e.type = "node_placed"    -> "parent"
                 [] e.type = "node_removed"   -> "removal"
                 [] e.type = "event_rejected" -> "rejection")
    /\ UNCHANGED depth

(* ReadLastEvent and checkStream, then the redelivery of the last event:   *)
(* always for a write and a retry, only when the store is behind for load. *)
ReadLast(w) ==
    LET v == Len(stream)
    IN  /\ pc[w] = "last"
        /\ last' = [last EXCEPT ![w] = v]
        /\ IF StreamRefused(v, loaded[w])
                \/ (req[w].kind = "event_rejected" /\ stream[v].body.id # req[w].body.target)
           THEN Refuse(w, "refused") /\ UNCHANGED handleVars
           ELSE IF req[w].kind = "load" /\ v = loaded[w]
           THEN Goto(w, "unlock") /\ Report(w, "loaded", v, 0) /\ UNCHANGED handleVars
           ELSE IF v = 0 THEN Goto(w, "append") /\ Keep /\ UNCHANGED handleVars
           ELSE Handle(w, stream[v], v, "catchup") /\ Keep
        /\ UNCHANGED <<streamVars, store, snap, holder, inflight, faultVars, req, shape, buildVars>>

(* Mutants: a failed call is evidence; an event no row can take is not. *)
EvidenceOfAnyError == {"ErrReplayedPlacement", "ErrActiveUserConflict", "callFailed"}
EvidenceOfConflicts == {"ErrActiveUserConflict", "ErrSlotConflict", "ErrRootConflict"}

(* The refusals reject-event takes as evidence that an event cannot apply. *)
Evidence == {"ErrReplayedPlacement", "ErrActiveUserConflict", "ErrSlotConflict", "ErrRootConflict",
             "ErrUnprojectableEvent", "POSITION_OCCUPIED", "HAS_CHILDREN", "SPONSOR_NOT_FOUND",
             "SPONSORLESS_WITH_RECRUITS", "SPONSOR_CYCLE"}

(* A failed build reads the last event too, so that a stream refusal       *)
(* outranks it (RefusedAfterFailedBuildError); a failed read leaves the    *)
(* build error, and so does a pending rejection, whose error unwraps to    *)
(* it.  What is left is evidence for reject-event when replay refused the  *)
(* rejected placement itself, or when preflight refused rows that pass it  *)
(* without the rejected event's own row.                                   *)
BuildFailed(w) ==
    LET v == Len(stream)
        replayRefused == /\ Preflight(View(seen[w]))
                         /\ at[w] + 1 = last[w] /\ at[w] < loaded[w]
                         /\ stream[last[w]].type = "node_placed"
                         /\ Refusal(engine[w], stream[last[w]]) \in Evidence
    IN  /\ pc[w] = "buildFailed"
        /\ \E read \in BOOLEAN :
               IF \/ req[w].kind # "event_rejected"
                  \/ read /\ StreamRefused(v, loaded[w]) /\ ~ Pending(v, loaded[w])
               THEN Refuse(w, "refused")
               ELSE IF replayRefused THEN Goto(w, "append") /\ Keep
               ELSE IF Preflight(View(seen[w])) THEN Refuse(w, "refused")
               ELSE Goto(w, "stuckRow") /\ Keep
        /\ UNCHANGED <<streamVars, store, snap, holder, inflight, faultVars, req, shape, buildVars, last, handleVars>>

StuckRowStopsTheLoad(w) ==
    LET stuck == {u \in DOMAIN store.active : store.active[u].id = req[w].body.target}
        others == [u \in DOMAIN store.active \ stuck |-> store.active[u]]
    IN  /\ pc[w] = "stuckRow"
        /\ IF stuck # {} /\ Preflight(View(others)) THEN Goto(w, "append") /\ Keep
           ELSE Refuse(w, "refused")
        /\ UNCHANGED <<streamVars, store, snap, holder, inflight, faultVars, req, shape, buildVars, last, handleVars>>

-----------------------------------------------------------------------------
(***************************************************************************)
(* HandleEvent: the consumer projects the event at cur[w].  Placements     *)
(* reach the table before the engine, removals the engine before the table.*)
(***************************************************************************)
Ev(w) == stream[cur[w]]

ReplyLost == "commitReplyLost"      \* the store write landed, its answer did not

(* Mutant: a failed catch-up is passed over. *)
HandleFailsPassedOver(w, why) == Goto(w, IF phase[w] # "catchup" THEN "observe" ELSE "append") /\ Keep

(* A failed catch-up ends a write and a load, and is what reject-event     *)
(* wants.  A failed projection leaves the append confirmed.                *)
HandleFails(w, why) ==
    IF phase[w] # "catchup" THEN Goto(w, "observe") /\ Keep
    ELSE IF req[w].kind = "event_rejected" /\ why \in Evidence THEN Goto(w, "append") /\ Keep
    ELSE Refuse(w, IF why = "callFailed" THEN "failed" ELSE "refused")

(* A write goes on to its check, a load and a retry end, a projection is   *)
(* followed by a snapshot when one is due.                                 *)
HandleDone(w) ==
    IF phase[w] = "project"
    THEN /\ Goto(w, IF req[w].kind # "event_rejected" /\ cur[w] - base[w] >= SnapshotInterval
                    THEN "snapCheck" ELSE "unlock")
         /\ Report(w, "appended", cur[w], cur[w])
    ELSE IF phase[w] = "resume" THEN Goto(w, "unlock") /\ Report(w, "resumed", cur[w], cur[w])
    ELSE IF req[w].kind = "load" THEN Goto(w, "unlock") /\ Report(w, "loaded", cur[w], 0)
    ELSE IF req[w].kind = "event_rejected" THEN Refuse(w, "retried")
    ELSE Goto(w, "append") /\ Keep

handleFrame == <<streamVars, snap, holder, inflight, faultVars, req, shape,
                 loaded, seen, at, base, last, cur, phase>>

(* handleNodePlaced reads the parent's row for the depth. *)
ReadParent(w) ==
    LET p == Ev(w).body.parent
    IN  /\ pc[w] = "parent"
        /\ IF p \in DOMAIN store.active
           THEN /\ depth' = [depth EXCEPT ![w] = store.active[p].node.depth + 1]
                /\ Goto(w, "insert") /\ Keep
           ELSE HandleFails(w, "ErrUnprojectableEvent") /\ UNCHANGED depth
        /\ UNCHANGED <<handleFrame, store, engine>>

InsertRow(w) ==
    LET b == Ev(w).body
        root == Ev(w).type = "root_added"
        n == [parent |-> b.parent, sponsor |-> b.sponsor, pos |-> b.pos,
              depth |-> IF root THEN 0 ELSE depth[w]]
        o == InsertOutcome(store, b.id, b.user, n, cur[w])
    IN  /\ pc[w] = "insert"
        /\ store' = IF o = "ok" THEN ProjectInsert(store, b.id, b.user, n, cur[w]) ELSE store
        /\ IF o = "ok" THEN (Goto(w, "engineAdd") /\ Keep) \/ HandleFails(w, ReplyLost)
           ELSE IF o = "ErrNodeAlreadyProjected" THEN Goto(w, "replayed") /\ Keep
           ELSE HandleFails(w, o)
        /\ UNCHANGED <<handleFrame, engine, depth>>

(* checkReplayedInsert: only the event's own active row goes on. *)
CheckReplayedInsert(w) ==
    LET b == Ev(w).body
    IN  /\ pc[w] = "replayed"
        /\ IF b.user \in DOMAIN store.active /\ store.active[b.user].id = b.id
           THEN Goto(w, "engineAdd") /\ Keep
           ELSE HandleFails(w, "ErrReplayedPlacement")
        /\ UNCHANGED <<handleFrame, store, engine, depth>>

Exists == {"USER_ALREADY_EXISTS", "ROOT_ALREADY_EXISTS"}

(* add_root and add_node with their retries.  A reply that was lost makes  *)
(* the retry report the user as present; that refusal is inspected.        *)
EngineAdd(w) ==
    LET e == Ev(w)
    IN  /\ pc[w] = "engineAdd"
        /\ \/ /\ Accepts(engine[w], e)
              /\ engine' = [engine EXCEPT ![w] = Apply(@, e)]
              /\ \/ HandleDone(w)
                 \/ Goto(w, "reconcileAdd") /\ Keep
           \/ /\ Refusal(engine[w], e) \in Exists
              /\ Goto(w, "reconcileAdd") /\ Keep /\ UNCHANGED engine
           \/ /\ Refusal(engine[w], e) \notin Exists \cup {"ok"}
              /\ HandleFails(w, Refusal(engine[w], e)) /\ UNCHANGED engine
        /\ UNCHANGED <<handleFrame, store, depth>>

(* The reconcile of an add: converged when the engine holds the user where *)
(* the event, or for a placement the active row, says.                     *)
ReconcileAdd(w) ==
    LET u == Ev(w).body.user
        same == /\ u \in DOMAIN engine[w]
                /\ IF Ev(w).type = "root_added" THEN engine[w][u].depth = 0
                   ELSE /\ u \in DOMAIN store.active
                        /\ engine[w][u] = store.active[u].node
    IN  /\ pc[w] = "reconcileAdd"
        /\ IF same THEN HandleDone(w) ELSE HandleFails(w, "diverged")
        /\ UNCHANGED <<handleFrame, store, engine, depth>>

(* remove_node and its store write.  The engine is scratch, so a call that *)
(* dies between the two leaves what one that dies before them leaves.      *)
RemoveRow(w) ==
    LET b == Ev(w).body
        moved == Recruits(engine[w], b.user)
        o == RemovalOutcome(store, b.user, moved, cur[w])
    IN  /\ pc[w] = "removal" /\ Accepts(engine[w], Ev(w))
        /\ engine' = [engine EXCEPT ![w] = Apply(@, Ev(w))]
        /\ store' = IF o = "ok" THEN ProjectRemoval(store, b.id, b.user, moved,
                                         engine[w][b.user].sponsor, cur[w])
                    ELSE store
        /\ IF o = "ok" THEN HandleDone(w) \/ HandleFails(w, ReplyLost) ELSE HandleFails(w, o)
        /\ UNCHANGED <<handleFrame, depth>>

(* The engine applies the removal, its reply is lost, and it refuses the   *)
(* retry.                                                                  *)
RemovalReplyLost(w) ==
    /\ pc[w] = "removal" /\ Accepts(engine[w], Ev(w))
    /\ engine' = [engine EXCEPT ![w] = Apply(@, Ev(w))]
    /\ Goto(w, "reconcileStamp") /\ Keep
    /\ UNCHANGED <<handleFrame, store, depth>>

(* The engine refuses the removal.  USER_NOT_FOUND is inspected. *)
RemovalRefused(w) ==
    LET o == Refusal(engine[w], Ev(w))
    IN  /\ pc[w] = "removal" /\ o # "ok"
        /\ IF o = "USER_NOT_FOUND" THEN Goto(w, "reconcileStamp") /\ Keep
           ELSE HandleFails(w, o)
        /\ UNCHANGED <<handleFrame, store, engine, depth>>

(* The reconcile of a removal: GetNodeByRemovalEvent, then the user's row. *)
ReconcileStamp(w) ==
    /\ pc[w] = "reconcileStamp"
    /\ IF StampedBy(store, Ev(w).body.id) THEN HandleDone(w)
       ELSE Goto(w, "reconcileUser") /\ Keep
    /\ UNCHANGED <<handleFrame, store, engine, depth>>

ReconcileUser(w) ==
    LET b == Ev(w).body
    IN  /\ pc[w] = "reconcileUser"
        /\ IF b.user \in DOMAIN store.active THEN HandleFails(w, "RemovalNotProjected")
           ELSE IF NewestStamp(store, b.user) = b.id THEN HandleDone(w)
           ELSE HandleFails(w, "ErrUnprojectableEvent")
        /\ UNCHANGED <<handleFrame, store, engine, depth>>

(* handleEventRejected. *)
RejectRow(w) ==
    LET o == RejectionOutcome(store, cur[w])
    IN  /\ pc[w] = "rejection"
        /\ IF o = "ok" /\ NamesPrevious(cur[w])
           THEN /\ store' = ProjectRejection(store, Ev(w).body.target, cur[w])
                /\ HandleDone(w) \/ HandleFails(w, ReplyLost)
           ELSE HandleFails(w, o) /\ UNCHANGED store
        /\ UNCHANGED <<handleFrame, engine, depth>>

-----------------------------------------------------------------------------
(***************************************************************************)
(* The append, its three outcomes, and what follows it.                    *)
(***************************************************************************)
NewEvent(w) == [type |-> req[w].kind, body |-> req[w].body, ttype |-> shape[w], stray |-> FALSE]

Checked(w) == req[w].kind # "event_rejected" => Accepts(engine[w], NewEvent(w))

appendFrame == <<store, snap, holder, faultVars, req, shape, buildVars, last>>

(* check_mutation refuses the request: nothing is appended. *)
CheckRefuses(w) ==
    /\ pc[w] = "append" /\ ~ Checked(w)
    /\ Refuse(w, "refused")
    /\ UNCHANGED <<streamVars, inflight, appendFrame, handleVars>>

(* Mutant: the expected version is not compared. *)
AtExpectedVersionAnywhere(w) == TRUE

(* The expected version of the append is the stream's. *)
AtExpectedVersion(w) == Len(stream) = last[w]

(* Append commits at the version after the one expected.  The answer is    *)
(* followed by the projection of the event; a lost one by a read.          *)
AppendCommits(w) ==
    /\ pc[w] = "append" /\ Checked(w) /\ AtExpectedVersion(w)
    /\ Extend(NewEvent(w))
    /\ \/ Handle(w, NewEvent(w), Len(stream) + 1, "project")
       \/ Goto(w, "confirm") /\ UNCHANGED handleVars
    /\ Keep
    /\ UNCHANGED <<inflight, appendFrame>>

(* Another event took the expected version: ConcurrencyError. *)
AppendConflicts(w) ==
    /\ pc[w] = "append" /\ Checked(w) /\ ~ AtExpectedVersion(w)
    /\ Refuse(w, "conflict")
    /\ UNCHANGED <<streamVars, inflight, appendFrame, handleVars>>

(* The reply is lost while the commit is still undecided. *)
AppendUnanswered(w) ==
    /\ pc[w] = "append" /\ Checked(w)
    /\ inflight' = inflight \cup {[event |-> NewEvent(w), after |-> last[w]]}
    /\ Goto(w, "confirm") /\ Keep
    /\ UNCHANGED <<streamVars, appendFrame, handleVars>>

(* The server finishes such a commit, or gives it up. *)
CommitLands == \E f \in inflight :
    /\ f.after = Len(stream)
    /\ Extend(f.event)
    /\ inflight' = inflight \ {f}
    /\ UNCHANGED <<appendFrame, pc, handleVars, result>>

CommitFails == \E f \in inflight :
    /\ inflight' = inflight \ {f}
    /\ UNCHANGED <<streamVars, appendFrame, pc, handleVars, result>>

(* Mutant: any event at the version counts as the command's own. *)
IsOwnEventAny(w, v) == TRUE

IsOwnEvent(w, v) == stream[v].body.id = req[w].body.id

(* The read of the version the append aimed at finds its own event,        *)
(* another's, or none.                                                     *)
ConfirmAppend(w) ==
    LET v == last[w] + 1
    IN  /\ pc[w] = "confirm"
        /\ IF v > Len(stream) THEN Refuse(w, "noEventFound") /\ UNCHANGED handleVars
           ELSE IF ~ IsOwnEvent(w, v)
           THEN Refuse(w, "notAppended") /\ UNCHANGED handleVars
           ELSE Handle(w, stream[v], v, "project") /\ Keep
        /\ UNCHANGED <<streamVars, inflight, appendFrame>>

Unobserved == -1

(* A projection error reads the projected version for the report. *)
Observe(w) ==
    /\ pc[w] = "observe"
    /\ Goto(w, "unlock")
    /\ \E o \in {store.projected, Unobserved} :
           Report(w, IF phase[w] = "resume" THEN "resumed" ELSE "appended", cur[w], o)
    /\ UNCHANGED <<streamVars, inflight, appendFrame, handleVars>>

(* takeSnapshot: only while the table is still at this write's version. *)
SnapshotCheck(w) ==
    /\ pc[w] = "snapCheck"
    /\ Goto(w, IF store.projected = cur[w] THEN "snapPut" ELSE "unlock")
    /\ UNCHANGED <<streamVars, inflight, appendFrame, handleVars, result>>

(* Mutant: the snapshot carries the version read before the append. *)
SnapshotOfEarlier(w) == [version |-> last[w], tree |-> engine[w]]

SnapshotOf(w) == [version |-> cur[w], tree |-> engine[w]]

(* Put keeps the higher version. *)
SnapshotPut(w) ==
    /\ pc[w] = "snapPut"
    /\ snap' = IF snap.version >= cur[w] THEN snap ELSE SnapshotOf(w)
    /\ Goto(w, "unlock")
    /\ UNCHANGED <<streamVars, inflight, store, holder, faultVars, req, shape,
                   buildVars, last, handleVars, result>>

(* The deferred unlock.  A writer whose session was ended releases nothing. *)
Unlock(w) ==
    /\ pc[w] = "unlock"
    /\ holder' = IF holder = w THEN NoWriter ELSE holder
    /\ Forget(w)
    /\ UNCHANGED <<streamVars, store, snap, inflight, faultVars>>

-----------------------------------------------------------------------------
(***************************************************************************)
(* reject-event under the lock.  The projected version is read before the  *)
(* last event.  A stream that ends with a rejection is resumed; otherwise  *)
(* the last event is retried.                                              *)
(***************************************************************************)
RejectReadProjected(w) ==
    /\ pc[w] = "rejectProjected"
    /\ loaded' = [loaded EXCEPT ![w] = store.projected]
    /\ Goto(w, "rejectLast")
    /\ UNCHANGED <<streamVars, store, snap, holder, inflight, faultVars, req, shape,
                   seen, engine, at, base, last, handleVars, result>>

RejectReadLast(w) ==
    LET v == Len(stream)
    IN  /\ pc[w] = "rejectLast"
        /\ last' = [last EXCEPT ![w] = v]
        /\ IF ~ IsRejection(v)
           THEN /\ IF stream[v].body.id = req[w].body.target THEN Goto(w, "rows") /\ Keep
                   ELSE Refuse(w, "refused")
                /\ UNCHANGED handleVars
           ELSE IF stream[v].body.target # req[w].body.target \/ loaded[w] \notin {v, v - 1, v - 2}
           THEN Refuse(w, "refused") /\ UNCHANGED handleVars
           ELSE IF loaded[w] = v
           THEN Goto(w, "unlock") /\ Report(w, "alreadyApplied", v, v) /\ UNCHANGED handleVars
           ELSE IF NamesPrevious(v) THEN Handle(w, stream[v], v, "resume") /\ Keep
           ELSE Refuse(w, "refused") /\ UNCHANGED handleVars
        /\ UNCHANGED <<streamVars, store, snap, holder, inflight, faultVars, req, shape, buildVars>>

-----------------------------------------------------------------------------
(***************************************************************************)
(* Faults.                                                                 *)
(***************************************************************************)
PrepareSteps == {"underLock", "rejectProjected", "rejectLast", "rows", "snapshot", "replay",
                 "last", "buildFailed", "stuckRow"}
HandleSteps == {"parent", "insert", "replayed", "engineAdd", "reconcileAdd", "removal",
                "reconcileStamp", "reconcileUser", "rejection"}
SnapshotSteps == {"snapCheck", "snapPut"}

(* A call returns an error, or the caller's context ends.  Before the      *)
(* append that ends the operation; an unread append outcome is unknown; a  *)
(* projection error is observed; a snapshot error is a warning.            *)
CallFails(w) ==
    /\ \/ pc[w] \in PrepareSteps \cup {"append"} /\ Refuse(w, "failed")
       \/ pc[w] \in HandleSteps /\ HandleFails(w, "callFailed")
       \/ pc[w] = "confirm" /\ Refuse(w, "unknown")
       \/ pc[w] \in SnapshotSteps /\ Goto(w, "unlock") /\ Keep
    /\ UNCHANGED <<streamVars, inflight, appendFrame, handleVars>>

(* The process dies; its session, and with it the lock, goes too.  One     *)
(* that dies while it waits for the lock, or ends, leaves nothing new.     *)
Crash(w) ==
    /\ pc[w] \notin {"idle", "lock", "unlock"}
    /\ holder' = IF holder = w THEN NoWriter ELSE holder
    /\ Forget(w)
    /\ UNCHANGED <<streamVars, store, snap, inflight, faultVars>>

(* The server ends the lock's session; the holder does not notice. *)
LoseLock ==
    /\ holder # NoWriter /\ losses < MaxLosses
    /\ holder' = NoWriter /\ losses' = losses + 1
    /\ UNCHANGED <<streamVars, store, snap, inflight, strays, pc, req, shape,
                   buildVars, last, handleVars, result>>

(* An event appended by code that is not the writer, neither checked nor   *)
(* projected.  The table is level when it lands: a second one behind it    *)
(* would be past every repair the writer has.                              *)
Unchecked == {[type |-> "node_placed", body |-> Body(NewID, p.user, p.parent, p.sponsor, p.pos, 0),
               ttype |-> Recorded, stray |-> TRUE] : p \in FittingPlacements}
             \cup {[type |-> k, body |-> Body(NewID, u, NoUser, NoUser, NoPos, 0),
                    ttype |-> Recorded, stray |-> TRUE] :
                   k \in {"root_added", "node_removed"}, u \in Users}

Stray ==
    /\ stream # <<>> /\ store.projected = Len(stream)
    /\ HasRoom(0) /\ strays < MaxStrays
    /\ \E e \in Unchecked : Extend(e)
    /\ strays' = strays + 1
    /\ UNCHANGED <<store, snap, holder, inflight, losses, pc, req, shape, buildVars, last,
                   handleVars, result>>

-----------------------------------------------------------------------------
Begin(w) == StartAddRoot(w) \/ StartPlace(w) \/ StartRemove(w) \/ StartLoad(w) \/ StartReject(w)

Prepare(w) ==
    \/ Lock(w) \/ LockTimeout(w) \/ UnderLock(w)
    \/ RejectReadProjected(w) \/ RejectReadLast(w)
    \/ ReadRows(w) \/ UsableSnapshot(w) \/ SnapshotUnread(w) \/ Replay(w) \/ CheckMembership(w)
    \/ ReadLast(w) \/ BuildFailed(w) \/ StuckRowStopsTheLoad(w)

HandleEvent(w) ==
    \/ ReadParent(w) \/ InsertRow(w) \/ CheckReplayedInsert(w) \/ EngineAdd(w) \/ ReconcileAdd(w)
    \/ RemoveRow(w) \/ RemovalReplyLost(w) \/ RemovalRefused(w) \/ ReconcileStamp(w) \/ ReconcileUser(w)
    \/ RejectRow(w)

Write(w) ==
    \/ CheckRefuses(w) \/ AppendCommits(w) \/ AppendConflicts(w) \/ AppendUnanswered(w)
    \/ ConfirmAppend(w) \/ Observe(w) \/ SnapshotCheck(w) \/ SnapshotPut(w) \/ Unlock(w)

Step(w) == Prepare(w) \/ HandleEvent(w) \/ Write(w)

Next ==
    \/ \E w \in Writers : Begin(w) \/ Step(w) \/ CallFails(w) \/ Crash(w)
    \/ CommitLands \/ CommitFails \/ LoseLock \/ Stray

Spec == Init /\ [][Next]_vars

(***************************************************************************)
(* Fairness: a running command takes its next step, the server settles the *)
(* appends it has in hand, and operators keep running load and, on an      *)
(* event that stops it, reject-event with the event the refusal names.     *)
(***************************************************************************)
RejectLast(w) ==
    LET n == Len(stream)
    IN  /\ StartReject(w)
        /\ req'[w].body.target = IF IsRejection(n) THEN stream[n].body.target ELSE stream[n].body.id

FairSpec ==
    /\ Spec
    /\ \A w \in Writers : WF_vars(Step(w)) /\ SF_vars(StartLoad(w)) /\ SF_vars(RejectLast(w))
    /\ WF_vars(CommitLands \/ CommitFails)

(* A call, a process, a reply or a session is lost. *)
Fault ==
    \/ LoseLock
    \/ \E w \in Writers : CallFails(w) \/ Crash(w) \/ AppendUnanswered(w) \/ RemovalReplyLost(w)

-----------------------------------------------------------------------------
(***************************************************************************)
(* Properties.                                                             *)
(***************************************************************************)
Steps == {"idle", "lock", "append", "confirm", "observe", "unlock"}
         \cup PrepareSteps \cup HandleSteps \cup SnapshotSteps

(* The type invariant. *)
TypeOK ==
    /\ stream \in Seq(Events)
    /\ trees = [i \in 1..(Len(stream) + 1) |-> trees[i]]
    /\ \A i \in 1..(Len(stream) + 1) : IsTree(trees[i])
    /\ AreRows(store.active) /\ store.tombs \in Seq(Tombstone) /\ store.projected \in Nat
    /\ snap.version \in Nat /\ IsTree(snap.tree)
    /\ holder \in Writers \cup {NoWriter}
    /\ inflight \subseteq [event : Events, after : Nat]
    /\ losses \in Nat /\ strays \in Nat
    /\ pc \in [Writers -> Steps] /\ req \in [Writers -> Requests]
    /\ shape \in [Writers -> TreeTypes \cup {NoType}]
    /\ DOMAIN engine = Writers /\ DOMAIN seen = Writers /\ DOMAIN result = Writers
    /\ \A w \in Writers : IsTree(engine[w]) /\ AreRows(seen[w])
    /\ loaded \in [Writers -> Nat] /\ at \in [Writers -> Nat] /\ base \in [Writers -> Nat]
    /\ last \in [Writers -> Nat] /\ cur \in [Writers -> Nat] /\ depth \in [Writers -> Nat]
    /\ phase \in [Writers -> {"load", "catchup", "project", "resume"}]

TreeAt(v) == trees[v + 1]

(* The row of a placement the table took and the engine refuses. *)
StuckRow ==
    /\ store.projected > 0
    /\ stream[store.projected].type = "node_placed"
    /\ ~ Accepts(TreeAt(store.projected - 1), stream[store.projected])
    /\ stream[store.projected].body.user \in DOMAIN store.active
    /\ store.active[stream[store.projected].body.user].id = stream[store.projected].body.id

(* The tree the table shows, without such a row. *)
Shown ==
    LET stuck == IF StuckRow THEN {stream[store.projected].body.user} ELSE {}
    IN  View([u \in DOMAIN store.active \ stuck |-> store.active[u]])

(* The active rows describe the tree the stream means at the projected     *)
(* version, whoever wrote them and in whatever order; the one exception is *)
(* the row of an unchecked placement the table took and the engine refuses.*)
RowsFollowStream == Shown = TreeAt(store.projected)

(* check_mutation runs against the tree its event will be appended to:     *)
(* when the append can still succeed, the engine holds that tree.          *)
CheckedAgainstStream ==
    \A w \in Writers : pc[w] = "append" /\ req[w].kind # "event_rejected" /\ last[w] = Len(stream)
        => engine[w] = TreeAt(last[w])

(* No command ever appends an event the tree refuses, even with two        *)
(* writers at work after a lost lock.                                      *)
AppendedEventsApply ==
    \A v \in DOMAIN stream : ~ stream[v].stray /\ ~ IsRejection(v)
        => Accepts(TreeAt(v - 1), stream[v])

(* A root the table took is one the engine holds at depth 0 when it is     *)
(* inspected, so no root row is ever left for UndoRootProjection to delete.*)
NoRootToUndo ==
    \A w \in Writers : pc[w] = "reconcileAdd" /\ Ev(w).type = "root_added" =>
        Ev(w).body.user \in DOMAIN engine[w] /\ engine[w][Ev(w).body.user].depth = 0

(* What was recorded is taken back only when it never applied:             *)
(* reject-event rejects an event the tree refuses and names the one        *)
(* directly before the rejection, and no root row is ever taken back, by   *)
(* reject-event or by UndoRootProjection, from a tree whose engine has it. *)
RejectionsAreSound ==
    /\ \A v \in DOMAIN stream : IsRejection(v)
          => NamesPrevious(v) /\ ~ IsRejection(v - 1) /\ ~ Accepts(TreeAt(v - 2), stream[v - 1])
    /\ NoRootToUndo

(* A stored snapshot is the tree the stream means at its version, and the  *)
(* table has been there: a load may always start from it.                  *)
SnapshotIsFaithful ==
    snap.version <= store.projected /\ snap.tree = TreeAt(snap.version)

(* One redelivery brings the table level with the stream, or projecting    *)
(* the rejection the stream ends with does.                                *)
OneRedeliveryBehind ==
    LET n == Len(stream)
    IN  /\ store.projected <= n
        /\ \/ n <= store.projected + 1
           \/ n = store.projected + 2 /\ IsRejection(n)

(* Every event of a stream carries the tree type version 1 records, also   *)
(* when two add-roots of different types race for an empty stream; only a  *)
(* writer who lost the lock can append one of another type.                *)
OneTreeType == losses = 0 => \A v \in DOMAIN stream : stream[v].ttype = stream[1].ttype

(* What a command reports when it ends is so: an event it confirmed is at  *)
(* its version and in the table when it says so, and unless it reports the *)
(* outcome as open, an event it does not confirm will never be in the      *)
(* stream, whatever the server still has in hand.                          *)
ReportsAreTrue ==
    \A w \in Writers : pc[w] = "unlock" =>
        LET r == result[w]
        IN  /\ r.out = "appended" => /\ r.version \in DOMAIN stream
                                     /\ stream[r.version].body.id = r.id
                                     /\ r.observed <= store.projected
            /\ r.out \notin {"appended", "noEventFound", "unknown"} =>
                  /\ \A v \in DOMAIN stream : stream[v].body.id # r.id
                  /\ \A f \in inflight : f.event.body.id = r.id => f.after < Len(stream)

(* The projected version never goes back. *)
ProjectionAdvances == [][store'.projected >= store.projected]_vars

(* Every command ends: no fall back from a snapshot, redelivery or retry   *)
(* goes on for ever.  (Whoever is not idle becomes idle: that is the *)
(* same as being idle again and again.)                                    *)
CommandsEnd == \A w \in Writers : []<>(pc[w] = "idle")

(* Once calls stop failing, the table becomes level with the stream again  *)
(* and again: load and reject-event repair whatever the faults before, a   *)
(* late commit and an unchecked event left behind.                         *)
TableCatchesUp == <>[][~ Fault]_vars => []<>(store.projected = Len(stream))

=============================================================================
