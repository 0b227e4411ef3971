------------------------- MODULE TreeWriterInvariant ------------------------
(***************************************************************************)
(* What is true of every reachable state of TreeWriter, in the words its   *)
(* proofs use: the step each writer is at fits what it holds (Inv1), ids   *)
(* are used once (Inv2), rejections follow what they name (Inv3), engines  *)
(* hold the trees of their versions (Inv4), and reports and rows are backed *)
(* by events (Inv5).                                                       *)
(***************************************************************************)
EXTENDS TreeWriter

-----------------------------------------------------------------------------

(***************************************************************************)
(* The step a writer is at.                                                *)
(***************************************************************************)
Kind(w) == req[w].kind
Rejects(w) == Kind(w) = "event_rejected"
InsertSteps == {"insert", "replayed", "engineAdd", "reconcileAdd"}
RemovalSteps == {"removal", "reconcileStamp", "reconcileUser"}

(* The step a writer is at fits its request, its shape and the stream. *)
Placed(w) ==
    /\ pc[w] \notin {"idle", "lock", "underLock", "unlock"} => shape[w] \in TreeTypes
    /\ pc[w] = "underLock" \/ (pc[w] = "lock" /\ shape[w] = NoType)
          => req[w].ttype \in TreeTypes /\ ~ Rejects(w)
    /\ pc[w] = "append" => Kind(w) # "load"
    /\ pc[w] \in {"rejectProjected", "rejectLast", "stuckRow"} => Rejects(w)
    /\ Rejects(w) => stream # <<>>
    /\ pc[w] \in HandleSteps => phase[w] # "load"
    /\ pc[w] \in HandleSteps \cup SnapshotSteps \cup {"observe"} => cur[w] \in 1..Len(stream)
    /\ pc[w] = "parent" => Ev(w).type = "node_placed"
    /\ pc[w] \in InsertSteps => Ev(w).type \in {"root_added", "node_placed"}
    /\ pc[w] \in RemovalSteps => Ev(w).type = "node_removed"
    /\ pc[w] = "rejection" => IsRejection(cur[w])
    /\ last[w] <= Len(stream) /\ loaded[w] <= Len(stream)
    /\ pc[w] = "replay" => at[w] <= loaded[w]

Inv1 ==
    /\ TypeOK
    /\ store.projected <= Len(stream)
    /\ \A f \in inflight : f.event.type = "event_rejected" => stream # <<>>
    /\ \A w \in Writers : Placed(w)

-----------------------------------------------------------------------------

(***************************************************************************)
(* Trees and rows.                                                         *)
(***************************************************************************)
AllTrees == UNION {[S -> Node] : S \in SUBSET Users}

-----------------------------------------------------------------------------

(***************************************************************************)
(* The table.                                                              *)
(***************************************************************************)
StoreOK(st) ==
    /\ AreRows(st.active) /\ st.tombs \in Seq(Tombstone) /\ st.projected \in Nat

-----------------------------------------------------------------------------

(***************************************************************************)
(* Steps.  A step of writer w leaves what the other writers know alone,    *)
(* and the stream only grows.                                              *)
(***************************************************************************)
Same(x) ==
    /\ pc'[x] = pc[x] /\ req'[x] = req[x] /\ shape'[x] = shape[x] /\ loaded'[x] = loaded[x]
    /\ seen'[x] = seen[x] /\ engine'[x] = engine[x] /\ at'[x] = at[x] /\ base'[x] = base[x]
    /\ last'[x] = last[x] /\ cur'[x] = cur[x] /\ phase'[x] = phase[x] /\ depth'[x] = depth[x]

Grows ==
    /\ Len(stream) <= Len(stream')
    /\ \A v \in 1..Len(stream) : stream'[v] = stream[v]
    /\ \A v \in 1..(Len(stream) + 1) : trees'[v] = trees[v]

Domains ==
    /\ DOMAIN pc = Writers /\ DOMAIN req = Writers /\ DOMAIN shape = Writers
    /\ DOMAIN loaded = Writers /\ DOMAIN seen = Writers /\ DOMAIN engine = Writers
    /\ DOMAIN at = Writers /\ DOMAIN base = Writers /\ DOMAIN last = Writers
    /\ DOMAIN cur = Writers /\ DOMAIN phase = Writers /\ DOMAIN depth = Writers
    /\ DOMAIN result = Writers

(* Everything writer w can do. *)
LocalStep(w) == Begin(w) \/ Step(w) \/ CallFails(w) \/ Crash(w)

-----------------------------------------------------------------------------

(***************************************************************************)
(* The steps that move a writer and leave its request, its shape and the   *)
(* event in hand alone.                                                    *)
(***************************************************************************)
Late(w) == pc[w] \notin {"idle", "lock", "underLock", "unlock"}

-----------------------------------------------------------------------------

(***************************************************************************)
(* Trees whose rows pass the preflight of a load.                          *)
(***************************************************************************)
IsTop(t, u) == t[u].parent = NoUser /\ t[u].sponsor = NoUser /\ t[u].pos = NoPos

Hangs(t, u) ==
    /\ t[u].parent \in DOMAIN t \ {u} /\ t[u].sponsor \in DOMAIN t \ {u}
    /\ t[u].depth = t[t[u].parent].depth + 1
    /\ t[u].pos # NoPos => \A c \in DOMAIN t \ {u} : t[c].parent = t[u].parent => t[c].pos # t[u].pos

Grounded(t) == \A S \in SUBSET DOMAIN t : S # {} => \E u \in S : Waits(t, u) \cap S = {}

Fit(t) ==
    /\ \A u \in DOMAIN t : IF t[u].depth = 0 THEN IsTop(t, u) ELSE Hangs(t, u)
    /\ \A u, x \in DOMAIN t : t[u].depth = 0 /\ t[x].depth = 0 => u = x
    /\ Grounded(t)

-----------------------------------------------------------------------------

(***************************************************************************)
(* Event ids.                                                              *)
(***************************************************************************)
ID(e) == e.body.id

(* The command has not sent its event yet. *)
PreAppend(w) ==
    \/ pc[w] \in {"lock", "append"} \cup PrepareSteps
    \/ pc[w] \in HandleSteps /\ phase[w] = "catchup"

(* The id of a request is the command's alone, and once it is in the       *)
(* stream, or on its way, the command has sent it.                         *)
OwnID(w) ==
    /\ pc[w] = "confirm" => Kind(w) # "load"
    /\ Kind(w) # "load" =>
          /\ ID(req[w]) > 0
          /\ \A x \in Writers : Kind(x) # "load" /\ ID(req[x]) = ID(req[w]) => x = w
          /\ \A v \in 1..Len(stream) : ID(stream[v]) = ID(req[w])
                => ~ PreAppend(w) /\ stream[v].type = Kind(w)
          /\ \A f \in inflight : ID(f.event) = ID(req[w])
                => ~ PreAppend(w) /\ f.event.type = Kind(w)

(* No two events share an id. *)
Apart ==
    /\ \A i, j \in 1..Len(stream) : ID(stream[i]) = ID(stream[j]) => i = j
    /\ \A f \in inflight, v \in 1..Len(stream) : ID(stream[v]) # ID(f.event)
    /\ \A f, g \in inflight : ID(f.event) = ID(g.event) => f = g

Inv2 == Apart /\ \A w \in Writers : OwnID(w)

-----------------------------------------------------------------------------

(***************************************************************************)
(* Rejections.                                                             *)
(***************************************************************************)
Rejectable(s, v, id) == v \in 1..Len(s) /\ ID(s[v]) = id /\ s[v].type # "event_rejected"

(* Where a reject-event has found its event at the end of the stream. *)
Found(w) ==
    \/ pc[w] \in {"rows", "snapshot", "replay", "last", "buildFailed", "stuckRow", "append"}
    \/ pc[w] \in HandleSteps /\ phase[w] = "catchup"

Named == \A v \in 1..Len(stream) : IsRejection(v) => Rejectable(stream, v - 1, stream[v].body.target)

(* A rejection, appended or on its way, aims at the version after the      *)
(* event it names.                                                         *)
Inv3 ==
    /\ Named
    /\ \A f \in inflight : f.event.type = "event_rejected" => Rejectable(stream, f.after, f.event.body.target)
    /\ \A w \in Writers : Rejects(w) /\ Found(w) => Rejectable(stream, last[w], req[w].body.target)

-----------------------------------------------------------------------------

(***************************************************************************)
(* The steps of a load, and the rows of a writer's event.                  *)
(***************************************************************************)
LoadSteps == {"rows", "snapshot", "replay", "last", "buildFailed", "stuckRow"}

(* The row a placement asks for, and what the table says to it. *)
RowOf(w) ==
    [parent |-> Ev(w).body.parent, sponsor |-> Ev(w).body.sponsor, pos |-> Ev(w).body.pos,
     depth |-> IF Ev(w).type = "root_added" THEN 0 ELSE depth[w]]

Inserting(w) == InsertOutcome(store, ID(Ev(w)), Ev(w).body.user, RowOf(w), cur[w])
Inserted(w) == ProjectInsert(store, ID(Ev(w)), Ev(w).body.user, RowOf(w), cur[w])

(* The removal the table takes from the engine. *)
Moved(w) == Recruits(engine[w], Ev(w).body.user)
Removing(w) == RemovalOutcome(store, Ev(w).body.user, Moved(w), cur[w])
Removed(w) == ProjectRemoval(store, ID(Ev(w)), Ev(w).body.user, Moved(w), engine[w][Ev(w).body.user].sponsor, cur[w])

-----------------------------------------------------------------------------

(***************************************************************************)
(* The trees the writers hold.                                             *)
(***************************************************************************)
(* What version v of stream s does to the trees tr; tr[v] is the tree      *)
(* before it and tr[v + 1] the tree it leaves.                             *)
Meaning(s, tr, v) ==
    IF s[v].type = "event_rejected" THEN tr[v + 1] = tr[v - 1]
    ELSE tr[v + 1] = IF Accepts(tr[v], s[v]) THEN Apply(tr[v], s[v]) ELSE tr[v]

Sound(s, tr, v) == ~ s[v].stray /\ s[v].type # "event_rejected" => Accepts(tr[v], s[v])

(* A replay through p that has reached v has passed over the event at v. *)
Undone(s, v, p) == 0 < v /\ v < p /\ s[v + 1].type = "event_rejected"
Reconciling == {"reconcileAdd", "reconcileStamp", "reconcileUser"}

(* A projection whose engine is used afterwards. *)
Engaged(w) == pc[w] \in HandleSteps /\ (phase[w] = "catchup" \/ (phase[w] = "project" /\ ~ Rejects(w)))

(* The tree the engine of w holds, step by step. *)
Holds(w) ==
    /\ pc[w] = "replay" =>
          engine[w] = IF Undone(stream, at[w], loaded[w]) THEN trees[at[w]] ELSE trees[at[w] + 1]
    /\ pc[w] = "last" => engine[w] = trees[loaded[w] + 1]
    /\ Engaged(w) => /\ phase[w] = "catchup" => cur[w] = last[w]
                     /\ engine[w] \in {trees[cur[w]], trees[cur[w] + 1]}
                     /\ IsRejection(cur[w]) \/ pc[w] \in Reconciling => engine[w] = trees[cur[w] + 1]
    /\ pc[w] \in {"append", "confirm"} /\ ~ Rejects(w) => engine[w] = trees[last[w] + 1]
    /\ pc[w] \in SnapshotSteps => engine[w] = trees[cur[w] + 1]
    /\ pc[w] = "snapPut" => cur[w] <= store.projected

Meanings ==
    /\ trees[1] = EmptyTree
    /\ \A v \in 1..Len(stream) : Meaning(stream, trees, v) /\ Sound(stream, trees, v)

Undecided ==
    \A f \in inflight : f.event.type # "event_rejected" =>
        f.after <= Len(stream) /\ Accepts(trees[f.after + 1], f.event)

Stored == snap.version <= store.projected /\ snap.tree = trees[snap.version + 1]
Inv4 == Meanings /\ Undecided /\ Stored /\ \A w \in Writers : Holds(w)
Inv == Inv1 /\ Inv2 /\ Inv3 /\ Inv4

-----------------------------------------------------------------------------

(***************************************************************************)
(* Trees.                                                                  *)
(***************************************************************************)
Mutations == {"root_added", "node_placed", "node_removed"}

-----------------------------------------------------------------------------

(***************************************************************************)
(* What a command may report.                                              *)
(***************************************************************************)
(* The command's event is neither in the stream nor on its way. *)
Unsent(w) ==
    /\ \A v \in 1..Len(stream) : ID(stream[v]) # ID(req[w])
    /\ \A f \in inflight : ID(f.event) # ID(req[w])

(* The event is not in the stream and can no longer get there. *)
Closed(id) ==
    /\ \A v \in 1..Len(stream) : ID(stream[v]) # id
    /\ \A f \in inflight : ID(f.event) = id => f.after < Len(stream)

(* Where the event of a command is once it has tried to append it. *)
Sent(w) ==
    /\ Kind(w) = "load" => ID(req[w]) = 0
    /\ pc[w] = "confirm" =>
          /\ \A v \in 1..Len(stream) : ID(stream[v]) = ID(req[w]) => v = last[w] + 1 /\ ~ stream[v].stray
          /\ \A f \in inflight : ID(f.event) = ID(req[w]) => f.after = last[w]
    /\ pc[w] \in HandleSteps \cup {"observe"} =>
          /\ phase[w] = "project" => /\ ID(stream[cur[w]]) = ID(req[w]) /\ cur[w] = last[w] + 1
                                     /\ ~ stream[cur[w]].stray
          /\ phase[w] = "resume" => Rejects(w) /\ Unsent(w)
    /\ pc[w] = "observe" => phase[w] \in {"project", "resume"}

(* The event's row is in the table before the engine hears of it. *)
Taken(w) == pc[w] \in {"engineAdd", "reconcileAdd"} => cur[w] <= store.projected

TrueReport(r) ==
    /\ r.out = "appended" => /\ r.version \in 1..Len(stream) /\ ID(stream[r.version]) = r.id
                             /\ r.observed \in Int /\ r.observed <= store.projected
    /\ r.out \notin {"appended", "noEventFound", "unknown"} => Closed(r.id)

Reported(w) ==
    /\ pc[w] \in SnapshotSteps \cup {"unlock"} => result[w].id = ID(req[w]) /\ TrueReport(result[w])
    /\ pc[w] \in SnapshotSteps => result[w].out = "appended"

(* The ids in the table are those of events it has projected. *)
Dated(s, p, id) == \E v \in 1..p : ID(s[v]) = id

Traced ==
    /\ \A u \in DOMAIN store.active : Dated(stream, store.projected, store.active[u].id)
    /\ \A i \in DOMAIN store.tombs : store.tombs[i].stamp # NoEvent => Dated(stream, store.projected, store.tombs[i].stamp)

(* Events carry ids, and only other code's are unchecked. *)
Issued ==
    /\ \A v \in 1..Len(stream) : ID(stream[v]) > 0
    /\ \A f \in inflight : ID(f.event) > 0 /\ ~ f.event.stray
    /\ stream # <<>> => ~ stream[1].stray

(* Whoever has a tombstone has a newest one. *)
Filed == \A i \in DOMAIN store.tombs : \E k \in DOMAIN store.tombs :
    /\ store.tombs[k].user = store.tombs[i].user
    /\ \A j \in DOMAIN store.tombs : store.tombs[j].user = store.tombs[i].user => j <= k

Inv5 == Issued /\ Traced /\ Filed /\ \A w \in Writers : Sent(w) /\ Taken(w) /\ Reported(w)

=============================================================================
