--------------------------- MODULE TreeWriterSteps --------------------------
(***************************************************************************)
(* What the steps of TreeWriter change and where they lead, for any number *)
(* of writers, users and events: the lemmas its proofs share.              *)
(***************************************************************************)
EXTENDS TreeWriterInvariant, TLAPS

(* A fact that keeps the translation of every step to the SMT solver       *)
(* untyped: inferring types for this module's terms takes tlapm longer     *)
(* than the solver takes without them.                                     *)
LEMMA Untyped == (CASE TRUE -> 0) = 0
  OBVIOUS

USE Untyped

(* IsTree says membership in a set, as Seq needs it. *)
LEMMA TreeSet == \A t : IsTree(t) <=> t \in AllTrees
  BY DEF IsTree, AllTrees

(* A tree with one more member, at the root or below a member, is a tree. *)
LEMMA WithIsTree ==
  ASSUME NEW t, IsTree(t), NEW u \in Users, NEW n \in Node
  PROVE  IsTree(With(t, u, n))
  BY DEF IsTree, With

(* A mutation the engine accepts leaves a tree. *)
LEMMA ApplyIsTree ==
  ASSUME NEW t, IsTree(t), NEW e \in Events, e.type # "event_rejected", Accepts(t, e)
  PROVE  IsTree(Apply(t, e))
<1>1. e.body \in Bodies /\ e.body.user \in Users
  BY DEF Events
<1>2. CASE e.type = "root_added"
  <2>1. [parent |-> NoUser, sponsor |-> NoUser, pos |-> NoPos, depth |-> 0] \in Node
    BY DEF Node
  <2>2. QED BY <1>1, <1>2, <2>1, WithIsTree DEF Apply, AddRoot
<1>3. CASE e.type = "node_placed"
  <2>1. e.body.parent \in DOMAIN t
    BY <1>3 DEF Accepts, Refusal, CheckAddNode
  <2>2. t[e.body.parent].depth \in Nat
    BY <2>1 DEF IsTree, Node
  <2>3. [parent |-> e.body.parent, sponsor |-> e.body.sponsor, pos |-> e.body.pos,
         depth |-> t[e.body.parent].depth + 1] \in Node
    BY <1>1, <2>2 DEF Node, Bodies
  <2>4. QED BY <1>1, <1>3, <2>3, WithIsTree DEF Apply, AddNode
<1>4. CASE e.type = "node_removed"
  <2>1. e.body.user \in DOMAIN t
    BY <1>4 DEF Accepts, Refusal, CheckRemoveNode
  <2>2. t[e.body.user].sponsor \in Users \cup {NoUser}
    BY <2>1 DEF IsTree, Node
  <2>3. \A x \in DOMAIN t : [t[x] EXCEPT !.sponsor = t[e.body.user].sponsor] \in Node
    BY <2>2 DEF IsTree, Node
  <2>4. IsTree(RemoveNode(t, e.body.user))
    BY <2>3 DEF IsTree, RemoveNode
  <2>5. QED BY <1>4, <2>4 DEF Apply
<1>5. QED BY <1>2, <1>3, <1>4 DEF Events, EventTypes

-----------------------------------------------------------------------------

(***************************************************************************)
(* What a step leaves alone.                                               *)
(***************************************************************************)
(* While there is room, the next id is new. *)
LEMMA NewIDFresh ==
  ASSUME NEW extra, HasRoom(extra)
  PROVE  NewID \in Nat \ {0} /\ NewID \notin UsedIDs
<1>1. \E n \in EventIDs : n \notin UsedIDs
  BY DEF HasRoom
<1>2. NewID \in EventIDs /\ NewID \notin UsedIDs
  BY <1>1 DEF NewID
<1>3. QED BY <1>2, ConstantsAssumption DEF EventIDs

(* A step of one writer leaves what belongs to the others alone. *)
LEMMA Locality ==
  ASSUME TypeOK, NEW w \in Writers, LocalStep(w), NEW x \in Writers, x # w
  PROVE  Same(x)
<1>0. Domains
  BY DEF TypeOK, Domains
<1> USE <1>0 DEF Domains, Same, Goto, buildVars, handleVars
<1>1. CASE Begin(w)
  BY <1>1 DEF Begin, StartAddRoot, StartPlace, StartRemove, StartLoad, StartReject, Start
<1>2. CASE Lock(w) \/ LockTimeout(w) \/ UnderLock(w)
  BY <1>2 DEF Lock, LockTimeout, UnderLock, Forget, Refuse
<1>3. CASE RejectReadProjected(w) \/ RejectReadLast(w) \/ ReadLast(w)
  BY <1>3 DEF RejectReadProjected, RejectReadLast, ReadLast, Refuse, Handle
<1>4. CASE ReadRows(w) \/ UsableSnapshot(w) \/ SnapshotUnread(w)
  BY <1>4 DEF ReadRows, UsableSnapshot, SnapshotUnread
<1>5. CASE Replay(w) \/ CheckMembership(w)
  BY <1>5 DEF Replay, CheckMembership, BuildFails
<1>6. CASE BuildFailed(w) \/ StuckRowStopsTheLoad(w)
  BY <1>6 DEF BuildFailed, StuckRowStopsTheLoad, Refuse
<1>7. CASE HandleEvent(w)
  <2> USE DEF HandleFails, HandleDone, Refuse, handleFrame
  <2>1. CASE ReadParent(w) \/ InsertRow(w) \/ CheckReplayedInsert(w)
    BY <2>1 DEF ReadParent, InsertRow, CheckReplayedInsert
  <2>2. CASE EngineAdd(w) \/ ReconcileAdd(w)
    BY <2>2 DEF EngineAdd, ReconcileAdd
  <2>3. CASE RemoveRow(w) \/ RemovalReplyLost(w) \/ RemovalRefused(w)
    BY <2>3 DEF RemoveRow, RemovalReplyLost, RemovalRefused
  <2>4. CASE ReconcileStamp(w) \/ ReconcileUser(w) \/ RejectRow(w)
    BY <2>4 DEF ReconcileStamp, ReconcileUser, RejectRow
  <2>5. QED BY <1>7, <2>1, <2>2, <2>3, <2>4 DEF HandleEvent
<1>8. CASE Write(w) \/ CallFails(w) \/ Crash(w)
  <2> USE DEF Refuse, appendFrame
  <2>1. CASE CheckRefuses(w) \/ AppendCommits(w) \/ AppendConflicts(w) \/ AppendUnanswered(w)
    BY <2>1 DEF CheckRefuses, AppendCommits, AppendConflicts, AppendUnanswered, Handle
  <2>2. CASE ConfirmAppend(w) \/ Observe(w) \/ SnapshotCheck(w) \/ SnapshotPut(w)
    BY <2>2 DEF ConfirmAppend, Observe, SnapshotCheck, SnapshotPut, Handle
  <2>3. CASE Unlock(w) \/ Crash(w)
    BY <2>3 DEF Unlock, Crash, Forget
  <2>4. CASE CallFails(w)
    BY <2>4 DEF CallFails, HandleFails
  <2>5. QED BY <1>8, <2>1, <2>2, <2>3, <2>4 DEF Write
<1>9. QED
  BY <1>1, <1>2, <1>3, <1>4, <1>5, <1>6, <1>7, <1>8 DEF LocalStep, Step, Prepare

(* Which steps of a writer write which variable. *)
LEMMA Writes ==
  ASSUME NEW w \in Writers, LocalStep(w)
  PROVE  /\ UNCHANGED <<losses, strays>>
         /\ UNCHANGED <<stream, trees>> \/ AppendCommits(w)
         /\ inflight' = inflight \/ AppendUnanswered(w)
         /\ holder' = holder \/ Lock(w) \/ Unlock(w) \/ Crash(w)
         /\ store' = store \/ InsertRow(w) \/ RemoveRow(w) \/ RejectRow(w)
         /\ snap' = snap \/ UsableSnapshot(w) \/ Replay(w) \/ CheckMembership(w) \/ SnapshotPut(w)
         /\ req' = req \/ Begin(w) \/ Forget(w)
         /\ shape' = shape \/ Begin(w) \/ UnderLock(w) \/ Forget(w)
         /\ loaded' = loaded \/ ReadRows(w) \/ RejectReadProjected(w) \/ Forget(w)
         /\ seen' = seen \/ ReadRows(w) \/ Forget(w)
         /\ \/ UNCHANGED <<engine, at, base>>
            \/ UsableSnapshot(w) \/ SnapshotUnread(w) \/ Replay(w) \/ CheckMembership(w) \/ Forget(w)
            \/ EngineAdd(w) \/ RemoveRow(w) \/ RemovalReplyLost(w)
         /\ last' = last \/ ReadLast(w) \/ RejectReadLast(w) \/ Forget(w)
         /\ \/ UNCHANGED <<cur, phase>>
            \/ ReadLast(w) \/ RejectReadLast(w) \/ AppendCommits(w) \/ ConfirmAppend(w) \/ Forget(w)
         /\ depth' = depth \/ ReadParent(w) \/ Forget(w)
<1> USE DEF streamVars, faultVars, buildVars, handleVars
<1>1. CASE Begin(w)
  BY <1>1 DEF Begin, StartAddRoot, StartPlace, StartRemove, StartLoad, StartReject, Start
<1>2. CASE Lock(w) \/ LockTimeout(w) \/ UnderLock(w)
  BY <1>2 DEF Lock, LockTimeout, UnderLock
<1>3. CASE RejectReadProjected(w) \/ RejectReadLast(w) \/ ReadLast(w) \/ ReadRows(w)
  BY <1>3 DEF RejectReadProjected, RejectReadLast, ReadLast, ReadRows, Handle
<1>4. CASE UsableSnapshot(w) \/ SnapshotUnread(w) \/ Replay(w) \/ CheckMembership(w)
  BY <1>4 DEF UsableSnapshot, SnapshotUnread, Replay, CheckMembership
<1>5. CASE BuildFailed(w) \/ StuckRowStopsTheLoad(w)
  BY <1>5 DEF BuildFailed, StuckRowStopsTheLoad
<1>6. CASE HandleEvent(w)
  BY <1>6 DEF HandleEvent, ReadParent, InsertRow, CheckReplayedInsert, EngineAdd, ReconcileAdd, RemoveRow,
              RemovalReplyLost, RemovalRefused, ReconcileStamp, ReconcileUser, RejectRow, handleFrame
<1>7. CASE Write(w) \/ CallFails(w) \/ Crash(w)
  BY <1>7 DEF Write, CheckRefuses, AppendCommits, AppendConflicts, AppendUnanswered, ConfirmAppend,
              Observe, SnapshotCheck, SnapshotPut, Unlock, Crash, CallFails, Handle, appendFrame
<1>8. QED
  BY <1>1, <1>2, <1>3, <1>4, <1>5, <1>6, <1>7 DEF LocalStep, Step, Prepare

(* Appending an event to the stream. *)
LEMMA ExtendGrows ==
  ASSUME TypeOK, NEW e \in Events, Extend(e), e.type = "event_rejected" => stream # <<>>
  PROVE  /\ stream' \in Seq(Events) /\ Len(stream') = Len(stream) + 1
         /\ stream'[Len(stream) + 1] = e
         /\ trees' = [i \in 1..(Len(stream') + 1) |-> trees'[i]]
         /\ \A i \in 1..(Len(stream') + 1) : IsTree(trees'[i])
         /\ trees'[Len(stream) + 2] = TreeAfter(e)
         /\ Grows
<1>1. stream \in Seq(Events) /\ Len(stream) \in Nat
  BY DEF TypeOK
<1>2. trees \in Seq(AllTrees) /\ Len(trees) = Len(stream) + 1
  <2>1. \A i \in 1..(Len(stream) + 1) : trees[i] \in AllTrees
    BY TreeSet DEF TypeOK
  <2>2. trees \in [1..(Len(stream) + 1) -> AllTrees]
    BY <2>1 DEF TypeOK
  <2>3. QED BY <1>1, <2>2
<1>3. TreeAfter(e) \in AllTrees
  <2>1. \A i \in 1..Len(trees) : trees[i] \in AllTrees /\ IsTree(trees[i])
    BY <1>2, TreeSet
  <2>2. stream # <<>> => Len(stream) > 0
    BY <1>1
  <2>3. CASE e.type = "event_rejected"
    BY <1>1, <1>2, <2>1, <2>2, <2>3 DEF TreeAfter
  <2>4. CASE e.type # "event_rejected" /\ Accepts(trees[Len(trees)], e)
    <3>1. IsTree(Apply(trees[Len(trees)], e))
      BY <1>1, <1>2, <2>1, <2>4, ApplyIsTree
    <3>2. QED BY <2>4, <3>1, TreeSet DEF TreeAfter
  <2>5. CASE e.type # "event_rejected" /\ ~ Accepts(trees[Len(trees)], e)
    BY <1>1, <1>2, <2>1, <2>5 DEF TreeAfter
  <2>6. QED BY <2>3, <2>4, <2>5
<1>4. stream' \in Seq(Events) /\ Len(stream') = Len(stream) + 1 /\ stream'[Len(stream) + 1] = e
      /\ \A v \in 1..Len(stream) : stream'[v] = stream[v]
  BY <1>1 DEF Extend
<1>5. trees' \in Seq(AllTrees) /\ Len(trees') = Len(stream) + 2 /\ trees'[Len(stream) + 2] = TreeAfter(e)
      /\ \A v \in 1..(Len(stream) + 1) : trees'[v] = trees[v]
  BY <1>1, <1>2, <1>3 DEF Extend
<1>6. trees' = [i \in 1..(Len(stream') + 1) |-> trees'[i]]
      /\ \A i \in 1..(Len(stream') + 1) : IsTree(trees'[i])
  <2>1. DOMAIN trees' = 1..(Len(stream') + 1)
    BY <1>1, <1>4, <1>5
  <2>2. QED BY <1>4, <1>5, <2>1, TreeSet
<1>7. QED BY <1>1, <1>4, <1>5, <1>6 DEF Grows

(* The plain facts about a writer and the stream that the steps rest on. *)
LEMMA WriterFacts ==
  ASSUME Inv1, NEW w \in Writers
  PROVE  /\ Domains /\ Placed(w)
         /\ Len(stream) \in Nat /\ DOMAIN stream = 1..Len(stream) /\ (stream = <<>> <=> Len(stream) = 0)
         /\ \A v \in 1..Len(stream) : /\ stream[v] \in Events /\ stream[v].type \in EventTypes
                                      /\ stream[v].ttype \in TreeTypes
         /\ store.projected \in Nat /\ store.projected <= Len(stream) /\ snap.version \in Nat
         /\ cur[w] \in Nat /\ last[w] \in Nat /\ loaded[w] \in Nat /\ at[w] \in Nat /\ base[w] \in Nat
         /\ shape[w] \in TreeTypes \cup {NoType} /\ NoType \notin TreeTypes /\ req[w] \in Requests
<1>1. stream \in Seq(Events)
  BY DEF Inv1, TypeOK
<1>2. Len(stream) \in Nat /\ DOMAIN stream = 1..Len(stream) /\ (stream = <<>> <=> Len(stream) = 0)
  BY <1>1
<1>3. \A v \in 1..Len(stream) : stream[v] \in Events
  BY <1>1
<1>4. \A e \in Events : e.type \in EventTypes /\ e.ttype \in TreeTypes
  BY DEF Events
<1>5. store.projected \in Nat /\ snap.version \in Nat /\ Domains
  BY DEF Inv1, TypeOK, Domains
<1>6. cur[w] \in Nat /\ last[w] \in Nat /\ loaded[w] \in Nat /\ at[w] \in Nat /\ base[w] \in Nat
  BY DEF Inv1, TypeOK
<1>7. shape[w] \in TreeTypes \cup {NoType} /\ req[w] \in Requests
  BY DEF Inv1, TypeOK
<1>8. NoType \notin TreeTypes
  BY ConstantsAssumption DEF NoType
<1>9. Placed(w) /\ store.projected <= Len(stream)
  BY DEF Inv1
<1>10. QED BY <1>2, <1>3, <1>4, <1>5, <1>6, <1>7, <1>8, <1>9

(* The event of a checked request. *)
LEMMA NewEventIsEvent ==
  ASSUME Inv1, NEW w \in Writers, pc[w] = "append"
  PROVE  /\ NewEvent(w) \in Events
         /\ NewEvent(w).type = "event_rejected" => stream # <<>>
<1>1. req[w] \in Requests /\ Kind(w) # "load" /\ shape[w] \in TreeTypes /\ (Rejects(w) => stream # <<>>)
  BY WriterFacts DEF Placed
<1>2. Kind(w) \in EventTypes /\ req[w].body \in Bodies /\ (~ Rejects(w) => req[w].body.user \in Users)
  BY <1>1 DEF Requests, Kind, Rejects
<1>3. QED BY <1>1, <1>2 DEF NewEvent, Events, Kind, Rejects

(* The three ways the stream gets an event. *)
LEMMA Growth ==
  ASSUME Inv1, Next
  PROVE  \/ UNCHANGED <<stream, trees>>
         \/ \E e \in Events : Extend(e) /\ (e.type = "event_rejected" => stream # <<>>)
<1>1. CASE \E w \in Writers : LocalStep(w)
  <2>1. PICK w \in Writers : LocalStep(w)
    BY <1>1
  <2>2. CASE AppendCommits(w)
    <3>1. pc[w] = "append" /\ Extend(NewEvent(w))
      BY <2>2 DEF AppendCommits
    <3>2. QED BY <3>1, NewEventIsEvent
  <2>3. QED BY <2>1, <2>2, Writes
<1>2. CASE CommitLands
  <2>1. PICK f \in inflight : Extend(f.event)
    BY <1>2 DEF CommitLands
  <2>2. f.event \in Events /\ (f.event.type = "event_rejected" => stream # <<>>)
    BY DEF Inv1, TypeOK
  <2>3. QED BY <2>1, <2>2
<1>3. CASE Stray
  <2>1. PICK e \in Unchecked : Extend(e)
    BY <1>3 DEF Stray
  <2>2. NewID \in Nat
    BY <1>3, NewIDFresh DEF Stray
  <2>3. Recorded \in TreeTypes
    <3>1. stream \in Seq(Events) /\ stream # <<>>
      BY <1>3 DEF Stray, Inv1, TypeOK
    <3>2. stream[1] \in Events
      BY <3>1
    <3>3. QED BY <3>1, <3>2 DEF Recorded, Events
  <2>4. \A b \in Bodies, k \in EventTypes : b.user \in Users
           => [type |-> k, body |-> b, ttype |-> Recorded, stray |-> TRUE] \in Events
    BY <2>3 DEF Events
  <2>5. \A u \in Users : Body(NewID, u, NoUser, NoUser, NoPos, 0) \in Bodies
    BY <2>2 DEF Body, Bodies
  <2>6. \A p \in FittingPlacements :
           /\ Body(NewID, p.user, p.parent, p.sponsor, p.pos, 0) \in Bodies
           /\ p.user \in Users
    BY <2>2, ConstantsAssumption DEF Body, Bodies, FittingPlacements
  <2>7. e \in Events /\ e.type # "event_rejected"
    <3>1. \A id, u, p, s, pos, target : Body(id, u, p, s, pos, target).user = u
      BY DEF Body
    <3>2. CASE \E p \in FittingPlacements : e =
                 [type |-> "node_placed", body |-> Body(NewID, p.user, p.parent, p.sponsor, p.pos, 0),
                  ttype |-> Recorded, stray |-> TRUE]
      <4>1. PICK p \in FittingPlacements : e =
                 [type |-> "node_placed", body |-> Body(NewID, p.user, p.parent, p.sponsor, p.pos, 0),
                  ttype |-> Recorded, stray |-> TRUE]
        BY <3>2
      <4> DEFINE b == Body(NewID, p.user, p.parent, p.sponsor, p.pos, 0)
      <4>2. b \in Bodies /\ b.user \in Users
        BY <2>6, <3>1
      <4> HIDE DEF b
      <4>3. e = [type |-> "node_placed", body |-> b, ttype |-> Recorded, stray |-> TRUE]
        BY <4>1 DEF b
      <4>4. QED BY <2>4, <4>2, <4>3 DEF EventTypes
    <3>3. CASE \E k \in {"root_added", "node_removed"}, u \in Users : e =
                 [type |-> k, body |-> Body(NewID, u, NoUser, NoUser, NoPos, 0),
                  ttype |-> Recorded, stray |-> TRUE]
      <4>1. PICK k \in {"root_added", "node_removed"}, u \in Users : e =
                 [type |-> k, body |-> Body(NewID, u, NoUser, NoUser, NoPos, 0),
                  ttype |-> Recorded, stray |-> TRUE]
        BY <3>3
      <4> DEFINE b == Body(NewID, u, NoUser, NoUser, NoPos, 0)
      <4>2. b \in Bodies /\ b.user \in Users
        BY <2>5, <3>1
      <4> HIDE DEF b
      <4>3. e = [type |-> k, body |-> b, ttype |-> Recorded, stray |-> TRUE]
        BY <4>1 DEF b
      <4>4. QED BY <2>4, <4>2, <4>3 DEF EventTypes
    <3>4. QED BY <3>2, <3>3 DEF Unchecked
  <2>8. QED BY <2>1, <2>7
<1>4. CASE CommitFails \/ LoseLock
  BY <1>4 DEF CommitFails, LoseLock, streamVars
<1>5. QED BY <1>1, <1>2, <1>3, <1>4 DEF Next, LocalStep

-----------------------------------------------------------------------------

(***************************************************************************)
(* Trees whose rows pass the preflight of a load.                          *)
(***************************************************************************)
(* A tree that is not empty has a root. *)
LEMMA Foot ==
  ASSUME NEW t, Fit(t), DOMAIN t # {}
  PROVE  \E r \in DOMAIN t : t[r].depth = 0
<1>1. PICK u \in DOMAIN t : Waits(t, u) \cap DOMAIN t = {}
  BY DEF Fit, Grounded
<1>2. t[u].depth # 0 => t[u].parent \in DOMAIN t /\ t[u].parent \in Waits(t, u)
  BY DEF Fit, Hangs, Waits
<1>3. QED BY <1>1, <1>2

(* A tree that fits passes the preflight of a load. *)
LEMMA FitPreflight ==
  ASSUME NEW t, Fit(t)
  PROVE  Preflight(t)
<1>1. CASE DOMAIN t = {}
  BY <1>1 DEF Preflight
<1>2. CASE DOMAIN t # {}
  <2>1. PICK r \in DOMAIN t : t[r].depth = 0
    BY <1>2, Foot
  <2>2. \A u \in DOMAIN t : t[u].depth = 0 <=> u = r
    BY <2>1 DEF Fit
  <2>3. ASSUME NEW u \in DOMAIN t PROVE RowFits(t, u)
    <3>1. CASE t[u].depth = 0
      BY <2>3, <3>1 DEF Fit, IsTop, RowFits
    <3>2. CASE t[u].depth # 0
      <4>1. Hangs(t, u) /\ Waits(t, u) = {t[u].parent, t[u].sponsor}
        BY <2>3, <3>2 DEF Fit, Waits
      <4>2. QED BY <4>1 DEF Hangs, RowFits
    <3>3. QED BY <3>1, <3>2
  <2>4. ~ \E S \in SUBSET DOMAIN t : S # {} /\ \A u \in S : Waits(t, u) \cap S # {}
    BY DEF Fit, Grounded
  <2>5. QED BY <2>2, <2>3, <2>4 DEF Preflight
<1>3. QED BY <1>1, <1>2

(* The first tree fits. *)
LEMMA FitEmpty == Fit(EmptyTree)
  BY DEF Fit, Grounded, EmptyTree

(* Only a root has no parent. *)
LEMMA TopIsRoot ==
  ASSUME NEW t, IsTree(t), Fit(t)
  PROVE  HasRoot(t) <=> \E r \in DOMAIN t : t[r].depth = 0
<1>1. \A u \in DOMAIN t : t[u].depth # 0 => t[u].parent \in Users
  BY DEF Fit, Hangs, IsTree
<1>2. \A u \in DOMAIN t : t[u].depth = 0 => t[u].parent = NoUser
  BY DEF Fit, IsTop
<1>3. NoUser \notin Users
  BY ConstantsAssumption
<1>4. QED BY <1>1, <1>2, <1>3 DEF HasRoot

(* add_root on an empty tree leaves a tree that fits. *)
LEMMA FitRoot ==
  ASSUME NEW t, IsTree(t), Fit(t), NEW u \in Users, CheckAddRoot(t, u) = "ok"
  PROVE  Fit(AddRoot(t, u))
<1>1. DOMAIN t = {}
  BY Foot, TopIsRoot DEF CheckAddRoot
<1> DEFINE r == AddRoot(t, u)
<1>2. DOMAIN r = {u} /\ r[u].depth = 0 /\ IsTop(r, u)
  BY <1>1 DEF AddRoot, With, IsTop
<1> HIDE DEF r
<1>3. Waits(r, u) = {}
  BY <1>2 DEF Waits
<1>4. Grounded(r)
  BY <1>2, <1>3 DEF Grounded
<1>5. QED BY <1>2, <1>4 DEF Fit, r

(* add_node below a member leaves a tree that fits. *)
LEMMA FitNode ==
  ASSUME NEW t, IsTree(t), Fit(t), NEW u \in Users, NEW p, NEW s, NEW pos, CheckAddNode(t, u, p, s, pos) = "ok"
  PROVE  Fit(AddNode(t, u, p, s, pos))
<1> DEFINE r == AddNode(t, u, p, s, pos)
<1>1. u \notin DOMAIN t /\ p \in DOMAIN t /\ s \in DOMAIN t /\ ~ SlotTaken(t, p, pos)
  BY DEF CheckAddNode
<1>2. /\ DOMAIN r = DOMAIN t \cup {u} /\ \A x \in DOMAIN t : r[x] = t[x]
      /\ r[u].parent = p /\ r[u].sponsor = s /\ r[u].pos = pos /\ r[u].depth = t[p].depth + 1
  BY <1>1 DEF AddNode, With
<1> HIDE DEF r
<1>3. t[p].depth \in Nat
  BY <1>1 DEF IsTree, Node
<1>4. r[u].depth # 0
  BY <1>2, <1>3
<1>5. Hangs(r, u)
  <2>1. \A c \in DOMAIN t : pos # NoPos /\ t[c].parent = p => t[c].pos # pos
    BY <1>1 DEF SlotTaken
  <2>2. QED BY <1>1, <1>2, <2>1 DEF Hangs
<1>6. ASSUME NEW x \in DOMAIN t, t[x].depth # 0 PROVE Hangs(r, x)
  <2>1. Hangs(t, x) /\ x # u
    BY <1>1, <1>6 DEF Fit
  <2>2. t[x].parent \in DOMAIN t /\ t[x].sponsor \in DOMAIN t /\ r[t[x].parent] = t[t[x].parent]
    BY <1>2, <2>1 DEF Hangs
  <2>3. ASSUME t[x].pos # NoPos, NEW c \in DOMAIN r \ {x}, r[c].parent = t[x].parent PROVE r[c].pos # t[x].pos
    <3>1. CASE c = u
      BY <1>1, <1>2, <2>3, <3>1 DEF SlotTaken
    <3>2. CASE c \in DOMAIN t
      BY <1>2, <2>1, <2>3, <3>2 DEF Hangs
    <3>3. QED BY <1>2, <3>1, <3>2
  <2>4. QED BY <1>2, <2>1, <2>2, <2>3 DEF Hangs
<1>7. \A x \in DOMAIN r : IF r[x].depth = 0 THEN IsTop(r, x) ELSE Hangs(r, x)
  BY <1>2, <1>4, <1>5, <1>6 DEF Fit, IsTop
<1>8. \A x, y \in DOMAIN r : r[x].depth = 0 /\ r[y].depth = 0 => x = y
  BY <1>2, <1>4 DEF Fit
<1>9. Grounded(r)
  <2> SUFFICES ASSUME NEW S \in SUBSET DOMAIN r, S # {}, \A x \in S : Waits(r, x) \cap S # {} PROVE FALSE
    BY DEF Grounded
  <2>1. Waits(r, u) = {p, s} /\ \A x \in DOMAIN t : Waits(r, x) = Waits(t, x)
    BY <1>2, <1>4 DEF Waits
  <2>2. \A x \in S \ {u} : x \in DOMAIN t
    BY <1>2
  <2>3. \A x \in S \ {u} : Waits(t, x) \cap (S \ {u}) # {}
    <3>1. \A x \in DOMAIN t : u \notin Waits(t, x)
      BY <1>1 DEF Waits, Fit, Hangs
    <3>2. QED BY <2>1, <2>2, <3>1
  <2>4. S \ {u} # {}
    BY <1>1, <2>1
  <2>5. S \ {u} \in SUBSET DOMAIN t
    BY <2>2
  <2>6. QED BY <2>3, <2>4, <2>5 DEF Fit, Grounded
<1>10. QED BY <1>7, <1>8, <1>9 DEF Fit, r

(* remove_node of a leaf leaves a tree that fits. *)
LEMMA FitRemove ==
  ASSUME NEW t, IsTree(t), Fit(t), NEW u, CheckRemoveNode(t, u) = "ok"
  PROVE  Fit(RemoveNode(t, u))
<1> DEFINE r == RemoveNode(t, u)
           gone == t[u].sponsor
<1>1. /\ u \in DOMAIN t /\ ~ HasChildren(t, u)
      /\ Recruits(t, u) # {} => gone # NoUser
      /\ gone \notin Recruits(t, u)
  BY DEF CheckRemoveNode
<1>2. /\ DOMAIN r = DOMAIN t \ {u}
      /\ \A x \in DOMAIN r : /\ r[x].parent = t[x].parent /\ r[x].pos = t[x].pos /\ r[x].depth = t[x].depth
                             /\ r[x].sponsor = IF t[x].sponsor = u THEN gone ELSE t[x].sponsor
  <2>1. \A x \in DOMAIN t : t[x] \in Node
    BY DEF IsTree
  <2>2. \A n \in Node : \A y : /\ [n EXCEPT !.sponsor = y].parent = n.parent /\ [n EXCEPT !.sponsor = y].pos = n.pos
                               /\ [n EXCEPT !.sponsor = y].depth = n.depth /\ [n EXCEPT !.sponsor = y].sponsor = y
    BY DEF Node
  <2>3. QED BY <2>1, <2>2 DEF RemoveNode
<1> HIDE DEF r
<1>3. \A x \in DOMAIN t : t[x].depth # 0 => t[x].parent \in DOMAIN t \ {u, x}
  BY <1>1 DEF Fit, Hangs, HasChildren
<1>4. ASSUME NEW x \in DOMAIN r, t[x].sponsor = u PROVE gone \in DOMAIN t \ {u, x} /\ t[u].depth # 0
  <2>1. x \in Recruits(t, u)
    BY <1>2, <1>4 DEF Recruits
  <2>2. gone # NoUser /\ gone # x
    BY <1>1, <2>1
  <2>3. t[u].depth # 0
    BY <1>1, <2>2 DEF Fit, IsTop
  <2>4. QED BY <1>1, <2>2, <2>3 DEF Fit, Hangs
<1>5. ASSUME NEW x \in DOMAIN r, r[x].depth # 0 PROVE Hangs(r, x)
  <2>1. Hangs(t, x)
    BY <1>2, <1>5 DEF Fit
  <2>2. r[x].parent \in DOMAIN r \ {x}
    BY <1>2, <1>3, <1>5
  <2>3. r[x].sponsor \in DOMAIN r \ {x}
    BY <1>2, <1>4, <2>1 DEF Hangs
  <2>4. r[x].depth = r[r[x].parent].depth + 1
    BY <1>2, <2>1, <2>2 DEF Hangs
  <2>5. r[x].pos # NoPos => \A c \in DOMAIN r \ {x} : r[c].parent = r[x].parent => r[c].pos # r[x].pos
    BY <1>2, <2>1 DEF Hangs
  <2>6. QED BY <2>2, <2>3, <2>4, <2>5 DEF Hangs
<1>6. ASSUME NEW x \in DOMAIN r, r[x].depth = 0 PROVE IsTop(r, x)
  <2>1. IsTop(t, x)
    BY <1>2, <1>6 DEF Fit
  <2>2. NoUser # u
    BY <1>1, ConstantsAssumption DEF IsTree
  <2>3. QED BY <1>2, <2>1, <2>2 DEF IsTop
<1>7. \A x, y \in DOMAIN r : r[x].depth = 0 /\ r[y].depth = 0 => x = y
  BY <1>2 DEF Fit
<1>8. Grounded(r)
  <2> SUFFICES ASSUME NEW S \in SUBSET DOMAIN r, S # {}, \A x \in S : Waits(r, x) \cap S # {} PROVE FALSE
    BY DEF Grounded
  <2>1. \A x \in S : /\ x \in DOMAIN t \ {u} /\ t[x].depth # 0
                     /\ t[x].parent \in S \/ (IF t[x].sponsor = u THEN gone ELSE t[x].sponsor) \in S
    BY <1>2 DEF Waits
  <2>2. \A x \in DOMAIN t : t[x].depth # 0 => Waits(t, x) = {t[x].parent, t[x].sponsor}
    BY DEF Waits
  <2>3. CASE \E x \in S : t[x].sponsor = u /\ gone \in S
    <3>1. t[u].depth # 0 /\ gone \in S
      BY <1>4, <2>3
    <3>2. \A x \in S \cup {u} : Waits(t, x) \cap (S \cup {u}) # {}
      BY <1>1, <2>1, <2>2, <3>1
    <3>3. S \cup {u} \in SUBSET DOMAIN t /\ S \cup {u} # {}
      BY <1>1, <2>1
    <3>4. QED BY <3>2, <3>3 DEF Fit, Grounded
  <2>4. CASE ~ \E x \in S : t[x].sponsor = u /\ gone \in S
    <3>1. \A x \in S : Waits(t, x) \cap S # {}
      BY <2>1, <2>2, <2>4
    <3>2. S \in SUBSET DOMAIN t
      BY <2>1
    <3>3. QED BY <3>1, <3>2 DEF Fit, Grounded
  <2>5. QED BY <2>3, <2>4
<1>9. QED BY <1>5, <1>6, <1>7, <1>8 DEF Fit, r

(* Every mutation the engine accepts leaves a tree that fits. *)
LEMMA FitApply ==
  ASSUME NEW t, IsTree(t), Fit(t), NEW e \in Events, e.type # "event_rejected", Accepts(t, e)
  PROVE  Fit(Apply(t, e))
<1>1. e.body.user \in Users
  BY DEF Events
<1>2. CASE e.type = "root_added"
  BY <1>1, <1>2, FitRoot DEF Accepts, Refusal, Apply
<1>3. CASE e.type = "node_placed"
  BY <1>1, <1>3, FitNode DEF Accepts, Refusal, Apply
<1>4. CASE e.type = "node_removed"
  BY <1>4, FitRemove DEF Accepts, Refusal, Apply
<1>5. QED BY <1>2, <1>3, <1>4 DEF Events, EventTypes

-----------------------------------------------------------------------------

(***************************************************************************)
(* The table and the stream.                                               *)
(***************************************************************************)
(* Every write of the table compares its version with the projected one.   *)
LEMMA WriteAdvances ==
  ASSUME Inv1, NEW w \in Writers, LocalStep(w)
  PROVE  store'.projected \in Nat /\ store'.projected >= store.projected
<1>1. cur[w] \in Nat /\ store.projected \in Nat
  BY WriterFacts
<1>2. ~ Below(store, cur[w]) => cur[w] >= store.projected
  BY <1>1 DEF Below
<1>3. CASE InsertRow(w)
  BY <1>1, <1>2, <1>3 DEF InsertRow, InsertOutcome, ProjectInsert
<1>4. CASE RemoveRow(w)
  BY <1>1, <1>2, <1>4 DEF RemoveRow, RemovalOutcome, ProjectRemoval
<1>5. CASE RejectRow(w)
  BY <1>1, <1>2, <1>5 DEF RejectRow, RejectionOutcome, ProjectRejection
<1>6. CASE store' = store
  BY <1>1, <1>6
<1>7. QED BY <1>3, <1>4, <1>5, <1>6, Writes

(* Whoever else is at work, no step takes the projected version back. *)
LEMMA StepAdvances == Inv1 /\ [Next]_vars => store'.projected \in Nat /\ store'.projected >= store.projected
<1> SUFFICES ASSUME Inv1, [Next]_vars PROVE store'.projected \in Nat /\ store'.projected >= store.projected
  OBVIOUS
<1>1. store.projected \in Nat
  BY DEF Inv1, TypeOK
<1>2. CASE \E w \in Writers : LocalStep(w)
  BY <1>2, WriteAdvances
<1>3. CASE store' = store
  BY <1>1, <1>3
<1>4. CASE CommitLands \/ CommitFails \/ LoseLock \/ Stray
  BY <1>3, <1>4 DEF CommitLands, CommitFails, LoseLock, Stray, appendFrame
<1>5. QED BY <1>2, <1>3, <1>4 DEF Next, LocalStep, vars

(* A command that has sent its event does not send it again. *)
LEMMA SentOnce ==
  ASSUME Inv1, NEW w \in Writers, LocalStep(w), ~ Begin(w), ~ PreAppend(w)
  PROVE  ~ PreAppend(w)'
<1>1. /\ Domains /\ Placed(w)
  BY WriterFacts
<1>2. pc[w] \notin {"lock", "append"} \cup PrepareSteps
  BY DEF PreAppend
<1> USE DEF Domains, Goto
<1>3. CASE pc'[w] \in {"idle", "unlock", "observe", "snapCheck", "snapPut"}
  BY <1>3 DEF PreAppend, PrepareSteps, HandleSteps
<1>4. CASE Prepare(w)
  BY <1>2, <1>4 DEF Prepare, Lock, LockTimeout, UnderLock, RejectReadProjected, RejectReadLast, ReadRows,
       UsableSnapshot, SnapshotUnread, Replay, CheckMembership, ReadLast, BuildFailed, StuckRowStopsTheLoad,
       PrepareSteps
<1>5. CASE HandleEvent(w)
  <2>1. pc[w] \in HandleSteps /\ phase' = phase
    BY <1>5 DEF HandleEvent, ReadParent, InsertRow, CheckReplayedInsert, EngineAdd, ReconcileAdd, RemoveRow,
         RemovalReplyLost, RemovalRefused, ReconcileStamp, ReconcileUser, RejectRow, handleFrame, HandleSteps
  <2>2. phase[w] \notin {"catchup", "load"}
    BY <1>1, <2>1 DEF PreAppend, Placed
  <2>3. \/ HandleDone(w) \/ \E why : HandleFails(w, why)
        \/ \E l \in InsertSteps \cup RemovalSteps : Goto(w, l)
    BY <1>5 DEF HandleEvent, ReadParent, InsertRow, CheckReplayedInsert, EngineAdd, ReconcileAdd, RemoveRow,
         RemovalReplyLost, RemovalRefused, ReconcileStamp, ReconcileUser, RejectRow, InsertSteps, RemovalSteps
  <2>4. phase[w] \in {"catchup", "load", "project", "resume"}
    BY DEF Inv1, TypeOK
  <2>5. pc'[w] \in {"observe", "unlock", "snapCheck"} \cup InsertSteps \cup RemovalSteps
    BY <1>1, <2>2, <2>3, <2>4 DEF HandleDone, HandleFails, Refuse
  <2>6. QED BY <1>3, <2>1, <2>2, <2>5 DEF PreAppend, PrepareSteps, InsertSteps, RemovalSteps
<1>6. CASE ConfirmAppend(w)
  <2>1. pc'[w] = "unlock" \/ Handle(w, stream[last[w] + 1], last[w] + 1, "project")
    BY <1>1, <1>6 DEF ConfirmAppend, Refuse
  <2>2. stream[last[w] + 1].type \in EventTypes \/ pc'[w] = "unlock"
    <3>1. last[w] \in Nat /\ Len(stream) \in Nat /\ \A v \in 1..Len(stream) : stream[v].type \in EventTypes
      BY WriterFacts
    <3>2. CASE last[w] + 1 > Len(stream)
      BY <1>1, <1>6, <3>2 DEF ConfirmAppend, Refuse
    <3>3. QED BY <3>1, <3>2
  <2>3. QED BY <1>1, <1>3, <2>1, <2>2 DEF Handle, PreAppend, PrepareSteps, EventTypes
<1>7. CASE Write(w) /\ ~ ConfirmAppend(w)
  <2>1. pc'[w] \in {"idle", "unlock", "snapPut"}
    BY <1>1, <1>2, <1>7 DEF Write, CheckRefuses, AppendCommits, AppendConflicts, AppendUnanswered, Observe,
         SnapshotCheck, SnapshotPut, Unlock, Forget, Refuse
  <2>2. QED BY <1>3, <2>1
<1>8. CASE CallFails(w)
  <2>1. pc[w] \in HandleSteps => phase[w] # "catchup"
    BY DEF PreAppend
  <2>2. pc'[w] \in {"unlock", "observe"}
    BY <1>1, <1>2, <1>8, <2>1 DEF CallFails, Refuse, HandleFails
  <2>3. QED BY <1>3, <2>2
<1>9. CASE Crash(w)
  BY <1>1, <1>3, <1>9 DEF Crash, Forget
<1>10. QED BY <1>4, <1>5, <1>6, <1>7, <1>8, <1>9 DEF LocalStep, Step

(* Only an append leads to the read that confirms it. *)
LEMMA ConfirmFollowsAppend ==
  ASSUME Inv1, NEW w \in Writers, LocalStep(w), pc'[w] = "confirm"
  PROVE  pc[w] = "append" /\ req' = req /\ (AppendCommits(w) \/ AppendUnanswered(w))
<1>1. DOMAIN pc = Writers
  BY WriterFacts DEF Domains
<1> USE <1>1 DEF Goto
<1>2. ~ (Begin(w) \/ Crash(w))
  BY DEF Begin, StartAddRoot, StartPlace, StartRemove, StartLoad, StartReject, Start, Crash, Forget
<1>3. ~ CallFails(w)
  BY DEF CallFails, Refuse, HandleFails
<1>4. ~ (Lock(w) \/ LockTimeout(w) \/ UnderLock(w) \/ RejectReadProjected(w) \/ ReadRows(w) \/ UsableSnapshot(w)
         \/ SnapshotUnread(w) \/ Replay(w) \/ CheckMembership(w) \/ BuildFailed(w) \/ StuckRowStopsTheLoad(w))
  BY DEF Lock, LockTimeout, UnderLock, RejectReadProjected, ReadRows, UsableSnapshot, SnapshotUnread, Replay,
         CheckMembership, BuildFailed, StuckRowStopsTheLoad, BuildFails, Forget, Refuse
<1>5. \A e \in Events : \A v, ph : ~ Handle(w, e, v, ph)
  BY DEF Handle, Events, EventTypes
<1>6. ~ RejectReadLast(w)
  <2>1. SUFFICES ASSUME RejectReadLast(w) PROVE FALSE
    OBVIOUS
  <2>2. stream[Len(stream)] \in Events
    BY <2>1, WriterFacts DEF RejectReadLast, Placed
  <2>3. QED BY <1>5, <2>1, <2>2 DEF RejectReadLast, Refuse
<1>7. ~ ReadLast(w)
  <2>1. SUFFICES ASSUME ReadLast(w) PROVE FALSE
    OBVIOUS
  <2>2. Len(stream) # 0 => stream[Len(stream)] \in Events
    BY WriterFacts
  <2>3. QED BY <1>5, <2>1, <2>2 DEF ReadLast, Refuse
<1>8. ~ HandleEvent(w)
  <2>1. ~ HandleDone(w) /\ ~ \E why : HandleFails(w, why)
    BY DEF HandleDone, HandleFails, Refuse
  <2>2. QED
    BY <2>1 DEF HandleEvent, ReadParent, InsertRow, CheckReplayedInsert, EngineAdd, ReconcileAdd, RemoveRow,
         RemovalReplyLost, RemovalRefused, ReconcileStamp, ReconcileUser, RejectRow
<1>9. ~ ConfirmAppend(w)
  <2>1. SUFFICES ASSUME ConfirmAppend(w) PROVE FALSE
    OBVIOUS
  <2>2. last[w] \in Nat /\ Len(stream) \in Nat /\ \A v \in 1..Len(stream) : stream[v] \in Events
    BY WriterFacts
  <2>3. ~ (last[w] + 1 > Len(stream)) => stream[last[w] + 1] \in Events
    BY <2>2
  <2>4. QED BY <1>5, <2>1, <2>3 DEF ConfirmAppend, Refuse
<1>10. ~ (CheckRefuses(w) \/ AppendConflicts(w) \/ Observe(w) \/ SnapshotCheck(w) \/ SnapshotPut(w) \/ Unlock(w))
  BY DEF CheckRefuses, AppendConflicts, Observe, SnapshotCheck, SnapshotPut, Unlock, Forget, Refuse
<1>11. AppendCommits(w) \/ AppendUnanswered(w)
  BY <1>2, <1>3, <1>4, <1>6, <1>7, <1>8, <1>9, <1>10 DEF LocalStep, Step, Prepare, Write
<1>12. QED BY <1>11 DEF AppendCommits, AppendUnanswered, appendFrame

(* A command keeps its request until its process ends. *)
LEMMA RequestKept ==
  ASSUME NEW w \in Writers, LocalStep(w), ~ Begin(w)
  PROVE  req' = req \/ Forget(w)
<1>1. CASE Prepare(w)
  BY <1>1 DEF Prepare, Lock, LockTimeout, UnderLock, RejectReadProjected, RejectReadLast, ReadRows, UsableSnapshot,
       SnapshotUnread, Replay, CheckMembership, ReadLast, BuildFailed, StuckRowStopsTheLoad
<1>2. CASE HandleEvent(w)
  BY <1>2 DEF HandleEvent, ReadParent, InsertRow, CheckReplayedInsert, EngineAdd, ReconcileAdd, RemoveRow,
       RemovalReplyLost, RemovalRefused, ReconcileStamp, ReconcileUser, RejectRow, handleFrame
<1>3. CASE Write(w) \/ CallFails(w) \/ Crash(w)
  BY <1>3 DEF Write, CheckRefuses, AppendCommits, AppendConflicts, AppendUnanswered, ConfirmAppend, Observe,
       SnapshotCheck, SnapshotPut, Unlock, CallFails, Crash, appendFrame
<1>4. QED BY <1>1, <1>2, <1>3 DEF LocalStep, Step

(* The stream only grows. *)
LEMMA StepGrows == Inv1 /\ [Next]_vars => Grows /\ Len(stream') \in Nat /\ Len(stream) \in Nat
<1> SUFFICES ASSUME Inv1, [Next]_vars PROVE Grows /\ Len(stream') \in Nat /\ Len(stream) \in Nat
  OBVIOUS
<1>1. TypeOK
  BY DEF Inv1
<1>2. stream \in Seq(Events)
  BY <1>1 DEF TypeOK
<1>3. Len(stream) \in Nat
  BY <1>2
<1>4. CASE UNCHANGED <<stream, trees>>
  BY <1>3, <1>4 DEF Grows
<1>5. CASE \E e \in Events : Extend(e) /\ (e.type = "event_rejected" => stream # <<>>)
  <2>1. PICK e \in Events : Extend(e) /\ (e.type = "event_rejected" => stream # <<>>)
    BY <1>5
  <2>2. QED BY <1>1, <1>3, <2>1, ExtendGrows
<1>6. QED BY <1>4, <1>5, Growth DEF vars

-----------------------------------------------------------------------------

(***************************************************************************)
(* Where the steps lead.                                                   *)
(***************************************************************************)
(* A projection goes on, ends, or fails, and leaves the event in hand and  *)
(* what the command is about alone.                                        *)
LEMMA Projecting ==
  ASSUME NEW w \in Writers, HandleEvent(w)
  PROVE  /\ pc[w] \in HandleSteps
         /\ UNCHANGED <<stream, trees, inflight, losses, holder, snap, req, shape, loaded, seen, at, base, last, cur, phase>>
         /\ \/ HandleDone(w) \/ \E why : HandleFails(w, why)
            \/ (\E l \in InsertSteps \cup RemovalSteps : Goto(w, l)) /\ result' = result
<1>1. pc[w] \in HandleSteps
  BY DEF HandleEvent, ReadParent, InsertRow, CheckReplayedInsert, EngineAdd, ReconcileAdd, RemoveRow,
     RemovalReplyLost, RemovalRefused, ReconcileStamp, ReconcileUser, RejectRow, HandleSteps
<1>2. UNCHANGED <<stream, trees, inflight, losses, holder, snap, req, shape, loaded, seen, at, base, last, cur, phase>>
  BY DEF HandleEvent, ReadParent, InsertRow, CheckReplayedInsert, EngineAdd, ReconcileAdd, RemoveRow,
     RemovalReplyLost, RemovalRefused, ReconcileStamp, ReconcileUser, RejectRow, handleFrame, streamVars, faultVars
<1>3. \/ HandleDone(w) \/ \E why : HandleFails(w, why)
      \/ (\E l \in InsertSteps \cup RemovalSteps : Goto(w, l)) /\ result' = result
  BY DEF HandleEvent, ReadParent, InsertRow, CheckReplayedInsert, EngineAdd, ReconcileAdd, RemoveRow,
     RemovalReplyLost, RemovalRefused, ReconcileStamp, ReconcileUser, RejectRow, InsertSteps, RemovalSteps, Keep
<1>4. QED BY <1>1, <1>2, <1>3

(* How a writer comes to project an event, or to observe a projection that *)
(* failed.                                                                 *)
LEMMA HandleFrom ==
  ASSUME Inv1, NEW w \in Writers, LocalStep(w), pc'[w] \in HandleSteps \cup {"observe"}
  PROVE  \/ /\ pc[w] \in HandleSteps
            /\ UNCHANGED <<stream, trees, inflight, req, loaded, last, cur, phase>>
            /\ pc'[w] = "observe" => phase[w] \in {"project", "resume"}
         \/ ReadLast(w) /\ pc'[w] \in HandleSteps /\ phase'[w] = "catchup"
         \/ RejectReadLast(w) /\ pc'[w] \in HandleSteps /\ phase'[w] = "resume"
         \/ /\ AppendCommits(w) /\ pc'[w] \in HandleSteps /\ phase'[w] = "project"
            /\ cur'[w] = Len(stream) + 1
         \/ /\ ConfirmAppend(w) /\ pc'[w] \in HandleSteps /\ phase'[w] = "project"
            /\ cur'[w] = last[w] + 1 /\ last[w] + 1 <= Len(stream) /\ IsOwnEvent(w, last[w] + 1)
<1>1. Domains /\ Placed(w) /\ phase[w] \in {"load", "catchup", "project", "resume"}
  BY WriterFacts DEF Inv1, TypeOK
<1>2. /\ Len(stream) \in Nat /\ last[w] \in Nat /\ \A v \in 1..Len(stream) : stream[v] \in Events
  BY WriterFacts
<1>3. pc'[w] \notin {"idle", "lock", "unlock", "rows", "snapshot", "replay", "last", "buildFailed", "stuckRow",
                     "append", "confirm", "snapCheck", "snapPut", "rejectProjected", "rejectLast", "underLock"}
  BY DEF HandleSteps
<1> USE DEF Domains, Goto
<1>4. ~ Forget(w) /\ \A out : ~ Refuse(w, out)
  BY <1>1, <1>3 DEF Forget, Refuse
<1>5. ~ Begin(w)
  BY <1>1, <1>3 DEF Begin, StartAddRoot, StartPlace, StartRemove, StartLoad, StartReject, Start
<1>6. \A e \in Events : \A v, ph : Handle(w, e, v, ph) => pc'[w] \in HandleSteps /\ cur'[w] = v /\ phase'[w] = ph
  BY <1>1 DEF Handle, Events, EventTypes, HandleSteps
<1>7. CASE HandleEvent(w)
  <2>1. /\ pc[w] \in HandleSteps
        /\ UNCHANGED <<stream, trees, inflight, req, loaded, last, cur, phase>>
        /\ \/ HandleDone(w) \/ \E why : HandleFails(w, why)
           \/ \E l \in InsertSteps \cup RemovalSteps : Goto(w, l)
    BY <1>7, Projecting
  <2>2. pc'[w] = "observe" => phase[w] \in {"project", "resume"}
    BY <1>1, <2>1 DEF HandleDone, HandleFails, Refuse, InsertSteps, RemovalSteps, Placed
  <2>3. QED BY <2>1, <2>2
<1>8. CASE CallFails(w)
  <2>1. UNCHANGED <<stream, trees, inflight, req, loaded, last, cur, phase>>
    BY <1>8 DEF CallFails, appendFrame, streamVars, handleVars, buildVars
  <2>2. pc[w] \in HandleSteps /\ HandleFails(w, "callFailed")
    BY <1>1, <1>3, <1>4, <1>8 DEF CallFails
  <2>3. pc'[w] = "observe" => phase[w] \in {"project", "resume"}
    BY <1>1, <2>2 DEF HandleFails, Refuse, Placed
  <2>4. QED BY <2>1, <2>2, <2>3
<1>9. CASE ReadLast(w)
  <2>1. Len(stream) # 0 /\ Handle(w, stream[Len(stream)], Len(stream), "catchup")
    BY <1>1, <1>3, <1>4, <1>9 DEF ReadLast
  <2>2. stream[Len(stream)] \in Events
    BY <1>2, <2>1
  <2>3. QED BY <1>6, <1>9, <2>1, <2>2
<1>10. CASE RejectReadLast(w)
  <2>1. Handle(w, stream[Len(stream)], Len(stream), "resume")
    BY <1>1, <1>3, <1>4, <1>10 DEF RejectReadLast
  <2>2. stream[Len(stream)] \in Events
    BY <1>1, <1>10, WriterFacts DEF RejectReadLast, Placed
  <2>3. QED BY <1>6, <1>10, <2>1, <2>2
<1>11. CASE AppendCommits(w)
  <2>1. Handle(w, NewEvent(w), Len(stream) + 1, "project") /\ pc[w] = "append"
    BY <1>1, <1>3, <1>11 DEF AppendCommits
  <2>2. NewEvent(w) \in Events
    BY <2>1, NewEventIsEvent
  <2>3. QED BY <1>6, <1>11, <2>1, <2>2
<1>12. CASE ConfirmAppend(w)
  <2>1. /\ ~ (last[w] + 1 > Len(stream)) /\ IsOwnEvent(w, last[w] + 1)
        /\ Handle(w, stream[last[w] + 1], last[w] + 1, "project")
    BY <1>1, <1>4, <1>12 DEF ConfirmAppend
  <2>2. stream[last[w] + 1] \in Events /\ last[w] + 1 <= Len(stream)
    BY <1>2, <2>1
  <2>3. QED BY <1>6, <1>12, <2>1, <2>2
<1>13. ~ (Lock(w) \/ LockTimeout(w) \/ UnderLock(w) \/ RejectReadProjected(w) \/ ReadRows(w) \/ UsableSnapshot(w)
         \/ SnapshotUnread(w) \/ Replay(w) \/ CheckMembership(w) \/ BuildFailed(w) \/ StuckRowStopsTheLoad(w))
  BY <1>1, <1>3, <1>4 DEF Lock, LockTimeout, UnderLock, RejectReadProjected, ReadRows, UsableSnapshot, SnapshotUnread,
     Replay, CheckMembership, BuildFailed, StuckRowStopsTheLoad, BuildFails
<1>14. ~ (CheckRefuses(w) \/ AppendConflicts(w) \/ AppendUnanswered(w) \/ Observe(w) \/ SnapshotCheck(w)
          \/ SnapshotPut(w) \/ Unlock(w) \/ Crash(w))
  BY <1>1, <1>3, <1>4 DEF CheckRefuses, AppendConflicts, AppendUnanswered, Observe, SnapshotCheck, SnapshotPut, Unlock, Crash
<1>15. QED
  BY <1>5, <1>7, <1>8, <1>9, <1>10, <1>11, <1>12, <1>13, <1>14 DEF LocalStep, Step, Prepare, Write

(* How a command comes to its report. *)
LEMMA EndsFrom ==
  ASSUME Inv1, NEW w \in Writers, LocalStep(w), pc'[w] \in SnapshotSteps \cup {"unlock"}
  PROVE  /\ UNCHANGED <<stream, inflight, req>>
         /\ \/ /\ pc'[w] = "unlock" /\ PreAppend(w)
               /\ result'[w].id = ID(req[w]) /\ result'[w].out # "appended"
            \/ /\ pc'[w] = "unlock" /\ pc[w] = "confirm" /\ result'[w].id = ID(req[w])
               /\ \/ result'[w].out \in {"noEventFound", "unknown"}
                  \/ result'[w].out = "notAppended" /\ last[w] + 1 <= Len(stream) /\ ~ IsOwnEvent(w, last[w] + 1)
            \/ /\ pc'[w] = "unlock" /\ pc[w] = "observe" /\ result'[w].id = ID(req[w])
               /\ phase[w] = "resume" => result'[w].out = "resumed"
               /\ phase[w] # "resume" => /\ result'[w].out = "appended" /\ result'[w].version = cur[w]
                                         /\ result'[w].observed \in {store'.projected, Unobserved}
            \/ HandleEvent(w) /\ HandleDone(w) /\ phase[w] \in {"project", "resume"}
            \/ pc[w] \in SnapshotSteps /\ result' = result /\ UNCHANGED store
<1>1. Domains /\ Placed(w) /\ phase[w] \in {"load", "catchup", "project", "resume"} /\ Len(stream) \in Nat
      /\ \A v \in 1..Len(stream) : stream[v] \in Events
  BY WriterFacts DEF Inv1, TypeOK
<1>2. last[w] \in Nat /\ (Len(stream) # 0 => stream[Len(stream)] \in Events)
  BY WriterFacts
<1> USE DEF Domains, Goto
<1>3. \A e \in Events : \A v, ph : ~ Handle(w, e, v, ph)
  BY <1>1 DEF Handle, Events, EventTypes, SnapshotSteps
<1>4. pc'[w] \notin {"idle", "lock", "rows", "snapshot", "replay", "last", "buildFailed", "stuckRow", "observe",
                     "append", "confirm", "rejectProjected", "rejectLast", "underLock"} \cup HandleSteps
  BY DEF SnapshotSteps, HandleSteps
<1>5. ~ Forget(w) /\ ~ Begin(w)
  BY <1>1, <1>4 DEF Forget, Begin, StartAddRoot, StartPlace, StartRemove, StartLoad, StartReject, Start
<1>6. \A out, v, o : Report(w, out, v, o) =>
          /\ result'[w].out = out /\ result'[w].id = ID(req[w]) /\ result'[w].version = v /\ result'[w].observed = o
  BY <1>1 DEF Report, ID
<1>7. \A out : Refuse(w, out) => pc'[w] = "unlock" /\ result'[w].out = out /\ result'[w].id = ID(req[w])
  BY <1>1, <1>6 DEF Refuse
<1>8. CASE Prepare(w)
  <2>1. pc[w] \in {"lock"} \cup PrepareSteps /\ UNCHANGED <<stream, inflight>>
    BY <1>8 DEF Prepare, Lock, LockTimeout, UnderLock, RejectReadProjected, RejectReadLast, ReadRows, UsableSnapshot,
       SnapshotUnread, Replay, CheckMembership, ReadLast, BuildFailed, StuckRowStopsTheLoad, PrepareSteps, streamVars
  <2>2. req' = req
    BY <1>5, RequestKept
  <2>3. \E out, v, o : Goto(w, "unlock") /\ Report(w, out, v, o) /\ out # "appended"
    <3>1. ~ (Lock(w) \/ LockTimeout(w) \/ RejectReadProjected(w) \/ ReadRows(w) \/ UsableSnapshot(w)
             \/ SnapshotUnread(w) \/ Replay(w) \/ CheckMembership(w))
      BY <1>1, <1>4, <1>5 DEF Lock, LockTimeout, RejectReadProjected, ReadRows, UsableSnapshot, SnapshotUnread,
         Replay, CheckMembership, BuildFails
    <3>2. CASE UnderLock(w) \/ BuildFailed(w) \/ StuckRowStopsTheLoad(w)
      BY <1>1, <1>4, <3>2 DEF UnderLock, BuildFailed, StuckRowStopsTheLoad, Refuse
    <3>3. CASE ReadLast(w)
      BY <1>1, <1>2, <1>3, <1>4, <3>3 DEF ReadLast, Refuse
    <3>4. CASE RejectReadLast(w)
      <4>1. stream[Len(stream)] \in Events
        BY <1>1, <3>4, WriterFacts DEF RejectReadLast, Placed
      <4>2. QED BY <1>1, <1>3, <1>4, <3>4, <4>1 DEF RejectReadLast, Refuse
    <3>5. QED BY <1>8, <3>1, <3>2, <3>3, <3>4 DEF Prepare
  <2>4. PreAppend(w)
    BY <2>1 DEF PreAppend
  <2>5. QED BY <1>1, <1>6, <2>1, <2>2, <2>3, <2>4
<1>9. ASSUME pc[w] \in HandleSteps, UNCHANGED <<stream, inflight, req>>, NEW why, HandleFails(w, why)
      PROVE  /\ pc'[w] = "unlock" /\ PreAppend(w)
             /\ result'[w].id = ID(req[w]) /\ result'[w].out # "appended"
  <2>1. phase[w] = "catchup" /\ \E out : Refuse(w, out) /\ out \in {"failed", "refused"}
    BY <1>1, <1>4, <1>9 DEF HandleFails
  <2>2. QED BY <1>7, <1>9, <2>1 DEF PreAppend
<1>10. CASE HandleEvent(w)
  <2>1. /\ pc[w] \in HandleSteps /\ UNCHANGED <<stream, inflight, req>>
        /\ \/ HandleDone(w) \/ \E why : HandleFails(w, why)
           \/ \E l \in InsertSteps \cup RemovalSteps : Goto(w, l)
    BY <1>10, Projecting
  <2>2. CASE HandleDone(w) /\ phase[w] \in {"project", "resume"}
    BY <1>10, <2>1, <2>2
  <2>3. CASE HandleDone(w) /\ phase[w] \notin {"project", "resume"}
    <3>1. phase[w] = "catchup"
      BY <1>1, <2>1, <2>3 DEF Placed
    <3>2. \E out, v, o : Goto(w, "unlock") /\ Report(w, out, v, o) /\ out # "appended"
      BY <1>1, <1>4, <2>3 DEF HandleDone, Refuse
    <3>3. QED BY <1>1, <1>6, <2>1, <3>1, <3>2 DEF PreAppend
  <2>4. CASE \E why : HandleFails(w, why)
    BY <1>9, <2>1, <2>4
  <2>5. ~ \E l \in InsertSteps \cup RemovalSteps : Goto(w, l)
    BY <1>1, <1>4 DEF InsertSteps, RemovalSteps, HandleSteps
  <2>6. QED BY <2>1, <2>2, <2>3, <2>4, <2>5
<1>11. CASE CallFails(w)
  <2>1. UNCHANGED <<stream, inflight, req, store>>
    BY <1>11 DEF CallFails, appendFrame, streamVars
  <2>2. CASE pc[w] \in PrepareSteps \cup {"append"} /\ Refuse(w, "failed")
    BY <1>7, <2>1, <2>2 DEF PreAppend
  <2>3. CASE pc[w] \in HandleSteps /\ HandleFails(w, "callFailed")
    BY <1>9, <2>1, <2>3
  <2>4. CASE pc[w] = "confirm" /\ Refuse(w, "unknown")
    BY <1>7, <2>1, <2>4
  <2>5. CASE pc[w] \in SnapshotSteps /\ Goto(w, "unlock") /\ Keep
    BY <2>1, <2>5 DEF Keep
  <2>6. QED BY <1>11, <2>2, <2>3, <2>4, <2>5 DEF CallFails
<1>12. CASE CheckRefuses(w) \/ AppendConflicts(w)
  <2>1. pc[w] = "append" /\ UNCHANGED <<stream, inflight, req>> /\ \E out : Refuse(w, out) /\ out # "appended"
    BY <1>12 DEF CheckRefuses, AppendConflicts, appendFrame, streamVars
  <2>2. QED BY <1>7, <2>1 DEF PreAppend
<1>13. CASE ConfirmAppend(w)
  <2>1. pc[w] = "confirm" /\ UNCHANGED <<stream, inflight, req>>
    BY <1>13 DEF ConfirmAppend, appendFrame, streamVars
  <2>2. CASE last[w] + 1 > Len(stream)
    BY <1>7, <1>13, <2>1, <2>2 DEF ConfirmAppend
  <2>3. CASE last[w] + 1 <= Len(stream)
    <3>1. stream[last[w] + 1] \in Events /\ ~ (last[w] + 1 > Len(stream))
      BY <1>1, <1>2, <2>3
    <3>2. ~ IsOwnEvent(w, last[w] + 1) /\ Refuse(w, "notAppended")
      BY <1>3, <1>13, <3>1 DEF ConfirmAppend
    <3>3. QED BY <1>7, <2>1, <2>3, <3>2
  <2>4. QED BY <1>1, <1>2, <2>2, <2>3
<1>14. CASE Observe(w)
  <2>1. pc[w] = "observe" /\ UNCHANGED <<stream, inflight, req, store>> /\ pc'[w] = "unlock"
    BY <1>1, <1>14 DEF Observe, appendFrame, streamVars
  <2>2. PICK o \in {store.projected, Unobserved} :
           Report(w, IF phase[w] = "resume" THEN "resumed" ELSE "appended", cur[w], o)
    BY <1>14 DEF Observe
  <2>3. QED BY <1>6, <2>1, <2>2
<1>15. CASE SnapshotCheck(w) \/ SnapshotPut(w)
  BY <1>15 DEF SnapshotCheck, SnapshotPut, appendFrame, streamVars, SnapshotSteps
<1>16. ~ (AppendCommits(w) \/ AppendUnanswered(w) \/ Unlock(w) \/ Crash(w))
  <2>1. ~ (AppendUnanswered(w) \/ Unlock(w) \/ Crash(w))
    BY <1>1, <1>4, <1>5 DEF AppendUnanswered, Unlock, Crash
  <2>2. AppendCommits(w) => NewEvent(w) \in Events
    BY NewEventIsEvent DEF AppendCommits
  <2>3. QED BY <1>1, <1>3, <1>4, <2>1, <2>2 DEF AppendCommits
<1>17. QED
  BY <1>5, <1>8, <1>10, <1>11, <1>12, <1>13, <1>14, <1>15, <1>16 DEF LocalStep, Step, Write

(* What extends the stream. *)
LEMMA Comes ==
  ASSUME Inv1, Next, stream' # stream
  PROVE  \E e \in Events :
            /\ Extend(e) /\ (e.type = "event_rejected" => stream # <<>>)
            /\ \/ \E w \in Writers : AppendCommits(w) /\ e = NewEvent(w)
               \/ CommitLands /\ \E f \in inflight : f.after = Len(stream) /\ e = f.event
               \/ Stray /\ e \in Unchecked
<1>1. TypeOK /\ stream \in Seq(Events)
  BY DEF Inv1, TypeOK
<1>2. PICK d \in Events : Extend(d) /\ (d.type = "event_rejected" => stream # <<>>)
  BY Growth
<1>3. \A c : Extend(c) => stream'[Len(stream) + 1] = c
  BY <1>1 DEF Extend
<1>4. CASE \E w \in Writers : AppendCommits(w)
  <2>1. PICK w \in Writers : AppendCommits(w)
    BY <1>4
  <2>2. Extend(NewEvent(w))
    BY <2>1 DEF AppendCommits
  <2>3. d = NewEvent(w)
    BY <1>2, <1>3, <2>2
  <2>4. QED BY <1>2, <2>1, <2>3
<1>5. CASE CommitLands
  <2>1. PICK f \in inflight : f.after = Len(stream) /\ Extend(f.event)
    BY <1>5 DEF CommitLands
  <2>2. d = f.event
    BY <1>2, <1>3, <2>1
  <2>3. QED BY <1>2, <1>5, <2>1, <2>2
<1>6. CASE Stray
  <2>1. PICK e \in Unchecked : Extend(e)
    BY <1>6 DEF Stray
  <2>2. d = e
    BY <1>2, <1>3, <2>1
  <2>3. QED BY <1>2, <1>6, <2>1, <2>2
<1>7. CASE CommitFails \/ LoseLock
  BY <1>7 DEF CommitFails, LoseLock, streamVars
<1>8. QED BY <1>4, <1>5, <1>6, <1>7, Writes DEF Next, LocalStep

(* A command waits for the lock from its start. *)
LEMMA LockFrom ==
  ASSUME Inv1, NEW w \in Writers, LocalStep(w), ~ Begin(w)
  PROVE  pc'[w] # "lock"
<1> SUFFICES ASSUME pc'[w] = "lock" PROVE FALSE
  OBVIOUS
<1>1. ~ PreAppend(w) => ~ PreAppend(w)'
  BY SentOnce
<1>2. PreAppend(w)'
  BY DEF PreAppend
<1>3. Domains /\ PreAppend(w)
  BY <1>1, <1>2, WriterFacts
<1> USE DEF Domains, Goto
<1>4. ~ Forget(w) /\ ~ (\E out : Refuse(w, out)) /\ ~ HandleDone(w) /\ ~ (\E why : HandleFails(w, why))
  BY <1>3 DEF Forget, Refuse, HandleDone, HandleFails
<1>5. ~ HandleEvent(w)
  BY <1>3, <1>4, Projecting DEF InsertSteps, RemovalSteps
<1>6. \A e \in Events : \A v, ph : ~ Handle(w, e, v, ph)
  BY <1>3 DEF Handle, Events, EventTypes
<1>7. ~ (CallFails(w) \/ Crash(w) \/ Unlock(w) \/ LockTimeout(w))
  BY <1>3, <1>4 DEF CallFails, Crash, Unlock, LockTimeout
<1>8. ~ (Lock(w) \/ UnderLock(w) \/ RejectReadProjected(w) \/ ReadRows(w) \/ UsableSnapshot(w)
         \/ SnapshotUnread(w) \/ Replay(w) \/ CheckMembership(w) \/ BuildFailed(w) \/ StuckRowStopsTheLoad(w))
  BY <1>3, <1>4 DEF Lock, UnderLock, RejectReadProjected, ReadRows, UsableSnapshot, SnapshotUnread,
     Replay, CheckMembership, BuildFailed, StuckRowStopsTheLoad, BuildFails
<1>9. ~ (CheckRefuses(w) \/ AppendConflicts(w) \/ AppendUnanswered(w) \/ Observe(w) \/ SnapshotCheck(w) \/ SnapshotPut(w))
  BY <1>3, <1>4 DEF CheckRefuses, AppendConflicts, AppendUnanswered, Observe, SnapshotCheck, SnapshotPut
<1>10. /\ \A v \in 1..Len(stream) : stream[v] \in Events
       /\ Len(stream) \in Nat /\ last[w] \in Nat /\ (pc[w] = "rejectLast" => Len(stream) # 0)
  BY WriterFacts DEF Placed
<1>11. ~ ConfirmAppend(w)
  <2>1. last[w] + 1 > Len(stream) \/ stream[last[w] + 1] \in Events
    BY <1>10
  <2>2. QED BY <1>3, <1>4, <1>6, <2>1 DEF ConfirmAppend
<1>12. ~ ReadLast(w)
  <2>1. Len(stream) = 0 \/ stream[Len(stream)] \in Events
    BY <1>10
  <2>2. QED BY <1>3, <1>4, <1>6, <2>1 DEF ReadLast
<1>13. ~ RejectReadLast(w)
  <2>1. pc[w] = "rejectLast" => stream[Len(stream)] \in Events
    BY <1>10
  <2>2. QED BY <1>3, <1>4, <1>6, <2>1 DEF RejectReadLast
<1>14. ~ AppendCommits(w)
  <2>1. pc[w] = "append" => NewEvent(w) \in Events
    BY NewEventIsEvent
  <2>2. QED BY <1>3, <1>6, <2>1 DEF AppendCommits
<1>15. QED
  BY <1>5, <1>7, <1>8, <1>9, <1>11, <1>12, <1>13, <1>14 DEF LocalStep, Step, Prepare, Write

(* Only the lock gets a command to work. *)
LEMMA WorksFrom ==
  ASSUME Inv1, NEW w \in Writers, LocalStep(w), pc[w] \in {"idle", "lock"}
  PROVE  \/ Lock(w)
         \/ pc'[w] \in {"idle", "lock"} /\ UNCHANGED <<stream, trees, store, inflight, holder>>
<1>1. Domains /\ Placed(w)
  BY WriterFacts
<1> USE DEF Domains, Goto
<1>2. pc[w] \notin {"append", "confirm", "observe", "unlock"} \cup PrepareSteps \cup HandleSteps \cup SnapshotSteps
  BY DEF PrepareSteps, HandleSteps, SnapshotSteps
<1>3. ~ HandleEvent(w)
  BY <1>2, Projecting
<1>4. ~ (CallFails(w) \/ Crash(w) \/ Write(w))
  BY <1>2 DEF CallFails, Crash, Write, CheckRefuses, AppendCommits, AppendConflicts, AppendUnanswered, ConfirmAppend,
     Observe, SnapshotCheck, SnapshotPut, Unlock, SnapshotSteps
<1>5. Prepare(w) => Lock(w) \/ LockTimeout(w)
  BY <1>2 DEF Prepare, UnderLock, RejectReadProjected, RejectReadLast, ReadRows, UsableSnapshot, SnapshotUnread,
     Replay, CheckMembership, ReadLast, BuildFailed, StuckRowStopsTheLoad, PrepareSteps
<1>6. LockTimeout(w) => pc'[w] = "idle" /\ UNCHANGED <<stream, trees, store, inflight, holder>>
  BY <1>1 DEF LockTimeout, Forget, streamVars
<1>7. Begin(w) => pc'[w] = "lock" /\ UNCHANGED <<stream, trees, store, inflight, holder>>
  BY <1>1 DEF Begin, StartAddRoot, StartPlace, StartRemove, StartLoad, StartReject, Start, streamVars
<1>8. QED BY <1>3, <1>4, <1>5, <1>6, <1>7 DEF LocalStep, Step

(* How a command comes to append. *)
LEMMA AppendFrom ==
  ASSUME Inv1, NEW w \in Writers, LocalStep(w), pc'[w] = "append"
  PROVE  \/ /\ HandleEvent(w) /\ phase[w] = "catchup"
            /\ \/ HandleDone(w) /\ ~ Rejects(w)
               \/ Rejects(w) /\ \E why \in Evidence : HandleFails(w, why)
         \/ ReadLast(w) /\ Len(stream) = 0
         \/ BuildFailed(w) /\ Rejects(w)
         \/ StuckRowStopsTheLoad(w) /\ Rejects(w)
<1>1. Domains /\ Placed(w) /\ phase[w] \in {"load", "catchup", "project", "resume"}
      /\ \A v \in 1..Len(stream) : stream[v] \in Events
  BY WriterFacts DEF Inv1, TypeOK
<1>2. /\ Len(stream) \in Nat /\ last[w] \in Nat /\ (pc[w] = "rejectLast" => Len(stream) # 0)
  BY WriterFacts DEF Placed
<1> USE DEF Domains, Goto
<1>3. ~ Forget(w) /\ ~ (\E out : Refuse(w, out)) /\ ~ Begin(w)
  BY <1>1 DEF Forget, Refuse, Begin, StartAddRoot, StartPlace, StartRemove, StartLoad, StartReject, Start
<1>4. \A e \in Events : \A v, ph : ~ Handle(w, e, v, ph)
  BY <1>1 DEF Handle, Events, EventTypes
<1>5. HandleDone(w) => phase[w] = "catchup" \/ phase[w] = "load"
  BY <1>1 DEF HandleDone
<1>6. HandleDone(w) => ~ Rejects(w)
  BY <1>1, <1>3 DEF HandleDone, Rejects, Kind
<1>7. \A why : HandleFails(w, why) => phase[w] = "catchup" /\ Rejects(w) /\ why \in Evidence
  BY <1>1, <1>3 DEF HandleFails, Rejects, Kind
<1>8. CASE HandleEvent(w)
  <2>1. pc[w] \in HandleSteps /\ (HandleDone(w) \/ \E why : HandleFails(w, why))
    BY <1>1, <1>8, Projecting DEF InsertSteps, RemovalSteps
  <2>2. QED BY <1>1, <1>5, <1>6, <1>7, <1>8, <2>1 DEF Placed
<1>9. ~ (CallFails(w) \/ Crash(w) \/ Unlock(w) \/ LockTimeout(w))
  <2>1. "callFailed" \notin Evidence
    BY DEF Evidence
  <2>2. ~ CallFails(w)
    BY <1>1, <1>3, <1>7, <2>1 DEF CallFails
  <2>3. QED BY <1>3, <2>2 DEF Crash, Unlock, LockTimeout
<1>10. ~ (Lock(w) \/ UnderLock(w) \/ RejectReadProjected(w) \/ ReadRows(w) \/ UsableSnapshot(w)
         \/ SnapshotUnread(w) \/ Replay(w) \/ CheckMembership(w))
  BY <1>1, <1>3 DEF Lock, UnderLock, RejectReadProjected, ReadRows, UsableSnapshot, SnapshotUnread,
     Replay, CheckMembership, BuildFails
<1>11. ~ (CheckRefuses(w) \/ AppendConflicts(w) \/ AppendUnanswered(w) \/ Observe(w) \/ SnapshotCheck(w) \/ SnapshotPut(w))
  BY <1>1, <1>3 DEF CheckRefuses, AppendConflicts, AppendUnanswered, Observe, SnapshotCheck, SnapshotPut
<1>12. ~ ConfirmAppend(w)
  <2>1. last[w] + 1 > Len(stream) \/ stream[last[w] + 1] \in Events
    BY <1>1, <1>2
  <2>2. QED BY <1>1, <1>3, <1>4, <2>1 DEF ConfirmAppend
<1>13. ReadLast(w) => Len(stream) = 0
  <2>1. Len(stream) = 0 \/ stream[Len(stream)] \in Events
    BY <1>1, <1>2
  <2>2. QED BY <1>1, <1>3, <1>4, <2>1 DEF ReadLast
<1>14. ~ RejectReadLast(w)
  <2>1. pc[w] = "rejectLast" => stream[Len(stream)] \in Events
    BY <1>1, <1>2
  <2>2. QED BY <1>1, <1>3, <1>4, <2>1 DEF RejectReadLast
<1>15. ~ AppendCommits(w)
  <2>1. pc[w] = "append" => NewEvent(w) \in Events
    BY NewEventIsEvent
  <2>2. QED BY <1>1, <1>4, <2>1 DEF AppendCommits
<1>16. BuildFailed(w) \/ StuckRowStopsTheLoad(w) => Rejects(w)
  BY <1>1, <1>3 DEF BuildFailed, StuckRowStopsTheLoad, Rejects, Kind, Placed
<1>17. QED
  BY <1>3, <1>8, <1>9, <1>10, <1>11, <1>12, <1>13, <1>14, <1>15, <1>16 DEF LocalStep, Step, Prepare, Write

(* How a command comes to a step of its load. *)
LEMMA LoadFrom ==
  ASSUME Inv1, NEW w \in Writers, LocalStep(w), pc'[w] \in LoadSteps
  PROVE  \/ Lock(w) \/ UnderLock(w) \/ (RejectReadLast(w) /\ Rejects(w))
         \/ /\ ReadRows(w) \/ UsableSnapshot(w) \/ SnapshotUnread(w) \/ Replay(w) \/ CheckMembership(w) \/ BuildFailed(w)
            /\ pc[w] \in {"rows", "snapshot", "replay"} \/ pc'[w] = "stuckRow"
<1>1. Domains /\ Placed(w)
  BY WriterFacts DEF Inv1, TypeOK
<1>2. pc'[w] \notin {"idle", "lock", "underLock", "unlock", "append", "confirm", "observe", "rejectProjected", "rejectLast"}
                    \cup HandleSteps \cup SnapshotSteps
  BY DEF LoadSteps, HandleSteps, SnapshotSteps
<1> USE DEF Domains, Goto
<1>3. ~ Forget(w) /\ ~ (\E out : Refuse(w, out)) /\ ~ Begin(w)
  BY <1>1, <1>2 DEF Forget, Refuse, Begin, StartAddRoot, StartPlace, StartRemove, StartLoad, StartReject, Start
<1>4. ~ HandleDone(w) /\ \A why : ~ HandleFails(w, why)
  BY <1>1, <1>2 DEF HandleDone, HandleFails, Refuse, SnapshotSteps
<1>5. ~ HandleEvent(w)
  BY <1>1, <1>2, <1>4, Projecting DEF InsertSteps, RemovalSteps, HandleSteps
<1>6. \A e \in Events : \A v, ph : ~ Handle(w, e, v, ph)
  BY <1>1, <1>2 DEF Handle, Events, EventTypes, HandleSteps
<1>7. ~ (CallFails(w) \/ Crash(w) \/ Unlock(w) \/ LockTimeout(w))
  BY <1>1, <1>2, <1>3, <1>4 DEF CallFails, Crash, Unlock, LockTimeout
<1>8. ~ (CheckRefuses(w) \/ AppendConflicts(w) \/ AppendUnanswered(w) \/ Observe(w) \/ SnapshotCheck(w) \/ SnapshotPut(w))
  BY <1>1, <1>2, <1>3 DEF CheckRefuses, AppendConflicts, AppendUnanswered, Observe, SnapshotCheck, SnapshotPut, SnapshotSteps
<1>9. ~ (RejectReadProjected(w) \/ StuckRowStopsTheLoad(w))
  BY <1>1, <1>2, <1>3 DEF RejectReadProjected, StuckRowStopsTheLoad
<1>10. /\ \A v \in 1..Len(stream) : stream[v] \in Events
       /\ Len(stream) \in Nat /\ last[w] \in Nat /\ (pc[w] = "rejectLast" => Len(stream) # 0)
  BY WriterFacts DEF Placed
<1>11. ~ ConfirmAppend(w)
  <2>1. last[w] + 1 > Len(stream) \/ stream[last[w] + 1] \in Events
    BY <1>10
  <2>2. QED BY <1>1, <1>3, <1>6, <2>1 DEF ConfirmAppend
<1>12. ~ ReadLast(w)
  <2>1. Len(stream) = 0 \/ stream[Len(stream)] \in Events
    BY <1>10
  <2>2. QED BY <1>1, <1>2, <1>3, <1>6, <2>1 DEF ReadLast
<1>13. ~ AppendCommits(w)
  <2>1. pc[w] = "append" => NewEvent(w) \in Events
    BY NewEventIsEvent
  <2>2. QED BY <1>1, <1>2, <1>6, <2>1 DEF AppendCommits
<1>14. RejectReadLast(w) => Rejects(w)
  BY <1>1 DEF RejectReadLast, Placed
<1>15. BuildFailed(w) => pc'[w] = "stuckRow"
  BY <1>1, <1>2, <1>3 DEF BuildFailed
<1>16. ReadRows(w) \/ UsableSnapshot(w) \/ SnapshotUnread(w) \/ Replay(w) \/ CheckMembership(w)
       => pc[w] \in {"rows", "snapshot", "replay"}
  BY DEF ReadRows, UsableSnapshot, SnapshotUnread, Replay, CheckMembership
<1>17. Prepare(w)
  BY <1>3, <1>5, <1>7, <1>8, <1>11, <1>13 DEF LocalStep, Step, Write
<1>18. \/ Lock(w) \/ UnderLock(w) \/ RejectReadLast(w)
       \/ ReadRows(w) \/ UsableSnapshot(w) \/ SnapshotUnread(w) \/ Replay(w) \/ CheckMembership(w) \/ BuildFailed(w)
  BY <1>7, <1>9, <1>12, <1>17 DEF Prepare
<1>19. QED BY <1>14, <1>15, <1>16, <1>18

(* The ways a projection goes on. *)
LEMMA GoesOn ==
  ASSUME Domains, NEW w \in Writers, HandleEvent(w), pc'[w] \in HandleSteps
  PROVE  /\ pc[w] \in HandleSteps \ {"rejection"} /\ pc'[w] # "rejection"
         /\ \/ /\ ReadParent(w) /\ pc'[w] = "insert" /\ Ev(w).body.parent \in DOMAIN store.active
               /\ depth'[w] = store.active[Ev(w).body.parent].node.depth + 1 /\ store' = store
            \/ InsertRow(w) /\ pc'[w] = "engineAdd" /\ Inserting(w) = "ok"
            \/ InsertRow(w) /\ pc'[w] = "replayed" /\ HoldsID(store, ID(Ev(w)))
            \/ /\ CheckReplayedInsert(w) /\ pc'[w] = "engineAdd" /\ Ev(w).body.user \in DOMAIN store.active
               /\ store.active[Ev(w).body.user].id = ID(Ev(w))
            \/ /\ EngineAdd(w) /\ pc'[w] = "reconcileAdd"
               /\ Accepts(engine[w], Ev(w)) \/ Refusal(engine[w], Ev(w)) \in Exists
            \/ pc'[w] \in {"reconcileStamp", "reconcileUser"}
<1> USE DEF Domains, Goto
<1>1. ~ HandleDone(w) /\ \A why : ~ HandleFails(w, why)
  BY DEF HandleDone, HandleFails, Refuse, HandleSteps
<1>2. ~ RejectRow(w) /\ ~ ReconcileAdd(w) /\ ~ RemoveRow(w) /\ ~ ReconcileUser(w)
  BY <1>1 DEF RejectRow, ReconcileAdd, RemoveRow, ReconcileUser
<1>3. CASE ReadParent(w)
  BY <1>1, <1>3 DEF ReadParent, HandleSteps
<1>4. CASE InsertRow(w)
  <2>1. pc[w] = "insert" /\ (Inserting(w) = "ok" => pc'[w] = "engineAdd")
        /\ (Inserting(w) # "ok" => Inserting(w) = "ErrNodeAlreadyProjected" /\ pc'[w] = "replayed")
    BY <1>1, <1>4 DEF InsertRow, Inserting, RowOf, ID
  <2>2. Inserting(w) = "ErrNodeAlreadyProjected" => HoldsID(store, ID(Ev(w)))
    BY DEF Inserting, InsertOutcome
  <2>3. QED BY <1>4, <2>1, <2>2 DEF HandleSteps
<1>5. CASE CheckReplayedInsert(w)
  BY <1>1, <1>5 DEF CheckReplayedInsert, HandleSteps, ID
<1>6. CASE EngineAdd(w)
  BY <1>1, <1>6 DEF EngineAdd, HandleSteps
<1>7. CASE RemovalReplyLost(w) \/ RemovalRefused(w)
  BY <1>1, <1>7 DEF RemovalReplyLost, RemovalRefused, HandleSteps
<1>8. CASE ReconcileStamp(w)
  BY <1>1, <1>8 DEF ReconcileStamp, HandleSteps
<1>9. QED BY <1>2, <1>3, <1>4, <1>5, <1>6, <1>7, <1>8 DEF HandleEvent

(* The refusals reject-event goes on from. *)
LEMMA EvidenceFrom ==
  ASSUME Domains, NEW w \in Writers, HandleEvent(w), phase[w] = "catchup", Rejects(w), pc'[w] = "append"
  PROVE  /\ store' = store
         /\ \/ pc[w] = "parent" /\ Ev(w).body.parent \notin DOMAIN store.active
            \/ pc[w] = "insert" /\ Inserting(w) \in {"ErrActiveUserConflict", "ErrSlotConflict", "ErrRootConflict"}
            \/ /\ pc[w] = "replayed"
               /\ ~ (Ev(w).body.user \in DOMAIN store.active /\ store.active[Ev(w).body.user].id = ID(Ev(w)))
            \/ pc[w] = "engineAdd" /\ Refusal(engine[w], Ev(w)) \notin Exists \cup {"ok"}
            \/ pc[w] = "removal" /\ Refusal(engine[w], Ev(w)) \notin {"ok", "USER_NOT_FOUND"}
            \/ /\ pc[w] = "reconcileUser" /\ Ev(w).body.user \notin DOMAIN store.active
               /\ NewestStamp(store, Ev(w).body.user) # ID(Ev(w))
<1> USE DEF Domains, Goto
<1>1. ~ HandleDone(w)
  BY DEF HandleDone, Refuse, Rejects, Kind
<1>2. \A why : HandleFails(w, why) => why \in Evidence
  BY DEF HandleFails, Refuse
<1>3. {ReplyLost, "ok", "diverged", "ProjectionRefused", "RowsNotMatched", "RemovalNotProjected",
       "ErrNodeAlreadyProjected", "USER_NOT_FOUND"} \cap Evidence = {}
  BY DEF Evidence, ReplyLost
<1>4. CASE ReadParent(w)
  BY <1>4 DEF ReadParent
<1>5. CASE InsertRow(w)
  <2>1. pc[w] = "insert" /\ Inserting(w) # "ok" /\ Inserting(w) # "ErrNodeAlreadyProjected" /\ HandleFails(w, Inserting(w))
        /\ store' = store
    BY <1>2, <1>3, <1>5 DEF InsertRow, Inserting, RowOf, ID
  <2>2. Inserting(w) \in Evidence
    BY <1>2, <2>1
  <2>3. Inserting(w) \in {"ProjectionRefused", "ErrNodeAlreadyProjected", "ErrActiveUserConflict", "ErrRootConflict",
                          "ErrSlotConflict", "ok"}
    BY DEF Inserting, InsertOutcome
  <2>4. QED BY <1>3, <2>1, <2>2, <2>3
<1>6. CASE CheckReplayedInsert(w)
  BY <1>6 DEF CheckReplayedInsert, ID
<1>7. CASE EngineAdd(w)
  BY <1>1, <1>7 DEF EngineAdd
<1>8. CASE ReconcileAdd(w)
  BY <1>1, <1>2, <1>3, <1>8 DEF ReconcileAdd
<1>9. CASE RemoveRow(w)
  <2>1. HandleFails(w, ReplyLost) \/ HandleFails(w, Removing(w))
    BY <1>1, <1>9 DEF RemoveRow, Removing, Moved
  <2>2. Removing(w) \in {"ok", "ProjectionRefused", "RowsNotMatched"}
    BY DEF Removing, RemovalOutcome
  <2>3. QED BY <1>2, <1>3, <2>1, <2>2
<1>10. CASE RemovalReplyLost(w)
  BY <1>10 DEF RemovalReplyLost
<1>11. CASE RemovalRefused(w)
  BY <1>11 DEF RemovalRefused
<1>12. CASE ReconcileStamp(w)
  BY <1>1, <1>12 DEF ReconcileStamp
<1>13. CASE ReconcileUser(w)
  BY <1>1, <1>2, <1>3, <1>13 DEF ReconcileUser, ID
<1>14. CASE RejectRow(w)
  <2>1. HandleFails(w, ReplyLost) \/ HandleFails(w, RejectionOutcome(store, cur[w]))
    BY <1>1, <1>14 DEF RejectRow
  <2>2. RejectionOutcome(store, cur[w]) \in {"ok", "ProjectionRefused"}
    BY DEF RejectionOutcome
  <2>3. QED BY <1>2, <1>3, <2>1, <2>2
<1>15. QED BY <1>4, <1>5, <1>6, <1>7, <1>8, <1>9, <1>10, <1>11, <1>12, <1>13, <1>14 DEF HandleEvent

(* What a sequence is after an append. *)
LEMMA Appended ==
  ASSUME NEW S, NEW s \in Seq(S), NEW x
  PROVE  /\ Len(s) \in Nat /\ DOMAIN s = 1..Len(s) /\ DOMAIN Append(s, x) = 1..(Len(s) + 1)
         /\ Append(s, x)[Len(s) + 1] = x /\ \A i \in 1..Len(s) : Append(s, x)[i] = s[i]
  OBVIOUS

(* The newest tombstone of a user is the one just written. *)
LEMMA NewestIsLast ==
  ASSUME NEW tombs \in Seq(Tombstone), NEW t, NEW st, st.tombs = Append(tombs, t)
  PROVE  NewestStamp(st, t.user) = t.stamp
<1> DEFINE n == Len(tombs) + 1
           mine == {i \in DOMAIN st.tombs : st.tombs[i].user = t.user}
<1>1. DOMAIN st.tombs = 1..n /\ st.tombs[n] = t /\ n \in Nat
  OBVIOUS
<1>2. n \in mine /\ \A j \in mine : j \in Nat /\ j <= n
  BY <1>1
<1>3. \A i \in mine : (\A j \in mine : j <= i) <=> i = n
  BY <1>2
<1> HIDE DEF mine, n
<1>4. (CHOOSE i \in mine : \A j \in mine : j <= i) = n
  BY <1>2, <1>3
<1>5. mine # {}
  BY <1>2
<1>6. NewestStamp(st, t.user) = IF mine = {} THEN NoEvent ELSE st.tombs[CHOOSE i \in mine : \A j \in mine : j <= i].stamp
  BY DEF NewestStamp, mine
<1>7. QED BY <1>1, <1>4, <1>5, <1>6

(* The engine refuses an event it has just applied. *)
LEMMA NotTwice ==
  ASSUME NEW t, NEW e, e.type \in Mutations, Accepts(t, e)
  PROVE  ~ Accepts(Apply(t, e), e)
<1>1. CASE e.type = "root_added"
  <2>1. HasRoot(AddRoot(t, e.body.user))
    BY DEF HasRoot, AddRoot, With
  <2>2. QED BY <1>1, <2>1 DEF Accepts, Refusal, Apply, CheckAddRoot
<1>2. CASE e.type = "node_placed"
  <2>1. e.body.user \in DOMAIN AddNode(t, e.body.user, e.body.parent, e.body.sponsor, e.body.pos)
    BY DEF AddNode, With
  <2>2. QED BY <1>2, <2>1 DEF Accepts, Refusal, Apply, CheckAddNode
<1>3. CASE e.type = "node_removed"
  <2>1. e.body.user \notin DOMAIN RemoveNode(t, e.body.user)
    BY DEF RemoveNode
  <2>2. QED BY <1>3, <2>1 DEF Accepts, Refusal, Apply, CheckRemoveNode
<1>4. QED BY <1>1, <1>2, <1>3 DEF Mutations

(* An undecided append aims at the end of the stream or at a version that  *)
(* is taken.                                                               *)
LEMMA AimsBelow ==
  ASSUME Inv
  PROVE  \A f \in inflight : f.after \in Nat /\ f.after <= Len(stream)
<1> SUFFICES ASSUME NEW f \in inflight PROVE f.after \in Nat /\ f.after <= Len(stream)
  OBVIOUS
<1>1. f.after \in Nat
  BY DEF Inv, Inv1, TypeOK
<1>2. CASE f.event.type = "event_rejected"
  BY <1>1, <1>2 DEF Inv, Inv3, Rejectable
<1>3. CASE f.event.type # "event_rejected"
  BY <1>1, <1>3 DEF Inv, Inv4, Undecided
<1>4. QED BY <1>1, <1>2, <1>3

(* The newest stamp is a stamp of the user's. *)
LEMMA NewestIsStamp ==
  ASSUME Filed, NEW u, NewestStamp(store, u) # NoEvent
  PROVE  \E i \in DOMAIN store.tombs : store.tombs[i].user = u /\ store.tombs[i].stamp = NewestStamp(store, u)
<1> DEFINE mine == {i \in DOMAIN store.tombs : store.tombs[i].user = u}
<1>1. mine # {} /\ NewestStamp(store, u) = store.tombs[CHOOSE i \in mine : \A j \in mine : j <= i].stamp
  BY DEF NewestStamp
<1>2. \E i \in mine : \A j \in mine : j <= i
  BY <1>1 DEF Filed
<1> HIDE DEF mine
<1>3. (CHOOSE i \in mine : \A j \in mine : j <= i) \in mine
  BY <1>2
<1>4. QED BY <1>1, <1>3 DEF mine

=============================================================================
