-------------------------- MODULE TreeWriterProofs --------------------------
(***************************************************************************)
(* TreeWriter is type correct, the projected version only goes forward, and *)
(* the engine of a writer holds the tree its event is appended to, for any *)
(* number of writers, users and events, lost locks and late commits.       *)
(***************************************************************************)
EXTENDS TreeWriterSteps

USE Untyped

-----------------------------------------------------------------------------

(***************************************************************************)
(* Types.                                                                  *)
(***************************************************************************)
(* The tree of a stream without events is a tree. *)
LEMMA EmptyIsTree == IsTree(EmptyTree)
  BY DEF IsTree, EmptyTree

(* InsertNodeProjection leaves typed rows, whether or not it acts. *)
LEMMA InsertStoreOK ==
  ASSUME NEW st, StoreOK(st), NEW id \in Nat, NEW u \in Users, NEW n \in Node, NEW v \in Nat
  PROVE  StoreOK(ProjectInsert(st, id, u, n, v)) /\ ProjectInsert(st, id, u, n, v).projected = v
<1>1. AreRows(With(st.active, u, [id |-> id, node |-> n]))
  BY DEF StoreOK, AreRows, Row, With
<1>2. ProjectInsert(st, id, u, n, v) =
        [active |-> With(st.active, u, [id |-> id, node |-> n]), tombs |-> st.tombs, projected |-> v]
  BY DEF ProjectInsert
<1>3. QED BY <1>1, <1>2 DEF StoreOK

(* RemoveNodeProjection leaves typed rows. *)
LEMMA RemovalStoreOK ==
  ASSUME NEW st, StoreOK(st), NEW id \in Nat, NEW u \in DOMAIN st.active, NEW moved,
         NEW to \in Users \cup {NoUser}, NEW v \in Nat
  PROVE  StoreOK(ProjectRemoval(st, id, u, moved, to, v))
         /\ ProjectRemoval(st, id, u, moved, to, v).projected = v
<1> DEFINE active == [x \in DOMAIN st.active \ {u} |->
                         IF x \in moved THEN [st.active[x] EXCEPT !.node.sponsor = to] ELSE st.active[x]]
           tombs == Append(st.tombs, [id |-> st.active[u].id, user |-> u, stamp |-> id])
<1>1. \A x \in DOMAIN st.active : st.active[x] \in Row
  BY DEF StoreOK, AreRows
<1>2. \A r \in Row : [r EXCEPT !.node.sponsor = to] \in Row
  BY DEF Row, Node
<1>3. AreRows(active)
  BY <1>1, <1>2 DEF StoreOK, AreRows
<1>4. tombs \in Seq(Tombstone)
  BY <1>1 DEF StoreOK, AreRows, Row, Tombstone
<1>5. ProjectRemoval(st, id, u, moved, to, v) = [active |-> active, tombs |-> tombs, projected |-> v]
  BY DEF ProjectRemoval
<1> HIDE DEF active, tombs
<1>6. QED BY <1>3, <1>4, <1>5 DEF StoreOK

(* The projection of a rejection leaves typed rows. *)
LEMMA RejectionStoreOK ==
  ASSUME NEW st, StoreOK(st), NEW id \in Nat, NEW v \in Nat
  PROVE  StoreOK(ProjectRejection(st, id, v)) /\ ProjectRejection(st, id, v).projected = v
<1> DEFINE gone == {x \in DOMAIN st.active : st.active[x].id = id}
           active == [x \in DOMAIN st.active \ gone |-> st.active[x]]
           tombs == IF gone = {} THEN st.tombs
                    ELSE Append(st.tombs, [id |-> id, user |-> CHOOSE x \in gone : TRUE, stamp |-> NoEvent])
<1>1. AreRows(active)
  BY DEF StoreOK, AreRows
<1>2. gone # {} => (CHOOSE x \in gone : TRUE) \in Users
  BY DEF StoreOK, AreRows
<1>3. tombs \in Seq(Tombstone)
  <2>1. CASE gone = {} BY <2>1 DEF StoreOK
  <2>2. CASE gone # {}
    <3>1. [id |-> id, user |-> CHOOSE x \in gone : TRUE, stamp |-> NoEvent] \in Tombstone
      BY <1>2, <2>2 DEF Tombstone, NoEvent
    <3> HIDE DEF gone
    <3>2. QED BY <2>2, <3>1 DEF StoreOK
  <2>3. QED BY <2>1, <2>2
<1>4. ProjectRejection(st, id, v) = [active |-> active, tombs |-> tombs, projected |-> v]
  BY DEF ProjectRejection
<1> HIDE DEF active, tombs
<1>5. QED BY <1>1, <1>3, <1>4 DEF StoreOK

(* What a step that leaves x alone, and at most appends, keeps of Placed(x). *)
LEMMA SamePlaced ==
  ASSUME TypeOK, Len(stream') \in Nat, Grows, NEW x \in Writers, Same(x), Placed(x)
  PROVE  Placed(x)'
<1>1. Len(stream) \in Nat /\ cur[x] \in Nat /\ last[x] \in Nat /\ loaded[x] \in Nat
  BY DEF TypeOK
<1>2. stream # <<>> => stream' # <<>>
  BY <1>1 DEF Grows, TypeOK
<1>3. cur[x] \in 1..Len(stream) => cur[x] \in 1..Len(stream') /\ stream'[cur[x]] = stream[cur[x]]
  BY <1>1 DEF Grows
<1>4. last[x] <= Len(stream) => last[x] <= Len(stream')
  BY <1>1 DEF Grows
<1>5. loaded[x] <= Len(stream) => loaded[x] <= Len(stream')
  BY <1>1 DEF Grows
<1>6. InsertSteps \cup RemovalSteps \cup {"parent", "rejection"} = HandleSteps
  BY DEF InsertSteps, RemovalSteps, HandleSteps
<1>7. QED
  BY <1>2, <1>3, <1>4, <1>5, <1>6 DEF Placed, Same, Kind, Rejects, Ev, IsRejection

Follows(w, l) ==
    \/ l = "unlock"
    \/ pc[w] = "rejectProjected" /\ l = "rejectLast"
    \/ Late(w) /\ l \in {"rows", "snapshot", "replay", "last", "buildFailed", "confirm"}
    \/ Late(w) /\ l = "stuckRow" /\ Rejects(w)
    \/ Late(w) /\ l = "append" /\ Kind(w) # "load"
    \/ pc[w] \in HandleSteps /\ l \in SnapshotSteps \cup {"observe"}
    \/ pc[w] = "snapCheck" /\ l = "snapPut"
    \/ pc[w] \in {"parent"} \cup InsertSteps /\ l \in InsertSteps
    \/ pc[w] \in RemovalSteps /\ l \in RemovalSteps

(* Such a step keeps Placed(w). *)
LEMMA MovePlaced ==
  ASSUME Inv1, NEW w \in Writers, Follows(w, pc'[w]),
         UNCHANGED <<stream, req, shape, last, cur, phase>>,
         loaded'[w] <= Len(stream), pc'[w] = "replay" => at'[w] <= loaded'[w]
  PROVE  Placed(w)'
<1>1. Placed(w)
  BY DEF Inv1
<1> USE <1>1 DEF Placed, Kind, Rejects, Ev, IsRejection, HandleSteps, SnapshotSteps, InsertSteps, RemovalSteps, Late
<1>2. CASE pc'[w] = "unlock"
  BY <1>2
<1>3. CASE pc[w] = "rejectProjected" /\ pc'[w] = "rejectLast"
  BY <1>3
<1>4. CASE Late(w) /\ pc'[w] \in {"rows", "snapshot", "replay", "last", "buildFailed", "confirm"}
  BY <1>4
<1>5. CASE Late(w) /\ pc'[w] = "stuckRow" /\ Rejects(w)
  BY <1>5
<1>6. CASE Late(w) /\ pc'[w] = "append" /\ Kind(w) # "load"
  BY <1>6
<1>7. CASE pc[w] \in HandleSteps /\ pc'[w] \in SnapshotSteps \cup {"observe"}
  BY <1>7
<1>8. CASE pc[w] = "snapCheck" /\ pc'[w] = "snapPut"
  BY <1>8
<1>9. CASE pc[w] \in {"parent"} \cup InsertSteps /\ pc'[w] \in InsertSteps
  BY <1>9
<1>10. CASE pc[w] \in RemovalSteps /\ pc'[w] \in RemovalSteps
  BY <1>10
<1>11. QED BY <1>2, <1>3, <1>4, <1>5, <1>6, <1>7, <1>8, <1>9, <1>10 DEF Follows

(* Where a handled event leads. *)
LEMMA HandleFollows ==
  ASSUME Inv1, NEW w \in Writers, pc[w] \in HandleSteps, HandleDone(w) \/ \E why : HandleFails(w, why)
  PROVE  Follows(w, pc'[w])
<1>1. DOMAIN pc = Writers
  BY DEF Inv1, TypeOK
<1>2. Late(w)
  BY DEF Late, HandleSteps
<1>3. CASE HandleDone(w)
  BY <1>1, <1>2, <1>3 DEF HandleDone, Goto, Refuse, Follows, SnapshotSteps, Kind
<1>4. CASE \E why : HandleFails(w, why)
  BY <1>1, <1>2, <1>4 DEF HandleFails, Refuse, Goto, Follows, Kind
<1>5. QED BY <1>3, <1>4

(* A step of writer w other than an append keeps Placed(w). *)
LEMMA OwnPlaced ==
  ASSUME Inv1, NEW w \in Writers, LocalStep(w), ~ AppendCommits(w)
  PROVE  Placed(w)'
<1>a. Domains /\ Len(stream) \in Nat /\ cur[w] \in Nat /\ last[w] \in Nat /\ loaded[w] \in Nat /\ at[w] \in Nat
  BY WriterFacts
<1>b. \A v \in 1..Len(stream) : stream[v].type \in EventTypes /\ stream[v].ttype \in TreeTypes
  BY WriterFacts
<1>c. /\ (stream = <<>> <=> Len(stream) = 0) /\ DOMAIN stream = 1..Len(stream)
      /\ store.projected \in Nat /\ snap.version \in Nat
      /\ shape[w] \in TreeTypes \cup {NoType} /\ NoType \notin TreeTypes
  BY WriterFacts
<1>d. Placed(w) /\ store.projected <= Len(stream)
  BY WriterFacts
<1>e. loaded[w] <= Len(stream) /\ (pc[w] = "replay" => at[w] <= loaded[w])
  BY <1>d DEF Placed
<1>f. stream' = stream
  BY Writes
<1> USE DEF Domains, Goto, streamVars, faultVars, buildVars, handleVars
<1>1. CASE Begin(w)
  <2> USE DEF Start, Body, Placed, Kind, Rejects, HandleSteps, SnapshotSteps, InsertSteps, RemovalSteps
  <2>1. Recorded = NoType => stream = <<>>
    BY <1>b, <1>c DEF Recorded
  <2> USE <2>1
  <2>2. CASE StartAddRoot(w)
    BY <1>a, <1>d, <2>2 DEF StartAddRoot
  <2>3. CASE StartPlace(w)
    BY <1>a, <1>d, <2>3 DEF StartPlace
  <2>4. CASE StartRemove(w)
    BY <1>a, <1>d, <2>4 DEF StartRemove
  <2>5. CASE StartLoad(w)
    BY <1>a, <1>d, <2>5 DEF StartLoad
  <2>6. CASE StartReject(w)
    BY <1>a, <1>c, <1>d, <2>6 DEF StartReject
  <2>7. QED BY <1>1, <2>2, <2>3, <2>4, <2>5, <2>6 DEF Begin
<1>2. CASE Forget(w)
  BY <1>a, <1>f, <1>2 DEF Forget, NoRequest, Placed, Kind, Rejects, HandleSteps, SnapshotSteps, InsertSteps, RemovalSteps
<1>3. CASE Lock(w)
  BY <1>a, <1>c, <1>d, <1>3
     DEF Lock, Placed, Kind, Rejects, HandleSteps, SnapshotSteps, InsertSteps, RemovalSteps
<1>4. CASE UnderLock(w)
  <2> USE <1>4
  <2>1. shape'[w] \in TreeTypes
    <3>1. CASE stream = <<>>
      BY <1>a, <1>d, <3>1 DEF UnderLock, SecondRead, Recorded, Placed
    <3>2. CASE stream # <<>>
      <4>1. Recorded \in TreeTypes
        BY <1>a, <1>b, <1>c, <3>2 DEF Recorded
      <4>2. QED BY <1>a, <1>c, <4>1 DEF UnderLock, SecondRead
    <3>3. QED BY <3>1, <3>2
  <2>2. pc'[w] \in {"rows", "unlock"}
    BY <1>a DEF UnderLock, Refuse
  <2>3. QED
    BY <1>d, <2>1, <2>2 DEF UnderLock, Placed, Kind, Rejects, HandleSteps, SnapshotSteps,
       InsertSteps, RemovalSteps
<1>5. CASE RejectReadProjected(w) \/ ReadRows(w)
  <2>1. Follows(w, pc'[w]) /\ pc'[w] # "replay" /\ loaded'[w] = store.projected
    BY <1>a, <1>5 DEF RejectReadProjected, ReadRows, Follows, Late
  <2>2. QED BY <1>5, <1>d, <2>1, MovePlaced DEF RejectReadProjected, ReadRows
<1>6. CASE UsableSnapshot(w) \/ SnapshotUnread(w)
  <2> USE <1>6
  <2>1. Follows(w, pc'[w]) /\ loaded' = loaded
    BY <1>a DEF UsableSnapshot, SnapshotUnread, Follows, Late
  <2>2. at'[w] <= loaded'[w]
    BY <1>a, <1>c, <2>1 DEF UsableSnapshot, SnapshotUnread, SnapshotUsable
  <2>3. QED BY <1>e, <2>1, <2>2, MovePlaced DEF UsableSnapshot, SnapshotUnread
<1>7. CASE Replay(w) \/ CheckMembership(w)
  <2> USE <1>7
  <2>1. Follows(w, pc'[w]) /\ loaded' = loaded
    BY <1>a DEF Replay, CheckMembership, BuildFails, Follows, Late
  <2>2. at'[w] <= loaded'[w]
    BY <1>a, <1>e, <2>1 DEF Replay, CheckMembership, BuildFails, Reached
  <2>3. QED BY <1>e, <2>1, <2>2, MovePlaced DEF Replay, CheckMembership
<1>8. ASSUME NEW v \in 1..Len(stream), NEW ph \in {"catchup", "project", "resume"}, Late(w),
             Handle(w, stream[v], v, ph), UNCHANGED <<stream, req, shape, loaded, at>>,
             last'[w] <= Len(stream)
      PROVE  Placed(w)'
  BY <1>a, <1>b, <1>d, <1>8
     DEF Handle, Late, Placed, Kind, Rejects, Ev, IsRejection, EventTypes, HandleSteps, SnapshotSteps,
         InsertSteps, RemovalSteps
<1>9. ASSUME Late(w), pc'[w] \in {"unlock", "rows", "append"}, pc'[w] = "append" => Kind(w) # "load",
             UNCHANGED <<stream, req, shape, loaded, at, cur, phase>>, last'[w] <= Len(stream)
      PROVE  Placed(w)'
  BY <1>d, <1>9 DEF Late, Placed, Kind, Rejects, HandleSteps, SnapshotSteps, InsertSteps, RemovalSteps
<1> USE <1>8, <1>9
<1>10. CASE RejectReadLast(w)
  <2>1. Len(stream) \in 1..Len(stream) /\ Late(w) /\ last'[w] = Len(stream)
        /\ UNCHANGED <<stream, req, shape, loaded, at>>
    BY <1>a, <1>c, <1>d, <1>10 DEF RejectReadLast, Placed, Late
  <2>2. \/ Handle(w, stream[Len(stream)], Len(stream), "resume")
        \/ UNCHANGED <<cur, phase>> /\ pc'[w] \in {"unlock", "rows"}
    BY <1>a, <1>10 DEF RejectReadLast, Refuse
  <2>3. QED BY <1>a, <2>1, <2>2
<1>11. CASE ReadLast(w)
  <2>1. Late(w) /\ last'[w] = Len(stream) /\ UNCHANGED <<stream, req, shape, loaded, at>>
    BY <1>a, <1>11 DEF ReadLast, Late
  <2>2. \/ Len(stream) # 0 /\ Handle(w, stream[Len(stream)], Len(stream), "catchup")
        \/ UNCHANGED <<cur, phase>> /\ pc'[w] = "unlock"
        \/ UNCHANGED <<cur, phase>> /\ pc'[w] = "append" /\ ~ (Kind(w) = "load" /\ Len(stream) = loaded[w]) /\ Len(stream) = 0
    BY <1>a, <1>11 DEF ReadLast, Refuse, Kind
  <2>3. Len(stream) = 0 => loaded[w] = 0
    BY <1>a, <1>e
  <2>4. QED BY <1>a, <2>1, <2>2, <2>3
<1>12. CASE ConfirmAppend(w)
  <2>1. Late(w) /\ UNCHANGED <<stream, req, shape, loaded, at, last>> /\ last[w] <= Len(stream)
    BY <1>d, <1>12 DEF ConfirmAppend, Late, appendFrame, Placed
  <2>2. \/ ~ (last[w] + 1 > Len(stream)) /\ Handle(w, stream[last[w] + 1], last[w] + 1, "project")
        \/ UNCHANGED <<cur, phase>> /\ pc'[w] = "unlock"
    BY <1>a, <1>12 DEF ConfirmAppend, Refuse
  <2>3. ~ (last[w] + 1 > Len(stream)) => last[w] + 1 \in 1..Len(stream)
    BY <1>a
  <2>4. QED BY <2>1, <2>2, <2>3
<1>13. CASE BuildFailed(w) \/ StuckRowStopsTheLoad(w)
  <2>1. Follows(w, pc'[w]) /\ pc'[w] # "replay" /\ loaded' = loaded
    BY <1>a, <1>d, <1>13 DEF BuildFailed, StuckRowStopsTheLoad, Refuse, Follows, Late, Placed, Kind, Rejects
  <2>2. QED BY <1>13, <1>e, <2>1, MovePlaced DEF BuildFailed, StuckRowStopsTheLoad
<1>14. CASE HandleEvent(w)
  <2>1. UNCHANGED <<stream, req, shape, last, cur, phase, loaded>> /\ pc[w] \in HandleSteps
    BY <1>14 DEF HandleEvent, ReadParent, InsertRow, CheckReplayedInsert, EngineAdd, ReconcileAdd, RemoveRow,
         RemovalReplyLost, RemovalRefused, ReconcileStamp, ReconcileUser, RejectRow, handleFrame, HandleSteps
  <2>2. \/ HandleDone(w) \/ \E why : HandleFails(w, why)
        \/ pc[w] \in {"parent"} \cup InsertSteps /\ \E l \in InsertSteps : Goto(w, l)
        \/ pc[w] \in RemovalSteps /\ \E l \in RemovalSteps : Goto(w, l)
    BY <1>14 DEF HandleEvent, ReadParent, InsertRow, CheckReplayedInsert, EngineAdd, ReconcileAdd, RemoveRow,
         RemovalReplyLost, RemovalRefused, ReconcileStamp, ReconcileUser, RejectRow, InsertSteps, RemovalSteps
  <2>3. Follows(w, pc'[w])
    BY <1>a, <2>1, <2>2, HandleFollows DEF Follows
  <2>4. pc'[w] # "replay"
    BY <1>a, <2>2 DEF HandleDone, HandleFails, Refuse, InsertSteps, RemovalSteps
  <2>5. QED BY <1>e, <2>1, <2>3, <2>4, MovePlaced
<1>15. CASE CheckRefuses(w) \/ AppendConflicts(w) \/ AppendUnanswered(w) \/ Observe(w) \/ SnapshotCheck(w)
            \/ SnapshotPut(w)
  <2>1. Follows(w, pc'[w]) /\ pc'[w] # "replay" /\ loaded' = loaded
    BY <1>a, <1>15 DEF CheckRefuses, AppendConflicts, AppendUnanswered, Observe, SnapshotCheck, SnapshotPut,
                       appendFrame, Refuse, Follows, Late
  <2>2. QED
    BY <1>15, <1>e, <2>1, MovePlaced DEF CheckRefuses, AppendConflicts, AppendUnanswered, Observe, SnapshotCheck,
                                         SnapshotPut, appendFrame
<1>16. CASE CallFails(w)
  <2>1. UNCHANGED <<stream, req, shape, last, cur, phase, loaded>>
    BY <1>16 DEF CallFails, appendFrame
  <2>2. (pc[w] \in HandleSteps /\ \E why : HandleFails(w, why)) \/ pc'[w] = "unlock"
    BY <1>a, <1>16 DEF CallFails, Refuse
  <2>3. Follows(w, pc'[w])
    BY <2>2, HandleFollows DEF Follows
  <2>4. pc'[w] # "replay"
    BY <1>a, <2>2 DEF HandleFails, Refuse, Goto, Domains
  <2>5. QED BY <1>e, <2>1, <2>3, <2>4, MovePlaced
<1>17. CASE LockTimeout(w) \/ Unlock(w) \/ Crash(w)
  BY <1>2, <1>17 DEF LockTimeout, Unlock, Crash
<1>18. QED
  BY <1>1, <1>3, <1>4, <1>5, <1>6, <1>7, <1>10, <1>11, <1>12, <1>13, <1>14, <1>15, <1>16, <1>17
     DEF LocalStep, Step, Prepare, Write

(* A step keeps the types of what the writers share. *)
LEMMA SharedTypes ==
  ASSUME Inv1, NEW w \in Writers, LocalStep(w)
  PROVE  /\ StoreOK(store') /\ store'.projected <= Len(stream')
         /\ snap'.version \in Nat /\ IsTree(snap'.tree)
         /\ holder' \in Writers \cup {NoWriter}
         /\ inflight' \subseteq [event : Events, after : Nat]
         /\ losses' \in Nat /\ strays' \in Nat
<1>1. StoreOK(store') /\ store'.projected <= Len(stream')
  <2>1. StoreOK(store) /\ Len(stream) \in Nat /\ Len(stream) <= Len(stream') /\ Len(stream') \in Nat
        /\ (~ AppendCommits(w) => stream' = stream)
    <3>0. StoreOK(store) /\ Len(stream) \in Nat
      BY DEF Inv1, TypeOK, StoreOK
    <3>1. CASE AppendCommits(w)
      <4>1. pc[w] = "append" /\ Extend(NewEvent(w))
        BY <3>1 DEF AppendCommits
      <4>2. TypeOK /\ NewEvent(w) \in Events /\ (NewEvent(w).type = "event_rejected" => stream # <<>>)
        BY <4>1, NewEventIsEvent DEF Inv1
      <4>3. Len(stream') = Len(stream) + 1
        BY <4>1, <4>2, ExtendGrows
      <4>4. QED BY <3>0, <3>1, <4>3
    <3>2. CASE ~ AppendCommits(w)
      BY <3>0, <3>2, Writes
    <3>3. QED BY <3>1, <3>2
  <2> USE <2>1
  <2>2. CASE store' = store
    BY <2>2 DEF Inv1, StoreOK
  <2>3. ASSUME pc[w] \in HandleSteps, ~ AppendCommits(w)
        PROVE  /\ cur[w] \in Nat /\ cur[w] <= Len(stream') /\ Ev(w) \in Events
               /\ Ev(w).body.id \in Nat /\ Ev(w).body \in Bodies
    <3>1. cur[w] \in 1..Len(stream) /\ cur[w] \in Nat
      BY <2>3, WriterFacts DEF Placed
    <3>2. Ev(w) \in Events
      BY <3>1, WriterFacts DEF Ev
    <3>3. QED BY <2>3, <3>1, <3>2 DEF Events, Bodies
  <2> USE <2>2, <2>3
  <2>4. CASE InsertRow(w)
    <3> DEFINE b == Ev(w).body
               n == [parent |-> b.parent, sponsor |-> b.sponsor, pos |-> b.pos,
                     depth |-> IF Ev(w).type = "root_added" THEN 0 ELSE depth[w]]
    <3>1. pc[w] = "insert" /\ ~ AppendCommits(w)
      BY <2>4 DEF InsertRow, AppendCommits
    <3>2. store' = store \/ store' = ProjectInsert(store, b.id, b.user, n, cur[w])
      BY <2>4 DEF InsertRow
    <3>3. Ev(w).type \in {"root_added", "node_placed"} /\ depth[w] \in Nat
      BY <3>1, WriterFacts DEF Placed, InsertSteps, Inv1, TypeOK
    <3>4. b \in Bodies /\ b.id \in Nat /\ b.user \in Users /\ cur[w] \in Nat /\ cur[w] <= Len(stream')
      BY <3>1, <3>3 DEF Events, HandleSteps
    <3> USE <3>4
    <3>5. n \in Node
      BY <3>3 DEF Bodies, Node
    <3> HIDE DEF b, n
    <3>6. CASE store' = ProjectInsert(store, b.id, b.user, n, cur[w])
      <4>1. StoreOK(store') /\ store'.projected = cur[w]
        BY <3>5, <3>6, InsertStoreOK
      <4>2. QED BY <4>1
    <3>7. QED BY <3>2, <3>6
  <2>5. CASE RemoveRow(w)
    <3> DEFINE b == Ev(w).body
               moved == Recruits(engine[w], b.user)
               to == engine[w][b.user].sponsor
    <3>1. pc[w] = "removal" /\ ~ AppendCommits(w) /\ Accepts(engine[w], Ev(w))
      BY <2>5 DEF RemoveRow, AppendCommits
    <3>2. \/ store' = store
          \/ /\ RemovalOutcome(store, b.user, moved, cur[w]) = "ok"
             /\ store' = ProjectRemoval(store, b.id, b.user, moved, to, cur[w])
      BY <2>5 DEF RemoveRow
    <3> USE <3>1
    <3>3. Ev(w).type = "node_removed"
      BY WriterFacts DEF Placed, RemovalSteps
    <3>4. b.id \in Nat /\ cur[w] \in Nat /\ cur[w] <= Len(stream')
      BY DEF HandleSteps
    <3>5. to \in Users \cup {NoUser}
      <4>1. b.user \in DOMAIN engine[w]
        BY <3>3 DEF Accepts, Refusal, CheckRemoveNode
      <4>2. IsTree(engine[w])
        BY DEF Inv1, TypeOK
      <4>3. QED BY <4>1, <4>2 DEF IsTree, Node
    <3>6. RemovalOutcome(store, b.user, moved, cur[w]) = "ok" => b.user \in DOMAIN store.active
      BY DEF RemovalOutcome
    <3> HIDE DEF b, moved, to
    <3>7. CASE b.user \in DOMAIN store.active /\ store' = ProjectRemoval(store, b.id, b.user, moved, to, cur[w])
      <4>1. StoreOK(store') /\ store'.projected = cur[w]
        BY <3>4, <3>5, <3>7, RemovalStoreOK
      <4>2. QED BY <3>4, <4>1
    <3>8. QED BY <3>2, <3>6, <3>7
  <2>6. CASE RejectRow(w)
    <3>1. pc[w] = "rejection" /\ ~ AppendCommits(w)
      BY <2>6 DEF RejectRow, AppendCommits
    <3>2. store' = store \/ store' = ProjectRejection(store, Ev(w).body.target, cur[w])
      BY <2>6 DEF RejectRow
    <3>3. Ev(w).body.target \in Nat /\ cur[w] \in Nat /\ cur[w] <= Len(stream')
      BY <3>1 DEF HandleSteps, Bodies
    <3>4. CASE store' = ProjectRejection(store, Ev(w).body.target, cur[w])
      <4>1. StoreOK(store') /\ store'.projected = cur[w]
        BY <3>3, <3>4, RejectionStoreOK
      <4>2. QED BY <3>3, <4>1
    <3>5. QED BY <3>2, <3>4
  <2>7. QED BY <2>4, <2>5, <2>6, Writes
<1>2. snap'.version \in Nat /\ IsTree(snap'.tree)
  <2>1. IsTree(engine[w]) /\ cur[w] \in Nat /\ snap.version \in Nat /\ IsTree(snap.tree)
    BY DEF Inv1, TypeOK
  <2>2. snap' = snap \/ snap' = NoSnap \/ snap' = [version |-> cur[w], tree |-> engine[w]]
    BY Writes DEF UsableSnapshot, Replay, CheckMembership, BuildFails, SnapshotPut, SnapshotOf
  <2>3. QED BY <2>1, <2>2, EmptyIsTree DEF NoSnap
<1>3. holder' \in Writers \cup {NoWriter}
  BY Writes DEF Lock, Unlock, Crash, Inv1, TypeOK
<1>4. inflight' \subseteq [event : Events, after : Nat]
  <2>1. CASE AppendUnanswered(w)
    <3>1. pc[w] = "append" /\ inflight' = inflight \cup {[event |-> NewEvent(w), after |-> last[w]]}
      BY <2>1 DEF AppendUnanswered
    <3>2. NewEvent(w) \in Events /\ last[w] \in Nat
      BY <3>1, NewEventIsEvent DEF Inv1, TypeOK
    <3>3. inflight \subseteq [event : Events, after : Nat]
      BY DEF Inv1, TypeOK
    <3>4. [event |-> NewEvent(w), after |-> last[w]] \in [event : Events, after : Nat]
      BY <3>2
    <3> QED BY <3>1, <3>3, <3>4
  <2>2. QED BY <2>1, Writes DEF Inv1, TypeOK
<1>5. QED BY <1>1, <1>2, <1>3, <1>4, Writes DEF Inv1, TypeOK

(* A step keeps the types of what the writers know. *)
LEMMA OwnTypes ==
  ASSUME Inv1, NEW w \in Writers, LocalStep(w)
  PROVE  /\ pc' \in [Writers -> Steps] /\ req' \in [Writers -> Requests]
         /\ shape' \in [Writers -> TreeTypes \cup {NoType}]
         /\ DOMAIN engine' = Writers /\ DOMAIN seen' = Writers /\ DOMAIN result' = Writers
         /\ \A x \in Writers : IsTree(engine'[x]) /\ AreRows(seen'[x])
         /\ loaded' \in [Writers -> Nat] /\ at' \in [Writers -> Nat] /\ base' \in [Writers -> Nat]
         /\ last' \in [Writers -> Nat] /\ cur' \in [Writers -> Nat] /\ depth' \in [Writers -> Nat]
         /\ phase' \in [Writers -> {"load", "catchup", "project", "resume"}]
<1>1. pc' \in [Writers -> Steps]
  <2>1. pc \in [Writers -> Steps]
    BY DEF Inv1, TypeOK
  <2>2. \A l \in Steps : Goto(w, l) => pc' \in [Writers -> Steps]
    BY <2>1 DEF Goto
  <2>3. pc' = pc \/ \E l \in Steps : Goto(w, l)
    <3> USE DEF Steps, PrepareSteps, HandleSteps, SnapshotSteps
    <3>1. CASE Begin(w)
      BY <3>1 DEF Begin, StartAddRoot, StartPlace, StartRemove, StartLoad, StartReject, Start
    <3>2. \A e, v, ph : Handle(w, e, v, ph) /\ e.type \in EventTypes => \E l \in Steps : Goto(w, l)
      BY DEF Handle, EventTypes
    <3>3. \A v \in 1..Len(stream) : stream[v].type \in EventTypes
      BY WriterFacts
    <3>4. CASE Lock(w) \/ LockTimeout(w) \/ UnderLock(w) \/ RejectReadProjected(w) \/ ReadRows(w)
               \/ UsableSnapshot(w) \/ SnapshotUnread(w) \/ Replay(w) \/ CheckMembership(w)
      BY <3>4 DEF Lock, LockTimeout, UnderLock, RejectReadProjected, ReadRows, UsableSnapshot, SnapshotUnread,
                  Replay, CheckMembership, BuildFails, Forget, Refuse
    <3> USE <3>2, <3>3
    <3>5. CASE RejectReadLast(w)
      <4>1. Len(stream) \in 1..Len(stream)
        BY <3>5, WriterFacts DEF Placed, RejectReadLast
      <4>2. QED BY <3>5, <4>1 DEF RejectReadLast, Refuse
    <3>6. CASE ReadLast(w)
      <4>1. Len(stream) = 0 \/ Len(stream) \in 1..Len(stream)
        BY WriterFacts
      <4>2. QED BY <3>6, <4>1 DEF ReadLast, Refuse
    <3>7. CASE BuildFailed(w) \/ StuckRowStopsTheLoad(w)
      BY <3>7 DEF BuildFailed, StuckRowStopsTheLoad, Refuse
    <3>8. HandleDone(w) => \E l \in Steps : Goto(w, l)
      BY DEF HandleDone, Refuse
    <3>9. \A why : HandleFails(w, why) => \E l \in Steps : Goto(w, l)
      BY DEF HandleFails, Refuse
    <3>10. CASE HandleEvent(w)
      BY <3>8, <3>9, <3>10 DEF HandleEvent, ReadParent, InsertRow, CheckReplayedInsert, EngineAdd, ReconcileAdd,
           RemoveRow, RemovalReplyLost, RemovalRefused, ReconcileStamp, ReconcileUser, RejectRow
    <3>11. CASE AppendCommits(w)
      <4>1. NewEvent(w).type \in EventTypes
        BY <3>11, NewEventIsEvent DEF AppendCommits, Events
      <4>2. QED BY <3>11, <4>1 DEF AppendCommits
    <3>12. CASE ConfirmAppend(w)
      <4>1. last[w] + 1 > Len(stream) \/ last[w] + 1 \in 1..Len(stream)
        BY WriterFacts
      <4>2. QED BY <3>12, <4>1 DEF ConfirmAppend, Refuse
    <3>13. CASE CheckRefuses(w) \/ AppendConflicts(w) \/ AppendUnanswered(w) \/ Observe(w) \/ SnapshotCheck(w)
                \/ SnapshotPut(w) \/ Unlock(w) \/ Crash(w)
      BY <3>13 DEF CheckRefuses, AppendConflicts, AppendUnanswered, Observe, SnapshotCheck, SnapshotPut,
                   Unlock, Crash, Forget, Refuse
    <3>14. CASE CallFails(w)
      BY <3>9, <3>14 DEF CallFails, Refuse
    <3>15. QED
      BY <3>1, <3>4, <3>5, <3>6, <3>7, <3>10, <3>11, <3>12, <3>13, <3>14 DEF LocalStep, Step, Prepare, Write
  <2>4. QED BY <2>1, <2>2, <2>3
<1>2. \A k, b, t : Start(w, k, b, t) /\ k # "load" => NewID \in Nat
  BY NewIDFresh DEF Start
<1>3. req' \in [Writers -> Requests]
  <2>1. req \in [Writers -> Requests]
    BY DEF Inv1, TypeOK
  <2> USE <2>1
  <2>2. CASE Begin(w)
    <3>1. \A k \in EventTypes \cup {"load"}, b \in Bodies, t \in TreeTypes \cup {NoType} :
            (k \notin {"event_rejected", "load"} => b.user \in Users) =>
               [kind |-> k, body |-> b, ttype |-> t] \in Requests
      BY DEF Requests
    <3>2. \A k \in EventTypes \cup {"load"}, b \in Bodies, t \in TreeTypes \cup {NoType} :
            (k \notin {"event_rejected", "load"} => b.user \in Users) /\ Start(w, k, b, t)
               => req' \in [Writers -> Requests]
      BY <3>1 DEF Start
    <3>3. \A u \in Users : NewID \in Nat =>
            /\ Body(NewID, u, NoUser, NoUser, NoPos, 0) \in Bodies
            /\ Body(NewID, u, NoUser, NoUser, NoPos, 0).user \in Users
      BY DEF Body, Bodies
    <3> USE <1>2, <3>2
    <3>4. CASE StartAddRoot(w)
      <4>1. PICK u \in Roots, t \in TreeTypes : Start(w, "root_added", Body(NewID, u, NoUser, NoUser, NoPos, 0), t)
        BY <3>4 DEF StartAddRoot
      <4>2. u \in Users /\ NewID \in Nat
        BY <4>1, ConstantsAssumption
      <4>3. QED BY <3>3, <4>1, <4>2 DEF EventTypes
    <3>5. CASE StartPlace(w)
      <4>1. PICK p \in FittingPlacements :
              Start(w, "node_placed", Body(NewID, p.user, p.parent, p.sponsor, p.pos, 0), NoType)
        BY <3>5 DEF StartPlace
      <4> DEFINE b == Body(NewID, p.user, p.parent, p.sponsor, p.pos, 0)
      <4>2. p \in Placements /\ NewID \in Nat
        BY <4>1 DEF FittingPlacements
      <4>3. b \in Bodies /\ b.user \in Users
        BY <4>2, ConstantsAssumption DEF Body, Bodies
      <4> HIDE DEF b
      <4>4. Start(w, "node_placed", b, NoType)
        BY <4>1 DEF b
      <4>5. QED BY <4>3, <4>4 DEF EventTypes
    <3>6. CASE StartRemove(w)
      <4>1. PICK u \in Users : Start(w, "node_removed", Body(NewID, u, NoUser, NoUser, NoPos, 0), NoType)
        BY <3>6 DEF StartRemove
      <4>2. QED BY <3>3, <4>1 DEF EventTypes
    <3>7. CASE StartLoad(w)
      <4>1. NoBody \in Bodies
        BY DEF NoBody, Body, Bodies
      <4>2. QED BY <3>7, <4>1 DEF StartLoad
    <3>8. CASE StartReject(w)
      <4>1. PICK v \in DOMAIN stream : Start(w, "event_rejected",
                                Body(NewID, NoUser, NoUser, NoUser, NoPos, stream[v].body.id), NoType)
        BY <3>8 DEF StartReject
      <4> DEFINE b == Body(NewID, NoUser, NoUser, NoUser, NoPos, stream[v].body.id)
      <4>2. stream[v].body.id \in Nat
        BY WriterFacts DEF Events, Bodies
      <4>3. b \in Bodies
        BY <4>1, <4>2 DEF Body, Bodies
      <4> HIDE DEF b
      <4>4. Start(w, "event_rejected", b, NoType)
        BY <4>1 DEF b
      <4>5. QED BY <4>3, <4>4 DEF EventTypes
    <3>9. QED BY <2>2, <3>4, <3>5, <3>6, <3>7, <3>8 DEF Begin
  <2>3. NoRequest \in Requests
    BY DEF NoRequest, NoBody, Body, Bodies, Requests
  <2>4. CASE Forget(w)
    BY <2>3, <2>4 DEF Forget
  <2>5. QED BY <2>2, <2>4, Writes
<1>4. shape' \in [Writers -> TreeTypes \cup {NoType}]
  <2>1. shape \in [Writers -> TreeTypes \cup {NoType}] /\ req[w].ttype \in TreeTypes \cup {NoType}
    BY DEF Inv1, TypeOK, Requests
  <2>2. Recorded \in TreeTypes \cup {NoType}
    BY WriterFacts DEF Recorded
  <2> USE <2>1
  <2>3. CASE Begin(w)
    BY <2>2, <2>3 DEF Begin, StartAddRoot, StartPlace, StartRemove, StartLoad, StartReject, Start
  <2>4. CASE UnderLock(w)
    BY <2>2, <2>4 DEF UnderLock, SecondRead
  <2>5. CASE Forget(w)
    BY <2>5 DEF Forget
  <2>6. QED BY <2>3, <2>4, <2>5, Writes
<1>5. loaded' \in [Writers -> Nat] /\ DOMAIN seen' = Writers /\ \A x \in Writers : AreRows(seen'[x])
  <2>1. /\ loaded \in [Writers -> Nat] /\ store.projected \in Nat /\ AreRows(store.active)
        /\ DOMAIN seen = Writers /\ \A x \in Writers : AreRows(seen[x])
    BY DEF Inv1, TypeOK
  <2>2. AreRows(EmptyStore.active)
    BY DEF AreRows, EmptyStore
  <2> USE <2>1
  <2>3. \A n \in Nat : loaded' = [loaded EXCEPT ![w] = n] => loaded' \in [Writers -> Nat]
    OBVIOUS
  <2>4. \A r : AreRows(r) /\ seen' = [seen EXCEPT ![w] = r]
                => DOMAIN seen' = Writers /\ \A x \in Writers : AreRows(seen'[x])
    OBVIOUS
  <2> USE <2>3
  <2>5. CASE ReadRows(w)
    BY <2>4, <2>5 DEF ReadRows
  <2>6. CASE RejectReadProjected(w)
    BY <2>6 DEF RejectReadProjected
  <2>7. CASE Forget(w)
    BY <2>2, <2>4, <2>7 DEF Forget
  <2>8. QED BY <2>5, <2>6, <2>7, Writes
<1>6. at' \in [Writers -> Nat] /\ base' \in [Writers -> Nat]
  <2>1. at \in [Writers -> Nat] /\ base \in [Writers -> Nat] /\ snap.version \in Nat
    BY DEF Inv1, TypeOK
  <2>2. \/ at' = at
        \/ \E n \in {0, snap.version, at[w] + 1} : at' = [at EXCEPT ![w] = n]
    BY Writes DEF UsableSnapshot, SnapshotUnread, Replay, Reached, CheckMembership, BuildFails, Forget, EngineAdd,
                  RemoveRow, RemovalReplyLost, handleFrame
  <2>3. \/ base' = base
        \/ \E n \in {0, snap.version} : base' = [base EXCEPT ![w] = n]
    BY Writes DEF UsableSnapshot, SnapshotUnread, Replay, CheckMembership, BuildFails, Forget, EngineAdd,
                  RemoveRow, RemovalReplyLost, handleFrame
  <2>4. QED BY <2>1, <2>2, <2>3
<1>7. DOMAIN engine' = Writers /\ \A x \in Writers : IsTree(engine'[x])
  <2>1. DOMAIN engine = Writers /\ IsTree(snap.tree) /\ \A x \in Writers : IsTree(engine[x])
    BY DEF Inv1, TypeOK
  <2>2. ASSUME NEW v \in 1..Len(stream), ~ IsRejection(v), Accepts(engine[w], stream[v])
        PROVE  IsTree(Apply(engine[w], stream[v]))
    BY <2>1, <2>2, WriterFacts, ApplyIsTree DEF IsRejection
  <2>3. Replay(w) => at[w] + 1 \in 1..Len(stream)
    <3>1. Replay(w) => at[w] < loaded[w]
      BY DEF Replay
    <3>2. at[w] \in Nat /\ loaded[w] \in Nat /\ loaded[w] <= Len(stream) /\ Len(stream) \in Nat
      BY WriterFacts DEF Placed
    <3>3. QED BY <3>1, <3>2
  <2>4. pc[w] \in {"engineAdd", "removal"} => cur[w] \in 1..Len(stream) /\ ~ IsRejection(cur[w])
    BY WriterFacts DEF Placed, HandleSteps, InsertSteps, RemovalSteps, Ev, IsRejection
  <2>5. \/ engine' = engine
        \/ engine' = [engine EXCEPT ![w] = engine[w]]
        \/ engine' = [engine EXCEPT ![w] = EmptyTree]
        \/ engine' = [engine EXCEPT ![w] = snap.tree]
        \/ \E v \in 1..Len(stream) : /\ ~ IsRejection(v) /\ Accepts(engine[w], stream[v])
                                     /\ engine' = [engine EXCEPT ![w] = Apply(engine[w], stream[v])]
    <3>1. CASE UsableSnapshot(w) \/ SnapshotUnread(w) \/ Forget(w) \/ CheckMembership(w)
      BY <3>1 DEF UsableSnapshot, SnapshotUnread, Forget, CheckMembership, BuildFails
    <3>2. CASE Replay(w)
      <4> USE <3>2
      <4>1. CASE Skipped(at[w] + 1, loaded[w])
        BY <4>1 DEF Replay
      <4>2. CASE ~ Skipped(at[w] + 1, loaded[w]) /\ Accepts(engine[w], stream[at[w] + 1])
        <5> USE <4>2
        <5>1. engine' = [engine EXCEPT ![w] = Apply(engine[w], stream[at[w] + 1])]
          BY DEF Replay
        <5>2. ~ IsRejection(at[w] + 1)
          BY DEF Skipped
        <5>3. QED BY <2>3, <5>1, <5>2
      <4>3. CASE BuildFails(w)
        BY <4>3 DEF BuildFails
      <4>4. QED BY <4>1, <4>2, <4>3 DEF Replay
    <3>3. CASE EngineAdd(w) \/ RemoveRow(w) \/ RemovalReplyLost(w)
      BY <2>4, <3>3 DEF EngineAdd, RemoveRow, RemovalReplyLost, Ev
    <3>4. QED BY <3>1, <3>2, <3>3, Writes
  <2>6. QED BY <2>1, <2>2, <2>5, EmptyIsTree
<1>8. /\ last' \in [Writers -> Nat] /\ cur' \in [Writers -> Nat] /\ depth' \in [Writers -> Nat]
      /\ phase' \in [Writers -> {"load", "catchup", "project", "resume"}]
  <2>1. /\ last \in [Writers -> Nat] /\ cur \in [Writers -> Nat] /\ depth \in [Writers -> Nat]
        /\ phase \in [Writers -> {"load", "catchup", "project", "resume"}]
        /\ Len(stream) \in Nat /\ Len(stream) + 1 \in Nat /\ last[w] + 1 \in Nat
    <3>1. /\ last \in [Writers -> Nat] /\ cur \in [Writers -> Nat] /\ depth \in [Writers -> Nat]
          /\ phase \in [Writers -> {"load", "catchup", "project", "resume"}] /\ stream \in Seq(Events)
      BY DEF Inv1, TypeOK
    <3>2. QED BY <3>1
  <2> USE <2>1
  <2>2. last' \in [Writers -> Nat]
    <3>1. last' = last \/ \E n \in Nat : last' = [last EXCEPT ![w] = n]
      BY Writes DEF ReadLast, RejectReadLast, Forget
    <3>2. QED BY <3>1
  <2>3. cur' \in [Writers -> Nat] /\ phase' \in [Writers -> {"load", "catchup", "project", "resume"}]
    <3> DEFINE Set(v, ph) == cur' = [cur EXCEPT ![w] = v] /\ phase' = [phase EXCEPT ![w] = ph]
    <3>1. ReadLast(w) => UNCHANGED <<cur, phase>> \/ Set(Len(stream), "catchup")
      BY DEF ReadLast, Handle, handleVars
    <3>2. RejectReadLast(w) => UNCHANGED <<cur, phase>> \/ Set(Len(stream), "resume")
      BY DEF RejectReadLast, Handle, handleVars
    <3>3. AppendCommits(w) => UNCHANGED <<cur, phase>> \/ Set(Len(stream) + 1, "project")
      BY DEF AppendCommits, Handle, handleVars
    <3>4. ConfirmAppend(w) => UNCHANGED <<cur, phase>> \/ Set(last[w] + 1, "project")
      BY DEF ConfirmAppend, Handle, handleVars
    <3>5. Forget(w) => Set(0, "load")
      BY DEF Forget
    <3>6. \A v \in Nat, ph \in {"load", "catchup", "project", "resume"} : Set(v, ph) =>
            cur' \in [Writers -> Nat] /\ phase' \in [Writers -> {"load", "catchup", "project", "resume"}]
      OBVIOUS
    <3> HIDE DEF Set
    <3>7. QED BY <3>1, <3>2, <3>3, <3>4, <3>5, <3>6, Writes
  <2>4. depth' \in [Writers -> Nat]
    <3>1. \A u \in DOMAIN store.active : store.active[u].node.depth + 1 \in Nat
      <4>1. AreRows(store.active)
        BY DEF Inv1, TypeOK
      <4>2. \A u \in DOMAIN store.active : store.active[u] \in Row
        BY <4>1 DEF AreRows
      <4>3. \A r \in Row : r.node.depth + 1 \in Nat
        BY DEF Row, Node
      <4>4. QED BY <4>2, <4>3
    <3>2. CASE ReadParent(w)
      BY <3>1, <3>2 DEF ReadParent
    <3>3. CASE Forget(w)
      BY <3>3 DEF Forget
    <3>4. QED BY <3>2, <3>3, Writes
  <2>5. QED BY <2>2, <2>3, <2>4
<1>9. DOMAIN result' = Writers
  <2>1. result' = result \/ \E r : result' = [result EXCEPT ![w] = r]
    <3> USE DEF Keep, Report
    <3>1. CASE Begin(w)
      BY <3>1 DEF Begin, StartAddRoot, StartPlace, StartRemove, StartLoad, StartReject, Start
    <3>2. CASE Prepare(w)
      BY <3>2 DEF Prepare, Lock, LockTimeout, UnderLock, RejectReadProjected, RejectReadLast, ReadRows, UsableSnapshot,
           SnapshotUnread, Replay, CheckMembership, ReadLast, BuildFailed, StuckRowStopsTheLoad, Refuse, Forget
    <3>3. CASE HandleEvent(w)
      BY <3>3 DEF HandleEvent, ReadParent, InsertRow, CheckReplayedInsert, EngineAdd, ReconcileAdd, RemoveRow,
           RemovalReplyLost, RemovalRefused, ReconcileStamp, ReconcileUser, RejectRow, HandleDone, HandleFails, Refuse
    <3>4. CASE Write(w) \/ CallFails(w) \/ Crash(w)
      BY <3>4 DEF Write, CheckRefuses, AppendCommits, AppendConflicts, AppendUnanswered, ConfirmAppend, Observe,
           SnapshotCheck, SnapshotPut, Unlock, CallFails, Crash, HandleFails, Refuse, Forget
    <3>5. QED BY <3>1, <3>2, <3>3, <3>4 DEF LocalStep, Step
  <2>2. QED BY <2>1 DEF Inv1, TypeOK
<1>10. QED BY <1>1, <1>3, <1>4, <1>5, <1>6, <1>7, <1>8, <1>9

(* The initial state. *)
LEMMA InitInv1 == Init => Inv1
<1> SUFFICES ASSUME Init PROVE Inv1
  OBVIOUS
<1> USE DEF Init
<1>1. stream \in Seq(Events) /\ Len(stream) = 0
  OBVIOUS
<1>2. trees = [i \in 1..(Len(stream) + 1) |-> trees[i]] /\ \A i \in 1..(Len(stream) + 1) : IsTree(trees[i])
  <2>1. trees = <<EmptyTree>>
    OBVIOUS
  <2>2. DOMAIN trees = 1..1 /\ trees[1] = EmptyTree
    BY <2>1
  <2>3. QED BY <1>1, <2>1, <2>2, EmptyIsTree
<1>3. AreRows(store.active) /\ store.tombs \in Seq(Tombstone) /\ store.projected = 0
  BY DEF EmptyStore, AreRows
<1>4. snap.version \in Nat /\ IsTree(snap.tree)
  BY EmptyIsTree
<1>5. NoRequest \in Requests
  BY DEF NoRequest, NoBody, Body, Bodies, Requests
<1>6. /\ pc \in [Writers -> Steps] /\ req \in [Writers -> Requests]
      /\ shape \in [Writers -> TreeTypes \cup {NoType}]
  BY <1>5 DEF Steps
<1>7. AreRows(EmptyStore.active)
  BY DEF EmptyStore, AreRows
<1>8. TypeOK
  BY <1>1, <1>2, <1>3, <1>4, <1>6, <1>7, EmptyIsTree DEF TypeOK
<1>9. \A w \in Writers : Placed(w)
  BY <1>1 DEF Placed, Kind, Rejects, NoRequest, HandleSteps, SnapshotSteps, InsertSteps, RemovalSteps
<1>10. store.projected <= Len(stream) /\ \A f \in inflight : f.event.type = "event_rejected" => stream # <<>>
  BY <1>1, <1>3
<1>11. QED BY <1>8, <1>9, <1>10 DEF Inv1

(* A command's own append: the event is at its version when it is projected. *)
LEMMA AppendPlaced ==
  ASSUME Inv1, NEW w \in Writers, AppendCommits(w)
  PROVE  Placed(w)'
<1>1. pc[w] = "append" /\ Extend(NewEvent(w)) /\ UNCHANGED <<req, shape, last, loaded, at>>
  BY DEF AppendCommits, appendFrame, buildVars
<1>2. NewEvent(w) \in Events /\ (NewEvent(w).type = "event_rejected" => stream # <<>>) /\ TypeOK
  BY <1>1, NewEventIsEvent DEF Inv1
<1>3. Len(stream') = Len(stream) + 1 /\ stream'[Len(stream) + 1] = NewEvent(w) /\ stream' # <<>>
  BY <1>1, <1>2, ExtendGrows DEF Extend
<1>4. /\ Domains /\ Placed(w) /\ Len(stream) \in Nat
      /\ last[w] \in Nat /\ loaded[w] \in Nat /\ NewEvent(w).type \in EventTypes
  BY <1>2, WriterFacts DEF Events
<1>5. last[w] <= Len(stream') /\ loaded[w] <= Len(stream') /\ Len(stream) + 1 \in 1..Len(stream')
  BY <1>3, <1>4 DEF Placed
<1>6. CASE Handle(w, NewEvent(w), Len(stream) + 1, "project")
  BY <1>1, <1>3, <1>4, <1>5, <1>6
     DEF Handle, Goto, Placed, Domains, Kind, Rejects, Ev, IsRejection, EventTypes, HandleSteps, SnapshotSteps,
         InsertSteps, RemovalSteps
<1>7. CASE Goto(w, "confirm")
  BY <1>1, <1>3, <1>4, <1>5, <1>7
     DEF Goto, Placed, Domains, Kind, Rejects, HandleSteps, SnapshotSteps, InsertSteps, RemovalSteps
<1>8. QED BY <1>6, <1>7 DEF AppendCommits

(* No step breaks Inv1. *)
LEMMA StepInv1 == Inv1 /\ [Next]_vars => Inv1'
<1> SUFFICES ASSUME Inv1, [Next]_vars PROVE Inv1'
  OBVIOUS
<1>1. CASE UNCHANGED vars
  <2> USE <1>1 DEF vars
  <2>1. TypeOK'
    BY DEF Inv1, TypeOK
  <2>2. \A w \in Writers : Placed(w)'
    BY DEF Inv1, Placed, Kind, Rejects, Ev, IsRejection
  <2>3. QED BY <2>1, <2>2 DEF Inv1
<1>2. CASE Next
  <2>1. /\ stream' \in Seq(Events) /\ Grows /\ Len(stream') \in Nat
        /\ trees' = [i \in 1..(Len(stream') + 1) |-> trees'[i]]
        /\ \A i \in 1..(Len(stream') + 1) : IsTree(trees'[i])
    <3>1. CASE UNCHANGED <<stream, trees>>
      BY <3>1 DEF Inv1, TypeOK, Grows
    <3>2. CASE \E e \in Events : Extend(e) /\ (e.type = "event_rejected" => stream # <<>>)
      <4>1. PICK e \in Events : Extend(e) /\ (e.type = "event_rejected" => stream # <<>>)
        BY <3>2
      <4>2. TypeOK
        BY DEF Inv1
      <4>3. Len(stream) \in Nat
        BY <4>2 DEF TypeOK
      <4>4. QED BY <4>1, <4>2, <4>3, ExtendGrows
    <3>3. QED BY <1>2, <3>1, <3>2, Growth
  <2> USE <2>1
  <2>2. stream # <<>> => stream' # <<>>
    BY DEF Inv1, TypeOK, Grows
  <2> USE <2>2
  <2>3. CASE \E w \in Writers : LocalStep(w)
    <3>1. PICK w \in Writers : LocalStep(w)
      BY <2>3
    <3> USE <3>1
    <3>2. TypeOK'
      BY SharedTypes, OwnTypes DEF TypeOK, StoreOK
    <3>3. store'.projected <= Len(stream')
      BY SharedTypes
    <3>4. \A f \in inflight' : f.event.type = "event_rejected" => stream' # <<>>
      <4>1. CASE AppendUnanswered(w)
        <5>1. pc[w] = "append" /\ inflight' = inflight \cup {[event |-> NewEvent(w), after |-> last[w]]}
          BY <4>1 DEF AppendUnanswered
        <5>2. QED BY <5>1, NewEventIsEvent DEF Inv1
      <4>2. QED BY <4>1, Writes DEF Inv1
    <3>5. \A x \in Writers : Placed(x)'
      <4>1. ASSUME NEW x \in Writers, x # w PROVE Placed(x)'
        BY <4>1, Locality, SamePlaced DEF Inv1
      <4>2. Placed(w)'
        BY OwnPlaced, AppendPlaced
      <4>3. QED BY <4>1, <4>2
    <3>6. QED BY <3>2, <3>3, <3>4, <3>5 DEF Inv1
  <2>4. CASE CommitLands \/ CommitFails \/ LoseLock \/ Stray
    <3>1. /\ UNCHANGED <<store, snap, pc, req, shape, loaded, seen, engine, at, base, last, cur, phase, depth, result>>
          /\ inflight' \subseteq inflight /\ holder' \in {holder, NoWriter}
          /\ losses' \in {losses, losses + 1} /\ strays' \in {strays, strays + 1}
      BY <2>4 DEF CommitLands, CommitFails, LoseLock, Stray, appendFrame, streamVars, faultVars, buildVars, handleVars
    <3> USE <3>1
    <3>3. TypeOK'
      <4>1. inflight' \subseteq [event : Events, after : Nat] /\ holder' \in Writers \cup {NoWriter}
        BY DEF Inv1, TypeOK
      <4>2. losses' \in Nat /\ strays' \in Nat
        BY DEF Inv1, TypeOK
      <4>3. QED BY <4>1, <4>2 DEF Inv1, TypeOK
    <3>4. \A x \in Writers : Placed(x)'
      <4>1. \A x \in Writers : Same(x)
        BY DEF Same
      <4>2. QED BY <4>1, SamePlaced DEF Inv1
    <3>5. store'.projected <= Len(stream')
      BY DEF Inv1, TypeOK, Grows
    <3>6. QED BY <3>3, <3>4, <3>5 DEF Inv1
  <2>5. QED BY <1>2, <2>3, <2>4 DEF Next, LocalStep
<1>3. QED BY <1>1, <1>2

(***************************************************************************)
(* TreeWriter is type correct: whatever commands run, fail and overtake    *)
(* each other, every variable keeps its type, the stream holds well-formed *)
(* events only and every tree it means is a tree.                          *)
(***************************************************************************)
THEOREM Invariance1 == Spec => []Inv1
  BY InitInv1, StepInv1, PTL DEF Spec

(* Every variable keeps its type, for any writers, users and bounds. *)
THEOREM TypeCorrect == Spec => []TypeOK
<1>1. Inv1 => TypeOK
  BY DEF Inv1
<1>2. QED BY <1>1, Invariance1, PTL

(***************************************************************************)
(* The projected version never goes back, for any number of writers, each  *)
(* of which may have lost its lock.                                        *)
(***************************************************************************)
THEOREM Advances == Spec => ProjectionAdvances
<1>1. Inv1 /\ [Next]_vars => [store'.projected >= store.projected]_vars
  BY StepAdvances
<1>2. QED BY <1>1, Invariance1, PTL DEF Spec, ProjectionAdvances

-----------------------------------------------------------------------------

(***************************************************************************)
(* Trees.                                                                  *)
(***************************************************************************)
(* Handing an event to an engine at the tree before it or at the tree      *)
(* after it leaves the engine at the tree after it.                        *)
LEMMA Arrives ==
  ASSUME NEW s, NEW tr, NEW v, Meaning(s, tr, v), s[v].type \in Mutations, NEW t \in {tr[v], tr[v + 1]}
  PROVE  IF Accepts(t, s[v]) THEN Apply(t, s[v]) = tr[v + 1] ELSE t = tr[v + 1]
<1>1. tr[v + 1] = IF Accepts(tr[v], s[v]) THEN Apply(tr[v], s[v]) ELSE tr[v]
  BY DEF Meaning, Mutations
<1>2. CASE Accepts(tr[v], s[v])
  <2>1. ~ Accepts(tr[v + 1], s[v])
    BY <1>1, <1>2, NotTwice
  <2>2. QED BY <1>1, <1>2, <2>1
<1>3. CASE ~ Accepts(tr[v], s[v])
  BY <1>1, <1>3
<1>4. QED BY <1>2, <1>3

(* An event appended where it applies, unchecked, or as a rejection keeps  *)
(* the meaning of the versions before it.                                  *)
LEMMA MeaningsExtend ==
  ASSUME Inv1, Named, Meanings, NEW e \in Events, Extend(e), e.type = "event_rejected" => stream # <<>>,
         ~ e.stray /\ e.type # "event_rejected" => Accepts(trees[Len(stream) + 1], e)
  PROVE  Meanings'
<1>1. TypeOK
  BY DEF Inv1
<1> USE <1>1
<1>2. /\ Grows /\ Len(stream') = Len(stream) + 1 /\ stream'[Len(stream) + 1] = e
      /\ trees'[Len(stream) + 2] = TreeAfter(e)
  BY ExtendGrows
<1>3. stream \in Seq(Events)
  BY DEF TypeOK
<1>4. Len(stream) \in Nat /\ (stream # <<>> => Len(stream) > 0)
  BY <1>3
<1> USE <1>4
<1>5. Len(trees) = Len(stream) + 1
  <2>1. trees = [i \in 1..(Len(stream) + 1) |-> trees[i]]
    BY DEF TypeOK
  <2>2. QED BY <2>1
<1> USE <1>2
<1>6. trees'[1] = EmptyTree
  BY DEF Grows, Meanings
<1>7. ASSUME NEW v \in 1..Len(stream)
      PROVE  Meaning(stream', trees', v) /\ Sound(stream', trees', v)
  <2>1. stream'[v] = stream[v] /\ trees'[v] = trees[v] /\ trees'[v + 1] = trees[v + 1]
    BY DEF Grows
  <2>2. Meaning(stream, trees, v) /\ Sound(stream, trees, v)
    BY DEF Meanings
  <2> USE <2>1, <2>2
  <2>3. Sound(stream', trees', v)
    BY DEF Sound
  <2>4. CASE stream[v].type = "event_rejected"
    <3>1. v - 1 \in 1..Len(stream)
      BY <2>4 DEF Named, IsRejection, Rejectable
    <3>2. trees'[v - 1] = trees[v - 1]
      BY <3>1 DEF Grows
    <3>3. QED BY <2>3, <2>4, <3>2 DEF Meaning
  <2>5. CASE stream[v].type # "event_rejected"
    BY <2>3, <2>5 DEF Meaning
  <2>6. QED BY <2>4, <2>5
<1>8. Meaning(stream', trees', Len(stream) + 1) /\ Sound(stream', trees', Len(stream) + 1)
  <2> DEFINE v == Len(stream) + 1
  <2>1. stream'[v] = e /\ trees'[v] = trees[v] /\ trees'[v + 1] = TreeAfter(e)
    <3>1. v \in 1..(Len(stream) + 1) /\ v + 1 = Len(stream) + 2
      OBVIOUS
    <3>2. QED BY <3>1 DEF Grows
  <2> USE <1>5
  <2>2. e.type = "event_rejected" => trees'[v - 1] = trees[v - 1] /\ v - 1 = Len(trees) - 1
    BY DEF Grows
  <2>3. v = Len(trees)
    OBVIOUS
  <2> HIDE DEF v
  <2>4. Sound(stream', trees', v)
    BY <2>1, <2>3 DEF Sound
  <2>5. Meaning(stream', trees', v)
    BY <2>1, <2>2, <2>3 DEF Meaning, TreeAfter
  <2>6. QED BY <2>4, <2>5 DEF v
<1>9. \A v \in 1..Len(stream') : v \in 1..Len(stream) \/ v = Len(stream) + 1
  OBVIOUS
<1>10. QED BY <1>6, <1>7, <1>8, <1>9 DEF Meanings

-----------------------------------------------------------------------------

(***************************************************************************)
(* The engine.                                                             *)
(***************************************************************************)
(* What the others do does not change the versions a writer works on. *)
LEMMA StableHolds ==
  ASSUME Inv1, Grows, Len(stream') \in Nat, store'.projected >= store.projected, store'.projected \in Nat,
         NEW x \in Writers, Same(x), Holds(x)
  PROVE  Holds(x)'
<1>1. /\ Placed(x) /\ Len(stream) \in Nat /\ cur[x] \in Nat /\ last[x] \in Nat /\ loaded[x] \in Nat
      /\ at[x] \in Nat /\ store.projected \in Nat
  BY WriterFacts
<1> USE <1>1
<1>2. \A v \in 1..Len(stream) : stream'[v] = stream[v] /\ trees'[v] = trees[v] /\ trees'[v + 1] = trees[v + 1]
  BY DEF Grows
<1>3. \A v \in Nat : v <= Len(stream) => trees'[v + 1] = trees[v + 1]
  BY DEF Grows
<1> USE <1>2
<1>4. pc[x] = "replay" => Undone(stream', at[x], loaded[x]) = Undone(stream, at[x], loaded[x])
  <2>1. pc[x] = "replay" => at[x] <= loaded[x] /\ loaded[x] <= Len(stream)
    BY DEF Placed
  <2>2. pc[x] = "replay" /\ at[x] < loaded[x] => at[x] + 1 \in 1..Len(stream)
    BY <2>1
  <2>3. pc[x] = "replay" /\ at[x] < loaded[x] => stream'[at[x] + 1] = stream[at[x] + 1]
    BY <2>2
  <2>4. QED BY <2>3 DEF Undone
<1>5. pc[x] = "replay" => /\ Undone(stream, at[x], loaded[x]) => trees'[at[x]] = trees[at[x]]
                          /\ trees'[at[x] + 1] = trees[at[x] + 1]
  <2>1. pc[x] = "replay" => at[x] <= Len(stream)
    BY DEF Placed
  <2>2. pc[x] = "replay" /\ 0 < at[x] => at[x] \in 1..Len(stream)
    BY <2>1
  <2>3. QED BY <1>3, <2>1, <2>2 DEF Undone
<1>6. Engaged(x)' = Engaged(x)
  BY DEF Same, Engaged, Rejects, Kind
<1>7. pc[x] \in HandleSteps \cup SnapshotSteps =>
         /\ stream'[cur[x]] = stream[cur[x]] /\ trees'[cur[x]] = trees[cur[x]]
         /\ trees'[cur[x] + 1] = trees[cur[x] + 1]
  BY DEF Placed
<1>8. trees'[loaded[x] + 1] = trees[loaded[x] + 1] /\ trees'[last[x] + 1] = trees[last[x] + 1]
  BY <1>3 DEF Placed
<1>9. cur[x] <= store.projected => cur[x] <= store'.projected
  OBVIOUS
<1>10. (pc[x] = "replay" => engine[x] = IF Undone(stream, at[x], loaded[x]) THEN trees[at[x]] ELSE trees[at[x] + 1])'
  BY <1>4, <1>5 DEF Holds, Same
<1>11. (Engaged(x) => /\ phase[x] = "catchup" => cur[x] = last[x]
                      /\ engine[x] \in {trees[cur[x]], trees[cur[x] + 1]}
                      /\ IsRejection(cur[x]) \/ pc[x] \in Reconciling => engine[x] = trees[cur[x] + 1])'
  BY <1>6, <1>7 DEF Holds, Same, Engaged, IsRejection
<1>12. (/\ pc[x] = "last" => engine[x] = trees[loaded[x] + 1]
        /\ pc[x] \in {"append", "confirm"} /\ ~ Rejects(x) => engine[x] = trees[last[x] + 1]
        /\ pc[x] \in SnapshotSteps => engine[x] = trees[cur[x] + 1]
        /\ pc[x] = "snapPut" => cur[x] <= store.projected)'
  BY <1>7, <1>8, <1>9 DEF Holds, Same, Rejects, Kind
<1>13. QED BY <1>10, <1>11, <1>12 DEF Holds

(* Steps at which the engine's tree does not matter. *)
FreeSteps == {"idle", "lock", "underLock", "rejectProjected", "rejectLast", "rows", "snapshot", "buildFailed",
              "stuckRow", "observe", "unlock"}

(* Nothing is asked of the engine there, nor of that of a reject-event     *)
(* about to append, whose event is no mutation.                            *)
LEMMA FreeHolds ==
  ASSUME NEW w \in Writers, pc'[w] \in FreeSteps \/ (pc'[w] = "append" /\ Rejects(w)')
  PROVE  Holds(w)'
  BY DEF FreeSteps, Holds, Engaged, HandleSteps, SnapshotSteps

(* Replaying the stream from the empty tree, or from a snapshot a          *)
(* rejection does not undo, builds the tree the stream means.              *)
LEMMA ReplayHolds ==
  ASSUME Inv, NEW w \in Writers, Replay(w)
  PROVE  Holds(w)'
<1>1. /\ Domains /\ Placed(w) /\ Len(stream) \in Nat /\ loaded[w] \in Nat /\ at[w] \in Nat
      /\ \A v \in 1..Len(stream) : stream[v].type \in EventTypes
  BY WriterFacts DEF Inv
<1> DEFINE v == at[w] + 1
<1>2. UNCHANGED <<stream, trees, loaded, phase, cur, last, req, store>> /\ pc[w] = "replay" /\ at[w] < loaded[w]
  BY DEF Replay, streamVars, handleVars
<1> USE <1>1, <1>2
<1>3. v \in 1..Len(stream) /\ v <= loaded[w] /\ v - 1 = at[w]
  BY DEF Placed
<1>4. engine[w] = IF Undone(stream, at[w], loaded[w]) THEN trees[at[w]] ELSE trees[v]
  BY DEF Inv, Inv4, Holds
<1> USE <1>3
<1>5. Meaning(stream, trees, v)
  BY DEF Inv, Inv4, Meanings
<1>6. \A i \in 1..Len(stream) : IsRejection(i) => i - 1 \in 1..Len(stream) /\ ~ IsRejection(i - 1)
  BY DEF Inv, Inv3, Named, Rejectable, IsRejection
<1> HIDE DEF v
<1>7. SUFFICES ASSUME pc'[w] = "replay"
               PROVE  engine'[w] = IF Undone(stream, at'[w], loaded[w]) THEN trees[at'[w]] ELSE trees[at'[w] + 1]
  <2>1. CASE pc'[w] = "replay"
    BY <1>7, <2>1 DEF Holds, Engaged, HandleSteps, SnapshotSteps
  <2>2. CASE pc'[w] # "replay"
    <3>1. pc'[w] = "buildFailed"
      BY <2>2 DEF Replay, BuildFails, Goto, Domains
    <3>2. QED BY <3>1, FreeHolds DEF FreeSteps
  <2>3. QED BY <2>1, <2>2
<1> USE <1>4
<1>8. CASE Skipped(v, loaded[w])
  <2>1. engine'[w] = engine[w] /\ at'[w] = v
    BY <1>8 DEF Replay, Reached, Domains, v
  <2>2. CASE IsRejection(v)
    <3> USE <2>2
    <3>1. at[w] > 0 /\ ~ IsRejection(at[w])
      BY <1>6
    <3>2. Undone(stream, at[w], loaded[w])
      BY <3>1 DEF Undone, IsRejection, v
    <3>3. engine[w] = trees[v + 1]
      BY <1>5, <3>2 DEF Meaning, IsRejection
    <3>4. ~ Undone(stream, v, loaded[w])
      <4>1. v < loaded[w] => v + 1 \in 1..Len(stream) /\ (v + 1) - 1 = v
        BY DEF Placed
      <4>2. QED BY <1>6, <4>1 DEF Undone, IsRejection
    <3>5. QED BY <2>1, <3>3, <3>4
  <2>3. CASE ~ IsRejection(v) /\ v < loaded[w] /\ IsRejection(v + 1)
    <3>1. engine[w] = trees[v]
      BY <2>3 DEF Undone, IsRejection, v
    <3>2. 0 < v
      OBVIOUS
    <3>3. QED BY <2>1, <2>3, <3>1, <3>2 DEF Undone, IsRejection
  <2>4. QED BY <1>8, <2>2, <2>3 DEF Skipped
<1>9. CASE ~ Skipped(v, loaded[w]) /\ Accepts(engine[w], stream[v])
  <2> USE <1>9
  <2>1. engine'[w] = Apply(engine[w], stream[v]) /\ at'[w] = v
    BY DEF Replay, Reached, Domains, v
  <2>2. engine[w] = trees[v]
    BY DEF Undone, Skipped, IsRejection, v
  <2>3. engine'[w] = trees[v + 1]
    BY <1>5, <2>1, <2>2 DEF Meaning, Skipped, IsRejection
  <2>4. ~ Undone(stream, v, loaded[w])
    BY DEF Undone, Skipped, IsRejection
  <2>5. QED BY <2>1, <2>3, <2>4
<1>10. CASE ~ Skipped(v, loaded[w]) /\ ~ Accepts(engine[w], stream[v])
  <2>1. engine'[w] = EmptyTree /\ at'[w] = 0
    BY <1>7, <1>10 DEF Replay, BuildFails, Goto, Domains, v
  <2>2. trees[0 + 1] = EmptyTree
    BY DEF Inv, Inv4, Meanings
  <2>3. QED BY <2>1, <2>2 DEF Undone
<1>11. QED BY <1>8, <1>9, <1>10

(* A load that has read its rows starts from what the stream means at the  *)
(* snapshot's version, or at none, and ends at the version of the rows.    *)
LEMMA BuildHolds ==
  ASSUME Inv, NEW w \in Writers, UsableSnapshot(w) \/ SnapshotUnread(w) \/ CheckMembership(w)
  PROVE  Holds(w)'
<1>1. Domains /\ Placed(w) /\ Len(stream) \in Nat /\ loaded[w] \in Nat /\ at[w] \in Nat /\ snap.version \in Nat
  BY WriterFacts DEF Inv
<1>2. UNCHANGED <<stream, trees, loaded, phase, cur, last, req, store>>
  BY DEF UsableSnapshot, SnapshotUnread, CheckMembership, streamVars, handleVars
<1>3. trees[0 + 1] = EmptyTree
  BY DEF Inv, Inv4, Meanings
<1> USE <1>2
<1>4. CASE pc'[w] = "replay" /\ engine'[w] = EmptyTree /\ at'[w] = 0
  <2>1. ~ Undone(stream, 0, loaded[w])
    BY DEF Undone
  <2>2. QED BY <1>3, <1>4, <2>1 DEF Holds, Engaged, HandleSteps, SnapshotSteps
<1> USE <1>1
<1>5. CASE UsableSnapshot(w) /\ snap.version > 0 /\ SnapshotUsable(loaded[w])
  <2> USE <1>5
  <2>1. pc'[w] = "replay" /\ engine'[w] = snap.tree /\ at'[w] = snap.version
    BY DEF UsableSnapshot, Goto, Domains
  <2>2. snap.tree = trees[snap.version + 1]
    BY DEF Inv, Inv4, Stored
  <2>3. ~ Undone(stream, snap.version, loaded[w])
    <3>1. SUFFICES ASSUME snap.version < loaded[w], IsRejection(snap.version + 1) PROVE FALSE
      BY DEF Undone, IsRejection
    <3> USE <3>1
    <3>2. snap.version + 1 \in 1..Len(stream) /\ (snap.version + 1) - 1 = snap.version
      BY DEF Placed
    <3>3. Rejectable(stream, snap.version, stream[snap.version + 1].body.target)
      BY <3>2 DEF Inv, Inv3, Named
    <3>4. NamesPrevious(snap.version + 1)
      BY <3>2, <3>3 DEF Rejectable, NamesPrevious, ID
    <3>5. QED BY <3>4 DEF SnapshotUsable
  <2>4. QED BY <2>1, <2>2, <2>3 DEF Holds, Engaged, HandleSteps, SnapshotSteps
<1> USE <1>4
<1>6. CASE UsableSnapshot(w) /\ ~ (snap.version > 0 /\ SnapshotUsable(loaded[w]))
  <2>1. pc'[w] = "replay" /\ engine'[w] = EmptyTree /\ at'[w] = 0
    BY <1>6 DEF UsableSnapshot, Goto, Domains
  <2>2. QED BY <2>1
<1>7. CASE SnapshotUnread(w)
  <2>1. pc'[w] = "replay" /\ engine'[w] = EmptyTree /\ at'[w] = 0
    BY <1>7 DEF SnapshotUnread, Goto, Domains
  <2>2. QED BY <2>1
<1>8. CASE CheckMembership(w) /\ MembersAgree(w)
  <2>1. pc[w] = "replay" /\ at[w] = loaded[w] /\ pc'[w] = "last" /\ engine'[w] = engine[w]
    BY <1>8 DEF CheckMembership, Goto, Domains
  <2> USE <2>1
  <2>2. ~ Undone(stream, at[w], loaded[w])
    BY DEF Undone
  <2>3. engine[w] = trees[loaded[w] + 1]
    BY <2>2 DEF Inv, Inv4, Holds
  <2>4. QED BY <2>3 DEF Holds, Engaged, HandleSteps, SnapshotSteps
<1>9. CASE CheckMembership(w) /\ ~ MembersAgree(w)
  <2>1. \/ pc'[w] = "replay" /\ engine'[w] = EmptyTree /\ at'[w] = 0
        \/ pc'[w] = "buildFailed"
    BY <1>9 DEF CheckMembership, BuildFails, Goto, Domains
  <2>2. QED BY <2>1, FreeHolds DEF FreeSteps
<1>10. QED BY <1>5, <1>6, <1>7, <1>8, <1>9

(* The last event is redelivered to an engine at it or one version before. *)
LEMMA ReadLastHolds ==
  ASSUME Inv, NEW w \in Writers, ReadLast(w)
  PROVE  Holds(w)'
<1> DEFINE v == Len(stream)
<1>1. /\ Domains /\ Placed(w) /\ v \in Nat /\ loaded[w] \in Nat
      /\ \A i \in 1..v : stream[i].type \in EventTypes
  BY WriterFacts DEF Inv
<1> USE <1>1
<1>2. UNCHANGED <<stream, trees, engine, req, store>> /\ pc[w] = "last" /\ last'[w] = v
  BY DEF ReadLast, streamVars, buildVars, Domains
<1> USE <1>2
<1>3. engine[w] = trees[loaded[w] + 1]
  BY DEF Inv, Inv4, Holds
<1> HIDE DEF v
<1>4. CASE pc'[w] = "unlock"
  BY <1>4, FreeHolds DEF FreeSteps
<1>5. CASE ~ StreamRefused(v, loaded[w]) /\ v = 0 /\ pc'[w] = "append"
  <2>1. loaded[w] = 0
    BY <1>5 DEF StreamRefused
  <2>2. QED BY <1>3, <1>5, <2>1 DEF Holds, Engaged, HandleSteps, SnapshotSteps
<1>6. CASE ~ StreamRefused(v, loaded[w]) /\ v # 0 /\ Handle(w, stream[v], v, "catchup")
  <2> USE <1>6
  <2>1. v \in 1..v
    OBVIOUS
  <2>2. pc'[w] \in {"insert", "parent", "removal", "rejection"} /\ cur'[w] = v /\ phase'[w] = "catchup"
    BY <2>1 DEF Handle, Goto, EventTypes, Domains
  <2>3. loaded[w] = v \/ (loaded[w] + 1 = v /\ ~ IsRejection(v))
    BY DEF StreamRefused, Pending
  <2>4. engine[w] \in {trees[v], trees[v + 1]} /\ (IsRejection(v) => engine[w] = trees[v + 1])
    BY <1>3, <2>3
  <2>5. QED BY <2>2, <2>4 DEF Holds, Engaged, SnapshotSteps, Reconciling, IsRejection
<1>7. QED
  BY <1>4, <1>5, <1>6 DEF ReadLast, Refuse, Goto, Domains, v

(* Preparing a command, up to the last event. *)
LEMMA PrepareHolds ==
  ASSUME Inv, NEW w \in Writers, Begin(w) \/ Prepare(w)
  PROVE  Holds(w)'
<1>1. Domains /\ Placed(w) /\ Len(stream) \in Nat /\ DOMAIN stream = 1..Len(stream)
      /\ \A i \in 1..Len(stream) : stream[i].type \in EventTypes
  BY WriterFacts DEF Inv
<1> USE <1>1 DEF Domains, Goto
<1>2. CASE Begin(w)
  <2>1. pc'[w] = "lock"
    BY <1>2 DEF Begin, StartAddRoot, StartPlace, StartRemove, StartLoad, StartReject, Start
  <2>2. QED BY <2>1, FreeHolds DEF FreeSteps
<1>3. CASE Lock(w) \/ LockTimeout(w) \/ UnderLock(w) \/ RejectReadProjected(w) \/ ReadRows(w)
  <2>1. pc'[w] \in FreeSteps
    BY <1>3 DEF Lock, LockTimeout, Forget, UnderLock, Refuse, RejectReadProjected, ReadRows, FreeSteps
  <2>2. QED BY <2>1, FreeHolds
<1>4. CASE BuildFailed(w) \/ StuckRowStopsTheLoad(w)
  <2>1. pc'[w] \in FreeSteps \/ (pc'[w] = "append" /\ Rejects(w)')
    BY <1>4 DEF BuildFailed, StuckRowStopsTheLoad, Refuse, FreeSteps, Placed, Rejects, Kind
  <2>2. QED BY <2>1, FreeHolds
<1>5. CASE RejectReadLast(w)
  <2>1. CASE pc'[w] \in {"rows", "unlock"}
    BY <2>1, FreeHolds DEF FreeSteps
  <2>2. CASE Handle(w, stream[Len(stream)], Len(stream), "resume")
    <3>1. stream # <<>>
      BY <1>5 DEF RejectReadLast, Placed
    <3>2. Len(stream) \in 1..Len(stream)
      BY <3>1, WriterFacts DEF Inv
    <3>3. pc'[w] \in {"insert", "parent", "removal", "rejection"} /\ phase'[w] = "resume"
      BY <2>2, <3>2 DEF Handle, EventTypes
    <3>4. QED BY <3>3 DEF Holds, Engaged, SnapshotSteps
  <2>3. QED BY <1>5, <2>1, <2>2 DEF RejectReadLast, Refuse
<1>6. QED BY <1>2, <1>3, <1>4, <1>5, BuildHolds, ReplayHolds, ReadLastHolds DEF Prepare

(* The end of a projection whose engine holds the tree of its version, and *)
(* any failure of one.                                                     *)
LEMMA EndHolds ==
  ASSUME Inv, NEW w \in Writers, pc[w] \in HandleSteps,
         UNCHANGED <<stream, trees, req, last, cur, phase>>,
         \/ HandleDone(w) /\ (Engaged(w) => engine'[w] = trees[cur[w] + 1])
         \/ \E why : HandleFails(w, why)
  PROVE  Holds(w)'
<1>1. Domains /\ Placed(w) /\ phase[w] \in {"load", "catchup", "project", "resume"}
  BY WriterFacts DEF Inv, Inv1, TypeOK
<1> USE <1>1 DEF Domains, Goto
<1>2. CASE \E why : HandleFails(w, why)
  <2>1. pc'[w] \in FreeSteps \/ (pc'[w] = "append" /\ Rejects(w)')
    BY <1>2 DEF HandleFails, Refuse, FreeSteps, Rejects, Kind
  <2>2. QED BY <2>1, FreeHolds
<1>3. CASE HandleDone(w) /\ (Engaged(w) => engine'[w] = trees[cur[w] + 1])
  <2>1. \/ pc'[w] = "unlock"
        \/ pc'[w] = "snapCheck" /\ phase[w] = "project" /\ ~ Rejects(w)
        \/ pc'[w] = "append" /\ phase[w] = "catchup"
    BY <1>3 DEF HandleDone, Refuse, Placed, Rejects, Kind
  <2>2. CASE pc'[w] = "unlock"
    BY <2>2, FreeHolds DEF FreeSteps
  <2>3. CASE pc'[w] = "snapCheck" /\ phase[w] = "project" /\ ~ Rejects(w)
    BY <1>3, <2>3 DEF Holds, Engaged, HandleSteps, SnapshotSteps
  <2>4. CASE pc'[w] = "append" /\ phase[w] = "catchup"
    <3>1. Engaged(w) /\ cur[w] = last[w]
      BY <2>4 DEF Engaged, Inv, Inv4, Holds
    <3>2. QED BY <1>3, <2>4, <3>1 DEF Holds, Engaged, HandleSteps, SnapshotSteps
  <2>5. QED BY <2>1, <2>2, <2>3, <2>4
<1>4. QED BY <1>2, <1>3

(* A step inside a projection. *)
LEMMA InsideHolds ==
  ASSUME Inv, NEW w \in Writers, pc[w] \in HandleSteps, pc'[w] \in HandleSteps,
         UNCHANGED <<stream, trees, req, last, cur, phase>>,
         Engaged(w) => engine'[w] = trees[cur[w] + 1] \/ (engine'[w] = engine[w] /\ pc'[w] \notin Reconciling)
  PROVE  Holds(w)'
<1>1. Engaged(w)' = Engaged(w)
  BY DEF Engaged, Rejects, Kind
<1>2. pc'[w] \notin {"replay", "last", "append", "confirm", "snapPut"} \cup SnapshotSteps
  BY DEF HandleSteps, SnapshotSteps
<1>3. Engaged(w) => /\ phase[w] = "catchup" => cur[w] = last[w]
                    /\ engine[w] \in {trees[cur[w]], trees[cur[w] + 1]}
                    /\ IsRejection(cur[w]) => engine[w] = trees[cur[w] + 1]
  BY DEF Inv, Inv4, Holds
<1>4. QED BY <1>1, <1>2, <1>3 DEF Holds, IsRejection

(* The projection of an event leaves the engine at the event's version. *)
LEMMA HandleHolds ==
  ASSUME Inv, NEW w \in Writers, HandleEvent(w)
  PROVE  Holds(w)'
<1>1. Domains /\ Placed(w)
  BY WriterFacts DEF Inv
<1>2. pc[w] \in HandleSteps /\ UNCHANGED <<stream, trees, req, last, cur, phase>>
  BY DEF HandleEvent, ReadParent, InsertRow, CheckReplayedInsert, EngineAdd, ReconcileAdd, RemoveRow,
     RemovalReplyLost, RemovalRefused, ReconcileStamp, ReconcileUser, RejectRow, handleFrame, HandleSteps, streamVars
<1> USE <1>1, <1>2
<1>3. Meaning(stream, trees, cur[w])
  BY DEF Placed, Inv, Inv4, Meanings
<1>4. Engaged(w) => engine[w] \in {trees[cur[w]], trees[cur[w] + 1]}
  BY DEF Inv, Inv4, Holds
<1>5. pc[w] \in InsertSteps \cup RemovalSteps => Ev(w).type \in Mutations
  BY DEF Placed, Mutations
<1>6. pc[w] \in InsertSteps \cup RemovalSteps /\ Engaged(w) =>
         IF Accepts(engine[w], Ev(w)) THEN Apply(engine[w], Ev(w)) = trees[cur[w] + 1]
         ELSE engine[w] = trees[cur[w] + 1]
  BY <1>3, <1>4, <1>5, Arrives DEF Ev
<1>7. Engaged(w) /\ (pc[w] = "rejection" \/ pc[w] \in Reconciling) => engine[w] = trees[cur[w] + 1]
  BY DEF Placed, Inv, Inv4, Holds
<1>8. "ok" \notin Exists
  BY DEF Exists
<1> USE DEF Domains, Goto
<1>9. CASE ReadParent(w) \/ InsertRow(w) \/ CheckReplayedInsert(w)
  <2>1. engine' = engine
    BY <1>9 DEF ReadParent, InsertRow, CheckReplayedInsert
  <2>2. pc'[w] \in {"insert", "engineAdd", "replayed"} \/ \E why : HandleFails(w, why)
    BY <1>9 DEF ReadParent, InsertRow, CheckReplayedInsert
  <2>3. CASE pc'[w] \in {"insert", "engineAdd", "replayed"}
    <3>1. pc'[w] \in HandleSteps /\ pc'[w] \notin Reconciling
      BY <2>3 DEF HandleSteps, Reconciling
    <3>2. QED BY <2>1, <3>1, InsideHolds
  <2>4. QED BY <2>2, <2>3, EndHolds
<1> USE <1>6
<1>10. CASE EngineAdd(w)
  <2> USE <1>10
  <2>1. pc[w] \in InsertSteps
    BY DEF EngineAdd, InsertSteps
  <2>2. CASE Accepts(engine[w], Ev(w))
    <3>1. engine'[w] = Apply(engine[w], Ev(w)) /\ (HandleDone(w) \/ pc'[w] = "reconcileAdd")
      BY <1>8, <2>2 DEF EngineAdd, Accepts
    <3>2. Engaged(w) => engine'[w] = trees[cur[w] + 1]
      BY <2>1, <2>2, <3>1
    <3>3. pc'[w] = "reconcileAdd" => pc'[w] \in HandleSteps
      BY DEF HandleSteps
    <3>4. QED BY <3>1, <3>2, <3>3, EndHolds, InsideHolds
  <2>3. CASE ~ Accepts(engine[w], Ev(w))
    <3>1. engine' = engine /\ (pc'[w] = "reconcileAdd" \/ \E why : HandleFails(w, why))
      BY <2>3 DEF EngineAdd
    <3>2. Engaged(w) => engine'[w] = trees[cur[w] + 1]
      BY <2>1, <2>3, <3>1
    <3>3. pc'[w] = "reconcileAdd" => pc'[w] \in HandleSteps
      BY DEF HandleSteps
    <3>4. QED BY <3>1, <3>2, <3>3, EndHolds, InsideHolds
  <2>4. QED BY <2>2, <2>3
<1>11. CASE RemoveRow(w) \/ RemovalReplyLost(w)
  <2>1. /\ pc[w] \in RemovalSteps /\ Accepts(engine[w], Ev(w)) /\ engine'[w] = Apply(engine[w], Ev(w))
        /\ HandleDone(w) \/ (\E why : HandleFails(w, why)) \/ pc'[w] = "reconcileStamp"
    BY <1>11 DEF RemoveRow, RemovalReplyLost, RemovalSteps
  <2>2. Engaged(w) => engine'[w] = trees[cur[w] + 1]
    BY <2>1
  <2>3. pc'[w] = "reconcileStamp" => pc'[w] \in HandleSteps
    BY DEF HandleSteps
  <2>4. QED BY <2>1, <2>2, <2>3, EndHolds, InsideHolds
<1>12. CASE RemovalRefused(w)
  <2>1. /\ pc[w] \in RemovalSteps /\ ~ Accepts(engine[w], Ev(w)) /\ engine' = engine
        /\ (\E why : HandleFails(w, why)) \/ pc'[w] = "reconcileStamp"
    BY <1>12 DEF RemovalRefused, RemovalSteps, Accepts
  <2>2. Engaged(w) => engine'[w] = trees[cur[w] + 1]
    BY <2>1
  <2>3. pc'[w] = "reconcileStamp" => pc'[w] \in HandleSteps
    BY DEF HandleSteps
  <2>4. QED BY <2>1, <2>2, <2>3, EndHolds, InsideHolds
<1>13. CASE ReconcileAdd(w) \/ ReconcileStamp(w) \/ ReconcileUser(w) \/ RejectRow(w)
  <2>1. /\ pc[w] = "rejection" \/ pc[w] \in Reconciling
        /\ engine' = engine
        /\ HandleDone(w) \/ (\E why : HandleFails(w, why)) \/ pc'[w] = "reconcileUser"
    BY <1>13 DEF ReconcileAdd, ReconcileStamp, ReconcileUser, RejectRow, Reconciling
  <2>2. Engaged(w) => engine'[w] = trees[cur[w] + 1]
    BY <1>7, <2>1
  <2>3. pc'[w] = "reconcileUser" => pc'[w] \in HandleSteps
    BY DEF HandleSteps
  <2>4. QED BY <2>1, <2>2, <2>3, EndHolds, InsideHolds
<1>14. QED BY <1>9, <1>10, <1>11, <1>12, <1>13 DEF HandleEvent

(* After the append, a writer's engine is at the version before its event  *)
(* until the event is projected.                                           *)
LEMMA WriteHolds ==
  ASSUME Inv, NEW w \in Writers, (Write(w) /\ ~ AppendCommits(w)) \/ CallFails(w) \/ Crash(w)
  PROVE  Holds(w)'
<1>1. /\ Domains /\ Placed(w) /\ Len(stream) \in Nat /\ last[w] \in Nat /\ cur[w] \in Nat
      /\ store.projected \in Nat /\ \A i \in 1..Len(stream) : stream[i].type \in EventTypes
  BY WriterFacts DEF Inv
<1>2. Holds(w)
  BY DEF Inv, Inv4
<1> USE <1>1 DEF Domains, Goto
<1>3. CASE CheckRefuses(w) \/ AppendConflicts(w) \/ Observe(w) \/ SnapshotPut(w) \/ Unlock(w) \/ Crash(w)
  <2>1. pc'[w] \in FreeSteps
    BY <1>3 DEF CheckRefuses, AppendConflicts, Observe, SnapshotPut, Unlock, Crash, Forget, Refuse, FreeSteps
  <2>2. QED BY <2>1, FreeHolds
<1>4. CASE AppendUnanswered(w)
  <2>1. pc[w] = "append" /\ pc'[w] = "confirm" /\ UNCHANGED <<trees, engine, last, req>>
    BY <1>4 DEF AppendUnanswered, appendFrame, buildVars, streamVars
  <2>2. QED BY <1>2, <2>1 DEF Holds, Engaged, HandleSteps, SnapshotSteps, Rejects, Kind
<1>5. CASE SnapshotCheck(w)
  <2>1. pc[w] = "snapCheck" /\ UNCHANGED <<trees, engine, cur, store>>
    BY <1>5 DEF SnapshotCheck, appendFrame, buildVars, streamVars, handleVars
  <2>2. pc'[w] = "unlock" \/ (pc'[w] = "snapPut" /\ store.projected = cur[w])
    BY <1>5 DEF SnapshotCheck
  <2>3. CASE pc'[w] = "snapPut" /\ store.projected = cur[w]
    BY <1>2, <2>1, <2>3 DEF Holds, Engaged, HandleSteps, SnapshotSteps
  <2>4. QED BY <2>2, <2>3, FreeHolds DEF FreeSteps
<1>6. CASE ConfirmAppend(w)
  <2> DEFINE v == last[w] + 1
  <2>1. pc[w] = "confirm" /\ UNCHANGED <<stream, trees, engine, req>>
    BY <1>6 DEF ConfirmAppend, appendFrame, buildVars, streamVars
  <2>2. CASE pc'[w] = "unlock"
    BY <2>2, FreeHolds DEF FreeSteps
  <2>3. CASE v <= Len(stream) /\ IsOwnEvent(w, v) /\ Handle(w, stream[v], v, "project")
    <3>1. v \in 1..Len(stream)
      BY <2>3
    <3>2. pc'[w] \in {"insert", "parent", "removal", "rejection"} /\ cur'[w] = v /\ phase'[w] = "project"
      BY <2>3, <3>1 DEF Handle, EventTypes
    <3>3. stream[v].type = Kind(w)
      BY <2>1, <2>3, <3>1 DEF Inv, Inv2, OwnID, IsOwnEvent, ID
    <3>4. ~ Rejects(w) => engine[w] = trees[v]
      BY <1>2, <2>1 DEF Holds
    <3> HIDE DEF v
    <3>5. QED
      BY <2>1, <3>2, <3>3, <3>4 DEF Holds, Engaged, SnapshotSteps, Reconciling, IsRejection, Rejects, Kind
  <2>4. QED BY <1>6, <2>2, <2>3 DEF ConfirmAppend, Refuse
<1>7. CASE CallFails(w)
  <2>1. UNCHANGED <<stream, trees, req, last, cur, phase>>
    BY <1>7 DEF CallFails, appendFrame, streamVars, handleVars
  <2>2. pc'[w] = "unlock" \/ (pc[w] \in HandleSteps /\ HandleFails(w, "callFailed"))
    BY <1>7 DEF CallFails, Refuse
  <2>3. QED BY <2>1, <2>2, FreeHolds, EndHolds DEF FreeSteps
<1>8. QED BY <1>3, <1>4, <1>5, <1>6, <1>7 DEF Write

(* The append leaves the engine one version behind its event. *)
LEMMA AppendHolds ==
  ASSUME Inv, NEW w \in Writers, AppendCommits(w)
  PROVE  Holds(w)'
<1>1. Domains /\ Placed(w) /\ Len(stream) \in Nat /\ last[w] \in Nat /\ TypeOK
  BY WriterFacts DEF Inv, Inv1
<1>2. /\ pc[w] = "append" /\ Len(stream) = last[w] /\ Extend(NewEvent(w))
      /\ UNCHANGED <<engine, last, req>>
  BY DEF AppendCommits, AtExpectedVersion, appendFrame, buildVars
<1> USE <1>2
<1>3. NewEvent(w) \in Events /\ (NewEvent(w).type = "event_rejected" => stream # <<>>)
  BY NewEventIsEvent DEF Inv
<1> USE <1>1
<1>4. Grows /\ stream'[Len(stream) + 1] = NewEvent(w)
  BY <1>3, ExtendGrows
<1>5. trees'[last[w] + 1] = trees[last[w] + 1]
  BY <1>4 DEF Grows
<1>6. ~ Rejects(w) => engine'[w] = trees'[last[w] + 1]
  BY <1>5 DEF Inv, Inv4, Holds
<1>7. NewEvent(w).type = Kind(w) /\ NewEvent(w).type \in EventTypes
  BY <1>3 DEF NewEvent, Kind, Events
<1>8. CASE pc'[w] = "confirm"
  BY <1>6, <1>8 DEF Holds, Engaged, HandleSteps, SnapshotSteps, Rejects, Kind
<1>9. CASE Handle(w, NewEvent(w), Len(stream) + 1, "project")
  <2>1. pc'[w] \in {"insert", "parent", "removal", "rejection"} /\ cur'[w] = last[w] + 1 /\ phase'[w] = "project"
    BY <1>7, <1>9 DEF Handle, Goto, EventTypes, Domains
  <2> USE <2>1
  <2>2. stream'[cur'[w]].type = Kind(w)
    BY <1>4, <1>7
  <2>3. ~ Rejects(w) => engine'[w] = trees'[cur'[w]] /\ stream'[cur'[w]].type # "event_rejected"
    BY <1>6, <2>2 DEF Rejects
  <2>4. Rejects(w)' = Rejects(w)
    BY DEF Rejects, Kind
  <2>5. QED BY <2>3, <2>4 DEF Holds, Engaged, SnapshotSteps, Reconciling, IsRejection
<1>10. QED BY <1>8, <1>9 DEF AppendCommits, Goto, Domains

(* The tree of a stored or undecided version stays what it was. *)
LEMMA SharedStays ==
  ASSUME Inv, Grows, Len(stream) \in Nat, Len(stream') \in Nat,
         store'.projected \in Nat, store'.projected >= store.projected
  PROVE  /\ \A f \in inflight : f.event.type # "event_rejected" =>
                f.after <= Len(stream') /\ Accepts(trees'[f.after + 1], f.event)
         /\ snap.version <= store'.projected /\ snap.tree = trees'[snap.version + 1]
<1>1. store.projected \in Nat /\ snap.version \in Nat /\ store.projected <= Len(stream)
  BY DEF Inv, Inv1, TypeOK
<1>2. \A f \in inflight : f.after \in Nat
  BY DEF Inv, Inv1, TypeOK
<1>3. \A v \in Nat : v <= Len(stream) => v <= Len(stream') /\ trees'[v + 1] = trees[v + 1]
  BY DEF Grows
<1>4. snap.version <= store.projected /\ snap.tree = trees[snap.version + 1]
  BY DEF Inv, Inv4, Stored
<1>5. snap.version <= store'.projected /\ snap.tree = trees'[snap.version + 1]
  BY <1>1, <1>3, <1>4
<1>6. QED BY <1>2, <1>3, <1>5 DEF Inv, Inv4, Undecided

(* A writer's step keeps the invariant. *)
LEMMA LocalInv4 ==
  ASSUME Inv, NEW w \in Writers, LocalStep(w), TypeOK'
  PROVE  Inv4'
<1>1. Domains /\ cur[w] \in Nat /\ TypeOK /\ Inv1 /\ Named /\ Holds(w) /\ Meanings /\ Placed(w) /\ last[w] \in Nat
  BY WriterFacts DEF Inv, Inv1, Inv3, Inv4
<1>2. [Next]_vars
  BY DEF Next, LocalStep
<1> USE <1>1
<1>3. Grows /\ Len(stream') \in Nat /\ Len(stream) \in Nat
  BY <1>2, StepGrows
<1>4. store'.projected >= store.projected
  BY <1>2, StepAdvances
<1>5. store'.projected \in Nat /\ store.projected \in Nat
  BY DEF TypeOK
<1> USE <1>5
<1>6. /\ \A f \in inflight : f.event.type # "event_rejected" =>
             f.after <= Len(stream') /\ Accepts(trees'[f.after + 1], f.event)
      /\ snap.version <= store'.projected /\ snap.tree = trees'[snap.version + 1]
  BY <1>3, <1>4, SharedStays
<1>7. Meanings'
  <2>1. CASE AppendCommits(w)
    <3>1. pc[w] = "append" /\ Checked(w) /\ Len(stream) = last[w] /\ Extend(NewEvent(w))
      BY <2>1 DEF AppendCommits, AtExpectedVersion
    <3> USE <3>1
    <3>2. NewEvent(w) \in Events /\ (NewEvent(w).type = "event_rejected" => stream # <<>>)
      BY NewEventIsEvent
    <3>3. NewEvent(w).type # "event_rejected" => Accepts(trees[Len(stream) + 1], NewEvent(w))
      <4>1. NewEvent(w).type = Kind(w)
        BY DEF NewEvent, Kind
      <4>2. QED BY <4>1 DEF Holds, Checked, Rejects, Kind
    <3>4. QED BY <3>2, <3>3, MeaningsExtend
  <2>2. CASE UNCHANGED <<stream, trees>>
    BY <2>2 DEF Meanings
  <2>3. QED BY <2>1, <2>2, Writes
<1> USE <1>6
<1>8. Undecided'
  <2>1. CASE AppendUnanswered(w)
    <3> DEFINE g == [event |-> NewEvent(w), after |-> last[w]]
    <3>1. pc[w] = "append" /\ Checked(w) /\ inflight' = inflight \cup {g} /\ UNCHANGED <<stream, trees>>
      BY <2>1 DEF AppendUnanswered, streamVars
    <3>2. g.event = NewEvent(w) /\ g.event.type = Kind(w) /\ g.after = last[w]
      BY DEF NewEvent, Kind
    <3> HIDE DEF g
    <3> USE <3>1
    <3>3. g.event.type # "event_rejected" => Accepts(trees[g.after + 1], g.event)
      BY <3>2 DEF Holds, Checked, Rejects, Kind
    <3>4. g.after <= Len(stream')
      BY <3>2 DEF Placed
    <3>5. QED BY <3>3, <3>4 DEF Undecided
  <2>2. CASE inflight' = inflight
    BY <2>2 DEF Undecided
  <2>3. QED BY <2>1, <2>2, Writes
<1>9. Stored'
  <2>1. CASE snap' = snap
    BY <2>1 DEF Stored
  <2>2. CASE snap' = NoSnap
    <3>1. trees'[0 + 1] = EmptyTree
      BY <1>7 DEF Meanings
    <3>2. snap'.version = 0 /\ snap'.tree = EmptyTree
      BY <2>2 DEF NoSnap
    <3>3. QED BY <3>1, <3>2 DEF Stored
  <2>3. CASE SnapshotPut(w) /\ snap' = SnapshotOf(w)
    <3>1. pc[w] = "snapPut" /\ UNCHANGED <<trees, store>>
      BY <2>3 DEF SnapshotPut, streamVars
    <3>2. snap'.version = cur[w] /\ snap'.tree = engine[w]
      BY <2>3 DEF SnapshotOf
    <3>3. QED BY <3>1, <3>2 DEF Stored, Holds, SnapshotSteps
  <2>4. CASE UsableSnapshot(w) \/ Replay(w) \/ CheckMembership(w) \/ SnapshotPut(w)
    BY <2>1, <2>2, <2>3, <2>4 DEF UsableSnapshot, Replay, CheckMembership, BuildFails, SnapshotPut
  <2>5. QED BY <2>1, <2>4, Writes
<1>10. Holds(w)'
  BY PrepareHolds, HandleHolds, WriteHolds, AppendHolds DEF LocalStep, Step
<1>11. ASSUME NEW x \in Writers, x # w PROVE Holds(x)'
  <2>1. Same(x) /\ Holds(x)
    BY <1>11, Locality DEF Inv, Inv4
  <2>2. QED BY <1>3, <1>4, <2>1, StableHolds
<1>12. QED BY <1>7, <1>8, <1>9, <1>10, <1>11 DEF Inv4

(* Every step keeps the invariant. *)
LEMMA StepInv4 == Inv /\ [Next]_vars => Inv4'
<1> SUFFICES ASSUME Inv, [Next]_vars PROVE Inv4'
  OBVIOUS
<1>1. Inv1 /\ TypeOK /\ Named /\ Meanings /\ Undecided
  BY DEF Inv, Inv1, Inv3, Inv4
<1> USE <1>1
<1>2. Inv1'
  BY StepInv1
<1>3. TypeOK'
  BY <1>2 DEF Inv1
<1>4. CASE \E w \in Writers : LocalStep(w)
  BY <1>3, <1>4, LocalInv4
<1>5. CASE UNCHANGED vars
  BY <1>5 DEF vars, Inv, Inv4, Meanings, Undecided, Stored, Holds, Engaged, Rejects, Kind, IsRejection
<1>6. CASE CommitLands \/ CommitFails \/ LoseLock \/ Stray
  <2>1. Grows /\ Len(stream') \in Nat /\ Len(stream) \in Nat /\ store'.projected >= store.projected
    BY StepGrows, StepAdvances
  <2>2. store'.projected \in Nat
    BY <1>3 DEF TypeOK
  <2>3. /\ UNCHANGED <<snap, store, pc, req, shape, loaded, seen, engine, at, base, last, cur, phase, depth>>
        /\ inflight' \subseteq inflight
    BY <1>6 DEF CommitLands, CommitFails, LoseLock, Stray, appendFrame, buildVars, handleVars
  <2>4. Undecided' /\ Stored'
    BY <2>1, <2>2, <2>3, SharedStays DEF Undecided, Stored
  <2>5. ASSUME NEW x \in Writers PROVE Holds(x)'
    <3>1. Same(x) /\ Holds(x)
      BY <2>3 DEF Same, Inv, Inv4
    <3>2. QED BY <2>1, <2>2, <3>1, StableHolds
  <2>6. Meanings'
    <3>1. CASE CommitLands
      <4>1. PICK f \in inflight : f.after = Len(stream) /\ Extend(f.event)
        BY <3>1 DEF CommitLands
      <4> USE <4>1
      <4>2. f.event \in Events
        BY DEF TypeOK
      <4>3. f.event.type = "event_rejected" => stream # <<>>
        BY DEF Inv1
      <4>4. f.event.type # "event_rejected" => Accepts(trees[Len(stream) + 1], f.event)
        BY DEF Undecided
      <4>5. QED BY <4>2, <4>3, <4>4, MeaningsExtend
    <3>2. CASE Stray
      <4>1. PICK e \in Unchecked : Extend(e)
        BY <3>2 DEF Stray
      <4> USE <4>1
      <4>2. e.stray
        BY DEF Unchecked
      <4>3. stream \in Seq(Events)
        BY DEF TypeOK
      <4>4. stream' # stream
        BY <4>3 DEF Extend
      <4>5. PICK d \in Events : Extend(d) /\ (d.type = "event_rejected" => stream # <<>>)
        BY <3>2, <4>4, Growth DEF Next
      <4>6. d = e
        <5>1. \A c : Extend(c) => stream'[Len(stream) + 1] = c
          BY <4>3 DEF Extend
        <5>2. QED BY <4>5, <5>1
      <4>7. QED BY <4>2, <4>5, <4>6, MeaningsExtend
    <3>3. CASE UNCHANGED <<stream, trees>>
      BY <3>3 DEF Meanings
    <3>4. QED BY <1>6, <3>1, <3>2, <3>3 DEF CommitFails, LoseLock, streamVars
  <2>7. QED BY <2>4, <2>5, <2>6 DEF Inv4
<1>7. QED BY <1>4, <1>5, <1>6 DEF Next, LocalStep

(* At the start the only tree is the empty one. *)
LEMMA InitInv4 == Init => Inv4
<1> SUFFICES ASSUME Init PROVE Inv4
  OBVIOUS
<1>1. Len(stream) = 0 /\ inflight = {} /\ 1..Len(stream) = {} /\ trees[1] = EmptyTree
  BY DEF Init
<1>2. snap.version = 0 /\ snap.tree = EmptyTree /\ store.projected = 0 /\ trees[0 + 1] = EmptyTree
  BY <1>1 DEF Init, EmptyStore
<1>3. \A w \in Writers : Holds(w)
  BY DEF Init, Holds, Engaged, HandleSteps, SnapshotSteps
<1>4. QED BY <1>1, <1>2, <1>3 DEF Inv4, Meanings, Undecided, Stored

=============================================================================
