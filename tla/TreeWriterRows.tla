--------------------------- MODULE TreeWriterRows ---------------------------
(***************************************************************************)
(* An event is in the stream at most once, what a command appends applies, *)
(* a snapshot is the tree of its version, what commands report is true, a  *)
(* stream has one tree type, the table follows the stream, never more than *)
(* one redelivery behind it, and only an event the tree refuses is rejected: *)
(* so the write path implements TreeLedger.  For any number of writers,    *)
(* users and events, lost locks, failed calls, crashes, late commits and   *)
(* unchecked events.                                                       *)
(***************************************************************************)
EXTENDS TreeWriterProofs, TreeWriterReports, TreeWriterKnowledge, TreeWriterLedger

USE Untyped

-----------------------------------------------------------------------------

(***************************************************************************)
(* The invariant of the table.                                             *)
(***************************************************************************)
(* A root is asked for without a parent, a sponsor or a position. *)
LEMMA StepPlain ==
  ASSUME Inv, Inv7, Next
  PROVE  /\ \A f \in inflight' : PlainRoot(f.event.type, f.event.body)
         /\ \A w \in Writers : PlainRoot(Kind(w)', req'[w].body)
<1>1. TypeOK /\ Domains
  BY DEF Inv, Inv1, TypeOK, Domains
<1>2. \A w \in Writers : PlainRoot(Kind(w), req[w].body)
  BY DEF Inv7, Plain
<1>3. \A f \in inflight : PlainRoot(f.event.type, f.event.body)
  BY DEF Inv7, Plain
<1> USE <1>2, <1>3
<1>4. CASE CommitLands \/ CommitFails \/ LoseLock \/ Stray
  <2>1. inflight' \subseteq inflight /\ req' = req
    BY <1>4 DEF CommitLands, CommitFails, LoseLock, Stray, appendFrame
  <2>2. QED BY <2>1 DEF Kind
<1>5. ASSUME NEW w \in Writers, LocalStep(w)
      PROVE  /\ \A f \in inflight' : PlainRoot(f.event.type, f.event.body)
             /\ \A x \in Writers : PlainRoot(Kind(x)', req'[x].body)
  <2>1. CASE AppendUnanswered(w)
    <3>1. inflight' = inflight \cup {[event |-> NewEvent(w), after |-> last[w]]} /\ req' = req
      BY <2>1 DEF AppendUnanswered, appendFrame
    <3>2. NewEvent(w).type = Kind(w) /\ NewEvent(w).body = req[w].body
      BY DEF NewEvent, Kind
    <3>3. QED BY <3>1, <3>2 DEF Kind
  <2> USE <1>5
  <2>2. CASE inflight' = inflight
    <3> USE <1>1
    <3>1. PlainRoot(Kind(w)', req'[w].body)
      <4>1. CASE req' = req
        BY <4>1 DEF Kind
      <4>2. CASE Forget(w)
        BY <4>2 DEF Forget, NoRequest, Kind, PlainRoot, Domains
      <4>3. CASE Begin(w)
        <5>1. \A k, b, t : Start(w, k, b, t) => Kind(w)' = k /\ req'[w].body = b
          BY DEF Start, Kind, Domains
        <5>2. CASE StartAddRoot(w)
          <6>1. \E u : req'[w].body = Body(NewID, u, NoUser, NoUser, NoPos, 0)
            BY <5>1, <5>2 DEF StartAddRoot
          <6>2. QED BY <6>1 DEF Body, PlainRoot
        <5>3. CASE StartPlace(w) \/ StartRemove(w) \/ StartLoad(w) \/ StartReject(w)
          BY <5>1, <5>3 DEF StartPlace, StartRemove, StartLoad, StartReject, PlainRoot
        <5>4. QED BY <4>3, <5>2, <5>3 DEF Begin
      <4>4. QED BY <4>1, <4>2, <4>3, Writes
    <3>2. ASSUME NEW x \in Writers, x # w PROVE PlainRoot(Kind(x)', req'[x].body)
      <4>1. req'[x] = req[x]
        BY <3>2, Locality DEF Same
      <4>2. QED BY <4>1 DEF Kind
    <3>3. QED BY <2>2, <3>1, <3>2
  <2>3. QED BY <2>1, <2>2, Writes
<1>6. QED BY <1>4, <1>5 DEF Next, LocalStep

(* Where the undecided appends are aimed. *)
LEMMA StepAimed ==
  ASSUME Inv, Inv7, Next, Grows, Len(stream) \in Nat, Len(stream') \in Nat,
         store'.projected \in Nat, store'.projected >= store.projected
  PROVE  \A f \in inflight' : Aimed(f)'
<1> DEFINE Then(f) == IF f.event.type = "event_rejected"
                      THEN f.after = Len(stream') => Refutable(stream', trees', store'.projected, f.after)
                      ELSE f.after <= store'.projected
<1>1. \A f : Aimed(f)' <=> Then(f)
  BY DEF Aimed
<1>2. \A f \in inflight : Then(f)
  BY <1>1, AimedStays
<1> SUFFICES \A f \in inflight' : Then(f)
  BY <1>1
<1>3. CASE CommitLands \/ CommitFails \/ LoseLock \/ Stray
  <2>1. inflight' \subseteq inflight
    BY <1>3 DEF CommitLands, CommitFails, LoseLock, Stray
  <2>2. QED BY <1>2, <2>1
<1>4. ASSUME NEW w \in Writers, LocalStep(w) PROVE \A f \in inflight' : Then(f)
  <2>1. CASE AppendUnanswered(w)
    <3> DEFINE g == [event |-> NewEvent(w), after |-> last[w]]
    <3>1. /\ pc[w] = "append" /\ UNCHANGED <<stream, trees, store>> /\ inflight' = inflight \cup {g}
      BY <2>1 DEF AppendUnanswered, appendFrame, streamVars
    <3>2. g.event.type = Kind(w) /\ g.after = last[w]
      BY DEF NewEvent, Kind
    <3>3. Aiming(w)
      BY DEF Inv7
    <3>4. IF Kind(w) = "event_rejected"
          THEN last[w] = Len(stream) => Refutable(stream, trees, store.projected, last[w])
          ELSE last[w] <= store.projected
      BY <3>1, <3>3 DEF Aiming, Rejects
    <3> HIDE DEF g
    <3>5. Then(g)
      BY <3>1, <3>2, <3>4
    <3>6. QED BY <1>2, <3>1, <3>5
  <2>2. CASE inflight' = inflight
    BY <1>2, <2>2
  <2>3. QED BY <1>4, <2>1, <2>2, Writes
<1>5. QED BY <1>3, <1>4 DEF Next, LocalStep

(* The stored snapshot is of a version that left nothing to take back. *)
LEMMA StepSnap ==
  ASSUME Inv, Inv7, Next, Grows, Len(stream) \in Nat
  PROVE  Clean(stream', trees', snap'.version)
<1>1. /\ snap.version \in 0..Len(stream) /\ Clean(stream, trees, snap.version)
  <2>1. /\ snap.version \in Nat /\ snap.version <= store.projected /\ store.projected \in Nat
        /\ store.projected <= Len(stream)
    BY TableFacts DEF Inv, Inv1, TypeOK, Inv4, Stored
  <2>2. QED BY <2>1 DEF Inv7
<1>2. Clean(stream', trees', snap.version)
  BY <1>1, CleanStays
<1>3. Clean(stream', trees', 0)
  BY DEF Clean
<1>4. CASE CommitLands \/ CommitFails \/ LoseLock \/ Stray
  <2>1. snap' = snap
    BY <1>4 DEF CommitLands, CommitFails, LoseLock, Stray, appendFrame
  <2>2. QED BY <1>2, <2>1
<1>5. ASSUME NEW w \in Writers, LocalStep(w) PROVE Clean(stream', trees', snap'.version)
  <2>1. CASE UsableSnapshot(w) \/ Replay(w) \/ CheckMembership(w)
    <3>1. snap' \in {snap, NoSnap}
      BY <2>1 DEF UsableSnapshot, Replay, CheckMembership, BuildFails
    <3>2. QED BY <1>2, <1>3, <3>1 DEF NoSnap
  <2>2. CASE SnapshotPut(w)
    <3>1. pc[w] = "snapPut" /\ snap' \in {snap, SnapshotOf(w)}
      BY <2>2 DEF SnapshotPut
    <3>2. cur[w] \in 1..Len(stream) /\ Clean(stream, trees, cur[w])
      BY <3>1, WriterFacts DEF Inv, Inv1, Placed, Inv7, Handling, SnapshotSteps
    <3>3. cur[w] \in 0..Len(stream)
      BY <3>2
    <3>4. Clean(stream', trees', cur[w])
      BY <3>2, <3>3, CleanStays
    <3>5. QED BY <1>2, <3>1, <3>4 DEF SnapshotOf
  <2>3. CASE snap' = snap
    BY <1>2, <2>3
  <2>4. QED BY <1>5, <2>1, <2>2, <2>3, Writes
<1>6. QED BY <1>4, <1>5 DEF Next, LocalStep

(* The stream and the table. *)
LEMMA StepTable ==
  ASSUME Inv, Inv7, Next, Grows, Len(stream) \in Nat
  PROVE  /\ \A v \in 1..Len(stream') : PlainRoot(stream'[v].type, stream'[v].body)
         /\ Justified'
         /\ \A v \in 1..(Len(stream') + 1) : Fit(trees'[v])
         /\ Table(stream', trees', store') /\ Behind(stream', trees', store'.projected)
<1>1. Inv1 /\ store.projected \in 0..Len(stream)
  BY TableFacts DEF Inv
<1>2. CASE stream' # stream
  <2>1. store' = store
    BY <1>2, Lands
  <2>2. Table(stream', trees', store)
    BY <1>1, TableStays DEF Inv7
  <2>3. QED BY <1>2, <2>1, <2>2, Landed
<1>3. CASE stream' = stream
  <2>1. trees' = trees
    <3>1. ~ \E e \in Events : Extend(e)
      <4>1. stream \in Seq(Events)
        BY <1>1 DEF Inv1, TypeOK
      <4>2. \A e \in Events : Len(Append(stream, e)) = Len(stream) + 1
        BY <4>1
      <4>3. QED BY <1>3, <4>2 DEF Extend
    <3>2. QED BY <1>1, <3>1, Growth
  <2>2. Table(stream, trees, store') /\ Behind(stream, trees, store'.projected)
    <3>1. CASE CommitLands \/ CommitFails \/ LoseLock \/ Stray
      <4>1. store' = store
        BY <3>1 DEF CommitLands, CommitFails, LoseLock, Stray, appendFrame
      <4>2. QED BY <4>1 DEF Inv7
    <3>2. ASSUME NEW w \in Writers, LocalStep(w)
          PROVE  Table(stream, trees, store') /\ Behind(stream, trees, store'.projected)
      BY <3>2, StoreInStep
    <3>3. QED BY <3>1, <3>2 DEF Next, LocalStep
  <2>3. Justified'
    BY <1>3, <2>1 DEF Inv7, Justified, IsRejection
  <2>4. QED BY <1>3, <2>1, <2>2, <2>3 DEF Inv7, Plain
<1>4. QED BY <1>2, <1>3

(* No step breaks what the table and the stream are to each other. *)
LEMMA StepInv7 == Inv /\ Inv5 /\ Inv7 /\ [Next]_vars /\ Inv1' => Inv7'
<1> SUFFICES ASSUME Inv, Inv5, Inv7, [Next]_vars, Inv1' PROVE Inv7'
  OBVIOUS
<1>1. CASE UNCHANGED vars
  <2>1. UNCHANGED <<stream, trees, store, snap, inflight, pc, req, loaded, seen, engine, at, last, cur, phase, depth>>
    BY <1>1 DEF vars
  <2> USE <2>1
  <2>2. Plain' /\ Justified'
    BY DEF Inv7, Plain, Justified, IsRejection, Kind
  <2>3. \A f \in inflight' : Aimed(f)'
    BY DEF Inv7, Aimed
  <2>4. ASSUME NEW w \in Writers PROVE Loading(w)' /\ Handling(w)' /\ Aiming(w)'
    <3>1. Loading(w)'
      BY DEF Inv7, Loading, Rejects, Kind
    <3>2. Handling(w)'
      BY DEF Inv7, Handling, Rejects, Kind, Ev
    <3>3. Aiming(w)'
      BY DEF Inv7, Aiming, Rejects, Kind
    <3>4. QED BY <3>1, <3>2, <3>3
  <2>5. QED BY <2>2, <2>3, <2>4 DEF Inv7
<1>2. CASE Next
  <2>1. Inv1 /\ Inv1' /\ TypeOK
    BY DEF Inv, Inv1
  <2>2. /\ Len(stream) \in Nat /\ Len(stream') \in Nat /\ Grows
        /\ store.projected \in Nat /\ store'.projected \in Nat /\ store'.projected >= store.projected
    BY <2>1, StepGrows, StepAdvances DEF Inv1, TypeOK
  <2> USE <1>2, <2>2
  <2>3. /\ \A v \in 1..Len(stream') : PlainRoot(stream'[v].type, stream'[v].body)
        /\ Justified'
        /\ \A v \in 1..(Len(stream') + 1) : Fit(trees'[v])
        /\ Table(stream', trees', store') /\ Behind(stream', trees', store'.projected)
    BY StepTable
  <2>4. Plain'
    BY <2>3, StepPlain DEF Plain
  <2>5. \A f \in inflight' : Aimed(f)'
    BY StepAimed
  <2>6. Clean(stream', trees', snap'.version)
    BY StepSnap
  <2>7. ASSUME NEW x \in Writers PROVE Loading(x)' /\ Handling(x)' /\ Aiming(x)'
    <3>1. CASE LocalStep(x)
      BY <3>1, OwnLoading, OwnHandling, OwnAiming
    <3>2. CASE Same(x)
      <4>1. Around(x)
        BY <3>2 DEF Around
      <4>2. QED BY <4>1, OthersLoading, OthersHandling, OthersAiming
    <3>3. ASSUME NEW w \in Writers, LocalStep(w), w # x PROVE Same(x)
      BY <2>1, <3>3, Locality
    <3>4. CASE CommitLands \/ CommitFails \/ LoseLock \/ Stray
      <4>1. Same(x)
        BY <3>4 DEF CommitLands, CommitFails, LoseLock, Stray, appendFrame, handleVars, buildVars, Same
      <4>2. QED BY <3>2, <4>1
    <3>5. QED BY <3>1, <3>2, <3>3, <3>4 DEF Next, LocalStep
  <2>8. QED BY <2>3, <2>4, <2>5, <2>6, <2>7 DEF Inv7
<1>3. QED BY <1>1, <1>2

(* At the start the table is empty, and so is the stream. *)
LEMMA InitInv7 == Init => Inv7
<1> SUFFICES ASSUME Init PROVE Inv7
  OBVIOUS
<1>1. stream = <<>> /\ trees = <<EmptyTree>> /\ store = EmptyStore /\ snap.version = 0 /\ inflight = {}
  BY DEF Init
<1>2. \A w \in Writers : pc[w] = "idle" /\ Kind(w) = "load" /\ loaded[w] = 0
  BY DEF Init, Kind, NoRequest
<1> USE <1>1
<1>3. Len(stream) = 0 /\ store.projected = 0 /\ store.tombs = <<>> /\ DOMAIN store.active = {} /\ trees[1] = EmptyTree
  BY DEF EmptyStore
<1> USE <1>3
<1>4. Plain /\ Justified
  BY <1>2 DEF Plain, Justified, PlainRoot
<1>5. \A v \in 1..(Len(stream) + 1) : Fit(trees[v])
  <2>1. \A v \in 1..(Len(stream) + 1) : v = 1
    OBVIOUS
  <2>2. QED BY <2>1, FitEmpty
<1>6. Clean(stream, trees, 0)
  BY DEF Clean
<1>7. Table(stream, trees, store)
  <2>1. View(store.active) = EmptyTree
    BY DEF View, EmptyTree
  <2>2. Rows(stream, trees, store)
    BY <1>6, <2>1 DEF Rows
  <2>3. Marked(stream, store)
    BY DEF Marked
  <2>4. Sourced(stream, trees, store)
    <3>1. DOMAIN store.tombs = {}
      OBVIOUS
    <3>2. QED BY <3>1 DEF Sourced
  <2>5. Cleared(stream, trees, store.projected)
    <3>1. 1..(store.projected - 1) = {}
      OBVIOUS
    <3>2. QED BY <3>1 DEF Cleared
  <2>6. QED BY <2>2, <2>3, <2>4, <2>5 DEF Table
<1>8. Behind(stream, trees, store.projected)
  BY DEF Behind
<1>9. ASSUME NEW w \in Writers PROVE Loading(w) /\ Handling(w) /\ Aiming(w)
  BY <1>2 DEF Loading, Handling, Aiming, HandleSteps, SnapshotSteps
<1>10. QED BY <1>4, <1>5, <1>6, <1>7, <1>8, <1>9 DEF Inv7

-----------------------------------------------------------------------------

(***************************************************************************)
(* An event is in the stream at most once: a command whose append was      *)
(* reported as failed and committed later does not append it again.        *)
(***************************************************************************)
THEOREM Invariance2 == Spec => [](Inv1 /\ Inv2)
<1>1. Init => Inv1 /\ Inv2
  BY InitInv1, InitInv2
<1>2. (Inv1 /\ Inv2) /\ [Next]_vars => (Inv1 /\ Inv2)'
  BY StepInv1, StepInv2
<1>3. QED BY <1>1, <1>2, PTL DEF Spec

(***************************************************************************)
(* A rejection in the stream directly follows the event it names, and that *)
(* event is not a rejection, even when the rejection's append was reported *)
(* as failed and committed later.                                          *)
(***************************************************************************)
THEOREM Invariance3 == Spec => [](Inv1 /\ Inv2 /\ Inv3)
<1>1. Init => Inv1 /\ Inv2 /\ Inv3
  BY InitInv1, InitInv2, InitInv3
<1>2. (Inv1 /\ Inv2 /\ Inv3) /\ [Next]_vars => (Inv1 /\ Inv2 /\ Inv3)'
  BY StepInv1, StepInv2, StepInv3
<1>3. QED BY <1>1, <1>2, PTL DEF Spec

(* The inductive invariant: the layers together. *)
THEOREM Invariance == Spec => []Inv
<1>1. Init => Inv
  BY InitInv1, InitInv2, InitInv3, InitInv4 DEF Inv
<1>2. Inv /\ [Next]_vars => Inv'
  BY StepInv1, StepInv2, StepInv3, StepInv4 DEF Inv
<1>3. QED BY <1>1, <1>2, PTL DEF Spec

(* check_mutation runs against the tree the event is appended to, with any *)
(* number of commands at work and their locks lost or not.                 *)
THEOREM ChecksAreCurrent == Spec => []CheckedAgainstStream
<1>1. Inv => CheckedAgainstStream
  BY DEF Inv, Inv4, Holds, CheckedAgainstStream, TreeAt, Rejects, Kind
<1>2. QED BY <1>1, Invariance, PTL

(* No command appends an event its tree refuses. *)
THEOREM AppendsApply == Spec => []AppendedEventsApply
<1>1. Inv => AppendedEventsApply
  <2> SUFFICES ASSUME Inv PROVE AppendedEventsApply
    OBVIOUS
  <2>1. stream \in Seq(Events)
    BY DEF Inv, Inv1, TypeOK
  <2>2. DOMAIN stream = 1..Len(stream) /\ \A v \in 1..Len(stream) : (v - 1) + 1 = v
    BY <2>1
  <2>3. \A v \in 1..Len(stream) : Sound(stream, trees, v)
    BY DEF Inv, Inv4, Meanings
  <2>4. QED BY <2>2, <2>3 DEF AppendedEventsApply, Sound, TreeAt, IsRejection
<1>2. QED BY <1>1, Invariance, PTL

(* A stored snapshot is the tree of its version, and the table has been    *)
(* there.                                                                  *)
THEOREM SnapshotsAreFaithful == Spec => []SnapshotIsFaithful
<1>1. Inv => SnapshotIsFaithful
  BY DEF Inv, Inv4, Stored, SnapshotIsFaithful, TreeAt
<1>2. QED BY <1>1, Invariance, PTL

(* Where every event of a command is, until the command has reported it. *)
THEOREM Invariance5 == Spec => [](Inv /\ Inv5)
<1>1. Init => Inv /\ Inv5
  BY InitInv1, InitInv2, InitInv3, InitInv4, InitInv5 DEF Inv
<1>2. Inv /\ Inv5 /\ [Next]_vars => (Inv /\ Inv5)'
  BY StepInv1, StepInv2, StepInv3, StepInv4, StepInv5 DEF Inv
<1>3. QED BY <1>1, <1>2, PTL DEF Spec

(***************************************************************************)
(* A command that confirms its event has it in the stream, and shows it in *)
(* the table when it says so; unless it leaves the outcome open, an event  *)
(* it does not confirm never gets into the stream, for any number of       *)
(* writers, lost locks, failed calls, crashes and late commits.            *)
(***************************************************************************)
THEOREM CommandsTellTheTruth == Spec => []ReportsAreTrue
<1>1. Inv /\ Inv5 => ReportsAreTrue
  <2> SUFFICES ASSUME Inv, Inv5, NEW w \in Writers, pc[w] = "unlock"
               PROVE  /\ result[w].out = "appended" => /\ result[w].version \in DOMAIN stream
                                                       /\ stream[result[w].version].body.id = result[w].id
                                                       /\ result[w].observed <= store.projected
                      /\ result[w].out \notin {"appended", "noEventFound", "unknown"} =>
                            /\ \A v \in DOMAIN stream : stream[v].body.id # result[w].id
                            /\ \A f \in inflight : f.event.body.id = result[w].id => f.after < Len(stream)
    BY DEF ReportsAreTrue
  <2>1. TrueReport(result[w])
    BY DEF Inv5, Reported
  <2>2. DOMAIN stream = 1..Len(stream)
    BY WriterFacts DEF Inv
  <2>3. QED BY <2>1, <2>2 DEF TrueReport, Closed, ID
<1>2. QED BY <1>1, Invariance5, PTL

(* What commands know of the tree type, while the lock holds. *)
THEOREM Invariance6 == Spec => [](Inv /\ Inv5 /\ Inv6)
<1>1. Init => Inv6
  BY InitInv6
<1>2. Inv /\ Inv5 /\ Inv6 /\ [Next]_vars => Inv6'
  BY StepInv1, StepInv6 DEF Inv
<1>3. QED BY <1>1, <1>2, Invariance5, PTL DEF Spec

(***************************************************************************)
(* While no writer loses the lock, every event of a stream carries the     *)
(* type version 1 records, whatever add-roots race for the empty stream,   *)
(* crash, and have their appends committed after the error was reported.   *)
(***************************************************************************)
THEOREM OneTypePerStream == Spec => []OneTreeType
<1>1. Inv /\ Inv5 /\ Inv6 => OneTreeType
  <2> SUFFICES ASSUME Inv, Inv6, losses = 0, NEW v \in DOMAIN stream PROVE stream[v].ttype = stream[1].ttype
    BY DEF OneTreeType
  <2>1. stream \in Seq(Events)
    BY DEF Inv, Inv1, TypeOK
  <2>2. v \in 1..Len(stream)
    BY <2>1
  <2>3. QED BY <2>2 DEF Inv6, Typed
<1>2. QED BY <1>1, Invariance6, PTL

(* The table shows what the stream means, in every reachable state. *)
THEOREM Invariance7 == Spec => [](Inv /\ Inv5 /\ Inv7)
<1>1. Init => Inv /\ Inv5 /\ Inv7
  BY InitInv1, InitInv2, InitInv3, InitInv4, InitInv5, InitInv7 DEF Inv
<1>2. Inv /\ Inv5 /\ Inv7 /\ [Next]_vars => (Inv /\ Inv5 /\ Inv7)'
  BY StepInv1, StepInv2, StepInv3, StepInv4, StepInv5, StepInv7 DEF Inv
<1>3. QED BY <1>1, <1>2, PTL DEF Spec

(***************************************************************************)
(* The active rows describe the tree the stream means at the projected     *)
(* version, apart from the row of an unchecked placement that does not     *)
(* apply, for any number of writers, users and events, lost locks, failed  *)
(* calls, crashes and late commits.                                        *)
(***************************************************************************)
THEOREM TableFollowsStream == Spec => []RowsFollowStream
<1>1. Inv /\ Inv7 => RowsFollowStream
  <2> SUFFICES ASSUME Inv, Inv7 PROVE RowsFollowStream
    OBVIOUS
  <2> DEFINE p == store.projected
             u == stream[p].body.user
  <2>1. p \in Nat /\ Rows(stream, trees, store)
    BY TableFacts DEF Inv7, Table
  <2>2. p > 0 => p - 1 + 1 = p
    BY <2>1
  <2>3. CASE Clean(stream, trees, p)
    <3>1. ~ StuckRow
      BY <2>1, <2>2, <2>3 DEF StuckRow, Clean, TreeAt
    <3>2. Shown = View(store.active)
      BY <3>1 DEF Shown, View
    <3>3. QED BY <2>1, <2>3, <3>2 DEF Rows, RowsFollowStream, TreeAt
  <2>4. CASE ~ Clean(stream, trees, p)
    <3>1. /\ stream[p].type = "node_placed" /\ u \in DOMAIN store.active /\ store.active[u].id = ID(stream[p])
          /\ View(Without(store.active, u)) = trees[p + 1]
      BY <2>1, <2>4 DEF Rows
    <3>2. p > 0 /\ ~ Accepts(trees[p], stream[p])
      BY <2>1, <2>4 DEF Clean
    <3>3. StuckRow
      BY <2>2, <3>1, <3>2 DEF StuckRow, TreeAt, ID
    <3>4. Shown = View(Without(store.active, u))
      BY <3>3 DEF Shown, Without
    <3>5. QED BY <3>1, <3>4 DEF RowsFollowStream, TreeAt
  <2>5. QED BY <2>3, <2>4
<1>2. QED BY <1>1, Invariance7, PTL

(***************************************************************************)
(* The table is at most one redelivery behind the stream, or the stream    *)
(* ends with a rejection and projecting that brings it level: load and     *)
(* reject-event always have a repair.                                      *)
(***************************************************************************)
THEOREM NeverFurtherBehind == Spec => []OneRedeliveryBehind
<1>1. Inv /\ Inv7 => OneRedeliveryBehind
  <2> SUFFICES ASSUME Inv, Inv7 PROVE OneRedeliveryBehind
    OBVIOUS
  <2>1. store.projected <= Len(stream) /\ Behind(stream, trees, store.projected)
    BY TableFacts DEF Inv7
  <2>2. QED BY <2>1 DEF Behind, OneRedeliveryBehind, IsRejection
<1>2. QED BY <1>1, Invariance7, PTL

(***************************************************************************)
(* reject-event rejects only an event the tree refuses, directly after it  *)
(* and once, and no root the engine holds loses its row, for any number of *)
(* writers, users and events, lost locks, failed calls, crashes and late   *)
(* commits.                                                                *)
(***************************************************************************)
THEOREM OnlyWhatNeverApplied == Spec => []RejectionsAreSound
<1>1. Inv /\ Inv7 => RejectionsAreSound
  <2> SUFFICES ASSUME Inv, Inv7 PROVE RejectionsAreSound
    OBVIOUS
  <2>1. DOMAIN stream = 1..Len(stream)
    BY DEF Inv, Inv1, TypeOK
  <2>2. ASSUME NEW v \in DOMAIN stream, IsRejection(v)
        PROVE  NamesPrevious(v) /\ ~ IsRejection(v - 1) /\ ~ Accepts(TreeAt(v - 2), stream[v - 1])
    <3>1. /\ v - 1 \in 1..Len(stream) /\ stream[v - 1].type \in Mutations
          /\ ID(stream[v - 1]) = stream[v].body.target /\ ~ Accepts(trees[v - 1], stream[v - 1])
      BY <2>1, <2>2, TableFacts
    <3>2. v >= 2 /\ v - 2 + 1 = v - 1
      BY <2>1, <3>1
    <3>3. NamesPrevious(v)
      BY <3>1, <3>2 DEF NamesPrevious, ID
    <3>4. ~ IsRejection(v - 1)
      BY <3>1 DEF IsRejection, Mutations
    <3>5. ~ Accepts(TreeAt(v - 2), stream[v - 1])
      BY <3>1, <3>2 DEF TreeAt
    <3>6. QED BY <3>3, <3>4, <3>5
  <2>3. ASSUME NEW w \in Writers, pc[w] = "reconcileAdd", Ev(w).type = "root_added"
        PROVE  Ev(w).body.user \in DOMAIN engine[w] /\ engine[w][Ev(w).body.user].depth = 0
    <3> DEFINE c == cur[w]
               e == stream[c]
    <3>1. pc[w] \in HandleSteps \ {"rejection"} /\ pc[w] \in Reconciling
      BY <2>3 DEF HandleSteps, Reconciling
    <3>2. Engaged(w) /\ Meaning(stream, trees, c)
      BY <3>1, Standing
    <3>3. engine[w] = trees[c + 1] /\ Accepts(trees[c], e)
      BY <2>3, <3>1, <3>2 DEF Inv, Inv4, Holds, Inv7, Handling
    <3>4. trees[c + 1] = AddRoot(trees[c], e.body.user)
      BY <2>3, <3>2, <3>3 DEF Meaning, Apply, Ev
    <3>5. QED BY <3>3, <3>4 DEF AddRoot, With, Ev
  <2>4. QED BY <2>2, <2>3 DEF RejectionsAreSound, NoRootToUndo
<1>2. QED BY <1>1, Invariance7, PTL

(* The ledger's engine is the writer's. *)
LEMMA SameEngine ==
  /\ Ledger!EmptyTree = EmptyTree
  /\ \A t, u : /\ Ledger!CheckAddRoot(t, u) = CheckAddRoot(t, u) /\ Ledger!AddRoot(t, u) = AddRoot(t, u)
               /\ Ledger!CheckRemoveNode(t, u) = CheckRemoveNode(t, u) /\ Ledger!RemoveNode(t, u) = RemoveNode(t, u)
  /\ \A t, u, p, s, pos : /\ Ledger!CheckAddNode(t, u, p, s, pos) = CheckAddNode(t, u, p, s, pos)
                          /\ Ledger!AddNode(t, u, p, s, pos) = AddNode(t, u, p, s, pos)
  /\ Ledger!Positions = Positions
<1>1. Ledger!EmptyTree = EmptyTree /\ Ledger!Positions = Positions
  BY DEF Ledger!EmptyTree, EmptyTree, Ledger!Positions, Positions
<1>2. \A t, u : Ledger!CheckAddRoot(t, u) = CheckAddRoot(t, u)
  BY DEF Ledger!CheckAddRoot, CheckAddRoot, Ledger!HasRoot, HasRoot
<1>3. \A t, u : Ledger!AddRoot(t, u) = AddRoot(t, u)
  BY DEF Ledger!AddRoot, AddRoot, Ledger!With, With
<1>4. \A t, u : Ledger!CheckRemoveNode(t, u) = CheckRemoveNode(t, u)
  BY DEF Ledger!CheckRemoveNode, CheckRemoveNode, Ledger!HasChildren, HasChildren, Ledger!Recruits, Recruits
<1>5. \A t, u : Ledger!RemoveNode(t, u) = RemoveNode(t, u)
  BY DEF Ledger!RemoveNode, RemoveNode
<1>6. \A t, u, p, s, pos : Ledger!CheckAddNode(t, u, p, s, pos) = CheckAddNode(t, u, p, s, pos)
  BY DEF Ledger!CheckAddNode, CheckAddNode, Ledger!SlotTaken, SlotTaken
<1>7. \A t, u, p, s, pos : Ledger!AddNode(t, u, p, s, pos) = AddNode(t, u, p, s, pos)
  BY DEF Ledger!AddNode, AddNode, Ledger!With, With
<1>8. QED BY <1>1, <1>2, <1>3, <1>4, <1>5, <1>6, <1>7

(* An event that applies makes a successor of the tree. *)
LEMMA AppliesToSuccessor ==
  ASSUME NEW t, IsTree(t), NEW e \in Events, e.type \in Mutations, Accepts(t, e)
  PROVE  Apply(t, e) \in Ledger!Successors(t)
<1> DEFINE b == e.body
<1>1. b \in Bodies /\ b.user \in Users /\ b.pos \in Positions \cup {NoPos}
  BY DEF Events, Bodies, Mutations
<1>2. CASE e.type = "root_added"
  <2>1. CheckAddRoot(t, b.user) = "ok" /\ Apply(t, e) = AddRoot(t, b.user)
    BY <1>2 DEF Accepts, Refusal, Apply
  <2>2. QED BY <1>1, <2>1, SameEngine DEF Ledger!Successors
<1>3. CASE e.type = "node_placed"
  <2>1. /\ CheckAddNode(t, b.user, b.parent, b.sponsor, b.pos) = "ok"
        /\ Apply(t, e) = AddNode(t, b.user, b.parent, b.sponsor, b.pos)
    BY <1>3 DEF Accepts, Refusal, Apply
  <2>2. b.parent \in Users /\ b.sponsor \in Users
    BY <2>1 DEF CheckAddNode, IsTree
  <2> DEFINE q == [user |-> b.user, parent |-> b.parent, sponsor |-> b.sponsor, pos |-> b.pos]
  <2>3. /\ q \in [user : Users, parent : Users, sponsor : Users, pos : Positions \cup {NoPos}]
        /\ q.user = b.user /\ q.parent = b.parent /\ q.sponsor = b.sponsor /\ q.pos = b.pos
    BY <1>1, <2>2
  <2> HIDE DEF q
  <2>4. /\ Ledger!CheckAddNode(t, q.user, q.parent, q.sponsor, q.pos) = "ok"
        /\ Apply(t, e) = Ledger!AddNode(t, q.user, q.parent, q.sponsor, q.pos)
    BY <2>1, <2>3, SameEngine
  <2>5. QED BY <2>3, <2>4, SameEngine DEF Ledger!Successors
<1>4. CASE e.type = "node_removed"
  <2>1. CheckRemoveNode(t, b.user) = "ok" /\ Apply(t, e) = RemoveNode(t, b.user)
    BY <1>4 DEF Accepts, Refusal, Apply
  <2>2. QED BY <1>1, <2>1, SameEngine DEF Ledger!Successors
<1>5. QED BY <1>2, <1>3, <1>4 DEF Mutations

(* The table moves to the newest version or not at all. *)
LEMMA MovesToNewest ==
  ASSUME Inv, Inv7, NEW w \in Writers, LocalStep(w), store'.projected # store.projected
  PROVE  store'.projected = Len(stream)
<1> DEFINE n == Len(stream)
           p == store.projected
           c == cur[w]
<1>1. n \in Nat /\ p \in Nat /\ p <= n /\ c \in Nat /\ Behind(stream, trees, p) /\ Placed(w)
  BY TableFacts, WriterFacts DEF Inv, Inv1, Inv7
<1>2. ASSUME p + 1 = c, c \in 1..n, c # n PROVE /\ ~ Accepts(trees[c], stream[c]) /\ Untakable(trees[c], stream[c])
                                               /\ stream[c].type \in Mutations
  <2>1. n = c + 1 /\ stream[n].type = "event_rejected" /\ Untakable(trees[c], stream[c])
    BY <1>1, <1>2 DEF Behind
  <2>2. n \in 1..n /\ n - 1 = c /\ IsRejection(n)
    BY <1>1, <2>1 DEF IsRejection
  <2>3. ~ Accepts(trees[c], stream[c]) /\ stream[c].type \in Mutations
    BY <2>2, TableFacts
  <2>4. QED BY <2>1, <2>3
<1>3. CASE InsertRow(w)
  <2>1. pc[w] = "insert" /\ Inserting(w) = "ok" /\ store' = Inserted(w)
    BY <1>3 DEF InsertRow, Inserting, Inserted, RowOf, ID
  <2>2. /\ p + 1 = c /\ c \in 1..n /\ store'.projected = c
        /\ ~ Accepts(trees[c], stream[c]) => ~ Untakable(trees[c], stream[c])
    BY <2>1, InsertsRow DEF Inserted, ProjectInsert
  <2>3. QED BY <1>2, <2>2
<1>4. CASE RemoveRow(w)
  <2>1. pc[w] = "removal" /\ Accepts(engine[w], Ev(w)) /\ Removing(w) = "ok" /\ store' = Removed(w)
    BY <1>4 DEF RemoveRow, Removing, Removed, Moved, ID
  <2>2. p + 1 = c /\ c \in 1..n /\ store'.projected = c /\ Accepts(trees[c], stream[c])
    BY <2>1, RemovesAt DEF Removed, ProjectRemoval
  <2>3. QED BY <1>2, <2>2
<1>5. CASE RejectRow(w)
  <2>1. pc[w] = "rejection" /\ ~ Below(store, c) /\ store'.projected = c
    BY <1>5 DEF RejectRow, RejectionOutcome, ProjectRejection
  <2>2. c \in 1..n /\ stream[c].type = "event_rejected" /\ p < c
    BY <1>1, <2>1 DEF Below, Placed, IsRejection, HandleSteps
  <2>3. c = n \/ p + 1 = c
    BY <1>1, <2>2 DEF Behind
  <2>4. QED BY <1>2, <2>1, <2>2, <2>3 DEF Mutations
<1>6. QED BY <1>3, <1>4, <1>5, Writes

(* What an appended event does to the ledger. *)
LEMMA RecordsInLedger ==
  ASSUME Inv, Inv7, RowsFollowStream, RowsFollowStream', Next, stream' # stream
  PROVE  Ledger!LedgerNext
<1> DEFINE n == Len(stream)
           p == store.projected
<1>1. /\ Inv1 /\ TypeOK /\ p \in Nat /\ n \in Nat /\ p <= n /\ Behind(stream, trees, p)
  BY TableFacts DEF Inv, Inv1, Inv7
<1>2. PICK e \in Events :
         /\ Extend(e) /\ (e.type = "event_rejected" => stream # <<>>)
         /\ IF e.type = "event_rejected"
            THEN Rejectable(stream, n, e.body.target) /\ Refutable(stream, trees, p, n)
            ELSE p = n
  BY Lands
<1>3. store' = store
  BY Lands
<1> USE <1>1, <1>2
<1>4. Grows /\ trees' = Append(trees, TreeAfter(e))
  BY ExtendGrows DEF Extend
<1>5. Len(trees) = n + 1
  <2>1. trees = [i \in 1..(n + 1) |-> trees[i]]
    BY DEF TypeOK
  <2>2. QED BY <2>1
<1> USE <1>3, <1>4
<1>6. Shown' = Shown
  <2>1. p + 1 \in 1..(n + 1)
    OBVIOUS
  <2>2. trees'[p + 1] = trees[p + 1]
    BY <2>1 DEF Grows
  <2>3. QED BY <2>2 DEF RowsFollowStream, TreeAt
<1>7. \A v \in 1..(n + 1) : IsTree(trees[v])
  BY TableFacts
<1>8. n + 1 \in 1..(n + 1)
  OBVIOUS
<1> USE <1>5
<1>9. ASSUME p + 1 >= n, TreeAfter(e) = trees[n + 1] PROVE Ledger!LedgerNext
  <2>1. p + 1 >= Len(trees) - 1
    BY <1>9
  <2>2. Ledger!Void
    BY <1>6, <1>9, <2>1 DEF Ledger!Void, Ledger!Newest
  <2>3. QED BY <2>2 DEF Ledger!LedgerNext
<1>10. CASE e.type = "event_rejected"
  <2>1. n \in 1..n /\ stream[n].type # "event_rejected" /\ ~ Accepts(trees[n], stream[n])
    BY <1>10 DEF Rejectable, Refutable
  <2> USE <2>1
  <2>2. Meaning(stream, trees, n)
    BY TableFacts
  <2>3. trees[n + 1] = trees[n]
    BY <2>2 DEF Meaning
  <2>4. TreeAfter(e) = trees[n]
    BY <1>10 DEF TreeAfter
  <2>5. p + 1 >= n
    BY DEF Behind
  <2>6. QED BY <1>9, <2>3, <2>4, <2>5
<1>11. CASE e.type # "event_rejected" /\ ~ Accepts(trees[n + 1], e)
  <2>1. TreeAfter(e) = trees[n + 1]
    BY <1>11 DEF TreeAfter
  <2>2. QED BY <1>9, <1>11, <2>1
<1>12. CASE e.type # "event_rejected" /\ Accepts(trees[n + 1], e)
  <2> USE <1>12
  <2>1. TreeAfter(e) = Apply(trees[n + 1], e)
    BY DEF TreeAfter
  <2>2. e.type \in Mutations
    BY DEF Events, EventTypes, Mutations
  <2>3. TreeAfter(e) \in Ledger!Successors(trees[n + 1])
    BY <1>7, <1>8, <2>1, <2>2, AppliesToSuccessor
  <2>4. p + 1 = Len(trees) /\ store'.projected + 1 = store.projected + 1
    OBVIOUS
  <2>5. trees' # trees
    <3>1. trees'[n + 2] = TreeAfter(e) /\ DOMAIN trees' = 1..(Len(stream') + 1) /\ Len(stream') = n + 1
      <4>1. /\ Len(stream') = n + 1 /\ trees' = [i \in 1..(Len(stream') + 1) |-> trees'[i]]
            /\ trees'[n + 2] = TreeAfter(e)
        BY ExtendGrows
      <4>2. QED BY <4>1
    <3>2. DOMAIN trees = 1..(n + 1)
      BY DEF TypeOK
    <3>3. QED BY <3>1, <3>2
  <2>6. Ledger!Mutate
    BY <1>6, <2>3, <2>4, <2>5 DEF Ledger!Mutate, Ledger!Newest
  <2>7. QED BY <2>6 DEF Ledger!LedgerNext
<1>13. QED BY <1>10, <1>11, <1>12

(* Every step is a step of the ledger or leaves it alone. *)
LEMMA StepKeepsLedger ==
  ASSUME Inv, Inv7, RowsFollowStream, RowsFollowStream', [Next]_vars
  PROVE  [Ledger!LedgerNext]_(Ledger!ledgerVars)
<1>1. CASE UNCHANGED vars
  <2>1. UNCHANGED <<stream, trees, store>>
    BY <1>1 DEF vars
  <2>2. Shown' = Shown
    BY <2>1 DEF RowsFollowStream, TreeAt
  <2>3. QED BY <2>1, <2>2 DEF Ledger!ledgerVars
<1>2. CASE Next /\ stream' # stream
  BY <1>2, RecordsInLedger
<1>3. CASE Next /\ stream' = stream
  <2>1. Inv1 /\ TypeOK
    BY DEF Inv, Inv1
  <2>2. trees' = trees
    <3>1. stream \in Seq(Events)
      BY <2>1 DEF TypeOK
    <3>2. \A e \in Events : Len(Append(stream, e)) = Len(stream) + 1 /\ Len(stream) \in Nat
      BY <3>1
    <3>3. ~ \E e \in Events : Extend(e)
      BY <1>3, <3>2 DEF Extend
    <3>4. QED BY <1>3, <2>1, <3>3, Growth
  <2>3. CASE store'.projected = store.projected
    <3>1. Shown' = Shown
      BY <2>2, <2>3 DEF RowsFollowStream, TreeAt
    <3>2. QED BY <2>2, <2>3, <3>1 DEF Ledger!ledgerVars
  <2>4. CASE store'.projected # store.projected
    <3>1. PICK w \in Writers : LocalStep(w)
      BY <1>3, <2>4 DEF Next, LocalStep, CommitLands, CommitFails, LoseLock, Stray, appendFrame
    <3>2. store'.projected = Len(stream)
      BY <2>4, <3>1, MovesToNewest
    <3>3. Len(trees) = Len(stream) + 1
      <4>1. trees = [i \in 1..(Len(stream) + 1) |-> trees[i]] /\ Len(stream) \in Nat
        BY <2>1, TableFacts DEF TypeOK
      <4>2. QED BY <4>1
    <3>4. Shown' = trees[Len(stream) + 1]
      BY <2>2, <3>2 DEF RowsFollowStream, TreeAt
    <3>5. Ledger!Show
      BY <2>2, <3>2, <3>3, <3>4 DEF Ledger!Show, Ledger!Newest
    <3>6. QED BY <3>5 DEF Ledger!LedgerNext
  <2>5. QED BY <2>3, <2>4
<1>4. QED BY <1>1, <1>2, <1>3

(***************************************************************************)
(* The write path implements the ledger: each step of the writers, the     *)
(* server and the faults records one accepted mutation, records a void     *)
(* entry, moves the table to the newest entry, or changes nothing a caller *)
(* sees; for any number of writers, users and events, lost locks, failed   *)
(* calls, crashes and late commits.                                        *)
(***************************************************************************)
THEOREM WritePathKeepsTheLedger == Spec => KeepsTheLedger
<1>1. Init => Ledger!LedgerInit
  <2> SUFFICES ASSUME Init PROVE Ledger!LedgerInit
    OBVIOUS
  <2>1. trees = <<EmptyTree>> /\ store.projected = 0 /\ DOMAIN store.active = {}
    BY DEF Init, EmptyStore
  <2>2. ~ StuckRow
    BY <2>1 DEF StuckRow
  <2>3. Shown = EmptyTree
    BY <2>1, <2>2 DEF Shown, View, EmptyTree
  <2>4. QED BY <2>1, <2>3, SameEngine DEF Ledger!LedgerInit
<1>2. Inv /\ Inv7 /\ RowsFollowStream /\ RowsFollowStream' /\ [Next]_vars => [Ledger!LedgerNext]_(Ledger!ledgerVars)
  BY StepKeepsLedger
<1>3. QED BY <1>1, <1>2, Invariance7, TableFollowsStream, PTL DEF Spec, KeepsTheLedger, Ledger!LedgerSpec

=============================================================================
