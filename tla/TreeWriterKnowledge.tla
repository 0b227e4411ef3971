------------------------- MODULE TreeWriterKnowledge ------------------------
(***************************************************************************)
(* What a writer knows of the table after a step of its own, as            *)
(* TreeWriterTable states it: a load, a projection and a redelivery leave  *)
(* it true, and a rejection is sent only for an event its tree refuses.    *)
(***************************************************************************)
EXTENDS TreeWriterTable

USE Untyped

(* The steps of a load. *)
LEMMA LoadsKnow ==
  ASSUME Inv, Inv7, NEW w \in Writers, LocalStep(w), pc'[w] \in LoadSteps \ {"rows"}, loaded'[w] <= store'.projected
  PROVE  Loading(w)'
<1>1. /\ Inv1 /\ Domains /\ Placed(w) /\ Loading(w) /\ Holds(w)
      /\ loaded[w] \in Nat /\ at[w] \in Nat /\ last[w] \in Nat /\ last[w] <= Len(stream) /\ loaded[w] <= Len(stream)
      /\ Len(stream) \in Nat /\ store.projected \in Nat
  BY TableFacts, WriterFacts DEF Inv, Inv1, Inv4, Inv7, Placed
<1> USE DEF Domains, Goto
<1> USE <1>1
<1>2. ~ (Lock(w) \/ UnderLock(w) \/ RejectReadLast(w))
  <2>1. pc'[w] \notin {"rows", "underLock", "rejectProjected", "unlock"} \cup HandleSteps
    BY DEF LoadSteps, HandleSteps
  <2>2. ~ (Lock(w) \/ UnderLock(w))
    BY <2>1 DEF Lock, UnderLock, Refuse
  <2>3. RejectReadLast(w) => stream[Len(stream)] \in Events
    <3>1. pc[w] = "rejectLast" => stream # <<>>
      BY DEF Placed
    <3>2. stream \in Seq(Events)
      BY DEF Inv1, TypeOK
    <3>3. QED BY <3>1, <3>2 DEF RejectReadLast
  <2>4. ASSUME RejectReadLast(w) PROVE FALSE
    <3>1. pc'[w] \in {"rows", "unlock"} \/ Handle(w, stream[Len(stream)], Len(stream), "resume")
      BY <2>4 DEF RejectReadLast, Refuse
    <3>2. Handle(w, stream[Len(stream)], Len(stream), "resume") => pc'[w] \in HandleSteps
      BY <2>3, <2>4 DEF Handle, Events, EventTypes, HandleSteps
    <3>3. QED BY <2>1, <3>1, <3>2
  <2>5. QED BY <2>2, <2>4
<1>3. CASE ReadRows(w)
  <2>1. /\ pc[w] = "rows" /\ UNCHANGED <<stream, trees, store, req, last>>
        /\ loaded'[w] = store.projected /\ seen'[w] = store.active
        /\ pc'[w] = IF Preflight(View(store.active)) THEN "snapshot" ELSE "buildFailed"
    BY <1>3 DEF ReadRows, streamVars
  <2>2. ~ Preflight(View(store.active)) => ~ Clean(stream, trees, store.projected)
    <3>1. Clean(stream, trees, store.projected) => View(store.active) = trees[store.projected + 1]
      BY DEF Inv7, Table, Rows
    <3>2. Fit(trees[store.projected + 1])
      <4>1. store.projected + 1 \in 1..(Len(stream) + 1)
        BY TableFacts
      <4>2. QED BY <4>1, TableFacts
    <3>3. QED BY <3>1, <3>2, FitPreflight
  <2> USE <2>1
  <2>3. Rejects(w) /\ last[w] = Len(stream) => last[w] <= store.projected + 1
    <3> SUFFICES ASSUME Rejects(w), last[w] = Len(stream) PROVE last[w] <= store.projected + 1
      OBVIOUS
    <3>1. stream[last[w]].type # "event_rejected"
      BY DEF Inv, Inv3, Found, Rejectable
    <3>2. QED BY <3>1 DEF Inv7, Behind
  <2>4. Rejects(w)' <=> Rejects(w)
    BY DEF Rejects, Kind
  <2>5. QED BY <2>2, <2>3, <2>4 DEF Loading
<1>4. CASE UsableSnapshot(w) \/ SnapshotUnread(w)
  <2>1. /\ pc[w] = "snapshot" /\ pc'[w] = "replay" /\ UNCHANGED <<stream, trees, store, req, last, loaded, seen>>
        /\ at'[w] \in {snap.version, 0}
    BY <1>4 DEF UsableSnapshot, SnapshotUnread, streamVars
  <2> USE <2>1
  <2>2. Clean(stream, trees, at'[w])
    BY DEF Inv7, Clean
  <2>3. Rejects(w)' <=> Rejects(w)
    BY DEF Rejects, Kind
  <2>4. QED BY <2>2, <2>3 DEF Loading
<1>5. ASSUME pc[w] = "replay", BuildFails(w), UNCHANGED <<stream, trees, store, req, last, loaded, seen>>
      PROVE  Loading(w)'
  <2> USE <1>5
  <2>1. Preflight(View(seen[w]))
    BY DEF Loading
  <2>2. Rejects(w)' <=> Rejects(w)
    BY DEF Rejects, Kind
  <2>3. CASE base[w] > 0
    <3>1. pc'[w] = "replay" /\ at'[w] = 0
      BY <2>3 DEF BuildFails
    <3>2. Clean(stream, trees, at'[w])
      BY <3>1 DEF Clean
    <3>3. QED BY <2>1, <2>2, <3>1, <3>2 DEF Loading
  <2>4. CASE ~ (base[w] > 0)
    <3>1. pc'[w] = "buildFailed" /\ UNCHANGED <<engine, at>>
      BY <2>4 DEF BuildFails
    <3>2. /\ at[w] <= loaded[w]
          /\ engine[w] = IF Undone(stream, at[w], loaded[w]) THEN trees[at[w]] ELSE trees[at[w] + 1]
      BY DEF Placed, Holds
    <3>3. QED BY <2>1, <2>2, <3>1, <3>2 DEF Loading
  <2>5. QED BY <2>3, <2>4
<1>6. CASE Replay(w)
  <2> DEFINE v == at[w] + 1
  <2> USE <1>6
  <2>1. pc[w] = "replay" /\ at[w] < loaded[w] /\ UNCHANGED <<stream, trees, store, req, last, loaded, seen>>
    BY DEF Replay, streamVars
  <2> USE <2>1
  <2>2. CASE Skipped(v, loaded[w]) \/ Accepts(engine[w], stream[v])
    <3>1. pc' = pc /\ at'[w] = v
      BY <2>2 DEF Replay, Reached
    <3>2. Clean(stream, trees, v) \/ (v < loaded[w] /\ stream[v + 1].type = "event_rejected")
      <4>1. CASE Skipped(v, loaded[w])
        BY <4>1 DEF Skipped, IsRejection, Clean
      <4>2. CASE ~ Skipped(v, loaded[w])
        <5>1. ~ Undone(stream, at[w], loaded[w])
          BY <4>2 DEF Skipped, IsRejection, Undone
        <5>2. engine[w] = trees[v]
          BY <5>1 DEF Holds
        <5>3. QED BY <2>2, <4>2, <5>2 DEF Clean
      <4>3. QED BY <4>1, <4>2
    <3>3. Rejects(w)' <=> Rejects(w)
      BY DEF Rejects, Kind
    <3> HIDE DEF v
    <3>4. QED BY <3>1, <3>2, <3>3 DEF Loading
  <2>3. CASE ~ (Skipped(v, loaded[w]) \/ Accepts(engine[w], stream[v]))
    <3>1. BuildFails(w)
      BY <2>3 DEF Replay
    <3>2. QED BY <1>5, <3>1
  <2>4. QED BY <2>2, <2>3
<1>7. CASE CheckMembership(w)
  <2> USE <1>7
  <2>1. pc[w] = "replay" /\ at[w] = loaded[w] /\ UNCHANGED <<stream, trees, store, req, last, loaded, seen>>
    BY DEF CheckMembership, streamVars
  <2> USE <2>1
  <2>2. CASE MembersAgree(w)
    <3>1. pc'[w] = "last"
      BY <2>2 DEF CheckMembership
    <3>2. Clean(stream, trees, loaded[w])
      BY DEF Loading
    <3>3. QED BY <3>1, <3>2 DEF Loading
  <2>3. CASE ~ MembersAgree(w)
    <3>1. BuildFails(w)
      BY <2>3 DEF CheckMembership
    <3>2. QED BY <1>5, <3>1
  <2>4. QED BY <2>2, <2>3
<1>8. CASE BuildFailed(w) /\ pc'[w] = "stuckRow"
  <2> USE <1>8
  <2>1. pc[w] = "buildFailed" /\ UNCHANGED <<stream, trees, store, req, last, loaded, seen>>
    BY DEF BuildFailed, streamVars, buildVars
  <2>2. ~ Preflight(View(seen[w]))
    BY DEF BuildFailed, Refuse
  <2>3. Rejects(w)' <=> Rejects(w)
    BY <2>1 DEF Rejects, Kind
  <2>4. QED BY <2>1, <2>2, <2>3 DEF Loading
<1>9. pc'[w] \in LoadSteps
  OBVIOUS
<1>10. QED BY <1>2, <1>3, <1>4, <1>6, <1>7, <1>8, <1>9, LoadFrom DEF BuildFailed

(* Every own step keeps what a load knows. *)
LEMMA OwnLoading ==
  ASSUME Inv, Inv7, NEW w \in Writers, LocalStep(w)
  PROVE  Loading(w)'
<1>1. Inv1 /\ Domains /\ loaded[w] \in Nat /\ store.projected \in Nat /\ loaded[w] <= store.projected
  BY TableFacts, WriterFacts DEF Inv, Inv7, Loading
<1>2. store'.projected >= store.projected
  BY <1>1, StepAdvances DEF Next, LocalStep
<1>3. store'.projected \in Nat
  <2>1. [Next]_vars
    BY DEF Next, LocalStep
  <2>2. QED BY <1>1, <2>1, StepAdvances
<1>4. loaded'[w] <= store'.projected
  <2>1. CASE loaded' = loaded
    BY <1>1, <1>2, <1>3, <2>1
  <2>2. CASE ReadRows(w) \/ RejectReadProjected(w)
    <3>1. loaded'[w] = store.projected
      BY <1>1, <2>2 DEF ReadRows, RejectReadProjected, Domains
    <3>2. QED BY <1>1, <1>2, <1>3, <3>1
  <2>3. CASE Forget(w)
    <3>1. loaded'[w] = 0
      BY <1>1, <2>3 DEF Forget, Domains
    <3>2. QED BY <1>3, <3>1
  <2>4. QED BY <2>1, <2>2, <2>3, Writes
<1>5. CASE pc'[w] \in LoadSteps \ {"rows"}
  BY <1>4, <1>5, LoadsKnow
<1>6. CASE pc'[w] \notin LoadSteps \ {"rows"}
  BY <1>4, <1>6 DEF LoadSteps, Loading
<1>7. QED BY <1>5, <1>6

(* A projection goes on. *)
LEMMA ProjectionKnows ==
  ASSUME Inv, Inv7, NEW w \in Writers, HandleEvent(w), pc'[w] \in HandleSteps
  PROVE  Handling(w)'
<1> DEFINE c == cur[w]
           e == stream[c]
<1>1. /\ Inv1 /\ Domains /\ Placed(w) /\ Handling(w)
      /\ Len(stream) \in Nat /\ store.projected \in Nat /\ c \in Nat /\ depth[w] \in Nat
  BY TableFacts, WriterFacts DEF Inv, Inv1, Inv7, TypeOK
<1>2. LocalStep(w) /\ [Next]_vars
  BY DEF LocalStep, Step, Next
<1> USE <1>1
<1>3. store'.projected \in Nat /\ store'.projected >= store.projected
  BY <1>2, StepAdvances
<1>4. UNCHANGED <<stream, trees, req, cur, phase>>
  BY Projecting
<1>5. pc[w] \in HandleSteps \ {"rejection"} /\ pc'[w] # "rejection"
  BY GoesOn
<1>6. /\ c \in 1..Len(stream) /\ c <= store.projected + 1 /\ e.type \in Mutations /\ Meaning(stream, trees, c)
      /\ engine[w] \in {trees[c], trees[c + 1]}
      /\ store.projected + 1 = c => Clean(stream, trees, store.projected) /\ View(store.active) = trees[c]
  BY <1>5, Standing
<1> USE <1>4
<1>7. Rejects(w)' <=> Rejects(w)
  BY DEF Rejects, Kind
<1>8. Ev(w) = e /\ Ev(w)' = e
  BY DEF Ev
<1> DEFINE Stands ==
        /\ \/ phase[w] = "catchup"
           \/ phase[w] = "project" /\ ~ Rejects(w) /\ Accepts(trees[c], e)
        /\ c <= store'.projected + 1
        /\ store'.projected + 1 = c => Clean(stream, trees, store'.projected)
<1> USE <1>3, <1>6
<1>9. Stands
  <2>1. store'.projected + 1 = c => store'.projected = store.projected /\ store.projected + 1 = c
    OBVIOUS
  <2>2. c <= store'.projected + 1
    OBVIOUS
  <2>3. QED BY <1>5, <2>1, <2>2 DEF Handling
<1> USE <1>8
<1>10. ASSUME pc'[w] = "insert", e.type = "node_placed"
       PROVE  /\ depth'[w] > 0
              /\ store'.projected + 1 = c =>
                    e.body.parent \in DOMAIN trees[c] /\ depth'[w] = trees[c][e.body.parent].depth + 1
  <2>1. /\ e.body.parent \in DOMAIN store.active /\ store' = store
        /\ depth'[w] = store.active[e.body.parent].node.depth + 1
    BY <1>10, GoesOn
  <2> USE <2>1
  <2>2. store.active[e.body.parent].node.depth \in Nat
    BY TableFacts DEF StoreOK, AreRows, Row, Node
  <2>3. store.projected + 1 = c => /\ e.body.parent \in DOMAIN trees[c]
                                   /\ trees[c][e.body.parent].depth = store.active[e.body.parent].node.depth
    BY DEF View
  <2>4. depth'[w] > 0
    <3>1. \A n \in Nat : n + 1 > 0
      OBVIOUS
    <3>2. QED BY <2>2, <3>1
  <2>5. ASSUME store'.projected + 1 = c
        PROVE  e.body.parent \in DOMAIN trees[c] /\ depth'[w] = trees[c][e.body.parent].depth + 1
    BY <2>3, <2>5
  <2>6. QED BY <2>4, <2>5
<1>11. ASSUME pc'[w] = "replayed" PROVE c <= store'.projected
  <2>1. HoldsID(store, ID(e))
    BY <1>11, GoesOn
  <2>2. \A u \in DOMAIN store.active : Dated(stream, store.projected, store.active[u].id)
    BY DEF Inv7, Table, Sourced, Dated
  <2>3. \A i \in DOMAIN store.tombs : Dated(stream, store.projected, store.tombs[i].id)
    BY DEF Inv7, Table, Sourced
  <2>4. PICK v \in 1..store.projected : ID(stream[v]) = ID(e)
    BY <2>1, <2>2, <2>3 DEF HoldsID, Dated
  <2>5. v \in 1..Len(stream)
    BY TableFacts
  <2>6. v = c
    BY <2>4, <2>5, TableFacts
  <2>7. QED BY <2>6
<1>12. ASSUME pc'[w] = "engineAdd" PROVE Took(stream, trees, c, e.body.user)
  <2>1. CASE InsertRow(w) /\ Inserting(w) = "ok"
    <3>1. pc[w] = "insert"
      BY <2>1 DEF InsertRow
    <3>2. QED BY <2>1, <3>1, InsertsRow
  <2>2. CASE e.body.user \in DOMAIN store.active /\ store.active[e.body.user].id = ID(e)
    <3>1. PICK v \in 1..store.projected : ID(stream[v]) = ID(e) /\ Took(stream, trees, v, e.body.user)
      BY <2>2 DEF Inv7, Table, Sourced
    <3>2. v \in 1..Len(stream)
      BY TableFacts
    <3>3. v = c
      BY <3>1, <3>2, TableFacts
    <3>4. QED BY <3>1, <3>3
  <2>3. QED BY <1>12, <2>1, <2>2, GoesOn
<1>13. ASSUME pc'[w] = "reconcileAdd" PROVE Accepts(trees[c], e)
  <2>1. EngineAdd(w) /\ (Accepts(engine[w], e) \/ Refusal(engine[w], e) \in Exists)
    BY <1>13, GoesOn
  <2>2. CASE Accepts(engine[w], e)
    BY <2>2, TakenFrom
  <2>3. CASE Refusal(engine[w], e) \in Exists
    <3>1. Took(stream, trees, c, e.body.user)
      BY <2>1 DEF EngineAdd, Handling
    <3> USE <3>1
    <3>2. CASE e.type = "root_added"
      BY <3>2 DEF Took
    <3>3. CASE e.type = "node_placed"
      <4>1. e.body.user \in DOMAIN engine[w]
        BY <2>3, <3>3 DEF Exists, Refusal, CheckAddNode
      <4>2. engine[w] # trees[c]
        BY <4>1 DEF Took
      <4>3. trees[c + 1] # trees[c]
        BY <4>2
      <4>4. QED BY <4>3 DEF Meaning, Mutations
    <3>4. QED BY <3>2, <3>3 DEF Took
  <2>4. QED BY <2>1, <2>2, <2>3
<1>14. pc'[w] \notin SnapshotSteps
  BY DEF HandleSteps, SnapshotSteps
<1> HIDE DEF c, e, Stands
<1>15. cur'[w] = c /\ stream'[c] = e /\ Ev(w)' = e
  BY DEF c, e
<1>16. QED BY <1>7, <1>9, <1>10, <1>11, <1>12, <1>13, <1>14, <1>15 DEF Handling, Stands, e

(* A projection begins. *)
LEMMA ProjectionBegins ==
  ASSUME Inv, Inv5, Inv7, NEW w \in Writers, pc'[w] \in HandleSteps,
         ReadLast(w) \/ RejectReadLast(w) \/ AppendCommits(w) \/ ConfirmAppend(w)
  PROVE  Handling(w)'
<1>1. /\ Inv1 /\ Domains /\ Placed(w) /\ Loading(w) /\ Holds(w) /\ Aiming(w) /\ Sent(w) /\ OwnID(w) /\ Meanings /\ TypeOK
      /\ Len(stream) \in Nat /\ store.projected \in Nat /\ store.projected <= Len(stream)
      /\ last[w] \in Nat /\ last[w] <= Len(stream) /\ loaded[w] \in Nat /\ loaded[w] <= store.projected
  BY TableFacts, WriterFacts DEF Inv, Inv1, Inv2, Inv4, Inv5, Inv7, Placed, Loading
<1>2. LocalStep(w) /\ UNCHANGED <<store, req>>
  <2>1. ReadLast(w) \/ RejectReadLast(w) => UNCHANGED <<store, req>>
    BY DEF ReadLast, RejectReadLast
  <2>2. AppendCommits(w) \/ ConfirmAppend(w) => UNCHANGED <<store, req>>
    BY DEF AppendCommits, ConfirmAppend, appendFrame
  <2>3. LocalStep(w)
    BY DEF LocalStep, Step, Prepare, Write
  <2>4. QED BY <2>1, <2>2, <2>3
<1>3. Rejects(w)' <=> Rejects(w)
  BY <1>2 DEF Rejects, Kind
<1>4. pc'[w] # "confirm" /\ pc'[w] # "append" /\ pc'[w] # "unlock"
  BY DEF HandleSteps
<1> USE DEF Domains, Goto
<1> USE <1>1
<1>5. ASSUME NEW e \in Events, NEW v, NEW ph, Handle(w, e, v, ph), e.type # "event_rejected", stream'[v] = e,
             ph = "catchup" \/ (ph = "project" /\ ~ Rejects(w) /\ Accepts(trees'[v], e)),
             v <= store.projected + 1, store.projected + 1 = v => Clean(stream', trees', store.projected)
      PROVE  Handling(w)'
  <2> USE <1>5
  <2>1. cur'[w] = v /\ phase'[w] = ph /\ pc'[w] \in {"insert", "parent", "removal"}
        /\ (pc'[w] = "insert" => e.type = "root_added")
    BY DEF Handle, Events, EventTypes
  <2>2. Ev(w)' = e
    BY <2>1 DEF Ev
  <2>3. QED BY <1>2, <1>3, <2>1, <2>2 DEF Handling, SnapshotSteps
<1>6. ASSUME NEW e, NEW v, NEW ph, Handle(w, e, v, ph), e.type = "event_rejected" PROVE Handling(w)'
  <2>1. pc'[w] = "rejection"
    BY <1>6 DEF Handle
  <2>2. QED BY <2>1 DEF Handling, SnapshotSteps
<1> USE <1>4, <1>5, <1>6
<1>7. CASE ReadLast(w)
  <2> DEFINE n == Len(stream)
  <2>1. /\ pc[w] = "last" /\ ~ StreamRefused(n, loaded[w]) /\ n # 0 /\ Handle(w, stream[n], n, "catchup")
        /\ UNCHANGED <<stream, trees>>
    BY <1>7 DEF ReadLast, Refuse, streamVars
  <2> USE <2>1
  <2>2. n \in {loaded[w], loaded[w] + 1}
    BY DEF StreamRefused
  <2>3. stream[n] \in Events
    BY TableFacts
  <2>4. n <= store.projected + 1 /\ (store.projected + 1 = n => store.projected = loaded[w])
    BY <2>2
  <2>5. Clean(stream, trees, loaded[w])
    BY DEF Loading
  <2> HIDE DEF n
  <2>6. CASE stream[n].type = "event_rejected"
    BY <2>6
  <2>7. CASE stream[n].type # "event_rejected"
    BY <2>3, <2>4, <2>5, <2>7
  <2>8. QED BY <2>6, <2>7
<1>8. CASE RejectReadLast(w)
  <2>1. IsRejection(Len(stream)) /\ Handle(w, stream[Len(stream)], Len(stream), "resume")
    BY <1>8 DEF RejectReadLast, Refuse, HandleSteps
  <2>2. QED BY <2>1 DEF IsRejection
<1>9. CASE AppendCommits(w)
  <2> DEFINE n == Len(stream)
             e == NewEvent(w)
  <2>1. pc[w] = "append" /\ Checked(w) /\ n = last[w] /\ Extend(e) /\ Handle(w, e, n + 1, "project")
    BY <1>9 DEF AppendCommits, AtExpectedVersion
  <2> USE <2>1
  <2>2. e \in Events /\ (e.type = "event_rejected" => stream # <<>>) /\ e.type = Kind(w)
    BY NewEventIsEvent DEF NewEvent, Kind
  <2> USE <2>2
  <2>3. Grows /\ stream'[n + 1] = e
    BY ExtendGrows
  <2> HIDE DEF e
  <2>4. CASE e.type = "event_rejected"
    BY <2>4
  <2>5. CASE e.type # "event_rejected"
    <3>1. ~ Rejects(w)
      BY <2>5 DEF Rejects
    <3> USE <3>1
    <3>2. last[w] <= store.projected /\ Clean(stream, trees, last[w]) /\ engine[w] = trees[last[w] + 1]
      BY DEF Aiming, Holds
    <3> USE <3>2
    <3>3. Accepts(trees[n + 1], e)
      BY DEF Checked, Rejects, Kind, e
    <3> USE <2>3
    <3>4. trees'[n + 1] = trees[n + 1]
      BY DEF Grows
    <3>5. store.projected = n /\ n \in 0..Len(stream)
      OBVIOUS
    <3> USE <3>5
    <3>6. Clean(stream', trees', n)
      BY CleanStays
    <3>7. n + 1 <= store.projected + 1
      OBVIOUS
    <3>8. QED BY <2>5, <3>3, <3>4, <3>6, <3>7
  <2>6. QED BY <2>4, <2>5
<1>10. CASE ConfirmAppend(w)
  <2> DEFINE v == last[w] + 1
             e == stream[v]
  <2>1. /\ pc[w] = "confirm" /\ ~ (v > Len(stream)) /\ IsOwnEvent(w, v) /\ Handle(w, e, v, "project")
        /\ UNCHANGED <<stream, trees>>
    BY <1>10 DEF ConfirmAppend, Refuse, streamVars
  <2> USE <2>1
  <2>2. v \in 1..Len(stream) /\ v <= Len(stream)
    OBVIOUS
  <2> USE <2>2
  <2>3. e \in Events
    BY TableFacts
  <2>4. e.type = Kind(w) /\ ~ e.stray
    BY DEF OwnID, Sent, IsOwnEvent, ID
  <2>5. CASE e.type = "event_rejected"
    BY <2>5
  <2>6. CASE e.type # "event_rejected"
    <3> USE <2>6
    <3>1. ~ Rejects(w)
      BY <2>4 DEF Rejects
    <3>2. last[w] <= store.projected /\ Clean(stream, trees, last[w])
      BY <3>1 DEF Aiming
    <3>3. Accepts(trees[v], e)
      BY <2>4 DEF Meanings, Sound
    <3>4. v <= store.projected + 1 /\ (store.projected + 1 = v => store.projected = last[w])
      BY <3>2
    <3> HIDE DEF v
    <3>5. QED BY <2>3, <3>1, <3>2, <3>3, <3>4
  <2>7. QED BY <2>5, <2>6
<1>11. QED BY <1>7, <1>8, <1>9, <1>10

(* Every own step keeps what a projection knows. *)
LEMMA OwnHandling ==
  ASSUME Inv, Inv5, Inv7, NEW w \in Writers, LocalStep(w)
  PROVE  Handling(w)'
<1>1. Inv1 /\ Domains /\ Placed(w) /\ Handling(w)
  BY WriterFacts DEF Inv, Inv1, Inv7
<1> USE <1>1
<1>2. CASE pc'[w] \in HandleSteps
  <2> USE <1>2
  <2>1. \/ pc[w] \in HandleSteps \/ ReadLast(w) \/ RejectReadLast(w) \/ AppendCommits(w) \/ ConfirmAppend(w)
    BY HandleFrom
  <2>2. CASE HandleEvent(w)
    BY <2>2, ProjectionKnows
  <2>3. CASE pc[w] \in HandleSteps /\ ~ HandleEvent(w)
    <3>1. CallFails(w) \/ Crash(w)
      <4>1. ~ Prepare(w) /\ ~ Write(w) /\ ~ Begin(w)
        BY <2>3 DEF Prepare, Lock, LockTimeout, UnderLock, RejectReadProjected, RejectReadLast, ReadRows, UsableSnapshot,
           SnapshotUnread, Replay, CheckMembership, ReadLast, BuildFailed, StuckRowStopsTheLoad, Write, CheckRefuses,
           AppendCommits, AppendConflicts, AppendUnanswered, ConfirmAppend, Observe, SnapshotCheck, SnapshotPut, Unlock,
           Begin, StartAddRoot, StartPlace, StartRemove, StartLoad, StartReject, Start, HandleSteps
      <4>2. QED BY <2>3, <4>1 DEF LocalStep, Step
    <3>2. pc'[w] \in {"idle", "unlock", "observe", "append"}
      BY <3>1 DEF CallFails, Crash, Forget, Refuse, HandleFails, Domains, Goto
    <3>3. QED BY <3>2 DEF HandleSteps
  <2>4. CASE pc[w] \notin HandleSteps
    BY <2>1, <2>4, ProjectionBegins
  <2>5. QED BY <2>2, <2>3, <2>4
<1>3. CASE pc'[w] \in SnapshotSteps
  <2> USE <1>3
  <2>1. pc'[w] \notin HandleSteps
    BY DEF HandleSteps, SnapshotSteps
  <2>2. /\ UNCHANGED <<stream, trees, cur>>
        /\ pc[w] \in SnapshotSteps \/ (HandleEvent(w) /\ HandleDone(w))
    <3>1. /\ UNCHANGED stream
          /\ (HandleEvent(w) /\ HandleDone(w)) \/ (pc[w] \in SnapshotSteps)
      BY EndsFrom DEF SnapshotSteps
    <3>2. CASE HandleEvent(w)
      BY <3>1, <3>2, Projecting
    <3>3. CASE pc[w] \in SnapshotSteps
      <4>1. ~ (ReadLast(w) \/ RejectReadLast(w) \/ AppendCommits(w) \/ ConfirmAppend(w))
        BY <3>3 DEF ReadLast, RejectReadLast, AppendCommits, ConfirmAppend, SnapshotSteps
      <4>2. ~ Forget(w)
        BY DEF Forget, SnapshotSteps, Domains, Goto
      <4>3. QED BY <3>3, <4>1, <4>2, Writes
    <3>4. QED BY <3>1, <3>2, <3>3
  <2> USE <2>2
  <2>3. CASE pc[w] \in SnapshotSteps
    BY <2>1, <2>3 DEF Handling, HandleSteps, SnapshotSteps
  <2>4. CASE HandleEvent(w) /\ HandleDone(w)
    <3>1. pc[w] \in HandleSteps /\ phase[w] = "project" /\ ~ Rejects(w)
      BY <2>4, Projecting DEF HandleDone, Refuse, Domains, Goto, SnapshotSteps, Rejects, Kind
    <3>2. Clean(stream, trees, cur[w])
      <4>1. CASE pc[w] = "rejection"
        BY <4>1 DEF Placed, IsRejection, Clean
      <4>2. CASE pc[w] # "rejection"
        BY <3>1, <4>2 DEF Handling, Clean
      <4>3. QED BY <4>1, <4>2
    <3>3. QED BY <2>1, <3>2 DEF Handling, HandleSteps, SnapshotSteps
  <2>5. QED BY <2>3, <2>4
<1>4. CASE pc'[w] \notin HandleSteps \cup SnapshotSteps
  BY <1>4 DEF Handling, HandleSteps
<1>5. QED BY <1>2, <1>3, <1>4

(* The stamp of an event is in the table only when the event applied. *)
LEMMA StampApplies ==
  ASSUME Inv, Inv5, Inv7, NEW c \in 1..Len(stream),
         \E i \in DOMAIN store.tombs : store.tombs[i].stamp = ID(stream[c])
  PROVE  c <= store.projected /\ Accepts(trees[c], stream[c])
<1>1. ID(stream[c]) # NoEvent
  BY DEF Inv5, Issued, NoEvent
<1>2. PICK v \in 1..store.projected : ID(stream[v]) = ID(stream[c]) /\ Accepts(trees[v], stream[v])
  BY <1>1 DEF Inv7, Table, Sourced
<1>3. store.projected \in Nat /\ store.projected <= Len(stream) /\ Len(stream) \in Nat
  BY TableFacts
<1>4. v \in 1..Len(stream)
  BY <1>3
<1>5. v = c
  BY <1>2, <1>4, TableFacts
<1>6. QED BY <1>2, <1>3, <1>5

(* A redelivery that ends leaves its event in the table, and the event     *)
(* applied.                                                                *)
LEMMA Redelivered ==
  ASSUME Inv, Inv5, Inv7, NEW w \in Writers, HandleEvent(w), phase[w] = "catchup", ~ Rejects(w), pc'[w] = "append"
  PROVE  cur[w] <= store'.projected /\ Clean(stream, trees, cur[w])
<1> DEFINE c == cur[w]
           e == stream[c]
<1>1. /\ Inv1 /\ Domains /\ Placed(w) /\ Handling(w) /\ Taken(w) /\ Filed /\ store.tombs \in Seq(Tombstone)
      /\ Len(stream) \in Nat /\ store.projected \in Nat /\ c \in Nat /\ pc[w] \in HandleSteps
  BY TableFacts, WriterFacts, Projecting DEF Inv, Inv1, Inv5, Inv7, StoreOK
<1> USE <1>1
<1>2. c \in 1..Len(stream) /\ Ev(w) = e
  BY DEF Placed, Ev
<1>3. [Next]_vars
  BY DEF Next, Step
<1>4. store'.projected \in Nat /\ store'.projected >= store.projected
  BY <1>3, StepAdvances
<1>5. c <= store.projected => c <= store'.projected
  BY <1>4
<1>6. Accepts(trees[c], e) => Clean(stream, trees, c)
  BY DEF Clean
<1> USE DEF Domains, Goto
<1>7. \A why : ~ HandleFails(w, why)
  BY DEF HandleFails, Refuse, Rejects, Kind
<1> USE <1>7
<1>8. ~ ReadParent(w) /\ ~ InsertRow(w) /\ ~ CheckReplayedInsert(w) /\ ~ RemovalReplyLost(w) /\ ~ RemovalRefused(w)
  BY DEF ReadParent, InsertRow, CheckReplayedInsert, RemovalReplyLost, RemovalRefused
<1> USE <1>2, <1>5, <1>6
<1>9. CASE EngineAdd(w)
  <2>1. pc[w] = "engineAdd" /\ Accepts(engine[w], e)
    BY <1>9 DEF EngineAdd
  <2> USE <2>1
  <2>2. engine[w] \in {trees[c], trees[c + 1]} /\ Meaning(stream, trees, c) /\ e.type \in Mutations
    BY Standing
  <2>3. Accepts(trees[c], e)
    BY <2>2, TakenFrom
  <2>4. c <= store.projected
    BY DEF Taken
  <2>5. QED BY <2>3, <2>4
<1>10. CASE ReconcileAdd(w)
  <2>1. pc[w] = "reconcileAdd"
    BY <1>10 DEF ReconcileAdd
  <2>2. c <= store.projected /\ Accepts(trees[c], e)
    BY <2>1 DEF Taken, Handling
  <2>3. QED BY <2>2
<1>11. CASE RemoveRow(w)
  <2>1. pc[w] = "removal" /\ Accepts(engine[w], Ev(w)) /\ Removing(w) = "ok" /\ store' = Removed(w)
    BY <1>11 DEF RemoveRow, Removing, Removed, Moved, ID
  <2>2. Accepts(trees[c], e)
    BY <2>1, RemovesAt
  <2>3. store'.projected = c
    BY <2>1 DEF Removed, ProjectRemoval
  <2>4. QED BY <2>2, <2>3
<1>12. CASE ReconcileStamp(w)
  <2>1. StampedBy(store, ID(e))
    BY <1>12 DEF ReconcileStamp, ID
  <2>2. c <= store.projected /\ Accepts(trees[c], e)
    BY <2>1, StampApplies DEF StampedBy
  <2>3. QED BY <2>2
<1>13. CASE ReconcileUser(w)
  <2>1. NewestStamp(store, e.body.user) = ID(e)
    BY <1>13 DEF ReconcileUser, ID
  <2>2. ID(e) # NoEvent
    BY DEF Inv5, Issued, NoEvent
  <2>3. \E i \in DOMAIN store.tombs : store.tombs[i].stamp = ID(e)
    BY <2>1, <2>2, NewestIsStamp
  <2>4. c <= store.projected /\ Accepts(trees[c], e)
    BY <2>3, StampApplies
  <2>5. QED BY <2>4
<1>14. CASE RejectRow(w)
  <2>1. pc[w] = "rejection" /\ store' = Retracted(w)
    BY <1>14 DEF RejectRow, Retracted
  <2>2. store'.projected = c
    BY <2>1 DEF Retracted, ProjectRejection
  <2>3. Clean(stream, trees, c)
    BY <2>1 DEF Placed, IsRejection, Clean
  <2>4. QED BY <2>2, <2>3
<1>15. QED BY <1>8, <1>9, <1>10, <1>11, <1>12, <1>13, <1>14 DEF HandleEvent

(* Each of them refutes the event.  The conflicts of the insert first. *)
LEMMA ConflictRefutes ==
  ASSUME Inv, Inv7, NEW w \in Writers, pc[w] = "insert",
         Inserting(w) \in {"ErrActiveUserConflict", "ErrSlotConflict", "ErrRootConflict"}
  PROVE  LET c == cur[w]
         IN  /\ store.projected + 1 = c /\ ~ Accepts(trees[c], stream[c]) /\ Untakable(trees[c], stream[c])
<1> DEFINE c == cur[w]
           e == stream[c]
           b == e.body
<1>1. pc[w] \in HandleSteps \ {"rejection"} /\ e.type \in {"root_added", "node_placed"}
  BY DEF Inv, Inv1, Placed, HandleSteps, InsertSteps, Ev
<1>2. /\ c \in 1..Len(stream) /\ (store.projected + 1 = c => View(store.active) = trees[c])
      /\ IsTree(trees[c]) /\ Fit(trees[c]) /\ store.projected \in Nat /\ Len(stream) \in Nat
  BY <1>1, Standing, TableFacts
<1>3. /\ ~ (c < store.projected) /\ ~ HoldsID(store, ID(Ev(w)))
      /\ \/ b.user \in DOMAIN store.active
         \/ RowOf(w).depth = 0 /\ \E x \in DOMAIN store.active : store.active[x].node.depth = 0
         \/ SlotTaken(View(store.active), RowOf(w).parent, RowOf(w).pos)
  BY DEF Inserting, InsertOutcome, Below, Ev
<1> USE <1>2, <1>3
<1>4. store.projected + 1 = c
  BY InsertsAt
<1> USE <1>4
<1>5. /\ View(store.active) = trees[c] /\ DOMAIN trees[c] = DOMAIN store.active
      /\ \A x \in DOMAIN store.active : trees[c][x] = store.active[x].node
  BY DEF View
<1>6. RowOf(w).parent = b.parent /\ RowOf(w).pos = b.pos
      /\ RowOf(w).depth = IF e.type = "root_added" THEN 0 ELSE depth[w]
  BY DEF RowOf, Ev
<1>7. CASE e.type = "root_added"
  <2> USE <1>7
  <2>1. b.pos = NoPos
    BY DEF Inv7, Plain, PlainRoot
  <2>2. b.user \in DOMAIN trees[c] \/ \E x \in DOMAIN trees[c] : trees[c][x].depth = 0
    BY <1>5, <1>6, <2>1 DEF SlotTaken
  <2>3. b.user \in DOMAIN trees[c] \/ HasRoot(trees[c])
    BY <2>2, TopIsRoot
  <2>4. ~ Accepts(trees[c], e)
    BY <2>3 DEF Accepts, Refusal, CheckAddRoot
  <2>5. QED BY <2>4 DEF Untakable
<1>8. CASE e.type = "node_placed"
  <2> USE <1>8
  <2>1. depth[w] > 0 /\ depth[w] \in Nat
    BY DEF Inv, Inv1, TypeOK, Inv7, Handling, Ev
  <2>2. b.user \in DOMAIN trees[c] \/ SlotTaken(trees[c], b.parent, b.pos)
    BY <1>5, <1>6, <2>1
  <2>3. ~ Accepts(trees[c], e)
    BY <2>2 DEF Accepts, Refusal, CheckAddNode
  <2>4. QED BY <2>2, <2>3 DEF Untakable
<1>9. QED BY <1>1, <1>7, <1>8

(* What a redelivery that fails with evidence shows of its event. *)
LEMMA RedeliveryRefutes ==
  ASSUME Inv, Inv5, Inv7, NEW w \in Writers, HandleEvent(w), phase[w] = "catchup", Rejects(w), pc'[w] = "append",
         last[w] = Len(stream)
  PROVE  store' = store /\ Refutable(stream, trees, store.projected, last[w])
<1> DEFINE c == cur[w]
           e == stream[c]
           p == store.projected
<1>1. /\ Inv1 /\ Domains /\ Placed(w) /\ Handling(w) /\ Taken(w) /\ Holds(w) /\ p \in Nat /\ c \in Nat
      /\ Len(stream) \in Nat /\ p <= Len(stream) /\ pc[w] \in HandleSteps
  BY TableFacts, WriterFacts, Projecting DEF Inv, Inv1, Inv4, Inv5, Inv7
<1> USE <1>1
<1>0. store' = store
  BY EvidenceFrom
<1> SUFFICES Refutable(stream, trees, p, last[w])
  BY <1>0
<1>2. c = last[w]
  BY DEF Holds, Engaged
<1> USE <1>2
<1>3. e.type # "event_rejected"
  BY DEF Inv, Inv3, Found, Rejectable
<1>4. pc[w] # "rejection"
  BY <1>3 DEF Placed, IsRejection
<1>5. /\ c \in 1..Len(stream) /\ c <= p + 1 /\ e.type \in Mutations /\ Meaning(stream, trees, c)
      /\ engine[w] \in {trees[c], trees[c + 1]}
      /\ p + 1 = c => Clean(stream, trees, p) /\ View(store.active) = trees[c]
  BY <1>4, Standing
<1> USE <1>5
<1>6. p = c \/ p + 1 = c
  OBVIOUS
<1> USE <1>6
<1>7. ASSUME ~ Accepts(trees[c], e), p = c \/ Untakable(trees[c], e)
      PROVE  Refutable(stream, trees, p, last[w])
  <2> USE <1>7
  <2>1. CASE p = c
    BY <2>1 DEF Refutable
  <2>2. CASE p + 1 = c /\ Untakable(trees[c], e)
    <3>1. c - 1 = p
      BY <2>2
    <3>2. QED BY <2>2, <3>1 DEF Refutable
  <2>3. QED BY <2>1, <2>2
<1>8. Accepts(trees[c], e) => trees[c + 1] = Apply(trees[c], e)
  BY DEF Meaning, Mutations
<1> USE <1>8
<1>9. p = c /\ Accepts(trees[c], e) => View(store.active) = Apply(trees[c], e)
  <2> SUFFICES ASSUME p = c, Accepts(trees[c], e) PROVE View(store.active) = Apply(trees[c], e)
    OBVIOUS
  <2>1. Clean(stream, trees, p)
    BY DEF Clean
  <2>2. QED BY <2>1 DEF Inv7, Table, Rows
<1>10. Ev(w) = e
  BY DEF Ev
<1> USE <1>7, <1>10
<1>11. CASE pc[w] = "parent" /\ e.body.parent \notin DOMAIN store.active
  <2> USE <1>11
  <2>1. e.type = "node_placed"
    BY DEF Placed
  <2>2. Accepts(trees[c], e) => e.body.parent \in DOMAIN trees[c]
    BY <2>1 DEF Accepts, Refusal, CheckAddNode
  <2>3. CASE p = c
    <3>1. e.body.parent \in DOMAIN trees[c] => e.body.parent \in DOMAIN Apply(trees[c], e)
      BY <2>1 DEF Apply, AddNode, With
    <3>2. ~ Accepts(trees[c], e)
      BY <1>9, <2>2, <2>3, <3>1 DEF View
    <3>3. QED BY <2>3, <3>2
  <2>4. CASE p + 1 = c
    <3>1. e.body.parent \notin DOMAIN trees[c]
      BY <2>4 DEF View
    <3>2. QED BY <2>2, <3>1 DEF Untakable
  <2>5. QED BY <2>3, <2>4
<1>12. CASE pc[w] = "insert" /\ Inserting(w) \in {"ErrActiveUserConflict", "ErrSlotConflict", "ErrRootConflict"}
  BY <1>12, ConflictRefutes
<1>13. CASE pc[w] = "replayed" /\ ~ (e.body.user \in DOMAIN store.active /\ store.active[e.body.user].id = ID(e))
  <2> USE <1>13
  <2>1. p = c
    BY DEF Handling
  <2>2. e.type \in {"root_added", "node_placed"}
    BY DEF Placed, InsertSteps
  <2>3. p > 0 /\ e = stream[p] /\ Marked(stream, store)
    BY <2>1 DEF Inv7, Table
  <2>4. e.body.user \in DOMAIN store.active /\ store.active[e.body.user].id = ID(e)
    BY <2>2, <2>3 DEF Marked
  <2>5. QED BY <2>4
<1>14. CASE pc[w] = "engineAdd" /\ Refusal(engine[w], e) \notin Exists \cup {"ok"}
  <2> USE <1>14
  <2>1. p = c
    BY DEF Taken
  <2>2. e.type \in {"root_added", "node_placed"}
    BY DEF Placed, InsertSteps
  <2>3. Refusal(Apply(trees[c], e), e) \in Exists
    <3>1. CASE e.type = "root_added"
      <4>1. HasRoot(AddRoot(trees[c], e.body.user))
        BY DEF HasRoot, AddRoot, With
      <4>2. QED BY <3>1, <4>1 DEF Refusal, Apply, CheckAddRoot, Exists
    <3>2. CASE e.type = "node_placed"
      <4>1. e.body.user \in DOMAIN AddNode(trees[c], e.body.user, e.body.parent, e.body.sponsor, e.body.pos)
        BY DEF AddNode, With
      <4>2. QED BY <3>2, <4>1 DEF Refusal, Apply, CheckAddNode, Exists
    <3>3. QED BY <2>2, <3>1, <3>2
  <2>4. ~ Accepts(trees[c], e)
    BY <2>3 DEF Accepts
  <2>5. QED BY <2>1, <2>4
<1>15. CASE pc[w] = "removal" /\ Refusal(engine[w], e) \notin {"ok", "USER_NOT_FOUND"}
  <2>1. e.type = "node_removed"
    BY <1>15 DEF Placed, RemovalSteps
  <2>2. Refusal(Apply(trees[c], e), e) = "USER_NOT_FOUND"
    <3>1. e.body.user \notin DOMAIN RemoveNode(trees[c], e.body.user)
      BY DEF RemoveNode
    <3>2. QED BY <2>1, <3>1 DEF Refusal, Apply, CheckRemoveNode
  <2>3. ~ Accepts(trees[c], e)
    BY <1>15, <2>2 DEF Accepts
  <2>4. QED BY <2>1, <2>3 DEF Untakable
<1>16. CASE pc[w] = "reconcileUser" /\ e.body.user \notin DOMAIN store.active /\ NewestStamp(store, e.body.user) # ID(e)
  <2> USE <1>16
  <2>1. e.type = "node_removed"
    BY DEF Placed, RemovalSteps
  <2> USE <2>1
  <2>2. p # c
    BY DEF Inv7, Table, Marked
  <2>3. e.body.user \notin DOMAIN trees[c]
    BY <2>2 DEF View
  <2>4. ~ Accepts(trees[c], e)
    BY <2>3 DEF Accepts, Refusal, CheckRemoveNode
  <2>5. QED BY <2>4 DEF Untakable
<1> HIDE DEF e
<1>17. QED BY <1>11, <1>12, <1>13, <1>14, <1>15, <1>16, EvidenceFrom

(* A load that fails with evidence refutes the event. *)
LEMMA LoadRefutes ==
  ASSUME Inv, Inv7, NEW w \in Writers, Rejects(w), pc'[w] = "append", last[w] = Len(stream),
         BuildFailed(w) \/ StuckRowStopsTheLoad(w)
  PROVE  Refutable(stream, trees, store.projected, last[w])
<1> DEFINE n == last[w]
           p == store.projected
<1>1. /\ Inv1 /\ Domains /\ Loading(w) /\ Len(stream) \in Nat /\ p \in Nat /\ p <= Len(stream)
      /\ loaded[w] \in Nat /\ loaded[w] <= p /\ at[w] \in Nat /\ n \in Nat
  BY TableFacts, WriterFacts DEF Inv, Inv1, Inv7, Loading
<1>2. Rejectable(stream, n, req[w].body.target)
  BY DEF Inv, Inv3, Found, BuildFailed, StuckRowStopsTheLoad
<1>3. n \in 1..Len(stream) /\ stream[n].type # "event_rejected" /\ ID(stream[n]) = req[w].body.target
  BY <1>2 DEF Rejectable
<1> USE DEF Domains, Goto
<1> USE <1>1, <1>3
<1>4. CASE BuildFailed(w)
  <2>1. /\ pc[w] = "buildFailed" /\ Preflight(View(seen[w])) /\ at[w] + 1 = n /\ at[w] < loaded[w]
        /\ Refusal(engine[w], stream[n]) \in Evidence
    BY <1>4 DEF BuildFailed, Refuse
  <2> USE <2>1
  <2>2. ~ Undone(stream, at[w], loaded[w])
    BY DEF Undone
  <2>3. engine[w] = trees[n]
    BY <2>2 DEF Loading
  <2>4. ~ Accepts(trees[n], stream[n])
    BY <2>3 DEF Accepts, Evidence
  <2>5. n <= p
    OBVIOUS
  <2>6. QED BY <2>4, <2>5 DEF Refutable
<1>5. CASE StuckRowStopsTheLoad(w)
  <2>1. pc[w] = "stuckRow" /\ \E u \in DOMAIN store.active : store.active[u].id = req[w].body.target
    BY <1>5 DEF StuckRowStopsTheLoad, Refuse
  <2>2. PICK v \in 1..p : ID(stream[v]) = ID(stream[n])
    BY <2>1 DEF Inv7, Table, Sourced
  <2>3. v \in 1..Len(stream)
    OBVIOUS
  <2>4. v = n
    BY <2>2, <2>3, TableFacts
  <2>5. p = n
    BY <2>4
  <2>6. ~ Clean(stream, trees, loaded[w]) /\ n <= loaded[w] + 1
    BY <2>1 DEF Loading
  <2> USE <2>5, <2>6
  <2>7. loaded[w] = n
    <3> SUFFICES ASSUME loaded[w] # n PROVE FALSE
      OBVIOUS
    <3>1. loaded[w] + 1 = n /\ loaded[w] # 0
      BY DEF Clean
    <3>2. loaded[w] \in 1..(p - 1)
      BY <3>1
    <3>3. QED BY <3>1, <3>2 DEF Inv7, Table, Cleared
  <2>8. ~ Accepts(trees[n], stream[n])
    BY <2>7 DEF Clean
  <2>9. n <= p
    OBVIOUS
  <2>10. QED BY <2>8, <2>9 DEF Refutable
<1>6. QED BY <1>4, <1>5

(* Every own step keeps where an append is aimed. *)
LEMMA OwnAiming ==
  ASSUME Inv, Inv5, Inv7, NEW w \in Writers, LocalStep(w)
  PROVE  Aiming(w)'
<1>1. /\ Inv1 /\ Domains /\ Placed(w) /\ Aiming(w) /\ Holds(w) /\ [Next]_vars
      /\ Len(stream) \in Nat /\ store.projected \in Nat /\ last[w] \in Nat /\ last[w] <= Len(stream)
  BY TableFacts, WriterFacts DEF Inv, Inv1, Inv4, Inv7, Placed, Next, LocalStep
<1> USE <1>1
<1>2. Grows /\ Len(stream') \in Nat
  BY StepGrows
<1>3. \A v \in 0..Len(stream) : Clean(stream', trees', v) <=> Clean(stream, trees, v)
  BY <1>2, CleanStays
<1>4. CASE pc'[w] = "confirm"
  <2>1. pc[w] = "append" /\ req' = req /\ (AppendCommits(w) \/ AppendUnanswered(w))
    BY <1>4, ConfirmFollowsAppend
  <2> USE <2>1
  <2>2. store' = store /\ last' = last
    BY DEF AppendCommits, AppendUnanswered, appendFrame
  <2>3. Rejects(w)' <=> Rejects(w)
    BY DEF Rejects, Kind
  <2>4. ~ Rejects(w) => last[w] <= store.projected /\ Clean(stream', trees', last[w])
    BY <1>3 DEF Aiming
  <2>5. QED BY <1>4, <2>2, <2>3, <2>4 DEF Aiming
<1>5. CASE pc'[w] = "append"
  <2> USE <1>5
  <2>1. CASE HandleEvent(w) /\ phase[w] = "catchup"
    <3> USE <2>1
    <3>1. UNCHANGED <<stream, trees, req, last>> /\ pc[w] \in HandleSteps
      BY Projecting
    <3> USE <3>1
    <3>2. Rejects(w)' <=> Rejects(w)
      BY DEF Rejects, Kind
    <3>3. ~ Rejects(w) => last[w] <= store'.projected /\ Clean(stream, trees, last[w])
      <4> SUFFICES ASSUME ~ Rejects(w) PROVE last[w] <= store'.projected /\ Clean(stream, trees, last[w])
        OBVIOUS
      <4>1. cur[w] = last[w]
        BY DEF Holds, Engaged
      <4>2. QED BY <4>1, Redelivered
    <3>4. Rejects(w) /\ last[w] = Len(stream) => store' = store /\ Refutable(stream, trees, store.projected, last[w])
      BY RedeliveryRefutes
    <3>5. QED BY <3>2, <3>3, <3>4 DEF Aiming
  <2>2. CASE ReadLast(w) /\ Len(stream) = 0
    <3>1. UNCHANGED <<stream, trees, store, req>> /\ last'[w] = 0
      BY <2>2 DEF ReadLast, streamVars, Domains
    <3>2. ~ Rejects(w)
      BY <2>2 DEF Placed
    <3>3. Rejects(w)' <=> Rejects(w)
      BY <3>1 DEF Rejects, Kind
    <3>4. 0 <= store.projected /\ Clean(stream, trees, 0)
      BY DEF Clean
    <3>5. QED BY <3>1, <3>2, <3>3, <3>4 DEF Aiming
  <2>3. CASE (BuildFailed(w) \/ StuckRowStopsTheLoad(w)) /\ Rejects(w)
    <3> USE <2>3
    <3>1. UNCHANGED <<stream, trees, store, req, last>>
      BY DEF BuildFailed, StuckRowStopsTheLoad, streamVars
    <3>2. Rejects(w)' <=> Rejects(w)
      BY <3>1 DEF Rejects, Kind
    <3>3. last[w] = Len(stream) => Refutable(stream, trees, store.projected, last[w])
      BY LoadRefutes
    <3>4. QED BY <3>1, <3>2, <3>3 DEF Aiming
  <2>4. QED BY <2>1, <2>2, <2>3, AppendFrom
<1>6. CASE pc'[w] \notin {"append", "confirm"}
  BY <1>6 DEF Aiming
<1>7. QED BY <1>4, <1>5, <1>6

=============================================================================
