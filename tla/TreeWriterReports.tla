-------------------------- MODULE TreeWriterReports -------------------------
(***************************************************************************)
(* No step uses an id twice, parts a rejection from the event it names,    *)
(* makes what a command reports about its event false, or adds an event of *)
(* a second tree type while no lock is lost, for any number of writers,    *)
(* users and events, failed calls, crashes and late commits.               *)
(***************************************************************************)
EXTENDS TreeWriterSteps

USE Untyped

-----------------------------------------------------------------------------

(***************************************************************************)
(* Event ids.                                                              *)
(***************************************************************************)
(* A new request carries an id that nothing else does, or none. *)
LEMMA BeginFresh ==
  ASSUME Inv1, NEW w \in Writers, Begin(w)
  PROVE  /\ UNCHANGED <<stream, inflight>> /\ pc'[w] = "lock"
         /\ Kind(w)' = "load" \/ (ID(req'[w]) > 0 /\ ID(req'[w]) \notin UsedIDs)
<1>1. DOMAIN pc = Writers /\ DOMAIN req = Writers
  BY WriterFacts DEF Domains
<1>2. UNCHANGED <<stream, inflight>> /\ pc'[w] = "lock"
  BY <1>1 DEF Begin, StartAddRoot, StartPlace, StartRemove, StartLoad, StartReject, Start, Goto, streamVars
<1>3. \A k, b, t : Start(w, k, b, t) /\ k # "load" => NewID > 0 /\ NewID \notin UsedIDs
  BY NewIDFresh DEF Start
<1>4. \A k, b, t : Start(w, k, b, t) => Kind(w)' = k /\ ID(req'[w]) = b.id
  BY <1>1 DEF Start, Kind, ID
<1>5. \A u, p, s, pos, x : Body(NewID, u, p, s, pos, x).id = NewID
  BY DEF Body
<1>6. CASE StartAddRoot(w) \/ StartPlace(w) \/ StartRemove(w) \/ StartReject(w)
  BY <1>3, <1>4, <1>5, <1>6, <1>2 DEF StartAddRoot, StartPlace, StartRemove, StartReject
<1>7. CASE StartLoad(w)
  BY <1>4, <1>7, <1>2 DEF StartLoad
<1>8. QED BY <1>6, <1>7 DEF Begin

(* Appending an event with an id of its own. *)
LEMMA ApartExtend ==
  ASSUME Inv1, Apart, NEW e \in Events, Extend(e), e.type = "event_rejected" => stream # <<>>,
         \A v \in 1..Len(stream) : ID(stream[v]) # ID(e),
         inflight' \subseteq inflight, \A f \in inflight' : ID(f.event) # ID(e)
  PROVE  Apart'
<1>1. TypeOK /\ Len(stream) \in Nat
  BY DEF Inv1, TypeOK
<1>2. /\ Len(stream') = Len(stream) + 1 /\ stream'[Len(stream) + 1] = e
      /\ \A v \in 1..Len(stream) : stream'[v] = stream[v]
  BY <1>1, ExtendGrows DEF Grows
<1>3. \A v \in 1..Len(stream') :
         (v \in 1..Len(stream) /\ stream'[v] = stream[v]) \/ (v = Len(stream) + 1 /\ stream'[v] = e)
  BY <1>1, <1>2
<1>4. QED BY <1>3 DEF Apart

(* What keeps the id of a request the command's own. *)
LEMMA OwnStays ==
  ASSUME Inv2, NEW x \in Writers, req'[x] = req[x], PreAppend(x)' => PreAppend(x),
         pc'[x] = "confirm" => Kind(x) # "load",
         Kind(x) # "load" =>
            /\ \A y \in Writers : y # x /\ Kind(y)' # "load" => ID(req'[y]) # ID(req[x])
            /\ \A v \in 1..Len(stream') : \/ v \in 1..Len(stream) /\ stream'[v] = stream[v]
                                          \/ \E f \in inflight : stream'[v] = f.event
                                          \/ ID(stream'[v]) # ID(req[x])
            /\ \A f \in inflight' : f \in inflight \/ ID(f.event) # ID(req[x])
  PROVE  OwnID(x)'
<1>1. OwnID(x) /\ Kind(x)' = Kind(x)
  BY DEF Inv2, Kind
<1>2. SUFFICES ASSUME Kind(x) # "load" PROVE OwnID(x)'
  BY <1>1 DEF OwnID
<1>3. /\ ID(req'[x]) > 0
      /\ \A y \in Writers : Kind(y)' # "load" /\ ID(req'[y]) = ID(req'[x]) => y = x
  BY <1>1, <1>2 DEF OwnID
<1>4. \A v \in 1..Len(stream') : ID(stream'[v]) = ID(req'[x]) => ~ PreAppend(x)' /\ stream'[v].type = Kind(x)
  BY <1>1, <1>2 DEF OwnID
<1>5. \A f \in inflight' : ID(f.event) = ID(req'[x]) => ~ PreAppend(x)' /\ f.event.type = Kind(x)
  BY <1>1, <1>2 DEF OwnID
<1>6. QED BY <1>1, <1>2, <1>3, <1>4, <1>5 DEF OwnID

(* Nothing a writer does gives two events, or two requests, one id. *)
LEMMA LocalInv2 ==
  ASSUME Inv1, Inv2, NEW w \in Writers, LocalStep(w)
  PROVE  Inv2'
<1>1. Domains /\ Placed(w) /\ OwnID(w) /\ Apart /\ TypeOK
  BY WriterFacts DEF Inv1, Inv2
<1> USE <1>1
<1>2. \A x \in Writers : x # w => Same(x)
  BY Locality
<1> USE <1>2
<1>3. \A x \in Writers : x # w => (PreAppend(x)' => PreAppend(x)) /\ (pc'[x] = "confirm" => Kind(x) # "load")
  BY DEF Same, PreAppend, Inv2, OwnID
<1>4. \A x, y \in Writers : Kind(x) # "load" /\ Kind(y) # "load" /\ x # y => ID(req[x]) # ID(req[y])
  BY DEF Inv2, OwnID
<1> USE <1>3, <1>4
<1>5. CASE Begin(w)
  <2>1. UNCHANGED <<stream, inflight>> /\ pc'[w] = "lock"
    BY <1>5, BeginFresh
  <2>2. Kind(w)' = "load" \/ (ID(req'[w]) > 0 /\ ID(req'[w]) \notin UsedIDs)
    BY <1>5, BeginFresh
  <2>3. DOMAIN stream = 1..Len(stream)
    BY WriterFacts
  <2>4. Kind(w)' = "load" \/ /\ ID(req'[w]) > 0
                             /\ \A v \in 1..Len(stream) : ID(stream[v]) # ID(req'[w])
                             /\ \A f \in inflight : ID(f.event) # ID(req'[w])
                             /\ \A x \in Writers : ID(req[x]) # ID(req'[w])
    BY <2>2, <2>3 DEF UsedIDs, ID
  <2> USE <2>1
  <2>5. ASSUME NEW x \in Writers, x # w PROVE OwnID(x)'
    <3>1. req'[x] = req[x] /\ \A y \in Writers : y # w => req'[y] = req[y] /\ Kind(y)' = Kind(y)
      BY <2>5 DEF Same, Kind
    <3>2. Kind(x) # "load" => \A y \in Writers : y # x /\ Kind(y)' # "load" => ID(req'[y]) # ID(req[x])
      BY <2>4, <3>1
    <3>3. QED BY <2>5, <3>1, <3>2, OwnStays
  <2>6. OwnID(w)'
    <3>1. \A y \in Writers : y # w => req'[y] = req[y]
      BY DEF Same
    <3>2. QED BY <2>4, <3>1 DEF OwnID
  <2>7. Apart'
    BY DEF Apart
  <2>8. QED BY <2>5, <2>6, <2>7 DEF Inv2
<1>6. CASE AppendCommits(w) \/ AppendUnanswered(w)
  <2>1. pc[w] = "append" /\ req' = req /\ PreAppend(w) /\ Kind(w) # "load"
    BY <1>6 DEF AppendCommits, AppendUnanswered, appendFrame, PreAppend, Placed
  <2> DEFINE e == NewEvent(w)
  <2> USE <2>1
  <2>2. ID(e) = ID(req[w]) /\ e.type = Kind(w) /\ e \in Events /\ (e.type = "event_rejected" => stream # <<>>)
    BY NewEventIsEvent DEF NewEvent, ID, Kind
  <2> USE <2>2
  <2>3. (\A v \in 1..Len(stream) : ID(stream[v]) # ID(e)) /\ \A f \in inflight : ID(f.event) # ID(e)
    BY DEF OwnID
  <2>4. \A x \in Writers : x # w /\ Kind(x) # "load" => ID(req[x]) # ID(e)
    OBVIOUS
  <2>5. \A y \in Writers : Kind(y)' = Kind(y) /\ req'[y] = req[y]
    BY DEF Kind
  <2> USE <2>3, <2>5
  <2>6. CASE AppendCommits(w)
    <3>1. Extend(e) /\ inflight' = inflight
      BY <2>6 DEF AppendCommits
    <3> USE <3>1
    <3>2. Apart'
      BY ApartExtend
    <3>3. /\ Len(stream) \in Nat /\ Len(stream') = Len(stream) + 1 /\ stream'[Len(stream) + 1] = e
          /\ \A v \in 1..Len(stream) : stream'[v] = stream[v]
      BY ExtendGrows, WriterFacts DEF Grows
    <3>4. \A v \in 1..Len(stream') : (v \in 1..Len(stream) /\ stream'[v] = stream[v]) \/ stream'[v] = e
      BY <3>3
    <3>5. ASSUME NEW x \in Writers, x # w PROVE OwnID(x)'
      <4>1. Kind(x) # "load" => \A y \in Writers : y # x /\ Kind(y)' # "load" => ID(req'[y]) # ID(req[x])
        OBVIOUS
      <4>2. Kind(x) # "load" => ID(e) # ID(req[x])
        BY <2>4, <3>5
      <4> HIDE DEF e
      <4>3. QED BY <3>4, <3>5, <4>1, <4>2, OwnStays
    <3>6. ~ PreAppend(w)'
      <4>1. e.type \in EventTypes
        BY DEF Events
      <4>2. \/ Handle(w, e, Len(stream) + 1, "project")
            \/ Goto(w, "confirm")
        BY <2>6 DEF AppendCommits
      <4> HIDE DEF e
      <4>3. pc'[w] = "confirm" \/ (pc'[w] \in HandleSteps /\ phase'[w] = "project")
        BY <4>1, <4>2 DEF Handle, Goto, Domains, EventTypes, HandleSteps
      <4>4. QED BY <4>3 DEF PreAppend, PrepareSteps, HandleSteps
    <3>7. OwnID(w)'
      <4> HIDE DEF e
      <4>1. \A v \in 1..Len(stream') : ID(stream'[v]) = ID(req'[w]) => stream'[v].type = Kind(w)'
        BY <3>4
      <4>2. \A y \in Writers : Kind(y)' # "load" /\ ID(req'[y]) = ID(req'[w]) => y = w
        OBVIOUS
      <4>3. \A f \in inflight' : ID(f.event) # ID(req'[w])
        OBVIOUS
      <4>4. ID(req'[w]) > 0
        BY DEF OwnID
      <4>5. QED BY <3>6, <4>1, <4>2, <4>3, <4>4 DEF OwnID
    <3>8. QED BY <3>2, <3>5, <3>7 DEF Inv2
  <2>7. CASE AppendUnanswered(w)
    <3> DEFINE g == [event |-> e, after |-> last[w]]
    <3>1. stream' = stream /\ inflight' = inflight \cup {g} /\ pc'[w] = "confirm"
      BY <2>7 DEF AppendUnanswered, streamVars, Goto, Domains
    <3>2. g.event = e
      OBVIOUS
    <3> HIDE DEF g, e
    <3> USE <3>1, <3>2
    <3>3. Apart'
      BY DEF Apart
    <3>4. ASSUME NEW x \in Writers, x # w PROVE OwnID(x)'
      <4>1. Kind(x) # "load" => \A y \in Writers : y # x /\ Kind(y)' # "load" => ID(req'[y]) # ID(req[x])
        OBVIOUS
      <4>2. Kind(x) # "load" => ID(e) # ID(req[x])
        BY <2>4, <3>4
      <4>3. QED BY <3>4, <4>1, <4>2, OwnStays
    <3>5. OwnID(w)'
      <4>1. ~ PreAppend(w)'
        BY DEF PreAppend, PrepareSteps, HandleSteps
      <4>2. \A y \in Writers : Kind(y)' # "load" /\ ID(req'[y]) = ID(req'[w]) => y = w
        OBVIOUS
      <4>3. \A f \in inflight' : ID(f.event) = ID(req'[w]) => f.event.type = Kind(w)'
        OBVIOUS
      <4>4. ID(req'[w]) > 0 /\ \A v \in 1..Len(stream') : ID(stream'[v]) # ID(req'[w])
        BY DEF OwnID
      <4>5. QED BY <4>1, <4>2, <4>3, <4>4 DEF OwnID
    <3>6. QED BY <3>3, <3>4, <3>5 DEF Inv2
  <2>8. QED BY <1>6, <2>6, <2>7
<1>7. CASE ~ Begin(w) /\ ~ AppendCommits(w) /\ ~ AppendUnanswered(w)
  <2> USE <1>7
  <2>1. UNCHANGED <<stream, inflight>>
    BY Writes
  <2>2. Apart'
    BY <2>1 DEF Apart
  <2>3. req' = req \/ (Forget(w) /\ Kind(w)' = "load" /\ pc'[w] = "idle")
    BY RequestKept DEF Forget, Goto, Domains, NoRequest, Kind
  <2>4. \A y \in Writers : (Kind(y)' = Kind(y) /\ req'[y] = req[y]) \/ Kind(y)' = "load"
    BY <2>3 DEF Kind, Same
  <2>5. ASSUME NEW x \in Writers, req'[x] = req[x],
               PreAppend(x)' => PreAppend(x), pc'[x] = "confirm" => Kind(x) # "load"
        PROVE  OwnID(x)'
    <3>1. Kind(x) # "load" => \A y \in Writers : y # x /\ Kind(y)' # "load" => ID(req'[y]) # ID(req[x])
      BY <2>4
    <3>2. QED BY <2>1, <2>5, <3>1, OwnStays
  <2>6. \A x \in Writers : x # w => OwnID(x)'
    BY <2>5 DEF Same
  <2>7. OwnID(w)'
    <3>1. CASE Kind(w)' = "load" /\ pc'[w] = "idle"
      BY <3>1 DEF OwnID
    <3>2. CASE req' = req
      <4>1. PreAppend(w)' => PreAppend(w)
        BY SentOnce
      <4>2. pc'[w] # "confirm"
        BY ConfirmFollowsAppend
      <4>3. QED BY <2>5, <3>2, <4>1, <4>2
    <3>3. QED BY <2>3, <3>1, <3>2
  <2>8. QED BY <2>2, <2>6, <2>7 DEF Inv2
<1>8. QED BY <1>5, <1>6, <1>7

(* Ids stay apart. *)
LEMMA StepInv2 == Inv1 /\ Inv2 /\ [Next]_vars => Inv2'
<1> SUFFICES ASSUME Inv1, Inv2, [Next]_vars PROVE Inv2'
  OBVIOUS
<1>1. Apart /\ TypeOK /\ Len(stream) \in Nat /\ \A x \in Writers : OwnID(x)
  <2>1. TypeOK
    BY DEF Inv1
  <2>2. stream \in Seq(Events)
    BY <2>1 DEF TypeOK
  <2>3. QED BY <2>1, <2>2 DEF Inv2
<1>3. CASE UNCHANGED vars
  <2>1. UNCHANGED <<pc, req, phase, stream, inflight>>
    BY <1>3 DEF vars
  <2>2. QED BY <2>1 DEF Inv2, Apart, OwnID, PreAppend, Kind
<1>4. CASE CommitFails \/ LoseLock
  <2>1. UNCHANGED <<pc, req, phase, stream>> /\ inflight' \subseteq inflight
    BY <1>4 DEF CommitFails, LoseLock, streamVars, appendFrame, handleVars
  <2>2. QED BY <2>1 DEF Inv2, Apart, OwnID, PreAppend, Kind
<1> USE <1>1
<1>5. CASE CommitLands
  <2>1. PICK f \in inflight : Extend(f.event) /\ inflight' = inflight \ {f}
    BY <1>5 DEF CommitLands
  <2>2. UNCHANGED <<pc, req, phase>>
    BY <1>5 DEF CommitLands, appendFrame, handleVars
  <2>3. f.event \in Events /\ (f.event.type = "event_rejected" => stream # <<>>)
    BY DEF Inv1, TypeOK
  <2> USE <2>1
  <2>4. (\A v \in 1..Len(stream) : ID(stream[v]) # ID(f.event)) /\ \A g \in inflight' : ID(g.event) # ID(f.event)
    BY DEF Apart
  <2>5. Apart'
    BY <2>3, <2>4, ApartExtend
  <2>6. /\ Len(stream') = Len(stream) + 1 /\ stream'[Len(stream) + 1] = f.event
        /\ \A v \in 1..Len(stream) : stream'[v] = stream[v]
    BY <2>3, ExtendGrows DEF Grows
  <2>7. \A v \in 1..Len(stream') : (v \in 1..Len(stream) /\ stream'[v] = stream[v]) \/ stream'[v] = f.event
    BY <2>6
  <2>8. \A x \in Writers : OwnID(x)'
    BY <2>2, <2>7 DEF OwnID, PreAppend, Kind
  <2>9. QED BY <2>5, <2>8 DEF Inv2
<1>6. CASE Stray
  <2> USE <1>6
  <2>1. PICK e \in Unchecked : Extend(e)
    BY DEF Stray
  <2>2. UNCHANGED <<pc, req, phase, inflight>>
    BY DEF Stray, handleVars
  <2> USE <2>1
  <2>3. ID(e) = NewID /\ e.type # "event_rejected"
    <3>1. \A u, p, s, pos, x : Body(NewID, u, p, s, pos, x).id = NewID
      BY DEF Body
    <3>2. QED BY <3>1 DEF Unchecked, ID
  <2>4. NewID \notin UsedIDs
    BY NewIDFresh DEF Stray
  <2>5. DOMAIN stream = 1..Len(stream)
    BY DEF Inv1, TypeOK
  <2>6. /\ \A v \in 1..Len(stream) : ID(stream[v]) # ID(e)
        /\ \A f \in inflight : ID(f.event) # ID(e)
        /\ \A x \in Writers : ID(req[x]) # ID(e)
    BY <2>3, <2>4, <2>5 DEF UsedIDs, ID
  <2>7. stream' # stream
    BY DEF Extend, TypeOK
  <2>8. PICK d \in Events : Extend(d) /\ (d.type = "event_rejected" => stream # <<>>)
    BY <2>7, Growth DEF Next
  <2>9. /\ Len(stream') = Len(stream) + 1 /\ stream'[Len(stream) + 1] = d
        /\ \A v \in 1..Len(stream) : stream'[v] = stream[v]
    BY <2>8, ExtendGrows DEF Grows
  <2>10. stream'[Len(stream) + 1] = e
    BY DEF Extend, TypeOK
  <2>11. Apart'
    BY <2>2, <2>6, <2>8, <2>9, <2>10, ApartExtend
  <2>12. \A v \in 1..Len(stream') : (v \in 1..Len(stream) /\ stream'[v] = stream[v]) \/ stream'[v] = e
    BY <2>9, <2>10
  <2>13. \A x \in Writers : OwnID(x)'
    BY <2>2, <2>6, <2>12 DEF OwnID, PreAppend, Kind
  <2>14. QED BY <2>11, <2>13 DEF Inv2
<1>7. CASE \E w \in Writers : LocalStep(w)
  BY <1>7, LocalInv2
<1>8. QED BY <1>3, <1>4, <1>5, <1>6, <1>7 DEF Next, LocalStep

(* At the start there are no ids. *)
LEMMA InitInv2 == Init => Inv2
<1> SUFFICES ASSUME Init PROVE Inv2
  OBVIOUS
<1>1. Len(stream) = 0 /\ inflight = {} /\ 1..Len(stream) = {}
  BY DEF Init
<1>2. \A w \in Writers : pc[w] = "idle" /\ Kind(w) = "load"
  BY DEF Init, Kind, NoRequest
<1>3. QED BY <1>1, <1>2 DEF Inv2, Apart, OwnID

-----------------------------------------------------------------------------

(***************************************************************************)
(* Rejections.                                                             *)
(***************************************************************************)
(* What was rejectable stays so. *)
LEMMA RejectableStays ==
  ASSUME Grows, Len(stream) \in Nat, Len(stream') \in Nat
  PROVE  \A v, id : Rejectable(stream, v, id) => Rejectable(stream', v, id)
<1>1. \A v \in 1..Len(stream) : v \in 1..Len(stream') /\ stream'[v] = stream[v]
  BY DEF Grows
<1>2. QED BY <1>1 DEF Rejectable

(* A rejection appended directly after the event it names. *)
LEMMA NamedExtend ==
  ASSUME Inv1, Named, NEW e \in Events, Extend(e), e.type = "event_rejected" => stream # <<>>,
         e.type = "event_rejected" => Rejectable(stream, Len(stream), e.body.target)
  PROVE  Named'
<1>1. TypeOK
  BY DEF Inv1
<1>2. Grows /\ Len(stream') = Len(stream) + 1 /\ stream'[Len(stream) + 1] = e
  BY <1>1, ExtendGrows
<1>3. stream \in Seq(Events)
  BY <1>1 DEF TypeOK
<1>4. Len(stream) \in Nat /\ Len(stream') \in Nat
  BY <1>2, <1>3
<1>5. \A v, id : Rejectable(stream, v, id) => Rejectable(stream', v, id)
  BY <1>2, <1>4, RejectableStays
<1>6. ASSUME NEW v \in 1..Len(stream'), stream'[v].type = "event_rejected"
      PROVE  Rejectable(stream', v - 1, stream'[v].body.target)
  <2>1. CASE v \in 1..Len(stream)
    <3>1. stream'[v] = stream[v]
      BY <1>2, <2>1 DEF Grows
    <3>2. QED BY <1>5, <1>6, <2>1, <3>1 DEF Named, IsRejection
  <2>2. CASE v = Len(stream) + 1
    <3>1. v - 1 = Len(stream) /\ stream'[v] = e
      BY <1>2, <1>4, <2>2
    <3>2. QED BY <1>5, <1>6, <3>1
  <2>3. QED BY <1>2, <1>4, <2>1, <2>2
<1>7. QED BY <1>6 DEF Named, IsRejection

(* Only the read of the last event finds it. *)
LEMMA FoundFrom ==
  ASSUME Inv1, NEW w \in Writers, LocalStep(w), Rejects(w), Found(w)',
         ~ Begin(w), ~ RejectReadLast(w), ~ ReadLast(w)
  PROVE  Found(w) /\ last' = last
<1>1. Domains /\ Placed(w) /\ phase[w] \in {"load", "catchup", "project", "resume"}
  BY WriterFacts DEF Inv1, TypeOK
<1>2. pc'[w] \notin {"idle", "lock", "unlock", "observe", "confirm", "snapCheck", "snapPut", "rejectProjected",
                     "rejectLast", "underLock"}
  BY DEF Found, HandleSteps
<1> USE DEF Domains, Goto
<1> USE <1>1, <1>2
<1>3. ~ Forget(w)
  BY DEF Forget
<1> USE <1>3
<1>4. CASE Lock(w) \/ LockTimeout(w) \/ UnderLock(w) \/ RejectReadProjected(w)
  BY <1>4 DEF Lock, LockTimeout, UnderLock, RejectReadProjected, Placed, Rejects, Kind
<1>5. CASE ReadRows(w) \/ UsableSnapshot(w) \/ SnapshotUnread(w) \/ Replay(w) \/ CheckMembership(w)
           \/ BuildFailed(w) \/ StuckRowStopsTheLoad(w)
  BY <1>5 DEF ReadRows, UsableSnapshot, SnapshotUnread, Replay, CheckMembership, BuildFailed,
       StuckRowStopsTheLoad, Found
<1>6. CASE pc[w] \in HandleSteps /\ UNCHANGED <<last, phase>>
           /\ (HandleDone(w) \/ \E why : HandleFails(w, why))
  <2>1. phase[w] = "catchup"
    BY <1>6 DEF HandleDone, HandleFails, Refuse, Placed
  <2>2. QED BY <1>6, <2>1 DEF Found
<1>7. CASE HandleEvent(w)
  <2>1. pc[w] \in HandleSteps /\ UNCHANGED <<last, phase>>
    BY <1>7 DEF HandleEvent, ReadParent, InsertRow, CheckReplayedInsert, EngineAdd, ReconcileAdd, RemoveRow,
         RemovalReplyLost, RemovalRefused, ReconcileStamp, ReconcileUser, RejectRow, handleFrame, HandleSteps
  <2>2. \/ HandleDone(w) \/ \E why : HandleFails(w, why)
        \/ \E l \in InsertSteps \cup RemovalSteps : Goto(w, l)
    BY <1>7 DEF HandleEvent, ReadParent, InsertRow, CheckReplayedInsert, EngineAdd, ReconcileAdd, RemoveRow,
         RemovalReplyLost, RemovalRefused, ReconcileStamp, ReconcileUser, RejectRow, InsertSteps, RemovalSteps
  <2>3. CASE \E l \in InsertSteps \cup RemovalSteps : Goto(w, l)
    <3>1. pc'[w] \in InsertSteps \cup RemovalSteps
      BY <2>3
    <3>2. phase'[w] = "catchup"
      BY <3>1 DEF Found, InsertSteps, RemovalSteps
    <3>3. QED BY <2>1, <3>2 DEF Found
  <2>4. QED BY <1>6, <2>1, <2>2, <2>3
<1>8. CASE Write(w)
  <2>1. CASE AppendCommits(w)
    <3>1. NewEvent(w).type \in EventTypes
      BY <2>1, NewEventIsEvent DEF AppendCommits, Events
    <3>2. QED BY <2>1, <3>1 DEF AppendCommits, appendFrame, Found
  <2>2. CASE ConfirmAppend(w)
    <3>1. Handle(w, stream[last[w] + 1], last[w] + 1, "project")
      BY <2>2 DEF ConfirmAppend, Refuse
    <3>2. stream[last[w] + 1].type \in EventTypes
      <4>1. last[w] \in Nat /\ Len(stream) \in Nat /\ \A v \in 1..Len(stream) : stream[v].type \in EventTypes
        BY WriterFacts
      <4>2. CASE last[w] + 1 > Len(stream)
        BY <2>2, <4>2 DEF ConfirmAppend, Refuse
      <4>3. QED BY <4>1, <4>2
    <3>3. phase'[w] = "project" /\ pc'[w] \in HandleSteps
      BY <3>1, <3>2 DEF Handle, EventTypes, HandleSteps
    <3>4. QED BY <3>3 DEF Found, HandleSteps
  <2>3. CASE ~ AppendCommits(w) /\ ~ ConfirmAppend(w)
    BY <1>8, <2>3 DEF Write, CheckRefuses, AppendConflicts, AppendUnanswered, Observe,
       SnapshotCheck, SnapshotPut, Unlock, Refuse
  <2>4. QED BY <2>1, <2>2, <2>3
<1>9. CASE CallFails(w)
  <2>1. UNCHANGED <<last, phase>>
    BY <1>9 DEF CallFails, appendFrame, handleVars
  <2>2. pc[w] \in HandleSteps /\ HandleFails(w, "callFailed")
    BY <1>9 DEF CallFails, Refuse
  <2>3. QED BY <1>6, <2>1, <2>2
<1>10. CASE Crash(w)
  BY <1>10 DEF Crash
<1>11. QED BY <1>4, <1>5, <1>7, <1>8, <1>9, <1>10 DEF LocalStep, Step, Prepare

(* A writer's step keeps the rejections next to what they name. *)
LEMMA LocalInv3 ==
  ASSUME Inv1, Inv2, Inv3, NEW w \in Writers, LocalStep(w)
  PROVE  Inv3'
<1>1. Domains /\ Placed(w) /\ TypeOK /\ Apart
  BY WriterFacts DEF Inv1, Inv2
<1> USE <1>1
<1>2. \A x \in Writers : x # w => Same(x)
  BY Locality
<1>3. [Next]_vars
  BY DEF Next, LocalStep
<1>4. Grows /\ Len(stream') \in Nat /\ Len(stream) \in Nat
  BY <1>3, StepGrows
<1> USE <1>4
<1>5. \A v, id : Rejectable(stream, v, id) => Rejectable(stream', v, id)
  BY RejectableStays
<1>6. pc[w] = "append" /\ Rejects(w) => Rejectable(stream, last[w], req[w].body.target)
  BY DEF Inv3, Found
<1>7. Named'
  <2>1. CASE AppendCommits(w)
    <3>1. pc[w] = "append" /\ Extend(NewEvent(w)) /\ Len(stream) = last[w]
      BY <2>1 DEF AppendCommits, AtExpectedVersion
    <3> USE <3>1
    <3>2. NewEvent(w) \in Events /\ (NewEvent(w).type = "event_rejected" => stream # <<>>)
      BY NewEventIsEvent
    <3>3. NewEvent(w).type = Kind(w) /\ NewEvent(w).body.target = req[w].body.target
      BY DEF NewEvent, Kind
    <3>4. NewEvent(w).type = "event_rejected" => Rejectable(stream, Len(stream), NewEvent(w).body.target)
      BY <1>6, <3>3 DEF Rejects
    <3>5. QED BY <3>2, <3>4, NamedExtend DEF Inv3
  <2>2. CASE stream' = stream
    BY <2>2 DEF Inv3, Named, IsRejection
  <2>3. QED BY <2>1, <2>2, Writes
<1> USE <1>5
<1>8. \A f \in inflight' : f.event.type = "event_rejected" => Rejectable(stream', f.after, f.event.body.target)
  <2>1. CASE AppendUnanswered(w)
    <3> DEFINE g == [event |-> NewEvent(w), after |-> last[w]]
    <3>1. pc[w] = "append" /\ inflight' = inflight \cup {g}
      BY <2>1 DEF AppendUnanswered
    <3>2. g.event.type = Kind(w) /\ g.event.body.target = req[w].body.target /\ g.after = last[w]
      BY DEF NewEvent, Kind
    <3> HIDE DEF g
    <3>3. g.event.type = "event_rejected" => Rejectable(stream, g.after, g.event.body.target)
      BY <1>6, <3>1, <3>2 DEF Rejects
    <3>4. QED BY <3>1, <3>3 DEF Inv3
  <2>2. CASE inflight' = inflight
    BY <2>2 DEF Inv3
  <2>3. QED BY <2>1, <2>2, Writes
<1>9. ASSUME NEW x \in Writers, x # w, Rejects(x)', Found(x)'
      PROVE  Rejectable(stream', last'[x], req'[x].body.target)
  <2>1. Same(x)
    BY <1>2, <1>9
  <2>2. Rejects(x) /\ Found(x) /\ last'[x] = last[x] /\ req'[x] = req[x]
    BY <1>9, <2>1 DEF Same, Rejects, Kind, Found
  <2>3. QED BY <2>2 DEF Inv3
<1>10. ASSUME Rejects(w)', Found(w)'
       PROVE  Rejectable(stream', last'[w], req'[w].body.target)
  <2> USE <1>10
  <2>1. ~ Begin(w)
    <3>1. Begin(w) => pc'[w] = "lock"
      BY BeginFresh
    <3>2. QED BY <3>1 DEF Found, HandleSteps
  <2>2. req' = req
    <3>1. Forget(w) => pc'[w] = "idle"
      BY DEF Forget, Goto, Domains
    <3>2. QED BY <2>1, <3>1, RequestKept DEF Found, HandleSteps
  <2> USE <2>2
  <2>3. Rejects(w)
    BY DEF Rejects, Kind
  <2> USE <2>3
  <2>4. CASE RejectReadLast(w)
    <3> USE <2>4
    <3>1. stream' = stream /\ last'[w] = Len(stream) /\ Len(stream) > 0
      <4>1. stream # <<>>
        BY DEF Placed
      <4>2. Len(stream) > 0
        BY <4>1, WriterFacts
      <4>3. QED BY <4>2 DEF RejectReadLast, streamVars, Domains
    <3>2. pc'[w] # "unlock"
      BY DEF Found, HandleSteps
    <3>3. CASE ~ IsRejection(Len(stream))
      <4>1. stream[Len(stream)].body.id = req[w].body.target
        BY <3>2, <3>3 DEF RejectReadLast, Refuse, Goto, Domains
      <4>2. QED BY <3>1, <3>3, <4>1 DEF Rejectable, ID, IsRejection
    <3>4. CASE IsRejection(Len(stream))
      <4>1. Handle(w, stream[Len(stream)], Len(stream), "resume")
        BY <3>2, <3>4 DEF RejectReadLast, Refuse, Goto, Domains
      <4>2. pc'[w] = "rejection" /\ phase'[w] = "resume"
        BY <3>4, <4>1 DEF Handle, Goto, Domains, IsRejection
      <4>3. QED BY <4>2 DEF Found
    <3>5. QED BY <3>3, <3>4
  <2>5. CASE ReadLast(w)
    <3>1. pc[w] = "last" /\ stream' = stream /\ last'[w] = Len(stream)
      BY <2>5 DEF ReadLast, streamVars, Domains
    <3>2. Rejectable(stream, last[w], req[w].body.target)
      BY <3>1 DEF Inv3, Found
    <3>3. pc'[w] # "unlock"
      BY DEF Found, HandleSteps
    <3>4. stream[Len(stream)].body.id = req[w].body.target
      BY <2>5, <3>3 DEF ReadLast, Refuse, Goto, Domains, Rejects, Kind
    <3> USE <3>2
    <3>5. Len(stream) \in 1..Len(stream)
      BY DEF Rejectable
    <3>6. last[w] = Len(stream)
      BY <3>4, <3>5 DEF Apart, Rejectable, ID
    <3>7. QED BY <3>1, <3>6
  <2>6. CASE ~ RejectReadLast(w) /\ ~ ReadLast(w)
    <3>1. Found(w) /\ last' = last
      BY <2>1, <2>6, FoundFrom
    <3>2. QED BY <3>1 DEF Inv3
  <2>7. QED BY <2>4, <2>5, <2>6
<1>11. QED BY <1>7, <1>8, <1>9, <1>10 DEF Inv3

(* No step parts a rejection from the event it names. *)
LEMMA StepInv3 == Inv1 /\ Inv2 /\ Inv3 /\ [Next]_vars => Inv3'
<1> SUFFICES ASSUME Inv1, Inv2, Inv3, [Next]_vars PROVE Inv3'
  OBVIOUS
<1>1. CASE \E w \in Writers : LocalStep(w)
  BY <1>1, LocalInv3
<1>2. CASE CommitLands \/ CommitFails \/ LoseLock \/ Stray \/ UNCHANGED vars
  <2>1. Grows /\ Len(stream') \in Nat /\ Len(stream) \in Nat
    BY StepGrows
  <2>2. \A v, id : Rejectable(stream, v, id) => Rejectable(stream', v, id)
    BY <2>1, RejectableStays
  <2>3. UNCHANGED <<pc, req, phase, last>> /\ inflight' \subseteq inflight
    BY <1>2 DEF CommitLands, CommitFails, LoseLock, Stray, appendFrame, handleVars, vars
  <2>4. \A f \in inflight' : f.event.type = "event_rejected" => Rejectable(stream', f.after, f.event.body.target)
    BY <2>2, <2>3 DEF Inv3
  <2>5. \A w \in Writers : (Rejects(w) /\ Found(w))' => Rejectable(stream', last'[w], req'[w].body.target)
    BY <2>2, <2>3 DEF Inv3, Rejects, Kind, Found
  <2>6. Named'
    <3>1. CASE stream' = stream
      BY <3>1 DEF Inv3, Named, IsRejection
    <3>2. CASE CommitLands
      <4>1. PICK f \in inflight : f.after = Len(stream) /\ Extend(f.event)
        BY <3>2 DEF CommitLands
      <4>2. f.event \in Events /\ (f.event.type = "event_rejected" => stream # <<>>)
        BY DEF Inv1, TypeOK
      <4>3. QED BY <4>1, <4>2, NamedExtend DEF Inv3
    <3>3. CASE Stray
      <4>1. PICK e \in Unchecked : Extend(e)
        BY <3>3 DEF Stray
      <4>2. e.type # "event_rejected"
        BY DEF Unchecked
      <4>3. TypeOK
        BY DEF Inv1
      <4>4. stream \in Seq(Events)
        BY <4>3 DEF TypeOK
      <4>5. stream' # stream /\ stream'[Len(stream) + 1] = e
        BY <4>1, <4>4 DEF Extend
      <4>6. PICK d \in Events : Extend(d) /\ (d.type = "event_rejected" => stream # <<>>)
        BY <3>3, <4>5, Growth DEF Next
      <4>7. stream'[Len(stream) + 1] = d
        BY <4>3, <4>6, ExtendGrows
      <4>8. QED BY <4>2, <4>5, <4>6, <4>7, NamedExtend DEF Inv3
    <3>4. QED BY <1>2, <3>1, <3>2, <3>3 DEF CommitFails, LoseLock, vars, streamVars
  <2>7. QED BY <2>4, <2>5, <2>6 DEF Inv3
<1>3. QED BY <1>1, <1>2 DEF Next, LocalStep

(* At the start there is nothing to reject. *)
LEMMA InitInv3 == Init => Inv3
<1> SUFFICES ASSUME Init PROVE Inv3
  OBVIOUS
<1>1. inflight = {} /\ 1..Len(stream) = {} /\ \A w \in Writers : Kind(w) = "load"
  BY DEF Init, Kind, NoRequest
<1>2. QED BY <1>1 DEF Inv3, Named, Rejects

-----------------------------------------------------------------------------

(***************************************************************************)
(* Reports.                                                                *)
(***************************************************************************)
(* A projection that reports success has its event in the table. *)
LEMMA DoneProjected ==
  ASSUME Inv, Inv5, NEW w \in Writers, HandleEvent(w), phase[w] = "project", pc'[w] \in {"snapCheck", "unlock"}
  PROVE  cur[w] <= store'.projected
<1>1. Domains /\ Placed(w) /\ cur[w] \in Nat /\ store.projected \in Nat /\ store.tombs \in Seq(Tombstone)
  BY WriterFacts DEF Inv, Inv1, TypeOK
<1>2. pc[w] \in HandleSteps
  BY Projecting
<1> USE <1>1
<1>3. cur[w] \in 1..Len(stream) /\ ID(Ev(w)) > 0 /\ ID(Ev(w)) # NoEvent
  BY <1>2 DEF Placed, Inv5, Issued, Ev, NoEvent
<1>4. Traced /\ Taken(w) /\ Apart /\ Filed
  BY DEF Inv5, Inv, Inv2
<1>5. pc'[w] \notin {"observe", "engineAdd", "reconcileAdd", "replayed", "insert", "reconcileStamp", "reconcileUser"}
  OBVIOUS
<1> USE DEF Domains, Goto
<1> USE <1>5
<1>6. \A why : ~ HandleFails(w, why)
  BY DEF HandleFails
<1> USE <1>3, <1>4
<1>7. ASSUME Dated(stream, store.projected, ID(Ev(w))) PROVE cur[w] <= store.projected
  <2>1. PICK v \in 1..store.projected : ID(stream[v]) = ID(Ev(w))
    BY <1>7 DEF Dated
  <2> USE <2>1
  <2>2. v \in 1..Len(stream)
    BY WriterFacts DEF Inv
  <2>3. v = cur[w]
    BY <2>2 DEF Apart, Ev
  <2>4. QED BY <2>3
<1>8. CASE EngineAdd(w) \/ ReconcileAdd(w)
  <2>1. pc[w] \in {"engineAdd", "reconcileAdd"} /\ store' = store
    BY <1>8 DEF EngineAdd, ReconcileAdd
  <2>2. QED BY <2>1 DEF Taken
<1> USE <1>6
<1>9. CASE RemoveRow(w)
  <2>1. store' = ProjectRemoval(store, Ev(w).body.id, Ev(w).body.user, Recruits(engine[w], Ev(w).body.user),
                                engine[w][Ev(w).body.user].sponsor, cur[w])
    BY <1>9 DEF RemoveRow
  <2>2. store'.projected = cur[w]
    BY <2>1 DEF ProjectRemoval
  <2>3. QED BY <2>2
<1>10. CASE RejectRow(w)
  <2>1. store' = ProjectRejection(store, Ev(w).body.target, cur[w])
    BY <1>10 DEF RejectRow
  <2>2. store'.projected = cur[w]
    BY <2>1 DEF ProjectRejection
  <2>3. QED BY <2>2
<1>11. CASE ReconcileStamp(w)
  <2>1. StampedBy(store, ID(Ev(w))) /\ store' = store
    BY <1>11 DEF ReconcileStamp, ID
  <2>2. Dated(stream, store.projected, ID(Ev(w)))
    BY <2>1 DEF StampedBy, Traced
  <2>3. QED BY <1>7, <2>1, <2>2
<1>12. CASE ReconcileUser(w)
  <2>1. NewestStamp(store, Ev(w).body.user) = ID(Ev(w)) /\ store' = store
    BY <1>12 DEF ReconcileUser, ID
  <2>2. \E i \in DOMAIN store.tombs : store.tombs[i].stamp = ID(Ev(w))
    BY <2>1, NewestIsStamp
  <2>3. Dated(stream, store.projected, ID(Ev(w)))
    BY <2>2 DEF Traced
  <2>4. QED BY <1>7, <2>1, <2>3
<1>13. ~ (ReadParent(w) \/ InsertRow(w) \/ CheckReplayedInsert(w) \/ RemovalReplyLost(w) \/ RemovalRefused(w))
  BY DEF ReadParent, InsertRow, CheckReplayedInsert, RemovalReplyLost, RemovalRefused
<1>14. QED BY <1>8, <1>9, <1>10, <1>11, <1>12, <1>13 DEF HandleEvent

-----------------------------------------------------------------------------

(***************************************************************************)
(* The events in the stream and on their way.                              *)
(***************************************************************************)
(* What is new in the stream or on its way is the event of the command     *)
(* that acts, one the server still had in hand, or other code's.           *)
Arrivals(x) ==
    /\ \A v \in 1..Len(stream') :
          \/ v \in 1..Len(stream)
          \/ v = Len(stream) + 1 /\ \E f \in inflight : f.after = Len(stream) /\ stream'[v] = f.event
          \/ v = Len(stream) + 1 /\ ID(stream'[v]) # ID(req[x]) /\ ID(stream'[v]) > 0
    /\ \A f \in inflight' : f \in inflight \/ (ID(f.event) # ID(req[x]) /\ ID(f.event) > 0)

(* A command that has not sent its event finds it nowhere. *)
LEMMA NotSentYet ==
  ASSUME Inv, Inv5, NEW w \in Writers, PreAppend(w)
  PROVE  Unsent(w)
<1>1. CASE Kind(w) = "load"
  BY <1>1 DEF Inv5, Sent, Issued, Unsent
<1>2. CASE Kind(w) # "load"
  BY <1>2 DEF Inv, Inv2, OwnID, Unsent
<1>3. QED BY <1>1, <1>2

(* An event that is nowhere cannot get into the stream. *)
LEMMA UnsentClosed ==
  ASSUME NEW w \in Writers, Unsent(w)
  PROVE  Closed(ID(req[w]))
  BY DEF Unsent, Closed

(* The requests of two commands have different ids, or none. *)
LEMMA OthersID ==
  ASSUME Inv, Inv5, NEW w \in Writers, NEW x \in Writers, x # w, Kind(w) # "load"
  PROVE  ID(req[w]) > 0 /\ ID(req[w]) # ID(req[x])
<1>1. ID(req[w]) > 0
  BY DEF Inv, Inv2, OwnID
<1>2. CASE Kind(x) = "load"
  BY <1>1, <1>2 DEF Inv5, Sent
<1>3. CASE Kind(x) # "load"
  BY <1>1, <1>3 DEF Inv, Inv2, OwnID
<1>4. QED BY <1>1, <1>2, <1>3

(* What a command does is no news of the events of others. *)
LEMMA LocalArrivals ==
  ASSUME Inv, Inv5, NEW w \in Writers, LocalStep(w), NEW x \in Writers, x # w
  PROVE  Arrivals(x)
<1>1. Inv1 /\ TypeOK /\ Placed(w) /\ Len(stream) \in Nat
  BY WriterFacts DEF Inv, Inv1
<1>2. /\ UNCHANGED <<stream, trees>> \/ AppendCommits(w)
      /\ inflight' = inflight \/ AppendUnanswered(w)
  BY Writes
<1> USE <1>1
<1>3. CASE AppendCommits(w)
  <2>1. pc[w] = "append" /\ Extend(NewEvent(w)) /\ inflight' = inflight
    BY <1>3 DEF AppendCommits
  <2> USE <2>1
  <2>2. NewEvent(w) \in Events /\ (NewEvent(w).type = "event_rejected" => stream # <<>>)
    BY NewEventIsEvent
  <2>3. Len(stream') = Len(stream) + 1 /\ stream'[Len(stream) + 1] = NewEvent(w)
    BY <2>2, ExtendGrows
  <2>4. ID(NewEvent(w)) = ID(req[w])
    BY DEF NewEvent, ID
  <2>5. ID(req[w]) > 0 /\ ID(req[w]) # ID(req[x])
    BY OthersID DEF Placed
  <2>6. QED BY <2>3, <2>4, <2>5 DEF Arrivals
<1>4. CASE AppendUnanswered(w)
  <2>1. /\ pc[w] = "append" /\ stream' = stream
        /\ inflight' = inflight \cup {[event |-> NewEvent(w), after |-> last[w]]}
    BY <1>4 DEF AppendUnanswered, streamVars
  <2> USE <2>1
  <2>2. ID(req[w]) > 0 /\ ID(req[w]) # ID(req[x])
    BY OthersID DEF Placed
  <2>3. \A f \in inflight' : f \in inflight \/ (ID(f.event) # ID(req[x]) /\ ID(f.event) > 0)
    BY <2>2 DEF NewEvent, ID
  <2>4. QED BY <2>3 DEF Arrivals
<1>5. CASE UNCHANGED <<stream, inflight>>
  BY <1>5 DEF Arrivals
<1>6. QED BY <1>2, <1>3, <1>4, <1>5

(* What the server and other code do is no news of the event of a command  *)
(* the server did not still have in hand.                                  *)
LEMMA SharedArrivals ==
  ASSUME Inv, Inv5, NEW x \in Writers, CommitLands \/ CommitFails \/ LoseLock \/ Stray
  PROVE  Arrivals(x)
<1>1. Inv1 /\ TypeOK /\ Len(stream) \in Nat
  BY WriterFacts DEF Inv, Inv1
<1>2. CASE CommitLands
  <2>1. PICK f \in inflight : f.after = Len(stream) /\ Extend(f.event) /\ inflight' = inflight \ {f}
    BY <1>2 DEF CommitLands
  <2>2. f.event \in Events /\ (f.event.type = "event_rejected" => stream # <<>>)
    BY <1>1, <2>1 DEF TypeOK, Inv1
  <2>3. Len(stream') = Len(stream) + 1 /\ stream'[Len(stream) + 1] = f.event
    BY <1>1, <2>1, <2>2, ExtendGrows
  <2>4. QED BY <1>1, <2>1, <2>3 DEF Arrivals
<1>3. CASE Stray
  <2>1. HasRoom(0) /\ inflight' = inflight
    BY <1>3 DEF Stray
  <2>2. PICK e \in Unchecked : Extend(e)
    BY <1>3 DEF Stray
  <2>3. ID(e) = NewID
    BY <2>2 DEF Unchecked, Body, ID
  <2>4. NewID \in Nat \ {0} /\ NewID \notin UsedIDs
    BY <2>1, NewIDFresh
  <2>5. stream' = Append(stream, e) /\ stream \in Seq(Events)
    BY <1>1, <2>2 DEF Extend, TypeOK
  <2>6. Len(stream') = Len(stream) + 1 /\ stream'[Len(stream) + 1] = e
    BY <2>5
  <2>7. ID(req[x]) \in UsedIDs
    BY DEF UsedIDs, ID
  <2>8. ID(e) # ID(req[x]) /\ ID(e) > 0
    BY <2>3, <2>4, <2>7
  <2>9. QED BY <1>1, <2>1, <2>6, <2>8 DEF Arrivals
<1>4. CASE CommitFails \/ LoseLock
  <2>1. stream' = stream /\ inflight' \subseteq inflight
    BY <1>4 DEF CommitFails, LoseLock, streamVars
  <2>2. QED BY <2>1 DEF Arrivals
<1>5. QED BY <1>2, <1>3, <1>4

(* What others do leaves the reports of a command so. *)
LEMMA OthersReports ==
  ASSUME Inv, Inv5, NEW x \in Writers, Same(x), result'[x] = result[x], Arrivals(x),
         Grows, Len(stream) \in Nat, Len(stream') \in Nat,
         store.projected \in Nat, store'.projected \in Nat, store'.projected >= store.projected
  PROVE  Sent(x)' /\ Taken(x)' /\ Reported(x)'
<1>1. Placed(x) /\ cur[x] \in Nat /\ last[x] \in Nat /\ Sent(x) /\ Taken(x) /\ Reported(x) /\ Issued
  BY WriterFacts DEF Inv, Inv5
<1>2. ASSUME Unsent(x) PROVE Unsent(x)'
  BY <1>2 DEF Unsent, Arrivals, Same, Grows
<1> USE <1>1
<1>3. Sent(x)'
  <2>1. (Kind(x) = "load" => ID(req[x]) = 0)'
    BY DEF Sent, Same, Kind, ID
  <2>2. ASSUME pc'[x] = "confirm"
        PROVE  /\ \A v \in 1..Len(stream') : ID(stream'[v]) = ID(req'[x]) => v = last'[x] + 1 /\ ~ stream'[v].stray
               /\ \A f \in inflight' : ID(f.event) = ID(req'[x]) => f.after = last'[x]
    <3>1. /\ \A v \in 1..Len(stream) : ID(stream[v]) = ID(req[x]) => v = last[x] + 1 /\ ~ stream[v].stray
          /\ \A f \in inflight : ID(f.event) = ID(req[x]) => f.after = last[x]
          /\ req'[x] = req[x] /\ last'[x] = last[x]
      BY <2>2 DEF Sent, Same
    <3>2. \A f \in inflight : ~ f.event.stray
      BY DEF Issued
    <3> USE <3>1
    <3>3. \A v \in 1..Len(stream') : ID(stream'[v]) = ID(req[x]) => v = last[x] + 1 /\ ~ stream'[v].stray
      BY <3>2 DEF Arrivals, Grows
    <3>4. \A f \in inflight' : ID(f.event) = ID(req[x]) => f.after = last[x]
      BY DEF Arrivals
    <3>5. QED BY <3>3, <3>4
  <2>3. ASSUME pc'[x] \in HandleSteps \cup {"observe"}
        PROVE  /\ phase'[x] = "project" => /\ ID(stream'[cur'[x]]) = ID(req'[x]) /\ cur'[x] = last'[x] + 1
                                           /\ ~ stream'[cur'[x]].stray
               /\ phase'[x] = "resume" => Rejects(x)' /\ Unsent(x)'
    <3>1. cur[x] \in 1..Len(stream) /\ pc[x] \in HandleSteps \cup {"observe"}
      BY <2>3 DEF Placed, Same
    <3>2. QED BY <1>2, <3>1 DEF Sent, Same, Grows, Rejects, Kind
  <2>4. (pc[x] = "observe" => phase[x] \in {"project", "resume"})'
    BY DEF Sent, Same
  <2>5. QED BY <2>1, <2>2, <2>3, <2>4 DEF Sent
<1>4. Taken(x)'
  BY DEF Taken, Same
<1>5. ASSUME pc[x] \in SnapshotSteps \cup {"unlock"} PROVE TrueReport(result[x])'
  <2>1. TrueReport(result[x]) /\ result[x].id = ID(req[x])
    BY <1>5 DEF Reported
  <2>2. ASSUME Closed(ID(req[x])) PROVE Closed(ID(req[x]))'
    <3>1. \A v \in 1..Len(stream') : ID(stream'[v]) # ID(req[x])
      BY <2>2 DEF Closed, Arrivals, Grows
    <3>2. \A f \in inflight' : ID(f.event) = ID(req[x]) => f.after < Len(stream')
      <4>1. \A f \in inflight : f.after \in Nat
        BY DEF Inv, Inv1, TypeOK
      <4>2. QED BY <2>2, <4>1 DEF Closed, Arrivals, Grows
    <3>3. req'[x] = req[x]
      BY DEF Same
    <3>4. QED BY <3>1, <3>2, <3>3 DEF Closed
  <2> USE <2>1
  <2>3. result[x].out = "appended" =>
           /\ result[x].version \in 1..Len(stream') /\ ID(stream'[result[x].version]) = result[x].id
           /\ result[x].observed \in Int /\ result[x].observed <= store'.projected
    BY DEF TrueReport, Grows
  <2>4. result[x].out \notin {"appended", "noEventFound", "unknown"} => Closed(ID(req[x]))'
    BY <2>2 DEF TrueReport
  <2>5. req'[x] = req[x]
    BY DEF Same
  <2>6. QED BY <2>3, <2>4, <2>5 DEF TrueReport, Closed
<1>6. Reported(x)'
  BY <1>5 DEF Reported, Same
<1>7. QED BY <1>3, <1>4, <1>6

(* A command's own steps: where its event is. *)
LEMMA OwnSent ==
  ASSUME Inv, Inv5, NEW w \in Writers, LocalStep(w)
  PROVE  Sent(w)'
<1>1. Inv1 /\ TypeOK /\ Domains /\ Placed(w) /\ cur[w] \in Nat /\ last[w] \in Nat /\ Len(stream) \in Nat
      /\ Sent(w) /\ Issued
  BY WriterFacts DEF Inv, Inv1, Inv5
<1> USE DEF Domains, Goto
<1> USE <1>1
<1>2. (Kind(w) = "load" => ID(req[w]) = 0)'
  <2>1. CASE Begin(w)
    BY <2>1 DEF Begin, StartAddRoot, StartPlace, StartRemove, StartLoad, StartReject, Start,
       Kind, ID, NoBody, Body
  <2>2. CASE Forget(w)
    BY <2>2 DEF Forget, NoRequest, NoBody, Body, Kind, ID
  <2>3. CASE req' = req
    BY <2>3 DEF Sent, Kind, ID
  <2>4. QED BY <2>1, <2>2, <2>3, RequestKept
<1>3. ASSUME AppendCommits(w)
      PROVE  /\ Unsent(w) /\ Len(stream) = last[w] /\ req' = req /\ last' = last /\ inflight' = inflight
             /\ Len(stream') = Len(stream) + 1 /\ stream'[Len(stream) + 1] = NewEvent(w)
             /\ \A v \in 1..Len(stream) : stream'[v] = stream[v]
             /\ ID(NewEvent(w)) = ID(req[w]) /\ ~ NewEvent(w).stray
  <2>1. /\ pc[w] = "append" /\ Extend(NewEvent(w)) /\ inflight' = inflight /\ req' = req /\ last' = last
        /\ Len(stream) = last[w]
    BY <1>3 DEF AppendCommits, appendFrame, AtExpectedVersion
  <2> USE <2>1
  <2>2. Unsent(w)
    BY NotSentYet DEF PreAppend
  <2>3. NewEvent(w) \in Events /\ (NewEvent(w).type = "event_rejected" => stream # <<>>)
    BY NewEventIsEvent
  <2>4. /\ Len(stream') = Len(stream) + 1 /\ stream'[Len(stream) + 1] = NewEvent(w) /\ Grows
    BY <2>3, ExtendGrows
  <2>5. ID(NewEvent(w)) = ID(req[w]) /\ ~ NewEvent(w).stray
    BY DEF NewEvent, ID
  <2>6. QED BY <2>2, <2>4, <2>5 DEF Grows
<1> USE <1>3
<1>4. ASSUME pc'[w] = "confirm"
      PROVE  /\ \A v \in 1..Len(stream') : ID(stream'[v]) = ID(req'[w]) => v = last'[w] + 1 /\ ~ stream'[v].stray
             /\ \A f \in inflight' : ID(f.event) = ID(req'[w]) => f.after = last'[w]
  <2>1. AppendCommits(w) \/ AppendUnanswered(w)
    BY <1>4, ConfirmFollowsAppend
  <2>2. CASE AppendCommits(w)
    <3>1. \A v \in 1..Len(stream') : v \in 1..Len(stream) \/ v = Len(stream) + 1
      BY <2>2
    <3>2. QED BY <2>2, <3>1 DEF Unsent
  <2>3. CASE AppendUnanswered(w)
    <3>1. /\ pc[w] = "append" /\ UNCHANGED <<stream, req, last>>
          /\ inflight' = inflight \cup {[event |-> NewEvent(w), after |-> last[w]]}
      BY <2>3 DEF AppendUnanswered, streamVars, appendFrame
    <3> USE <3>1
    <3>2. Unsent(w)
      BY NotSentYet DEF PreAppend
    <3>3. \A v \in 1..Len(stream') : ID(stream'[v]) # ID(req'[w])
      BY <3>2 DEF Unsent
    <3>4. \A f \in inflight' : ID(f.event) = ID(req'[w]) => f.after = last'[w]
      BY <3>2 DEF Unsent
    <3>5. QED BY <3>3, <3>4
  <2>4. QED BY <2>1, <2>2, <2>3
<1>5. ASSUME pc'[w] \in HandleSteps \cup {"observe"}
      PROVE  /\ phase'[w] = "project" => /\ ID(stream'[cur'[w]]) = ID(req'[w]) /\ cur'[w] = last'[w] + 1
                                         /\ ~ stream'[cur'[w]].stray
             /\ phase'[w] = "resume" => Rejects(w)' /\ Unsent(w)'
             /\ pc'[w] = "observe" => phase'[w] \in {"project", "resume"}
  <2>1. CASE /\ pc[w] \in HandleSteps
             /\ UNCHANGED <<stream, trees, inflight, req, loaded, last, cur, phase>>
             /\ pc'[w] = "observe" => phase[w] \in {"project", "resume"}
    <3>1. Unsent(w) => Unsent(w)'
      BY <2>1 DEF Unsent
    <3>2. QED BY <2>1, <3>1 DEF Sent, Rejects, Kind
  <2>2. CASE ReadLast(w) /\ pc'[w] \in HandleSteps /\ phase'[w] = "catchup"
    BY <2>2 DEF HandleSteps
  <2>3. CASE RejectReadLast(w) /\ pc'[w] \in HandleSteps /\ phase'[w] = "resume"
    <3>1. pc[w] = "rejectLast" /\ UNCHANGED <<stream, inflight, req>>
      BY <2>3 DEF RejectReadLast, streamVars
    <3>2. Rejects(w) /\ PreAppend(w)
      BY <3>1 DEF Placed, PreAppend, PrepareSteps
    <3>3. Unsent(w)
      BY <3>2, NotSentYet
    <3>4. Unsent(w)' /\ Rejects(w)'
      BY <3>1, <3>2, <3>3 DEF Unsent, Rejects, Kind
    <3>5. QED BY <2>3, <3>4 DEF HandleSteps
  <2>4. CASE AppendCommits(w) /\ pc'[w] \in HandleSteps /\ phase'[w] = "project" /\ cur'[w] = Len(stream) + 1
    BY <2>4 DEF HandleSteps
  <2>5. CASE /\ ConfirmAppend(w) /\ pc'[w] \in HandleSteps /\ phase'[w] = "project"
             /\ cur'[w] = last[w] + 1 /\ last[w] + 1 <= Len(stream) /\ IsOwnEvent(w, last[w] + 1)
    <3> USE <2>5
    <3>1. pc[w] = "confirm" /\ UNCHANGED <<stream, req, last>>
      BY DEF ConfirmAppend, streamVars, appendFrame
    <3>2. ID(stream[last[w] + 1]) = ID(req[w]) /\ last[w] + 1 \in 1..Len(stream)
      BY DEF IsOwnEvent, ID
    <3>3. ~ stream[last[w] + 1].stray
      BY <3>1, <3>2 DEF Sent
    <3>4. QED BY <3>1, <3>2, <3>3 DEF HandleSteps
  <2>6. QED BY <1>5, <2>1, <2>2, <2>3, <2>4, <2>5, HandleFrom
<1>6. QED BY <1>2, <1>4, <1>5 DEF Sent

(* The engine hears of an event whose row is in the table. *)
LEMMA OwnTaken ==
  ASSUME Inv, Inv5, NEW w \in Writers, LocalStep(w)
  PROVE  Taken(w)'
<1> SUFFICES ASSUME pc'[w] \in {"engineAdd", "reconcileAdd"}
             PROVE  cur'[w] <= store'.projected
  BY DEF Taken
<1>1. Inv1 /\ Domains /\ Placed(w) /\ cur[w] \in Nat /\ last[w] \in Nat /\ Len(stream) \in Nat
      /\ store.projected \in Nat /\ Taken(w) /\ Traced /\ Apart
  BY WriterFacts DEF Inv, Inv2, Inv5
<1> USE DEF Domains, Goto
<1> USE <1>1
<1>2. \A e \in Events : \A v, ph : ~ Handle(w, e, v, ph)
  BY DEF Handle, Events, EventTypes
<1>3. \/ pc[w] \in HandleSteps /\ (HandleEvent(w) \/ CallFails(w))
      \/ AppendCommits(w) \/ ConfirmAppend(w) \/ ReadLast(w) \/ RejectReadLast(w)
  <2>1. ~ Forget(w) /\ ~ Begin(w) /\ \A out : ~ Refuse(w, out)
    BY DEF Forget, Refuse, Begin, StartAddRoot, StartPlace, StartRemove, StartLoad, StartReject,
       Start
  <2> USE <2>1
  <2>2. ~ (Lock(w) \/ LockTimeout(w) \/ UnderLock(w) \/ RejectReadProjected(w) \/ ReadRows(w) \/ UsableSnapshot(w)
         \/ SnapshotUnread(w) \/ Replay(w) \/ CheckMembership(w) \/ BuildFailed(w) \/ StuckRowStopsTheLoad(w))
    BY DEF Lock, LockTimeout, UnderLock, RejectReadProjected, ReadRows, UsableSnapshot,
       SnapshotUnread, Replay, CheckMembership, BuildFailed, StuckRowStopsTheLoad, BuildFails
  <2>3. ~ (CheckRefuses(w) \/ AppendConflicts(w) \/ AppendUnanswered(w) \/ Observe(w) \/ SnapshotCheck(w)
          \/ SnapshotPut(w) \/ Unlock(w) \/ Crash(w))
    BY DEF CheckRefuses, AppendConflicts, AppendUnanswered, Observe, SnapshotCheck, SnapshotPut,
       Unlock, Crash
  <2>4. CallFails(w) => pc[w] \in HandleSteps
    BY DEF CallFails
  <2>5. HandleEvent(w) => pc[w] \in HandleSteps
    BY Projecting
  <2>6. QED BY <2>2, <2>3, <2>4, <2>5 DEF LocalStep, Step, Prepare, Write
<1>4. ~ (AppendCommits(w) \/ ConfirmAppend(w) \/ ReadLast(w) \/ RejectReadLast(w))
  <2>1. \A out : ~ Refuse(w, out)
    BY DEF Refuse
  <2>2. AppendCommits(w) => NewEvent(w) \in Events
    BY NewEventIsEvent DEF AppendCommits
  <2> USE <1>2
  <2>3. ~ AppendCommits(w)
    BY <2>2 DEF AppendCommits
  <2>4. \A v \in 1..Len(stream) : stream[v] \in Events
    BY WriterFacts
  <2> USE <2>1, <2>4
  <2>5. ~ ConfirmAppend(w)
    <3>1. last[w] + 1 > Len(stream) \/ stream[last[w] + 1] \in Events
      OBVIOUS
    <3>2. QED BY <3>1 DEF ConfirmAppend
  <2>6. ~ ReadLast(w)
    BY DEF ReadLast
  <2>7. RejectReadLast(w) => Len(stream) # 0
    BY WriterFacts DEF RejectReadLast, Placed
  <2>8. ~ RejectReadLast(w)
    BY <2>7 DEF RejectReadLast
  <2>9. QED BY <2>3, <2>5, <2>6, <2>8
<1>5. pc[w] \in HandleSteps
  BY <1>3, <1>4
<1>6. \A why : ~ HandleFails(w, why)
  BY DEF HandleFails, Refuse
<1>7. ~ HandleDone(w)
  BY DEF HandleDone, Refuse
<1> USE <1>6
<1>8. HandleEvent(w)
  <2>1. ~ CallFails(w)
    BY DEF CallFails, Refuse
  <2>2. QED BY <1>3, <1>4, <2>1
<1>9. cur' = cur /\ cur[w] \in 1..Len(stream)
  BY <1>5, <1>8, Projecting DEF Placed
<1> USE <1>9
<1>10. CASE InsertRow(w)
  <2>1. store'.projected = cur[w]
    BY <1>10 DEF InsertRow, ProjectInsert
  <2>2. QED BY <2>1
<1>11. CASE CheckReplayedInsert(w)
  <2>1. store' = store /\ Ev(w).body.user \in DOMAIN store.active /\ store.active[Ev(w).body.user].id = ID(Ev(w))
    BY <1>11 DEF CheckReplayedInsert, ID
  <2>2. Dated(stream, store.projected, ID(Ev(w)))
    BY <2>1 DEF Traced
  <2>3. PICK v \in 1..store.projected : ID(stream[v]) = ID(Ev(w))
    BY <2>2 DEF Dated
  <2> USE <2>3
  <2>4. v \in 1..Len(stream)
    BY WriterFacts DEF Inv
  <2>5. v = cur[w]
    BY <2>4 DEF Apart, Ev
  <2>6. QED BY <2>1, <2>5
<1>12. CASE EngineAdd(w) \/ ReconcileAdd(w)
  <2>1. pc[w] \in {"engineAdd", "reconcileAdd"} /\ store' = store
    BY <1>12 DEF EngineAdd, ReconcileAdd
  <2>2. QED BY <2>1 DEF Taken
<1>13. ~ (ReadParent(w) \/ RemoveRow(w) \/ RemovalReplyLost(w) \/ RemovalRefused(w) \/ ReconcileStamp(w)
          \/ ReconcileUser(w) \/ RejectRow(w))
  BY <1>7 DEF ReadParent, RemoveRow, RemovalReplyLost, RemovalRefused, ReconcileStamp,
     ReconcileUser, RejectRow
<1>14. QED BY <1>8, <1>10, <1>11, <1>12, <1>13 DEF HandleEvent

(* What a command reports is so when it reports it. *)
LEMMA OwnReported ==
  ASSUME Inv, Inv5, NEW w \in Writers, LocalStep(w), store'.projected \in Nat
  PROVE  Reported(w)'
<1> SUFFICES ASSUME pc'[w] \in SnapshotSteps \cup {"unlock"}
             PROVE  /\ result'[w].id = ID(req'[w]) /\ TrueReport(result[w])'
                    /\ pc'[w] \in SnapshotSteps => result'[w].out = "appended"
  BY DEF Reported
<1>1. Inv1 /\ Domains /\ Placed(w) /\ cur[w] \in Nat /\ last[w] \in Nat /\ Len(stream) \in Nat
      /\ Sent(w) /\ Reported(w) /\ \A f \in inflight : f.after \in Nat
  BY WriterFacts DEF Inv, Inv1, TypeOK, Inv5
<1> USE <1>1
<1>2. UNCHANGED <<stream, inflight, req>>
  BY EndsFrom
<1> USE <1>2
<1>3. ASSUME Closed(ID(req[w])), result'[w].id = ID(req[w]), result'[w].out # "appended"
      PROVE  result'[w].id = ID(req'[w]) /\ TrueReport(result[w])'
  <2>1. Closed(ID(req[w]))'
    BY <1>3 DEF Closed
  <2>2. QED BY <1>3, <2>1 DEF TrueReport, Closed
<1>4. ASSUME result'[w].id = ID(req[w]), result'[w].out = "appended", result'[w].version = cur[w],
             ID(stream[cur[w]]) = ID(req[w]), cur[w] \in 1..Len(stream),
             result'[w].observed \in Int, result'[w].observed <= store'.projected
      PROVE  result'[w].id = ID(req'[w]) /\ TrueReport(result[w])'
  BY <1>4 DEF TrueReport
<1> USE <1>3
<1>5. CASE /\ pc'[w] = "unlock" /\ PreAppend(w)
           /\ result'[w].id = ID(req[w]) /\ result'[w].out # "appended"
  BY <1>5, NotSentYet, UnsentClosed DEF SnapshotSteps
<1>6. CASE /\ pc'[w] = "unlock" /\ pc[w] = "confirm" /\ result'[w].id = ID(req[w])
           /\ \/ result'[w].out \in {"noEventFound", "unknown"}
              \/ result'[w].out = "notAppended" /\ last[w] + 1 <= Len(stream) /\ ~ IsOwnEvent(w, last[w] + 1)
  <2> USE <1>6
  <2>1. CASE result'[w].out \in {"noEventFound", "unknown"}
    BY <2>1 DEF TrueReport, SnapshotSteps
  <2>2. CASE result'[w].out = "notAppended" /\ last[w] + 1 <= Len(stream) /\ ~ IsOwnEvent(w, last[w] + 1)
    <3> USE <2>2
    <3>1. \A v \in 1..Len(stream) : ID(stream[v]) # ID(req[w])
      BY DEF Sent, IsOwnEvent, ID
    <3>2. \A f \in inflight : ID(f.event) = ID(req[w]) => f.after < Len(stream)
      BY DEF Sent
    <3>3. Closed(ID(req[w]))
      BY <3>1, <3>2 DEF Closed
    <3>4. QED BY <3>3 DEF SnapshotSteps
  <2>3. QED BY <2>1, <2>2
<1>7. CASE /\ pc'[w] = "unlock" /\ pc[w] = "observe" /\ result'[w].id = ID(req[w])
           /\ phase[w] = "resume" => result'[w].out = "resumed"
           /\ phase[w] # "resume" => /\ result'[w].out = "appended" /\ result'[w].version = cur[w]
                                     /\ result'[w].observed \in {store'.projected, Unobserved}
  <2> USE <1>7
  <2>1. phase[w] \in {"project", "resume"} /\ cur[w] \in 1..Len(stream)
    BY DEF Sent, Placed
  <2>2. CASE phase[w] = "resume"
    <3>1. Unsent(w)
      BY <2>2 DEF Sent
    <3>2. QED BY <2>2, <3>1, UnsentClosed DEF SnapshotSteps
  <2>3. CASE phase[w] = "project"
    <3> USE <2>3
    <3>1. ID(stream[cur[w]]) = ID(req[w])
      BY DEF Sent
    <3>2. result'[w].observed \in Int /\ result'[w].observed <= store'.projected
      BY DEF Unobserved
    <3>3. QED BY <1>4, <2>1, <3>1, <3>2 DEF SnapshotSteps
  <2>4. QED BY <2>1, <2>2, <2>3
<1>8. CASE HandleEvent(w) /\ HandleDone(w) /\ phase[w] \in {"project", "resume"}
  <2> USE <1>8
  <2>1. pc[w] \in HandleSteps
    BY Projecting
  <2>2. CASE phase[w] = "resume"
    <3>1. /\ pc'[w] = "unlock" /\ result'[w].id = ID(req[w]) /\ result'[w].out = "resumed"
      BY <2>2 DEF HandleDone, Report, Goto, Domains, ID
    <3>2. Unsent(w)
      BY <2>1, <2>2 DEF Sent
    <3>3. QED BY <3>1, <3>2, UnsentClosed DEF SnapshotSteps
  <2>3. CASE phase[w] = "project"
    <3> USE <2>3
    <3>1. /\ pc'[w] \in {"snapCheck", "unlock"} /\ result'[w].id = ID(req[w]) /\ result'[w].out = "appended"
          /\ result'[w].version = cur[w] /\ result'[w].observed = cur[w]
      BY DEF HandleDone, Report, Goto, Domains, ID
    <3>2. cur[w] <= store'.projected
      BY <3>1, DoneProjected
    <3>3. ID(stream[cur[w]]) = ID(req[w]) /\ cur[w] \in 1..Len(stream)
      BY <2>1 DEF Sent, Placed
    <3>4. QED BY <1>4, <3>1, <3>2, <3>3
  <2>4. QED BY <2>2, <2>3
<1>9. CASE pc[w] \in SnapshotSteps /\ result' = result /\ UNCHANGED store
  <2>1. TrueReport(result[w]) /\ result[w].id = ID(req[w]) /\ result[w].out = "appended"
    BY <1>9 DEF Reported
  <2>2. QED BY <1>9, <2>1 DEF TrueReport
<1>10. QED BY <1>5, <1>6, <1>7, <1>8, <1>9, EndsFrom

(* The table's ids are those of the events it shows, as the stream and the *)
(* projected version grow.                                                 *)
LEMMA DatedStays ==
  ASSUME Inv1, Grows, Len(stream) \in Nat, store'.projected \in Nat, store'.projected >= store.projected
  PROVE  \A id : Dated(stream, store.projected, id) => Dated(stream', store'.projected, id)
<1>1. store.projected \in Nat /\ store.projected <= Len(stream)
  BY DEF Inv1, TypeOK
<1>2. \A v \in 1..store.projected : v \in 1..store'.projected /\ v \in 1..Len(stream)
  BY <1>1
<1>3. QED BY <1>2 DEF Dated, Grows

(* Every write of the table dates the rows it writes. *)
LEMMA WriteTraced ==
  ASSUME Inv, Inv5, NEW w \in Writers, InsertRow(w) \/ RemoveRow(w) \/ RejectRow(w), store'.projected \in Nat
  PROVE  Traced'
<1>1. Inv1 /\ Domains /\ Placed(w) /\ cur[w] \in Nat /\ Len(stream) \in Nat /\ Traced /\ StoreOK(store)
  BY WriterFacts DEF Inv, Inv1, TypeOK, Inv5, StoreOK
<1> USE <1>1
<1>2. pc[w] \in HandleSteps /\ stream' = stream /\ trees' = trees /\ cur[w] \in 1..Len(stream)
  BY DEF InsertRow, RemoveRow, RejectRow, HandleSteps, handleFrame, streamVars, Placed
<1>3. store'.projected >= store.projected
  BY WriteAdvances DEF LocalStep, Step, HandleEvent
<1>4. \A id : Dated(stream, store.projected, id) => Dated(stream', store'.projected, id)
  BY <1>2, <1>3, DatedStays DEF Grows
<1>5. store'.projected = cur[w] => Dated(stream', store'.projected, ID(Ev(w)))
  BY <1>2 DEF Dated, Ev
<1> USE <1>4
<1>6. CASE store' = store
  BY <1>6 DEF Traced
<1>7. CASE InsertRow(w) /\ store' # store
  <2>1. PICK n : store' = ProjectInsert(store, ID(Ev(w)), Ev(w).body.user, n, cur[w])
    BY <1>7 DEF InsertRow, ID
  <2>2. /\ store'.projected = cur[w] /\ store'.tombs = store.tombs
        /\ store'.active = With(store.active, Ev(w).body.user, [id |-> ID(Ev(w)), node |-> n])
    BY <2>1 DEF ProjectInsert
  <2>3. \A u \in DOMAIN store'.active : \/ store'.active[u].id = ID(Ev(w))
                                        \/ u \in DOMAIN store.active /\ store'.active[u].id = store.active[u].id
    BY <2>2 DEF With
  <2>4. \A u \in DOMAIN store'.active : Dated(stream', store'.projected, store'.active[u].id)
    BY <1>5, <2>2, <2>3 DEF Traced
  <2>5. \A i \in DOMAIN store'.tombs : store'.tombs[i].stamp # NoEvent => Dated(stream', store'.projected, store'.tombs[i].stamp)
    BY <2>2 DEF Traced
  <2>6. QED BY <2>4, <2>5 DEF Traced
<1>8. CASE RemoveRow(w) /\ store' # store
  <2>1. PICK moved, to : store' = ProjectRemoval(store, ID(Ev(w)), Ev(w).body.user, moved, to, cur[w])
    BY <1>8 DEF RemoveRow, ID
  <2>2. /\ store'.projected = cur[w]
        /\ \A u \in DOMAIN store'.active : u \in DOMAIN store.active /\ store'.active[u].id = store.active[u].id
    BY <2>1 DEF ProjectRemoval
  <2>3. PICK t : store'.tombs = Append(store.tombs, t) /\ t.stamp = ID(Ev(w))
    BY <2>1 DEF ProjectRemoval
  <2>4. \A i \in DOMAIN store'.tombs : store'.tombs[i] = t \/ (i \in DOMAIN store.tombs /\ store'.tombs[i] = store.tombs[i])
    BY <2>3 DEF StoreOK
  <2>5. \A u \in DOMAIN store'.active : Dated(stream', store'.projected, store'.active[u].id)
    BY <2>2 DEF Traced
  <2>6. \A i \in DOMAIN store'.tombs : store'.tombs[i].stamp # NoEvent => Dated(stream', store'.projected, store'.tombs[i].stamp)
    BY <1>5, <2>2, <2>3, <2>4 DEF Traced
  <2>7. QED BY <2>5, <2>6 DEF Traced
<1>9. CASE RejectRow(w) /\ store' # store
  <2>1. PICK id : store' = ProjectRejection(store, id, cur[w])
    BY <1>9 DEF RejectRow
  <2>2. \A u \in DOMAIN store'.active : u \in DOMAIN store.active /\ store'.active[u].id = store.active[u].id
    BY <2>1 DEF ProjectRejection
  <2>3. store'.tombs = store.tombs \/ \E t : store'.tombs = Append(store.tombs, t) /\ t.stamp = NoEvent
    BY <2>1 DEF ProjectRejection
  <2>4. \A i \in DOMAIN store'.tombs : store'.tombs[i].stamp = NoEvent
                                       \/ (i \in DOMAIN store.tombs /\ store'.tombs[i] = store.tombs[i])
    BY <2>3 DEF StoreOK
  <2>5. \A u \in DOMAIN store'.active : Dated(stream', store'.projected, store'.active[u].id)
    BY <2>2 DEF Traced
  <2>6. \A i \in DOMAIN store'.tombs : store'.tombs[i].stamp # NoEvent => Dated(stream', store'.projected, store'.tombs[i].stamp)
    BY <2>4 DEF Traced
  <2>7. QED BY <2>5, <2>6 DEF Traced
<1>10. QED BY <1>6, <1>7, <1>8, <1>9

(* A tombstone is newer than the ones before it. *)
LEMMA StepFiled == Inv /\ Filed /\ Next => Filed'
<1> SUFFICES ASSUME Inv, Filed, Next PROVE Filed'
  OBVIOUS
<1>1. store.tombs \in Seq(Tombstone)
  BY DEF Inv, Inv1, TypeOK
<1>2. store'.tombs = store.tombs \/ \E t : store'.tombs = Append(store.tombs, t)
  <2>1. CASE store' = store
    BY <2>1
  <2>2. ASSUME NEW w \in Writers, InsertRow(w) \/ RemoveRow(w) \/ RejectRow(w)
        PROVE  store'.tombs = store.tombs \/ \E t : store'.tombs = Append(store.tombs, t)
    <3>1. CASE InsertRow(w)
      <4>1. store' = store \/ \E n : store' = ProjectInsert(store, ID(Ev(w)), Ev(w).body.user, n, cur[w])
        BY <3>1 DEF InsertRow, ID
      <4>2. \A n : ProjectInsert(store, ID(Ev(w)), Ev(w).body.user, n, cur[w]).tombs = store.tombs
        BY DEF ProjectInsert
      <4>3. QED BY <4>1, <4>2
    <3>2. CASE RemoveRow(w)
      <4>1. store' = store \/ \E m, to : store' = ProjectRemoval(store, ID(Ev(w)), Ev(w).body.user, m, to, cur[w])
        BY <3>2 DEF RemoveRow, ID
      <4>2. ASSUME NEW m, NEW to, store' = ProjectRemoval(store, ID(Ev(w)), Ev(w).body.user, m, to, cur[w])
            PROVE  \E t : store'.tombs = Append(store.tombs, t)
        BY <4>2 DEF ProjectRemoval
      <4>3. QED BY <4>1, <4>2, Zenon
    <3>3. CASE RejectRow(w)
      <4>1. store' = store \/ \E id : store' = ProjectRejection(store, id, cur[w])
        BY <3>3 DEF RejectRow
      <4>2. ASSUME NEW id, store' = ProjectRejection(store, id, cur[w])
            PROVE  store'.tombs = store.tombs \/ \E t : store'.tombs = Append(store.tombs, t)
        BY <4>2 DEF ProjectRejection
      <4>3. QED BY <4>1, <4>2, Zenon
    <3>4. QED BY <2>2, <3>1, <3>2, <3>3
  <2>3. CASE CommitLands \/ CommitFails \/ LoseLock \/ Stray
    BY <2>3 DEF CommitLands, CommitFails, LoseLock, Stray, appendFrame
  <2>4. QED BY <2>1, <2>2, <2>3, Writes DEF Next, LocalStep
<1>3. CASE store'.tombs = store.tombs
  BY <1>3 DEF Filed
<1>4. ASSUME NEW t, store'.tombs = Append(store.tombs, t) PROVE Filed'
  <2> DEFINE n == Len(store.tombs)
  <2>1. /\ n \in Nat /\ DOMAIN store.tombs = 1..n /\ DOMAIN store'.tombs = 1..(n + 1)
        /\ store'.tombs[n + 1] = t /\ \A i \in 1..n : store'.tombs[i] = store.tombs[i]
    BY <1>1, <1>4
  <2> HIDE DEF n
  <2>2. SUFFICES ASSUME NEW i \in 1..(n + 1)
                 PROVE  \E k \in 1..(n + 1) : /\ store'.tombs[k].user = store'.tombs[i].user
                                             /\ \A j \in 1..(n + 1) : store'.tombs[j].user = store'.tombs[i].user => j <= k
    BY <2>1 DEF Filed
  <2>3. CASE store'.tombs[i].user = t.user
    <3>1. n + 1 \in 1..(n + 1) /\ \A j \in 1..(n + 1) : j <= n + 1
      BY <2>1
    <3>2. QED BY <2>1, <2>3, <3>1
  <2>4. CASE store'.tombs[i].user # t.user
    <3>1. i \in 1..n
      BY <2>1, <2>4
    <3>2. PICK k \in 1..n : /\ store.tombs[k].user = store.tombs[i].user
                            /\ \A j \in 1..n : store.tombs[j].user = store.tombs[i].user => j <= k
      BY <2>1, <3>1 DEF Filed
    <3>3. ASSUME NEW j \in 1..(n + 1), store'.tombs[j].user = store'.tombs[i].user PROVE j <= k
      <4>1. j \in 1..n
        BY <2>1, <2>4, <3>3
      <4>2. QED BY <2>1, <3>1, <3>2, <3>3, <4>1
    <3>4. k \in 1..(n + 1) /\ store'.tombs[k].user = store'.tombs[i].user
      BY <2>1, <3>1, <3>2
    <3>5. QED BY <3>3, <3>4
  <2>5. QED BY <2>3, <2>4
<1>5. QED BY <1>2, <1>3, <1>4

(* A command's report is its own. *)
LEMMA LocalResult ==
  ASSUME TypeOK, NEW w \in Writers, LocalStep(w), NEW x \in Writers, x # w
  PROVE  result'[x] = result[x]
<1>1. DOMAIN result = Writers
  BY DEF TypeOK
<1> USE <1>1
<1>2. \A out, v, o : Report(w, out, v, o) => result'[x] = result[x]
  BY DEF Report
<1> USE <1>2
<1>3. (Forget(w) \/ Keep \/ \E out : Refuse(w, out)) => result'[x] = result[x]
  BY DEF Forget, Keep, Refuse
<1> USE <1>3
<1>4. HandleDone(w) \/ (\E why : HandleFails(w, why)) => result'[x] = result[x]
  BY DEF HandleDone, HandleFails
<1>5. CASE Begin(w)
  BY <1>5 DEF Begin, StartAddRoot, StartPlace, StartRemove, StartLoad, StartReject, Start
<1>6. CASE Prepare(w)
  <2>1. CASE ReadLast(w) \/ RejectReadLast(w)
    BY <2>1 DEF ReadLast, RejectReadLast
  <2>2. CASE UnderLock(w) \/ BuildFailed(w) \/ StuckRowStopsTheLoad(w) \/ LockTimeout(w)
    BY <2>2 DEF UnderLock, BuildFailed, StuckRowStopsTheLoad, LockTimeout
  <2>3. CASE Lock(w) \/ RejectReadProjected(w) \/ ReadRows(w) \/ UsableSnapshot(w) \/ SnapshotUnread(w)
             \/ Replay(w) \/ CheckMembership(w)
    BY <2>3 DEF Lock, RejectReadProjected, ReadRows, UsableSnapshot, SnapshotUnread, Replay, CheckMembership
  <2>4. QED BY <1>6, <2>1, <2>2, <2>3 DEF Prepare
<1>7. CASE HandleEvent(w)
  BY <1>4, <1>7, Projecting
<1>8. CASE Write(w) \/ CallFails(w) \/ Crash(w)
  <2>1. CASE CallFails(w) \/ Crash(w)
    BY <1>4, <2>1 DEF CallFails, Crash
  <2>2. CASE CheckRefuses(w) \/ AppendCommits(w) \/ AppendConflicts(w) \/ AppendUnanswered(w) \/ ConfirmAppend(w)
    BY <2>2 DEF CheckRefuses, AppendCommits, AppendConflicts, AppendUnanswered, ConfirmAppend
  <2>3. CASE Observe(w) \/ SnapshotCheck(w) \/ SnapshotPut(w) \/ Unlock(w)
    BY <2>3 DEF Observe, SnapshotCheck, SnapshotPut, Unlock
  <2>4. QED BY <1>8, <2>1, <2>2, <2>3 DEF Write
<1>9. QED BY <1>5, <1>6, <1>7, <1>8 DEF LocalStep, Step

(* Every event that gets into the stream carries an id, and the first is   *)
(* a command's.                                                            *)
LEMMA StepIssued ==
  ASSUME Inv, Inv5, Next
  PROVE  Issued'
<1>1. Inv1 /\ TypeOK /\ Issued /\ Len(stream) \in Nat /\ (stream = <<>> <=> Len(stream) = 0)
      /\ stream \in Seq(Events)
  <2>1. Inv1 /\ TypeOK /\ Issued /\ stream \in Seq(Events)
    BY DEF Inv, Inv1, Inv5, TypeOK
  <2>2. Len(stream) \in Nat /\ (stream = <<>> <=> Len(stream) = 0)
    BY <2>1
  <2>3. QED BY <2>1, <2>2
<1> USE <1>1
<1>2. ASSUME NEW e \in Events, Extend(e), e.type = "event_rejected" => stream # <<>>, ID(e) > 0,
             stream = <<>> => ~ e.stray, \A f \in inflight' : ID(f.event) > 0 /\ ~ f.event.stray
      PROVE  Issued'
  <2> USE <1>2
  <2>1. /\ Len(stream') = Len(stream) + 1 /\ stream'[Len(stream) + 1] = e /\ Grows
    BY ExtendGrows
  <2>2. \A v \in 1..Len(stream') : ID(stream'[v]) > 0
    BY <2>1 DEF Issued, Grows
  <2>3. ~ stream'[1].stray
    BY <2>1 DEF Issued, Grows
  <2>4. QED BY <2>2, <2>3 DEF Issued
<1>3. ASSUME stream' = stream, \A f \in inflight' : ID(f.event) > 0 /\ ~ f.event.stray
      PROVE  Issued'
  BY <1>3 DEF Issued
<1> USE <1>2, <1>3
<1>4. ASSUME NEW w \in Writers, LocalStep(w) PROVE Issued'
  <2>1. /\ UNCHANGED <<stream, trees>> \/ AppendCommits(w)
        /\ inflight' = inflight \/ AppendUnanswered(w)
    BY <1>4, Writes
  <2>2. CASE AppendCommits(w)
    <3>1. pc[w] = "append" /\ Extend(NewEvent(w)) /\ inflight' = inflight
      BY <2>2 DEF AppendCommits
    <3> USE <3>1
    <3>2. NewEvent(w) \in Events /\ (NewEvent(w).type = "event_rejected" => stream # <<>>)
      BY NewEventIsEvent
    <3>3. ID(req[w]) > 0
      BY WriterFacts DEF Placed, Inv, Inv2, OwnID
    <3>4. ID(NewEvent(w)) > 0 /\ ~ NewEvent(w).stray
      BY <3>3 DEF NewEvent, ID
    <3>5. QED BY <3>2, <3>4 DEF Issued
  <2>3. CASE AppendUnanswered(w)
    <3>1. /\ pc[w] = "append" /\ stream' = stream
          /\ inflight' = inflight \cup {[event |-> NewEvent(w), after |-> last[w]]}
      BY <2>3 DEF AppendUnanswered, streamVars
    <3>2. ID(req[w]) > 0
      BY <3>1, WriterFacts DEF Placed, Inv, Inv2, OwnID
    <3>3. ID(NewEvent(w)) > 0 /\ ~ NewEvent(w).stray
      BY <3>2 DEF NewEvent, ID
    <3>4. QED BY <3>1, <3>3 DEF Issued
  <2>4. CASE UNCHANGED <<stream, inflight>>
    BY <2>4 DEF Issued
  <2>5. QED BY <2>1, <2>2, <2>3, <2>4
<1>5. CASE CommitLands
  <2>1. PICK f \in inflight : f.after = Len(stream) /\ Extend(f.event) /\ inflight' = inflight \ {f}
    BY <1>5 DEF CommitLands
  <2>2. f.event \in Events /\ (f.event.type = "event_rejected" => stream # <<>>)
    BY <2>1 DEF TypeOK, Inv1
  <2>3. QED BY <2>1, <2>2 DEF Issued
<1>6. CASE Stray
  <2> USE <1>6
  <2>1. HasRoom(0) /\ inflight' = inflight /\ stream # <<>>
    BY DEF Stray
  <2>2. PICK e \in Unchecked : Extend(e)
    BY DEF Stray
  <2> USE <2>2
  <2>3. ID(e) = NewID
    BY DEF Unchecked, Body, ID
  <2>4. NewID \in Nat \ {0}
    BY <2>1, NewIDFresh
  <2>5. stream' = Append(stream, e)
    BY DEF Extend
  <2>6. PICK d \in Events : Extend(d)
    BY <2>5, Growth DEF Next
  <2>7. d = e
    <3>1. stream \in Seq(Events)
      OBVIOUS
    <3>2. \A c : Extend(c) => stream'[Len(stream) + 1] = c
      BY <3>1 DEF Extend
    <3>3. QED BY <2>6, <3>2
  <2>8. e.type # "event_rejected"
    BY DEF Unchecked
  <2>9. QED BY <2>1, <2>3, <2>4, <2>6, <2>7, <2>8 DEF Issued
<1>7. CASE CommitFails \/ LoseLock
  <2>1. stream' = stream /\ inflight' \subseteq inflight
    BY <1>7 DEF CommitFails, LoseLock, streamVars
  <2>2. QED BY <2>1 DEF Issued
<1>8. QED BY <1>4, <1>5, <1>6, <1>7 DEF Next, LocalStep

(* No step makes a report false. *)
LEMMA StepInv5 == Inv /\ Inv5 /\ [Next]_vars /\ Inv1' => Inv5'
<1> SUFFICES ASSUME Inv, Inv5, [Next]_vars, Inv1' PROVE Inv5'
  OBVIOUS
<1>1. CASE UNCHANGED vars
  BY <1>1 DEF vars, Inv5, Issued, Traced, Filed, Dated, Sent, Taken, Reported, TrueReport, Closed, Unsent, Kind, Rejects
<1>2. CASE Next
  <2>1. Inv1 /\ Inv1' /\ TypeOK
    BY DEF Inv, Inv1
  <2> USE <2>1
  <2>2. /\ Len(stream) \in Nat /\ Len(stream') \in Nat /\ Grows
        /\ store.projected \in Nat /\ store'.projected \in Nat /\ store'.projected >= store.projected
    BY StepGrows, StepAdvances DEF Inv1, TypeOK
  <2> USE <1>2
  <2>3. Issued'
    BY StepIssued
  <2> USE <2>2
  <2>4. Traced'
    <3>1. CASE store' = store
      <4>1. \A id : Dated(stream, store.projected, id) => Dated(stream', store'.projected, id)
        BY DatedStays
      <4>2. QED BY <3>1, <4>1 DEF Inv5, Traced
    <3>2. CASE \E w \in Writers : InsertRow(w) \/ RemoveRow(w) \/ RejectRow(w)
      BY <3>2, WriteTraced
    <3>3. CASE CommitLands \/ CommitFails \/ LoseLock \/ Stray
      BY <3>1, <3>3 DEF CommitLands, CommitFails, LoseLock, Stray, appendFrame
    <3>4. QED BY <3>1, <3>2, <3>3, Writes DEF Next, LocalStep
  <2>5. ASSUME NEW x \in Writers PROVE Sent(x)' /\ Taken(x)' /\ Reported(x)'
    <3>1. CASE LocalStep(x)
      BY <3>1, OwnSent, OwnTaken, OwnReported
    <3>2. ASSUME NEW w \in Writers, LocalStep(w), w # x PROVE Sent(x)' /\ Taken(x)' /\ Reported(x)'
      <4> USE <3>2
      <4>1. Same(x)
        BY Locality
      <4>2. result'[x] = result[x]
        BY LocalResult
      <4>3. Arrivals(x)
        BY LocalArrivals
      <4>4. QED BY <4>1, <4>2, <4>3, OthersReports
    <3>3. CASE CommitLands \/ CommitFails \/ LoseLock \/ Stray
      <4>1. Same(x) /\ result'[x] = result[x]
        BY <3>3 DEF CommitLands, CommitFails, LoseLock, Stray, appendFrame, handleVars, buildVars, Same
      <4>2. Arrivals(x)
        BY <3>3, SharedArrivals
      <4>3. QED BY <4>1, <4>2, OthersReports
    <3>4. QED BY <3>1, <3>2, <3>3 DEF Next, LocalStep
  <2>6. Filed'
    BY StepFiled DEF Inv5
  <2>7. QED BY <2>3, <2>4, <2>5, <2>6 DEF Inv5
<1>3. QED BY <1>1, <1>2

(* At the start nothing is reported. *)
LEMMA InitInv5 == Init => Inv5
<1> SUFFICES ASSUME Init PROVE Inv5
  OBVIOUS
<1>1. Issued
  BY DEF Init, Issued
<1>2. Traced
  BY DEF Init, Traced, EmptyStore
<1>3. \A w \in Writers : pc[w] = "idle" /\ Kind(w) = "load" /\ ID(req[w]) = 0
  BY DEF Init, Kind, ID, NoRequest, NoBody, Body
<1>4. Filed
  BY DEF Init, Filed, EmptyStore
<1>5. QED BY <1>1, <1>2, <1>3, <1>4 DEF Inv5, Sent, Taken, Reported, HandleSteps, SnapshotSteps

-----------------------------------------------------------------------------

(***************************************************************************)
(* One tree type.                                                          *)
(***************************************************************************)
(* While no lock is lost, whoever works holds it. *)
Guarded == losses = 0 => \A w \in Writers : pc[w] \notin {"idle", "lock"} => holder = w

(* A type read before the lock is the stream's; every command but add-root *)
(* and load has read one.                                                  *)
Shaped(w) ==
    /\ Kind(w) \notin {"root_added", "load"} => req[w].ttype = NoType /\ shape[w] # NoType
    /\ (pc[w] = "lock" \/ Kind(w) \notin {"root_added", "load"}) /\ shape[w] # NoType
          => stream # <<>> /\ shape[w] = stream[1].ttype

(* Everything in the stream, or on its way past version 1, is of one type. *)
Typed ==
    /\ \A v \in 1..Len(stream) : stream[v].ttype = stream[1].ttype
    /\ \A f \in inflight : f.after > 0 => f.event.ttype = stream[1].ttype

(* An add-root or load of another type than version 1's found the stream   *)
(* empty under the lock, and a commit that was still undecided landed      *)
(* since: version 1 is all there is, and the command will not get past it. *)
Mismatch(w) == Late(w) /\ stream # <<>> /\ shape[w] # stream[1].ttype

Overtaken(w) ==
    Mismatch(w) =>
        /\ pc[w] \in {"rows", "snapshot", "replay", "last"} =>
              Len(stream) = 1 /\ store.projected = 0 /\ \A f \in inflight : f.after = 0
        /\ (pc[w] \in HandleSteps /\ phase[w] = "catchup") \/ pc[w] = "append" => last[w] <= 1

Inv6 ==
    /\ Guarded
    /\ \A w \in Writers : Shaped(w)
    /\ losses = 0 => Typed /\ \A w \in Writers : Overtaken(w)

(* The first event is an add-root, and the tree after it has a root. *)
LEMMA FirstIsRoot ==
  ASSUME Inv, Inv5, stream # <<>>
  PROVE  stream[1].type = "root_added" /\ HasRoot(trees[2])
<1>1. 1 \in 1..Len(stream)
  <2>1. stream \in Seq(Events)
    BY DEF Inv, Inv1, TypeOK
  <2>2. QED BY <2>1
<1> USE <1>1
<1>2. stream[1].type \in EventTypes /\ trees[1] = EmptyTree /\ Meaning(stream, trees, 1) /\ Sound(stream, trees, 1)
  <2>1. stream[1] \in Events
    BY DEF Inv, Inv1, TypeOK
  <2>2. stream[1].type \in EventTypes
    BY <2>1 DEF Events
  <2>3. QED BY <2>2 DEF Inv, Inv4, Meanings
<1>3. stream[1].type # "event_rejected"
  <2>1. ~ (1 - 1 \in 1..Len(stream))
    OBVIOUS
  <2>2. QED BY <2>1 DEF Inv, Inv3, Named, Rejectable, IsRejection
<1> USE <1>2, <1>3
<1>4. Accepts(EmptyTree, stream[1])
  BY DEF Sound, Inv5, Issued
<1>5. DOMAIN EmptyTree = {}
  BY DEF EmptyTree
<1> USE <1>4
<1>6. stream[1].type # "node_placed"
  BY <1>5 DEF Accepts, Refusal, CheckAddNode
<1>7. stream[1].type # "node_removed"
  BY <1>5 DEF Accepts, Refusal, CheckRemoveNode
<1>8. stream[1].type = "root_added"
  BY <1>6, <1>7 DEF EventTypes
<1>9. trees[1 + 1] = AddRoot(EmptyTree, stream[1].body.user)
  BY <1>8 DEF Meaning, Apply
<1>10. HasRoot(AddRoot(EmptyTree, stream[1].body.user))
  BY DEF HasRoot, AddRoot, With
<1>11. QED BY <1>8, <1>9, <1>10

(* A command whose type is not the stream's has its event refused. *)
LEMMA OvertakenRefused ==
  ASSUME Inv, Inv5, NEW w \in Writers, Shaped(w), Overtaken(w), pc[w] = "append", Mismatch(w), last[w] > 0
  PROVE  ~ Checked(w)
<1>1. last[w] = 1 /\ Kind(w) = "root_added" /\ ~ Rejects(w)
  <2>1. last[w] \in Nat /\ Placed(w)
    BY WriterFacts DEF Inv
  <2>2. last[w] <= 1
    BY DEF Overtaken
  <2>3. Kind(w) # "load"
    BY <2>1 DEF Placed
  <2>4. QED BY <2>1, <2>2, <2>3 DEF Shaped, Mismatch, Rejects
<1>2. engine[w] = trees[1 + 1]
  BY <1>1 DEF Inv, Inv4, Holds
<1>3. HasRoot(engine[w])
  BY <1>2, FirstIsRoot DEF Mismatch
<1>4. NewEvent(w).type = "root_added"
  BY <1>1 DEF NewEvent, Kind
<1>5. ~ Accepts(engine[w], NewEvent(w))
  BY <1>3, <1>4 DEF Accepts, Refusal, CheckAddRoot
<1>6. QED BY <1>1, <1>5 DEF Checked, Rejects, Kind

(* Two commands do not work at once. *)
LEMMA StepGuarded ==
  ASSUME Inv, Guarded, Next
  PROVE  Guarded'
<1> SUFFICES ASSUME losses' = 0, NEW x \in Writers, pc'[x] \notin {"idle", "lock"}
             PROVE  holder' = x
  BY DEF Guarded
<1>1. Inv1 /\ TypeOK /\ losses \in Nat /\ NoWriter \notin Writers
  BY ConstantsAssumption DEF Inv, Inv1, TypeOK
<1> USE <1>1
<1>2. ASSUME NEW w \in Writers, LocalStep(w) PROVE holder' = x
  <2> USE <1>2
  <2>1. losses = 0
    BY Writes
  <2>2. pc[x] \notin {"idle", "lock"} \/ (x = w /\ Lock(w))
    <3>1. CASE x = w
      BY <3>1, WorksFrom
    <3>2. CASE x # w
      BY <3>2, Locality DEF Same
    <3>3. QED BY <3>1, <3>2
  <2>3. CASE pc[x] \notin {"idle", "lock"}
    <3>1. holder = x
      BY <2>1, <2>3 DEF Guarded
    <3> USE <3>1
    <3>2. ~ Lock(w)
      BY DEF Lock
    <3>3. (Unlock(w) \/ Crash(w)) /\ w = x => pc'[x] = "idle"
      BY WriterFacts DEF Unlock, Crash, Forget, Goto, Domains
    <3>4. (Unlock(w) \/ Crash(w)) /\ w # x => holder' = holder
      BY DEF Unlock, Crash
    <3>5. QED BY <3>2, <3>3, <3>4, Writes
  <2>4. CASE x = w /\ Lock(w)
    BY <2>4 DEF Lock
  <2>5. QED BY <2>2, <2>3, <2>4
<1>3. CASE LoseLock
  BY <1>3 DEF LoseLock
<1>4. CASE CommitLands \/ CommitFails \/ Stray
  <2>1. UNCHANGED <<losses, holder, pc>>
    BY <1>4 DEF CommitLands, CommitFails, Stray, appendFrame, faultVars
  <2>2. QED BY <2>1 DEF Guarded
<1>5. QED BY <1>2, <1>3, <1>4 DEF Next, LocalStep

(* The first event stays the first. *)
LEMMA FirstStays ==
  ASSUME Inv, Next, stream # <<>>
  PROVE  stream' # <<>> /\ stream'[1] = stream[1]
<1>1. Inv1 /\ stream \in Seq(Events)
  BY DEF Inv, Inv1, TypeOK
<1>2. Grows /\ Len(stream') \in Nat /\ Len(stream) \in Nat
  BY <1>1, StepGrows
<1>3. Len(stream) > 0
  BY <1>1
<1>4. stream'[1] = stream[1] /\ Len(stream') > 0
  BY <1>2, <1>3 DEF Grows
<1>5. QED BY <1>4

(* What a command read of the type stays the type. *)
LEMMA StepShaped ==
  ASSUME Inv, Next, NEW x \in Writers, Shaped(x)
  PROVE  Shaped(x)'
<1>1. Inv1 /\ TypeOK /\ Domains /\ Placed(x) /\ NoType \notin TreeTypes
  BY WriterFacts DEF Inv, Inv1
<1>2. stream # <<>> => stream' # <<>> /\ stream'[1] = stream[1]
  BY FirstStays
<1> USE DEF Domains, Goto
<1>3. ASSUME req'[x] = req[x], shape'[x] = shape[x], pc'[x] = "lock" => pc[x] = "lock" PROVE Shaped(x)'
  BY <1>2, <1>3 DEF Shaped, Kind
<1> USE <1>1, <1>3
<1>4. CASE LocalStep(x)
  <2>1. CASE Begin(x)
    <3>1. stream' = stream /\ shape'[x] = Recorded /\ pc'[x] = "lock"
      BY <2>1 DEF Begin, StartAddRoot, StartPlace, StartRemove, StartLoad, StartReject, Start,
         streamVars
    <3>2. Recorded # NoType => stream # <<>> /\ Recorded = stream[1].ttype
      BY DEF Recorded
    <3>3. ASSUME Kind(x)' \notin {"root_added", "load"} PROVE req'[x].ttype = NoType /\ shape'[x] # NoType
      <4>1. StartPlace(x) \/ StartRemove(x) \/ StartReject(x)
        BY <2>1, <3>3 DEF Begin, StartAddRoot, StartLoad, Start, Kind
      <4>2. req'[x].ttype = NoType
        BY <4>1 DEF StartPlace, StartRemove, StartReject, Start
      <4>3. stream # <<>> => Recorded # NoType
        BY WriterFacts DEF Recorded
      <4>4. Recorded # NoType
        BY <4>1, <4>3 DEF StartPlace, StartRemove, StartReject
      <4>5. QED BY <3>1, <4>2, <4>4
    <3>4. QED BY <3>1, <3>2, <3>3 DEF Shaped
  <2>2. CASE Forget(x)
    BY <2>2 DEF Forget, NoRequest, Shaped, Kind
  <2>3. CASE UnderLock(x)
    <3>1. pc[x] = "underLock" /\ req' = req /\ stream' = stream /\ req[x].ttype \in TreeTypes
      BY <2>3 DEF UnderLock, Placed, streamVars
    <3>2. pc'[x] # "lock" /\ Kind(x) \in {"root_added", "load"}
      BY <2>3, <3>1 DEF UnderLock, Refuse, Shaped
    <3>3. QED BY <3>1, <3>2 DEF Shaped, Kind
  <2>4. CASE ~ Begin(x) /\ ~ Forget(x) /\ ~ UnderLock(x)
    <3>1. req' = req /\ shape' = shape
      BY <1>4, <2>4, Writes
    <3>2. pc'[x] = "lock" => pc[x] = "lock"
      BY <1>4, <2>4, LockFrom
    <3>3. QED BY <3>1, <3>2
  <2>5. QED BY <2>1, <2>2, <2>3, <2>4
<1>5. ASSUME NEW w \in Writers, LocalStep(w), w # x PROVE Shaped(x)'
  BY <1>5, Locality DEF Same
<1>6. CASE CommitLands \/ CommitFails \/ LoseLock \/ Stray
  <2>1. UNCHANGED <<req, shape, pc>>
    BY <1>6 DEF CommitLands, CommitFails, LoseLock, Stray, appendFrame
  <2>2. QED BY <2>1
<1>7. QED BY <1>4, <1>5, <1>6 DEF Next, LocalStep

(* While no lock is lost, what a command appends is of the stream's type. *)
LEMMA AppendsOneType ==
  ASSUME Inv, Inv5, Inv6, losses = 0, NEW w \in Writers, pc[w] = "append", Checked(w)
  PROVE  (last[w] > 0 \/ last[w] = Len(stream)) /\ stream # <<>> => shape[w] = stream[1].ttype
<1>1. Inv1 /\ last[w] \in Nat /\ Len(stream) \in Nat /\ (stream = <<>> <=> Len(stream) = 0)
  BY WriterFacts DEF Inv
<1>2. Shaped(w) /\ Overtaken(w) /\ Late(w)
  BY DEF Inv6, Late
<1>3. QED BY <1>1, <1>2, OvertakenRefused DEF Mismatch

(* Every event of the stream is of the type of the first. *)
LEMMA StepTyped ==
  ASSUME Inv, Inv5, Inv6, Next, losses = 0
  PROVE  Typed'
<1>1. Inv1 /\ TypeOK /\ Typed /\ Len(stream) \in Nat /\ (stream = <<>> <=> Len(stream) = 0)
  <2>1. Inv1 /\ TypeOK /\ Typed /\ stream \in Seq(Events)
    BY DEF Inv, Inv1, TypeOK, Inv6
  <2>2. QED BY <2>1
<1>2. \A f \in inflight : f.after \in Nat /\ f.after <= Len(stream)
  BY AimsBelow
<1>3. stream # <<>> => stream' # <<>> /\ stream'[1] = stream[1]
  BY FirstStays
<1> USE <1>1
<1>4. \A f \in inflight : f.after > 0 => f.event.ttype = stream'[1].ttype
  BY <1>2, <1>3 DEF Typed
<1>5. \A v \in 1..Len(stream') : stream'[v].ttype = stream'[1].ttype
  <2>1. CASE stream' = stream
    BY <2>1 DEF Typed
  <2>2. CASE stream' # stream
    <3>1. PICK e \in Events :
            /\ Extend(e) /\ (e.type = "event_rejected" => stream # <<>>)
            /\ \/ \E w \in Writers : AppendCommits(w) /\ e = NewEvent(w)
               \/ CommitLands /\ \E f \in inflight : f.after = Len(stream) /\ e = f.event
               \/ Stray /\ e \in Unchecked
      BY <2>2, Comes
    <3>2. Len(stream') = Len(stream) + 1 /\ stream'[Len(stream) + 1] = e /\ Grows
      BY <3>1, ExtendGrows
    <3>3. stream # <<>> => e.ttype = stream[1].ttype
      <4>1. ASSUME NEW w \in Writers, AppendCommits(w), e = NewEvent(w), stream # <<>> PROVE e.ttype = stream[1].ttype
        <5> USE <4>1
        <5>1. pc[w] = "append" /\ Checked(w) /\ Len(stream) = last[w]
          BY DEF AppendCommits, AtExpectedVersion
        <5>2. shape[w] = stream[1].ttype
          BY <5>1, AppendsOneType
        <5>3. QED BY <5>2 DEF NewEvent
      <4>2. ASSUME NEW f \in inflight, f.after = Len(stream), e = f.event, stream # <<>> PROVE e.ttype = stream[1].ttype
        BY <4>2 DEF Typed
      <4>3. ASSUME e \in Unchecked, stream # <<>> PROVE e.ttype = stream[1].ttype
        <5>1. e.ttype = Recorded
          BY <4>3 DEF Unchecked
        <5>2. QED BY <4>3, <5>1 DEF Recorded
      <4>4. QED BY <3>1, <4>1, <4>2, <4>3
    <3>4. CASE stream # <<>>
      BY <1>3, <3>2, <3>3, <3>4 DEF Typed, Grows
    <3>5. CASE stream = <<>>
      <4>1. Len(stream') = 1
        BY <3>2, <3>5
      <4>2. QED BY <4>1
    <3>6. QED BY <3>4, <3>5
  <2>3. QED BY <2>1, <2>2
<1>6. \A f \in inflight' : f.after > 0 => f.event.ttype = stream'[1].ttype
  <2>1. ASSUME NEW w \in Writers, AppendUnanswered(w)
        PROVE  \A f \in inflight' : f.after > 0 => f.event.ttype = stream'[1].ttype
    <3> DEFINE g == [event |-> NewEvent(w), after |-> last[w]]
    <3>1. pc[w] = "append" /\ Checked(w) /\ stream' = stream /\ inflight' = inflight \cup {g}
      BY <2>1 DEF AppendUnanswered, streamVars
    <3>2. last[w] \in Nat /\ last[w] <= Len(stream)
      BY WriterFacts DEF Placed
    <3>3. last[w] > 0 => shape[w] = stream[1].ttype
      BY <3>1, <3>2, AppendsOneType
    <3>4. g.after = last[w] /\ g.event.ttype = shape[w]
      BY DEF NewEvent
    <3> HIDE DEF g
    <3>5. QED BY <1>4, <3>1, <3>3, <3>4
  <2>2. CASE inflight' \subseteq inflight
    BY <1>4, <2>2
  <2>3. CASE CommitLands \/ CommitFails \/ LoseLock \/ Stray
    BY <2>2, <2>3 DEF CommitLands, CommitFails, LoseLock, Stray
  <2>4. QED BY <2>1, <2>2, <2>3, Writes DEF Next, LocalStep
<1>7. QED BY <1>5, <1>6 DEF Typed

(* The steps of an overtaken command. *)
LEMMA OwnOvertaken ==
  ASSUME Inv, Inv5, Inv6, losses = 0, NEW x \in Writers, LocalStep(x), Mismatch(x)'
  PROVE  /\ pc'[x] \in {"rows", "snapshot", "replay", "last"} =>
               Len(stream') = 1 /\ store'.projected = 0 /\ \A f \in inflight' : f.after = 0
         /\ (pc'[x] \in HandleSteps /\ phase'[x] = "catchup") \/ pc'[x] = "append" => last'[x] <= 1
<1>1. /\ Inv1 /\ Domains /\ Placed(x) /\ Shaped(x) /\ Overtaken(x)
      /\ last[x] \in Nat /\ Len(stream) \in Nat /\ (stream = <<>> <=> Len(stream) = 0) /\ NoType \notin TreeTypes
  BY WriterFacts DEF Inv, Inv6
<1>2. Late(x)' /\ stream' # <<>> /\ shape'[x] # stream'[1].ttype
  BY DEF Mismatch
<1> USE DEF Domains, Goto
<1> USE <1>1, <1>2
<1>3. ASSUME stream' = stream, shape' = shape, Late(x)
      PROVE  Mismatch(x) /\ Kind(x) \in {"root_added", "load"} /\ ~ Rejects(x)
  BY <1>3 DEF Mismatch, Shaped, Rejects
<1> USE <1>3
<1>4. ASSUME pc'[x] \in {"rows", "snapshot", "replay", "last"}
      PROVE  Len(stream') = 1 /\ store'.projected = 0 /\ \A f \in inflight' : f.after = 0
  <2>1. ~ UnderLock(x)
    <3>1. SUFFICES ASSUME UnderLock(x) PROVE FALSE
      OBVIOUS
    <3>2. stream' = stream /\ shape'[x] = IF SecondRead = NoType THEN req[x].ttype ELSE SecondRead
      BY <3>1 DEF UnderLock, streamVars
    <3>3. SecondRead = stream[1].ttype /\ stream[1].ttype # NoType
      <4>1. stream # <<>> /\ stream[1].ttype \in TreeTypes
        <5>1. stream # <<>> /\ 1 \in 1..Len(stream)
          BY <3>2
        <5>2. QED BY <5>1, WriterFacts
      <4>2. QED BY <4>1 DEF SecondRead, Recorded
    <3>4. QED BY <3>2, <3>3
  <2>2. ~ Lock(x)
    <3>1. SUFFICES ASSUME Lock(x) PROVE FALSE
      OBVIOUS
    <3>2. pc[x] = "lock" /\ stream' = stream /\ shape' = shape /\ shape[x] # NoType
      BY <1>4, <3>1 DEF Lock, streamVars
    <3>3. QED BY <3>2 DEF Shaped
  <2>3. ~ (RejectReadLast(x) /\ Rejects(x))
    <3>1. RejectReadLast(x) => pc[x] = "rejectLast" /\ stream' = stream /\ shape' = shape
      BY DEF RejectReadLast, streamVars
    <3>2. QED BY <3>1 DEF Late
  <2>4. /\ ReadRows(x) \/ UsableSnapshot(x) \/ SnapshotUnread(x) \/ Replay(x) \/ CheckMembership(x) \/ BuildFailed(x)
        /\ pc[x] \in {"rows", "snapshot", "replay"}
    BY <1>4, <2>1, <2>2, <2>3, LoadFrom DEF LoadSteps
  <2> USE <2>4
  <2>5. UNCHANGED <<stream, shape, store, inflight>>
    BY DEF ReadRows, UsableSnapshot, SnapshotUnread, Replay, CheckMembership, BuildFailed,
       streamVars
  <2>6. Mismatch(x)
    BY <2>5 DEF Late
  <2>7. QED BY <2>5, <2>6 DEF Overtaken
<1>5. ASSUME ReadLast(x) PROVE last'[x] <= 1
  <2>1. pc[x] = "last" /\ stream' = stream /\ shape' = shape /\ last'[x] = Len(stream)
    BY <1>5 DEF ReadLast, streamVars
  <2> USE <2>1
  <2>2. Mismatch(x)
    BY DEF Late
  <2>3. Len(stream) = 1
    BY <2>2 DEF Overtaken
  <2>4. QED BY <2>3
<1>6. ASSUME pc'[x] \in HandleSteps /\ phase'[x] = "catchup" PROVE last'[x] <= 1
  <2> USE <1>6
  <2>1. CASE pc[x] \in HandleSteps /\ UNCHANGED <<stream, last, phase>>
    <3> USE <2>1
    <3>1. Late(x)
      BY DEF Late, HandleSteps
    <3>2. shape' = shape
      <4>1. ~ Begin(x) /\ ~ Forget(x) /\ ~ UnderLock(x)
        <5>1. pc'[x] \notin {"idle", "lock"}
          BY DEF HandleSteps
        <5>2. pc[x] # "underLock"
          BY DEF HandleSteps
        <5>3. QED BY <5>1, <5>2 DEF Forget, UnderLock, Begin, StartAddRoot, StartPlace,
           StartRemove, StartLoad, StartReject, Start
      <4>2. QED BY <4>1, Writes
    <3>3. Mismatch(x)
      BY <3>1, <3>2
    <3>4. QED BY <3>3 DEF Overtaken
  <2>2. QED BY <1>5, <2>1, HandleFrom
<1>7. ASSUME pc'[x] = "append" PROVE last'[x] <= 1
  <2>1. CASE HandleEvent(x) /\ phase[x] = "catchup"
    <3>1. pc[x] \in HandleSteps /\ UNCHANGED <<stream, shape, last>>
      BY <2>1, Projecting
    <3>2. Mismatch(x)
      BY <3>1 DEF Late, HandleSteps
    <3>3. QED BY <2>1, <3>1, <3>2 DEF Overtaken
  <2>2. CASE (BuildFailed(x) \/ StuckRowStopsTheLoad(x)) /\ Rejects(x)
    <3>1. Late(x) /\ stream' = stream /\ shape' = shape
      BY <2>2 DEF BuildFailed, StuckRowStopsTheLoad, streamVars, Late
    <3>2. QED BY <2>2, <3>1
  <2>3. QED BY <1>5, <1>7, <2>1, <2>2, AppendFrom
<1>8. QED BY <1>4, <1>6, <1>7

(* A command that was overtaken stays so, and no further. *)
LEMMA StepOvertaken ==
  ASSUME Inv, Inv5, Inv6, Next, Inv1', losses = 0, NEW x \in Writers
  PROVE  Overtaken(x)'
<1> SUFFICES ASSUME Mismatch(x)'
             PROVE  /\ pc'[x] \in {"rows", "snapshot", "replay", "last"} =>
                          Len(stream') = 1 /\ store'.projected = 0 /\ \A f \in inflight' : f.after = 0
                    /\ (pc'[x] \in HandleSteps /\ phase'[x] = "catchup") \/ pc'[x] = "append" => last'[x] <= 1
  BY DEF Overtaken
<1>1. /\ Inv1 /\ TypeOK /\ Domains /\ Placed(x) /\ Guarded /\ Shaped(x) /\ Overtaken(x)
      /\ store.projected \in Nat /\ store.projected <= Len(stream) /\ last[x] \in Nat
      /\ Len(stream) \in Nat /\ (stream = <<>> <=> Len(stream) = 0) /\ NoType \notin TreeTypes
  BY WriterFacts DEF Inv, Inv1, Inv6
<1>2. \A f \in inflight : f.after \in Nat /\ f.after <= Len(stream)
  BY AimsBelow
<1>3. stream # <<>> => stream' # <<>> /\ stream'[1] = stream[1]
  BY FirstStays
<1>4. Late(x)' /\ stream' # <<>> /\ shape'[x] # stream'[1].ttype
  BY DEF Mismatch
<1> USE <1>1, <1>4
<1>5. ASSUME NEW w \in Writers, LocalStep(w), w # x
      PROVE  /\ pc'[x] \in {"rows", "snapshot", "replay", "last"} =>
                   Len(stream') = 1 /\ store'.projected = 0 /\ \A f \in inflight' : f.after = 0
             /\ (pc'[x] \in HandleSteps /\ phase'[x] = "catchup") \/ pc'[x] = "append" => last'[x] <= 1
  <2> USE <1>5
  <2>1. Same(x)
    BY Locality
  <2> USE <2>1
  <2>2. Late(x) /\ holder = x
    BY DEF Late, Same, Guarded
  <2> USE <2>2
  <2>3. pc[w] \in {"idle", "lock"}
    BY DEF Guarded
  <2>4. ~ Lock(w)
    BY ConstantsAssumption DEF Lock
  <2>5. UNCHANGED <<stream, store, inflight>>
    BY <2>3, <2>4, WorksFrom
  <2>6. Mismatch(x)
    BY <2>5 DEF Mismatch, Same
  <2>7. QED BY <2>5, <2>6 DEF Overtaken, Same
<1>6. CASE CommitLands \/ CommitFails \/ LoseLock \/ Stray
  <2>1. UNCHANGED <<pc, shape, last, phase, store>> /\ inflight' \subseteq inflight
    BY <1>6 DEF CommitLands, CommitFails, LoseLock, Stray, appendFrame, handleVars
  <2> USE <2>1
  <2>2. CASE stream = <<>>
    <3> USE <2>2
    <3>1. Len(stream') <= 1 /\ Len(stream') \in Nat
      <4>1. CASE stream' = stream
        BY <4>1
      <4>2. CASE stream' # stream
        <5>1. PICK e \in Events : Extend(e) /\ (e.type = "event_rejected" => stream # <<>>)
          BY <4>2, Growth
        <5>2. Len(stream') = Len(stream) + 1
          BY <5>1, ExtendGrows
        <5>3. QED BY <5>2
      <4>3. QED BY <4>1, <4>2
    <3>2. Len(stream') = 1
      <4>1. stream' \in Seq(Events)
        BY DEF Inv1, TypeOK
      <4>2. Len(stream') # 0
        BY <4>1
      <4>3. \A n \in Nat : n <= 1 /\ n # 0 => n = 1
        OBVIOUS
      <4>4. QED BY <3>1, <4>2, <4>3
    <3>3. store.projected = 0 /\ last[x] = 0 /\ \A f \in inflight : f.after = 0
      BY <1>2 DEF Placed
    <3>4. QED BY <3>2, <3>3
  <2>3. CASE stream # <<>>
    <3>1. Mismatch(x)
      BY <1>3, <2>3 DEF Mismatch, Late
    <3> USE <3>1
    <3>2. CASE stream' = stream
      BY <3>2 DEF Overtaken
    <3>3. CASE stream' # stream
      <4>1. CommitLands \/ Stray
        BY <1>6, <3>3 DEF CommitFails, LoseLock, streamVars
      <4>2. pc[x] \notin {"rows", "snapshot", "replay", "last"}
        <5>1. SUFFICES ASSUME pc[x] \in {"rows", "snapshot", "replay", "last"} PROVE FALSE
          OBVIOUS
        <5>2. Len(stream) = 1 /\ store.projected = 0 /\ \A f \in inflight : f.after = 0
          BY <5>1 DEF Overtaken
        <5>3. QED BY <4>1, <5>2 DEF CommitLands, Stray
      <4>3. QED BY <4>2 DEF Overtaken
    <3>4. QED BY <3>2, <3>3
  <2>4. QED BY <2>2, <2>3
<1>7. CASE LocalStep(x)
  BY <1>7, OwnOvertaken
<1>8. QED BY <1>5, <1>6, <1>7 DEF Next, LocalStep

(* No step breaks Inv6. *)
LEMMA StepInv6 == Inv /\ Inv5 /\ Inv6 /\ [Next]_vars /\ Inv1' => Inv6'
<1> SUFFICES ASSUME Inv, Inv5, Inv6, [Next]_vars, Inv1' PROVE Inv6'
  OBVIOUS
<1>1. CASE UNCHANGED vars
  BY <1>1 DEF vars, Inv6, Guarded, Shaped, Typed, Overtaken, Mismatch, Late, Kind
<1>2. CASE Next
  <2>1. Guarded'
    BY <1>2, StepGuarded DEF Inv6
  <2>2. \A w \in Writers : Shaped(w)'
    BY <1>2, StepShaped DEF Inv6
  <2>3. losses' = 0 => losses = 0
    <3>1. losses \in Nat
      BY DEF Inv, Inv1, TypeOK
    <3>2. losses' = losses \/ losses' = losses + 1
      <4>1. CASE CommitLands \/ CommitFails \/ LoseLock \/ Stray
        BY <4>1 DEF CommitLands, CommitFails, LoseLock, Stray, appendFrame, faultVars
      <4>2. QED BY <1>2, <4>1, Writes DEF Next, LocalStep
    <3>3. QED BY <3>1, <3>2
  <2>4. losses = 0 => Typed' /\ \A w \in Writers : Overtaken(w)'
    BY <1>2, StepTyped, StepOvertaken
  <2>5. QED BY <2>1, <2>2, <2>3, <2>4 DEF Inv6
<1>3. QED BY <1>1, <1>2

(* At the start no command works. *)
LEMMA InitInv6 == Init => Inv6
<1> SUFFICES ASSUME Init PROVE Inv6
  OBVIOUS
<1>1. \A w \in Writers : pc[w] = "idle" /\ Kind(w) = "load"
  BY DEF Init, Kind, NoRequest
<1>2. stream = <<>> /\ inflight = {}
  BY DEF Init
<1>3. Typed
  BY <1>2 DEF Typed
<1>4. QED BY <1>1, <1>2, <1>3 DEF Inv6, Guarded, Shaped, Overtaken, Mismatch

=============================================================================
