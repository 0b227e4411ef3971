--------------------------- MODULE TreeWriterTable --------------------------
(***************************************************************************)
(* What the rows of the table are to the stream, and what each writer      *)
(* knows of them; what a write of the table, an event more in the stream   *)
(* and the steps of other writers leave of both.                           *)
(***************************************************************************)
EXTENDS TreeWriterSteps

USE Untyped

-----------------------------------------------------------------------------

(***************************************************************************)
(* What the stream and the table are to each other.  The operators take    *)
(* the stream s, the history of trees tr and the table st, so that they    *)
(* can be said of a state and of the next one.                             *)
(***************************************************************************)
(* The event at v left nothing to take back. *)
Clean(s, tr, v) == v = 0 \/ s[v].type = "event_rejected" \/ Accepts(tr[v], s[v])

(* The rows of t take no row for the event e. *)
Untakable(t, e) ==
    e.type = "node_placed" =>
        \/ e.body.user \in DOMAIN t \/ e.body.parent \notin DOMAIN t
        \/ SlotTaken(t, e.body.parent, e.body.pos)

(* The event at v does not apply, and the table has passed it or never     *)
(* will take it.                                                           *)
Refutable(s, tr, p, v) ==
    /\ ~ Accepts(tr[v], s[v])
    /\ v <= p \/ (Clean(s, tr, v - 1) /\ Untakable(tr[v], s[v]))

(* The table took the placement at v for user u. *)
Took(s, tr, v, u) ==
    /\ s[v].type \in {"root_added", "node_placed"} /\ s[v].body.user = u
    /\ u \notin DOMAIN tr[v]
    /\ s[v].type = "root_added" => Accepts(tr[v], s[v])

Without(rows, u) == [x \in DOMAIN rows \ {u} |-> rows[x]]

(* The rows show the tree of the projected version, but for the row of a   *)
(* placement there that does not apply.                                    *)
Rows(s, tr, st) ==
    LET p == st.projected
        u == s[p].body.user
    IN  IF Clean(s, tr, p) THEN View(st.active) = tr[p + 1]
        ELSE /\ s[p].type = "node_placed"
             /\ u \in DOMAIN st.active /\ st.active[u].id = ID(s[p])
             /\ View(Without(st.active, u)) = tr[p + 1]

(* The event at the projected version left its mark. *)
Marked(s, st) ==
    LET p == st.projected
        u == s[p].body.user
    IN  p > 0 =>
          /\ s[p].type \in {"root_added", "node_placed"} => u \in DOMAIN st.active /\ st.active[u].id = ID(s[p])
          /\ s[p].type = "node_removed" => NewestStamp(st, u) = ID(s[p])

(* Where the rows and the stamps come from. *)
Sourced(s, tr, st) ==
    /\ \A u \in DOMAIN st.active :
          /\ \E v \in 1..st.projected : ID(s[v]) = st.active[u].id /\ Took(s, tr, v, u)
          /\ \A v \in 1..st.projected : s[v].type = "event_rejected" => st.active[u].id # s[v].body.target
    /\ \A i \in DOMAIN st.tombs : st.tombs[i].stamp # NoEvent =>
          \E v \in 1..st.projected :
              ID(s[v]) = st.tombs[i].stamp /\ s[v].type = "node_removed" /\ Accepts(tr[v], s[v])
    /\ \A i \in DOMAIN st.tombs : Dated(s, st.projected, st.tombs[i].id)

(* What did not apply was taken back. *)
Cleared(s, tr, p) == \A v \in 1..(p - 1) : Clean(s, tr, v) \/ s[v + 1].type = "event_rejected"

Table(s, tr, st) ==
    Rows(s, tr, st) /\ Marked(s, st) /\ Sourced(s, tr, st) /\ Cleared(s, tr, st.projected)

Behind(s, tr, p) ==
    \/ Len(s) <= p + 1
    \/ /\ Len(s) = p + 2 /\ s[p + 2].type = "event_rejected"
       /\ Clean(s, tr, p) /\ Untakable(tr[p + 1], s[p + 1])

(* A root is added without a parent, a sponsor or a position. *)
PlainRoot(kind, b) == kind = "root_added" => b.parent = NoUser /\ b.sponsor = NoUser /\ b.pos = NoPos

-----------------------------------------------------------------------------

(***************************************************************************)
(* What each writer knows of the table.                                    *)
(***************************************************************************)
(* A load: it read rows of a version the table has reached, a replay       *)
(* leaves no event behind that does not apply, and one that fails on rows  *)
(* that pass the preflight holds the tree before the event it failed on.   *)
Loading(w) ==
    /\ loaded[w] <= store.projected
    /\ pc[w] \in {"snapshot", "replay"} => Preflight(View(seen[w]))
    /\ pc[w] = "replay" => \/ Clean(stream, trees, at[w])
                           \/ at[w] < loaded[w] /\ stream[at[w] + 1].type = "event_rejected"
    /\ pc[w] = "last" => Clean(stream, trees, loaded[w])
    /\ pc[w] = "buildFailed" /\ Preflight(View(seen[w])) =>
          /\ at[w] <= loaded[w]
          /\ engine[w] = IF Undone(stream, at[w], loaded[w]) THEN trees[at[w]] ELSE trees[at[w] + 1]
    /\ pc[w] = "stuckRow" \/ (pc[w] = "buildFailed" /\ ~ Preflight(View(seen[w])))
          => ~ Clean(stream, trees, loaded[w])
    /\ pc[w] \in {"snapshot", "replay", "buildFailed", "stuckRow"} /\ Rejects(w) /\ last[w] = Len(stream)
          => last[w] <= loaded[w] + 1

(* A projection: the table shows the tree before the event, or has passed  *)
(* it.                                                                     *)
Handling(w) ==
    /\ pc[w] \in HandleSteps \ {"rejection"} =>
          /\ \/ phase[w] = "catchup"
             \/ phase[w] = "project" /\ ~ Rejects(w) /\ Accepts(trees[cur[w]], stream[cur[w]])
          /\ cur[w] <= store.projected + 1
          /\ store.projected + 1 = cur[w] => Clean(stream, trees, store.projected)
    /\ pc[w] = "insert" /\ Ev(w).type = "node_placed" =>
          /\ depth[w] > 0
          /\ store.projected + 1 = cur[w] =>
                /\ Ev(w).body.parent \in DOMAIN trees[cur[w]]
                /\ depth[w] = trees[cur[w]][Ev(w).body.parent].depth + 1
    /\ pc[w] = "replayed" => cur[w] <= store.projected
    /\ pc[w] = "engineAdd" => Took(stream, trees, cur[w], Ev(w).body.user)
    /\ pc[w] = "reconcileAdd" => Accepts(trees[cur[w]], stream[cur[w]])
    /\ pc[w] \in SnapshotSteps => Clean(stream, trees, cur[w])

(* An append: a command's goes after an event the table shows, a           *)
(* rejection's after one that can be rejected.                             *)
Aiming(w) ==
    /\ pc[w] \in {"append", "confirm"} /\ ~ Rejects(w) =>
          last[w] <= store.projected /\ Clean(stream, trees, last[w])
    /\ pc[w] = "append" /\ Rejects(w) /\ last[w] = Len(stream) =>
          Refutable(stream, trees, store.projected, last[w])

Aimed(f) ==
    IF f.event.type = "event_rejected"
    THEN f.after = Len(stream) => Refutable(stream, trees, store.projected, f.after)
    ELSE f.after <= store.projected

Plain ==
    /\ \A v \in 1..Len(stream) : PlainRoot(stream[v].type, stream[v].body)
    /\ \A f \in inflight : PlainRoot(f.event.type, f.event.body)
    /\ \A w \in Writers : PlainRoot(Kind(w), req[w].body)

Justified == \A v \in 1..Len(stream) : IsRejection(v) => ~ Accepts(trees[v - 1], stream[v - 1])

Inv7 ==
    /\ Plain /\ Justified
    /\ \A v \in 1..(Len(stream) + 1) : Fit(trees[v])
    /\ \A f \in inflight : Aimed(f)
    /\ Clean(stream, trees, snap.version)
    /\ Table(stream, trees, store) /\ Behind(stream, trees, store.projected)
    /\ \A w \in Writers : Loading(w) /\ Handling(w) /\ Aiming(w)

(* Whether an event applied does not change. *)
LEMMA CleanStays ==
  ASSUME Grows, Len(stream) \in Nat, NEW v \in 0..Len(stream)
  PROVE  Clean(stream', trees', v) <=> Clean(stream, trees, v)
<1>1. CASE v = 0
  BY <1>1 DEF Clean
<1>2. CASE v # 0
  <2>1. v \in 1..Len(stream) /\ v \in 1..(Len(stream) + 1)
    BY <1>2
  <2>2. stream'[v] = stream[v] /\ trees'[v] = trees[v]
    BY <2>1 DEF Grows
  <2>3. QED BY <2>2 DEF Clean
<1>3. QED BY <1>1, <1>2

(* What the table owes the stream, it still does when events follow. *)
LEMMA TableStays ==
  ASSUME Grows, Len(stream) \in Nat, NEW st, st.projected \in 0..Len(stream), Table(stream, trees, st)
  PROVE  Table(stream', trees', st)
<1> DEFINE p == st.projected
<1>1. \A v \in 1..p : stream'[v] = stream[v] /\ trees'[v] = trees[v]
  BY DEF Grows
<1>2. trees'[p + 1] = trees[p + 1] /\ p \in Nat
  BY DEF Grows
<1>3. \A v \in 0..p : Clean(stream', trees', v) <=> Clean(stream, trees, v)
  BY CleanStays
<1>4. Clean(stream', trees', p) <=> Clean(stream, trees, p)
  BY <1>2, <1>3
<1>5. ~ Clean(stream, trees, p) => stream'[p] = stream[p]
  BY <1>1, <1>2 DEF Clean
<1>6. p > 0 => stream'[p] = stream[p]
  BY <1>1, <1>2
<1> HIDE DEF p
<1>7. Rows(stream', trees', st)
  BY <1>2, <1>4, <1>5 DEF Table, Rows, p
<1>8. Marked(stream', st)
  BY <1>6 DEF Table, Marked, p
<1>9. \A v \in 1..p : \A u : Took(stream', trees', v, u) <=> Took(stream, trees, v, u)
  BY <1>1 DEF Took
<1>10. Sourced(stream', trees', st)
  BY <1>1, <1>9 DEF Table, Sourced, Dated, p
<1>11. Cleared(stream', trees', p)
  <2> SUFFICES ASSUME NEW v \in 1..(p - 1)
               PROVE  Clean(stream', trees', v) \/ stream'[v + 1].type = "event_rejected"
    BY DEF Cleared
  <2>1. v \in 0..p /\ v + 1 \in 1..p
    BY <1>2
  <2>2. Clean(stream, trees, v) \/ stream[v + 1].type = "event_rejected"
    BY DEF Table, Cleared, p
  <2>3. QED BY <1>1, <1>3, <2>1, <2>2
<1>12. QED BY <1>7, <1>8, <1>10, <1>11 DEF Table, p

(* An event that can be rejected stays so. *)
LEMMA RefutableStays ==
  ASSUME Grows, Len(stream) \in Nat, NEW v \in 1..Len(stream), NEW p \in Nat, NEW q \in Nat, p <= q,
         Refutable(stream, trees, p, v)
  PROVE  Refutable(stream', trees', q, v)
<1>1. stream'[v] = stream[v] /\ trees'[v] = trees[v]
  BY DEF Grows
<1>2. v - 1 \in 0..Len(stream)
  OBVIOUS
<1>3. Clean(stream', trees', v - 1) <=> Clean(stream, trees, v - 1)
  BY <1>2, CleanStays
<1>4. v <= p => v <= q
  OBVIOUS
<1>5. QED BY <1>1, <1>3, <1>4 DEF Refutable

(* The engine takes an event only from the tree before it. *)
LEMMA TakenFrom ==
  ASSUME NEW s, NEW tr, NEW v, Meaning(s, tr, v), s[v].type \in Mutations, NEW t \in {tr[v], tr[v + 1]},
         Accepts(t, s[v])
  PROVE  t = tr[v] /\ Accepts(tr[v], s[v]) /\ tr[v + 1] = Apply(tr[v], s[v])
<1>1. s[v].type # "event_rejected"
  BY DEF Mutations
<1>2. CASE Accepts(tr[v], s[v])
  <2>1. tr[v + 1] = Apply(tr[v], s[v])
    BY <1>1, <1>2 DEF Meaning
  <2>2. ~ Accepts(tr[v + 1], s[v])
    BY <1>2, <2>1, NotTwice
  <2>3. QED BY <1>2, <2>1, <2>2
<1>3. CASE ~ Accepts(tr[v], s[v])
  BY <1>1, <1>3 DEF Meaning
<1>4. QED BY <1>2, <1>3

(* The plain facts about the stream and the table. *)
LEMMA TableFacts ==
  ASSUME Inv, Inv7
  PROVE  /\ Len(stream) \in Nat /\ store.projected \in Nat /\ store.projected <= Len(stream)
         /\ StoreOK(store)
         /\ \A v \in 1..Len(stream) : /\ stream[v] \in Events /\ stream[v].type \in Mutations \cup {"event_rejected"}
                                      /\ Meaning(stream, trees, v)
         /\ \A v \in 1..(Len(stream) + 1) : IsTree(trees[v]) /\ Fit(trees[v])
         /\ \A v \in 1..Len(stream) : IsRejection(v) =>
               /\ v - 1 \in 1..Len(stream) /\ stream[v - 1].type \in Mutations
               /\ ID(stream[v - 1]) = stream[v].body.target /\ ~ Accepts(trees[v - 1], stream[v - 1])
         /\ \A i, j \in 1..Len(stream) : ID(stream[i]) = ID(stream[j]) => i = j
<1>1. Inv1 /\ TypeOK /\ Named /\ Apart /\ Meanings
  BY DEF Inv, Inv1, Inv2, Inv3, Inv4
<1>2. stream \in Seq(Events) /\ Len(stream) \in Nat
  BY <1>1 DEF TypeOK
<1>3. \A v \in 1..Len(stream) : stream[v] \in Events
  BY <1>2
<1>4. \A e \in Events : e.type \in Mutations \cup {"event_rejected"}
  BY DEF Events, EventTypes, Mutations
<1>5. store.projected \in Nat /\ store.projected <= Len(stream) /\ StoreOK(store)
  BY <1>1 DEF Inv1, TypeOK, StoreOK
<1>6. \A v \in 1..Len(stream) : Meaning(stream, trees, v)
  BY <1>1 DEF Meanings
<1>7. \A v \in 1..(Len(stream) + 1) : IsTree(trees[v]) /\ Fit(trees[v])
  BY <1>1 DEF TypeOK, Inv7
<1>8. ASSUME NEW v \in 1..Len(stream), IsRejection(v)
      PROVE  /\ v - 1 \in 1..Len(stream) /\ stream[v - 1].type \in Mutations
             /\ ID(stream[v - 1]) = stream[v].body.target /\ ~ Accepts(trees[v - 1], stream[v - 1])
  <2>1. Rejectable(stream, v - 1, stream[v].body.target)
    BY <1>1, <1>8 DEF Named
  <2>2. v - 1 \in 1..Len(stream) /\ stream[v - 1].type # "event_rejected" /\ ID(stream[v - 1]) = stream[v].body.target
    BY <2>1 DEF Rejectable
  <2>3. stream[v - 1].type \in Mutations
    BY <1>3, <1>4, <2>2
  <2>4. ~ Accepts(trees[v - 1], stream[v - 1])
    BY <1>8 DEF Inv7, Justified
  <2>5. QED BY <2>2, <2>3, <2>4
<1>9. \A i, j \in 1..Len(stream) : ID(stream[i]) = ID(stream[j]) => i = j
  BY <1>1 DEF Apart
<1>10. QED BY <1>2, <1>3, <1>4, <1>5, <1>6, <1>7, <1>8, <1>9

(* Where a projection stands. *)
LEMMA Standing ==
  ASSUME Inv, Inv7, NEW w \in Writers, pc[w] \in HandleSteps \ {"rejection"}
  PROVE  /\ cur[w] \in 1..Len(stream) /\ cur[w] <= store.projected + 1
         /\ stream[cur[w]].type \in Mutations /\ stream[cur[w]] \in Events
         /\ Meaning(stream, trees, cur[w])
         /\ Engaged(w) /\ engine[w] \in {trees[cur[w]], trees[cur[w] + 1]}
         /\ store.projected + 1 = cur[w] =>
               Clean(stream, trees, store.projected) /\ View(store.active) = trees[cur[w]]
         /\ IsTree(trees[cur[w]]) /\ Fit(trees[cur[w]])
<1>1. Inv1 /\ Placed(w) /\ Holds(w) /\ Handling(w) /\ Table(stream, trees, store)
  BY DEF Inv, Inv1, Inv4, Inv7
<1>2. Len(stream) \in Nat /\ cur[w] \in 1..Len(stream) /\ store.projected \in Nat
  BY <1>1, TableFacts DEF Placed
<1>3. stream[cur[w]].type \in Mutations
  BY <1>1 DEF Placed, HandleSteps, InsertSteps, RemovalSteps, Mutations, Ev
<1>4. Engaged(w)
  BY <1>1 DEF Handling, Engaged
<1>5. engine[w] \in {trees[cur[w]], trees[cur[w] + 1]}
  BY <1>1, <1>4 DEF Holds
<1>6. cur[w] <= store.projected + 1 /\ (store.projected + 1 = cur[w] => Clean(stream, trees, store.projected))
  BY <1>1 DEF Handling
<1>7. store.projected + 1 = cur[w] => View(store.active) = trees[cur[w]]
  BY <1>1, <1>6 DEF Table, Rows
<1>8. IsTree(trees[cur[w]]) /\ Fit(trees[cur[w]]) /\ Meaning(stream, trees, cur[w]) /\ stream[cur[w]] \in Events
  BY <1>2, TableFacts
<1>9. QED BY <1>2, <1>3, <1>4, <1>5, <1>6, <1>7, <1>8

(* A row the table takes for no event it holds: it shows the tree before   *)
(* the event.                                                              *)
LEMMA InsertsAt ==
  ASSUME Inv, Inv7, NEW w \in Writers, pc[w] = "insert", ~ HoldsID(store, ID(Ev(w))), store.projected <= cur[w]
  PROVE  store.projected + 1 = cur[w]
<1>1. pc[w] \in HandleSteps \ {"rejection"} /\ stream[cur[w]].type \in {"root_added", "node_placed"}
  BY DEF Inv, Inv1, Placed, HandleSteps, InsertSteps, Ev
<1>2. cur[w] \in 1..Len(stream) /\ cur[w] <= store.projected + 1 /\ store.projected \in Nat
  BY <1>1, Standing, TableFacts
<1>3. Marked(stream, store)
  BY DEF Inv7, Table
<1>4. store.projected # cur[w]
  BY <1>1, <1>2, <1>3 DEF Marked, HoldsID, Ev
<1>5. QED BY <1>2, <1>4

(* What the taken row is. *)
LEMMA InsertsRow ==
  ASSUME Inv, Inv7, NEW w \in Writers, pc[w] = "insert", Inserting(w) = "ok"
  PROVE  LET c == cur[w]
             e == stream[c]
         IN  /\ store.projected + 1 = c /\ c \in 1..Len(stream) /\ e.body.user \notin DOMAIN store.active
             /\ Took(stream, trees, c, e.body.user)
             /\ ~ Accepts(trees[c], e) => e.type = "node_placed" /\ ~ Untakable(trees[c], e)
             /\ Accepts(trees[c], e) => trees[c + 1] = With(trees[c], e.body.user, RowOf(w))
<1> DEFINE c == cur[w]
           e == stream[c]
           b == e.body
<1>1. pc[w] \in HandleSteps \ {"rejection"} /\ e.type \in {"root_added", "node_placed"}
  BY DEF Inv, Inv1, Placed, HandleSteps, InsertSteps, Ev
<1> USE <1>1
<1>2. /\ c \in 1..Len(stream) /\ c <= store.projected + 1 /\ Meaning(stream, trees, c)
      /\ store.projected + 1 = c => View(store.active) = trees[c]
      /\ IsTree(trees[c]) /\ Fit(trees[c]) /\ store.projected \in Nat
  BY Standing, TableFacts
<1>3. /\ ~ (c < store.projected) /\ ~ HoldsID(store, ID(e)) /\ b.user \notin DOMAIN store.active
      /\ RowOf(w).depth = 0 => \A x \in DOMAIN store.active : store.active[x].node.depth # 0
      /\ ~ SlotTaken(View(store.active), RowOf(w).parent, RowOf(w).pos)
  BY DEF Inserting, InsertOutcome, Below, Ev
<1> USE <1>2, <1>3
<1>4. store.projected + 1 = c
  BY InsertsAt DEF Ev
<1> USE <1>4
<1>5. View(store.active) = trees[c]
  OBVIOUS
<1>6. DOMAIN trees[c] = DOMAIN store.active /\ \A x \in DOMAIN store.active : trees[c][x] = store.active[x].node
  BY <1>5 DEF View
<1>7. RowOf(w) = [parent |-> b.parent, sponsor |-> b.sponsor, pos |-> b.pos,
                  depth |-> IF e.type = "root_added" THEN 0 ELSE depth[w]]
  BY DEF RowOf, Ev
<1> USE <1>6, <1>7
<1>8. e.type = "root_added" => Accepts(trees[c], e)
  <2> SUFFICES ASSUME e.type = "root_added" PROVE Accepts(trees[c], e)
    OBVIOUS
  <2>1. ~ HasRoot(trees[c])
    BY TopIsRoot
  <2>2. QED BY <2>1 DEF Accepts, Refusal, CheckAddRoot
<1>9. e.type = "root_added" => RowOf(w) = [parent |-> NoUser, sponsor |-> NoUser, pos |-> NoPos, depth |-> 0]
  <2>1. PlainRoot(e.type, b)
    BY DEF Inv7, Plain
  <2>2. QED BY <2>1 DEF PlainRoot
<1>10. e.type = "node_placed" => b.parent \in DOMAIN trees[c] /\ depth[w] = trees[c][b.parent].depth + 1
  BY DEF Inv7, Handling, Ev
<1>11. e.type = "node_placed" => ~ Untakable(trees[c], e)
  <2>1. b.user \notin DOMAIN trees[c]
    OBVIOUS
  <2>2. ~ SlotTaken(trees[c], b.parent, b.pos)
    BY <1>5
  <2>3. QED BY <1>10, <2>1, <2>2 DEF Untakable
<1>12. Accepts(trees[c], e) => trees[c + 1] = Apply(trees[c], e)
  BY DEF Meaning
<1>13. Apply(trees[c], e) = With(trees[c], b.user, RowOf(w))
  <2>1. CASE e.type = "root_added"
    BY <1>9, <2>1 DEF Apply, AddRoot
  <2>2. CASE e.type = "node_placed"
    BY <1>10, <2>2 DEF Apply, AddNode
  <2>3. QED BY <2>1, <2>2
<1>14. Took(stream, trees, c, b.user)
  BY <1>8 DEF Took
<1>15. QED BY <1>8, <1>11, <1>12, <1>13, <1>14

(* ProjectInsert keeps the table in step with the stream. *)
LEMMA InsertsInStep ==
  ASSUME Inv, Inv7, NEW w \in Writers, pc[w] = "insert", Inserting(w) = "ok"
  PROVE  Table(stream, trees, Inserted(w))
<1> DEFINE c == cur[w]
           e == stream[c]
           u == e.body.user
           st == Inserted(w)
<1>1. /\ store.projected + 1 = c /\ c \in 1..Len(stream) /\ u \notin DOMAIN store.active
      /\ Took(stream, trees, c, u) /\ (~ Accepts(trees[c], e) => e.type = "node_placed")
      /\ Accepts(trees[c], e) => trees[c + 1] = With(trees[c], u, RowOf(w))
  BY InsertsRow
<1>2. pc[w] \in HandleSteps \ {"rejection"} /\ e.type \in {"root_added", "node_placed"}
  BY DEF Inv, Inv1, Placed, HandleSteps, InsertSteps, Ev
<1>3. /\ Meaning(stream, trees, c) /\ Clean(stream, trees, store.projected) /\ View(store.active) = trees[c]
      /\ store.projected \in Nat /\ c \in Nat /\ AreRows(store.active)
  BY <1>1, <1>2, Standing, TableFacts DEF StoreOK
<1>4. /\ st.active = With(store.active, u, [id |-> ID(e), node |-> RowOf(w)])
      /\ st.tombs = store.tombs /\ st.projected = c
  BY DEF Inserted, ProjectInsert, Ev
<1> HIDE DEF st
<1>5. /\ DOMAIN st.active = DOMAIN store.active \cup {u}
      /\ st.active[u].id = ID(e) /\ st.active[u].node = RowOf(w)
      /\ \A x \in DOMAIN store.active : st.active[x] = store.active[x]
  BY <1>1, <1>4 DEF With
<1>6. c # 0 /\ (Clean(stream, trees, c) <=> Accepts(trees[c], e))
  BY <1>1, <1>2 DEF Clean
<1>7. Rows(stream, trees, st)
  <2>1. DOMAIN trees[c] = DOMAIN store.active /\ \A x \in DOMAIN store.active : trees[c][x] = store.active[x].node
    BY <1>3 DEF View
  <2>2. CASE Accepts(trees[c], e)
    <3>1. View(st.active) = With(trees[c], u, RowOf(w))
      BY <1>5, <2>1 DEF View, With
    <3>2. QED BY <1>1, <1>4, <1>6, <2>2, <3>1 DEF Rows
  <2>3. CASE ~ Accepts(trees[c], e)
    <3>1. trees[c + 1] = trees[c]
      BY <1>2, <1>3, <2>3 DEF Meaning
    <3>2. Without(st.active, u) = store.active
      BY <1>1, <1>3, <1>5 DEF Without, AreRows
    <3>3. QED BY <1>1, <1>3, <1>4, <1>5, <1>6, <2>3, <3>1, <3>2 DEF Rows
  <2>4. QED BY <2>2, <2>3
<1>8. Marked(stream, st)
  BY <1>2, <1>4, <1>5 DEF Marked
<1>9. ASSUME NEW x \in DOMAIN st.active
      PROVE  /\ \E v \in 1..c : ID(stream[v]) = st.active[x].id /\ Took(stream, trees, v, x)
             /\ \A v \in 1..c : stream[v].type = "event_rejected" => st.active[x].id # stream[v].body.target
  <2>1. CASE x = u
    <3>1. \A v \in 1..c : stream[v].type = "event_rejected" => ID(e) # stream[v].body.target
      <4> SUFFICES ASSUME NEW v \in 1..c, stream[v].type = "event_rejected", ID(e) = stream[v].body.target
                   PROVE  FALSE
        OBVIOUS
      <4>1. v \in 1..Len(stream)
        BY <1>1
      <4>2. v - 1 \in 1..Len(stream) /\ ID(stream[v - 1]) = stream[v].body.target
        BY <4>1, TableFacts DEF IsRejection
      <4>3. v - 1 = c
        BY <1>1, <4>2, TableFacts
      <4>4. QED BY <1>3, <4>3
    <3>2. c \in 1..c
      BY <1>1
    <3>3. QED BY <1>1, <1>5, <2>1, <3>1, <3>2
  <2>2. CASE x # u
    <3>1. x \in DOMAIN store.active /\ st.active[x] = store.active[x]
      BY <1>5, <1>9, <2>2
    <3>2. /\ \E v \in 1..store.projected : ID(stream[v]) = store.active[x].id /\ Took(stream, trees, v, x)
          /\ \A v \in 1..store.projected : stream[v].type = "event_rejected" => store.active[x].id # stream[v].body.target
      BY <3>1 DEF Inv7, Table, Sourced
    <3>3. \A v \in 1..c : v \in 1..store.projected \/ v = c
      BY <1>1, <1>3
    <3>4. \A v \in 1..store.projected : v \in 1..c
      BY <1>1, <1>3
    <3>5. e.type # "event_rejected"
      BY <1>2
    <3>6. QED BY <3>1, <3>2, <3>3, <3>4, <3>5
  <2>3. QED BY <2>1, <2>2
<1>10. ASSUME NEW i \in DOMAIN st.tombs, st.tombs[i].stamp # NoEvent
       PROVE  \E v \in 1..c : ID(stream[v]) = st.tombs[i].stamp /\ stream[v].type = "node_removed" /\ Accepts(trees[v], stream[v])
  <2>1. \E v \in 1..store.projected : ID(stream[v]) = st.tombs[i].stamp /\ stream[v].type = "node_removed" /\ Accepts(trees[v], stream[v])
    BY <1>4, <1>10 DEF Inv7, Table, Sourced
  <2>2. \A v \in 1..store.projected : v \in 1..c
    BY <1>1, <1>3
  <2>3. QED BY <2>1, <2>2
<1>11. Sourced(stream, trees, st)
  <2>1. \A i \in DOMAIN store.tombs : Dated(stream, c, store.tombs[i].id)
    BY <1>1, <1>3 DEF Inv7, Table, Sourced, Dated
  <2>2. QED BY <1>4, <1>9, <1>10, <2>1 DEF Sourced
<1>12. Cleared(stream, trees, c)
  <2> SUFFICES ASSUME NEW v \in 1..(c - 1) PROVE Clean(stream, trees, v) \/ stream[v + 1].type = "event_rejected"
    BY DEF Cleared
  <2>1. v = store.projected \/ v \in 1..(store.projected - 1)
    BY <1>1, <1>3
  <2>2. QED BY <1>3, <2>1 DEF Inv7, Table, Cleared
<1>13. QED BY <1>4, <1>7, <1>8, <1>11, <1>12 DEF Table, st

(* Where the table stands when it takes a removal. *)
LEMMA RemovesAt ==
  ASSUME Inv, Inv7, NEW w \in Writers, pc[w] = "removal", Accepts(engine[w], Ev(w)), Removing(w) = "ok"
  PROVE  LET c == cur[w]
             e == stream[c]
         IN  /\ store.projected + 1 = c /\ c \in 1..Len(stream) /\ e.type = "node_removed"
             /\ engine[w] = trees[c] /\ Accepts(trees[c], e) /\ trees[c + 1] = RemoveNode(trees[c], e.body.user)
             /\ e.body.user \in DOMAIN store.active
             /\ Clean(stream, trees, store.projected) /\ View(store.active) = trees[c]
<1> DEFINE c == cur[w]
           e == stream[c]
<1>1. pc[w] \in HandleSteps \ {"rejection"} /\ e.type = "node_removed" /\ Ev(w) = e
  BY DEF Inv, Inv1, Placed, HandleSteps, RemovalSteps, Ev
<1> USE <1>1
<1>2. /\ c \in 1..Len(stream) /\ c <= store.projected + 1 /\ Meaning(stream, trees, c) /\ e.type \in Mutations
      /\ store.projected + 1 = c => Clean(stream, trees, store.projected) /\ View(store.active) = trees[c]
      /\ store.projected \in Nat /\ engine[w] \in {trees[c], trees[c + 1]}
  BY Standing, TableFacts
<1> USE <1>2
<1>3. engine[w] = trees[c] /\ Accepts(trees[c], e) /\ trees[c + 1] = Apply(trees[c], e)
  BY TakenFrom
<1> USE <1>3
<1>4. trees[c + 1] = RemoveNode(trees[c], e.body.user)
  BY DEF Apply
<1>5. ~ (c < store.projected) /\ e.body.user \in DOMAIN store.active
  BY DEF Removing, RemovalOutcome, Below
<1> USE <1>5
<1>6. store.projected # c
  <2> SUFFICES ASSUME store.projected = c PROVE FALSE
    OBVIOUS
  <2>1. Clean(stream, trees, c)
    BY DEF Clean
  <2>2. View(store.active) = trees[c + 1]
    BY <2>1 DEF Inv7, Table, Rows
  <2>3. e.body.user \in DOMAIN trees[c + 1]
    BY <2>2 DEF View
  <2>4. QED BY <1>4, <2>3 DEF RemoveNode
<1>7. store.projected + 1 = c
  BY <1>6
<1>8. QED BY <1>4, <1>7

(* ProjectRemoval keeps the table in step with the stream. *)
LEMMA RemovesInStep ==
  ASSUME Inv, Inv7, NEW w \in Writers, pc[w] = "removal", Accepts(engine[w], Ev(w)), Removing(w) = "ok"
  PROVE  Table(stream, trees, Removed(w))
<1> DEFINE c == cur[w]
           e == stream[c]
           u == e.body.user
           t == trees[c]
           st == Removed(w)
<1>1. /\ store.projected + 1 = c /\ c \in 1..Len(stream) /\ e.type = "node_removed"
      /\ engine[w] = t /\ Accepts(t, e) /\ trees[c + 1] = RemoveNode(t, u) /\ u \in DOMAIN store.active
      /\ Clean(stream, trees, store.projected) /\ View(store.active) = t
  BY RemovesAt
<1>2. store.projected \in Nat /\ c \in Nat /\ AreRows(store.active) /\ store.tombs \in Seq(Tombstone)
  BY <1>1, TableFacts DEF StoreOK
<1>3. /\ st.active = [x \in DOMAIN store.active \ {u} |->
                         IF x \in Recruits(t, u) THEN [store.active[x] EXCEPT !.node.sponsor = t[u].sponsor]
                         ELSE store.active[x]]
      /\ st.tombs = Append(store.tombs, [id |-> store.active[u].id, user |-> u, stamp |-> ID(e)])
      /\ st.projected = c
  BY <1>1 DEF Removed, Moved, ProjectRemoval, Ev
<1> HIDE DEF st
<1>4. /\ DOMAIN t = DOMAIN store.active
      /\ \A x \in DOMAIN store.active : t[x] = store.active[x].node /\ store.active[x] \in Row /\ t[x] \in Node
  BY <1>1, <1>2 DEF View, AreRows, Row
<1>5. \A r \in Row : \A y : /\ [r EXCEPT !.node.sponsor = y].id = r.id
                            /\ [r EXCEPT !.node.sponsor = y].node = [r.node EXCEPT !.sponsor = y]
  BY DEF Row, Node
<1>6. /\ DOMAIN st.active = DOMAIN t \ {u}
      /\ \A x \in DOMAIN st.active : st.active[x].id = store.active[x].id
      /\ \A x \in DOMAIN st.active :
            st.active[x].node = IF x \in Recruits(t, u) THEN [t[x] EXCEPT !.sponsor = t[u].sponsor] ELSE t[x]
  <2>1. DOMAIN st.active = DOMAIN t \ {u}
    BY <1>3, <1>4
  <2> SUFFICES ASSUME NEW x \in DOMAIN st.active
               PROVE  /\ st.active[x].id = store.active[x].id
                      /\ st.active[x].node = IF x \in Recruits(t, u) THEN [t[x] EXCEPT !.sponsor = t[u].sponsor] ELSE t[x]
    BY <2>1
  <2>2. x \in DOMAIN store.active /\ x \in DOMAIN store.active \ {u}
    BY <1>4, <2>1
  <2>3. st.active[x] = IF x \in Recruits(t, u) THEN [store.active[x] EXCEPT !.node.sponsor = t[u].sponsor]
                       ELSE store.active[x]
    BY <1>3, <2>2
  <2>4. store.active[x] \in Row /\ t[x] = store.active[x].node
    BY <1>4, <2>2
  <2>5. QED BY <1>5, <2>3, <2>4
<1>7. View(st.active) = RemoveNode(t, u)
  <2>1. \A x \in DOMAIN t \ {u} : x \in Recruits(t, u) <=> t[x].sponsor = u
    BY DEF Recruits
  <2>2. QED BY <1>6, <2>1 DEF View, RemoveNode
<1>8. Clean(stream, trees, c)
  BY <1>1 DEF Clean
<1>9. Rows(stream, trees, st)
  BY <1>1, <1>3, <1>7, <1>8 DEF Rows
<1>10. Marked(stream, st)
  <2> DEFINE tomb == [id |-> store.active[u].id, user |-> u, stamp |-> ID(e)]
  <2>1. tomb.user = u /\ tomb.stamp = ID(e) /\ st.tombs = Append(store.tombs, tomb)
    BY <1>3
  <2> HIDE DEF tomb
  <2>2. NewestStamp(st, u) = ID(e)
    BY <1>2, <2>1, NewestIsLast
  <2>3. QED BY <1>1, <1>3, <2>2 DEF Marked
<1>tombs. \A i \in DOMAIN st.tombs :
          \/ st.tombs[i].stamp = ID(e) /\ st.tombs[i].id = store.active[u].id
          \/ i \in DOMAIN store.tombs /\ st.tombs[i] = store.tombs[i]
  <2> DEFINE tomb == [id |-> store.active[u].id, user |-> u, stamp |-> ID(e)]
  <2>1. tomb.id = store.active[u].id /\ tomb.stamp = ID(e) /\ st.tombs = Append(store.tombs, tomb)
    BY <1>3
  <2> HIDE DEF tomb
  <2>2. /\ Len(store.tombs) \in Nat /\ DOMAIN store.tombs = 1..Len(store.tombs)
        /\ DOMAIN st.tombs = 1..(Len(store.tombs) + 1) /\ st.tombs[Len(store.tombs) + 1] = tomb
        /\ \A i \in 1..Len(store.tombs) : st.tombs[i] = store.tombs[i]
    BY <1>2, <2>1, Appended
  <2>3. \A i \in DOMAIN st.tombs : i \in DOMAIN store.tombs \/ i = Len(store.tombs) + 1
    BY <2>2
  <2>4. QED BY <2>1, <2>2, <2>3
<1>11. \A v \in 1..c : v \in 1..store.projected \/ v = c
  BY <1>1, <1>2
<1>12. \A v \in 1..store.projected : v \in 1..c
  BY <1>1, <1>2
<1>13. ASSUME NEW x \in DOMAIN st.active
       PROVE  /\ \E v \in 1..c : ID(stream[v]) = st.active[x].id /\ Took(stream, trees, v, x)
              /\ \A v \in 1..c : stream[v].type = "event_rejected" => st.active[x].id # stream[v].body.target
  <2>1. x \in DOMAIN store.active /\ st.active[x].id = store.active[x].id
    BY <1>4, <1>6, <1>13
  <2>2. /\ \E v \in 1..store.projected : ID(stream[v]) = store.active[x].id /\ Took(stream, trees, v, x)
        /\ \A v \in 1..store.projected : stream[v].type = "event_rejected" => store.active[x].id # stream[v].body.target
    BY <2>1 DEF Inv7, Table, Sourced
  <2>3. QED BY <1>1, <1>11, <1>12, <2>1, <2>2
<1>14. ASSUME NEW i \in DOMAIN st.tombs, st.tombs[i].stamp # NoEvent
       PROVE  \E v \in 1..c : ID(stream[v]) = st.tombs[i].stamp /\ stream[v].type = "node_removed" /\ Accepts(trees[v], stream[v])
  <2>1. st.tombs[i].stamp = ID(e) \/ (i \in DOMAIN store.tombs /\ st.tombs[i] = store.tombs[i])
    BY <1>14, <1>tombs
  <2>2. CASE st.tombs[i].stamp = ID(e)
    BY <1>1, <2>2
  <2>3. CASE i \in DOMAIN store.tombs /\ st.tombs[i] = store.tombs[i]
    <3>1. \E v \in 1..store.projected : ID(stream[v]) = st.tombs[i].stamp /\ stream[v].type = "node_removed" /\ Accepts(trees[v], stream[v])
      BY <1>14, <2>3 DEF Inv7, Table, Sourced
    <3>2. QED BY <1>12, <3>1
  <2>4. QED BY <2>1, <2>2, <2>3
<1>15. Sourced(stream, trees, st)
  <2>1. \A i \in DOMAIN store.tombs : Dated(stream, c, store.tombs[i].id)
    BY <1>12 DEF Inv7, Table, Sourced, Dated
  <2>2. Dated(stream, c, store.active[u].id)
    BY <1>1, <1>12 DEF Inv7, Table, Sourced, Dated
  <2>3. \A i \in DOMAIN st.tombs :
           st.tombs[i].id = store.active[u].id \/ (i \in DOMAIN store.tombs /\ st.tombs[i] = store.tombs[i])
    BY <1>tombs
  <2>4. \A i \in DOMAIN st.tombs : Dated(stream, c, st.tombs[i].id)
    BY <2>1, <2>2, <2>3
  <2>5. QED BY <1>3, <1>13, <1>14, <2>4 DEF Sourced
<1>16. Cleared(stream, trees, c)
  <2> SUFFICES ASSUME NEW v \in 1..(c - 1) PROVE Clean(stream, trees, v) \/ stream[v + 1].type = "event_rejected"
    BY DEF Cleared
  <2>1. v = store.projected \/ v \in 1..(store.projected - 1)
    BY <1>1, <1>2
  <2>2. QED BY <1>1, <2>1 DEF Inv7, Table, Cleared
<1>17. QED BY <1>3, <1>9, <1>10, <1>15, <1>16 DEF Table, st

(* What the projection of a rejection takes from the table. *)
Retracted(w) == ProjectRejection(store, Ev(w).body.target, cur[w])

(* Where the table stands when it takes a rejection: at it, at the event   *)
(* it names, whose row it holds, or before that event, which left none.    *)
LEMMA RetractsAt ==
  ASSUME Inv, Inv7, NEW w \in Writers, pc[w] = "rejection", store.projected <= cur[w]
  PROVE  LET c == cur[w]
             p == store.projected
             gone == {x \in DOMAIN store.active : store.active[x].id = stream[c].body.target}
         IN  /\ c \in 2..Len(stream) /\ IsRejection(c)
             /\ \/ c = p /\ gone = {}
                \/ /\ c = p + 1 /\ c = Len(stream) /\ ~ Clean(stream, trees, p)
                   /\ gone = {stream[p].body.user}
                \/ c = p + 2 /\ c = Len(stream) /\ Clean(stream, trees, p) /\ gone = {}
<1> DEFINE c == cur[w]
           p == store.projected
           gone == {x \in DOMAIN store.active : store.active[x].id = stream[c].body.target}
<1>1. IsRejection(c) /\ c \in 1..Len(stream)
  BY DEF Inv, Inv1, Placed, HandleSteps
<1> USE <1>1
<1>2. /\ Len(stream) \in Nat /\ p \in Nat /\ p <= Len(stream)
      /\ c - 1 \in 1..Len(stream) /\ stream[c - 1].type \in Mutations
      /\ ID(stream[c - 1]) = stream[c].body.target /\ ~ Accepts(trees[c - 1], stream[c - 1])
  BY TableFacts
<1> USE <1>2
<1>3. c \in 2..Len(stream) /\ c \in Nat
  OBVIOUS
<1>4. Sourced(stream, trees, store) /\ Rows(stream, trees, store) /\ Behind(stream, trees, p)
  BY DEF Inv7, Table
<1> USE <1>3
<1>5. ~ Clean(stream, trees, c - 1)
  BY DEF Clean, Mutations
<1> USE <1>4
<1>6. \A x \in gone : \E v \in 1..p : v = c - 1 /\ Took(stream, trees, v, x)
  <2> SUFFICES ASSUME NEW x \in gone PROVE \E v \in 1..p : v = c - 1 /\ Took(stream, trees, v, x)
    OBVIOUS
  <2>1. PICK v \in 1..p : ID(stream[v]) = store.active[x].id /\ Took(stream, trees, v, x)
    BY DEF Sourced
  <2>2. v \in 1..Len(stream) /\ ID(stream[v]) = ID(stream[c - 1])
    BY <2>1
  <2>3. v = c - 1
    BY <2>2, TableFacts
  <2>4. QED BY <2>1, <2>3
<1>7. CASE c = p
  <2>1. gone = {}
    BY <1>7 DEF Sourced, IsRejection
  <2>2. QED BY <1>7, <2>1
<1>8. CASE c = p + 1
  <2> USE <1>8
  <2>1. p = c - 1 /\ p # 0
    OBVIOUS
  <2> USE <2>1
  <2>2. ~ Clean(stream, trees, p)
    BY <1>5
  <2> USE <2>2
  <2>3. stream[p].body.user \in gone
    BY DEF Rows
  <2>4. \A x \in gone : x = stream[p].body.user
    BY <1>6 DEF Took
  <2>5. gone = {stream[p].body.user}
    BY <2>3, <2>4
  <2>6. c = Len(stream)
    BY DEF Behind
  <2>7. QED BY <2>5, <2>6
<1>9. CASE c > p + 1
  <2>1. Len(stream) = p + 2 /\ Clean(stream, trees, p)
    BY <1>9 DEF Behind
  <2>2. c = p + 2 /\ c = Len(stream)
    BY <1>9, <2>1
  <2>3. gone = {}
    BY <1>6, <2>2
  <2>4. QED BY <2>1, <2>2, <2>3
<1>10. c = p \/ c = p + 1 \/ c > p + 1
  OBVIOUS
<1>11. QED BY <1>7, <1>8, <1>9, <1>10

(* ProjectRejection keeps the table in step with the stream. *)
LEMMA RetractsInStep ==
  ASSUME Inv, Inv7, NEW w \in Writers, pc[w] = "rejection", store.projected <= cur[w]
  PROVE  Table(stream, trees, Retracted(w))
<1> DEFINE c == cur[w]
           p == store.projected
           gone == {x \in DOMAIN store.active : store.active[x].id = stream[c].body.target}
           st == Retracted(w)
<1>1. /\ c \in 2..Len(stream) /\ IsRejection(c)
      /\ \/ c = p /\ gone = {}
         \/ c = p + 1 /\ c = Len(stream) /\ ~ Clean(stream, trees, p) /\ gone = {stream[p].body.user}
         \/ c = p + 2 /\ c = Len(stream) /\ Clean(stream, trees, p) /\ gone = {}
  BY RetractsAt
<1>2. /\ p \in Nat /\ c \in Nat /\ Len(stream) \in Nat /\ AreRows(store.active) /\ store.tombs \in Seq(Tombstone)
      /\ Meaning(stream, trees, c) /\ c - 1 \in 1..Len(stream) /\ stream[c - 1].type \in Mutations
      /\ ID(stream[c - 1]) = stream[c].body.target /\ ~ Accepts(trees[c - 1], stream[c - 1])
  BY <1>1, TableFacts DEF StoreOK
<1>3. Table(stream, trees, store)
  BY DEF Inv7
<1>4. /\ st.active = [x \in DOMAIN store.active \ gone |-> store.active[x]]
      /\ st.tombs = IF gone = {} THEN store.tombs
                    ELSE Append(store.tombs, [id |-> stream[c].body.target, user |-> CHOOSE x \in gone : TRUE,
                                              stamp |-> NoEvent])
      /\ st.projected = c
  BY DEF Retracted, ProjectRejection, Ev
<1> HIDE DEF st
<1>5. gone = {} => st.active = store.active
  BY <1>2, <1>4 DEF AreRows
<1>6. c # 0 /\ Clean(stream, trees, c) /\ stream[c].type = "event_rejected"
  BY <1>1, <1>2 DEF Clean, IsRejection
<1>7. trees[c + 1] = trees[c - 1]
  BY <1>2, <1>6 DEF Meaning
<1>8. View(st.active) = trees[c + 1]
  <2>1. CASE c = p /\ gone = {}
    BY <1>3, <1>5, <1>6, <2>1 DEF Table, Rows
  <2>2. CASE c = p + 1 /\ ~ Clean(stream, trees, p) /\ gone = {stream[p].body.user}
    <3>1. c - 1 = p /\ c = p + 1
      BY <1>2, <2>2
    <3>2. trees[c] = trees[c - 1]
      BY <1>2, <3>1, TableFacts DEF Meaning, Mutations
    <3>3. View(Without(store.active, stream[p].body.user)) = trees[c]
      BY <1>3, <2>2, <3>1 DEF Table, Rows
    <3>4. st.active = Without(store.active, stream[p].body.user)
      BY <1>4, <2>2 DEF Without
    <3>5. QED BY <1>7, <3>2, <3>3, <3>4
  <2>3. CASE c = p + 2 /\ Clean(stream, trees, p) /\ gone = {}
    <3>1. c - 1 = p + 1
      BY <1>2, <2>3
    <3>2. View(store.active) = trees[p + 1]
      BY <1>3, <2>3 DEF Table, Rows
    <3>3. QED BY <1>5, <1>7, <2>3, <3>1, <3>2
  <2>4. QED BY <1>1, <2>1, <2>2, <2>3
<1>9. Rows(stream, trees, st)
  BY <1>4, <1>6, <1>8 DEF Rows
<1>10. Marked(stream, st)
  BY <1>4, <1>6 DEF Marked
<1>11. p <= c
  OBVIOUS
<1>12. \A v \in 1..p : v \in 1..c
  BY <1>2, <1>11
<1>13. ASSUME NEW x \in DOMAIN st.active
       PROVE  /\ \E v \in 1..c : ID(stream[v]) = st.active[x].id /\ Took(stream, trees, v, x)
              /\ \A v \in 1..c : stream[v].type = "event_rejected" => st.active[x].id # stream[v].body.target
  <2>1. x \in DOMAIN store.active /\ x \notin gone /\ st.active[x] = store.active[x]
    BY <1>4, <1>13
  <2>2. /\ \E v \in 1..p : ID(stream[v]) = store.active[x].id /\ Took(stream, trees, v, x)
        /\ \A v \in 1..p : stream[v].type = "event_rejected" => store.active[x].id # stream[v].body.target
    BY <1>3, <2>1 DEF Table, Sourced
  <2>3. store.active[x].id # stream[c].body.target
    BY <2>1
  <2>4. \A v \in 1..c : v \in 1..p \/ v = c \/ v = c - 1
    BY <1>1, <1>2
  <2>5. stream[c - 1].type # "event_rejected"
    BY <1>2 DEF Mutations
  <2>6. QED BY <1>12, <2>1, <2>2, <2>3, <2>4, <2>5
<1>tombs. \A i \in DOMAIN st.tombs :
          \/ st.tombs[i].stamp = NoEvent /\ st.tombs[i].id = stream[c].body.target
          \/ i \in DOMAIN store.tombs /\ st.tombs[i] = store.tombs[i]
  <2> DEFINE tomb == [id |-> stream[c].body.target, user |-> CHOOSE x \in gone : TRUE, stamp |-> NoEvent]
  <2>1. /\ tomb.id = stream[c].body.target /\ tomb.stamp = NoEvent
        /\ st.tombs = IF gone = {} THEN store.tombs ELSE Append(store.tombs, tomb)
    BY <1>4
  <2> HIDE DEF tomb
  <2>2. CASE gone = {}
    BY <2>1, <2>2
  <2>3. CASE gone # {}
    <3>1. /\ Len(store.tombs) \in Nat /\ DOMAIN store.tombs = 1..Len(store.tombs)
          /\ DOMAIN st.tombs = 1..(Len(store.tombs) + 1) /\ st.tombs[Len(store.tombs) + 1] = tomb
          /\ \A i \in 1..Len(store.tombs) : st.tombs[i] = store.tombs[i]
      BY <1>2, <2>1, <2>3, Appended
    <3>2. \A i \in DOMAIN st.tombs : i \in DOMAIN store.tombs \/ i = Len(store.tombs) + 1
      BY <3>1
    <3>3. QED BY <2>1, <3>1, <3>2
  <2>4. QED BY <2>2, <2>3
<1>14. ASSUME NEW i \in DOMAIN st.tombs, st.tombs[i].stamp # NoEvent
       PROVE  \E v \in 1..c : ID(stream[v]) = st.tombs[i].stamp /\ stream[v].type = "node_removed" /\ Accepts(trees[v], stream[v])
  <2>1. st.tombs[i].stamp = NoEvent \/ (i \in DOMAIN store.tombs /\ st.tombs[i] = store.tombs[i])
    BY <1>14, <1>tombs
  <2>2. \E v \in 1..p : ID(stream[v]) = st.tombs[i].stamp /\ stream[v].type = "node_removed" /\ Accepts(trees[v], stream[v])
    BY <1>3, <1>14, <2>1 DEF Table, Sourced
  <2>3. QED BY <1>12, <2>2
<1>15. Sourced(stream, trees, st)
  <2>1. \A i \in DOMAIN store.tombs : Dated(stream, c, store.tombs[i].id)
    BY <1>3, <1>12 DEF Table, Sourced, Dated
  <2>2. Dated(stream, c, stream[c].body.target)
    <3>1. c - 1 \in 1..c
      BY <1>1, <1>2
    <3>2. QED BY <1>2, <3>1 DEF Dated
  <2>3. \A i \in DOMAIN st.tombs :
           st.tombs[i].id = stream[c].body.target \/ (i \in DOMAIN store.tombs /\ st.tombs[i] = store.tombs[i])
    BY <1>tombs
  <2>4. \A i \in DOMAIN st.tombs : Dated(stream, c, st.tombs[i].id)
    BY <2>1, <2>2, <2>3
  <2>5. QED BY <1>4, <1>13, <1>14, <2>4 DEF Sourced
<1>16. Cleared(stream, trees, c)
  <2> SUFFICES ASSUME NEW v \in 1..(c - 1) PROVE Clean(stream, trees, v) \/ stream[v + 1].type = "event_rejected"
    BY DEF Cleared
  <2>1. v \in 1..(p - 1) \/ v = c - 1 \/ (v = p /\ c = p + 2)
    BY <1>1, <1>2
  <2>2. v = c - 1 => v + 1 = c
    BY <1>2
  <2>3. c = p + 2 => Clean(stream, trees, p)
    BY <1>1, <1>2
  <2>4. QED BY <1>3, <1>6, <2>1, <2>2, <2>3 DEF Table, Cleared
<1>17. QED BY <1>4, <1>9, <1>10, <1>15, <1>16 DEF Table, st

(* Every write of the table keeps it in step with the stream, and brings   *)
(* it closer.                                                              *)
LEMMA StoreInStep ==
  ASSUME Inv, Inv7, NEW w \in Writers, LocalStep(w)
  PROVE  Table(stream, trees, store') /\ Behind(stream, trees, store'.projected)
<1>1. /\ Len(stream) \in Nat /\ store.projected \in Nat /\ cur[w] \in Nat
      /\ Table(stream, trees, store) /\ Behind(stream, trees, store.projected)
  BY TableFacts, WriterFacts DEF Inv, Inv7
<1> USE <1>1
<1>2. CASE store' = store
  BY <1>2
<1>3. ASSUME Table(stream, trees, store'), store'.projected \in Nat, store'.projected > store.projected
      PROVE  Behind(stream, trees, store'.projected)
  BY <1>3 DEF Behind
<1> USE <1>3
<1>4. CASE InsertRow(w) /\ store' # store
  <2>1. pc[w] = "insert" /\ Inserting(w) = "ok" /\ store' = Inserted(w)
    BY <1>4 DEF InsertRow, Inserting, Inserted, RowOf, ID
  <2>2. store'.projected = store.projected + 1
    BY <2>1, InsertsRow DEF Inserted, ProjectInsert
  <2>3. QED BY <2>1, <2>2, InsertsInStep
<1>5. CASE RemoveRow(w) /\ store' # store
  <2>1. pc[w] = "removal" /\ Accepts(engine[w], Ev(w)) /\ Removing(w) = "ok" /\ store' = Removed(w)
    BY <1>5 DEF RemoveRow, Removing, Removed, Moved, ID
  <2>2. store'.projected = store.projected + 1
    BY <2>1, RemovesAt DEF Removed, ProjectRemoval
  <2>3. QED BY <2>1, <2>2, RemovesInStep
<1>6. CASE RejectRow(w) /\ store' # store
  <2>1. pc[w] = "rejection" /\ ~ Below(store, cur[w]) /\ store' = Retracted(w)
    BY <1>6 DEF RejectRow, Retracted, RejectionOutcome
  <2> USE <2>1
  <2>2. store.projected <= cur[w] /\ store'.projected = cur[w]
    BY DEF Below, Retracted, ProjectRejection
  <2> USE <2>2
  <2>3. CASE store.projected < cur[w]
    BY <2>3, RetractsInStep
  <2>4. CASE store.projected = cur[w]
    BY <2>4, RetractsInStep
  <2>5. QED BY <2>3, <2>4
<1>7. QED BY <1>2, <1>4, <1>5, <1>6, Writes

(* What is appended: the table is level with the stream, or a rejection    *)
(* follows an event that can be rejected.                                  *)
LEMMA Lands ==
  ASSUME Inv, Inv7, Next, stream' # stream
  PROVE  /\ store' = store
         /\ \E e \in Events :
               /\ Extend(e) /\ (e.type = "event_rejected" => stream # <<>>) /\ PlainRoot(e.type, e.body)
               /\ IF e.type = "event_rejected"
                  THEN /\ Rejectable(stream, Len(stream), e.body.target)
                       /\ Refutable(stream, trees, store.projected, Len(stream))
                  ELSE store.projected = Len(stream)
<1>1. /\ Inv1 /\ TypeOK /\ store.projected \in Nat /\ Len(stream) \in Nat /\ store.projected <= Len(stream)
  BY TableFacts DEF Inv, Inv1
<1> USE <1>1
<1>2. PICK e \in Events :
         /\ Extend(e) /\ (e.type = "event_rejected" => stream # <<>>)
         /\ \/ \E w \in Writers : AppendCommits(w) /\ e = NewEvent(w)
            \/ CommitLands /\ \E f \in inflight : f.after = Len(stream) /\ e = f.event
            \/ Stray /\ e \in Unchecked
  BY Comes
<1> USE <1>2
<1>3. CASE \E w \in Writers : AppendCommits(w) /\ e = NewEvent(w)
  <2>1. PICK w \in Writers : AppendCommits(w) /\ e = NewEvent(w)
    BY <1>3
  <2>2. pc[w] = "append" /\ Len(stream) = last[w] /\ store' = store
    BY <2>1 DEF AppendCommits, AtExpectedVersion, appendFrame
  <2>3. e.type = Kind(w) /\ e.body = req[w].body
    BY <2>1 DEF NewEvent, Kind
  <2> USE <2>3
  <2>4. PlainRoot(e.type, e.body)
    BY DEF Inv7, Plain
  <2> USE <2>2
  <2>5. e.type = "event_rejected" => Rejects(w) /\ Found(w)
    BY DEF Rejects, Found
  <2>6. e.type = "event_rejected" => Rejectable(stream, Len(stream), e.body.target)
    BY <2>5 DEF Inv, Inv3
  <2>7. e.type = "event_rejected" => Refutable(stream, trees, store.projected, Len(stream))
    BY <2>5 DEF Inv7, Aiming
  <2>8. e.type # "event_rejected" => last[w] <= store.projected
    BY DEF Inv7, Aiming, Rejects
  <2>9. QED BY <2>4, <2>6, <2>7, <2>8
<1>4. CASE CommitLands /\ \E f \in inflight : f.after = Len(stream) /\ e = f.event
  <2>1. PICK f \in inflight : f.after = Len(stream) /\ e = f.event
    BY <1>4
  <2>2. store' = store
    BY <1>4 DEF CommitLands, appendFrame
  <2> USE <2>1
  <2>3. PlainRoot(e.type, e.body) /\ Aimed(f)
    BY DEF Inv7, Plain
  <2>4. e.type = "event_rejected" => Rejectable(stream, Len(stream), e.body.target)
    BY DEF Inv, Inv3
  <2>5. QED BY <2>2, <2>3, <2>4 DEF Aimed
<1>5. CASE Stray /\ e \in Unchecked
  <2>1. store' = store /\ store.projected = Len(stream)
    BY <1>5 DEF Stray
  <2>2. e.type # "event_rejected" /\ PlainRoot(e.type, e.body)
    BY <1>5 DEF Unchecked, Body, PlainRoot
  <2>3. QED BY <2>1, <2>2
<1>6. QED BY <1>3, <1>4, <1>5

(* What an appended event leaves: the tree it means, and the table no more *)
(* than one redelivery behind.                                             *)
LEMMA Landed ==
  ASSUME Inv, Inv7, Next, stream' # stream
  PROVE  /\ \A v \in 1..Len(stream') : PlainRoot(stream'[v].type, stream'[v].body)
         /\ Justified'
         /\ \A v \in 1..(Len(stream') + 1) : Fit(trees'[v])
         /\ Behind(stream', trees', store.projected)
<1> DEFINE n == Len(stream)
           p == store.projected
<1>1. /\ Inv1 /\ TypeOK /\ p \in Nat /\ n \in Nat /\ p <= n
  BY TableFacts DEF Inv, Inv1
<1>2. PICK e \in Events :
         /\ Extend(e) /\ (e.type = "event_rejected" => stream # <<>>) /\ PlainRoot(e.type, e.body)
         /\ IF e.type = "event_rejected"
            THEN Rejectable(stream, n, e.body.target) /\ Refutable(stream, trees, p, n)
            ELSE p = n
  BY Lands
<1> USE <1>1, <1>2
<1>3. Grows /\ Len(stream') = n + 1 /\ stream'[n + 1] = e /\ trees'[n + 2] = TreeAfter(e)
  BY ExtendGrows
<1>4. Len(trees) = n + 1
  <2>1. trees = [i \in 1..(n + 1) |-> trees[i]]
    BY DEF TypeOK
  <2>2. QED BY <2>1
<1> HIDE DEF n, p
<1> USE <1>3
<1>5. /\ \A v \in 1..(n + 1) : v \in 1..n \/ v = n + 1
      /\ \A v \in 1..(n + 2) : v \in 1..(n + 1) \/ v = n + 2
      /\ \A v \in 1..n : stream'[v] = stream[v]
      /\ \A v \in 1..(n + 1) : trees'[v] = trees[v]
  BY DEF Grows, n
<1>6. e.type = "event_rejected" => n \in 1..n /\ stream[n].type # "event_rejected"
  BY DEF Rejectable, n
<1> USE <1>5
<1>7. \A v \in 1..(n + 1) : PlainRoot(stream'[v].type, stream'[v].body)
  BY DEF Inv7, Plain, n
<1> USE <1>6
<1>8. Justified'
  <2> SUFFICES ASSUME NEW v \in 1..(n + 1), stream'[v].type = "event_rejected"
               PROVE  ~ Accepts(trees'[v - 1], stream'[v - 1])
    BY DEF Justified, IsRejection
  <2>1. CASE v \in 1..n
    <3>1. IsRejection(v)
      BY <2>1 DEF IsRejection
    <3>2. v - 1 \in 1..n /\ ~ Accepts(trees[v - 1], stream[v - 1])
      BY <2>1, <3>1, TableFacts DEF n
    <3>3. v - 1 \in 1..(n + 1)
      BY <3>2
    <3>4. QED BY <3>2, <3>3
  <2>2. CASE v = n + 1
    <3>1. e.type = "event_rejected" /\ v - 1 = n
      BY <2>2
    <3> USE <3>1
    <3>2. ~ Accepts(trees[n], stream[n])
      BY DEF Refutable
    <3>3. n \in 1..(n + 1)
      OBVIOUS
    <3>4. QED BY <3>2, <3>3
  <2>3. QED BY <2>1, <2>2
<1>9. Fit(TreeAfter(e))
  <2>1. \A v \in 1..(n + 1) : IsTree(trees[v]) /\ Fit(trees[v])
    BY TableFacts DEF n
  <2>2. n + 1 \in 1..(n + 1)
    OBVIOUS
  <2> USE <1>4, <2>1
  <2>3. CASE e.type = "event_rejected"
    <3>1. TreeAfter(e) = trees[n] /\ n \in 1..(n + 1)
      BY <2>3 DEF TreeAfter
    <3>2. QED BY <3>1
  <2>4. CASE e.type # "event_rejected" /\ Accepts(trees[n + 1], e)
    <3>1. TreeAfter(e) = Apply(trees[n + 1], e)
      BY <2>4 DEF TreeAfter
    <3>2. QED BY <2>2, <2>4, <3>1, FitApply
  <2>5. CASE e.type # "event_rejected" /\ ~ Accepts(trees[n + 1], e)
    <3>1. TreeAfter(e) = trees[n + 1]
      BY <2>5 DEF TreeAfter
    <3>2. QED BY <2>2, <3>1
  <2>6. QED BY <2>3, <2>4, <2>5
<1>10. \A v \in 1..(n + 2) : Fit(trees'[v])
  BY <1>9 DEF Inv7, n
<1>11. Behind(stream', trees', p)
  <2>1. CASE e.type # "event_rejected"
    BY <2>1 DEF Behind
  <2>2. CASE e.type = "event_rejected" /\ n <= p
    BY <2>2 DEF Behind
  <2>3. CASE e.type = "event_rejected" /\ ~ (n <= p)
    <3> USE <2>3
    <3>1. Clean(stream, trees, n - 1) /\ Untakable(trees[n], stream[n])
      BY DEF Refutable
    <3>2. n = p + 1
      <4>1. Behind(stream, trees, p)
        BY DEF Inv7, p
      <4>2. Len(stream) = n
        BY DEF n
      <4>3. QED BY <4>1, <4>2 DEF Behind
    <3> USE <3>2
    <3>3. Clean(stream', trees', p)
      <4>1. n - 1 = p /\ p \in 0..Len(stream) /\ Len(stream) \in Nat
        BY DEF n
      <4>2. QED BY <3>1, <4>1, CleanStays
    <3>4. Untakable(trees'[p + 1], stream'[p + 1])
      BY <3>1
    <3>5. Len(stream') = p + 2 /\ stream'[p + 2].type = "event_rejected"
      OBVIOUS
    <3>6. QED BY <3>3, <3>4, <3>5 DEF Behind
  <2>4. QED BY <2>1, <2>2, <2>3
<1>12. Len(stream') + 1 = n + 2
  OBVIOUS
<1>13. QED BY <1>7, <1>8, <1>10, <1>11, <1>12 DEF p

-----------------------------------------------------------------------------

(***************************************************************************)
(* What a writer knows stays so while the others work.                     *)
(***************************************************************************)
(* A step leaves x alone, the stream grows and the table advances. *)
Around(x) ==
    /\ Same(x) /\ Grows /\ Len(stream) \in Nat /\ Len(stream') \in Nat
    /\ store'.projected \in Nat /\ store'.projected >= store.projected

(* What a load knows. *)
LEMMA OthersLoading ==
  ASSUME Inv, Inv7, NEW x \in Writers, Around(x)
  PROVE  Loading(x)'
<1>1. /\ Len(stream) \in Nat /\ Len(stream') \in Nat /\ Len(stream) <= Len(stream')
      /\ store.projected \in Nat /\ store'.projected \in Nat /\ store.projected <= store'.projected
      /\ store.projected <= Len(stream)
  BY TableFacts DEF Around, Grows
<1>2. /\ Loading(x) /\ Placed(x) /\ loaded[x] \in Nat /\ at[x] \in Nat /\ last[x] \in Nat
      /\ last[x] <= Len(stream) /\ loaded[x] <= store.projected /\ loaded[x] <= Len(stream)
  BY WriterFacts DEF Inv, Inv1, Inv7, Placed, Loading
<1>3. /\ pc'[x] = pc[x] /\ req'[x] = req[x] /\ loaded'[x] = loaded[x] /\ seen'[x] = seen[x]
      /\ engine'[x] = engine[x] /\ at'[x] = at[x] /\ last'[x] = last[x]
  BY DEF Around, Same
<1> USE <1>1
<1>4. \A v \in 0..Len(stream) : Clean(stream', trees', v) <=> Clean(stream, trees, v)
  BY CleanStays DEF Around
<1>5. \A v \in 1..Len(stream) : stream'[v] = stream[v] /\ trees'[v] = trees[v] /\ trees'[v + 1] = trees[v + 1]
  BY DEF Around, Grows
<1> USE <1>2, <1>3
<1>6. loaded'[x] <= store'.projected
  OBVIOUS
<1> USE <1>5
<1>7. pc[x] = "replay" => \/ Clean(stream', trees', at[x])
                          \/ at[x] < loaded[x] /\ stream'[at[x] + 1].type = "event_rejected"
  <2> SUFFICES ASSUME pc[x] = "replay"
               PROVE  \/ Clean(stream', trees', at[x])
                      \/ at[x] < loaded[x] /\ stream'[at[x] + 1].type = "event_rejected"
    OBVIOUS
  <2>1. at[x] <= loaded[x] /\ at[x] \in 0..Len(stream)
    BY DEF Placed
  <2>2. at[x] < loaded[x] => at[x] + 1 \in 1..Len(stream)
    OBVIOUS
  <2>3. QED BY <1>4, <2>1, <2>2 DEF Loading
<1>8. loaded[x] \in 0..Len(stream)
  OBVIOUS
<1>9. Clean(stream', trees', loaded[x]) <=> Clean(stream, trees, loaded[x])
  BY <1>4, <1>8
<1>10. pc[x] = "buildFailed" /\ Preflight(View(seen[x])) =>
          /\ at[x] <= loaded[x]
          /\ engine[x] = IF Undone(stream', at[x], loaded[x]) THEN trees'[at[x]] ELSE trees'[at[x] + 1]
  <2> SUFFICES ASSUME pc[x] = "buildFailed", Preflight(View(seen[x]))
               PROVE  /\ at[x] <= loaded[x]
                      /\ engine[x] = IF Undone(stream', at[x], loaded[x]) THEN trees'[at[x]] ELSE trees'[at[x] + 1]
    OBVIOUS
  <2>1. /\ at[x] <= loaded[x]
        /\ engine[x] = IF Undone(stream, at[x], loaded[x]) THEN trees[at[x]] ELSE trees[at[x] + 1]
    BY DEF Loading
  <2>2. 0 < at[x] /\ at[x] < loaded[x] => at[x] + 1 \in 1..Len(stream) /\ at[x] \in 1..Len(stream)
    OBVIOUS
  <2>3. Undone(stream', at[x], loaded[x]) <=> Undone(stream, at[x], loaded[x])
    BY <2>2 DEF Undone
  <2>4. Undone(stream, at[x], loaded[x]) => trees'[at[x]] = trees[at[x]]
    BY <2>2 DEF Undone
  <2>5. trees'[at[x] + 1] = trees[at[x] + 1]
    <3>1. at[x] + 1 \in 1..(Len(stream) + 1)
      BY <2>1
    <3>2. QED BY <3>1 DEF Around, Grows
  <2>6. QED BY <2>1, <2>3, <2>4, <2>5
<1>11. last[x] = Len(stream') => last[x] = Len(stream)
  OBVIOUS
<1>12. Rejects(x)' <=> Rejects(x)
  BY DEF Rejects, Kind
<1>13. QED BY <1>6, <1>7, <1>9, <1>10, <1>11, <1>12 DEF Loading

(* What a projection knows. *)
LEMMA OthersHandling ==
  ASSUME Inv, Inv7, NEW x \in Writers, Around(x)
  PROVE  Handling(x)'
<1>1. /\ Len(stream) \in Nat /\ Len(stream') \in Nat /\ Len(stream) <= Len(stream')
      /\ store.projected \in Nat /\ store'.projected \in Nat /\ store.projected <= store'.projected
      /\ store.projected <= Len(stream)
  BY TableFacts DEF Around, Grows
<1>2. Handling(x) /\ cur[x] \in Nat /\ (pc[x] \in HandleSteps \cup SnapshotSteps => cur[x] \in 1..Len(stream))
  BY WriterFacts DEF Inv, Inv1, Inv7, Placed
<1>3. /\ pc'[x] = pc[x] /\ req'[x] = req[x] /\ cur'[x] = cur[x] /\ phase'[x] = phase[x] /\ depth'[x] = depth[x]
  BY DEF Around, Same
<1> USE <1>1
<1>4. cur[x] \in 1..Len(stream) => /\ stream'[cur[x]] = stream[cur[x]] /\ trees'[cur[x]] = trees[cur[x]]
                                   /\ Clean(stream', trees', cur[x]) <=> Clean(stream, trees, cur[x])
  BY CleanStays DEF Around, Grows
<1>5. Clean(stream', trees', store.projected) <=> Clean(stream, trees, store.projected)
  BY CleanStays DEF Around
<1> USE <1>3
<1>6. Rejects(x)' <=> Rejects(x)
  BY DEF Rejects, Kind
<1> USE <1>2
<1>7. /\ cur[x] <= store.projected => cur[x] <= store'.projected
      /\ cur[x] <= store.projected + 1 => cur[x] <= store'.projected + 1
      /\ cur[x] <= store.projected + 1 /\ store'.projected + 1 = cur[x]
            => store'.projected = store.projected /\ store.projected + 1 = cur[x]
  OBVIOUS
<1> USE <1>4, <1>7
<1>8. pc[x] \in HandleSteps \ {"rejection"} =>
         /\ \/ phase[x] = "catchup"
            \/ phase[x] = "project" /\ ~ Rejects(x) /\ Accepts(trees'[cur[x]], stream'[cur[x]])
         /\ cur[x] <= store'.projected + 1
         /\ store'.projected + 1 = cur[x] => Clean(stream', trees', store'.projected)
  BY <1>5 DEF Handling
<1>9. pc[x] = "insert" /\ stream'[cur[x]].type = "node_placed" =>
         /\ depth[x] > 0
         /\ store'.projected + 1 = cur[x] =>
               /\ stream'[cur[x]].body.parent \in DOMAIN trees'[cur[x]]
               /\ depth[x] = trees'[cur[x]][stream'[cur[x]].body.parent].depth + 1
  BY DEF Handling, HandleSteps, Ev
<1>10. pc[x] = "replayed" => cur[x] <= store'.projected
  BY DEF Handling
<1>11. pc[x] = "engineAdd" => Took(stream', trees', cur[x], stream'[cur[x]].body.user)
  BY DEF Handling, HandleSteps, Took, Ev
<1>12. pc[x] = "reconcileAdd" => Accepts(trees'[cur[x]], stream'[cur[x]])
  BY DEF Handling, HandleSteps
<1>13. pc[x] \in SnapshotSteps => Clean(stream', trees', cur[x])
  BY DEF Handling
<1>14. Ev(x)' = stream'[cur[x]]
  BY DEF Ev
<1>15. QED BY <1>6, <1>8, <1>9, <1>10, <1>11, <1>12, <1>13, <1>14 DEF Handling

(* Where an append is aimed. *)
LEMMA OthersAiming ==
  ASSUME Inv, Inv7, NEW x \in Writers, Around(x)
  PROVE  Aiming(x)'
<1>1. /\ Len(stream) \in Nat /\ Len(stream') \in Nat /\ Len(stream) <= Len(stream')
      /\ store.projected \in Nat /\ store'.projected \in Nat /\ store.projected <= store'.projected
  BY TableFacts DEF Around, Grows
<1>2. Aiming(x) /\ last[x] \in Nat /\ last[x] <= Len(stream)
  BY WriterFacts DEF Inv, Inv1, Inv7, Placed
<1>3. pc'[x] = pc[x] /\ req'[x] = req[x] /\ last'[x] = last[x]
  BY DEF Around, Same
<1>4. Clean(stream', trees', last[x]) <=> Clean(stream, trees, last[x])
  BY <1>1, <1>2, CleanStays DEF Around
<1>5. Rejects(x)' <=> Rejects(x)
  BY <1>3 DEF Rejects, Kind
<1>6. last[x] = Len(stream') => last[x] = Len(stream)
  BY <1>1, <1>2
<1>7. last[x] <= store.projected => last[x] <= store'.projected
  BY <1>1, <1>2
<1>8. ASSUME pc[x] = "append", Rejects(x), last[x] = Len(stream)
      PROVE  Refutable(stream', trees', store'.projected, last[x])
  <2>1. last[x] \in 1..Len(stream)
    BY <1>8 DEF Inv, Inv3, Found, Rejectable
  <2>2. Refutable(stream, trees, store.projected, last[x])
    BY <1>2, <1>8 DEF Aiming
  <2>3. QED BY <1>1, <2>1, <2>2, RefutableStays DEF Around
<1>9. QED BY <1>2, <1>3, <1>4, <1>5, <1>6, <1>7, <1>8 DEF Aiming

(* Where an undecided append is aimed. *)
LEMMA AimedStays ==
  ASSUME Inv, Inv7, Grows, Len(stream) \in Nat, Len(stream') \in Nat,
         store'.projected \in Nat, store'.projected >= store.projected, NEW f \in inflight
  PROVE  IF f.event.type = "event_rejected"
         THEN f.after = Len(stream') => Refutable(stream', trees', store'.projected, f.after)
         ELSE f.after <= store'.projected
<1>1. Len(stream) <= Len(stream') /\ store.projected \in Nat /\ store.projected <= store'.projected
  BY TableFacts DEF Grows
<1>2. f.after \in Nat /\ f.after <= Len(stream) /\ Aimed(f)
  BY AimsBelow DEF Inv7
<1>3. CASE f.event.type = "event_rejected"
  <2> SUFFICES ASSUME f.after = Len(stream') PROVE Refutable(stream', trees', store'.projected, f.after)
    BY <1>3
  <2>1. f.after = Len(stream)
    BY <1>1, <1>2
  <2>2. f.after \in 1..Len(stream)
    BY <1>3 DEF Inv, Inv3, Rejectable
  <2>3. Refutable(stream, trees, store.projected, f.after)
    BY <1>2, <1>3, <2>1 DEF Aimed
  <2>4. QED BY <1>1, <2>2, <2>3, RefutableStays
<1>4. CASE f.event.type # "event_rejected"
  BY <1>1, <1>2, <1>4 DEF Aimed
<1>5. QED BY <1>3, <1>4

=============================================================================
