------------------------------ MODULE Streamline ------------------------------
(***************************************************************************)
(* The streamline engine (streamline/engine.rs): streams, each a width-1   *)
(* unilevel tree that grows at its bottom, owned by the member whose rank  *)
(* earned it, frozen or destroyed on demotion.  The trees are those of     *)
(* TreeEngine, which UnilevelTree implements.                              *)
(*                                                                         *)
(* Enrolment times are left out; the times kept are those of the streams.  *)
(* A refused call changes nothing and is not a step.                       *)
(***************************************************************************)
EXTENDS TreeEngine, Sequences, FiniteSets, SequencesExt

CONSTANTS
    Configs,            \* the settings an engine may be made with
    Times,              \* the timestamps calls bring
    MaxAllowed,         \* bound on the allowance a call names
    MaxStreamId         \* bound on the streams ever made

ASSUME ConfigsAssumption ==
    Configs \subseteq [mode : {"sponsor_stream", "round_robin"}, choice : BOOLEAN, freeze : BOOLEAN]

VARIABLE engine

NoStream == 0
StreamIds == 1..MaxStreamId

NewStream(owner, t) ==
    [tree |-> EmptyTree, owner |-> owner, frozen |-> FALSE, at |-> t, bottom |-> NoUser]

(* The lists the index maps users to; a user without an entry has none. *)
ListOf(index, u) == IF u \in DOMAIN index THEN index[u] ELSE <<>>
WithList(index, u, list) == (u :> list) @@ index
(* The entry goes when its list is empty. *)
Trimmed(index, u, list) ==
    IF list = <<>> THEN Restrict(index, DOMAIN index \ {u}) ELSE WithList(index, u, list)

CreateStream(e, owner, t) ==
    [e EXCEPT !.streams = (e.next :> NewStream(owner, t)) @@ @, !.next = @ + 1,
              !.owners = WithList(@, owner, Append(ListOf(@, owner), e.next))]

(***************************************************************************)
(* Adding a member.                                                        *)
(***************************************************************************)
(* The owned streams that take members, in the order of the owner's list. *)
OpenStreams(e, s) == SelectSeq(ListOf(e.owners, s), LAMBDA i : ~e.streams[i].frozen)

Size(e, i) == Cardinality(DOMAIN e.streams[i].tree)

(* The refusals of find_placement_stream; choice is NoStream for none. *)
CheckPlacement(e, s, choice) ==
    IF choice # NoStream
    THEN IF ~e.config.choice THEN "STREAM_CHOICE_NOT_ALLOWED"
         ELSE IF choice \notin DOMAIN e.streams THEN "STREAM_NOT_FOUND"
         ELSE IF e.streams[choice].frozen THEN "STREAM_FROZEN"
         ELSE IF choice \notin Range(ListOf(e.owners, s)) THEN "SPONSOR_NOT_OWNER"
         ELSE "ok"
    ELSE IF s \notin DOMAIN e.owners THEN "NO_OWNED_STREAMS"
    ELSE IF OpenStreams(e, s) = <<>> THEN "NO_STREAMS_AVAILABLE"
    ELSE "ok"

FindPlacementStream(e, s, choice) ==
    LET open == OpenStreams(e, s)
    IN  IF choice # NoStream THEN choice
        ELSE IF e.config.mode = "sponsor_stream" THEN Head(open)
        ELSE open[SelectInSeq(open, LAMBDA i : \A j \in Range(open) : Size(e, i) <= Size(e, j))]

(* The tree under the stream's bottom, where the sponsor must hold a place. *)
CheckAppend(stream, u, s) ==
    IF stream.bottom = NoUser THEN "ok" ELSE CheckAddNode(stream.tree, u, stream.bottom, s, NoPos)

CheckAddMember(e, u, s, choice) ==
    IF u \in DOMAIN e.users THEN "MEMBER_ALREADY_EXISTS"
    ELSE IF DOMAIN e.users = {} THEN "ok"
    ELSE IF s \notin DOMAIN e.users \cup DOMAIN e.owners THEN "SPONSOR_NOT_FOUND"
    ELSE IF CheckPlacement(e, s, choice) # "ok" THEN CheckPlacement(e, s, choice)
    ELSE IF CheckAppend(e.streams[FindPlacementStream(e, s, choice)], u, s) # "ok" THEN "TREE_ERROR"
    ELSE "ok"

Appended(stream, u, s) ==
    [stream EXCEPT !.bottom = u,
        !.tree = IF stream.bottom = NoUser THEN AddRoot(@, u)
                 ELSE AddNode(@, u, stream.bottom, s, NoPos)]

BootstrapFirstMember(e, u, t) ==
    LET found == 1 \in DOMAIN e.streams
        i == IF found THEN 1 ELSE e.next
        with == IF found THEN [e EXCEPT !.owners = WithList(@, u, Append(ListOf(@, u), 1))]
                ELSE CreateStream(e, u, t)
    IN  [with EXCEPT !.streams[i].tree = AddRoot(@, u), !.streams[i].owner = u,
                     !.streams[i].bottom = u, !.users = WithList(@, u, <<i>>)]

Placed(e, u, s, i) ==
    [e EXCEPT !.streams[i] = Appended(@, u, s), !.users = WithList(@, u, <<i>>)]

(***************************************************************************)
(* Removing a member.                                                      *)
(***************************************************************************)
(* get_downline of u: whoever is below, from the top down. *)
Downline(t, u) ==
    LET level[k \in 0..Cardinality(DOMAIN t)] ==
            IF k = 0 THEN {u}
            ELSE LET above == level[k - 1] IN {x \in DOMAIN t : t[x].parent \in above}
    IN  SetToSortSeq(UNION {level[k] : k \in 1..Cardinality(DOMAIN t)},
                     LAMBDA x, y : t[x].depth < t[y].depth)

(* A tree as it is rebuilt; ok is FALSE once a step of it is refused. *)
TakenOut(r, d) ==
    IF r.ok /\ CheckRemoveNode(r.tree, d) = "ok" THEN [r EXCEPT !.tree = RemoveNode(@, d)]
    ELSE [r EXCEPT !.ok = FALSE]

(* Mutant: a member keeps the sponsor that left. *)
SponsorAsBefore(t, d, gone, above) == IF t[d].sponsor = NoUser THEN d ELSE t[d].sponsor

(* The sponsor d is added back with. *)
SponsorAfter(t, d, gone, above) ==
    IF t[d].sponsor = gone THEN above ELSE IF t[d].sponsor = NoUser THEN d ELSE t[d].sponsor

PutBack(r, d, s) ==
    IF ~r.ok THEN r
    ELSE IF r.above = NoUser
    THEN [r EXCEPT !.tree = AddRoot(@, d), !.above = d, !.ok = CheckAddRoot(r.tree, d) = "ok"]
    ELSE [r EXCEPT !.tree = AddNode(@, d, r.above, s, NoPos), !.above = d,
                   !.ok = CheckAddNode(r.tree, d, r.above, s, NoPos) = "ok"]

(* The chain without u: everybody below is taken out from the bottom up    *)
(* and put back, one place higher.                                         *)
Compacted(t, u) ==
    LET down  == Downline(t, u)
        taken == FoldLeft(TakenOut, [tree |-> t, ok |-> TRUE], Reverse(down) \o <<u>>)
    IN  FoldLeft(LAMBDA r, d : PutBack(r, d, SponsorAfter(t, d, u, r.above)),
                 [tree |-> taken.tree, ok |-> taken.ok, above |-> t[u].parent], down)

Root(t) == IF HasRoot(t) THEN CHOOSE x \in DOMAIN t : t[x].parent = NoUser ELSE NoUser

(* Mutant: a stream nobody is on keeps its owner. *)
OwnershipLeft(e, i, u) ==
    IF i \notin DOMAIN e.streams \/ e.streams[i].owner # u \/ ~HasRoot(e.streams[i].tree) THEN e
    ELSE LET heir == Root(e.streams[i].tree)
         IN  [e EXCEPT !.streams[i].owner = heir,
                       !.owners = WithList(@, heir, Append(ListOf(@, heir), i))]

(* The stream's first member owns it in u's place. *)
OwnershipPassed(e, i, u) ==
    IF i \notin DOMAIN e.streams \/ e.streams[i].owner # u THEN e
    ELSE LET heir == Root(e.streams[i].tree)
         IN  [e EXCEPT !.streams[i].owner = heir,
                       !.owners = IF heir = NoUser THEN @
                                  ELSE WithList(@, heir, Append(ListOf(@, heir), i))]

RemovedFrom(e, u, i) ==
    LET t    == e.streams[i].tree
        down == Downline(t, u)
        done == Compacted(t, u)
    IN  OwnershipPassed(
          [e EXCEPT !.streams[i].tree = done.tree, !.streams[i].bottom = done.above,
                    !.users = [x \in DOMAIN @ |->
                                 IF x \in Range(down) THEN Append(Remove(@[x], i), i) ELSE @[x]]], i, u)

(* The streams remove_member visits. *)
StreamsWith(e, u) ==
    SelectSeq(e.users[u], LAMBDA i : i \in DOMAIN e.streams /\ u \in DOMAIN e.streams[i].tree)

MemberRemoved(e, u) ==
    LET off == FoldLeft(LAMBDA x, i : RemovedFrom(x, u, i),
                        [e EXCEPT !.users = Restrict(@, DOMAIN @ \ {u})], StreamsWith(e, u))
    IN  FoldLeft(LAMBDA x, i : OwnershipPassed(x, i, u),
                 [off EXCEPT !.owners = Restrict(@, DOMAIN @ \ {u})], ListOf(off.owners, u))

(***************************************************************************)
(* Allowances.                                                             *)
(***************************************************************************)
CreatedFor(e, u, n, t) == FoldLeft(LAMBDA x, k : CreateStream(x, u, t), e, [k \in 1..n |-> k])

(* The owned streams by created_at; the sort is stable. *)
OwnedByAge(e, u) ==
    LET own == ListOf(e.owners, u)
        at(k) == e.streams[own[k]].at
        byAge == SetToSortSeq(DOMAIN own, LAMBDA j, k : at(j) < at(k) \/ (at(j) = at(k) /\ j < k))
    IN  [k \in DOMAIN own |-> own[byAge[k]]]

Active(e, u) == SelectSeq(OwnedByAge(e, u), LAMBDA i : ~e.streams[i].frozen)

SetFrozen(e, ids, frozen) ==
    [e EXCEPT !.streams = [i \in DOMAIN @ |->
                 IF i \in ids THEN [@[i] EXCEPT !.frozen = frozen] ELSE @[i]]]

Destroyed(e, i) ==
    [e EXCEPT !.streams = Restrict(@, DOMAIN @ \ {i}),
              !.users = FoldLeft(LAMBDA x, m : Trimmed(x, m, Remove(ListOf(x, m), i)), @,
                                 SetToSeq(DOMAIN e.streams[i].tree))]

Demoted(e, u, n) ==
    LET excess == SubSeq(Reverse(Active(e, u)), 1, Len(Active(e, u)) - n)
        without == FoldLeft(Destroyed, e, excess)
    IN  IF e.config.freeze THEN SetFrozen(e, Range(excess), TRUE)
        ELSE [without EXCEPT !.owners = Trimmed(@, u,
                 SelectSeq(@[u], LAMBDA i : i \notin Range(excess)))]

Min2(a, b) == IF a < b THEN a ELSE b

(* Mutant: a frozen stream counts as one more to make. *)
PromotedAnew(e, u, n, t) == CreatedFor(e, u, n - Len(Active(e, u)), t)

Promoted(e, u, n, t) ==
    LET frozen == SelectSeq(OwnedByAge(e, u), LAMBDA i : e.streams[i].frozen)
        wanted == n - Len(Active(e, u))
        thawed == Min2(wanted, Len(frozen))
    IN  CreatedFor(SetFrozen(e, Range(SubSeq(frozen, 1, thawed)), FALSE), u, wanted - thawed, t)

(***************************************************************************)
(* Operations.                                                             *)
(***************************************************************************)
Init == \E t \in Times, config \in Configs :
    engine = [config |-> config, streams |-> (1 :> NewStream(NoUser, t)),
              users |-> <<>>, owners |-> <<>>, next |-> 2]

AddMember(u, s, choice, t) ==
    /\ CheckAddMember(engine, u, s, choice) = "ok"
    /\ engine' = IF DOMAIN engine.users = {} THEN BootstrapFirstMember(engine, u, t)
                 ELSE Placed(engine, u, s, FindPlacementStream(engine, s, choice))

(* A compaction that is refused half-way would leave the engine torn;      *)
(* RemovalsComplete shows that none is.                                    *)
RemoveMember(u) ==
    /\ u \in DOMAIN engine.users
    /\ engine' = MemberRemoved(engine, u)

ExpandStreams(u, n, t) ==
    /\ u \in DOMAIN engine.users \cup DOMAIN engine.owners
    /\ n > Len(ListOf(engine.owners, u))
    /\ engine' = CreatedFor(engine, u, n - Len(ListOf(engine.owners, u)), t)

UpdateStreamAllowance(u, n, t) ==
    /\ u \in DOMAIN engine.owners
    /\ engine' = IF n < Len(Active(engine, u)) THEN Demoted(engine, u, n)
                 ELSE Promoted(engine, u, n, t)

InBounds == engine'.next <= MaxStreamId + 1

Next ==
    \/ \E u, s \in Users, c \in StreamIds \cup {NoStream}, t \in Times :
          AddMember(u, s, c, t) /\ InBounds
    \/ \E u \in Users : RemoveMember(u)
    \/ \E u \in Users, n \in 0..MaxAllowed, t \in Times : ExpandStreams(u, n, t) /\ InBounds
    \/ \E u \in Users, n \in 0..MaxAllowed, t \in Times : UpdateStreamAllowance(u, n, t) /\ InBounds

Spec == Init /\ [][Next]_engine

(***************************************************************************)
(* Restore: what StreamlineEngine::validate_restored demands of a payload, *)
(* beyond what each tree's own checks demand of it.                        *)
(***************************************************************************)
EngineRestores(e) ==
    /\ \A i \in DOMAIN e.streams :
          LET s == e.streams[i]
          IN  IF s.bottom = NoUser THEN DOMAIN s.tree = {} ELSE s.bottom \in DOMAIN s.tree
    /\ \A i \in DOMAIN e.streams : i < e.next
    /\ \A i \in DOMAIN e.streams : \A u \in DOMAIN e.streams[i].tree :
          i \in Range(ListOf(e.users, u))
    /\ \A u \in DOMAIN e.users : e.users[u] # <<>> /\ \A i \in Range(e.users[u]) :
          i \in DOMAIN e.streams /\ u \in DOMAIN e.streams[i].tree
    /\ \A u \in DOMAIN e.owners : \A i \in Range(e.owners[u]) :
          i \in DOMAIN e.streams /\ e.streams[i].owner = u

(***************************************************************************)
(* Properties.                                                             *)
(***************************************************************************)

(* Every stream is one line from its first member to its bottom. *)
StreamsAreLines ==
    \A i \in DOMAIN engine.streams :
        LET s == engine.streams[i]
            t == s.tree
        IN  /\ \A x, y \in DOMAIN t : t[x].parent = t[y].parent => x = y
            /\ \A x \in DOMAIN t : HasChildren(t, x) <=> x # s.bottom
            /\ \A x \in DOMAIN t : t[x].sponsor # NoUser =>
                  t[x].sponsor \in DOMAIN t /\ t[t[x].sponsor].depth < t[x].depth

(* The owner a stream names and the streams an owner lists are the same    *)
(* fact, in both directions and without repeats.                           *)
OwnersAgree ==
    /\ \A u \in DOMAIN engine.owners : engine.owners[u] # <<>> /\ IsInjective(engine.owners[u])
    /\ \A i \in DOMAIN engine.streams :
          LET o == engine.streams[i].owner
          IN  o # NoUser => i \in Range(ListOf(engine.owners, o))

(* A worker restores whatever a worker saved, through removals, transfers  *)
(* of ownership and destroyed streams; and what validate_restored does not *)
(* check holds as well: an add never forks a stream, and no stream drops   *)
(* out of its owner's list, where it would take no recruits any more.      *)
StreamsAreSound == EngineRestores(engine) /\ StreamsAreLines /\ OwnersAgree

(* A removal is never refused half-way, with the member gone from the      *)
(* index and the chain below taken apart: every step of the compaction     *)
(* passes the tree's checks.                                               *)
RemovalsComplete ==
    \A i \in DOMAIN engine.streams : \A u \in DOMAIN engine.streams[i].tree :
        Compacted(engine.streams[i].tree, u).ok

(* After an update a member has as many active streams as it allows; a     *)
(* demotion takes the newest and a promotion thaws before it creates.      *)
AllowanceIsMet ==
    [][\A u \in Users, n \in 0..MaxAllowed, t \in Times : UpdateStreamAllowance(u, n, t) =>
          LET before == Range(Active(engine, u))
              after  == Range(Active(engine', u))
              new    == DOMAIN engine'.streams \ DOMAIN engine.streams
          IN  /\ Cardinality(after) = n
              /\ \A i \in before \ after, j \in before \cap after :
                    engine.streams[j].at <= engine.streams[i].at
              /\ new # {} => \A i \in Range(ListOf(engine'.owners, u)) : ~engine'.streams[i].frozen]_engine

(* What the design record says of a frozen stream: it takes no new         *)
(* recruits.                                                               *)
FrozenStreamsTakeNobody ==
    [][\A i \in DOMAIN engine.streams \cap DOMAIN engine'.streams :
          engine.streams[i].frozen =>
             DOMAIN engine'.streams[i].tree \subseteq DOMAIN engine.streams[i].tree]_engine

=============================================================================
