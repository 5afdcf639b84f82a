------------------------- MODULE CoordinatorProofs --------------------------
(***************************************************************************)
(* Proofs about Coordinator for every value of its constants: that its     *)
(* variables are typed, that every node was let in by a key and is in that *)
(* key's group, that a machine keeps its group and addresses, and that only*)
(* served machines are shown as online.                                    *)
(*                                                                         *)
(* A step of the coordinator is a step of the store, or leaves it alone,   *)
(* or drops the result of a call that was over (CoordMoves), so what is    *)
(* inductive for the store is inductive here.  What a thread holds across  *)
(* its critical sections - a claim, a copy of its node, a map, a           *)
(* generation - is described by one invariant per kind of datum.           *)
(***************************************************************************)
EXTENDS Coordinator, StoreProofs

-----------------------------------------------------------------------------
\* The points of on_register before each access to shared state, and of on_map.
RegisterPcs == {"register_find", "consume", "register_store", "register_bump"}

MapPcs == {"map_update", "map_bump", "map_online", "map_find", "map_build", "map_reply"}

\* What the two handlers are called with, and an entry of live.
RegisterRequest == [kind : {"register"}, node_key : NodeKeys, auth : KeyIds \cup {Empty}]

MapRequest == [kind : {"map"}, stream : BOOLEAN, omit_peers : BOOLEAN, v68 : BOOLEAN,
               node_key : NodeKeys \cup {Empty}, endpoints : Endpoints \cup {Empty}]

LiveEntry == [last_gen : Nat, open : BOOLEAN, sent : FullMap, refreshed : BOOLEAN]

\* What the locals of a thread are at each point of its program: v is its
\* state, lv its live streams.
LocalOK(v, lv) ==
    /\ v \in Conn /\ lv \in Seq(LiveEntry)
    /\ v.pc # "closed" => v.machine \in Machines
    /\ v.pc \in RegisterPcs => v.req \in RegisterRequest
    /\ v.pc \in MapPcs => v.req \in MapRequest
    /\ v.pc \in {"map_build", "tick_push"} => v.self \in NodeState
    /\ v.pc = "map_reply" => v.map \in FullMap
    /\ v.pc # "map_reply" => v.map = Unset
    /\ v.pc \in {"tick", "tick_push"} => v.idx \in DOMAIN lv
    /\ v.pc \in {"closed", "bye_offline", "bye_bump"} => lv = <<>>

\* The coordinator's variables: types, and the locals of every thread.
ThreadsOK ==
    /\ conn \in [Threads -> Conn] /\ live \in [Threads -> Seq(LiveEntry)]
    /\ \A c \in Threads : LocalOK(conn[c], live[c])
    /\ map_gen \in Nat \ {0}
    /\ joined \in [Machines -> PreauthClaim]

\* The inductive invariant that the others build on.
CoordIInv == StoreIInv /\ KeyIInv /\ ThreadsOK

-----------------------------------------------------------------------------
\* A key that was created and accepted gave out this claim.
Granted(claim) ==
    \E x \in minted : claims[x.key] > 0 /\ claim = [token |-> x.token, shared |-> x.shared]

\* A thread about to call register_node holds a claim, or finds the machine.
ClaimHeld ==
    \A c \in Threads :
        conn[c].pc = "register_store" =>
            known(mem, conn[c].machine) \/ Granted(call[c].claim)

GroupIInv == ChainOK /\ NodesClaimed /\ ClaimHeld

-----------------------------------------------------------------------------
\* A map built from typed nodes is typed (build_full_map).
LEMMA MapTyped ==
    ASSUME NEW self \in NodeState, NEW all \in Seq(NodeState)
    PROVE  build_full_map(self, all) \in FullMap
<1>1. ASSUME NEW n \in NodeState, NEW own \in BOOLEAN
      PROVE  node_to_tailcfg(n, own) \in Tailcfg /\ n.ip \in Addresses
  BY DEF node_to_tailcfg, Tailcfg, NodeState
<1> DEFINE seen == {all[i] : i \in {j \in DOMAIN all : node_visible_to(self, all[j])}}
           peers == {node_to_tailcfg(n, FALSE) : n \in {x \in seen : x.id # self.id}}
           filter == {n.ip : n \in seen}
<1>2. seen \subseteq NodeState
  OBVIOUS
<1> HIDE DEF seen
<1>3. peers \in SUBSET Tailcfg /\ filter \in SUBSET Addresses
  BY <1>1, <1>2, Zenon
<1>4. node_to_tailcfg(self, TRUE) \in Tailcfg
  BY <1>1, Zenon
<1>5. build_full_map(self, all) =
          [node |-> node_to_tailcfg(self, TRUE), peers |-> peers, filter |-> filter]
  BY DEF build_full_map, seen
<1> HIDE DEF peers, filter
<1> DEFINE own == node_to_tailcfg(self, TRUE)
<1>6. own \in Tailcfg /\ build_full_map(self, all) = [node |-> own, peers |-> peers, filter |-> filter]
  BY <1>4, <1>5, Zenon
<1> HIDE DEF own
<1> QED
  BY <1>3, <1>6 DEF FullMap

\* A thread that is not serving anyone.
LEMMA ClosedOK == LocalOK(Closed, <<>>)
BY DEF LocalOK, Closed, Conn, PCs, RegisterPcs, MapPcs

\* A thread that waits in poll.
LEMMA PollOK ==
    ASSUME NEW m \in Machines, NEW lv \in Seq(LiveEntry)
    PROVE  LocalOK([Closed EXCEPT !.pc = "poll", !.machine = m], lv)
BY Zenon DEF LocalOK, Closed, Conn, PCs, RegisterPcs, MapPcs

\* The next entry of live, or back to poll (advance).
LEMMA AdvanceOK ==
    ASSUME NEW v, NEW lv, LocalOK(v, lv), v.pc \in {"tick", "tick_push"},
           NEW lw \in Seq(LiveEntry), DOMAIN lw = DOMAIN lv
    PROVE  LocalOK(IF v.idx = Len(lv)
                   THEN [Closed EXCEPT !.pc = "poll", !.machine = v.machine]
                   ELSE [v EXCEPT !.pc = "tick", !.idx = @ + 1, !.self = Unset], lw)
<1>1. /\ v \in Conn /\ lv \in Seq(LiveEntry) /\ v.machine \in Machines
      /\ v.idx \in DOMAIN lv /\ v.map = Unset
  BY DEF LocalOK
<1>2. CASE v.idx = Len(lv)
  BY <1>1, <1>2, PollOK, Zenon
<1>3. CASE v.idx # Len(lv)
  <2>1. v.idx + 1 \in DOMAIN lw
    BY <1>1, <1>3
  <2> DEFINE w == [v EXCEPT !.pc = "tick", !.idx = @ + 1, !.self = Unset]
  <2>2. w \in Conn /\ w.pc = "tick" /\ w.machine = v.machine /\ w.idx = v.idx + 1 /\ w.map = Unset
    <3>1. v.idx \in Nat /\ v.idx + 1 \in Nat
      BY <1>1 DEF Conn
    <3> QED
      BY <1>1, <3>1, Zenon DEF Conn, PCs
  <2> HIDE DEF w
  <2>3. LocalOK(w, lw)
    BY <1>1, <2>1, <2>2 DEF LocalOK, RegisterPcs, MapPcs
  <2> QED
    BY <1>3, <2>3 DEF w
<1> QED
  BY <1>2, <1>3

\* A step of one thread changes its own state only.
LEMMA ThreadsNext ==
    ASSUME ThreadsOK, NEW c \in Threads, NEW v, NEW lv, LocalOK(v, lv),
           conn' = [conn EXCEPT ![c] = v], live' = [live EXCEPT ![c] = lv],
           map_gen' \in {map_gen, map_gen + 1}, joined' \in [Machines -> PreauthClaim]
    PROVE  ThreadsOK'
<1>1. v \in Conn /\ lv \in Seq(LiveEntry)
  BY DEF LocalOK
<1>2. conn' \in [Threads -> Conn] /\ live' \in [Threads -> Seq(LiveEntry)]
  BY <1>1 DEF ThreadsOK
<1>3. \A d \in Threads : LocalOK(conn'[d], live'[d])
  BY DEF ThreadsOK
<1>4. map_gen' \in Nat \ {0}
  BY DEF ThreadsOK
<1> QED
  BY <1>2, <1>3, <1>4 DEF ThreadsOK

\* The client's events.
LEMMA ClientOK ==
    ASSUME ThreadsOK, NEW c \in Threads, ClientNext(c)
    PROVE  ThreadsOK'
<1> DEFINE v == conn[c]
           lv == live[c]
<1>0. /\ LocalOK(v, lv) /\ v \in Conn /\ lv \in Seq(LiveEntry)
      /\ conn \in [Threads -> Conn] /\ live \in [Threads -> Seq(LiveEntry)]
      /\ joined \in [Machines -> PreauthClaim] /\ live = [live EXCEPT ![c] = lv]
      /\ conn = [conn EXCEPT ![c] = v]
  BY DEF ThreadsOK, LocalOK
<1>1. ASSUME NEW m \in Machines, connect(c, m) PROVE ThreadsOK'
  <2>1. /\ v.pc = "closed" /\ UNCHANGED <<map_gen, live, joined>>
        /\ conn' = [conn EXCEPT ![c] = [Closed EXCEPT !.pc = "poll", !.machine = m]]
    BY <1>1 DEF connect, at
  <2> QED
    BY <1>0, <2>1, PollOK, ThreadsNext, Zenon
<1>2. ASSUME NEW r \in Requests, request(c, r) PROVE ThreadsOK'
  <2> DEFINE pc == IF r.kind = "register" THEN "register_find"
                   ELSE IF readonly(r) THEN "map_online" ELSE "map_update"
             w == [v EXCEPT !.req = r, !.pc = pc]
  <2>1. /\ v.pc = "poll" /\ UNCHANGED <<map_gen, live, joined>>
        /\ conn' = [conn EXCEPT ![c] = w]
    BY <1>2, Zenon DEF request, at
  <2>2. /\ r \in AllRequests
        /\ r.kind = "register" => r \in RegisterRequest
        /\ r.kind # "register" => r \in MapRequest
    BY CoordinatorAssumption DEF AllRequests, RegisterRequest, MapRequest
  <2>3. /\ pc \in {"register_find", "map_online", "map_update"}
        /\ pc = "register_find" => r \in RegisterRequest
        /\ pc # "register_find" => r \in MapRequest
    BY <2>2
  <2> HIDE DEF pc
  <2>4. /\ w \in Conn /\ w.pc = pc /\ w.req = r /\ w.machine = v.machine /\ w.map = v.map
    BY <1>0, <2>2, <2>3, Zenon DEF Conn, PCs
  <2> HIDE DEF w
  <2>5. LocalOK(w, lv)
    BY <1>0, <2>1, <2>3, <2>4 DEF LocalOK, RegisterPcs, MapPcs
  <2> QED
    BY <1>0, <2>1, <2>5, ThreadsNext, Zenon
<1>3. ASSUME NEW i \in DOMAIN live[c], stream_close(c, i) PROVE ThreadsOK'
  <2> DEFINE lw == [lv EXCEPT ![i].open = FALSE]
  <2>1. /\ v.pc = "poll" /\ UNCHANGED <<map_gen, conn, joined>>
        /\ live' = [live EXCEPT ![c] = lw]
    BY <1>3 DEF stream_close, at
  <2>2. lw \in Seq(LiveEntry)
    <3>1. lv[i] \in LiveEntry
      BY <1>0
    <3>2. [lv[i] EXCEPT !.open = FALSE] \in LiveEntry
      BY <3>1, Zenon DEF LiveEntry
    <3> QED
      BY <1>0, <3>2, Replaced
  <2> HIDE DEF lw
  <2>3. LocalOK(v, lw)
    BY <1>0, <2>1, <2>2 DEF LocalOK, RegisterPcs, MapPcs
  <2> QED
    BY <1>0, <2>1, <2>3, ThreadsNext, Zenon
<1>4. CASE disconnect(c)
  <2> DEFINE w == [v EXCEPT !.pc = "bye_offline"]
  <2>1. /\ v.pc = "poll" /\ UNCHANGED <<map_gen, joined>>
        /\ conn' = [conn EXCEPT ![c] = w] /\ live' = [live EXCEPT ![c] = <<>>]
    BY <1>4 DEF disconnect, at, goto
  <2>2. w \in Conn /\ w.pc = "bye_offline" /\ w.machine = v.machine /\ w.map = v.map
    BY <1>0, Zenon DEF Conn, PCs
  <2> HIDE DEF w
  <2>3. LocalOK(w, <<>>)
    BY <1>0, <2>1, <2>2 DEF LocalOK, RegisterPcs, MapPcs
  <2> QED
    BY <1>0, <2>1, <2>3, ThreadsNext, Zenon
<1> QED
  BY <1>1, <1>2, <1>3, <1>4 DEF ClientNext

\* A thread goes on to a point that needs no more locals than it has.
LEMMA GotoOK ==
    ASSUME NEW v, NEW lv, LocalOK(v, lv), v.pc \notin {"closed", "map_reply"},
           NEW pc \in PCs \ {"map_build", "map_reply", "tick", "tick_push"},
           pc \in RegisterPcs => v.req \in RegisterRequest,
           pc \in MapPcs => v.req \in MapRequest,
           pc \in {"closed", "bye_offline", "bye_bump"} => lv = <<>>
    PROVE  LocalOK([v EXCEPT !.pc = pc], lv)
<1> DEFINE w == [v EXCEPT !.pc = pc]
<1>1. v \in Conn /\ lv \in Seq(LiveEntry) /\ v.machine \in Machines /\ v.map = Unset
  BY DEF LocalOK
<1>2. /\ w \in Conn /\ w.pc = pc /\ w.machine = v.machine /\ w.req = v.req /\ w.map = v.map
  BY <1>1 DEF Conn
<1> HIDE DEF w
<1>3. LocalOK(w, lv)
  BY <1>1, <1>2 DEF LocalOK
<1> QED
  BY <1>3 DEF w

\* What a thread's step may do to its own state: go on, finish or unwind.
LEMMA GoesOn ==
    ASSUME ThreadsOK, NEW c \in Threads, conn[c].pc # "closed",
           map_gen' \in {map_gen, map_gen + 1}, joined' \in [Machines -> PreauthClaim],
           \/ finish(c) /\ UNCHANGED live
           \/ unwind(c)
           \/ /\ UNCHANGED live
              /\ \E pc \in PCs \ {"map_build", "map_reply", "tick", "tick_push"} :
                     /\ goto(c, pc) /\ conn[c].pc # "map_reply"
                     /\ pc \in RegisterPcs => conn[c].req \in RegisterRequest
                     /\ pc \in MapPcs => conn[c].req \in MapRequest
                     /\ pc \in {"closed", "bye_offline", "bye_bump"} => live[c] = <<>>
    PROVE  ThreadsOK'
<1>0. /\ LocalOK(conn[c], live[c]) /\ conn[c].machine \in Machines
      /\ live[c] \in Seq(LiveEntry) /\ live = [live EXCEPT ![c] = live[c]]
  BY DEF ThreadsOK, LocalOK
<1>1. CASE finish(c) /\ UNCHANGED live
  <2>1. conn' = [conn EXCEPT ![c] = [Closed EXCEPT !.pc = "poll", !.machine = conn[c].machine]]
    BY <1>1 DEF finish, polling
  <2> QED
    BY <1>0, <1>1, <2>1, PollOK, ThreadsNext, Zenon
<1>2. CASE unwind(c)
  BY <1>2, ClosedOK, ThreadsNext, Zenon DEF unwind
<1>3. ASSUME UNCHANGED live, NEW pc \in PCs \ {"map_build", "map_reply", "tick", "tick_push"},
             goto(c, pc), conn[c].pc # "map_reply",
             pc \in RegisterPcs => conn[c].req \in RegisterRequest,
             pc \in MapPcs => conn[c].req \in MapRequest,
             pc \in {"closed", "bye_offline", "bye_bump"} => live[c] = <<>>
      PROVE  ThreadsOK'
  <2>1. LocalOK([conn[c] EXCEPT !.pc = pc], live[c])
    BY <1>0, <1>3, GotoOK
  <2>2. conn' = [conn EXCEPT ![c] = [conn[c] EXCEPT !.pc = pc]]
    BY <1>3 DEF goto
  <2> QED
    BY <1>0, <1>3, <2>1, <2>2, ThreadsNext, Zenon
<1> QED
  BY <1>1, <1>2, <1>3

\* on_register.
LEMMA RegisterOK ==
    ASSUME StoreIInv, ThreadsOK, NEW c \in Threads, RegisterNext(c)
    PROVE  ThreadsOK'
<1>0. /\ LocalOK(conn[c], live[c]) /\ call[c] \in Call
      /\ joined \in [Machines -> PreauthClaim]
      /\ {"register_store", "consume", "register_bump"}
             \subseteq PCs \ {"map_build", "map_reply", "tick", "tick_push"}
      /\ {"register_store", "consume", "register_bump"} \cap {"closed", "bye_offline", "bye_bump"} = {}
      /\ {"register_store", "consume", "register_bump"} \cap MapPcs = {}
  BY VectorsTyped DEF ThreadsOK, PCs, MapPcs
<1>1. CASE register_find(c)
  <2>1. /\ conn[c].pc = "register_find" /\ UNCHANGED <<map_gen, live, joined>>
        /\ goto(c, "register_store") \/ finish(c) \/ goto(c, "consume")
    BY <1>1 DEF register_find, at
  <2>2. conn[c].req \in RegisterRequest
    BY <1>0, <2>1 DEF LocalOK, RegisterPcs
  <2> QED
    BY <1>0, <2>1, <2>2, GoesOn
<1>2. CASE register_consume(c)
  <2>1. /\ conn[c].pc = "consume" /\ UNCHANGED <<map_gen, joined>>
        /\ \/ UNCHANGED <<conn, live>>
           \/ goto(c, "register_store") /\ UNCHANGED live
           \/ unwind(c)
           \/ finish(c) /\ UNCHANGED live
    BY <1>2, Zenon DEF register_consume, at
  <2>2. conn[c].req \in RegisterRequest
    BY <1>0, <2>1 DEF LocalOK, RegisterPcs
  <2>3. CASE UNCHANGED <<conn, live>>
    BY <2>1, <2>3 DEF ThreadsOK
  <2> QED
    BY <1>0, <2>1, <2>2, <2>3, GoesOn
<1>3. CASE register_store(c)
  <2>1. /\ conn[c].pc = "register_store" /\ UNCHANGED map_gen
        /\ joined' = joined \/ joined' = [joined EXCEPT ![conn[c].machine] = call[c].claim]
        /\ (goto(c, "register_bump") /\ UNCHANGED live) \/ unwind(c)
    BY <1>3 DEF register_store, at
  <2>2. conn[c].req \in RegisterRequest /\ conn[c].machine \in Machines
    BY <1>0, <2>1 DEF LocalOK, RegisterPcs
  <2>3. joined' \in [Machines -> PreauthClaim]
    <3>1. call[c].claim \in PreauthClaim
      BY <1>0 DEF Call
    <3> QED
      BY <1>0, <2>1, <3>1
  <2> QED
    BY <1>0, <2>1, <2>2, <2>3, GoesOn
<1>4. CASE register_bump(c)
  <2>1. /\ conn[c].pc = "register_bump" /\ map_gen' = map_gen + 1 /\ UNCHANGED <<live, joined>>
        /\ finish(c)
    BY <1>4 DEF register_bump, at, bump_map
  <2> QED
    BY <1>0, <2>1, GoesOn
<1> QED
  BY <1>1, <1>2, <1>3, <1>4 DEF RegisterNext

\* on_map.
LEMMA MapsTypedOK ==
    ASSUME StoreIInv, ThreadsOK, NEW c \in Threads, MapNext(c)
    PROVE  ThreadsOK'
<1> DEFINE v == conn[c]
           lv == live[c]
<1>0. /\ LocalOK(v, lv) /\ v \in Conn /\ lv \in Seq(LiveEntry)
      /\ joined \in [Machines -> PreauthClaim] /\ live = [live EXCEPT ![c] = lv]
      /\ {"map_bump", "map_online", "map_find"}
             \subseteq PCs \ {"map_build", "map_reply", "tick", "tick_push"}
      /\ {"map_bump", "map_online", "map_find"} \cap {"closed", "bye_offline", "bye_bump"} = {}
      /\ {"map_bump", "map_online", "map_find"} \cap RegisterPcs = {}
      /\ mem.nodes \in Seq(NodeState)
  BY VectorsTyped DEF ThreadsOK, LocalOK, PCs, RegisterPcs, Image
<1>a. ASSUME v.pc \in MapPcs PROVE v.req \in MapRequest /\ v.machine \in Machines /\ v.pc # "closed"
  BY <1>0, <1>a DEF LocalOK, MapPcs
<1>1. CASE map_update(c)
  <2>1. /\ v.pc = "map_update" /\ UNCHANGED <<map_gen, joined>>
        /\ (goto(c, "map_bump") /\ UNCHANGED live) \/ unwind(c)
    BY <1>1 DEF map_update, at
  <2>2. v.req \in MapRequest
    BY <1>a, <2>1 DEF MapPcs
  <2> QED
    BY <1>0, <2>1, <2>2, GoesOn
<1>2. CASE map_bump(c)
  <2>1. /\ v.pc = "map_bump" /\ map_gen' = map_gen + 1 /\ UNCHANGED <<live, joined>>
        /\ goto(c, "map_online")
    BY <1>2 DEF map_bump, at, bump_map
  <2>2. v.req \in MapRequest
    BY <1>a, <2>1 DEF MapPcs
  <2> QED
    BY <1>0, <2>1, <2>2, GoesOn
<1>3. CASE map_online(c)
  <2>1. /\ v.pc = "map_online" /\ UNCHANGED <<map_gen, live, joined>>
        /\ finish(c) \/ goto(c, "map_find")
    BY <1>3 DEF map_online, at
  <2>2. v.req \in MapRequest
    BY <1>a, <2>1 DEF MapPcs
  <2> QED
    BY <1>0, <2>1, <2>2, GoesOn, SMTT(20)
<1>4. CASE map_find(c)
  <2>1. /\ v.pc = "map_find" /\ UNCHANGED <<map_gen, live, joined>>
        /\ \/ finish(c)
           \/ \E i \in DOMAIN mem.nodes :
                  conn' = [conn EXCEPT ![c] = [v EXCEPT !.pc = "map_build", !.self = mem.nodes[i]]]
    BY <1>4, Zenon DEF map_find, at
  <2>2. v.req \in MapRequest /\ v.machine \in Machines
    BY <1>a, <2>1, Zenon DEF MapPcs
  <2>3. ASSUME NEW i \in DOMAIN mem.nodes,
               conn' = [conn EXCEPT ![c] = [v EXCEPT !.pc = "map_build", !.self = mem.nodes[i]]]
        PROVE  ThreadsOK'
    <3> DEFINE w == [v EXCEPT !.pc = "map_build", !.self = mem.nodes[i]]
    <3>1. mem.nodes[i] \in NodeState
      BY <1>0
    <3>2. /\ w \in Conn /\ w.pc = "map_build" /\ w.machine = v.machine /\ w.req = v.req
          /\ w.map = v.map /\ w.self = mem.nodes[i]
      BY <1>0, <3>1, Zenon DEF Conn, PCs
    <3> HIDE DEF w
    <3>3. LocalOK(w, lv)
      BY <1>0, <2>1, <2>2, <3>1, <3>2, Zenon DEF LocalOK, RegisterPcs, MapPcs
    <3> QED
      BY <1>0, <2>1, <2>3, <3>3, ThreadsNext, Zenon DEF w
  <2> QED
    BY <1>0, <2>1, <2>3, GoesOn, Zenon
<1>5. CASE map_build(c)
  <2> DEFINE map == build_full_map(v.self, mem.nodes)
             w == [v EXCEPT !.pc = "map_reply", !.map = map]
  <2>1. /\ v.pc = "map_build" /\ UNCHANGED <<map_gen, live, joined>>
        /\ conn' = [conn EXCEPT ![c] = w]
    BY <1>5, Zenon DEF map_build, at
  <2>2. v.req \in MapRequest /\ v.machine \in Machines /\ v.self \in NodeState
    BY <1>0, <1>a, <2>1 DEF LocalOK, MapPcs
  <2>3. map \in FullMap
    BY <1>0, <2>2, MapTyped
  <2> HIDE DEF map
  <2>4. /\ w \in Conn /\ w.pc = "map_reply" /\ w.machine = v.machine /\ w.req = v.req
        /\ w.map = map
    BY <1>0, <2>3, Zenon DEF Conn, PCs
  <2> HIDE DEF w
  <2>5. LocalOK(w, lv)
    BY <1>0, <2>2, <2>3, <2>4 DEF LocalOK, RegisterPcs, MapPcs
  <2> QED
    BY <1>0, <2>1, <2>5, ThreadsNext, Zenon
<1>6. CASE map_reply(c)
  <2> DEFINE e == LiveMap(v.map, map_gen)
             lw == IF v.req.stream THEN Append(lv, e) ELSE lv
  <2>1. /\ v.pc = "map_reply" /\ UNCHANGED <<map_gen, joined>>
        /\ conn' = [conn EXCEPT ![c] = [Closed EXCEPT !.pc = "poll", !.machine = v.machine]]
        /\ live' = [live EXCEPT ![c] = lw]
    BY <1>0, <1>6, Zenon DEF map_reply, at, finish, polling
  <2>2. v.machine \in Machines /\ v.map \in FullMap /\ map_gen \in Nat
    BY <1>0, <1>a, <2>1 DEF LocalOK, MapPcs, ThreadsOK
  <2>3. e \in LiveEntry
    BY <2>2 DEF LiveMap, LiveEntry
  <2> HIDE DEF e
  <2>4. lw \in Seq(LiveEntry)
    BY <1>0, <2>3
  <2> HIDE DEF lw
  <2> QED
    BY <1>0, <2>1, <2>2, <2>4, PollOK, ThreadsNext, Zenon
<1> QED
  BY <1>1, <1>2, <1>3, <1>4, <1>5, <1>6 DEF MapNext

\* The tick, and the end of a session.
LEMMA TickOK ==
    ASSUME StoreIInv, ThreadsOK, NEW c \in Threads, TickNext(c) \/ ByeNext(c)
    PROVE  ThreadsOK'
<1> DEFINE v == conn[c]
           lv == live[c]
           i == v.idx
           next == IF i = Len(lv) THEN [Closed EXCEPT !.pc = "poll", !.machine = v.machine]
                   ELSE [v EXCEPT !.pc = "tick", !.idx = @ + 1, !.self = Unset]
<1>0. /\ LocalOK(v, lv) /\ v \in Conn /\ lv \in Seq(LiveEntry) /\ map_gen \in Nat
      /\ conn \in [Threads -> Conn] /\ live \in [Threads -> Seq(LiveEntry)]
      /\ joined \in [Machines -> PreauthClaim] /\ live = [live EXCEPT ![c] = lv]
      /\ mem.nodes \in Seq(NodeState)
  BY VectorsTyped, Zenon DEF ThreadsOK, LocalOK, Image
<1>a. advance(c) => conn' = [conn EXCEPT ![c] = next]
  BY DEF advance, polling
<1>b. ASSUME v.pc \in {"tick", "tick_push"}
      PROVE  v.machine \in Machines /\ i \in DOMAIN lv /\ lv[i] \in LiveEntry /\ v.gen \in Nat
  BY <1>0, <1>b DEF LocalOK, Conn
<1>c. ASSUME v.pc \in {"tick", "tick_push"}, NEW lw \in Seq(LiveEntry), DOMAIN lw = DOMAIN lv,
             conn' = [conn EXCEPT ![c] = next], live' = [live EXCEPT ![c] = lw],
             UNCHANGED <<map_gen, joined>>
      PROVE  ThreadsOK'
  <2>1. LocalOK(next, lw)
    BY <1>0, <1>c, AdvanceOK, Zenon
  <2> HIDE DEF next
  <2> QED
    BY <1>0, <1>c, <2>1, ThreadsNext, Zenon
<1> HIDE DEF next
<1>1. CASE tick(c)
  <2> DEFINE w == [v EXCEPT !.pc = "tick", !.gen = map_gen, !.idx = 1]
  <2>1. /\ v.pc = "poll" /\ lv # <<>> /\ UNCHANGED <<map_gen, live, joined>>
        /\ conn' = [conn EXCEPT ![c] = w]
    BY <1>1, Zenon DEF tick, at
  <2>2. w \in Conn /\ w.pc = "tick" /\ w.machine = v.machine /\ w.map = v.map /\ w.idx = 1
    BY <1>0, Zenon DEF Conn, PCs
  <2>3. 1 \in DOMAIN lv
    BY <1>0, <2>1
  <2> HIDE DEF w
  <2>4. LocalOK(w, lv)
    BY <1>0, <2>1, <2>2, <2>3, SMTT(20) DEF LocalOK, RegisterPcs, MapPcs
  <2> QED
    BY <1>0, <2>1, <2>4, ThreadsNext, Zenon
<1>2. CASE tick_find(c)
  <2>1. v.pc = "tick" /\ UNCHANGED <<map_gen, joined>>
    BY <1>2 DEF tick_find, at
  <2>2. CASE advance(c) /\ UNCHANGED live
    BY <1>0, <1>a, <1>c, <2>1, <2>2
  <2>3. CASE live' = [live EXCEPT ![c][i].last_gen = v.gen] /\ advance(c)
    <3> DEFINE e == [lv[i] EXCEPT !.last_gen = v.gen]
               lw == [lv EXCEPT ![i] = e]
    <3>1. e \in LiveEntry
      BY <1>b, <2>1 DEF LiveEntry
    <3>2. live' = [live EXCEPT ![c] = lw]
      BY <2>3
    <3> HIDE DEF e
    <3>3. lw \in Seq(LiveEntry) /\ DOMAIN lw = DOMAIN lv
      BY <1>0, <1>b, <2>1, <3>1, Replaced
    <3> HIDE DEF lw
    <3> QED
      BY <1>a, <1>c, <2>1, <2>3, <3>2, <3>3, Zenon
  <2>4. ASSUME NEW j \in DOMAIN mem.nodes, UNCHANGED live,
               conn' = [conn EXCEPT ![c].pc = "tick_push", ![c].self = mem.nodes[j]]
        PROVE  ThreadsOK'
    <3> DEFINE w == [v EXCEPT !.pc = "tick_push", !.self = mem.nodes[j]]
    <3>1. mem.nodes[j] \in NodeState
      BY <1>0
    <3>2. /\ w \in Conn /\ w.pc = "tick_push" /\ w.machine = v.machine /\ w.map = v.map
          /\ w.idx = i /\ w.self = mem.nodes[j]
      BY <1>0, <3>1, Zenon DEF Conn, PCs
    <3>3. conn' = [conn EXCEPT ![c] = w]
      BY <2>4, Zenon
    <3> HIDE DEF w
    <3>4. LocalOK(w, lv)
      BY <1>0, <1>b, <2>1, <3>1, <3>2 DEF LocalOK, RegisterPcs, MapPcs
    <3> QED
      BY <1>0, <2>1, <2>4, <3>3, <3>4, ThreadsNext, Zenon
  <2> QED
    BY <1>2, <2>2, <2>3, <2>4 DEF tick_find
<1>3. CASE tick_push(c)
  <2> DEFINE map == build_full_map(v.self, mem.nodes)
             e == [lv[i] EXCEPT !.last_gen = v.gen, !.refreshed = TRUE,
                                !.sent = IF lv[i].open THEN map ELSE @]
             lw == [lv EXCEPT ![i] = e]
  <2>1. v.pc = "tick_push" /\ UNCHANGED <<map_gen, joined>> /\ advance(c)
    BY <1>3, Zenon DEF tick_push, at
  <2>2. live' = [live EXCEPT ![c] = lw]
    BY <1>3, Zenon DEF tick_push
  <2>3. v.self \in NodeState
    BY <1>0, <2>1 DEF LocalOK
  <2>4. map \in FullMap
    BY <1>0, <2>3, MapTyped
  <2> HIDE DEF map
  <2>5. e \in LiveEntry
    BY <1>b, <2>1, <2>4, Zenon DEF LiveEntry
  <2> HIDE DEF e
  <2>6. lw \in Seq(LiveEntry) /\ DOMAIN lw = DOMAIN lv
    BY <1>0, <1>b, <2>1, <2>5, Replaced
  <2> HIDE DEF lw
  <2> QED
    BY <1>a, <1>c, <2>1, <2>2, <2>6, Zenon
<1>4. CASE bye_offline(c)
  <2>1. v.pc = "bye_offline" /\ UNCHANGED <<map_gen, live, joined>> /\ goto(c, "bye_bump")
    BY <1>4 DEF bye_offline, at
  <2>2. lv = <<>>
    BY <1>0, <2>1 DEF LocalOK
  <2>3. /\ "bye_bump" \in PCs \ {"map_build", "map_reply", "tick", "tick_push"}
        /\ "bye_bump" \notin RegisterPcs \cup MapPcs
    BY DEF PCs, RegisterPcs, MapPcs
  <2> QED
    BY <1>0, <2>1, <2>2, <2>3, GoesOn, Zenon
<1>5. CASE bye_bump(c)
  <2>1. /\ v.pc = "bye_bump" /\ map_gen' = map_gen + 1 /\ UNCHANGED <<live, joined>>
        /\ conn' = [conn EXCEPT ![c] = Closed]
    BY <1>5 DEF bye_bump, at, bump_map
  <2>2. lv = <<>>
    BY <1>0, <2>1 DEF LocalOK
  <2> QED
    BY <1>0, <2>1, <2>2, ClosedOK, ThreadsNext, Zenon
<1> QED
  BY <1>1, <1>2, <1>3, <1>4, <1>5 DEF TickNext, ByeNext

\* The step of the invariant on the threads.
LEMMA ThreadsStep ==
    ASSUME StoreIInv, ThreadsOK, Next
    PROVE  ThreadsOK'
<1>1. ASSUME NEW c \in Threads, ClientNext(c) \/ ServeNext(c) PROVE ThreadsOK'
  BY <1>1, ClientOK, RegisterOK, MapsTypedOK, TickOK DEF ServeNext
<1>2. CASE UNCHANGED coord_vars
  BY <1>2 DEF coord_vars, ThreadsOK
<1>3. CASE coord_restart
  <2>1. /\ map_gen' = 1 /\ conn' = [c \in Threads |-> Closed]
        /\ live' = [c \in Threads |-> <<>>] /\ joined' = joined
    BY <1>3 DEF coord_restart
  <2>2. Closed \in Conn /\ <<>> \in Seq(LiveEntry)
    BY ClosedOK DEF LocalOK
  <2> QED
    BY <2>1, <2>2, ClosedOK DEF ThreadsOK
<1> QED
  BY <1>1, <1>2, <1>3 DEF Next

-----------------------------------------------------------------------------
\* on_register forgets the result of an earlier call.
Forgets(c) ==
    /\ call' = [call EXCEPT ![c] = Idle]
    /\ UNCHANGED <<mem, disk, held, cli, now, minted, claims, acked>>

\* What a thread's step is to the store.
LEMMA ServeMoves ==
    ASSUME StoreIInv, ThreadsOK, NEW c \in Threads, ClientNext(c) \/ ServeNext(c)
    PROVE  \/ UNCHANGED store_vars
           \/ Forgets(c)
           \/ ThreadNext(c)
           \/ NodeNext(conn[c].machine) /\ conn[c].machine \in Machines
<1>0. LocalOK(conn[c], live[c]) /\ call[c] \in Call
  BY VectorsTyped DEF ThreadsOK
<1>1. CASE ClientNext(c)
  BY <1>1, Zenon DEF ClientNext, connect, request, stream_close, disconnect
<1>2. CASE register_find(c)
  <2>1. conn[c].pc = "register_find" /\ conn[c].req \in RegisterRequest
    BY <1>0, <1>2 DEF register_find, at, LocalOK, RegisterPcs
  <2>2. conn[c].req.auth # Empty => conn[c].req.auth \in KeyIds
    BY <2>1 DEF RegisterRequest
  <2> QED
    BY <1>2, <2>2 DEF register_find, Forgets, ThreadNext
<1>3. CASE register_consume(c)
  BY <1>3, Zenon DEF register_consume, ThreadNext
<1>4. CASE register_store(c)
  <2>1. conn[c].pc = "register_store"
    BY <1>4 DEF register_store, at
  <2>2. conn[c].req.node_key \in NodeKeys /\ conn[c].machine \in Machines
    BY <1>0, <2>1 DEF LocalOK, RegisterPcs, RegisterRequest
  <2>3. call[c].claim \in PreauthClaim
    BY <1>0, SMTT(20) DEF Call
  <2> QED
    BY <1>4, <2>2, <2>3, SMTT(20) DEF register_store, NodeNext
<1>5. CASE map_update(c)
  <2>1. conn[c].pc = "map_update"
    BY <1>5 DEF map_update, at
  <2>2. /\ conn[c].req.node_key \in NodeKeys \cup {Empty} /\ conn[c].machine \in Machines
        /\ conn[c].req.endpoints \in Endpoints \cup {Empty}
    BY <1>0, <2>1 DEF LocalOK, MapPcs, MapRequest
  <2> QED
    BY <1>5, <2>2 DEF map_update, NodeNext
<1>6. CASE map_online(c) \/ bye_offline(c)
  <2>1. conn[c].pc \in {"map_online", "bye_offline"}
    BY <1>6, Zenon DEF map_online, bye_offline, at
  <2>2. conn[c].machine \in Machines
    BY <1>0, <2>1 DEF LocalOK
  <2> QED
    BY <1>6, <2>2, Zenon DEF map_online, bye_offline, NodeNext
<1>7. CASE register_bump(c) \/ map_bump(c) \/ map_find(c) \/ map_build(c) \/ map_reply(c)
  BY <1>7 DEF register_bump, map_bump, map_find, map_build, map_reply
<1>8. CASE tick(c) \/ tick_find(c) \/ tick_push(c) \/ bye_bump(c)
  BY <1>8, Zenon DEF tick, tick_find, tick_push, bye_bump
<1> QED
  BY <1>1, <1>2, <1>3, <1>4, <1>5, <1>6, <1>7, <1>8
  DEF ServeNext, RegisterNext, MapNext, TickNext, ByeNext

\* What a step of the coordinator is to the store.
LEMMA CoordMoves ==
    ASSUME StoreIInv, ThreadsOK, [Next]_vars
    PROVE  \/ UNCHANGED store_vars
           \/ \E c \in Threads : Forgets(c)
           \/ AdminNext
           \/ \E c \in Threads : ThreadNext(c)
           \/ \E m \in Machines : NodeNext(m)
           \/ clock_tick
           \/ \E k \in KeyIds : restart(k)
<1>1. CASE UNCHANGED vars
  BY <1>1 DEF vars
<1>2. ASSUME NEW c \in Threads, ClientNext(c) \/ ServeNext(c)
      PROVE  \/ UNCHANGED store_vars \/ Forgets(c) \/ ThreadNext(c)
             \/ \E m \in Machines : NodeNext(m)
  BY <1>2, ServeMoves
<1>3. coord_restart => \E k \in KeyIds : restart(k)
  BY DEF coord_restart
<1> QED
  BY <1>1, <1>2, <1>3 DEF Next

\* The same, as a step of StoreNext.
LEMMA CoordSteps ==
    ASSUME StoreIInv, ThreadsOK, [Next]_vars
    PROVE  StoreNext \/ UNCHANGED store_vars \/ \E c \in Threads : Forgets(c)
BY CoordMoves DEF StoreNext, ProcessNext

\* A thread that forgets a result holds no vector of keys.
LEMMA ForgetsOK ==
    ASSUME StoreIInv, KeyIInv, NEW c \in Threads, Forgets(c)
    PROVE  StoreIInv' /\ KeyIInv'
<1>0. call \in [Threads -> Call] /\ call' = [call EXCEPT ![c] = Idle]
  BY VectorsTyped DEF Forgets
<1>1. call' \in [Threads -> Call]
  <2>1. Idle \in Call
    BY DEF Idle, Call, Steps, NoClaim, PreauthClaim
  <2> QED
    BY <1>0, <2>1
<1>2. StoreIInv'
  BY <1>1 DEF Forgets, StoreIInv, StoreTypeOK
<1>3. Copies
  <2>1. \A t \in Threads : call'[t].seen = <<>> \/ call'[t].seen = call[t].seen
    BY <1>0 DEF Idle
  <2> QED
    BY <2>1 DEF Forgets, Copies, KeyVectors
<1>4. now' \in 1..MaxNow
  BY DEF Forgets, KeyIInv
<1> QED
  BY <1>2, <1>3, <1>4, KeyKinds

\* The step of the coordinator's invariant.
LEMMA CoordStep ==
    ASSUME CoordIInv, [Next]_vars
    PROVE  CoordIInv'
<1>0. StoreIInv /\ KeyIInv /\ ThreadsOK
  BY DEF CoordIInv
<1>1. StoreIInv' /\ KeyIInv'
  <2>1. CASE UNCHANGED store_vars
    <3>1. KeyIInv'
      BY <1>0, <2>1 DEF store_vars, KeyIInv, MintedOK, minted_ids, KeyVectors
    <3> QED
      BY <1>0, <2>1, <3>1, Stutter, SMTT(20)
  <2>2. CASE StoreNext
    BY <1>0, <2>2, AdminStep, ThreadStep, NodeStep, ProcessStep, KeyStep DEF StoreNext
  <2>3. ASSUME NEW c \in Threads, Forgets(c) PROVE StoreIInv' /\ KeyIInv'
    BY <1>0, <2>3, ForgetsOK
  <2> QED
    BY <1>0, <2>1, <2>2, <2>3, CoordSteps
<1>2. ThreadsOK'
  <2>1. CASE UNCHANGED vars
    BY <1>0, <2>1 DEF vars, coord_vars, ThreadsOK
  <2> QED
    BY <1>0, <2>1, ThreadsStep
<1> QED
  BY <1>1, <1>2 DEF CoordIInv

\* Every state of the coordinator over its store is well formed: the store is
\* safe to go on from, its keys are keys that were created, and every thread
\* has the locals its place in the program needs.
THEOREM CoordinatorInductive == Spec => []CoordIInv
<1>1. Init => CoordIInv
  <2> SUFFICES ASSUME Init PROVE CoordIInv
    OBVIOUS
  <2>1. StoreIInv /\ KeyIInv
    BY StoreInitOK, KeyInit DEF Init
  <2>2. Closed \in Conn /\ <<>> \in Seq(LiveEntry) /\ NoClaim \in PreauthClaim
    BY ClosedOK DEF LocalOK, NoClaim, PreauthClaim
  <2>3. ThreadsOK
    BY <2>2, ClosedOK DEF Init, ThreadsOK
  <2> QED
    BY <2>1, <2>3 DEF CoordIInv
<1> QED
  BY <1>1, CoordStep, PTL DEF Spec

\* Every variable of the coordinator keeps its type.
THEOREM CoordinatorTyped == Spec => []TypeOK
<1>1. CoordIInv => TypeOK
  BY Zenon DEF CoordIInv, ThreadsOK, TypeOK, LiveEntry
<1> QED
  BY <1>1, CoordinatorInductive, PTL

\* The store keeps its promises under the coordinator: its variables keep their
\* types, no two nodes share a machine key, an id or an address, and every
\* address is in the configured prefixes.
THEOREM CoordinatorKeepsStore == Spec => [](StoreTypeOK /\ UniqueIdentity /\ AddressesInPrefix)
<1>1. CoordIInv => StoreTypeOK /\ UniqueIdentity /\ AddressesInPrefix
  BY SafeUnique, SafeInPrefix DEF CoordIInv, StoreIInv
<1> QED
  BY <1>1, CoordinatorInductive, PTL

-----------------------------------------------------------------------------
\* A step of the coordinator lets the images grow, or is a restart.
LEMMA CoordGrows ==
    ASSUME StoreIInv, ThreadsOK, ~CanImport, [Next]_vars
    PROVE  Grows \/ \E k \in KeyIds : restart(k)
<1>1. UNCHANGED store_vars => Grows
  BY WithinOrder DEF store_vars, Grows
<1>2. ASSUME NEW c \in Threads, Forgets(c) PROVE Grows
  BY <1>2, WithinOrder DEF Forgets, Grows
<1> QED
  BY <1>1, <1>2, CoordMoves, ServerGrows

\* The step of the chain of images.
LEMMA CoordChain ==
    ASSUME StoreIInv, ThreadsOK, ~CanImport, ChainOK, [Next]_vars
    PROVE  ChainOK' /\ (Within(mem, mem') \/ Within(mem', mem))
<1>1. CASE Grows
  BY <1>1, ChainGrows DEF Grows
<1>2. ASSUME NEW k \in KeyIds, restart(k) PROVE ChainOK' /\ Within(mem', mem)
  BY <1>2, ChainProcess, RestartNodes DEF ProcessNext
<1> QED
  BY <1>1, <1>2, CoordGrows

\* Without imports, a registered machine keeps its id, addresses, token and
\* shared flag whatever requests of its connections overlap.
THEOREM CoordinatorGroupsStable ==
    ASSUME ~CanImport
    PROVE  Spec => GroupStable
<1>1. Init => ChainOK
  BY ChainInit DEF Init
<1>2. CoordIInv /\ ChainOK /\ [Next]_vars => ChainOK'
  BY CoordChain DEF CoordIInv
<1>3. CoordIInv /\ CoordIInv' /\ ChainOK /\ [Next]_vars =>
          [\A i \in DOMAIN mem.nodes, j \in DOMAIN mem'.nodes :
               mem.nodes[i].machine_key = mem'.nodes[j].machine_key =>
                   /\ mem.nodes[i].id = mem'.nodes[j].id
                   /\ mem.nodes[i].ip = mem'.nodes[j].ip
                   /\ mem.nodes[i].token = mem'.nodes[j].token
                   /\ mem.nodes[i].shared = mem'.nodes[j].shared]_mem
  <2> SUFFICES ASSUME CoordIInv, CoordIInv', ChainOK, [Next]_vars,
                      NEW i \in DOMAIN mem.nodes, NEW j \in DOMAIN mem'.nodes,
                      mem.nodes[i].machine_key = mem'.nodes[j].machine_key
               PROVE  Kin(mem.nodes[i], mem'.nodes[j])
    BY DEF Kin
  <2>1. ImageOK(mem) /\ ImageOK(mem') /\ StoreIInv /\ ThreadsOK
    BY StoreIInvParts, Zenon DEF CoordIInv, StoreIInv, ImageOK
  <2>2. CASE Within(mem, mem')
    BY <2>1, <2>2, WithinAgree, SMTT(20)
  <2>3. CASE Within(mem', mem)
    <3>1. Kin(mem'.nodes[j], mem.nodes[i])
      BY <2>1, <2>3, WithinAgree
    <3> QED
      BY <3>1 DEF Kin
  <2> QED
    BY <2>1, <2>2, <2>3, CoordChain
<1> QED
  BY <1>1, <1>2, <1>3, CoordinatorInductive, PTL DEF Spec, GroupStable

\* The address a machine was told stays its own under the coordinator: every
\* restart finds the state file, and nothing is imported.
THEOREM CoordinatorAddressesForLife ==
    ASSUME ~CanImport, MayCrash => HasPath
    PROVE  Spec => []AddressForLife
<1>1. Init => ChainOK /\ AckedOK
  BY ChainInit DEF Init
<1>2. CoordIInv /\ ChainOK /\ AckedOK /\ [Next]_vars => (ChainOK /\ AckedOK)'
  <2> SUFFICES ASSUME StoreIInv, ThreadsOK, ChainOK, AckedOK, [Next]_vars
               PROVE  ChainOK' /\ AckedOK'
    BY DEF CoordIInv
  <2>1. ASSUME NEW k \in KeyIds, restart(k) PROVE AckedOK'
    <3>1. HasPath /\ acked' = acked
      BY <2>1 DEF restart
    <3>2. mem'.nodes = disk.nodes /\ disk'.nodes = disk.nodes
      BY <2>1, <3>1, RestartNodes
    <3> QED
      BY <3>1, <3>2 DEF AckedOK, Keeps
  <2> QED
    BY <2>1, AckedGrows, CoordChain, CoordGrows
<1>3. CoordIInv /\ AckedOK => AddressForLife
  BY SafeUnique, AckedUnique DEF AckedOK, CoordIInv
<1> QED
  BY <1>1, <1>2, <1>3, CoordinatorInductive, PTL DEF Spec

-----------------------------------------------------------------------------
\* A thread's step leaves the other threads alone.
LEMMA OthersKeep ==
    ASSUME StoreIInv, ThreadsOK, NEW c \in Threads, ClientNext(c) \/ ServeNext(c),
           NEW d \in Threads, d # c
    PROVE  conn'[d] = conn[d] /\ live'[d] = live[d] /\ call'[d] = call[d]
<1>0. /\ conn \in [Threads -> Conn] /\ live \in [Threads -> Seq(LiveEntry)]
      /\ call \in [Threads -> Call]
  BY VectorsTyped DEF ThreadsOK
<1>1. conn'[d] = conn[d] /\ live'[d] = live[d]
  <2>1. CASE ClientNext(c)
    BY <1>0, <2>1, Zenon DEF ClientNext, connect, request, stream_close, disconnect, goto
  <2>2. CASE RegisterNext(c)
    BY <1>0, <2>2, Zenon DEF RegisterNext, register_find, register_consume, register_store, register_bump,
                 goto, finish, unwind
  <2>3. CASE MapNext(c)
    BY <1>0, <2>3, Zenon DEF MapNext, map_update, map_bump, map_online, map_find, map_build, map_reply,
                 goto, finish, unwind
  <2>4. CASE TickNext(c)
    BY <1>0, <2>4, Zenon DEF TickNext, tick, tick_find, tick_push, advance
  <2>5. CASE ByeNext(c)
    BY <1>0, <2>5, Zenon DEF ByeNext, bye_offline, bye_bump, goto
  <2> QED
    BY <2>1, <2>2, <2>3, <2>4, <2>5 DEF ServeNext
<1>2. call'[d] = call[d]
  <2>1. CASE UNCHANGED store_vars
    BY <2>1 DEF store_vars
  <2>2. CASE Forgets(c)
    BY <1>0, <2>2 DEF Forgets
  <2>3. CASE ThreadNext(c)
    BY <1>0, <2>3, Zenon DEF ThreadNext, consume_preauth, reload_read, reload_skip, reload_install,
                 consume_claim, consume_deny
  <2>4. CASE NodeNext(conn[c].machine) /\ conn[c].machine \in Machines
    BY <2>4, NodeCall
  <2> QED
    BY <2>1, <2>2, <2>3, <2>4, ServeMoves, Zenon
<1> QED
  BY <1>1, <1>2

\* What was created and accepted is never taken back.
LEMMA HistoryGrows ==
    ASSUME CoordIInv, [Next]_vars
    PROVE  /\ minted \subseteq minted'
           /\ \A k \in KeyIds : claims[k] > 0 => claims'[k] > 0
<1>0. StoreIInv /\ KeyIInv /\ ThreadsOK /\ claims \in [KeyIds -> 0..2] /\ now \in 1..MaxNow
  BY VectorsTyped DEF CoordIInv, KeyIInv
<1> DEFINE P == minted \subseteq minted' /\ \A k \in KeyIds : claims[k] > 0 => claims'[k] > 0
<1>1. Copies \/ (\E p \in PreauthKey : Mints(p)) => P
  BY <1>0 DEF Copies, Mints
<1>2. ASSUME NEW t \in Threads, NEW i \in DOMAIN mem.keys, NEW ok \in BOOLEAN, Marks(t, i, ok)
      PROVE  P
  BY <1>0, <1>2 DEF Marks
<1>3. UNCHANGED store_vars => P
  BY DEF store_vars
<1>4. ASSUME NEW c \in Threads, Forgets(c) PROVE P
  BY <1>4 DEF Forgets
<1> HIDE DEF P
<1>5. P
  BY <1>0, <1>1, <1>2, <1>3, <1>4, CoordSteps, AdminKeys, ThreadKeys, NodeCopies, ProcessKeys, SMTT(20)
  DEF StoreNext
<1> QED
  BY <1>5 DEF P

\* A claim that was granted stays granted.
LEMMA GrantedStays ==
    ASSUME CoordIInv, [Next]_vars, NEW claim, Granted(claim)
    PROVE  \E x \in minted' : /\ claims'[x.key] > 0
                              /\ claim = [token |-> x.token, shared |-> x.shared]
<1>1. minted \subseteq PreauthKey
  BY VectorsTyped DEF CoordIInv
<1>2. \A x \in minted : x.key \in KeyIds
  BY <1>1 DEF PreauthKey
<1> QED
  BY <1>2, HistoryGrows DEF Granted

\* Thread c adds the node of its machine, under the claim it holds.
Joins(c) ==
    LET m == conn[c].machine
    IN  /\ conn[c].pc = "register_store" /\ m \in Machines
        /\ \E nk \in NodeKeys : Adds(new_node(m, nk, call[c].claim))
        /\ joined' = [joined EXCEPT ![m] = call[c].claim]
        /\ UNCHANGED <<call, minted, claims>>

\* Every step but register_node for a new machine adds no node.
LEMMA JoinsOrNot ==
    ASSUME StoreIInv, ThreadsOK, ChainOK, ~CanImport, [Next]_vars
    PROVE  \/ Within(mem', mem) /\ joined' = joined
           \/ \E c \in Threads : Joins(c)
<1>0. ImageOK(mem)
  BY StoreIInvParts
<1>a. ASSUME NEW m, Edits(m) PROVE Within(mem', mem)
  BY <1>a DEF Edits, Within, Kin
<1>b. mem'.nodes = mem.nodes => Within(mem', mem)
  BY WithinOrder
<1>1. ASSUME NEW c \in Threads, register_store(c)
      PROVE  Joins(c) \/ (Within(mem', mem) /\ joined' = joined)
  <2> DEFINE m == conn[c].machine
             nk == conn[c].req.node_key
  <2>1. /\ conn[c].pc = "register_store" /\ LocalOK(conn[c], live[c]) /\ call[c] \in Call
    BY <1>1, VectorsTyped, Zenon DEF register_store, at, ThreadsOK
  <2>2. m \in Machines /\ nk \in NodeKeys
    BY <2>1, Zenon DEF LocalOK, RegisterPcs, RegisterRequest
  <2>3. call[c].claim \in PreauthClaim
    BY <2>1, Zenon DEF Call
  <2> HIDE DEF m, nk
  <2>4. ASSUME NEW ok \in BOOLEAN, register_existing(m, nk, ok) PROVE Within(mem', mem)
    BY <1>0, <1>a, <2>2, <2>4, ExistingEdits, Zenon
  <2>5. ASSUME NEW ok \in BOOLEAN, register_new(m, nk, call[c].claim, ok),
               joined' = [joined EXCEPT ![m] = call[c].claim]
        PROVE  Joins(c)
    <3>1. Adds(new_node(m, nk, call[c].claim))
      BY <1>0, <2>2, <2>3, <2>5, NewAdds
    <3>2. UNCHANGED <<call, minted, claims>>
      BY <2>5 DEF register_new
    <3> QED
      BY <2>1, <2>2, <2>5, <3>1, <3>2, Zenon DEF Joins, m
  <2>6. register_full(m) => Within(mem', mem)
    BY <1>0, <1>b, <2>2, FullSame
  <2> QED
    BY <1>1, <2>4, <2>5, <2>6, Zenon DEF register_store, m, nk
<1>2. ASSUME NEW c \in Threads, ClientNext(c) \/ ServeNext(c), ~register_store(c)
      PROVE  Within(mem', mem) /\ joined' = joined
  <2>1. joined' = joined
    BY <1>2, Zenon DEF ClientNext, connect, request, stream_close, disconnect,
                ServeNext, RegisterNext, register_find, register_consume, register_bump,
                MapNext, map_update, map_bump, map_online, map_find, map_build, map_reply,
                TickNext, tick, tick_find, tick_push, ByeNext, bye_offline, bye_bump
  <2>2. CASE map_update(c) \/ map_online(c) \/ bye_offline(c)
    <3>1. conn[c].pc \in {"map_update", "map_online", "bye_offline"} /\ LocalOK(conn[c], live[c])
      BY <2>2, Zenon DEF map_update, map_online, bye_offline, at, ThreadsOK
    <3>2. conn[c].machine \in Machines
      BY <3>1 DEF LocalOK
    <3>3. CASE map_update(c)
      <4>1. conn[c].pc = "map_update"
        BY <3>3 DEF map_update, at
      <4>2. /\ conn[c].req.node_key \in NodeKeys \cup {Empty}
            /\ conn[c].req.endpoints \in Endpoints \cup {Empty}
        BY <3>1, <4>1 DEF LocalOK, MapPcs, MapRequest
      <4>3. PICK ok \in BOOLEAN : update_map_info(conn[c].machine, conn[c].req.node_key,
                                                  conn[c].req.endpoints, ok)
        BY <3>3 DEF map_update
      <4> QED
        BY <1>0, <1>a, <2>1, <3>2, <4>2, <4>3, InfoEdits, Zenon
    <3>4. CASE map_online(c) \/ bye_offline(c)
      <4>1. PICK online \in BOOLEAN : set_online(conn[c].machine, online)
        BY <3>4, Zenon DEF map_online, bye_offline
      <4> QED
        BY <1>0, <1>a, <2>1, <3>2, <4>1, OnlineEdits
    <3> QED
      BY <2>1, <2>2, <3>3, <3>4
  <2>3. CASE register_consume(c)
    <3>1. ThreadNext(c)
      BY <2>3, Zenon DEF register_consume, ThreadNext
    <3> QED
      BY <1>b, <2>1, <3>1, KeysOnly, Zenon
  <2>4. CASE ~(map_update(c) \/ map_online(c) \/ bye_offline(c) \/ register_consume(c))
    <3>1. mem' = mem
      BY <1>2, <2>4, Zenon
      DEF ClientNext, connect, request, stream_close, disconnect, store_vars,
          ServeNext, RegisterNext, register_find, register_bump, consume_preauth,
          MapNext, map_bump, map_find, map_build, map_reply,
          TickNext, tick, tick_find, tick_push, ByeNext, bye_bump
    <3> QED
      BY <1>b, <2>1, <3>1
  <2> QED
    BY <2>2, <2>3, <2>4
<1>3. CASE (AdminNext \/ clock_tick) /\ UNCHANGED coord_vars
  BY <1>b, <1>3, KeysOnly DEF coord_vars
<1>4. CASE coord_restart
  BY <1>4, RestartNodes DEF coord_restart
<1>5. CASE UNCHANGED vars
  BY <1>b, <1>5, SMTT(20) DEF vars, store_vars, coord_vars
<1> QED
  BY <1>1, <1>2, <1>3, <1>4, <1>5 DEF Next

\* A node let in by a key that was created and accepted, in that key's group.
ClaimedNode(n) ==
    /\ joined[n.machine_key] = [token |-> n.token, shared |-> n.shared]
    /\ Granted([token |-> n.token, shared |-> n.shared])

\* NodesClaimed, node by node.
LEMMA ClaimedNodes ==
    ASSUME minted \subseteq PreauthKey
    PROVE  NodesClaimed <=> \A i \in DOMAIN mem.nodes : ClaimedNode(mem.nodes[i])
<1>1. ASSUME NEW i \in DOMAIN mem.nodes
      PROVE  Granted([token |-> mem.nodes[i].token, shared |-> mem.nodes[i].shared]) <=>
                 \E x \in minted : /\ claims[x.key] > 0
                                   /\ x.token = mem.nodes[i].token
                                   /\ x.shared = mem.nodes[i].shared
  BY Zenon DEF Granted
<1> QED
  BY <1>1 DEF NodesClaimed, ClaimedNode

\* A new machine's node carries the claim its thread holds.
LEMMA NodesJoin ==
    ASSUME CoordIInv, CoordIInv', NodesClaimed, ClaimHeld, [Next]_vars,
           NEW c \in Threads, Joins(c)
    PROVE  NodesClaimed'
<1> DEFINE m == conn[c].machine
           claim == call[c].claim
<1>0. /\ StoreIInv /\ mem.nodes \in Seq(NodeState) /\ joined \in [Machines -> PreauthClaim]
      /\ minted \subseteq PreauthKey /\ minted' \subseteq PreauthKey /\ call[c] \in Call
      /\ m \in Machines /\ joined' = [joined EXCEPT ![m] = claim]
  BY VectorsTyped, Zenon DEF CoordIInv, ThreadsOK, Image, Joins, StoreIInv, StoreTypeOK
<1>1. PICK nk \in NodeKeys : Adds(new_node(m, nk, claim))
  BY Zenon DEF Joins
<1> DEFINE n == new_node(m, nk, claim)
<1>2. /\ ~known(mem, m) /\ mem'.nodes = Append(mem.nodes, n) /\ n.machine_key = m
      /\ claim = [token |-> n.token, shared |-> n.shared]
  <2>1. claim \in PreauthClaim
    BY <1>0, Zenon DEF Call
  <2> QED
    BY <1>1, <2>1, Zenon DEF Adds, new_node, PreauthClaim
<1>3. Granted(claim)
  BY <1>2 DEF ClaimHeld, Joins
<1> HIDE DEF n
<1>4. ASSUME NEW i \in DOMAIN mem'.nodes PROVE ClaimedNode(mem.nodes[i])'
  <2>1. CASE i \in DOMAIN mem.nodes
    <3>1. mem'.nodes[i] = mem.nodes[i] /\ mem.nodes[i] \in NodeState
      <4>1. mem.nodes \in Seq(NodeState) /\ mem'.nodes = Append(mem.nodes, n)
        BY ONLY <1>0, <1>2, Zenon
      <4> QED
        BY ONLY <2>1, <4>1
    <3>2. mem.nodes[i].machine_key # m /\ mem.nodes[i].machine_key \in Machines
      BY <1>2, <2>1, <3>1, SMTT(20) DEF known, NodeState
    <3>3. ClaimedNode(mem.nodes[i])
      BY <1>0, <2>1, ClaimedNodes
    <3>4. joined'[mem.nodes[i].machine_key] = joined[mem.nodes[i].machine_key]
      BY <1>0, <3>2
    <3> QED
      BY <3>1, <3>3, <3>4, GrantedStays DEF ClaimedNode, Granted
  <2>2. CASE i \notin DOMAIN mem.nodes
    <3>1. mem'.nodes[i] = n
      BY <1>0, <1>2, <2>2
    <3>2. joined'[m] = claim
      BY <1>0
    <3> QED
      BY <1>2, <1>3, <3>1, <3>2, GrantedStays, Zenon DEF ClaimedNode, Granted
  <2> QED
    BY <2>1, <2>2, SMTT(20)
<1>5. (\A i \in DOMAIN mem.nodes : ClaimedNode(mem.nodes[i]))'
  BY <1>4
<1>6. (minted \subseteq PreauthKey)'
  BY <1>0
<1> QED
  BY <1>5, <1>6, ClaimedNodes, PTL

\* The step of NodesClaimed.
LEMMA NodesClaimedStep ==
    ASSUME CoordIInv, CoordIInv', GroupIInv, ~CanImport, [Next]_vars
    PROVE  NodesClaimed'
<1>0. StoreIInv /\ ThreadsOK /\ ChainOK /\ minted \subseteq PreauthKey
  BY VectorsTyped DEF CoordIInv, GroupIInv
<1>1. CASE Within(mem', mem) /\ joined' = joined
  <2> SUFFICES ASSUME NEW i \in DOMAIN mem'.nodes
               PROVE  /\ joined'[mem'.nodes[i].machine_key] =
                             [token |-> mem'.nodes[i].token, shared |-> mem'.nodes[i].shared]
                      /\ \E x \in minted' : /\ claims'[x.key] > 0
                                            /\ x.token = mem'.nodes[i].token
                                            /\ x.shared = mem'.nodes[i].shared
    BY Zenon DEF NodesClaimed
  <2>1. PICK j \in DOMAIN mem.nodes : Kin(mem'.nodes[i], mem.nodes[j])
    BY <1>1 DEF Within
  <2>2. ClaimedNode(mem.nodes[j])
    BY <1>0, ClaimedNodes, SMTT(20) DEF GroupIInv
  <2>3. \E x \in minted' : /\ claims'[x.key] > 0
                           /\ [token |-> mem.nodes[j].token, shared |-> mem.nodes[j].shared]
                                  = [token |-> x.token, shared |-> x.shared]
    BY <2>2, GrantedStays DEF ClaimedNode
  <2> QED
    BY <1>1, <2>1, <2>2, <2>3, Zenon DEF ClaimedNode, Kin
<1> QED
  BY <1>0, <1>1, JoinsOrNot, NodesJoin DEF GroupIInv

\* A thread's step takes no node away.
LEMMA ServeGrows ==
    ASSUME StoreIInv, ThreadsOK, ~CanImport, NEW c \in Threads, ClientNext(c) \/ ServeNext(c)
    PROVE  Grows
<1>1. UNCHANGED store_vars => Grows
  BY WithinOrder DEF store_vars, Grows
<1>2. Forgets(c) => Grows
  BY WithinOrder DEF Forgets, Grows
<1> QED
  BY <1>1, <1>2, ServeMoves, ServerGrows, SMTT(20)

\* A thread reaches register_node because it found the machine, or because
\* consume_preauth accepted its key.
LEMMA ReachesStore ==
    ASSUME StoreIInv, ThreadsOK, NEW c \in Threads, ClientNext(c) \/ ServeNext(c),
           conn'[c].pc = "register_store"
    PROVE  /\ conn'[c].machine = conn[c].machine
           /\ (known(mem, conn[c].machine) /\ mem' = mem) \/ consume_claim(c, TRUE)
<1>0. conn \in [Threads -> Conn] /\ conn[c] \in Conn /\ live \in [Threads -> Seq(LiveEntry)]
  BY Zenon DEF ThreadsOK
<1>a. /\ goto(c, "register_store") => conn'[c].machine = conn[c].machine
      /\ ~goto(c, "consume") /\ ~goto(c, "register_bump") /\ ~goto(c, "map_bump")
      /\ ~goto(c, "map_online") /\ ~goto(c, "map_find")
      /\ ~goto(c, "bye_offline") /\ ~goto(c, "bye_bump")
  BY <1>0 DEF goto, Conn
<1>b. ~finish(c)
  BY <1>0, Zenon DEF finish, polling, Closed
<1>c. ~unwind(c)
  BY <1>0 DEF unwind, Closed
<1>1. ~ClientNext(c)
  <2>1. ASSUME NEW m \in Machines, connect(c, m) PROVE FALSE
    BY <1>0, <2>1 DEF connect, Closed
  <2>2. ASSUME NEW r \in Requests, request(c, r) PROVE FALSE
    BY <1>0, <2>2 DEF request, Conn
  <2>3. ASSUME NEW i \in DOMAIN live[c], stream_close(c, i) PROVE FALSE
    BY <2>3, SMTT(20) DEF stream_close, at
  <2>4. ~disconnect(c)
    BY <1>a DEF disconnect
  <2> QED
    BY <2>1, <2>2, <2>3, <2>4, Zenon DEF ClientNext
<1>2. CASE register_find(c)
  <2>1. \/ goto(c, "register_store") /\ known(mem, conn[c].machine) /\ mem' = mem
        \/ finish(c)
        \/ goto(c, "consume")
    BY <1>2, Zenon DEF register_find
  <2> QED
    BY <1>a, <1>b, <2>1, Zenon
<1>3. CASE register_consume(c)
  <2>1. conn[c].pc = "consume"
    BY <1>3, Zenon DEF register_consume, at
  <2> QED
    BY <1>3, <1>a, <1>b, <1>c, <2>1, Zenon DEF register_consume
<1>4. ~register_store(c) /\ ~register_bump(c)
  BY <1>a, <1>b, <1>c, Zenon DEF register_store, register_bump
<1>5. ~MapNext(c)
  <2>1. ~map_update(c)
    BY <1>a, <1>c DEF map_update
  <2>2. ~map_bump(c)
    BY <1>a, Zenon DEF map_bump
  <2>3. ~map_online(c)
    BY <1>a, <1>b, Zenon DEF map_online
  <2>4. ~map_reply(c)
    BY <1>b DEF map_reply
  <2>5. ~map_find(c) /\ ~map_build(c)
    BY <1>0, <1>b DEF map_find, map_build, Conn
  <2> QED
    BY <2>1, <2>2, <2>3, <2>4, <2>5, SMTT(20) DEF MapNext
<1>6. ~TickNext(c)
  <2>1. advance(c) => conn'[c].pc \in {"poll", "tick"}
    BY <1>0 DEF advance, polling, Closed, Conn
  <2> QED
    BY <1>0, <2>1 DEF TickNext, tick, tick_find, tick_push, Conn
<1>7. ~ByeNext(c)
  <2>1. ~bye_offline(c)
    BY <1>a, Zenon DEF bye_offline
  <2>2. ~bye_bump(c)
    BY <1>0 DEF bye_bump, Closed
  <2> QED
    BY <2>1, <2>2 DEF ByeNext
<1> QED
  BY <1>1, <1>2, <1>3, <1>4, <1>5, <1>6, <1>7, Zenon DEF ServeNext, RegisterNext

\* consume_preauth grants the claim it returns.
LEMMA ClaimGranted ==
    ASSUME CoordIInv, NEW c \in Threads, consume_claim(c, TRUE)
    PROVE  \E x \in minted' : /\ claims'[x.key] > 0
                              /\ call'[c].claim = [token |-> x.token, shared |-> x.shared]
<1>0. /\ call \in [Threads -> Call] /\ claims \in [KeyIds -> 0..2] /\ mem.keys \in KeyVectors
      /\ \A ks \in KeyVectors : KeysOK(ks, minted, claims)
      /\ minted \subseteq PreauthKey
  BY VectorsTyped, Zenon DEF CoordIInv, KeyIInv, KeyVectors
<1>1. PICK i \in DOMAIN mem.keys :
          /\ mem.keys[i].key = call[c].key
          /\ call'[c].claim = [token |-> mem.keys[i].token, shared |-> mem.keys[i].shared]
          /\ claims' = [claims EXCEPT ![call[c].key] = IF @ = 0 THEN 1 ELSE 2]
          /\ minted' = minted
  BY <1>0 DEF consume_claim, first_key, Call
<1>2. PICK x \in minted : KeyOf(mem.keys[i], x)
  BY <1>0, SMTT(20) DEF KeysOK, KeyOK
<1>3. x.key \in KeyIds /\ x.key = call[c].key
  <2>1. x \in PreauthKey
    BY <1>0
  <2> QED
    BY <1>1, <1>2, <2>1 DEF KeyOf, PreauthKey
<1>4. claims'[x.key] > 0
  <2>1. claims'[x.key] = IF claims[x.key] = 0 THEN 1 ELSE 2
    BY ONLY <1>0, <1>1, <1>3, SMTT(20)
  <2> QED
    BY ONLY <2>1, SMTT(20)
<1> QED
  BY <1>1, <1>2, <1>4, Zenon DEF KeyOf

\* A machine stays known while images grow.
LEMMA KnownStays ==
    ASSUME Within(mem, mem'), NEW m, known(mem, m)
    PROVE  known(mem', m)
BY DEF Within, Kin, known

\* The step of the claims that threads hold.
LEMMA ClaimHeldStep ==
    ASSUME CoordIInv, ClaimHeld, ~CanImport, [Next]_vars
    PROVE  ClaimHeld'
<1>0. StoreIInv /\ ThreadsOK
  BY SMTT(20) DEF CoordIInv
<1> SUFFICES ASSUME NEW d \in Threads, conn'[d].pc = "register_store"
             PROVE  \/ known(mem', conn'[d].machine)
                    \/ \E x \in minted' :
                           /\ claims'[x.key] > 0
                           /\ call'[d].claim = [token |-> x.token, shared |-> x.shared]
  BY SMTT(20) DEF ClaimHeld, Granted
<1>1. ASSUME conn'[d] = conn[d], call'[d] = call[d], Within(mem, mem')
      PROVE  \/ known(mem', conn'[d].machine)
             \/ \E x \in minted' :
                    /\ claims'[x.key] > 0
                    /\ call'[d].claim = [token |-> x.token, shared |-> x.shared]
  BY <1>1, KnownStays, GrantedStays DEF ClaimHeld
<1>2. ASSUME NEW c \in Threads, ClientNext(c) \/ ServeNext(c), c # d
      PROVE  conn'[d] = conn[d] /\ call'[d] = call[d] /\ Within(mem, mem')
  BY <1>0, <1>2, OthersKeep, ServeGrows, Zenon DEF Grows
<1>3. CASE ClientNext(d) \/ ServeNext(d)
  <2>1. CASE known(mem, conn[d].machine) /\ mem' = mem
    BY <1>0, <1>3, <2>1, ReachesStore, Zenon
  <2>2. CASE consume_claim(d, TRUE)
    BY <2>2, ClaimGranted, Zenon
  <2> QED
    BY <1>0, <1>3, <2>1, <2>2, ReachesStore, Zenon
<1>4. CASE (AdminNext \/ clock_tick) /\ UNCHANGED coord_vars
  <2>1. conn' = conn /\ Within(mem, mem')
    BY <1>0, <1>4, KeysOnly DEF coord_vars, Grows
  <2>2. call' = call
    BY <1>4, Zenon DEF AdminNext, create_preauth_key, persist, dump_json, load_json, clock_tick
  <2> QED
    BY <1>1, <2>1, <2>2, Zenon
<1>5. ~coord_restart
  BY SMTT(20) DEF coord_restart, Closed
<1>6. CASE UNCHANGED vars
  BY <1>1, <1>6, WithinOrder, Zenon DEF vars, store_vars, coord_vars
<1> QED
  BY <1>1, <1>2, <1>3, <1>4, <1>5, <1>6, Zenon DEF Next

\* A fresh server has no nodes and no connection that registers one.
LEMMA GroupInit ==
    ASSUME Init
    PROVE  GroupIInv
<1>1. ChainOK
  BY ChainInit DEF Init
<1>2. mem.nodes = <<>> /\ conn = [c \in Threads |-> Closed]
  BY FreshNodes, Zenon DEF Init
<1>3. NodesClaimed
  BY ONLY <1>2 DEF NodesClaimed
<1>4. ClaimHeld
  <2>1. Closed.pc # "register_store"
    BY ONLY DEF Closed
  <2> QED
    BY ONLY <1>2, <2>1 DEF ClaimHeld
<1> QED
  BY ONLY <1>1, <1>3, <1>4, Zenon DEF GroupIInv

\* Every node was let in by a key that was created and accepted, and is in that
\* key's group, whichever requests of the same machine overlap and whatever
\* crashes and saves fail, as long as the embedder imports no snapshot.
THEOREM NodesAreClaimed ==
    ASSUME ~CanImport
    PROVE  Spec => []NodesClaimed
<1>1. Init => GroupIInv
  BY GroupInit
<1>2. CoordIInv /\ CoordIInv' /\ GroupIInv /\ [Next]_vars => GroupIInv'
  <2> SUFFICES ASSUME CoordIInv, CoordIInv', GroupIInv, [Next]_vars PROVE GroupIInv'
    OBVIOUS
  <2>1. ChainOK'
    BY CoordChain DEF CoordIInv, GroupIInv
  <2> QED
    BY <2>1, NodesClaimedStep, ClaimHeldStep DEF GroupIInv
<1>3. GroupIInv => NodesClaimed
  BY DEF GroupIInv
<1> QED
  BY <1>1, <1>2, <1>3, CoordinatorInductive, PTL DEF Spec

-----------------------------------------------------------------------------
\* Where saves succeed, a thread that serves a registered machine goes on
\* serving it until the client is gone.
LEMMA ServesOn ==
    ASSUME StoreIInv, ThreadsOK, SavesSucceed, NEW c \in Threads, ClientNext(c) \/ ServeNext(c),
           conn[c].pc \notin {"closed", "bye_bump"}, ~bye_offline(c), known(mem, conn[c].machine)
    PROVE  /\ conn'[c].machine = conn[c].machine
           /\ conn'[c].pc \notin {"closed", "bye_bump"}
<1> DEFINE v == conn[c]
           P == conn'[c].machine = v.machine /\ conn'[c].pc \notin {"closed", "bye_bump"}
<1> SUFFICES P
  BY Zenon
<1>0. conn \in [Threads -> Conn] /\ v \in Conn
  BY DEF ThreadsOK
<1>a. /\ goto(c, "consume") => P
      /\ goto(c, "register_store") => P
      /\ goto(c, "register_bump") => P
      /\ goto(c, "map_bump") => P
      /\ goto(c, "map_online") => P
      /\ goto(c, "map_find") => P
      /\ goto(c, "bye_offline") => P
  BY <1>0 DEF goto, Conn
<1>b. finish(c) => P
  BY <1>0 DEF finish, polling, Closed
<1>c. advance(c) => P
  BY <1>0 DEF advance, polling, Closed, Conn
<1>d. UNCHANGED conn => P
  BY Zenon
<1>e. \A img : ~save_locked(img, FALSE)
  BY Zenon DEF save_locked, SavesSucceed
<1>1. CASE ClientNext(c)
  <2>1. ASSUME NEW m \in Machines, connect(c, m) PROVE FALSE
    BY <2>1 DEF connect, at
  <2>2. ASSUME NEW r \in Requests, request(c, r) PROVE P
    BY <1>0, <2>2 DEF request, Conn
  <2>3. ASSUME NEW i \in DOMAIN live[c], stream_close(c, i) PROVE P
    BY <1>d, <2>3 DEF stream_close
  <2> HIDE DEF P
  <2>4. disconnect(c) => P
    BY <1>a, Zenon DEF disconnect
  <2> QED
    BY <1>1, <2>1, <2>2, <2>3, <2>4, Zenon DEF ClientNext
<1>2. CASE map_find(c) \/ map_build(c) \/ tick(c)
  <2>1. map_find(c) /\ ~finish(c) => P
    BY <1>0 DEF map_find, Conn
  <2>2. map_build(c) => P
    BY <1>0 DEF map_build, Conn
  <2>3. tick(c) => P
    BY <1>0 DEF tick, Conn
  <2> QED
    BY <1>2, <1>b, <2>1, <2>2, <2>3, Zenon
<1>3. CASE tick_find(c) \/ tick_push(c)
  <2>1. ASSUME NEW j \in DOMAIN mem.nodes,
               conn' = [conn EXCEPT ![c].pc = "tick_push", ![c].self = mem.nodes[j]]
        PROVE  P
    BY <1>0, <2>1 DEF Conn
  <2> HIDE DEF P
  <2> QED
    BY <1>3, <1>c, <2>1, Zenon DEF tick_find, tick_push
<1> HIDE DEF P
<1>4. CASE register_find(c) \/ register_bump(c)
  BY <1>4, <1>a, <1>b, Zenon DEF register_find, register_bump
<1>5. CASE register_consume(c)
  <2>1. ~consume_claim(c, FALSE)
    BY <1>e, Zenon DEF consume_claim
  <2> QED
    BY <1>5, <1>a, <1>b, <1>d, <2>1, Zenon DEF register_consume
<1>6. CASE register_store(c)
  <2>1. PICK ok \in BOOLEAN :
            /\ \/ register_existing(v.machine, v.req.node_key, ok)
               \/ register_new(v.machine, v.req.node_key, call[c].claim, ok)
               \/ ~ok /\ register_full(v.machine)
            /\ ok => goto(c, "register_bump")
    BY <1>6, Zenon DEF register_store
  <2>2. ok
    BY <1>e, <2>1, Zenon DEF register_existing, register_new, register_full
  <2> QED
    BY <1>a, <2>1, <2>2, Zenon
<1>7. CASE map_update(c)
  <2>1. PICK ok \in BOOLEAN :
            /\ update_map_info(v.machine, v.req.node_key, v.req.endpoints, ok)
            /\ ok => goto(c, "map_bump")
    BY <1>7, Zenon DEF map_update
  <2>2. ok
    BY <1>e, <2>1, Zenon DEF update_map_info
  <2> QED
    BY <1>a, <2>1, <2>2, Zenon
<1>8. CASE map_bump(c) \/ map_online(c) \/ map_reply(c)
  BY <1>8, <1>a, <1>b, Zenon DEF map_bump, map_online, map_reply
<1>9. ~ByeNext(c)
  BY DEF ByeNext, bye_bump, at
<1> QED
  BY <1>1, <1>2, <1>3, <1>4, <1>5, <1>6, <1>7, <1>8, <1>9, Zenon
  DEF ServeNext, RegisterNext, MapNext, TickNext

\* A machine is shown as online because its own connection's thread said so,
\* and until that thread says it is gone.
LEMMA OnlineFrom ==
    ASSUME StoreIInv, ThreadsOK, ~CanImport, NEW c \in Threads, ClientNext(c) \/ ServeNext(c),
           NEW j \in DOMAIN mem'.nodes, mem'.nodes[j].online
    PROVE  \/ /\ map_update(c) \/ map_online(c)
              /\ mem'.nodes[j].machine_key = conn[c].machine
           \/ /\ j \in DOMAIN mem.nodes /\ mem.nodes[j].online
              /\ mem'.nodes[j].machine_key = mem.nodes[j].machine_key
              /\ bye_offline(c) => mem.nodes[j].machine_key # conn[c].machine
<1> DEFINE m == conn[c].machine
           Q == /\ j \in DOMAIN mem.nodes /\ mem.nodes[j].online
                /\ mem'.nodes[j].machine_key = mem.nodes[j].machine_key
<1>0. /\ ImageOK(mem) /\ LocalOK(conn[c], live[c]) /\ call[c] \in Call
      /\ mem.nodes \in Seq(NodeState)
  BY StoreIInvParts, VectorsTyped, Zenon DEF ThreadsOK, Image
<1>a. conn[c].pc # "closed" => m \in Machines
  BY <1>0, Zenon DEF LocalOK
<1>b. mem'.nodes = mem.nodes => Q
  OBVIOUS
<1>c. ASSUME Edits(m) PROVE Q \/ (j \in DOMAIN mem.nodes /\ mem'.nodes[j].machine_key = m
                                   /\ mem.nodes[j].machine_key = m)
  BY <1>c, Zenon DEF Edits, Kin
<1>1. CASE map_update(c)
  <2>1. conn[c].pc = "map_update"
    BY <1>1, Zenon DEF map_update, at
  <2>2. /\ conn[c].req.node_key \in NodeKeys \cup {Empty}
        /\ conn[c].req.endpoints \in Endpoints \cup {Empty}
    BY <1>0, <2>1, Zenon DEF LocalOK, MapPcs, MapRequest
  <2>3. PICK ok \in BOOLEAN : update_map_info(m, conn[c].req.node_key, conn[c].req.endpoints, ok)
    BY <1>1 DEF map_update
  <2>4. Edits(m)
    BY <1>0, <1>a, <2>1, <2>2, <2>3, InfoEdits, Zenon
  <2>5. ~bye_offline(c)
    BY <2>1, Zenon DEF bye_offline, at
  <2> QED
    BY <1>1, <1>c, <2>4, <2>5, Zenon
<1>2. CASE map_online(c)
  <2>1. conn[c].pc = "map_online" /\ set_online(m, TRUE)
    BY <1>2, Zenon DEF map_online, at
  <2>2. Edits(m)
    BY <1>0, <1>a, <2>1, OnlineEdits, Zenon
  <2>3. ~bye_offline(c)
    BY <2>1, Zenon DEF bye_offline, at
  <2> QED
    BY <1>2, <1>c, <2>2, <2>3, Zenon
<1>3. CASE bye_offline(c)
  <2>1. conn[c].pc = "bye_offline" /\ set_online(m, FALSE)
    BY <1>3, Zenon DEF bye_offline, at
  <2>2. /\ Edits(m)
        /\ \A i \in DOMAIN mem.nodes :
               mem.nodes[i].machine_key = m =>
                   mem'.nodes[i] = [mem.nodes[i] EXCEPT !.online = FALSE]
    BY <1>0, <1>a, <2>1, OnlineEdits, Zenon
  <2>3. ASSUME j \in DOMAIN mem.nodes, mem.nodes[j].machine_key = m PROVE FALSE
    <3>1. mem.nodes[j] \in NodeState
      BY <1>0, <2>3
    <3> QED
      BY <2>2, <2>3, <3>1, Zenon DEF NodeState
  <2> QED
    BY <1>c, <2>2, <2>3
<1>4. CASE register_store(c)
  <2>1. conn[c].pc = "register_store"
    BY <1>4, Zenon DEF register_store, at
  <2>2. conn[c].req.node_key \in NodeKeys /\ m \in Machines
    BY <1>0, <1>a, <2>1, Zenon DEF LocalOK, RegisterPcs, RegisterRequest
  <2>3. call[c].claim \in PreauthClaim
    BY <1>0, Zenon DEF Call
  <2> DEFINE nk == conn[c].req.node_key
             claim == call[c].claim
  <2>4. ~bye_offline(c)
    BY <2>1, Zenon DEF bye_offline, at
  <2>5. ASSUME NEW ok \in BOOLEAN, register_existing(m, nk, ok) PROVE Q
    <3>1. /\ Edits(m)
          /\ \A i \in DOMAIN mem.nodes : mem'.nodes[i].online = mem.nodes[i].online
      BY <1>0, <2>2, <2>5, ExistingEdits, Zenon
    <3> QED
      BY <3>1, Zenon DEF Edits, Kin
  <2>6. ASSUME NEW ok \in BOOLEAN, register_new(m, nk, claim, ok) PROVE Q
    <3> DEFINE n == new_node(m, nk, claim)
    <3>1. mem'.nodes = Append(mem.nodes, n)
      BY <1>0, <2>2, <2>3, <2>6, NewAdds, Zenon DEF Adds
    <3>2. n.online = FALSE
      BY Zenon DEF new_node
    <3> HIDE DEF n
    <3> QED
      BY <1>0, <3>1, <3>2
  <2>7. register_full(m) => Q
    BY <1>0, <1>b, <2>2, FullSame, Zenon
  <2> HIDE DEF Q
  <2>8. Q
    BY <1>4, <2>5, <2>6, <2>7, Zenon DEF register_store
  <2> QED
    BY <2>4, <2>8, Zenon DEF Q
<1>5. CASE register_consume(c)
  <2>1. ThreadNext(c) /\ ~bye_offline(c)
    BY <1>5, Zenon DEF register_consume, ThreadNext, bye_offline, at
  <2> QED
    BY <1>b, <2>1, KeysOnly, Zenon
<1>6. CASE ~(map_update(c) \/ map_online(c) \/ bye_offline(c) \/ register_store(c)
             \/ register_consume(c))
  <2>1. mem' = mem
    BY <1>6, Zenon
    DEF ClientNext, connect, request, stream_close, disconnect, store_vars,
        ServeNext, RegisterNext, register_find, register_bump, consume_preauth,
        MapNext, map_bump, map_find, map_build, map_reply,
        TickNext, tick, tick_find, tick_push, ByeNext, bye_bump
  <2> QED
    BY <1>6, <1>b, <2>1, Zenon
<1> QED
  BY <1>1, <1>2, <1>3, <1>4, <1>5, <1>6, Zenon

\* The step of OnlineServed.
LEMMA OnlineStep ==
    ASSUME CoordIInv, OnlineServed, ~CanImport, ~MayCrash, SavesSucceed, [Next]_vars
    PROVE  OnlineServed'
<1>0. StoreIInv /\ ThreadsOK
  BY DEF CoordIInv
<1>1. ASSUME mem'.nodes = mem.nodes, conn' = conn PROVE OnlineServed'
  BY <1>1 DEF OnlineServed
<1>2. ASSUME NEW c \in Threads, ClientNext(c) \/ ServeNext(c) PROVE OnlineServed'
  <2> SUFFICES ASSUME NEW j \in DOMAIN mem'.nodes, mem'.nodes[j].online
               PROVE  \E d \in Threads : /\ conn'[d].machine = mem'.nodes[j].machine_key
                                         /\ conn'[d].pc \notin {"closed", "bye_bump"}
    BY SMTT(20) DEF OnlineServed
  <2>1. CASE /\ map_update(c) \/ map_online(c)
             /\ mem'.nodes[j].machine_key = conn[c].machine
    <3>1. conn[c].pc \in {"map_update", "map_online"}
      BY <2>1, Zenon DEF map_update, map_online, at
    <3>2. ~bye_offline(c)
      BY <3>1, Zenon DEF bye_offline, at
    <3>3. CASE known(mem, conn[c].machine)
      BY <1>0, <1>2, <2>1, <3>1, <3>2, <3>3, ServesOn, Zenon
    <3>4. CASE ~known(mem, conn[c].machine)
      <4>1. mem' = mem
        BY <2>1, <3>4, Zenon DEF map_update, map_online, update_map_info, set_online, store_vars,
                          first_node, known
      <4> QED
        BY <2>1, <3>4, <4>1 DEF known
    <3> QED
      BY <3>3, <3>4
  <2>2. CASE /\ j \in DOMAIN mem.nodes /\ mem.nodes[j].online
             /\ mem'.nodes[j].machine_key = mem.nodes[j].machine_key
             /\ bye_offline(c) => mem.nodes[j].machine_key # conn[c].machine
    <3>1. PICK d \in Threads : /\ conn[d].machine = mem.nodes[j].machine_key
                               /\ conn[d].pc \notin {"closed", "bye_bump"}
      BY <2>2, SMTT(20) DEF OnlineServed
    <3>2. known(mem, conn[d].machine)
      BY <2>2, <3>1 DEF known
    <3>3. CASE d = c
      BY <1>0, <1>2, <2>2, <3>1, <3>2, <3>3, ServesOn, Zenon
    <3>4. CASE d # c
      BY <1>0, <1>2, <2>2, <3>1, <3>4, OthersKeep, Zenon
    <3> QED
      BY <3>3, <3>4, SMTT(20)
  <2> QED
    BY <1>0, <1>2, <2>1, <2>2, OnlineFrom, Zenon
<1>3. CASE (AdminNext \/ clock_tick) /\ UNCHANGED coord_vars
  BY <1>0, <1>1, <1>3, KeysOnly, Zenon DEF coord_vars
<1>4. ~coord_restart
  BY DEF coord_restart, restart
<1>5. CASE UNCHANGED vars
  BY <1>1, <1>5 DEF vars, store_vars, coord_vars
<1> QED
  BY <1>2, <1>3, <1>4, <1>5 DEF Next

\* A node is shown as online only while a connection of its machine is being
\* served, whatever other connections of the machine begin and end meanwhile:
\* for a server that does not die, whose saves succeed and whose embedder
\* imports no snapshot.
THEOREM OnlineIsServed ==
    ASSUME ~CanImport, ~MayCrash, SavesSucceed
    PROVE  Spec => []OnlineServed
<1>1. Init => OnlineServed
  <2>1. Init => mem.nodes = <<>>
    BY FreshNodes, Zenon DEF Init
  <2> QED
    BY <2>1 DEF OnlineServed
<1> QED
  BY <1>1, OnlineStep, CoordinatorInductive, PTL DEF Spec
=============================================================================
