----------------------------- MODULE MapProofs ------------------------------
(***************************************************************************)
(* Proofs about the maps that Coordinator sends: no map crosses groups, and*)
(* a stream that carries the current generation carries the current peers, *)
(* for any number of connections, machines and nodes.                      *)
(***************************************************************************)
EXTENDS CoordinatorProofs

\* A thread's copy of its machine's node is kin to an entry of the store.
SelfOK ==
    \A c \in Threads :
        conn[c].pc \in {"map_build", "tick_push"} =>
            /\ conn[c].self.machine_key = conn[c].machine
            /\ \E i \in DOMAIN mem.nodes : Kin(conn[c].self, mem.nodes[i])

\* A map keeps the groups apart, and its machines are still registered.
MapOK(map, m) ==
    /\ known(mem, m)
    /\ \A p \in map.peers : known(mem, p.machine) /\ may_meet(m, p.machine)
    /\ map.filter = {map.node.addr} \cup {p.addr : p \in map.peers}

\* Every map that was sent or is about to be.
MapsOK ==
    \A c \in Threads :
        /\ \A i \in DOMAIN live[c] : MapOK(live[c][i].sent, conn[c].machine)
        /\ conn[c].pc = "map_reply" => MapOK(conn[c].map, conn[c].machine)

IsolationIInv == SelfOK /\ MapsOK

\* Generations are never ahead of map_gen_, and a refreshed stream's machine
\* is registered.
GensOK ==
    \A c \in Threads :
        /\ conn[c].pc \in {"tick", "tick_push"} => conn[c].gen <= map_gen
        /\ \A i \in DOMAIN live[c] :
               /\ live[c][i].last_gen <= map_gen
               /\ live[c][i].refreshed => known(mem, conn[c].machine)

FreshIInv == SelfOK /\ GensOK /\ RefreshedFresh

-----------------------------------------------------------------------------
\* How a thread gets to the points where it holds a copy of its node, a map or
\* a generation.
LEMMA Arrives ==
    ASSUME StoreIInv, ThreadsOK, NEW c \in Threads, ClientNext(c) \/ ServeNext(c),
           conn'[c].pc \in {"map_build", "map_reply", "tick", "tick_push"}
    PROVE  /\ conn'[c].machine = conn[c].machine
           /\ \/ /\ map_find(c) /\ conn'[c].pc = "map_build"
                 /\ \E i \in DOMAIN mem.nodes :
                        first_node(mem.nodes, conn[c].machine, i) /\ conn'[c].self = mem.nodes[i]
              \/ /\ map_build(c) /\ conn'[c].pc = "map_reply"
                 /\ conn'[c].map = build_full_map(conn[c].self, mem.nodes)
              \/ tick(c) /\ conn'[c].pc = "tick" /\ conn'[c].gen = map_gen
              \/ /\ tick_find(c) \/ tick_push(c)
                 /\ conn'[c].pc = "tick" /\ conn'[c].gen = conn[c].gen
              \/ /\ tick_find(c) /\ conn'[c].pc = "tick_push" /\ conn'[c].gen = conn[c].gen
                 /\ \E i \in DOMAIN mem.nodes :
                        first_node(mem.nodes, conn[c].machine, i) /\ conn'[c].self = mem.nodes[i]
<1> DEFINE v == conn[c]
<1>0. conn \in [Threads -> Conn] /\ v \in Conn /\ live \in [Threads -> Seq(LiveEntry)]
  BY DEF ThreadsOK
<1>a. /\ ~goto(c, "consume") /\ ~goto(c, "register_store") /\ ~goto(c, "register_bump")
      /\ ~goto(c, "map_bump") /\ ~goto(c, "map_online") /\ ~goto(c, "map_find")
      /\ ~goto(c, "bye_offline") /\ ~goto(c, "bye_bump")
  BY <1>0 DEF goto, Conn
<1>b. ~finish(c) /\ ~unwind(c)
  <2>1. ~finish(c)
    BY <1>0, Zenon DEF finish, polling, Closed
  <2>2. ~unwind(c)
    BY <1>0 DEF unwind, Closed
  <2> QED
    BY <2>1, <2>2
<1>1. ~ClientNext(c)
  <2>1. ASSUME NEW m \in Machines, connect(c, m) PROVE FALSE
    BY <1>0, <2>1 DEF connect, Closed
  <2>2. ASSUME NEW r \in Requests, request(c, r) PROVE FALSE
    BY <1>0, <2>2 DEF request, Conn
  <2>3. ASSUME NEW i \in DOMAIN live[c], stream_close(c, i) PROVE FALSE
    BY <2>3 DEF stream_close, at
  <2>4. ~disconnect(c)
    BY <1>a DEF disconnect
  <2> QED
    BY <2>1, <2>2, <2>3, <2>4 DEF ClientNext
<1>2. ~RegisterNext(c)
  <2>1. ~register_find(c) /\ ~register_store(c) /\ ~register_bump(c)
    BY <1>a, <1>b DEF register_find, register_store, register_bump
  <2>2. ~register_consume(c)
    BY <1>a, <1>b, Zenon DEF register_consume, at
  <2> QED
    BY <2>1, <2>2 DEF RegisterNext
<1>3. ~map_update(c) /\ ~map_bump(c) /\ ~map_online(c) /\ ~map_reply(c)
  BY <1>a, <1>b, Zenon DEF map_update, map_bump, map_online, map_reply
<1>4. CASE map_find(c)
  <2>1. PICK i \in DOMAIN mem.nodes :
            /\ first_node(mem.nodes, v.machine, i)
            /\ conn' = [conn EXCEPT ![c].pc = "map_build", ![c].self = mem.nodes[i]]
    BY <1>4, <1>b DEF map_find
  <2>2. /\ conn'[c].machine = v.machine /\ conn'[c].pc = "map_build"
        /\ conn'[c].self = mem.nodes[i]
    BY <1>0, <2>1 DEF Conn
  <2> QED
    BY <1>4, <2>1, <2>2, Zenon
<1>5. CASE map_build(c)
  BY <1>0, <1>5 DEF map_build, Conn
<1>6. CASE tick(c)
  BY <1>0, <1>6 DEF tick, Conn
<1>7. advance(c) => /\ conn'[c].machine = v.machine /\ conn'[c].pc = "tick"
                    /\ conn'[c].gen = v.gen
  BY <1>0, SMTT(20) DEF advance, polling, Closed, Conn
<1>8. CASE tick_find(c)
  <2>1. ASSUME NEW j \in DOMAIN mem.nodes, first_node(mem.nodes, v.machine, j),
               conn' = [conn EXCEPT ![c].pc = "tick_push", ![c].self = mem.nodes[j]]
        PROVE  /\ conn'[c].machine = v.machine /\ conn'[c].pc = "tick_push"
               /\ conn'[c].gen = v.gen /\ conn'[c].self = mem.nodes[j]
    BY <1>0, <2>1 DEF Conn
  <2> QED
    BY <1>7, <1>8, <2>1, Zenon DEF tick_find
<1>9. CASE tick_push(c)
  BY <1>7, <1>9, Zenon DEF tick_push
<1>10. ~ByeNext(c)
  <2>1. ~bye_bump(c)
    BY <1>0 DEF bye_bump, Closed
  <2> QED
    BY <1>a, <2>1, Zenon DEF ByeNext, bye_offline
<1> QED
  BY <1>1, <1>2, <1>3, <1>4, <1>5, <1>6, <1>8, <1>9, <1>10, SMTT(20) DEF ServeNext, MapNext, TickNext

\* The entry of live that a tick is at, after the tick has served it.
Pushed(e, gen, map) ==
    [e EXCEPT !.last_gen = gen, !.refreshed = TRUE, !.sent = IF e.open THEN map ELSE @]

\* Where the entries of live come from.
LEMMA LiveFrom ==
    ASSUME StoreIInv, ThreadsOK, NEW c \in Threads, ClientNext(c) \/ ServeNext(c),
           NEW i \in DOMAIN live'[c]
    PROVE  /\ conn'[c].machine = conn[c].machine
           /\ \/ i \in DOMAIN live[c] /\ live'[c][i] = live[c][i]
              \/ /\ map_reply(c) /\ i \notin DOMAIN live[c]
                 /\ live'[c][i] = LiveMap(conn[c].map, map_gen)
              \/ /\ i \in DOMAIN live[c] /\ stream_close(c, i)
                 /\ live'[c][i] = [live[c][i] EXCEPT !.open = FALSE]
              \/ /\ tick_find(c) /\ i \in DOMAIN live[c] /\ i = conn[c].idx
                 /\ ~known(mem, conn[c].machine)
                 /\ live'[c][i] = [live[c][i] EXCEPT !.last_gen = conn[c].gen]
              \/ /\ tick_push(c) /\ i \in DOMAIN live[c] /\ i = conn[c].idx
                 /\ live'[c][i] = Pushed(live[c][i], conn[c].gen,
                                         build_full_map(conn[c].self, mem.nodes))
<1> DEFINE v == conn[c]
           lv == live[c]
           same == conn'[c].machine = v.machine
<1>0. /\ conn \in [Threads -> Conn] /\ v \in Conn /\ live \in [Threads -> Seq(LiveEntry)]
      /\ lv \in Seq(LiveEntry) /\ LocalOK(v, lv)
  BY DEF ThreadsOK
<1>a. ASSUME NEW pc, goto(c, pc) PROVE same
  BY <1>0, <1>a DEF goto, Conn
<1>b. finish(c) => same
  BY <1>0 DEF finish, polling, Closed
<1>c. ~unwind(c)
  BY <1>0 DEF unwind
<1>d. advance(c) => same
  BY <1>0 DEF advance, polling, Closed, Conn
<1>e. UNCHANGED conn => same
  OBVIOUS
<1>1. CASE ClientNext(c)
  <2>1. ASSUME NEW m \in Machines, connect(c, m) PROVE FALSE
    <3>1. v.pc = "closed" /\ live' = live
      BY <2>1 DEF connect, at
    <3> QED
      BY <1>0, <3>1 DEF LocalOK
  <2>2. ASSUME NEW r \in Requests, request(c, r) PROVE same /\ live' = live
    BY <1>0, <2>2 DEF request, Conn
  <2>3. ASSUME NEW j \in DOMAIN live[c], stream_close(c, j)
        PROVE  /\ same /\ i \in DOMAIN lv
               /\ live'[c][i] = lv[i] \/ (i = j /\ live'[c][i] = [lv[i] EXCEPT !.open = FALSE])
    BY <1>0, <1>e, <2>3, Zenon DEF stream_close
  <2>4. ~disconnect(c)
    BY <1>0 DEF disconnect
  <2> QED
    BY <1>1, <2>1, <2>2, <2>3, <2>4, Zenon DEF ClientNext
<1>2. CASE RegisterNext(c)
  <2>1. live' = live
    BY <1>2, <1>c, Zenon DEF RegisterNext, register_find, register_consume, register_store, register_bump
  <2>2. same
    <3>1. /\ goto(c, "register_store") => same
          /\ goto(c, "consume") => same
          /\ goto(c, "register_bump") => same
      BY <1>a
    <3> HIDE DEF same
    <3> QED
      BY <1>2, <1>b, <1>c, <1>e, <3>1, Zenon
      DEF RegisterNext, register_find, register_consume, register_store, register_bump
  <2> QED
    BY <2>1, <2>2
<1>3. CASE map_update(c) \/ map_bump(c) \/ map_online(c)
  <2>1. live' = live
    BY <1>3, <1>c, Zenon DEF map_update, map_bump, map_online
  <2>2. same
    <3>1. /\ goto(c, "map_bump") => same
          /\ goto(c, "map_online") => same
          /\ goto(c, "map_find") => same
      BY <1>a
    <3> HIDE DEF same
    <3> QED
      BY <1>3, <1>b, <1>c, <3>1, Zenon DEF map_update, map_bump, map_online
  <2> QED
    BY <2>1, <2>2
<1>4. CASE map_find(c) \/ map_build(c)
  BY <1>0, <1>4, <1>b DEF map_find, map_build, Conn
<1>5. CASE map_reply(c)
  <2> DEFINE e == LiveMap(v.map, map_gen)
  <2>1. live'[c] = lv \/ live'[c] = Append(lv, e)
    BY <1>0, <1>5 DEF map_reply
  <2> HIDE DEF e
  <2>2. (i \in DOMAIN lv /\ live'[c][i] = lv[i]) \/ (i \notin DOMAIN lv /\ live'[c][i] = e)
    <3>1. i \in DOMAIN live'[c]
      BY Zenon
    <3>2. lv \in Seq(LiveEntry)
      BY <1>0, Zenon
    <3> HIDE DEF lv
    <3> QED
      BY ONLY <2>1, <3>1, <3>2
  <2>3. same
    BY <1>5, <1>b DEF map_reply
  <2> QED
    BY <1>5, <2>2, <2>3 DEF e
<1>6. CASE tick(c)
  BY <1>0, <1>6 DEF tick, Conn
<1>7. CASE tick_find(c)
  <2>1. CASE advance(c) /\ UNCHANGED live
    BY <1>d, <2>1
  <2>2. CASE /\ ~known(mem, v.machine) /\ advance(c)
             /\ live' = [live EXCEPT ![c][v.idx].last_gen = v.gen]
    BY <1>0, <1>7, <1>d, <2>2, Zenon
  <2>3. ASSUME NEW j \in DOMAIN mem.nodes, UNCHANGED live,
               conn' = [conn EXCEPT ![c].pc = "tick_push", ![c].self = mem.nodes[j]]
        PROVE  same
    BY <1>0, <2>3 DEF Conn
  <2> QED
    BY <1>7, <2>1, <2>2, <2>3, Zenon DEF tick_find
<1>8. CASE tick_push(c)
  <2> DEFINE map == build_full_map(v.self, mem.nodes)
  <2>1. v.pc = "tick_push" /\ advance(c)
    BY <1>8, Zenon DEF tick_push, at
  <2>2. v.idx \in DOMAIN lv
    BY <1>0, <2>1 DEF LocalOK
  <2>3. live' = [live EXCEPT ![c] = [lv EXCEPT ![v.idx] = Pushed(lv[v.idx], v.gen, map)]]
    BY <1>0, <1>8, <2>2, Zenon DEF tick_push, Pushed
  <2> HIDE DEF map
  <2>4. i \in DOMAIN lv /\ live'[c][i] = IF i = v.idx THEN Pushed(lv[i], v.gen, map) ELSE lv[i]
    BY <1>0, <2>2, <2>3
  <2> QED
    BY <1>8, <1>d, <2>1, <2>4 DEF map
<1>9. CASE ByeNext(c)
  <2>1. v.pc \in {"bye_offline", "bye_bump"} /\ live' = live
    BY <1>9, Zenon DEF ByeNext, bye_offline, bye_bump, at
  <2> QED
    BY <1>0, <2>1 DEF LocalOK
<1> QED
  BY <1>1, <1>2, <1>3, <1>4, <1>5, <1>6, <1>7, <1>8, <1>9, Zenon DEF ServeNext, MapNext, TickNext

-----------------------------------------------------------------------------
\* The step of the copies: a copy stays kin to its machine's entry.
LEMMA SelfStep ==
    ASSUME CoordIInv, SelfOK, ~CanImport, [Next]_vars
    PROVE  SelfOK'
<1>0. StoreIInv /\ ThreadsOK
  BY DEF CoordIInv
<1> SUFFICES ASSUME NEW d \in Threads, conn'[d].pc \in {"map_build", "tick_push"}
             PROVE  /\ conn'[d].self.machine_key = conn'[d].machine
                    /\ \E i \in DOMAIN mem'.nodes : Kin(conn'[d].self, mem'.nodes[i])
  BY DEF SelfOK
<1>1. ASSUME conn'[d] = conn[d], Within(mem, mem')
      PROVE  /\ conn'[d].self.machine_key = conn'[d].machine
             /\ \E i \in DOMAIN mem'.nodes : Kin(conn'[d].self, mem'.nodes[i])
  BY <1>1 DEF SelfOK, Within, Kin
<1>2. ASSUME NEW c \in Threads, ClientNext(c) \/ ServeNext(c), c # d
      PROVE  conn'[d] = conn[d] /\ Within(mem, mem')
  BY <1>0, <1>2, OthersKeep, ServeGrows, SMTT(20) DEF Grows
<1>3. CASE ClientNext(d) \/ ServeNext(d)
  <2>1. /\ conn'[d].machine = conn[d].machine
        /\ map_find(d) \/ tick_find(d)
        /\ \E i \in DOMAIN mem.nodes :
               first_node(mem.nodes, conn[d].machine, i) /\ conn'[d].self = mem.nodes[i]
    BY <1>0, <1>3, Arrives, SMTT(20)
  <2>2. mem' = mem
    BY <2>1 DEF map_find, tick_find, store_vars
  <2> QED
    BY <2>1, <2>2 DEF first_node, Kin
<1>4. CASE (AdminNext \/ clock_tick) /\ UNCHANGED coord_vars
  BY <1>0, <1>1, <1>4, KeysOnly DEF coord_vars, Grows
<1>5. ~coord_restart
  BY DEF coord_restart, Closed
<1>6. CASE UNCHANGED vars
  BY <1>1, <1>6, WithinOrder DEF vars, store_vars, coord_vars
<1> QED
  BY <1>1, <1>2, <1>3, <1>4, <1>5, <1>6 DEF Next

\* A map that is built now keeps the groups apart (build_full_map).
LEMMA BuildOK ==
    ASSUME ImageOK(mem), NodesClaimed, NEW self \in NodeState,
           NEW i \in DOMAIN mem.nodes, Kin(self, mem.nodes[i])
    PROVE  MapOK(build_full_map(self, mem.nodes), self.machine_key)
<1> DEFINE all == mem.nodes
           seen == {all[j] : j \in {k \in DOMAIN all : node_visible_to(self, all[k])}}
           peers == {node_to_tailcfg(n, FALSE) : n \in {x \in seen : x.id # self.id}}
           filter == {n.ip : n \in seen}
           map == build_full_map(self, all)
<1>0. /\ all \in Seq(NodeState)
      /\ \A j, k \in DOMAIN all : j # k => all[j].id # all[k].id
      /\ \A j \in DOMAIN all : joined[all[j].machine_key] =
                                   [token |-> all[j].token, shared |-> all[j].shared]
  BY Zenon DEF ImageOK, Image, NodesClaimed
<1>1. map = [node |-> node_to_tailcfg(self, TRUE), peers |-> peers, filter |-> filter]
  BY DEF build_full_map
<1>2. known(mem, self.machine_key)
  BY DEF known, Kin
<1>3. ASSUME NEW p \in peers PROVE known(mem, p.machine) /\ may_meet(self.machine_key, p.machine)
  <2>1. PICK n \in seen : n.id # self.id /\ p = node_to_tailcfg(n, FALSE)
    BY Zenon
  <2>2. PICK j \in DOMAIN all : n = all[j] /\ node_visible_to(self, all[j])
    OBVIOUS
  <2>3. p.machine = all[j].machine_key
    BY <2>1, <2>2 DEF node_to_tailcfg
  <2>4. self.shared \/ all[j].shared \/ self.token = all[j].token
    BY <2>1, <2>2 DEF node_visible_to
  <2>5. /\ joined[self.machine_key] = [token |-> self.token, shared |-> self.shared]
        /\ joined[all[j].machine_key] = [token |-> all[j].token, shared |-> all[j].shared]
    BY <1>0, Zenon DEF Kin
  <2> QED
    BY <2>3, <2>4, <2>5 DEF known, may_meet
<1>4. filter = {self.ip} \cup {p.addr : p \in peers}
  <2>1. \A n \in seen : n.id = self.id => n.ip = self.ip
    BY <1>0 DEF Kin
  <2>2. all[i] \in seen /\ all[i].ip = self.ip
    BY DEF node_visible_to, Kin
  <2>3. \A n : node_to_tailcfg(n, FALSE).addr = n.ip
    BY DEF node_to_tailcfg
  <2> HIDE DEF seen
  <2>4. ASSUME NEW a \in filter PROVE a \in {self.ip} \cup {p.addr : p \in peers}
    <3>1. PICK n \in seen : a = n.ip
      OBVIOUS
    <3>2. CASE n.id = self.id
      BY <2>1, <3>1, <3>2, Zenon
    <3>3. CASE n.id # self.id
      <4>1. node_to_tailcfg(n, FALSE) \in peers
        BY <3>1, <3>3, Zenon
      <4> HIDE DEF peers
      <4> QED
        BY <2>3, <3>1, <4>1, Zenon
    <3> QED
      BY <3>2, <3>3, Zenon
  <2>5. ASSUME NEW a \in {self.ip} \cup {p.addr : p \in peers} PROVE a \in filter
    <3>1. CASE a = self.ip
      BY <2>2, <3>1
    <3>2. ASSUME NEW p \in peers, a = p.addr PROVE a \in filter
      <4>1. PICK n \in seen : p = node_to_tailcfg(n, FALSE)
        BY <3>2, Zenon
      <4>2. a = n.ip
        BY <2>3, <3>2, <4>1, Zenon
      <4> QED
        BY <4>2
    <3> QED
      BY <3>1, <3>2, Zenon
  <2> QED
    BY <2>4, <2>5, Zenon
<1>5. map.peers = peers /\ map.filter = filter /\ map.node.addr = self.ip
  <2>1. node_to_tailcfg(self, TRUE).addr = self.ip
    BY DEF node_to_tailcfg
  <2> HIDE DEF peers, filter, map
  <2> QED
    BY <1>1, <2>1, Zenon
<1> HIDE DEF peers, filter, map
<1>6. MapOK(map, self.machine_key)
  BY <1>2, <1>3, <1>4, <1>5, SMTT(20) DEF MapOK
<1> QED
  BY <1>6 DEF map

\* The registrations of known machines are final, so a map stays good.
LEMMA MapStays ==
    ASSUME StoreIInv, ThreadsOK, Within(mem, mem'),
           joined' = joined \/ \E c \in Threads : Joins(c),
           NEW map, NEW m, MapOK(map, m)
    PROVE  /\ known(mem', m)
           /\ \A p \in map.peers :
                  /\ known(mem', p.machine)
                  /\ \/ joined'[m].shared \/ joined'[p.machine].shared
                     \/ joined'[m].token = joined'[p.machine].token
           /\ map.filter = {map.node.addr} \cup {p.addr : p \in map.peers}
<1>1. ASSUME NEW x, known(mem, x) PROVE known(mem', x) /\ joined'[x] = joined[x]
  <2>1. known(mem', x)
    BY <1>1, KnownStays
  <2>2. x \in Machines
    <3>1. mem.nodes \in Seq(NodeState)
      BY VectorsTyped DEF Image
    <3>2. PICK i \in DOMAIN mem.nodes : mem.nodes[i].machine_key = x
      BY <1>1 DEF known
    <3>3. mem.nodes[i] \in NodeState
      BY <3>1
    <3> QED
      BY <3>2, <3>3 DEF NodeState
  <2>3. ASSUME NEW c \in Threads, Joins(c) PROVE joined'[x] = joined[x]
    <3>1. conn[c].machine # x
      BY <1>1, <2>3, Zenon DEF Joins, Adds, new_node
    <3> QED
      BY <2>2, <2>3, <3>1 DEF Joins, ThreadsOK
  <2> QED
    BY <2>1, <2>3
<1> QED
  BY <1>1 DEF MapOK, may_meet

\* The step of the maps: a map is built from the nodes of its time, and is sent
\* to the machine it was built for.
LEMMA MapsStep ==
    ASSUME CoordIInv, CoordIInv', GroupIInv, IsolationIInv, ~CanImport, [Next]_vars
    PROVE  MapsOK'
<1>0. /\ StoreIInv /\ ThreadsOK /\ ImageOK(mem) /\ ChainOK /\ NodesClaimed
      /\ SelfOK /\ MapsOK
  BY StoreIInvParts DEF CoordIInv, GroupIInv, IsolationIInv
<1> DEFINE Good(map, m) ==
               /\ known(mem', m)
               /\ \A p \in map.peers :
                      /\ known(mem', p.machine)
                      /\ \/ joined'[m].shared \/ joined'[p.machine].shared
                         \/ joined'[m].token = joined'[p.machine].token
               /\ map.filter = {map.node.addr} \cup {p.addr : p \in map.peers}
<1>1. CASE coord_restart
  BY <1>1, SMTT(20) DEF coord_restart, MapsOK, Closed
<1>2. ASSUME ~coord_restart PROVE Within(mem, mem')
  <2>1. CASE UNCHANGED vars
    BY <2>1, WithinOrder DEF vars, store_vars
  <2> QED
    BY <1>0, <1>2, <2>1, ServeGrows, KeysOnly DEF Next, Grows
<1>3. ASSUME ~coord_restart, NEW map, NEW m, MapOK(map, m) PROVE Good(map, m)
  <2>1. joined' = joined \/ \E c \in Threads : Joins(c)
    BY <1>0, JoinsOrNot
  <2> QED
    BY <1>0, <1>2, <1>3, <2>1, MapStays
<1>4. ASSUME NEW c \in Threads, conn[c].pc \in {"map_build", "tick_push"}
      PROVE  MapOK(build_full_map(conn[c].self, mem.nodes), conn[c].machine)
  <2>1. conn[c].self \in NodeState
    BY <1>0, <1>4 DEF ThreadsOK, LocalOK
  <2>2. /\ conn[c].self.machine_key = conn[c].machine
        /\ \E i \in DOMAIN mem.nodes : Kin(conn[c].self, mem.nodes[i])
    BY <1>0, <1>4 DEF SelfOK
  <2> QED
    BY <1>0, <2>1, <2>2, BuildOK
<1>5. ASSUME ~coord_restart, NEW c \in Threads, conn'[c] = conn[c], live'[c] = live[c]
      PROVE  /\ \A i \in DOMAIN live'[c] : Good(live'[c][i].sent, conn'[c].machine)
             /\ conn'[c].pc = "map_reply" => Good(conn'[c].map, conn'[c].machine)
  <2>1. /\ \A i \in DOMAIN live[c] : MapOK(live[c][i].sent, conn[c].machine)
        /\ conn[c].pc = "map_reply" => MapOK(conn[c].map, conn[c].machine)
    BY <1>0 DEF MapsOK
  <2> HIDE DEF Good
  <2> QED
    BY <1>3, <1>5, <2>1
<1>6. ASSUME ~coord_restart, NEW c \in Threads, ClientNext(c) \/ ServeNext(c)
      PROVE  /\ \A i \in DOMAIN live'[c] : Good(live'[c][i].sent, conn'[c].machine)
             /\ conn'[c].pc = "map_reply" => Good(conn'[c].map, conn'[c].machine)
  <2> HIDE DEF Good
  <2>1. ASSUME NEW i \in DOMAIN live'[c] PROVE Good(live'[c][i].sent, conn'[c].machine)
    <3>0. /\ live[c] \in Seq(LiveEntry) /\ LocalOK(conn[c], live[c])
          /\ \A j \in DOMAIN live[c] : MapOK(live[c][j].sent, conn[c].machine)
      BY <1>0 DEF ThreadsOK, MapsOK
    <3>1. conn'[c].machine = conn[c].machine
      BY <1>0, <1>6, LiveFrom, Zenon
    <3>2. MapOK(live'[c][i].sent, conn[c].machine)
      <4>1. CASE i \in DOMAIN live[c] /\ live'[c][i] = live[c][i]
        BY <3>0, <4>1
      <4>2. CASE map_reply(c) /\ live'[c][i] = LiveMap(conn[c].map, map_gen)
        <5>1. conn[c].pc = "map_reply" /\ live'[c][i].sent = conn[c].map
          BY <4>2 DEF map_reply, at, LiveMap
        <5> QED
          BY <1>0, <5>1, SMTT(20) DEF MapsOK
      <4>3. CASE /\ i \in DOMAIN live[c]
                 /\ \/ live'[c][i] = [live[c][i] EXCEPT !.open = FALSE]
                    \/ live'[c][i] = [live[c][i] EXCEPT !.last_gen = conn[c].gen]
        <5>1. live[c][i] \in LiveEntry
          BY <3>0, <4>3
        <5>2. live'[c][i].sent = live[c][i].sent
          BY <4>3, <5>1, SMTT(20) DEF LiveEntry
        <5> QED
          BY <3>0, <4>3, <5>2
      <4>4. CASE /\ tick_push(c) /\ i \in DOMAIN live[c]
                 /\ live'[c][i] = Pushed(live[c][i], conn[c].gen,
                                         build_full_map(conn[c].self, mem.nodes))
        <5> DEFINE map == build_full_map(conn[c].self, mem.nodes)
        <5>1. live[c][i] \in LiveEntry
          BY <3>0, <4>4
        <5> HIDE DEF map
        <5>2. live'[c][i].sent = IF live[c][i].open THEN map ELSE live[c][i].sent
          BY <4>4, <5>1 DEF LiveEntry, Pushed, map
        <5>3. conn[c].pc = "tick_push"
          BY <4>4, Zenon DEF tick_push, at
        <5> QED
          BY <1>4, <3>0, <4>4, <5>2, <5>3, SMTT(20) DEF map
      <4> QED
        BY <1>0, <1>6, <4>1, <4>2, <4>3, <4>4, LiveFrom, SMTT(20)
    <3> QED
      BY <1>3, <1>6, <3>1, <3>2, SMTT(20)
  <2>2. ASSUME conn'[c].pc = "map_reply" PROVE Good(conn'[c].map, conn'[c].machine)
    <3>1. /\ map_build(c) /\ conn'[c].machine = conn[c].machine
          /\ conn'[c].map = build_full_map(conn[c].self, mem.nodes)
      BY <1>0, <1>6, <2>2, Arrives, Zenon
    <3>2. conn[c].pc = "map_build"
      BY <3>1 DEF map_build, at
    <3> QED
      BY <1>3, <1>4, <1>6, <3>1, <3>2
  <2> QED
    BY <2>1, <2>2
<1>7. ASSUME ~coord_restart, NEW d \in Threads
      PROVE  /\ \A i \in DOMAIN live'[d] : Good(live'[d][i].sent, conn'[d].machine)
             /\ conn'[d].pc = "map_reply" => Good(conn'[d].map, conn'[d].machine)
  <2> HIDE DEF Good
  <2>1. CASE ClientNext(d) \/ ServeNext(d)
    BY <1>6, <1>7, <2>1, Zenon
  <2>2. ASSUME NEW c \in Threads, ClientNext(c) \/ ServeNext(c), c # d
        PROVE  conn'[d] = conn[d] /\ live'[d] = live[d]
    BY <1>0, <2>2, OthersKeep
  <2>3. CASE UNCHANGED coord_vars
    BY <1>5, <1>7, <2>3 DEF coord_vars
  <2>4. CASE UNCHANGED vars
    BY <2>3, <2>4 DEF vars
  <2> QED
    BY <1>5, <1>7, <2>1, <2>2, <2>3, <2>4, Zenon DEF Next
<1>8. CASE ~coord_restart
  BY <1>7, <1>8, Zenon DEF MapsOK, MapOK, may_meet
<1> QED
  BY <1>1, <1>8

\* A map a client is sent names only machines that joined with the client's
\* token, or of which one is shared, and its filter and DNS records name the
\* client and those machines only: whichever nodes register while the map is
\* built and sent, through crashes and failed saves, as long as the embedder
\* imports no snapshot.
THEOREM GroupsIsolated ==
    ASSUME ~CanImport
    PROVE  Spec => []Isolation
<1>1. Init => GroupIInv /\ IsolationIInv
  <2> SUFFICES ASSUME Init PROVE GroupIInv /\ IsolationIInv
    OBVIOUS
  <2>1. GroupIInv
    BY GroupInit
  <2>2. conn = [c \in Threads |-> Closed] /\ live = [c \in Threads |-> <<>>]
    BY Zenon DEF Init
  <2>3. SelfOK /\ MapsOK
    BY ONLY <2>2 DEF Closed, SelfOK, MapsOK
  <2> QED
    BY ONLY <2>1, <2>3, Zenon DEF IsolationIInv
<1>2. CoordIInv /\ CoordIInv' /\ GroupIInv /\ IsolationIInv /\ [Next]_vars =>
          (GroupIInv /\ IsolationIInv)'
  <2> SUFFICES ASSUME CoordIInv, CoordIInv', GroupIInv, IsolationIInv, [Next]_vars
               PROVE  GroupIInv' /\ IsolationIInv'
    OBVIOUS
  <2>1. ChainOK'
    BY CoordChain DEF CoordIInv, GroupIInv
  <2>2. GroupIInv'
    BY <2>1, NodesClaimedStep, ClaimHeldStep DEF GroupIInv
  <2>3. IsolationIInv'
    BY SelfStep, MapsStep, SMTT(20) DEF IsolationIInv
  <2> QED
    BY <2>2, <2>3
<1>3. CoordIInv /\ IsolationIInv => Isolation
  <2> SUFFICES ASSUME CoordIInv, IsolationIInv, NEW c \in Threads, NEW map \in maps_of(c)
               PROVE  MapOK(map, conn[c].machine)
    BY DEF Isolation, MapOK
  <2>1. LocalOK(conn[c], live[c])
    BY DEF CoordIInv, ThreadsOK
  <2>2. (\E i \in DOMAIN live[c] : map = live[c][i].sent) \/ (conn[c].map # Unset /\ map = conn[c].map)
    BY DEF maps_of
  <2>3. conn[c].map # Unset => conn[c].pc = "map_reply"
    BY <2>1 DEF LocalOK
  <2> QED
    BY <2>2, <2>3, SMTT(20) DEF IsolationIInv, MapsOK
<1> QED
  BY <1>1, <1>2, <1>3, CoordinatorInductive, PTL DEF Spec

-----------------------------------------------------------------------------
\* current_map and up_to_date as functions of the vector of nodes.
CurrentOf(nodes, m) ==
    LET i == CHOOSE j \in DOMAIN nodes : first_node(nodes, m, j)
    IN  build_full_map(nodes[i], nodes)

Fresh(map, nodes, m) ==
    /\ but_online(map.peers) = but_online(CurrentOf(nodes, m).peers)
    /\ \A p \in map.peers, q \in CurrentOf(nodes, m).peers :
           p.id = q.id /\ p.online => q.online

\* A vector in which no machine and no id occurs twice.
Distinct(nodes) ==
    /\ nodes \in Seq(NodeState)
    /\ \A i, j \in DOMAIN nodes :
           i # j => nodes[i].machine_key # nodes[j].machine_key /\ nodes[i].id # nodes[j].id

\* The peers self is told about.
Sees(self, nodes) ==
    {k \in DOMAIN nodes : node_visible_to(self, nodes[k]) /\ nodes[k].id # self.id}

PeersOf(self, nodes) == {node_to_tailcfg(nodes[j], FALSE) : j \in Sees(self, nodes)}

\* build_full_map's peers.
LEMMA BuildPeers ==
    ASSUME NEW self, NEW nodes
    PROVE  build_full_map(self, nodes).peers = PeersOf(self, nodes)
<1> DEFINE seen == {nodes[i] : i \in {j \in DOMAIN nodes : node_visible_to(self, nodes[j])}}
           peers == {node_to_tailcfg(n, FALSE) : n \in {x \in seen : x.id # self.id}}
<1>1. build_full_map(self, nodes).peers = peers
  <2> DEFINE own == node_to_tailcfg(self, TRUE)
             filter == {n.ip : n \in seen}
  <2>1. build_full_map(self, nodes) = [node |-> own, peers |-> peers, filter |-> filter]
    BY DEF build_full_map
  <2> HIDE DEF own, filter, peers
  <2> QED
    BY <2>1, SMTT(20)
<1>2. ASSUME NEW p \in peers PROVE p \in PeersOf(self, nodes)
  <2>1. PICK n \in seen : n.id # self.id /\ p = node_to_tailcfg(n, FALSE)
    BY Zenon
  <2>2. PICK j \in DOMAIN nodes : n = nodes[j] /\ node_visible_to(self, nodes[j])
    OBVIOUS
  <2> QED
    BY <2>1, <2>2, Zenon DEF PeersOf, Sees
<1>3. ASSUME NEW p \in PeersOf(self, nodes) PROVE p \in peers
  <2>1. PICK j \in DOMAIN nodes : /\ p = node_to_tailcfg(nodes[j], FALSE)
                                  /\ node_visible_to(self, nodes[j]) /\ nodes[j].id # self.id
    BY Zenon DEF PeersOf, Sees
  <2>2. nodes[j] \in seen
    BY <2>1
  <2> HIDE DEF seen
  <2> QED
    BY <2>1, <2>2, Zenon
<1> HIDE DEF peers
<1> QED
  BY <1>1, <1>2, <1>3

\* A machine's current map is built for its only entry.
LEMMA CurrentIs ==
    ASSUME NEW nodes, Distinct(nodes), NEW i \in DOMAIN nodes, NEW m, nodes[i].machine_key = m
    PROVE  CurrentOf(nodes, m).peers = PeersOf(nodes[i], nodes)
<1> DEFINE k == CHOOSE j \in DOMAIN nodes : first_node(nodes, m, j)
<1>1. first_node(nodes, m, i)
  <2>1. \A j \in 1..(i - 1) : j \in DOMAIN nodes /\ j # i
    BY DEF Distinct
  <2> QED
    BY <2>1 DEF Distinct, first_node
<1>2. k \in DOMAIN nodes /\ first_node(nodes, m, k)
  BY <1>1
<1>3. k = i
  <2> HIDE DEF k
  <2> QED
    BY <1>2 DEF first_node, Distinct
<1>4. CurrentOf(nodes, m) = build_full_map(nodes[k], nodes)
  BY SMTT(20) DEF CurrentOf
<1> HIDE DEF k
<1> QED
  BY <1>3, <1>4, BuildPeers

\* A map built now for a copy of the machine's entry is up to date.
LEMMA BuiltFresh ==
    ASSUME NEW nodes, Distinct(nodes), NEW i \in DOMAIN nodes, NEW self, Kin(self, nodes[i])
    PROVE  Fresh(build_full_map(self, nodes), nodes, self.machine_key)
<1> DEFINE P == PeersOf(nodes[i], nodes)
<1>1. CurrentOf(nodes, self.machine_key).peers = P
  BY CurrentIs DEF Kin
<1>2. \A k \in DOMAIN nodes : node_visible_to(self, nodes[k]) <=> node_visible_to(nodes[i], nodes[k])
  BY DEF node_visible_to, Kin
<1>3. PeersOf(self, nodes) = P
  BY <1>2, Zenon DEF PeersOf, Sees, Kin
<1>4. build_full_map(self, nodes).peers = P
  BY <1>3, BuildPeers
<1>5. ASSUME NEW p \in P, NEW q \in P, p.id = q.id PROVE p = q
  <2>1. PICK j \in DOMAIN nodes : p = node_to_tailcfg(nodes[j], FALSE)
    BY Zenon DEF PeersOf, Sees
  <2>2. PICK k \in DOMAIN nodes : q = node_to_tailcfg(nodes[k], FALSE)
    BY Zenon DEF PeersOf, Sees
  <2>3. nodes[j].id = nodes[k].id
    BY <1>5, <2>1, <2>2 DEF node_to_tailcfg
  <2>4. j = k
    BY <2>3 DEF Distinct
  <2> QED
    BY <2>1, <2>2, <2>4
<1> HIDE DEF P
<1> QED
  BY <1>1, <1>4, <1>5 DEF Fresh

\* A node as its peers see it.
Shown(n) ==
    [id |-> n.id, key |-> n.node_key, machine |-> n.machine_key, addr |-> n.ip,
     endpoints |-> n.endpoints, online |-> n.online]

Unseen(n) == [Shown(n) EXCEPT !.online = FALSE]

\* What node_to_tailcfg makes of a peer.
LEMMA ShownIs ==
    ASSUME NEW n \in NodeState
    PROVE  node_to_tailcfg(n, FALSE) = Shown(n)
<1>1. (n.online \/ FALSE) = n.online
  <2>1. n.online \in BOOLEAN
    BY DEF NodeState
  <2> QED
    BY <2>1
<1> QED
  BY <1>1 DEF node_to_tailcfg, Shown

\* A map stays up to date while nodes only come online.
LEMMA FreshStays ==
    ASSUME NEW nodes, Distinct(nodes), NEW new, Distinct(new), DOMAIN new = DOMAIN nodes,
           \A j \in DOMAIN nodes : new[j] \in {nodes[j], [nodes[j] EXCEPT !.online = TRUE]},
           NEW i \in DOMAIN nodes, NEW m, nodes[i].machine_key = m,
           NEW map, Fresh(map, nodes, m)
    PROVE  Fresh(map, new, m)
<1> DEFINE old == PeersOf(nodes[i], nodes)
           cur == PeersOf(new[i], new)
<1>0. \A j \in DOMAIN nodes :
          /\ nodes[j] \in NodeState /\ new[j] \in NodeState
          /\ new[j].machine_key = nodes[j].machine_key /\ new[j].id = nodes[j].id
          /\ new[j].shared = nodes[j].shared /\ new[j].token = nodes[j].token
          /\ new[j].node_key = nodes[j].node_key /\ new[j].ip = nodes[j].ip
          /\ new[j].endpoints = nodes[j].endpoints
          /\ nodes[j].online => new[j].online
  <2>1. \A j \in DOMAIN nodes : nodes[j] \in NodeState /\ new[j] \in NodeState
    BY DEF Distinct
  <2> QED
    BY <2>1 DEF NodeState
<1>1. CurrentOf(nodes, m).peers = old
  BY CurrentIs
<1>2. CurrentOf(new, m).peers = cur
  BY <1>0, CurrentIs
<1>3. Sees(new[i], new) = Sees(nodes[i], nodes) /\ Sees(nodes[i], nodes) \subseteq DOMAIN nodes
  BY <1>0 DEF Sees, node_visible_to
<1>4. /\ old = {Shown(nodes[j]) : j \in Sees(nodes[i], nodes)}
      /\ cur = {Shown(new[j]) : j \in Sees(nodes[i], nodes)}
  <2>1. \A j \in DOMAIN nodes : /\ node_to_tailcfg(nodes[j], FALSE) = Shown(nodes[j])
                               /\ node_to_tailcfg(new[j], FALSE) = Shown(new[j])
    BY <1>0, ShownIs, Zenon
  <2>2. old = {node_to_tailcfg(nodes[j], FALSE) : j \in Sees(nodes[i], nodes)}
    BY DEF PeersOf
  <2>3. cur = {node_to_tailcfg(new[j], FALSE) : j \in Sees(nodes[i], nodes)}
    BY <1>3 DEF PeersOf
  <2> HIDE DEF old, cur
  <2>4. old = {Shown(nodes[j]) : j \in Sees(nodes[i], nodes)}
    BY ONLY <1>3, <2>1, <2>2, Zenon
  <2>5. cur = {Shown(new[j]) : j \in Sees(nodes[i], nodes)}
    BY ONLY <1>3, <2>1, <2>3, Zenon
  <2> QED
    BY <2>4, <2>5
<1>5. \A j \in DOMAIN nodes : Unseen(new[j]) = Unseen(nodes[j])
  <2>1. ASSUME NEW a, NEW b, a.id = b.id, a.node_key = b.node_key,
               a.machine_key = b.machine_key, a.ip = b.ip, a.endpoints = b.endpoints
        PROVE  Unseen(a) = Unseen(b)
    <3>1. Shown(a) = [Shown(b) EXCEPT !.online = a.online]
      BY <2>1 DEF Shown
    <3> QED
      BY <3>1, Zenon DEF Unseen, Shown
  <2> QED
    BY <1>0, <2>1
<1> HIDE DEF old, cur
<1>6. but_online(old) = {Unseen(nodes[j]) : j \in Sees(nodes[i], nodes)}
  BY <1>4 DEF but_online, Unseen
<1>7. but_online(cur) = {Unseen(new[j]) : j \in Sees(nodes[i], nodes)}
  BY <1>4 DEF but_online, Unseen
<1>8. but_online(cur) = but_online(old)
  BY <1>3, <1>5, <1>6, <1>7
<1>9. ASSUME NEW p \in map.peers, NEW q \in cur, p.id = q.id, p.online
      PROVE  q.online
  <2>1. PICK j \in Sees(nodes[i], nodes) : q = Shown(new[j])
    BY <1>4
  <2>2. j \in DOMAIN nodes /\ Shown(nodes[j]) \in old
    BY <1>3, <1>4
  <2>3. /\ Shown(nodes[j]).id = nodes[j].id /\ Shown(new[j]).id = new[j].id
        /\ Shown(nodes[j]).online = nodes[j].online /\ Shown(new[j]).online = new[j].online
    BY DEF Shown
  <2>4. p.id = Shown(nodes[j]).id
    BY <1>0, <1>9, <2>1, <2>2, <2>3
  <2>5. Shown(nodes[j]).online
    BY <1>1, <1>9, <2>2, <2>4 DEF Fresh
  <2> QED
    BY <1>0, <2>1, <2>2, <2>3, <2>5, Zenon
<1> QED
  BY <1>1, <1>2, <1>8, <1>9 DEF Fresh

\* A step after which nothing is left to announce changes at most that a node
\* has come online, and whatever was left to announce before has been.
LEMMA QuietStep ==
    ASSUME StoreIInv, ThreadsOK, ~CanImport, SavesSucceed,
           NEW c \in Threads, ClientNext(c) \/ ServeNext(c), ~unannounced'
    PROVE  /\ DOMAIN mem'.nodes = DOMAIN mem.nodes
           /\ \A j \in DOMAIN mem.nodes :
                  mem'.nodes[j] \in {mem.nodes[j], [mem.nodes[j] EXCEPT !.online = TRUE]}
           /\ map_gen' = map_gen + 1 \/ (map_gen' = map_gen /\ ~unannounced)
<1> DEFINE v == conn[c]
           m == v.machine
           Q == /\ DOMAIN mem'.nodes = DOMAIN mem.nodes
                /\ \A j \in DOMAIN mem.nodes :
                       mem'.nodes[j] \in {mem.nodes[j], [mem.nodes[j] EXCEPT !.online = TRUE]}
<1>0. /\ ImageOK(mem) /\ LocalOK(v, live[c]) /\ conn \in [Threads -> Conn] /\ v \in Conn
  BY StoreIInvParts DEF ThreadsOK
<1>a. v.pc # "closed" => m \in Machines
  BY <1>0 DEF LocalOK
<1>b. mem'.nodes = mem.nodes => Q
  OBVIOUS
<1>c. ~goto(c, "register_bump") /\ ~goto(c, "map_bump") /\ ~goto(c, "bye_bump")
  BY <1>0 DEF unannounced, goto, Conn
<1>d. \A img : ~save_locked(img, FALSE)
  BY DEF save_locked, SavesSucceed
<1>1. Q
  <2>1. CASE register_store(c)
    <3>1. register_full(m) /\ v.pc = "register_store"
      BY <1>c, <1>d, <2>1, Zenon DEF register_store, register_existing, register_new, at
    <3> QED
      BY <1>0, <1>a, <1>b, <3>1, FullSame
  <2>2. ~map_update(c)
    BY <1>c, <1>d, Zenon DEF map_update, update_map_info
  <2>3. CASE map_online(c)
    <3>1. v.pc = "map_online" /\ set_online(m, TRUE)
      BY <2>3, Zenon DEF map_online, at
    <3>2. /\ Edits(m)
          /\ \A i \in DOMAIN mem.nodes :
                 mem.nodes[i].machine_key = m =>
                     mem'.nodes[i] = [mem.nodes[i] EXCEPT !.online = TRUE]
      BY <1>0, <1>a, <3>1, OnlineEdits, Zenon
    <3> QED
      BY <3>2, Zenon DEF Edits
  <2>4. ~bye_offline(c)
    BY <1>c, Zenon DEF bye_offline
  <2>5. CASE register_consume(c)
    <3>1. ThreadNext(c)
      BY <2>5, Zenon DEF register_consume, ThreadNext
    <3> QED
      BY <1>b, <3>1, KeysOnly
  <2>6. CASE ~(map_update(c) \/ map_online(c) \/ bye_offline(c) \/ register_store(c)
               \/ register_consume(c))
    <3>1. mem' = mem
      BY <2>6, Zenon
      DEF ClientNext, connect, request, stream_close, disconnect, store_vars,
          ServeNext, RegisterNext, register_find, register_bump, consume_preauth,
          MapNext, map_bump, map_find, map_build, map_reply,
          TickNext, tick, tick_find, tick_push, ByeNext, bye_bump
    <3> QED
      BY <1>b, <3>1, SMTT(20)
  <2> QED
    BY <2>1, <2>2, <2>3, <2>4, <2>5, <2>6, SMTT(20)
<1>2. CASE register_bump(c) \/ map_bump(c) \/ bye_bump(c)
  <2>1. map_gen' = map_gen + 1
    BY <1>2 DEF register_bump, map_bump, bye_bump, bump_map
  <2> QED
    BY <1>1, <2>1
<1>3. CASE ~(register_bump(c) \/ map_bump(c) \/ bye_bump(c))
  <2>1. map_gen' = map_gen
    BY <1>3, Zenon
    DEF ClientNext, connect, request, stream_close, disconnect, ServeNext,
        RegisterNext, register_find, register_consume, register_store,
        MapNext, map_update, map_online, map_find, map_build, map_reply,
        TickNext, tick, tick_find, tick_push, ByeNext, bye_offline
  <2>2. v.pc \notin {"register_bump", "map_bump", "bye_bump"}
    BY <1>3, Zenon
    DEF ClientNext, connect, request, stream_close, disconnect, ServeNext,
        RegisterNext, register_find, register_consume, register_store,
        MapNext, map_update, map_online, map_find, map_build, map_reply,
        TickNext, tick, tick_find, tick_push, ByeNext, bye_offline, at
  <2>3. \A d \in Threads : d # c => conn'[d] = conn[d]
    BY OthersKeep
  <2>4. ~unannounced
    BY <2>2, <2>3, SMTT(20) DEF unannounced
  <2> QED
    BY <1>1, <2>1, <2>4
<1> QED
  BY <1>2, <1>3

\* The step of the generations.
LEMMA GensStep ==
    ASSUME CoordIInv, CoordIInv', SelfOK, GensOK, ~CanImport, [Next]_vars
    PROVE  GensOK'
<1>0. /\ StoreIInv /\ ThreadsOK /\ map_gen \in Nat /\ ThreadsOK'
  BY DEF CoordIInv, ThreadsOK
<1>1. CASE coord_restart
  <2>1. conn' = [c \in Threads |-> Closed] /\ live' = [c \in Threads |-> <<>>]
    BY <1>1, Zenon DEF coord_restart
  <2>2. \A c \in Threads : conn'[c].pc = "closed" /\ live'[c] = <<>>
    BY ONLY <2>1, SMTT(20) DEF Closed
  <2> QED
    BY ONLY <2>2 DEF GensOK
<1>2. ASSUME NEW d \in Threads, conn'[d] = conn[d], live'[d] = live[d], Within(mem, mem'),
             map_gen' \in {map_gen, map_gen + 1}
      PROVE  /\ conn'[d].pc \in {"tick", "tick_push"} => conn'[d].gen <= map_gen'
             /\ \A i \in DOMAIN live'[d] :
                    /\ live'[d][i].last_gen <= map_gen'
                    /\ live'[d][i].refreshed => known(mem', conn'[d].machine)
  <2>1. conn[d].gen \in Nat /\ \A i \in DOMAIN live[d] : live[d][i].last_gen \in Nat
    <3>1. conn[d] \in Conn /\ live[d] \in Seq(LiveEntry)
      BY <1>0 DEF ThreadsOK
    <3>2. \A i \in DOMAIN live[d] : live[d][i] \in LiveEntry
      BY <3>1
    <3> QED
      BY <3>1, <3>2 DEF Conn, LiveEntry
  <2> QED
    BY <1>0, <1>2, <2>1, KnownStays, SMTT(20) DEF GensOK
<1>3. ASSUME NEW c \in Threads, ClientNext(c) \/ ServeNext(c) PROVE map_gen' \in {map_gen, map_gen + 1}
  BY <1>3, Zenon
  DEF ClientNext, connect, request, stream_close, disconnect, ServeNext,
      RegisterNext, register_find, register_consume, register_store, register_bump,
      MapNext, map_update, map_bump, map_online, map_find, map_build, map_reply, bump_map,
      TickNext, tick, tick_find, tick_push, ByeNext, bye_offline, bye_bump
<1>4. ASSUME NEW c \in Threads, ClientNext(c) \/ ServeNext(c)
      PROVE  /\ conn'[c].pc \in {"tick", "tick_push"} => conn'[c].gen <= map_gen'
             /\ \A i \in DOMAIN live'[c] :
                    /\ live'[c][i].last_gen <= map_gen'
                    /\ live'[c][i].refreshed => known(mem', conn'[c].machine)
  <2>0. /\ conn[c] \in Conn /\ live[c] \in Seq(LiveEntry) /\ conn[c].gen \in Nat
        /\ map_gen <= map_gen' /\ map_gen' \in Nat /\ Within(mem, mem')
        /\ conn[c].pc \in {"tick", "tick_push"} => conn[c].gen <= map_gen
    <3>1. conn[c] \in Conn /\ live[c] \in Seq(LiveEntry)
      BY <1>0, Zenon DEF ThreadsOK
    <3>2. conn[c].gen \in Nat
      BY ONLY <3>1 DEF Conn
    <3>3. map_gen' \in {map_gen, map_gen + 1}
      BY <1>3, <1>4, Zenon
    <3>4. map_gen <= map_gen' /\ map_gen' \in Nat
      BY ONLY <1>0, <3>3
    <3>5. Within(mem, mem')
      BY <1>0, <1>4, ServeGrows, Zenon DEF Grows
    <3>6. conn[c].pc \in {"tick", "tick_push"} => conn[c].gen <= map_gen
      BY Zenon DEF GensOK
    <3> QED
      BY <3>1, <3>2, <3>4, <3>5, <3>6, Zenon
  <2>1. ASSUME conn'[c].pc \in {"tick", "tick_push"} PROVE conn'[c].gen <= map_gen'
    <3>1. conn'[c].gen = map_gen \/ (conn'[c].gen = conn[c].gen /\ (tick_find(c) \/ tick_push(c)))
      BY <1>0, <1>4, <2>1, Arrives, Zenon
    <3>2. tick_find(c) \/ tick_push(c) => conn[c].pc \in {"tick", "tick_push"}
      BY Zenon DEF tick_find, tick_push, at
    <3> QED
      BY <1>0, <2>0, <3>1, <3>2
  <2>2. ASSUME NEW i \in DOMAIN live'[c]
        PROVE  /\ live'[c][i].last_gen <= map_gen'
               /\ live'[c][i].refreshed => known(mem', conn'[c].machine)
    <3> DEFINE e == live'[c][i]
               f == live[c][i]
    <3>1. conn'[c].machine = conn[c].machine
      BY <1>0, <1>4, LiveFrom, Zenon
    <3>2. ASSUME i \in DOMAIN live[c]
          PROVE  /\ f \in LiveEntry /\ f.last_gen \in Nat /\ f.last_gen <= map_gen
                 /\ f.refreshed => known(mem', conn[c].machine)
      <4>1. f \in LiveEntry
        BY <2>0, <3>2
      <4> QED
        BY <2>0, <3>2, <4>1, KnownStays, Zenon DEF LiveEntry, GensOK
    <3>3. CASE i \in DOMAIN live[c] /\ e = f
      <4> HIDE DEF e, f
      <4>1. e.last_gen <= map_gen'
        BY ONLY <1>0, <2>0, <3>2, <3>3
      <4>2. e.refreshed => known(mem', conn'[c].machine)
        BY ONLY <3>1, <3>2, <3>3, Zenon
      <4> QED
        BY <4>1, <4>2, Zenon DEF e
    <3>4. CASE e = LiveMap(conn[c].map, map_gen)
      BY <1>0, <2>0, <3>4 DEF LiveMap
    <3>5. CASE i \in DOMAIN live[c] /\ e = [f EXCEPT !.open = FALSE]
      <4>1. e.last_gen = f.last_gen /\ e.refreshed = f.refreshed
        BY <3>2, <3>5 DEF LiveEntry
      <4> QED
        BY <1>0, <2>0, <3>1, <3>2, <3>5, <4>1
    <3>6. CASE tick_find(c) /\ i \in DOMAIN live[c] /\ e = [f EXCEPT !.last_gen = conn[c].gen]
      <4>1. e.last_gen = conn[c].gen /\ e.refreshed = f.refreshed
        BY <3>2, <3>6, SMTT(20) DEF LiveEntry
      <4>2. conn[c].pc = "tick"
        BY <3>6, SMTT(20) DEF tick_find, at
      <4> QED
        BY <1>0, <2>0, <3>1, <3>2, <3>6, <4>1, <4>2, SMTT(20)
    <3>7. CASE /\ tick_push(c) /\ i \in DOMAIN live[c]
               /\ e = Pushed(f, conn[c].gen, build_full_map(conn[c].self, mem.nodes))
      <4>1. e.last_gen = conn[c].gen
        BY <3>2, <3>7 DEF LiveEntry, Pushed
      <4>2. conn[c].pc = "tick_push"
        BY <3>7, Zenon DEF tick_push, at
      <4>3. known(mem, conn[c].machine)
        BY <4>2, SMTT(20) DEF SelfOK, known, Kin
      <4> QED
        BY <1>0, <2>0, <3>1, <4>1, <4>2, <4>3, KnownStays, SMTT(20)
    <3> QED
      BY <1>0, <1>4, <3>3, <3>4, <3>5, <3>6, <3>7, LiveFrom, SMTT(20)
  <2> QED
    BY <2>1, <2>2
<1>5. ASSUME NEW d \in Threads, ~coord_restart
      PROVE  /\ conn'[d].pc \in {"tick", "tick_push"} => conn'[d].gen <= map_gen'
             /\ \A i \in DOMAIN live'[d] :
                    /\ live'[d][i].last_gen <= map_gen'
                    /\ live'[d][i].refreshed => known(mem', conn'[d].machine)
  <2>1. ASSUME NEW c \in Threads, ClientNext(c) \/ ServeNext(c), c # d
        PROVE  /\ conn'[d] = conn[d] /\ live'[d] = live[d] /\ Within(mem, mem')
               /\ map_gen' \in {map_gen, map_gen + 1}
    <3>1. conn'[d] = conn[d] /\ live'[d] = live[d]
      BY <1>0, <2>1, OthersKeep, Zenon
    <3>2. Within(mem, mem')
      BY <1>0, <2>1, ServeGrows, Zenon DEF Grows
    <3>3. map_gen' \in {map_gen, map_gen + 1}
      BY <1>3, <2>1, ZenonT(30)
    <3> QED
      BY <3>1, <3>2, <3>3, Zenon
  <2>2. CASE (AdminNext \/ clock_tick) /\ UNCHANGED coord_vars
    <3>1. conn' = conn /\ live' = live /\ map_gen' = map_gen /\ Within(mem, mem')
      BY <1>0, <2>2, KeysOnly, SMTT(20) DEF coord_vars, Grows
    <3> QED
      BY <1>2, <3>1, Zenon
  <2>3. CASE UNCHANGED vars
    <3>1. conn' = conn /\ live' = live /\ map_gen' = map_gen /\ Within(mem, mem')
      BY <2>3, WithinOrder, SMTT(20) DEF vars, coord_vars, store_vars
    <3> QED
      BY <1>2, <3>1, SMTT(20)
  <2> QED
    BY <1>2, <1>4, <1>5, <2>1, <2>2, <2>3, Zenon DEF Next
<1> QED
  BY <1>1, <1>5 DEF GensOK

\* An image that is safe to go on from tells its nodes apart.
LEMMA ImageDistinct ==
    ASSUME NEW img, ImageOK(img)
    PROVE  Distinct(img.nodes)
BY DEF ImageOK, Image, Distinct

\* A stream that had the current peers and was not touched still has them
\* when nodes have at most come online and no generation has passed.
LEMMA FreshKept ==
    ASSUME CoordIInv, ImageOK(mem'), GensOK, RefreshedFresh, ~unannounced,
           NEW c \in Threads, NEW i \in DOMAIN live[c],
           live[c][i].open, live[c][i].refreshed, live[c][i].last_gen = map_gen,
           DOMAIN mem'.nodes = DOMAIN mem.nodes,
           \A j \in DOMAIN mem.nodes :
               mem'.nodes[j] \in {mem.nodes[j], [mem.nodes[j] EXCEPT !.online = TRUE]}
    PROVE  Fresh(live[c][i].sent, mem'.nodes, conn[c].machine)
<1>1. known(mem, conn[c].machine)
  BY DEF GensOK
<1>2. up_to_date(live[c][i].sent, conn[c].machine)
  BY <1>1 DEF RefreshedFresh, streaming
<1>3. Fresh(live[c][i].sent, mem.nodes, conn[c].machine)
  BY <1>2, Zenon DEF Fresh, CurrentOf, up_to_date, current_map
<1>4. Distinct(mem.nodes) /\ Distinct(mem'.nodes)
  BY StoreIInvParts, ImageDistinct DEF CoordIInv
<1>5. PICK k \in DOMAIN mem.nodes : mem.nodes[k].machine_key = conn[c].machine
  BY <1>1, SMTT(20) DEF known
<1> QED
  BY <1>3, <1>4, <1>5, FreshStays, Zenon

\* The step of RefreshedFresh.
LEMMA FreshStep ==
    ASSUME CoordIInv, CoordIInv', SelfOK, GensOK, RefreshedFresh, ~CanImport, SavesSucceed,
           [Next]_vars
    PROVE  RefreshedFresh'
<1>0. /\ StoreIInv /\ ThreadsOK /\ map_gen \in Nat /\ ImageOK(mem) /\ ImageOK(mem')
  BY StoreIInvParts DEF CoordIInv, ThreadsOK, StoreIInv
<1>1. SUFFICES ASSUME ~unannounced', NEW d \in Threads, NEW i \in DOMAIN live'[d],
                      live'[d][i].open, live'[d][i].refreshed, live'[d][i].last_gen = map_gen'
               PROVE  Fresh(live'[d][i].sent, mem'.nodes, conn'[d].machine)
  BY Zenon DEF RefreshedFresh, streaming, up_to_date, current_map, Fresh, CurrentOf
<1> DEFINE e == live'[d][i]
           f == live[d][i]
<1>2. ASSUME NEW c \in Threads, ClientNext(c) \/ ServeNext(c), i \in DOMAIN live[d], e = f,
             conn'[d].machine = conn[d].machine
      PROVE  Fresh(e.sent, mem'.nodes, conn'[d].machine)
  <2>1. /\ DOMAIN mem'.nodes = DOMAIN mem.nodes
        /\ \A j \in DOMAIN mem.nodes :
               mem'.nodes[j] \in {mem.nodes[j], [mem.nodes[j] EXCEPT !.online = TRUE]}
        /\ map_gen' = map_gen + 1 \/ (map_gen' = map_gen /\ ~unannounced)
    BY <1>0, <1>1, <1>2, QuietStep
  <2>2. f.last_gen <= map_gen
    BY <1>2, Zenon DEF GensOK
  <2>3. map_gen' = map_gen /\ ~unannounced
    BY <1>0, <1>1, <1>2, <2>1, <2>2, SMTT(20)
  <2> QED
    BY <1>0, <1>1, <1>2, <2>1, <2>3, FreshKept, SMTT(20)
<1>3. ASSUME ClientNext(d) \/ ServeNext(d) PROVE Fresh(e.sent, mem'.nodes, conn'[d].machine)
  <2>1. conn'[d].machine = conn[d].machine
    BY <1>0, <1>1, <1>3, LiveFrom, ZenonT(30)
  <2>2. CASE i \in DOMAIN live[d] /\ e = f
    BY ONLY <1>2, <1>3, <2>1, <2>2, d \in Threads, Zenon
  <2>3. e # LiveMap(conn[d].map, map_gen)
    BY <1>1, SMTT(20) DEF LiveMap
  <2>4. i \in DOMAIN live[d] => f \in LiveEntry
    BY <1>0 DEF ThreadsOK
  <2>5. ~(i \in DOMAIN live[d] /\ e = [f EXCEPT !.open = FALSE])
    BY <1>1, <2>4 DEF LiveEntry
  <2>6. ~(/\ i \in DOMAIN live[d] /\ ~known(mem, conn[d].machine)
          /\ e = [f EXCEPT !.last_gen = conn[d].gen])
    BY <1>1, <2>4, SMTT(20) DEF LiveEntry, GensOK
  <2>7. CASE /\ tick_push(d) /\ i \in DOMAIN live[d]
             /\ e = Pushed(f, conn[d].gen, build_full_map(conn[d].self, mem.nodes))
    <3>1. mem' = mem /\ conn[d].pc = "tick_push"
      BY <2>7, Zenon DEF tick_push, at, store_vars
    <3>2. PICK k \in DOMAIN mem.nodes : Kin(conn[d].self, mem.nodes[k])
      BY <3>1 DEF SelfOK
    <3>3. conn[d].self.machine_key = conn[d].machine
      BY <3>1 DEF SelfOK
    <3>4. e.sent = build_full_map(conn[d].self, mem.nodes)
      BY <1>1, <2>4, <2>7 DEF LiveEntry, Pushed
    <3>5. Distinct(mem.nodes)
      BY <1>0, ImageDistinct, SMTT(20)
    <3> QED
      BY <2>1, <3>1, <3>2, <3>3, <3>4, <3>5, BuiltFresh, SMTT(20)
  <2> QED
    BY <1>0, <1>1, <1>3, <2>2, <2>3, <2>5, <2>6, <2>7, LiveFrom, SMTT(20)
<1>4. ASSUME NEW c \in Threads, ClientNext(c) \/ ServeNext(c), c # d
      PROVE  Fresh(e.sent, mem'.nodes, conn'[d].machine)
  <2>1. conn'[d] = conn[d] /\ live'[d] = live[d]
    BY <1>0, <1>4, OthersKeep, Zenon
  <2> QED
    BY <1>1, <1>2, <1>4, <2>1
<1>5. ASSUME mem'.nodes = mem.nodes, conn' = conn, live' = live, map_gen' = map_gen
      PROVE  Fresh(e.sent, mem'.nodes, conn'[d].machine)
  <2>1. ~unannounced
    BY <1>1, <1>5, SMTT(20) DEF unannounced
  <2> QED
    BY <1>0, <1>1, <1>5, <2>1, FreshKept, SMTT(20)
<1>6. CASE (AdminNext \/ clock_tick) /\ UNCHANGED coord_vars
  BY <1>0, <1>5, <1>6, KeysOnly, SMTT(20) DEF coord_vars
<1>7. CASE coord_restart
  BY <1>1, <1>7, SMTT(20) DEF coord_restart
<1>8. CASE UNCHANGED vars
  BY <1>5, <1>8 DEF vars, coord_vars, store_vars
<1> QED
  BY <1>3, <1>4, <1>6, <1>7, <1>8, SMTT(20) DEF Next

\* A stream that a tick has refreshed and that carries the current generation
\* has the current peers whenever no announcement is due, for any number of
\* connections, machines and nodes (RefreshedFresh): every handler changes the
\* store before it bumps map_gen_, and tick reads map_gen_ before the store.
\* Saves must succeed, since a failed one leaves the change in memory and
\* skips the bump.
THEOREM RefreshedIsFresh ==
    ASSUME ~CanImport, SavesSucceed
    PROVE  Spec => []RefreshedFresh
<1>1. Init => FreshIInv
  BY DEF Init, FreshIInv, SelfOK, GensOK, RefreshedFresh, Closed
<1>2. CoordIInv /\ CoordIInv' /\ FreshIInv /\ [Next]_vars => FreshIInv'
  BY SelfStep, GensStep, FreshStep DEF FreshIInv
<1>3. FreshIInv => RefreshedFresh
  BY DEF FreshIInv
<1> QED
  BY <1>1, <1>2, <1>3, CoordinatorInductive, PTL DEF Spec
=============================================================================
