---------------------------- MODULE Coordinator ----------------------------
(***************************************************************************)
(* The coordinator (src/src/coordinator.cpp): one thread per connection,   *)
(* serving register and map requests over the shared Store and pushing the *)
(* network map to the streams that are open on its connection.             *)
(*                                                                         *)
(* A connection is a thread of Store.  Its program counter stops before    *)
(* every access to state that other threads share: the Store's critical    *)
(* sections, the state file, and the map generation map_gen_.  Parsing,    *)
(* replies and the loop of H2Server::run are local and part of the step    *)
(* they follow.  An exception out of the Store unwinds the whole session.  *)
(***************************************************************************)
EXTENDS Store, Netmap

CONSTANTS
    Requests,       \* requests a client may send: a subset of AllRequests
    MaxEvents,      \* bound: connections, requests and disconnections
    MaxStreams      \* bound: map streams opened on one connection

VARIABLES
    map_gen,        \* map_gen_
    conn,           \* conn[c]: the state of connection c's thread
    live,           \* live[c]: the vector "live" of serve_h2
    joined,         \* history: the claim under which a machine was added
    events          \* number of client events so far

coord_vars == <<map_gen, conn, live, joined, events>>
vars == <<store_vars, coord_vars>>

\* "Version >= 68" is all that the code asks of the version.
AllRequests ==
    [kind : {"register"}, node_key : NodeKeys, auth : KeyIds \cup {Empty}]
    \cup [kind : {"map"}, stream : BOOLEAN, omit_peers : BOOLEAN, v68 : BOOLEAN,
          node_key : NodeKeys \cup {Empty}, endpoints : Endpoints \cup {Empty}]

ASSUME CoordinatorAssumption ==
    Requests \subseteq AllRequests /\ MaxEvents \in Nat /\ MaxStreams \in Nat

Closed == [pc |-> "closed", machine |-> Unset, req |-> Unset, self |-> Unset,
           map |-> Unset, gen |-> 0, idx |-> 0]

\* The thread waits in poll; locals of a finished handler are gone.
polling(c) == [Closed EXCEPT !.pc = "poll", !.machine = conn[c].machine]

at(c, pc) == conn[c].pc = pc

goto(c, pc) == conn' = [conn EXCEPT ![c].pc = pc]

finish(c) == conn' = [conn EXCEPT ![c] = polling(c)]

\* An exception unwinds serve_h2: neither set_online(false) nor bump_map runs.
unwind(c) ==
    /\ conn' = [conn EXCEPT ![c] = Closed]
    /\ live' = [live EXCEPT ![c] = <<>>]

event == events < MaxEvents /\ events' = events + 1

bump_map == map_gen' = map_gen + 1

-----------------------------------------------------------------------------
\* A client with machine key m completes the handshake: serve_h2 starts.
connect(c, m) ==
    /\ at(c, "closed")
    /\ event
    /\ conn' = [conn EXCEPT ![c] = [Closed EXCEPT !.pc = "poll", !.machine = m]]
    /\ UNCHANGED <<store_vars, map_gen, live, joined>>

readonly(r) == r.stream /\ r.v68

\* A request arrives and is dispatched to on_register or on_map.
request(c, r) ==
    /\ at(c, "poll")
    /\ (r.kind = "map" /\ r.stream) => Len(live[c]) < MaxStreams
    /\ event
    /\ conn' = [conn EXCEPT ![c].req = r,
                            ![c].pc = IF r.kind = "register" THEN "register_find"
                                      ELSE IF readonly(r) THEN "map_online"
                                      ELSE "map_update"]
    /\ UNCHANGED <<store_vars, map_gen, live, joined>>

\* on_register: find_by_machine, then consume_preauth for a new machine.
register_find(c) ==
    /\ at(c, "register_find")
    /\ \/ /\ known(mem, conn[c].machine)
          /\ call' = [call EXCEPT ![c] = Idle]
          /\ goto(c, "register_store")
          /\ UNCHANGED <<mem, disk, held, cli, now, minted, claims, acked>>
       \/ /\ ~known(mem, conn[c].machine)
          /\ conn[c].req.auth = Empty
          /\ finish(c)
          /\ UNCHANGED store_vars
       \/ /\ ~known(mem, conn[c].machine)
          /\ conn[c].req.auth # Empty
          /\ consume_preauth(c, conn[c].req.auth)
          /\ goto(c, "consume")
    /\ UNCHANGED <<map_gen, live, joined, events>>

\* Mutant: a refused claim does not end the handler.
register_anyway(c) ==
    /\ at(c, "consume")
    /\ \/ (reload_read(c) \/ reload_skip(c) \/ reload_install(c)) /\ UNCHANGED <<conn, live>>
       \/ consume_claim(c, TRUE) /\ goto(c, "register_store") /\ UNCHANGED live
       \/ consume_claim(c, FALSE) /\ unwind(c)
       \/ consume_deny(c) /\ goto(c, "register_store") /\ UNCHANGED live
    /\ UNCHANGED <<map_gen, joined, events>>

register_consume(c) ==
    /\ at(c, "consume")
    /\ \/ (reload_read(c) \/ reload_skip(c) \/ reload_install(c)) /\ UNCHANGED <<conn, live>>
       \/ consume_claim(c, TRUE) /\ goto(c, "register_store") /\ UNCHANGED live
       \/ consume_claim(c, FALSE) /\ unwind(c)
       \/ consume_deny(c) /\ finish(c) /\ UNCHANGED live
    /\ UNCHANGED <<map_gen, joined, events>>

\* on_register: register_node with the claim, empty for a known machine.
register_store(c) ==
    LET m == conn[c].machine
        nk == conn[c].req.node_key
    IN  /\ at(c, "register_store")
        /\ \E ok \in BOOLEAN :
               /\ \/ register_existing(m, nk, ok) /\ UNCHANGED joined
                  \/ /\ register_new(m, nk, call[c].claim, ok)
                     /\ joined' = [joined EXCEPT ![m] = call[c].claim]
                  \/ ~ok /\ register_full(m) /\ UNCHANGED joined
               /\ IF ok THEN goto(c, "register_bump") /\ UNCHANGED live ELSE unwind(c)
        /\ UNCHANGED <<map_gen, events>>

\* Mutant: on_register does not bump the generation.
register_silent(c) ==
    /\ at(c, "register_bump")
    /\ finish(c)
    /\ UNCHANGED <<store_vars, map_gen, live, joined, events>>

register_bump(c) ==
    /\ at(c, "register_bump")
    /\ bump_map
    /\ finish(c)
    /\ UNCHANGED <<store_vars, live, joined, events>>

-----------------------------------------------------------------------------
\* on_map, unless the request is read-only: update_map_info, then bump_map.
map_update(c) ==
    /\ at(c, "map_update")
    /\ \E ok \in BOOLEAN :
           /\ update_map_info(conn[c].machine, conn[c].req.node_key,
                              conn[c].req.endpoints, ok)
           /\ IF ok THEN goto(c, "map_bump") /\ UNCHANGED live ELSE unwind(c)
    /\ UNCHANGED <<map_gen, joined, events>>

map_bump(c) ==
    /\ at(c, "map_bump")
    /\ bump_map
    /\ goto(c, "map_online")
    /\ UNCHANGED <<store_vars, live, joined, events>>

\* set_online(true), with no bump_map; a request for no peers is answered.
map_online(c) ==
    /\ at(c, "map_online")
    /\ set_online(conn[c].machine, TRUE)
    /\ IF conn[c].req.omit_peers /\ ~conn[c].req.stream
       THEN finish(c) ELSE goto(c, "map_find")
    /\ UNCHANGED <<map_gen, live, joined, events>>

\* Mutant: a stream is started without its first map.
map_unbuilt(c) ==
    /\ at(c, "map_find")
    /\ known(mem, conn[c].machine)
    /\ goto(c, "map_reply")
    /\ UNCHANGED <<store_vars, map_gen, live, joined, events>>

\* find_by_machine: a copy of the node's own entry, or status 401.
map_find(c) ==
    /\ at(c, "map_find")
    /\ \/ \E i \in DOMAIN mem.nodes :
              /\ first_node(mem.nodes, conn[c].machine, i)
              /\ conn' = [conn EXCEPT ![c].pc = "map_build", ![c].self = mem.nodes[i]]
       \/ ~known(mem, conn[c].machine) /\ finish(c)
    /\ UNCHANGED <<store_vars, map_gen, live, joined, events>>

\* nodes() and build_full_map.
map_build(c) ==
    /\ at(c, "map_build")
    /\ conn' = [conn EXCEPT ![c].pc = "map_reply",
                            ![c].map = build_full_map(conn[c].self, mem.nodes)]
    /\ UNCHANGED <<store_vars, map_gen, live, joined, events>>

\* reply, or reply_stream_start and an entry in live with the generation read
\* only now.
LiveMap(m, gen) == [last_gen |-> gen, open |-> TRUE, sent |-> m, refreshed |-> FALSE]

map_reply(c) ==
    /\ at(c, "map_reply")
    /\ live' = IF conn[c].req.stream
               THEN [live EXCEPT ![c] = Append(@, LiveMap(conn[c].map, map_gen))]
               ELSE live
    /\ finish(c)
    /\ UNCHANGED <<store_vars, map_gen, joined, events>>

-----------------------------------------------------------------------------
\* The tick of H2Server::run reads the generation before anything else.
tick(c) ==
    /\ at(c, "poll")
    /\ live[c] # <<>>
    /\ conn' = [conn EXCEPT ![c].pc = "tick", ![c].gen = map_gen, ![c].idx = 1]
    /\ UNCHANGED <<store_vars, map_gen, live, joined, events>>

\* The next entry of live, or back to poll after the last one.
advance(c) ==
    conn' = [conn EXCEPT ![c] =
        IF conn[c].idx = Len(live[c]) THEN polling(c)
        ELSE [conn[c] EXCEPT !.pc = "tick", !.idx = conn[c].idx + 1, !.self = Unset]]

\* An entry that is up to date gets at most a keepalive.  Otherwise
\* find_by_machine: a node that is gone gets nothing and counts as served.
tick_find(c) ==
    LET i == conn[c].idx
    IN  /\ at(c, "tick")
        /\ \/ /\ live[c][i].last_gen = conn[c].gen
              /\ advance(c)
              /\ UNCHANGED live
           \/ /\ live[c][i].last_gen # conn[c].gen
              /\ ~known(mem, conn[c].machine)
              /\ live' = [live EXCEPT ![c][i].last_gen = conn[c].gen]
              /\ advance(c)
           \/ /\ live[c][i].last_gen # conn[c].gen
              /\ \E j \in DOMAIN mem.nodes :
                     /\ first_node(mem.nodes, conn[c].machine, j)
                     /\ conn' = [conn EXCEPT ![c].pc = "tick_push", ![c].self = mem.nodes[j]]
              /\ UNCHANGED live
        /\ UNCHANGED <<store_vars, map_gen, joined, events>>

\* Mutant: a push does not record the generation it serves.
tick_push_unrecorded(c) ==
    /\ at(c, "tick_push")
    /\ live' = [live EXCEPT ![c][conn[c].idx].refreshed = TRUE]
    /\ advance(c)
    /\ UNCHANGED <<store_vars, map_gen, joined, events>>

\* nodes(), build_full_map and push_data, which ignores a closed stream.
tick_push(c) ==
    LET i == conn[c].idx
    IN  /\ at(c, "tick_push")
        /\ live' = [live EXCEPT
               ![c][i].last_gen = conn[c].gen,
               ![c][i].refreshed = TRUE,
               ![c][i].sent = IF live[c][i].open
                              THEN build_full_map(conn[c].self, mem.nodes) ELSE @]
        /\ advance(c)
        /\ UNCHANGED <<store_vars, map_gen, joined, events>>

\* The client resets a map stream: H2Server forgets it, live does not.
stream_close(c, i) ==
    /\ at(c, "poll")
    /\ event
    /\ live[c][i].open
    /\ live' = [live EXCEPT ![c][i].open = FALSE]
    /\ UNCHANGED <<store_vars, map_gen, conn, joined>>

\* H2Server::run returns: the client is gone.
disconnect(c) ==
    /\ at(c, "poll")
    /\ event
    /\ goto(c, "bye_offline")
    /\ live' = [live EXCEPT ![c] = <<>>]
    /\ UNCHANGED <<store_vars, map_gen, joined>>

\* Mutant: the end of a session leaves the node online.
bye_online(c) ==
    /\ at(c, "bye_offline")
    /\ goto(c, "bye_bump")
    /\ UNCHANGED <<store_vars, map_gen, live, joined, events>>

bye_offline(c) ==
    /\ at(c, "bye_offline")
    /\ set_online(conn[c].machine, FALSE)
    /\ goto(c, "bye_bump")
    /\ UNCHANGED <<map_gen, live, joined, events>>

bye_bump(c) ==
    /\ at(c, "bye_bump")
    /\ bump_map
    /\ conn' = [conn EXCEPT ![c] = Closed]
    /\ UNCHANGED <<store_vars, live, joined, events>>

\* The process dies with all its threads, and starts again.
coord_restart ==
    /\ \E k \in KeyIds : restart(k)
    /\ map_gen' = 1
    /\ conn' = [c \in Threads |-> Closed]
    /\ live' = [c \in Threads |-> <<>>]
    /\ UNCHANGED <<joined, events>>

-----------------------------------------------------------------------------
Init ==
    /\ StoreInit
    /\ map_gen = 1
    /\ conn = [c \in Threads |-> Closed]
    /\ live = [c \in Threads |-> <<>>]
    /\ joined = [m \in Machines |-> NoClaim]
    /\ events = 0

ClientNext(c) ==
    \/ \E m \in Machines : connect(c, m)
    \/ \E r \in Requests : request(c, r)
    \/ \E i \in DOMAIN live[c] : stream_close(c, i)
    \/ disconnect(c)

RegisterNext(c) ==
    register_find(c) \/ register_consume(c) \/ register_store(c) \/ register_bump(c)

MapNext(c) ==
    \/ map_update(c) \/ map_bump(c) \/ map_online(c)
    \/ map_find(c) \/ map_build(c) \/ map_reply(c)

TickNext(c) == tick(c) \/ tick_find(c) \/ tick_push(c)

ByeNext(c) == bye_offline(c) \/ bye_bump(c)

\* What a connection's thread does without waiting for its client.
ServeNext(c) == RegisterNext(c) \/ MapNext(c) \/ TickNext(c) \/ ByeNext(c)

Next ==
    \/ \E c \in Threads : ClientNext(c) \/ ServeNext(c)
    \/ AdminNext /\ UNCHANGED coord_vars
    \/ clock_tick /\ UNCHANGED coord_vars
    \/ coord_restart

Spec == Init /\ [][Next]_vars

\* Threads are preempted, not starved, and poll times out every second, so a
\* thread that can take a step takes one eventually.
FairSpec == Spec /\ \A c \in Threads : WF_vars(ServeNext(c))

-----------------------------------------------------------------------------
PCs == {"closed", "poll", "register_find", "consume", "register_store",
        "register_bump", "map_update", "map_bump", "map_online", "map_find",
        "map_build", "map_reply", "tick", "tick_push", "bye_offline", "bye_bump"}

Tailcfg == [id : Nat, key : NodeKeys \cup {Empty}, machine : Machines, addr : Addresses,
            endpoints : Endpoints \cup {Empty}, online : BOOLEAN]

FullMap == [node : Tailcfg, peers : SUBSET Tailcfg, filter : SUBSET Addresses]

Conn == [pc : PCs, machine : Machines \cup {Unset}, req : AllRequests \cup {Unset},
         self : NodeState \cup {Unset}, map : FullMap \cup {Unset}, gen : Nat, idx : Nat]

\* The variables of the coordinator have the types the code declares.
TypeOK ==
    /\ map_gen \in Nat \ {0}
    /\ conn \in [Threads -> Conn]
    /\ live \in [Threads -> Seq([last_gen : Nat, open : BOOLEAN, sent : FullMap,
                                 refreshed : BOOLEAN])]
    /\ joined \in [Machines -> PreauthClaim]

\* The maps built for connection c that its client has, or is about to get.
maps_of(c) ==
    {live[c][i].sent : i \in DOMAIN live[c]}
    \cup (IF conn[c].map = Unset THEN {} ELSE {conn[c].map})

may_meet(m, n) ==
    joined[m].shared \/ joined[n].shared \/ joined[m].token = joined[n].token

\* "Nodes that join with different tokens never appear in each other's
\* netmap" (README.md:66): every peer in a map a client is sent joined with
\* the client's token unless one of the two is shared, and the packet filter
\* and DNS records name the client and those peers only (build_full_map).
Isolation ==
    \A c \in Threads : \A map \in maps_of(c) :
        /\ \A p \in map.peers : may_meet(conn[c].machine, p.machine)
        /\ map.filter = {map.node.addr} \cup {p.addr : p \in map.peers}

\* Every node in the store was added by on_register under the claim of a
\* preauth key that was created and has been consumed, and is in the group of
\* that claim, whichever requests of the same machine overlapped.
NodesClaimed ==
    \A i \in DOMAIN mem.nodes :
        LET n == mem.nodes[i]
        IN  /\ joined[n.machine_key] = [token |-> n.token, shared |-> n.shared]
            /\ \E x \in minted : /\ claims[x.key] > 0
                                 /\ x.token = n.token /\ x.shared = n.shared

\* A node is shown as online only while a connection of its machine is being
\* served (map_online, bye_offline; no crash and no exception).
OnlineServed ==
    \A i \in DOMAIN mem.nodes :
        mem.nodes[i].online =>
            \E c \in Threads : /\ conn[c].machine = mem.nodes[i].machine_key
                               /\ conn[c].pc \notin {"closed", "bye_bump"}

-----------------------------------------------------------------------------
\* What machine m would be told now.
current_map(m) ==
    LET i == CHOOSE j \in DOMAIN mem.nodes : first_node(mem.nodes, m, j)
    IN  build_full_map(mem.nodes[i], mem.nodes)

but_online(nodes) == {[n EXCEPT !.online = FALSE] : n \in nodes}

\* The peers of a map and everything about them except that a peer which has
\* since come online may still be shown as offline.
up_to_date(map, m) ==
    /\ but_online(map.peers) = but_online(current_map(m).peers)
    /\ \A p \in map.peers, q \in current_map(m).peers :
           p.id = q.id /\ p.online => q.online

\* Changes that have been made to the store and not announced yet.
unannounced ==
    \E c \in Threads : conn[c].pc \in {"register_bump", "map_bump", "bye_bump"}

\* An open stream whose node is still registered.
streaming(c, i) == live[c][i].open /\ known(mem, conn[c].machine)

\* A stream that has been refreshed by a tick and carries the current
\* generation has the current peers: every handler changes the store before
\* it bumps the generation, and the tick reads the generation before the
\* store, so no change is skipped.
RefreshedFresh ==
    ~unannounced =>
        \A c \in Threads : \A i \in DOMAIN live[c] :
            /\ streaming(c, i) /\ live[c][i].refreshed
            /\ live[c][i].last_gen = map_gen
            => up_to_date(live[c][i].sent, conn[c].machine)

\* The same for every open stream, from its first map on.
StreamFresh ==
    ~unannounced =>
        \A c \in Threads : \A i \in DOMAIN live[c] :
            streaming(c, i) /\ live[c][i].last_gen = map_gen
            => up_to_date(live[c][i].sent, conn[c].machine)

\* Once the clients are quiet, every open stream that has been refreshed ends
\* up with the current peers and stays so: map fan-out by ticks converges.
FanoutConverges ==
    <>[](\A c \in Threads : \A i \in DOMAIN live[c] :
             streaming(c, i) =>
                 /\ live[c][i].last_gen = map_gen
                 /\ live[c][i].refreshed => up_to_date(live[c][i].sent, conn[c].machine))
=============================================================================
