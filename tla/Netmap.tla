------------------------------- MODULE Netmap -------------------------------
(***************************************************************************)
(* The network map (src/src/netmap.cpp): what one node is told about       *)
(* itself and about the others.  A response keeps the node's own entry,    *)
(* the peers (a set: nothing depends on their order) and the addresses of  *)
(* its DNS records and packet filter.  An empty set of addresses stands    *)
(* for the filter "*".                                                     *)
(***************************************************************************)

\* self is the receiver of the map.
node_visible_to(self, peer) ==
    \/ self.id = peer.id
    \/ self.shared \/ peer.shared
    \/ self.token = peer.token

node_to_tailcfg(n, self) ==
    [id |-> n.id, key |-> n.node_key, machine |-> n.machine_key, addr |-> n.ip,
     endpoints |-> n.endpoints, online |-> n.online \/ self]

\* Mutant: filter and DNS records are added before the visibility check.
build_open_filter(self, all) ==
    [node |-> node_to_tailcfg(self, TRUE),
     peers |-> {node_to_tailcfg(all[i], FALSE) : i \in
                   {j \in DOMAIN all : node_visible_to(self, all[j]) /\ all[j].id # self.id}},
     filter |-> {all[i].ip : i \in DOMAIN all}]

\* "all" is a copy of nodes_, which may be newer than the copy self.
build_full_map(self, all) ==
    LET seen == {all[i] : i \in {j \in DOMAIN all : node_visible_to(self, all[j])}}
    IN  [node |-> node_to_tailcfg(self, TRUE),
         peers |-> {node_to_tailcfg(n, FALSE) : n \in {x \in seen : x.id # self.id}},
         filter |-> {n.ip : n \in seen}]
=============================================================================
