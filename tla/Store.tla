------------------------------- MODULE Store -------------------------------
(***************************************************************************)
(* Store (src/src/state.cpp): preauth keys, registered nodes and the two   *)
(* allocation counters, kept in memory under mu_ and written as one JSON   *)
(* snapshot to the state file and to the embedder's persist hook.          *)
(*                                                                         *)
(* An action is one critical section of mu_, or one access to the file     *)
(* outside it.  consume_preauth is several actions of a thread, because    *)
(* reload_keys_from_disk reads the file before it takes the lock.  A crash *)
(* of the server may come between any two actions, and the command line    *)
(* tool is a second process with a memory image of its own over the same   *)
(* file.                                                                   *)
(*                                                                         *)
(* Left out, because no property tells them apart: the noise key, the      *)
(* ephemeral flag, hostname and disco_key (client-reported, like           *)
(* node_key), and stable_id (the id, printed).  A write of the state file  *)
(* either throws or is complete.                                           *)
(***************************************************************************)
EXTENDS IpAllocator, Sequences

CONSTANTS
    Machines,       \* machine keys of the clients
    NodeKeys,       \* node keys a client may report
    Endpoints,      \* non-empty endpoint lists a client may report
    Tokens,         \* non-empty mesh group tokens
    KeyIds,         \* strings random_token may return
    Threads,        \* client threads of the server
    Empty,          \* the empty string, and the empty list of endpoints
    Unset,          \* an absent std::optional
    Ipv4, Ipv6,     \* the configured prefixes
    IntMax,         \* largest int: 2^31 - 1
    IndexMod,       \* number of values of next_ip_index_: 2^32
    KeyOptions,     \* options operators create keys with
    HasPath,        \* a state file is configured
    HasHook,        \* the embedder installed a persist hook
    HasCli,         \* "wirebone preauth create" runs beside the server
    CanImport,      \* the embedder calls import_state
    OpenMayFail,    \* the state file may fail to open
    SaveMayFail,    \* writing the state file may fail
    MayCrash,       \* the server may die and start again
    MaxNodeId,      \* bound: registrations of new machines
    MaxNow          \* bound: the clock

ASSUME StoreAssumption ==
    /\ {HasPath, HasHook, HasCli, CanImport, OpenMayFail, SaveMayFail, MayCrash}
           \subseteq BOOLEAN
    /\ Unset \notin BOOLEAN
    /\ Ipv4 \in Ipv4Cidrs /\ Ipv6 \in Ipv6Cidrs
    /\ KeyOptions \subseteq [reusable : BOOLEAN, expiration : Nat,
                             token : Tokens \cup {Empty}, shared : BOOLEAN \cup {Unset}]
    /\ {IntMax, IndexMod, MaxNodeId} \subseteq Nat /\ MaxNow \in Nat \ {0}
    /\ MaxNodeId < IntMax /\ MaxNodeId + 1 < IndexMod

VARIABLES
    mem,            \* what mu_ protects: an Image
    disk,           \* the snapshot in the state file
    held,           \* the last snapshot the embedder was given
    cli,            \* the command line process
    call,           \* call[t]: thread t's progress in consume_preauth
    now,            \* now_unix()
    \* History: what the callers have been told.
    minted,         \* preauth keys ever created, as they were created
    claims,         \* claims[k]: successful calls of consume_preauth(k): 0, 1 or more
    acked           \* acked[m]: addresses register_node returned for m

store_vars == <<mem, disk, held, cli, call, now, minted, claims, acked>>

-----------------------------------------------------------------------------
PreauthKey == [key : KeyIds, reusable : BOOLEAN, used : BOOLEAN,
               expires_unix : Int, token : Tokens \cup {Empty}, shared : BOOLEAN]

PreauthClaim == [token : Tokens \cup {Empty}, shared : BOOLEAN]

NodeState == [id : Nat, machine_key : Machines, node_key : NodeKeys \cup {Empty},
              ip : Addresses, endpoints : Endpoints \cup {Empty},
              online : BOOLEAN, token : Tokens \cup {Empty}, shared : BOOLEAN]

\* The state mu_ protects, which is also the content of a snapshot.
Image == [next_node_id : Nat, next_ip_index : Nat,
          keys : Seq(PreauthKey), nodes : Seq(NodeState)]

\* A store with no state file, and the snapshot "{}".
EmptyImage == [next_node_id |-> 1, next_ip_index |-> 1, keys |-> <<>>, nodes |-> <<>>]

Steps == {"idle", "read", "install", "mark", "claimed", "denied", "threw"}

Call == [step : Steps, key : KeyIds \cup {Empty}, seen : Seq(PreauthKey),
         claim : PreauthClaim]

NoClaim == [token |-> Empty, shared |-> FALSE]

Idle == [step |-> "idle", key |-> Empty, seen |-> <<>>, claim |-> NoClaim]

\* The first entry of a vector with this machine key, or with this key.
first_node(nodes, m, i) ==
    nodes[i].machine_key = m /\ \A j \in 1..(i - 1) : nodes[j].machine_key # m

first_key(keys, k, i) ==
    keys[i].key = k /\ \A j \in 1..(i - 1) : keys[j].key # k

known(img, m) == \E i \in DOMAIN img.nodes : img.nodes[i].machine_key = m

minted_ids == {x.key : x \in minted}

-----------------------------------------------------------------------------
\* json::value(name, 0) reads a number as an int: larger ones wrap around.
ToInt(x) ==
    IF x <= IntMax THEN x
                   ELSE ((x + IntMax + 1) % (2 * (IntMax + 1))) - (IntMax + 1)

key_from_json(k) == [k EXCEPT !.expires_unix = ToInt(@)]

keys_from_json(s) == [i \in DOMAIN s |-> key_from_json(s[i])]

\* Mutant: an import or a restart forgets the counters.
apply_snapshot_forgets(j) ==
    [EmptyImage EXCEPT !.keys = keys_from_json(j.keys), !.nodes = j.nodes]

apply_snapshot_locked(j) ==
    [next_node_id |-> ToInt(j.next_node_id),
     next_ip_index |-> ToInt(j.next_ip_index),
     keys |-> keys_from_json(j.keys),
     nodes |-> [i \in DOMAIN j.nodes |-> [j.nodes[i] EXCEPT !.id = ToInt(@)]]]

\* Mutant: the file is truncated in place before a write that may fail.
save_in_place(img, ok) ==
    /\ ok \/ (SaveMayFail /\ HasPath)
    /\ mem' = img
    /\ disk' = IF HasPath THEN (IF ok THEN img ELSE EmptyImage) ELSE disk
    /\ held' = IF HasHook /\ ok THEN img ELSE held

\* Mutant: the hook is called in place of a state file only.
save_either(img, ok) ==
    /\ ok \/ (SaveMayFail /\ HasPath)
    /\ mem' = img
    /\ disk' = IF HasPath /\ ok THEN img ELSE disk
    /\ held' = IF HasHook /\ ~HasPath /\ ok THEN img ELSE held

\* A mutation of memory to img, then save_locked, which throws when ~ok: the
\* mutation stays, the file is as it was and the hook is not called.
save_locked(img, ok) ==
    /\ ok \/ (SaveMayFail /\ HasPath)
    /\ mem' = img
    /\ disk' = IF HasPath /\ ok THEN img ELSE disk
    /\ held' = IF HasHook /\ ok THEN img ELSE held

-----------------------------------------------------------------------------
resolve_shared(token, shared) == IF shared = Unset THEN token = Empty ELSE shared

new_key(k, o) ==
    [key |-> k, reusable |-> o.reusable, used |-> FALSE,
     expires_unix |-> IF o.expiration > 0 THEN now + o.expiration ELSE 0,
     token |-> o.token, shared |-> resolve_shared(o.token, o.shared)]

\* random_token is 256 random bits: it never repeats a key.
create_preauth_key(k, o, ok) ==
    LET p == new_key(k, o)
    IN  /\ k \notin minted_ids
        /\ save_locked([mem EXCEPT !.keys = Append(@, p)], ok)
        /\ minted' = minted \cup {p}
        /\ UNCHANGED <<cli, call, now, claims, acked>>

\* consume_preauth(key, claim) is called on thread t.
consume_preauth(t, k) ==
    /\ call[t].step \notin {"read", "install", "mark"}
    /\ call' = [call EXCEPT ![t] =
           [Idle EXCEPT !.step = IF HasPath THEN "read" ELSE "mark", !.key = k]]
    /\ UNCHANGED <<mem, disk, held, cli, now, minted, claims, acked>>

\* reload_keys_from_disk parses the file without holding mu_ ...
reload_read(t) ==
    /\ call[t].step = "read"
    /\ call' = [call EXCEPT ![t].step = "install", ![t].seen = disk.keys]
    /\ UNCHANGED <<mem, disk, held, cli, now, minted, claims, acked>>

\* ... or cannot open it, and returns ...
reload_skip(t) ==
    /\ OpenMayFail
    /\ call[t].step = "read"
    /\ call' = [call EXCEPT ![t].step = "mark"]
    /\ UNCHANGED <<mem, disk, held, cli, now, minted, claims, acked>>

\* ... and then replaces keys_ under the lock by what it parsed.
reload_install(t) ==
    /\ call[t].step = "install"
    /\ mem' = [mem EXCEPT !.keys = keys_from_json(call[t].seen)]
    /\ call' = [call EXCEPT ![t].step = "mark", ![t].seen = <<>>]
    /\ UNCHANGED <<disk, held, cli, now, minted, claims, acked>>

\* Mutant: a key expires one second early.
expired_early(p) == p.expires_unix # 0 /\ now >= p.expires_unix

expired(p) == p.expires_unix # 0 /\ now > p.expires_unix

\* Mutant: the expiry check is missing.
claimable_forever(p) == p.reusable \/ ~p.used

claimable(p) == ~expired(p) /\ (p.reusable \/ ~p.used)

\* Mutant: a claim is not saved.
consume_unsaved(t, ok) ==
    \E i \in DOMAIN mem.keys :
        /\ ok /\ call[t].step = "mark"
        /\ first_key(mem.keys, call[t].key, i) /\ claimable(mem.keys[i])
        /\ mem' = [mem EXCEPT !.keys[i].used = TRUE]
        /\ call' = [call EXCEPT ![t].step = "claimed"]
        /\ claims' = [claims EXCEPT ![call[t].key] = IF @ = 0 THEN 1 ELSE 2]
        /\ UNCHANGED <<disk, held, cli, now, minted, acked>>

\* The second critical section of consume_preauth: "return true", or an
\* exception out of save_locked.
consume_claim(t, ok) ==
    \E i \in DOMAIN mem.keys :
        /\ call[t].step = "mark"
        /\ first_key(mem.keys, call[t].key, i)
        /\ claimable(mem.keys[i])
        /\ save_locked([mem EXCEPT !.keys[i].used = TRUE], ok)
        /\ call' = [call EXCEPT
               ![t].step = IF ok THEN "claimed" ELSE "threw",
               ![t].claim = [token |-> mem.keys[i].token, shared |-> mem.keys[i].shared]]
        /\ claims' = IF ok THEN [claims EXCEPT ![call[t].key] = IF @ = 0 THEN 1 ELSE 2] ELSE claims
        /\ UNCHANGED <<cli, now, minted, acked>>

\* "return false".
consume_deny(t) ==
    /\ call[t].step = "mark"
    /\ \A i \in DOMAIN mem.keys :
           first_key(mem.keys, call[t].key, i) => ~claimable(mem.keys[i])
    /\ call' = [call EXCEPT ![t].step = "denied"]
    /\ UNCHANGED <<mem, disk, held, cli, now, minted, claims, acked>>

-----------------------------------------------------------------------------
\* Mutant: registering again takes over the (empty) claim.
register_regroups(m, nk, ok) ==
    \E i \in DOMAIN mem.nodes :
        /\ first_node(mem.nodes, m, i)
        /\ save_locked([mem EXCEPT !.nodes[i].node_key = nk, !.nodes[i].token = Empty,
                                   !.nodes[i].shared = FALSE], ok)
        /\ UNCHANGED <<cli, call, now, minted, claims, acked>>

\* register_node for a machine it finds: the token and the addresses stay.
register_existing(m, nk, ok) ==
    \E i \in DOMAIN mem.nodes :
        /\ first_node(mem.nodes, m, i)
        /\ save_locked([mem EXCEPT !.nodes[i].node_key = nk], ok)
        /\ acked' = IF ok THEN [acked EXCEPT ![m] = @ \cup {mem.nodes[i].ip}] ELSE acked
        /\ UNCHANGED <<cli, call, now, minted, claims>>

\* Mutant: indices are handed out downwards.
counted_down == [mem EXCEPT !.next_node_id = @ + 1, !.next_ip_index = @ - 1]

\* Both counters are incremented before address_for may throw.
counted == [mem EXCEPT !.next_node_id = @ + 1, !.next_ip_index = (@ + 1) % IndexMod]

new_node(m, nk, claim) ==
    [id |-> mem.next_node_id, machine_key |-> m, node_key |-> nk,
     ip |-> address_for(Ipv4, Ipv6, mem.next_ip_index), endpoints |-> Empty,
     online |-> FALSE, token |-> claim.token, shared |-> claim.shared]

register_new(m, nk, claim, ok) ==
    LET n == new_node(m, nk, claim)
    IN  /\ ~known(mem, m)
        /\ mem.next_node_id <= MaxNodeId
        /\ index_in_range(Ipv4, mem.next_ip_index)
        /\ save_locked([counted EXCEPT !.nodes = Append(@, n)], ok)
        /\ acked' = IF ok THEN [acked EXCEPT ![m] = @ \cup {n.ip}] ELSE acked
        /\ UNCHANGED <<cli, call, now, minted, claims>>

\* The address range is used up: address_for throws out of register_node.
register_full(m) ==
    /\ ~known(mem, m)
    /\ mem.next_node_id <= MaxNodeId
    /\ ~index_in_range(Ipv4, mem.next_ip_index)
    /\ mem' = counted
    /\ UNCHANGED <<disk, held, cli, call, now, minted, claims, acked>>

update_map_info(m, nk, eps, ok) ==
    \/ ~known(mem, m) /\ ok /\ UNCHANGED store_vars
    \/ \E i \in DOMAIN mem.nodes :
           /\ first_node(mem.nodes, m, i)
           /\ save_locked([mem EXCEPT
                  !.nodes[i].node_key = IF nk = Empty THEN @ ELSE nk,
                  !.nodes[i].endpoints = eps,
                  !.nodes[i].online = TRUE], ok)
           /\ UNCHANGED <<cli, call, now, minted, claims, acked>>

\* set_online does not save.
set_online(m, online) ==
    \/ ~known(mem, m) /\ UNCHANGED store_vars
    \/ \E i \in DOMAIN mem.nodes :
           /\ first_node(mem.nodes, m, i)
           /\ mem' = [mem EXCEPT !.nodes[i].online = online]
           /\ UNCHANGED <<disk, held, cli, call, now, minted, claims, acked>>

persist(ok) ==
    /\ save_locked(mem, ok)
    /\ UNCHANGED <<cli, call, now, minted, claims, acked>>

\* export_state; a snapshot nobody imports is of no consequence.
dump_json ==
    /\ CanImport
    /\ held' = mem
    /\ UNCHANGED <<mem, disk, cli, call, now, minted, claims, acked>>

\* import_state of a snapshot the embedder holds: no save, no hook.
load_json ==
    /\ CanImport
    /\ mem' = apply_snapshot_locked(held)
    /\ UNCHANGED <<disk, held, cli, call, now, minted, claims, acked>>

-----------------------------------------------------------------------------
\* The constructor of Coordinator on a loaded image: without any preauth key
\* it creates the bootstrap key, named k, and saves.
bootstrap_key(k) ==
    new_key(k, [reusable |-> TRUE, expiration |-> 0, token |-> Empty, shared |-> Unset])

constructed(img, k) ==
    IF img.keys # <<>> THEN img ELSE [img EXCEPT !.keys = <<bootstrap_key(k)>>]

construct(img, k) ==
    IF img.keys # <<>>
    THEN UNCHANGED <<disk, minted>>
    ELSE /\ k \notin minted_ids
         /\ disk' = IF HasPath THEN constructed(img, k) ELSE disk
         /\ minted' = minted \cup {bootstrap_key(k)}

load_or_init == IF HasPath THEN apply_snapshot_locked(disk) ELSE EmptyImage

\* The server dies at any point and starts again on the state file.
restart(k) ==
    /\ MayCrash
    /\ construct(load_or_init, k)
    /\ mem' = constructed(load_or_init, k)
    /\ call' = [t \in Threads |-> Idle]
    /\ UNCHANGED <<held, cli, now, claims, acked>>

\* "preauth create" constructs a Coordinator over the same file ...
cli_start(k) ==
    /\ HasCli /\ HasPath /\ ~cli.active
    /\ construct(load_or_init, k)
    /\ cli' = [active |-> TRUE, img |-> constructed(load_or_init, k)]
    /\ UNCHANGED <<mem, held, call, now, claims, acked>>

\* ... saves its own image with the new key and prints the key ...
cli_create(k, o) ==
    LET p == new_key(k, [o EXCEPT !.expiration = 0])
    IN  /\ cli.active
        /\ k \notin minted_ids
        /\ disk' = [cli.img EXCEPT !.keys = Append(@, p)]
        /\ minted' = minted \cup {p}
        /\ cli' = [active |-> FALSE, img |-> EmptyImage]
        /\ UNCHANGED <<mem, held, call, now, claims, acked>>

\* ... or exits without saving: it was killed, or was asked to list the nodes.
cli_exit ==
    /\ cli.active
    /\ cli' = [active |-> FALSE, img |-> EmptyImage]
    /\ UNCHANGED <<mem, disk, held, call, now, minted, claims, acked>>

clock_tick ==
    /\ now < MaxNow
    /\ now' = now + 1
    /\ UNCHANGED <<mem, disk, held, cli, call, minted, claims, acked>>

-----------------------------------------------------------------------------
\* A server that has just been constructed on no state file.
StoreInit ==
    /\ now = 1
    /\ \E k \in KeyIds :
           /\ mem = [EmptyImage EXCEPT !.keys = <<bootstrap_key(k)>>]
           /\ minted = {bootstrap_key(k)}
    /\ disk = IF HasPath THEN mem ELSE EmptyImage
    /\ held = EmptyImage
    /\ cli = [active |-> FALSE, img |-> EmptyImage]
    /\ call = [t \in Threads |-> Idle]
    /\ claims = [k \in KeyIds |-> 0]
    /\ acked = [m \in Machines |-> {}]

AdminNext ==
    \/ \E k \in KeyIds, o \in KeyOptions, ok \in BOOLEAN : create_preauth_key(k, o, ok)
    \/ \E ok \in BOOLEAN : persist(ok)
    \/ dump_json
    \/ load_json

ThreadNext(t) ==
    \/ \E k \in KeyIds : consume_preauth(t, k)
    \/ reload_read(t)
    \/ reload_skip(t)
    \/ reload_install(t)
    \/ \E ok \in BOOLEAN : consume_claim(t, ok)
    \/ consume_deny(t)

NodeNext(m) ==
    \/ \E nk \in NodeKeys, ok \in BOOLEAN : register_existing(m, nk, ok)
    \/ \E nk \in NodeKeys, claim \in PreauthClaim, ok \in BOOLEAN :
           register_new(m, nk, claim, ok)
    \/ register_full(m)
    \/ \E nk \in NodeKeys \cup {Empty}, eps \in Endpoints \cup {Empty}, ok \in BOOLEAN :
           update_map_info(m, nk, eps, ok)
    \/ \E online \in BOOLEAN : set_online(m, online)

ProcessNext ==
    \/ \E k \in KeyIds : restart(k)
    \/ \E k \in KeyIds : cli_start(k)
    \/ \E k \in KeyIds, o \in KeyOptions : cli_create(k, o)
    \/ cli_exit
    \/ clock_tick

StoreNext ==
    \/ AdminNext
    \/ \E t \in Threads : ThreadNext(t)
    \/ \E m \in Machines : NodeNext(m)
    \/ ProcessNext

StoreSpec == StoreInit /\ [][StoreNext]_store_vars

-----------------------------------------------------------------------------
\* The variables of the store have the types the code declares.
StoreTypeOK ==
    /\ {mem, disk, held} \subseteq Image
    /\ cli \in [active : BOOLEAN, img : Image]
    /\ call \in [Threads -> Call]
    /\ now \in Nat
    /\ minted \subseteq PreauthKey
    /\ claims \in [KeyIds -> 0..2]
    /\ acked \in [Machines -> SUBSET Addresses]

\* No two entries of nodes_ have the same machine key, id, IPv4 or IPv6
\* address, however registrations, failed registrations, crashes, imports of
\* old snapshots and writes by the command line tool are interleaved
\* (register_node, apply_snapshot_locked).
UniqueIdentity ==
    \A i, j \in DOMAIN mem.nodes :
        i # j => /\ mem.nodes[i].machine_key # mem.nodes[j].machine_key
                 /\ mem.nodes[i].id # mem.nodes[j].id
                 /\ mem.nodes[i].ip.v4 # mem.nodes[j].ip.v4
                 /\ mem.nodes[i].ip.v6 # mem.nodes[j].ip.v6

\* Every node's IPv4 address is inside the configured prefix and is not the
\* network's own, whatever host bits the configured address has, and its IPv6
\* address keeps the upper 96 bits: counters that were lost, imported or used
\* up never take an address out of range (address_for, register_node).
AddressesInPrefix ==
    \A i \in DOMAIN mem.nodes :
        LET a == mem.nodes[i].ip
        IN  /\ a.v4 \div Ipv4.block = Ipv4.addr \div Ipv4.block
            /\ a.v4 % Ipv4.block # 0
            /\ a.v6.hi = Ipv6.hi

\* What makes a snapshot safe to go on from: ids are below next_node_id_, the
\* two counters agree, a node's id is an index the prefix has room for and its
\* addresses are those of its id, and no machine or id occurs twice.
ImageOK(img) ==
    /\ img \in Image
    /\ img.next_node_id \in 1..(MaxNodeId + 1)
    /\ img.next_ip_index = img.next_node_id
    /\ \A i \in DOMAIN img.nodes :
           /\ img.nodes[i].id \in 1..(img.next_node_id - 1)
           /\ img.nodes[i].id <= ipv4_hosts(Ipv4)
           /\ img.nodes[i].ip = address_for(Ipv4, Ipv6, img.nodes[i].id)
    /\ \A i, j \in DOMAIN img.nodes :
           i # j => /\ img.nodes[i].machine_key # img.nodes[j].machine_key
                    /\ img.nodes[i].id # img.nodes[j].id

\* The inductive invariant behind UniqueIdentity: the memory, the state file,
\* the embedder's snapshot and the command line tool's image are each safe to
\* go on from, because every one of them is a copy of one that was.
StoreIInv ==
    /\ StoreTypeOK
    /\ ImageOK(mem) /\ ImageOK(disk) /\ ImageOK(held) /\ ImageOK(cli.img)

\* An address that register_node has returned for a machine is the only one
\* ever returned for it, and is never returned for another machine, across
\* crashes and failed saves: register_node saves before it returns.
AddressForLife ==
    \A m, n \in Machines : \A a \in acked[m], b \in acked[n] :
        IF m = n THEN a = b ELSE a.v4 # b.v4 /\ a.v6 # b.v6

\* A registered machine keeps its id, addresses, token and shared flag:
\* registering again, with no claim or with another key's claim, and
\* restarting do not move it to another group (register_node's first loop).
GroupStable ==
    [][\A i \in DOMAIN mem.nodes, j \in DOMAIN mem'.nodes :
           mem.nodes[i].machine_key = mem'.nodes[j].machine_key =>
               /\ mem.nodes[i].id = mem'.nodes[j].id
               /\ mem.nodes[i].ip = mem'.nodes[j].ip
               /\ mem.nodes[i].token = mem'.nodes[j].token
               /\ mem.nodes[i].shared = mem'.nodes[j].shared]_mem

\* consume_preauth accepts a one-shot key at most once.
OneShotOnce ==
    \A x \in minted : ~x.reusable => claims[x.key] <= 1

\* The clock has passed the expiry a key was created with.
past_expiry(p) == p.expires_unix > 0 /\ now > p.expires_unix

\* consume_preauth accepts only a key that was created, before it expires,
\* and the claim it hands out carries the group the key was created with.
ClaimHonest ==
    [][\A t \in Threads :
           call[t].step = "mark" /\ call'[t].step = "claimed" =>
               \E x \in minted :
                   /\ x.key = call[t].key
                   /\ ~past_expiry(x)
                   /\ call'[t].claim = [token |-> x.token, shared |-> x.shared]]_call

\* consume_preauth refuses a key that is in keys_ only when the key is past the
\* expiry it was created with, or is a one-shot key that was accepted before;
\* neither a reload nor a restart spends a key (no save fails).
DenialHonest ==
    [][\A t \in Threads :
           call[t].step = "mark" /\ call'[t].step = "denied" =>
               \A x \in minted :
                   x.key = call[t].key /\ (\E i \in DOMAIN mem.keys : mem.keys[i].key = x.key) =>
                       past_expiry(x) \/ (~x.reusable /\ claims[x.key] > 0)]_call

\* The part of an image that the code means to persist.
durable(img) ==
    <<img.keys, [i \in DOMAIN img.nodes |-> [img.nodes[i] EXCEPT !.online = FALSE]]>>

\* The persist hook is given every change of the keys and of the nodes'
\* durable fields, so an embedder that keeps the last snapshot loses none
\* ("Invoked after every durable mutation", include/wirebone/wirebone.h).
HookSeesEveryMutation ==
    [][durable(mem') = durable(mem) \/ durable(mem') = durable(held')
           \/ \E k \in KeyIds : restart(k)]_<<mem, held>>
=============================================================================
