# A TLA+ verification of wirebone

wirebone is an embeddable coordinator for Tailscale clients: it hands out
preauth keys, registers machines, gives them addresses and tells each machine
of its peers over a long poll. This directory holds TLA+ modules that model it,
the TLC configurations that check them on small instances, and theorems that
TLAPS checks for every instance. `PROJECT.json` lists, in a form tools can read,
the components, the runs, the source lines each definition stands for, the
hazards and the findings.

    tlc -workers 2 -config save_file.cfg SaveFile      # one run
    tlapm SaveFileProofs.tla                           # one module of proofs

Line numbers below are those of `src/src/`.

## The system

| part | state | operations that change it | what is hard about it |
|---|---|---|---|
| `Store` (state.cpp) | `keys_`, `nodes_`, two counters, under `mu_`; the state file; the embedder's snapshot | create and consume keys, register, update, set online, save, reload, export, import | the file is read outside the lock; two processes save whole images; saves fail; the server dies |
| state file (state.cpp) | two names, inodes | open, write, rename, read | a crash between two calls, a full disk, a temporary name that two processes share |
| `IpAllocator` (ip_alloc.cpp) | none | `address_for` | first and last index, host bits in the prefix |
| `netmap` (netmap.cpp) | none | `build_full_map` | who may see whom; filter and DNS records must agree with the peers |
| coordinator sessions (coordinator.cpp) | `map_gen_`; per connection `live` | `on_register`, `on_map`, the tick, the end of a session | each handler is several critical sections; fan-out relies on a generation that is read at the right moment |
| client connections (coordinator.cpp, noise.cpp) | descriptors | accept, hand over, close | three places close the same number |
| HTTP/1 front (http1.cpp) | the bytes received | `read_http_request` | `recv` cuts the head anywhere |
| Noise handshake (noise.cpp, crypto.cpp) | none kept | one exchange | both ends must compute the same; the server's key may be replaced |
| `NoiseConn` (noise.cpp) | nonces, `plaintext_` | read, write | failed sends, bytes that poll does not see |
| `H2Server` (http2_session.cpp) | streams with a buffer and an offset, nghttp2's state | replies, pushes, resets, the loop | deferred data providers, partial reads, flow control |
| life cycle (coordinator.cpp, dns.cpp, c_api.cpp) | `running_`, `stop_`, sockets, threads | start, stop, destroy | starts that fail half way; threads blocked in a call on a socket that stop closes |
| `MagicDns` (dns.cpp) | a socket and a thread | answers | compressed names |
| command line tool (main.cpp) | a `Store` of its own over the same file | `preauth create`, `nodes list` | runs beside the server |

A client's connection is accepted and served by a detached thread (Connection),
which reads an HTTP/1 request (Http1), upgrades the connection, runs the
handshake (NoiseHandshake) and carries records (NoiseConn); Session composes
these three. The thread then runs the loop of `H2Server` (H2Session), which
calls the coordinator's handlers and, about once a second, its tick
(Coordinator). Handlers and ticks work on the one `Store` (Store), which takes
addresses from the allocator (IpAllocator), and build maps (Netmap). The
embedder and the command line tool act on the store at the same time. Service
composes the life cycle, the client threads and the DNS thread.

## The modules

`IpAllocator` gives a prefix as its address and the number of addresses in its
block, 2^(32 - length), so that no exponent is left in what is proved about it.

`Store` has one action per critical section of `mu_`. `consume_preauth` is a
sequence of actions of a thread: `reload_read` (the file, without the lock) or
`reload_skip`, `reload_install` (under the lock), then `consume_claim` or
`consume_deny`. The variable `mem` is what `mu_` protects; `disk` the content of
the state file; `held` the last snapshot the embedder was given; `cli.img` the
memory of the command line tool. All four are images: two counters, keys and
nodes. A parameter `ok` says whether `save_locked` throws; the change in memory
stays when it does, as in the code. `restart` is a crash between any two
actions followed by a start. `minted`, `claims` and `acked` record what callers
were told and are read by properties only (`minted` also keeps
`random_token` from repeating itself).

`StateFile` is what Store takes the file for: a register that a save replaces in
one step. `SaveFile` has the system calls instead. A name stands for an inode;
an open stream keeps its inode when the name moves on; a snapshot is written
block by block. A process may die between two calls, a write may be short
without anyone noticing (`save_short`: the code does not look at the stream
after writing), and the other process may open the same temporary name in the
middle. `SaveFile` implements `StateFile` (`AtomicRegister`): its register is
the content of the inode behind the state file's name, or "damaged" after a
save that was disturbed by a full disk or by another save.

`Netmap` has the visibility rule and the map as a set of peers with the
addresses that go to the packet filter and the DNS records.

`Coordinator` extends Store and Netmap. A connection is a thread of `Store` with
a program counter that stops before each access to shared state: `on_register`
is `register_find`, `register_consume`, `register_store`, `register_bump`;
`on_map` is `map_update` to `map_reply`; a tick is `tick` (reads the
generation), `tick_find` and `tick_push` for each entry of `live`; the end of a
session is `disconnect`, `bye_offline`, `bye_bump`. An exception of the store
unwinds the session, skipping `bye_*`.

`Connection` follows descriptor numbers from accept to their closes.

`Http1` models `read_http_request` over bytes of three kinds (carriage return,
newline, other), so that the search for the empty line is the code's own, and
the head as a sequence of lines for `header_get`.

`NoiseHandshake` computes with terms: a hash, a key or a box is the tuple of the
operation and its arguments. The definitions follow noise.cpp call by call, in
its order, for both ends.

`NoiseConn` is one direction of a connection. A record opens only whole and
under its own key and nonce; that is the promise of the AEAD and is not derived.

`Session` runs connections of one client one after the other, through /key, the
upgrade, the handshake and the records. The peer may go away, sends may fail,
a message of the handshake may arrive with one field altered, and `import_state`
may replace the server's key between any two steps.

`H2Session` models `H2Server::run` by phases (poll, receive, send, tick, send
again) and nghttp2 by what the code relies on: whether a stream's data provider
is ready, deferred or finished, and its window. `data_read` is the callback.

`Lifecycle` has the embedder's thread, in start, stop and the destructor, and
the two loops, which read a member and then enter a system call. `start` is
several steps, each of which may throw (`start_throws`); nothing is undone until
`stop`.

`MagicDns` decodes names byte by byte (`parse_qname`, with its limit on hops) and
selects the records of an answer. `qname_round` is one round of the loop of
`parse_qname` on its locals, `qname_rounds` the loop. `AnswersTruly` states
separately which offsets a reader of a name comes by (`visits`), what it spells
(`spelled`), where it ends in the message (`behind`) and which node it names.

`Service` composes Lifecycle, Connection and MagicDns.

`MCStore`, `MCCoordinator` and `MCService` hold the values of constants for TLC;
the other runs take theirs from the configuration. Definitions marked "Mutant"
are changed versions of the definition they precede: each property is violated
when its mutant takes the place of the original.

## What is checked

| run | property | what it says |
|---|---|---|
| store_keys | `OneShotOnce` | a one-shot key is accepted once, by one consuming thread, across reloads and crashes |
| | `ClaimHonest` | a key is accepted only before its expiry and with its own group |
| | `DenialHonest` | a key in memory is refused only if expired or spent |
| store_images | `StoreIInv` | the inductive invariant, with imports and the command line tool |
| | `UniqueIdentity` | no two nodes share a machine, id or address |
| | `HookSeesEveryMutation` | every durable change is given to the hook |
| save_file | `SaveIInv` | the inductive invariant about names, inodes and unfinished saves |
| | `LastSaveStands` | while nothing has disturbed the last save, the file holds exactly its snapshot, whatever was begun, failed or died since |
| | `ReloadWhole` | a reload that opened such a file reads all of it, however the file is replaced meanwhile |
| | `FreshOnlyFirst` | a start takes the file for a new one only if no save has ended yet, or the last was disturbed |
| | `AtomicRegister` | SaveFile implements StateFile |
| coord_fanout | `TypeOK` | types |
| | `RefreshedFresh` | a stream that a tick has refreshed to the current generation has the current peers |
| | `OnlineServed` | an online node has a connection (no crash, no exception) |
| | `FanoutConverges` | when clients are quiet, every stream reaches the current generation and, once refreshed, the current peers |
| coord_isolation | `Isolation` | maps, filters and DNS records never name a machine of another group |
| coord_register | `StoreTypeOK` | types |
| | `NodesClaimed` | every node was added under a consumed key and is in that key's group |
| | `AddressForLife` | an address that was returned for a machine is its only one, and nobody else's, across crashes and failed saves |
| | `AddressesInPrefix` | a node's address is inside the configured prefix and not the network's own |
| | `GroupStable` | a registered machine never changes id, address, token or shared flag |
| service | `LifeIInv` | the inductive invariant about members, threads and sockets |
| | `StoppedClean` | a coordinator that is not running has closed its sockets and joined its threads, also after a failed start |
| | `NoThreadLost` | a start never assigns over a joinable thread or a resolver |
| | `Serves` | after a start that succeeded both loops run on open sockets, whatever errors their calls return |
| | `StopReturns` | stop and the destructor return |
| | `NoLeak` | an ended client thread leaves no socket open, exceptions included |
| | `DnsAnswers` | a query is answered exactly when it should be, and with the right records |
| session | `HeadDecided` | however `recv` cuts the bytes, a request that is taken has its whole head; a refused one is too long or has no first line |
| | `HeadEnds` | a peer that has sent its head is not left waiting |
| | `Agree` | after a handshake the two ends have matching keys, equal hashes, and the server the client's machine key and version |
| | `HandshakeDecides` | the server goes on exactly when the initiation arrived unaltered and was made for the key it has at that moment |
| | `NonceOnce`, `Prefix` | nonces seal one record; bytes arrive in order, none lost or repeated |
| | `Drained` | no opened byte waits while the loop polls |
| | `Delivers` | every byte accepted before a send failed is handed out in the end |
| h2_streams | `TypeOK`, `InOrder`, `Flushed`, `EofComplete` | nothing queued is lost or reordered; the loop never waits with something to send; END_STREAM only after a whole reply |

`IntMax` and `IndexMod` stand for 2^31 - 1 and 2^32. In the runs they are small
and still above every counter and expiry; `MaxNodeId` keeps the counters below
them.

### Where the code and what is said of it differ

Three runs end with a counterexample, on purpose.

| run | what happens |
|---|---|
| v_oneshot_race | thread 1 reads the file, thread 2 claims a one-shot key and saves, thread 1 installs what it read and claims the key again (state.cpp:240-258) |
| v_stream_stale | a machine registers after `on_map` has built its map and before it reads the generation: the stream counts as up to date and is not (coordinator.cpp:471, 483) |
| v_double_close | an exception in a session: `~NoiseConn` closes the descriptor and `client_thread` closes the number again, by then perhaps another connection's (coordinator.cpp:252) |

Further behaviours of the model, and of the code, that bound what is stated:

- The reload race also drops a key that is created between the read and the
  install, so `DenialHonest` speaks of keys that are in memory.
- `preauth create` beside a running server: the server's next save removes the
  tool's key from the file, and the tool's save removes registrations made since
  it started. `AddressForLife` is therefore checked without the tool;
  `UniqueIdentity` holds with it.
- Overlapping saves of the two processes, and a full disk, can leave a file that
  is mixed, truncated or empty. The properties of save_file are about the time
  between saves that nothing disturbed, and say nothing of a file after one that
  was, until the next good one.
- A one-shot key whose claim could not be saved stays marked in memory and is
  spent by the next save; `DenialHonest` is checked without failing saves.
- An expiry beyond the range of an int is read back as another number
  (state.cpp:30).
- A read-only map request sets its node online and bumps nothing
  (coordinator.cpp:458); `RefreshedFresh` allows a peer that has come online to
  be shown as offline, and no other difference.
- `RefreshedFresh` is about streams refreshed by a tick, because of v_stream_stale.
- `import_state` replaces keys and nodes by the snapshot's, and neither saves, nor
  calls the hook, nor bumps the generation (coordinator.cpp:161). An older
  snapshot brings back a key that was spent, takes registrations away and leaves
  streams with peers that are gone, so what is stated of histories and of streams
  is stated without imports; what is stated of images holds with them.
- The online flag is part of the state file (state.cpp:117, 151). After a crash
  the machines that were connected are shown as online until they have come back
  and left again.
- A machine that reconnects before its old session ends is marked offline by the
  old session (coordinator.cpp:378).
- The limit on a request's head counts the bytes of a body that came in the same
  `recv` (http1.cpp:80); `HeadDecided` says so.
- After a start that failed half way, `start` fails again until `stop` is called.

### Bounds

- store_images and the runs of Coordinator have two machines, enough for a
  collision; their configured address has host bits set. coord_register has a
  block with one host, so that the second registration finds the range used up.
  store_keys, about keys, has one machine and a block without hosts (a /32):
  every registration throws, and moves the counters. v_oneshot_race has none.
- Two keys: one spent while the other is created or reloaded. coord_isolation has
  three, so that two groups exist beside the bootstrap key.
- `MaxNow` 4 with an expiry 2 after creation at 1: before, at and after the expiry.
- `MaxEvents` (5 to 7): connections, requests, resets and departures. Six
  suffice for one machine to stream while another joins or comes back.
- save_file: two processes, three saves of one or two blocks, four inodes. A save
  is interrupted by another, follows one that died, or replaces the file under a
  reload; four inodes are the file, the temporary file, one that a stream still
  holds, and a new one.
- service: two starts (one fails or is stopped, the next one must find everything
  free), two clients and two descriptors. Queries have names of up to three bytes
  from an alphabet with every kind of first byte, and longer ones chosen for
  pointer chains, compressed ends and the hop limit, which is 4 instead of 16.
  Queries and clients do not overlap: they share nothing that changes.
- v_double_close: three connections over two descriptors, so that a number is
  used again.
- session: records of two bytes, a buffer of three, writes of up to three, four
  bytes altogether: writes of several records, and a buffer that is not a
  multiple of a record. Heads have up to three bytes before the empty line,
  `recv` returns up to three, and the limit is six: the empty line is split at
  each place and the limit met, missed by one, and exceeded. Two server keys.
- h2_streams: two streams, four units, a window and a chunk of two: a body that
  needs two reads, a push into a half-read buffer, a window that closes in
  between.

Symmetry is used in coord_isolation (machines, threads, keys and tokens), over
sets whose members nothing tells apart. Deadlock is not checked where the model
comes to a proper end: a destroyed coordinator or an ended connection (service,
v_double_close, session, h2_streams), or the last of the bounded saves
(save_file).

### Fairness

- coord_fanout: weak fairness of each connection's own steps (`ServeNext`), and
  nothing of clients, crashes or operators. The thread is the operating system's
  to schedule, no lock is held across a wait, and `poll` in `H2Server::run`
  returns after a second at most.
- session: a `recv` with bytes in flight returns, and a reader with a record on
  the wire reads it. Nothing is assumed of writers and clients.
- service: the embedder's thread goes on inside stop; a loop goes on between its
  calls; a call on a socket that was shut down returns. A call on an open socket
  need never return. That `shutdown` wakes `accept` and `recvfrom` is what Linux
  does, for an unconnected UDP socket too; `StopReturns` rests on it.

The code gives none of this to a client that stops in the middle of a head or a
record: `recv` and `read_full` block without a timeout. The liveness properties
are about clients that send whole ones.

## What is proved

All theorems hold for any values of the constants that satisfy the named
assumptions, which TLC evaluates in the runs.

`StoreProofs`, from `StoreAssumption`: `StoreInductive` (`[]StoreIInv`),
`StoreTyped` (`[]StoreTypeOK`), `IdentityUnique` (`[]UniqueIdentity`) and
`PrefixKept` (`[]AddressesInPrefix`). `UniqueIdentity` alone is not inductive. A
new node takes its id and its addresses from the counters, so ids in use must be
below `next_node_id_`. Addresses come from the other counter, `next_ip_index_`;
the two move together, even when `address_for` throws, so they are equal, and a
node's addresses are those of its id. An id that was given to a node is an index
`address_for` accepted, which is what `PrefixKept` needs (with `AddressInBlock`).
And since any of the four images may become the memory (a restart takes the
file, an import the snapshot, a save of the tool changes the file), all four have
to satisfy this: `ImageOK`, for `mem`, `disk`, `held` and `cli.img`, is
`StoreIInv`. Lemmas `KeysReplaced`, `NodeReplaced`, `NodeAppended`, `IndexLost`
and `SnapshotApplied` say which changes keep an image safe; `AdminStep`,
`ThreadStep`, `NodeStep` and `ProcessStep` show that each action makes one of
those changes. `SnapshotApplied` needs that counters below `IntMax` survive being
read as an int, hence `MaxNodeId < IntMax`: the theorems are about stores with
fewer than 2^31 - 1 registrations.

`StoreProofs` also holds what the modules below share: the invariants about
copies of keys and of nodes (`KeyIInv`, `ChainOK`, `AckedOK`), and for each action
of Store what it does to the copies.

`StoreHistoryProofs`, about what callers are told over time. Every theorem names
what it needs besides `StoreAssumption`: the situations listed above in which the
code does not promise the property, and nothing about sizes.

| theorem | states | needs |
|---|---|---|
| `KeysInductive` | every key in every copy is one that was created | |
| `ClaimsHonest` | `ClaimHonest` | the clock fits an int (until 2038) |
| `DenialsHonest` | `DenialHonest` | saves succeed, expiries fit an int |
| `OneShotKeys` | `[]OneShotOnce` | `Alone`: no tool, no import, one consuming thread if there is a file |
| `GroupsStable` | `GroupStable` | no import |
| `AddressesForLife` | `[]AddressForLife` | no import, no tool, a file if the server may die |
| `HookSeesAll` | `HookSeesEveryMutation` | a hook, saves succeed, expiries fit an int, and no reload: no file, or no consuming thread |

- A restart, a reload or an import may make any vector of keys the current one:
  the memory's, the file's, the snapshot's, the tool's, and those that a thread
  has read and not yet installed (`KeyVectors`). Each step copies vectors, through
  JSON or not (`Copies`), or creates one key (`Mints`), or marks one (`Marks`), so
  it is enough that these three keep what `KeyIInv` says of every key of every
  vector: it was created, with this group and this expiry or what an int makes of
  it, and is marked as used only if it was accepted.
- `OneShotOnce` also needs the other direction, that no vector which may be read
  again offers a spent key (`SpentIInv`). That fails with two consuming threads
  (v_oneshot_race), with the tool, and with an import of an older snapshot. It
  survives failed saves and crashes because a claim is only acknowledged after
  its save.
- Nodes are never removed from the memory except by a restart or an import.
  `ChainOK` says that, without imports, the tool's nodes are among the file's and
  the file's among the memory's, up to what `register_node` may change (`Kin`,
  `Within`). With it a restart cannot bring back another group or address.
  `AckedOK` adds that an address that was handed out is in the memory and in the
  file.

`CoordinatorProofs` and, for the maps that are sent, `MapProofs`, about
`Coordinator`, for any number of connections, machines and requests:

| theorem | states | needs |
|---|---|---|
| `CoordinatorInductive` | `[]CoordIInv` | |
| `CoordinatorTyped` | `[]TypeOK` | |
| `CoordinatorKeepsStore` | `[](StoreTypeOK /\ UniqueIdentity /\ AddressesInPrefix)` | |
| `CoordinatorGroupsStable` | `GroupStable` | no import |
| `CoordinatorAddressesForLife` | `[]AddressForLife` | no import, a file if the server may die |
| `NodesAreClaimed` | `[]NodesClaimed` | no import |
| `GroupsIsolated` (MapProofs) | `[]Isolation` | no import |
| `OnlineIsServed` | `[]OnlineServed` | no import, no crash, saves succeed |
| `RefreshedIsFresh` (MapProofs) | `[]RefreshedFresh` | no import, saves succeed |

A step of the coordinator is one of the store's, or leaves the store alone, or
drops the result of a call that was over (`CoordMoves`), so the store's
invariants carry over; `ThreadsOK` says which locals a thread has at each point
of its program. What is new is what a thread holds while others run:

- `NodesAreClaimed`: a thread between `consume_preauth` and `register_node` holds a
  claim that some accepted key gave out, or its machine has been registered
  meanwhile (`ClaimHeld`).
- `GroupsIsolated`: the copy of its own node from which a thread builds a map is
  kin to the entry in the store (`SelfOK`), and a map that was built stays one of
  machines that may meet, since groups never change (`MapsOK`).
- `OnlineIsServed`: `set_node_online` is called with TRUE only by a thread that
  serves the machine, and a session that ends calls it with FALSE before it is
  over. A crash, a failed save and an import each skip or undo that call.
- `RefreshedIsFresh`: every change that peers see is followed by a bump, and the
  property asks nothing while one is due. So `FreshStep` needs that a step which
  makes the generation current for a stream also gives it the current peers: a
  tick reads the generation before the store (`GensOK`), and between its two
  reads either nothing that is seen has changed, or a bump is due, or the
  generation has moved on. `ImageDistinct` is what makes the peers a function of
  the store. Failed saves are excluded because one leaves the change in memory
  and skips the bump.

The values of the constants in the runs satisfy the hypotheses of the theorems
about the properties they check.

`SaveFileProofs`, from `SaveFileAssumption`: `SaveInductive` (`[]SaveIInv`),
`LastSaveKept` (`[]LastSaveStands`), `ReloadReadsWhole` (`[]ReloadWhole`),
`FreshStartFirst` (`FreshOnlyFirst`) and `FileImplementsRegister` (the refinement
of StateFile). `LastSaveStands` needs to know that no unfinished save writes to
the inode behind the state file's name, and that a save which will count as good
at its rename has, in the temporary file, exactly the blocks it has written so
far. That holds only of a save that no other has overlapped, so `SaveOK` says it
of those (`intact`), and that such a save is the only one. For the refinement
each action either leaves the register as it is or is the rename, which makes it
a later snapshot or, after a disturbance, damaged. A reload is about an inode
that may have lost its name: `ReloadOK` says that the inode it opened holds the
whole snapshot, that no save writes to it and none will, since it is not the
temporary one, and that what was read is a beginning of it.

`ServerProofs`, from `LifecycleAssumption`, `DnsAssumption` (a name may have at
least one step) and `ServiceAssumption` (a datagram is a sequence of bytes), about `LifeSpec` (the coordinator
without its clients): `LifeInductive` (`[]LifeIInv`), `StopLeavesNothing`
(`[]StoppedClean`), `StartLosesNoThread` (`[]NoThreadLost`) and `StartIsSafe`
(`[]Serves`). `LifeIInv`
says for each point of start and stop which members are set and which threads
exist; the loops themselves only move their own program counters and end only
when their flag is set.

About the client threads: `SocketsClosed` (`[]NoLeak`), and `SocketKept`: `KeepsSocket`,
which v_double_close violates, holds if no session ends in an exception. The
invariant ties every owned descriptor to a thread that is still serving it and
back.

About `Service`: `ServiceIsLifecycle` (`Spec => LifeSpec`) and `ServiceIsConnection`
(`Spec => ConnSpec`), from which `ServiceSafe` has all of these invariants of the
whole process. `QueriesAnswered` (`[]DnsAnswers`) is the correctness of
`MagicDns::answer` for any datagram, any nodes, any domain and any limit on hops
(`Answers`). It needs induction over the rounds of the loop. The library's
induction takes an operator, which the provers cannot instantiate, so `Induction`
states it of a set of numbers, from the well-ordering of the naturals
(`LeastNat`); `Iterated` has from it that a function defined by its previous value
exists and `Carried` that what a step keeps holds at every value. The invariant of
the loop (`RoundOK`) compares its locals with the reference: before the name is
decided, `off` is where the reader is after as many steps, `name` is what it has
spelled, and `jumped` and `end` are about the first pointer it came by.

`H2Proofs`, from `H2Assumption`: `SessionTyped` (`[]TypeOK`), `UnitsInOrder`
(`[]InOrder`), `NeverStuck` (`[]Flushed`) and `EndsWhole` (`[]EofComplete`). `H2IInv` restates the sequences
unit by unit: unit i of what was sent is i, and the unread part of a buffer goes
on from there (`BufferOK`, `SentOK`). `Flushed` needs besides that a provider is
deferred only while its buffer is read up (`ProviderOK`), which `push_data` keeps
because it resumes, and that a stream in `live` is streaming and has not ended.
Lemma `DataRead` says once what the callback leaves behind.

`NoiseProofs`, from `NoiseAssumption` and `HttpAssumption`, about `Session`:

- `HeadsDecided` (`[]HeadDecided`). `FindEnd` shows that `find_end` returns the
  first place of an empty line, or 0 if there is none; that a first one exists is
  the well-ordering of the naturals (`LeastNat`). The rest is that a beginning of
  the bytes sent has an empty line exactly where the whole has one and that fits
  into it (`EndFound`).
- `EndsAgree` (`[]Agree`) and `HandshakeIsDecided` (`HandshakeDecides`).
  `HandshakeIInv` says at each stage what the two ends have computed from which
  keys. `AcceptedIs` is the heart: an initiation that the server accepts is the
  one that was sent, for the key the server has, because the sealed machine
  key opens only under the hash of the version, the server's key and the ephemeral
  key, an altered box does not open at all, and terms are equal only if made alike (`HashInjective`, `SealInjective`,
  `DecryptsOnly`). `FinishAgrees` is the same for the response. Nothing is assumed
  of the keys, not even that they differ.
- `NoncesOnce` (`[]NonceOnce`), `BytesInOrder` (`[]Prefix`) and `PollSeesAll`
  (`[]Drained`). Nonces grow along the wire; a whole record whose successor has
  the next nonce is continued by it, byte for byte (`WireOK`); and the same at the
  two ends (`EndsOK`): the record with the nonce the reader expects starts behind
  what the reader has. A failed send breaks the chain of nonces or leaves a torn
  record, either of which the reader does not get past. The handshake does not
  matter to this: its steps leave both ends' counters alone. `Drained` rests on
  `kMaxPlaintext <= BufSize`, part of the assumption.

Every safety property of the runs has a theorem. Only model-checked is liveness
(`FanoutConverges`, `HeadEnds`, `Delivers`, `StopReturns`): fairness is about
ENABLED, which the prover does not handle.

## What is left out

Of parts that are modelled:

- A loss of power: nothing in the code calls `fsync`, and what then remains of a
  file is up to the file system. A crash is the end of a process.
- Host names (but in DNS answers), the disco key, the ephemeral flag and stable
  ids: stored and copied, and read by nothing that is checked. The noise key is in
  Session only.
- Reading a malformed or foreign state file; snapshots that wirebone did not write.
- Prefix length 0, and prefixes of IPv6 longer than 96.
- An exception that a handler throws passes through nghttp2's C frames; it is
  modelled as plain unwinding.
- A hook that calls back into the coordinator would block on `mu_`.
- Entries of `live` that are never removed are modelled, and bounded by
  `MaxStreams`.
- Client threads that outlive the destructor: what they then read is undefined.
- A `std::thread` that cannot be created inside `accept_loop` ends the process.
- The strength of the cryptography: a term is known only to those who have its
  arguments because nothing in the model takes terms apart.
- More than one altered field in a handshake message.

## Not modelled, and why

- `run()`, which `main serve` uses in place of `run_async`: the same accept loop
  on the calling thread, which ends only with the process.
- `query_get`, `end_stream`, `on_extra`, `find_by_node`: no caller.
- `encode_map_frame`, keepalives, the DERP map and the constant parts of a map:
  they turn values into bytes and change no state.
- Texts: keys and their prefixes, hexadecimal, the parsing of prefixes, JSON,
  HTTP statuses and headers, the byte layout of DNS answers, command line
  options. Each is a conversion that one call settles, and unit tests reach it.
- Random numbers. `random_token` is taken not to repeat itself.
- The rest of the C API, which copies arguments and results.
