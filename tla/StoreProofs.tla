---------------------------- MODULE StoreProofs -----------------------------
(***************************************************************************)
(* Proofs about Store for every value of its constants, and the lemmas that*)
(* the proofs about the coordinator share with them.                       *)
(*                                                                         *)
(* Images: StoreIInv is inductive, and UniqueIdentity, the types and the   *)
(* prefix follow.  Any of the four images may become the memory, so each   *)
(* has to be one that is safe to go on from (ImageOK).                     *)
(*                                                                         *)
(* Copies: a vector of keys is only ever a copy of another one, read back  *)
(* from JSON or not, with at most one key appended or marked, so what holds*)
(* of every key of every copy is inductive (KeyIInv).  A vector of nodes is*)
(* only ever a beginning of the server's: the command line tool's image is *)
(* within the file's, and the file's within the memory's (ChainOK).        *)
(***************************************************************************)
EXTENDS Store, TLAPS

-----------------------------------------------------------------------------
\* A vector after one of its entries was replaced.
LEMMA Replaced ==
    ASSUME NEW S, NEW s \in Seq(S), NEW i \in DOMAIN s, NEW e \in S
    PROVE  [s EXCEPT ![i] = e] \in Seq(S) /\ DOMAIN [s EXCEPT ![i] = e] = DOMAIN s
OBVIOUS

\* A vector after push_back.
LEMMA PushedBack ==
    ASSUME NEW S, NEW s \in Seq(S), NEW e \in S
    PROVE  /\ Append(s, e) \in Seq(S) /\ Len(s) \in Nat
           /\ DOMAIN s = 1..Len(s) /\ DOMAIN Append(s, e) = 1..(Len(s) + 1)
           /\ \A i \in 1..Len(s) : Append(s, e)[i] = s[i]
           /\ Append(s, e)[Len(s) + 1] = e
OBVIOUS

-----------------------------------------------------------------------------
\* Different host indices give different addresses (address_for).
LEMMA AddressesDiffer ==
    ASSUME NEW i \in Nat, NEW j \in Nat
    PROVE  /\ address_for(Ipv4, Ipv6, i) \in Addresses
           /\ i # j => /\ address_for(Ipv4, Ipv6, i).v4 # address_for(Ipv4, Ipv6, j).v4
                       /\ address_for(Ipv4, Ipv6, i).v6 # address_for(Ipv4, Ipv6, j).v6
<1>1. Ipv4.addr \in Int /\ Ipv4.block \in Nat \ {0} /\ Ipv6 \in [hi : Int, lo : Int]
  BY StoreAssumption DEF Ipv4Cidrs, Ipv6Cidrs
<1>2. Ipv4.addr % Ipv4.block \in Int
  BY <1>1
<1>3. ipv4_base(Ipv4) \in Int
  BY <1>1, <1>2 DEF ipv4_base
<1> QED
  BY <1>1, <1>3 DEF address_for, Addresses, Ipv6Cidrs

\* Masking a number's remainder off leaves a multiple of the divisor, and the
\* numbers up to the next multiple have its quotient.
LEMMA Masked ==
    ASSUME NEW a \in Nat, NEW b \in Nat \ {0}
    PROVE  a \div b \in Int /\ a - (a % b) = b * (a \div b)
OBVIOUS

\* An index that address_for accepts gives an address of the prefix, and not
\* the first one.
LEMMA AddressInBlock ==
    ASSUME NEW id \in Nat, id # 0, id <= ipv4_hosts(Ipv4)
    PROVE  LET a == address_for(Ipv4, Ipv6, id)
           IN  /\ a.v4 \div Ipv4.block = Ipv4.addr \div Ipv4.block
               /\ a.v4 % Ipv4.block # 0
               /\ a.v6.hi = Ipv6.hi
<1> DEFINE b == Ipv4.block
           q == Ipv4.addr \div b
<1>1. Ipv4.addr \in Nat /\ b \in Nat \ {0} /\ Ipv6 \in [hi : Int, lo : Int]
  BY StoreAssumption DEF Ipv4Cidrs, Ipv6Cidrs
<1>2. q \in Int /\ Ipv4.addr - (Ipv4.addr % b) = b * q
  BY <1>1, Masked, Zenon
<1>3. id \in 1..(b - 1)
  BY <1>1 DEF ipv4_hosts
<1>4. address_for(Ipv4, Ipv6, id).v4 = b * q + id /\ address_for(Ipv4, Ipv6, id).v6.hi = Ipv6.hi
  BY <1>1, <1>2 DEF address_for, ipv4_base
<1>5. (b * q + id) \div b = q /\ (b * q + id) % b = id
  <2> HIDE DEF b, q
  <2> QED
    BY ONLY <1>1, <1>2, <1>3
<1> QED
  BY <1>3, <1>4, <1>5

\* Reading back a number from JSON yields a number, and the same one when it
\* fits an int (json::value with an int default).
LEMMA ToIntFacts ==
    ASSUME NEW x \in Int
    PROVE  /\ ToInt(x) \in Int
           /\ x <= IntMax => ToInt(x) = x
<1>1. IntMax \in Nat
  BY StoreAssumption
<1>2. (x + IntMax + 1) % (2 * (IntMax + 1)) \in Int
  BY <1>1
<1> QED
  BY <1>1, <1>2 DEF ToInt

\* A vector of keys read back from JSON is a vector of keys.
LEMMA KeysFromJsonType ==
    ASSUME NEW s \in Seq(PreauthKey)
    PROVE  keys_from_json(s) \in Seq(PreauthKey)
<1>1. ASSUME NEW k \in PreauthKey PROVE key_from_json(k) \in PreauthKey
  BY ToIntFacts DEF key_from_json, PreauthKey
<1>2. \A i \in 1..Len(s) : key_from_json(s[i]) \in PreauthKey
  BY <1>1
<1>3. keys_from_json(s) = [i \in 1..Len(s) |-> key_from_json(s[i])]
  BY DEF keys_from_json
<1> QED
  BY <1>2, <1>3

\* What an image that is safe to go on from consists of.
LEMMA ImageTyped ==
    ASSUME NEW img, ImageOK(img)
    PROVE  /\ img \in Image
           /\ img.keys \in Seq(PreauthKey) /\ img.nodes \in Seq(NodeState)
           /\ img.next_node_id \in Nat /\ img.next_ip_index = img.next_node_id
BY DEF ImageOK, Image

\* ... and no two of its entries are of one machine.
LEMMA OneEntry ==
    ASSUME NEW img, ImageOK(img), NEW i \in DOMAIN img.nodes, NEW j \in DOMAIN img.nodes,
           img.nodes[i].machine_key = img.nodes[j].machine_key
    PROVE  i = j
BY DEF ImageOK

-----------------------------------------------------------------------------
\* ImageOK does not depend on the keys.
LEMMA KeysReplaced ==
    ASSUME NEW img, ImageOK(img), NEW ks \in Seq(PreauthKey)
    PROVE  ImageOK([img EXCEPT !.keys = ks])
BY SMTT(20) DEF ImageOK, Image

\* A node may be changed as long as its machine key, id and addresses stay.
LEMMA NodeReplaced ==
    ASSUME NEW img, ImageOK(img), NEW i \in DOMAIN img.nodes, NEW n \in NodeState,
           n.machine_key = img.nodes[i].machine_key,
           n.id = img.nodes[i].id, n.ip = img.nodes[i].ip
    PROVE  ImageOK([img EXCEPT !.nodes[i] = n])
<1> DEFINE s == [img.nodes EXCEPT ![i] = n]
           r == [img EXCEPT !.nodes = s]
<1>1. img \in Image /\ img.nodes \in Seq(NodeState)
  BY DEF ImageOK, Image
<1>2. s \in Seq(NodeState) /\ DOMAIN s = DOMAIN img.nodes
  BY <1>1, Replaced
<1>3. \A j \in DOMAIN s : /\ s[j].machine_key = img.nodes[j].machine_key
                          /\ s[j].id = img.nodes[j].id
                          /\ s[j].ip = img.nodes[j].ip
  BY <1>1
<1>4. /\ r \in Image /\ r.nodes = s
      /\ r.next_node_id = img.next_node_id
      /\ r.next_ip_index = img.next_ip_index
  BY <1>1, <1>2, Zenon DEF Image
<1>5. ImageOK(r)
  <2> HIDE DEF s, r
  <2> QED
    BY <1>2, <1>3, <1>4 DEF ImageOK
<1> QED
  BY <1>5, <1>1 DEF Image

\* A node whose id is the counter's, and whose addresses are those of its id,
\* may be appended when its machine is new, if both counters move past it.
LEMMA NodeAppended ==
    ASSUME NEW img, ImageOK(img), NEW n \in NodeState, ~known(img, n.machine_key),
           n.id = img.next_node_id, n.ip = address_for(Ipv4, Ipv6, n.id),
           n.id <= ipv4_hosts(Ipv4),
           img.next_node_id <= MaxNodeId,
           NEW r, r = [next_node_id |-> img.next_node_id + 1,
                       next_ip_index |-> img.next_node_id + 1,
                       keys |-> img.keys, nodes |-> Append(img.nodes, n)]
    PROVE  ImageOK(r)
<1> DEFINE s == Append(img.nodes, n)
           e == Len(img.nodes) + 1
<1>1. /\ img \in Image /\ img.nodes \in Seq(NodeState) /\ img.keys \in Seq(PreauthKey)
      /\ img.next_node_id \in Nat /\ Len(img.nodes) \in Nat /\ MaxNodeId \in Nat
  BY StoreAssumption DEF ImageOK, Image
<1>2. /\ s \in Seq(NodeState) /\ DOMAIN s = 1..e
      /\ DOMAIN img.nodes = 1..Len(img.nodes)
      /\ \A i \in 1..Len(img.nodes) : s[i] = img.nodes[i]
      /\ s[e] = n
  BY <1>1, PushedBack
<1>3. r \in Image
  BY <1>1, <1>2 DEF Image
<1>4. r.nodes = s /\ r.next_node_id = img.next_node_id + 1 /\ r.next_ip_index = r.next_node_id
  OBVIOUS
<1>5. \A i \in 1..Len(img.nodes) :
          /\ img.nodes[i].machine_key # n.machine_key
          /\ img.nodes[i].id \in 1..(img.next_node_id - 1)
          /\ img.nodes[i].id <= ipv4_hosts(Ipv4)
          /\ img.nodes[i].ip = address_for(Ipv4, Ipv6, img.nodes[i].id)
  BY <1>2 DEF known, ImageOK
<1>6. \A i, j \in 1..Len(img.nodes) :
          i # j => /\ img.nodes[i].machine_key # img.nodes[j].machine_key
                   /\ img.nodes[i].id # img.nodes[j].id
  BY <1>2, Zenon DEF ImageOK
<1>7. img.next_node_id >= 1
  BY DEF ImageOK
<1> HIDE DEF s, e
<1>8. \A i \in 1..e : i \in 1..Len(img.nodes) \/ i = e
  BY <1>1 DEF e
<1>9. ASSUME NEW i \in 1..e
      PROVE  /\ s[i].id \in 1..img.next_node_id /\ s[i].id <= ipv4_hosts(Ipv4)
             /\ s[i].ip = address_for(Ipv4, Ipv6, s[i].id)
  <2>1. CASE i = e
    BY <2>1, <1>1, <1>2, <1>7
  <2>2. CASE i \in 1..Len(img.nodes)
    <3>1. s[i] = img.nodes[i]
      BY <2>2, <1>2
    <3> QED
      BY <2>2, <3>1, <1>1, <1>5
  <2> QED
    BY <2>1, <2>2, <1>8
<1>10. \A i, j \in 1..e :
           i # j => s[i].machine_key # s[j].machine_key /\ s[i].id # s[j].id
  <2>1. \A k \in 1..Len(img.nodes) : s[k].machine_key # s[e].machine_key /\ s[k].id # s[e].id
    <3> SUFFICES ASSUME NEW k \in 1..Len(img.nodes)
                 PROVE  s[k].machine_key # s[e].machine_key /\ s[k].id # s[e].id
      OBVIOUS
    <3>1. s[k] = img.nodes[k] /\ s[e] = n
      BY <1>2
    <3>2. img.nodes[k].id \in 1..(img.next_node_id - 1)
      BY <1>5
    <3>3. img.next_node_id \in Nat
      BY <1>1
    <3>4. img.nodes[k].id # img.next_node_id
      BY ONLY <3>2, <3>3
    <3> QED
      BY <3>1, <3>4, <1>5
  <2>2. \A k, l \in 1..Len(img.nodes) :
            k # l => s[k].machine_key # s[l].machine_key /\ s[k].id # s[l].id
    BY <1>2, <1>6, Zenon
  <2> QED
    BY <2>1, <2>2, <1>8
<1>11. /\ r.next_node_id \in 1..(MaxNodeId + 1)
       /\ img.next_node_id = r.next_node_id - 1
       /\ DOMAIN r.nodes = 1..e
  <2>1. img.next_node_id <= MaxNodeId
    OBVIOUS
  <2> QED
    BY ONLY <2>1, <1>1, <1>2, <1>4, <1>7
<1>12. \A i \in DOMAIN r.nodes :
           /\ r.nodes[i].id \in 1..(r.next_node_id - 1)
           /\ r.nodes[i].id <= ipv4_hosts(Ipv4)
           /\ r.nodes[i].ip = address_for(Ipv4, Ipv6, r.nodes[i].id)
  BY <1>4, <1>9, <1>11, Zenon
<1>13. \A i, j \in DOMAIN r.nodes :
           i # j => /\ r.nodes[i].machine_key # r.nodes[j].machine_key
                    /\ r.nodes[i].id # r.nodes[j].id
  BY ONLY <1>4, <1>10, <1>11
<1> QED
  BY <1>3, <1>4, <1>11, <1>12, <1>13, Zenon DEF ImageOK

\* An image may lose a pair of indices without using them (register_node when
\* address_for throws).
LEMMA IndexLost ==
    ASSUME NEW img, ImageOK(img), img.next_node_id <= MaxNodeId,
           NEW r, r = [next_node_id |-> img.next_node_id + 1,
                       next_ip_index |-> img.next_node_id + 1,
                       keys |-> img.keys, nodes |-> img.nodes]
    PROVE  ImageOK(r)
BY StoreAssumption DEF ImageOK, Image

\* Reading an image back from its snapshot keeps it safe and changes no node:
\* its ids and counters are below IntMax, so they survive the reading as an int.
LEMMA SnapshotApplied ==
    ASSUME NEW img, ImageOK(img)
    PROVE  /\ ImageOK(apply_snapshot_locked(img))
           /\ apply_snapshot_locked(img) = [img EXCEPT !.keys = keys_from_json(img.keys)]
<1>1. /\ img \in Image /\ img.nodes \in Seq(NodeState) /\ img.keys \in Seq(PreauthKey)
      /\ img.next_node_id \in Nat /\ img.next_ip_index \in Nat
      /\ MaxNodeId \in Nat /\ IntMax \in Nat /\ MaxNodeId < IntMax
  BY StoreAssumption DEF ImageOK, Image
<1>2. img.next_node_id <= IntMax /\ img.next_ip_index <= IntMax
  BY <1>1 DEF ImageOK
<1>3. ToInt(img.next_node_id) = img.next_node_id /\ ToInt(img.next_ip_index) = img.next_ip_index
  BY <1>1, <1>2, ToIntFacts
<1>4. \A i \in DOMAIN img.nodes : [img.nodes[i] EXCEPT !.id = ToInt(@)] = img.nodes[i]
  <2> SUFFICES ASSUME NEW i \in DOMAIN img.nodes
               PROVE  [img.nodes[i] EXCEPT !.id = ToInt(@)] = img.nodes[i]
    OBVIOUS
  <2>1. img.nodes[i] \in NodeState
    BY <1>1
  <2>2. img.nodes[i].id \in Int /\ img.nodes[i].id <= IntMax
    BY <1>1, <1>2, <2>1 DEF ImageOK
  <2>3. ToInt(img.nodes[i].id) = img.nodes[i].id
    BY <2>2, ToIntFacts
  <2> QED
    BY <2>1, <2>3 DEF NodeState
<1>5. [i \in DOMAIN img.nodes |-> [img.nodes[i] EXCEPT !.id = ToInt(@)]] = img.nodes
  <2>1. img.nodes = [i \in DOMAIN img.nodes |-> img.nodes[i]]
    BY <1>1
  <2> QED
    BY <2>1, <1>4, Zenon
<1>6. keys_from_json(img.keys) \in Seq(PreauthKey)
  BY <1>1, KeysFromJsonType
<1>7. apply_snapshot_locked(img) = [img EXCEPT !.keys = keys_from_json(img.keys)]
  BY <1>1, <1>3, <1>5 DEF apply_snapshot_locked, Image
<1> QED
  BY <1>6, <1>7, KeysReplaced

-----------------------------------------------------------------------------
\* The part of StoreIInv that is not about the store's own three images.
CallersOK ==
    /\ cli \in [active : BOOLEAN, img : Image] /\ ImageOK(cli.img)
    /\ call \in [Threads -> Call]
    /\ now \in Nat
    /\ minted \subseteq PreauthKey
    /\ claims \in [KeyIds -> 0..2]
    /\ acked \in [Machines -> SUBSET Addresses]

\* The invariant, as one fact per image of the server and one for its callers
\* (mem, disk, held; everything else is in CallersOK).
LEMMA StoreIInvParts ==
    StoreIInv <=> ImageOK(mem) /\ ImageOK(disk) /\ ImageOK(held) /\ CallersOK
BY ImageTyped DEF StoreIInv, StoreTypeOK, CallersOK

\* The same about the state after a step, in the direction the steps need.
LEMMA StoreIInvNext ==
    ImageOK(mem)' /\ ImageOK(disk)' /\ ImageOK(held)' /\ CallersOK' => StoreIInv'
BY ImageTyped DEF StoreIInv, StoreTypeOK, CallersOK

\* A step that sets mu_'s state to a safe image leaves it safe.
LEMMA MemNext ==
    ASSUME NEW img, ImageOK(img), mem' = img
    PROVE  ImageOK(mem)'
OBVIOUS

\* The same for the state file.
LEMMA DiskNext ==
    ASSUME NEW img, ImageOK(img), disk' = img
    PROVE  ImageOK(disk)'
OBVIOUS

\* The same for the embedder's snapshot.
LEMMA HeldNext ==
    ASSUME NEW img, ImageOK(img), held' = img
    PROVE  ImageOK(held)'
OBVIOUS

\* The same for the command line tool's memory.
LEMMA CliNext ==
    ASSUME NEW img, ImageOK(img), cli'.img = img
    PROVE  ImageOK(cli.img)'
OBVIOUS

\* A step that changes nothing keeps the invariant.
LEMMA Stutter ==
    ASSUME StoreIInv, UNCHANGED store_vars
    PROVE  StoreIInv'
<1>1. ImageOK(mem) /\ ImageOK(disk) /\ ImageOK(held) /\ CallersOK
  BY StoreIInvParts
<1>2. UNCHANGED <<mem, disk, held, cli, call, now, minted, claims, acked>>
  BY DEF store_vars
<1>3. ImageOK(mem)'
  BY <1>1, <1>2, MemNext
<1>4. ImageOK(disk)' /\ ImageOK(held)'
  BY <1>1, <1>2, DiskNext, HeldNext
<1>5. ImageOK(cli.img)'
  BY <1>1, <1>2, CliNext DEF CallersOK
<1>6. CallersOK'
  BY <1>1, <1>2, <1>5 DEF CallersOK
<1> QED
  BY <1>3, <1>4, <1>6, StoreIInvNext

\* The counters after a registration that found room for them.
LEMMA CountedIs ==
    ASSUME ImageOK(mem), mem.next_node_id <= MaxNodeId
    PROVE  /\ counted = [next_node_id |-> mem.next_node_id + 1,
                         next_ip_index |-> mem.next_node_id + 1,
                         keys |-> mem.keys, nodes |-> mem.nodes]
           /\ \A n : [counted EXCEPT !.nodes = Append(@, n)]
                     = [next_node_id |-> mem.next_node_id + 1,
                        next_ip_index |-> mem.next_node_id + 1,
                        keys |-> mem.keys, nodes |-> Append(mem.nodes, n)]
<1>1. /\ mem.next_node_id \in Nat /\ mem.next_ip_index = mem.next_node_id
      /\ mem = [next_node_id |-> mem.next_node_id, next_ip_index |-> mem.next_ip_index,
                keys |-> mem.keys, nodes |-> mem.nodes]
  BY DEF ImageOK, Image
<1>2. (mem.next_ip_index + 1) % IndexMod = mem.next_node_id + 1
  BY <1>1, StoreAssumption
<1>3. counted = [mem EXCEPT !.next_node_id = @ + 1, !.next_ip_index = mem.next_node_id + 1]
  BY <1>2, Zenon DEF counted
<1> DEFINE a == mem.next_node_id + 1
<1>4. counted = [next_node_id |-> a, next_ip_index |-> a, keys |-> mem.keys, nodes |-> mem.nodes]
  BY <1>1, <1>3, Zenon
<1> HIDE DEF a
<1>5. ASSUME NEW n
      PROVE  [counted EXCEPT !.nodes = Append(@, n)]
             = [next_node_id |-> a, next_ip_index |-> a, keys |-> mem.keys,
                nodes |-> Append(mem.nodes, n)]
  BY <1>4, SMTT(20)
<1>6. \A n : [counted EXCEPT !.nodes = Append(@, n)]
               = [next_node_id |-> a, next_ip_index |-> a, keys |-> mem.keys,
                  nodes |-> Append(mem.nodes, n)]
  BY ONLY <1>5, Zenon
<1> QED
  BY ONLY <1>4, <1>6, Zenon DEF a

\* save_locked leaves safe images behind when it saves one, whether or not it
\* throws.
LEMMA Saved ==
    ASSUME ImageOK(disk), ImageOK(held), NEW img, ImageOK(img), NEW ok,
           save_locked(img, ok)
    PROVE  ImageOK(mem)' /\ ImageOK(disk)' /\ ImageOK(held)'
<1>1. mem' = img /\ disk' \in {img, disk} /\ held' \in {img, held}
  BY DEF save_locked
<1> QED
  BY <1>1, MemNext, DiskNext, HeldNext

\* A new key has the type of a key.
LEMMA NewKeyType ==
    ASSUME now \in Nat, NEW k \in KeyIds, NEW expiration \in Nat,
           NEW reusable \in BOOLEAN, NEW token \in Tokens \cup {Empty},
           NEW shared \in BOOLEAN \cup {Unset}
    PROVE  new_key(k, [reusable |-> reusable, expiration |-> expiration,
                       token |-> token, shared |-> shared]) \in PreauthKey
<1> DEFINE expires == IF expiration > 0 THEN now + expiration ELSE 0
<1>1. resolve_shared(token, shared) \in BOOLEAN
  BY Zenon DEF resolve_shared
<1>2. expires \in Int
  OBVIOUS
<1>3. new_key(k, [reusable |-> reusable, expiration |-> expiration,
                  token |-> token, shared |-> shared])
      = [key |-> k, reusable |-> reusable, used |-> FALSE, expires_unix |-> expires,
         token |-> token, shared |-> resolve_shared(token, shared)]
  BY DEF new_key
<1> HIDE DEF expires
<1>4. ASSUME NEW b \in BOOLEAN, NEW x \in Int
      PROVE  [key |-> k, reusable |-> reusable, used |-> FALSE, expires_unix |-> x,
              token |-> token, shared |-> b] \in PreauthKey
  BY DEF PreauthKey
<1> QED
  BY <1>1, <1>2, <1>3, <1>4, Zenon

\* The image of a store that has no state file is safe.
LEMMA EmptyImageOK == ImageOK(EmptyImage) /\ EmptyImage \in Image
BY StoreAssumption DEF ImageOK, EmptyImage, Image

\* The image after construction is safe, and so is the file.
LEMMA Constructed ==
    ASSUME CallersOK, ImageOK(disk), NEW k \in KeyIds
    PROVE  /\ ImageOK(constructed(load_or_init, k))
           /\ construct(load_or_init, k) =>
                  /\ ImageOK(disk)'
                  /\ minted' \subseteq PreauthKey
<1> DEFINE img == load_or_init
<1>1. ImageOK(img)
  BY EmptyImageOK, SnapshotApplied DEF load_or_init
<1> HIDE DEF img
<1>2. bootstrap_key(k) \in PreauthKey
  BY NewKeyType, Zenon DEF bootstrap_key, CallersOK
<1>3. ImageOK(constructed(img, k))
  <2>1. <<bootstrap_key(k)>> \in Seq(PreauthKey)
    BY <1>2
  <2> QED
    BY <1>1, <2>1, KeysReplaced, Zenon DEF constructed
<1>4. ASSUME construct(img, k)
      PROVE  ImageOK(disk)' /\ minted' \subseteq PreauthKey
  <2>1. disk' \in {disk, constructed(img, k)}
    BY <1>4 DEF construct
  <2>2. ImageOK(disk)'
    BY <2>1, <1>3
  <2>3. minted' \subseteq minted \cup {bootstrap_key(k)}
    BY <1>4 DEF construct
  <2>4. bootstrap_key(k) \in PreauthKey
    BY <1>2
  <2> QED
    BY <2>2, <2>3, <2>4 DEF CallersOK
<1> QED
  BY <1>3, <1>4 DEF img

\* A fresh server satisfies the invariant.
LEMMA StoreInitOK == StoreInit => StoreIInv
<1> SUFFICES ASSUME StoreInit PROVE StoreIInv
  OBVIOUS
<1>1. ImageOK(EmptyImage)
  BY EmptyImageOK
<1>2. PICK k \in KeyIds :
          /\ mem = [EmptyImage EXCEPT !.keys = <<bootstrap_key(k)>>]
          /\ minted = {bootstrap_key(k)}
  BY Zenon DEF StoreInit
<1>3. bootstrap_key(k) \in PreauthKey
  BY NewKeyType, Zenon DEF bootstrap_key, StoreInit
<1>4. ImageOK(mem)
  <2>1. <<bootstrap_key(k)>> \in Seq(PreauthKey)
    BY <1>3
  <2> QED
    BY <1>1, <1>2, <2>1, KeysReplaced, Zenon
<1>5. ImageOK(disk) /\ ImageOK(held) /\ ImageOK(cli.img)
  BY <1>1, <1>4 DEF StoreInit
<1>6. cli \in [active : BOOLEAN, img : Image]
  BY <1>1, ImageTyped DEF StoreInit
<1>7. Idle \in Call
  BY DEF Idle, Call, NoClaim, PreauthClaim, Steps
<1>8. minted \subseteq PreauthKey
  BY <1>2, <1>3
<1>9. /\ call \in [Threads -> Call] /\ now \in Nat
      /\ claims \in [KeyIds -> 0..2] /\ acked \in [Machines -> SUBSET Addresses]
  BY <1>7 DEF StoreInit
<1> QED
  BY <1>4, <1>5, <1>6, <1>8, <1>9, StoreIInvParts DEF CallersOK

-----------------------------------------------------------------------------
\* The operators' calls.
LEMMA AdminStep == StoreIInv /\ AdminNext => StoreIInv'
<1> SUFFICES ASSUME StoreIInv, AdminNext PROVE StoreIInv'
  OBVIOUS
<1>0. ImageOK(mem) /\ ImageOK(disk) /\ ImageOK(held) /\ CallersOK
  BY StoreIInvParts
<1>1. ASSUME NEW k \in KeyIds, NEW o \in KeyOptions, NEW ok \in BOOLEAN,
             create_preauth_key(k, o, ok)
      PROVE  StoreIInv'
  <2> DEFINE p == new_key(k, o)
  <2>1. p \in PreauthKey
    <3>1. /\ o = [reusable |-> o.reusable, expiration |-> o.expiration,
                  token |-> o.token, shared |-> o.shared]
          /\ o.reusable \in BOOLEAN /\ o.expiration \in Nat
          /\ o.token \in Tokens \cup {Empty} /\ o.shared \in BOOLEAN \cup {Unset}
      BY StoreAssumption
    <3> QED
      BY <1>0, <3>1, NewKeyType DEF CallersOK
  <2> HIDE DEF p
  <2>2. Append(mem.keys, p) \in Seq(PreauthKey)
    BY <1>0, <2>1, ImageTyped
  <2>3. ImageOK([mem EXCEPT !.keys = Append(@, p)])
    BY <1>0, <2>2, KeysReplaced, Zenon
  <2>4. ImageOK(mem)' /\ ImageOK(disk)' /\ ImageOK(held)'
    BY <1>0, <1>1, <2>3, Saved DEF create_preauth_key, p
  <2>5. CallersOK'
    <3>1. minted' = minted \cup {p} /\ UNCHANGED <<cli, call, now, claims, acked>>
      BY <1>1 DEF create_preauth_key, p
    <3>2. p \in PreauthKey
      BY <2>1
    <3> QED
      <4>1. ImageOK(cli.img)'
        BY <1>0, <3>1, CliNext DEF CallersOK
      <4> QED
        BY <1>0, <3>1, <3>2, <4>1 DEF CallersOK
  <2> QED
    BY <2>4, <2>5, StoreIInvNext
<1>2. ASSUME NEW ok \in BOOLEAN, persist(ok) PROVE StoreIInv'
  <2>1. ImageOK(mem)' /\ ImageOK(disk)' /\ ImageOK(held)'
    BY <1>0, <1>2, Saved DEF persist
  <2>2. CallersOK'
    <3>1. ImageOK(cli.img)'
      BY <1>0, <1>2, CliNext DEF persist, CallersOK
    <3> QED
      BY <1>0, <1>2, <3>1 DEF persist, CallersOK
  <2> QED
    BY <2>1, <2>2, StoreIInvNext
<1>3. CASE dump_json
  <2>1. held' = mem /\ UNCHANGED <<mem, disk, cli, call, now, minted, claims, acked>>
    BY <1>3 DEF dump_json
  <2>2. ImageOK(mem)' /\ ImageOK(disk)' /\ ImageOK(held)'
    BY <1>0, <2>1, MemNext, DiskNext, HeldNext
  <2>3. ImageOK(cli.img)'
    BY <1>0, <2>1, CliNext DEF CallersOK
  <2>4. CallersOK'
    BY <1>0, <2>1, <2>3 DEF CallersOK
  <2> QED
    BY <2>2, <2>4, StoreIInvNext
<1>4. CASE load_json
  <2>1. ImageOK(apply_snapshot_locked(held))
    BY <1>0, SnapshotApplied
  <2>2. mem' = apply_snapshot_locked(held) /\ UNCHANGED <<disk, held, cli, call, now, minted, claims, acked>>
    BY <1>4 DEF load_json
  <2>3. ImageOK(mem)' /\ ImageOK(disk)' /\ ImageOK(held)'
    BY <1>0, <2>1, <2>2, MemNext, DiskNext, HeldNext
  <2>4. ImageOK(cli.img)'
    BY <1>0, <2>2, CliNext DEF CallersOK
  <2>5. CallersOK'
    BY <1>0, <2>2, <2>4 DEF CallersOK
  <2> QED
    BY <2>3, <2>5, StoreIInvNext
<1> QED
  BY <1>1, <1>2, <1>3, <1>4 DEF AdminNext

\* consume_preauth.
LEMMA ThreadStep ==
    ASSUME StoreIInv, NEW t \in Threads, ThreadNext(t)
    PROVE  StoreIInv'
<1>0. /\ ImageOK(mem) /\ ImageOK(disk) /\ ImageOK(held) /\ CallersOK
      /\ call \in [Threads -> Call] /\ call[t] \in Call
      /\ mem.keys \in Seq(PreauthKey) /\ disk.keys \in Seq(PreauthKey)
  BY StoreIInvParts, ImageTyped DEF CallersOK
<1>a. ASSUME NEW c \in Call, call' = [call EXCEPT ![t] = c],
             UNCHANGED <<cli, now, minted, acked>>, claims' \in [KeyIds -> 0..2]
      PROVE  CallersOK'
  <2>1. ImageOK(cli.img)'
    BY <1>0, <1>a, CliNext DEF CallersOK
  <2> QED
    BY <1>0, <1>a, <2>1 DEF CallersOK
<1>b. <<>> \in Seq(PreauthKey)
  OBVIOUS
<1>1. ASSUME NEW k \in KeyIds, consume_preauth(t, k) PROVE StoreIInv'
  <2> DEFINE c == [Idle EXCEPT !.step = IF HasPath THEN "read" ELSE "mark", !.key = k]
  <2>1. c \in Call
    BY <1>b, Zenon DEF Idle, Call, NoClaim, PreauthClaim, Steps
  <2>2. call' = [call EXCEPT ![t] = c] /\ UNCHANGED <<mem, disk, held, cli, now, minted, claims, acked>>
    BY <1>1 DEF consume_preauth
  <2> HIDE DEF c
  <2>3. CallersOK'
    BY <1>0, <1>a, <2>1, <2>2 DEF CallersOK
  <2> QED
    BY <1>0, <2>2, <2>3, StoreIInvNext, MemNext, DiskNext, HeldNext
<1>2. CASE reload_read(t)
  <2> DEFINE c == [call[t] EXCEPT !.step = "install", !.seen = disk.keys]
  <2>1. c \in Call
    BY <1>0, Zenon DEF Call, Steps
  <2>2. call' = [call EXCEPT ![t] = c] /\ UNCHANGED <<mem, disk, held, cli, now, minted, claims, acked>>
    BY <1>0, <1>2, Zenon DEF reload_read
  <2> HIDE DEF c
  <2>3. CallersOK'
    BY <1>0, <1>a, <2>1, <2>2 DEF CallersOK
  <2> QED
    BY <1>0, <2>2, <2>3, StoreIInvNext, MemNext, DiskNext, HeldNext
<1>6. CASE reload_skip(t)
  <2> DEFINE c == [call[t] EXCEPT !.step = "mark"]
  <2>1. c \in Call
    BY <1>0 DEF Call, Steps
  <2>2. call' = [call EXCEPT ![t] = c] /\ UNCHANGED <<mem, disk, held, cli, now, minted, claims, acked>>
    BY <1>0, <1>6 DEF reload_skip
  <2> HIDE DEF c
  <2>3. CallersOK'
    BY <1>0, <1>a, <2>1, <2>2 DEF CallersOK
  <2> QED
    BY <1>0, <2>2, <2>3, StoreIInvNext, MemNext, DiskNext, HeldNext
<1>3. CASE reload_install(t)
  <2> DEFINE c == [call[t] EXCEPT !.step = "mark", !.seen = <<>>]
             img == [mem EXCEPT !.keys = keys_from_json(call[t].seen)]
  <2>1. c \in Call
    BY <1>0, <1>b, Zenon DEF Call, Steps
  <2>2. call[t].seen \in Seq(PreauthKey)
    BY <1>0 DEF Call
  <2>3. ImageOK(img)
    BY <1>0, <2>2, KeysFromJsonType, KeysReplaced
  <2>4. /\ call' = [call EXCEPT ![t] = c] /\ mem' = img
        /\ UNCHANGED <<disk, held, cli, now, minted, claims, acked>>
    BY <1>0, <1>3, Zenon DEF reload_install
  <2> HIDE DEF c, img
  <2>5. CallersOK'
    BY <1>0, <1>a, <2>1, <2>4 DEF CallersOK
  <2> QED
    BY <1>0, <2>3, <2>4, <2>5, StoreIInvNext, MemNext, DiskNext, HeldNext
<1>4. ASSUME NEW ok \in BOOLEAN, consume_claim(t, ok) PROVE StoreIInv'
  <2>1. PICK i \in DOMAIN mem.keys :
            /\ save_locked([mem EXCEPT !.keys[i].used = TRUE], ok)
            /\ call' = [call EXCEPT
                   ![t].step = IF ok THEN "claimed" ELSE "threw",
                   ![t].claim = [token |-> mem.keys[i].token, shared |-> mem.keys[i].shared]]
            /\ claims' = IF ok THEN [claims EXCEPT ![call[t].key] = IF @ = 0 THEN 1 ELSE 2] ELSE claims
            /\ UNCHANGED <<cli, now, minted, acked>>
    BY <1>4, Zenon DEF consume_claim
  <2> DEFINE c == [call[t] EXCEPT
                      !.step = IF ok THEN "claimed" ELSE "threw",
                      !.claim = [token |-> mem.keys[i].token, shared |-> mem.keys[i].shared]]
             ks == [mem.keys EXCEPT ![i].used = TRUE]
  <2>2. mem.keys[i] \in PreauthKey
    BY <1>0
  <2>3. ks \in Seq(PreauthKey)
    <3>1. [mem.keys[i] EXCEPT !.used = TRUE] \in PreauthKey
      BY <2>2, Zenon DEF PreauthKey
    <3> QED
      BY <1>0, <3>1, Replaced
  <2>4. ImageOK([mem EXCEPT !.keys[i].used = TRUE])
    BY <1>0, <2>3, KeysReplaced, Zenon
  <2>5. ImageOK(mem)' /\ ImageOK(disk)' /\ ImageOK(held)'
    BY <1>0, <2>1, <2>4, Saved
  <2>6. c \in Call
    BY <1>0, <2>2, Zenon DEF Call, Steps, PreauthClaim, PreauthKey
  <2>7. call' = [call EXCEPT ![t] = c]
    BY <1>0, <2>1, Zenon
  <2>8. claims' \in [KeyIds -> 0..2]
    <3>1. claims \in [KeyIds -> 0..2]
      BY <1>0 DEF CallersOK
    <3>2. ASSUME NEW x, NEW v \in 0..2 PROVE [claims EXCEPT ![x] = v] \in [KeyIds -> 0..2]
      BY <3>1, Zenon
    <3>3. (IF claims[call[t].key] = 0 THEN 1 ELSE 2) \in 0..2
      OBVIOUS
    <3> QED
      BY <2>1, <3>1, <3>2, <3>3
  <2> HIDE DEF c
  <2>9. CallersOK'
    BY <1>a, <2>1, <2>6, <2>7, <2>8, Zenon
  <2> QED
    BY <2>5, <2>9, StoreIInvNext
<1>5. CASE consume_deny(t)
  <2> DEFINE c == [call[t] EXCEPT !.step = "denied"]
  <2>1. c \in Call
    BY <1>0 DEF Call, Steps
  <2>2. call' = [call EXCEPT ![t] = c] /\ UNCHANGED <<mem, disk, held, cli, now, minted, claims, acked>>
    BY <1>0, <1>5 DEF consume_deny
  <2> HIDE DEF c
  <2>3. CallersOK'
    BY <1>0, <1>a, <2>1, <2>2 DEF CallersOK
  <2> QED
    BY <1>0, <2>2, <2>3, StoreIInvNext, MemNext, DiskNext, HeldNext
<1> QED
  BY <1>1, <1>2, <1>3, <1>4, <1>5, <1>6 DEF ThreadNext

-----------------------------------------------------------------------------
\* register_node, update_map_info and set_online.
LEMMA NodeStep ==
    ASSUME StoreIInv, NEW m \in Machines, NodeNext(m)
    PROVE  StoreIInv'
<1>0. /\ ImageOK(mem) /\ ImageOK(disk) /\ ImageOK(held) /\ CallersOK
      /\ mem \in Image /\ mem.nodes \in Seq(NodeState)
      /\ acked \in [Machines -> SUBSET Addresses]
  BY StoreIInvParts, ImageTyped DEF CallersOK
<1>a. ASSUME UNCHANGED <<cli, call, now, minted, claims>>,
             acked' \in [Machines -> SUBSET Addresses]
      PROVE  CallersOK'
  <2>1. ImageOK(cli.img)'
    BY <1>0, <1>a, CliNext DEF CallersOK
  <2> QED
    BY <1>0, <1>a, <2>1 DEF CallersOK
<1>b. ASSUME NEW i \in DOMAIN mem.nodes
      PROVE  mem.nodes[i] \in NodeState
  BY <1>0
<1>1. ASSUME NEW nk \in NodeKeys, NEW ok \in BOOLEAN, register_existing(m, nk, ok)
      PROVE  StoreIInv'
  <2>1. PICK i \in DOMAIN mem.nodes :
            /\ save_locked([mem EXCEPT !.nodes[i].node_key = nk], ok)
            /\ acked' = IF ok THEN [acked EXCEPT ![m] = @ \cup {mem.nodes[i].ip}] ELSE acked
            /\ UNCHANGED <<cli, call, now, minted, claims>>
    BY <1>1, Zenon DEF register_existing
  <2> DEFINE n == [mem.nodes[i] EXCEPT !.node_key = nk]
  <2>2. n \in NodeState /\ n.machine_key = mem.nodes[i].machine_key
        /\ n.id = mem.nodes[i].id /\ n.ip = mem.nodes[i].ip
    BY <1>b DEF NodeState
  <2>3. ImageOK([mem EXCEPT !.nodes[i] = n])
    <3> HIDE DEF n
    <3> QED
      BY <1>0, <2>2, NodeReplaced
  <2>4. ImageOK(mem)' /\ ImageOK(disk)' /\ ImageOK(held)'
    BY <1>0, <2>1, <2>3, Saved
  <2>5. mem.nodes[i].ip \in Addresses
    BY <1>b DEF NodeState
  <2>6. acked' \in [Machines -> SUBSET Addresses]
    BY <1>0, <2>1, <2>5
  <2> QED
    BY <1>a, <2>1, <2>4, <2>6, StoreIInvNext
<1>2. ASSUME NEW nk \in NodeKeys, NEW claim \in PreauthClaim, NEW ok \in BOOLEAN,
             register_new(m, nk, claim, ok)
      PROVE  StoreIInv'
  <2> DEFINE n == new_node(m, nk, claim)
  <2>1. /\ ~known(mem, m) /\ mem.next_node_id <= MaxNodeId
        /\ index_in_range(Ipv4, mem.next_ip_index)
        /\ save_locked([counted EXCEPT !.nodes = Append(@, n)], ok)
        /\ acked' = IF ok THEN [acked EXCEPT ![m] = @ \cup {n.ip}] ELSE acked
        /\ UNCHANGED <<cli, call, now, minted, claims>>
    BY <1>2 DEF register_new
  <2>2. /\ mem.next_node_id \in Nat /\ mem.next_ip_index = mem.next_node_id
        /\ address_for(Ipv4, Ipv6, mem.next_node_id) \in Addresses
    BY <1>0, ImageTyped, AddressesDiffer
  <2>3. /\ n \in NodeState /\ n.machine_key = m /\ n.id = mem.next_node_id
        /\ n.ip = address_for(Ipv4, Ipv6, n.id) /\ n.ip \in Addresses
        /\ n.id <= ipv4_hosts(Ipv4)
    BY <2>1, <2>2 DEF new_node, NodeState, PreauthClaim, index_in_range
  <2> HIDE DEF n
  <2>5. [counted EXCEPT !.nodes = Append(@, n)]
        = [next_node_id |-> mem.next_node_id + 1, next_ip_index |-> mem.next_node_id + 1,
           keys |-> mem.keys, nodes |-> Append(mem.nodes, n)]
    BY <1>0, <2>1, CountedIs, Zenon
  <2>6. ImageOK([counted EXCEPT !.nodes = Append(@, n)])
    BY <1>0, <2>1, <2>3, <2>5, NodeAppended
  <2>7. ImageOK(mem)' /\ ImageOK(disk)' /\ ImageOK(held)'
    BY <1>0, <2>1, <2>6, Saved
  <2>8. acked' \in [Machines -> SUBSET Addresses]
    BY <1>0, <2>1, <2>3
  <2> QED
    BY <1>a, <2>1, <2>7, <2>8, StoreIInvNext
<1>3. CASE register_full(m)
  <2>1. /\ mem.next_node_id <= MaxNodeId /\ mem' = counted
        /\ UNCHANGED <<disk, held, cli, call, now, minted, claims, acked>>
    BY <1>3 DEF register_full
  <2>4. counted = [next_node_id |-> mem.next_node_id + 1,
                   next_ip_index |-> mem.next_node_id + 1,
                   keys |-> mem.keys, nodes |-> mem.nodes]
    BY <1>0, <2>1, CountedIs
  <2>5. ImageOK(counted)
    BY <1>0, <2>1, <2>4, IndexLost
  <2>6. ImageOK(mem)' /\ ImageOK(disk)' /\ ImageOK(held)'
    BY <1>0, <2>1, <2>5, MemNext, DiskNext, HeldNext
  <2> QED
    BY <1>0, <1>a, <2>1, <2>6, StoreIInvNext
<1>4. ASSUME NEW nk \in NodeKeys \cup {Empty}, NEW eps \in Endpoints \cup {Empty},
             NEW ok \in BOOLEAN, update_map_info(m, nk, eps, ok)
      PROVE  StoreIInv'
  <2>1. CASE UNCHANGED store_vars
    BY <2>1, Stutter
  <2>2. CASE \E i \in DOMAIN mem.nodes :
                 /\ save_locked([mem EXCEPT
                        !.nodes[i].node_key = IF nk = Empty THEN @ ELSE nk,
                        !.nodes[i].endpoints = eps,
                        !.nodes[i].online = TRUE], ok)
                 /\ UNCHANGED <<cli, call, now, minted, claims, acked>>
    <3>1. PICK i \in DOMAIN mem.nodes :
              /\ save_locked([mem EXCEPT
                     !.nodes[i].node_key = IF nk = Empty THEN @ ELSE nk,
                     !.nodes[i].endpoints = eps,
                     !.nodes[i].online = TRUE], ok)
              /\ UNCHANGED <<cli, call, now, minted, claims, acked>>
      BY <2>2, Zenon
    <3> DEFINE n == [mem.nodes[i] EXCEPT !.node_key = IF nk = Empty THEN @ ELSE nk,
                                         !.endpoints = eps, !.online = TRUE]
    <3>2. n \in NodeState /\ n.machine_key = mem.nodes[i].machine_key
          /\ n.id = mem.nodes[i].id /\ n.ip = mem.nodes[i].ip
      BY <1>b, Zenon DEF NodeState
    <3>3. [mem EXCEPT !.nodes[i].node_key = IF nk = Empty THEN @ ELSE nk,
                      !.nodes[i].endpoints = eps,
                      !.nodes[i].online = TRUE] = [mem EXCEPT !.nodes[i] = n]
      BY <1>0, <1>b, ZenonT(30) DEF Image, NodeState
    <3> HIDE DEF n
    <3>4. ImageOK([mem EXCEPT !.nodes[i] = n])
      BY <1>0, <3>2, NodeReplaced
    <3>5. ImageOK(mem)' /\ ImageOK(disk)' /\ ImageOK(held)'
      BY <1>0, <3>1, <3>3, <3>4, Saved
    <3> QED
      BY <1>0, <1>a, <3>1, <3>5, StoreIInvNext
  <2> QED
    BY <1>4, <2>1, <2>2, Zenon DEF update_map_info
<1>5. ASSUME NEW online \in BOOLEAN, set_online(m, online) PROVE StoreIInv'
  <2>1. CASE UNCHANGED store_vars
    BY <2>1, Stutter
  <2>2. ASSUME NEW i \in DOMAIN mem.nodes,
               mem' = [mem EXCEPT !.nodes[i].online = online],
               UNCHANGED <<disk, held, cli, call, now, minted, claims, acked>>
        PROVE  StoreIInv'
    <3> DEFINE n == [mem.nodes[i] EXCEPT !.online = online]
    <3>1. n \in NodeState /\ n.machine_key = mem.nodes[i].machine_key
          /\ n.id = mem.nodes[i].id /\ n.ip = mem.nodes[i].ip
      BY <1>b DEF NodeState
    <3>2. mem' = [mem EXCEPT !.nodes[i] = n]
      BY <2>2
    <3> HIDE DEF n
    <3>3. ImageOK([mem EXCEPT !.nodes[i] = n])
      BY <1>0, <3>1, NodeReplaced
    <3>4. ImageOK(mem)' /\ ImageOK(disk)' /\ ImageOK(held)'
      <4>1. ImageOK(mem)'
        BY <3>2, <3>3, MemNext
      <4>2. ImageOK(disk)' /\ ImageOK(held)'
        BY <1>0, <2>2, DiskNext, HeldNext
      <4> QED
        BY <4>1, <4>2
    <3> QED
      BY <1>0, <1>a, <2>2, <3>4, StoreIInvNext
  <2> QED
    BY <1>5, <2>1, <2>2 DEF set_online
<1> QED
  BY <1>1, <1>2, <1>3, <1>4, <1>5 DEF NodeNext

-----------------------------------------------------------------------------
\* Crashes, the command line tool and the clock.
LEMMA ProcessStep == StoreIInv /\ ProcessNext => StoreIInv'
<1> SUFFICES ASSUME StoreIInv, ProcessNext PROVE StoreIInv'
  OBVIOUS
<1>0. ImageOK(mem) /\ ImageOK(disk) /\ ImageOK(held) /\ CallersOK
  BY StoreIInvParts
<1>a. ImageOK(EmptyImage) /\ EmptyImage \in Image
  BY EmptyImageOK
<1>1. ASSUME NEW k \in KeyIds, restart(k) PROVE StoreIInv'
  <2>1. /\ ImageOK(constructed(load_or_init, k)) /\ ImageOK(disk)'
        /\ minted' \subseteq PreauthKey
    BY <1>0, <1>1, Constructed DEF restart
  <2>2. ImageOK(mem)'
    BY <1>1, <2>1, MemNext DEF restart
  <2>3. Idle \in Call
    BY DEF Idle, Call, NoClaim, PreauthClaim, Steps
  <2>4. call' \in [Threads -> Call]
    BY <1>1, <2>3 DEF restart
  <2>5. ImageOK(held)'
    BY <1>0, <1>1, HeldNext DEF restart
  <2>6. ImageOK(cli.img)'
    BY <1>0, <1>1, CliNext DEF restart, CallersOK
  <2>7. CallersOK'
    BY <1>0, <1>1, <2>1, <2>4, <2>6 DEF restart, CallersOK
  <2> QED
    BY <2>1, <2>2, <2>5, <2>7, StoreIInvNext
<1>2. ASSUME NEW k \in KeyIds, cli_start(k) PROVE StoreIInv'
  <2> DEFINE img == constructed(load_or_init, k)
  <2>1. /\ ImageOK(img) /\ ImageOK(disk)'
        /\ minted' \subseteq PreauthKey
    BY <1>0, <1>2, Constructed DEF cli_start
  <2>2. /\ cli' = [active |-> TRUE, img |-> img]
        /\ UNCHANGED <<mem, held, call, now, claims, acked>>
    BY <1>2 DEF cli_start
  <2> HIDE DEF img
  <2>3. cli' \in [active : BOOLEAN, img : Image] /\ ImageOK(cli.img)'
    <3>1. img \in Image
      BY <2>1, ImageTyped
    <3>2. cli'.img = img /\ cli' \in [active : BOOLEAN, img : Image]
      BY <2>2, <3>1
    <3> QED
      BY <2>1, <3>2, CliNext
  <2>4. ImageOK(mem)' /\ ImageOK(held)'
    BY <1>0, <2>2, MemNext, HeldNext
  <2>5. CallersOK'
    BY <1>0, <2>1, <2>2, <2>3 DEF CallersOK
  <2> QED
    BY <2>1, <2>4, <2>5, StoreIInvNext
<1>3. ASSUME NEW k \in KeyIds, NEW o \in KeyOptions, cli_create(k, o) PROVE StoreIInv'
  <2> DEFINE p == new_key(k, [o EXCEPT !.expiration = 0])
             ks == Append(cli.img.keys, p)
             img == [cli.img EXCEPT !.keys = ks]
  <2>1. p \in PreauthKey
    <3>1. /\ [o EXCEPT !.expiration = 0]
             = [reusable |-> o.reusable, expiration |-> 0,
                token |-> o.token, shared |-> o.shared]
          /\ o.reusable \in BOOLEAN
          /\ o.token \in Tokens \cup {Empty} /\ o.shared \in BOOLEAN \cup {Unset}
      BY StoreAssumption
    <3> QED
      BY <1>0, <3>1, NewKeyType DEF CallersOK
  <2>2. /\ disk' = img
        /\ minted' = minted \cup {p}
        /\ cli' = [active |-> FALSE, img |-> EmptyImage]
        /\ UNCHANGED <<mem, held, call, now, claims, acked>>
    BY <1>3 DEF cli_create
  <2> HIDE DEF p
  <2>3. ks \in Seq(PreauthKey)
    BY <1>0, <2>1, ImageTyped DEF CallersOK
  <2> HIDE DEF ks
  <2>4. ImageOK(img)
    BY <1>0, <2>3, KeysReplaced DEF CallersOK
  <2> HIDE DEF img
  <2>5. ImageOK(mem)' /\ ImageOK(disk)' /\ ImageOK(held)'
    BY <1>0, <2>2, <2>4, MemNext, DiskNext, HeldNext
  <2>6. cli' \in [active : BOOLEAN, img : Image] /\ ImageOK(cli.img)'
    <3>1. cli'.img = EmptyImage /\ cli' \in [active : BOOLEAN, img : Image]
      BY <1>a, <2>2
    <3> QED
      BY <1>a, <3>1, CliNext
  <2>7. minted' \subseteq PreauthKey
    <3>1. p \in PreauthKey
      BY <2>1
    <3> QED
      BY <1>0, <2>2, <3>1 DEF CallersOK
  <2>8. CallersOK'
    BY <1>0, <2>2, <2>6, <2>7 DEF CallersOK
  <2> QED
    BY <2>5, <2>8, StoreIInvNext
<1>4. CASE cli_exit
  <2>1. /\ cli' = [active |-> FALSE, img |-> EmptyImage]
        /\ UNCHANGED <<mem, disk, held, call, now, minted, claims, acked>>
    BY <1>4 DEF cli_exit
  <2>2. cli' \in [active : BOOLEAN, img : Image] /\ ImageOK(cli.img)'
    <3>1. cli'.img = EmptyImage /\ cli' \in [active : BOOLEAN, img : Image]
      BY <1>a, <2>1
    <3> QED
      BY <1>a, <3>1, CliNext
  <2>3. ImageOK(mem)' /\ ImageOK(disk)' /\ ImageOK(held)'
    BY <1>0, <2>1, MemNext, DiskNext, HeldNext
  <2>4. CallersOK'
    BY <1>0, <2>1, <2>2 DEF CallersOK
  <2> QED
    BY <2>3, <2>4, StoreIInvNext
<1>5. CASE clock_tick
  <2>1. now' \in Nat /\ UNCHANGED <<mem, disk, held, cli, call, minted, claims, acked>>
    BY <1>0, <1>5 DEF clock_tick, CallersOK
  <2> QED
    <3>1. ImageOK(cli.img)'
      BY <1>0, <2>1, CliNext DEF CallersOK
    <3>2. CallersOK'
      BY <1>0, <2>1, <3>1 DEF CallersOK
    <3> QED
      BY <1>0, <2>1, <3>2, StoreIInvNext, MemNext, DiskNext, HeldNext
<1> QED
  BY <1>1, <1>2, <1>3, <1>4, <1>5 DEF ProcessNext

-----------------------------------------------------------------------------
\* The invariant is inductive: every reachable store is safe to go on from, in
\* memory, in its file, in the embedder's snapshot and in the command line
\* tool's memory.
THEOREM StoreInductive == StoreSpec => []StoreIInv
<1>1. StoreIInv /\ [StoreNext]_store_vars => StoreIInv'
  <2> SUFFICES ASSUME StoreIInv, [StoreNext]_store_vars PROVE StoreIInv'
    OBVIOUS
  <2>1. CASE UNCHANGED store_vars
    BY <2>1, Stutter
  <2>2. CASE StoreNext
    BY <2>2, AdminStep, ThreadStep, NodeStep, ProcessStep DEF StoreNext
  <2> QED
    BY <2>1, <2>2
<1> QED
  BY <1>1, StoreInitOK, PTL DEF StoreSpec

\* Every variable of the store keeps its type.
THEOREM StoreTyped == StoreSpec => []StoreTypeOK
<1>1. StoreIInv => StoreTypeOK
  BY DEF StoreIInv
<1> QED
  BY <1>1, StoreInductive, PTL

\* Images that are safe to go on from have distinct machines, ids and addresses.
LEMMA SafeUnique == StoreIInv => UniqueIdentity
<1> SUFFICES ASSUME ImageOK(mem), NEW i \in DOMAIN mem.nodes, NEW j \in DOMAIN mem.nodes, i # j
             PROVE  /\ mem.nodes[i].machine_key # mem.nodes[j].machine_key
                    /\ mem.nodes[i].id # mem.nodes[j].id
                    /\ mem.nodes[i].ip.v4 # mem.nodes[j].ip.v4
                    /\ mem.nodes[i].ip.v6 # mem.nodes[j].ip.v6
  BY DEF StoreIInv, UniqueIdentity
<1>1. /\ mem.nodes[i].machine_key # mem.nodes[j].machine_key
      /\ mem.nodes[i].id # mem.nodes[j].id
      /\ mem.nodes[i].id \in Nat /\ mem.nodes[j].id \in Nat
      /\ mem.nodes[i].ip = address_for(Ipv4, Ipv6, mem.nodes[i].id)
      /\ mem.nodes[j].ip = address_for(Ipv4, Ipv6, mem.nodes[j].id)
  BY DEF ImageOK
<1> QED
  BY <1>1, AddressesDiffer

\* ... and their addresses are in the configured prefixes.
LEMMA SafeInPrefix == StoreIInv => AddressesInPrefix
<1> SUFFICES ASSUME ImageOK(mem), NEW i \in DOMAIN mem.nodes
             PROVE  LET a == mem.nodes[i].ip
                    IN  /\ a.v4 \div Ipv4.block = Ipv4.addr \div Ipv4.block
                        /\ a.v4 % Ipv4.block # 0
                        /\ a.v6.hi = Ipv6.hi
  BY DEF StoreIInv, AddressesInPrefix
<1>1. /\ mem.nodes[i].id \in Nat \ {0} /\ mem.nodes[i].id <= ipv4_hosts(Ipv4)
      /\ mem.nodes[i].ip = address_for(Ipv4, Ipv6, mem.nodes[i].id)
  BY DEF ImageOK
<1> QED
  BY <1>1, AddressInBlock

\* No two registered nodes share a machine key, an id, an IPv4 or an IPv6
\* address, for any number of machines, keys and threads, with crashes, failed
\* saves, imports of old snapshots and writes by the command line tool.
THEOREM IdentityUnique == StoreSpec => []UniqueIdentity
BY SafeUnique, StoreInductive, PTL

\* Every registered node has an address of the configured prefix, for any
\* prefix, however many registrations failed, were lost or were imported.
THEOREM PrefixKept == StoreSpec => []AddressesInPrefix
BY SafeInPrefix, StoreInductive, PTL

\* No save throws: there is no file to write, or writing it never fails.
SavesSucceed == ~(SaveMayFail /\ HasPath)

\* No key is created with an expiry that an int cannot hold.
ExpiryFits == \A o \in KeyOptions : MaxNow + o.expiration <= IntMax

\* p is the key x as it was created, read back from JSON or not.
KeyOf(p, x) ==
    /\ p.key = x.key /\ p.reusable = x.reusable
    /\ p.token = x.token /\ p.shared = x.shared
    /\ p.expires_unix \in {x.expires_unix, ToInt(x.expires_unix)}

\* A key of a vector was created, and is marked as used only if it was
\* accepted (M is minted, C is claims).
KeyOK(p, M, C) ==
    /\ \E x \in M : KeyOf(p, x)
    /\ SavesSucceed => (p.used => C[p.key] > 0)

KeysOK(ks, M, C) ==
    /\ \A i \in DOMAIN ks : KeyOK(ks[i], M, C)
    /\ \A i, j \in DOMAIN ks : i # j => ks[i].key # ks[j].key

\* Every vector of keys that may be read again.
KeyVectors ==
    {mem.keys, disk.keys, held.keys, cli.img.keys} \cup {call[t].seen : t \in Threads}

\* The keys that were created.
MintedOK ==
    /\ \A x, y \in minted : x.key = y.key => x = y
    /\ \A x \in minted : x.expires_unix \in Nat /\ (ExpiryFits => x.expires_unix <= IntMax)
    /\ \A k \in KeyIds : claims[k] > 0 => k \in minted_ids

KeyIInv ==
    /\ now \in 1..MaxNow
    /\ MintedOK
    /\ \A ks \in KeyVectors : KeysOK(ks, minted, claims)

-----------------------------------------------------------------------------
\* Two entries for the same node: what register_node never changes is equal.
Kin(n, o) ==
    /\ n.machine_key = o.machine_key /\ n.id = o.id /\ n.ip = o.ip
    /\ n.token = o.token /\ n.shared = o.shared

\* Every node of one image is in another.
Within(a, b) ==
    \A i \in DOMAIN a.nodes : \E j \in DOMAIN b.nodes : Kin(a.nodes[i], b.nodes[j])

\* Without imports, the tool's image is never ahead of the file, nor the file
\* of the server's memory.
ChainOK ==
    /\ Within(cli.img, disk) /\ Within(disk, mem)
    /\ ~HasPath => disk.nodes = <<>> /\ ~cli.active

\* An image has a node for every address that was handed out.
Keeps(img) ==
    \A m \in Machines : \A a \in acked[m] :
        \E i \in DOMAIN img.nodes : img.nodes[i].machine_key = m /\ img.nodes[i].ip = a

AckedOK == Keeps(mem) /\ (HasPath => Keeps(disk))

-----------------------------------------------------------------------------
\* Reading a number back twice is reading it back once (json::value).
LEMMA ToIntTwice ==
    ASSUME NEW x \in Int
    PROVE  ToInt(ToInt(x)) = ToInt(x)
<1>1. IntMax \in Nat
  BY StoreAssumption
<1> DEFINE d == 2 * (IntMax + 1)
           y == x + IntMax + 1
<1>2. d \in Nat /\ d > 0 /\ y \in Int
  BY <1>1
<1>3. ToInt(x) = IF x <= IntMax THEN x ELSE (y % d) - (IntMax + 1)
  BY DEF ToInt
<1>4. y % d \in Int /\ y % d < d
  <2> HIDE DEF d, y
  <2> QED
    BY <1>2
<1>5. (y % d) - (IntMax + 1) <= IntMax
  <2>1. y % d < 2 * (IntMax + 1)
    BY <1>4
  <2> HIDE DEF d, y
  <2> QED
    BY <1>1, <1>4, <2>1
<1>6. ToInt(x) \in Int /\ ToInt(x) <= IntMax
  <2> HIDE DEF d, y
  <2> QED
    BY <1>1, <1>3, <1>4, <1>5
<1> QED
  BY <1>6, ToIntFacts

\* Every vector of keys has the type of one.
LEMMA VectorsTyped ==
    ASSUME StoreIInv
    PROVE  /\ KeyVectors \subseteq Seq(PreauthKey)
           /\ minted \subseteq PreauthKey /\ claims \in [KeyIds -> 0..2]
           /\ mem \in Image /\ disk \in Image /\ held \in Image /\ cli.img \in Image
           /\ call \in [Threads -> Call]
<1>1. /\ mem \in Image /\ disk \in Image /\ held \in Image /\ cli.img \in Image
      /\ call \in [Threads -> Call] /\ minted \subseteq PreauthKey
      /\ claims \in [KeyIds -> 0..2]
  BY DEF StoreIInv, StoreTypeOK
<1>2. \A t \in Threads : call[t].seen \in Seq(PreauthKey)
  BY <1>1 DEF Call
<1>3. /\ mem.keys \in Seq(PreauthKey) /\ disk.keys \in Seq(PreauthKey)
      /\ held.keys \in Seq(PreauthKey) /\ cli.img.keys \in Seq(PreauthKey)
  BY <1>1 DEF Image
<1> QED
  BY <1>1, <1>2, <1>3 DEF KeyVectors

-----------------------------------------------------------------------------
\* What is known of a key stays known when more keys are created or accepted.
LEMMA KeysOKGrows ==
    ASSUME NEW M, M \subseteq PreauthKey, NEW N, M \subseteq N,
           NEW C \in [KeyIds -> 0..2], NEW D \in [KeyIds -> 0..2],
           \A k \in KeyIds : C[k] > 0 => D[k] > 0,
           NEW ks \in Seq(PreauthKey), KeysOK(ks, M, C)
    PROVE  KeysOK(ks, N, D)
<1>1. ASSUME NEW i \in DOMAIN ks PROVE KeyOK(ks[i], N, D)
  <2>1. KeyOK(ks[i], M, C) /\ ks[i] \in PreauthKey
    BY <1>1 DEF KeysOK
  <2>2. ks[i].key \in KeyIds
    BY <2>1 DEF PreauthKey
  <2> QED
    BY <2>1, <2>2 DEF KeyOK
<1> QED
  BY <1>1 DEF KeysOK

\* Reading a vector back from JSON keeps what is known of its keys.
LEMMA KeysOKFromJson ==
    ASSUME NEW M, M \subseteq PreauthKey, NEW C,
           NEW ks \in Seq(PreauthKey), KeysOK(ks, M, C)
    PROVE  KeysOK(keys_from_json(ks), M, C)
<1> DEFINE s == keys_from_json(ks)
<1>1. DOMAIN s = DOMAIN ks /\ \A i \in DOMAIN ks : s[i] = key_from_json(ks[i])
  BY DEF keys_from_json
<1>2. ASSUME NEW i \in DOMAIN ks
      PROVE  /\ s[i].key = ks[i].key /\ s[i].reusable = ks[i].reusable
             /\ s[i].token = ks[i].token /\ s[i].shared = ks[i].shared
             /\ s[i].used = ks[i].used
             /\ s[i].expires_unix = ToInt(ks[i].expires_unix)
  <2>1. ks[i] \in PreauthKey /\ s[i] = key_from_json(ks[i])
    BY <1>1
  <2> HIDE DEF s
  <2> QED
    BY <2>1 DEF key_from_json, PreauthKey
<1> HIDE DEF s
<1>3. ASSUME NEW i \in DOMAIN ks PROVE KeyOK(s[i], M, C)
  <2>1. PICK x \in M : KeyOf(ks[i], x)
    BY DEF KeysOK, KeyOK
  <2>2. x.expires_unix \in Int
    BY <2>1 DEF PreauthKey
  <2>3. ToInt(ks[i].expires_unix) = ToInt(x.expires_unix)
    BY <2>1, <2>2, ToIntTwice DEF KeyOf
  <2>4. KeyOf(s[i], x)
    BY <1>2, <2>1, <2>3, Zenon DEF KeyOf
  <2>5. SavesSucceed => (ks[i].used => C[ks[i].key] > 0)
    BY DEF KeysOK, KeyOK
  <2> QED
    BY <1>2, <2>4, <2>5 DEF KeyOK
<1>4. \A i, j \in DOMAIN s : i # j => s[i].key # s[j].key
  BY <1>1, <1>2 DEF KeysOK
<1> QED
  BY <1>1, <1>3, <1>4 DEF KeysOK, s

\* A key that is new may be appended.
LEMMA KeysOKAppend ==
    ASSUME NEW M, M \subseteq PreauthKey, NEW C,
           NEW ks \in Seq(PreauthKey), KeysOK(ks, M, C),
           NEW p \in PreauthKey, \A x \in M : x.key # p.key, p.used = FALSE
    PROVE  KeysOK(Append(ks, p), M \cup {p}, C)
<1> DEFINE s == Append(ks, p)
           e == Len(ks) + 1
<1>1. /\ Len(ks) \in Nat /\ DOMAIN ks = 1..Len(ks) /\ DOMAIN s = 1..e
      /\ \A i \in 1..Len(ks) : s[i] = ks[i]
      /\ s[e] = p
  BY PushedBack
<1>2. \A i \in DOMAIN ks : KeyOK(ks[i], M, C) /\ ks[i].key # p.key
  BY DEF KeysOK, KeyOK, KeyOf
<1>3. KeyOK(p, M \cup {p}, C)
  <2>1. KeyOf(p, p)
    BY DEF KeyOf
  <2> QED
    BY <2>1 DEF KeyOK
<1>4. \A i \in DOMAIN ks : KeyOK(ks[i], M \cup {p}, C)
  BY <1>2 DEF KeyOK
<1> HIDE DEF s, e
<1>5. \A i \in 1..e : i \in 1..Len(ks) \/ i = e
  BY <1>1 DEF e
<1>6. \A i \in DOMAIN s : KeyOK(s[i], M \cup {p}, C)
  BY <1>1, <1>3, <1>4, <1>5, Zenon
<1>7. \A i, j \in DOMAIN s : i # j => s[i].key # s[j].key
  BY <1>1, <1>2, <1>5 DEF KeysOK
<1> QED
  BY <1>6, <1>7, Zenon DEF KeysOK, s

\* A key may be marked when its acceptance is counted, or a save has failed.
LEMMA KeysOKMark ==
    ASSUME NEW M, NEW C, NEW ks \in Seq(PreauthKey), KeysOK(ks, M, C),
           NEW i \in DOMAIN ks, SavesSucceed => C[ks[i].key] > 0
    PROVE  KeysOK([ks EXCEPT ![i].used = TRUE], M, C)
<1> DEFINE s == [ks EXCEPT ![i].used = TRUE]
<1>1. \A j \in DOMAIN ks : ks[j] \in PreauthKey
  OBVIOUS
<1>2. DOMAIN s = DOMAIN ks
  OBVIOUS
<1>3. ASSUME NEW j \in DOMAIN ks
      PROVE  /\ s[j].key = ks[j].key /\ s[j].reusable = ks[j].reusable
             /\ s[j].token = ks[j].token /\ s[j].shared = ks[j].shared
             /\ s[j].expires_unix = ks[j].expires_unix
             /\ j # i => s[j] = ks[j]
  BY <1>1 DEF PreauthKey
<1> HIDE DEF s
<1>4. ASSUME NEW j \in DOMAIN ks PROVE KeyOK(s[j], M, C)
  <2>1. KeyOK(ks[j], M, C)
    BY DEF KeysOK
  <2>2. \E x \in M : KeyOf(s[j], x)
    BY <1>3, <2>1, SMTT(20) DEF KeyOK, KeyOf
  <2>3. SavesSucceed => (s[j].used => C[s[j].key] > 0)
    BY <1>3, <2>1 DEF KeyOK
  <2> QED
    BY <2>2, <2>3 DEF KeyOK
<1>5. \A j, k \in DOMAIN s : j # k => s[j].key # s[k].key
  BY <1>2, <1>3 DEF KeysOK
<1> QED
  BY <1>2, <1>4, <1>5, Zenon DEF KeysOK, s

-----------------------------------------------------------------------------
\* A step that creates and accepts no key: every vector is a copy of one.
Copies ==
    /\ minted' = minted /\ claims' = claims
    /\ \A ks \in KeyVectors' : ks = <<>> \/ \E s \in KeyVectors : ks \in {s, keys_from_json(s)}

\* A step that creates the key p.
Mints(p) ==
    /\ p \in PreauthKey /\ \A x \in minted : x.key # p.key
    /\ p.used = FALSE /\ p.expires_unix \in Nat /\ (ExpiryFits => p.expires_unix <= IntMax)
    /\ minted' = minted \cup {p} /\ claims' = claims
    /\ \A ks \in KeyVectors' :
           ks \in {<<>>, <<p>>} \/ \E s \in KeyVectors : ks \in {s, Append(s, p)}

\* A step that marks key i of the memory, for a thread that is told so if ok.
Marks(t, i, ok) ==
    /\ i \in DOMAIN mem.keys /\ mem.keys[i].key = call[t].key /\ claimable(mem.keys[i])
    /\ minted' = minted
    /\ claims' = IF ok THEN [claims EXCEPT ![call[t].key] = IF @ = 0 THEN 1 ELSE 2] ELSE claims
    /\ ok \/ ~SavesSucceed
    /\ \A ks \in KeyVectors' :
           ks \in KeyVectors \/ ks = [mem.keys EXCEPT ![i].used = TRUE]

\* save_locked copies the vector of the image it saves.
LEMMA SavedKeys ==
    ASSUME NEW img, NEW ok, save_locked(img, ok)
    PROVE  /\ mem'.keys = img.keys
           /\ disk'.keys \in {disk.keys, img.keys}
           /\ held'.keys \in {held.keys, img.keys}
           /\ ok \/ ~SavesSucceed
BY DEF save_locked, SavesSucceed

\* The vectors of a state in which a call of consume_preauth has not moved.
LEMMA VectorsOf ==
    ASSUME call' = call, NEW ks \in KeyVectors'
    PROVE  \/ ks \in {mem'.keys, disk'.keys, held'.keys, cli'.img.keys}
           \/ ks \in KeyVectors
BY DEF KeyVectors

\* A new key is typed, and its expiry fits.
LEMMA NewKeyOK ==
    ASSUME now \in 1..MaxNow, NEW k \in KeyIds, k \notin minted_ids,
           NEW o \in [reusable : BOOLEAN, expiration : Nat,
                      token : Tokens \cup {Empty}, shared : BOOLEAN \cup {Unset}],
           o.expiration = 0 \/ (ExpiryFits => MaxNow + o.expiration <= IntMax)
    PROVE  LET p == new_key(k, o)
           IN  /\ p \in PreauthKey /\ p.used = FALSE /\ \A x \in minted : x.key # p.key
               /\ p.expires_unix \in Nat /\ (ExpiryFits => p.expires_unix <= IntMax)
<1> DEFINE p == new_key(k, o)
<1>1. MaxNow \in Nat /\ now \in Nat /\ IntMax \in Nat /\ now <= MaxNow
  BY StoreAssumption
<1>2. o = [reusable |-> o.reusable, expiration |-> o.expiration,
           token |-> o.token, shared |-> o.shared]
  OBVIOUS
<1>3. p \in PreauthKey
  BY <1>1, <1>2, NewKeyType
<1>4. p.key = k /\ p.used = FALSE
      /\ p.expires_unix = IF o.expiration > 0 THEN now + o.expiration ELSE 0
  BY DEF new_key
<1> HIDE DEF p
<1>5. o.expiration \in Nat
  OBVIOUS
<1>6. p.expires_unix \in Nat /\ (ExpiryFits => p.expires_unix <= IntMax)
  BY <1>1, <1>4, <1>5
<1>7. \A x \in minted : x.key # p.key
  BY <1>4 DEF minted_ids
<1> QED
  BY <1>3, <1>4, <1>6, <1>7 DEF p

\* The operators' calls copy vectors or create a key.
LEMMA AdminKeys ==
    ASSUME StoreIInv, now \in 1..MaxNow, AdminNext
    PROVE  Copies \/ \E p \in PreauthKey : Mints(p)
<1>0. /\ mem \in Image /\ held \in Image
      /\ {mem.keys, disk.keys} \subseteq KeyVectors
      /\ held.keys \in KeyVectors /\ cli.img.keys \in KeyVectors
  BY VectorsTyped DEF KeyVectors
<1>1. ASSUME NEW k \in KeyIds, NEW o \in KeyOptions, NEW ok \in BOOLEAN,
             create_preauth_key(k, o, ok)
      PROVE  \E p \in PreauthKey : Mints(p)
  <2> DEFINE p == new_key(k, o)
  <2>1. /\ k \notin minted_ids /\ minted' = minted \cup {p}
        /\ save_locked([mem EXCEPT !.keys = Append(@, p)], ok)
        /\ UNCHANGED <<cli, call, now, claims, acked>>
    BY <1>1 DEF create_preauth_key
  <2>2. /\ p \in PreauthKey /\ p.used = FALSE /\ \A x \in minted : x.key # p.key
        /\ p.expires_unix \in Nat /\ (ExpiryFits => p.expires_unix <= IntMax)
    <3>1. o \in [reusable : BOOLEAN, expiration : Nat,
                 token : Tokens \cup {Empty}, shared : BOOLEAN \cup {Unset}]
      BY StoreAssumption
    <3>2. ExpiryFits => MaxNow + o.expiration <= IntMax
      BY DEF ExpiryFits
    <3> QED
      BY <2>1, <3>1, <3>2, NewKeyOK, Zenon
  <2> HIDE DEF p
  <2>3. [mem EXCEPT !.keys = Append(@, p)].keys = Append(mem.keys, p)
    BY <1>0 DEF Image
  <2>4. /\ mem'.keys = Append(mem.keys, p)
        /\ disk'.keys \in {disk.keys, Append(mem.keys, p)}
        /\ held'.keys \in {held.keys, Append(mem.keys, p)}
    BY <2>1, <2>3, SavedKeys, Zenon
  <2>5. ASSUME NEW ks \in KeyVectors'
        PROVE  \E s \in KeyVectors : ks \in {s, Append(s, p)}
    BY <1>0, <2>1, <2>4, VectorsOf, Zenon
  <2> QED
    BY <2>1, <2>2, <2>5 DEF Mints
<1>2. ASSUME NEW ok \in BOOLEAN, persist(ok) PROVE Copies
  <2>1. save_locked(mem, ok) /\ UNCHANGED <<cli, call, now, minted, claims, acked>>
    BY <1>2 DEF persist
  <2>2. mem'.keys = mem.keys /\ disk'.keys \in {disk.keys, mem.keys}
        /\ held'.keys \in {held.keys, mem.keys}
    BY <2>1, SavedKeys
  <2> QED
    BY <1>0, <2>1, <2>2, VectorsOf DEF Copies
<1>3. CASE dump_json
  <2>1. held' = mem /\ UNCHANGED <<mem, disk, cli, call, now, minted, claims, acked>>
    BY <1>3 DEF dump_json
  <2> QED
    BY <1>0, <2>1, VectorsOf DEF Copies
<1>4. CASE load_json
  <2>1. mem' = apply_snapshot_locked(held) /\ UNCHANGED <<disk, held, cli, call, now, minted, claims, acked>>
    BY <1>4 DEF load_json
  <2>2. mem'.keys = keys_from_json(held.keys)
    BY <2>1 DEF apply_snapshot_locked
  <2> QED
    BY <1>0, <2>1, <2>2, VectorsOf DEF Copies
<1> QED
  BY <1>1, <1>2, <1>3, <1>4 DEF AdminNext

\* consume_preauth copies vectors or marks a key.
LEMMA ThreadKeys ==
    ASSUME StoreIInv, NEW t \in Threads, ThreadNext(t)
    PROVE  Copies \/ \E i \in DOMAIN mem.keys, ok \in BOOLEAN :
                         call[t].step = "mark" /\ consume_claim(t, ok) /\ Marks(t, i, ok)
<1>0. /\ mem \in Image /\ call \in [Threads -> Call]
      /\ {mem.keys, disk.keys} \subseteq KeyVectors
      /\ held.keys \in KeyVectors /\ cli.img.keys \in KeyVectors
      /\ \A u \in Threads : call[u].seen \in KeyVectors
  BY VectorsTyped DEF KeyVectors
<1>a. ASSUME \A u \in Threads : call'[u].seen \in {call[u].seen, disk.keys, <<>>},
             UNCHANGED <<mem, disk, held, cli, minted, claims>>
      PROVE  Copies
  BY <1>0, <1>a, Zenon DEF Copies, KeyVectors
<1>1. ASSUME NEW k \in KeyIds, consume_preauth(t, k) PROVE Copies
  <2>1. \A u \in Threads : call'[u].seen \in {call[u].seen, <<>>}
    BY <1>0, <1>1 DEF consume_preauth, Idle
  <2> QED
    BY <1>1, <1>a, <2>1 DEF consume_preauth
<1>2. CASE reload_read(t)
  <2>1. \A u \in Threads : call'[u].seen \in {call[u].seen, disk.keys}
    BY <1>0, <1>2 DEF reload_read, Call
  <2> QED
    BY <1>2, <1>a, <2>1, Zenon DEF reload_read
<1>3. CASE reload_skip(t)
  <2>1. \A u \in Threads : call'[u].seen = call[u].seen
    BY <1>0, <1>3 DEF reload_skip, Call
  <2> QED
    BY <1>3, <1>a, <2>1 DEF reload_skip
<1>4. CASE reload_install(t)
  <2>1. \A u \in Threads : call'[u].seen \in {call[u].seen, <<>>}
    BY <1>0, <1>4 DEF reload_install, Call
  <2>2. /\ mem'.keys = keys_from_json(call[t].seen)
        /\ UNCHANGED <<disk, held, cli, minted, claims>>
    BY <1>0, <1>4 DEF reload_install, Image
  <2> QED
    BY <1>0, <2>1, <2>2, SMTT(20) DEF Copies, KeyVectors
<1>5. ASSUME NEW ok \in BOOLEAN, consume_claim(t, ok)
      PROVE  \E i \in DOMAIN mem.keys : call[t].step = "mark" /\ Marks(t, i, ok)
  <2>1. PICK i \in DOMAIN mem.keys :
            /\ call[t].step = "mark"
            /\ mem.keys[i].key = call[t].key /\ claimable(mem.keys[i])
            /\ save_locked([mem EXCEPT !.keys[i].used = TRUE], ok)
            /\ call' = [call EXCEPT
                   ![t].step = IF ok THEN "claimed" ELSE "threw",
                   ![t].claim = [token |-> mem.keys[i].token, shared |-> mem.keys[i].shared]]
            /\ claims' = IF ok THEN [claims EXCEPT ![call[t].key] = IF @ = 0 THEN 1 ELSE 2] ELSE claims
            /\ UNCHANGED <<cli, now, minted, acked>>
    BY <1>5, Zenon DEF consume_claim, first_key
  <2> DEFINE s == [mem.keys EXCEPT ![i].used = TRUE]
  <2>2. [mem EXCEPT !.keys[i].used = TRUE].keys = s
    BY <1>0 DEF Image
  <2>3. /\ mem'.keys = s /\ disk'.keys \in {disk.keys, s} /\ held'.keys \in {held.keys, s}
        /\ ok \/ ~SavesSucceed
    BY <2>1, <2>2, SavedKeys, Zenon
  <2>4. \A u \in Threads : call'[u].seen = call[u].seen
    BY <1>0, <2>1 DEF Call
  <2>5. \A ks \in KeyVectors' : ks \in KeyVectors \/ ks = s
    <3> HIDE DEF s
    <3> QED
      BY <1>0, <2>1, <2>3, <2>4 DEF KeyVectors
  <2> QED
    BY <2>1, <2>3, <2>5 DEF Marks
<1>6. CASE consume_deny(t)
  <2>1. \A u \in Threads : call'[u].seen = call[u].seen
    BY <1>0, <1>6 DEF consume_deny, Call
  <2> QED
    BY <1>6, <1>a, <2>1 DEF consume_deny
<1> QED
  BY <1>1, <1>2, <1>3, <1>4, <1>5, <1>6, Zenon DEF ThreadNext

\* register_node, update_map_info and set_online copy vectors.
LEMMA NodeCopies ==
    ASSUME StoreIInv, NEW m \in Machines, NodeNext(m)
    PROVE  Copies
<1>0. /\ mem \in Image /\ mem.nodes \in Seq(NodeState)
      /\ {mem.keys, disk.keys} \subseteq KeyVectors
      /\ held.keys \in KeyVectors /\ cli.img.keys \in KeyVectors
  BY VectorsTyped, Zenon DEF KeyVectors, Image
<1>a. ASSUME NEW img, img.keys = mem.keys, NEW ok, save_locked(img, ok),
             UNCHANGED <<cli, call, minted, claims>>
      PROVE  Copies
  <2>1. /\ mem'.keys = mem.keys /\ disk'.keys \in {disk.keys, mem.keys}
        /\ held'.keys \in {held.keys, mem.keys}
    BY <1>a, SavedKeys, Zenon
  <2> QED
    BY <1>0, <1>a, <2>1, VectorsOf, Zenon DEF Copies
<1>b. ASSUME mem'.keys = mem.keys, UNCHANGED <<disk, held, cli, call, minted, claims>>
      PROVE  Copies
  BY <1>0, <1>b, VectorsOf DEF Copies
<1>1. ASSUME NEW nk \in NodeKeys, NEW ok \in BOOLEAN, register_existing(m, nk, ok)
      PROVE  Copies
  <2>1. PICK i \in DOMAIN mem.nodes :
            /\ save_locked([mem EXCEPT !.nodes[i].node_key = nk], ok)
            /\ UNCHANGED <<cli, call, now, minted, claims>>
    BY <1>1, Zenon DEF register_existing
  <2>2. [mem EXCEPT !.nodes[i].node_key = nk].keys = mem.keys
    BY <1>0 DEF Image
  <2> QED
    BY <1>a, <2>1, <2>2, Zenon
<1>2. ASSUME NEW nk \in NodeKeys, NEW claim \in PreauthClaim, NEW ok \in BOOLEAN,
             register_new(m, nk, claim, ok)
      PROVE  Copies
  <2> DEFINE n == new_node(m, nk, claim)
  <2>1. /\ save_locked([counted EXCEPT !.nodes = Append(@, n)], ok)
        /\ UNCHANGED <<cli, call, now, minted, claims>>
    BY <1>2 DEF register_new
  <2> HIDE DEF n
  <2>2. [counted EXCEPT !.nodes = Append(@, n)].keys = mem.keys
    BY <1>0 DEF Image, counted
  <2> QED
    BY <1>a, <2>1, <2>2, Zenon
<1>3. CASE register_full(m)
  <2>1. mem'.keys = mem.keys
    BY <1>0, <1>3 DEF register_full, Image, counted
  <2> QED
    BY <1>3, <1>b, <2>1, Zenon DEF register_full
<1>4. ASSUME NEW nk \in NodeKeys \cup {Empty}, NEW eps \in Endpoints \cup {Empty},
             NEW ok \in BOOLEAN, update_map_info(m, nk, eps, ok)
      PROVE  Copies
  <2>1. CASE UNCHANGED store_vars
    BY <1>b, <2>1 DEF store_vars
  <2>2. ASSUME NEW i \in DOMAIN mem.nodes,
               save_locked([mem EXCEPT
                   !.nodes[i].node_key = IF nk = Empty THEN @ ELSE nk,
                   !.nodes[i].endpoints = eps,
                   !.nodes[i].online = TRUE], ok),
               UNCHANGED <<cli, call, now, minted, claims, acked>>
        PROVE  Copies
    <3>1. [mem EXCEPT !.nodes[i].node_key = IF nk = Empty THEN @ ELSE nk,
                      !.nodes[i].endpoints = eps,
                      !.nodes[i].online = TRUE].keys = mem.keys
      BY <1>0 DEF Image
    <3> QED
      BY <1>a, <2>2, <3>1, Zenon
  <2> QED
    BY <1>4, <2>1, <2>2, Zenon DEF update_map_info
<1>5. ASSUME NEW online \in BOOLEAN, set_online(m, online) PROVE Copies
  <2>1. CASE UNCHANGED store_vars
    BY <1>b, <2>1 DEF store_vars
  <2>2. ASSUME NEW i \in DOMAIN mem.nodes,
               mem' = [mem EXCEPT !.nodes[i].online = online],
               UNCHANGED <<disk, held, cli, call, now, minted, claims, acked>>
        PROVE  Copies
    <3>1. mem'.keys = mem.keys
      BY <1>0, <2>2 DEF Image
    <3> QED
      BY <1>b, <2>2, <3>1
  <2> QED
    BY <1>5, <2>1, <2>2 DEF set_online
<1> QED
  BY <1>1, <1>2, <1>3, <1>4, <1>5 DEF NodeNext

\* The constructor's image has the file's keys, or the bootstrap key alone.
LEMMA ConstructKeys ==
    ASSUME StoreIInv, now \in 1..MaxNow, NEW k \in KeyIds, construct(load_or_init, k)
    PROVE  LET ks == constructed(load_or_init, k).keys
               p == bootstrap_key(k)
           IN  \/ /\ ks = keys_from_json(disk.keys) /\ HasPath
                  /\ disk' = disk /\ minted' = minted
               \/ /\ ks = <<p>> /\ disk'.keys \in {disk.keys, <<p>>}
                  /\ (~HasPath => disk' = disk)
                  /\ p \in PreauthKey /\ p.used = FALSE /\ \A x \in minted : x.key # p.key
                  /\ p.expires_unix \in Nat /\ (ExpiryFits => p.expires_unix <= IntMax)
                  /\ minted' = minted \cup {p}
<1> DEFINE img == load_or_init
           p == bootstrap_key(k)
<1>1. img \in Image /\ img.keys = IF HasPath THEN keys_from_json(disk.keys) ELSE <<>>
  <2>1. ImageOK(disk)
    BY StoreIInvParts
  <2>2. EmptyImage \in Image
    BY EmptyImageOK
  <2>3. apply_snapshot_locked(disk) \in Image
    BY <2>1, SnapshotApplied, ImageTyped
  <2> QED
    BY <2>2, <2>3 DEF load_or_init, apply_snapshot_locked, EmptyImage
<1> HIDE DEF img
<1>2. CASE img.keys # <<>>
  <2>1. constructed(img, k) = img /\ disk' = disk /\ minted' = minted
    BY <1>2 DEF constructed, construct, img
  <2> QED
    BY <1>1, <1>2, <2>1 DEF img
<1>3. CASE img.keys = <<>>
  <2>1. /\ constructed(img, k) = [img EXCEPT !.keys = <<p>>]
        /\ k \notin minted_ids /\ minted' = minted \cup {p}
        /\ disk' = IF HasPath THEN constructed(img, k) ELSE disk
    BY <1>3 DEF constructed, construct, img
  <2>2. constructed(img, k).keys = <<p>>
    BY <1>1, <2>1 DEF Image
  <2>3. [reusable |-> TRUE, expiration |-> 0, token |-> Empty, shared |-> Unset]
        \in [reusable : BOOLEAN, expiration : Nat,
             token : Tokens \cup {Empty}, shared : BOOLEAN \cup {Unset}]
    OBVIOUS
  <2>4. /\ p \in PreauthKey /\ p.used = FALSE /\ \A x \in minted : x.key # p.key
        /\ p.expires_unix \in Nat /\ (ExpiryFits => p.expires_unix <= IntMax)
    BY <2>1, <2>3, NewKeyOK, Zenon DEF bootstrap_key
  <2> HIDE DEF p
  <2> QED
    BY <2>1, <2>2, <2>4 DEF img, p
<1> QED
  BY <1>2, <1>3, Zenon

\* Crashes, the command line tool and the clock copy vectors or create a key.
LEMMA ProcessKeys ==
    ASSUME StoreIInv, now \in 1..MaxNow, ProcessNext
    PROVE  Copies \/ \E p \in PreauthKey : Mints(p)
<1>0. /\ {mem.keys, disk.keys} \subseteq KeyVectors
      /\ held.keys \in KeyVectors /\ cli.img.keys \in KeyVectors
      /\ EmptyImage.keys = <<>> /\ cli.img \in Image
  BY VectorsTyped DEF KeyVectors, EmptyImage
<1>1. ASSUME NEW k \in KeyIds, restart(k) PROVE Copies \/ \E p \in PreauthKey : Mints(p)
  <2> DEFINE ks == constructed(load_or_init, k).keys
             p == bootstrap_key(k)
  <2>1. /\ construct(load_or_init, k) /\ mem'.keys = ks
        /\ call' = [t \in Threads |-> Idle] /\ UNCHANGED <<held, cli, now, claims, acked>>
    BY <1>1 DEF restart
  <2>2. \A v \in KeyVectors' :
            v \in {mem'.keys, disk'.keys, held.keys, cli.img.keys, <<>>}
    BY <2>1, SMTT(20) DEF KeyVectors, Idle
  <2>3. CASE ks = keys_from_json(disk.keys) /\ disk' = disk /\ minted' = minted
    BY <1>0, <2>1, <2>2, <2>3 DEF Copies
  <2>4. CASE /\ ks = <<p>> /\ disk'.keys \in {disk.keys, <<p>>}
             /\ p \in PreauthKey /\ p.used = FALSE /\ \A x \in minted : x.key # p.key
             /\ p.expires_unix \in Nat /\ (ExpiryFits => p.expires_unix <= IntMax)
             /\ minted' = minted \cup {p}
    <3> HIDE DEF p, ks
    <3> QED
      BY <1>0, <2>1, <2>2, <2>4, Zenon DEF Mints
  <2> QED
    BY <2>1, <2>3, <2>4, ConstructKeys, Zenon
<1>2. ASSUME NEW k \in KeyIds, cli_start(k) PROVE Copies \/ \E p \in PreauthKey : Mints(p)
  <2> DEFINE ks == constructed(load_or_init, k).keys
             p == bootstrap_key(k)
  <2>1. /\ construct(load_or_init, k) /\ cli'.img.keys = ks
        /\ UNCHANGED <<mem, held, call, now, claims, acked>>
    BY <1>2 DEF cli_start
  <2>2. \A v \in KeyVectors' :
            v \in KeyVectors \/ v \in {mem.keys, disk'.keys, held.keys, ks}
    BY <2>1, Zenon DEF KeyVectors
  <2>3. CASE ks = keys_from_json(disk.keys) /\ disk' = disk /\ minted' = minted
    BY <1>0, <2>1, <2>2, <2>3 DEF Copies
  <2>4. CASE /\ ks = <<p>> /\ disk'.keys \in {disk.keys, <<p>>}
             /\ p \in PreauthKey /\ p.used = FALSE /\ \A x \in minted : x.key # p.key
             /\ p.expires_unix \in Nat /\ (ExpiryFits => p.expires_unix <= IntMax)
             /\ minted' = minted \cup {p}
    <3> HIDE DEF p, ks
    <3> QED
      BY <1>0, <2>1, <2>2, <2>4 DEF Mints
  <2> QED
    BY <2>1, <2>3, <2>4, ConstructKeys, Zenon
<1>3. ASSUME NEW k \in KeyIds, NEW o \in KeyOptions, cli_create(k, o)
      PROVE  \E p \in PreauthKey : Mints(p)
  <2> DEFINE q == [o EXCEPT !.expiration = 0]
             p == new_key(k, q)
  <2>1. /\ k \notin minted_ids /\ disk' = [cli.img EXCEPT !.keys = Append(@, p)]
        /\ minted' = minted \cup {p} /\ cli' = [active |-> FALSE, img |-> EmptyImage]
        /\ UNCHANGED <<mem, held, call, now, claims, acked>>
    BY <1>3 DEF cli_create
  <2>2. q \in [reusable : BOOLEAN, expiration : Nat,
               token : Tokens \cup {Empty}, shared : BOOLEAN \cup {Unset}]
        /\ q.expiration = 0
    BY StoreAssumption
  <2> HIDE DEF q
  <2>3. /\ p \in PreauthKey /\ p.used = FALSE /\ \A x \in minted : x.key # p.key
        /\ p.expires_unix \in Nat /\ (ExpiryFits => p.expires_unix <= IntMax)
    BY <2>1, <2>2, NewKeyOK, Zenon
  <2> HIDE DEF p
  <2>4. disk'.keys = Append(cli.img.keys, p) /\ cli'.img.keys = <<>>
    BY <1>0, <2>1 DEF Image
  <2>5. \A v \in KeyVectors' :
            v \in KeyVectors \/ v \in {mem.keys, disk'.keys, held.keys, <<>>}
    BY <2>1, <2>4 DEF KeyVectors
  <2> QED
    BY <1>0, <2>1, <2>3, <2>4, <2>5 DEF Mints
<1>4. CASE cli_exit
  <2>1. cli'.img.keys = <<>> /\ UNCHANGED <<mem, disk, held, call, now, minted, claims, acked>>
    BY <1>0, <1>4 DEF cli_exit
  <2> QED
    BY <1>0, <2>1, VectorsOf, Zenon DEF Copies
<1>5. CASE clock_tick
  <2>1. UNCHANGED <<mem, disk, held, cli, call, minted, claims, acked>>
    BY <1>5 DEF clock_tick
  <2> QED
    BY <1>0, <2>1, VectorsOf DEF Copies
<1> QED
  BY <1>1, <1>2, <1>3, <1>4, <1>5 DEF ProcessNext

-----------------------------------------------------------------------------
\* The three kinds of steps preserve what is known of the keys.
LEMMA KeyKinds ==
    ASSUME StoreIInv, StoreIInv', KeyIInv, now' \in 1..MaxNow,
           \/ Copies
           \/ \E p \in PreauthKey : Mints(p)
           \/ \E t \in Threads, i \in DOMAIN mem.keys, ok \in BOOLEAN : Marks(t, i, ok)
    PROVE  KeyIInv'
<1>0. /\ KeyVectors \subseteq Seq(PreauthKey) /\ minted \subseteq PreauthKey
      /\ claims \in [KeyIds -> 0..2] /\ MintedOK
      /\ \A ks \in KeyVectors : KeysOK(ks, minted, claims)
  BY VectorsTyped, Zenon DEF KeyIInv
<1>a. KeysOK(<<>>, minted, claims)
  BY DEF KeysOK
<1>b. SUFFICES MintedOK' /\ \A ks \in KeyVectors' : KeysOK(ks, minted', claims')
  BY DEF KeyIInv
<1>1. CASE Copies
  <2>1. minted' = minted /\ claims' = claims
    BY <1>1 DEF Copies
  <2>2. MintedOK'
    BY <1>0, <2>1, Zenon DEF MintedOK, minted_ids
  <2>3. \A s \in KeyVectors : KeysOK(keys_from_json(s), minted, claims)
    BY <1>0, KeysOKFromJson
  <2>4. \A ks \in KeyVectors' : KeysOK(ks, minted, claims)
    BY <1>0, <1>1, <1>a, <2>3, SMTT(20) DEF Copies
  <2> QED
    BY <2>1, <2>2, <2>4
<1>2. ASSUME NEW p \in PreauthKey, Mints(p)
      PROVE  MintedOK' /\ \A ks \in KeyVectors' : KeysOK(ks, minted', claims')
  <2> DEFINE M == minted \cup {p}
  <2>1. /\ minted' = M /\ claims' = claims /\ p.used = FALSE
        /\ \A x \in minted : x.key # p.key
        /\ p.expires_unix \in Nat /\ (ExpiryFits => p.expires_unix <= IntMax)
    BY <1>2 DEF Mints
  <2>2. MintedOK'
    BY <1>0, <2>1, Zenon DEF MintedOK, minted_ids
  <2>3. ASSUME NEW s \in Seq(PreauthKey), KeysOK(s, minted, claims)
        PROVE  KeysOK(s, M, claims) /\ KeysOK(Append(s, p), M, claims)
    <3>1. KeysOK(Append(s, p), M, claims)
      BY <1>0, <2>1, <2>3, KeysOKAppend, Zenon
    <3>2. KeysOK(s, M, claims)
      BY <1>0, <2>3, KeysOKGrows
    <3> QED
      BY <3>1, <3>2
  <2>4. KeysOK(<<>>, M, claims) /\ KeysOK(<<p>>, M, claims)
    <3>1. <<>> \in Seq(PreauthKey) /\ Append(<<>>, p) = <<p>>
      OBVIOUS
    <3> QED
      BY <1>a, <2>3, <3>1, Zenon
  <2>5. \A s \in KeyVectors : KeysOK(s, M, claims) /\ KeysOK(Append(s, p), M, claims)
    BY <1>0, <2>3, Zenon
  <2> HIDE DEF M
  <2>6. \A ks \in KeyVectors' : KeysOK(ks, M, claims)
    BY <1>2, <2>4, <2>5, Zenon DEF Mints
  <2> QED
    BY <2>1, <2>2, <2>6
<1>3. ASSUME NEW t \in Threads, NEW i \in DOMAIN mem.keys, NEW ok \in BOOLEAN, Marks(t, i, ok)
      PROVE  MintedOK' /\ \A ks \in KeyVectors' : KeysOK(ks, minted', claims')
  <2> DEFINE k == call[t].key
  <2>1. /\ mem.keys[i].key = k /\ minted' = minted /\ (ok \/ ~SavesSucceed)
        /\ claims' = IF ok THEN [claims EXCEPT ![k] = IF @ = 0 THEN 1 ELSE 2] ELSE claims
        /\ \A ks \in KeyVectors' : ks \in KeyVectors \/ ks = [mem.keys EXCEPT ![i].used = TRUE]
    BY <1>3 DEF Marks
  <2>2. mem.keys \in KeyVectors /\ mem.keys[i] \in PreauthKey /\ k \in KeyIds
    <3>1. mem.keys \in KeyVectors
      BY DEF KeyVectors
    <3>2. mem.keys[i] \in PreauthKey
      BY <1>0, <3>1
    <3> QED
      BY <2>1, <3>1, <3>2 DEF PreauthKey
  <2> HIDE DEF k
  <2>3. k \in minted_ids
    BY <1>0, <2>1, <2>2 DEF KeysOK, KeyOK, KeyOf, minted_ids
  <2>4. claims' \in [KeyIds -> 0..2]
    BY DEF StoreIInv, StoreTypeOK
  <2>5. /\ \A j \in KeyIds : claims[j] > 0 => claims'[j] > 0
        /\ \A j \in KeyIds : claims'[j] > 0 => claims[j] > 0 \/ j = k
        /\ ok => claims'[k] > 0
    BY <1>0, <2>1, <2>2
  <2>6. MintedOK'
    BY <1>0, <2>1, <2>3, <2>5 DEF MintedOK, minted_ids
  <2>7. \A ks \in KeyVectors : KeysOK(ks, minted, claims')
    BY <1>0, <2>4, <2>5, KeysOKGrows
  <2>8. KeysOK([mem.keys EXCEPT ![i].used = TRUE], minted, claims')
    <3>1. mem.keys \in Seq(PreauthKey) /\ KeysOK(mem.keys, minted, claims')
      BY <1>0, <2>2, <2>7
    <3>2. SavesSucceed => claims'[mem.keys[i].key] > 0
      BY <2>1, <2>5
    <3> QED
      BY <3>1, <3>2, KeysOKMark
  <2> QED
    BY <2>1, <2>6, <2>7, <2>8, Zenon
<1> QED
  BY <1>1, <1>2, <1>3

\* A step of the store moves the clock up to its bound.
LEMMA ClockStep ==
    ASSUME now \in 1..MaxNow, StoreNext
    PROVE  now' \in 1..MaxNow
<1>0. MaxNow \in Nat
  BY StoreAssumption
<1>1. CASE AdminNext
  BY <1>1, Zenon DEF AdminNext, create_preauth_key, persist, dump_json, load_json
<1>2. ASSUME NEW t \in Threads, ThreadNext(t) PROVE now' = now
  BY <1>2, Zenon DEF ThreadNext, consume_preauth, reload_read, reload_skip, reload_install,
              consume_claim, consume_deny
<1>3. ASSUME NEW m \in Machines, NodeNext(m) PROVE now' = now
  <2>1. ASSUME NEW nk, NEW ok, register_existing(m, nk, ok) PROVE now' = now
    BY <2>1 DEF register_existing
  <2>2. ASSUME NEW nk, NEW claim, NEW ok, register_new(m, nk, claim, ok) PROVE now' = now
    BY <2>2 DEF register_new
  <2>3. register_full(m) => now' = now
    BY DEF register_full
  <2>4. ASSUME NEW nk, NEW eps, NEW ok, update_map_info(m, nk, eps, ok) PROVE now' = now
    BY <2>4, Zenon DEF update_map_info, store_vars
  <2>5. ASSUME NEW online, set_online(m, online) PROVE now' = now
    BY <2>5 DEF set_online, store_vars
  <2> QED
    BY <1>3, <2>1, <2>2, <2>3, <2>4, <2>5 DEF NodeNext
<1>4. CASE ProcessNext
  <2>1. ASSUME NEW k \in KeyIds, restart(k) \/ cli_start(k) PROVE now' = now
    BY <2>1 DEF restart, cli_start
  <2>2. ASSUME NEW k \in KeyIds, NEW o \in KeyOptions, cli_create(k, o) PROVE now' = now
    BY <2>2 DEF cli_create
  <2>3. CASE cli_exit
    BY <2>3 DEF cli_exit
  <2>4. CASE clock_tick
    BY <1>0, <2>4 DEF clock_tick
  <2> QED
    BY <1>4, <2>1, <2>2, <2>3, <2>4 DEF ProcessNext
<1> QED
  BY <1>1, <1>2, <1>3, <1>4 DEF StoreNext

\* A step of the store is of one of the three kinds.
LEMMA KeyStep ==
    ASSUME StoreIInv, KeyIInv, StoreNext
    PROVE  KeyIInv'
<1>0. now \in 1..MaxNow /\ now' \in 1..MaxNow
  BY ClockStep DEF KeyIInv
<1>1. StoreIInv'
  BY AdminStep, ThreadStep, NodeStep, ProcessStep DEF StoreNext
<1>2. CASE AdminNext
  BY <1>0, <1>1, <1>2, AdminKeys, KeyKinds
<1>3. ASSUME NEW t \in Threads, ThreadNext(t) PROVE KeyIInv'
  BY <1>0, <1>1, <1>3, ThreadKeys, KeyKinds
<1>4. ASSUME NEW m \in Machines, NodeNext(m) PROVE KeyIInv'
  BY <1>0, <1>1, <1>4, NodeCopies, KeyKinds
<1>5. CASE ProcessNext
  BY <1>0, <1>1, <1>5, ProcessKeys, KeyKinds
<1> QED
  BY <1>2, <1>3, <1>4, <1>5 DEF StoreNext

\* A fresh server has the bootstrap key in its vectors, or none.
LEMMA KeyInit ==
    ASSUME StoreInit
    PROVE  KeyIInv
<1>0. MaxNow \in Nat /\ MaxNow >= 1 /\ IntMax \in Nat /\ now = 1
  BY StoreAssumption DEF StoreInit
<1>1. PICK k \in KeyIds :
          /\ mem = [EmptyImage EXCEPT !.keys = <<bootstrap_key(k)>>]
          /\ minted = {bootstrap_key(k)}
  BY Zenon DEF StoreInit
<1> DEFINE p == bootstrap_key(k)
<1>2. p \in PreauthKey /\ p.used = FALSE /\ p.expires_unix = 0
  <2>1. p \in PreauthKey
    BY <1>0, NewKeyType, Zenon DEF bootstrap_key
  <2> QED
    BY <2>1 DEF bootstrap_key, new_key
<1> HIDE DEF p
<1>3. \A ks \in KeyVectors : ks \in {<<>>, <<p>>}
  <2>1. mem.keys = <<p>> /\ EmptyImage.keys = <<>>
    BY <1>1 DEF EmptyImage, p
  <2> QED
    BY <2>1 DEF StoreInit, KeyVectors, Idle
<1>4. KeysOK(<<>>, minted, claims)
  BY DEF KeysOK
<1>5. KeysOK(<<p>>, minted, claims)
  <2>1. KeyOK(p, {p}, claims)
    BY <1>2 DEF KeyOK, KeyOf
  <2> QED
    BY <1>1, <2>1 DEF KeysOK, p
<1>6. MintedOK
  BY <1>0, <1>1, <1>2 DEF MintedOK, StoreInit, p
<1> QED
  BY <1>0, <1>3, <1>4, <1>5, <1>6 DEF KeyIInv

-----------------------------------------------------------------------------
\* Registering a node and reporting about it are not calls of consume_preauth.
LEMMA NodeCall ==
    ASSUME NEW m \in Machines, NodeNext(m)
    PROVE  call' = call
<1>1. ASSUME NEW nk, NEW ok, register_existing(m, nk, ok) PROVE call' = call
  BY <1>1 DEF register_existing
<1>2. ASSUME NEW nk, NEW claim, NEW ok, register_new(m, nk, claim, ok) PROVE call' = call
  BY <1>2 DEF register_new
<1>3. register_full(m) => call' = call
  BY DEF register_full
<1>4. ASSUME NEW nk, NEW eps, NEW ok, update_map_info(m, nk, eps, ok) PROVE call' = call
  BY <1>4, Zenon DEF update_map_info, store_vars
<1>5. ASSUME NEW online, set_online(m, online) PROVE call' = call
  BY <1>5 DEF set_online, store_vars
<1> QED
  BY <1>1, <1>2, <1>3, <1>4, <1>5 DEF NodeNext

-----------------------------------------------------------------------------
\* At most the entry of machine m is changed, and stays the same node.
Edits(m) ==
    /\ DOMAIN mem'.nodes = DOMAIN mem.nodes
    /\ \A i \in DOMAIN mem.nodes :
           /\ Kin(mem.nodes[i], mem'.nodes[i])
           /\ mem.nodes[i].machine_key # m => mem'.nodes[i] = mem.nodes[i]

\* The node n is added, for a machine that had none.
Adds(n) ==
    /\ ~known(mem, n.machine_key)
    /\ mem'.nodes = Append(mem.nodes, n)

\* A step in which no node leaves the memory, the file is kept or is a copy of
\* the memory, and an address is handed out after it has been saved.
Grows ==
    /\ Within(mem, mem') /\ cli' = cli
    /\ disk' = disk \/ (HasPath /\ disk' = mem')
    /\ \/ acked' = acked
       \/ /\ HasPath => disk' = mem'
          /\ \E i \in DOMAIN mem'.nodes : \E m \in Machines :
                 /\ mem'.nodes[i].machine_key = m
                 /\ acked' = [acked EXCEPT ![m] = @ \cup {mem'.nodes[i].ip}]

\* Within is an order on images.
LEMMA WithinOrder ==
    ASSUME NEW a, NEW b, NEW c
    PROVE  /\ Within(a, a)
           /\ Within(a, b) /\ Within(b, c) => Within(a, c)
           /\ a.nodes = <<>> => Within(a, b)
           /\ a.nodes = b.nodes => Within(a, b) /\ Within(b, a)
<1>1. \A n, o, p : Kin(n, n) /\ (Kin(n, o) /\ Kin(o, p) => Kin(n, p))
  BY Zenon DEF Kin
<1>2. a.nodes = b.nodes => Within(a, b) /\ Within(b, a)
  BY <1>1, Zenon DEF Within
<1>3. Within(a, b) /\ Within(b, c) => Within(a, c)
  BY <1>1, Zenon DEF Within
<1>4. a.nodes = <<>> => Within(a, b)
  BY DEF Within
<1>5. Within(a, a)
  BY <1>1, Zenon DEF Within
<1> QED
  BY <1>2, <1>3, <1>4, <1>5

\* Replacing a node by its kin edits the memory.
LEMMA NodeEdited ==
    ASSUME ImageOK(mem), NEW i \in DOMAIN mem.nodes, NEW n, Kin(mem.nodes[i], n),
           mem' = [mem EXCEPT !.nodes[i] = n]
    PROVE  Edits(mem.nodes[i].machine_key) /\ mem'.nodes[i] = n
<1>1. mem \in Image /\ mem.nodes \in Seq(NodeState)
  BY ImageTyped
<1>2. mem'.nodes = [mem.nodes EXCEPT ![i] = n]
  BY <1>1 DEF Image
<1>3. DOMAIN mem'.nodes = DOMAIN mem.nodes /\ mem'.nodes[i] = n
      /\ \A j \in DOMAIN mem.nodes : j # i => mem'.nodes[j] = mem.nodes[j]
  BY <1>1, <1>2
<1> QED
  BY <1>3 DEF Edits, Kin

\* Editing leaves no node out.
LEMMA EditsWithin ==
    ASSUME NEW m, Edits(m)
    PROVE  Within(mem, mem')
BY Zenon DEF Edits, Within

\* Adding leaves no node out.
LEMMA AddsWithin ==
    ASSUME mem.nodes \in Seq(NodeState), NEW n, Adds(n)
    PROVE  /\ Within(mem, mem')
           /\ \E i \in DOMAIN mem'.nodes : mem'.nodes[i] = n
<1>1. /\ DOMAIN mem'.nodes = 1..(Len(mem.nodes) + 1) /\ DOMAIN mem.nodes = 1..Len(mem.nodes)
      /\ Len(mem.nodes) \in Nat
      /\ \A i \in 1..Len(mem.nodes) : mem'.nodes[i] = mem.nodes[i]
      /\ mem'.nodes[Len(mem.nodes) + 1] = n
  BY PushedBack DEF Adds
<1> QED
  BY <1>1 DEF Within, Kin

\* register_node for a machine it finds.
LEMMA ExistingEdits ==
    ASSUME ImageOK(mem), NEW m \in Machines, NEW nk \in NodeKeys, NEW ok \in BOOLEAN,
           register_existing(m, nk, ok)
    PROVE  /\ Edits(m) /\ Grows /\ known(mem, m)
           /\ \A i \in DOMAIN mem.nodes : mem'.nodes[i].online = mem.nodes[i].online
<1>0. mem \in Image /\ mem.nodes \in Seq(NodeState)
  BY ImageTyped
<1>1. PICK i \in DOMAIN mem.nodes :
          /\ mem.nodes[i].machine_key = m
          /\ save_locked([mem EXCEPT !.nodes[i].node_key = nk], ok)
          /\ acked' = IF ok THEN [acked EXCEPT ![m] = @ \cup {mem.nodes[i].ip}] ELSE acked
          /\ UNCHANGED <<cli, call, now, minted, claims>>
  BY Zenon DEF register_existing, first_node
<1> DEFINE n == [mem.nodes[i] EXCEPT !.node_key = nk]
<1>2. mem.nodes[i] \in NodeState
  BY <1>0
<1>3. Kin(mem.nodes[i], n) /\ n.online = mem.nodes[i].online
  BY <1>2 DEF Kin, NodeState
<1>4. /\ mem' = [mem EXCEPT !.nodes[i] = n]
      /\ disk' = disk \/ (HasPath /\ disk' = mem')
      /\ ok => (HasPath => disk' = mem')
  BY <1>1 DEF save_locked
<1> HIDE DEF n
<1>5. Edits(m) /\ mem'.nodes[i] = n
  BY <1>1, <1>3, <1>4, NodeEdited, Zenon
<1>6. Within(mem, mem')
  BY <1>5, EditsWithin
<1>7. i \in DOMAIN mem'.nodes /\ mem'.nodes[i].machine_key = m /\ mem'.nodes[i].ip = mem.nodes[i].ip
  BY <1>1, <1>3, <1>5 DEF Edits, Kin
<1>8. Grows
  BY <1>1, <1>4, <1>6, <1>7, Zenon DEF Grows
<1>9. \A j \in DOMAIN mem.nodes : mem'.nodes[j].online = mem.nodes[j].online
  <2>1. ASSUME NEW j \in DOMAIN mem.nodes, j # i PROVE mem'.nodes[j] = mem.nodes[j]
    BY <1>1, <1>5, <2>1, OneEntry DEF Edits
  <2> QED
    BY <1>3, <1>5, <2>1
<1> QED
  BY <1>1, <1>5, <1>8, <1>9 DEF known

\* register_node for a new machine.
LEMMA NewAdds ==
    ASSUME ImageOK(mem), NEW m \in Machines, NEW nk \in NodeKeys,
           NEW claim \in PreauthClaim, NEW ok \in BOOLEAN, register_new(m, nk, claim, ok)
    PROVE  /\ Adds(new_node(m, nk, claim)) /\ Grows
           /\ new_node(m, nk, claim) \in NodeState
<1>0. mem \in Image /\ mem.nodes \in Seq(NodeState)
  BY ImageTyped
<1> DEFINE n == new_node(m, nk, claim)
<1>1. /\ ~known(mem, m) /\ mem.next_node_id <= MaxNodeId
      /\ save_locked([counted EXCEPT !.nodes = Append(@, n)], ok)
      /\ acked' = IF ok THEN [acked EXCEPT ![m] = @ \cup {n.ip}] ELSE acked
      /\ UNCHANGED <<cli, call, now, minted, claims>>
  BY DEF register_new
<1>2. /\ mem.next_node_id \in Nat /\ mem.next_ip_index = mem.next_node_id
      /\ address_for(Ipv4, Ipv6, mem.next_node_id) \in Addresses
  BY ImageTyped, AddressesDiffer
<1>3. n \in NodeState /\ n.machine_key = m
  BY <1>2, Zenon DEF new_node, NodeState, PreauthClaim
<1> HIDE DEF n
<1>4. [counted EXCEPT !.nodes = Append(@, n)].nodes = Append(mem.nodes, n)
  BY <1>1, CountedIs
<1>5. /\ mem'.nodes = Append(mem.nodes, n)
      /\ disk' = disk \/ (HasPath /\ disk' = mem')
      /\ ok => (HasPath => disk' = mem')
  BY <1>1, <1>4 DEF save_locked
<1>6. Adds(n)
  BY <1>1, <1>3, <1>5 DEF Adds
<1>7. Within(mem, mem') /\ \E i \in DOMAIN mem'.nodes : mem'.nodes[i] = n
  BY <1>0, <1>6, AddsWithin
<1>8. Grows
  BY <1>1, <1>3, <1>5, <1>7, Zenon DEF Grows
<1> QED
  BY <1>3, <1>6, <1>8 DEF n

\* register_node when address_for throws.
LEMMA FullSame ==
    ASSUME ImageOK(mem), NEW m \in Machines, register_full(m)
    PROVE  mem'.nodes = mem.nodes /\ Grows
<1>1. /\ mem.next_node_id <= MaxNodeId /\ mem' = counted
      /\ UNCHANGED <<disk, cli, acked>>
  BY DEF register_full
<1>2. mem'.nodes = mem.nodes
  BY <1>1, CountedIs
<1> QED
  BY <1>1, <1>2, WithinOrder DEF Grows

\* update_map_info shows the machine as online.
LEMMA InfoEdits ==
    ASSUME ImageOK(mem), NEW m \in Machines, NEW nk \in NodeKeys \cup {Empty},
           NEW eps \in Endpoints \cup {Empty}, NEW ok \in BOOLEAN,
           update_map_info(m, nk, eps, ok)
    PROVE  /\ Edits(m) /\ Grows
           /\ \A i \in DOMAIN mem.nodes :
                  mem.nodes[i].machine_key = m => mem'.nodes[i].online = TRUE
<1>0. mem \in Image /\ mem.nodes \in Seq(NodeState)
  BY ImageTyped
<1>1. CASE ~known(mem, m) /\ UNCHANGED store_vars
  <2>1. mem' = mem /\ disk' = disk /\ cli' = cli /\ acked' = acked
    BY <1>1 DEF store_vars
  <2> QED
    BY <1>1, <2>1, WithinOrder, Zenon DEF Edits, Kin, Grows, known
<1>2. ASSUME NEW i \in DOMAIN mem.nodes, mem.nodes[i].machine_key = m,
             save_locked([mem EXCEPT
                 !.nodes[i].node_key = IF nk = Empty THEN @ ELSE nk,
                 !.nodes[i].endpoints = eps,
                 !.nodes[i].online = TRUE], ok),
             UNCHANGED <<cli, acked>>
      PROVE  /\ Edits(m) /\ Grows
             /\ \A j \in DOMAIN mem.nodes :
                    mem.nodes[j].machine_key = m => mem'.nodes[j].online = TRUE
  <2> DEFINE n == [mem.nodes[i] EXCEPT !.node_key = IF nk = Empty THEN @ ELSE nk,
                                       !.endpoints = eps, !.online = TRUE]
  <2>1. mem.nodes[i] \in NodeState
    BY <1>0
  <2>2. Kin(mem.nodes[i], n) /\ n.online = TRUE
    BY <2>1 DEF Kin, NodeState
  <2>3. [mem EXCEPT !.nodes[i].node_key = IF nk = Empty THEN @ ELSE nk,
                    !.nodes[i].endpoints = eps,
                    !.nodes[i].online = TRUE] = [mem EXCEPT !.nodes[i] = n]
    BY <1>0, <2>1, ZenonT(30) DEF Image, NodeState
  <2> HIDE DEF n
  <2>4. /\ mem' = [mem EXCEPT !.nodes[i] = n]
        /\ disk' = disk \/ (HasPath /\ disk' = mem')
    BY <1>2, <2>3 DEF save_locked
  <2>5. Edits(m) /\ mem'.nodes[i] = n
    BY <1>2, <2>2, <2>4, NodeEdited
  <2>6. Grows
    BY <1>2, <2>4, <2>5, EditsWithin DEF Grows
  <2>7. \A j \in DOMAIN mem.nodes : mem.nodes[j].machine_key = m => j = i
    BY <1>2, OneEntry
  <2> QED
    BY <2>2, <2>5, <2>6, <2>7, Zenon
<1> QED
  BY <1>1, <1>2, Zenon DEF update_map_info, first_node

\* set_online changes one flag.
LEMMA OnlineEdits ==
    ASSUME ImageOK(mem), NEW m \in Machines, NEW online \in BOOLEAN, set_online(m, online)
    PROVE  /\ Edits(m) /\ Grows
           /\ \A i \in DOMAIN mem.nodes :
                  mem.nodes[i].machine_key = m =>
                      mem'.nodes[i] = [mem.nodes[i] EXCEPT !.online = online]
<1>0. mem \in Image /\ mem.nodes \in Seq(NodeState)
  BY ImageTyped
<1>1. CASE ~known(mem, m) /\ UNCHANGED store_vars
  <2>1. mem' = mem /\ disk' = disk /\ cli' = cli /\ acked' = acked
    BY <1>1 DEF store_vars
  <2> QED
    BY <1>1, <2>1, WithinOrder DEF Edits, Kin, Grows, known
<1>2. ASSUME NEW i \in DOMAIN mem.nodes, mem.nodes[i].machine_key = m,
             mem' = [mem EXCEPT !.nodes[i].online = online],
             UNCHANGED <<disk, cli, acked>>
      PROVE  /\ Edits(m) /\ Grows
             /\ \A j \in DOMAIN mem.nodes :
                    mem.nodes[j].machine_key = m =>
                        mem'.nodes[j] = [mem.nodes[j] EXCEPT !.online = online]
  <2> DEFINE n == [mem.nodes[i] EXCEPT !.online = online]
  <2>1. mem.nodes[i] \in NodeState
    BY <1>0
  <2>2. Kin(mem.nodes[i], n)
    BY <2>1 DEF Kin, NodeState
  <2>3. mem' = [mem EXCEPT !.nodes[i] = n]
    BY <1>2
  <2> HIDE DEF n
  <2>4. Edits(m) /\ mem'.nodes[i] = n
    BY <1>2, <2>2, <2>3, NodeEdited
  <2>5. Grows
    BY <1>2, <2>4, EditsWithin DEF Grows
  <2>6. \A j \in DOMAIN mem.nodes : mem.nodes[j].machine_key = m => j = i
    BY <1>2, OneEntry
  <2> QED
    BY <2>4, <2>5, <2>6 DEF n
<1> QED
  BY <1>1, <1>2 DEF set_online, first_node

\* Steps on the keys, the hook and the clock leave the nodes alone.
LEMMA KeysOnly ==
    ASSUME StoreIInv, ~CanImport,
           AdminNext \/ (\E t \in Threads : ThreadNext(t)) \/ clock_tick
    PROVE  Grows /\ mem'.nodes = mem.nodes
<1>0. ImageOK(mem) /\ mem \in Image
  BY StoreIInvParts, ImageTyped, SMTT(20)
<1>a. ASSUME NEW img, img.nodes = mem.nodes, NEW ok, save_locked(img, ok),
             UNCHANGED <<cli, acked>>
      PROVE  Grows /\ mem'.nodes = mem.nodes
  <2>1. mem' = img /\ (disk' = disk \/ (HasPath /\ disk' = mem'))
    BY <1>a DEF save_locked
  <2> QED
    BY <1>a, <2>1, WithinOrder DEF Grows
<1>b. ASSUME mem'.nodes = mem.nodes, UNCHANGED <<disk, cli, acked>> PROVE Grows /\ mem'.nodes = mem.nodes
  BY <1>b, WithinOrder DEF Grows
<1>1. CASE AdminNext
  <2>1. ASSUME NEW k \in KeyIds, NEW o \in KeyOptions, NEW ok \in BOOLEAN,
               create_preauth_key(k, o, ok)
        PROVE  Grows /\ mem'.nodes = mem.nodes
    <3> DEFINE p == new_key(k, o)
    <3>1. save_locked([mem EXCEPT !.keys = Append(@, p)], ok) /\ UNCHANGED <<cli, acked>>
      BY <2>1 DEF create_preauth_key
    <3> HIDE DEF p
    <3>2. [mem EXCEPT !.keys = Append(@, p)].nodes = mem.nodes
      BY <1>0 DEF Image
    <3> QED
      BY <1>a, <3>1, <3>2, Zenon
  <2>2. ASSUME NEW ok \in BOOLEAN, persist(ok) PROVE Grows /\ mem'.nodes = mem.nodes
    BY <1>a, <2>2 DEF persist
  <2>3. ~dump_json /\ ~load_json
    BY SMTT(20) DEF dump_json, load_json
  <2> QED
    BY <1>1, <2>1, <2>2, <2>3 DEF AdminNext
<1>2. ASSUME NEW t \in Threads, ThreadNext(t) PROVE Grows /\ mem'.nodes = mem.nodes
  <2>1. CASE reload_read(t) \/ reload_skip(t) \/ consume_deny(t)
    BY <1>b, <2>1 DEF reload_read, reload_skip, consume_deny
  <2>2. ASSUME NEW k \in KeyIds, consume_preauth(t, k) PROVE Grows /\ mem'.nodes = mem.nodes
    BY <1>b, <2>2 DEF consume_preauth
  <2>3. CASE reload_install(t)
    <3>1. mem'.nodes = mem.nodes
      BY <1>0, <2>3 DEF reload_install, Image
    <3> QED
      BY <1>b, <2>3, <3>1 DEF reload_install
  <2>4. ASSUME NEW ok \in BOOLEAN, consume_claim(t, ok) PROVE Grows /\ mem'.nodes = mem.nodes
    <3>1. PICK i \in DOMAIN mem.keys :
              save_locked([mem EXCEPT !.keys[i].used = TRUE], ok) /\ UNCHANGED <<cli, acked>>
      BY <2>4, Zenon DEF consume_claim
    <3>2. [mem EXCEPT !.keys[i].used = TRUE].nodes = mem.nodes
      BY <1>0 DEF Image
    <3> QED
      BY <1>a, <3>1, <3>2, Zenon
  <2> QED
    BY <1>2, <2>1, <2>2, <2>3, <2>4 DEF ThreadNext
<1>3. CASE clock_tick
  BY <1>b, <1>3 DEF clock_tick
<1> QED
  BY <1>1, <1>2, <1>3

\* Everything but crashes and the command line tool only adds nodes, as long
\* as nothing is imported.
LEMMA ServerGrows ==
    ASSUME StoreIInv, ~CanImport,
           \/ AdminNext
           \/ \E t \in Threads : ThreadNext(t)
           \/ \E m \in Machines : NodeNext(m)
           \/ clock_tick
    PROVE  Grows
<1>1. ImageOK(mem)
  BY StoreIInvParts
<1>2. ASSUME NEW m \in Machines, NodeNext(m) PROVE Grows
  BY <1>1, <1>2, ExistingEdits, NewAdds, FullSame, InfoEdits, OnlineEdits, Zenon DEF NodeNext
<1> QED
  BY <1>2, KeysOnly

\* The constructor takes over the nodes of the file.
LEMMA ConstructNodes ==
    ASSUME StoreIInv, NEW k \in KeyIds, construct(load_or_init, k)
    PROVE  /\ constructed(load_or_init, k).nodes = IF HasPath THEN disk.nodes ELSE <<>>
           /\ disk'.nodes = disk.nodes /\ (~HasPath => disk' = disk)
<1> DEFINE img == load_or_init
<1>1. img \in Image /\ img.nodes = IF HasPath THEN disk.nodes ELSE <<>>
  <2>1. ImageOK(disk) /\ disk \in Image
    BY StoreIInvParts, ImageTyped
  <2>2. EmptyImage \in Image /\ EmptyImage.nodes = <<>>
    BY DEF EmptyImage, Image
  <2>3. apply_snapshot_locked(disk) \in Image
    BY <2>1, SnapshotApplied, ImageTyped
  <2>4. apply_snapshot_locked(disk).nodes = disk.nodes
    BY <2>1, SnapshotApplied DEF Image
  <2> QED
    BY <2>2, <2>3, <2>4 DEF load_or_init
<1> HIDE DEF img
<1>2. constructed(img, k).nodes = img.nodes
  BY <1>1 DEF constructed, Image
<1>3. disk' \in {disk, constructed(img, k)} /\ (~HasPath => disk' = disk)
      /\ (disk' # disk => HasPath)
  BY DEF construct, img
<1> QED
  BY <1>1, <1>2, <1>3 DEF img

\* A restart comes back with the nodes of the file.
LEMMA RestartNodes ==
    ASSUME StoreIInv, ChainOK, NEW k \in KeyIds, restart(k)
    PROVE  /\ mem'.nodes = IF HasPath THEN disk.nodes ELSE <<>>
           /\ disk'.nodes = disk.nodes /\ Within(mem', mem)
<1>1. construct(load_or_init, k) /\ mem' = constructed(load_or_init, k)
  BY DEF restart
<1>2. /\ mem'.nodes = IF HasPath THEN disk.nodes ELSE <<>>
      /\ disk'.nodes = disk.nodes
  BY <1>1, ConstructNodes, SMTT(20)
<1>3. Within(mem', disk)
  BY <1>2, WithinOrder
<1> QED
  BY <1>2, <1>3, WithinOrder DEF ChainOK

\* Steps that only add nodes keep the chain.
LEMMA ChainGrows ==
    ASSUME ChainOK, Grows
    PROVE  ChainOK'
<1>1. /\ Within(cli.img, disk) /\ Within(disk, mem) /\ Within(mem, mem')
      /\ cli' = cli /\ (disk' = disk \/ (HasPath /\ disk' = mem'))
      /\ ~HasPath => disk.nodes = <<>> /\ ~cli.active
  BY DEF ChainOK, Grows
<1>2. Within(disk, mem') /\ Within(mem', mem')
  BY <1>1, WithinOrder
<1>3. Within(cli.img, mem')
  BY <1>1, <1>2, WithinOrder
<1>4. Within(cli.img, disk)' /\ Within(disk, mem)'
  <2>1. Within(cli'.img, disk') /\ Within(disk', mem')
    BY <1>1, <1>2, <1>3
  <2> QED
    BY <2>1 DEF Within
<1> QED
  BY <1>1, <1>4 DEF ChainOK

\* So do crashes and the command line tool.
LEMMA ChainProcess ==
    ASSUME StoreIInv, ChainOK, ProcessNext
    PROVE  ChainOK' /\ (Within(mem, mem') \/ Within(mem', mem))
<1>0. /\ Within(cli.img, disk) /\ Within(disk, mem)
      /\ ~HasPath => disk.nodes = <<>> /\ ~cli.active
      /\ EmptyImage.nodes = <<>> /\ cli.img \in Image
  BY VectorsTyped DEF ChainOK, EmptyImage
<1>a. ASSUME Within(cli'.img, disk'), Within(disk', mem'),
             ~HasPath => disk'.nodes = <<>> /\ ~cli'.active
      PROVE  ChainOK'
  <2>1. Within(cli.img, disk)' /\ Within(disk, mem)'
    BY <1>a DEF Within
  <2> QED
    BY <1>a, <2>1 DEF ChainOK
<1>1. ASSUME NEW k \in KeyIds, restart(k) PROVE ChainOK' /\ Within(mem', mem)
  <2>1. /\ mem'.nodes = IF HasPath THEN disk.nodes ELSE <<>>
        /\ disk'.nodes = disk.nodes /\ Within(mem', mem)
    BY <1>1, RestartNodes
  <2>2. cli' = cli
    BY <1>1 DEF restart
  <2>3. disk'.nodes = mem'.nodes
    BY <1>0, <2>1
  <2>4. Within(disk', mem') /\ Within(disk, disk')
    BY <2>1, <2>3, WithinOrder, Zenon
  <2>5. Within(cli'.img, disk')
    BY <1>0, <2>2, <2>4, WithinOrder
  <2> QED
    BY <1>0, <1>a, <2>1, <2>2, <2>4, <2>5, SMTT(20)
<1>2. ASSUME NEW k \in KeyIds, cli_start(k) PROVE ChainOK' /\ Within(mem, mem')
  <2>1. /\ HasPath /\ construct(load_or_init, k) /\ mem' = mem
        /\ cli'.img = constructed(load_or_init, k)
    BY <1>2 DEF cli_start
  <2>2. cli'.img.nodes = disk.nodes /\ disk'.nodes = disk.nodes
    BY <2>1, ConstructNodes, SMTT(20)
  <2>3. Within(cli'.img, disk') /\ Within(disk', disk) /\ Within(mem, mem')
    BY <2>1, <2>2, WithinOrder, SMTT(20)
  <2>4. Within(disk', mem')
    BY <1>0, <2>1, <2>3, WithinOrder
  <2> QED
    BY <1>a, <2>1, <2>3, <2>4
<1>3. ASSUME NEW k \in KeyIds, NEW o \in KeyOptions, cli_create(k, o)
      PROVE  ChainOK' /\ Within(mem, mem')
  <2> DEFINE p == new_key(k, [o EXCEPT !.expiration = 0])
  <2>1. /\ cli.active /\ disk' = [cli.img EXCEPT !.keys = Append(@, p)] /\ mem' = mem
        /\ cli' = [active |-> FALSE, img |-> EmptyImage]
    BY <1>3 DEF cli_create
  <2> HIDE DEF p
  <2>2. disk'.nodes = cli.img.nodes /\ cli'.img.nodes = <<>> /\ cli'.active = FALSE
    BY <1>0, <2>1 DEF Image
  <2>3. Within(cli'.img, disk') /\ Within(disk', cli.img) /\ Within(mem, mem')
    <3>1. Within(cli'.img, disk')
      BY <2>2, WithinOrder
    <3>2. Within(disk', cli.img)
      BY <2>2, WithinOrder
    <3>3. Within(mem, mem')
      BY <2>1, WithinOrder, SMTT(20)
    <3> QED
      BY <3>1, <3>2, <3>3
  <2>4. Within(disk', disk)
    BY <1>0, <2>3, WithinOrder
  <2>5. Within(disk', mem')
    BY <1>0, <2>1, <2>4, WithinOrder, SMTT(20)
  <2> QED
    BY <1>0, <1>a, <2>1, <2>2, <2>3, <2>5
<1>4. CASE cli_exit
  <2>1. /\ mem' = mem /\ disk' = disk /\ cli' = [active |-> FALSE, img |-> EmptyImage]
    BY <1>4, SMTT(20) DEF cli_exit
  <2>2. Within(cli'.img, disk') /\ Within(mem, mem')
    BY <1>0, <2>1, WithinOrder, SMTT(20)
  <2> QED
    BY <1>0, <1>a, <2>1, <2>2
<1>5. CASE clock_tick
  <2>1. mem' = mem /\ disk' = disk /\ cli' = cli
    BY <1>5 DEF clock_tick
  <2>2. Within(mem, mem')
    BY <2>1, WithinOrder, SMTT(20)
  <2> QED
    BY <1>0, <1>a, <2>1, <2>2
<1> QED
  BY <1>1, <1>2, <1>3, <1>4, <1>5, SMTT(20) DEF ProcessNext

\* Two images that are part of one another agree on the machines of both.
LEMMA WithinAgree ==
    ASSUME NEW a, NEW b, ImageOK(b), Within(a, b),
           NEW i \in DOMAIN a.nodes, NEW j \in DOMAIN b.nodes,
           a.nodes[i].machine_key = b.nodes[j].machine_key
    PROVE  Kin(a.nodes[i], b.nodes[j])
<1>1. PICK k \in DOMAIN b.nodes : Kin(a.nodes[i], b.nodes[k])
  BY DEF Within
<1>2. k = j
  BY <1>1, OneEntry, Zenon DEF Kin
<1> QED
  BY <1>1, <1>2

\* The store a fresh server starts with has no nodes (Store::open's bootstrap).
LEMMA FreshNodes ==
    ASSUME StoreInit
    PROVE  mem.nodes = <<>>
<1>1. PICK k \in KeyIds : mem = [EmptyImage EXCEPT !.keys = <<bootstrap_key(k)>>]
  BY Zenon DEF StoreInit
<1>2. EmptyImage.nodes = <<>> /\ mem.nodes = EmptyImage.nodes
  BY ONLY <1>1 DEF EmptyImage
<1> QED
  BY ONLY <1>2

\* A fresh server's images have no nodes.
LEMMA ChainInit ==
    ASSUME StoreInit
    PROVE  ChainOK /\ AckedOK
<1>1. /\ mem.nodes = <<>> /\ disk.nodes = <<>> /\ cli.img.nodes = <<>> /\ ~cli.active
      /\ acked = [m \in Machines |-> {}]
  <2>1. /\ disk = mem \/ disk = EmptyImage
        /\ cli = [active |-> FALSE, img |-> EmptyImage]
        /\ acked = [m \in Machines |-> {}]
    BY Zenon DEF StoreInit
  <2>2. EmptyImage.nodes = <<>>
    BY ONLY DEF EmptyImage
  <2> QED
    BY ONLY <2>1, <2>2, FreshNodes, StoreInit
<1>2. Within(cli.img, disk) /\ Within(disk, mem)
  BY <1>1, WithinOrder
<1> QED
  BY <1>1, <1>2 DEF ChainOK, AckedOK, Keeps

\* Images that have grown keep the addresses that were handed out.
LEMMA AckedGrows ==
    ASSUME StoreIInv, AckedOK, Grows
    PROVE  AckedOK'
<1>0. /\ acked \in [Machines -> SUBSET Addresses] /\ Keeps(mem) /\ (HasPath => Keeps(disk))
      /\ Within(mem, mem') /\ (disk' = disk \/ (HasPath /\ disk' = mem'))
  BY SMTT(20) DEF StoreIInv, StoreTypeOK, AckedOK, Grows
<1>1. Keeps(mem')
  BY <1>0 DEF Keeps, Within, Kin
<1>2. CASE acked' = acked
  <2>1. \A img : Keeps(img)' <=> Keeps(img')
    BY ONLY <1>2, Zenon DEF Keeps
  <2> QED
    BY ONLY <1>0, <1>1, <1>2, <2>1, Zenon DEF AckedOK
<1>3. ASSUME NEW i \in DOMAIN mem'.nodes, NEW m \in Machines, mem'.nodes[i].machine_key = m,
             acked' = [acked EXCEPT ![m] = @ \cup {mem'.nodes[i].ip}],
             HasPath => disk' = mem'
      PROVE  AckedOK'
  <2>1. \A n \in Machines : \A a \in acked'[n] :
            a \in acked[n] \/ (n = m /\ a = mem'.nodes[i].ip)
    BY <1>0, <1>3
  <2>2. Keeps(mem)'
    BY <1>1, <1>3, <2>1 DEF Keeps
  <2>3. HasPath => Keeps(disk)'
    BY <1>3, <2>2, SMTT(20) DEF Keeps
  <2> QED
    BY <2>2, <2>3 DEF AckedOK
<1> QED
  BY <1>2, <1>3 DEF Grows

\* Handed-out addresses of a memory that keeps them are never shared.
LEMMA AckedUnique ==
    ASSUME UniqueIdentity, Keeps(mem)
    PROVE  AddressForLife
<1> SUFFICES ASSUME NEW m \in Machines, NEW n \in Machines,
                    NEW a \in acked[m], NEW b \in acked[n]
             PROVE  IF m = n THEN a = b ELSE a.v4 # b.v4 /\ a.v6 # b.v6
  BY DEF AddressForLife
<1>1. PICK i \in DOMAIN mem.nodes : mem.nodes[i].machine_key = m /\ mem.nodes[i].ip = a
  BY DEF Keeps
<1>2. PICK j \in DOMAIN mem.nodes : mem.nodes[j].machine_key = n /\ mem.nodes[j].ip = b
  BY DEF Keeps
<1> QED
  BY <1>1, <1>2 DEF UniqueIdentity
=============================================================================
