------------------------ MODULE StoreHistoryProofs --------------------------
(***************************************************************************)
(* Proofs about what Store's callers are told over time, for every value   *)
(* of its constants: which keys consume_preauth accepts and refuses, that  *)
(* a machine keeps its group and its addresses, and that the embedder's    *)
(* hook sees every change.                                                 *)
(***************************************************************************)
EXTENDS StoreProofs

\* A one-shot key that was accepted is marked in this vector.
SpentOK(ks, C) ==
    \A i \in DOMAIN ks : ~ks[i].reusable /\ C[ks[i].key] > 0 => ks[i].used

\* Where the server alone writes its state: a copy it has no use for is empty,
\* and a call of consume_preauth holds a vector only between its two sections.
AloneOK ==
    /\ ~cli.active /\ cli.img.keys = <<>>
    /\ ~HasHook => held.keys = <<>>
    /\ ~HasPath => disk.keys = <<>>
    /\ \A t \in Threads : call[t].step # "install" => call[t].seen = <<>>
    /\ \A t \in Threads : ~HasPath => call[t].step \notin {"read", "install"}

\* The command line tool and imports are not used, and at most one thread runs
\* consume_preauth over a state file.
Alone == ~HasCli /\ ~CanImport /\ (HasPath => \A t, u \in Threads : t = u)

\* When the server alone writes its state, no vector that may be read again
\* offers a spent key.
SpentIInv ==
    /\ OneShotOnce
    /\ \A ks \in KeyVectors : SpentOK(ks, claims)
    /\ AloneOK

\* Every key of every vector - the memory's, the file's, the embedder's, the
\* command line tool's and those being reloaded - is one that was created, in
\* the group it was created with and with its expiry, as far as an int holds it.
THEOREM KeysInductive == StoreSpec => [](StoreIInv /\ KeyIInv)
<1>1. StoreInit => StoreIInv /\ KeyIInv
  BY StoreInitOK, KeyInit
<1>2. StoreIInv /\ KeyIInv /\ [StoreNext]_store_vars => (StoreIInv /\ KeyIInv)'
  <2> SUFFICES ASSUME StoreIInv, KeyIInv, [StoreNext]_store_vars PROVE StoreIInv' /\ KeyIInv'
    OBVIOUS
  <2>1. CASE UNCHANGED store_vars
    <3>1. KeyIInv'
      BY <2>1 DEF store_vars, KeyIInv, MintedOK, minted_ids, KeyVectors
    <3> QED
      BY <2>1, <3>1, Stutter
  <2>2. CASE StoreNext
    BY <2>2, AdminStep, ThreadStep, NodeStep, ProcessStep, KeyStep DEF StoreNext
  <2> QED
    BY <2>1, <2>2
<1> QED
  BY <1>1, <1>2, PTL DEF StoreSpec

\* A call of consume_preauth moves by its own steps only, or ends in a crash.
LEMMA CallMoves ==
    ASSUME call \in [Threads -> Call], StoreNext, NEW t \in Threads
    PROVE  call'[t] = call[t] \/ call'[t] = Idle \/ ThreadNext(t)
<1>1. CASE AdminNext
  BY <1>1, Zenon DEF AdminNext, create_preauth_key, persist, dump_json, load_json
<1>2. ASSUME NEW u \in Threads, ThreadNext(u), u # t PROVE call'[t] = call[t]
  BY <1>2, Zenon DEF ThreadNext, consume_preauth, reload_read, reload_skip, reload_install,
              consume_claim, consume_deny
<1>3. ASSUME NEW m \in Machines, NodeNext(m) PROVE call' = call
  BY <1>3, NodeCall
<1>4. CASE ProcessNext
  <2>1. ASSUME NEW k \in KeyIds, restart(k) PROVE call'[t] = Idle
    BY <2>1 DEF restart
  <2>2. ASSUME NEW k \in KeyIds, cli_start(k) PROVE call' = call
    BY <2>2 DEF cli_start
  <2>3. ASSUME NEW k \in KeyIds, NEW o \in KeyOptions, cli_create(k, o) PROVE call' = call
    BY <2>3 DEF cli_create
  <2>4. cli_exit \/ clock_tick => call' = call
    BY DEF cli_exit, clock_tick
  <2> QED
    BY <1>4, <2>1, <2>2, <2>3, <2>4 DEF ProcessNext
<1> QED
  BY <1>1, <1>2, <1>3, <1>4 DEF StoreNext

\* What the step that accepts or refuses a key does.
LEMMA CallEnds ==
    ASSUME call \in [Threads -> Call], StoreNext, NEW t \in Threads, call[t].step = "mark"
    PROVE  /\ call'[t].step = "claimed" =>
                  \E i \in DOMAIN mem.keys :
                      /\ mem.keys[i].key = call[t].key /\ claimable(mem.keys[i])
                      /\ call'[t].claim = [token |-> mem.keys[i].token,
                                           shared |-> mem.keys[i].shared]
           /\ call'[t].step = "denied" => consume_deny(t)
<1>1. call[t] \in Call /\ Idle.step = "idle"
  BY DEF Idle
<1>2. call'[t].step \notin {"claimed", "denied"} \/ ThreadNext(t)
  BY <1>1, CallMoves
<1>3. CASE ThreadNext(t)
  <2>1. ASSUME NEW k \in KeyIds, consume_preauth(t, k) PROVE FALSE
    BY <2>1 DEF consume_preauth
  <2>2. ~reload_read(t) /\ ~reload_skip(t) /\ ~reload_install(t)
    BY DEF reload_read, reload_skip, reload_install
  <2>3. ASSUME NEW ok \in BOOLEAN, consume_claim(t, ok)
        PROVE  /\ call'[t].step \in {"claimed", "threw"}
               /\ \E i \in DOMAIN mem.keys :
                      /\ mem.keys[i].key = call[t].key /\ claimable(mem.keys[i])
                      /\ call'[t].claim = [token |-> mem.keys[i].token,
                                           shared |-> mem.keys[i].shared]
    BY <1>1, <2>3 DEF consume_claim, first_key, Call
  <2>4. consume_deny(t) => call'[t].step = "denied"
    BY <1>1 DEF consume_deny, Call
  <2> QED
    BY <1>3, <2>1, <2>2, <2>3, <2>4 DEF ThreadNext
<1> QED
  BY <1>2, <1>3

\* consume_preauth accepts only keys that were created, with their group and
\* not past their expiry, whatever crashes, failed saves, reloads, imports and
\* writes of the command line tool happened since, as long as the clock fits
\* the int that an expiry is read back into.
THEOREM ClaimsHonest ==
    ASSUME MaxNow <= IntMax
    PROVE  StoreSpec => ClaimHonest
<1>1. ASSUME StoreIInv, KeyIInv, StoreNext, NEW t \in Threads,
             call[t].step = "mark", call'[t].step = "claimed"
      PROVE  \E x \in minted :
                 /\ x.key = call[t].key /\ ~past_expiry(x)
                 /\ call'[t].claim = [token |-> x.token, shared |-> x.shared]
  <2>0. /\ now \in Nat /\ now <= IntMax /\ IntMax \in Nat /\ minted \subseteq PreauthKey
        /\ call \in [Threads -> Call] /\ KeysOK(mem.keys, minted, claims)
    BY <1>1, StoreAssumption, VectorsTyped DEF KeyIInv, KeyVectors
  <2>1. PICK i \in DOMAIN mem.keys :
            /\ mem.keys[i].key = call[t].key /\ claimable(mem.keys[i])
            /\ call'[t].claim = [token |-> mem.keys[i].token, shared |-> mem.keys[i].shared]
    BY <1>1, <2>0, CallEnds
  <2>2. PICK x \in minted : KeyOf(mem.keys[i], x)
    BY <2>0 DEF KeysOK, KeyOK
  <2>3. x.expires_unix \in Int
    BY <2>0 DEF PreauthKey
  <2>4. ~past_expiry(x)
    <3> SUFFICES ASSUME x.expires_unix > 0, now > x.expires_unix PROVE FALSE
      BY DEF past_expiry
    <3>1. x.expires_unix <= IntMax
      BY <2>0, <2>3
    <3>2. mem.keys[i].expires_unix = x.expires_unix
      BY <2>2, <2>3, <3>1, ToIntFacts DEF KeyOf
    <3>3. ~expired(mem.keys[i])
      BY <2>1 DEF claimable
    <3> QED
      BY <2>0, <2>3, <3>2, <3>3 DEF expired
  <2> QED
    BY <2>1, <2>2, <2>4 DEF KeyOf
<1>2. StoreIInv /\ KeyIInv /\ [StoreNext]_store_vars =>
          [\A t \in Threads :
               call[t].step = "mark" /\ call'[t].step = "claimed" =>
                   \E x \in minted :
                       /\ x.key = call[t].key
                       /\ ~past_expiry(x)
                       /\ call'[t].claim = [token |-> x.token, shared |-> x.shared]]_call
  BY <1>1 DEF store_vars
<1> QED
  BY <1>2, KeysInductive, PTL DEF StoreSpec, ClaimHonest

\* consume_preauth refuses a key that is in keys_ only when it is past the
\* expiry it was created with or is a one-shot key that was accepted before,
\* when saves do not fail and every expiry fits the int it is read back into:
\* no crash, reload, import or write of the command line tool spends a key.
THEOREM DenialsHonest ==
    ASSUME SavesSucceed, ExpiryFits
    PROVE  StoreSpec => DenialHonest
<1>1. ASSUME StoreIInv, KeyIInv, StoreNext, NEW t \in Threads,
             call[t].step = "mark", call'[t].step = "denied",
             NEW x \in minted, x.key = call[t].key,
             NEW i \in DOMAIN mem.keys, mem.keys[i].key = x.key
      PROVE  past_expiry(x) \/ (~x.reusable /\ claims[x.key] > 0)
  <2>0. /\ now \in Nat /\ IntMax \in Nat /\ minted \subseteq PreauthKey
        /\ call \in [Threads -> Call] /\ KeysOK(mem.keys, minted, claims) /\ MintedOK
        /\ mem.keys \in Seq(PreauthKey)
    BY <1>1, StoreAssumption, VectorsTyped DEF KeyIInv, KeyVectors
  <2>1. consume_deny(t)
    BY <1>1, <2>0, CallEnds
  <2>2. first_key(mem.keys, call[t].key, i)
    <3>1. \A j \in DOMAIN mem.keys : j # i => mem.keys[j].key # mem.keys[i].key
      BY <2>0 DEF KeysOK
    <3>2. \A j \in 1..(i - 1) : j \in DOMAIN mem.keys /\ j # i
      BY <2>0
    <3> QED
      BY <1>1, <3>1, <3>2 DEF first_key
  <2>3. ~claimable(mem.keys[i])
    BY <2>1, <2>2 DEF consume_deny
  <2>4. KeyOf(mem.keys[i], x)
    <3>1. PICK y \in minted : KeyOf(mem.keys[i], y)
      BY <2>0 DEF KeysOK, KeyOK
    <3>2. y = x
      BY <1>1, <2>0, <3>1 DEF MintedOK, KeyOf
    <3> QED
      BY <3>1, <3>2
  <2>5. mem.keys[i].used => claims[x.key] > 0
    BY <1>1, <2>0 DEF KeysOK, KeyOK
  <2>6. x.expires_unix \in Nat /\ mem.keys[i].expires_unix = x.expires_unix
    <3>1. x.expires_unix \in Nat /\ x.expires_unix <= IntMax
      BY <2>0, Zenon DEF MintedOK
    <3>2. mem.keys[i].expires_unix \in {x.expires_unix, ToInt(x.expires_unix)}
      BY <2>4, Zenon DEF KeyOf
    <3> QED
      BY ONLY <3>1, <3>2, ToIntFacts
  <2>7. CASE expired(mem.keys[i])
    BY <2>0, <2>6, <2>7 DEF expired, past_expiry
  <2>8. CASE ~mem.keys[i].reusable /\ mem.keys[i].used
    BY <2>4, <2>5, <2>8 DEF KeyOf
  <2> QED
    BY <2>3, <2>7, <2>8 DEF claimable
<1>2. StoreIInv /\ KeyIInv /\ [StoreNext]_store_vars =>
          [\A t \in Threads :
               call[t].step = "mark" /\ call'[t].step = "denied" =>
                   \A x \in minted :
                       x.key = call[t].key /\ (\E i \in DOMAIN mem.keys : mem.keys[i].key = x.key) =>
                           past_expiry(x) \/ (~x.reusable /\ claims[x.key] > 0)]_call
  BY <1>1 DEF store_vars
<1> QED
  BY <1>2, KeysInductive, PTL DEF StoreSpec, DenialHonest

-----------------------------------------------------------------------------
\* The file, the embedder's snapshot and the tool's image change only where
\* there is a file, a hook or an import, and a tool.
LEMMA ImagesMove ==
    ASSUME StoreNext
    PROVE  /\ disk' = disk \/ HasPath \/ cli.active
           /\ held' = held \/ HasHook \/ CanImport
           /\ cli' = cli \/ HasCli \/ cli.active
<1> DEFINE P == /\ disk' = disk \/ HasPath \/ cli.active
                /\ held' = held \/ HasHook \/ CanImport
                /\ cli' = cli \/ HasCli \/ cli.active
<1> SUFFICES P
  OBVIOUS
<1>a. ASSUME NEW img, NEW ok, save_locked(img, ok), cli' = cli PROVE P
  BY <1>a DEF save_locked
<1>b. ASSUME UNCHANGED <<disk, held, cli>> PROVE P
  BY <1>b
<1> HIDE DEF P
<1>1. CASE AdminNext
  <2>1. ASSUME NEW k, NEW o, NEW ok, create_preauth_key(k, o, ok) PROVE P
    BY <1>a, <2>1 DEF create_preauth_key
  <2>2. ASSUME NEW ok, persist(ok) PROVE P
    BY <1>a, <2>2 DEF persist
  <2>3. CASE dump_json \/ load_json
    BY <1>b, <2>3 DEF dump_json, load_json, P
  <2> QED
    BY <1>1, <2>1, <2>2, <2>3 DEF AdminNext
<1>2. ASSUME NEW t \in Threads, ThreadNext(t) PROVE P
  <2>1. ASSUME NEW ok, consume_claim(t, ok) PROVE P
    BY <1>a, <2>1 DEF consume_claim
  <2>2. CASE reload_read(t) \/ reload_skip(t) \/ reload_install(t) \/ consume_deny(t)
    BY <1>b, <2>2 DEF reload_read, reload_skip, reload_install, consume_deny
  <2>3. ASSUME NEW k, consume_preauth(t, k) PROVE P
    BY <1>b, <2>3 DEF consume_preauth
  <2> QED
    BY <1>2, <2>1, <2>2, <2>3 DEF ThreadNext
<1>3. ASSUME NEW m \in Machines, NodeNext(m) PROVE P
  <2>1. ASSUME NEW nk, NEW ok, register_existing(m, nk, ok) PROVE P
    BY <1>a, <2>1 DEF register_existing
  <2>2. ASSUME NEW nk, NEW claim, NEW ok, register_new(m, nk, claim, ok) PROVE P
    BY <1>a, <2>2 DEF register_new
  <2>3. CASE register_full(m)
    BY <1>b, <2>3 DEF register_full
  <2>4. ASSUME NEW nk, NEW eps, NEW ok, update_map_info(m, nk, eps, ok) PROVE P
    BY <1>a, <1>b, <2>4, Zenon DEF update_map_info, store_vars
  <2>5. ASSUME NEW online, set_online(m, online) PROVE P
    BY <1>b, <2>5 DEF set_online, store_vars
  <2> QED
    BY <1>3, <2>1, <2>2, <2>3, <2>4, <2>5 DEF NodeNext
<1>4. CASE ProcessNext
  <2>1. ASSUME NEW k, restart(k) PROVE P
    BY <2>1 DEF restart, construct, P
  <2>2. ASSUME NEW k, cli_start(k) PROVE P
    BY <2>2 DEF cli_start, construct, P
  <2>3. ASSUME NEW k, NEW o, cli_create(k, o) PROVE P
    BY <2>3 DEF cli_create, P
  <2>4. CASE cli_exit \/ clock_tick
    BY <2>4 DEF cli_exit, clock_tick, P
  <2> QED
    BY <1>4, <2>1, <2>2, <2>3, <2>4 DEF ProcessNext
<1> QED
  BY <1>1, <1>2, <1>3, <1>4 DEF StoreNext, P

\* The server stays alone.
LEMMA AloneStep ==
    ASSUME StoreIInv, AloneOK, Alone, StoreNext
    PROVE  AloneOK'
<1>0. call \in [Threads -> Call]
  BY VectorsTyped
<1>1. ~HasCli /\ ~CanImport /\ ~cli.active
  BY DEF AloneOK, Alone
<1>2. cli' = cli /\ (HasPath \/ disk' = disk) /\ (HasHook \/ held' = held)
  BY <1>1, ImagesMove
<1>3. ASSUME NEW t \in Threads
      PROVE  /\ call'[t].step # "install" => call'[t].seen = <<>>
             /\ ~HasPath => call'[t].step \notin {"read", "install"}
  <2>0. /\ call[t] \in Call
        /\ call[t].step # "install" => call[t].seen = <<>>
        /\ ~HasPath => call[t].step \notin {"read", "install"}
    BY <1>0 DEF AloneOK
  <2>1. CASE call'[t] = call[t]
    BY <2>0, <2>1
  <2>2. CASE call'[t] = Idle
    BY <2>2 DEF Idle
  <2>3. CASE ThreadNext(t)
    <3>1. ASSUME NEW k \in KeyIds, consume_preauth(t, k)
          PROVE  call'[t].seen = <<>> /\ call'[t].step \in {"read", "mark"}
                 /\ (~HasPath => call'[t].step = "mark")
      BY <1>0, <3>1 DEF consume_preauth, Idle
    <3>2. CASE reload_read(t)
      BY <1>0, <2>0, <3>2 DEF reload_read, Call
    <3>3. CASE reload_skip(t)
      BY <1>0, <2>0, <3>3 DEF reload_skip, Call
    <3>4. CASE reload_install(t)
      BY <1>0, <2>0, <3>4 DEF reload_install, Call
    <3>5. ASSUME NEW ok \in BOOLEAN, consume_claim(t, ok)
          PROVE  call'[t].seen = <<>> /\ call'[t].step \in {"claimed", "threw"}
      BY <1>0, <2>0, <3>5 DEF consume_claim, Call
    <3>6. CASE consume_deny(t)
      BY <1>0, <2>0, <3>6 DEF consume_deny, Call
    <3> QED
      BY <2>3, <3>1, <3>2, <3>3, <3>4, <3>5, <3>6 DEF ThreadNext
  <2> QED
    BY <1>0, <2>1, <2>2, <2>3, CallMoves
<1> QED
  BY <1>1, <1>2, <1>3 DEF AloneOK

\* Copying vectors keeps spent keys marked, and a new key is not spent.
LEMMA SpentCopies ==
    ASSUME StoreIInv, KeyIInv, OneShotOnce, \A ks \in KeyVectors : SpentOK(ks, claims),
           Copies \/ \E p \in PreauthKey : Mints(p)
    PROVE  OneShotOnce' /\ \A ks \in KeyVectors' : SpentOK(ks, claims')
<1>0. /\ KeyVectors \subseteq Seq(PreauthKey) /\ minted \subseteq PreauthKey
      /\ claims \in [KeyIds -> 0..2] /\ MintedOK
  BY VectorsTyped DEF KeyIInv
<1>a. SpentOK(<<>>, claims)
  BY DEF SpentOK
<1>1. CASE Copies
  <2>1. minted' = minted /\ claims' = claims
    BY <1>1 DEF Copies
  <2>2. ASSUME NEW s \in KeyVectors PROVE SpentOK(keys_from_json(s), claims)
    <3>1. s \in Seq(PreauthKey) /\ SpentOK(s, claims)
      BY <1>0
    <3>2. ASSUME NEW i \in DOMAIN s
          PROVE  /\ keys_from_json(s)[i].key = s[i].key
                 /\ keys_from_json(s)[i].reusable = s[i].reusable
                 /\ keys_from_json(s)[i].used = s[i].used
      <4>1. s[i] \in PreauthKey /\ keys_from_json(s)[i] = key_from_json(s[i])
        BY <3>1 DEF keys_from_json
      <4> QED
        BY <4>1 DEF key_from_json, PreauthKey
    <3>3. DOMAIN keys_from_json(s) = DOMAIN s
      BY DEF keys_from_json
    <3> QED
      BY <3>1, <3>2, <3>3 DEF SpentOK
  <2>3. \A ks \in KeyVectors' : SpentOK(ks, claims)
    BY <1>1, <1>a, <2>2 DEF Copies
  <2> QED
    BY <2>1, <2>3 DEF OneShotOnce
<1>2. ASSUME NEW p \in PreauthKey, Mints(p)
      PROVE  OneShotOnce' /\ \A ks \in KeyVectors' : SpentOK(ks, claims')
  <2>1. minted' = minted \cup {p} /\ claims' = claims /\ \A x \in minted : x.key # p.key
    BY <1>2 DEF Mints
  <2>2. claims[p.key] = 0
    <3>1. p.key \in KeyIds
      BY DEF PreauthKey
    <3> QED
      BY <1>0, <2>1, <3>1 DEF MintedOK, minted_ids
  <2>3. ASSUME NEW s \in Seq(PreauthKey), SpentOK(s, claims)
        PROVE  SpentOK(Append(s, p), claims)
    <3>1. /\ DOMAIN Append(s, p) = 1..(Len(s) + 1) /\ DOMAIN s = 1..Len(s) /\ Len(s) \in Nat
          /\ \A i \in 1..Len(s) : Append(s, p)[i] = s[i]
          /\ Append(s, p)[Len(s) + 1] = p
      BY PushedBack
    <3> QED
      BY <2>2, <2>3, <3>1 DEF SpentOK
  <2>4. SpentOK(<<p>>, claims)
    BY <2>2 DEF SpentOK
  <2>5. \A ks \in KeyVectors' : SpentOK(ks, claims)
    BY <1>0, <1>2, <1>a, <2>3, <2>4, Zenon DEF Mints
  <2> QED
    BY <2>1, <2>2, <2>5 DEF OneShotOnce
<1> QED
  BY <1>1, <1>2

\* Accepting a key marks it in every vector that is left.
LEMMA SpentMark ==
    ASSUME StoreIInv, StoreIInv', KeyIInv, SpentIInv, AloneOK', Alone,
           NEW t \in Threads, NEW ok \in BOOLEAN, consume_claim(t, ok)
    PROVE  OneShotOnce' /\ \A ks \in KeyVectors' : SpentOK(ks, claims')
<1>0. /\ mem \in Image /\ mem.keys \in Seq(PreauthKey) /\ call \in [Threads -> Call]
      /\ minted \subseteq PreauthKey /\ claims \in [KeyIds -> 0..2] /\ MintedOK
      /\ KeysOK(mem.keys, minted, claims) /\ SpentOK(mem.keys, claims)
      /\ OneShotOnce /\ AloneOK /\ \A ks \in KeyVectors : SpentOK(ks, claims)
  BY VectorsTyped, Zenon DEF KeyIInv, SpentIInv, KeyVectors, Image
<1>1. PICK i \in DOMAIN mem.keys :
          /\ call[t].step = "mark"
          /\ mem.keys[i].key = call[t].key /\ claimable(mem.keys[i])
          /\ save_locked([mem EXCEPT !.keys[i].used = TRUE], ok)
          /\ call' = [call EXCEPT
                 ![t].step = IF ok THEN "claimed" ELSE "threw",
                 ![t].claim = [token |-> mem.keys[i].token, shared |-> mem.keys[i].shared]]
          /\ claims' = IF ok THEN [claims EXCEPT ![call[t].key] = IF @ = 0 THEN 1 ELSE 2] ELSE claims
          /\ UNCHANGED <<cli, now, minted, acked>>
  BY Zenon DEF consume_claim, first_key
<1> DEFINE s == [mem.keys EXCEPT ![i].used = TRUE]
           k == call[t].key
<1>2. /\ DOMAIN s = DOMAIN mem.keys /\ s[i].used = TRUE
      /\ \A j \in DOMAIN mem.keys : j # i => s[j] = mem.keys[j]
      /\ \A j \in DOMAIN mem.keys : s[j].key = mem.keys[j].key
                                    /\ s[j].reusable = mem.keys[j].reusable
  <2>1. \A j \in DOMAIN mem.keys : mem.keys[j] \in PreauthKey
    BY <1>0
  <2> QED
    BY <2>1 DEF PreauthKey
<1>3. k \in KeyIds
  <2>1. mem.keys[i] \in PreauthKey
    BY <1>0
  <2> QED
    BY <1>1, <2>1 DEF PreauthKey
<1>4. [mem EXCEPT !.keys[i].used = TRUE].keys = s
  <2>1. mem \in Image
    BY <1>0
  <2> QED
    BY <2>1 DEF Image
<1> HIDE DEF s
<1>5. /\ mem'.keys = s
      /\ disk'.keys = IF HasPath /\ ok THEN s ELSE disk.keys
      /\ held'.keys = IF HasHook /\ ok THEN s ELSE held.keys
      /\ cli'.img.keys = <<>>
  <2>1. cli.img.keys = <<>> /\ cli' = cli
    BY <1>0, <1>1 DEF AloneOK
  <2>2. save_locked([mem EXCEPT !.keys[i].used = TRUE], ok)
    BY <1>1
  <2> DEFINE img == [mem EXCEPT !.keys[i].used = TRUE]
  <2>3. img.keys = s
    BY <1>4
  <2> HIDE DEF img
  <2>4. /\ mem' = img
        /\ disk' = IF HasPath /\ ok THEN img ELSE disk
        /\ held' = IF HasHook /\ ok THEN img ELSE held
    BY <2>2 DEF save_locked, img
  <2> QED
    BY <2>1, <2>3, <2>4
<1>6. \A u \in Threads : call'[u].seen = call[u].seen
  BY <1>0, <1>1 DEF Call
<1>7. CASE ~ok
  <2>1. claims' = claims /\ minted' = minted
    BY <1>1, <1>7
  <2>2. SpentOK(s, claims)
    BY <1>0, <1>2 DEF SpentOK
  <2>3. \A ks \in KeyVectors' : ks \in KeyVectors \/ ks \in {s, <<>>}
    BY <1>5, <1>6, <1>7 DEF KeyVectors
  <2>4. SpentOK(<<>>, claims)
    BY DEF SpentOK
  <2> QED
    BY <1>0, <2>1, <2>2, <2>3, <2>4 DEF OneShotOnce
<1>8. CASE ok
  <2>1. /\ claims' = [claims EXCEPT ![k] = IF @ = 0 THEN 1 ELSE 2] /\ minted' = minted
    BY <1>1, <1>8
  <2>2. ASSUME NEW u \in Threads PROVE call[u].seen = <<>>
    <3>1. call[t].seen = <<>>
      BY <1>0, <1>1 DEF AloneOK
    <3>2. CASE HasPath
      BY <3>1, <3>2 DEF Alone
    <3>3. CASE ~HasPath
      BY <1>0, <3>3 DEF AloneOK
    <3> QED
      BY <3>2, <3>3
  <2>3. \A ks \in KeyVectors' : ks \in {s, <<>>}
    BY <1>0, <1>5, <1>6, <1>8, <2>2 DEF KeyVectors, AloneOK
  <2>4. SpentOK(s, claims')
    <3>1. ASSUME NEW j \in DOMAIN s, ~s[j].reusable, claims'[s[j].key] > 0 PROVE s[j].used
      <4>1. CASE j = i
        BY <1>2, <4>1
      <4>2. CASE j # i
        <5>1. s[j] = mem.keys[j] /\ j \in DOMAIN mem.keys
          BY <1>2, <4>2
        <5>2. mem.keys[j].key # k
          BY <1>0, <1>1, <4>2, <5>1 DEF KeysOK
        <5>3. claims'[mem.keys[j].key] = claims[mem.keys[j].key]
          <6>1. mem.keys[j] \in PreauthKey
            BY <1>0, <5>1
          <6>2. mem.keys[j].key \in KeyIds
            BY <6>1 DEF PreauthKey
          <6> QED
            BY <1>0, <2>1, <5>2, <6>2
        <5> QED
          BY <1>0, <3>1, <5>1, <5>3 DEF SpentOK
      <4> QED
        BY <4>1, <4>2
    <3> QED
      BY <3>1 DEF SpentOK
  <2>5. SpentOK(<<>>, claims')
    BY DEF SpentOK
  <2>6. ASSUME NEW x \in minted, ~x.reusable PROVE claims'[x.key] <= 1
    <3>0. x.key \in KeyIds
      BY <1>0 DEF PreauthKey
    <3>1. CASE x.key = k
      <4>1. PICK y \in minted : KeyOf(mem.keys[i], y)
        BY <1>0 DEF KeysOK, KeyOK
      <4>2. y = x
        BY <1>0, <1>1, <3>1, <4>1 DEF MintedOK, KeyOf
      <4>3. ~mem.keys[i].reusable
        BY <2>6, <4>1, <4>2 DEF KeyOf
      <4>4. ~mem.keys[i].used
        BY <1>1, <4>3 DEF claimable
      <4>5. ~(claims[k] > 0)
        BY <1>0, <1>1, <4>3, <4>4 DEF SpentOK
      <4>6. claims[k] \in 0..2
        BY <1>0, <1>3
      <4>7. claims[k] = 0
        BY <4>5, <4>6
      <4> QED
        BY <1>0, <1>3, <2>1, <3>1, <4>7
    <3>2. CASE x.key # k
      BY <1>0, <2>1, <2>6, <3>0, <3>2 DEF OneShotOnce
    <3> QED
      BY <3>1, <3>2
  <2> QED
    BY <2>1, <2>3, <2>4, <2>5, <2>6 DEF OneShotOnce
<1> QED
  BY <1>7, <1>8

\* The step of the invariant.
LEMMA SpentStep ==
    ASSUME StoreIInv, KeyIInv, SpentIInv, Alone, StoreNext
    PROVE  SpentIInv'
<1>0. now \in 1..MaxNow /\ OneShotOnce /\ AloneOK /\ \A ks \in KeyVectors : SpentOK(ks, claims)
  BY DEF KeyIInv, SpentIInv
<1>1. StoreIInv' /\ AloneOK'
  BY <1>0, AloneStep, AdminStep, ThreadStep, NodeStep, ProcessStep DEF StoreNext
<1>2. SUFFICES OneShotOnce' /\ \A ks \in KeyVectors' : SpentOK(ks, claims')
  BY <1>1 DEF SpentIInv
<1>3. CASE AdminNext
  BY <1>0, <1>3, AdminKeys, SpentCopies
<1>4. ASSUME NEW t \in Threads, ThreadNext(t)
      PROVE  OneShotOnce' /\ \A ks \in KeyVectors' : SpentOK(ks, claims')
  <2>1. CASE Copies
    BY <1>0, <2>1, SpentCopies
  <2>2. CASE \E ok \in BOOLEAN : consume_claim(t, ok)
    BY <1>1, <2>2, SpentMark
  <2> QED
    BY <1>4, <2>1, <2>2, ThreadKeys
<1>5. ASSUME NEW m \in Machines, NodeNext(m)
      PROVE  OneShotOnce' /\ \A ks \in KeyVectors' : SpentOK(ks, claims')
  BY <1>0, <1>5, NodeCopies, SpentCopies
<1>6. CASE ProcessNext
  BY <1>0, <1>6, ProcessKeys, SpentCopies
<1> QED
  BY <1>3, <1>4, <1>5, <1>6 DEF StoreNext

\* consume_preauth accepts a one-shot key at most once, through crashes, failed
\* saves and reloads, as long as the server alone writes its state: the command
\* line tool is not used, nothing is imported, and no two threads are in
\* consume_preauth over a state file.
THEOREM OneShotKeys ==
    ASSUME Alone
    PROVE  StoreSpec => []OneShotOnce
<1>1. StoreInit => SpentIInv
  <2> SUFFICES ASSUME StoreInit PROVE SpentIInv
    OBVIOUS
  <2>1. StoreIInv /\ claims = [k \in KeyIds |-> 0]
    BY StoreInitOK, Zenon DEF StoreInit
  <2>2. KeyVectors \subseteq Seq(PreauthKey) /\ minted \subseteq PreauthKey
    BY <2>1, VectorsTyped
  <2>3. ASSUME NEW ks \in KeyVectors PROVE SpentOK(ks, claims)
    <3>0. \A i \in DOMAIN ks : ks[i] \in PreauthKey
      BY <2>2
    <3>1. \A i \in DOMAIN ks : ks[i].key \in KeyIds
      BY <3>0 DEF PreauthKey
    <3> QED
      BY <2>1, <3>1 DEF SpentOK
  <2>4. OneShotOnce
    <3>1. \A x \in minted : x.key \in KeyIds
      BY <2>2 DEF PreauthKey
    <3> QED
      BY <2>1, <3>1 DEF OneShotOnce
  <2>5. AloneOK
    BY DEF StoreInit, AloneOK, EmptyImage, Idle
  <2> QED
    BY <2>3, <2>4, <2>5 DEF SpentIInv
<1>2. StoreIInv /\ KeyIInv /\ SpentIInv /\ [StoreNext]_store_vars => SpentIInv'
  <2> SUFFICES ASSUME StoreIInv, KeyIInv, SpentIInv, [StoreNext]_store_vars PROVE SpentIInv'
    OBVIOUS
  <2>1. CASE UNCHANGED store_vars
    BY <2>1 DEF store_vars, SpentIInv, OneShotOnce, KeyVectors, AloneOK
  <2>2. CASE StoreNext
    BY <2>2, SpentStep
  <2> QED
    BY <2>1, <2>2
<1>3. SpentIInv => OneShotOnce
  BY DEF SpentIInv
<1> QED
  BY <1>1, <1>2, <1>3, KeysInductive, PTL DEF StoreSpec

\* The step of the chain.
LEMMA ChainStep ==
    ASSUME StoreIInv, ~CanImport, ChainOK, StoreNext
    PROVE  ChainOK' /\ (Within(mem, mem') \/ Within(mem', mem))
<1>1. CASE Grows
  BY <1>1, ChainGrows DEF Grows
<1>2. CASE ProcessNext
  BY <1>2, ChainProcess
<1> QED
  BY <1>1, <1>2, ServerGrows DEF StoreNext

\* Without imports, a registered machine keeps its id, addresses, token and
\* shared flag through registrations, map requests, crashes, failed saves and
\* writes of the command line tool.
THEOREM GroupsStable ==
    ASSUME ~CanImport
    PROVE  StoreSpec => GroupStable
<1>1. StoreInit => ChainOK
  BY ChainInit
<1>2. StoreIInv /\ ChainOK /\ [StoreNext]_store_vars => ChainOK'
  <2> SUFFICES ASSUME StoreIInv, ChainOK, [StoreNext]_store_vars PROVE ChainOK'
    OBVIOUS
  <2>1. CASE UNCHANGED store_vars
    BY <2>1 DEF store_vars, ChainOK, Within
  <2>2. CASE StoreNext
    BY <2>2, ChainStep
  <2> QED
    BY <2>1, <2>2
<1>3. StoreIInv /\ StoreIInv' /\ ChainOK /\ [StoreNext]_store_vars =>
          [\A i \in DOMAIN mem.nodes, j \in DOMAIN mem'.nodes :
               mem.nodes[i].machine_key = mem'.nodes[j].machine_key =>
                   /\ mem.nodes[i].id = mem'.nodes[j].id
                   /\ mem.nodes[i].ip = mem'.nodes[j].ip
                   /\ mem.nodes[i].token = mem'.nodes[j].token
                   /\ mem.nodes[i].shared = mem'.nodes[j].shared]_mem
  <2> SUFFICES ASSUME StoreIInv, StoreIInv', ChainOK, StoreNext,
                      NEW i \in DOMAIN mem.nodes, NEW j \in DOMAIN mem'.nodes,
                      mem.nodes[i].machine_key = mem'.nodes[j].machine_key
               PROVE  Kin(mem.nodes[i], mem'.nodes[j])
    BY DEF store_vars, Kin
  <2>1. ImageOK(mem) /\ ImageOK(mem')
    BY StoreIInvParts, Zenon DEF StoreIInv, ImageOK
  <2>2. CASE Within(mem, mem')
    BY <2>1, <2>2, WithinAgree
  <2>3. CASE Within(mem', mem)
    <3>1. Kin(mem'.nodes[j], mem.nodes[i])
      BY <2>1, <2>3, WithinAgree
    <3> QED
      BY <3>1 DEF Kin
  <2> QED
    BY <2>2, <2>3, ChainStep
<1> QED
  BY <1>1, <1>2, <1>3, StoreInductive, PTL DEF StoreSpec, GroupStable

\* The step of the addresses, for a server that alone writes the file.
LEMMA AckedStep ==
    ASSUME StoreIInv, ChainOK, AckedOK, ~CanImport, ~HasCli, ~cli.active,
           MayCrash => HasPath, StoreNext
    PROVE  AckedOK' /\ ~cli'.active
<1>1. CASE Grows
  BY <1>1, AckedGrows DEF Grows
<1>2. ASSUME NEW k \in KeyIds, restart(k) PROVE AckedOK' /\ ~cli'.active
  <2>1. HasPath /\ acked' = acked /\ cli' = cli
    BY <1>2 DEF restart
  <2>2. mem'.nodes = disk.nodes /\ disk'.nodes = disk.nodes
    BY <1>2, <2>1, RestartNodes
  <2> QED
    BY <2>1, <2>2 DEF AckedOK, Keeps
<1>3. CASE ProcessNext
  <2>1. ASSUME NEW k \in KeyIds PROVE ~cli_start(k)
    BY DEF cli_start
  <2>2. ASSUME NEW k \in KeyIds, NEW o \in KeyOptions PROVE ~cli_create(k, o)
    BY DEF cli_create
  <2>3. ~cli_exit
    BY DEF cli_exit
  <2>4. clock_tick => Grows
    BY ServerGrows
  <2> QED
    BY <1>1, <1>2, <1>3, <2>1, <2>2, <2>3, <2>4 DEF ProcessNext
<1> QED
  BY <1>1, <1>3, ServerGrows DEF StoreNext

\* The address register_node returned for a machine is the only one it ever
\* returns for it, and no other machine is given it, through crashes and failed
\* saves: every restart finds the state file, nothing is imported and the
\* command line tool is not used.
THEOREM AddressesForLife ==
    ASSUME ~CanImport, ~HasCli, MayCrash => HasPath
    PROVE  StoreSpec => []AddressForLife
<1>1. StoreInit => ChainOK /\ AckedOK /\ ~cli.active
  <2>1. StoreInit => ~cli.active
    BY DEF StoreInit
  <2> QED
    BY <2>1, ChainInit
<1>2. StoreIInv /\ ChainOK /\ AckedOK /\ ~cli.active /\ [StoreNext]_store_vars =>
          (ChainOK /\ AckedOK /\ ~cli.active)'
  <2> SUFFICES ASSUME StoreIInv, ChainOK, AckedOK, ~cli.active, [StoreNext]_store_vars
               PROVE  ChainOK' /\ AckedOK' /\ ~cli'.active
    OBVIOUS
  <2>1. CASE UNCHANGED store_vars
    BY <2>1 DEF store_vars, ChainOK, Within, AckedOK, Keeps
  <2>2. CASE StoreNext
    BY <2>2, ChainStep, AckedStep
  <2> QED
    BY <2>1, <2>2
<1>3. UniqueIdentity /\ AckedOK => AddressForLife
  BY AckedUnique DEF AckedOK
<1> QED
  BY <1>1, <1>2, <1>3, StoreInductive, IdentityUnique, PTL DEF StoreSpec

-----------------------------------------------------------------------------
\* Without a state file, consume_preauth does not reload.
NoReload == HasPath \/ \A t \in Threads : call[t].step \notin {"read", "install"}

\* It never will.
LEMMA NoReloadStep ==
    ASSUME StoreIInv, NoReload, StoreNext
    PROVE  NoReload'
<1>0. call \in [Threads -> Call]
  BY VectorsTyped
<1> SUFFICES ASSUME ~HasPath, NEW t \in Threads PROVE call'[t].step \notin {"read", "install"}
  BY DEF NoReload
<1>1. call[t] \in Call /\ call[t].step \notin {"read", "install"}
  BY <1>0 DEF NoReload
<1>2. CASE call'[t] = call[t] \/ call'[t] = Idle
  BY <1>1, <1>2 DEF Idle
<1>3. CASE ThreadNext(t)
  <2>1. ASSUME NEW k \in KeyIds, consume_preauth(t, k) PROVE call'[t].step = "mark"
    BY <1>0, <2>1 DEF consume_preauth, Idle
  <2>2. ~reload_read(t) /\ ~reload_skip(t) /\ ~reload_install(t)
    BY <1>1 DEF reload_read, reload_skip, reload_install
  <2>3. ASSUME NEW ok \in BOOLEAN, consume_claim(t, ok)
        PROVE  call'[t].step \in {"claimed", "threw"}
    BY <1>0, <1>1, <2>3 DEF consume_claim, Call
  <2>4. consume_deny(t) => call'[t].step = "denied"
    BY <1>0, <1>1 DEF consume_deny, Call
  <2> QED
    BY <1>3, <2>1, <2>2, <2>3, <2>4 DEF ThreadNext
<1> QED
  BY <1>0, <1>2, <1>3, CallMoves

\* Images with the same keys and nodes have the same durable part.
LEMMA DurableSame ==
    ASSUME NEW a, NEW b, a.keys = b.keys, a.nodes = b.nodes
    PROVE  durable(a) = durable(b)
BY DEF durable

\* A key whose expiry fits an int is read back as it was.
LEMMA KeysReadBack ==
    ASSUME StoreIInv, KeyIInv, ExpiryFits
    PROVE  keys_from_json(held.keys) = held.keys
<1>0. /\ held.keys \in Seq(PreauthKey) /\ minted \subseteq PreauthKey /\ MintedOK
      /\ KeysOK(held.keys, minted, claims)
  BY VectorsTyped DEF KeyIInv, KeyVectors
<1>1. ASSUME NEW i \in DOMAIN held.keys PROVE key_from_json(held.keys[i]) = held.keys[i]
  <2>1. PICK x \in minted : KeyOf(held.keys[i], x)
    BY <1>0 DEF KeysOK, KeyOK
  <2>2. x.expires_unix \in Nat /\ x.expires_unix <= IntMax
    BY <1>0 DEF MintedOK
  <2>3. held.keys[i].expires_unix = x.expires_unix
    BY <2>1, <2>2, ToIntFacts DEF KeyOf
  <2>4. ToInt(held.keys[i].expires_unix) = held.keys[i].expires_unix
    BY <2>2, <2>3, ToIntFacts
  <2>5. held.keys[i] \in PreauthKey
    BY <1>0
  <2> QED
    BY <2>4, <2>5 DEF key_from_json, PreauthKey
<1>2. held.keys = [i \in DOMAIN held.keys |-> held.keys[i]]
  BY <1>0
<1> QED
  BY <1>1, <1>2, Zenon DEF keys_from_json

\* What a step does to the durable part of the memory, seen from the hook.
LEMMA HookStep ==
    ASSUME StoreIInv, KeyIInv, NoReload, HasHook, SavesSucceed, ExpiryFits,
           ~HasPath \/ Threads = {}, StoreNext
    PROVE  durable(mem') = durable(mem) \/ durable(mem') = durable(held')
               \/ \E k \in KeyIds : restart(k)
<1> DEFINE P == durable(mem') = durable(mem) \/ durable(mem') = durable(held')
<1>0. ImageOK(mem) /\ ImageOK(held) /\ mem \in Image /\ held \in Image
  BY StoreIInvParts, Zenon DEF ImageOK
<1>a. ASSUME NEW img, NEW ok, save_locked(img, ok) PROVE P
  <2>1. held' = mem'
    BY <1>a DEF save_locked, SavesSucceed
  <2> QED
    BY <2>1
<1>b. ASSUME mem' = mem PROVE P
  BY <1>b
<1>c. ASSUME mem'.keys = mem.keys, mem'.nodes = mem.nodes PROVE P
  BY <1>c, DurableSame
<1> HIDE DEF P
<1>1. ASSUME AdminNext PROVE P
  <2>1. ASSUME NEW k, NEW o, NEW ok, create_preauth_key(k, o, ok) PROVE P
    BY <1>a, <2>1 DEF create_preauth_key
  <2>2. ASSUME NEW ok, persist(ok) PROVE P
    BY <1>a, <2>2 DEF persist
  <2>3. ASSUME dump_json PROVE P
    BY <1>b, <2>3 DEF dump_json
  <2>4. ASSUME load_json PROVE P
    <3>1. mem' = apply_snapshot_locked(held) /\ held' = held
      BY <2>4 DEF load_json
    <3>2. mem' = [held EXCEPT !.keys = keys_from_json(held.keys)]
      BY <1>0, <3>1, SnapshotApplied
    <3>3. mem'.keys = held'.keys /\ mem'.nodes = held'.nodes
      BY <1>0, <3>1, <3>2, KeysReadBack DEF Image
    <3>4. durable(mem') = durable(held')
      BY <3>3, DurableSame
    <3> QED
      BY <3>4 DEF P
  <2> QED
    BY <1>1, <2>1, <2>2, <2>3, <2>4 DEF AdminNext
<1>2. ASSUME NEW t \in Threads, ThreadNext(t) PROVE P
  <2>1. ASSUME NEW ok, consume_claim(t, ok) PROVE P
    BY <1>a, <2>1 DEF consume_claim
  <2>2. ASSUME reload_read(t) \/ reload_skip(t) \/ consume_deny(t) PROVE P
    BY <1>b, <2>2 DEF reload_read, reload_skip, consume_deny
  <2>3. ~reload_install(t)
    BY DEF reload_install, NoReload
  <2>4. ASSUME NEW k, consume_preauth(t, k) PROVE P
    BY <1>b, <2>4 DEF consume_preauth
  <2> QED
    BY <1>2, <2>1, <2>2, <2>3, <2>4 DEF ThreadNext
<1>3. ASSUME NEW m \in Machines, NodeNext(m) PROVE P
  <2>1. ASSUME NEW nk, NEW ok, register_existing(m, nk, ok) PROVE P
    BY <1>a, <2>1 DEF register_existing
  <2>2. ASSUME NEW nk, NEW claim, NEW ok, register_new(m, nk, claim, ok) PROVE P
    BY <1>a, <2>2 DEF register_new
  <2>3. ASSUME register_full(m) PROVE P
    <3>1. mem.next_node_id <= MaxNodeId /\ mem' = counted
      BY <2>3 DEF register_full
    <3>2. mem'.keys = mem.keys /\ mem'.nodes = mem.nodes
      BY <1>0, <3>1, CountedIs
    <3> QED
      BY <1>c, <3>2
  <2>4. ASSUME NEW nk, NEW eps, NEW ok, update_map_info(m, nk, eps, ok) PROVE P
    BY <1>a, <1>b, <2>4, Zenon DEF update_map_info, store_vars
  <2>5. ASSUME NEW online \in BOOLEAN, set_online(m, online) PROVE P
    <3>1. CASE UNCHANGED store_vars
      BY <1>b, <3>1 DEF store_vars
    <3>2. ASSUME NEW i \in DOMAIN mem.nodes, mem' = [mem EXCEPT !.nodes[i].online = online]
          PROVE  P
      <4>1. mem.nodes \in Seq(NodeState) /\ mem.nodes[i] \in NodeState
        BY <1>0 DEF Image
      <4>2. mem'.keys = mem.keys /\ mem'.nodes = [mem.nodes EXCEPT ![i].online = online]
        BY <1>0, <3>2 DEF Image
      <4>3. DOMAIN mem'.nodes = DOMAIN mem.nodes
        BY <4>2
      <4>4. ASSUME NEW j \in DOMAIN mem.nodes
            PROVE  [mem'.nodes[j] EXCEPT !.online = FALSE] = [mem.nodes[j] EXCEPT !.online = FALSE]
        <5>1. mem.nodes[j] \in NodeState
          BY <4>1
        <5>2. mem'.nodes[j] = IF j = i THEN [mem.nodes[j] EXCEPT !.online = online] ELSE mem.nodes[j]
          BY <4>1, <4>2
        <5> QED
          BY <5>1, <5>2, Zenon DEF NodeState
      <4>5. [j \in DOMAIN mem'.nodes |-> [mem'.nodes[j] EXCEPT !.online = FALSE]]
            = [j \in DOMAIN mem.nodes |-> [mem.nodes[j] EXCEPT !.online = FALSE]]
        BY <4>3, <4>4, Zenon
      <4> QED
        BY <4>2, <4>5 DEF durable, P
    <3> QED
      BY <2>5, <3>1, <3>2 DEF set_online
  <2> QED
    BY <1>3, <2>1, <2>2, <2>3, <2>4, <2>5 DEF NodeNext
<1>4. ASSUME ProcessNext PROVE P \/ \E k \in KeyIds : restart(k)
  <2>1. ASSUME NEW k, cli_start(k) PROVE P
    BY <1>b, <2>1 DEF cli_start
  <2>2. ASSUME NEW k, NEW o, cli_create(k, o) PROVE P
    BY <1>b, <2>2 DEF cli_create
  <2>3. ASSUME cli_exit \/ clock_tick PROVE P
    BY <1>b, <2>3 DEF cli_exit, clock_tick
  <2> QED
    BY <1>4, <2>1, <2>2, <2>3 DEF ProcessNext
<1> QED
  BY <1>1, <1>2, <1>3, <1>4 DEF StoreNext, P

\* The persist hook is given every change of the keys and of the nodes' durable
\* fields, whatever is imported and whatever the command line tool writes, when
\* saves do not fail, every expiry fits an int, and consume_preauth does not
\* reload the keys of a state file behind the hook's back.
THEOREM HookSeesAll ==
    ASSUME HasHook, SavesSucceed, ExpiryFits, ~HasPath \/ Threads = {}
    PROVE  StoreSpec => HookSeesEveryMutation
<1>1. StoreInit => NoReload
  BY DEF StoreInit, NoReload, Idle
<1>2. StoreIInv /\ NoReload /\ [StoreNext]_store_vars => NoReload'
  <2> SUFFICES ASSUME StoreIInv, NoReload, [StoreNext]_store_vars PROVE NoReload'
    OBVIOUS
  <2>1. CASE UNCHANGED store_vars
    BY <2>1 DEF store_vars, NoReload
  <2>2. CASE StoreNext
    BY <2>2, NoReloadStep
  <2> QED
    BY <2>1, <2>2
<1>3. StoreIInv /\ KeyIInv /\ NoReload /\ [StoreNext]_store_vars =>
          [durable(mem') = durable(mem) \/ durable(mem') = durable(held')
               \/ \E k \in KeyIds : restart(k)]_<<mem, held>>
  BY HookStep DEF store_vars
<1> QED
  BY <1>1, <1>2, <1>3, KeysInductive, PTL DEF StoreSpec, HookSeesEveryMutation
=============================================================================
