--------------------------- MODULE NoiseHandshake ---------------------------
(***************************************************************************)
(* The handshake of a control connection (src/src/noise.cpp), pattern IK:  *)
(* both ends mix the same things into a hash h and a chaining key ck, in   *)
(* the same order, or they do not end up with the same keys.               *)
(*                                                                         *)
(* Cryptography (src/src/crypto.cpp) is symbolic: a value is the tuple of  *)
(* the operation's name and its arguments, two values are equal exactly    *)
(* when they were computed the same way, and a box opens only with its     *)
(* key, nonce and additional data.  A private key is a model value, and    *)
(* two ends share the set of their private keys.                           *)
(***************************************************************************)
EXTENDS Naturals

\* A damaged field, and an empty payload.
Junk == <<"junk">>
Nothing == <<"nothing">>

-----------------------------------------------------------------------------
blake2s256(a, b) == <<"hash", a, b>>

\* The two keys that hkdf_blake2s fills its 64 bytes of output with.
hkdf_blake2s(ikm, salt) ==
    [ck |-> <<"hkdf", ikm, salt, 1>>, k |-> <<"hkdf", ikm, salt, 2>>]

x25519_public(priv) == <<"public", priv>>

\* Throws for bytes that are not the public key of anybody.
x25519_fails(pub) == pub = Junk

x25519_shared(priv, pub) == <<"dh", {priv, pub[2]}>>

aead_seal(key, nonce, ad, plaintext) == <<"box", key, nonce, ad, plaintext>>

aead_opens(key, nonce, ad, box) ==
    box # Junk /\ box = aead_seal(key, nonce, ad, box[5])

-----------------------------------------------------------------------------
mix_hash(h, data) == blake2s256(h, data)

mix_dh(ck, priv, pub) == hkdf_blake2s(x25519_shared(priv, pub), ck)

\* Both payloads of an initiation are sealed under nonce 0, each with a new key.
encrypt_and_hash(h, k, plaintext) ==
    LET box == aead_seal(k, 0, h, plaintext)
    IN  [box |-> box, h |-> mix_hash(h, box)]

\* decrypt_and_hash succeeds; the hash goes on as in encrypt_and_hash.
decrypts(h, k, box) == aead_opens(k, 0, h, box)

split_keys(ck) ==
    LET o == hkdf_blake2s(Nothing, ck) IN [c1 |-> o.ck, c2 |-> o.k]

\* initial_hash, the prologue with the version, and the server's key.
initial_hash(version, control_public) ==
    mix_hash(mix_hash(<<"Noise_IK">>, <<"prologue", version>>), control_public)

initial_ck == <<"Noise_IK">>

-----------------------------------------------------------------------------
\* size, type and length are whether the code's checks of them hold.
Initiation(version, eph, key, tag) ==
    [size |-> TRUE, type |-> TRUE, length |-> TRUE,
     version |-> version, eph |-> eph, key |-> key, tag |-> tag]

\* The message of the client, and what it keeps for the response.
noise_client_init(machine, eph, control_public, version) ==
    LET eph_pub == x25519_public(eph)
        es  == mix_dh(initial_ck, eph, control_public)
        key == encrypt_and_hash(mix_hash(initial_hash(version, control_public), eph_pub),
                                es.k, x25519_public(machine))
        ss  == mix_dh(es.ck, machine, control_public)
        tag == encrypt_and_hash(key.h, ss.k, Nothing)
    IN  [msg |-> Initiation(version, eph_pub, key.box, tag.box),
         machine |-> machine, eph |-> eph, h |-> tag.h, ck |-> ss.ck]

\* Mutant: the server's directions are the client's.
server_keys_swapped(ck) ==
    LET keys == split_keys(ck) IN [tx |-> keys.c1, rx |-> keys.c2]

\* The server sends with the key the client receives with.
server_keys(ck) ==
    LET keys == split_keys(ck) IN [tx |-> keys.c2, rx |-> keys.c1]

\* What the server computes from an initiation up to the es and ss keys; the
\* machine key is what the first box holds.
server_reads(control, init) ==
    LET h1 == mix_hash(initial_hash(init.version, x25519_public(control)), init.eph)
        es == mix_dh(initial_ck, control, init.eph)
        machine == init.key[5]
    IN  [h1 |-> h1, es |-> es, machine |-> machine, h2 |-> mix_hash(h1, init.key),
         ss |-> mix_dh(es.ck, control, machine)]

\* Mutant: the machine key's box is taken without being opened.
server_accepts_unopened(control, init) ==
    /\ init.size /\ init.type /\ init.length
    /\ ~x25519_fails(init.eph) /\ init.key # Junk /\ init.tag # Junk

\* The checks of noise_server_handshake, in the order it makes them.
server_accepts(control, init) ==
    /\ init.size /\ init.type /\ init.length
    /\ ~x25519_fails(init.eph) /\ init.key # Junk
    /\ LET r == server_reads(control, init)
       IN  /\ decrypts(r.h1, r.es.k, init.key)
           /\ ~x25519_fails(r.machine)
           /\ decrypts(r.h2, r.ss.k, init.tag)

\* Its response and result, once the checks have passed, with a new ephemeral
\* key.
noise_server_handshake(control, eph, init) ==
    LET r == server_reads(control, init)
        h3 == mix_hash(mix_hash(r.h2, init.tag), x25519_public(eph))
        se == mix_dh(mix_dh(r.ss.ck, eph, init.eph).ck, eph, r.machine)
        payload == encrypt_and_hash(h3, se.k, Nothing)
        keys == server_keys(se.ck)
    IN  [msg |-> [format |-> TRUE, eph |-> x25519_public(eph), tag |-> payload.box],
         peer |-> r.machine, version |-> init.version, h |-> payload.h,
         tx |-> keys.tx, rx |-> keys.rx]

\* noise_client_finish on what noise_client_init kept; ok is what it returns.
noise_client_finish(c, resp) ==
    IF ~resp.format \/ x25519_fails(resp.eph) THEN [ok |-> FALSE]
    ELSE LET h  == mix_hash(c.h, resp.eph)
             se == mix_dh(mix_dh(c.ck, c.eph, resp.eph).ck, c.machine, resp.eph)
             keys == split_keys(se.ck)
         IN  IF decrypts(h, se.k, resp.tag)
             THEN [ok |-> TRUE, h |-> mix_hash(h, resp.tag), tx |-> keys.c1, rx |-> keys.c2]
             ELSE [ok |-> FALSE]
=============================================================================
