----------------------------- MODULE NoiseConn -----------------------------
(***************************************************************************)
(* NoiseConn (src/src/noise.cpp): one direction of a connection, from the  *)
(* write of one end to the read of the other.  write cuts its argument     *)
(* into records of at most kMaxPlaintext bytes, sealed under consecutive   *)
(* nonces; read opens records under consecutive nonces into plaintext_ and *)
(* hands out at most a caller's buffer of it.                              *)
(*                                                                         *)
(* Sealing is modelled by its promise: a record opens only under the key   *)
(* and the nonce it was sealed with, and only when all of it has arrived.  *)
(* A send may fail at any point and leave a torn record on the wire, and a *)
(* later write may follow it, as nghttp2 calls write again after a short   *)
(* one.  The bytes written are numbered from 1.  Session gives the ends    *)
(* the keys of the handshake.                                              *)
(***************************************************************************)
EXTENDS Integers, Sequences

CONSTANTS
    kMaxPlaintext,  \* bytes in a record
    BufSize,        \* the buffer of H2Server's loop
    MaxWrite,       \* bound: bytes in one call of write
    MaxBytes,       \* bound: bytes written altogether
    NoKey           \* an end without a key, before the handshake

ASSUME NoiseAssumption ==
    /\ {kMaxPlaintext, BufSize, MaxWrite, MaxBytes} \subseteq Nat \ {0}
    /\ kMaxPlaintext <= BufSize

VARIABLES
    tx_key,         \* tx_key_ of the writing end
    rx_key,         \* rx_key_ of the reading end
    writing,        \* bytes of the current call of write not yet sealed
    accepted,       \* bytes sealed and handed to the socket
    tx_nonce,       \* tx_nonce_
    torn,           \* history: accepted when a send first failed, or -1
    wire,           \* records on the wire
    phase,          \* the reading end: polling, in read, or gone
    rx_nonce,       \* rx_nonce_
    plaintext,      \* plaintext_
    got             \* bytes read has returned

noise_keys == <<tx_key, rx_key>>
writer == <<writing, accepted, tx_nonce, torn>>
reader == <<phase, rx_nonce, plaintext, got>>
noise_vars == <<noise_keys, writer, wire, reader>>

-----------------------------------------------------------------------------
bytes(from, n) == [i \in 1..n |-> from + i]

write(n) ==
    /\ tx_key # NoKey
    /\ writing = 0
    /\ accepted + n <= MaxBytes
    /\ writing' = n
    /\ UNCHANGED <<noise_keys, accepted, tx_nonce, torn, wire, reader>>

min(a, b) == IF a <= b THEN a ELSE b

chunk == min(writing, kMaxPlaintext)

sealed(whole) ==
    [key |-> tx_key, nonce |-> tx_nonce, data |-> bytes(accepted, chunk), whole |-> whole]

\* One round of write's loop: aead_seal under the next nonce, and both sends.
write_chunk ==
    /\ writing > 0
    /\ tx_nonce' = tx_nonce + 1
    /\ wire' = Append(wire, sealed(TRUE))
    /\ accepted' = accepted + chunk
    /\ writing' = writing - chunk
    /\ UNCHANGED <<noise_keys, torn, reader>>

\* Mutant: the nonce is counted only after a record that was sent.
write_fail_uncounted ==
    /\ writing > 0 /\ tx_nonce < MaxBytes
    /\ wire' \in {wire, Append(wire, sealed(FALSE))}
    /\ writing' = 0
    /\ torn' = IF torn = -1 THEN accepted ELSE torn
    /\ UNCHANGED <<noise_keys, accepted, tx_nonce, reader>>

\* A send fails, with none or a part of the record on the wire: write returns
\* what it had accepted before this record.
write_fail ==
    /\ writing > 0 /\ tx_nonce < MaxBytes
    /\ tx_nonce' = tx_nonce + 1
    /\ wire' \in {wire, Append(wire, sealed(FALSE))}
    /\ writing' = 0
    /\ torn' = IF torn = -1 THEN accepted ELSE torn
    /\ UNCHANGED <<noise_keys, accepted, reader>>

-----------------------------------------------------------------------------
\* poll() reports input on the socket; plaintext_ is not looked at.
poll ==
    /\ rx_key # NoKey
    /\ phase = "poll"
    /\ wire # <<>>
    /\ phase' = "read"
    /\ UNCHANGED <<noise_keys, writer, wire, rx_nonce, plaintext, got>>

opens(r) == r.whole /\ r.key = rx_key /\ r.nonce = rx_nonce

\* decrypt_one, in read's loop while plaintext_ is empty: it blocks until the
\* bytes of a record have arrived, and fails when they are not one.
decrypt_one ==
    /\ phase = "read" /\ plaintext = <<>>
    /\ wire # <<>>
    /\ Head(wire).whole \/ Len(wire) > 1
    /\ IF opens(Head(wire))
       THEN /\ plaintext' = plaintext \o Head(wire).data
            /\ rx_nonce' = rx_nonce + 1
            /\ wire' = Tail(wire)
            /\ UNCHANGED phase
       ELSE phase' = "gone" /\ UNCHANGED <<plaintext, rx_nonce, wire>>
    /\ UNCHANGED <<noise_keys, writer, got>>

\* Mutant: read hands out less than its buffer would hold.
take_less == min(min(BufSize, kMaxPlaintext) - 1, Len(plaintext))

take == min(BufSize, Len(plaintext))

\* Mutant: what read hands out stays in plaintext_.
read_keeps ==
    /\ phase = "read" /\ plaintext # <<>>
    /\ got' = got \o SubSeq(plaintext, 1, take)
    /\ phase' = "poll"
    /\ UNCHANGED <<noise_keys, writer, wire, rx_nonce, plaintext>>

read ==
    /\ phase = "read" /\ plaintext # <<>>
    /\ got' = got \o SubSeq(plaintext, 1, take)
    /\ plaintext' = SubSeq(plaintext, take + 1, Len(plaintext))
    /\ phase' = "poll"
    /\ UNCHANGED <<noise_keys, writer, wire, rx_nonce>>

-----------------------------------------------------------------------------
NoiseInit ==
    /\ tx_key = NoKey /\ rx_key = NoKey
    /\ writing = 0 /\ accepted = 0 /\ tx_nonce = 0 /\ torn = -1 /\ wire = <<>>
    /\ phase = "poll" /\ rx_nonce = 0 /\ plaintext = <<>> /\ got = <<>>

WriterNext ==
    \/ \E n \in 1..MaxWrite : write(n)
    \/ write_chunk
    \/ write_fail

ReaderNext == poll \/ decrypt_one \/ read

-----------------------------------------------------------------------------
\* No nonce seals two records, also when a send has failed and write is called
\* again for the same bytes: tx_nonce_ is past every nonce that was used.
NonceOnce ==
    /\ \A i \in DOMAIN wire : wire[i].nonce < tx_nonce
    /\ \A i, j \in DOMAIN wire : i # j => wire[i].nonce # wire[j].nonce

\* The reader's bytes are the writer's from the first on, none lost, repeated
\* or reordered, also when a failed send has torn or dropped a record and more
\* records follow it: the reader stops at the first that does not open.
Prefix == got \o plaintext = bytes(0, Len(got \o plaintext))

\* While the loop waits for the socket, no opened bytes wait in plaintext_,
\* where poll() would not see them: a record never exceeds the buffer.
Drained == phase = "poll" => plaintext = <<>>

\* Every byte that write accepted before a send failed is handed out by read in
\* the end, however the calls were cut into records: nothing stays in
\* plaintext_, and the two ends' keys and nonces never part.
Delivers ==
    \A n \in 1..MaxBytes :
        (rx_key # NoKey /\ accepted >= n /\ (torn = -1 \/ torn >= n)) ~> Len(got) >= n
=============================================================================
