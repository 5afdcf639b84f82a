---------------------------- MODULE NoiseProofs ----------------------------
(***************************************************************************)
(* Proofs about a Session, from the first byte of its request to its       *)
(* records: however recv cuts a request, one that is taken has its whole   *)
(* head and one that is refused is too long or has no first line; the      *)
(* handshake is decided by what was sent and for which key, and leaves two *)
(* ends that agree; nonces are used once, what is read is what was written,*)
(* and no opened byte waits while the loop polls.  All this for any bytes, *)
(* keys, limits and sizes of records, buffers and writes.                  *)
(*                                                                         *)
(* That the search for the end of the head finds the first one rests on    *)
(* the well-ordering of positions.  The cryptography is symbolic: two      *)
(* terms are equal only if they are made alike, which is all that the      *)
(* lemmas about the handshake use of it.                                   *)
(***************************************************************************)
EXTENDS Session, WellFoundedInduction, TLAPS

\* How many bytes were written before those of a record.
start(r) == r.data[1] - 1

\* A record holds consecutive bytes, as many as a record may.
RecordOK(r) ==
    /\ r.nonce \in Nat /\ start(r) \in Nat
    /\ r.data \in Seq(Nat) /\ Len(r.data) \in 1..kMaxPlaintext
    /\ \A k \in 1..Len(r.data) : r.data[k] = start(r) + k

\* The bytes opened by the reader.
fed == Len(got) + Len(plaintext)

CountersOK ==
    /\ writing \in Nat /\ accepted \in Nat /\ tx_nonce \in Nat /\ rx_nonce \in Nat
    /\ rx_nonce <= tx_nonce

\* The bytes read has returned and those it has yet to return.
ReadOK ==
    /\ got \in Seq(Nat) /\ plaintext \in Seq(Nat) /\ Len(plaintext) <= kMaxPlaintext
    /\ \A k \in 1..Len(got) : got[k] = k
    /\ \A k \in 1..Len(plaintext) : plaintext[k] = Len(got) + k

\* Nonces grow along the wire, and the bytes of a whole record are followed by
\* those of the record with the next nonce.  A failed send leaves a gap in the
\* nonces or a torn record, and says nothing of what follows it.
WireOK ==
    /\ Len(wire) \in Nat /\ wire = [i \in 1..Len(wire) |-> wire[i]]
    /\ \A i \in 1..Len(wire) :
           RecordOK(wire[i]) /\ rx_nonce <= wire[i].nonce /\ wire[i].nonce < tx_nonce
    /\ \A i, j \in 1..Len(wire) : i < j => wire[i].nonce < wire[j].nonce
    /\ \A i \in 1..Len(wire) : i + 1 \in 1..Len(wire) =>
           (wire[i].whole /\ wire[i + 1].nonce = wire[i].nonce + 1
               => start(wire[i + 1]) = start(wire[i]) + Len(wire[i].data))

\* The same at the two ends of the wire.
EndsOK ==
    /\ Len(wire) > 0 /\ wire[1].nonce = rx_nonce => start(wire[1]) = fed
    /\ Len(wire) > 0 /\ wire[Len(wire)].whole /\ wire[Len(wire)].nonce + 1 = tx_nonce
           => accepted = start(wire[Len(wire)]) + Len(wire[Len(wire)].data)
    /\ Len(wire) = 0 /\ rx_nonce = tx_nonce => accepted = fed

NoiseIInv == CountersOK /\ ReadOK /\ WireOK /\ EndsOK /\ Drained

\* The bytes of HTTP/1, and the invariant behind HeadDecided.
Byte == {"x", "r", "n"}

HttpIInv == sent \in Seq(Byte) /\ buf \in Seq(Byte) /\ HeadDecided

\* What the client sends and keeps when it has the server's key p.
Offer(p) == noise_client_init(Machine, ClientEph, p, Version)

\* The ends of a connection at each stage: the client's key is one the server
\* had, an initiation under way may be altered, and one that was accepted was
\* not and is for the key the server has.
HandshakeIInv ==
    /\ control \in ControlKeys
    /\ known \in {Nothing} \cup {x25519_public(k) : k \in ControlKeys}
    /\ stage = "switched" =>
           /\ known # Nothing /\ client = Offer(known)
           /\ init \in {client.msg} \cup altered(client.msg)
                         \cup {[client.msg EXCEPT !.size = FALSE]}
    /\ stage \in {"accepted", "answered"} =>
           /\ known = x25519_public(control) /\ client = Offer(known)
           /\ server = noise_server_handshake(control, ServerEph, client.msg)
    /\ Agree

-----------------------------------------------------------------------------
\* A sequence's length and elements.
LEMMA SeqParts ==
    ASSUME NEW S, NEW s \in Seq(S)
    PROVE  /\ Len(s) \in Nat /\ DOMAIN s = 1..Len(s) /\ s \in [1..Len(s) -> S]
           /\ \A i \in 1..Len(s) : s[i] \in S
OBVIOUS

\* A function on 1..n is a sequence.
LEMMA FunctionIsSeq ==
    ASSUME NEW S, NEW n \in Nat, NEW f \in [1..n -> S]
    PROVE  f \in Seq(S) /\ Len(f) = n
OBVIOUS

\* Sequences with equal lengths and elements are equal.
LEMMA SameSeq ==
    ASSUME NEW S, NEW s \in Seq(S), NEW t \in Seq(S), Len(s) = Len(t),
           \A i \in 1..Len(s) : s[i] = t[i]
    PROVE  s = t
OBVIOUS

\* A part of a sequence.
LEMMA Cut ==
    ASSUME NEW S, NEW s \in Seq(S), NEW m \in Nat \ {0}, NEW n \in Nat, n <= Len(s)
    PROVE  /\ SubSeq(s, m, n) \in Seq(S)
           /\ Len(SubSeq(s, m, n)) = IF m <= n THEN n - m + 1 ELSE 0
           /\ \A i \in 1..(n - m + 1) : SubSeq(s, m, n)[i] = s[m + i - 1]
OBVIOUS

\* A sequence without its first element.
LEMMA HeadAndTail ==
    ASSUME NEW S, NEW s \in Seq(S), s # <<>>
    PROVE  /\ Len(s) \in Nat \ {0} /\ Head(s) = s[1]
           /\ Tail(s) \in Seq(S) /\ Len(Tail(s)) = Len(s) - 1
           /\ \A i \in 1..Len(Tail(s)) : Tail(s)[i] = s[i + 1]
OBVIOUS

\* A sequence with one more element.
LEMMA Pushed ==
    ASSUME NEW S, NEW s \in Seq(S), NEW e \in S
    PROVE  /\ Append(s, e) \in Seq(S) /\ Len(Append(s, e)) = Len(s) + 1
           /\ \A i \in 1..Len(s) : Append(s, e)[i] = s[i]
           /\ Append(s, e)[Len(s) + 1] = e
OBVIOUS

\* Only the empty sequence has length 0.
LEMMA EmptyLength ==
    ASSUME NEW S, NEW s \in Seq(S)
    PROVE  s = <<>> <=> Len(s) = 0
OBVIOUS

\* Two sequences in a row.
LEMMA Concat ==
    ASSUME NEW S, NEW s \in Seq(S), NEW t \in Seq(S)
    PROVE  s \o t \in Seq(S)
OBVIOUS

\* A sequence of bytes with another one behind it.
LEMMA Joined ==
    ASSUME NEW g \in Seq(Nat), NEW d \in Seq(Nat)
    PROVE  /\ g \o d \in Seq(Nat) /\ Len(g \o d) = Len(g) + Len(d)
           /\ \A i \in 1..Len(g) : (g \o d)[i] = g[i]
           /\ \A i \in Len(g) + 1 .. Len(g) + Len(d) : (g \o d)[i] = d[i - Len(g)]
  OBVIOUS

\* The wire after a record was put on it.
LEMMA Appended ==
    ASSUME NEW w, Len(w) \in Nat, w = [i \in 1..Len(w) |-> w[i]], NEW r
    PROVE  LET a == Append(w, r)
           IN  /\ Len(a) = Len(w) + 1 /\ a = [i \in 1..Len(a) |-> a[i]]
               /\ a[Len(w) + 1] = r /\ \A i \in 1..Len(w) : a[i] = w[i]
<1> DEFINE S == {w[i] : i \in 1..Len(w)} \cup {r}
<1>1. \A i \in 1..Len(w) : w[i] \in S
  OBVIOUS
<1>2. r \in S
  OBVIOUS
<1> HIDE DEF S
<1>3. w \in [1..Len(w) -> S]
  BY <1>1
<1>4. w \in Seq(S)
  BY <1>3
<1> DEFINE a == Append(w, r)
<1>5. a \in Seq(S) /\ Len(a) = Len(w) + 1 /\ a[Len(w) + 1] = r
      /\ \A i \in 1..Len(w) : a[i] = w[i]
  BY <1>2, <1>4, Pushed
<1> HIDE DEF a
<1>6. a \in [1..Len(a) -> S]
  BY <1>5, SeqParts
<1>7. a = [i \in 1..Len(a) |-> a[i]]
  BY <1>6
<1> QED BY <1>5, <1>7 DEF a

\* The wire after its first record was taken off.
LEMMA Shortened ==
    ASSUME NEW w, Len(w) \in Nat, w = [i \in 1..Len(w) |-> w[i]], w # <<>>
    PROVE  /\ Len(w) > 0 /\ Head(w) = w[1]
           /\ Len(Tail(w)) = Len(w) - 1 /\ Tail(w) = [i \in 1..Len(Tail(w)) |-> Tail(w)[i]]
           /\ \A i \in 1..Len(w) - 1 : Tail(w)[i] = w[i + 1]
<1> DEFINE S == {w[i] : i \in 1..Len(w)}
<1>1. \A i \in 1..Len(w) : w[i] \in S
  OBVIOUS
<1> HIDE DEF S
<1>2. w \in [1..Len(w) -> S]
  BY <1>1
<1>3. w \in Seq(S)
  BY <1>2
<1> DEFINE t == Tail(w)
<1>4. Head(w) = w[1] /\ t \in Seq(S) /\ Len(t) = Len(w) - 1
      /\ \A i \in 1..Len(t) : t[i] = w[i + 1]
  BY <1>3, HeadAndTail
<1>5. Len(w) > 0
  BY <1>3, EmptyLength
<1> HIDE DEF t
<1>6. t \in [1..Len(t) -> S]
  BY <1>4, SeqParts
<1>7. t = [i \in 1..Len(t) |-> t[i]]
  BY <1>6
<1> QED BY <1>4, <1>5, <1>7 DEF t

-----------------------------------------------------------------------------
\* A record that is sealed next.
LEMMA SealedOK ==
    ASSUME CountersOK, writing > 0, NEW z \in BOOLEAN
    PROVE  /\ RecordOK(sealed(z)) /\ sealed(z).nonce = tx_nonce /\ sealed(z).whole = z
           /\ start(sealed(z)) = accepted /\ Len(sealed(z).data) = chunk
           /\ chunk \in Nat /\ chunk <= writing
<1>1. kMaxPlaintext \in Nat /\ kMaxPlaintext > 0 /\ writing \in Nat /\ accepted \in Nat
      /\ tx_nonce \in Nat
  BY NoiseAssumption DEF CountersOK
<1>2. chunk \in Nat /\ chunk > 0 /\ chunk <= writing /\ chunk <= kMaxPlaintext
  BY <1>1 DEF chunk, min
<1> DEFINE d == bytes(accepted, chunk)
<1>3. d \in Seq(Nat) /\ Len(d) = chunk /\ \A k \in 1..chunk : d[k] = accepted + k
  BY <1>1, <1>2 DEF bytes
<1>4. sealed(z).data = d /\ sealed(z).nonce = tx_nonce /\ sealed(z).whole = z
  BY DEF sealed
<1> HIDE DEF d
<1>5. d[1] - 1 = accepted
  BY <1>1, <1>2, <1>3
<1> QED BY <1>1, <1>2, <1>3, <1>4, <1>5 DEF RecordOK, start

\* A record at the end of the wire, with the nonce after all others.
LEMMA PutKeeps ==
    ASSUME NoiseIInv, NEW z \in BOOLEAN, writing > 0, wire' = Append(wire, sealed(z)),
           tx_nonce' = tx_nonce + 1, writing' \in Nat, UNCHANGED reader,
           accepted' = IF z THEN accepted + chunk ELSE accepted
    PROVE  NoiseIInv'
<1> DEFINE r == sealed(z)
           n == Len(wire)
<1>1. /\ RecordOK(r) /\ r.nonce = tx_nonce /\ r.whole = z
      /\ start(r) = accepted /\ Len(r.data) = chunk /\ chunk \in Nat
  BY SealedOK DEF NoiseIInv
<1>2. n \in Nat /\ Len(wire') = n + 1 /\ wire' = [i \in 1..Len(wire') |-> wire'[i]]
      /\ wire'[n + 1] = r /\ \A i \in 1..n : wire'[i] = wire[i]
  BY Appended DEF NoiseIInv, WireOK
<1>3. accepted \in Nat /\ tx_nonce \in Nat /\ rx_nonce \in Nat /\ rx_nonce <= tx_nonce
      /\ rx_nonce' = rx_nonce
  BY DEF NoiseIInv, CountersOK, reader
<1> HIDE DEF r
<1>4. CountersOK'
  BY <1>1, <1>3 DEF CountersOK
<1>5. ReadOK' /\ Drained' /\ fed' = fed
  BY DEF NoiseIInv, ReadOK, Drained, reader, fed
<1>6. WireOK'
  <2>1. \A i \in 1..n : RecordOK(wire[i]) /\ rx_nonce <= wire[i].nonce
            /\ wire[i].nonce < tx_nonce /\ wire[i].nonce \in Nat
    BY DEF NoiseIInv, WireOK, RecordOK
  <2>2. \A i \in 1 .. n + 1 : i \in 1..n \/ i = n + 1
    BY <1>2
  <2>3. \A i \in 1 .. n + 1 :
            RecordOK(wire'[i]) /\ rx_nonce <= wire'[i].nonce /\ wire'[i].nonce < tx_nonce + 1
    <3>1. \A i \in 1..n : wire[i].nonce < tx_nonce + 1
      BY <1>3, <2>1
    <3>2. RecordOK(r) /\ rx_nonce <= r.nonce /\ r.nonce < tx_nonce + 1
      BY <1>1, <1>3
    <3> QED BY <1>2, <2>1, <2>2, <3>1, <3>2
  <2>4. ASSUME NEW i \in 1 .. n + 1, NEW j \in 1 .. n + 1, i < j
        PROVE  wire'[i].nonce < wire'[j].nonce
    <3>1. i \in 1..n
      BY <1>2, <2>4
    <3>2. CASE j = n + 1
      BY <1>1, <1>2, <2>1, <3>1, <3>2
    <3>3. CASE j \in 1..n
      BY <1>2, <2>4, <3>1, <3>3 DEF NoiseIInv, WireOK
    <3> QED BY <2>2, <3>2, <3>3
  <2>5. ASSUME NEW i \in 1 .. n + 1, i + 1 \in 1 .. n + 1,
               wire'[i].whole, wire'[i + 1].nonce = wire'[i].nonce + 1
        PROVE  start(wire'[i + 1]) = start(wire'[i]) + Len(wire'[i].data)
    <3>1. i \in 1..n /\ wire'[i] = wire[i]
      BY <1>2, <2>5
    <3>2. CASE i = n
      <4>1. wire'[i + 1] = r /\ n > 0 /\ wire[n].whole /\ wire[n].nonce + 1 = tx_nonce
        BY <1>1, <1>2, <2>5, <3>1, <3>2
      <4>2. accepted = start(wire[n]) + Len(wire[n].data)
        BY <4>1 DEF NoiseIInv, EndsOK
      <4> QED BY <1>1, <3>1, <3>2, <4>1, <4>2
    <3>3. CASE i # n
      <4>1. i + 1 \in 1..n /\ wire'[i + 1] = wire[i + 1]
        BY <1>2, <3>1, <3>3
      <4>2. wire[i].whole /\ wire[i + 1].nonce = wire[i].nonce + 1
        BY <2>5, <3>1, <4>1
      <4>3. start(wire[i + 1]) = start(wire[i]) + Len(wire[i].data)
        BY <3>1, <4>1, <4>2 DEF NoiseIInv, WireOK
      <4> QED BY <3>1, <4>1, <4>3
    <3> QED BY <3>2, <3>3, Zenon
  <2>6. \A i \in 1..Len(wire') :
            RecordOK(wire[i])' /\ rx_nonce' <= wire'[i].nonce /\ wire'[i].nonce < tx_nonce'
    BY <1>2, <1>3, <2>3, SMTT(20) DEF RecordOK, start
  <2>7. \A i \in 1..Len(wire') : i + 1 \in 1..Len(wire') =>
            (wire'[i].whole /\ wire'[i + 1].nonce = wire'[i].nonce + 1
                => start(wire[i + 1])' = start(wire[i])' + Len(wire'[i].data))
    BY <1>2, <2>5 DEF start
  <2>8. \A i, j \in 1..Len(wire') : i < j => wire'[i].nonce < wire'[j].nonce
    BY <1>2, <2>4
  <2>9. Len(wire') \in Nat
    BY <1>2
  <2> QED BY <1>2, <2>6, <2>7, <2>8, <2>9 DEF WireOK
<1>7. EndsOK'
  <2>1. wire'[1].nonce = rx_nonce => start(wire'[1]) = fed
    <3>1. CASE n = 0
      <4>1. wire'[1] = r
        BY <1>2, <3>1
      <4> QED BY <1>1, <3>1, <4>1 DEF NoiseIInv, EndsOK
    <3>2. CASE n > 0
      <4>1. wire'[1] = wire[1]
        BY <1>2, <3>2
      <4> QED BY <3>2, <4>1 DEF NoiseIInv, EndsOK
    <3> QED BY <1>2, <3>1, <3>2
  <2>2. wire'[n + 1].whole => accepted' = start(r) + Len(r.data)
    BY <1>1, <1>2
  <2>3. Len(wire') > 0
    BY <1>2
  <2> QED BY <1>2, <1>3, <1>5, <2>1, <2>2, <2>3 DEF EndsOK, start
<1> QED BY <1>4, <1>5, <1>6, <1>7 DEF NoiseIInv

\* Steps that leave both ends and the wire alone.
LEMMA QuietKeeps ==
    ASSUME NoiseIInv, UNCHANGED <<writer, wire, reader>>
    PROVE  NoiseIInv'
<1>1. CountersOK' /\ ReadOK' /\ Drained' /\ fed' = fed
  BY DEF NoiseIInv, CountersOK, ReadOK, Drained, fed, writer, reader
<1>2. WireOK'
  BY DEF NoiseIInv, WireOK, RecordOK, start, writer, reader
<1>3. EndsOK'
  BY <1>1 DEF NoiseIInv, EndsOK, start, writer, reader
<1> QED BY <1>1, <1>2, <1>3 DEF NoiseIInv

\* A call of write: only how much is to be sealed changes.
LEMMA CallKeeps ==
    ASSUME NoiseIInv, writing' \in Nat, UNCHANGED <<accepted, tx_nonce, wire, reader>>
    PROVE  NoiseIInv'
<1>1. CountersOK' /\ ReadOK' /\ Drained' /\ fed' = fed
  BY DEF NoiseIInv, CountersOK, ReadOK, Drained, fed, reader
<1>2. WireOK'
  BY DEF NoiseIInv, WireOK, RecordOK, start, reader
<1>3. EndsOK'
  BY <1>1 DEF NoiseIInv, EndsOK, start, reader
<1> QED BY <1>1, <1>2, <1>3 DEF NoiseIInv

\* A send that leaves nothing on the wire skips a nonce, and no record that
\* follows has the nonce the reader expects after the last one.
LEMMA SkipKeeps ==
    ASSUME NoiseIInv, tx_nonce' = tx_nonce + 1, writing' \in Nat,
           UNCHANGED <<accepted, wire, reader>>
    PROVE  NoiseIInv'
<1>1. tx_nonce \in Nat /\ rx_nonce \in Nat /\ rx_nonce <= tx_nonce /\ rx_nonce' = rx_nonce
      /\ Len(wire) \in Nat
  BY DEF NoiseIInv, CountersOK, WireOK, reader
<1>2. CountersOK' /\ ReadOK' /\ Drained' /\ fed' = fed
  BY <1>1 DEF NoiseIInv, CountersOK, ReadOK, Drained, fed, reader
<1>3. \A i \in 1..Len(wire) : wire[i].nonce \in Nat /\ wire[i].nonce < tx_nonce
  BY DEF NoiseIInv, WireOK, RecordOK
<1>4. \A i \in 1..Len(wire) : wire[i].nonce < tx_nonce'
  BY <1>1, <1>3
<1>5. WireOK'
  BY <1>1, <1>4 DEF NoiseIInv, WireOK, RecordOK, start
<1>6. EndsOK'
  <2>1. rx_nonce' # tx_nonce'
    BY <1>1
  <2>2. Len(wire) > 0 => wire[Len(wire)].nonce + 1 # tx_nonce'
    BY <1>1, <1>3
  <2> QED BY <1>1, <1>2, <2>1, <2>2 DEF NoiseIInv, EndsOK, start
<1> QED BY <1>2, <1>5, <1>6 DEF NoiseIInv

\* Every step of the writer: a call of write, a record sent, a send that fails.
LEMMA WriterKeeps ==
    ASSUME NoiseIInv, WriterNext
    PROVE  NoiseIInv'
<1>1. ASSUME NEW n \in 1..MaxWrite, write(n) PROVE NoiseIInv'
  <2>1. n \in Nat
    BY NoiseAssumption
  <2> QED BY <1>1, <2>1, CallKeeps DEF write
<1>2. CASE write_chunk
  <2>1. chunk \in Nat /\ chunk <= writing /\ writing \in Nat
    BY <1>2, SealedOK, Zenon DEF write_chunk, NoiseIInv, CountersOK
  <2>2. writing - chunk \in Nat
    BY <2>1
  <2> QED BY <1>2, <2>2, PutKeeps, Zenon DEF write_chunk
<1>3. CASE write_fail
  <2>1. CASE wire' = wire
    BY <1>3, <2>1, SkipKeeps DEF write_fail
  <2>2. CASE wire' = Append(wire, sealed(FALSE))
    BY <1>3, <2>2, PutKeeps, Zenon DEF write_fail
  <2> QED BY <1>3, <2>1, <2>2, Zenon DEF write_fail
<1> QED BY <1>1, <1>2, <1>3 DEF WriterNext

-----------------------------------------------------------------------------
\* poll, and a record that does not open.
LEMMA LookKeeps ==
    ASSUME NoiseIInv, phase' # "poll", UNCHANGED <<writer, wire, rx_nonce, plaintext, got>>
    PROVE  NoiseIInv'
<1>1. CountersOK' /\ ReadOK' /\ Drained' /\ fed' = fed
  BY DEF NoiseIInv, CountersOK, ReadOK, Drained, fed, writer
<1>2. WireOK'
  BY DEF NoiseIInv, WireOK, RecordOK, start, writer
<1>3. EndsOK'
  BY <1>1 DEF NoiseIInv, EndsOK, start, writer
<1> QED BY <1>1, <1>2, <1>3 DEF NoiseIInv

\* The record with the nonce the reader expects holds the bytes it expects.
LEMMA OpenKeeps ==
    ASSUME NoiseIInv, plaintext = <<>>, wire # <<>>, opens(Head(wire)), phase # "poll",
           plaintext' = plaintext \o Head(wire).data, rx_nonce' = rx_nonce + 1,
           wire' = Tail(wire), UNCHANGED <<phase, writer, got>>
    PROVE  NoiseIInv'
<1> DEFINE r == wire[1]
           n == Len(wire)
<1>1. n \in Nat /\ n > 0 /\ Head(wire) = r /\ Len(wire') = n - 1
      /\ wire' = [i \in 1..Len(wire') |-> wire'[i]]
      /\ \A i \in 1 .. n - 1 : wire'[i] = wire[i + 1]
  BY Shortened DEF NoiseIInv, WireOK
<1>2. r.whole /\ r.nonce = rx_nonce /\ RecordOK(r) /\ r.nonce < tx_nonce
  BY <1>1 DEF opens, NoiseIInv, WireOK
<1>3. r.data \in Seq(Nat) /\ Len(r.data) \in Nat /\ Len(r.data) <= kMaxPlaintext
      /\ (\A k \in 1..Len(r.data) : r.data[k] = start(r) + k)
  BY <1>2, NoiseAssumption DEF RecordOK
<1>4. got \in Seq(Nat) /\ Len(got) \in Nat /\ Len(plaintext) = 0 /\ (\A k \in 1..Len(got) : got[k] = k)
  BY DEF NoiseIInv, ReadOK
<1>5. fed = Len(got) /\ start(r) = Len(got)
  BY <1>1, <1>2, <1>4 DEF NoiseIInv, EndsOK, fed
<1>6. plaintext' = r.data
  BY <1>1, <1>3
<1>7. fed' = start(r) + Len(r.data)
  BY <1>5, <1>6, SMTT(20) DEF fed
<1>8. tx_nonce \in Nat /\ rx_nonce \in Nat /\ tx_nonce' = tx_nonce /\ accepted' = accepted
      /\ writing' = writing
  BY DEF NoiseIInv, CountersOK, writer
<1> HIDE DEF r
<1>9. CountersOK'
  BY <1>2, <1>8 DEF NoiseIInv, CountersOK
<1>10. ReadOK' /\ Drained'
  BY <1>3, <1>4, <1>5, <1>6 DEF ReadOK, Drained
<1>11. \A i \in 1 .. n - 1 : i \in 1..n /\ i + 1 \in 1..n /\ 1 < i + 1
  BY <1>1
<1>12. WireOK'
  <2>1. \A i \in 1 .. n - 1 :
            RecordOK(wire[i])' /\ rx_nonce' <= wire'[i].nonce /\ wire'[i].nonce < tx_nonce'
    <3>1. ASSUME NEW i \in 1 .. n - 1
          PROVE  RecordOK(wire'[i]) /\ rx_nonce + 1 <= wire'[i].nonce /\ wire'[i].nonce < tx_nonce
      <4>1. RecordOK(wire[i + 1]) /\ wire[i + 1].nonce < tx_nonce /\ r.nonce < wire[i + 1].nonce
        BY <1>1, <1>11, <3>1 DEF NoiseIInv, WireOK, r
      <4>2. wire[i + 1].nonce \in Nat
        BY <4>1 DEF RecordOK
      <4> QED BY <1>1, <1>2, <1>8, <3>1, <4>1, <4>2
    <3> QED BY <1>8, <3>1 DEF RecordOK, start
  <2>2. ASSUME NEW i \in 1 .. n - 1, NEW j \in 1 .. n - 1, i < j
        PROVE  wire'[i].nonce < wire'[j].nonce
    <3>1. i + 1 \in 1..n /\ j + 1 \in 1..n /\ i + 1 < j + 1
      BY <1>1, <2>2
    <3>2. wire[i + 1].nonce < wire[j + 1].nonce
      BY <3>1 DEF NoiseIInv, WireOK
    <3> QED BY <1>1, <2>2, <3>2
  <2>3. ASSUME NEW i \in 1 .. n - 1, i + 1 \in 1 .. n - 1,
               wire'[i].whole, wire'[i + 1].nonce = wire'[i].nonce + 1
        PROVE  start(wire'[i + 1]) = start(wire'[i]) + Len(wire'[i].data)
    <3>1. i + 1 \in 1..n /\ (i + 1) + 1 \in 1..n
      BY <1>1, <2>3
    <3>2. wire'[i] = wire[i + 1] /\ wire'[i + 1] = wire[(i + 1) + 1]
      BY <1>1, <2>3
    <3>3. wire[i + 1].whole /\ wire[(i + 1) + 1].nonce = wire[i + 1].nonce + 1
      BY <2>3, <3>2
    <3>4. start(wire[(i + 1) + 1]) = start(wire[i + 1]) + Len(wire[i + 1].data)
      BY <3>1, <3>3 DEF NoiseIInv, WireOK
    <3> QED BY <3>2, <3>4, Zenon
  <2>4. \A i \in 1..Len(wire') : i + 1 \in 1..Len(wire') =>
            (wire'[i].whole /\ wire'[i + 1].nonce = wire'[i].nonce + 1
                => start(wire[i + 1])' = start(wire[i])' + Len(wire'[i].data))
    BY <1>1, <2>3 DEF start
  <2>5. \A i, j \in 1..Len(wire') : i < j => wire'[i].nonce < wire'[j].nonce
    BY <1>1, <2>2
  <2>6. Len(wire') \in Nat
    BY <1>1
  <2> QED BY <1>1, <2>1, <2>4, <2>5, <2>6 DEF WireOK
<1>13. EndsOK'
  <2>1. CASE n = 1
    <3>1. rx_nonce' = tx_nonce => accepted = start(r) + Len(r.data)
      BY <1>1, <1>2, <2>1 DEF NoiseIInv, EndsOK, r
    <3>2. Len(wire') = 0 /\ ~(Len(wire') > 0)
      BY <1>1, <2>1
    <3>3. rx_nonce' = tx_nonce' => accepted' = fed'
      BY <1>7, <1>8, <3>1
    <3> QED BY <3>2, <3>3 DEF EndsOK
  <2>2. CASE n > 1
    <3>1. 1 \in 1 .. n - 1 /\ n - 1 \in 1 .. n - 1 /\ 1 + 1 \in 1..n /\ 1 \in 1..n /\ n - 1 + 1 = n
      BY <1>1, <2>2
    <3>2. wire'[1] = wire[1 + 1] /\ wire'[n - 1] = wire[n]
      BY <1>1, <3>1
    <3>3. wire'[1].nonce = rx_nonce' => start(wire'[1]) = fed'
      BY <1>2, <1>7, <3>1, <3>2 DEF NoiseIInv, WireOK, r
    <3>4. wire'[n - 1].whole /\ wire'[n - 1].nonce + 1 = tx_nonce
              => accepted = start(wire'[n - 1]) + Len(wire'[n - 1].data)
      BY <1>1, <3>2, Zenon DEF NoiseIInv, EndsOK
    <3>5. Len(wire') # 0 /\ Len(wire') = n - 1
      BY <1>1, <2>2
    <3> QED BY <1>8, <3>3, <3>4, <3>5 DEF EndsOK, start
  <2> QED BY <1>1, <2>1, <2>2
<1> QED BY <1>9, <1>10, <1>12, <1>13 DEF NoiseIInv

\* read hands out all of plaintext_, which fits its buffer.
LEMMA ReadKeeps ==
    ASSUME NoiseIInv, read
    PROVE  NoiseIInv'
<1>1. got \in Seq(Nat) /\ plaintext \in Seq(Nat) /\ Len(got) \in Nat /\ Len(plaintext) \in Nat
      /\ Len(plaintext) <= kMaxPlaintext
      /\ (\A k \in 1..Len(got) : got[k] = k)
      /\ \A k \in 1..Len(plaintext) : plaintext[k] = Len(got) + k
  BY DEF NoiseIInv, ReadOK
<1> DEFINE n == Len(plaintext)
<1>2. take = n
  <2>1. BufSize \in Nat /\ n <= BufSize
    BY <1>1, NoiseAssumption
  <2> QED BY <1>1, <2>1 DEF take, min
<1>3. SubSeq(plaintext, 1, n) = plaintext
  BY <1>1
<1>4. got' = got \o plaintext
  BY <1>2, <1>3 DEF read
<1>5. plaintext' = <<>>
  <2>1. plaintext' = SubSeq(plaintext, n + 1, n)
    BY <1>2 DEF read
  <2> QED BY <1>1, <2>1
<1>6. got' \in Seq(Nat) /\ Len(got') = Len(got) + n /\ fed' = fed
      /\ \A k \in 1..Len(got') : got'[k] = k
  <2>1. /\ got \o plaintext \in Seq(Nat) /\ Len(got \o plaintext) = Len(got) + n
        /\ \A k \in 1..Len(got) : (got \o plaintext)[k] = got[k]
        /\ \A k \in Len(got) + 1 .. Len(got) + n : (got \o plaintext)[k] = plaintext[k - Len(got)]
    BY <1>1, Joined
  <2>2. \A k \in Len(got) + 1 .. Len(got) + n : k - Len(got) \in 1..n /\ Len(got) + (k - Len(got)) = k
    BY <1>1
  <2>3. \A k \in 1 .. Len(got) + n : k \in 1..Len(got) \/ k \in Len(got) + 1 .. Len(got) + n
    BY <1>1
  <2>4. \A k \in 1 .. Len(got) + n : got'[k] = k
    BY <1>1, <1>4, <2>1, <2>2, <2>3
  <2>5. Len(<<>>) = 0
    OBVIOUS
  <2> QED BY <1>1, <1>4, <1>5, <2>1, <2>4, <2>5 DEF fed
<1>7. ReadOK' /\ Drained'
  <2>1. Len(<<>>) = 0 /\ <<>> \in Seq(Nat) /\ 0 <= kMaxPlaintext
    BY NoiseAssumption
  <2> QED BY <1>5, <1>6, <2>1 DEF ReadOK, Drained
<1>8. CountersOK' /\ WireOK'
  BY DEF read, NoiseIInv, CountersOK, WireOK, RecordOK, start, writer
<1>9. EndsOK'
  BY <1>6 DEF read, NoiseIInv, EndsOK, start, writer
<1> QED BY <1>7, <1>8, <1>9 DEF NoiseIInv

\* Every step of the reader: poll, decrypt_one and read.
LEMMA ReaderKeeps ==
    ASSUME NoiseIInv, ReaderNext
    PROVE  NoiseIInv'
<1>1. CASE poll
  BY <1>1, LookKeeps DEF poll
<1>2. CASE decrypt_one
  <2>1. CASE opens(Head(wire))
    BY <1>2, <2>1, OpenKeeps DEF decrypt_one
  <2>2. CASE ~opens(Head(wire))
    BY <1>2, <2>2, LookKeeps DEF decrypt_one
  <2> QED BY <2>1, <2>2
<1>3. CASE read
  BY <1>3, ReadKeeps
<1> QED BY <1>1, <1>2, <1>3 DEF ReaderNext

-----------------------------------------------------------------------------
\* A connection begins with both counters at zero and an empty wire.
LEMMA NoiseInitHolds ==
    ASSUME Init
    PROVE  NoiseIInv
<1>1. Len(<<>>) = 0 /\ <<>> \in Seq(Nat) /\ 0 <= kMaxPlaintext
  BY NoiseAssumption
<1>2. <<>> = [i \in 1..0 |-> <<>>[i]]
  OBVIOUS
<1>3. CountersOK /\ ReadOK /\ Drained /\ EndsOK
  BY <1>1 DEF Init, NoiseInit, CountersOK, ReadOK, Drained, EndsOK, fed
<1>4. WireOK
  BY <1>1, <1>2 DEF Init, NoiseInit, WireOK
<1> QED BY <1>3, <1>4 DEF NoiseIInv

\* The steps of the handshake leave the records alone.
LEMMA SessionInductive ==
    ASSUME NoiseIInv, [Next]_vars
    PROVE  NoiseIInv'
<1>1. CASE connect \/ read_request \/ get_key \/ get_other \/ ts2021_refused \/ ts2021
  BY <1>1, QuietKeeps, Zenon
  DEF connect, read_request, get_key, get_other, ts2021_refused, ts2021, close, noise_vars
<1>2. CASE handshake \/ handshake_fails \/ respond \/ send_fails \/ finish \/ import_state
  BY <1>2, QuietKeeps
  DEF handshake, handshake_fails, respond, send_fails, finish, import_state, close, noise_vars
<1>3. CASE UNCHANGED vars
  BY <1>3, QuietKeeps DEF vars, noise_vars
<1>4. CASE records(WriterNext)
  BY <1>4, WriterKeeps DEF records
<1>5. CASE records(ReaderNext)
  BY <1>5, ReaderKeeps DEF records
<1> QED BY <1>1, <1>2, <1>3, <1>4, <1>5 DEF Next

\* The invariant about the records holds throughout every connection.
LEMMA SessionInvariant == Spec => []NoiseIInv
  BY NoiseInitHolds, SessionInductive, PTL DEF Spec

-----------------------------------------------------------------------------
\* tx_nonce_ never seals two records, whatever sends fail.
THEOREM NoncesOnce == Spec => []NonceOnce
<1>1. NoiseIInv => NonceOnce
  <2> SUFFICES ASSUME NoiseIInv PROVE NonceOnce
    OBVIOUS
  <2>1. DOMAIN wire = 1..Len(wire) /\ Len(wire) \in Nat
    BY DEF NoiseIInv, WireOK
  <2>2. \A i \in 1..Len(wire) : wire[i].nonce \in Nat /\ wire[i].nonce < tx_nonce
    BY DEF NoiseIInv, WireOK, RecordOK
  <2>3. ASSUME NEW i \in 1..Len(wire), NEW j \in 1..Len(wire), i # j
        PROVE  wire[i].nonce # wire[j].nonce
    <3>1. i < j \/ j < i
      BY <2>1, <2>3
    <3>2. wire[i].nonce < wire[j].nonce \/ wire[j].nonce < wire[i].nonce
      BY <3>1 DEF NoiseIInv, WireOK
    <3> QED BY <2>2, <3>2
  <2> QED BY <2>1, <2>2, <2>3 DEF NonceOnce
<1> QED BY <1>1, SessionInvariant, PTL

\* What read returns is what write was given, from the first byte on.
THEOREM BytesInOrder == Spec => []Prefix
<1>1. NoiseIInv => Prefix
  <2> SUFFICES ASSUME NoiseIInv PROVE Prefix
    OBVIOUS
  <2> DEFINE a == got \o plaintext
             n == Len(plaintext)
             b == bytes(0, Len(a))
  <2>1. got \in Seq(Nat) /\ plaintext \in Seq(Nat) /\ Len(got) \in Nat /\ n \in Nat
        /\ (\A k \in 1..Len(got) : got[k] = k)
        /\ \A k \in 1..n : plaintext[k] = Len(got) + k
    BY DEF NoiseIInv, ReadOK
  <2>2. /\ a \in Seq(Nat) /\ Len(a) = Len(got) + n
        /\ \A k \in 1..Len(got) : a[k] = got[k]
        /\ \A k \in Len(got) + 1 .. Len(got) + n : a[k] = plaintext[k - Len(got)]
    BY <2>1, Joined
  <2> HIDE DEF a, n
  <2>3. \A k \in 1..Len(a) : a[k] = k
    <3>1. \A k \in Len(got) + 1 .. Len(got) + n : k - Len(got) \in 1..n /\ Len(got) + (k - Len(got)) = k
      BY <2>1
    <3>2. \A k \in 1 .. Len(got) + n : k \in 1..Len(got) \/ k \in Len(got) + 1 .. Len(got) + n
      BY <2>1
    <3> QED BY <2>1, <2>2, <3>1, <3>2, Zenon
  <2>4. b \in Seq(Nat) /\ Len(b) = Len(a) /\ \A k \in 1..Len(a) : b[k] = k
    <3>1. Len(a) \in Nat
      BY <2>1, <2>2
    <3> QED BY <3>1 DEF bytes
  <2> HIDE DEF b
  <2>5. a = b
    BY <2>2, <2>3, <2>4, SameSeq
  <2> QED BY <2>5 DEF Prefix, a, b
<1> QED BY <1>1, SessionInvariant, PTL

\* run() never polls while plaintext_ holds a byte, since a record fits the
\* buffer it reads into.
THEOREM PollSeesAll == Spec => []Drained
<1>1. NoiseIInv => Drained
  BY DEF NoiseIInv
<1> QED BY <1>1, SessionInvariant, PTL

-----------------------------------------------------------------------------
\* A set of naturals has a least element.
LEMMA LeastNat ==
    ASSUME NEW S \in SUBSET Nat, S # {}
    PROVE  \E x \in S : \A y \in S : x <= y
<1> DEFINE R == OpToRel(<, Nat)
<1>1. IsWellFoundedOn(R, Nat)
  BY NatLessThanWellFounded, Zenon
<1>2. \A x, y \in Nat : ~(<<y, x>> \in R) => x <= y
  BY DEF OpToRel
<1> HIDE DEF R
<1>3. \E x \in S : \A y \in S : ~(<<y, x>> \in R)
  BY <1>1, WFMin, Zenon
<1> QED
  BY <1>2, <1>3, Zenon

\* The positions of empty lines.
EmptyLines(b) == {i \in 1..Len(b) - 3 : SubSeq(b, i, i + 3) = EndOfHead}

\* find_end finds the first empty line, or returns 0 when there is none.
LEMMA FindEnd ==
    ASSUME NEW b \in Seq(Byte)
    PROVE  /\ find_end(b) \in Nat
           /\ find_end(b) = 0 <=> EmptyLines(b) = {}
           /\ find_end(b) # 0 => /\ find_end(b) \in EmptyLines(b)
                                 /\ \A i \in EmptyLines(b) : find_end(b) <= i
<1>1. Len(b) \in Nat
  BY SeqParts
<1>2. EmptyLines(b) \in SUBSET Nat /\ \A i \in EmptyLines(b) : i # 0
  BY <1>1 DEF EmptyLines
<1>3. find_end(b) = IF EmptyLines(b) = {} THEN 0
                   ELSE CHOOSE i \in EmptyLines(b) : \A j \in EmptyLines(b) : i <= j
  BY DEF find_end, EmptyLines
<1> QED
  <2>1. CASE EmptyLines(b) = {}
    BY <1>3, <2>1
  <2>2. CASE EmptyLines(b) # {}
    <3>1. \E i \in EmptyLines(b) : \A j \in EmptyLines(b) : i <= j
      BY <1>2, <2>2, LeastNat
    <3>2. find_end(b) \in EmptyLines(b) /\ \A j \in EmptyLines(b) : find_end(b) <= j
      BY <1>3, <2>2, <3>1, Zenon
    <3> QED
      BY <1>2, <2>2, <3>2, Zenon
  <2> QED
    BY <2>1, <2>2

\* The empty lines of a beginning are those of the whole that end inside it.
LEMMA LinesOfPrefix ==
    ASSUME NEW s \in Seq(Byte), NEW n \in 0..Len(s), NEW i \in Nat \ {0}
    PROVE  i \in EmptyLines(SubSeq(s, 1, n)) <=> i \in EmptyLines(s) /\ i + 3 <= n
<1> DEFINE b == SubSeq(s, 1, n)
<1>1. Len(s) \in Nat /\ n \in Nat /\ \A j \in 1..Len(s) : s[j] \in Byte
  BY SeqParts
<1>2. /\ b \in Seq(Byte) /\ Len(b) = n
      /\ \A j \in 1..n : b[j] = s[j]
  <2>1. \A j \in 1..n : s[j] \in Byte
    BY <1>1
  <2>2. /\ b \in Seq(Byte) /\ Len(b) = IF 1 <= n THEN n - 1 + 1 ELSE 0
        /\ \A j \in 1..(n - 1 + 1) : b[j] = s[1 + j - 1]
    BY <1>1, <2>1, Cut
  <2> QED
    BY <1>1, <2>2
<1> HIDE DEF b
<1>3. ASSUME i + 3 <= n PROVE SubSeq(b, i, i + 3) = SubSeq(s, i, i + 3)
  <2>1. \A j \in i..(i + 3) : b[j] \in Byte /\ s[j] \in Byte /\ b[j] = s[j]
    BY <1>1, <1>2, <1>3
  <2>2. /\ SubSeq(b, i, i + 3) \in Seq(Byte) /\ Len(SubSeq(b, i, i + 3)) = 4
        /\ \A j \in 1..4 : SubSeq(b, i, i + 3)[j] = b[i + j - 1]
    BY <2>1, Cut
  <2>3. /\ SubSeq(s, i, i + 3) \in Seq(Byte) /\ Len(SubSeq(s, i, i + 3)) = 4
        /\ \A j \in 1..4 : SubSeq(s, i, i + 3)[j] = s[i + j - 1]
    BY <2>1, Cut
  <2>4. \A j \in 1..4 : SubSeq(b, i, i + 3)[j] = SubSeq(s, i, i + 3)[j]
    BY <2>1, <2>2, <2>3
  <2> QED
    BY <2>2, <2>3, <2>4, SameSeq
<1>4. i \in EmptyLines(b) => i + 3 <= n
  BY <1>2 DEF EmptyLines
<1>5. i + 3 <= n => (i \in 1..Len(b) - 3 /\ i \in 1..Len(s) - 3)
  BY <1>1, <1>2
<1>6. i \in EmptyLines(b) <=> i \in EmptyLines(s) /\ i + 3 <= n
  BY <1>3, <1>4, <1>5 DEF EmptyLines
<1> QED
  BY <1>6 DEF b

\* An empty line found in what has been read is the first of all that was
\* sent, and all of it has been read.
LEMMA EndFound ==
    ASSUME NEW s \in Seq(Byte), NEW n \in 0..Len(s), find_end(SubSeq(s, 1, n)) # 0
    PROVE  /\ find_end(s) = find_end(SubSeq(s, 1, n))
           /\ find_end(s) + 3 <= n
<1> DEFINE b == SubSeq(s, 1, n)
<1>1. b \in Seq(Byte) /\ n \in Nat
  <2>1. \A j \in 1..n : s[j] \in Byte
    BY SeqParts
  <2> QED
    BY <2>1, Cut
<1>2. /\ find_end(b) \in Nat \ {0} /\ find_end(b) \in EmptyLines(b)
      /\ \A i \in EmptyLines(b) : find_end(b) <= i
  BY <1>1, FindEnd, Zenon
<1>3. find_end(b) \in EmptyLines(s) /\ find_end(b) + 3 <= n
  BY <1>2, LinesOfPrefix
<1>4. /\ find_end(s) \in Nat \ {0} /\ find_end(s) \in EmptyLines(s)
      /\ \A i \in EmptyLines(s) : find_end(s) <= i
  BY <1>3, FindEnd
<1>5. find_end(s) <= find_end(b)
  BY <1>3, <1>4
<1>6. find_end(s) + 3 <= n
  BY <1>1, <1>2, <1>3, <1>4, <1>5
<1>7. find_end(s) \in EmptyLines(b)
  BY <1>4, <1>6, LinesOfPrefix
<1> QED
  BY <1>2, <1>4, <1>5, <1>6, <1>7

\* What a peer sends is a sequence of bytes.
LEMMA StreamsAreBytes == Streams \subseteq Seq(Byte)
<1> SUFFICES ASSUME NEW s \in Streams PROVE s \in Seq(Byte)
  OBVIOUS
<1>0. PICK h \in Heads, b \in {<<>>, <<"x">>} :
          s = h \o EndOfHead \o b
  BY DEF Streams
<1>1. h \in Seq(Byte)
  <2>1. PICK m \in 0..MaxLine : h \in [1..m -> {"x", "r", "n"}]
    BY DEF Heads
  <2>2. m \in Nat
    OBVIOUS
  <2> QED
    BY <2>1, <2>2, FunctionIsSeq DEF Byte
<1>2. EndOfHead \in Seq(Byte) /\ b \in Seq(Byte)
  <2>1. "r" \in Byte /\ "n" \in Byte /\ "x" \in Byte
    BY DEF Byte
  <2>2. <<"r", "n", "r", "n">> \in Seq(Byte) /\ <<>> \in Seq(Byte) /\ <<"x">> \in Seq(Byte)
    BY <2>1
  <2> QED
    BY <2>2, Zenon DEF EndOfHead
<1>3. h \o EndOfHead \in Seq(Byte)
  BY <1>1, <1>2, Concat
<1> QED
  BY <1>0, <1>2, <1>3, Concat

\* The step of a recv: its answer is about all that the peer sent.
LEMMA RecvDecides ==
    ASSUME HttpIInv, NEW k \in 1..RecvSize, recv(k)
    PROVE  HttpIInv'
<1>1. /\ sent \in Seq(Byte) /\ buf \in Seq(Byte) /\ Len(buf) \in Nat /\ Len(sent) \in Nat
      /\ MaxHead \in Nat /\ k \in Nat
  BY SeqParts, HttpAssumption DEF HttpIInv
<1> DEFINE n == Len(buf) + k
<1>2. /\ n \in 0..Len(sent) /\ buf' = SubSeq(sent, 1, n) /\ sent' = sent
      /\ stage' = head_decided(buf', k)
  BY <1>1 DEF recv
<1>3. buf' \in Seq(Byte) /\ Len(buf') = n
  <2>1. \A j \in 1..n : sent[j] \in Byte
    BY <1>1, <1>2, SeqParts
  <2>2. /\ SubSeq(sent, 1, n) \in Seq(Byte)
        /\ Len(SubSeq(sent, 1, n)) = IF 1 <= n THEN n - 1 + 1 ELSE 0
    BY <1>1, <1>2, <2>1, Cut
  <2> QED
    BY <1>1, <1>2, <2>2
<1> HIDE DEF n
<1>4. find_end(buf') \in Nat
  BY <1>3, FindEnd
<1>5. find_end(buf') # 0 => find_end(sent) = find_end(buf') /\ find_end(sent) + 3 <= n
  BY <1>1, <1>2, EndFound
<1>6. stage' = "request" => Len(buf') <= MaxHead /\ find_end(buf') # 0 /\ find_end(buf') # 1
  BY <1>1, <1>2, <1>3, <1>4 DEF head_decided
<1>7. stage' = "refused" => Len(buf') > MaxHead \/ find_end(buf') = 1
  BY <1>2 DEF head_decided
<1>8. stage' = "request" =>
          /\ find_end(sent) > 1 /\ find_end(sent) + 3 <= Len(buf')
          /\ Len(buf') <= MaxHead
  BY <1>3, <1>4, <1>5, <1>6
<1>9. stage' = "refused" => Len(sent) > MaxHead \/ find_end(sent) = 1
  BY <1>1, <1>2, <1>3, <1>4, <1>5, <1>7
<1> QED
  BY <1>1, <1>2, <1>3, <1>8, <1>9 DEF HttpIInv, HeadDecided

\* However recv cuts the bytes up, read_http_request takes a request only with
\* its whole head and within the limit, and refuses one only when what was
\* sent is beyond the limit or has no first line, for any limit, any size of
\* recv's buffer and any head.
THEOREM HeadsDecided == Spec => []HeadDecided
<1>1. Init => HttpIInv
  BY DEF Init, HttpIInv, HeadDecided
<1>2. ASSUME HttpIInv, [Next]_vars PROVE HttpIInv'
  <2>0. <<>> \in Seq(Byte)
    OBVIOUS
  <2>1. CASE connect
    BY <1>2, <2>0, <2>1, StreamsAreBytes DEF connect, HttpIInv, HeadDecided
  <2>2. CASE read_request
    <3>1. CASE read_http_request
      BY <1>2, <3>1, RecvDecides DEF read_http_request
    <3>2. CASE recv_fail
      BY <2>0, <3>2 DEF recv_fail, HttpIInv, HeadDecided
    <3> QED
      BY <2>2, <3>1, <3>2 DEF read_request
  <2>3. CASE close
    BY <2>0, <2>3 DEF close, HttpIInv, HeadDecided
  <2>4. CASE ts2021
    BY <2>0, <2>4, Zenon DEF ts2021, HttpIInv, HeadDecided
  <2>5. CASE UNCHANGED http_vars
    BY <1>2, <2>5 DEF http_vars, HttpIInv, HeadDecided
  <2>6. CASE handshake \/ respond \/ finish
    BY <1>2, <2>6 DEF handshake, respond, finish, HttpIInv, HeadDecided
  <2>7. CASE import_state \/ records(WriterNext) \/ records(ReaderNext) \/ UNCHANGED vars
    BY <2>5, <2>7 DEF import_state, records, vars
  <2> QED
    BY <1>2, <2>1, <2>2, <2>3, <2>4, <2>6, <2>7, Zenon
    DEF Next, get_key, get_other, ts2021_refused, handshake_fails, send_fails
<1>3. HttpIInv => HeadDecided
  BY DEF HttpIInv
<1> QED
  BY <1>1, <1>2, <1>3, PTL DEF Spec

-----------------------------------------------------------------------------
\* Hashes are equal only when what was hashed is.
LEMMA HashInjective ==
    ASSUME NEW a, NEW b, NEW c, NEW d, mix_hash(a, b) = mix_hash(c, d)
    PROVE  a = c /\ b = d
BY DEF mix_hash, blake2s256

\* Boxes are equal only when key, nonce, additional data and content are; a box
\* is not junk, and aead_open returns its content.
LEMMA SealInjective ==
    ASSUME NEW k, NEW n, NEW h, NEW x, NEW l, NEW m, NEW g, NEW y
    PROVE  /\ aead_seal(k, n, h, x) = aead_seal(l, m, g, y) => k = l /\ n = m /\ h = g /\ x = y
           /\ aead_seal(k, n, h, x) # Junk
           /\ aead_seal(k, n, h, x)[5] = x
BY DEF aead_seal, Junk

\* A box that opens under a key and a hash was sealed under both.
LEMMA DecryptsOnly ==
    ASSUME NEW k, NEW h, NEW x, NEW l, NEW g
    PROVE  decrypts(g, l, aead_seal(k, 0, h, x)) <=> l = k /\ g = h
<1> DEFINE box == aead_seal(k, 0, h, x)
<1>1. box # Junk /\ box[5] = x
  BY SealInjective
<1>2. decrypts(g, l, box) <=> box = aead_seal(l, 0, g, x)
  BY <1>1 DEF decrypts, aead_opens
<1> QED
  BY <1>2, SealInjective

\* Two ends that mix each other's public keys get the same.
LEMMA SharedIsMutual ==
    ASSUME NEW ck, NEW a, NEW b
    PROVE  mix_dh(ck, a, x25519_public(b)) = mix_dh(ck, b, x25519_public(a))
<1>1. x25519_public(a)[2] = a /\ x25519_public(b)[2] = b
  BY DEF x25519_public
<1>2. {a, b} = {b, a}
  OBVIOUS
<1> QED
  BY <1>1, <1>2 DEF mix_dh, x25519_shared

\* A public key is one, and tells its private key.
LEMMA PublicIsKey ==
    ASSUME NEW a, NEW b
    PROVE  ~x25519_fails(x25519_public(a)) /\ (x25519_public(a) = x25519_public(b) => a = b)
BY DEF x25519_fails, x25519_public, Junk

\* The initial hash tells the version and the server's key.
LEMMA InitialHashInjective ==
    ASSUME NEW v, NEW p, NEW w, NEW q, initial_hash(v, p) = initial_hash(w, q)
    PROVE  v = w /\ p = q
BY DEF initial_hash, mix_hash, blake2s256

\* What noise_client_init mixes for the server's key p: the hash and the two
\* secrets, and the two boxes it sends.
OfferHash(p) == mix_hash(initial_hash(Version, p), x25519_public(ClientEph))
OfferES(p) == mix_dh(initial_ck, ClientEph, p)
OfferKey(p) == aead_seal(OfferES(p).k, 0, OfferHash(p), x25519_public(Machine))
OfferSS(p) == mix_dh(OfferES(p).ck, Machine, p)
OfferTag(p) == aead_seal(OfferSS(p).k, 0, mix_hash(OfferHash(p), OfferKey(p)), Nothing)

\* What noise_server_handshake mixes into its answer, and the box it sends.
ReplyHash(p) ==
    mix_hash(mix_hash(mix_hash(OfferHash(p), OfferKey(p)), OfferTag(p)), x25519_public(ServerEph))
ReplySE(p) ==
    mix_dh(mix_dh(OfferSS(p).ck, ServerEph, x25519_public(ClientEph)).ck,
           ServerEph, x25519_public(Machine))
ReplyTag(p) == aead_seal(ReplySE(p).k, 0, ReplyHash(p), Nothing)

\* What noise_client_init sends and keeps.
LEMMA OfferIs ==
    ASSUME NEW p
    PROVE  /\ Offer(p).msg = Initiation(Version, x25519_public(ClientEph), OfferKey(p), OfferTag(p))
           /\ Offer(p).machine = Machine /\ Offer(p).eph = ClientEph
           /\ Offer(p).h = mix_hash(mix_hash(OfferHash(p), OfferKey(p)), OfferTag(p))
           /\ Offer(p).ck = OfferSS(p).ck
BY Zenon DEF Offer, noise_client_init, encrypt_and_hash, OfferHash, OfferES, OfferKey, OfferSS, OfferTag

\* The fields of the initiation that was sent.
LEMMA OfferFields ==
    ASSUME NEW p, NEW x, x = Offer(p).msg
    PROVE  /\ x.size = TRUE /\ x.type = TRUE /\ x.length = TRUE
           /\ x.version = Version /\ x.eph = x25519_public(ClientEph)
           /\ x.key = OfferKey(p) /\ x.tag = OfferTag(p)
<1>1. x = Initiation(Version, x25519_public(ClientEph), OfferKey(p), OfferTag(p))
  BY OfferIs
<1> QED
  BY ONLY <1>1 DEF Initiation

\* An altered initiation that differs from the one sent fails a check of its
\* form, has a field that is junk, or has another key or version in the clear.
LEMMA AlteredIs ==
    ASSUME NEW v, NEW e, NEW k, NEW t, NEW msg, msg = Initiation(v, e, k, t),
           NEW x \in altered(msg) \cup {[msg EXCEPT !.size = FALSE]},
           x.size, x.type, x.length, x.eph # Junk, x.key # Junk, x.tag # Junk
    PROVE  x.key = k /\ x.tag = t /\ (x.eph = e /\ x.version = v => x = msg)
<1>0. /\ msg.size = TRUE /\ msg.type = TRUE /\ msg.length = TRUE
      /\ msg.version = v /\ msg.eph = e /\ msg.key = k /\ msg.tag = t
      /\ DOMAIN msg = {"size", "type", "length", "version", "eph", "key", "tag"}
  BY DEF Initiation
<1>1. x # [msg EXCEPT !.size = FALSE]
  BY <1>0 DEF Initiation
<1>2. ASSUME NEW f \in {"size", "type", "length"} PROVE x # [msg EXCEPT ![f] = FALSE]
  BY <1>0, <1>2 DEF Initiation
<1>3. ASSUME NEW f \in {"eph", "key", "tag"} PROVE x # [msg EXCEPT ![f] = Junk]
  BY <1>0, <1>3 DEF Initiation
<1>4. \/ x = [msg EXCEPT !.eph = x25519_public(Machine)]
      \/ x = [msg EXCEPT !["version"] = OtherVersion]
  BY <1>0, <1>1, <1>2, <1>3 DEF altered
<1>5. CASE x = [msg EXCEPT !.eph = x25519_public(Machine)]
  BY <1>0, <1>5, Zenon DEF Initiation
<1>6. CASE x = [msg EXCEPT !["version"] = OtherVersion]
  BY <1>0, <1>6, Zenon DEF Initiation
<1> QED
  BY <1>4, <1>5, <1>6

\* noise_server_handshake accepts only the initiation that was sent, and only
\* when it was made for its own key.
LEMMA AcceptedIs ==
    ASSUME NEW c, NEW p, NEW x, server_accepts(c, x),
           x \in {Offer(p).msg} \cup altered(Offer(p).msg) \cup {[Offer(p).msg EXCEPT !.size = FALSE]}
    PROVE  x = Offer(p).msg /\ p = x25519_public(c)
<1> DEFINE e == x25519_public(ClientEph)
           r == server_reads(c, x)
<1>1. /\ x.size /\ x.type /\ x.length /\ x.eph # Junk /\ x.key # Junk
      /\ decrypts(r.h1, r.es.k, x.key) /\ decrypts(r.h2, r.ss.k, x.tag)
  BY Zenon DEF server_accepts, x25519_fails
<1>2. x.tag # Junk
  BY <1>1, Zenon DEF decrypts, aead_opens
<1>3. r.h1 = mix_hash(initial_hash(x.version, x25519_public(c)), x.eph)
  BY DEF server_reads
<1> HIDE DEF e, r
<1>4. x.key = OfferKey(p) /\ (x.eph = e /\ x.version = Version => x = Offer(p).msg)
  <2>1. CASE x = Offer(p).msg
    BY <2>1, OfferFields, Zenon
  <2>2. CASE x # Offer(p).msg
    <3> DEFINE msg == Offer(p).msg
    <3>1. msg = Initiation(Version, e, OfferKey(p), OfferTag(p))
      BY OfferIs, Zenon DEF e
    <3>2. x \in altered(msg) \cup {[msg EXCEPT !.size = FALSE]}
      BY <2>2, Zenon
    <3> HIDE DEF msg
    <3>3. x.key = OfferKey(p) /\ (x.eph = e /\ x.version = Version => x = msg)
      BY ONLY <1>1, <1>2, <3>1, <3>2, AlteredIs
    <3> QED
      BY <3>3, Zenon DEF msg
  <2> QED
    BY <2>1, <2>2, Zenon
<1>5. r.h1 = OfferHash(p)
  BY <1>1, <1>4, DecryptsOnly DEF OfferKey
<1>6. x.eph = e /\ initial_hash(x.version, x25519_public(c)) = initial_hash(Version, p)
  <2>1. mix_hash(initial_hash(x.version, x25519_public(c)), x.eph)
            = mix_hash(initial_hash(Version, p), e)
    BY <1>3, <1>5, Zenon DEF OfferHash, e
  <2> QED
    BY <2>1, HashInjective
<1>7. x.version = Version /\ x25519_public(c) = p
  BY <1>6, InitialHashInjective
<1> QED
  BY <1>4, <1>6, <1>7, Zenon

\* What the server computes from an initiation made for its key.
LEMMA ReadsOffer ==
    ASSUME NEW c, NEW p, p = x25519_public(c), NEW r, r = server_reads(c, Offer(p).msg)
    PROVE  /\ r.h1 = OfferHash(p) /\ r.es = OfferES(p) /\ r.machine = x25519_public(Machine)
           /\ r.h2 = mix_hash(OfferHash(p), OfferKey(p)) /\ r.ss = OfferSS(p)
<1> DEFINE e == x25519_public(ClientEph)
<1>1. ASSUME NEW x, x.version = Version, x.eph = e, x.key = OfferKey(p), r = server_reads(c, x)
      PROVE  /\ r.h1 = mix_hash(initial_hash(Version, p), e)
             /\ r.es = mix_dh(initial_ck, c, e) /\ r.machine = OfferKey(p)[5]
             /\ r.h2 = mix_hash(r.h1, OfferKey(p))
             /\ r.ss = mix_dh(r.es.ck, c, r.machine)
  <2> HIDE DEF e
  <2> DEFINE h == mix_hash(initial_hash(Version, p), e)
             es == mix_dh(initial_ck, c, e)
             k == OfferKey(p)
  <2>1. r = [h1 |-> h, es |-> es, machine |-> k[5], h2 |-> mix_hash(h, k),
             ss |-> mix_dh(es.ck, c, k[5])]
    BY <1>1, Zenon DEF server_reads
  <2> HIDE DEF h, es, k
  <2>2. /\ r.h1 = h /\ r.es = es /\ r.machine = k[5] /\ r.h2 = mix_hash(h, k)
        /\ r.ss = mix_dh(es.ck, c, k[5])
    BY ONLY <2>1
  <2> QED
    BY ONLY <2>2, Zenon DEF h, es, k
<1>2. /\ r.h1 = OfferHash(p)
      /\ r.es = mix_dh(initial_ck, c, e) /\ r.machine = OfferKey(p)[5]
      /\ r.h2 = mix_hash(r.h1, OfferKey(p))
      /\ r.ss = mix_dh(r.es.ck, c, r.machine)
  BY <1>1, OfferFields, Zenon DEF OfferHash
<1>3. mix_dh(initial_ck, c, e) = OfferES(p)
  BY SharedIsMutual, Zenon DEF OfferES
<1>4. OfferKey(p)[5] = x25519_public(Machine)
  BY SealInjective DEF OfferKey
<1>5. mix_dh(OfferES(p).ck, c, x25519_public(Machine)) = OfferSS(p)
  BY SharedIsMutual, Zenon DEF OfferSS
<1> QED
  BY <1>2, <1>3, <1>4, <1>5, ZenonT(30)

\* It accepts the initiation made for its key.
LEMMA AcceptsOffer ==
    ASSUME NEW c
    PROVE  server_accepts(c, Offer(x25519_public(c)).msg)
<1> DEFINE p == x25519_public(c)
           x == Offer(p).msg
           r == server_reads(c, x)
<1> HIDE DEF p, x, r
<1>1. /\ x.size /\ x.type /\ x.length /\ x.eph = x25519_public(ClientEph)
      /\ x.key = OfferKey(p) /\ x.tag = OfferTag(p)
  BY OfferFields, Zenon DEF x
<1>2. /\ r.h1 = OfferHash(p) /\ r.es = OfferES(p) /\ r.machine = x25519_public(Machine)
      /\ r.h2 = mix_hash(OfferHash(p), OfferKey(p)) /\ r.ss = OfferSS(p)
  BY ReadsOffer, Zenon DEF p, x, r
<1>3. x.key # Junk
  BY <1>1, SealInjective DEF OfferKey
<1>4. ~x25519_fails(x.eph) /\ ~x25519_fails(r.machine)
  BY <1>1, <1>2, PublicIsKey, Zenon
<1>5. decrypts(r.h1, r.es.k, x.key)
  BY <1>1, <1>2, DecryptsOnly DEF OfferKey
<1>6. decrypts(r.h2, r.ss.k, x.tag)
  BY <1>1, <1>2, DecryptsOnly DEF OfferTag
<1>7. server_accepts(c, x)
  BY <1>1, <1>3, <1>4, <1>5, <1>6, ZenonT(30) DEF server_accepts, r
<1> QED
  BY <1>7, Zenon DEF x, p

\* What noise_server_handshake answers to the initiation made for its key.
LEMMA ReplyIs ==
    ASSUME NEW c, NEW p, p = x25519_public(c),
           NEW s, s = noise_server_handshake(c, ServerEph, Offer(p).msg)
    PROVE  /\ s.msg = [format |-> TRUE, eph |-> x25519_public(ServerEph), tag |-> ReplyTag(p)]
           /\ s.peer = x25519_public(Machine) /\ s.version = Version
           /\ s.h = mix_hash(ReplyHash(p), ReplyTag(p))
           /\ s.tx = split_keys(ReplySE(p).ck).c2 /\ s.rx = split_keys(ReplySE(p).ck).c1
<1> DEFINE x == Offer(p).msg
           r == server_reads(c, x)
           h3 == mix_hash(mix_hash(r.h2, x.tag), x25519_public(ServerEph))
           se == mix_dh(mix_dh(r.ss.ck, ServerEph, x.eph).ck, ServerEph, r.machine)
           box == aead_seal(se.k, 0, h3, Nothing)
<1>1. s = [msg |-> [format |-> TRUE, eph |-> x25519_public(ServerEph), tag |-> box],
           peer |-> r.machine, version |-> x.version, h |-> mix_hash(h3, box),
           tx |-> split_keys(se.ck).c2, rx |-> split_keys(se.ck).c1]
  <2> HIDE DEF x
  <2>1. s = noise_server_handshake(c, ServerEph, x)
    BY Zenon DEF x
  <2> QED
    BY <2>1, Zenon DEF noise_server_handshake, encrypt_and_hash, server_keys
<1>2. /\ x.version = Version /\ x.eph = x25519_public(ClientEph) /\ x.tag = OfferTag(p)
  BY OfferFields, Zenon
<1>3. r.machine = x25519_public(Machine) /\ r.h2 = mix_hash(OfferHash(p), OfferKey(p))
      /\ r.ss = OfferSS(p)
  BY ReadsOffer, Zenon
<1> HIDE DEF x, r
<1>4. h3 = ReplyHash(p) /\ se = ReplySE(p)
  BY <1>2, <1>3, Zenon DEF ReplyHash, ReplySE
<1> HIDE DEF h3, se
<1>5. box = ReplyTag(p)
  BY <1>4, Zenon DEF ReplyTag
<1> HIDE DEF box
<1>6. /\ s.msg = [format |-> TRUE, eph |-> x25519_public(ServerEph), tag |-> box]
      /\ s.peer = r.machine /\ s.version = x.version /\ s.h = mix_hash(h3, box)
      /\ s.tx = split_keys(se.ck).c2 /\ s.rx = split_keys(se.ck).c1
  BY ONLY <1>1
<1> QED
  BY ONLY <1>2, <1>3, <1>4, <1>5, <1>6, Zenon

\* The response an altered response was made from, when it passes the checks
\* of its form.
LEMMA AlteredReply ==
    ASSUME NEW e, NEW t, NEW msg, msg = [format |-> TRUE, eph |-> e, tag |-> t],
           NEW x \in {msg} \cup altered(msg), x.format, x.eph # Junk, x.tag # Junk
    PROVE  x.tag = t
<1>0. /\ msg.format = TRUE /\ msg.eph = e /\ msg.tag = t
      /\ DOMAIN msg = {"format", "eph", "tag"}
  OBVIOUS
<1>1. x # [msg EXCEPT !["format"] = FALSE]
  BY <1>0
<1>2. ASSUME NEW f \in {"eph", "tag"} PROVE x # [msg EXCEPT ![f] = Junk]
  BY <1>0, <1>2
<1>3. x = msg \/ x = [msg EXCEPT !.eph = x25519_public(Machine)]
  BY <1>0, <1>1, <1>2, Zenon DEF altered
<1> QED
  BY <1>0, <1>3

\* What noise_client_finish has checked and returns when it succeeds.
LEMMA FinishIs ==
    ASSUME NEW o, NEW resp, NEW d, d = noise_client_finish(o, resp), d.ok,
           NEW h, h = mix_hash(o.h, resp.eph),
           NEW se, se = mix_dh(mix_dh(o.ck, o.eph, resp.eph).ck, o.machine, resp.eph)
    PROVE  /\ resp.format /\ resp.eph # Junk /\ decrypts(h, se.k, resp.tag)
           /\ d.h = mix_hash(h, resp.tag)
           /\ d.tx = split_keys(se.ck).c1 /\ d.rx = split_keys(se.ck).c2
<1> DEFINE bad == ~resp.format \/ x25519_fails(resp.eph)
           opens_it == decrypts(h, se.k, resp.tag)
           failed == [ok |-> FALSE]
           good == [ok |-> TRUE, h |-> mix_hash(h, resp.tag),
                    tx |-> split_keys(se.ck).c1, rx |-> split_keys(se.ck).c2]
<1>1. d = IF bad THEN failed ELSE IF opens_it THEN good ELSE failed
  BY Zenon DEF noise_client_finish
<1>2. d # failed
  BY SMTT(20)
<1>3. good.h = mix_hash(h, resp.tag) /\ good.tx = split_keys(se.ck).c1 /\ good.rx = split_keys(se.ck).c2
  OBVIOUS
<1> HIDE DEF bad, opens_it, failed, good
<1>4. ~bad /\ opens_it /\ d = good
  BY ONLY <1>1, <1>2, Zenon
<1> QED
  BY <1>3, <1>4, Zenon DEF bad, opens_it, x25519_fails

\* The keys of the two directions differ.
LEMMA SplitDiffers ==
    ASSUME NEW ck
    PROVE  split_keys(ck).c1 # split_keys(ck).c2
BY DEF split_keys, hkdf_blake2s

\* A client that mixes the server's ephemeral key gets the server's secret.
LEMMA SecretIsMutual ==
    ASSUME NEW p, NEW g, g = x25519_public(ServerEph)
    PROVE  mix_dh(mix_dh(OfferSS(p).ck, ClientEph, g).ck, Machine, g) = ReplySE(p)
<1>1. mix_dh(OfferSS(p).ck, ClientEph, g) = mix_dh(OfferSS(p).ck, ServerEph, x25519_public(ClientEph))
  BY SharedIsMutual, Zenon
<1>2. ASSUME NEW ck PROVE mix_dh(ck, Machine, g) = mix_dh(ck, ServerEph, x25519_public(Machine))
  BY SharedIsMutual, Zenon
<1> QED
  BY <1>1, <1>2, Zenon DEF ReplySE

\* A client whose noise_client_finish succeeds agrees with the server.
LEMMA FinishAgrees ==
    ASSUME NEW c, NEW p, p = x25519_public(c),
           NEW s, s = noise_server_handshake(c, ServerEph, Offer(p).msg),
           NEW resp \in {s.msg} \cup altered(s.msg),
           NEW d, d = noise_client_finish(Offer(p), resp), d.ok
    PROVE  /\ s.tx = d.rx /\ s.rx = d.tx /\ s.tx # s.rx /\ s.h = d.h
           /\ s.peer = x25519_public(Machine) /\ s.version = Version
<1> DEFINE o == Offer(p)
           g == x25519_public(ServerEph)
           m == s.msg
           h == mix_hash(o.h, resp.eph)
           se == mix_dh(mix_dh(o.ck, o.eph, resp.eph).ck, o.machine, resp.eph)
<1> HIDE DEF o, g, m, h, se
<1>1. /\ o.machine = Machine /\ o.eph = ClientEph /\ o.ck = OfferSS(p).ck
      /\ ReplyHash(p) = mix_hash(o.h, g)
  BY OfferIs, Zenon DEF ReplyHash, o, g
<1>2. /\ s.msg = [format |-> TRUE, eph |-> x25519_public(ServerEph), tag |-> ReplyTag(p)]
      /\ s.peer = x25519_public(Machine) /\ s.version = Version
      /\ s.h = mix_hash(ReplyHash(p), ReplyTag(p))
      /\ s.tx = split_keys(ReplySE(p).ck).c2 /\ s.rx = split_keys(ReplySE(p).ck).c1
  <2>1. p = x25519_public(c) /\ s = noise_server_handshake(c, ServerEph, Offer(p).msg)
    OBVIOUS
  <2> QED
    BY ONLY <2>1, ReplyIs
<1>3. m = [format |-> TRUE, eph |-> g, tag |-> ReplyTag(p)] /\ resp \in {m} \cup altered(m)
  BY <1>2, Zenon DEF m, g
<1>4. /\ resp.format /\ resp.eph # Junk /\ decrypts(h, se.k, resp.tag)
      /\ d.h = mix_hash(h, resp.tag)
      /\ d.tx = split_keys(se.ck).c1 /\ d.rx = split_keys(se.ck).c2
  <2>1. d = noise_client_finish(o, resp) /\ d.ok
    BY Zenon DEF o
  <2>2. /\ h = mix_hash(o.h, resp.eph)
        /\ se = mix_dh(mix_dh(o.ck, o.eph, resp.eph).ck, o.machine, resp.eph)
    BY Zenon DEF h, se
  <2> QED
    BY ONLY <2>1, <2>2, FinishIs
<1>5. resp.tag # Junk
  BY ONLY <1>4, Zenon DEF decrypts, aead_opens
<1>6. resp.tag = ReplyTag(p)
  <2>1. resp.format /\ resp.eph # Junk
    BY ONLY <1>4
  <2> QED
    BY ONLY <1>3, <1>5, <2>1, AlteredReply
<1>7. h = ReplyHash(p)
  <2>1. decrypts(h, se.k, aead_seal(ReplySE(p).k, 0, ReplyHash(p), Nothing))
    BY ONLY <1>4, <1>6, Zenon DEF ReplyTag
  <2> QED
    BY ONLY <2>1, DecryptsOnly
<1>8. resp.eph = g
  <2>1. mix_hash(o.h, resp.eph) = mix_hash(o.h, g)
    BY ONLY <1>1, <1>7, Zenon DEF h
  <2> QED
    BY ONLY <2>1, HashInjective
<1>9. se = ReplySE(p)
  BY ONLY <1>1, <1>8, SecretIsMutual, Zenon DEF se, g
<1> QED
  BY ONLY <1>2, <1>4, <1>6, <1>7, <1>9, SplitDiffers, Zenon

-----------------------------------------------------------------------------
\* A step that leaves the two ends and the keys alone, or ends a connection.
LEMMA EndsKeep ==
    ASSUME HandshakeIInv, UNCHANGED ends, control' \in ControlKeys,
           known' \in {Nothing} \cup {x25519_public(k) : k \in ControlKeys},
           \/ stage' = stage /\ known' = known
                /\ (stage \in {"accepted", "answered"} => control' = control)
           \/ stage' \notin {"switched", "accepted", "answered", "up"}
    PROVE  HandshakeIInv'
BY DEF HandshakeIInv, ends, Agree

\* Every step keeps the invariant.
LEMMA HandshakeStep ==
    ASSUME HandshakeIInv, [Next]_vars
    PROVE  HandshakeIInv'
<1>0. /\ control \in ControlKeys
      /\ known \in {Nothing} \cup {x25519_public(k) : k \in ControlKeys}
  BY DEF HandshakeIInv
<1>1. CASE connect
  BY <1>0, <1>1 DEF connect, HandshakeIInv, Agree
<1>2. CASE read_request
  <2>1. stage' \notin {"switched", "accepted", "answered", "up"}
    <3>1. ASSUME NEW k, recv(k) PROVE stage' \in {"refused", "head", "request"}
      BY <3>1 DEF recv, head_decided
    <3> QED
      BY <1>2, <3>1 DEF read_request, read_http_request, recv_fail
  <2> QED
    BY <1>0, <1>2, <2>1, EndsKeep DEF read_request
<1>3. CASE get_key
  BY <1>0, <1>3, EndsKeep DEF get_key, close
<1>4. CASE get_other \/ ts2021_refused \/ handshake_fails \/ send_fails
  BY <1>0, <1>4, EndsKeep, Zenon DEF get_other, ts2021_refused, handshake_fails, send_fails, close
<1>5. CASE ts2021
  <2>1. /\ stage' = "switched" /\ known # Nothing /\ client' = Offer(known)
        /\ control' = control /\ known' = known
    BY <1>5, Zenon DEF ts2021, Offer
  <2>2. init' \in {client'.msg} \cup altered(client'.msg) \cup {[client'.msg EXCEPT !.size = FALSE]}
    <3>1. ASSUME NEW v, NEW m
          PROVE  b64_decode(v, m) \subseteq {m} \cup altered(m) \cup {[m EXCEPT !.size = FALSE]}
      BY DEF b64_decode
    <3> QED
      BY <1>5, <3>1, Zenon DEF ts2021
  <2> QED
    BY <1>0, <2>1, <2>2 DEF HandshakeIInv, Agree
<1>6. CASE handshake
  <2>1. /\ stage = "switched" /\ server_accepts(control, init) /\ stage' = "accepted"
        /\ server' = noise_server_handshake(control, ServerEph, init)
        /\ control' = control /\ known' = known /\ client' = client
    BY <1>6 DEF handshake
  <2>2. /\ client = Offer(known)
        /\ init \in {Offer(known).msg} \cup altered(Offer(known).msg)
                     \cup {[Offer(known).msg EXCEPT !.size = FALSE]}
    BY <2>1 DEF HandshakeIInv
  <2>3. init = client.msg /\ known = x25519_public(control)
    BY <2>1, <2>2, AcceptedIs
  <2> QED
    BY <1>0, <2>1, <2>2, <2>3 DEF HandshakeIInv, Agree
<1>7. CASE respond
  BY <1>7 DEF respond, HandshakeIInv, Agree
<1>8. CASE finish
  <2>1. /\ known = x25519_public(control) /\ client = Offer(known)
        /\ server = noise_server_handshake(control, ServerEph, client.msg)
    BY <1>8, Zenon DEF finish, HandshakeIInv
  <2>2. PICK resp \in {server.msg} \cup altered(server.msg) :
            done' = noise_client_finish(client, resp)
    BY <1>8 DEF finish
  <2>3. /\ server' = server /\ control' = control /\ known' = known
        /\ stage' = IF done'.ok THEN "up" ELSE "lost"
    BY <1>8, SMTT(20) DEF finish
  <2>4. ASSUME done'.ok
        PROVE  /\ server.tx = done'.rx /\ server.rx = done'.tx /\ server.tx # server.rx
               /\ server.h = done'.h
               /\ server.peer = x25519_public(Machine) /\ server.version = Version
    BY <2>1, <2>2, <2>4, FinishAgrees
  <2> QED
    BY <1>0, <2>3, <2>4 DEF HandshakeIInv, Agree
<1>9. CASE import_state
  BY <1>0, <1>9, EndsKeep DEF import_state, http_vars
<1>10. CASE records(WriterNext) \/ records(ReaderNext)
  BY <1>0, <1>10, EndsKeep DEF records, http_vars
<1>11. CASE UNCHANGED vars
  BY <1>0, <1>11, EndsKeep DEF vars, http_vars
<1> QED
  BY <1>1, <1>2, <1>3, <1>4, <1>5, <1>6, <1>7, <1>8, <1>9, <1>10, <1>11 DEF Next

\* The invariant holds throughout.
LEMMA HandshakeInvariant == Spec => []HandshakeIInv
<1>1. Init => HandshakeIInv
  BY DEF Init, HandshakeIInv, Agree
<1> QED
  BY <1>1, HandshakeStep, PTL DEF Spec

\* Whatever is altered on the way and whichever key the server had when the
\* client asked for it, a connection that is up is one the two ends agree
\* about, for any private keys and versions.
THEOREM EndsAgree == Spec => []Agree
<1>1. HandshakeIInv => Agree
  BY DEF HandshakeIInv
<1> QED
  BY <1>1, HandshakeInvariant, PTL

\* noise_server_handshake accepts exactly the initiation that was sent and was
\* made for the key the server has: altered ones and those made for a key from
\* before an import_state are refused, and no other.
THEOREM HandshakeIsDecided == Spec => HandshakeDecides
<1>1. HandshakeIInv /\ [Next]_vars =>
          [(stage = "switched" /\ stage' # "switched")
               => (stage' = "accepted" <=> init = client.msg /\ known = x25519_public(control))]_vars
  <2> SUFFICES ASSUME HandshakeIInv, [Next]_vars, stage = "switched", stage' # "switched"
               PROVE  stage' = "accepted" <=> init = client.msg /\ known = x25519_public(control)
    BY SMTT(20)
  <2>1. handshake \/ handshake_fails
    BY DEF Next, vars, http_vars, connect, read_request, read_http_request, recv, recv_fail, get_key,
       get_other, ts2021_refused, ts2021, respond, send_fails, finish, import_state, records
  <2>2. /\ client = Offer(known)
        /\ init \in {Offer(known).msg} \cup altered(Offer(known).msg)
                     \cup {[Offer(known).msg EXCEPT !.size = FALSE]}
    BY DEF HandshakeIInv
  <2>3. stage' = "accepted" <=> server_accepts(control, init)
    BY <2>1 DEF handshake, handshake_fails, close
  <2>4. server_accepts(control, init) => init = client.msg /\ known = x25519_public(control)
    BY <2>2, AcceptedIs
  <2>5. init = client.msg /\ known = x25519_public(control) => server_accepts(control, init)
    BY <2>2, AcceptsOffer
  <2> QED
    BY <2>3, <2>4, <2>5
<1> QED
  BY <1>1, HandshakeInvariant, PTL DEF Spec, HandshakeDecides
=============================================================================
