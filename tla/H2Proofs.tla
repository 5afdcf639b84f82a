------------------------------ MODULE H2Proofs ------------------------------
(***************************************************************************)
(* Proofs about H2Session: what is sent on a stream is what was queued,    *)
(* the loop never waits with something to send, and streams end whole, for *)
(* any streams, windows and sizes.                                         *)
(***************************************************************************)
EXTENDS H2Session, TLAPS

\* The buffer of an open stream holds exactly the units not yet sent.
BufferOK(s) ==
    s \in open =>
        LET st == streams[s]
        IN  /\ st \in Stream
            /\ st.out_off <= Len(st.out)
            /\ Len(got[s]) + Len(st.out) - st.out_off = queued[s]
            /\ \A i \in st.out_off + 1 .. Len(st.out) :
                   st.out[i] = Len(got[s]) + i - st.out_off

\* The units sent are the first ones.
SentOK(s) ==
    /\ got[s] \in Seq(Nat) /\ queued[s] \in Nat
    /\ \A i \in 1..Len(got[s]) : got[s][i] = i

\* The states of a stream, of its data provider and of its entry in live.
ProviderOK(s) ==
    /\ state[s] \in {"idle", "open", "requested", "closed"}
    /\ window[s] \in Nat
    /\ s \in open <=> state[s] \in {"open", "requested"}
    /\ state[s] \in {"idle", "open"} => got[s] = <<>> /\ queued[s] = 0 /\ item[s] = "none"
    /\ s \in live => item[s] # "none"
    /\ state[s] = "requested" => item[s] \in {"ready", "deferred"}
    /\ s \in open /\ s \in live => streams[s].streaming /\ ~streams[s].ended
    /\ s \in open /\ item[s] = "deferred" => streams[s].out_off = Len(streams[s].out)
    /\ item[s] = "eof" => state[s] = "closed" /\ s \notin live /\ Len(got[s]) = queued[s]
    /\ phase = "poll" /\ state[s] = "requested" => window[s] = 0 \/ item[s] = "deferred"

H2IInv ==
    /\ streams = [s \in open |-> streams[s]] /\ open \subseteq Streams
    /\ item = [s \in Streams |-> item[s]] /\ state = [s \in Streams |-> state[s]]
    /\ window = [s \in Streams |-> window[s]] /\ queued = [s \in Streams |-> queued[s]]
    /\ got = [s \in Streams |-> got[s]]
    /\ \A s \in Streams : BufferOK(s) /\ SentOK(s) /\ ProviderOK(s)

-----------------------------------------------------------------------------
\* A sequence's length and elements.
LEMMA SeqParts ==
    ASSUME NEW S, NEW s \in Seq(S)
    PROVE  /\ Len(s) \in Nat /\ DOMAIN s = 1..Len(s) /\ s \in [1..Len(s) -> S]
           /\ \A i \in 1..Len(s) : s[i] \in S
OBVIOUS

\* Sequences with equal lengths and elements are equal.
LEMMA SameSeq ==
    ASSUME NEW S, NEW s \in Seq(S), NEW t \in Seq(S), Len(s) = Len(t),
           \A i \in 1..Len(s) : s[i] = t[i]
    PROVE  s = t
OBVIOUS

\* A part of a sequence.
LEMMA Cut ==
    ASSUME NEW S, NEW s \in Seq(S), NEW m \in Nat \ {0}, NEW n \in Nat, n <= Len(s)
    PROVE  /\ SubSeq(s, m, n) \in Seq(S)
           /\ Len(SubSeq(s, m, n)) = IF m <= n THEN n - m + 1 ELSE 0
           /\ \A i \in 1..(n - m + 1) : SubSeq(s, m, n)[i] = s[m + i - 1]
OBVIOUS

\* Only the empty sequence has length 0.
LEMMA EmptyLength ==
    ASSUME NEW S, NEW s \in Seq(S)
    PROVE  s = <<>> <=> Len(s) = 0
OBVIOUS

\* A piece of a buffer, from behind an offset.
LEMMA Piece ==
    ASSUME NEW b \in Seq(Nat), NEW o \in Nat, NEW n \in Nat, o + n <= Len(b)
    PROVE  /\ SubSeq(b, o + 1, o + n) \in Seq(Nat)
           /\ Len(SubSeq(b, o + 1, o + n)) = n
           /\ \A i \in 1..n : SubSeq(b, o + 1, o + n)[i] = b[o + i]
<1>1. \A i \in o + 1 .. o + n : b[i] \in Nat
  OBVIOUS
<1>2. /\ SubSeq(b, o + 1, o + n) \in Seq(Nat)
      /\ Len(SubSeq(b, o + 1, o + n)) = IF o + 1 <= o + n THEN o + n - (o + 1) + 1 ELSE 0
      /\ \A i \in 1 .. o + n - (o + 1) + 1 : SubSeq(b, o + 1, o + n)[i] = b[o + 1 + i - 1]
  BY <1>1, Cut
<1>3. \A i \in 1..n : o + 1 + i - 1 = o + i
  OBVIOUS
<1>4. o + n - (o + 1) + 1 = n /\ (~(o + 1 <= o + n) => n = 0)
  OBVIOUS
<1> QED BY <1>2, <1>3, <1>4

\* What data_read leaves behind, hands over and answers.
LEMMA DataRead ==
    ASSUME NEW st \in Stream, NEW length \in Nat, length > 0, st.out_off <= Len(st.out)
    PROVE  LET r == data_read(st, length)
               n == Len(r.data)
           IN  /\ r.st \in Stream /\ r.data \in Seq(Nat) /\ n <= length
               /\ r.flag \in {"eof", "deferred", "ready"}
               /\ r.st.streaming = st.streaming /\ r.st.ended = st.ended
               /\ r.st.out_off <= Len(r.st.out)
               /\ Len(r.st.out) - r.st.out_off = Len(st.out) - st.out_off - n
               /\ \A i \in 1..n : r.data[i] = st.out[st.out_off + i]
               /\ \A i \in r.st.out_off + 1 .. Len(r.st.out) :
                      r.st.out[i] = st.out[i - r.st.out_off + st.out_off + n]
               /\ r.flag = "eof" => r.st.out_off = Len(r.st.out) /\ ~(st.streaming /\ ~st.ended)
               /\ r.flag = "deferred" => r.st.out_off = Len(r.st.out)
<1> DEFINE left == Len(st.out) - st.out_off
           n == min(length, left)
           last == st.out_off + n >= Len(st.out)
           out == IF last THEN <<>> ELSE st.out
           off == IF last THEN 0 ELSE st.out_off + n
           r == data_read(st, length)
<1>1. st.out \in Seq(Nat) /\ st.out_off \in Nat /\ left \in Nat
      /\ st.streaming \in BOOLEAN /\ st.ended \in BOOLEAN
  BY DEF Stream
<1>2. n \in Nat /\ n <= length /\ n <= left /\ (n = length \/ n = left)
  BY <1>1 DEF min
<1> HIDE DEF n
<1>3. /\ SubSeq(st.out, st.out_off + 1, st.out_off + n) \in Seq(Nat)
      /\ Len(SubSeq(st.out, st.out_off + 1, st.out_off + n)) = n
      /\ \A i \in 1..n : SubSeq(st.out, st.out_off + 1, st.out_off + n)[i] = st.out[st.out_off + i]
  <2>1. st.out_off + n <= Len(st.out)
    BY <1>1, <1>2
  <2> QED BY <1>1, <1>2, <2>1, Piece, Zenon
<1>4. r.data = SubSeq(st.out, st.out_off + 1, st.out_off + n)
  BY Zenon DEF data_read, n
<1>5. r.st = [out |-> out, out_off |-> off, streaming |-> st.streaming, ended |-> st.ended]
  BY <1>1, Zenon DEF data_read, n, Stream
<1>6. r.flag = IF last /\ ~(st.streaming /\ ~st.ended) THEN "eof"
               ELSE IF n = 0 THEN "deferred" ELSE "ready"
  BY DEF data_read, n
<1>7. out \in Seq(Nat) /\ off \in Nat /\ off <= Len(out) /\ Len(out) - off = left - n
      /\ (last => off = Len(out))
      /\ \A i \in off + 1 .. Len(out) : out[i] = st.out[i - off + st.out_off + n]
  <2>1. Len(<<>>) = 0 /\ <<>> \in Seq(Nat)
    OBVIOUS
  <2>2. CASE last
    BY <1>1, <1>2, <2>1, <2>2
  <2>3. CASE ~last
    <3>1. out = st.out /\ off = st.out_off + n /\ ~(st.out_off + n >= Len(st.out)) /\ ~last
      BY <2>3
    <3> HIDE DEF out, off, last
    <3>2. off \in Nat /\ off <= Len(st.out)
      BY <1>1, <1>2, <3>1
    <3>3. Len(st.out) - off = left - n
      BY <1>1, <1>2, <3>1
    <3>4. \A i \in off + 1 .. Len(st.out) : i - off + st.out_off + n = i
      BY <1>1, <1>2, <3>1, SMTT(20)
    <3> QED BY <1>1, <3>1, <3>2, <3>3, <3>4, Zenon
  <2> QED BY <2>2, <2>3
<1>8. n = 0 => last
  BY <1>1, <1>2
<1> HIDE DEF r, out, off, last
<1>9. r.st \in Stream /\ r.st.out = out /\ r.st.out_off = off
      /\ r.st.streaming = st.streaming /\ r.st.ended = st.ended
  BY <1>1, <1>5, <1>7 DEF Stream
<1>10. /\ r.flag \in {"eof", "deferred", "ready"}
       /\ r.flag = "eof" => last /\ ~(st.streaming /\ ~st.ended)
       /\ r.flag = "deferred" => last
  BY <1>6, <1>8
<1> QED BY <1>1, <1>2, <1>3, <1>4, <1>7, <1>9, <1>10, Zenon DEF r

-----------------------------------------------------------------------------
StreamOK(s) == BufferOK(s) /\ SentOK(s) /\ ProviderOK(s)

\* A step keeps what it says of a stream that it leaves alone.
LEMMA Untouched ==
    ASSUME NEW s, StreamOK(s),
           state'[s] = state[s], item'[s] = item[s], window'[s] = window[s],
           queued'[s] = queued[s], got'[s] = got[s],
           s \in open' <=> s \in open, s \in open => streams'[s] = streams[s],
           s \in live' <=> s \in live, phase' = "poll" => phase = "poll"
    PROVE  StreamOK(s)'
<1>1. BufferOK(s)'
  BY DEF StreamOK, BufferOK
<1>2. SentOK(s)'
  BY DEF StreamOK, SentOK
<1>3. ProviderOK(s)'
  BY DEF StreamOK, ProviderOK
<1> QED BY <1>1, <1>2, <1>3 DEF StreamOK

\* poll, received, and the failures: only the phase changes.
LEMMA PhaseKeeps ==
    ASSUME H2IInv, UNCHANGED <<state, streams, item, window, live, queued, got>>,
           phase' = "poll" => phase = "poll"
    PROVE  H2IInv'
<1>1. ASSUME NEW s \in Streams PROVE StreamOK(s)'
  BY <1>1, Untouched DEF H2IInv, StreamOK, open
<1> QED BY <1>1 DEF H2IInv, StreamOK, open

\* The end of a round of sends.
LEMMA SentKeeps ==
    ASSUME H2IInv, sent
    PROVE  H2IInv'
<1>1. CASE phase' # "poll"
  BY <1>1, PhaseKeeps DEF sent
<1>2. CASE phase' = "poll"
  <2>1. ASSUME NEW s \in Streams PROVE StreamOK(s)'
    <3>1. StreamOK(s) /\ ~sendable(s)
      BY <1>2, <2>1 DEF sent, H2IInv, StreamOK
    <3>2. BufferOK(s)' /\ SentOK(s)'
      BY <3>1 DEF sent, StreamOK, BufferOK, SentOK, open
    <3>3. ProviderOK(s)'
      BY <3>1 DEF sent, StreamOK, ProviderOK, sendable, open
    <3> QED BY <3>2, <3>3 DEF StreamOK
  <2> QED BY <2>1 DEF H2IInv, StreamOK, sent, open
<1> QED BY <1>1, <1>2

\* A request begins with an empty buffer, on a stream that was never used.
LEMMA BeginKeeps ==
    ASSUME H2IInv, NEW x \in Streams, on_begin_headers(x)
    PROVE  H2IInv'
<1>1. open' = open \cup {x} /\ streams'[x] = NewStream
      /\ \A s \in open : s # x => streams'[s] = streams[s]
  BY DEF on_begin_headers, open
<1>2. ASSUME NEW s \in Streams, s # x PROVE StreamOK(s)'
  BY <1>1, <1>2, Untouched, Zenon DEF on_begin_headers, H2IInv, StreamOK
<1>3. StreamOK(x)'
  <2>1. ProviderOK(x) /\ SentOK(x) /\ state[x] = "idle" /\ state'[x] = "open"
        /\ got[x] = <<>> /\ queued[x] = 0 /\ item[x] = "none"
    BY Zenon DEF on_begin_headers, H2IInv, ProviderOK
  <2>2. Len(<<>>) = 0 /\ <<>> \in Seq(Nat)
    OBVIOUS
  <2>3. NewStream \in Stream /\ NewStream.out = <<>> /\ NewStream.out_off = 0
    BY <2>2 DEF Stream, NewStream
  <2>4. BufferOK(x)'
    BY <1>1, <2>1, <2>2, <2>3 DEF on_begin_headers, BufferOK
  <2>5. SentOK(x)' /\ ProviderOK(x)'
    BY <1>1, <2>1, <2>3 DEF on_begin_headers, SentOK, ProviderOK
  <2> QED BY <2>4, <2>5 DEF StreamOK
<1> QED BY <1>1, <1>2, <1>3, Zenon DEF on_begin_headers, H2IInv, StreamOK, open

\* A reset drops the buffer.
LEMMA CloseKeeps ==
    ASSUME H2IInv, NEW x \in Streams, on_close(x)
    PROVE  H2IInv'
<1>1. open' = open \ {x} /\ \A s \in open \ {x} : streams'[s] = streams[s]
  BY DEF on_close, erase, open
<1>2. ASSUME NEW s \in Streams, s # x PROVE StreamOK(s)'
  BY <1>1, <1>2, Untouched, Zenon DEF on_close, H2IInv, StreamOK
<1>3. StreamOK(x)'
  <2>1. StreamOK(x) /\ state'[x] = "closed" /\ x \notin open' /\ item[x] # "eof"
    BY <1>1 DEF on_close, H2IInv, StreamOK, ProviderOK
  <2>2. BufferOK(x)' /\ SentOK(x)'
    BY <2>1 DEF on_close, StreamOK, BufferOK, SentOK
  <2>3. ProviderOK(x)'
    BY <2>1 DEF on_close, StreamOK, ProviderOK
  <2> QED BY <2>2, <2>3 DEF StreamOK
<1> QED BY <1>1, <1>2, <1>3, Zenon DEF on_close, erase, H2IInv, StreamOK, open

\* The window opens, and the loop is not in poll.
LEMMA WindowKeeps ==
    ASSUME H2IInv, NEW x \in Streams, window_update(x)
    PROVE  H2IInv'
<1>1. ASSUME NEW s \in Streams, s # x PROVE StreamOK(s)'
  BY <1>1, Untouched DEF window_update, H2IInv, StreamOK, open
<1>2. StreamOK(x)'
  <2>1. StreamOK(x) /\ window'[x] \in Nat /\ phase' # "poll"
    BY H2Assumption DEF window_update, H2IInv, StreamOK
  <2>2. BufferOK(x)' /\ SentOK(x)'
    BY <2>1 DEF window_update, StreamOK, BufferOK, SentOK, open
  <2>3. ProviderOK(x)'
    BY <2>1 DEF window_update, StreamOK, ProviderOK, open
  <2> QED BY <2>2, <2>3 DEF StreamOK
<1> QED BY <1>1, <1>2, SMTT(20) DEF window_update, H2IInv, StreamOK, open

\* The body of a response is its units from the first, all unsent.
LEMMA FrameKeeps ==
    ASSUME H2IInv, NEW x \in Streams, on_frame(x)
    PROVE  H2IInv'
<1>1. PICK n \in 0..MaxUnits :
           /\ reply(x, n) \/ (n > 0 /\ reply_stream_start(x, n))
           /\ queued' = [queued EXCEPT ![x] = n]
  BY Zenon DEF on_frame
<1>2. MaxUnits \in Nat /\ n \in Nat
  BY H2Assumption
<1>3. StreamOK(x) /\ x \in open /\ x \notin live /\ state'[x] = "requested"
      /\ item'[x] = "ready" /\ got[x] = <<>> /\ queued'[x] = n
  BY <1>1, Zenon DEF on_frame, H2IInv, StreamOK, ProviderOK
<1> DEFINE b == units(0, n)
<1>4. b \in Seq(Nat) /\ Len(b) = n /\ \A i \in 1..n : b[i] = i
  BY <1>2 DEF units
<1> HIDE DEF b
<1>5. PICK z \in BOOLEAN :
           /\ streams' = [streams EXCEPT ![x] =
                  [out |-> b, out_off |-> 0, streaming |-> z, ended |-> ~z]]
           /\ live' = IF z THEN live \cup {x} ELSE live
  <2>1. CASE reply(x, n)
    <3>1. /\ streams' = [streams EXCEPT ![x] =
                 [out |-> b, out_off |-> 0, streaming |-> FALSE, ended |-> ~FALSE]]
          /\ live' = IF FALSE THEN live \cup {x} ELSE live
      BY <2>1, Zenon DEF reply, b
    <3> QED BY <3>1, Zenon
  <2>2. CASE reply_stream_start(x, n)
    <3>1. /\ streams' = [streams EXCEPT ![x] =
                 [out |-> b, out_off |-> 0, streaming |-> TRUE, ended |-> ~TRUE]]
          /\ live' = IF TRUE THEN live \cup {x} ELSE live
      BY <2>2, Zenon DEF reply_stream_start, b
    <3> QED BY <3>1, Zenon
  <2> QED BY <1>1, <2>1, <2>2
<1> DEFINE st == [out |-> b, out_off |-> 0, streaming |-> z, ended |-> ~z]
<1>6. open' = open /\ streams'[x] = st /\ \A s \in open : s # x => streams'[s] = streams[s]
  BY <1>3, <1>5 DEF open
<1>7. st \in Stream /\ st.out = b /\ st.out_off = 0 /\ st.streaming = z /\ st.ended = ~z
  BY <1>4 DEF Stream
<1> HIDE DEF st
<1>8. ASSUME NEW s \in Streams, s # x PROVE StreamOK(s)'
  BY <1>1, <1>5, <1>6, <1>8, Untouched, SMTT(20) DEF on_frame, H2IInv, StreamOK
<1>9. StreamOK(x)'
  <2>1. got'[x] = <<>> /\ Len(<<>>) = 0 /\ <<>> \in Seq(Nat)
    BY <1>3 DEF on_frame
  <2>2. BufferOK(x)'
    BY <1>2, <1>3, <1>4, <1>6, <1>7, <2>1 DEF BufferOK
  <2>3. SentOK(x)'
    BY <1>2, <1>3, <2>1 DEF SentOK
  <2>4. ProviderOK(x)'
    BY <1>3, <1>5, <1>6, <1>7, Zenon DEF on_frame, StreamOK, ProviderOK
  <2> QED BY <2>2, <2>3, <2>4 DEF StreamOK
<1>10. H2IInv /\ streams' = [s \in open |-> streams'[s]]
  BY <1>3, <1>5, Zenon DEF H2IInv, open
<1> QED BY <1>1, <1>6, <1>8, <1>9, <1>10, Zenon DEF on_frame, H2IInv, StreamOK

\* Appending to what was sent.
LEMMA Append1 ==
    ASSUME NEW g \in Seq(Nat), NEW d \in Seq(Nat)
    PROVE  /\ g \o d \in Seq(Nat) /\ Len(g \o d) = Len(g) + Len(d)
           /\ \A i \in 1..Len(g) : (g \o d)[i] = g[i]
           /\ \A i \in Len(g) + 1 .. Len(g) + Len(d) : (g \o d)[i] = d[i - Len(g)]
  OBVIOUS

\* A DATA frame moves units from the front of the buffer to the client; the
\* stream ends only when its buffer is empty.
LEMMA SendKeeps ==
    ASSUME H2IInv, NEW x \in Streams, send_data(x)
    PROVE  H2IInv'
<1> DEFINE st == streams[x]
           len == min(Chunk, window[x])
           r == data_read(st, len)
           n == Len(r.data)
           g == got[x]
<1>1. StreamOK(x) /\ x \in open /\ item[x] = "ready" /\ window[x] \in Nat /\ window[x] > 0
      /\ phase # "poll" /\ phase' = phase
  BY Zenon DEF send_data, sendable, sending, H2IInv, StreamOK, ProviderOK
<1>2. Chunk \in Nat /\ Chunk > 0
  BY H2Assumption
<1>3. len \in Nat /\ len > 0 /\ len <= window[x]
  BY <1>1, <1>2 DEF min
<1>4. st \in Stream /\ st.out_off <= Len(st.out) /\ st.out_off \in Nat /\ st.out \in Seq(Nat)
      /\ Len(g) + Len(st.out) - st.out_off = queued[x]
      /\ \A i \in st.out_off + 1 .. Len(st.out) : st.out[i] = Len(g) + i - st.out_off
  BY <1>1 DEF StreamOK, BufferOK, Stream
<1>5. g \in Seq(Nat) /\ queued[x] \in Nat /\ \A i \in 1..Len(g) : g[i] = i
  BY <1>1 DEF StreamOK, SentOK
<1>6. got' = [got EXCEPT ![x] = g \o r.data] /\ window' = [window EXCEPT ![x] = window[x] - n]
      /\ item' = [item EXCEPT ![x] = r.flag]
      /\ IF r.flag = "eof"
         THEN streams' = erase(x) /\ state' = [state EXCEPT ![x] = "closed"]
         ELSE streams' = [streams EXCEPT ![x] = r.st] /\ UNCHANGED state
  BY DEF send_data
<1> HIDE DEF len
<1>7. /\ r.st \in Stream /\ r.data \in Seq(Nat) /\ n <= len
      /\ r.flag \in {"eof", "deferred", "ready"}
      /\ r.st.streaming = st.streaming /\ r.st.ended = st.ended
      /\ r.st.out_off <= Len(r.st.out)
      /\ Len(r.st.out) - r.st.out_off = Len(st.out) - st.out_off - n
      /\ \A i \in 1..n : r.data[i] = st.out[st.out_off + i]
      /\ \A i \in r.st.out_off + 1 .. Len(r.st.out) :
             r.st.out[i] = st.out[i - r.st.out_off + st.out_off + n]
      /\ r.flag = "eof" => r.st.out_off = Len(r.st.out) /\ ~(st.streaming /\ ~st.ended)
      /\ r.flag = "deferred" => r.st.out_off = Len(r.st.out)
  BY <1>3, <1>4, DataRead, Zenon
<1> HIDE DEF r, st, g
<1>8. n \in Nat /\ r.st.out_off \in Nat /\ r.st.out \in Seq(Nat)
  BY <1>7 DEF Stream
<1>9. /\ got'[x] = g \o r.data /\ got'[x] \in Seq(Nat) /\ Len(got'[x]) = Len(g) + n
      /\ \A i \in 1..Len(g) : got'[x][i] = g[i]
      /\ \A i \in Len(g) + 1 .. Len(g) + n : got'[x][i] = r.data[i - Len(g)]
  <2>1. got'[x] = g \o r.data
    BY <1>6 DEF H2IInv
  <2> QED BY <1>5, <1>7, <2>1, Append1
<1>10. item'[x] = r.flag /\ window'[x] = window[x] - n /\ queued' = queued /\ live' = live
       /\ window'[x] \in Nat
  <2>1. item'[x] = r.flag /\ window'[x] = window[x] - n
    BY <1>6 DEF H2IInv
  <2>2. queued' = queued /\ live' = live
    BY Zenon DEF send_data
  <2> QED
    BY ONLY <1>1, <1>3, <1>7, <1>8, <2>1, <2>2
<1> DEFINE G == Len(g)
           o == st.out_off
           L == Len(st.out)
           p == r.st.out_off
           M == Len(r.st.out)
<1>11. /\ G \in Nat /\ o \in Nat /\ L \in Nat /\ p \in Nat /\ M \in Nat /\ n \in Nat
       /\ o <= L /\ p <= M /\ M - p = L - o - n /\ G + L - o = queued[x]
       /\ Len(got'[x]) = G + n /\ n <= L - o
  <2>1. G \in Nat /\ L \in Nat /\ M \in Nat
    BY <1>4, <1>5, <1>8
  <2>2. o \in Nat /\ p \in Nat /\ n \in Nat /\ o <= L /\ p <= M /\ M - p = L - o - n
        /\ G + L - o = queued[x] /\ Len(got'[x]) = G + n
    BY <1>4, <1>7, <1>8, <1>9
  <2> HIDE DEF n, G, o, L, p, M
  <2> QED BY <2>1, <2>2
<1> HIDE DEF n
<1>12. SentOK(x)'
  <2>1. ASSUME NEW i \in Len(g) + 1 .. Len(g) + n PROVE got'[x][i] = i
    <3>1. i \in G + 1 .. G + n /\ i - G \in 1..n /\ G \in Nat
      BY <1>11, <2>1
    <3>2. got'[x][i] = st.out[st.out_off + (i - Len(g))]
      BY <1>7, <1>9, <2>1, <3>1, Zenon DEF n
    <3>3. o + (i - G) \in o + 1 .. L /\ G + (o + (i - G)) - o = i
      <4> HIDE DEF G, o, L, p, M
      <4> QED BY <1>11, <3>1
    <3>4. st.out[st.out_off + (i - Len(g))] = Len(g) + (st.out_off + (i - Len(g))) - st.out_off
      BY <1>4, <3>3, Zenon
    <3> QED BY <3>2, <3>3, <3>4
  <2>2. \A i \in 1 .. Len(g) + n : got'[x][i] = i
    BY <1>5, <1>8, <1>9, <2>1
  <2> QED BY <1>5, <1>9, <1>10, <2>2 DEF SentOK
<1>13. CASE r.flag = "eof"
  <2>1. open' = open \ {x} /\ (\A s \in open \ {x} : streams'[s] = streams[s])
        /\ streams' = [s \in open' |-> streams'[s]]
        /\ state' = [state EXCEPT ![x] = "closed"]
    BY <1>6, <1>13 DEF erase, open
  <2>2. x \notin live
    BY <1>1, <1>7, <1>13 DEF StreamOK, ProviderOK, st
  <2>3. Len(got'[x]) = queued'[x]
    <3>1. p = M
      BY <1>7, <1>13
    <3> HIDE DEF G, o, L, p, M
    <3>2. G + n = queued[x]
      BY <1>11, <3>1
    <3> QED BY <1>10, <1>11, <3>2
  <2>4. BufferOK(x)' /\ ProviderOK(x)'
    BY <1>1, <1>10, <1>13, <2>1, <2>2, <2>3 DEF BufferOK, ProviderOK, H2IInv
  <2>5. ASSUME NEW s \in Streams, s # x PROVE StreamOK(s)'
    BY <1>1, <1>6, <1>10, <2>1, <2>5, Untouched, Zenon DEF H2IInv, StreamOK
  <2> QED BY <1>6, <1>10, <1>12, <2>1, <2>4, <2>5, Zenon DEF H2IInv, StreamOK
<1>14. CASE r.flag # "eof"
  <2>1. open' = open /\ streams'[x] = r.st /\ (\A s \in open : s # x => streams'[s] = streams[s])
        /\ streams' = [s \in open |-> streams'[s]] /\ state' = state
    BY <1>1, <1>6, <1>14 DEF open, H2IInv
  <2>2. BufferOK(x)'
    <3>1. Len(got'[x]) + Len(r.st.out) - r.st.out_off = queued'[x]
      <4> SUFFICES Len(got'[x]) + M - p = queued[x]
        BY <1>10
      <4> HIDE DEF G, o, L, p, M
      <4> QED BY <1>11
    <3>2. ASSUME NEW i \in r.st.out_off + 1 .. Len(r.st.out)
          PROVE  r.st.out[i] = Len(got'[x]) + i - r.st.out_off
      <4>1. i - p + o + n \in o + 1 .. L /\ G + (i - p + o + n) - o = G + n + i - p
        <5>1. i \in p + 1 .. M
          BY <3>2
        <5> HIDE DEF G, o, L, p, M
        <5> QED BY <1>11, <5>1
      <4>2. r.st.out[i] = Len(g) + (i - r.st.out_off + st.out_off + n) - st.out_off
        BY <1>4, <1>7, <3>2, <4>1, Zenon
      <4> QED BY <1>11, <4>1, <4>2
    <3> QED BY <1>7, <2>1, <3>1, <3>2 DEF BufferOK
  <2>3. ProviderOK(x)'
    <3>1. state[x] = "requested"
      BY <1>1 DEF StreamOK, ProviderOK
    <3>2. x \in live => st.streaming /\ ~st.ended
      BY <1>1 DEF StreamOK, ProviderOK, st
    <3> QED BY <1>1, <1>7, <1>10, <1>14, <2>1, <3>1, <3>2 DEF ProviderOK
  <2>4. ASSUME NEW s \in Streams, s # x PROVE StreamOK(s)'
    BY <1>1, <1>6, <1>10, <2>1, <2>4, Untouched, Zenon DEF H2IInv, StreamOK
  <2> QED BY <1>6, <1>10, <1>12, <2>1, <2>2, <2>3, <2>4, Zenon DEF H2IInv, StreamOK
<1> QED BY <1>13, <1>14

\* push_data appends the next unit to the buffer, and wakes the provider.
LEMMA TickKeeps ==
    ASSUME H2IInv, NEW S \in SUBSET live, on_tick(S)
    PROVE  H2IInv'
<1>1. open' = open
      /\ \A s \in open : streams'[s] =
             IF s \in S THEN [streams[s] EXCEPT !.out = @ \o units(queued[s], 1)] ELSE streams[s]
  BY DEF on_tick, push_data, open
<1>2. ASSUME NEW s \in Streams, s \notin S \cap open PROVE StreamOK(s)'
  BY <1>1, <1>2, Untouched, Zenon DEF on_tick, push_data, H2IInv, StreamOK
<1>3. ASSUME NEW s \in Streams, s \in S, s \in open PROVE StreamOK(s)'
  <2> DEFINE st == streams[s]
             u == units(queued[s], 1)
             b == st.out \o u
             o == st.out_off
             L == Len(st.out)
             G == Len(got[s])
             q == queued[s]
  <2>1. StreamOK(s) /\ s \in live /\ queued'[s] = q + 1 /\ got'[s] = got[s]
        /\ state'[s] = state[s] /\ window'[s] = window[s] /\ live' = live
        /\ phase' # "poll" /\ item'[s] = IF item[s] = "deferred" THEN "ready" ELSE item[s]
    BY <1>3 DEF on_tick, push_data, H2IInv, StreamOK
  <2>2. q \in Nat /\ got[s] \in Seq(Nat) /\ G \in Nat
        /\ \A i \in 1..G : got[s][i] = i
    BY <2>1 DEF StreamOK, SentOK
  <2>3. st \in Stream /\ o <= L /\ G + L - o = q /\ \A i \in o + 1 .. L : st.out[i] = G + i - o
    BY <1>3, <2>1 DEF StreamOK, BufferOK
  <2>4. st.out \in Seq(Nat) /\ o \in Nat /\ L \in Nat
    BY <2>3 DEF Stream
  <2>5. u \in Seq(Nat) /\ Len(u) = 1 /\ u[1] = q + 1
    BY <2>2 DEF units
  <2> HIDE DEF u
  <2>6. /\ b \in Seq(Nat) /\ Len(b) = L + 1
        /\ \A i \in 1..L : b[i] = st.out[i]
        /\ b[L + 1] = q + 1
    <3>1. /\ b \in Seq(Nat) /\ Len(b) = L + Len(u)
          /\ \A i \in 1..L : b[i] = st.out[i]
          /\ \A i \in L + 1 .. L + Len(u) : b[i] = u[i - L]
      BY <2>4, <2>5, Append1, Zenon
    <3>2. L + 1 \in L + 1 .. L + Len(u) /\ (L + 1) - L = 1
      BY <2>4, <2>5
    <3> QED BY <2>5, <3>1, <3>2
  <2>7. streams'[s] = [out |-> b, out_off |-> o, streaming |-> st.streaming, ended |-> st.ended]
    <3>1. streams'[s] = [st EXCEPT !.out = b]
      BY <1>1, <1>3, Zenon DEF u
    <3> QED BY <2>3, <3>1, Zenon DEF Stream
  <2> HIDE DEF b
  <2>8. streams'[s] \in Stream /\ streams'[s].out = b /\ streams'[s].out_off = o
        /\ streams'[s].streaming = st.streaming /\ streams'[s].ended = st.ended
    BY <2>3, <2>4, <2>6, <2>7 DEF Stream
  <2>9. BufferOK(s)'
    <3>1. o <= L + 1 /\ G + (L + 1) - o = q + 1 /\ G + (L + 1) - o \in Nat
          /\ \A i \in o + 1 .. L + 1 : i = L + 1 \/ (i \in 1..L /\ i \in o + 1 .. L)
      <4>1. o \in Nat /\ L \in Nat /\ G \in Nat /\ q \in Nat /\ o <= L /\ G + L - o = q
        BY <2>2, <2>3, <2>4
      <4> HIDE DEF o, L, G, q
      <4> QED BY <4>1
    <3>2. \A i \in o + 1 .. L + 1 : b[i] = G + i - o
      BY <2>3, <2>6, <3>1, Zenon
    <3> QED BY <2>1, <2>6, <2>8, <3>1, <3>2 DEF BufferOK
  <2>10. SentOK(s)'
    BY <2>1, <2>2 DEF SentOK
  <2>11. ProviderOK(s)'
    BY <1>1, <1>3, <2>1, <2>8 DEF StreamOK, ProviderOK
  <2> QED BY <2>9, <2>10, <2>11 DEF StreamOK
<1> QED BY <1>1, <1>2, <1>3 DEF on_tick, push_data, H2IInv, StreamOK, open

\* The initial states satisfy the invariant.
LEMMA H2InitHolds ==
    ASSUME Init
    PROVE  H2IInv
<1>1. open = {} /\ Window \in Nat /\ Len(<<>>) = 0 /\ <<>> \in Seq(Nat)
  BY H2Assumption DEF Init, open
<1>2. ASSUME NEW s \in Streams PROVE StreamOK(s)
  BY <1>1 DEF Init, StreamOK, BufferOK, SentOK, ProviderOK
<1> QED BY <1>1, <1>2 DEF Init, H2IInv, StreamOK, open

\* Every step of run(), of the handlers and of nghttp2 keeps it.
LEMMA H2Inductive ==
    ASSUME H2IInv, [Next]_vars
    PROVE  H2IInv'
<1>1. CASE poll \/ received \/ UNCHANGED vars
  BY <1>1, PhaseKeeps DEF poll, received, vars
<1>2. ASSUME NEW s \in Streams,
             on_begin_headers(s) \/ on_frame(s) \/ on_close(s) \/ window_update(s) \/ send_data(s)
      PROVE  H2IInv'
  BY <1>2, BeginKeeps, FrameKeeps, CloseKeeps, WindowKeeps, SendKeeps
<1>3. CASE sent
  BY <1>3, SentKeeps
<1>4. ASSUME NEW S \in SUBSET live, on_tick(S) PROVE H2IInv'
  BY <1>4, TickKeeps
<1> QED BY <1>1, <1>2, <1>3, <1>4 DEF Next

\* Two sequences of the same length with the same units.
LEMMA SameUnits ==
    ASSUME NEW a \in Seq(Nat), NEW n \in Nat, Len(a) = n, \A i \in 1..n : a[i] = i
    PROVE  a = units(0, n)
<1>1. units(0, n) \in Seq(Nat) /\ Len(units(0, n)) = n /\ \A i \in 1..n : units(0, n)[i] = i
  BY DEF units
<1> QED BY <1>1, SameSeq

\* The invariant holds throughout.
LEMMA H2Invariant == Spec => []H2IInv
  BY H2InitHolds, H2Inductive, PTL DEF Spec

\* The sequence sent followed by the sequence still buffered.
LEMMA InOrderHolds ==
    ASSUME H2IInv
    PROVE  InOrder
<1> SUFFICES ASSUME NEW s \in open PROVE got[s] \o unread(streams[s]) = units(0, queued[s])
  BY Zenon DEF InOrder
<1> DEFINE out == streams[s].out
           o == streams[s].out_off
           L == Len(out)
           G == Len(got[s])
           n == L - o
           d == SubSeq(out, o + 1, o + n)
<1>1. s \in Streams /\ BufferOK(s) /\ SentOK(s)
  BY DEF H2IInv
<1>2. got[s] \in Seq(Nat) /\ G \in Nat /\ queued[s] \in Nat /\ \A i \in 1..G : got[s][i] = i
  BY <1>1 DEF SentOK
<1>3. out \in Seq(Nat) /\ L \in Nat /\ o \in Nat /\ o <= L /\ G + L - o = queued[s]
      /\ \A i \in o + 1 .. L : out[i] = G + i - o
  BY <1>1 DEF BufferOK, Stream
<1> HIDE DEF out, o
<1>4. n \in Nat /\ o + n = L /\ G + n = queued[s]
  <2> HIDE DEF L, G
  <2> QED BY <1>2, <1>3
<1>5. unread(streams[s]) = d
  BY <1>4, Zenon DEF unread, out, o
<1> HIDE DEF L, n
<1>6. d \in Seq(Nat) /\ Len(d) = n /\ \A i \in 1..n : d[i] = out[o + i]
  <2>1. out \in Seq(Nat) /\ o \in Nat /\ n \in Nat /\ o + n <= Len(out)
    BY <1>3, <1>4 DEF L
  <2> QED BY <2>1, Piece, Zenon
<1>7. \A i \in 1..n : d[i] = G + i
  <2>1. \A i \in 1..n : o + i \in o + 1 .. L /\ G + (o + i) - o = G + i
    BY <1>2, <1>3, <1>4, SMTT(20)
  <2> QED BY <1>3, <1>6, <2>1
<1> HIDE DEF d
<1>8. /\ got[s] \o d \in Seq(Nat) /\ Len(got[s] \o d) = G + n
      /\ \A i \in 1..G : (got[s] \o d)[i] = got[s][i]
      /\ \A i \in G + 1 .. G + n : (got[s] \o d)[i] = d[i - G]
  BY <1>2, <1>6, Append1, Zenon
<1> HIDE DEF G
<1>9. \A i \in 1 .. G + n : (got[s] \o d)[i] = i
  <2>1. \A i \in G + 1 .. G + n : i - G \in 1..n /\ G + (i - G) = i
    BY <1>2, <1>4
  <2>2. \A i \in 1 .. G + n : i \in 1..G \/ i \in G + 1 .. G + n
    BY <1>2, <1>4
  <2> QED BY <1>2, <1>7, <1>8, <2>1, <2>2, SMTT(20)
<1> QED BY <1>2, <1>4, <1>5, <1>8, <1>9, SameUnits, Zenon

\* What TypeOK says beyond H2IInv: the windows never exceed the initial one,
\* and no stream queues more than its bound.
BoundsOK ==
    /\ phase \in {"poll", "recv", "send", "tick", "resend", "done"}
    /\ live \subseteq Streams
    /\ \A s \in Streams : /\ item[s] \in {"none", "ready", "deferred", "eof"}
                          /\ window[s] <= Window /\ queued[s] <= MaxUnits

-----------------------------------------------------------------------------
\* Whatever reply, reply_stream_start and push_data queue is sent in order,
\* without a gap or a repetition.
THEOREM UnitsInOrder == Spec => []InOrder
  BY H2Invariant, InOrderHolds, PTL

\* run() never sits in poll() with units that the window lets it send.
THEOREM NeverStuck == Spec => []Flushed
<1>1. ASSUME H2IInv, phase = "poll", NEW s \in open, state[s] = "requested", window[s] # 0
      PROVE  item[s] = "deferred" /\ unread(streams[s]) = <<>>
  <2>1. item[s] = "deferred" /\ streams[s].out_off = Len(streams[s].out) /\ streams[s] \in Stream
    BY <1>1, Zenon DEF H2IInv, ProviderOK, BufferOK
  <2> DEFINE out == streams[s].out
             o == streams[s].out_off
  <2>2. out \in Seq(Nat) /\ o \in Nat /\ o = Len(out) /\ 0 \in Nat
    BY <2>1 DEF Stream
  <2>3. unread(streams[s]) = SubSeq(out, o + 1, o + 0)
    BY <2>2 DEF unread
  <2> HIDE DEF out, o
  <2>4. SubSeq(out, o + 1, o + 0) \in Seq(Nat) /\ Len(SubSeq(out, o + 1, o + 0)) = 0
    <3>1. o + 0 <= Len(out)
      BY <2>2
    <3> QED BY <2>2, <3>1, Piece
  <2>5. unread(streams[s]) = <<>>
    BY <2>3, <2>4, EmptyLength
  <2> QED BY <2>1, <2>5
<1>2. H2IInv => Flushed
  BY <1>1 DEF Flushed
<1> QED BY <1>2, H2Invariant, PTL

\* on_close after END_STREAM finds the whole body sent, and no long poll ends
\* from the server's side.
THEOREM EndsWhole == Spec => []EofComplete
<1>1. ASSUME H2IInv, NEW s \in Streams, item[s] = "eof"
      PROVE  s \notin live /\ got[s] = units(0, queued[s])
  <2>1. s \notin live /\ Len(got[s]) = queued[s] /\ got[s] \in Seq(Nat) /\ queued[s] \in Nat
        /\ \A i \in 1..Len(got[s]) : got[s][i] = i
    BY <1>1, Zenon DEF H2IInv, ProviderOK, SentOK
  <2> QED BY <2>1, SameUnits
<1>2. H2IInv => EofComplete
  BY <1>1 DEF EofComplete
<1> QED BY <1>2, H2Invariant, PTL

-----------------------------------------------------------------------------
\* The step of the bounds.
LEMMA BoundsStep ==
    ASSUME H2IInv, BoundsOK, [Next]_vars
    PROVE  BoundsOK'
<1>0. /\ Chunk \in Nat /\ Window \in Nat /\ MaxUnits \in Nat
      /\ item = [s \in Streams |-> item[s]] /\ window = [s \in Streams |-> window[s]]
      /\ queued = [s \in Streams |-> queued[s]]
      /\ \A s \in Streams : window[s] \in Nat /\ queued[s] \in Nat
  BY H2Assumption, Zenon DEF H2IInv, ProviderOK, SentOK
<1>1. CASE poll \/ received \/ sent \/ UNCHANGED vars
  BY <1>1 DEF poll, received, sent, vars, BoundsOK
<1>2. ASSUME NEW x \in Streams, on_begin_headers(x) \/ on_close(x) PROVE BoundsOK'
  BY <1>2 DEF on_begin_headers, on_close, BoundsOK
<1>3. ASSUME NEW x \in Streams, window_update(x) PROVE BoundsOK'
  BY <1>0, <1>3 DEF window_update, BoundsOK
<1>4. ASSUME NEW x \in Streams, on_frame(x) PROVE BoundsOK'
  <2>1. PICK n \in 0..MaxUnits : queued' = [queued EXCEPT ![x] = n]
    BY <1>4, Zenon DEF on_frame
  <2>2. /\ phase' = phase /\ window' = window /\ item' = [item EXCEPT ![x] = "ready"]
        /\ live' \subseteq live \cup {x}
    BY <1>4 DEF on_frame, reply, reply_stream_start
  <2>3. \A s \in Streams : queued'[s] <= MaxUnits
    BY <1>0, <2>1 DEF BoundsOK
  <2>4. \A s \in Streams : item'[s] \in {"none", "ready", "deferred", "eof"}
    BY <1>0, <2>2 DEF BoundsOK
  <2> QED
    BY <2>2, <2>3, <2>4 DEF BoundsOK
<1>5. ASSUME NEW x \in Streams, send_data(x) PROVE BoundsOK'
  <2> DEFINE r == data_read(streams[x], min(Chunk, window[x]))
  <2>1. x \in open /\ window[x] > 0 /\ Chunk > 0
    BY <1>5, H2Assumption DEF send_data, sendable
  <2>2. streams[x] \in Stream /\ streams[x].out_off <= Len(streams[x].out)
    BY <2>1, Zenon DEF H2IInv, BufferOK
  <2>3. min(Chunk, window[x]) \in Nat /\ min(Chunk, window[x]) > 0
    BY <1>0, <2>1 DEF min
  <2>4. r.data \in Seq(Nat)
    BY <2>2, <2>3, DataRead
  <2>5. r.flag \in {"eof", "deferred", "ready"}
    BY DEF data_read
  <2>6. /\ phase' = phase /\ live' = live /\ queued' = queued
        /\ window' = [window EXCEPT ![x] = window[x] - Len(r.data)]
        /\ item' = [item EXCEPT ![x] = r.flag]
    BY <1>5 DEF send_data
  <2> HIDE DEF r
  <2>7. Len(r.data) \in Nat
    BY <2>4, SeqParts
  <2>8. \A s \in Streams : window'[s] <= Window
    BY <1>0, <2>6, <2>7 DEF BoundsOK
  <2>9. \A s \in Streams : item'[s] \in {"none", "ready", "deferred", "eof"}
    BY <1>0, <2>5, <2>6, Zenon DEF BoundsOK
  <2> QED
    BY <2>6, <2>8, <2>9 DEF BoundsOK
<1>6. ASSUME NEW S \in SUBSET live, on_tick(S) PROVE BoundsOK'
  <2>1. \A s \in Streams : queued'[s] <= MaxUnits
    <3> TAKE s \in Streams
    <3>1. s \in S \cap open => queued[s] < MaxUnits
      BY <1>6 DEF on_tick
    <3>2. queued'[s] = IF s \in S \cap open THEN queued[s] + 1 ELSE queued[s]
      BY <1>6 DEF on_tick, push_data
    <3>3. queued[s] \in Nat /\ queued[s] <= MaxUnits
      BY <1>0 DEF BoundsOK
    <3> QED
      BY <1>0, <3>1, <3>2, <3>3
  <2>2. \A s \in Streams : item'[s] \in {"none", "ready", "deferred", "eof"}
    BY <1>6 DEF on_tick, push_data, BoundsOK
  <2> QED
    BY <1>6, <2>1, <2>2 DEF on_tick, BoundsOK
<1> QED
  BY <1>1, <1>2, <1>3, <1>4, <1>5, <1>6 DEF Next

\* A Stream exists exactly while its stream is open, its offset stays inside
\* its buffer, and the windows and queues stay within their bounds.
THEOREM SessionTyped == Spec => []TypeOK
<1>1. Init => BoundsOK
  BY H2Assumption DEF Init, BoundsOK
<1>2. H2IInv /\ BoundsOK /\ [Next]_vars => BoundsOK'
  BY BoundsStep
<1>3. ASSUME H2IInv, BoundsOK PROVE TypeOK
  <2>1. \A s \in Streams : /\ window[s] \in 0..Window /\ queued[s] \in 0..MaxUnits
                           /\ got[s] \in Seq(Nat)
    <3> TAKE s \in Streams
    <3>1. Window \in Nat /\ MaxUnits \in Nat
      BY H2Assumption
    <3>2. window[s] \in Nat /\ queued[s] \in Nat /\ got[s] \in Seq(Nat)
      BY <1>3, Zenon DEF H2IInv, ProviderOK, SentOK
    <3>3. window[s] <= Window /\ queued[s] <= MaxUnits
      BY <1>3 DEF BoundsOK
    <3> QED
      BY <3>1, <3>2, <3>3
  <2>2. /\ window \in [Streams -> 0..Window] /\ queued \in [Streams -> 0..MaxUnits]
        /\ got \in [Streams -> Seq(Nat)]
    BY <1>3, <2>1 DEF H2IInv
  <2>3. /\ item \in [Streams -> {"none", "ready", "deferred", "eof"}]
        /\ state \in [Streams -> {"idle", "open", "requested", "closed"}]
    BY <1>3 DEF H2IInv, BoundsOK, ProviderOK
  <2>4. open = {s \in Streams : state[s] \in {"open", "requested"}}
    BY <1>3, Zenon DEF H2IInv, ProviderOK
  <2>5. \A s \in open : streams[s] \in Stream /\ streams[s].out_off <= Len(streams[s].out)
    BY <1>3, Zenon DEF H2IInv, BufferOK
  <2> QED
    BY <1>3, <2>2, <2>3, <2>4, <2>5 DEF TypeOK, BoundsOK
<1>4. H2IInv /\ BoundsOK => TypeOK
  BY <1>3
<1> QED
  BY <1>1, <1>2, <1>4, H2Invariant, PTL DEF Spec
=============================================================================
