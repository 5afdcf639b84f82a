----------------------------- MODULE H2Session -----------------------------
(***************************************************************************)
(* H2Server (src/src/http2_session.cpp): the HTTP/2 streams of one client  *)
(* connection and the loop that serves them, with nghttp2 modelled from    *)
(* how the code uses it: per stream, whether its data provider is ready,   *)
(* deferred or finished, and the flow control window.                      *)
(*                                                                         *)
(* The handlers are those of coordinator.cpp: a request is answered by     *)
(* reply, or by reply_stream_start for a long poll, on whose stream every  *)
(* later tick may push.  The units of a stream's body are numbered from 1. *)
(* Left out: headers, statuses, and the request body.                      *)
(***************************************************************************)
EXTENDS Integers, Sequences

CONSTANTS
    Streams,        \* stream ids, each used at most once
    Chunk,          \* bound: units nghttp2 asks data_read for
    Window,         \* initial flow control window, in units
    MaxUnits        \* bound: units queued on one stream

ASSUME H2Assumption == {Chunk, Window, MaxUnits} \subseteq Nat \ {0}

VARIABLES
    phase,          \* where run() is
    state,          \* the client's half of each stream
    streams,        \* streams_
    item,           \* nghttp2: each stream's data provider
    window,         \* nghttp2: each stream's flow control window
    live,           \* stream ids in serve_h2's live vector
    queued,         \* units the handlers have queued, ever
    got             \* units sent, in order

vars == <<phase, state, streams, item, window, live, queued, got>>

-----------------------------------------------------------------------------
Stream == [out : Seq(Nat), out_off : Nat, streaming : BOOLEAN, ended : BOOLEAN]

NewStream == [out |-> <<>>, out_off |-> 0, streaming |-> FALSE, ended |-> FALSE]

open == DOMAIN streams

min(a, b) == IF a <= b THEN a ELSE b

unread(st) == SubSeq(st.out, st.out_off + 1, Len(st.out))

units(from, n) == [i \in 1..n |-> from + i]

erase(s) == [x \in open \ {s} |-> streams[x]]

\* Mutants: a stream ends whenever its buffer is empty; the offset is kept
\* when the buffer is cleared.
data_read_ends(st, length) ==
    LET n    == min(length, Len(st.out) - st.out_off)
        last == st.out_off + n >= Len(st.out)
    IN  [st   |-> IF last THEN [st EXCEPT !.out = <<>>, !.out_off = 0]
                          ELSE [st EXCEPT !.out_off = @ + n],
         data |-> SubSeq(st.out, st.out_off + 1, st.out_off + n),
         flag |-> IF last THEN "eof" ELSE "ready"]
data_read_offset(st, length) ==
    LET n    == min(length, Len(st.out) - st.out_off)
        last == st.out_off + n >= Len(st.out)
    IN  [st   |-> [st EXCEPT !.out = IF last THEN <<>> ELSE @, !.out_off = @ + n],
         data |-> SubSeq(st.out, st.out_off + 1, st.out_off + n),
         flag |-> IF last /\ ~st.streaming THEN "eof" ELSE "ready"]

\* The data provider's callback: the stream it leaves behind, the units it
\* hands over, and whether it is to be called again.
data_read(st, length) ==
    LET n    == min(length, Len(st.out) - st.out_off)
        last == st.out_off + n >= Len(st.out)
        more == st.streaming /\ ~st.ended
    IN  [st   |-> IF last THEN [st EXCEPT !.out = <<>>, !.out_off = 0]
                          ELSE [st EXCEPT !.out_off = @ + n],
         data |-> SubSeq(st.out, st.out_off + 1, st.out_off + n),
         flag |-> IF last /\ ~more THEN "eof"
                  ELSE IF n = 0 THEN "deferred" ELSE "ready"]

-----------------------------------------------------------------------------
\* poll() reports input, times out, or fails.
poll ==
    /\ phase = "poll"
    /\ phase' \in {"recv", "send", "done"}
    /\ UNCHANGED <<state, streams, item, window, live, queued, got>>

\* HEADERS of a request.
on_begin_headers(s) ==
    /\ phase = "recv"
    /\ state[s] = "idle"
    /\ state' = [state EXCEPT ![s] = "open"]
    /\ streams' = [x \in open \cup {s} |-> IF x = s THEN NewStream ELSE streams[x]]
    /\ UNCHANGED <<phase, item, window, live, queued, got>>

\* reply, with a body of n units.
reply(s, n) ==
    /\ streams' = [streams EXCEPT ![s] =
           [out |-> units(0, n), out_off |-> 0, streaming |-> FALSE, ended |-> TRUE]]
    /\ UNCHANGED live

\* reply_stream_start, and the entry on_map makes in live.
reply_stream_start(s, n) ==
    /\ streams' = [streams EXCEPT ![s] =
           [out |-> units(0, n), out_off |-> 0, streaming |-> TRUE, ended |-> FALSE]]
    /\ live' = live \cup {s}

\* END_STREAM: the handler runs inside on_frame and submits its response.
on_frame(s) ==
    /\ phase = "recv"
    /\ state[s] = "open"
    /\ state' = [state EXCEPT ![s] = "requested"]
    /\ item' = [item EXCEPT ![s] = "ready"]
    /\ \E n \in 0..MaxUnits :
           /\ reply(s, n) \/ (n > 0 /\ reply_stream_start(s, n))
           /\ queued' = [queued EXCEPT ![s] = n]
    /\ UNCHANGED <<phase, window, got>>

\* RST_STREAM: nghttp2 drops the stream and calls on_close.
on_close(s) ==
    /\ phase = "recv"
    /\ state[s] \in {"open", "requested"}
    /\ state' = [state EXCEPT ![s] = "closed"]
    /\ streams' = erase(s)
    /\ UNCHANGED <<phase, item, window, live, queued, got>>

\* WINDOW_UPDATE.
window_update(s) ==
    /\ phase = "recv"
    /\ s \in open
    /\ window[s] < Window
    /\ window' = [window EXCEPT ![s] = Window]
    /\ UNCHANGED <<phase, state, streams, item, live, queued, got>>

\* The input is used up; or read or mem_recv failed.
received ==
    /\ phase = "recv"
    /\ phase' \in {"send", "done"}
    /\ UNCHANGED <<state, streams, item, window, live, queued, got>>

-----------------------------------------------------------------------------
sending == phase \in {"send", "resend"}

sendable(s) == s \in open /\ item[s] = "ready" /\ window[s] > 0

\* nghttp2_session_send emits one DATA frame; END_STREAM closes the stream,
\* whose request has ended before.
send_data(s) ==
    /\ sending
    /\ sendable(s)
    /\ LET r == data_read(streams[s], min(Chunk, window[s]))
       IN  /\ got' = [got EXCEPT ![s] = @ \o r.data]
           /\ window' = [window EXCEPT ![s] = @ - Len(r.data)]
           /\ item' = [item EXCEPT ![s] = r.flag]
           /\ IF r.flag = "eof"
              THEN streams' = erase(s) /\ state' = [state EXCEPT ![s] = "closed"]
              ELSE streams' = [streams EXCEPT ![s] = r.st] /\ UNCHANGED state
    /\ UNCHANGED <<phase, live, queued>>

\* Nothing is left to send; or a write failed.  The loop also stops when
\* nghttp2 wants neither to read nor to write.
sent ==
    /\ sending
    /\ \/ phase' = "done"
       \/ /\ \A s \in Streams : ~sendable(s)
          /\ phase' = IF phase = "send" THEN "tick" ELSE "poll"
    /\ UNCHANGED <<state, streams, item, window, live, queued, got>>

\* Mutants: no resume; the new frame replaces the units not yet read.
push_silent(S) ==
    /\ streams' = [s \in open |->
           IF s \in S THEN [streams[s] EXCEPT !.out = @ \o units(queued[s], 1)] ELSE streams[s]]
    /\ queued' = [s \in Streams |-> IF s \in S \cap open THEN queued[s] + 1 ELSE queued[s]]
    /\ UNCHANGED item
push_over(S) ==
    /\ streams' = [s \in open |->
           IF s \in S THEN [streams[s] EXCEPT !.out = units(queued[s], 1)] ELSE streams[s]]
    /\ queued' = [s \in Streams |-> IF s \in S \cap open THEN queued[s] + 1 ELSE queued[s]]
    /\ item' = [s \in Streams |-> IF s \in S \cap open THEN "ready" ELSE item[s]]

\* push_data of one more unit on each stream of S that is still open, with
\* nghttp2_session_resume_data, which has no effect unless it is deferred.
push_data(S) ==
    /\ streams' = [s \in open |->
           IF s \in S THEN [streams[s] EXCEPT !.out = @ \o units(queued[s], 1)] ELSE streams[s]]
    /\ queued' = [s \in Streams |-> IF s \in S \cap open THEN queued[s] + 1 ELSE queued[s]]
    /\ item' = [s \in Streams |->
           IF s \in S \cap open /\ item[s] = "deferred" THEN "ready" ELSE item[s]]

\* on_tick pushes on some of the live streams; entries of closed streams stay
\* in live, and a push on them is ignored.
on_tick(S) ==
    /\ phase = "tick"
    /\ \A s \in S \cap open : queued[s] < MaxUnits
    /\ push_data(S)
    /\ phase' = "resend"
    /\ UNCHANGED <<state, window, live, got>>

-----------------------------------------------------------------------------
Init ==
    /\ phase = "poll"
    /\ state = [s \in Streams |-> "idle"]
    /\ streams = [s \in {} |-> NewStream]
    /\ item = [s \in Streams |-> "none"]
    /\ window = [s \in Streams |-> Window]
    /\ live = {}
    /\ queued = [s \in Streams |-> 0]
    /\ got = [s \in Streams |-> <<>>]

Next ==
    \/ poll
    \/ \E s \in Streams : on_begin_headers(s) \/ on_frame(s) \/ on_close(s) \/ window_update(s)
    \/ received
    \/ \E s \in Streams : send_data(s)
    \/ sent
    \/ \E S \in SUBSET live : on_tick(S)

Spec == Init /\ [][Next]_vars

-----------------------------------------------------------------------------
\* A Stream exists exactly while its stream is open, and only the streams of
\* requests have a response.
TypeOK ==
    /\ phase \in {"poll", "recv", "send", "tick", "resend", "done"}
    /\ state \in [Streams -> {"idle", "open", "requested", "closed"}]
    /\ open = {s \in Streams : state[s] \in {"open", "requested"}}
    /\ \A s \in open : streams[s] \in Stream /\ streams[s].out_off <= Len(streams[s].out)
    /\ item \in [Streams -> {"none", "ready", "deferred", "eof"}]
    /\ window \in [Streams -> 0..Window]
    /\ live \subseteq Streams
    /\ queued \in [Streams -> 0..MaxUnits]
    /\ got \in [Streams -> Seq(Nat)]

\* Nothing queued by reply, reply_stream_start or push_data is lost, repeated
\* or reordered, however frames, flow control and partial reads of the buffer
\* (out, out_off) interleave: what was sent and what is still in the buffer
\* are together what was queued.
InOrder ==
    \A s \in open : got[s] \o unread(streams[s]) = units(0, queued[s])

\* The loop never waits in poll() with something to send: a stream's buffer is
\* empty, or the client has closed its window.  In particular push_data never
\* leaves data behind a deferred data provider.
Flushed ==
    phase = "poll" =>
        \A s \in open : state[s] = "requested" =>
            \/ window[s] = 0
            \/ item[s] = "deferred" /\ unread(streams[s]) = <<>>

\* END_STREAM is sent only after the whole body of a reply, and never on a
\* long poll: those end by the client or with the connection.
EofComplete ==
    \A s \in Streams :
        item[s] = "eof" => s \notin live /\ got[s] = units(0, queued[s])
=============================================================================
