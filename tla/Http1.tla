------------------------------- MODULE Http1 -------------------------------
(***************************************************************************)
(* The HTTP/1 front of a connection (src/src/http1.cpp): read_http_request *)
(* collects what recv returns until the empty line that ends the head, and *)
(* gives up past a limit; header_get looks a header up.                    *)
(*                                                                         *)
(* The bytes are "r" and "n" for carriage return and newline and "x" for   *)
(* every other; recv may return any prefix of what is in flight, up to the *)
(* size of its buffer.  The lines of the head are records, with their name *)
(* in lower case: the code lowers both sides of every comparison.          *)
(***************************************************************************)
EXTENDS Integers, Sequences

CONSTANTS
    RecvSize,       \* the buffer recv fills
    MaxHead,        \* the limit on what is collected
    MaxLine         \* bound: bytes a request has before its empty line

ASSUME HttpAssumption == {RecvSize, MaxHead, MaxLine} \subseteq Nat \ {0}

VARIABLES
    stage,          \* how far the connection is
    sent,           \* the bytes the peer sends
    buf             \* buf of read_http_request

http_vars == <<stage, sent, buf>>

-----------------------------------------------------------------------------
EndOfHead == <<"r", "n", "r", "n">>

\* What a peer may send: a head, its empty line, and perhaps a byte of a body.
Heads == UNION {[1..n -> {"x", "r", "n"}] : n \in 0..MaxLine}
Streams == {h \o EndOfHead \o b : h \in Heads, b \in {<<>>, <<"x">>}}

\* buf.find("\r\n\r\n"), with 0 for npos.
find_end(b) ==
    LET at == {i \in 1..Len(b) - 3 : SubSeq(b, i, i + 3) = EndOfHead}
    IN  IF at = {} THEN 0 ELSE CHOOSE i \in at : \A j \in at : i <= j

\* Mutants: the end is looked for in what the last recv returned; the limit is
\* refused as well.
head_decided_last(b, k) ==
    IF Len(b) > MaxHead THEN "refused"
    ELSE IF find_end(SubSeq(b, Len(b) - k + 1, Len(b))) = 0 THEN "head" ELSE "request"

head_decided_limit(b, k) ==
    IF Len(b) >= MaxHead THEN "refused"
    ELSE IF find_end(b) = 0 THEN "head" ELSE "request"

\* After a recv of k bytes: too much, more to come, or a head, which getline
\* must find a first line in.
head_decided(b, k) ==
    CASE Len(b) > MaxHead -> "refused"
      [] Len(b) <= MaxHead /\ find_end(b) = 0 -> "head"
      [] Len(b) <= MaxHead /\ find_end(b) = 1 -> "refused"
      [] OTHER -> "request"

recv(k) ==
    /\ stage = "head"
    /\ Len(buf) + k <= Len(sent)
    /\ buf' = SubSeq(sent, 1, Len(buf) + k)
    /\ stage' = head_decided(buf', k)
    /\ UNCHANGED sent

read_http_request == \E k \in 1..RecvSize : recv(k)

\* recv returns 0 or an error: the peer is gone.
recv_fail ==
    /\ stage = "head"
    /\ stage' = "closed" /\ sent' = <<>> /\ buf' = <<>>

\* Each header line replaces an earlier one of the same name, and a line
\* without a colon is skipped.  "" when there is none.
header_get(lines, name) ==
    LET at == {i \in DOMAIN lines : lines[i].colon /\ lines[i].name = name}
        last == CHOOSE i \in at : \A j \in at : j <= i
    IN  IF at = {} THEN "" ELSE lines[last].value

-----------------------------------------------------------------------------
\* However recv cuts the bytes up, a request that is taken has its whole head
\* in buf, and one that is refused has sent more than the limit, its body
\* included, or has no first line.
HeadDecided ==
    /\ stage = "request" =>
           /\ find_end(sent) > 1 /\ find_end(sent) + 3 <= Len(buf)
           /\ Len(buf) <= MaxHead
    /\ stage = "refused" => Len(sent) > MaxHead \/ find_end(sent) = 1

\* A peer that has sent a complete head is not left waiting for an answer
\* while read_http_request waits for more bytes.
HeadEnds == stage = "head" ~> stage # "head"
=============================================================================
