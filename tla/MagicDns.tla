------------------------------ MODULE MagicDns ------------------------------
(***************************************************************************)
(* How MagicDns answers a query (src/src/dns.cpp): parse_qname decodes the *)
(* name, following compression pointers, and answer looks it up among the  *)
(* nodes.  A message is a sequence of bytes; offsets count from 0, as in   *)
(* the code.                                                               *)
(***************************************************************************)
EXTENDS Integers, Sequences

CONSTANTS
    Hops,           \* labels and pointers parse_qname follows (16)
    Nodes,          \* the list store_.nodes() returns
    Domain          \* domain_, in lower case

ASSUME DnsAssumption == Hops \in Nat \ {0}

at(msg, off) == msg[off + 1]
Dot == 46
TypeA == 1
TypeAAAA == 28
TypeAny == 255

\* The smallest element of a set of numbers.
least(S) == CHOOSE x \in S : \A y \in S : x <= y

-----------------------------------------------------------------------------
label(msg, off) == SubSeq(msg, off + 2, off + 1 + at(msg, off))

strip_dot(name) ==
    IF name # <<>> /\ name[Len(name)] = Dot THEN SubSeq(name, 1, Len(name) - 1) ELSE name

\* Mutant: the end of the name is where the last pointer led.
name_end_last(jumped, end, off) == off

\* Where the name ends in the message: after its first pointer, if it has one.
name_end(jumped, end, off) == IF jumped THEN end ELSE off

\* One round of the loop of parse_qname on its locals; "on" until it returns.
qname_round(msg, s) ==
    LET lab == at(msg, s.off)
        false == [s EXCEPT !.run = "false"]
        end(after) == name_end(s.jumped, s.end, after)
    IN  IF s.off >= Len(msg) THEN false
        ELSE CASE lab = 0 ->
                     [s EXCEPT !.run = "true", !.name = strip_dot(@), !.off = end(s.off + 1)]
               [] lab >= 192 ->
                     IF s.off + 1 >= Len(msg) THEN false
                     ELSE [s EXCEPT !.off = (lab % 64) * 256 + at(msg, s.off + 1),
                                    !.jumped = TRUE, !.end = end(s.off + 2)]
               [] OTHER ->
                     IF s.off + 1 + lab > Len(msg) THEN false
                     ELSE [s EXCEPT !.off = s.off + 1 + lab,
                                    !.name = s.name \o label(msg, s.off) \o <<Dot>>]

\* The locals of parse_qname after each round; the loop has at most Hops.
qname_rounds(msg, off) ==
    LET r[i \in 0..Hops] ==
            IF i = 0
            THEN [run |-> "on", off |-> off, jumped |-> FALSE, end |-> off, name |-> <<>>]
            ELSE IF r[i - 1].run = "on" THEN qname_round(msg, r[i - 1]) ELSE r[i - 1]
    IN  r

\* What parse_qname returns, and what it leaves in name and off.
parse_qname(msg, off) ==
    LET s == qname_rounds(msg, off)[Hops]
    IN  [ok |-> s.run = "true", name |-> s.name, off |-> s.off]

-----------------------------------------------------------------------------
lower_copy(s) == [i \in DOMAIN s |-> IF s[i] \in 65..90 THEN s[i] + 32 ELSE s[i]]

\* "node-" and the stable id stand for a hostname that is empty.
host(n) == lower_copy(IF n.hostname = <<>> THEN n.fallback ELSE n.hostname)

named(n, want) ==
    LET fqdn == host(n) \o <<Dot>> \o Domain
    IN  want \in {host(n), fqdn, fqdn \o <<Dot>>}

\* The records of a node for a type of query; 0 is an empty address.
records(n, qtype) ==
    {r \in {[type |-> TypeA, of |-> n.ipv4], [type |-> TypeAAAA, of |-> n.ipv6]} :
        qtype \in {r.type, TypeAny} /\ r.of # 0}

NoAnswer == [sent |-> FALSE]

\* MagicDns::answer.  q[2] has the response bit, q[4] and q[5] the number of
\* questions, of which the first is answered.
answer(q) ==
    LET n == parse_qname(q, 12)
    IN  IF \/ Len(q) < 12
           \/ at(q, 2) >= 128
           \/ at(q, 4) * 256 + at(q, 5) < 1
           \/ ~n.ok
           \/ n.off + 4 > Len(q)
        THEN NoAnswer
        ELSE LET qtype == at(q, n.off) * 256 + at(q, n.off + 1)
                 found == {i \in DOMAIN Nodes : named(Nodes[i], lower_copy(n.name))}
             IN  [sent |-> TRUE,
                  found |-> found # {},
                  question |-> SubSeq(q, 13, n.off + 4),
                  records |-> IF found = {} THEN {} ELSE records(Nodes[least(found)], qtype)]

-----------------------------------------------------------------------------
\* The reference for parse_qname: the offsets where a reader of the name is
\* after each step, -1 from where it would leave the message, and what it has
\* spelled until then.
fits(q, o) == IF at(q, o) >= 192 THEN o + 1 < Len(q) ELSE o + 1 + at(q, o) <= Len(q)

follow(q, o) ==
    IF at(q, o) >= 192 THEN (at(q, o) % 64) * 256 + at(q, o + 1) ELSE o + 1 + at(q, o)

visits(q) ==
    LET v[i \in 0..Hops] ==
            IF i = 0 THEN IF Len(q) > 12 THEN 12 ELSE -1
            ELSE LET o == v[i - 1]
                 IN  IF o # -1 /\ fits(q, o) /\ follow(q, o) < Len(q) THEN follow(q, o) ELSE -1
    IN  v

spelled(q) ==
    LET w[i \in 0..Hops] ==
            IF i = 0 THEN <<>>
            ELSE LET o == visits(q)[i - 1]
                 IN  IF o # -1 /\ fits(q, o) /\ at(q, o) < 192
                     THEN w[i - 1] \o label(q, o) \o <<Dot>> ELSE w[i - 1]
    IN  w

\* A name is good when fewer than Hops steps lead to the byte 0.  It ends in the
\* message behind that byte or, if it has pointers, behind the first of them.
zeros(q) == {i \in 0..Hops - 1 : visits(q)[i] # -1 /\ at(q, visits(q)[i]) = 0}

pointers(q) == {i \in 0..least(zeros(q)) : at(q, visits(q)[i]) >= 192}

behind(q) ==
    IF pointers(q) = {} THEN visits(q)[least(zeros(q))] + 1
    ELSE visits(q)[least(pointers(q))] + 2

\* A query is answered exactly when it is a question with a good name and a
\* type and class behind it; the answer repeats that question, also when the
\* name used pointers; and it has the addresses, of the asked type, of the
\* first node of that name.
AnswersTruly(q) ==
    LET good == /\ Len(q) >= 12 /\ at(q, 2) < 128 /\ at(q, 4) + at(q, 5) > 0
                /\ zeros(q) # {} /\ behind(q) + 4 <= Len(q)
        name == lower_copy(strip_dot(spelled(q)[least(zeros(q))]))
        same == {i \in DOMAIN Nodes : named(Nodes[i], name)}
        address(type) ==
            IF type = TypeA THEN Nodes[least(same)].ipv4 ELSE Nodes[least(same)].ipv6
        asked == at(q, behind(q)) * 256 + at(q, behind(q) + 1)
        a == answer(q)
    IN  /\ a.sent <=> good
        /\ good =>
             /\ a.question = SubSeq(q, 13, behind(q) + 4)
             /\ a.found <=> same # {}
             /\ same # {} =>
                    a.records = {[type |-> type, of |-> address(type)] :
                                     type \in {t \in {TypeA, TypeAAAA} :
                                                  asked \in {t, TypeAny} /\ address(t) # 0}}
             /\ same = {} => a.records = {}
=============================================================================
