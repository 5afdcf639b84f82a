----------------------------- MODULE MCService -----------------------------
EXTENDS Service, SequencesExt

\* Hostnames "A" and "a" are one name; the third node has none, and is "n".
MCNodes ==
    << [hostname |-> <<65>>, fallback |-> <<110>>, ipv4 |-> 1, ipv6 |-> 2],
       [hostname |-> <<97>>, fallback |-> <<110>>, ipv4 |-> 3, ipv6 |-> 4],
       [hostname |-> <<>>, fallback |-> <<110>>, ipv4 |-> 5, ipv6 |-> 0] >>

\* The domain is "a", so that "a.a" is a full name.
MCDomain == <<97>>

Header(flags, questions) == <<7, 7, flags, 0, 0, questions, 0, 0, 0, 0, 0, 0>>

\* Names of up to three bytes: ends, labels, pointers to the header, to the name
\* itself and past the end, and truncated ones.  Longer ones: "a" and a pointer
\* to itself, to the header's zeros and to nothing, "a.a", "A.a", "n" with the
\* rest behind the question, and one label more than Hops.
Names ==
    SeqOf({0, 1, 12, 97, 192}, 3)
    \cup {<<1, 97, 192, 12>>, <<1, 97, 192, 6>>, <<1, 97, 192, 97>>, <<1, 97, 1, 97, 0>>,
          <<1, 65, 1, 97, 0>>, <<1, 110, 192, 20, 0, 1, 0, 1, 1, 97, 0>>,
          <<1, 97, 1, 97, 1, 97, 1, 97, 0>>}

MCQueries ==
    {Header(1, 1) \o n \o t : n \in Names, t \in {<<>>, <<0, 1, 0, 1>>, <<0, 255, 0, 1>>}}
    \cup {Header(f, c) \o <<1, 97, 0, 0, 28, 0, 1>> : f \in {1, 129}, c \in {0, 1, 2}}
    \cup {<<7, 7, 1>>}
=============================================================================
