------------------------------ MODULE Service ------------------------------
(***************************************************************************)
(* The coordinator as a process: it is started and stopped (Lifecycle),    *)
(* its accept thread starts the threads of the clients (Connection), and   *)
(* its DNS thread answers queries (MagicDns).  Client threads are          *)
(* detached: they go on after a stop.                                      *)
(*                                                                         *)
(* The descriptors of the clients are numbered apart from the server's own *)
(* sockets.  A query arrives before the first client, and is answered      *)
(* before one is accepted: the DNS thread and the clients share nothing    *)
(* but the store, of which answer takes one copy.                          *)
(***************************************************************************)
EXTENDS Lifecycle, Connection, MagicDns

CONSTANT
    Queries         \* datagrams that arrive

ASSUME ServiceAssumption == Queries \subseteq Seq(0..255)

VARIABLE query      \* the datagram MagicDns::loop is answering

vars == <<life_vars, conn_vars, query>>

-----------------------------------------------------------------------------
control(A) == A /\ UNCHANGED <<conn_vars, query>>

loop_step(l) == loop_check(l) \/ loop_call(l) \/ loop_error(l)

accept(t) ==
    /\ query = <<>>
    /\ loop_serve("accept", "check")
    /\ accept_loop(t)
    /\ UNCHANGED query

client(t) == ServeNext(t) /\ UNCHANGED <<life_vars, query>>

recvfrom(q) ==
    /\ \A t \in Threads : pc[t] = "unborn"
    /\ loop_serve("dns", "answer")
    /\ query' = q
    /\ UNCHANGED conn_vars

\* The answer is computed and sent, or there is none.
sendto ==
    /\ loop_served("dns")
    /\ query' = <<>>
    /\ UNCHANGED conn_vars

-----------------------------------------------------------------------------
Init == LifeInit /\ ConnInit /\ query = <<>>

Next ==
    \/ control(ControlNext)
    \/ \E l \in Loops : control(loop_step(l))
    \/ \E t \in Threads : accept(t) \/ client(t)
    \/ \E q \in Queries : recvfrom(q)
    \/ sendto

\* The threads run: stop goes on as far as it can, and so do the loops, except
\* that nothing makes a call on an open socket return.
Spec ==
    /\ Init /\ [][Next]_vars
    /\ WF_vars(control(stopping))
    /\ \A l \in Loops :
           /\ WF_vars(control(loop_check(l)))
           /\ WF_vars(control(loop_call(l)))
           /\ WF_vars(control(loop[l].sock \in shut /\ loop_error(l)))
    /\ WF_vars(sendto)

-----------------------------------------------------------------------------
\* Every query gets the answer that AnswersTruly describes, and the reading of
\* its name stays inside the datagram.
DnsAnswers == query # <<>> => AnswersTruly(query)
=============================================================================
