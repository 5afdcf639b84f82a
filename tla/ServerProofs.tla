--------------------------- MODULE ServerProofs -----------------------------
(***************************************************************************)
(* Proofs about the threads and sockets of a server.  Lifecycle: the       *)
(* invariant LifeIInv is kept by every step of the embedder's thread and of*)
(* the two loops, for any number of starts, and what a stopped and what a  *)
(* started coordinator promise follows.  Connection: no ended thread leaves*)
(* its socket open, and an exception out of serve_h2 is the only way in    *)
(* which a connection can lose its descriptor to another.  MagicDns: every *)
(* datagram, of any length and with any pointers, is answered as the       *)
(* reference says.  Service: the composition implements Lifecycle and      *)
(* Connection, so that all of this holds of the whole process.             *)
(***************************************************************************)
EXTENDS Service, WellFoundedInduction, TLAPS

\* A coordinator that was just constructed has no sockets and no threads.
LEMMA LifeInitHolds == LifeInit => LifeIInv
BY LifecycleAssumption, SMTT(20) DEF LifeInit, LifeIInv, Loops, NoThread, gone, ended

\* The loops move only their own threads, and end only when their flag is set.
LEMMA LoopKeeps ==
    ASSUME LifeIInv, NEW l \in Loops, LoopNext(l)
    PROVE  LifeIInv'
<1> USE DEF Loops, LifeIInv, gone, ended, calls
<1>1. CASE loop_check(l)
  BY <1>1 DEF loop_check
<1>2. CASE loop_call(l)
  BY <1>2 DEF loop_call
<1>3. CASE loop_error(l)
  BY <1>3 DEF loop_error
<1>4. CASE loop_served(l)
  BY <1>4 DEF loop_served
<1>5. ASSUME NEW next \in {"check", "answer"}, loop_serve(l, next) PROVE LifeIInv'
  BY <1>5, SMTT(20) DEF loop_serve
<1> QED BY <1>1, <1>2, <1>3, <1>4, <1>5 DEF LoopNext

\* start, whether it goes on or throws at any of its steps.
LEMMA StartKeeps ==
    ASSUME LifeIInv, start \/ listen_tcp \/ dns_start \/ spawn
    PROVE  LifeIInv'
<1> USE LifecycleAssumption DEF Loops, LifeIInv, gone, ended
<1>1. CASE start
  BY <1>1 DEF start
<1>2. CASE listen_tcp
  BY <1>2 DEF listen_tcp, start_throws
<1>3. CASE dns_start
  <2>1. <<"udp", starts>> # None /\ <<"udp", starts>> \in {"tcp", "udp"} \X Nat
    OBVIOUS
  <2>2. CASE fd_' = [fd_ EXCEPT !["dns"] = <<"udp", starts>>]
             /\ open' = open \cup {<<"udp", starts>>}
    <3>1. open' = {fd_'["accept"], fd_'["dns"]} \ {None}
      BY <1>3, <2>1, <2>2 DEF dns_start
    <3>2. CASE start_throws
      BY <1>3, <2>1, <2>2, <3>1, <3>2 DEF dns_start, start_throws
    <3>3. CASE ctl' = "spawn"
      BY <1>3, <2>1, <2>2, <3>1, <3>3 DEF dns_start, start_throws
    <3> QED BY <1>3, <2>2, <3>2, <3>3, Zenon DEF dns_start
  <2>3. CASE start_throws /\ UNCHANGED <<fd_, open>>
    BY <1>3, <2>3, SMTT(30) DEF dns_start, start_throws
  <2> QED BY <1>3, <2>2, <2>3, Zenon DEF dns_start
<1>4. CASE spawn
  BY <1>4 DEF spawn, start_throws
<1> QED BY <1>1, <1>2, <1>3, <1>4

\* stop, step by step, on whatever a start has left.
LEMMA StopKeeps ==
    ASSUME LifeIInv, stop \/ stopping
    PROVE  LifeIInv'
<1> USE LifecycleAssumption DEF Loops, LifeIInv, gone, ended, hang_up, NoThread
<1>1. CASE stop
  BY <1>1 DEF stop
<1>2. CASE stop_close
  BY <1>2 DEF stop_close
<1>3. CASE dns_stop
  BY <1>3 DEF dns_stop
<1>4. CASE dns_close
  BY <1>4 DEF dns_close
<1>5. CASE dns_join
  BY <1>5 DEF dns_join
<1>6. CASE stop_join
  BY <1>6 DEF stop_join
<1> QED BY <1>1, <1>2, <1>3, <1>4, <1>5, <1>6, Zenon DEF stopping

\* A step of others leaves the invariant alone.
LEMMA LifeStutters == LifeIInv /\ UNCHANGED life_vars => LifeIInv'
BY DEF LifeIInv, life_vars, calls, gone, ended, Loops

\* The invariant holds in every state of every run, for any bound on the starts.
THEOREM LifeInductive == LifeSpec => []LifeIInv
<1>1. LifeIInv /\ [LifeNext]_life_vars => LifeIInv'
  BY LoopKeeps, StartKeeps, StopKeeps, LifeStutters DEF LifeNext, ControlNext
<1> QED BY LifeInitHolds, <1>1, PTL DEF LifeSpec

\* A coordinator that is not running, with no call under way, has closed its
\* sockets and joined its threads, however often it was started and wherever a
\* start failed.
THEOREM StopLeavesNothing == LifeSpec => []StoppedClean
<1>1. LifeIInv => StoppedClean
  BY DEF LifeIInv, StoppedClean, gone, Loops
<1> QED BY LifeInductive, <1>1, PTL

\* A start never assigns over a thread that is joinable or over a MagicDns,
\* also when it follows a start that failed half way.
THEOREM StartLosesNoThread == LifeSpec => []NoThreadLost
<1>1. LifeIInv => NoThreadLost
  BY DEF LifeIInv, NoThreadLost, gone, Loops
<1> QED BY LifeInductive, <1>1, PTL

\* After a start that succeeded both loops run on open sockets until a stop,
\* whatever accept and recvfrom return.
THEOREM StartIsSafe == LifeSpec => []Serves
<1>1. LifeIInv => Serves
  BY DEF LifeIInv, Serves, gone, ended, Loops
<1> QED BY LifeInductive, <1>1, PTL

-----------------------------------------------------------------------------
\* A socket belongs to a thread that has its number and has not ended.
OwnerServes ==
    \A t \in Threads, f \in Fds :
        owner[f] = t => fd[t] = f /\ pc[t] \notin {"unborn", "done"}

\* Where sessions do not throw, a thread that has not ended has its socket.
ServedOwns ==
    ~SessionMayThrow =>
        \A t \in Threads : pc[t] \notin {"unborn", "done"} => owner[fd[t]] = t

ConnIInv ==
    /\ ConnTypeOK
    /\ \A t \in Threads : pc[t] # "unborn" => fd[t] \in Fds
    /\ OwnerServes
    /\ ServedOwns

-----------------------------------------------------------------------------
\* No descriptor is owned before the first connection.
LEMMA ConnInitHolds == ConnInit => ConnIInv
BY ConnectionAssumption
   DEF ConnInit, ConnIInv, ConnTypeOK, OwnerServes, ServedOwns

\* A thread that is started owns the number that accept gave out, which was
\* nobody's.
LEMMA AcceptKeeps ==
    ASSUME ConnIInv, NEW t \in Threads, accept_loop(t)
    PROVE  ConnIInv'
BY ConnectionAssumption
   DEF accept_loop, free, goto, ConnIInv, ConnTypeOK, OwnerServes, ServedOwns

\* A step of a thread that leaves the table alone and goes on serving.
LEMMA MoveKeeps ==
    ASSUME ConnIInv, NEW t \in Threads,
           NEW there \in {"http", "upgrade", "session", "close"},
           pc[t] \notin {"unborn", "done"}, goto(t, there), UNCHANGED <<owner, fd>>
    PROVE  ConnIInv'
BY DEF goto, ConnIInv, ConnTypeOK, OwnerServes, ServedOwns

\* A thread closes its number and ends.  Where sessions do not throw, that
\* number is its own socket.
LEMMA CloseKeeps ==
    ASSUME ConnIInv, NEW t \in Threads,
           pc[t] \notin {"unborn", "done"}, close(t), goto(t, "done"), UNCHANGED fd
    PROVE  ConnIInv'
BY ConnectionAssumption
   DEF close, goto, ConnIInv, ConnTypeOK, OwnerServes, ServedOwns

\* The destructor of NoiseConn closes while an exception passes.
LEMMA ThrowKeeps ==
    ASSUME ConnIInv, NEW t \in Threads, session_throw(t)
    PROVE  ConnIInv'
BY ConnectionAssumption
   DEF session_throw, close, goto, ConnIInv, ConnTypeOK, OwnerServes, ServedOwns

-----------------------------------------------------------------------------
\* ConnIInv is an inductive invariant of the client threads.
LEMMA ConnInductive == ConnSpec => []ConnIInv
<1>1. ConnIInv /\ [ConnNext]_conn_vars => ConnIInv'
  <2> SUFFICES ASSUME ConnIInv, [ConnNext]_conn_vars PROVE ConnIInv'
    OBVIOUS
  <2>1. CASE UNCHANGED conn_vars
    BY <2>1 DEF conn_vars, ConnIInv, ConnTypeOK, OwnerServes, ServedOwns
  <2>2. ASSUME NEW t \in Threads, accept_loop(t) \/ ServeNext(t)
        PROVE  ConnIInv'
    <3>1. CASE accept_loop(t)
      BY <3>1, AcceptKeeps
    <3>2. CASE handle_client(t) \/ upgrade(t) \/ upgrade_throw(t) \/ session_start(t)
      BY <3>2, MoveKeeps DEF handle_client, upgrade, upgrade_throw, session_start
    <3>3. CASE handle_ts2021(t) \/ session_end(t) \/ client_thread(t)
      BY <3>3, CloseKeeps DEF handle_ts2021, session_end, client_thread
    <3>4. CASE session_throw(t)
      BY <3>4, ThrowKeeps
    <3> QED BY <2>2, <3>1, <3>2, <3>3, <3>4 DEF ServeNext
  <2> QED BY <2>1, <2>2 DEF ConnNext
<1> QED BY ConnInitHolds, <1>1, PTL DEF ConnSpec

\* A client thread that has ended has closed its socket, for any number of
\* threads and descriptors and also when sessions end in exceptions.
THEOREM SocketsClosed == ConnSpec => []NoLeak
<1>1. ConnIInv => NoLeak
  BY DEF ConnIInv, OwnerServes, NoLeak
<1> QED BY <1>1, ConnInductive, PTL

\* Where no exception leaves serve_h2, a connection keeps its socket for as long
\* as it is served: the double close needs the exception.
THEOREM SocketKept == ~SessionMayThrow => (ConnSpec => []KeepsSocket)
<1> SUFFICES ASSUME ~SessionMayThrow PROVE ConnSpec => []KeepsSocket
  OBVIOUS
<1>1. ConnIInv => KeepsSocket
  BY DEF ConnIInv, ServedOwns, KeepsSocket
<1> QED BY <1>1, ConnInductive, PTL

-----------------------------------------------------------------------------
\* A set of naturals has a least element.
LEMMA LeastNat ==
    ASSUME NEW S \in SUBSET Nat, S # {}
    PROVE  \E x \in S : \A y \in S : x <= y
<1> DEFINE R == OpToRel(<, Nat)
<1>1. IsWellFoundedOn(R, Nat)
  BY NatLessThanWellFounded, Zenon
<1>2. \A x, y \in Nat : ~(<<y, x>> \in R) => x <= y
  BY DEF OpToRel
<1> HIDE DEF R
<1>3. \E x \in S : \A y \in S : ~(<<y, x>> \in R)
  BY <1>1, WFMin, Zenon
<1> QED
  BY <1>2, <1>3, Zenon

\* Induction, for a set of naturals.
LEMMA Induction ==
    ASSUME NEW S \in SUBSET Nat, 0 \in S, \A k \in S : k + 1 \in S
    PROVE  \A n \in Nat : n \in S
<1> SUFFICES ASSUME Nat \ S # {} PROVE FALSE
  BY Zenon
<1>1. PICK k \in Nat \ S : \A m \in Nat \ S : k <= m
  BY LeastNat, Zenon
<1>2. k # 0 /\ k - 1 \in Nat /\ ~(k <= k - 1)
  BY <1>1
<1>3. k - 1 \in S
  BY ONLY <1>1, <1>2, Zenon
<1>4. (k - 1) + 1 = k
  BY <1>1
<1> QED
  BY <1>1, <1>3, <1>4

\* The values f[0] to f[n] start at a, and each is made from the last by F.
Steps(n, S) == [1..n -> [S -> S]]

Iterates(f, n, S, F, a) ==
    /\ f \in [0..n -> S] /\ f[0] = a
    /\ \A i \in 1..n : f[i] = F[i][f[i - 1]]

\* A function that is given by its first value and by each next one exists.
LEMMA Iterated ==
    ASSUME NEW S, NEW n \in Nat, NEW F \in Steps(n, S), NEW a \in S
    PROVE  \E f : Iterates(f, n, S, F, a)
<1> DEFINE Good(k, f) == Iterates(f, k, S, F, a)
           T == {k \in Nat : k <= n => \E f : Good(k, f)}
<1>1. 0 \in T
  <2>1. Good(0, [i \in 0..0 |-> a])
    BY DEF Iterates
  <2> QED
    BY <2>1, Zenon
<1>2. ASSUME NEW k \in T PROVE k + 1 \in T
  <2>0. k \in Nat /\ k + 1 \in Nat /\ (k + 1 <= n => k <= n)
    OBVIOUS
  <2> SUFFICES ASSUME k + 1 <= n PROVE \E g : Good(k + 1, g)
    BY <2>0, Zenon
  <2>1. PICK f : Good(k, f)
    BY <1>2, <2>0, Zenon
  <2>2. f \in [0..k -> S] /\ f[0] = a /\ \A i \in 1..k : f[i] = F[i][f[i - 1]]
    BY <2>1, Zenon DEF Iterates
  <2> DEFINE g == [i \in 0..k + 1 |-> IF i <= k THEN f[i] ELSE F[k + 1][f[k]]]
  <2>3. F[k + 1][f[k]] \in S
    <3>1. F[k + 1] \in [S -> S] /\ f[k] \in S
      BY <2>2 DEF Steps
    <3> QED
      BY <3>1
  <2>4. g \in [0..k + 1 -> S] /\ g[0] = a
    BY <2>2, <2>3
  <2>5. \A i \in 1..k + 1 : g[i] = F[i][g[i - 1]]
    BY <2>2
  <2>6. Good(k + 1, g)
    BY <2>4, <2>5, Zenon DEF Iterates
  <2> QED
    BY <2>6, Zenon
<1> HIDE DEF Good
<1>3. n \in T
  <2> HIDE DEF T
  <2>1. T \in SUBSET Nat
    BY DEF T
  <2> QED
    BY <1>1, <1>2, <2>1, Induction
<1>4. n <= n
  OBVIOUS
<1> QED
  BY <1>3, <1>4, Zenon DEF Good

\* What holds of the first value and is kept from each to the next holds of all.
LEMMA Carried ==
    ASSUME NEW S, NEW n \in Nat, NEW f, f[0] \in S,
           \A i \in 1..n : f[i - 1] \in S => f[i] \in S
    PROVE  \A i \in 0..n : f[i] \in S
<1> DEFINE T == {i \in Nat : i <= n => f[i] \in S}
<1>1. 0 \in T
  BY Zenon
<1>2. ASSUME NEW k \in T PROVE k + 1 \in T
  <2>1. /\ k + 1 \in Nat /\ (k + 1) - 1 = k
        /\ k + 1 <= n => k <= n /\ k + 1 \in 1..n
    OBVIOUS
  <2> QED
    BY <1>2, <2>1, Zenon
<1>3. T \in SUBSET Nat
  OBVIOUS
<1> HIDE DEF T
<1>4. \A i \in Nat : i \in T
  BY ONLY <1>1, <1>2, <1>3, Induction
<1>5. \A i \in 0..n : i \in Nat /\ i <= n
  OBVIOUS
<1> QED
  BY <1>4, <1>5, Zenon DEF T

\* What least picks.
LEMMA LeastIs ==
    ASSUME NEW S \in SUBSET Int, NEW x \in S, \A y \in S : x <= y
    PROVE  least(S) = x
<1>1. least(S) \in S /\ \A y \in S : least(S) <= y
  BY Zenon DEF least
<1>2. least(S) \in Int /\ x \in Int
  BY <1>1, Zenon
<1>3. least(S) <= x /\ x <= least(S)
  BY <1>1, Zenon
<1> QED
  BY ONLY <1>2, <1>3

-----------------------------------------------------------------------------
\* The locals of parse_qname.
Locals == [run : {"on", "true", "false"}, off : Nat, jumped : BOOLEAN, end : Nat,
           name : Seq(0..255)]

\* The locals before the first round.
Entry == [run |-> "on", off |-> 12, jumped |-> FALSE, end |-> 12, name |-> <<>>]

\* The elements and the pieces of a sequence are of its type.
LEMMA Pieces ==
    ASSUME NEW T, NEW q \in Seq(T)
    PROVE  /\ Len(q) \in Nat
           /\ \A i \in 1..Len(q) : q[i] \in T
           /\ \A m \in 1..Len(q) + 1, n \in 0..Len(q) : SubSeq(q, m, n) \in Seq(T)
OBVIOUS

\* A byte of a message, and what a label is.
LEMMA ByteAt ==
    ASSUME NEW q \in Seq(0..255), NEW o \in Nat, o < Len(q)
    PROVE  at(q, o) \in 0..255 /\ at(q, o) \in Nat
<1>1. o + 1 \in 1..Len(q)
  BY Pieces
<1>2. at(q, o) \in 0..255
  BY <1>1, Pieces, Zenon DEF at
<1>3. \A x \in 0..255 : x \in Nat
  OBVIOUS
<1> QED
  BY <1>2, <1>3, Zenon

LEMMA LabelTyped ==
    ASSUME NEW q \in Seq(0..255), NEW o \in Nat, o < Len(q), o + 1 + at(q, o) <= Len(q)
    PROVE  label(q, o) \in Seq(0..255)
<1>1. at(q, o) \in Nat /\ Len(q) \in Nat
  BY ByteAt, Pieces, Zenon
<1>2. o + 2 \in 1..Len(q) + 1 /\ o + 1 + at(q, o) \in 0..Len(q)
  BY ONLY <1>1, o \in Nat, o < Len(q), o + 1 + at(q, o) <= Len(q)
<1> QED
  BY <1>2, Pieces, Zenon DEF label

\* A dot at the end of a name is taken away.
LEMMA StripTyped ==
    ASSUME NEW s \in Seq(0..255)
    PROVE  strip_dot(s) \in Seq(0..255)
BY DEF strip_dot

\* What a round of parse_qname does with the byte it finds.
LEMMA RoundIs ==
    ASSUME NEW q \in Seq(0..255), NEW s \in Locals
    PROVE  LET o == s.off
               b == at(q, o)
               r == qname_round(q, s)
           IN  /\ o >= Len(q) => r = [s EXCEPT !.run = "false"]
               /\ o < Len(q) /\ b = 0 =>
                      r = [s EXCEPT !.run = "true", !.name = strip_dot(s.name),
                                    !.off = IF s.jumped THEN s.end ELSE o + 1]
               /\ o < Len(q) /\ b # 0 /\ ~fits(q, o) => r = [s EXCEPT !.run = "false"]
               /\ o < Len(q) /\ b >= 192 /\ fits(q, o) =>
                      r = [s EXCEPT !.off = follow(q, o), !.jumped = TRUE,
                                    !.end = IF s.jumped THEN s.end ELSE o + 2]
               /\ o < Len(q) /\ b # 0 /\ b < 192 /\ fits(q, o) =>
                      r = [s EXCEPT !.off = follow(q, o),
                                    !.name = s.name \o label(q, o) \o <<Dot>>]
<1> DEFINE o == s.off
           b == at(q, o)
           r == qname_round(q, s)
<1>0. o \in Nat /\ (o < Len(q) => b \in Nat) /\ Len(q) \in Nat
  BY ByteAt, Pieces, Zenon DEF Locals
<1>1. CASE o >= Len(q)
  <2>1. ~(o < Len(q))
    BY ONLY <1>0, <1>1
  <2>2. r = [s EXCEPT !.run = "false"]
    BY <1>1, Zenon DEF qname_round
  <2> QED
    BY <2>1, <2>2, Zenon
<1>2. CASE o < Len(q)
  <2>1. ~(o >= Len(q)) /\ b \in Nat
    BY ONLY <1>0, <1>2
  <2>2. /\ b >= 192 => b # 0 /\ ~(b < 192) /\ (o + 1 < Len(q) <=> ~(o + 1 >= Len(q)))
        /\ b < 192 => ~(b >= 192) /\ (o + 1 + b <= Len(q) <=> ~(o + 1 + b > Len(q)))
        /\ (b < 192 \/ b >= 192) /\ (b = 0 => b < 192)
    BY ONLY <1>0, <2>1
  <2>3. ASSUME b = 0
        PROVE  r = [s EXCEPT !.run = "true", !.name = strip_dot(s.name),
                             !.off = IF s.jumped THEN s.end ELSE o + 1]
    BY <2>1, <2>2, <2>3, Zenon DEF qname_round, name_end
  <2>4. ASSUME b >= 192, ~fits(q, o) PROVE r = [s EXCEPT !.run = "false"]
    BY <2>1, <2>2, <2>4, Zenon DEF qname_round, fits
  <2>5. ASSUME b >= 192, fits(q, o)
        PROVE  r = [s EXCEPT !.off = follow(q, o), !.jumped = TRUE,
                             !.end = IF s.jumped THEN s.end ELSE o + 2]
    BY <2>1, <2>2, <2>5, Zenon DEF qname_round, name_end, fits, follow
  <2>6. ASSUME b # 0, b < 192, ~fits(q, o) PROVE r = [s EXCEPT !.run = "false"]
    BY <2>1, <2>2, <2>6, Zenon DEF qname_round, fits
  <2>7. ASSUME b # 0, b < 192, fits(q, o)
        PROVE  r = [s EXCEPT !.off = follow(q, o), !.name = s.name \o label(q, o) \o <<Dot>>]
    BY <2>1, <2>2, <2>7, Zenon DEF qname_round, fits, follow
  <2>8. b # 0 /\ ~fits(q, o) => r = [s EXCEPT !.run = "false"]
    BY <2>2, <2>4, <2>6, Zenon
  <2> HIDE DEF o, b, r
  <2> QED
    BY <2>1, <2>3, <2>5, <2>7, <2>8, Zenon DEF o, b, r
<1>3. o >= Len(q) \/ o < Len(q)
  BY ONLY <1>0
<1> QED
  BY <1>1, <1>2, <1>3, Zenon

\* Where a pointer or a label leads is a number, and a label's bytes are bytes.
LEMMA FollowTyped ==
    ASSUME NEW q \in Seq(0..255), NEW o \in Nat, o < Len(q), fits(q, o)
    PROVE  /\ follow(q, o) \in Nat
           /\ at(q, o) < 192 => label(q, o) \in Seq(0..255)
<1>1. at(q, o) \in Nat /\ Len(q) \in Nat
  BY ByteAt, Pieces, Zenon
<1>2. CASE at(q, o) >= 192
  <2>1. o + 1 < Len(q) /\ o + 1 \in Nat /\ ~(at(q, o) < 192)
    BY <1>1, <1>2 DEF fits
  <2>2. at(q, o + 1) \in Nat
    BY <2>1, ByteAt, Zenon
  <2>3. (at(q, o) % 64) * 256 + at(q, o + 1) \in Nat
    BY ONLY <1>1, <2>2
  <2> QED
    BY <1>2, <2>1, <2>3, Zenon DEF follow
<1>3. CASE at(q, o) < 192
  <2>1. ~(at(q, o) >= 192)
    BY ONLY <1>1, <1>3
  <2>2. o + 1 + at(q, o) <= Len(q)
    BY <2>1, Zenon DEF fits
  <2>3. o + 1 + at(q, o) \in Nat
    BY ONLY <1>1, o \in Nat
  <2> QED
    BY <2>1, <2>2, <2>3, LabelTyped, Zenon DEF follow
<1>4. at(q, o) >= 192 \/ at(q, o) < 192
  BY ONLY <1>1
<1> QED
  BY <1>2, <1>3, <1>4, Zenon

\* The locals stay of their types.
LEMMA RoundTyped ==
    ASSUME NEW q \in Seq(0..255), NEW s \in Locals
    PROVE  qname_round(q, s) \in Locals
<1> DEFINE o == s.off
           r == qname_round(q, s)
<1>1. /\ o \in Nat /\ s.end \in Nat /\ o + 1 \in Nat /\ o + 2 \in Nat
      /\ s.name \in Seq(0..255) /\ strip_dot(s.name) \in Seq(0..255) /\ Len(q) \in Nat
  BY StripTyped, Pieces DEF Locals
<1>2. o >= Len(q) \/ o < Len(q)
  BY ONLY <1>1
<1>3. [s EXCEPT !.run = "false"] \in Locals
  BY DEF Locals
<1>4. CASE o < Len(q) /\ at(q, o) = 0
  <2>1. [s EXCEPT !.run = "true", !.name = strip_dot(s.name),
                  !.off = IF s.jumped THEN s.end ELSE o + 1] \in Locals
    BY <1>1, Zenon DEF Locals
  <2> QED
    BY <1>4, <2>1, RoundIs, Zenon
<1>5. CASE o < Len(q) /\ at(q, o) >= 192 /\ fits(q, o)
  <2>1. follow(q, o) \in Nat
    BY <1>1, <1>5, FollowTyped, Zenon
  <2>2. [s EXCEPT !.off = follow(q, o), !.jumped = TRUE,
                  !.end = IF s.jumped THEN s.end ELSE o + 2] \in Locals
    BY <1>1, <2>1, Zenon DEF Locals
  <2> QED
    BY <1>5, <2>2, RoundIs, Zenon
<1>6. CASE o < Len(q) /\ at(q, o) # 0 /\ at(q, o) < 192 /\ fits(q, o)
  <2>1. follow(q, o) \in Nat /\ label(q, o) \in Seq(0..255)
    BY <1>1, <1>6, FollowTyped, Zenon
  <2>2. s.name \o label(q, o) \o <<Dot>> \in Seq(0..255)
    <3>1. <<Dot>> \in Seq(0..255)
      BY DEF Dot
    <3> QED
      BY ONLY <1>1, <2>1, <3>1
  <2>3. [s EXCEPT !.off = follow(q, o), !.name = s.name \o label(q, o) \o <<Dot>>] \in Locals
    BY <2>1, <2>2, Zenon DEF Locals
  <2> QED
    BY <1>6, <2>3, RoundIs, Zenon
<1>7. o < Len(q) => at(q, o) >= 192 \/ at(q, o) < 192
  BY <1>1, ByteAt
<1> QED
  BY <1>2, <1>3, <1>4, <1>5, <1>6, <1>7, RoundIs, Zenon

\* The locals of parse_qname after each round.
LEMMA RoundsAre ==
    ASSUME NEW q \in Seq(0..255)
    PROVE  LET r == qname_rounds(q, 12)
           IN  /\ r \in [0..Hops -> Locals] /\ r[0] = Entry
               /\ \A i \in 1..Hops :
                      r[i] = IF r[i - 1].run = "on" THEN qname_round(q, r[i - 1]) ELSE r[i - 1]
<1> DEFINE step(s) == IF s.run = "on" THEN qname_round(q, s) ELSE s
           P(r) == r = [i \in 0..Hops |-> IF i = 0 THEN Entry ELSE step(r[i - 1])]
           F == [i \in 1..Hops |-> [s \in Locals |-> step(s)]]
<1>1. qname_rounds(q, 12) = CHOOSE r : P(r)
  BY Zenon DEF qname_rounds, Entry
<1>2. F \in Steps(Hops, Locals)
  BY RoundTyped, Zenon DEF Steps
<1>3. Entry \in Locals /\ Hops \in Nat
  BY DnsAssumption DEF Entry, Locals
<1> HIDE DEF step
<1>4. PICK f : f \in [0..Hops -> Locals] /\ f[0] = Entry /\ \A i \in 1..Hops : f[i] = F[i][f[i - 1]]
  <2> HIDE DEF F
  <2>1. \E f : Iterates(f, Hops, Locals, F, Entry)
    BY ONLY <1>2, <1>3, Iterated, Zenon
  <2> QED
    BY <2>1, Zenon DEF Iterates
<1>5. \A i \in 1..Hops : i - 1 \in 0..Hops /\ i \in 0..Hops /\ i # 0
  BY <1>3
<1>6. \A i \in 0..Hops : i # 0 => i \in 1..Hops
  BY <1>3
<1>7. \A i \in 1..Hops : f[i] = step(f[i - 1])
  BY <1>4, <1>5, Zenon
<1>8. P(f)
  <2>1. f = [i \in 0..Hops |-> f[i]]
    BY <1>4, Zenon
  <2>2. \A i \in 0..Hops : f[i] = IF i = 0 THEN Entry ELSE step(f[i - 1])
    BY <1>4, <1>6, <1>7, Zenon
  <2> QED
    BY <2>1, <2>2, Zenon
<1> HIDE DEF P
<1>9. P(CHOOSE r : P(r))
  BY <1>8, Zenon
<1>10. PICK r : r = qname_rounds(q, 12) /\ P(r)
  BY <1>1, <1>9, Zenon
<1>11. /\ r = [i \in 0..Hops |-> IF i = 0 THEN Entry ELSE step(r[i - 1])]
       /\ r[0] = Entry /\ \A i \in 1..Hops : r[i] = step(r[i - 1])
  <2>1. r = [i \in 0..Hops |-> IF i = 0 THEN Entry ELSE step(r[i - 1])]
    BY <1>10, Zenon DEF P
  <2>2. 0 \in 0..Hops
    BY <1>3
  <2> QED
    BY ONLY <1>5, <2>1, <2>2, Zenon
<1>12. \A i \in 0..Hops : r[i] \in Locals
  <2>1. \A i \in 1..Hops : r[i - 1] \in Locals => r[i] \in Locals
    BY <1>11, RoundTyped, Zenon DEF step
  <2> QED
    BY ONLY <1>3, <1>11, <2>1, Carried, Zenon
<1>13. r \in [0..Hops -> Locals]
  BY ONLY <1>11, <1>12, Zenon
<1> QED
  BY <1>10, <1>11, <1>13, Zenon DEF step

\* The offsets a reader of a name is at.
Places(q) == {-1} \cup 0..(Len(q) - 1)

\* Where a reader that is at o gets in a step.
Onward(q, o) ==
    IF o # -1 /\ fits(q, o) /\ follow(q, o) < Len(q) THEN follow(q, o) ELSE -1

\* The offsets of the reference, from one to the next.
LEMMA VisitsAre ==
    ASSUME NEW q \in Seq(0..255)
    PROVE  LET v == visits(q)
           IN  /\ v \in [0..Hops -> Places(q)]
               /\ v[0] = IF Len(q) > 12 THEN 12 ELSE -1
               /\ \A i \in 1..Hops : v[i] = Onward(q, v[i - 1])
<1> DEFINE S == Places(q)
           a == IF Len(q) > 12 THEN 12 ELSE -1
           P(v) == v = [i \in 0..Hops |-> IF i = 0 THEN a ELSE Onward(q, v[i - 1])]
           F == [i \in 1..Hops |-> [o \in S |-> Onward(q, o)]]
<1>1. visits(q) = CHOOSE v : P(v)
  BY Zenon DEF visits, Onward
<1>0. \A o \in S : Onward(q, o) \in S
  <2> SUFFICES ASSUME NEW o \in S, o # -1, fits(q, o), follow(q, o) < Len(q)
               PROVE  follow(q, o) \in S
    BY Zenon DEF Onward, Places
  <2>1. Len(q) \in Nat
    BY Pieces, Zenon
  <2>2. o \in Nat /\ o < Len(q)
    BY <2>1 DEF Places
  <2>3. follow(q, o) \in Nat
    BY <2>2, FollowTyped, Zenon
  <2> QED
    BY <2>1, <2>3 DEF Places
<1>2. F \in Steps(Hops, S)
  BY <1>0, Zenon DEF Steps
<1>3. a \in S /\ Hops \in Nat
  <2>1. Len(q) \in Nat
    BY Pieces, Zenon
  <2> QED
    BY <2>1, DnsAssumption DEF Places
<1> HIDE DEF S, a
<1>4. PICK f : f \in [0..Hops -> S] /\ f[0] = a /\ \A i \in 1..Hops : f[i] = F[i][f[i - 1]]
  <2> HIDE DEF F
  <2>1. \E f : Iterates(f, Hops, S, F, a)
    BY ONLY <1>2, <1>3, Iterated, Zenon
  <2> QED
    BY <2>1, Zenon DEF Iterates
<1>5. \A i \in 1..Hops : i - 1 \in 0..Hops /\ i \in 0..Hops /\ i # 0
  BY <1>3
<1>6. \A i \in 0..Hops : i # 0 => i \in 1..Hops
  BY <1>3
<1>7. \A i \in 1..Hops : f[i] = Onward(q, f[i - 1])
  BY <1>4, <1>5, Zenon
<1>8. P(f)
  <2>1. f = [i \in 0..Hops |-> f[i]]
    BY <1>4, Zenon
  <2>2. \A i \in 0..Hops : f[i] = IF i = 0 THEN a ELSE Onward(q, f[i - 1])
    BY <1>4, <1>6, <1>7, Zenon
  <2> QED
    BY <2>1, <2>2, Zenon
<1> HIDE DEF P
<1>9. P(CHOOSE v : P(v))
  BY <1>8, Zenon
<1>10. PICK v : v = visits(q) /\ P(v)
  BY <1>1, <1>9, Zenon
<1>11. /\ v = [i \in 0..Hops |-> IF i = 0 THEN a ELSE Onward(q, v[i - 1])]
       /\ v[0] = a /\ \A i \in 1..Hops : v[i] = Onward(q, v[i - 1])
  <2>1. v = [i \in 0..Hops |-> IF i = 0 THEN a ELSE Onward(q, v[i - 1])]
    BY <1>10, Zenon DEF P
  <2>2. 0 \in 0..Hops
    BY <1>3
  <2> QED
    BY ONLY <1>5, <2>1, <2>2, Zenon
<1>12. \A i \in 0..Hops : v[i] \in S
  <2>1. \A i \in 1..Hops : v[i - 1] \in S => v[i] \in S
    BY <1>0, <1>11, Zenon
  <2> QED
    BY ONLY <1>3, <1>11, <2>1, Carried, Zenon
<1>13. v \in [0..Hops -> S]
  BY ONLY <1>11, <1>12, Zenon
<1> QED
  BY <1>10, <1>11, <1>13, Zenon DEF a, S

\* What the reader has spelled after it left o.
Spell(q, o, w) ==
    IF o # -1 /\ fits(q, o) /\ at(q, o) < 192 THEN w \o label(q, o) \o <<Dot>> ELSE w

\* What the reference spells, from one offset to the next.
LEMMA SpelledAre ==
    ASSUME NEW q \in Seq(0..255)
    PROVE  LET w == spelled(q)
           IN  /\ w[0] = <<>>
               /\ \A i \in 1..Hops : w[i] = Spell(q, visits(q)[i - 1], w[i - 1])
<1> DEFINE S == Seq(0..255)
           v == visits(q)
           P(w) == w = [i \in 0..Hops |-> IF i = 0 THEN <<>> ELSE Spell(q, v[i - 1], w[i - 1])]
           F == [i \in 1..Hops |-> [w \in S |-> Spell(q, v[i - 1], w)]]
<1>1. spelled(q) = CHOOSE w : P(w)
  BY Zenon DEF spelled, Spell
<1>0. \A i \in 1..Hops : \A w \in S : Spell(q, v[i - 1], w) \in S
  <2> SUFFICES ASSUME NEW i \in 1..Hops, NEW w \in S, v[i - 1] # -1, fits(q, v[i - 1]),
                      at(q, v[i - 1]) < 192
               PROVE  w \o label(q, v[i - 1]) \o <<Dot>> \in S
    BY Zenon DEF Spell
  <2>1. i - 1 \in 0..Hops /\ Len(q) \in Nat
    BY DnsAssumption, Pieces
  <2>2. v[i - 1] \in Places(q)
    BY <2>1, VisitsAre, Zenon
  <2>3. v[i - 1] \in Nat /\ v[i - 1] < Len(q)
    BY ONLY <2>1, <2>2, v[i - 1] # -1 DEF Places
  <2>4. label(q, v[i - 1]) \in S
    BY <2>3, FollowTyped, Zenon
  <2>5. <<Dot>> \in S
    BY DEF Dot
  <2> QED
    BY ONLY w \in S, <2>4, <2>5
<1>2. F \in Steps(Hops, S)
  BY <1>0, Zenon DEF Steps
<1>3. <<>> \in S /\ Hops \in Nat
  BY DnsAssumption
<1> HIDE DEF S, v
<1>4. PICK f : f \in [0..Hops -> S] /\ f[0] = <<>> /\ \A i \in 1..Hops : f[i] = F[i][f[i - 1]]
  <2> HIDE DEF F
  <2>1. \E f : Iterates(f, Hops, S, F, <<>>)
    BY ONLY <1>2, <1>3, Iterated, Zenon
  <2> QED
    BY <2>1, Zenon DEF Iterates
<1>5. \A i \in 1..Hops : i - 1 \in 0..Hops /\ i \in 0..Hops /\ i # 0
  BY <1>3
<1>6. \A i \in 0..Hops : i # 0 => i \in 1..Hops
  BY <1>3
<1>7. \A i \in 1..Hops : f[i] = Spell(q, v[i - 1], f[i - 1])
  BY <1>4, <1>5, Zenon
<1>8. P(f)
  <2>1. f = [i \in 0..Hops |-> f[i]]
    BY <1>4, Zenon
  <2>2. \A i \in 0..Hops : f[i] = IF i = 0 THEN <<>> ELSE Spell(q, v[i - 1], f[i - 1])
    BY <1>4, <1>6, <1>7, Zenon
  <2> QED
    BY <2>1, <2>2, Zenon
<1> HIDE DEF P
<1>9. P(CHOOSE w : P(w))
  BY <1>8, Zenon
<1>10. PICK w : w = spelled(q) /\ P(w)
  BY <1>1, <1>9, Zenon
<1>11. w[0] = <<>> /\ \A i \in 1..Hops : w[i] = Spell(q, v[i - 1], w[i - 1])
  <2>1. w = [i \in 0..Hops |-> IF i = 0 THEN <<>> ELSE Spell(q, v[i - 1], w[i - 1])]
    BY <1>10, Zenon DEF P
  <2>2. 0 \in 0..Hops
    BY <1>3
  <2> QED
    BY ONLY <1>5, <2>1, <2>2, Zenon
<1> QED
  BY <1>10, <1>11, Zenon DEF v

\* A reader that has left the message stays outside.
LEMMA StaysOut ==
    ASSUME NEW q \in Seq(0..255), NEW k \in 0..Hops, visits(q)[k] = -1
    PROVE  \A m \in k..Hops : visits(q)[m] = -1
<1> DEFINE v == visits(q)
           n == Hops - k
           f == [j \in 0..n |-> v[k + j]]
           Out == {-1}
<1>0. Hops \in Nat /\ k \in Nat /\ n \in Nat
  BY DnsAssumption
<1>1. \A i \in 1..Hops : v[i - 1] = -1 => v[i] = -1
  BY VisitsAre, Zenon DEF Onward
<1> HIDE DEF v
<1>2. f[0] \in Out
  <2>1. f[0] = v[k]
    BY <1>0
  <2> QED
    BY <2>1, Zenon DEF v
<1>3. ASSUME NEW i \in 1..n, f[i - 1] \in Out PROVE f[i] \in Out
  <2>1. f[i - 1] = v[(k + i) - 1] /\ f[i] = v[k + i] /\ k + i \in 1..Hops
    BY <1>0
  <2> HIDE DEF f
  <2>2. v[(k + i) - 1] = -1
    BY ONLY <1>3, <2>1, Zenon
  <2> QED
    BY ONLY <1>1, <2>1, <2>2, Zenon
<1>4. \A i \in 0..n : f[i] \in Out
  <2> HIDE DEF f, n, Out
  <2> QED
    BY ONLY <1>0, <1>2, <1>3, Carried, Zenon
<1>5. ASSUME NEW m \in k..Hops PROVE v[m] = -1
  <2>1. m - k \in 0..n /\ k + (m - k) = m
    BY <1>0
  <2>2. f[m - k] = v[m]
    BY <2>1
  <2> QED
    BY <1>4, <2>1, <2>2, Zenon
<1> QED
  BY <1>5, Zenon DEF v

-----------------------------------------------------------------------------
\* The step k is at a pointer, and no step before it is.
FirstPointer(q, v, k) ==
    /\ at(q, v[k]) >= 192
    /\ \A j \in 0..k - 1 : ~(at(q, v[j]) >= 192)

\* Steps 0 to i - 1 are in the message, and none finds the byte 0.
Reads(q, v, i) == \A k \in 0..i - 1 : v[k] # -1 /\ at(q, v[k]) # 0

\* While the loop of parse_qname runs, its offset is the reader's, its name what
\* the reader spelled, and its end is behind the first pointer.
OnOK(q, s, v, w, i) ==
    /\ Reads(q, v, i)
    /\ v[i] = IF s.off < Len(q) THEN s.off ELSE -1
    /\ s.name = w[i]
    /\ s.jumped <=> \E k \in 0..i - 1 : at(q, v[k]) >= 192
    /\ \A k \in 0..i - 1 : FirstPointer(q, v, k) => s.end = v[k] + 2

\* When it has returned true, some step before found the first byte 0.
TrueOK(q, s, v, w, i) ==
    \E z \in 0..i - 1 :
        /\ Reads(q, v, z) /\ v[z] # -1 /\ at(q, v[z]) = 0
        /\ s.name = strip_dot(w[z])
        /\ (\A k \in 0..z - 1 : ~(at(q, v[k]) >= 192)) => s.off = v[z] + 1
        /\ \A k \in 0..z - 1 : FirstPointer(q, v, k) => s.off = v[k] + 2

\* When it has returned false, no step finds one.
FalseOK(q, v) == \A k \in 0..Hops : v[k] # -1 => at(q, v[k]) # 0

RoundOK(q, s, v, w, i) ==
    /\ s.run = "on" => OnOK(q, s, v, w, i)
    /\ s.run = "true" => TrueOK(q, s, v, w, i)
    /\ s.run = "false" => FalseOK(q, v)

\* Before the first round.
LEMMA EntryOK ==
    ASSUME NEW q \in Seq(0..255), NEW v, NEW w,
           v[0] = IF Len(q) > 12 THEN 12 ELSE -1, w[0] = <<>>
    PROVE  RoundOK(q, Entry, v, w, 0)
<1>1. /\ Entry.run = "on" /\ Entry.off = 12 /\ Entry.name = <<>> /\ Entry.jumped = FALSE
  BY Zenon DEF Entry
<1>2. Len(q) > 12 <=> 12 < Len(q)
  BY Pieces
<1>3. \A k \in 0..0 - 1 : FALSE
  OBVIOUS
<1> HIDE DEF Entry
<1>4. OnOK(q, Entry, v, w, 0)
  BY <1>1, <1>2, <1>3, Zenon DEF OnOK, Reads
<1> QED
  BY <1>1, <1>4 DEF RoundOK

\* A round of parse_qname is a step of the reader.
LEMMA RoundKeeps ==
    ASSUME NEW q \in Seq(0..255), NEW v, NEW w, NEW i \in 1..Hops, NEW s \in Locals,
           s.run = "on", OnOK(q, s, v, w, i - 1),
           v[i] = Onward(q, v[i - 1]), w[i] = Spell(q, v[i - 1], w[i - 1]),
           \A k \in 0..Hops : v[k] = -1 => \A m \in k..Hops : v[m] = -1
    PROVE  RoundOK(q, qname_round(q, s), v, w, i)
<1> DEFINE o == s.off
           h == i - 1
           t == qname_round(q, s)
<1>0. /\ Hops \in Nat /\ i \in Nat /\ h \in 0..Hops /\ i \in 0..Hops /\ h \in 0..i - 1
      /\ i \in i..Hops
  BY DnsAssumption
<1>a. /\ \A k \in 0..i - 1 : k \in 0..h - 1 \/ k = h
      /\ \A k \in 0..h - 1 : k \in 0..i - 1 /\ k # h
      /\ \A k \in 0..Hops : k \in 0..h - 1 \/ k \in h..Hops
      /\ \A k \in 0..Hops : k \in 0..h - 1 \/ k = h \/ k \in i..Hops
  BY <1>0
<1>b. /\ o \in Nat /\ Len(q) \in Nat /\ (o < Len(q) => at(q, o) \in Nat) /\ o # -1
  BY Pieces, ByteAt DEF Locals
<1>c. /\ Reads(q, v, h)
      /\ v[h] = IF o < Len(q) THEN o ELSE -1
      /\ s.name = w[h]
      /\ s.jumped <=> \E k \in 0..h - 1 : at(q, v[k]) >= 192
      /\ \A k \in 0..h - 1 : FirstPointer(q, v, k) => s.end = v[k] + 2
  BY Zenon DEF OnOK
<1>d. /\ v[i] = Onward(q, v[h]) /\ w[i] = Spell(q, v[h], w[h])
      /\ \A k \in 0..Hops : v[k] = -1 => \A m \in k..Hops : v[m] = -1
  OBVIOUS
<1> HIDE DEF h
<1>1. CASE o >= Len(q)
  <2>1. ~(o < Len(q))
    BY ONLY <1>b, <1>1
  <2>2. v[h] = -1
    BY ONLY <1>c, <2>1, Zenon
  <2>3. FalseOK(q, v)
    BY ONLY <1>0, <1>a, <1>c, <1>d, <2>2, Zenon DEF FalseOK, Reads
  <2>4. t.run = "false"
    <3>1. t = [s EXCEPT !.run = "false"]
      BY <1>1, RoundIs, Zenon
    <3> QED
      BY <3>1 DEF Locals
  <2> QED
    BY ONLY <2>3, <2>4 DEF RoundOK
<1>2. CASE o < Len(q) /\ at(q, o) = 0
  <2>1. t = [s EXCEPT !.run = "true", !.name = strip_dot(s.name),
                      !.off = IF s.jumped THEN s.end ELSE o + 1]
    BY <1>2, RoundIs, Zenon
  <2>2. t.run = "true" /\ t.name = strip_dot(s.name) /\ t.off = IF s.jumped THEN s.end ELSE o + 1
    BY ONLY <2>1, s \in Locals DEF Locals
  <2> HIDE DEF t, o
  <2>3. v[h] = o
    BY ONLY <1>2, <1>c, Zenon
  <2>4. \A k \in 0..h - 1 : FirstPointer(q, v, k) => s.jumped /\ s.end = v[k] + 2
    BY ONLY <1>c, Zenon DEF FirstPointer
  <2>5. Reads(q, v, h) /\ v[h] # -1 /\ at(q, v[h]) = 0 /\ t.name = strip_dot(w[h])
    BY ONLY <1>2, <1>b, <1>c, <2>2, <2>3, Zenon
  <2>6. (\A k \in 0..h - 1 : ~(at(q, v[k]) >= 192)) => t.off = v[h] + 1
    BY ONLY <1>c, <2>2, <2>3, Zenon
  <2>7. \A k \in 0..h - 1 : FirstPointer(q, v, k) => t.off = v[k] + 2
    BY ONLY <2>2, <2>4, Zenon
  <2>8. TrueOK(q, t, v, w, i)
    BY ONLY <1>0, <2>5, <2>6, <2>7, Zenon DEF TrueOK
  <2> QED
    BY ONLY <2>2, <2>8 DEF RoundOK, t
<1>3. CASE o < Len(q) /\ at(q, o) # 0 /\ ~fits(q, o)
  <2>1. v[h] = o /\ v[i] = -1
    BY ONLY <1>3, <1>c, <1>d, Zenon DEF Onward
  <2>2. FalseOK(q, v)
    BY ONLY <1>0, <1>3, <1>a, <1>c, <1>d, <2>1, Zenon DEF FalseOK, Reads
  <2>3. t.run = "false"
    <3>1. t = [s EXCEPT !.run = "false"]
      BY <1>3, RoundIs, Zenon
    <3> QED
      BY <3>1 DEF Locals
  <2> QED
    BY ONLY <2>2, <2>3 DEF RoundOK
<1>4. CASE o < Len(q) /\ at(q, o) >= 192 /\ fits(q, o)
  <2>1. t = [s EXCEPT !.off = follow(q, o), !.jumped = TRUE,
                      !.end = IF s.jumped THEN s.end ELSE o + 2]
    BY <1>4, RoundIs, Zenon
  <2>2. /\ t.run = "on" /\ t.name = s.name /\ t.off = follow(q, o) /\ t.jumped = TRUE
        /\ t.end = IF s.jumped THEN s.end ELSE o + 2
    BY ONLY <2>1, s \in Locals, s.run = "on" DEF Locals
  <2> HIDE DEF t, o
  <2>3. v[h] = o /\ v[i] = IF t.off < Len(q) THEN t.off ELSE -1
    BY ONLY <1>4, <1>b, <1>c, <1>d, <2>2, Zenon DEF Onward
  <2>4. ~(at(q, o) < 192) /\ at(q, o) # 0
    BY ONLY <1>4, <1>b
  <2>5. w[i] = w[h] /\ Reads(q, v, i)
    BY ONLY <1>4, <1>a, <1>b, <1>c, <1>d, <2>3, <2>4, Zenon DEF Spell, Reads
  <2>6. \E k \in 0..i - 1 : at(q, v[k]) >= 192
    BY ONLY <1>0, <1>4, <2>3, Zenon
  <2>7. ASSUME NEW k \in 0..i - 1, FirstPointer(q, v, k) PROVE t.end = v[k] + 2
    <3>1. CASE k = h
      <4>1. ~s.jumped
        BY ONLY <1>c, <2>7, <3>1, Zenon DEF FirstPointer
      <4> QED
        BY ONLY <2>2, <2>3, <3>1, <4>1, Zenon
    <3>2. CASE k \in 0..h - 1
      <4>1. s.jumped /\ s.end = v[k] + 2
        BY ONLY <1>c, <2>7, <3>2, Zenon DEF FirstPointer
      <4> QED
        BY ONLY <2>2, <4>1, Zenon
    <3> QED
      BY ONLY <1>a, <2>7, <3>1, <3>2, Zenon
  <2>8. OnOK(q, t, v, w, i)
    BY ONLY <1>c, <2>2, <2>3, <2>5, <2>6, <2>7, Zenon DEF OnOK
  <2> QED
    BY ONLY <2>2, <2>8 DEF RoundOK, t
<1>5. CASE o < Len(q) /\ at(q, o) # 0 /\ at(q, o) < 192 /\ fits(q, o)
  <2>1. t = [s EXCEPT !.off = follow(q, o), !.name = s.name \o label(q, o) \o <<Dot>>]
    BY <1>5, RoundIs, Zenon
  <2>2. /\ t.run = "on" /\ t.name = s.name \o label(q, o) \o <<Dot>> /\ t.off = follow(q, o)
        /\ t.jumped = s.jumped /\ t.end = s.end
    BY ONLY <2>1, s \in Locals, s.run = "on" DEF Locals
  <2> HIDE DEF t, o
  <2>3. v[h] = o /\ v[i] = IF t.off < Len(q) THEN t.off ELSE -1
    BY ONLY <1>5, <1>b, <1>c, <1>d, <2>2, Zenon DEF Onward
  <2>4. ~(at(q, o) >= 192)
    BY ONLY <1>5, <1>b
  <2>5. t.name = w[i] /\ Reads(q, v, i)
    BY ONLY <1>5, <1>a, <1>b, <1>c, <1>d, <2>2, <2>3, Zenon DEF Spell, Reads
  <2>6. t.jumped <=> \E k \in 0..i - 1 : at(q, v[k]) >= 192
    BY ONLY <1>a, <1>c, <2>2, <2>3, <2>4, Zenon
  <2>7. \A k \in 0..i - 1 : FirstPointer(q, v, k) => t.end = v[k] + 2
    BY ONLY <1>a, <1>c, <2>2, <2>3, <2>4, Zenon DEF FirstPointer
  <2>8. OnOK(q, t, v, w, i)
    BY ONLY <2>3, <2>5, <2>6, <2>7, Zenon DEF OnOK
  <2> QED
    BY ONLY <2>2, <2>8 DEF RoundOK, t
<1>6. /\ o >= Len(q) \/ o < Len(q)
      /\ o < Len(q) => at(q, o) >= 192 \/ at(q, o) < 192
  BY ONLY <1>b
<1> QED
  BY <1>1, <1>2, <1>3, <1>4, <1>5, <1>6, Zenon

\* What parse_qname returns when all rounds are over.
LEMMA Parsed ==
    ASSUME NEW q \in Seq(0..255)
    PROVE  RoundOK(q, qname_rounds(q, 12)[Hops], visits(q), spelled(q), Hops)
<1> DEFINE r == qname_rounds(q, 12)
           v == visits(q)
           w == spelled(q)
           T == {i \in Nat : i <= Hops => RoundOK(q, r[i], v, w, i)}
<1>0. Hops \in Nat
  BY DnsAssumption
<1>1. /\ r \in [0..Hops -> Locals] /\ r[0] = Entry
      /\ \A i \in 1..Hops :
             r[i] = IF r[i - 1].run = "on" THEN qname_round(q, r[i - 1]) ELSE r[i - 1]
  BY RoundsAre, Zenon
<1>2. /\ v[0] = IF Len(q) > 12 THEN 12 ELSE -1
      /\ \A i \in 1..Hops : v[i] = Onward(q, v[i - 1])
  BY VisitsAre, Zenon
<1>3. w[0] = <<>> /\ \A i \in 1..Hops : w[i] = Spell(q, v[i - 1], w[i - 1])
  BY SpelledAre, Zenon
<1>4. \A k \in 0..Hops : v[k] = -1 => \A m \in k..Hops : v[m] = -1
  BY StaysOut, Zenon
<1> HIDE DEF r, v, w
<1>5. 0 \in T
  BY <1>1, <1>2, <1>3, EntryOK, Zenon
<1>6. ASSUME NEW k \in T PROVE k + 1 \in T
  <2> SUFFICES ASSUME k + 1 <= Hops PROVE RoundOK(q, r[k + 1], v, w, k + 1)
    OBVIOUS
  <2> DEFINE i == k + 1
             s == r[k]
  <2>1. k \in Nat /\ k <= Hops /\ i \in 1..Hops /\ i - 1 = k /\ k \in 0..Hops
    BY <1>0
  <2>2. RoundOK(q, s, v, w, k)
    BY <2>1, Zenon
  <2>3. s \in Locals /\ r[i] = IF s.run = "on" THEN qname_round(q, s) ELSE s
    BY <1>1, <2>1, Zenon
  <2>4. v[i] = Onward(q, v[i - 1]) /\ w[i] = Spell(q, v[i - 1], w[i - 1])
    BY <1>2, <1>3, <2>1, Zenon
  <2> HIDE DEF i, s
  <2>5. CASE s.run = "on"
    <3>1. OnOK(q, s, v, w, i - 1)
      BY ONLY <2>1, <2>2, <2>5, Zenon DEF RoundOK
    <3>2. RoundOK(q, qname_round(q, s), v, w, i)
      BY ONLY q \in Seq(0..255), <1>4, <2>1, <2>3, <2>4, <2>5, <3>1, RoundKeeps, Zenon
    <3> QED
      BY ONLY <2>3, <2>5, <3>2, Zenon DEF i
  <2>6. CASE s.run # "on"
    <3>1. \A z \in 0..k - 1 : z \in 0..i - 1
      BY <2>1
    <3>2. TrueOK(q, s, v, w, k) => TrueOK(q, s, v, w, i)
      BY ONLY <3>1, Zenon DEF TrueOK
    <3>3. RoundOK(q, s, v, w, i)
      BY ONLY <2>2, <2>6, <3>2, Zenon DEF RoundOK
    <3> QED
      BY ONLY <2>3, <2>6, <3>3, Zenon DEF i
  <2> QED
    BY ONLY <2>5, <2>6, Zenon
<1>7. T \in SUBSET Nat
  OBVIOUS
<1>8. Hops \in T
  <2> HIDE DEF T
  <2> QED
    BY ONLY <1>0, <1>5, <1>6, <1>7, Induction, Zenon
<1>9. Hops <= Hops
  BY <1>0
<1> QED
  BY <1>8, <1>9, Zenon DEF r, v, w

\* parse_qname succeeds exactly on good names, and leaves the name, and the offset
\* behind it, that the reference has.
LEMMA ParseIs ==
    ASSUME NEW q \in Seq(0..255)
    PROVE  LET n == parse_qname(q, 12)
           IN  /\ n.ok <=> zeros(q) # {}
               /\ n.ok => /\ n.name = strip_dot(spelled(q)[least(zeros(q))])
                          /\ n.off = behind(q) /\ n.off \in Nat
<1> DEFINE s == qname_rounds(q, 12)[Hops]
           v == visits(q)
           w == spelled(q)
           n == parse_qname(q, 12)
           Z == zeros(q)
<1>0. Hops \in Nat /\ Hops \in 0..Hops /\ \A k \in 0..Hops - 1 : k \in 0..Hops /\ k \in Nat
  BY DnsAssumption
<1>1. n.ok = (s.run = "true") /\ n.name = s.name /\ n.off = s.off
  BY Zenon DEF parse_qname
<1>2. s \in Locals
  BY <1>0, RoundsAre, Zenon
<1>3. s.run \in {"on", "true", "false"} /\ s.off \in Nat
  BY <1>2 DEF Locals
<1>4. RoundOK(q, s, v, w, Hops)
  BY Parsed, Zenon
<1>5. Z = {i \in 0..Hops - 1 : v[i] # -1 /\ at(q, v[i]) = 0}
  BY Zenon DEF zeros
<1> HIDE DEF s, v, w, n, Z
<1>6. CASE s.run = "on"
  <2>1. Reads(q, v, Hops)
    BY ONLY <1>4, <1>6, Zenon DEF RoundOK, OnOK
  <2>2. Z = {}
    BY ONLY <1>5, <2>1, Zenon DEF Reads
  <2>3. ~n.ok
    BY ONLY <1>1, <1>6, Zenon
  <2> QED
    BY ONLY <2>2, <2>3, Zenon DEF n, Z
<1>7. CASE s.run = "false"
  <2>1. FalseOK(q, v)
    BY ONLY <1>4, <1>7, Zenon DEF RoundOK
  <2>2. Z = {}
    BY ONLY <1>0, <1>5, <2>1, Zenon DEF FalseOK
  <2>3. ~n.ok
    BY ONLY <1>1, <1>7, Zenon
  <2> QED
    BY ONLY <2>2, <2>3, Zenon DEF n, Z
<1>8. CASE s.run = "true"
  <2>1. TrueOK(q, s, v, w, Hops)
    BY ONLY <1>4, <1>8, Zenon DEF RoundOK
  <2>2. PICK z \in 0..Hops - 1 :
            /\ Reads(q, v, z) /\ v[z] # -1 /\ at(q, v[z]) = 0
            /\ s.name = strip_dot(w[z])
            /\ (\A k \in 0..z - 1 : ~(at(q, v[k]) >= 192)) => s.off = v[z] + 1
            /\ \A k \in 0..z - 1 : FirstPointer(q, v, k) => s.off = v[k] + 2
    BY ONLY <2>1, Zenon DEF TrueOK
  <2>3. z \in Z /\ Z \in SUBSET Int /\ z \in Nat
    BY ONLY <1>0, <1>5, <2>2
  <2>4. ASSUME NEW y \in Z PROVE z <= y
    <3>1. y \in Nat /\ at(q, v[y]) = 0
      BY ONLY <1>0, <1>5, <2>4, Zenon
    <3>2. y \notin 0..z - 1
      BY ONLY <2>2, <3>1, Zenon DEF Reads
    <3> QED
      BY ONLY <2>3, <3>1, <3>2
  <2>5. least(Z) = z
    BY ONLY <2>3, <2>4, LeastIs, Zenon
  <2> DEFINE ptrs == pointers(q)
  <2>6. ptrs = {i \in 0..z : at(q, v[i]) >= 192}
    BY <2>5, Zenon DEF pointers, v, Z
  <2>7. behind(q) = IF ptrs = {} THEN v[z] + 1 ELSE v[least(ptrs)] + 2
    BY <2>5, Zenon DEF behind, v, Z
  <2> HIDE DEF ptrs
  <2>8. ~(at(q, v[z]) >= 192)
    BY ONLY <2>2
  <2>9. s.off = behind(q)
    <3>0. \A k \in 0..z : k \in Nat /\ (k # z => k \in 0..z - 1)
      BY ONLY <2>3
    <3>a. \A k \in 0..z - 1 : k \in 0..z
      BY ONLY <2>3
    <3>1. CASE ptrs = {}
      <4>1. \A k \in 0..z - 1 : ~(at(q, v[k]) >= 192)
        BY ONLY <2>6, <3>1, <3>a, Zenon
      <4> QED
        BY ONLY <2>2, <2>7, <3>1, <4>1, Zenon
    <3>2. CASE ptrs # {}
      <4>1. ptrs \in SUBSET Nat /\ ptrs \in SUBSET Int
        BY ONLY <2>6, <3>0
      <4>2. PICK p \in ptrs : \A y \in ptrs : p <= y
        BY ONLY <3>2, <4>1, LeastNat, Zenon
      <4>3. least(ptrs) = p
        BY ONLY <4>1, <4>2, LeastIs, Zenon
      <4>4. p \in 0..z - 1 /\ at(q, v[p]) >= 192
        BY ONLY <2>6, <2>8, <3>0, <4>2, Zenon
      <4>5. \A j \in 0..p - 1 : j \in 0..z /\ ~(p <= j)
        BY ONLY <2>3, <4>4
      <4>6. FirstPointer(q, v, p)
        BY ONLY <2>6, <4>2, <4>4, <4>5, Zenon DEF FirstPointer
      <4> QED
        BY ONLY <2>2, <2>7, <3>2, <4>3, <4>4, <4>6, Zenon
    <3> QED
      BY ONLY <3>1, <3>2, Zenon
  <2>10. n.ok
    BY ONLY <1>1, <1>8, Zenon
  <2> QED
    BY ONLY <1>1, <1>3, <2>2, <2>3, <2>5, <2>9, <2>10, Zenon DEF n, Z, w
<1> QED
  BY <1>3, <1>6, <1>7, <1>8, Zenon

\* The addresses of a node that a query asks for.
LEMMA RecordsAre ==
    ASSUME NEW n, NEW asked
    PROVE  LET address(t) == IF t = TypeA THEN n.ipv4 ELSE n.ipv6
           IN  records(n, asked) =
                   {[type |-> t, of |-> address(t)] :
                        t \in {t \in {TypeA, TypeAAAA} :
                                 asked \in {t, TypeAny} /\ address(t) # 0}}
<1> DEFINE address(t) == IF t = TypeA THEN n.ipv4 ELSE n.ipv6
           rec(t) == [type |-> t, of |-> address(t)]
           T == {t \in {TypeA, TypeAAAA} : asked \in {t, TypeAny} /\ address(t) # 0}
<1>1. address(TypeA) = n.ipv4 /\ address(TypeAAAA) = n.ipv6
  BY DEF TypeA, TypeAAAA
<1>2. records(n, asked) =
          {r \in {rec(TypeA), rec(TypeAAAA)} : asked \in {r.type, TypeAny} /\ r.of # 0}
  BY <1>1, Zenon DEF records
<1>3. \A t : rec(t).type = t /\ rec(t).of = address(t)
  BY Zenon
<1> HIDE DEF address, rec
<1>4. records(n, asked) = {rec(t) : t \in T}
  BY ONLY <1>2, <1>3, Zenon
<1> QED
  BY <1>4, Zenon DEF rec, address

\* MagicDns::answer answers every datagram as the reference says.
LEMMA Answers ==
    ASSUME NEW q \in Seq(0..255)
    PROVE  AnswersTruly(q)
<1> DEFINE n == parse_qname(q, 12)
           good == /\ Len(q) >= 12 /\ at(q, 2) < 128 /\ at(q, 4) + at(q, 5) > 0
                   /\ zeros(q) # {} /\ behind(q) + 4 <= Len(q)
           bad == \/ Len(q) < 12
                  \/ at(q, 2) >= 128
                  \/ at(q, 4) * 256 + at(q, 5) < 1
                  \/ ~n.ok
                  \/ n.off + 4 > Len(q)
           name == lower_copy(strip_dot(spelled(q)[least(zeros(q))]))
           same == {i \in DOMAIN Nodes : named(Nodes[i], name)}
           found == {i \in DOMAIN Nodes : named(Nodes[i], lower_copy(n.name))}
           asked == at(q, behind(q)) * 256 + at(q, behind(q) + 1)
           qtype == at(q, n.off) * 256 + at(q, n.off + 1)
           a == answer(q)
<1>1. /\ n.ok <=> zeros(q) # {}
      /\ n.ok => /\ n.name = strip_dot(spelled(q)[least(zeros(q))])
                 /\ n.off = behind(q) /\ n.off \in Nat
  BY ParseIs, Zenon
<1>2. a = IF bad THEN NoAnswer
          ELSE [sent |-> TRUE, found |-> found # {}, question |-> SubSeq(q, 13, n.off + 4),
                records |-> IF found = {} THEN {} ELSE records(Nodes[least(found)], qtype)]
  BY Zenon DEF answer
<1> HIDE DEF n, a
<1>3. bad <=> ~good
  <2>0. Len(q) \in Nat
    BY Pieces, Zenon
  <2>1. CASE Len(q) < 12
    <3>1. ~(Len(q) >= 12)
      BY ONLY <2>0, <2>1
    <3> QED
      BY ONLY <2>1, <3>1, Zenon
  <2>2. CASE Len(q) >= 12
    <3>1. at(q, 2) \in Nat /\ at(q, 4) \in Nat /\ at(q, 5) \in Nat
      <4>1. 2 < Len(q) /\ 4 < Len(q) /\ 5 < Len(q)
        BY ONLY <2>0, <2>2
      <4> QED
        BY <4>1, ByteAt
    <3>2. /\ ~(Len(q) < 12) /\ (at(q, 2) >= 128 <=> ~(at(q, 2) < 128))
          /\ at(q, 4) * 256 + at(q, 5) < 1 <=> ~(at(q, 4) + at(q, 5) > 0)
      BY ONLY <2>0, <2>2, <3>1
    <3>3. n.ok => (n.off + 4 > Len(q) <=> ~(behind(q) + 4 <= Len(q)))
      BY ONLY <1>1, <2>0
    <3> QED
      BY ONLY <1>1, <2>2, <3>2, <3>3, Zenon
  <2> QED
    BY ONLY <2>0, <2>1, <2>2
<1>4. good => found = same /\ qtype = asked /\ n.off = behind(q)
  BY ONLY <1>1, Zenon
<1>5. ~good => ~a.sent
  BY ONLY <1>2, <1>3, Zenon DEF NoAnswer
<1> HIDE DEF good, bad
<1>6. good => a = [sent |-> TRUE, found |-> same # {}, question |-> SubSeq(q, 13, behind(q) + 4),
                   records |-> IF same = {} THEN {} ELSE records(Nodes[least(same)], asked)]
  <2> HIDE DEF found, same, qtype, asked
  <2> SUFFICES ASSUME good
               PROVE  a = [sent |-> TRUE, found |-> same # {},
                           question |-> SubSeq(q, 13, behind(q) + 4),
                           records |-> IF same = {} THEN {} ELSE records(Nodes[least(same)], asked)]
    BY Zenon
  <2>1. ~bad /\ found = same /\ qtype = asked /\ n.off = behind(q)
    BY ONLY good, <1>3, <1>4, Zenon
  <2>2. a = [sent |-> TRUE, found |-> found # {}, question |-> SubSeq(q, 13, n.off + 4),
             records |-> IF found = {} THEN {} ELSE records(Nodes[least(found)], qtype)]
    BY ONLY <1>2, <2>1, Zenon
  <2> QED
    BY ONLY <2>1, <2>2, Zenon
<1> DEFINE address(t) == IF t = TypeA THEN Nodes[least(same)].ipv4 ELSE Nodes[least(same)].ipv6
<1>7. records(Nodes[least(same)], asked) =
          {[type |-> t, of |-> address(t)] :
               t \in {t \in {TypeA, TypeAAAA} : asked \in {t, TypeAny} /\ address(t) # 0}}
  BY RecordsAre, Zenon
<1>8. good => /\ a.sent /\ a.question = SubSeq(q, 13, behind(q) + 4) /\ (a.found <=> same # {})
              /\ same # {} => a.records = records(Nodes[least(same)], asked)
              /\ same = {} => a.records = {}
  <2> DEFINE recs == IF same = {} THEN {} ELSE records(Nodes[least(same)], asked)
             any == same # {}
  <2>1. (same # {} => recs = records(Nodes[least(same)], asked)) /\ (same = {} => recs = {})
    BY Zenon
  <2> HIDE DEF same, asked, recs, any
  <2>2. good => a = [sent |-> TRUE, found |-> any,
                     question |-> SubSeq(q, 13, behind(q) + 4), records |-> recs]
    BY ONLY <1>6, Zenon DEF recs, any
  <2>3. good => /\ a.sent = TRUE /\ a.question = SubSeq(q, 13, behind(q) + 4)
                /\ a.found = any /\ a.records = recs
    BY ONLY <2>2
  <2> QED
    BY ONLY <2>1, <2>3, Zenon DEF any
<1> QED
  BY <1>5, <1>7, <1>8, Zenon DEF AnswersTruly, good, a

-----------------------------------------------------------------------------
\* What the steps of the process are for its parts.
LEMMA ServiceStep ==
    ASSUME [Next]_vars
    PROVE  /\ [LifeNext]_life_vars
           /\ [ConnNext]_conn_vars
           /\ query' = query \/ query' = <<>> \/ query' \in Queries
<1>1. CASE control(ControlNext)
  BY <1>1, Zenon DEF control, LifeNext
<1>2. ASSUME NEW l \in Loops, control(loop_step(l))
      PROVE  LifeNext /\ UNCHANGED conn_vars /\ query' = query
  BY <1>2, Zenon DEF control, loop_step, LifeNext, LoopNext
<1>3. ASSUME NEW t \in Threads, accept(t) PROVE LifeNext /\ ConnNext /\ query' = query
  <2>1. loop_serve("accept", "check") /\ accept_loop(t) /\ query' = query
    BY <1>3, Zenon DEF accept
  <2>2. "accept" \in Loops /\ "check" \in {"check", "answer"}
    BY Zenon DEF Loops
  <2> QED
    BY <2>1, <2>2, Zenon DEF LifeNext, LoopNext, ConnNext
<1>4. ASSUME NEW t \in Threads, client(t) PROVE ConnNext /\ UNCHANGED life_vars /\ query' = query
  BY <1>4, Zenon DEF client, ConnNext
<1>5. ASSUME NEW q \in Queries, recvfrom(q) PROVE LifeNext /\ UNCHANGED conn_vars /\ query' = q
  <2>1. loop_serve("dns", "answer") /\ UNCHANGED conn_vars /\ query' = q
    BY <1>5, Zenon DEF recvfrom
  <2>2. "dns" \in Loops /\ "answer" \in {"check", "answer"}
    BY Zenon DEF Loops
  <2> QED
    BY <2>1, <2>2, Zenon DEF LifeNext, LoopNext
<1>6. CASE sendto
  <2>1. loop_served("dns") /\ UNCHANGED conn_vars /\ query' = <<>>
    BY <1>6, Zenon DEF sendto
  <2>2. "dns" \in Loops
    BY Zenon DEF Loops
  <2> QED
    BY <2>1, <2>2, Zenon DEF LifeNext, LoopNext
<1>7. CASE UNCHANGED vars
  BY <1>7, Zenon DEF vars
<1>8. control(ControlNext) => query' = query
  BY Zenon DEF control
<1> QED
  BY <1>1, <1>2, <1>3, <1>4, <1>5, <1>6, <1>7, <1>8, Zenon DEF Next

\* The process implements the life cycle: clients and queries add nothing that
\* start, stop and the two loops could not do alone.
THEOREM ServiceIsLifecycle == Spec => LifeSpec
<1>1. Init => LifeInit
  BY DEF Init
<1>2. [Next]_vars => [LifeNext]_life_vars
  BY ServiceStep
<1> QED
  BY <1>1, <1>2, PTL DEF Spec, LifeSpec

\* The process implements the client threads: whatever is started and stopped
\* beside them, they take their own steps only.
THEOREM ServiceIsConnection == Spec => ConnSpec
<1>1. Init => ConnInit
  BY DEF Init
<1>2. [Next]_vars => [ConnNext]_conn_vars
  BY ServiceStep
<1> QED
  BY <1>1, <1>2, PTL DEF Spec, ConnSpec

\* What was shown of the parts holds of the process: start and stop leave no
\* socket and no thread behind and lose none, a started coordinator serves, and
\* no client thread leaves its socket open.
THEOREM ServiceSafe ==
    Spec => [](LifeIInv /\ StoppedClean /\ NoThreadLost /\ Serves /\ NoLeak)
BY ServiceIsLifecycle, ServiceIsConnection, LifeInductive, StopLeavesNothing,
   StartLosesNoThread, StartIsSafe, SocketsClosed, PTL

\* Every datagram that MagicDns::loop receives gets the answer that the reference
\* describes, for any limit on labels and pointers, any nodes and any bytes.
THEOREM QueriesAnswered == Spec => []DnsAnswers
<1> DEFINE QueryOK == query = <<>> \/ query \in Queries
<1>1. Init => QueryOK
  BY DEF Init
<1>2. QueryOK /\ [Next]_vars => QueryOK'
  BY ServiceStep
<1>3. QueryOK => DnsAnswers
  BY ServiceAssumption, Answers DEF DnsAnswers
<1> QED
  BY <1>1, <1>2, <1>3, PTL DEF Spec
=============================================================================
