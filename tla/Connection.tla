----------------------------- MODULE Connection -----------------------------
(***************************************************************************)
(* Who closes a client's socket (src/src/coordinator.cpp, accept_loop to   *)
(* handle_ts2021, and the destructor of NoiseConn in src/src/noise.cpp).   *)
(*                                                                         *)
(* A descriptor is a number that the operating system gives out again as   *)
(* soon as it is closed.  Exceptions are those the code lets pass: in      *)
(* serve_h2 they come from the store, from JSON of an unexpected type and  *)
(* from the codec.                                                         *)
(***************************************************************************)
EXTENDS Integers

CONSTANTS
    Fds,                \* descriptor numbers
    Threads,            \* client threads, one per accepted connection
    Nobody,             \* no connection
    SessionMayThrow     \* an exception may leave serve_h2

ASSUME ConnectionAssumption ==
    /\ Fds \subseteq Nat
    /\ Nobody \notin Threads
    /\ SessionMayThrow \in BOOLEAN

VARIABLES
    owner,      \* owner[f]: the connection whose socket f now is, or Nobody
    fd,         \* fd[t]: the argument of client_thread
    pc          \* pc[t]: progress of client_thread

conn_vars == <<owner, fd, pc>>

ConnInit ==
    /\ owner = [f \in Fds |-> Nobody]
    /\ fd = [t \in Threads |-> 0]
    /\ pc = [t \in Threads |-> "unborn"]

free == {f \in Fds : owner[f] = Nobody}

goto(t, there) == pc' = [pc EXCEPT ![t] = there]

\* ::close(fd) acts on whatever the number stands for, possibly nothing.
close(t) == owner' = [owner EXCEPT ![fd[t]] = Nobody]

\* accept returns the lowest free descriptor; a detached thread starts.
accept_loop(t) ==
    \E f \in free :
        /\ pc[t] = "unborn"
        /\ \A g \in free : f <= g
        /\ owner' = [owner EXCEPT ![f] = t]
        /\ fd' = [fd EXCEPT ![t] = f]
        /\ goto(t, "http")

\* handle_client answers, refuses or fails to read a request, or throws:
\* the caller still owns fd.
handle_client(t) ==
    /\ pc[t] = "http"
    /\ goto(t, "close")
    /\ UNCHANGED <<owner, fd>>

\* The request is for /ts2021.
upgrade(t) ==
    /\ pc[t] = "http"
    /\ goto(t, "upgrade")
    /\ UNCHANGED <<owner, fd>>

\* handle_ts2021 closes fd where a check, the handshake or a write fails;
\* handle_client then returns false.
handle_ts2021(t) ==
    /\ pc[t] = "upgrade"
    /\ close(t)
    /\ goto(t, "done")
    /\ UNCHANGED fd

\* An exception before NoiseConn exists; client_thread closes fd.
upgrade_throw(t) ==
    /\ pc[t] = "upgrade"
    /\ goto(t, "close")
    /\ UNCHANGED <<owner, fd>>

\* NoiseConn takes fd over, and serve_h2 runs.
session_start(t) ==
    /\ pc[t] = "upgrade"
    /\ goto(t, "session")
    /\ UNCHANGED <<owner, fd>>

\* Mutant: the destructor of NoiseConn does not close.
session_leak(t) ==
    /\ pc[t] = "session"
    /\ goto(t, "done")
    /\ UNCHANGED <<owner, fd>>

\* serve_h2 returns, the destructor of NoiseConn closes, and handle_client
\* returns false.
session_end(t) ==
    /\ pc[t] = "session"
    /\ close(t)
    /\ goto(t, "done")
    /\ UNCHANGED fd

\* The destructor closes while the exception passes; client_thread catches it
\* with close_fd still true.
session_throw(t) ==
    /\ SessionMayThrow
    /\ pc[t] = "session"
    /\ close(t)
    /\ goto(t, "close")
    /\ UNCHANGED fd

\* The end of client_thread, with close_fd true.
client_thread(t) ==
    /\ pc[t] = "close"
    /\ close(t)
    /\ goto(t, "done")
    /\ UNCHANGED fd

ServeNext(t) ==
    \/ handle_client(t) \/ upgrade(t) \/ handle_ts2021(t)
    \/ upgrade_throw(t) \/ session_start(t) \/ session_end(t) \/ session_throw(t)
    \/ client_thread(t)

\* The client threads alone, with a coordinator that is always listening.
ConnNext == \E t \in Threads : accept_loop(t) \/ ServeNext(t)

ConnSpec == ConnInit /\ [][ConnNext]_conn_vars

-----------------------------------------------------------------------------
\* The descriptor table, and the arguments and progress of the threads.
ConnTypeOK ==
    /\ owner \in [Fds -> Threads \cup {Nobody}]
    /\ fd \in [Threads -> Fds \cup {0}]
    /\ pc \in [Threads -> {"unborn", "http", "upgrade", "session", "close", "done"}]

\* While a connection is being served, its descriptor is its own socket: no
\* other thread has closed it, and the number was not given to a later
\* connection ("Returns true if the caller still owns fd", coordinator.cpp:257).
KeepsSocket ==
    \A t \in Threads : pc[t] \in {"http", "upgrade", "session"} => owner[fd[t]] = t

\* A thread that has ended leaves no socket of its connection open.
NoLeak ==
    \A t \in Threads : pc[t] = "done" => \A f \in Fds : owner[f] # t
=============================================================================
