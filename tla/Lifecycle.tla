----------------------------- MODULE Lifecycle -----------------------------
(***************************************************************************)
(* Starting and stopping a coordinator (Coordinator::Impl in               *)
(* src/src/coordinator.cpp, MagicDns in src/src/dns.cpp, and               *)
(* wirebone_start, stop and destroy of src/src/c_api.cpp).                 *)
(*                                                                         *)
(* One thread of the embedder calls start, stop and, at the end, destroy,  *)
(* while the thread of accept_loop and the thread of MagicDns::loop run.   *)
(* A socket is known by its kind and the start that opened it, and a       *)
(* member that holds a descriptor by the socket or None: a number that was *)
(* closed may be given out again, but to nothing a thread could block on,  *)
(* so that a call with it fails.  The loops read the members without a     *)
(* lock, before they enter the system call.                                *)
(***************************************************************************)
EXTENDS Integers

CONSTANTS
    None,           \* -1 in a member that holds a descriptor
    MaxStarts       \* bound: sockets opened

ASSUME LifecycleAssumption ==
    /\ MaxStarts \in Nat \ {0}
    /\ None \notin {"tcp", "udp"} \X Nat

VARIABLES
    ctl,            \* where the embedder's thread is
    dying,          \* it is in the destructor
    started,        \* history: the last start returned 0, and no stop since
    starts,         \* sockets opened
    running,        \* running_
    has_dns,        \* cfg_.dns_listen is not empty
    dns_made,       \* dns_ holds a MagicDns
    stop_,          \* stop_[l]: the flag that loop l looks at
    fd_,            \* fd_[l]: listen_fd_, and fd_ of MagicDns
    loop,           \* loop[l]: the thread of loop l, none when it is not joinable
    open,           \* sockets not closed
    shut            \* sockets shut down

\* The two loops have the same shape: accept_loop, and MagicDns::loop.
Loops == {"accept", "dns"}

calls == <<ctl, dying, started, starts, running, has_dns, dns_made>>
life_vars == <<calls, stop_, fd_, loop, open, shut>>

NoThread == [at |-> "none", sock |-> None]
ended(l) == loop[l].at \in {"none", "ended"}

-----------------------------------------------------------------------------
\* while (!stop_), and the descriptor read for the call.
loop_check(l) ==
    /\ loop[l].at = "check"
    /\ loop' = [loop EXCEPT ![l] = IF stop_[l] THEN [at |-> "ended", sock |-> None]
                                   ELSE [at |-> "call", sock |-> fd_[l]]]
    /\ UNCHANGED <<calls, stop_, fd_, open, shut>>

\* accept or recvfrom is entered: it fails at once unless the socket is open.
loop_call(l) ==
    /\ loop[l].at = "call"
    /\ loop' = [loop EXCEPT ![l].at = IF loop[l].sock \in open THEN "blocked" ELSE "check"]
    /\ UNCHANGED <<calls, stop_, fd_, open, shut>>

\* Mutant: any error ends the loop.
loop_error_ends(l) ==
    /\ loop[l].at = "blocked"
    /\ loop' = [loop EXCEPT ![l] = [at |-> "ended", sock |-> None]]
    /\ UNCHANGED <<calls, stop_, fd_, open, shut>>

\* The call fails while it waits: the descriptor table is full, the peer has
\* gone, or the socket was shut down.  Unless stop_ is set, the loop goes on.
loop_error(l) ==
    /\ loop[l].at = "blocked"
    /\ loop' = [loop EXCEPT ![l] = [at |-> "check", sock |-> None]]
    /\ UNCHANGED <<calls, stop_, fd_, open, shut>>

\* The call returns a connection or a query, which only an open socket gets.
loop_serve(l, next) ==
    /\ loop[l].at = "blocked" /\ loop[l].sock \in open
    /\ loop' = [loop EXCEPT ![l] = [at |-> next, sock |-> None]]
    /\ UNCHANGED <<calls, stop_, fd_, open, shut>>

\* MagicDns::loop has answered the query.
loop_served(l) ==
    /\ loop[l].at = "answer"
    /\ loop' = [loop EXCEPT ![l].at = "check"]
    /\ UNCHANGED <<calls, stop_, fd_, open, shut>>

-----------------------------------------------------------------------------
\* Mutant: running_ is not looked at.
start_again ==
    /\ ctl = "idle" /\ starts < MaxStarts
    /\ running' = TRUE /\ ctl' = "listen"
    /\ UNCHANGED <<dying, started, starts, has_dns, dns_made, stop_, fd_, loop, open, shut>>

\* run_async and start_listen: running_.exchange(true), or an exception.
start ==
    /\ ctl = "idle" /\ starts < MaxStarts
    /\ running' = TRUE
    /\ ctl' = IF running THEN "idle" ELSE "listen"
    /\ UNCHANGED <<dying, started, starts, has_dns, dns_made, stop_, fd_, loop, open, shut>>

\* An exception on the way: wirebone_start returns -1, and nothing is undone.
start_throws ==
    /\ ctl' = "idle"
    /\ UNCHANGED <<dying, started, running, has_dns, loop>>

listen_tcp ==
    /\ ctl = "listen"
    /\ stop_' = [stop_ EXCEPT !["accept"] = FALSE]
    /\ starts' = starts + 1
    /\ \/ /\ fd_' = [fd_ EXCEPT !["accept"] = <<"tcp", starts>>]
          /\ open' = open \cup {<<"tcp", starts>>}
          /\ ctl' = IF has_dns THEN "dns" ELSE "spawn"
          /\ UNCHANGED <<dying, started, running, has_dns, loop>>
       \/ start_throws /\ UNCHANGED <<fd_, open>>
    /\ UNCHANGED <<dns_made, shut>>

\* The MagicDns is made, its socket bound and its thread started; the last two
\* may fail.
dns_start ==
    /\ ctl = "dns"
    /\ dns_made' = TRUE
    /\ stop_' = [stop_ EXCEPT !["dns"] = FALSE]
    /\ \/ /\ fd_' = [fd_ EXCEPT !["dns"] = <<"udp", starts>>]
          /\ open' = open \cup {<<"udp", starts>>}
          /\ \/ /\ loop' = [loop EXCEPT !["dns"] = [at |-> "check", sock |-> None]]
                /\ ctl' = "spawn"
                /\ UNCHANGED <<dying, started, running, has_dns>>
             \/ start_throws
       \/ start_throws /\ UNCHANGED <<fd_, open>>
    /\ UNCHANGED <<starts, shut>>

\* accept_thread_ = std::thread(...).
spawn ==
    /\ ctl = "spawn"
    /\ \/ /\ loop' = [loop EXCEPT !["accept"] = [at |-> "check", sock |-> None]]
          /\ started' = TRUE
          /\ ctl' = "idle"
          /\ UNCHANGED <<dying, running, has_dns>>
       \/ start_throws
    /\ UNCHANGED <<starts, dns_made, stop_, fd_, open, shut>>

-----------------------------------------------------------------------------
\* Coordinator::stop, called by the embedder or by the destructor.
stop ==
    /\ ctl = "idle"
    /\ ctl' = "close"
    /\ dying' \in BOOLEAN
    /\ started' = FALSE
    /\ stop_' = [stop_ EXCEPT !["accept"] = TRUE]
    /\ UNCHANGED <<starts, running, has_dns, dns_made, fd_, loop, open, shut>>

\* Mutants: the socket is not shut down; it is closed only where a thread
\* listens on it.
hang_up_closes(l) ==
    /\ open' = open \ {fd_[l]}
    /\ fd_' = [fd_ EXCEPT ![l] = None]
    /\ UNCHANGED shut

hang_up_started(l) ==
    IF loop[l].at = "none" THEN UNCHANGED <<fd_, open, shut>>
    ELSE /\ shut' = shut \cup ({fd_[l]} \ {None})
         /\ open' = open \ {fd_[l]}
         /\ fd_' = [fd_ EXCEPT ![l] = None]

\* shutdown and close of a descriptor that is not -1, and -1 assigned.
hang_up(l) ==
    /\ shut' = shut \cup ({fd_[l]} \ {None})
    /\ open' = open \ {fd_[l]}
    /\ fd_' = [fd_ EXCEPT ![l] = None]

stop_close ==
    /\ ctl = "close"
    /\ hang_up("accept")
    /\ ctl' = IF dns_made THEN "dns_stop" ELSE "join"
    /\ UNCHANGED <<dying, started, starts, running, has_dns, dns_made, stop_, loop>>

\* MagicDns::stop: the flag, the socket and the thread.
dns_stop ==
    /\ ctl = "dns_stop"
    /\ stop_' = [stop_ EXCEPT !["dns"] = TRUE]
    /\ ctl' = "dns_close"
    /\ UNCHANGED <<dying, started, starts, running, has_dns, dns_made, fd_, loop, open, shut>>

dns_close ==
    /\ ctl = "dns_close"
    /\ hang_up("dns")
    /\ ctl' = "dns_join"
    /\ UNCHANGED <<dying, started, starts, running, has_dns, dns_made, stop_, loop>>

\* The thread is joined, and dns_ reset.
dns_join ==
    /\ ctl = "dns_join"
    /\ ended("dns")
    /\ loop' = [loop EXCEPT !["dns"] = NoThread]
    /\ dns_made' = FALSE
    /\ ctl' = "join"
    /\ UNCHANGED <<dying, started, starts, running, has_dns, stop_, fd_, open, shut>>

\* accept_thread_ is joined if it is joinable.
stop_join ==
    /\ ctl = "join"
    /\ ended("accept")
    /\ loop' = [loop EXCEPT !["accept"] = NoThread]
    /\ running' = FALSE
    /\ ctl' = IF dying THEN "destroyed" ELSE "idle"
    /\ UNCHANGED <<dying, started, starts, has_dns, dns_made, stop_, fd_, open, shut>>

stopping == stop_close \/ dns_stop \/ dns_close \/ dns_join \/ stop_join

-----------------------------------------------------------------------------
LifeInit ==
    /\ ctl = "idle" /\ dying = FALSE /\ started = FALSE /\ starts = 0
    /\ running = FALSE /\ has_dns \in BOOLEAN /\ dns_made = FALSE
    /\ stop_ = [l \in Loops |-> FALSE] /\ fd_ = [l \in Loops |-> None]
    /\ loop = [l \in Loops |-> NoThread] /\ open = {} /\ shut = {}

ControlNext == start \/ listen_tcp \/ dns_start \/ spawn \/ stop \/ stopping

LoopNext(l) ==
    \/ loop_check(l) \/ loop_call(l) \/ loop_error(l) \/ loop_served(l)
    \/ \E next \in {"check", "answer"} : loop_serve(l, next)

\* The coordinator without its clients and queries (Service has them).
LifeNext == ControlNext \/ \E l \in Loops : LoopNext(l)

LifeSpec == LifeInit /\ [][LifeNext]_life_vars

-----------------------------------------------------------------------------
\* No part of loop l is left.
gone(l) == fd_[l] = None /\ loop[l].at = "none"

\* The invariant that carries the safety properties: the open sockets are those
\* the members hold, a MagicDns has been made wherever a part of it is left,
\* nothing is left when running_ is false, and at each point of start and stop
\* what is behind it is done and what is ahead of it is not.
LifeIInv ==
    /\ fd_ \in [Loops -> {None} \cup ({"tcp", "udp"} \X Nat)] /\ starts \in Nat
    /\ loop \in [Loops -> [at : {"none", "check", "call", "blocked", "answer", "ended"},
                           sock : {None} \cup ({"tcp", "udp"} \X Nat)]]
    /\ stop_ \in [Loops -> BOOLEAN]
    /\ fd_["accept"] # None => fd_["accept"][1] = "tcp"
    /\ fd_["dns"] # None => fd_["dns"][1] = "udp"
    /\ open = {fd_["accept"], fd_["dns"]} \ {None}
    /\ ~dns_made => gone("dns")
    /\ ~running => gone("accept") /\ ~dns_made /\ ctl \notin {"listen", "dns", "spawn"}
    /\ ctl = "listen" => gone("accept") /\ ~dns_made
    /\ ctl = "dns" => fd_["accept"] # None /\ loop["accept"].at = "none"
                      /\ ~dns_made /\ has_dns /\ ~stop_["accept"]
    /\ ctl = "spawn" => /\ fd_["accept"] # None /\ loop["accept"].at = "none"
                        /\ ~stop_["accept"]
                        /\ has_dns => dns_made /\ ~stop_["dns"] /\ ~ended("dns")
                                      /\ fd_["dns"] # None
    /\ ctl \in {"dns_stop", "dns_close", "dns_join", "join"} => fd_["accept"] = None
    /\ ctl = "dns_join" => fd_["dns"] = None
    /\ ctl = "join" => ~dns_made
    /\ started => /\ ctl = "idle" /\ running
                  /\ ~stop_["accept"] /\ ~ended("accept") /\ fd_["accept"] # None
                  /\ has_dns => ~stop_["dns"] /\ ~ended("dns") /\ fd_["dns"] # None

\* A coordinator that says it is not running, with no call under way, has
\* closed its sockets and joined its threads, also after a start that failed
\* half way: the next start finds its port free.
StoppedClean ==
    (ctl \in {"idle", "destroyed"} /\ ~running) =>
        /\ open = {} /\ ~dns_made
        /\ \A l \in Loops : gone(l)

\* A start never assigns over a std::thread that is still joinable, or over a
\* MagicDns: either would end the process or leave a loop without an owner.
NoThreadLost ==
    /\ ctl = "spawn" => loop["accept"].at = "none"
    /\ ctl = "dns" => ~dns_made /\ loop["dns"].at = "none"

\* After a start that returned 0, both loops run until stop is called,
\* whatever errors accept and recvfrom return, and they run on open sockets.
Serves ==
    started => \A l \in Loops :
        (l = "accept" \/ has_dns) => ~ended(l) /\ fd_[l] \in open

\* stop and the destructor return: neither loop stays in its system call, also
\* when it read the descriptor just before stop closed it.
StopReturns ==
    ctl \in {"close", "dns_stop", "dns_close", "dns_join", "join"}
        ~> ctl \in {"idle", "destroyed"}
=============================================================================
