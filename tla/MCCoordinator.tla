--------------------------- MODULE MCCoordinator ---------------------------
(***************************************************************************)
(* Small instances of Coordinator for TLC.                                 *)
(***************************************************************************)
EXTENDS Coordinator, TLC

ThreeHosts == [addr |-> 5, block |-> 4]
OneHost == [addr |-> 5, block |-> 2]
Prefix6 == [hi |-> 9, lo |-> 0]

\* Keys of the groups Tokens, one-shot or not, and of the shared plane.
Options(reusable, token, shared) ==
    [reusable : reusable, expiration : {0}, token : token, shared : shared]

GroupKeys == Options({TRUE}, Tokens, {Unset})
MixedKeys == Options(BOOLEAN, Tokens, {FALSE})

Register(keys) == [kind : {"register"}, node_key : NodeKeys, auth : keys]

Map(stream, omit, v68) ==
    [kind : {"map"}, stream : stream, omit_peers : omit, v68 : v68,
     node_key : {Empty}, endpoints : Endpoints \cup {Empty}]

\* Registration only, with any key or none.
RegisterRequests == Register(KeyIds \cup {Empty})

\* The bootstrap key, long polls of a recent client and lite updates.
FanoutRequests ==
    Register(KeyIds) \cup Map({TRUE}, {FALSE}, {TRUE}) \cup Map({FALSE}, {TRUE}, {TRUE})

\* One-shot maps and long polls, read-only or not.
MapRequests == Register(KeyIds) \cup Map(BOOLEAN, {FALSE}, BOOLEAN)

\* Model values of one sort are interchangeable in every set above.
Symmetry ==
    Permutations(Machines) \cup Permutations(Threads)
    \cup Permutations(KeyIds) \cup Permutations(Tokens)
=============================================================================
