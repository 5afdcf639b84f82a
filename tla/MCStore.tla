------------------------------ MODULE MCStore ------------------------------
(***************************************************************************)
(* Small instances of Store for TLC.                                       *)
(***************************************************************************)
EXTENDS Store

\* A block of four addresses has three hosts, a block of one has none.
ThreeHosts == [addr |-> 5, block |-> 4]
NoHost == [addr |-> 5, block |-> 1]
Prefix6 == [hi |-> 9, lo |-> 0]

\* Options with which operators create keys.
Options(reusable, expiration, token, shared) ==
    [reusable : reusable, expiration : expiration, token : token, shared : shared]

OneKind == Options({FALSE}, {0}, {Empty}, {Unset})
Plain == Options(BOOLEAN, {0}, {Empty}, {Unset})
Expiring == Options(BOOLEAN, {0, 2}, Tokens \cup {Empty}, BOOLEAN \cup {Unset})
=============================================================================
