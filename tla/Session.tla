------------------------------ MODULE Session ------------------------------
(***************************************************************************)
(* A control connection from its first byte to its records                 *)
(* (Coordinator::handle_client and handle_ts2021 in                        *)
(* src/src/coordinator.cpp): the HTTP/1 request (Http1), the upgrade, the  *)
(* handshake (NoiseHandshake) and one direction of the records it carries  *)
(* (NoiseConn).  One client makes connections one after the other: it      *)
(* fetches the server's key from /key, connects with the key it has, and   *)
(* tries again when it was refused.  An import_state may give the server   *)
(* another key at any time, so that the key a client has is an old one.    *)
(*                                                                         *)
(* Faults: the peer goes away while its request is read, a send fails, and *)
(* a message of the handshake arrives altered in one field.                *)
(***************************************************************************)
EXTENDS NoiseConn, NoiseHandshake, Http1

CONSTANTS
    ControlKeys,    \* private keys the server may have
    Machine, ClientEph, ServerEph,  \* the other private keys
    Version, OtherVersion           \* protocol versions

VARIABLES
    control,        \* noise_private of the store
    known,          \* the public key the client last got from /key, or Nothing
    direction,      \* which way the records of NoiseConn go
    client,         \* what noise_client_init made and kept
    init,           \* the initiation as handle_ts2021 decoded it
    server,         \* the result of noise_server_handshake
    done            \* the result of noise_client_finish

ends == <<client, init, server, done>>
vars == <<noise_vars, http_vars, control, known, direction, ends>>

Unset == [set |-> FALSE]

-----------------------------------------------------------------------------
\* The next connection, after one that came to nothing.
connect ==
    /\ stage \in {"none", "closed", "refused"}
    /\ stage' = "head" /\ sent' \in Streams /\ buf' = <<>>
    /\ client' = Unset /\ init' = Unset /\ server' = Unset /\ done' = Unset
    /\ UNCHANGED <<noise_vars, control, known, direction>>

read_request ==
    /\ read_http_request \/ recv_fail
    /\ UNCHANGED <<noise_vars, control, known, direction, ends>>

\* The request is answered, or its connection given up, and it is closed.
close ==
    /\ stage' = "closed" /\ sent' = <<>> /\ buf' = <<>>
    /\ UNCHANGED <<noise_vars, control, direction>>

\* GET /key; the client may not get the answer.
get_key ==
    /\ stage = "request"
    /\ close
    /\ known' \in {known, x25519_public(control)}
    /\ UNCHANGED ends

\* /healthz, and 404 for any other path.
get_other ==
    /\ stage = "request"
    /\ close
    /\ UNCHANGED <<known, ends>>

-----------------------------------------------------------------------------
\* The header lines of a request for /ts2021.  The handshake is the client's
\* initiation in base64, or a text that is none.
Lines ==
    LET line == {[colon |-> TRUE, name |-> "upgrade", value |-> "tailscale-control-protocol"],
                 [colon |-> TRUE, name |-> "upgrade", value |-> "other"],
                 [colon |-> FALSE, name |-> "upgrade", value |-> ""],
                 [colon |-> TRUE, name |-> "handshake", value |-> "initiation"],
                 [colon |-> TRUE, name |-> "handshake", value |-> "text"]}
    IN  UNION {[1..n -> line] : n \in 0..2}

\* A message with one field altered.
altered(msg) ==
    {[msg EXCEPT ![f] = FALSE] : f \in DOMAIN msg \cap {"size", "type", "length", "format"}}
    \cup {[msg EXCEPT ![f] = Junk] : f \in DOMAIN msg \cap {"eph", "key", "tag"}}
    \cup {[msg EXCEPT !.eph = x25519_public(Machine)]}
    \cup {[msg EXCEPT ![f] = OtherVersion] : f \in DOMAIN msg \cap {"version"}}

\* What b64_decode returns: a text that is not base64 gives no bytes, or throws.
b64_decode(value, msg) ==
    IF value = "initiation" THEN {msg} \cup altered(msg) ELSE {[msg EXCEPT !.size = FALSE]}

\* handle_ts2021 up to the 101 response.
ts2021_refused ==
    /\ stage = "request"
    /\ \E lines \in Lines :
           \/ header_get(lines, "upgrade") # "tailscale-control-protocol"
           \/ header_get(lines, "handshake") \in {"", "text"}
    /\ close
    /\ UNCHANGED <<known, ends>>

ts2021 ==
    /\ stage = "request" /\ known # Nothing
    /\ \E lines \in Lines :
           /\ header_get(lines, "upgrade") = "tailscale-control-protocol"
           /\ header_get(lines, "handshake") # ""
           /\ client' = noise_client_init(Machine, ClientEph, known, Version)
           /\ init' \in b64_decode(header_get(lines, "handshake"), client'.msg)
    /\ stage' = "switched" /\ sent' = <<>> /\ buf' = <<>>
    /\ UNCHANGED <<noise_vars, control, known, direction, server, done>>

\* noise_server_handshake with the private key the store has by now.
handshake ==
    /\ stage = "switched"
    /\ server_accepts(control, init)
    /\ server' = noise_server_handshake(control, ServerEph, init)
    /\ stage' = "accepted"
    /\ UNCHANGED <<noise_vars, sent, buf, control, known, direction, client, init, done>>

handshake_fails ==
    /\ stage = "switched"
    /\ ~server_accepts(control, init)
    /\ close
    /\ UNCHANGED <<known, ends>>

\* The response is sent, and the server's NoiseConn made with its keys.
respond ==
    /\ stage = "accepted"
    /\ stage' = "answered"
    /\ init' = Unset
    /\ IF direction = "down"
       THEN tx_key' = server.tx /\ UNCHANGED rx_key
       ELSE rx_key' = server.rx /\ UNCHANGED tx_key
    /\ UNCHANGED <<writer, wire, reader, sent, buf, control, known, direction,
                   client, server, done>>

\* A write of the 101 or of the response fails.
send_fails ==
    /\ stage \in {"request", "accepted"}
    /\ close
    /\ UNCHANGED <<known, ends>>

\* The client takes the response, which may be altered.
finish ==
    /\ stage = "answered"
    /\ \E resp \in {server.msg} \cup altered(server.msg) :
           done' = noise_client_finish(client, resp)
    /\ client' = Unset
    /\ IF done'.ok
       THEN /\ stage' = "up"
            /\ IF direction = "down"
               THEN rx_key' = done'.rx /\ UNCHANGED tx_key
               ELSE tx_key' = done'.tx /\ UNCHANGED rx_key
       ELSE stage' = "lost" /\ UNCHANGED noise_keys
    /\ UNCHANGED <<writer, wire, reader, sent, buf, control, known, direction,
                   init, server>>

\* import_state with a snapshot that holds another key.  A connection that is
\* past its handshake no longer looks at the store's, so later ones are left out.
import_state ==
    /\ stage \notin {"accepted", "answered", "up", "lost"}
    /\ control' \in ControlKeys \ {control}
    /\ UNCHANGED <<noise_vars, http_vars, known, direction, ends>>

records(A) == stage \in {"answered", "up"} /\ A /\ UNCHANGED <<http_vars, control, known, direction, ends>>

-----------------------------------------------------------------------------
Init ==
    /\ NoiseInit
    /\ stage = "none" /\ sent = <<>> /\ buf = <<>>
    /\ control \in ControlKeys /\ known = Nothing
    /\ direction \in {"up", "down"}
    /\ client = Unset /\ init = Unset /\ server = Unset /\ done = Unset

Next ==
    \/ connect \/ read_request \/ get_key \/ get_other
    \/ ts2021_refused \/ ts2021 \/ handshake \/ handshake_fails
    \/ respond \/ send_fails \/ finish \/ import_state
    \/ records(WriterNext) \/ records(ReaderNext)

\* The threads of the two ends run: a recv with bytes in flight returns, and a
\* reader with a record on the wire reads on.
Spec ==
    /\ Init /\ [][Next]_vars
    /\ WF_vars(read_http_request /\ UNCHANGED <<noise_vars, control, known, direction, ends>>)
    /\ WF_vars(records(ReaderNext))

-----------------------------------------------------------------------------
\* A connection whose client has taken the response is one the two ends agree
\* about: what one sends with the other receives with, the directions have
\* different keys, the hashes of the handshake are equal, and the server has
\* the client's machine key and its version, whatever was altered on the way
\* and whichever key the server had when.
Agree ==
    stage = "up" =>
        /\ server.tx = done.rx /\ server.rx = done.tx /\ server.tx # server.rx
        /\ server.h = done.h
        /\ server.peer = x25519_public(Machine) /\ server.version = Version

\* The handshake goes on exactly when the initiation arrived as it was sent
\* and was made for the key the server has at that moment: a client with a key
\* from before an import_state is refused, and one with the current key never.
HandshakeDecides ==
    [][(stage = "switched" /\ stage' # "switched")
           => (stage' = "accepted" <=> init = client.msg /\ known = x25519_public(control))]_vars
=============================================================================
