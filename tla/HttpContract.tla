---------------------------- MODULE HttpContract ----------------------------
(***************************************************************************)
(* One exchange between HttpTransport (crates/enlace/src/transports/       *)
(* http.rs) and the relay (crates/enlace-relay/src/lib.rs): how the client *)
(* words a call as a request, what the relay makes of the request before   *)
(* and after it looks at its tables, and how the client reads the answer.  *)
(* RelayMailbox, RelaySlot and HttpWatch have the tables and the waiting;  *)
(* here the tables' verdict is an argument.                                *)
(*                                                                         *)
(* A decimal text is the number it says, and Malformed is any other text.  *)
(* The user and password of basic authentication are the sequences of      *)
(* their pieces between colons.                                            *)
(***************************************************************************)
EXTENDS Integers, Sequences, Outcome

CONSTANTS
    Malformed    \* a text that is no number

-----------------------------------------------------------------------------
(* The relay's configuration *)

\* auth_header: refused without a colon.
auth_header(raw) == IF Len(raw) < 2 THEN Malformed ELSE [basic |-> raw]

from_cli(cli, env) ==
    LET raw == IF cli.auth # None THEN cli.auth ELSE env
        auth == IF raw = None THEN None ELSE auth_header(raw)
    IN  IF auth = Malformed \/ (cli.cert = None) # (cli.key = None) THEN Malformed
        ELSE [auth |-> auth,
              max_body_bytes |-> cli.max_body_bytes,
              max_wait |-> cli.max_wait,
              mailbox_capacity |-> IF cli.mailbox_capacity < 1 THEN 1 ELSE cli.mailbox_capacity]

-----------------------------------------------------------------------------
(* The client's request *)

\* Two digits for each of the sixteen bytes.
hex_id(id) == [i \in 1 .. 32 |-> LET byte == id[(i + 1) \div 2]
                                 IN  IF i % 2 = 1 THEN byte \div 16 ELSE byte % 16]

\* HttpTransport::request, and the basic_auth header reqwest makes of it.
Header(client) ==
    IF client.auth = None THEN None
    ELSE [basic |-> client.auth.username \o client.auth.password]

Request(client, method, table, id) ==
    [method |-> method, table |-> table, path |-> hex_id(id), auth |-> Header(client),
     since |-> None, wait |-> None, version |-> None, size |-> 0]

\* The calls.  Waits are milliseconds here and whole seconds in the request.
Send(client, id, size) == [Request(client, "POST", "m", id) EXCEPT !.size = size]
Recv(client, id, wait) == [Request(client, "GET", "m", id) EXCEPT !.wait = wait \div 1000]
Put(client, id, version, size) ==
    [Request(client, "PUT", "s", id) EXCEPT !.version = version, !.size = size]
slot_get_since(client, id, since, wait) ==
    [Request(client, "GET", "s", id) EXCEPT !.since = since, !.wait = wait \div 1000]
Get(client, id) == slot_get_since(client, id, 0, 0)

-----------------------------------------------------------------------------
(* The relay *)

valid(raw) == Len(raw) = 32 /\ \A i \in 1 .. 32 : raw[i] \in 0 .. 15
check_auth(relay, header) == relay.auth = None \/ header = relay.auth
bounded_body(relay, size) == size <= relay.max_body_bytes

\* What is missing from the query is zero; a header has to be there.
parse_query_u64(text) == IF text = None THEN 0 ELSE text
parse_wait(relay, text) ==
    LET asked == parse_query_u64(text)
    IN  IF asked = Malformed THEN Malformed
        ELSE IF asked <= relay.max_wait THEN asked ELSE relay.max_wait

\* octet_response, and text_response, empty_response and server_error, whose
\* texts nobody reads.
octet_response(body, version) == [status |-> 200, body |-> body, version |-> version]
Status(code) == [status |-> code, body |-> None, version |-> None]

\* What every handler looks at first; 0 lets the request through.
Refused(relay, request) ==
    IF ~check_auth(relay, request.auth) THEN 401
    ELSE IF ~valid(request.path) THEN 400
    ELSE 0

\* The four handlers.  `verdict` is what became of the request in the tables:
\* its tag is "stored", "stale", "found", "nothing" at the end of the wait, or
\* "failed" when the tables' lock is poisoned or the slot is not persisted.
mailbox_enqueue(relay, request, verdict) ==
    LET refused == Refused(relay, request)
    IN  IF refused # 0 THEN Status(refused)
        ELSE IF ~bounded_body(relay, request.size) THEN Status(413)
        ELSE IF verdict.tag = "stored" THEN Status(204) ELSE Status(500)

mailbox_dequeue(relay, request, verdict) ==
    LET refused == Refused(relay, request)
    IN  IF refused # 0 THEN Status(refused)
        ELSE IF parse_wait(relay, request.wait) = Malformed THEN Status(400)
        ELSE IF verdict.tag = "found" THEN octet_response(verdict.body, None)
        ELSE IF verdict.tag = "nothing" THEN Status(204) ELSE Status(500)

slot_write(relay, request, verdict) ==
    LET refused == Refused(relay, request)
    IN  IF refused # 0 THEN Status(refused)
        ELSE IF request.version \in {None, Malformed} THEN Status(400)
        ELSE IF ~bounded_body(relay, request.size) THEN Status(413)
        ELSE IF verdict.tag = "stale" THEN Status(409)
        ELSE IF verdict.tag = "stored" THEN Status(204) ELSE Status(500)

slot_read(relay, request, verdict) ==
    LET refused == Refused(relay, request)
    IN  IF refused # 0 THEN Status(refused)
        ELSE IF parse_query_u64(request.since) = Malformed THEN Status(400)
        ELSE IF parse_wait(relay, request.wait) = Malformed THEN Status(400)
        ELSE IF verdict.tag = "found" THEN octet_response(verdict.body, verdict.version)
        ELSE IF verdict.tag = "nothing" THEN Status(204) ELSE Status(500)

\* build_router; the preflight of a browser is answered before any check.
build_router(relay, request, verdict) ==
    CASE request.method = "POST" /\ request.table = "m" -> mailbox_enqueue(relay, request, verdict)
      [] request.method = "GET" /\ request.table = "m" -> mailbox_dequeue(relay, request, verdict)
      [] request.method = "PUT" /\ request.table = "s" -> slot_write(relay, request, verdict)
      [] request.method = "GET" /\ request.table = "s" -> slot_read(relay, request, verdict)
      [] request.method = "OPTIONS" -> Status(204)
      [] OTHER -> Status(405)

-----------------------------------------------------------------------------
(* The client's reading of the answer *)

map_status(status) ==
    CASE status = 401 -> "Auth"
      [] status = 409 -> "Stale"
      [] status = 413 -> "BodyTooLarge"
      [] status \in {408, 504} -> "Timeout"
      [] OTHER -> "Network"

decode_empty_response(response) ==
    IF response.status = 204 THEN Ok(None) ELSE Err(map_status(response.status))

decode_mailbox_recv_response(response) ==
    CASE response.status = 200 -> Ok(response.body)
      [] response.status = 204 -> Ok(None)
      [] OTHER -> Err(map_status(response.status))

parse_version(version) == IF version \in {None, Malformed} THEN Malformed ELSE version

decode_slot_get_response(response) ==
    CASE response.status = 200 /\ parse_version(response.version) = Malformed -> Err("Network")
      [] response.status = 200 /\ parse_version(response.version) # Malformed ->
            Ok([version |-> response.version, body |-> response.body])
      [] response.status = 204 -> Ok(None)
      [] OTHER -> Err(map_status(response.status))

=============================================================================
