------------------------------ MODULE HttpExchange ------------------------------
(***************************************************************************)
(* http-server: proc-per-req.c, a server that forks a process for every    *)
(* connection, and req.c, the client that tests it, over one connection.   *)
(* Bytes are counted in units, and the two directions of the connection    *)
(* are the number of units in flight. A reset throws away what is in       *)
(* flight to the client, or not.                                           *)
(***************************************************************************)
EXTENDS Integers, FiniteSetsExt

CONSTANTS HeadLength,      \* of the request line and the headers
          PayloadLengths,  \* of the bodies that the client may send
          max_payload_length,   \* the capacity of the request, 16 KiB
          SocketBuffer,    \* units in flight to the server
          ResponseLength,  \* of the constant response
          ClientBuffer,    \* of the client, 4096
          BatchSizeMax,    \* of the client
          TimesOut         \* whether the 15 seconds may pass

VARIABLES server,     \* main: accept, fork, ended
          handler,    \* handle_connection: none, recv, send, exited
          fds,        \* the processes that hold the accepted connection open
          req_len, written,             \* of the handler: request, response
          to_server, to_client, reset,  \* the connection
          client,     \* connect, send, receive, ok, failed
          method,     \* known, unknown (or too long), malformed
          msg_len, total_sent, total_received,
          trouble     \* what went wrong on the way
serverVars == <<server, handler, fds, req_len, written>>
clientVars == <<client, method, msg_len, total_sent, total_received>>
httpVars   == <<serverVars, clientVars, to_server, to_client, reset, trouble>>

HttpInit ==
    /\ server = "accept" /\ handler = "none" /\ fds = {} /\ req_len = 0 /\ written = 0
    /\ to_server = 0 /\ to_client = 0 /\ reset = FALSE
    /\ client = "connect" /\ total_sent = 0 /\ total_received = 0
    /\ method \in {"known", "unknown", "malformed"}
    /\ msg_len \in {HeadLength + p : p \in PayloadLengths}
    /\ trouble = {}

\* The connection is closed once no process holds it; a peer that has not read
\* everything, or is written to after that, is answered by a reset.
HeldBy(ps) == fds' = ps /\ reset' = (reset \/ (fds # {} /\ ps = {} /\ to_server > 0))
Closed     == server = "ended" \/ (handler # "none" /\ fds = {})

-----------------------------------------------------------------------------
(* The server. *)

\* After accept: fork, whose failure closes the connection.
Accept ==
    /\ server = "accept" /\ client # "connect" /\ handler = "none"
    /\ server' = "fork" /\ HeldBy({"parent"})
    /\ UNCHANGED <<handler, req_len, written, clientVars, to_server, to_client, trouble>>

AcceptFails ==
    /\ server = "accept" /\ client # "connect" /\ handler = "none"
    /\ server' = "ended" /\ reset' = TRUE /\ trouble' = trouble \cup {"accept"}
    /\ UNCHANGED <<handler, fds, req_len, written, clientVars, to_server, to_client>>

ForkHandler ==
    /\ server = "fork" /\ handler = "none"
    /\ handler' = "recv" /\ HeldBy(fds \cup {"child"})
    /\ UNCHANGED <<server, req_len, written, clientVars, to_server, to_client, trouble>>

ForkHandlerFails ==
    /\ server = "fork" /\ handler = "none"
    /\ handler' = "exited" /\ server' = "accept" /\ HeldBy({}) /\ trouble' = trouble \cup {"fork"}
    /\ UNCHANGED <<req_len, written, clientVars, to_server, to_client>>

ParentCloses ==
    /\ server = "fork" /\ handler # "none"
    /\ server' = "accept" /\ HeldBy(fds \ {"parent"})
    /\ UNCHANGED <<handler, req_len, written, clientVars, to_server, to_client, trouble>>

\* Return from handle_connection, and exit.
HandlerExits == handler' = "exited" /\ HeldBy(fds \ {"child"})

\* The thread that ends the process after 15 seconds.
timeout_background_worker_run ==
    /\ handler \in {"recv", "send"} /\ TimesOut
    /\ HandlerExits /\ trouble' = trouble \cup {"timeout"}
    /\ UNCHANGED <<server, req_len, written, clientVars, to_server, to_client>>

\* http_parse_request: -1, -2 for a part, EINVAL for what it does not accept.
http_parse_request(len) ==
    CASE method = "malformed"                      -> -1
      [] method # "malformed" /\ len < HeadLength  -> -2
      [] method = "unknown" /\ len >= HeadLength   -> 22
      [] OTHER                                     -> 0

\* Mutant of Answers: a part of a request is taken for one.
Answers_any_part(err) == err # -1

\* handle_connection only looks for -1 and -2.
Answers(err) == err \notin {-1, -2}

\* One recv into the space that is left. A request that fills the buffer is too
\* big, even a complete one; what follows the headers is not waited for.
Recv(n) ==
    /\ handler = "recv" /\ n \in 1 .. Min({to_server, max_payload_length - req_len})
    /\ LET err == http_parse_request(req_len + n)
           big == req_len + n = max_payload_length IN
       /\ req_len' = req_len + n /\ to_server' = to_server - n
       /\ trouble' = IF big THEN trouble \cup {"too_big"} ELSE trouble
       /\ IF big \/ ~(err = -2 \/ Answers(err))
            THEN /\ handler' = "exited" /\ fds' = fds \ {"child"}
                 /\ reset' = (reset \/ (fds = {"child"} /\ to_server > n))
            ELSE /\ handler' = IF Answers(err) THEN "send" ELSE "recv"
                 /\ UNCHANGED <<fds, reset>>
    /\ UNCHANGED <<server, written, clientVars, to_client>>

\* recv fails, or finds that the client is gone.
RecvEnds ==
    /\ handler = "recv" /\ to_server = 0 /\ (reset \/ client \in {"ok", "failed"})
    /\ HandlerExits
    /\ UNCHANGED <<server, req_len, written, clientVars, to_server, to_client, trouble>>

\* app_handle always gives the same response. One send, of a part of it; the
\* loop then counts the whole response as sent.
Send(n) ==
    /\ handler = "send" /\ written < ResponseLength /\ n \in 1 .. ResponseLength - written
    /\ to_client' = to_client + n
    /\ written' = written + ResponseLength
    /\ trouble' = IF n < ResponseLength THEN trouble \cup {"short_send"} ELSE trouble
    /\ UNCHANGED <<server, handler, fds, req_len, clientVars, to_server, reset>>

SendEnds ==
    /\ handler = "send" /\ (written >= ResponseLength \/ reset)
    /\ HandlerExits
    /\ UNCHANGED <<server, req_len, written, clientVars, to_server, to_client, trouble>>

-----------------------------------------------------------------------------
(* The client. *)

Connect ==
    /\ client = "connect"
    /\ client' = IF server = "ended" THEN "failed" ELSE "send"
    /\ UNCHANGED <<serverVars, method, msg_len, total_sent, total_received, to_server, to_client, reset, trouble>>

\* request_send: one batch, or a part of it.
request_send(n) ==
    /\ client = "send" /\ total_sent < msg_len /\ ~reset
    /\ n \in 1 .. Min({msg_len - total_sent, BatchSizeMax}) /\ to_server + n <= SocketBuffer
    /\ total_sent' = total_sent + n
    /\ IF Closed THEN reset' = TRUE /\ UNCHANGED to_server
                 ELSE to_server' = to_server + n /\ UNCHANGED reset
    /\ UNCHANGED <<serverVars, client, method, msg_len, total_received, to_client, trouble>>

request_sent ==
    /\ client = "send" /\ (total_sent = msg_len \/ reset)
    /\ client' = IF total_sent = msg_len THEN "receive" ELSE "failed"
    /\ UNCHANGED <<serverVars, method, msg_len, total_sent, total_received, to_server, to_client, reset, trouble>>

\* response_receive: recv takes a batch whatever space is left in the buffer,
\* which the response of this server does not fill.
response_receive(n) ==
    /\ client = "receive" /\ total_received <= ClientBuffer
    /\ n \in 1 .. Min({to_client, BatchSizeMax})
    /\ to_client' = to_client - n /\ total_received' = total_received + n
    /\ UNCHANGED <<serverVars, client, method, msg_len, total_sent, to_server, reset, trouble>>

\* The end of the stream; or a reset, which throws away what has not been read.
response_ends ==
    /\ client = "receive"
    /\ \/ (to_client = 0 \/ total_received > ClientBuffer) /\ Closed /\ ~reset /\ client' = "ok"
       \/ reset /\ client' = "failed"
    /\ UNCHANGED <<serverVars, method, msg_len, total_sent, total_received, to_server, to_client, reset, trouble>>

HttpServer == \/ Accept \/ AcceptFails \/ ForkHandler \/ ForkHandlerFails \/ ParentCloses
              \/ RecvEnds \/ SendEnds \/ timeout_background_worker_run
              \/ \E n \in 1 .. max_payload_length : Recv(n)
              \/ \E n \in 1 .. ResponseLength : Send(n)
HttpClient == Connect \/ request_sent \/ response_ends
                \/ \E n \in 1 .. BatchSizeMax : request_send(n) \/ response_receive(n)
HttpDone   == client \in {"ok", "failed"} /\ UNCHANGED httpVars

HttpNext == HttpServer \/ HttpClient \/ HttpDone
HttpSpec == HttpInit /\ [][HttpNext]_httpVars /\ WF_httpVars(HttpServer) /\ WF_httpVars(HttpClient)

-----------------------------------------------------------------------------
\* A response is only sent after the headers have been read completely, however
\* they are cut into reads, and never to a request that is no HTTP.
AnswersWholeHeads == to_client + total_received > 0 => req_len >= HeadLength /\ method # "malformed"

\* A client that reads the end of the stream has the whole response, unless the
\* server gave up on it (a timeout, a full buffer, a failed fork) or send took
\* only a part of the response.
ResponseIsWhole ==
    client = "ok" /\ method # "malformed" /\ trouble = {} => total_received = ResponseLength

\* However the bytes are cut, in both directions.
AnswersAreWhole == AnswersWholeHeads /\ ResponseIsWhole

\* An exchange comes to its end, in a client that waits for the end of the
\* stream: when the handler exits nobody else holds the connection.
ExchangeEnds == <>(client \in {"ok", "failed"})
=============================================================================
