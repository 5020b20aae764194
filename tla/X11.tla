------------------------------------ MODULE X11 ------------------------------------
(***************************************************************************)
(* src/x11/main.c: a client of the X server on a Unix socket. It connects, *)
(* creates a window, and draws an image whenever the window is exposed.    *)
(* The server takes from the stream as many bytes as a request says it     *)
(* has, in words of four bytes. Events are of 32 bytes; a read may return  *)
(* several.                                                                *)
(***************************************************************************)
EXTENDS Integers, SequencesExt

CONSTANTS ReadEvents,           \* as many events as a read can return
          ImageWords,           \* of put_image: 873
          MaxEvents             \* bound on the events the server sends

VARIABLES stage,       \* connect, header, setup, requests, events; ended, trapped
          requests,    \* what is still to be sent before the events
          missing,     \* bytes of the last request the server has not got
          taken,       \* requests the server has taken from the stream
          in_step,     \* FALSE once the server starts a request amid another
          exposed,
          events       \* sent and not read
xVars == <<stage, requests, missing, taken, in_step, exposed, events>>

\* The words a request says it has, and the bytes that are written.
Request(op, words, bytes) == [op |-> op, words |-> words, bytes |-> bytes]
create_window == Request("create_window", 10, 40)
create_gc     == Request("create_gc", 5, 20)
map_window    == Request("map_window", 2, 8)
\* Mutant of put_image: half of the words are written.
put_image_half == Request("put_image", ImageWords, 2 * ImageWords + 2)
\* The length in words is written as if it were in bytes.
put_image     == Request("put_image", ImageWords, ImageWords)

XInit ==
    /\ stage = "connect" /\ requests = <<create_window, create_gc, map_window>>
    /\ missing = 0 /\ taken = <<>> /\ in_step = TRUE
    /\ exposed = 0 /\ events = <<>>

Ends(how) == stage' = how
             /\ UNCHANGED <<requests, missing, taken, in_step, exposed, events>>

\* A socket, a write or a read fails or is cut short: nothing is tried again.
\* A reply that is too long for the buffer fails an assertion.
Fails == stage \in {"connect", "header", "setup", "requests"} /\ \E how \in {"ended", "trapped"} :
            (how = "trapped" => stage = "header") /\ Ends(how)

\* x11_handshake: the request and the fixed part of the reply, and the rest.
Connect  == stage = "connect" /\ Ends("header")
ReadHead == stage = "header" /\ Ends("setup")
ReadSetup == stage = "setup" /\ Ends("requests")

\* What the server makes of the bytes of one write: the rest of the request it
\* is waiting for, and then a new one, if these bytes begin with one.
Take(request) ==
    IF missing = 0
    THEN /\ missing' = 4 * request.words - request.bytes
         /\ taken' = IF missing' = 0 THEN Append(taken, request.op) ELSE taken
         /\ UNCHANGED in_step
    ELSE /\ missing' = Max({0, missing - request.bytes})
         /\ in_step' = (in_step /\ request.bytes <= missing)
         /\ taken' = IF missing' = 0 THEN Append(taken, request.op) ELSE taken

Setup ==
    /\ stage = "requests"
    /\ IF requests = <<>> THEN stage' = "events" /\ UNCHANGED <<requests, missing, taken, in_step>>
       ELSE requests' = Tail(requests) /\ Take(Head(requests)) /\ UNCHANGED stage
    /\ UNCHANGED <<exposed, events>>

\* The server sends an event once the window is mapped, or an error.
Happens(event) ==
    /\ "map_window" \in ToSet(taken) /\ exposed + Len(events) < MaxEvents
    /\ events' = Append(events, event)
    /\ UNCHANGED <<stage, requests, missing, taken, in_step, exposed>>

Draw == exposed' = exposed + 1 /\ Take(put_image)

\* Of what a read returns, only the first event is looked at.
HandleEvent(n) ==
    /\ stage = "events" /\ n \in 1 .. Min({Len(events), ReadEvents})
    /\ events' = SubSeq(events, n + 1, Len(events))
    /\ IF Head(events) = "exposure" THEN Draw /\ UNCHANGED stage
       ELSE /\ stage' = IF Head(events) = "error" THEN "ended" ELSE stage
            /\ UNCHANGED <<missing, taken, in_step, exposed>>
    /\ UNCHANGED <<requests>>

\* A read of nothing at the end of the stream fails an assertion.
ServerLeaves == stage = "events" /\ events = <<>> /\ Ends("trapped")

XNext ==
    \/ Connect \/ ReadHead \/ ReadSetup \/ Setup \/ Fails \/ ServerLeaves
    \/ \E event \in {"exposure", "key_release", "error"} : Happens(event)
    \/ \E n \in 1 .. ReadEvents : HandleEvent(n)
XSpec == XInit /\ [][XNext]_xVars
-----------------------------------------------------------------------------
Images == Cardinality({i \in DOMAIN taken : taken[i] = "put_image"})

\* The server never takes image data for a request: although each image comes
\* in pieces, four writes make exactly one, and nothing else is sent by then.
StreamStaysInStep == in_step /\ Images = exposed \div 4
=============================================================================
