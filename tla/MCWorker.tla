------------------------------ MODULE MCWorker ------------------------------
(* TLC instance of Worker: the requests that the handlers tell apart. *)
EXTENDS Worker

\* A pass-through and an upgrade, and what differs from them.
Plain == [transport |-> "ws", upgrade |-> "none", get |-> TRUE, body |-> FALSE,
          mode |-> "auto", ed |-> 0, token |-> 0]
Handshake == [Plain EXCEPT !.upgrade = "websocket"]

MCShape == {
  [Plain EXCEPT !.upgrade = "other"],                           \* gated, passed through
  [Plain EXCEPT !.get = FALSE, !.body = TRUE],                  \* its body is a stream
  [Plain EXCEPT !.transport = "httpupgrade", !.upgrade = "other", !.token = 2],
  [Handshake EXCEPT !.get = FALSE],                             \* refused
  [Handshake EXCEPT !.transport = "xhttp", !.ed = 3, !.token = 2],   \* early data
  [Handshake EXCEPT !.transport = "xhttp", !.ed = 9, !.token = 3]}   \* over the limit

\* Environments that share a limiter, and others that share a UUID manager.
MCKeyOf ==
  [limiters |-> [e1 |-> "a", e2 |-> "b", e3 |-> "b"],
   uuids    |-> [e1 |-> "a", e2 |-> "a", e3 |-> "b"]]
=============================================================================
