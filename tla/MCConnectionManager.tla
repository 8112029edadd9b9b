------------------------ MODULE MCConnectionManager ------------------------
(* Two POST /test/connect requests, two operations and the deferred Close. *)
EXTENDS ConnectionManager

CONSTANTS c1, c2, u1, u2

MCReplacers == {c1, c2}
MCUsers == {u1, u2}
=============================================================================
