------------------------ MODULE MCDiagnosticService ------------------------
(* Two pools; two requests, or one when every share of time is tried. *)
EXTENDS DiagnosticService, TLC

CONSTANTS p1, p2, r1, r2

MCPools == {p1, p2}
MCRequests == {r1, r2}
OneRequest == {r1}
=============================================================================
