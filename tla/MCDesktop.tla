------------------------------ MODULE MCDesktop ------------------------------
(***************************************************************************)
(* The window, its timer, one more request, and two daemons.  A line that  *)
(* tells of a WebSocket and of a refused login is the login's.             *)
(***************************************************************************)
EXTENDS Desktop

MCLines == {{"web_socket", "authentication"}}
MCBests == {"healthy", "none"}
=============================================================================
