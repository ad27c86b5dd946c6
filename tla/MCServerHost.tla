---------------------------- MODULE MCServerHost ----------------------------
(* Small instance of ServerHost: more requests than one tick executes. *)
EXTENDS ServerHost
=============================================================================
