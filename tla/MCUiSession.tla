----------------------------- MODULE MCUiSession -----------------------------
(* UiSession with two clients and a few requests. *)
EXTENDS UiSession
=============================================================================
