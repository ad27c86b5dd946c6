------------------------------ MODULE MCGuiHost ------------------------------
(* Small instance of GuiHost: more connections than permits and places. *)
EXTENDS GuiHost
=============================================================================
