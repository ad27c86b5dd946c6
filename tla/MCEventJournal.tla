--------------------------- MODULE MCEventJournal ---------------------------
(* Small instance of EventJournal: a journal that wraps around twice. *)
EXTENDS EventJournal
=============================================================================
