------------------------- MODULE MCWorkerSupervisor -------------------------
(* WorkerSupervisor with three invocations on workers that serve at most two. *)
EXTENDS WorkerSupervisor
=============================================================================
