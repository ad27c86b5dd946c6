--------------------------- MODULE MCDeviceClaims ---------------------------
(* DeviceClaims with two command processes and one device. *)
EXTENDS DeviceClaims, TLC

\* The members of these sets are interchangeable.
Symmetric ==
  Permutations(Procs) \cup Permutations(Sessions) \cup Permutations(Requests)
    \cup Permutations(Leases \ Earlier)
=============================================================================
