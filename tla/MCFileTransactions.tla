------------------------- MODULE MCFileTransactions -------------------------
(* FileTransactions with two transactions. *)
EXTENDS FileTransactions, TLC

\* The members of these sets are interchangeable.
Symmetric == Permutations(Transactions) \cup Permutations(Paths)
=============================================================================
