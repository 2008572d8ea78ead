--------------------------- MODULE MCBlockqCache ---------------------------
(* Small instances of BlockqCache for TLC. *)
EXTENDS BlockqCache, TLC

CONSTANTS text, vision

\* Processes are told apart by their pids only.
OwnPids == [p \in Proc |-> p]

\* A large matrix, alone over the ceiling of 2, and a small one.
UnevenSizes == text :> 3 @@ vision :> 1
=============================================================================
