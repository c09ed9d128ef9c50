--------------------------- MODULE MCSqliteFiles ---------------------------
(***************************************************************************)
(* Instances of SqliteFiles for TLC: what the streams hold.                *)
(***************************************************************************)
EXTENDS SqliteFiles, TLC

CONSTANTS small, full, big

\* One piece, as many as the limit (2) allows, and two more than that.
Pieces == [d \in Data |-> IF d = small THEN 1 ELSE IF d = full THEN 2 ELSE 4]

Symmetry == Permutations(Puts) \cup Permutations(Inodes)
=============================================================================
