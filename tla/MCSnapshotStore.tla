--------------------------- MODULE MCSnapshotStore ---------------------------
(***************************************************************************)
(* Three runs of two sources.  The first two runs share a day, all three a *)
(* week and a month; each level keeps one restore point.                   *)
(***************************************************************************)
EXTENDS SnapshotStore, TLC

Symmetry == Permutations(Sources)

MCKeep == [l \in Levels |-> 1]

MCBucket == [l \in Levels |-> [r \in Runs |->
                CASE l = 0 -> r
                  [] l = 1 -> IF r <= 2 THEN 1 ELSE 3
                  [] OTHER -> 1]]

=============================================================================
