--------------------------- MODULE MCSourceAdmin ----------------------------
(* SourceAdmin for TLC.                                                     *)
EXTENDS SourceAdmin, TLC

(* By hand, or at an interval that is not a duration.                       *)
MCSchedules == {"manual", "never"}
MCRefused == {"never"}

Symmetry == Permutations(Tokens) \cup Permutations(Requests)
              \cup Permutations(Configs) \cup Permutations(Sources)
              \cup Permutations(Slugs)
=============================================================================
