---------------------------- MODULE MCStoreReads ----------------------------
(* Two sources with one vacancy each, two runs and one reader.  0.99 s is   *)
(* a longer text than 1.00 s and comes before it.                           *)
EXTENDS StoreReads, TLC

CONSTANT post

MCTracked == [c \in {post} |-> c]
MCInstants == {99, 100}

MCLimits == {0, 2, 3}
MCOffsets == {-1, 1}

AllRows == [source |-> Unset, run |-> Unset, listing |-> Unset, user |-> Unset]
MCFilters == {AllRows, [AllRows EXCEPT !.listing = "active"]}
             \cup {[AllRows EXCEPT !.run = r] : r \in RunIds}

ReadsSymmetry == Permutations(Sources) \cup Permutations(RunIds)
=============================================================================
