--------------------------- MODULE MCVacancyStore ---------------------------
(* VacancyStore for TLC: the contents a card may show and what of each has  *)
(* a history, and the symmetry of ids and keys (nothing orders them).       *)
EXTENDS VacancyStore, TLC

CONSTANTS senior, seniorRemote, junior

MCContents == {senior, seniorRemote, junior}

(* The first two contents differ in the description only.                   *)
MCTracked == (senior :> "senior") @@ (seniorRemote :> "senior") @@ (junior :> "junior")

MCUserStatuses == {"new", "hidden"}

Symmetry == Permutations(RunIds) \cup Permutations(Keys) \cup Permutations(Sources)
=============================================================================
