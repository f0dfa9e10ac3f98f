----------------------------- MODULE SourceLock -----------------------------
(***************************************************************************)
(* What the run log promises about one source, and nothing else: an       *)
(* attempt to collect a source is either not begun, running, or over; a    *)
(* source has at most one running attempt; an attempt that is over stays   *)
(* over.  VacancyStore, which keeps these facts in two SQL tables, is      *)
(* shown to implement this module.                                         *)
(***************************************************************************)

CONSTANTS Sources,  \* identifiers of the sources that can be collected
          RunIds,   \* identifiers of the attempts
          NoRow     \* the owner of an attempt that has not begun

Outcomes == {"success", "partial", "failed"}

VARIABLES phase,    \* how far each attempt is
          owner     \* the source each attempt collects

lockVars == <<phase, owner>>

Holders(s) == {r \in RunIds : phase[r] = "running" /\ owner[r] = s}

Init == /\ phase = [r \in RunIds |-> "new"]
        /\ owner = [r \in RunIds |-> NoRow]

Acquire(s, r) ==
  /\ phase[r] = "new"
  /\ Holders(s) = {}
  /\ phase' = [phase EXCEPT ![r] = "running"]
  /\ owner' = [owner EXCEPT ![r] = s]

Release(r, outcome) ==
  /\ phase[r] = "running"
  /\ phase' = [phase EXCEPT ![r] = outcome]
  /\ UNCHANGED owner

(* A restarted server gives up every attempt that is still running. *)
GiveUpAll ==
  /\ phase' = [r \in RunIds |-> IF phase[r] = "running" THEN "failed" ELSE phase[r]]
  /\ UNCHANGED owner

Next == \/ \E s \in Sources, r \in RunIds : Acquire(s, r)
        \/ \E r \in RunIds, outcome \in Outcomes : Release(r, outcome)
        \/ GiveUpAll

Spec == Init /\ [][Next]_lockVars

-----------------------------------------------------------------------------
(* No two attempts to collect one source are running at the same time. *)
MutualExclusion ==
  \A r, q \in RunIds :
    phase[r] = "running" /\ phase[q] = "running" /\ owner[r] = owner[q] => r = q
=============================================================================
