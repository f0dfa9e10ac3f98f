-------------------------- MODULE SourceLock_proofs -------------------------
(* The abstract lock excludes: at most one running attempt per source.      *)
EXTENDS SourceLock, TLAPS

LockTypeOK == /\ phase \in [RunIds -> {"new", "running"} \cup Outcomes]
              /\ owner \in [RunIds -> Sources \cup {NoRow}]

(* Acquire is the only step that makes an attempt running, and it asks for  *)
(* no other holder; Release and GiveUpAll only remove holders.              *)
THEOREM LockExcludes == Spec => [](LockTypeOK /\ MutualExclusion)
<1>1. Init => LockTypeOK /\ MutualExclusion
  BY DEF Init, LockTypeOK, MutualExclusion
<1>2. LockTypeOK /\ MutualExclusion /\ [Next]_lockVars => (LockTypeOK /\ MutualExclusion)'
  <2> SUFFICES ASSUME LockTypeOK, MutualExclusion, [Next]_lockVars
               PROVE  (LockTypeOK /\ MutualExclusion)'
    OBVIOUS
  <2> USE DEF LockTypeOK, MutualExclusion, Outcomes
  <2>1. CASE \E s \in Sources, r \in RunIds : Acquire(s, r)
    BY <2>1 DEF Acquire, Holders
  <2>2. CASE \E r \in RunIds, outcome \in Outcomes : Release(r, outcome)
    BY <2>2 DEF Release
  <2>3. CASE GiveUpAll
    BY <2>3 DEF GiveUpAll
  <2>4. CASE UNCHANGED lockVars
    BY <2>4 DEF lockVars
  <2> QED BY <2>1, <2>2, <2>3, <2>4 DEF Next
<1> QED BY <1>1, <1>2, PTL DEF Spec
=============================================================================
