-------------------- MODULE ConsolidationFileLockProofs --------------------
(***************************************************************************)
(* TLAPS proofs about the consolidation lock file, for every set of        *)
(* processes and every bound on the faults: its types, and the exclusion   *)
(* that remains when acquisitions do not overlap.                          *)
(***************************************************************************)
EXTENDS ConsolidationFileLock, TLAPS

USE ConstantsAssumption

\* A process that is somewhere in acquire or release is running.
Running == \A p \in Procs : pc[p] # "idle" => alive[p]

\* Without overlap one process at most is inside acquire.
OneAcquires ==
    ~overlapped =>
        \A p, q \in Procs : pc[p] \in Acquiring /\ pc[q] \in Acquiring => p = q

\* A user's lock is there, written and young; and who has judged the lock to
\* be stale, or creates one, does so while nobody uses it.
LockIsGood ==
    ~overlapped /\ ~outlived =>
        /\ \A p \in Procs : pc[p] \in Using => lockedBy = p /\ content = "fresh"
        /\ \A p, q \in Procs :
              pc[p] \in Acquiring \ {"judging"} => pc[q] \notin Using
        /\ \A p \in Procs : pc[p] = "writing" => lockedBy = p

IInv == TypeOK /\ Running /\ OneAcquires /\ LockIsGood

-----------------------------------------------------------------------------
LEMMA InitHolds == Init => IInv
<1> SUFFICES ASSUME Init PROVE IInv
  OBVIOUS
<1>1. pc \in [Procs -> {"idle"} \cup Acquiring \cup Using]
  BY DEF Init
<1>2. alive \in [Procs -> BOOLEAN]
  BY Zenon DEF Init
<1>3. TypeOK
  BY <1>1, <1>2 DEF Init, TypeOK, Contents
<1>4. \A p \in Procs : pc[p] = "idle"
  BY DEF Init
<1> QED
  BY <1>3, <1>4 DEF IInv, Running, OneAcquires, LockIsGood, Acquiring, Using

LEMMA TypeStep == TypeOK /\ [Next]_vars => TypeOK'
<1> SUFFICES ASSUME TypeOK, [Next]_vars PROVE TypeOK'
  OBVIOUS
<1> USE DEF TypeOK, Acquiring, Using, Contents, Go, MakeFile, RemoveFile, Fault
<1>1. CASE \E p \in Procs : Attempt(p)
  BY <1>1 DEF Attempt, CreateFile
<1>2. CASE \E p \in Procs : Judge(p)
  BY <1>2 DEF Judge
<1>3. CASE \E p \in Procs : Clear(p)
  BY <1>3 DEF Clear
<1>4. CASE \E p \in Procs : Retry(p)
  BY <1>4 DEF Retry, CreateFile
<1>5. CASE \E p \in Procs : Write(p)
  BY <1>5 DEF Write
<1>6. CASE \E p \in Procs : Finish(p) \/ Exists(p) \/ Check(p)
  BY <1>6 DEF Finish, Exists, Check
<1>7. CASE \E p \in Procs : Remove(p)
  BY <1>7 DEF Remove
<1>8. CASE \E p \in Procs : Crash(p) \/ ReusePid(p)
  <2>1. alive' \in [Procs -> BOOLEAN]
    BY <1>8, Zenon DEF Crash, ReusePid
  <2>2. pc' \in [Procs -> {"idle"} \cup Acquiring \cup Using]
    BY <1>8 DEF Crash, ReusePid
  <2>3. faults' \in Nat
    BY <1>8 DEF Crash, ReusePid
  <2>4. UNCHANGED <<lockedBy, content, overlapped, outlived>>
    BY <1>8, Zenon DEF Crash, ReusePid
  <2> QED
    BY <2>1, <2>2, <2>3, <2>4
<1>9. CASE Age
  BY <1>9 DEF Age
<1>10. CASE UNCHANGED vars
  BY <1>10 DEF vars
<1> QED
  BY <1>1, <1>2, <1>3, <1>4, <1>5, <1>6, <1>7, <1>8, <1>9, <1>10 DEF Next, Step

\* One step per action; under it, the three parts beyond the types.
LEMMA InvStep == IInv /\ [Next]_vars => IInv'
<1> SUFFICES ASSUME IInv, [Next]_vars PROVE IInv'
  OBVIOUS
<1>0. TypeOK'
  BY TypeStep DEF IInv
<1> USE DEF TypeOK, Acquiring, Using, Go, MakeFile, RemoveFile
<1> SUFFICES Running' /\ OneAcquires' /\ LockIsGood'
  BY <1>0 DEF IInv
<1>t. TypeOK /\ Running /\ OneAcquires /\ LockIsGood
  BY DEF IInv
<1> USE <1>t
<1>1. ASSUME NEW p \in Procs, Attempt(p)
      PROVE  Running' /\ OneAcquires' /\ LockIsGood'
  <2>1. Running'
    BY <1>1 DEF Attempt, CreateFile, Running
  <2>2. OneAcquires'
    BY <1>1 DEF Attempt, CreateFile, OneAcquires
  <2>3. LockIsGood'
    BY <1>1 DEF Attempt, CreateFile, LockIsGood
  <2> QED
    BY <2>1, <2>2, <2>3
<1>2. ASSUME NEW p \in Procs, Judge(p)
      PROVE  Running' /\ OneAcquires' /\ LockIsGood'
  <2>1. Running' /\ OneAcquires'
    BY <1>2 DEF Judge, Running, OneAcquires
  <2>2. LockIsGood'
    BY <1>2 DEF Judge, HeldActively, Running, OneAcquires, LockIsGood
  <2> QED
    BY <2>1, <2>2
<1>3. ASSUME NEW p \in Procs, Clear(p)
      PROVE  Running' /\ OneAcquires' /\ LockIsGood'
  <2>1. Running' /\ OneAcquires'
    BY <1>3 DEF Clear, Running, OneAcquires
  <2>2. LockIsGood'
    BY <1>3 DEF Clear, OneAcquires, LockIsGood
  <2> QED
    BY <2>1, <2>2
<1>4. ASSUME NEW p \in Procs, Retry(p)
      PROVE  Running' /\ OneAcquires' /\ LockIsGood'
  <2>1. Running' /\ OneAcquires'
    BY <1>4 DEF Retry, CreateFile, Running, OneAcquires
  <2>2. LockIsGood'
    BY <1>4 DEF Retry, CreateFile, OneAcquires, LockIsGood
  <2> QED
    BY <2>1, <2>2
<1>5. ASSUME NEW p \in Procs, Write(p)
      PROVE  Running' /\ OneAcquires' /\ LockIsGood'
  <2>1. Running' /\ OneAcquires'
    BY <1>5 DEF Write, Running, OneAcquires
  <2>2. LockIsGood'
    BY <1>5 DEF Write, OneAcquires, LockIsGood
  <2> QED
    BY <2>1, <2>2
<1>6. ASSUME NEW p \in Procs, Finish(p) \/ Exists(p) \/ Check(p)
      PROVE  Running' /\ OneAcquires' /\ LockIsGood'
  <2>1. Running' /\ OneAcquires'
    BY <1>6 DEF Finish, Exists, Check, Running, OneAcquires
  <2>2. LockIsGood'
    BY <1>6 DEF Finish, Exists, Check, LockIsGood
  <2> QED
    BY <2>1, <2>2
<1>7. ASSUME NEW p \in Procs, Remove(p)
      PROVE  Running' /\ OneAcquires' /\ LockIsGood'
  <2>1. Running' /\ OneAcquires'
    BY <1>7 DEF Remove, Running, OneAcquires
  <2>2. LockIsGood'
    BY <1>7 DEF Remove, LockIsGood
  <2> QED
    BY <2>1, <2>2
<1>8. ASSUME NEW p \in Procs, Crash(p) \/ ReusePid(p)
      PROVE  Running' /\ OneAcquires' /\ LockIsGood'
  <2>1. Running' /\ OneAcquires'
    BY <1>8 DEF Crash, ReusePid, Running, OneAcquires
  <2>2. LockIsGood'
    BY <1>8 DEF Crash, ReusePid, LockIsGood
  <2> QED
    BY <2>1, <2>2
<1>9. CASE Age
  BY <1>9 DEF Age, Running, OneAcquires, LockIsGood
<1>10. CASE UNCHANGED vars
  BY <1>10 DEF vars, Running, OneAcquires, LockIsGood
<1> QED
  BY <1>1, <1>2, <1>3, <1>4, <1>5, <1>6, <1>7, <1>8, <1>9, <1>10 DEF Next, Step

LEMMA InvImpliesSoleUser == IInv => SoleUser
BY DEF IInv, LockIsGood, SoleUser

LEMMA Invariance == Spec => []IInv
<1>1. IInv /\ [Next]_vars => IInv'
  BY InvStep
<1> QED
  BY InitHolds, <1>1, PTL DEF Spec

-----------------------------------------------------------------------------
\* The lock file's variables keep their types; in particular a file that is
\* not there has no content, whichever call removed it.
THEOREM LockTypeCorrect == Spec => []TypeOK
<1>1. IInv => TypeOK
  BY DEF IInv
<1> QED
  BY Invariance, <1>1, PTL

\* As long as acquisitions do not overlap and no holder outlives the staleness
\* limit, one process at most is between acquire_consolidation_lock and the
\* end of release_consolidation_lock, and the file at the path is its own.
THEOREM LockExcludes == Spec => []SoleUser
BY Invariance, InvImpliesSoleUser, PTL
=============================================================================
