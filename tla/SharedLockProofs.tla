-------------------------- MODULE SharedLockProofs --------------------------
(***************************************************************************)
(* Proofs about SharedLock, for any set of threads.  Mutual exclusion needs *)
(* nothing of the flag: Holds says that a thread which has acquired the     *)
(* mutex still holds it until its own unlock(), and is inductive with the   *)
(* types.                                                                   *)
(***************************************************************************)
EXTENDS SharedLock, TLAPS

Holds == \A t \in Threads : at[t] \in {"acquired", "inside"} => mutex = t

LockInv == TypeOK /\ Holds /\ FlagNotStuck

LEMMA LockInitInv == Init => LockInv
BY DEF Init, LockInv, TypeOK, Holds, FlagNotStuck, Stages

LEMMA LockNextInv ==
    ASSUME NoThread \notin Threads, LockInv, [Next]_lockVars
    PROVE  LockInv'
<1> USE DEF LockInv, Move
<1>1. ASSUME NEW t \in Threads, TestOwns(t) PROVE LockInv'
  <2>1. TypeOK'
    BY <1>1 DEF TestOwns, TypeOK, Stages
  <2>2. Holds'
    BY <1>1 DEF TestOwns, TypeOK, Holds
  <2>3. FlagNotStuck'
    BY <1>1 DEF TestOwns, TypeOK, FlagNotStuck
  <2>4. QED
    BY <2>1, <2>2, <2>3
<1>2. ASSUME NEW t \in Threads, Acquire(t) PROVE LockInv'
  <2>1. TypeOK'
    BY <1>2 DEF Acquire, TypeOK, Stages
  <2>2. Holds'
    BY <1>2 DEF Acquire, TypeOK, Holds
  <2>3. FlagNotStuck'
    BY <1>2 DEF Acquire, TypeOK, FlagNotStuck
  <2>4. QED
    BY <2>1, <2>2, <2>3
<1>3. ASSUME NEW t \in Threads, Claim(t) PROVE LockInv'
  <2>1. TypeOK'
    BY <1>3 DEF Claim, TypeOK, Stages
  <2>2. Holds'
    BY <1>3 DEF Claim, TypeOK, Holds
  <2>3. FlagNotStuck'
    BY <1>3 DEF Claim, TypeOK, FlagNotStuck
  <2>4. QED
    BY <2>1, <2>2, <2>3
<1>4. ASSUME NEW t \in Threads, Release(t) PROVE LockInv'
  <2>1. TypeOK'
    BY <1>4 DEF Release, TypeOK, Stages
  <2>2. Holds'
    BY <1>4 DEF Release, TypeOK, Holds
  <2>3. FlagNotStuck'
    BY <1>4 DEF Release, TypeOK, FlagNotStuck
  <2>4. QED
    BY <2>1, <2>2, <2>3
<1>5. ASSUME NEW t \in Threads, Disclaim(t) PROVE LockInv'
  <2>1. TypeOK'
    BY <1>5 DEF Disclaim, TypeOK, Stages
  <2>2. Holds'
    BY <1>5 DEF Disclaim, TypeOK, Holds
  <2>3. FlagNotStuck'
    BY <1>5 DEF Disclaim, TypeOK, FlagNotStuck
  <2>4. QED
    BY <2>1, <2>2, <2>3
<1>6. CASE UNCHANGED lockVars
  BY <1>6 DEF lockVars, TypeOK, Holds, FlagNotStuck
<1>7. QED
  BY <1>1, <1>2, <1>3, <1>4, <1>5, <1>6 DEF Next, Finish

(* However many threads trample on the flag, at most one is between its    *)
(* lock() and its unlock().                                                *)
THEOREM Exclusion ==
    ASSUME NoThread \notin Threads
    PROVE  Spec => []MutualExclusion
<1>1. LockInv => MutualExclusion
  BY DEF LockInv, Holds, MutualExclusion
<1>2. LockInv /\ [Next]_lockVars => LockInv'
  BY LockNextInv
<1>3. QED
  BY LockInitInv, <1>1, <1>2, PTL DEF Spec

(* The flag is never left set with no thread on its way to clear it.       *)
THEOREM FlagClears ==
    ASSUME NoThread \notin Threads
    PROVE  Spec => []FlagNotStuck
<1>1. LockInv => FlagNotStuck
  BY DEF LockInv
<1>2. LockInv /\ [Next]_lockVars => LockInv'
  BY LockNextInv
<1>3. QED
  BY LockInitInv, <1>1, <1>2, PTL DEF Spec
=============================================================================
