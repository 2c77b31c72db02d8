----------------------- MODULE Synchronization_proofs -----------------------
(***************************************************************************)
(* Two components whose threads meet in a few shared words.                *)
(*                                                                         *)
(* PMALock: mutual exclusion of PMA_Lock's writers and the meaning of its  *)
(* reasons and of its word, for every set of threads, number of tries and  *)
(* (even) size of the word.                                                *)
(*                                                                         *)
(* InsertionMgr (Ins below): the log, the total and the statistics, for    *)
(* every stream, chunk size, scale and number of calls.  None of the four  *)
(* properties is inductive: what the total says after the loop rests on    *)
(* how the counters of the loop go together (Counting), and what the       *)
(* tracker does rests on where the two threads can be at the same time     *)
(* (Control) and on the sample it decides by being no larger than the      *)
(* count (Sampled).                                                        *)
(***************************************************************************)
EXTENDS PMALock, InsertionReport, FiniteSetTheorems, TLAPS

Ins == INSTANCE InsertionMgr

\* x is odd while a writer has the lock.  It is not the converse, nor x = 1,
\* that holds: a reader may have added 2, and a writer that gives up for its
\* reason or becomes a reader may then leave x odd.
OddForWriter == \A t \in Thread : pc[t] \in Exclusive => x % 2 = 1

\* A reason other than GENERAL is somebody's.
ReasonOwned == reason # GENERAL => reason_set_by # NoThread

\* lock_shared has a try left when it comes to its compare-and-swap.
TriesLeft ==
    \A t \in Thread : pc[t] \in {"sharedCheck", "sharedCas"} => tries[t] < num_tries

Inv ==
    /\ TypeOK
    /\ OddForWriter
    /\ WritersExclude
    /\ ReasonRespected
    /\ ReasonOwned
    /\ TriesLeft

---------------------------------------------------------------------------
\* Adding and subtracting 2 modulo Word keeps the parity.
LEMMA Parity ==
    ASSUME NEW v \in Values
    PROVE  /\ Plus2(v) \in Values /\ Plus2(v) % 2 = v % 2
           /\ Minus2(v) \in Values /\ Minus2(v) % 2 = v % 2
<1>1. PICK h \in Nat : Word = 2 * h
  BY WordAssumption
<1>2. Word >= 2
  BY <1>1, WordAssumption
<1>3. v + 2 \in Nat /\ (v + 2) % 2 = v % 2 /\ (v + 2 >= Word => (v + 2 - Word) % 2 = v % 2)
  BY <1>1 DEF Values
<1>4. v >= 2 => (v - 2) % 2 = v % 2
  BY DEF Values
<1>5. (v + Word - 2) % 2 = v % 2
  BY <1>1, <1>2 DEF Values
<1>6. QED
  BY <1>2, <1>3, <1>4, <1>5, WordAssumption DEF Values, Plus2, Minus2

LEMMA Initially == Init => Inv
<1> SUFFICES ASSUME Init PROVE Inv
  OBVIOUS
<1>1. intruded \in BOOLEAN
  BY Zenon DEF Init
<1>2. TypeOK
  BY <1>1, WordAssumption, TriesAssumption DEF Init, TypeOK, Values, GENERAL, Idle
<1>3. QED
  BY <1>2 DEF Init, Inv, OddForWriter, WritersExclude, ReasonRespected, ReasonOwned,
              TriesLeft, Exclusive

\* Forget keeps the types of the locals.
LEMMA ForgetType ==
    ASSUME TypeOK, NEW t \in Thread, Forget(t)
    PROVE  /\ r' \in [Thread -> Reason \cup {GENERAL}]
           /\ old_x' \in [Thread -> Values]
           /\ tries' \in [Thread -> 0 .. num_tries]
BY WordAssumption, TriesAssumption DEF TypeOK, Forget, Values

\* A thread that is left without the lock: it had it, or the parity stays.
LEMMA Leaves ==
    ASSUME TypeOK, OddForWriter, WritersExclude, NEW t \in Thread,
           NEW to \in Idle \cup Shared, pc' = [pc EXCEPT ![t] = to],
           x' % 2 = x % 2 \/ pc[t] \in Exclusive
    PROVE  OddForWriter' /\ WritersExclude'
<1>1. to \notin Exclusive
  BY DEF Idle, Shared, Exclusive
<1>2. \A u \in Thread : pc'[u] = IF u = t THEN to ELSE pc[u]
  BY DEF TypeOK
<1>3. WritersExclude'
  BY <1>1, <1>2 DEF WritersExclude
<1>4. OddForWriter'
  BY <1>1, <1>2 DEF OddForWriter, WritersExclude
<1>5. QED
  BY <1>3, <1>4

\* A thread that keeps the lock.
LEMMA Stays ==
    ASSUME TypeOK, OddForWriter, WritersExclude, NEW t \in Thread,
           NEW to \in Exclusive, pc' = [pc EXCEPT ![t] = to],
           pc[t] \in Exclusive, x' = x
    PROVE  OddForWriter' /\ WritersExclude'
<1>1. \A u \in Thread : pc'[u] = IF u = t THEN to ELSE pc[u]
  BY DEF TypeOK
<1>2. QED
  BY <1>1 DEF OddForWriter, WritersExclude

\* A thread that takes the lock: nobody has it while x is 0.
LEMMA Enters ==
    ASSUME TypeOK, OddForWriter, WritersExclude, NEW t \in Thread,
           NEW to \in Exclusive, pc' = [pc EXCEPT ![t] = to], x = 0, x' = 1
    PROVE  OddForWriter' /\ WritersExclude'
<1>1. \A u \in Thread : pc[u] \notin Exclusive
  BY DEF OddForWriter
<1>2. \A u \in Thread : pc'[u] = IF u = t THEN to ELSE pc[u]
  BY DEF TypeOK
<1>3. QED
  BY <1>1, <1>2 DEF OddForWriter, WritersExclude

\* The reasons are respected when nobody starts to work or changes a reason.
LEMMA ReasonStays ==
    ASSUME TypeOK, ReasonRespected, ReasonOwned, NEW t \in Thread,
           NEW to \in (Idle \cup Exclusive \cup Shared) \ {"writing"},
           pc' = [pc EXCEPT ![t] = to], UNCHANGED lockVars,
           \A u \in Thread : u # t => r'[u] = r[u]
    PROVE  ReasonRespected' /\ ReasonOwned'
<1>1. \A u \in Thread : pc'[u] = IF u = t THEN to ELSE pc[u]
  BY DEF TypeOK
<1>2. reason' = reason /\ reason_set_by' = reason_set_by
  BY DEF lockVars
<1>3. QED
  BY <1>1, <1>2 DEF ReasonRespected, ReasonOwned

LEMMA TriesStay ==
    ASSUME TypeOK, TriesLeft, NEW t \in Thread,
           NEW to \in Idle \cup Exclusive \cup Shared, pc' = [pc EXCEPT ![t] = to],
           to \notin {"sharedCheck", "sharedCas"},
           \A u \in Thread : u # t => tries'[u] = tries[u]
    PROVE  TriesLeft'
<1>1. \A u \in Thread : pc'[u] = IF u = t THEN to ELSE pc[u]
  BY DEF TypeOK
<1>2. QED
  BY <1>1 DEF TriesLeft

LEMMA PcType ==
    ASSUME TypeOK, NEW t \in Thread, NEW to \in Idle \cup Exclusive \cup Shared,
           pc' = [pc EXCEPT ![t] = to]
    PROVE  pc' \in [Thread -> Idle \cup Exclusive \cup Shared]
BY DEF TypeOK

---------------------------------------------------------------------------
\* The calls, and the steps of try_lock that do not take the lock.
LEMMA CallStep ==
    ASSUME Inv, NEW t \in Thread,
           \/ \E why \in Reason : CallLock(t, why) \/ CallTryLock(t, why)
           \/ TryFree(t) \/ TryFails(t) \/ CallLockShared(t)
    PROVE  Inv'
<1>1. PICK to \in {"lock", "try", "tryCas", "idle", "sharedRead"} :
           pc' = [pc EXCEPT ![t] = to]
  BY DEF CallLock, CallTryLock, TryFree, TryFails, CallLockShared, At
<1>2. x' = x /\ UNCHANGED lockVars /\ intruded' = intruded
  BY DEF CallLock, CallTryLock, TryFree, TryFails, CallLockShared, lockVars
<1>3. /\ r' \in [Thread -> Reason \cup {GENERAL}]
      /\ \A u \in Thread : u # t => r'[u] = r[u]
  BY DEF CallLock, CallTryLock, TryFree, TryFails, CallLockShared, Forget, localVars,
         Inv, TypeOK
<1>4. /\ old_x' \in [Thread -> Values]
      /\ tries' \in [Thread -> 0 .. num_tries]
  BY ForgetType, TriesAssumption DEF CallLock, CallTryLock, TryFree, TryFails,
         CallLockShared, localVars, Inv, TypeOK
<1>5. /\ to \in Idle \cup Shared
      /\ to \in (Idle \cup Exclusive \cup Shared) \ {"writing"}
  BY DEF Idle
<1>6. TypeOK'
  BY <1>1, <1>2, <1>3, <1>4, <1>5, PcType DEF Inv, TypeOK, lockVars
<1>7. OddForWriter' /\ WritersExclude'
  BY <1>1, <1>2, <1>5, Leaves DEF Inv
<1>8. ReasonRespected' /\ ReasonOwned'
  BY <1>1, <1>2, <1>3, <1>5, ReasonStays DEF Inv
<1>9. \A u \in Thread : u # t => tries'[u] = tries[u]
  BY DEF CallLock, CallTryLock, TryFree, TryFails, CallLockShared, Forget, localVars,
         Inv, TypeOK
<1>10. TriesLeft'
  BY <1>1, <1>5, <1>9, TriesStay DEF Inv
<1>11. QED
  BY <1>6, <1>7, <1>8, <1>10 DEF Inv

\* The compare-and-swap of lock and of try_lock.
LEMMA CasStep ==
    ASSUME Inv, NEW t \in Thread, LockCas(t) \/ TryCas(t)
    PROVE  Inv'
<1>1. PICK to \in {"locked", "tryLocked"} : pc' = [pc EXCEPT ![t] = to]
  BY DEF LockCas, TryCas, At
<1>2. x = 0 /\ x' = 1 /\ UNCHANGED lockVars /\ r' = r /\ intruded' = intruded
  BY DEF LockCas, TryCas, lockVars, localVars
<1>3. x' \in Values
  BY <1>2, WordAssumption DEF Values
<1>4. /\ old_x' \in [Thread -> Values]
      /\ tries' \in [Thread -> 0 .. num_tries]
  BY TriesAssumption DEF LockCas, TryCas, localVars, Inv, TypeOK
<1>5. /\ to \in Exclusive
      /\ to \in (Idle \cup Exclusive \cup Shared) \ {"writing"}
  BY DEF Exclusive
<1>6. TypeOK'
  BY <1>1, <1>2, <1>3, <1>4, <1>5, PcType DEF Inv, TypeOK, lockVars
<1>7. OddForWriter' /\ WritersExclude'
  BY <1>1, <1>2, <1>5, Enters DEF Inv
<1>8. ReasonRespected' /\ ReasonOwned'
  BY <1>1, <1>2, <1>5, ReasonStays DEF Inv
<1>9. TriesLeft'
  <2>1. \A u \in Thread : u # t => tries'[u] = tries[u]
    BY DEF LockCas, TryCas, localVars, Inv, TypeOK
  <2>2. QED
    BY <1>1, <1>5, <2>1, TriesStay DEF Inv
<1>10. QED
  BY <1>6, <1>7, <1>8, <1>9 DEF Inv

LEMMA WrongReasonStep ==
    ASSUME Inv, NEW t \in Thread, WrongReason(t)
    PROVE  Inv'
<1>1. PICK to \in {"lock", "idle"} : pc' = [pc EXCEPT ![t] = to]
  BY DEF WrongReason, At
<1>2. UNCHANGED lockVars /\ intruded' = intruded /\ x' \in Values
  BY WordAssumption DEF WrongReason, lockVars, Inv, TypeOK, Values
<1>3. pc[t] \in Exclusive
  BY DEF WrongReason, At, Exclusive
<1>4. /\ r' \in [Thread -> Reason \cup {GENERAL}]
      /\ old_x' \in [Thread -> Values]
      /\ tries' \in [Thread -> 0 .. num_tries]
  BY ForgetType DEF WrongReason, localVars, Inv, TypeOK
<1>5. \A u \in Thread : u # t => r'[u] = r[u]
  BY DEF WrongReason, localVars, Forget, Inv, TypeOK
<1>6. /\ to \in Idle \cup Shared
      /\ to \in (Idle \cup Exclusive \cup Shared) \ {"writing"}
  BY DEF Idle
<1>7. TypeOK'
  BY <1>1, <1>2, <1>4, <1>6, PcType DEF Inv, TypeOK, lockVars
<1>8. OddForWriter' /\ WritersExclude'
  BY <1>1, <1>3, <1>6, Leaves DEF Inv
<1>9. ReasonRespected' /\ ReasonOwned'
  BY <1>1, <1>2, <1>5, <1>6, ReasonStays DEF Inv
<1>10. TriesLeft'
  <2>1. \A u \in Thread : u # t => tries'[u] = tries[u]
    BY DEF WrongReason, localVars, Forget, Inv, TypeOK
  <2>2. QED
    BY <1>1, <1>6, <2>1, TriesStay DEF Inv
<1>11. QED
  BY <1>7, <1>8, <1>9, <1>10 DEF Inv

LEMMA RightReasonStep ==
    ASSUME Inv, NEW t \in Thread, RightReason(t)
    PROVE  Inv'
<1>1. pc' = [pc EXCEPT ![t] = "writing"] /\ pc[t] \in Exclusive
  BY DEF RightReason, At, Exclusive
<1>2. UNCHANGED <<x, reason, reason_set_by, r, old_x, tries, intruded>>
  BY DEF RightReason, lockVars, localVars
<1>3. "writing" \in Exclusive
  BY DEF Exclusive
<1>4. TypeOK'
  BY <1>1, <1>2, <1>3, PcType DEF Inv, TypeOK
<1>5. OddForWriter' /\ WritersExclude'
  BY <1>1, <1>2, <1>3, Stays DEF Inv
<1>6. ReasonRespected' /\ ReasonOwned'
  BY <1>1, <1>2 DEF Inv, TypeOK, ReasonRespected, ReasonOwned, RightReason
<1>7. TriesLeft'
  BY <1>1, <1>2, <1>3, TriesStay DEF Inv
<1>8. QED
  BY <1>4, <1>5, <1>6, <1>7 DEF Inv

---------------------------------------------------------------------------
LEMMA UnlockReasonStep ==
    ASSUME Inv, NEW t \in Thread, NEW why \in Reason \cup {SAME}, UnlockReason(t, why)
    PROVE  Inv'
<1>1. pc' = [pc EXCEPT ![t] = "release"] /\ pc[t] = "writing"
  BY DEF UnlockReason, At
<1>2. x' = x /\ intruded' = intruded
  BY DEF UnlockReason
<1>3. "release" \in Exclusive /\ "writing" \in Exclusive
  BY DEF Exclusive
<1>4. /\ r' \in [Thread -> Reason \cup {GENERAL}]
      /\ old_x' \in [Thread -> Values]
      /\ tries' \in [Thread -> 0 .. num_tries]
  BY ForgetType DEF UnlockReason, Inv
<1>5. /\ reason' \in 0 .. 2
      /\ reason_set_by' \in Thread \cup {NoThread}
      /\ ReasonOwned'
  BY ReasonAssumption, ThreadAssumption
     DEF UnlockReason, Inv, TypeOK, ReasonOwned, lockVars, SAME
<1>6. TypeOK'
  BY <1>1, <1>2, <1>3, <1>4, <1>5, PcType DEF Inv, TypeOK
<1>7. OddForWriter' /\ WritersExclude'
  BY <1>1, <1>2, <1>3, Stays DEF Inv
<1>8. \A u \in Thread : pc'[u] # "writing"
  BY <1>1, <1>3 DEF Inv, TypeOK, WritersExclude
<1>9. TriesLeft'
  <2>1. \A u \in Thread : u # t => tries'[u] = tries[u]
    BY DEF UnlockReason, Forget, Inv, TypeOK
  <2>2. QED
    BY <1>1, <1>3, <2>1, TriesStay DEF Inv
<1>10. QED
  BY <1>5, <1>6, <1>7, <1>8, <1>9 DEF Inv, ReasonRespected

\* The lock is given back, or kept as a reader.
LEMMA GiveBackStep ==
    ASSUME Inv, NEW t \in Thread, Release(t) \/ make_shared(t) \/ unlock_shared(t)
    PROVE  Inv'
<1>1. PICK to \in {"idle", "reading"} : pc' = [pc EXCEPT ![t] = to]
  BY DEF Release, make_shared, unlock_shared, At
<1>2. UNCHANGED lockVars /\ intruded' = intruded
  BY DEF Release, make_shared, unlock_shared, lockVars
<1>3. Minus2(x) \in Values /\ Minus2(x) % 2 = x % 2
  BY Parity DEF Inv, TypeOK
<1>4. {0, 2} \subseteq Values
  BY WordAssumption DEF Values
<1>5. x' \in Values
  BY <1>3, <1>4 DEF Release, make_shared, unlock_shared, Inv, TypeOK
<1>6. x' % 2 = x % 2 \/ pc[t] \in Exclusive
  BY <1>3 DEF Release, make_shared, unlock_shared, At, Exclusive
<1>7. /\ r' \in [Thread -> Reason \cup {GENERAL}]
      /\ old_x' \in [Thread -> Values]
      /\ tries' \in [Thread -> 0 .. num_tries]
  BY ForgetType DEF Release, make_shared, unlock_shared, localVars, Inv, TypeOK
<1>8. \A u \in Thread : u # t => r'[u] = r[u]
  BY DEF Release, make_shared, unlock_shared, localVars, Forget, Inv, TypeOK
<1>9. /\ to \in Idle \cup Shared
      /\ to \in (Idle \cup Exclusive \cup Shared) \ {"writing"}
  BY DEF Idle, Shared
<1>10. TypeOK'
  BY <1>1, <1>2, <1>5, <1>7, <1>9, PcType DEF Inv, TypeOK, lockVars
<1>11. OddForWriter' /\ WritersExclude'
  BY <1>1, <1>6, <1>9, Leaves DEF Inv
<1>12. ReasonRespected' /\ ReasonOwned'
  BY <1>1, <1>2, <1>8, <1>9, ReasonStays DEF Inv
<1>13. TriesLeft'
  <2>1. \A u \in Thread : u # t => tries'[u] = tries[u]
    BY DEF Release, make_shared, unlock_shared, localVars, Forget, Inv, TypeOK
  <2>2. QED
    BY <1>1, <1>9, <2>1, TriesStay DEF Inv
<1>14. QED
  BY <1>10, <1>11, <1>12, <1>13 DEF Inv

\* The steps of lock_shared.
LEMMA SharedStep ==
    ASSUME Inv, NEW t \in Thread,
           \/ SharedRead(t) \/ SharedCheck(t) \/ SharedCas(t)
           \/ SharedCasFails(t) \/ SharedReload(t)
    PROVE  Inv'
<1> USE DEF SharedRead, SharedCheck, SharedCas, SharedCasFails, SharedReload
<1>1. PICK to \in Idle \cup Shared : pc' = [pc EXCEPT ![t] = to]
  BY DEF At, Idle, Shared
<1>2. UNCHANGED lockVars
  BY DEF lockVars
<1>3. intruded' \in BOOLEAN
  BY Zenon DEF Inv, TypeOK
<1>4. x' \in Values /\ x' % 2 = x % 2
  <2>1. x \in Values
    BY DEF Inv, TypeOK
  <2>2. CASE SharedCas(t)
    <3>1. x' = Plus2(x)
      BY <2>2
    <3>2. QED
      BY <2>1, <3>1, Parity
  <2>3. CASE ~SharedCas(t)
    <3>1. x' = x
      BY <2>3
    <3>2. QED
      BY <2>1, <3>1
  <2>4. QED
    BY <2>2, <2>3
<1>5. /\ r' \in [Thread -> Reason \cup {GENERAL}]
      /\ \A u \in Thread : u # t => r'[u] = r[u]
  BY DEF localVars, Forget, Inv, TypeOK
<1>6. old_x' \in [Thread -> Values]
  BY ForgetType DEF localVars, Inv, TypeOK
<1>7. tries' \in [Thread -> 0 .. num_tries]
  BY ForgetType, TriesAssumption DEF localVars, Inv, TypeOK, TriesLeft, At
<1>8. TypeOK'
  BY <1>1, <1>2, <1>3, <1>4, <1>5, <1>6, <1>7, PcType DEF Inv, TypeOK, lockVars
<1>9. OddForWriter' /\ WritersExclude'
  BY <1>1, <1>4, Leaves DEF Inv
<1>10. to \in (Idle \cup Exclusive \cup Shared) \ {"writing"}
  BY DEF Idle, Shared
<1>11. ReasonRespected' /\ ReasonOwned'
  BY <1>1, <1>2, <1>5, <1>10, ReasonStays DEF Inv
<1>12. TriesLeft'
  <2>1. SUFFICES ASSUME NEW u \in Thread, pc'[u] \in {"sharedCheck", "sharedCas"}
                 PROVE  tries'[u] < num_tries
    BY DEF TriesLeft
  <2>2. CASE u # t
    BY <1>1, <2>1, <2>2 DEF localVars, Forget, Inv, TypeOK, TriesLeft
  <2>3. CASE u = t
    BY <2>1, <2>3, TriesAssumption DEF At, localVars, Forget, Inv, TypeOK, TriesLeft
  <2>4. QED
    BY <2>2, <2>3
<1>13. QED
  BY <1>8, <1>9, <1>11, <1>12 DEF Inv

---------------------------------------------------------------------------
LEMMA Stutter == Inv /\ UNCHANGED vars => Inv'
<1> SUFFICES ASSUME Inv, UNCHANGED vars PROVE Inv'
  OBVIOUS
<1>1. UNCHANGED <<x, reason, reason_set_by, pc, r, old_x, tries, intruded>>
  BY DEF vars, lockVars, localVars
<1>2. TypeOK'
  BY <1>1 DEF Inv, TypeOK
<1>3. QED
  BY <1>1, <1>2 DEF Inv, OddForWriter, WritersExclude, ReasonRespected, ReasonOwned,
                    TriesLeft

\* Inv holds throughout.
THEOREM Invariance == Spec => []Inv
<1>1. ASSUME Inv, Next PROVE Inv'
  <2>1. PICK t \in Thread : Lock(t) \/ Unlock(t) \/ LockShared(t)
    BY <1>1 DEF Next
  <2>2. CASE Lock(t)
    BY <1>1, <2>2, CallStep, CasStep, WrongReasonStep, RightReasonStep DEF Lock
  <2>3. CASE Unlock(t)
    BY <1>1, <2>3, UnlockReasonStep, GiveBackStep DEF Unlock
  <2>4. CASE LockShared(t)
    BY <1>1, <2>4, CallStep, SharedStep DEF LockShared
  <2>5. QED
    BY <2>1, <2>2, <2>3, <2>4
<1>2. Inv /\ [Next]_vars => Inv'
  BY <1>1, Stutter
<1>3. QED
  BY Initially, <1>2, PTL DEF Spec

\* At most one writer has the lock (PMA_Lock::lock and try_lock), for any
\* number of readers and writers and whatever the readers do to x.
THEOREM WritersCorrect == Spec => []WritersExclude
<1>1. Inv => WritersExclude
  BY DEF Inv
<1>2. QED
  BY Invariance, <1>1, PTL

\* A writer that works has at least the reason the lock asks for.
THEOREM ReasonCorrect == Spec => []ReasonRespected
<1>1. Inv => ReasonRespected
  BY DEF Inv
<1>2. QED
  BY Invariance, <1>1, PTL

\* A reason is changed by the writer that left it and by nobody else
\* (PMA_Lock::unlock).
THEOREM ReasonKeptCorrect == Spec => ReasonKept
<1> DEFINE Kept == reason # GENERAL /\ reason' # reason
                     => reason_set_by # NoThread /\ pc'[reason_set_by] # pc[reason_set_by]
<1>1. ASSUME Inv, Next PROVE Kept
  <2>1. PICK t \in Thread : Lock(t) \/ Unlock(t) \/ LockShared(t)
    BY <1>1 DEF Next
  <2>2. CASE \E why \in Reason \cup {SAME} : UnlockReason(t, why)
    BY <1>1, <2>2 DEF UnlockReason, At, Inv, TypeOK, ReasonOwned, lockVars
  <2>3. CASE Lock(t) \/ Release(t) \/ make_shared(t) \/ unlock_shared(t) \/ LockShared(t)
    <3>1. UNCHANGED lockVars
      BY <2>3 DEF Lock, LockShared, Release, make_shared, unlock_shared, CallLock, LockCas,
                  CallTryLock, TryFree, TryCas, TryFails, WrongReason, RightReason,
                  CallLockShared, SharedRead, SharedCheck, SharedCas, SharedCasFails,
                  SharedReload, lockVars
    <3>2. QED
      BY <3>1 DEF lockVars
  <2>4. QED
    BY <2>1, <2>2, <2>3 DEF Unlock
<1>2. Inv /\ [Next]_vars => [Kept]_vars
  BY <1>1
<1>3. QED
  BY Invariance, <1>2, PTL DEF Spec, ReasonKept

---------------------------------------------------------------------------
(* What x says while no reader has intruded.                               *)

\* Some writer has the lock.
Written == \E t \in Thread : pc[t] \in Exclusive

\* The readers are threads: finitely many, and too few for x to overflow.
LEMMA ReadersFew ==
    ASSUME NEW S \in SUBSET Thread
    PROVE  /\ IsFiniteSet(S) /\ Cardinality(S) \in Nat /\ 2 * Cardinality(S) < Word
           /\ Cardinality(S) = 0 <=> S = {}
  <1>1. IsFiniteSet(Thread) /\ Cardinality(Thread) \in Nat
    BY FewThreads, FS_CardinalityType
  <1>2. IsFiniteSet(S) /\ Cardinality(S) <= Cardinality(Thread)
    BY <1>1, FS_Subset
  <1>3. Cardinality(S) \in Nat
    BY <1>2, FS_CardinalityType
  <1>4. Cardinality(S) = 0 <=> S = {}
    BY <1>2, FS_EmptySet
  <1> QED BY <1>1, <1>2, <1>3, <1>4, FewThreads, WordAssumption

\* A step of t within the code that does not hold the lock, or within the code
\* of a writer, leaves the holders as they are.
LEMMA QuietStep ==
    ASSUME TypeOK, WordTruthful, NEW t \in Thread, NEW to, pc' = [pc EXCEPT ![t] = to],
           (pc[t] \in Idle /\ to \in Idle) \/ (pc[t] \in Exclusive /\ to \in Exclusive),
           x' = x, intruded' = intruded
    PROVE  WordTruthful'
  <1>1. \A u \in Thread : /\ pc'[u] \in Exclusive <=> pc[u] \in Exclusive
                          /\ pc'[u] \in Shared <=> pc[u] \in Shared
    BY DEF TypeOK, Idle, Exclusive, Shared
  <1>2. Written' <=> Written
    BY <1>1 DEF Written
  <1>3. Readers' = Readers
    BY <1>1 DEF Readers
  <1> QED BY <1>2, <1>3 DEF WordTruthful, Written

\* A writer gets in when x is 0: there is no reader.
LEMMA WriterEnters ==
    ASSUME TypeOK, WordTruthful, NEW t \in Thread, NEW to \in Exclusive,
           pc' = [pc EXCEPT ![t] = to], pc[t] \in Idle, x = 0, x' = 1, intruded' = intruded
    PROVE  WordTruthful'
  <1> SUFFICES ASSUME ~intruded PROVE x' = 1 /\ Readers' = {} /\ Written'
    BY DEF WordTruthful, Written
  <1>1. Readers \in SUBSET Thread
    BY DEF Readers
  <1>2. 0 = 2 * Cardinality(Readers)
    BY DEF WordTruthful
  <1>3. Readers = {}
    BY <1>1, <1>2, ReadersFew
  <1>4. Readers' = {}
    BY <1>3 DEF Readers, TypeOK, Exclusive, Shared
  <1>5. Written'
    BY DEF Written, TypeOK
  <1> QED BY <1>4, <1>5

\* The writer leaves, or becomes the only reader.
LEMMA WriterLeaves ==
    ASSUME TypeOK, WritersExclude, WordTruthful, NEW t \in Thread, NEW to,
           pc' = [pc EXCEPT ![t] = to], pc[t] \in Exclusive, intruded' = intruded,
           ~intruded => \/ to \in Idle /\ x' = 0
                        \/ to \in Shared /\ x' = 2
    PROVE  WordTruthful'
  <1> SUFFICES ASSUME ~intruded PROVE ~Written' /\ x' = 2 * Cardinality(Readers')
    BY DEF WordTruthful, Written
  <1>1. x = 1 /\ Readers = {}
    BY DEF WordTruthful
  <1>2. to \notin Exclusive
    BY DEF Idle, Exclusive, Shared
  <1>3. ~Written'
    BY <1>2 DEF Written, WritersExclude, TypeOK
  <1>4. CASE to \in Idle /\ x' = 0
    <2>1. Readers' = {}
      BY <1>1, <1>4 DEF Readers, TypeOK, Idle, Shared
    <2>2. Cardinality(Readers') = 0
      BY <2>1, FS_EmptySet
    <2> QED BY <1>3, <1>4, <2>2
  <1>5. CASE to \in Shared /\ x' = 2
    <2>1. Readers' = {t}
      BY <1>1, <1>5 DEF Readers, TypeOK
    <2>2. Cardinality(Readers') = 1
      BY <2>1, FS_Singleton
    <2> QED BY <1>3, <1>5, <2>2
  <1> QED BY <1>4, <1>5

\* A reader gets in with an even x: there is no writer.
LEMMA ReaderEnters ==
    ASSUME TypeOK, WordTruthful, NEW t \in Thread, SharedCas(t)
    PROVE  WordTruthful'
  <1>1. /\ pc[t] = "sharedCas" /\ pc' = [pc EXCEPT ![t] = "reading"]
        /\ x = old_x[t] /\ x' = Plus2(x)
    BY DEF SharedCas, At
  <1>2. ~intruded' => ~intruded /\ x % 2 = 0
    BY <1>1, Zenon DEF SharedCas
  <1> SUFFICES ASSUME ~intruded' PROVE ~Written' /\ x' = 2 * Cardinality(Readers')
    BY DEF WordTruthful, Written
  <1>3. ~Written
    <2>1. x # 1
      BY <1>2
    <2> QED BY <1>2, <2>1 DEF WordTruthful, Written
  <1>4. x = 2 * Cardinality(Readers)
    BY <1>2, <1>3 DEF WordTruthful, Written
  <1>5. ~Written'
    BY <1>1, <1>3 DEF Written, TypeOK, Exclusive
  <1>6. Readers' = Readers \cup {t} /\ t \notin Readers
    BY <1>1 DEF Readers, TypeOK, Shared
  <1>7. Readers \in SUBSET Thread /\ Readers \cup {t} \in SUBSET Thread
    BY DEF Readers
  <1>8. IsFiniteSet(Readers) /\ Cardinality(Readers) \in Nat
    BY <1>7, ReadersFew
  <1>9. Cardinality(Readers \cup {t}) = Cardinality(Readers) + 1
    BY <1>6, <1>8, FS_AddElement
  <1>10. 2 * Cardinality(Readers \cup {t}) < Word
    BY <1>7, ReadersFew
  <1>11. 2 * Cardinality(Readers) + 2 < Word
    BY <1>8, <1>9, <1>10
  <1>12. x' = 2 * Cardinality(Readers) + 2
    BY <1>1, <1>4, <1>11 DEF Plus2
  <1> QED BY <1>5, <1>6, <1>8, <1>9, <1>12

\* A reader leaves: it was counted.
LEMMA ReaderLeaves ==
    ASSUME TypeOK, WordTruthful, NEW t \in Thread, unlock_shared(t)
    PROVE  WordTruthful'
  <1>1. /\ pc[t] = "reading" /\ pc' = [pc EXCEPT ![t] = "idle"]
        /\ x' = Minus2(x) /\ intruded' = intruded
    BY DEF unlock_shared, At
  <1> SUFFICES ASSUME ~intruded PROVE ~Written' /\ x' = 2 * Cardinality(Readers')
    BY <1>1 DEF WordTruthful, Written
  <1>2. t \in Readers
    BY <1>1 DEF Readers, Shared
  <1>3. ~Written /\ x = 2 * Cardinality(Readers)
    BY <1>2 DEF WordTruthful, Written
  <1>4. ~Written'
    BY <1>1, <1>3 DEF Written, TypeOK, Exclusive
  <1>5. Readers' = Readers \ {t}
    BY <1>1 DEF Readers, TypeOK, Shared
  <1>6. Readers \in SUBSET Thread /\ Readers \ {t} \in SUBSET Thread
    BY DEF Readers
  <1>7. IsFiniteSet(Readers) /\ Cardinality(Readers) \in Nat
    BY <1>6, ReadersFew
  <1>8. Cardinality(Readers \ {t}) = Cardinality(Readers) - 1 /\ Cardinality(Readers \ {t}) \in Nat
    <2>1. Cardinality(Readers \ {t}) = Cardinality(Readers) - 1
      BY <1>2, <1>7, FS_RemoveElement
    <2>2. Cardinality(Readers \ {t}) \in Nat
      BY <1>6, ReadersFew
    <2> QED BY <2>1, <2>2
  <1>9. x' = 2 * Cardinality(Readers) - 2
    BY <1>1, <1>3, <1>7, <1>8 DEF Minus2
  <1> QED BY <1>4, <1>5, <1>7, <1>8, <1>9

\* Every step of a thread keeps x truthful.
LEMMA TruthfulStep ==
    ASSUME Inv, WordTruthful, NEW t \in Thread, Lock(t) \/ Unlock(t) \/ LockShared(t)
    PROVE  WordTruthful'
  <1> USE DEF At, lockVars, localVars
  <1>t. TypeOK /\ WritersExclude
    BY DEF Inv
  <1>1. CASE \E why \in Reason : CallLock(t, why) \/ CallTryLock(t, why)
    <2>1. \E to \in Idle : pc' = [pc EXCEPT ![t] = to]
      BY <1>1 DEF CallLock, CallTryLock, Idle
    <2>2. pc[t] \in Idle /\ x' = x /\ intruded' = intruded
      BY <1>1 DEF CallLock, CallTryLock, Idle
    <2> QED BY <1>t, <2>1, <2>2, QuietStep
  <1>2. CASE TryFree(t) \/ TryFails(t)
    <2>1. \E to \in Idle : pc' = [pc EXCEPT ![t] = to]
      BY <1>2 DEF TryFree, TryFails, Idle
    <2>2. pc[t] \in Idle /\ x' = x /\ intruded' = intruded
      BY <1>2 DEF TryFree, TryFails, Idle
    <2> QED BY <1>t, <2>1, <2>2, QuietStep
  <1>3. CASE LockCas(t) \/ TryCas(t)
    <2>1. \E to \in Exclusive : pc' = [pc EXCEPT ![t] = to]
      BY <1>3 DEF LockCas, TryCas, Exclusive
    <2>2. pc[t] \in Idle /\ x = 0 /\ x' = 1 /\ intruded' = intruded
      BY <1>3 DEF LockCas, TryCas, Idle
    <2> QED BY <1>t, <2>1, <2>2, WriterEnters
  <1>4. CASE WrongReason(t)
    <2>1. /\ \E to \in Idle : pc' = [pc EXCEPT ![t] = to]
          /\ pc[t] \in Exclusive /\ intruded' = intruded
      BY <1>4 DEF WrongReason, Idle, Exclusive
    <2>2. ~intruded => x' = 0
      BY <1>4, <2>1 DEF WrongReason, WordTruthful
    <2> QED BY <1>t, <2>1, <2>2, WriterLeaves
  <1>5. CASE RightReason(t) \/ \E why \in Reason \cup {SAME} : UnlockReason(t, why)
    <2>1. \E to \in Exclusive : pc' = [pc EXCEPT ![t] = to]
      BY <1>5 DEF RightReason, UnlockReason, Exclusive
    <2>2. pc[t] \in Exclusive /\ x' = x /\ intruded' = intruded
      BY <1>5 DEF RightReason, UnlockReason, Exclusive
    <2> QED BY <1>t, <2>1, <2>2, QuietStep
  <1>6. CASE Release(t)
    <2>1. /\ \E to \in Idle : pc' = [pc EXCEPT ![t] = to]
          /\ pc[t] \in Exclusive /\ intruded' = intruded /\ x' = 0
      BY <1>6 DEF Release, Idle, Exclusive
    <2> QED BY <1>t, <2>1, WriterLeaves
  <1>7. CASE make_shared(t)
    <2>1. /\ \E to \in Shared : pc' = [pc EXCEPT ![t] = to]
          /\ pc[t] \in Exclusive /\ intruded' = intruded
      BY <1>7 DEF make_shared, Shared, Exclusive
    <2>2. ~intruded => x' = 2
      BY <1>7, <2>1 DEF make_shared, WordTruthful
    <2> QED BY <1>t, <2>1, <2>2, WriterLeaves
  <1>8. CASE unlock_shared(t)
    BY <1>t, <1>8, ReaderLeaves
  <1>9. CASE SharedCas(t)
    BY <1>t, <1>9, ReaderEnters
  <1>10. CASE CallLockShared(t) \/ SharedRead(t) \/ SharedCheck(t) \/ SharedCasFails(t)
                \/ SharedReload(t)
    <2>1. \E to \in Idle : pc' = [pc EXCEPT ![t] = to]
      BY <1>10 DEF CallLockShared, SharedRead, SharedCheck, SharedCasFails, SharedReload, Idle
    <2>2. pc[t] \in Idle /\ x' = x /\ intruded' = intruded
      BY <1>10 DEF CallLockShared, SharedRead, SharedCheck, SharedCasFails, SharedReload, Idle
    <2> QED BY <1>t, <2>1, <2>2, QuietStep
  <1> QED
    BY <1>1, <1>2, <1>3, <1>4, <1>5, <1>6, <1>7, <1>8, <1>9, <1>10
    DEF Lock, Unlock, LockShared

\* As long as no reader has got in beside a writer, x says who has the lock.
THEOREM WordCorrect == Spec => []WordTruthful
  <1>1. Init => WordTruthful
    <2> SUFFICES ASSUME Init PROVE WordTruthful
      OBVIOUS
    <2>1. Readers = {} /\ ~Written
      BY DEF Init, Readers, Written, Shared, Exclusive
    <2>2. Cardinality(Readers) = 0
      BY <2>1, FS_EmptySet
    <2> QED BY <2>1, <2>2 DEF Init, WordTruthful, Written
  <1>2. Inv /\ WordTruthful /\ [Next]_vars => WordTruthful'
    <2> SUFFICES ASSUME Inv, WordTruthful, [Next]_vars PROVE WordTruthful'
      OBVIOUS
    <2>1. CASE Next
      BY <2>1, TruthfulStep DEF Next
    <2>2. CASE UNCHANGED vars
      BY <2>2 DEF vars, localVars, WordTruthful, Readers
    <2> QED BY <2>1, <2>2
  <1> QED BY <1>1, <1>2, Invariance, PTL DEF Spec

\* Somebody has a lock that is not free, so that whoever waits in lock waits for
\* a thread that can go on.
THEOREM NobodyStuck ==
    Spec => [](~intruded /\ x # 0 => \E t \in Thread : pc[t] \in Exclusive \cup Shared)
  <1>1. WordTruthful => (~intruded /\ x # 0 => \E t \in Thread : pc[t] \in Exclusive \cup Shared)
    <2> SUFFICES ASSUME WordTruthful, ~intruded, x # 0,
                        \A t \in Thread : pc[t] \notin Exclusive \cup Shared
                 PROVE  FALSE
      OBVIOUS
    <2>1. ~Written /\ Readers = {}
      BY DEF Written, Readers
    <2>2. Cardinality(Readers) = 0
      BY <2>1, FS_EmptySet
    <2> QED BY <2>1, <2>2 DEF WordTruthful, Written
  <1> QED BY <1>1, WordCorrect, PTL

-----------------------------------------------------------------------------
(* The insertion manager.                                                  *)

\* Where the two threads are, and what the flag says then.
Control ==
    /\ ppc \in {"out", "report"} => tpc = "done"
    /\ ppc = "exited" <=> tpc = "exited"
    /\ ppc \in {"ingest", "cc", "signal"} => ~shutdown

\* The loop's counters: m is reduced by a chunk only when the chunk is done.
Counting ==
    /\ ppc = "ingest" => /\ total = Edges
                         /\ inserted + m = Edges + chunk_i
                         /\ chunk_i <= m
                         /\ ~timed => chunk_i = 0
    /\ num_updates <= 2 * inserted

\* The sample that the tracker decides by.
Sampled == tpc = "decide" => updates <= num_updates

InsertionInv ==
    /\ Ins!TypeOK
    /\ Control
    /\ Counting
    /\ Sampled
    /\ PercentHonest
    /\ TrackerOutlastsStream
    /\ StatsSurvive

USE EdgesAssumption, ChunkAssumption, ScaleAssumption, CallsAssumption

\* An integer quotient, multiplied back, is no larger than the dividend.
LEMMA QuotientBound ==
    ASSUME NEW a \in Nat, NEW b \in Nat \ {0}
    PROVE  a \div b \in Nat /\ (a \div b) * b <= a
  OBVIOUS

\* What Share computes, rounded down.
LEMMA ShareBound ==
    ASSUME NEW n \in Nat, NEW scale \in Nat
    PROVE  /\ TrackTotal \in Nat \ {0}
           /\ Ins!Share(n, scale) \in Nat
           /\ Ins!Share(n, scale) * TrackTotal <= n * scale
  <1>1. TrackTotal \in Nat \ {0}
    BY DEF TrackTotal
  <1>2. n * scale \in Nat
    OBVIOUS
  <1> QED BY <1>1, <1>2, QuotientBound DEF Ins!Share, Ins!TrackTotal, TrackTotal

\* The initial states satisfy the inductive invariant.
LEMMA InsertionInit == Ins!Init => InsertionInv
  <1> SUFFICES ASSUME Ins!Init PROVE InsertionInv
    OBVIOUS
  <1>1. /\ timed \in BOOLEAN /\ expired \in BOOLEAN /\ shutdown \in BOOLEAN
        /\ statsWritten \in BOOLEAN
    BY Zenon DEF Ins!Init
  <1>2. Ins!TypeOK
    BY <1>1 DEF Ins!Init, Ins!TypeOK
  <1>3. PercentHonest
    BY DEF Ins!Init, PercentHonest, TrackTotal
  <1>4. StatsSurvive
    BY DEF Ins!Init, StatsSurvive
  <1> QED
    BY <1>2, <1>3, <1>4
    DEF Ins!Init, InsertionInv, Control, Counting, Sampled,
       TrackerOutlastsStream

\* A sample that is logged keeps the percentages honest.
LEMMA SampleHonest ==
    ASSUME NEW p \in Nat, NEW prev \in Nat, NEW n \in Nat, prev <= n,
           p * TrackTotal <= prev * Hundred
    PROVE  (p + Ins!Share(n - prev, Hundred)) * TrackTotal <= n * Hundred
  <1> DEFINE amount == Ins!Share(n - prev, Hundred)
  <1>1. n - prev \in Nat
    OBVIOUS
  <1>2. /\ TrackTotal \in Nat \ {0}
        /\ amount \in Nat
        /\ amount * TrackTotal <= (n - prev) * Hundred
    BY <1>1, ShareBound
  <1> HIDE DEF amount
  <1>3. (p + amount) * TrackTotal = p * TrackTotal + amount * TrackTotal
    BY <1>2
  <1>4. (n - prev) * Hundred = n * Hundred - prev * Hundred
    OBVIOUS
  <1>5. (p + amount) * TrackTotal <= n * Hundred
    BY <1>2, <1>3, <1>4
  <1> QED BY <1>5 DEF amount

\* Every step of either thread, of the graph's workers and of the clock
\* preserves the inductive invariant.
LEMMA InsertionNext == InsertionInv /\ [Ins!Next]_(Ins!vars) => InsertionInv'
  <1> SUFFICES ASSUME InsertionInv, [Ins!Next]_(Ins!vars) PROVE InsertionInv'
    OBVIOUS
  <1> USE DEF Ins!mainVars, Ins!trackVars
  <1>t. TrackTotal = 2 * Edges
    BY DEF TrackTotal
  <1>1. CASE Ins!TrackOpen
    <2>1. statsWritten' \in BOOLEAN
      BY <1>1, Zenon DEF Ins!TrackOpen
    <2>2. ~statsWritten'
      BY <1>1, Zenon DEF Ins!TrackOpen
    <2> QED BY <1>1, <1>t, <2>1, <2>2 DEF InsertionInv, Ins!TypeOK, Control, Counting,
       Sampled, PercentHonest,
       TrackerOutlastsStream, StatsSurvive, Ins!TrackOpen
  <1>2. CASE Ins!TrackOpenFails
    BY <1>2, <1>t DEF InsertionInv, Ins!TypeOK, Control, Counting, Sampled, PercentHonest,
       TrackerOutlastsStream, StatsSurvive, Ins!TrackOpenFails
  <1>3. CASE Ins!TrackSample
    <2>1. prev_updates \in Nat /\ num_updates \in Nat /\ prev_updates <= num_updates
      BY <1>3 DEF InsertionInv, Ins!TypeOK, PercentHonest, Ins!TrackSample
    <2>2. Ins!Share(num_updates - prev_updates, Hundred) \in Nat
      BY <2>1, ShareBound
    <2>3. PercentHonest' /\ percent' \in Nat /\ prev_updates' \in Nat
      <3>1. CASE Ins!Share(num_updates - prev_updates, Hundred) > 1
        <4>1. /\ percent' = percent + Ins!Share(num_updates - prev_updates, Hundred)
              /\ prev_updates' = num_updates /\ num_updates' = num_updates
          BY <1>3, <3>1 DEF Ins!TrackSample
        <4>2. percent' * TrackTotal <= num_updates * Hundred
          BY <1>3, <2>1, <4>1, SampleHonest DEF InsertionInv, Ins!TypeOK, PercentHonest,
             Ins!TrackSample
        <4> QED BY <2>1, <2>2, <4>1, <4>2 DEF InsertionInv, Ins!TypeOK, PercentHonest,
           TrackTotal
      <3>2. CASE ~(Ins!Share(num_updates - prev_updates, Hundred) > 1)
        <4>1. percent' = percent /\ prev_updates' = prev_updates /\ num_updates' = num_updates
          BY <1>3, <3>2 DEF Ins!TrackSample
        <4> QED BY <1>3, <4>1 DEF InsertionInv, Ins!TypeOK, PercentHonest, TrackTotal,
           Ins!TrackSample
      <3> QED BY <3>1, <3>2
    <2>4. Ins!TypeOK' /\ Control' /\ Counting' /\ Sampled'
      BY <1>3, <2>3 DEF InsertionInv, Ins!TypeOK, Control, Counting, Sampled, Ins!TrackSample
    <2>5. TrackerOutlastsStream' /\ StatsSurvive'
      BY <1>3, <1>t DEF InsertionInv, TrackerOutlastsStream, StatsSurvive,
         Ins!TrackSample
    <2> QED BY <2>3, <2>4, <2>5 DEF InsertionInv
  <1>4. CASE Ins!TrackStop
    <2>1. ppc \in {"ingest", "cc", "signal"} => num_updates = TrackTotal
      BY <1>4, <1>t DEF InsertionInv, Ins!TypeOK, Control, Counting, Sampled, Ins!TrackStop,
         Ins!TrackFinished, Ins!TrackTotal
    <2> QED BY <1>4, <2>1, <1>t DEF InsertionInv, Ins!TypeOK, Control, Counting, Sampled,
       PercentHonest,
       TrackerOutlastsStream, StatsSurvive, Ins!TrackStop
  <1>5. CASE Ins!TrackDisplay
    <2>1. progress' \in Nat
      BY <1>5, ShareBound DEF InsertionInv, Ins!TypeOK, Ins!TrackDisplay
    <2> QED BY <1>5, <2>1, <1>t DEF InsertionInv, Ins!TypeOK, Control, Counting, Sampled,
       PercentHonest,
       TrackerOutlastsStream, StatsSurvive, Ins!TrackDisplay
  <1>6. CASE Ins!Begin
    <2>1. expired' \in BOOLEAN /\ shutdown' \in BOOLEAN
      BY <1>6, Zenon DEF Ins!Begin
    <2>2. ~shutdown'
      BY <1>6, Zenon DEF Ins!Begin
    <2> QED BY <1>6, <1>t, <2>1, <2>2 DEF InsertionInv, Ins!TypeOK, Control, Counting,
       Sampled, PercentHonest,
       TrackerOutlastsStream, StatsSurvive, Ins!Begin
  <1>7. CASE Ins!InsertUntimed
    BY <1>7, <1>t DEF InsertionInv, Ins!TypeOK, Control, Counting, Sampled, PercentHonest,
       TrackerOutlastsStream, StatsSurvive, Ins!InsertUntimed
  <1>8. CASE Ins!InsertTimed
    BY <1>8, <1>t DEF InsertionInv, Ins!TypeOK, Control, Counting, Sampled, PercentHonest,
       TrackerOutlastsStream, StatsSurvive, Ins!InsertTimed
  <1>9. CASE Ins!NextChunk
    BY <1>9, <1>t DEF InsertionInv, Ins!TypeOK, Control, Counting, Sampled, PercentHonest,
       TrackerOutlastsStream, StatsSurvive, Ins!NextChunk, Ins!ChunkDone
  <1>10. CASE Ins!StopShort
    BY <1>10, <1>t DEF InsertionInv, Ins!TypeOK, Control, Counting, Sampled, PercentHonest,
       TrackerOutlastsStream, StatsSurvive, Ins!StopShort, Ins!ChunkDone
  <1>11. CASE Ins!StreamEnds
    BY <1>11, <1>t DEF InsertionInv, Ins!TypeOK, Control, Counting, Sampled, PercentHonest,
       TrackerOutlastsStream, StatsSurvive, Ins!StreamEnds
  <1>12. CASE Ins!ConnectedComponents
    BY <1>12, <1>t DEF InsertionInv, Ins!TypeOK, Control, Counting, Sampled, PercentHonest,
       TrackerOutlastsStream, StatsSurvive, Ins!ConnectedComponents
  <1>13. CASE Ins!SignalShutdown
    BY <1>13, <1>t DEF InsertionInv, Ins!TypeOK, Control, Counting, Sampled, PercentHonest,
       TrackerOutlastsStream, StatsSurvive, Ins!SignalShutdown
  <1>14. CASE Ins!Report
    BY <1>14, <1>t DEF InsertionInv, Ins!TypeOK, Control, Counting, Sampled, PercentHonest,
       TrackerOutlastsStream, StatsSurvive, Ins!Report
  <1>15. CASE Ins!Return
    BY <1>15, <1>t DEF InsertionInv, Ins!TypeOK, Control, Counting, Sampled, PercentHonest,
       TrackerOutlastsStream, StatsSurvive, Ins!Return
  <1>16. CASE Ins!Apply
    BY <1>16, <1>t DEF InsertionInv, Ins!TypeOK, Control, Counting, Sampled, PercentHonest,
       TrackerOutlastsStream, StatsSurvive, Ins!Apply
  <1>17. CASE Ins!Expire
    BY <1>17, <1>t DEF InsertionInv, Ins!TypeOK, Control, Counting, Sampled, PercentHonest,
       TrackerOutlastsStream, StatsSurvive, Ins!Expire
  <1>18. CASE UNCHANGED Ins!vars
    BY <1>18 DEF InsertionInv, Ins!TypeOK, Control, Counting, Sampled, PercentHonest,
       TrackerOutlastsStream, StatsSurvive, Ins!vars, TrackTotal
  <1> QED
    BY <1>1, <1>2, <1>3, <1>4, <1>5, <1>6, <1>7, <1>8, <1>9, <1>10, <1>11, <1>12, <1>13,
       <1>14, <1>15, <1>16, <1>17, <1>18
    DEF Ins!Next, Ins!PerformStep, Ins!TrackStep, Ins!Ended

\* The inductive invariant holds in every reachable state.
THEOREM InsertionInvCorrect == Ins!Spec => []InsertionInv
  BY InsertionInit, InsertionNext, PTL DEF Ins!Spec

\* The log of a call never claims more than the graph's workers have applied,
\* though every entry is rounded.
THEOREM PercentCorrect == Ins!Spec => []PercentHonest
  <1>1. InsertionInv => PercentHonest
    BY DEF InsertionInv
  <1> QED BY <1>1, InsertionInvCorrect, PTL

\* A tracker outlasts its own stream, in the first call and in every later one,
\* whatever the last call left in the flag.
THEOREM TrackerCorrect == Ins!Spec => []TrackerOutlastsStream
  <1>1. InsertionInv => TrackerOutlastsStream
    BY DEF InsertionInv
  <1> QED BY <1>1, InsertionInvCorrect, PTL

\* The tracker never empties or extends a file after the statistics are in it.
THEOREM StatsCorrect == Ins!Spec => []StatsSurvive
  <1>1. InsertionInv => StatsSurvive
    BY DEF InsertionInv
  <1> QED BY <1>1, InsertionInvCorrect, PTL

=============================================================================
