------------------------------ MODULE PMALock ------------------------------
(***************************************************************************)
(* Terrace's reader-writer spin lock, PMA_Lock (PMA_Lock.cc), in the build *)
(* the experiments use (-DNDEBUG).  x is 1 while a writer holds the lock   *)
(* and 2 * n while n readers do.  A writer asks for the lock with a        *)
(* reason; the lock keeps the reason of an earlier writer, and one with a  *)
(* lesser reason gives the lock back and tries again.                      *)
(*                                                                         *)
(* An action is one access of a thread to the shared words.  A spinning    *)
(* step that changes nothing is left out.  As its callers in PMA.cc do, a  *)
(* thread gives back only what it holds.                                   *)
(***************************************************************************)
EXTENDS Integers, FiniteSets

CONSTANTS
    Thread,         \* tasks that use the lock
    NoThread,       \* reason_set_by = 0
    Reason,         \* reasons that lock is called with: 0 is GENERAL
    num_tries,
    Word            \* 2^64: the number of values of x

ASSUME ThreadAssumption == NoThread \notin Thread
ASSUME ReasonAssumption == Reason \subseteq 0 .. 2
ASSUME TriesAssumption == num_tries \in Nat \ {0}
ASSUME WordAssumption == Word \in Nat /\ Word > 2 /\ Word % 2 = 0
\* There are fewer than 2^63 tasks: x cannot overflow by their readers.
ASSUME FewThreads == IsFiniteSet(Thread) /\ 2 * Cardinality(Thread) < Word

VARIABLES
    x, reason, reason_set_by,   \* the lock
    pc, r, old_x, tries,        \* what each thread is doing, and its locals
    intruded                    \* a reader took the lock while x was odd

lockVars == <<reason, reason_set_by>>
localVars == <<r, old_x, tries>>
vars == <<x, lockVars, pc, localVars, intruded>>

GENERAL == 0
SAME == 3
Values == 0 .. Word - 1
Plus2(v) == IF v + 2 < Word THEN v + 2 ELSE v + 2 - Word
Minus2(v) == IF v >= 2 THEN v - 2 ELSE v + Word - 2

\* The locals of a call go out of scope.
Forget(t) ==
    /\ r' = [r EXCEPT ![t] = GENERAL]
    /\ old_x' = [old_x EXCEPT ![t] = 0]
    /\ tries' = [tries EXCEPT ![t] = 0]

At(t, from, to) == pc[t] = from /\ pc' = [pc EXCEPT ![t] = to]

Init ==
    /\ x = 0
    /\ reason = GENERAL
    /\ reason_set_by = NoThread
    /\ pc = [t \in Thread |-> "idle"]
    /\ r = [t \in Thread |-> GENERAL]
    /\ old_x = [t \in Thread |-> 0]
    /\ tries = [t \in Thread |-> 0]
    /\ intruded = FALSE

---------------------------------------------------------------------------
\* lock is called, and spins until its compare-and-swap of 0 to 1 succeeds.
CallLock(t, why) ==
    /\ At(t, "idle", "lock")
    /\ r' = [r EXCEPT ![t] = why]
    /\ UNCHANGED <<x, lockVars, old_x, tries, intruded>>

LockCas(t) ==
    /\ At(t, "lock", "locked")
    /\ x = 0
    /\ x' = 1
    /\ UNCHANGED <<lockVars, localVars, intruded>>

\* try_lock reads x before each compare-and-swap, and gives up after num_tries.
CallTryLock(t, why) ==
    /\ At(t, "idle", "try")
    /\ r' = [r EXCEPT ![t] = why]
    /\ tries' = [tries EXCEPT ![t] = 0]
    /\ UNCHANGED <<x, lockVars, old_x, intruded>>

TryFree(t) ==
    /\ At(t, "try", "tryCas")
    /\ x = 0
    /\ UNCHANGED <<x, lockVars, localVars, intruded>>

TryCas(t) ==
    /\ At(t, "tryCas", "tryLocked")
    /\ x = 0
    /\ x' = 1
    /\ tries' = [tries EXCEPT ![t] = 0]
    /\ UNCHANGED <<lockVars, r, old_x, intruded>>

TryFails(t) ==
    /\ pc[t] \in {"try", "tryCas"}
    /\ x # 0
    /\ IF tries[t] + 1 < num_tries
       THEN /\ pc' = [pc EXCEPT ![t] = "try"]
            /\ tries' = [tries EXCEPT ![t] = @ + 1]
            /\ UNCHANGED <<r, old_x>>
       ELSE /\ pc' = [pc EXCEPT ![t] = "idle"]
            /\ Forget(t)
    /\ UNCHANGED <<x, lockVars, intruded>>

\* Mutant of WrongReason: lock starts again without giving the lock back.
WrongReasonKeeps(t) ==
    /\ \/ At(t, "locked", "lock") /\ UNCHANGED localVars
       \/ At(t, "tryLocked", "idle") /\ Forget(t)
    /\ r[t] < reason
    /\ UNCHANGED <<x, lockVars, intruded>>

\* With a lesser reason than the lock's the lock is given back, by another
\* compare-and-swap; lock starts again and try_lock fails.
WrongReason(t) ==
    /\ \/ At(t, "locked", "lock") /\ UNCHANGED localVars
       \/ At(t, "tryLocked", "idle") /\ Forget(t)
    /\ r[t] < reason
    /\ x' = IF x = 1 THEN 0 ELSE x
    /\ UNCHANGED <<lockVars, intruded>>

\* Mutant of RightReason: the reason is not looked at.
RightReasonAny(t) ==
    /\ \/ At(t, "locked", "writing")
       \/ At(t, "tryLocked", "writing")
    /\ UNCHANGED <<x, lockVars, localVars, intruded>>

RightReason(t) ==
    /\ \/ At(t, "locked", "writing")
       \/ At(t, "tryLocked", "writing")
    /\ r[t] >= reason
    /\ UNCHANGED <<x, lockVars, localVars, intruded>>

---------------------------------------------------------------------------
\* Mutant of UnlockReason: the reason of another writer may be overwritten.
UnlockReasonAnyone(t, why) ==
    /\ At(t, "writing", "release")
    /\ IF why # SAME
       THEN /\ reason' = why
            /\ reason_set_by' = IF why # GENERAL THEN t ELSE NoThread
       ELSE UNCHANGED lockVars
    /\ Forget(t)
    /\ UNCHANGED <<x, intruded>>

\* unlock first leaves a reason behind, unless another writer's stands ...
UnlockReason(t, why) ==
    /\ At(t, "writing", "release")
    /\ IF why # SAME /\ (reason_set_by = t \/ reason = GENERAL \/ reason_set_by = NoThread)
       THEN /\ reason' = why
            /\ reason_set_by' = IF why # GENERAL THEN t ELSE NoThread
       ELSE UNCHANGED lockVars
    /\ Forget(t)
    /\ UNCHANGED <<x, intruded>>

\* ... and then stores 0.
Release(t) ==
    /\ At(t, "release", "idle")
    /\ x' = 0
    /\ UNCHANGED <<lockVars, localVars, intruded>>

\* make_shared: the writer becomes a reader; a failure is not noticed.
make_shared(t) ==
    /\ At(t, "writing", "reading")
    /\ x' = IF x = 1 THEN 2 ELSE x
    /\ Forget(t)
    /\ UNCHANGED <<lockVars, intruded>>

---------------------------------------------------------------------------
\* lock_shared is called, reads x ...
CallLockShared(t) ==
    /\ At(t, "idle", "sharedRead")
    /\ UNCHANGED <<x, lockVars, localVars, intruded>>

SharedRead(t) ==
    /\ At(t, "sharedRead", "sharedCheck")
    /\ old_x' = [old_x EXCEPT ![t] = x]
    /\ tries' = [tries EXCEPT ![t] = 0]
    /\ UNCHANGED <<x, lockVars, r, intruded>>

\* ... reads it again to see if a writer has the lock, and starts again then ...
SharedCheck(t) ==
    /\ \/ /\ At(t, "sharedCheck", "sharedCas")
          /\ x % 2 = 0
          /\ UNCHANGED localVars
       \/ /\ At(t, "sharedCheck", "sharedRead")
          /\ x % 2 # 0
          /\ Forget(t)
    /\ UNCHANGED <<x, lockVars, intruded>>

\* Mutant of SharedCas: a plain store instead of the compare-and-swap.
SharedCasStore(t) ==
    /\ At(t, "sharedCas", "reading")
    /\ x' = Plus2(old_x[t])
    /\ intruded' = (intruded \/ old_x[t] % 2 # 0)
    /\ Forget(t)
    /\ UNCHANGED lockVars

\* ... and compares-and-swaps; if x has changed,
SharedCas(t) ==
    /\ At(t, "sharedCas", "reading")
    /\ x = old_x[t]
    /\ x' = Plus2(old_x[t])
    /\ intruded' = (intruded \/ old_x[t] % 2 # 0)
    /\ Forget(t)
    /\ UNCHANGED lockVars

SharedCasFails(t) ==
    /\ At(t, "sharedCas", "sharedReload")
    /\ x # old_x[t]
    /\ tries' = [tries EXCEPT ![t] = @ + 1]
    /\ UNCHANGED <<x, lockVars, r, old_x, intruded>>

\* the new value is tried, odd or not, until the tries are used up.
SharedReload(t) ==
    /\ \/ /\ At(t, "sharedReload", "sharedCas")
          /\ tries[t] < num_tries
          /\ old_x' = [old_x EXCEPT ![t] = x]
          /\ UNCHANGED <<r, tries>>
       \/ /\ At(t, "sharedReload", "sharedRead")
          /\ tries[t] = num_tries
          /\ Forget(t)
    /\ UNCHANGED <<x, lockVars, intruded>>

\* unlock_shared: an atomic subtraction.
unlock_shared(t) ==
    /\ At(t, "reading", "idle")
    /\ x' = Minus2(x)
    /\ UNCHANGED <<lockVars, localVars, intruded>>

---------------------------------------------------------------------------
Lock(t) ==
    \/ \E why \in Reason : CallLock(t, why) \/ CallTryLock(t, why)
    \/ LockCas(t) \/ TryFree(t) \/ TryCas(t) \/ TryFails(t)
    \/ WrongReason(t) \/ RightReason(t)
Unlock(t) ==
    \/ \E why \in Reason \cup {SAME} : UnlockReason(t, why)
    \/ Release(t) \/ make_shared(t) \/ unlock_shared(t)
LockShared(t) ==
    \/ CallLockShared(t) \/ SharedRead(t) \/ SharedCheck(t)
    \/ SharedCas(t) \/ SharedCasFails(t) \/ SharedReload(t)

Next == \E t \in Thread : Lock(t) \/ Unlock(t) \/ LockShared(t)
Spec == Init /\ [][Next]_vars

---------------------------------------------------------------------------
Idle == {"idle", "lock", "try", "tryCas", "sharedRead", "sharedCheck", "sharedCas",
         "sharedReload"}
Exclusive == {"locked", "tryLocked", "writing", "release"}
Shared == {"reading"}

TypeOK ==
    /\ x \in Values
    /\ reason \in 0 .. 2
    /\ reason_set_by \in Thread \cup {NoThread}
    /\ pc \in [Thread -> Idle \cup Exclusive \cup Shared]
    /\ r \in [Thread -> Reason \cup {GENERAL}]
    /\ old_x \in [Thread -> Values]
    /\ tries \in [Thread -> 0 .. num_tries]
    /\ intruded \in BOOLEAN

\* Two writers never have the lock at once, not even when a reader got in
\* beside one and its unlock_shared comes after the writer's unlock: only
\* the writer that has the lock makes x even.
WritersExclude ==
    \A t, u \in Thread : pc[t] \in Exclusive /\ pc[u] \in Exclusive => t = u

\* A writer works only if its reason is not less than the one an earlier
\* writer left: while a region waits for a rebalance, GENERAL writers keep out.
ReasonRespected == \A t \in Thread : pc[t] = "writing" => r[t] >= reason

\* A reason stands until the writer that left it takes it back.
ReasonKept ==
    [][reason # GENERAL /\ reason' # reason
         => reason_set_by # NoThread /\ pc'[reason_set_by] # pc[reason_set_by]]_vars

\* As long as no reader took the lock while x was odd, x says who has the lock:
\* a writer alone, or how many readers.  A lock that nobody has is free, so that
\* whoever waits in lock waits for a thread that can go on; a writer that gives
\* the lock back for its reason does not leave it taken.
Readers == {t \in Thread : pc[t] \in Shared}
WordTruthful ==
    ~intruded =>
       IF \E t \in Thread : pc[t] \in Exclusive THEN x = 1 /\ Readers = {}
       ELSE x = 2 * Cardinality(Readers)

=============================================================================
