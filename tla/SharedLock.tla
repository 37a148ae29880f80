----------------------------- MODULE SharedLock -----------------------------
(***************************************************************************)
(* Server::clientStatusLock: ONE std::unique_lock object, a member of the  *)
(* server, that several threads lock() and unlock().  Beside the mutex a   *)
(* unique_lock keeps a plain flag that says whether it owns the mutex:     *)
(*                                                                         *)
(*     lock():    throws if the flag is set; locks the mutex; sets it.     *)
(*     unlock():  throws if the flag is clear; unlocks the mutex; clears   *)
(*                it.                                                      *)
(*                                                                         *)
(* The flag is meant for one thread and is read and written here outside   *)
(* of the mutex.  Each access is a step.  An exception ends the process:   *)
(* neither the timer thread nor the main thread catches it.                *)
(***************************************************************************)
CONSTANTS Threads,      \* the threads that share the lock
          NoThread      \* none of them

VARIABLES owns,     \* the flag
          mutex,    \* the thread that holds the mutex, or NoThread
          at        \* how far each thread is in lock() or unlock()

lockVars == <<owns, mutex, at>>

Stages == {"out", "tested", "acquired", "inside", "released", "thrown"}

Init ==
    /\ owns = FALSE
    /\ mutex = NoThread
    /\ at = [t \in Threads |-> "out"]

Alive == \A t \in Threads : at[t] # "thrown"

Move(t, from, to) == Alive /\ at[t] = from /\ at' = [at EXCEPT ![t] = to]

TestOwns(t) ==
    /\ Move(t, "out", IF owns THEN "thrown" ELSE "tested")
    /\ UNCHANGED <<owns, mutex>>

\* Slip: try_lock whose result is not looked at.
AcquireTry(t) ==
    /\ Move(t, "tested", "acquired")
    /\ mutex' = t
    /\ UNCHANGED owns

\* Slip: the mutex is left locked by a thread that only asked for it.
AcquireTwice(t) ==
    /\ Move(t, "tested", "tested")
    /\ mutex = NoThread
    /\ mutex' = t
    /\ UNCHANGED owns

Acquire(t) ==
    /\ Move(t, "tested", "acquired")
    /\ mutex = NoThread
    /\ mutex' = t
    /\ UNCHANGED owns

Claim(t) ==
    /\ Move(t, "acquired", "inside")
    /\ owns' = TRUE
    /\ UNCHANGED mutex

Release(t) ==
    /\ Move(t, "inside", IF owns THEN "released" ELSE "thrown")
    /\ mutex' = IF owns THEN NoThread ELSE mutex
    /\ UNCHANGED owns

Disclaim(t) ==
    /\ Move(t, "released", "out")
    /\ owns' = FALSE
    /\ UNCHANGED mutex

Finish(t) == Acquire(t) \/ Claim(t) \/ Release(t) \/ Disclaim(t)

Next == \E t \in Threads : TestOwns(t) \/ Finish(t)

Spec == Init /\ [][Next]_lockVars

-----------------------------------------------------------------------------
TypeOK ==
    /\ owns \in BOOLEAN
    /\ mutex \in Threads \cup {NoThread}
    /\ at \in [Threads -> Stages]

\* However the flag is trampled on, two threads are never between lock() and
\* unlock() together: clientStatus is not written by both.
MutualExclusion ==
    \A t, u \in Threads : at[t] = "inside" /\ at[u] = "inside" => t = u

\* The flag is never left set with no thread to clear it: lock() would throw
\* for ever after.
FlagNotStuck == owns => \E t \in Threads : at[t] \in {"inside", "released"}
=============================================================================
