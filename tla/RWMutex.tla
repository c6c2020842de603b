-------------------------------- MODULE RWMutex --------------------------------
(***************************************************************************)
(* cppdap's lock for readers and writers (rwmutex.h): a counter of read    *)
(* locks under a std::mutex, which a writer keeps locked while it writes,  *)
(* and a condition variable on which a writer waits for the last reader.   *)
(*                                                                         *)
(* A reader holds the std::mutex only inside one call, so its calls are    *)
(* one step each; owner is the writer that keeps it.  notify_one() removes *)
(* some thread from sleepers, which then contends for the std::mutex; a    *)
(* spurious wake-up removes one without a notification.                    *)
(***************************************************************************)
EXTENDS Integers, FiniteSets

CONSTANTS Threads, NoThread

ASSUME NoThreadIsNone == NoThread \notin Threads
ASSUME ThreadsAreFinite == IsFiniteSet(Threads)

VARIABLES
  readLocks,           \* RWMutex::readLocks
  pendingWriteLocks,   \* RWMutex::pendingWriteLocks
  owner,               \* the thread that holds RWMutex::mutex across calls
  sleepers             \* threads in cv.wait()

lock == <<readLocks, pendingWriteLocks, owner, sleepers>>

LockInit == readLocks = 0 /\ pendingWriteLocks = 0 /\ owner = NoThread /\ sleepers = {}

NotifyOne == \/ sleepers = {} /\ UNCHANGED sleepers
             \/ \E w \in sleepers : sleepers' = sleepers \ {w}

LockReader == /\ owner = NoThread
              /\ readLocks' = readLocks + 1
              /\ UNCHANGED <<pendingWriteLocks, owner, sleepers>>

UnlockReader ==
  /\ owner = NoThread
  /\ readLocks' = readLocks - 1
  /\ IF readLocks' = 0 /\ pendingWriteLocks > 0 THEN NotifyOne ELSE UNCHANGED sleepers
  /\ UNCHANGED <<pendingWriteLocks, owner>>

(***************************************************************************)
(* lockWriter(): the first two are its entry, the other two what the       *)
(* predicate of cv.wait() decides when the thread has been woken.          *)
(***************************************************************************)
LockWriterOverReaders(t) ==    \* mutant: a writer that comes first in does not wait
  /\ owner = NoThread
  /\ owner' = t
  /\ UNCHANGED <<readLocks, pendingWriteLocks, sleepers>>

LockWriterAtOnce(t) ==
  /\ owner = NoThread /\ readLocks = 0
  /\ owner' = t
  /\ UNCHANGED <<readLocks, pendingWriteLocks, sleepers>>

WaitForReaders(t) ==
  /\ owner = NoThread /\ readLocks > 0
  /\ pendingWriteLocks' = pendingWriteLocks + 1
  /\ sleepers' = sleepers \cup {t}
  /\ UNCHANGED <<readLocks, owner>>

LockWriterWoken(t) ==
  /\ owner = NoThread /\ readLocks = 0 /\ t \notin sleepers
  /\ owner' = t
  /\ pendingWriteLocks' = pendingWriteLocks - 1
  /\ UNCHANGED <<readLocks, sleepers>>

WaitAgain(t) ==
  /\ owner = NoThread /\ readLocks > 0 /\ t \notin sleepers
  /\ sleepers' = sleepers \cup {t}
  /\ UNCHANGED <<readLocks, pendingWriteLocks, owner>>

WakeSpuriously(t) == /\ t \in sleepers
                     /\ sleepers' = sleepers \ {t}
                     /\ UNCHANGED <<readLocks, pendingWriteLocks, owner>>

UnlockWriterSilently ==    \* mutant: a writer that waits as well is not notified
  owner' = NoThread /\ UNCHANGED <<readLocks, pendingWriteLocks, sleepers>>

UnlockWriter ==
  /\ IF pendingWriteLocks > 0 THEN NotifyOne ELSE UNCHANGED sleepers
  /\ owner' = NoThread
  /\ UNCHANGED <<readLocks, pendingWriteLocks>>
================================================================================
