----------------------------- MODULE Socket_proofs -----------------------------
(***************************************************************************)
(* What is proved of cppdap's sockets, for any finite number of threads    *)
(* and calls: types, that the counter of RWMutex counts its readers, so    *)
(* that it is a lock for readers and writers, that no wake-up of a writer  *)
(* is lost, that a server which is stopped does not report an error, and   *)
(* that no thread uses a descriptor that has been closed, except, on macOS *)
(* and Windows, while the close() that has closed it is under way.         *)
(***************************************************************************)
EXTENDS Socket, FiniteSetTheorems, TLAPS

Reading == {"locked", "blocked", "unlock"}
Away    == {"idle", "rlock", "wlock"}
Waiting == {t \in Threads : pc[t] = "waiting"}

(***************************************************************************)
(* The inductive invariant of the lock.  A thread whose start() could not  *)
(* bind waits for the write lock and is one of the readers for good.       *)
(***************************************************************************)
ReadersAreCounted == readLocks = Cardinality(Readers)
WaitersAreCounted == pendingWriteLocks = Cardinality(Waiting)
WriterIsAlone     == /\ owner # NoThread => pc[owner] = "writing" /\ Readers = {}
                     /\ \A t \in Threads : pc[t] = "writing" => owner = t
SleepersWait      == sleepers \subseteq Waiting
OpeningWaits      == opening # NoThread =>
                       admin = opening /\ pc[opening] \in {"wlock", "waiting"}

LockInv == /\ TypeOK
           /\ ReadersAreCounted /\ WaitersAreCounted /\ WriterIsAlone /\ SleepersWait
           /\ OpeningWaits /\ WritersAreWoken

-----------------------------------------------------------------------------
(***************************************************************************)
(* The sets of readers and of waiting writers, and their sizes.            *)
(***************************************************************************)
LEMMA Finite == IsFiniteSet(Readers) /\ IsFiniteSet(Waiting)
BY ThreadsAreFinite, FS_Subset DEF Readers, Waiting

LEMMA FiniteNext == IsFiniteSet(Readers') /\ IsFiniteSet(Waiting')
BY ThreadsAreFinite, FS_Subset DEF Readers, Waiting

LEMMA Sizes ==
  /\ Cardinality(Readers) \in Nat /\ Cardinality(Waiting) \in Nat
  /\ Cardinality(Readers) = 0 <=> Readers = {}
  /\ Cardinality(Waiting) = 0 <=> Waiting = {}
BY Finite, FS_CardinalityType, FS_EmptySet

LEMMA Moves ==
  ASSUME TypeOK, NEW t \in Threads, NEW l, pc' = [pc EXCEPT ![t] = l], opening' = opening
  PROVE  /\ pc'[t] = l /\ \A u \in Threads : u # t => pc'[u] = pc[u]
         /\ Readers' = IF l \in Reading \/ opening = t THEN Readers \cup {t} ELSE Readers \ {t}
         /\ Waiting' = IF l = "waiting" THEN Waiting \cup {t} ELSE Waiting \ {t}
<1>1. /\ pc'[t] = l /\ \A u \in Threads : u # t => pc'[u] = pc[u]
  BY DEF TypeOK
<1>2. Readers' = IF l \in Reading \/ opening = t THEN Readers \cup {t} ELSE Readers \ {t}
  BY <1>1 DEF Readers, Reading
<1>3. Waiting' = IF l = "waiting" THEN Waiting \cup {t} ELSE Waiting \ {t}
  BY <1>1 DEF Waiting
<1>. QED BY <1>1, <1>2, <1>3

LEMMA Counting ==
  ASSUME NEW S, NEW t, IsFiniteSet(S)
  PROVE  /\ t \notin S => Cardinality(S \cup {t}) = Cardinality(S) + 1
         /\ t \in S => Cardinality(S \ {t}) = Cardinality(S) - 1
         /\ t \in S => S \cup {t} = S
         /\ t \notin S => S \ {t} = S
BY FS_AddElement, FS_RemoveElement

-----------------------------------------------------------------------------
(***************************************************************************)
(* Types.                                                                  *)
(***************************************************************************)
PCs == {"idle", "rlock", "locked", "blocked", "unlock", "wlock", "waiting", "writing"}
Ops == Blocking \cup {"none", "isOpen", "invalidate", "close"}

LEMMA InitTypes == Init => TypeOK
<1>. SUFFICES ASSUME Init PROVE TypeOK
  OBVIOUS
<1>1. valid \in BOOLEAN /\ listening \in BOOLEAN
  BY Zenon DEF Init, SocketInit
<1>2. descriptor \in {"open", "shut", "closed", "reused"}
  BY DEF Init, SocketInit
<1>5. closesFirst \in BOOLEAN /\ killed \in BOOLEAN
  BY Zenon DEF Init
<1>3. pc \in [Threads -> PCs] /\ op \in [Threads -> Ops]
  BY DEF Init, PCs, Ops
<1>4. calls \in 0 .. MaxCalls /\ arrivals \in 0 .. MaxArrivals
  BY BoundsAreNumbers DEF Init
<1>. QED BY <1>1, <1>2, <1>3, <1>4, <1>5
         DEF Init, LockInit, SocketInit, TypeOK, Blocking, PCs, Ops

LEMMA StepTypes ==
  ASSUME LockInv, NEW t \in Threads, Step(t), Alive
  PROVE  TypeOK'
<1>. USE DEF LockInv, TypeOK, Goto, Blocking, Alive
<1>1. CASE Enter(t)
  BY <1>1 DEF Enter, LockReader, kernel, server, counts
<1>2. CASE FindInvalid(t)
  BY <1>2 DEF FindInvalid, lock, kernel, counts
<1>3. CASE Block(t)
  BY <1>3 DEF Block, lock, kernel, server, counts
<1>4. CASE AcceptErrored(t)
  <2>1. error' \in BOOLEAN /\ got' \in BOOLEAN
    BY <1>4, Zenon DEF AcceptErrored
  <2>2. /\ pc' \in [Threads -> PCs]
        /\ UNCHANGED <<lock, listening, descriptor, arrived, full, gone, valid, op, opening,
                       stopped, admin, starting, serving, errors, counts>>
    BY <1>4 DEF AcceptErrored, PCs
  <2>. QED BY <2>1, <2>2 DEF lock, counts, PCs
<1>5. CASE CheckOpen(t)
  <2>1. op' \in [Threads -> Ops]
    <3>1. op' = [op EXCEPT ![t] = "invalidate"] \/ op' = [op EXCEPT ![t] = op[t]]
      BY <1>5 DEF CheckOpen
    <3>. QED BY <3>1 DEF Ops
  <2>2. error' \in BOOLEAN
    BY <1>5, Zenon DEF CheckOpen
  <2>. QED BY <1>5, <2>1, <2>2 DEF CheckOpen, lock, server, counts, Ops
<1>6. CASE Shutdown(t)
  BY <1>6 DEF Shutdown, Shut, lock, server, counts
<1>7. CASE Unblock(t)
  <2>1. got' \in BOOLEAN /\ full' \in BOOLEAN /\ error' \in BOOLEAN
    BY <1>7, Zenon DEF Unblock
  <2>2. arrived' \in Nat
    BY <1>7 DEF Unblock
  <2>3. pc' \in [Threads -> PCs]
    BY <1>7 DEF Unblock, PCs
  <2>4. UNCHANGED <<lock, listening, descriptor, gone, valid, op, opening, stopped, admin,
                    starting, serving, errors, counts>>
    BY <1>7 DEF Unblock
  <2>. QED BY <2>1, <2>2, <2>3, <2>4 DEF lock, counts, PCs
<1>8. CASE Leave(t)
  <2>1. t \in Readers
    BY <1>8 DEF Leave, Readers
  <2>2. readLocks - 1 \in Nat
    BY <2>1, Sizes DEF ReadersAreCounted
  <2>. QED BY <1>8, <2>2 DEF Leave, UnlockReader, NotifyOne, Return, kernel, server, counts
<1>9. CASE WriteLock(t)
  <2>1. pc[t] = "waiting" => pendingWriteLocks - 1 \in Nat
    <3>1. pc[t] = "waiting" => t \in Waiting
      BY DEF Waiting
    <3>. QED BY <3>1, Sizes DEF WaitersAreCounted
  <2>. QED BY <1>9, <2>1 DEF WriteLock, LockWriterAtOnce, WaitForReaders, LockWriterWoken,
                             WaitAgain, kernel, server, counts
<1>10. CASE Invalidate(t)
  <2>1. valid' \in BOOLEAN
    BY <1>10, Zenon DEF Invalidate
  <2>2. pc' \in [Threads -> PCs] /\ op' \in [Threads -> Ops]
    BY <1>10 DEF Invalidate, Return, PCs, Ops
  <2>3. descriptor' \in {"open", "shut", "closed", "reused"}
    BY <1>10 DEF Invalidate
  <2>4. owner' = NoThread /\ sleepers' \in SUBSET Threads
    BY <1>10 DEF Invalidate, UnlockWriter, NotifyOne
  <2>5. UNCHANGED <<readLocks, pendingWriteLocks, listening, arrived, full, gone, error, server,
                    counts>>
    BY <1>10 DEF Invalidate, UnlockWriter
  <2>. QED BY <2>1, <2>2, <2>3, <2>4, <2>5 DEF server, counts, PCs, Ops
<1>. QED BY <1>1, <1>2, <1>3, <1>4, <1>5, <1>6, <1>7, <1>8, <1>9, <1>10 DEF Step

LEMMA OtherTypes ==
  ASSUME LockInv,
         \/ Alive /\ \E t \in Threads : ReturnFromOther(t) \/ Spurious(t) \/ Use(t) \/ Stop(t)
                                      \/ ServerStep(t)
         \/ Alive /\ (Accept \/ Accepted \/ Arrive \/ Drain \/ Break \/ Reuse)
         \/ (\E t \in Threads : BrokenPipe(t)) \/ UNCHANGED vars
  PROVE  TypeOK'
<1>. USE AcceptorIsThread, BoundsAreNumbers DEF LockInv, TypeOK, Goto, Call, Blocking, Alive
<1>1. ASSUME NEW t \in Threads, Alive, Spurious(t) PROVE TypeOK'
  BY <1>1 DEF Spurious, WakeSpuriously, kernel, server, counts
<1>2. ASSUME NEW t \in Threads, Alive, Use(t) PROVE TypeOK'
  BY <1>2 DEF Use, lock, kernel, server
<1>3. ASSUME NEW t \in Threads, Alive, Stop(t) PROVE TypeOK'
  BY <1>3 DEF Stop, lock, kernel
<1>4. ASSUME NEW t \in Threads, Alive, ServerStep(t) PROVE TypeOK'
  <2>1. CASE Stopped(t)
    BY <1>4, <2>1 DEF Stopped, lock, kernel, counts
  <2>2. CASE Start(t)
    BY <1>4, <2>2 DEF Start, lock, counts
  <2>4. CASE NotOpen(t)
    BY <1>4, <2>4 DEF NotOpen, lock, counts
  <2>3. CASE CannotBind(t)
    <3>0. closesFirst' \in BOOLEAN /\ killed' \in BOOLEAN
      BY <1>4, Zenon
    <3>1. /\ valid' \in BOOLEAN /\ full' \in BOOLEAN /\ gone' \in BOOLEAN /\ error' \in BOOLEAN
          /\ descriptor' \in {"open", "shut", "closed", "reused"} /\ opening' \in Threads \cup {NoThread}
      BY <2>3, Zenon DEF CannotBind
    <3>2. pc' \in [Threads -> PCs] /\ op' \in [Threads -> Ops]
      BY <2>3 DEF CannotBind, PCs, Ops
    <3>3. readLocks' \in Nat /\ arrived' = 0 /\ serving' = "none" /\ errors' = 0
      BY <2>3 DEF CannotBind, LockReader
    <3>4. UNCHANGED <<pendingWriteLocks, owner, sleepers, listening, got, stopped, admin, starting,
                      counts>>
      BY <2>3 DEF CannotBind, LockReader
    <3>. QED BY <3>0, <3>1, <3>2, <3>3, <3>4 DEF counts, PCs, Ops
  <2>. QED BY <1>4, <2>1, <2>2, <2>3, <2>4 DEF ServerStep
<1>5. CASE Alive /\ Accept
  <2>1. got' \in BOOLEAN
    BY <1>5, Zenon DEF Accept
  <2>2. pc' \in [Threads -> PCs] /\ op' \in [Threads -> Ops]
    BY <1>5 DEF Accept, PCs, Ops
  <2>3. serving' = "accepting"
    BY <1>5 DEF Accept
  <2>4. UNCHANGED <<lock, listening, kernel, valid, opening, stopped, admin, starting, errors,
                    counts>>
    BY <1>5 DEF Accept
  <2>. QED BY <1>5, <2>1, <2>2, <2>3, <2>4 DEF lock, kernel, counts, PCs, Ops
<1>6. CASE Alive /\ Accepted
  BY <1>6 DEF Accepted, lock, kernel, counts
<1>7. CASE Alive /\ Arrive
  BY <1>7 DEF Arrive, lock, server
<1>8. CASE Alive /\ Drain
  <2>1. full' \in BOOLEAN
    BY <1>8, Zenon DEF Drain
  <2>2. UNCHANGED <<lock, listening, descriptor, arrived, gone, error, valid, pc, op, server, counts>>
    BY <1>8, Zenon DEF Drain
  <2>. QED BY <1>8, <2>1, <2>2 DEF lock, server, counts
<1>10. CASE Alive /\ Break
  <2>1. gone' \in BOOLEAN /\ error' \in BOOLEAN
    BY <1>10, Zenon DEF Break
  <2>. QED BY <1>10, <2>1 DEF Break, lock, server, counts
<1>9. CASE UNCHANGED vars
  BY <1>9 DEF vars, lock, kernel, server, counts
<1>11. ASSUME NEW t \in Threads, Alive, ReturnFromOther(t) PROVE TypeOK'
  <2>1. got' \in BOOLEAN
    BY <1>11, Zenon DEF ReturnFromOther
  <2>2. /\ pc' \in [Threads -> PCs]
        /\ UNCHANGED <<lock, listening, kernel, valid, op, opening, stopped, admin, starting,
                       serving, errors, counts>>
    BY <1>11 DEF ReturnFromOther, PCs
  <2>. QED BY <1>11, <2>1, <2>2 DEF lock, kernel, counts, PCs
<1>12. CASE Alive /\ Reuse
  BY <1>12 DEF Reuse, lock, server, counts
<1>13. ASSUME NEW t \in Threads, BrokenPipe(t) PROVE TypeOK'
  BY <1>13 DEF BrokenPipe, lock, kernel, server, counts
<1>. QED BY <1>1, <1>2, <1>3, <1>4, <1>5, <1>6, <1>7, <1>8, <1>9, <1>10, <1>11, <1>12, <1>13

-----------------------------------------------------------------------------
(***************************************************************************)
(* The lock.  A thread that does not lock or unlock moves among the places *)
(* where it holds nothing, or among those where it holds a read lock.      *)
(***************************************************************************)
LEMMA Untouched ==
  ASSUME LockInv, TypeOK', UNCHANGED <<lock, pc, opening>>, opening # NoThread => admin' = admin
  PROVE  LockInv'
<1>1. Readers' = Readers /\ Waiting' = Waiting
  BY DEF Readers, Waiting
<1>. QED BY <1>1 DEF LockInv, ReadersAreCounted, WaitersAreCounted, WriterIsAlone, SleepersWait,
                     OpeningWaits, WritersAreWoken, lock

LEMMA Neutral ==
  ASSUME LockInv, TypeOK', NEW t \in Threads, NEW l,
         UNCHANGED <<lock, opening>>, opening # NoThread => admin' = admin,
         pc' = [pc EXCEPT ![t] = l],
         \/ pc[t] \in Reading /\ l \in Reading
         \/ pc[t] \in {"idle", "rlock"} /\ l \in {"idle", "rlock"}
  PROVE  LockInv'
<1>1. opening # t
  BY NoThreadIsNone DEF LockInv, OpeningWaits, Reading, TypeOK
<1>2. Readers' = Readers /\ Waiting' = Waiting
  BY <1>1, Moves DEF LockInv, Readers, Waiting, Reading
<1>3. pc'[t] = l /\ \A u \in Threads : u # t => pc'[u] = pc[u]
  BY Moves DEF LockInv
<1>4. pc[t] # "writing" /\ l # "writing" /\ pc[t] # "waiting" /\ l # "waiting"
  BY DEF Reading
<1>5. WriterIsAlone'
  BY <1>2, <1>3, <1>4 DEF LockInv, WriterIsAlone, TypeOK, lock
<1>6. OpeningWaits'
  BY <1>1, <1>3 DEF LockInv, OpeningWaits, TypeOK
<1>7. WritersAreWoken'
  BY <1>3, <1>4 DEF LockInv, WritersAreWoken, lock
<1>. QED BY <1>2, <1>5, <1>6, <1>7
         DEF LockInv, ReadersAreCounted, WaitersAreCounted, SleepersWait, lock

LEMMA EnterInv ==
  ASSUME LockInv, TypeOK', NEW t \in Threads, Enter(t)
  PROVE  LockInv'
<1>. USE DEF LockInv, Enter, LockReader, Goto, server
<1>1. opening # t /\ pc[t] = "rlock" /\ opening' = opening /\ admin' = admin
  BY NoThreadIsNone DEF OpeningWaits
<1>2. Readers' = Readers \cup {t} /\ Waiting' = Waiting /\ t \notin Readers
  BY <1>1, Moves DEF Readers, Waiting, Reading
<1>3. pc'[t] = "locked" /\ \A u \in Threads : u # t => pc'[u] = pc[u]
  BY Moves
<1>4. ReadersAreCounted'
  BY <1>2, Finite, Counting DEF ReadersAreCounted
<1>5. WriterIsAlone'
  BY <1>1, <1>3 DEF WriterIsAlone
<1>6. OpeningWaits'
  BY <1>1, <1>3 DEF OpeningWaits, TypeOK
<1>7. WritersAreWoken'
  BY DEF WritersAreWoken, TypeOK
<1>. QED BY <1>2, <1>4, <1>5, <1>6, <1>7 DEF WaitersAreCounted, SleepersWait

(***************************************************************************)
(* What notify_one() leaves: somebody awake among those that wait.         *)
(***************************************************************************)
LEMMA Notified ==
  ASSUME LockInv, NotifyOne
  PROVE  /\ sleepers' \subseteq sleepers
         /\ sleepers # {} => \E u \in Waiting : u \notin sleepers'
BY DEF LockInv, NotifyOne, SleepersWait

LEMMA LeaveInv ==
  ASSUME LockInv, TypeOK', NEW t \in Threads, Leave(t)
  PROVE  LockInv'
<1>. DEFINE l == IF op[t] \in {"close", "invalidate"} THEN "wlock" ELSE "idle"
<1>1. /\ pc[t] = "unlock" /\ UnlockReader /\ pc' = [pc EXCEPT ![t] = l]
      /\ opening' = opening /\ admin' = admin
  BY DEF Leave, Goto, Return, server
<1>2. opening # t
  BY <1>1, NoThreadIsNone DEF LockInv, OpeningWaits
<1>3. l \in Away
  BY DEF Away
<1>4. Readers' = Readers \ {t} /\ Waiting' = Waiting /\ t \in Readers
  BY <1>1, <1>2, <1>3, Moves DEF LockInv, Readers, Waiting, Reading, Away
<1>5. pc'[t] = l /\ \A u \in Threads : u # t => pc'[u] = pc[u]
  BY <1>1, Moves DEF LockInv
<1>. HIDE DEF l
<1>6. ReadersAreCounted'
  BY <1>1, <1>4, Finite, Counting DEF LockInv, ReadersAreCounted, UnlockReader
<1>7. owner = NoThread /\ owner' = NoThread
  BY <1>1 DEF UnlockReader
<1>8. WriterIsAlone'
  BY <1>3, <1>5, <1>7 DEF LockInv, WriterIsAlone, Away
<1>9. OpeningWaits'
  BY <1>1, <1>2, <1>5 DEF LockInv, OpeningWaits, TypeOK
<1>10. WaitersAreCounted'
  BY <1>1, <1>4 DEF LockInv, WaitersAreCounted, UnlockReader
<1>11. sleepers' \subseteq sleepers
  BY <1>1, Notified DEF UnlockReader
<1>12. SleepersWait'
  BY <1>4, <1>11 DEF LockInv, SleepersWait
<1>13. WritersAreWoken'
  <2>1. CASE readLocks' = 0 /\ pendingWriteLocks > 0
    <3>1. sleepers # {} => \E u \in Waiting : u \notin sleepers'
      BY <1>1, <2>1, Notified DEF UnlockReader
    <3>. QED BY <3>1, <1>4, <1>11 DEF WritersAreWoken, Waiting
  <2>2. CASE readLocks' = 0 /\ ~(pendingWriteLocks > 0)
    <3>1. Waiting = {}
      BY <2>2, Sizes DEF LockInv, WaitersAreCounted
    <3>. QED BY <3>1, <1>11 DEF LockInv, WritersAreWoken, SleepersWait
  <2>3. CASE readLocks' # 0
    BY <2>3 DEF WritersAreWoken, TypeOK
  <2>. QED BY <2>1, <2>2, <2>3
<1>. QED BY <1>6, <1>8, <1>9, <1>10, <1>12, <1>13 DEF LockInv

LEMMA WriteLockInv ==
  ASSUME LockInv, TypeOK', NEW t \in Threads, WriteLock(t)
  PROVE  LockInv'
<1>. USE NoThreadIsNone
<1>0. opening' = opening /\ admin' = admin /\ owner = NoThread
  BY DEF WriteLock, server, LockWriterAtOnce, WaitForReaders, LockWriterWoken, WaitAgain
<1>1. ASSUME readLocks = 0, owner' = t, UNCHANGED <<readLocks, sleepers>>, t \notin sleepers,
             pc[t] \in {"wlock", "waiting"}, Goto(t, "writing"),
             pendingWriteLocks' = IF pc[t] = "waiting" THEN pendingWriteLocks - 1
                                                      ELSE pendingWriteLocks
      PROVE  LockInv'
  <2>1. Readers = {}
    BY <1>1, Sizes DEF LockInv, ReadersAreCounted
  <2>2. opening # t
    BY <2>1 DEF Readers
  <2>3. /\ Readers' = {} /\ Waiting' = Waiting \ {t}
        /\ pc'[t] = "writing" /\ \A u \in Threads : u # t => pc'[u] = pc[u]
    BY <1>0, <1>1, <2>1, <2>2, Moves DEF LockInv, Goto, Reading
  <2>4. ReadersAreCounted'
    BY <1>1, <2>3, FS_EmptySet DEF ReadersAreCounted
  <2>5. t \in Waiting <=> pc[t] = "waiting"
    BY DEF Waiting
  <2>6. WaitersAreCounted'
    BY <1>1, <2>3, <2>5, Finite, Counting DEF LockInv, WaitersAreCounted
  <2>7. WriterIsAlone'
    BY <1>0, <1>1, <2>3 DEF LockInv, WriterIsAlone
  <2>8. SleepersWait'
    BY <1>1, <2>3 DEF LockInv, SleepersWait
  <2>9. OpeningWaits'
    BY <1>0, <2>2, <2>3 DEF LockInv, OpeningWaits, TypeOK
  <2>10. WritersAreWoken'
    BY <1>1 DEF WritersAreWoken
  <2>. QED BY <2>4, <2>6, <2>7, <2>8, <2>9, <2>10 DEF LockInv
<1>2. ASSUME readLocks > 0, UNCHANGED <<readLocks, owner>>, sleepers' = sleepers \cup {t},
             pc[t] \in {"wlock", "waiting"}, pc' = [pc EXCEPT ![t] = "waiting"],
             pendingWriteLocks' = IF pc[t] = "waiting" THEN pendingWriteLocks
                                                      ELSE pendingWriteLocks + 1
      PROVE  LockInv'
  <2>1. /\ Waiting' = Waiting \cup {t}
        /\ pc'[t] = "waiting" /\ \A u \in Threads : u # t => pc'[u] = pc[u]
    BY <1>0, <1>2, Moves DEF LockInv
  <2>2. Readers' = Readers
    BY <1>0, <1>2, <2>1 DEF Readers
  <2>3. ReadersAreCounted'
    BY <1>2, <2>2 DEF LockInv, ReadersAreCounted
  <2>4. t \in Waiting <=> pc[t] = "waiting"
    BY DEF Waiting
  <2>5. WaitersAreCounted'
    BY <1>2, <2>1, <2>4, Finite, Counting DEF LockInv, WaitersAreCounted
  <2>6. WriterIsAlone'
    BY <1>0, <1>2, <2>1 DEF LockInv, WriterIsAlone
  <2>7. SleepersWait'
    BY <1>2, <2>1 DEF LockInv, SleepersWait
  <2>8. OpeningWaits'
    BY <1>0, <2>1 DEF LockInv, OpeningWaits, TypeOK
  <2>9. WritersAreWoken'
    BY <1>2 DEF WritersAreWoken
  <2>. QED BY <2>3, <2>5, <2>6, <2>7, <2>8, <2>9 DEF LockInv
<1>3. pc[t] = "wlock" => t \notin sleepers
  BY DEF LockInv, SleepersWait, Waiting
<1>4. CASE pc[t] = "wlock" /\ LockWriterAtOnce(t) /\ Goto(t, "writing")
  BY <1>1, <1>3, <1>4 DEF LockWriterAtOnce
<1>5. CASE pc[t] = "wlock" /\ WaitForReaders(t) /\ Goto(t, "waiting")
  BY <1>2, <1>5 DEF WaitForReaders, Goto
<1>6. CASE pc[t] = "waiting" /\ LockWriterWoken(t) /\ Goto(t, "writing")
  BY <1>1, <1>6 DEF LockWriterWoken
<1>7. CASE pc[t] = "waiting" /\ WaitAgain(t) /\ UNCHANGED pc
  <2>1. pc' = [pc EXCEPT ![t] = "waiting"]
    BY <1>7 DEF LockInv, TypeOK
  <2>. QED BY <1>2, <1>7, <2>1 DEF WaitAgain
<1>. QED BY <1>4, <1>5, <1>6, <1>7 DEF WriteLock

LEMMA InvalidateInv ==
  ASSUME LockInv, TypeOK', NEW t \in Threads, Invalidate(t)
  PROVE  LockInv'
<1>. USE NoThreadIsNone
<1>1. /\ pc[t] = "writing" /\ UnlockWriter /\ pc' = [pc EXCEPT ![t] = "idle"]
      /\ opening' = opening /\ admin' = admin /\ owner = t /\ owner' = NoThread
      /\ readLocks' = readLocks /\ pendingWriteLocks' = pendingWriteLocks
  BY DEF Invalidate, Goto, Return, server, LockInv, WriterIsAlone, UnlockWriter
<1>2. Readers = {} /\ opening # t
  BY <1>1 DEF LockInv, WriterIsAlone, OpeningWaits
<1>3. /\ Readers' = {} /\ Waiting' = Waiting
      /\ pc'[t] = "idle" /\ \A u \in Threads : u # t => pc'[u] = pc[u]
  BY <1>1, <1>2, Moves DEF LockInv, Reading, Waiting
<1>4. sleepers' \subseteq sleepers
  BY <1>1, Notified DEF UnlockWriter
<1>5. WriterIsAlone'
  BY <1>1, <1>3 DEF LockInv, WriterIsAlone
<1>6. OpeningWaits'
  BY <1>1, <1>2, <1>3 DEF LockInv, OpeningWaits, TypeOK
<1>7. WritersAreWoken'
  <2>1. CASE pendingWriteLocks > 0
    <3>1. sleepers # {} => \E u \in Waiting : u \notin sleepers'
      BY <1>1, <2>1, Notified DEF UnlockWriter
    <3>. QED BY <3>1, <1>3, <1>4 DEF WritersAreWoken, Waiting
  <2>2. CASE ~(pendingWriteLocks > 0)
    <3>1. Waiting = {}
      BY <2>2, Sizes DEF LockInv, WaitersAreCounted
    <3>. QED BY <3>1, <1>4 DEF LockInv, WritersAreWoken, SleepersWait
  <2>. QED BY <2>1, <2>2
<1>. QED BY <1>1, <1>2, <1>3, <1>4, <1>5, <1>6, <1>7
         DEF LockInv, ReadersAreCounted, WaitersAreCounted, SleepersWait

(***************************************************************************)
(* A thread whose start() could not bind.                                  *)
(***************************************************************************)
LEMMA NobodyOpens ==
  ASSUME LockInv, NEW t \in Threads, Joined(t)
  PROVE  opening = NoThread
BY DEF LockInv, OpeningWaits, Joined

LEMMA CannotBindInv ==
  ASSUME LockInv, TypeOK', NEW t \in Threads, CannotBind(t)
  PROVE  LockInv'
<1>. USE NoThreadIsNone
<1>1. /\ opening = NoThread /\ opening' = t /\ admin = t /\ admin' = t
      /\ pc[t] = "idle" /\ pc' = [pc EXCEPT ![t] = "wlock"]
      /\ owner = NoThread /\ owner' = NoThread /\ readLocks' = readLocks + 1
      /\ UNCHANGED <<pendingWriteLocks, sleepers>>
  BY NobodyOpens DEF CannotBind, Joined, Goto, LockReader
<1>2. pc'[t] = "wlock" /\ \A u \in Threads : u # t => pc'[u] = pc[u]
  BY <1>1 DEF LockInv, TypeOK
<1>3. Readers' = Readers \cup {t} /\ t \notin Readers /\ Waiting' = Waiting
  BY <1>1, <1>2 DEF Readers, Waiting
<1>4. ReadersAreCounted'
  BY <1>1, <1>3, Finite, Counting DEF LockInv, ReadersAreCounted
<1>5. WriterIsAlone'
  BY <1>1, <1>2 DEF LockInv, WriterIsAlone
<1>6. OpeningWaits'
  BY <1>1, <1>2 DEF OpeningWaits
<1>7. WritersAreWoken'
  BY <1>1 DEF LockInv, WritersAreWoken, TypeOK
<1>. QED BY <1>1, <1>3, <1>4, <1>5, <1>6, <1>7
         DEF LockInv, WaitersAreCounted, SleepersWait

LEMMA SpuriousInv ==
  ASSUME LockInv, TypeOK', NEW t \in Threads, Spurious(t)
  PROVE  LockInv'
<1>1. /\ t \in sleepers /\ sleepers' = sleepers \ {t}
      /\ UNCHANGED <<readLocks, pendingWriteLocks, owner, pc, opening, admin>>
  BY DEF Spurious, WakeSpuriously, server
<1>2. Readers' = Readers /\ Waiting' = Waiting
  BY <1>1 DEF Readers, Waiting
<1>3. WritersAreWoken'
  BY <1>1 DEF LockInv, WritersAreWoken, SleepersWait, Waiting
<1>. QED BY <1>1, <1>2, <1>3 DEF LockInv, ReadersAreCounted, WaitersAreCounted, WriterIsAlone,
                                SleepersWait, OpeningWaits

LEMMA LockStep ==
  ASSUME LockInv, [Next]_vars
  PROVE  LockInv'
<1>. USE NoThreadIsNone
<1>1. ASSUME NEW t \in Threads, Alive, Step(t) PROVE LockInv'
  <2>0. TypeOK'
    BY <1>1, StepTypes
  <2>1. CASE Enter(t)
    BY <2>0, <2>1, EnterInv
  <2>2. CASE FindInvalid(t)
    BY <2>0, <2>2, Neutral DEF FindInvalid, Goto, Reading
  <2>3. CASE Block(t)
    BY <2>0, <2>3, Neutral DEF Block, Goto, Reading, server
  <2>4. CASE AcceptErrored(t)
    BY <2>0, <2>4, Neutral DEF AcceptErrored, Goto, Reading
  <2>5. CASE CheckOpen(t)
    BY <2>0, <2>5, Neutral DEF CheckOpen, Goto, Reading, server
  <2>6. CASE Shutdown(t)
    BY <2>0, <2>6, Neutral DEF Shutdown, Goto, Reading, server
  <2>7. CASE Unblock(t)
    BY <2>0, <2>7, Neutral DEF Unblock, Goto, Reading
  <2>8. CASE Leave(t)
    BY <2>0, <2>8, LeaveInv
  <2>9. CASE WriteLock(t)
    BY <2>0, <2>9, WriteLockInv
  <2>10. CASE Invalidate(t)
    BY <2>0, <2>10, InvalidateInv
  <2>. QED BY <1>1, <2>1, <2>2, <2>3, <2>4, <2>5, <2>6, <2>7, <2>8, <2>9, <2>10 DEF Step
<1>2. ASSUME NEW t \in Threads, Alive, Spurious(t) PROVE LockInv'
  BY <1>2, OtherTypes, SpuriousInv
<1>3. ASSUME NEW t \in Threads, Alive, Use(t) PROVE LockInv'
  BY <1>3, OtherTypes, Neutral DEF Use, Call, Goto, server
<1>4. ASSUME NEW t \in Threads, Alive, Stop(t) PROVE LockInv'
  <2>1. TypeOK'
    BY <1>4, OtherTypes
  <2>2. opening = NoThread /\ opening' = opening
    BY <1>4 DEF Stop, LockInv, OpeningWaits, TypeOK
  <2>3. CASE stopped
    BY <1>4, <2>1, <2>2, <2>3, Untouched DEF Stop
  <2>4. CASE ~stopped
    BY <1>4, <2>1, <2>2, <2>4, Neutral DEF Stop, Call, Goto
  <2>. QED BY <2>3, <2>4
<1>5. ASSUME NEW t \in Threads, Alive, ServerStep(t) PROVE LockInv'
  <2>1. TypeOK'
    BY <1>5, OtherTypes
  <2>2. CASE Stopped(t)
    BY <2>1, <2>2, NobodyOpens, Untouched DEF Stopped
  <2>3. CASE Start(t)
    BY <2>1, <2>3, NobodyOpens, Untouched DEF Start
  <2>5. CASE NotOpen(t)
    BY <2>1, <2>5, NobodyOpens, Untouched DEF NotOpen
  <2>4. CASE CannotBind(t)
    BY <2>1, <2>4, CannotBindInv
  <2>. QED BY <1>5, <2>2, <2>3, <2>4, <2>5 DEF ServerStep
<1>6. CASE Alive /\ Accept
  <2>1. TypeOK'
    BY <1>6, OtherTypes
  <2>. QED BY <1>6, <2>1, AcceptorIsThread, Neutral DEF Accept, Call, Goto
<1>7. CASE Alive /\ Accepted
  <2>1. TypeOK'
    BY <1>7, OtherTypes
  <2>. QED BY <1>7, <2>1, Untouched DEF Accepted
<1>8. CASE Alive /\ (Arrive \/ Drain \/ Break \/ Reuse)
  <2>1. TypeOK'
    BY <1>8, OtherTypes
  <2>2. UNCHANGED <<lock, pc, opening, admin>>
    BY <1>8 DEF Arrive, Drain, Break, Reuse, server
  <2>. QED BY <2>1, <2>2, Untouched
<1>9. CASE UNCHANGED vars
  BY <1>9, OtherTypes, Untouched DEF vars, server
<1>10. ASSUME NEW t \in Threads, Alive, ReturnFromOther(t) PROVE LockInv'
  BY <1>10, OtherTypes, Neutral DEF ReturnFromOther, Goto, Reading
<1>11. ASSUME NEW t \in Threads, BrokenPipe(t) PROVE LockInv'
  BY <1>11, OtherTypes, Untouched DEF BrokenPipe, server
<1>. QED BY <1>1, <1>2, <1>3, <1>4, <1>5, <1>6, <1>7, <1>8, <1>9, <1>10, <1>11 DEF Next

LEMMA LockStart == Init => LockInv
<1>. SUFFICES ASSUME Init PROVE LockInv
  OBVIOUS
<1>1. TypeOK
  BY InitTypes
<1>2. /\ pc = [t \in Threads |-> "idle"] /\ opening = NoThread
      /\ readLocks = 0 /\ pendingWriteLocks = 0 /\ owner = NoThread /\ sleepers = {}
  BY DEF Init, LockInit
<1>3. Readers = {} /\ Waiting = {}
  BY <1>2, NoThreadIsNone DEF Readers, Waiting
<1>. QED BY <1>1, <1>2, <1>3, FS_EmptySet
         DEF LockInv, ReadersAreCounted, WaitersAreCounted, WriterIsAlone, SleepersWait,
             OpeningWaits, WritersAreWoken

(***************************************************************************)
(* RWMutex counts its readers and its waiting writers, a writer is alone,  *)
(* and only writers sleep that wait.                                       *)
(***************************************************************************)
THEOREM LockInvariant == Spec => []LockInv
<1>. QED BY LockStart, LockStep, PTL DEF Spec

(***************************************************************************)
(* Types (the members of Socket::Shared, RWMutex and Server).              *)
(***************************************************************************)
THEOREM SocketTypes == Spec => []TypeOK
<1>1. LockInv => TypeOK
  BY DEF LockInv
<1>. QED BY <1>1, LockInvariant, PTL

(***************************************************************************)
(* No wake-up of a writer is lost (rwmutex.h, notify_one()).               *)
(***************************************************************************)
THEOREM NoWakeUpIsLost == Spec => []WritersAreWoken
<1>1. LockInv => WritersAreWoken
  BY DEF LockInv
<1>. QED BY <1>1, LockInvariant, PTL

-----------------------------------------------------------------------------
(***************************************************************************)
(* RWMutex implements the lock of ReadersWriter.                           *)
(***************************************************************************)
LEMMA LockStarts == Init => Lock!Init
BY NoThreadIsNone DEF Init, LockInit, Lock!Init, Readers

LEMMA LockRefines ==
  ASSUME LockInv, LockInv', [Next]_vars
  PROVE  [Lock!Next]_<<Readers, owner>>
<1>. USE NoThreadIsNone
<1>1. ASSUME NEW t \in Threads, Step(t) PROVE [Lock!Next]_<<Readers, owner>>
  <2>0. ASSUME UNCHANGED <<owner, opening>>, NEW l, pc' = [pc EXCEPT ![t] = l],
               pc[t] \in Reading <=> l \in Reading
        PROVE  UNCHANGED <<Readers, owner>>
    BY <2>0, Moves DEF LockInv, Readers, Reading
  <2>1. CASE Enter(t)
    <3>1. owner = NoThread /\ owner' = owner /\ opening' = opening /\ opening # t
      BY <2>1 DEF Enter, LockReader, server, LockInv, OpeningWaits
    <3>2. Readers' = Readers \cup {t} /\ t \notin Readers
      BY <2>1, <3>1, Moves DEF Enter, Goto, LockInv, Readers, Reading
    <3>. QED BY <3>1, <3>2 DEF Lock!Next, Lock!Read
  <2>2. CASE FindInvalid(t)
    BY <2>0, <2>2 DEF FindInvalid, Goto, Reading, lock
  <2>3. CASE Block(t)
    BY <2>0, <2>3 DEF Block, Goto, Reading, lock, server
  <2>4. CASE AcceptErrored(t)
    BY <2>0, <2>4 DEF AcceptErrored, Goto, Reading, lock
  <2>5. CASE CheckOpen(t)
    BY <2>0, <2>5 DEF CheckOpen, Goto, Reading, lock, server
  <2>6. CASE Shutdown(t)
    BY <2>0, <2>6 DEF Shutdown, Goto, Reading, lock, server
  <2>7. CASE Unblock(t)
    BY <2>0, <2>7 DEF Unblock, Goto, Reading, lock
  <2>8. CASE Leave(t)
    <3>1. owner' = owner /\ opening' = opening /\ opening # t
      BY <2>8 DEF Leave, UnlockReader, server, LockInv, OpeningWaits
    <3>2. pc' = [pc EXCEPT ![t] = "wlock"] \/ pc' = [pc EXCEPT ![t] = "idle"]
      BY <2>8 DEF Leave, Goto, Return
    <3>3. Readers' = Readers \ {t} /\ t \in Readers
      BY <2>8, <3>1, <3>2, Moves DEF Leave, LockInv, Readers, Reading
    <3>. QED BY <3>1, <3>3 DEF Lock!Next, Lock!Leave
  <2>9. CASE WriteLock(t)
    <3>1. opening' = opening
      BY <2>9 DEF WriteLock, server
    <3>2. CASE owner' = owner
      <4>1. pc' = [pc EXCEPT ![t] = "waiting"] /\ pc[t] \notin Reading
        BY <2>9, <3>2 DEF WriteLock, WaitForReaders, WaitAgain, LockWriterAtOnce, LockWriterWoken,
                          Goto, Reading, LockInv, TypeOK
      <4>. QED BY <2>0, <3>1, <3>2, <4>1 DEF Reading
    <3>3. CASE owner' # owner
      <4>1. /\ owner = NoThread /\ owner' = t /\ readLocks = 0
        BY <2>9, <3>3 DEF WriteLock, WaitForReaders, WaitAgain, LockWriterAtOnce, LockWriterWoken
      <4>2. Readers = {}
        BY <4>1, Sizes DEF LockInv, ReadersAreCounted
      <4>3. Readers' = {}
        BY <4>1 DEF LockInv, WriterIsAlone
      <4>. QED BY <4>1, <4>2, <4>3 DEF Lock!Next, Lock!Write
    <3>. QED BY <3>2, <3>3
  <2>10. CASE Invalidate(t)
    <3>1. owner = t /\ owner' = NoThread /\ opening' = opening
      BY <2>10 DEF Invalidate, UnlockWriter, server, LockInv, WriterIsAlone
    <3>2. Readers = {} /\ opening # t
      BY <3>1 DEF LockInv, WriterIsAlone, Readers
    <3>3. Readers' = {}
      BY <2>10, <3>1, <3>2, Moves DEF Invalidate, Return, Goto, LockInv, Reading
    <3>. QED BY <3>1, <3>2, <3>3 DEF Lock!Next, Lock!Finish
  <2>. QED BY <1>1, <2>1, <2>2, <2>3, <2>4, <2>5, <2>6, <2>7, <2>8, <2>9, <2>10 DEF Step
<1>2. ASSUME NEW t \in Threads, CannotBind(t) PROVE [Lock!Next]_<<Readers, owner>>
  <2>1. /\ opening = NoThread /\ opening' = t /\ owner = NoThread /\ owner' = NoThread
        /\ pc[t] = "idle" /\ pc' = [pc EXCEPT ![t] = "wlock"]
    BY <1>2, NobodyOpens DEF CannotBind, Joined, LockReader, Goto
  <2>2. Readers' = Readers \cup {t} /\ t \notin Readers
    BY <2>1 DEF LockInv, TypeOK, Readers
  <2>. QED BY <2>1, <2>2 DEF Lock!Next, Lock!Read
<1>3. ASSUME NEW t \in Threads, UNCHANGED <<owner, opening>>,
             UNCHANGED pc \/ (pc[t] = "idle" /\ pc' = [pc EXCEPT ![t] = "rlock"])
      PROVE  UNCHANGED <<Readers, owner>>
  BY <1>3 DEF LockInv, TypeOK, Readers
<1>4. ASSUME NEW t \in Threads, Spurious(t) \/ Use(t) \/ Stop(t) \/ Stopped(t) \/ Start(t) \/ NotOpen(t)
      PROVE  UNCHANGED <<Readers, owner>>
  BY <1>3, <1>4 DEF Spurious, WakeSpuriously, Use, Stop, Stopped, Start, NotOpen, Call, Goto, lock, server
<1>5. CASE Accept
  <2>1. UNCHANGED <<owner, opening>> /\ pc[Acceptor] = "idle" /\ pc' = [pc EXCEPT ![Acceptor] = "rlock"]
    BY <1>5 DEF Accept, Call, Goto, lock
  <2>. QED BY <1>3, <2>1, AcceptorIsThread
<1>6. CASE Accepted \/ Arrive \/ Drain \/ Break \/ Reuse \/ UNCHANGED vars
  BY <1>6 DEF Accepted, Arrive, Drain, Break, Reuse, vars, lock, server, Readers
<1>7. ASSUME NEW t \in Threads, ReturnFromOther(t) PROVE UNCHANGED <<Readers, owner>>
  <2>1. /\ UNCHANGED <<owner, opening>> /\ pc[t] = "blocked" /\ pc' = [pc EXCEPT ![t] = "unlock"]
    BY <1>7 DEF ReturnFromOther, Goto, lock
  <2>. QED BY <2>1, Moves DEF LockInv, Readers, Reading
<1>8. ASSUME NEW t \in Threads, BrokenPipe(t) PROVE UNCHANGED <<Readers, owner>>
  BY <1>8 DEF BrokenPipe, lock, server, Readers
<1>. QED BY <1>1, <1>2, <1>4, <1>5, <1>6, <1>7, <1>8 DEF Next, ServerStep

(***************************************************************************)
(* rwmutex.h:28: the lock is held by any number of readers or one writer.  *)
(***************************************************************************)
THEOREM RWMutexIsALock == Spec => LocksAsPromised
<1>. QED BY LockStarts, LockRefines, LockInvariant, PTL DEF Spec, LocksAsPromised, Lock!Spec

-----------------------------------------------------------------------------
(***************************************************************************)
(* The server.  Only its thread accepts and only the thread in start() or  *)
(* stop() closes, having set stopped first; while it is not set the socket *)
(* is open, so that accept() fails for no other reason than the peer's.    *)
(***************************************************************************)
Accepting(t) == /\ t = Acceptor /\ serving = "accepting"
                /\ op[t] = "accept" /\ pc[t] \in Reading \cup {"rlock"}
Closing(t)   == t = admin /\ op[t] = "close"

OnlyItsCalls ==
  listening => \A t \in Threads : pc[t] # "idle" => Accepting(t) \/ Closing(t)

OnlyServersServe == /\ admin # NoThread => listening /\ stopped /\ admin # Acceptor
                    /\ ~listening => serving = "none"

SocketIsOpen == serving \in {"ready", "accepting"} /\ ~stopped => valid /\ descriptor = "open"

FailureIsReal ==
  /\ error => gone
  /\ serving = "accepting" /\ ~stopped /\ ~got /\ pc[Acceptor] \in {"unlock", "idle"} => gone

ServerInv == /\ TypeOK
             /\ OnlyItsCalls /\ OnlyServersServe /\ SocketIsOpen /\ FailureIsReal
             /\ StopIsSilent

(***************************************************************************)
(* What the steps of a call leave alone.                                   *)
(***************************************************************************)
LEMMA CallFrame ==
  ASSUME ServerInv, NEW t \in Threads, Step(t)
  PROVE  /\ UNCHANGED <<listening, gone, stopped, admin, serving, errors>>
         /\ \A u \in Threads \ {t} : pc'[u] = pc[u] /\ op'[u] = op[u]
         /\ error' => error
         /\ pc[t] # "idle"
<1>. USE DEF ServerInv, TypeOK, Goto
<1>1. CASE Enter(t)
  BY <1>1 DEF Enter, kernel, server
<1>2. CASE FindInvalid(t)
  BY <1>2 DEF FindInvalid, kernel
<1>3. CASE Block(t)
  BY <1>3 DEF Block, kernel, server
<1>4. CASE AcceptErrored(t)
  BY <1>4 DEF AcceptErrored
<1>5. CASE CheckOpen(t)
  BY <1>5 DEF CheckOpen, server
<1>6. CASE Shutdown(t)
  BY <1>6 DEF Shutdown, server
<1>7. CASE Unblock(t)
  BY <1>7 DEF Unblock
<1>8. CASE Leave(t)
  BY <1>8 DEF Leave, Return, kernel, server
<1>9. CASE WriteLock(t)
  BY <1>9 DEF WriteLock, kernel, server
<1>10. CASE Invalidate(t)
  BY <1>10 DEF Invalidate, Return, server
<1>. QED BY <1>1, <1>2, <1>3, <1>4, <1>5, <1>6, <1>7, <1>8, <1>9, <1>10 DEF Step

(***************************************************************************)
(* accept() as the server's thread makes it: it returns without a          *)
(* connection only when the socket has failed or the server is stopped.    *)
(***************************************************************************)
LEMMA AcceptStep ==
  ASSUME ServerInv, NEW t \in Threads, Step(t), Accepting(t)
  PROVE  /\ pc'[t] # "idle" => op'[t] = "accept" /\ pc'[t] \in Reading
         /\ ~stopped => valid' /\ descriptor' = "open"
         /\ ~stopped /\ ~got' /\ pc'[t] \in {"unlock", "idle"} => gone
<1>. USE DEF ServerInv, TypeOK, Goto, Accepting, Reading
<1>0. ~stopped => valid /\ descriptor = "open"
  BY DEF SocketIsOpen
<1>1. CASE Enter(t)
  BY <1>0, <1>1 DEF Enter, kernel, server
<1>2. CASE FindInvalid(t)
  <2>1. stopped
    BY <1>0, <1>2 DEF FindInvalid
  <2>2. op'[t] = "accept" /\ pc'[t] = "unlock"
    BY <1>2 DEF FindInvalid
  <2>. QED BY <2>1, <2>2
<1>3. CASE Block(t)
  BY <1>0, <1>3 DEF Block, kernel, server
<1>4. CASE AcceptErrored(t)
  <2>1. ~stopped => gone
    BY <1>0, <1>4 DEF AcceptErrored, Errors, FailureIsReal
  <2>. QED BY <1>0, <1>4, <2>1 DEF AcceptErrored
<1>5. CASE Unblock(t)
  <2>1. /\ pc'[t] = "unlock" /\ op'[t] = "accept"
        /\ valid' = valid /\ descriptor' = descriptor
    BY <1>5 DEF Unblock
  <2>2. got' \/ descriptor # "open" \/ gone
    <3>1. op[t] = "accept"
      OBVIOUS
    <3>. QED BY <1>5, <3>1, Zenon DEF Unblock
  <2>. QED BY <1>0, <2>1, <2>2
<1>6. CASE Leave(t)
  <2>1. /\ pc'[t] = "idle" /\ pc[t] = "unlock" /\ t = Acceptor
        /\ UNCHANGED <<valid, descriptor, got>>
    BY <1>6 DEF Leave, Return, kernel, server
  <2>2. ~stopped /\ ~got => gone
    BY <2>1 DEF FailureIsReal
  <2>. QED BY <1>0, <2>1, <2>2
<1>7. ~CheckOpen(t) /\ ~Shutdown(t) /\ ~WriteLock(t) /\ ~Invalidate(t)
  BY DEF CheckOpen, Shutdown, WriteLock, Invalidate
<1>. QED BY <1>1, <1>2, <1>3, <1>4, <1>5, <1>6, <1>7 DEF Step

(***************************************************************************)
(* close() as start() and stop() make it.                                  *)
(***************************************************************************)
LEMMA CloseStep ==
  ASSUME ServerInv, NEW t \in Threads, Step(t), Closing(t)
  PROVE  pc'[t] # "idle" => op'[t] = "close"
<1>. USE DEF ServerInv, TypeOK, Goto, Closing, Blocking
<1>1. CASE Leave(t)
  BY <1>1 DEF Leave
<1>2. CASE Invalidate(t)
  BY <1>2 DEF Invalidate, Return
<1>3. CASE FindInvalid(t)
  BY <1>3 DEF FindInvalid
<1>4. CASE Enter(t) \/ Shutdown(t) \/ Unblock(t) \/ WriteLock(t)
  BY <1>4 DEF Enter, Shutdown, Unblock, WriteLock
<1>5. ~Block(t) /\ ~AcceptErrored(t) /\ ~CheckOpen(t)
  BY DEF Block, AcceptErrored, CheckOpen
<1>. QED BY <1>1, <1>2, <1>3, <1>4, <1>5 DEF Step

LEMMA ServerCallStep ==
  ASSUME ServerInv, TypeOK', NEW t \in Threads, Step(t)
  PROVE  ServerInv'
<1>1. /\ UNCHANGED <<listening, gone, stopped, admin, serving, errors>>
      /\ \A u \in Threads \ {t} : pc'[u] = pc[u] /\ op'[u] = op[u]
      /\ error' => error
      /\ pc[t] # "idle"
  BY CallFrame
<1>2. listening => Accepting(t) \/ Closing(t)
  BY <1>1 DEF ServerInv, OnlyItsCalls
<1>3. OnlyServersServe' /\ StopIsSilent'
  BY <1>1 DEF ServerInv, OnlyServersServe, StopIsSilent
<1>4. error' => gone'
  BY <1>1 DEF ServerInv, FailureIsReal
<1>5. CASE ~listening
  <2>1. serving' = "none" /\ ~listening'
    BY <1>1, <1>5 DEF ServerInv, OnlyServersServe
  <2>. QED BY <1>3, <1>4, <2>1 DEF ServerInv, OnlyItsCalls, SocketIsOpen, FailureIsReal
<1>6. CASE listening /\ Accepting(t)
  <2>1. /\ pc'[t] # "idle" => op'[t] = "accept" /\ pc'[t] \in Reading
        /\ ~stopped => valid' /\ descriptor' = "open"
        /\ ~stopped /\ ~got' /\ pc'[t] \in {"unlock", "idle"} => gone
    BY <1>6, AcceptStep
  <2>2. pc'[t] # "idle" => Accepting(t)'
    BY <1>1, <1>6, <2>1 DEF Accepting
  <2>3. \A u \in Threads \ {t} : pc'[u] # "idle" => Accepting(u)' \/ Closing(u)'
    BY <1>1, <1>6 DEF ServerInv, OnlyItsCalls, Accepting, Closing
  <2>4. OnlyItsCalls'
    BY <2>2, <2>3 DEF OnlyItsCalls
  <2>5. t = Acceptor
    BY <1>6 DEF Accepting
  <2>6. FailureIsReal'
    BY <1>1, <1>4, <2>1, <2>5 DEF FailureIsReal
  <2>7. SocketIsOpen'
    BY <1>1, <2>1 DEF SocketIsOpen
  <2>. QED BY <1>3, <2>4, <2>6, <2>7 DEF ServerInv
<1>7. CASE listening /\ Closing(t)
  <2>1. pc'[t] # "idle" => Closing(t)'
    BY <1>1, <1>7, CloseStep DEF Closing
  <2>2. \A u \in Threads \ {t} : pc'[u] # "idle" => Accepting(u)' \/ Closing(u)'
    BY <1>1, <1>7 DEF ServerInv, OnlyItsCalls, Accepting, Closing
  <2>3. OnlyItsCalls'
    BY <2>1, <2>2 DEF OnlyItsCalls
  <2>4. stopped'
    BY <1>1, <1>7, NoThreadIsNone DEF ServerInv, OnlyServersServe, Closing
  <2>. QED BY <1>3, <1>4, <2>3, <2>4 DEF ServerInv, SocketIsOpen, FailureIsReal
<1>. QED BY <1>2, <1>5, <1>6, <1>7

LEMMA ServerStopStep ==
  ASSUME ServerInv, TypeOK', NEW t \in Threads, Stop(t)
  PROVE  ServerInv'
<1>. USE DEF ServerInv, TypeOK, Stop
<1>1. /\ UNCHANGED <<listening, gone, error, serving, errors>>
      /\ listening /\ stopped' /\ admin' = t /\ t # Acceptor /\ admin = NoThread
      /\ pc[t] = "idle"
      /\ \A u \in Threads \ {t} : pc'[u] = pc[u] /\ op'[u] = op[u]
      /\ pc'[t] # "idle" => op'[t] = "close"
  BY DEF kernel, Call, Goto
<1>2. \A u \in Threads \ {t} : pc'[u] # "idle" => Accepting(u)'
  BY <1>1, NoThreadIsNone DEF OnlyItsCalls, Accepting, Closing
<1>3. OnlyItsCalls'
  BY <1>1, <1>2 DEF OnlyItsCalls, Closing
<1>4. OnlyServersServe' /\ SocketIsOpen' /\ StopIsSilent' /\ FailureIsReal'
  BY <1>1 DEF OnlyServersServe, SocketIsOpen, StopIsSilent, FailureIsReal
<1>. QED BY <1>3, <1>4

(***************************************************************************)
(* A server that is stopped and joined has no call under way.              *)
(***************************************************************************)
LEMMA JoinedIsIdle ==
  ASSUME ServerInv, NEW t \in Threads, Joined(t)
  PROVE  /\ admin = t /\ listening /\ stopped /\ t # Acceptor /\ pc[t] = "idle"
         /\ serving \in {"none", "ended"}
         /\ \A u \in Threads : pc[u] = "idle"
<1>1. /\ admin = t /\ listening /\ stopped /\ t # Acceptor /\ pc[t] = "idle"
      /\ serving \in {"none", "ended"}
  BY NoThreadIsNone DEF ServerInv, OnlyServersServe, Joined
<1>2. \A u \in Threads : pc[u] = "idle"
  BY <1>1 DEF ServerInv, OnlyItsCalls, Accepting, Closing
<1>. QED BY <1>1, <1>2

LEMMA ServerStartStep ==
  ASSUME ServerInv, TypeOK', NEW t \in Threads, ServerStep(t)
  PROVE  ServerInv'
<1>. USE NoThreadIsNone
<1>0. Joined(t)
  BY DEF ServerStep, Stopped, Start, NotOpen, CannotBind
<1>1. /\ admin = t /\ listening /\ stopped /\ t # Acceptor /\ pc[t] = "idle"
      /\ serving \in {"none", "ended"}
  BY <1>0, JoinedIsIdle
<1>2. \A u \in Threads : pc[u] = "idle"
  BY <1>0, JoinedIsIdle
<1>3. CASE Stopped(t)
  <2>1. /\ UNCHANGED <<pc, listening, gone, error, stopped, errors>>
        /\ serving' = "none" /\ admin' = NoThread
    BY <1>3 DEF Stopped, kernel
  <2>. QED BY <1>1, <1>2, <2>1 DEF ServerInv, OnlyItsCalls, OnlyServersServe, SocketIsOpen,
                                   StopIsSilent, FailureIsReal
<1>4. CASE Start(t)
  <2>1. /\ UNCHANGED <<pc, listening>>
        /\ ~error' /\ valid' /\ descriptor' = "open" /\ errors' = 0
        /\ serving' = "ready" /\ admin' = NoThread
    BY <1>4 DEF Start
  <2>. QED BY <1>1, <1>2, <2>1 DEF ServerInv, OnlyItsCalls, OnlyServersServe, SocketIsOpen,
                                   StopIsSilent, FailureIsReal
<1>5. CASE CannotBind(t)
  <2>1. /\ UNCHANGED <<listening, stopped, admin>>
        /\ ~error' /\ errors' = 0 /\ serving' = "none"
        /\ \A u \in Threads \ {t} : pc'[u] = pc[u]
        /\ op'[t] = "close"
    BY <1>5 DEF CannotBind, Goto, ServerInv, TypeOK
  <2>2. OnlyItsCalls'
    BY <1>1, <1>2, <2>1 DEF OnlyItsCalls, Closing
  <2>. QED BY <1>1, <2>1, <2>2 DEF ServerInv, OnlyServersServe, SocketIsOpen, StopIsSilent,
                                   FailureIsReal
<1>6. CASE NotOpen(t)
  <2>1. /\ UNCHANGED <<pc, listening, stopped>>
        /\ ~error' /\ errors' = 0 /\ serving' = "none" /\ admin' = NoThread
    BY <1>6 DEF NotOpen
  <2>. QED BY <1>1, <1>2, <2>1 DEF ServerInv, OnlyItsCalls, OnlyServersServe, SocketIsOpen,
                                   StopIsSilent, FailureIsReal
<1>. QED BY <1>3, <1>4, <1>5, <1>6 DEF ServerStep

LEMMA ServerThreadStep ==
  ASSUME ServerInv, TypeOK', Accept \/ Accepted
  PROVE  ServerInv'
<1>. USE AcceptorIsThread, NoThreadIsNone
<1>0. /\ UNCHANGED <<listening, gone, error, valid, descriptor, stopped, admin>>
      /\ serving \in {"ready", "accepting"}
  BY DEF Accept, Accepted, kernel
<1>1. CASE Accept
  <2>1. /\ pc'[Acceptor] = "rlock" /\ op'[Acceptor] = "accept" /\ serving' = "accepting"
        /\ \A u \in Threads \ {Acceptor} : pc'[u] = pc[u] /\ op'[u] = op[u]
        /\ errors' = errors
    BY <1>1 DEF Accept, Call, Goto, ServerInv, TypeOK
  <2>2. OnlyItsCalls'
    BY <1>0, <2>1 DEF ServerInv, OnlyItsCalls, Accepting, Closing
  <2>. QED BY <1>0, <2>1, <2>2 DEF ServerInv, OnlyServersServe, SocketIsOpen, StopIsSilent,
                                   FailureIsReal
<1>2. CASE Accepted
  <2>1. /\ pc[Acceptor] = "idle" /\ serving = "accepting" /\ UNCHANGED <<pc, op>>
        /\ serving' \in {"ready", "ended"}
    BY <1>2 DEF Accepted
  <2>2. got \/ stopped \/ gone
    BY <2>1 DEF ServerInv, FailureIsReal
  <2>3. StopIsSilent'
    BY <1>0, <1>2, <2>2 DEF Accepted, ServerInv, TypeOK, StopIsSilent
  <2>4. OnlyItsCalls'
    BY <1>0, <2>1 DEF ServerInv, OnlyItsCalls, Accepting, Closing
  <2>. QED BY <1>0, <2>1, <2>3, <2>4 DEF ServerInv, OnlyServersServe, SocketIsOpen, FailureIsReal
<1>. QED BY <1>1, <1>2

LEMMA ServerOtherStep ==
  ASSUME ServerInv, TypeOK',
         \/ \E t \in Threads : ReturnFromOther(t) \/ Spurious(t) \/ Use(t) \/ BrokenPipe(t)
         \/ Arrive \/ Drain \/ Break \/ Reuse \/ UNCHANGED vars
  PROVE  ServerInv'
<1>1. ASSUME NEW t \in Threads, Use(t) PROVE ServerInv'
  <2>1. UNCHANGED <<listening, gone, error, valid, descriptor, stopped, admin, serving, errors>>
    BY <1>1 DEF Use, kernel, server
  <2>2. ~listening
    BY <1>1 DEF Use
  <2>. QED BY <2>1, <2>2 DEF ServerInv, OnlyItsCalls, OnlyServersServe, SocketIsOpen, StopIsSilent,
                             FailureIsReal
<1>2. CASE Break
  <2>1. UNCHANGED <<listening, valid, descriptor, stopped, admin, serving, errors, pc, op, got>>
    BY <1>2 DEF Break, server
  <2>2. gone'
    BY <1>2 DEF Break
  <2>. QED BY <2>1, <2>2 DEF ServerInv, OnlyItsCalls, OnlyServersServe, SocketIsOpen, StopIsSilent,
                             FailureIsReal, Accepting, Closing
<1>3. CASE (\E t \in Threads : Spurious(t) \/ BrokenPipe(t)) \/ Arrive \/ Drain \/ UNCHANGED vars
  <2>1. UNCHANGED <<listening, gone, error, valid, descriptor, stopped, admin, serving, errors,
                    pc, op, got>>
    BY <1>3 DEF Spurious, BrokenPipe, Arrive, Drain, vars, kernel, server
  <2>. QED BY <2>1 DEF ServerInv, OnlyItsCalls, OnlyServersServe, SocketIsOpen, StopIsSilent,
                       FailureIsReal, Accepting, Closing
<1>4. CASE Reuse
  <2>1. /\ UNCHANGED <<listening, gone, error, valid, stopped, admin, serving, errors, pc, op, got>>
        /\ descriptor # "open"
    BY <1>4 DEF Reuse, server
  <2>. QED BY <2>1 DEF ServerInv, OnlyItsCalls, OnlyServersServe, SocketIsOpen, StopIsSilent,
                       FailureIsReal, Accepting, Closing
<1>5. ASSUME NEW t \in Threads, ReturnFromOther(t) PROVE ServerInv'
  <2>1. /\ UNCHANGED <<listening, gone, error, valid, descriptor, stopped, admin, serving, errors, op>>
        /\ descriptor = "reused" /\ pc[t] = "blocked"
    BY <1>5 DEF ReturnFromOther, kernel
  <2>2. pc'[t] = "unlock" /\ \A u \in Threads \ {t} : pc'[u] = pc[u]
    BY <1>5 DEF ReturnFromOther, Goto, ServerInv, TypeOK
  <2>3. OnlyItsCalls'
    BY <2>1, <2>2 DEF ServerInv, OnlyItsCalls, Accepting, Closing, Reading
  <2>4. serving = "accepting" => stopped
    BY <2>1 DEF ServerInv, SocketIsOpen
  <2>. QED BY <2>1, <2>3, <2>4 DEF ServerInv, OnlyServersServe, SocketIsOpen, StopIsSilent,
                                   FailureIsReal
<1>. QED BY <1>1, <1>2, <1>3, <1>4, <1>5

LEMMA ServerStart == Init => ServerInv
<1>. SUFFICES ASSUME Init PROVE ServerInv
  OBVIOUS
<1>1. ~error /\ serving = "none" /\ admin = NoThread /\ errors = 0
  BY DEF Init, SocketInit
<1>2. \A t \in Threads : pc[t] = "idle"
  BY DEF Init
<1>. QED BY <1>1, <1>2, InitTypes DEF ServerInv, OnlyItsCalls, OnlyServersServe, SocketIsOpen,
                                      FailureIsReal, StopIsSilent

(***************************************************************************)
(* Server::start() and stop() and the thread that accepts (network.cpp).   *)
(***************************************************************************)
THEOREM ServerInvariant == Spec => []ServerInv
<1>1. ServerInv /\ TypeOK' /\ [Next]_vars => ServerInv'
  BY ServerCallStep, ServerStopStep, ServerStartStep, ServerThreadStep, ServerOtherStep DEF Next
<1>. QED BY <1>1, ServerStart, SocketTypes, PTL DEF Spec

(***************************************************************************)
(* Stopping a server is not reported as a failure of its socket            *)
(* (network.cpp, the thread's "if (!stopped) onError()").                  *)
(***************************************************************************)
THEOREM StoppingIsSilent == Spec => []StopIsSilent
<1>1. ServerInv => StopIsSilent
  BY DEF ServerInv
<1>. QED BY <1>1, ServerInvariant, PTL

-----------------------------------------------------------------------------
(***************************************************************************)
(* Descriptors.  On Linux the thread that closes one writes, and nobody    *)
(* reads then.  On macOS and Windows the thread that has closed one stays  *)
(* in close() until it writes.                                             *)
(***************************************************************************)
Closed  == descriptor \in {"closed", "reused"}
Leaving == {"unlock", "wlock", "waiting", "writing"}

DescriptorLives ==
  Closed => \/ ~valid /\ \A t \in Threads : pc[t] # "blocked"
            \/ closesFirst /\ \E u \in Threads : YetToForget(u)

DescriptorInv == LockInv /\ DescriptorLives

(***************************************************************************)
(* A thread that moves ends no close(), and uses what is valid.            *)
(***************************************************************************)
LEMMA Elsewhere ==
  ASSUME DescriptorInv, UNCHANGED <<descriptor, valid, closesFirst>>, NEW t \in Threads, NEW l,
         pc' = [pc EXCEPT ![t] = l] \/ UNCHANGED pc,
         \A u \in Threads \ {t} : op'[u] = op[u],
         l = "blocked" => valid,
         YetToForget(t) => op'[t] = "close" /\ l \in Leaving
  PROVE  DescriptorLives'
<1>. SUFFICES ASSUME Closed
              PROVE  \/ ~valid' /\ \A u \in Threads : pc'[u] # "blocked"
                     \/ closesFirst' /\ \E u \in Threads : YetToForget(u)'
  BY DEF DescriptorLives, Closed
<1>1. CASE ~valid /\ \A u \in Threads : pc[u] # "blocked"
  BY <1>1 DEF DescriptorInv, LockInv, TypeOK
<1>2. CASE closesFirst /\ \E u \in Threads : YetToForget(u)
  <2>1. PICK u \in Threads : YetToForget(u)
    BY <1>2
  <2>2. YetToForget(u)'
    BY <2>1 DEF YetToForget, Leaving, DescriptorInv, LockInv, TypeOK
  <2>. QED BY <1>2, <2>2
<1>. QED BY <1>1, <1>2 DEF DescriptorInv, DescriptorLives

LEMMA DescriptorStep ==
  ASSUME DescriptorInv, ServerInv, [Next]_vars
  PROVE  DescriptorInv'
<1>. SUFFICES DescriptorLives'
  BY LockStep DEF DescriptorInv
<1>0. LockInv /\ TypeOK
  BY DEF DescriptorInv, LockInv
<1>1. ASSUME NEW t \in Threads, Alive, Step(t) PROVE DescriptorLives'
  <2>0. closesFirst' = closesFirst
    BY <1>1 DEF Alive
  <2>1. CASE Enter(t)
    BY <2>0, <2>1, Elsewhere DEF Enter, Goto, kernel, YetToForget
  <2>2. CASE FindInvalid(t)
    <3>1. \A u \in Threads \ {t} : op'[u] = op[u]
      BY <1>0, <2>2 DEF FindInvalid, TypeOK
    <3>. QED BY <2>0, <2>2, <3>1, Elsewhere DEF FindInvalid, Goto, kernel, YetToForget
  <2>3. CASE Block(t)
    BY <2>0, <2>3, Elsewhere DEF Block, Goto, kernel, YetToForget
  <2>4. CASE AcceptErrored(t)
    BY <2>0, <2>4, Elsewhere DEF AcceptErrored, Goto, YetToForget
  <2>5. CASE CheckOpen(t)
    <3>1. \A u \in Threads \ {t} : op'[u] = op[u]
      BY <1>0, <2>5 DEF CheckOpen, TypeOK
    <3>. QED BY <2>0, <2>5, <3>1, Elsewhere DEF CheckOpen, Goto, YetToForget
  <2>6. CASE Shutdown(t)
    <3>1. /\ descriptor' = Shut /\ op'[t] = "close" /\ pc'[t] = "unlock"
      BY <1>0, <2>6 DEF Shutdown, Goto, TypeOK
    <3>2. CASE closesFirst
      BY <2>0, <3>1, <3>2 DEF DescriptorLives, YetToForget
    <3>3. CASE ~closesFirst
      BY <3>1, <3>3 DEF Shut, DescriptorLives, Closed
    <3>. QED BY <3>2, <3>3
  <2>7. CASE Unblock(t)
    <3>1. /\ UNCHANGED <<descriptor, valid, closesFirst, op>> /\ ~YetToForget(t)
          /\ pc' = [pc EXCEPT ![t] = "unlock"]
      BY <2>0, <2>7 DEF Unblock, Goto, YetToForget
    <3>. QED BY <3>1, Elsewhere
  <2>8. CASE Leave(t)
    <3>1. CASE op[t] \in {"close", "invalidate"}
      <4>1. pc' = [pc EXCEPT ![t] = "wlock"] /\ op' = op
        BY <2>8, <3>1 DEF Leave, Goto
      <4>. QED BY <2>0, <2>8, <4>1, Elsewhere DEF Leave, kernel, Leaving, YetToForget
    <3>2. CASE op[t] \notin {"close", "invalidate"}
      <4>1. /\ pc' = [pc EXCEPT ![t] = "idle"] /\ ~YetToForget(t)
            /\ \A u \in Threads \ {t} : op'[u] = op[u]
        BY <1>0, <2>8, <3>2 DEF Leave, Return, Goto, YetToForget, TypeOK
      <4>. QED BY <2>0, <2>8, <4>1, Elsewhere DEF Leave, kernel
    <3>. QED BY <3>1, <3>2
  <2>9. CASE WriteLock(t)
    <3>1. \/ pc' = [pc EXCEPT ![t] = "writing"] \/ pc' = [pc EXCEPT ![t] = "waiting"]
      BY <1>0, <2>9 DEF WriteLock, Goto, TypeOK
    <3>. QED BY <2>0, <2>9, <3>1, Elsewhere DEF WriteLock, kernel, Leaving, YetToForget
  <2>10. CASE Invalidate(t)
    <3>1. owner = t /\ t # NoThread /\ pc' = [pc EXCEPT ![t] = "idle"] /\ ~valid'
      BY <2>10, NoThreadIsNone DEF Invalidate, Return, Goto, DescriptorInv, LockInv, WriterIsAlone
    <3>2. \A u \in Threads : pc[u] # "blocked"
      BY <3>1 DEF DescriptorInv, LockInv, WriterIsAlone, Readers
    <3>. QED BY <1>0, <3>1, <3>2 DEF DescriptorLives, TypeOK
  <2>. QED BY <1>1, <2>1, <2>2, <2>3, <2>4, <2>5, <2>6, <2>7, <2>8, <2>9, <2>10 DEF Step
<1>2. ASSUME NEW t \in Threads, Alive,
             ReturnFromOther(t) \/ Spurious(t) \/ Use(t) \/ Stop(t) \/ Stopped(t)
      PROVE  DescriptorLives'
  <2>1. /\ UNCHANGED <<descriptor, valid, closesFirst>>
        /\ \/ pc' = [pc EXCEPT ![t] = "rlock"] \/ pc' = [pc EXCEPT ![t] = "unlock"]
           \/ UNCHANGED pc
        /\ \A u \in Threads \ {t} : op'[u] = op[u]
    BY <1>0, <1>2 DEF ReturnFromOther, Spurious, Use, Stop, Stopped, Call, Goto, kernel, Alive, TypeOK
  <2>2. CASE UNCHANGED <<pc, op>>
    BY <2>1, <2>2 DEF DescriptorInv, DescriptorLives, Closed, YetToForget
  <2>3. CASE ~UNCHANGED <<pc, op>>
    <3>1. ~YetToForget(t)
      BY <1>2, <2>3 DEF ReturnFromOther, Spurious, Use, Stop, Stopped, Call, YetToForget
    <3>. QED BY <2>1, <3>1, Elsewhere
  <2>. QED BY <2>2, <2>3
<1>3. ASSUME NEW t \in Threads, Alive, Start(t) PROVE DescriptorLives'
  BY <1>3 DEF Start, DescriptorLives, Closed
<1>4. ASSUME NEW t \in Threads, Alive, CannotBind(t) PROVE DescriptorLives'
  <2>1. /\ descriptor' = IF closesFirst THEN "closed" ELSE "shut"
        /\ op'[t] = "close" /\ pc'[t] = "wlock" /\ closesFirst' = closesFirst
    BY <1>0, <1>4 DEF CannotBind, Goto, Alive, TypeOK
  <2>. QED BY <2>1 DEF DescriptorLives, Closed, YetToForget
<1>5. CASE Alive /\ (Accept \/ Accepted)
  <2>1. /\ UNCHANGED <<descriptor, valid, closesFirst>>
        /\ \/ /\ pc' = [pc EXCEPT ![Acceptor] = "rlock"] /\ pc[Acceptor] = "idle"
              /\ \A u \in Threads \ {Acceptor} : op'[u] = op[u]
           \/ UNCHANGED <<pc, op>>
    BY <1>0, <1>5, AcceptorIsThread DEF Accept, Accepted, Call, Goto, kernel, Alive, TypeOK
  <2>2. CASE UNCHANGED <<pc, op>>
    BY <2>1, <2>2 DEF DescriptorInv, DescriptorLives, Closed, YetToForget
  <2>3. CASE ~UNCHANGED <<pc, op>>
    BY <2>1, <2>3, AcceptorIsThread, Elsewhere DEF YetToForget
  <2>. QED BY <2>2, <2>3
<1>6. CASE Alive /\ (Arrive \/ Drain \/ Break)
  BY <1>6 DEF Arrive, Drain, Break, Alive, DescriptorInv, DescriptorLives, Closed, YetToForget
<1>7. CASE Alive /\ Reuse
  BY <1>7 DEF Reuse, Alive, DescriptorInv, DescriptorLives, Closed, YetToForget
<1>8. ASSUME NEW t \in Threads, Alive, NotOpen(t) PROVE DescriptorLives'
  <2>1. ~valid' /\ pc' = pc
    BY <1>8 DEF NotOpen
  <2>2. \A u \in Threads : pc[u] # "blocked"
    BY <1>8, JoinedIsIdle DEF NotOpen
  <2>. QED BY <2>1, <2>2 DEF DescriptorLives
<1>9. ASSUME (\E t \in Threads : BrokenPipe(t)) \/ UNCHANGED vars PROVE DescriptorLives'
  BY <1>9 DEF BrokenPipe, vars, kernel, DescriptorInv, DescriptorLives, Closed, YetToForget
<1>. QED BY <1>1, <1>2, <1>3, <1>4, <1>5, <1>6, <1>7, <1>8, <1>9 DEF Next, ServerStep

LEMMA DescriptorStart == Init => DescriptorInv
<1>. SUFFICES ASSUME Init PROVE DescriptorLives
  BY LockStart DEF DescriptorInv
<1>1. Closed => ~valid
  BY DEF Init, SocketInit, Closed
<1>. QED BY <1>1 DEF Init, DescriptorLives

(***************************************************************************)
(* Whoever uses the descriptor holds the lock under which it was found     *)
(* valid (Socket::Shared::lock()), only a writer invalidates it, and the   *)
(* thread that closes it before it is invalidated stays in close().        *)
(***************************************************************************)
THEOREM DescriptorInvariant == Spec => []DescriptorInv
<1>. QED BY DescriptorStart, DescriptorStep, ServerInvariant, PTL DEF Spec

(***************************************************************************)
(* Socket::Shared: on Linux no thread uses a descriptor that has been      *)
(* closed and none closes it twice; on macOS and Windows that can happen   *)
(* only while a close() is under way that has yet to forget it.            *)
(***************************************************************************)
THEOREM DescriptorsAreLive == Spec => []UsesLiveDescriptor
<1>1. DescriptorInv => UsesLiveDescriptor
  BY DEF DescriptorInv, DescriptorLives, Closed, UsesLiveDescriptor, Using
<1>. QED BY <1>1, DescriptorInvariant, PTL

================================================================================
