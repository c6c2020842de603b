-------------------------------- MODULE Socket ---------------------------------
(***************************************************************************)
(* cppdap's TCP socket and server (socket.cpp, network.cpp).               *)
(*                                                                         *)
(* A descriptor is shared by threads that receive, send, ask whether it is *)
(* open and close it; RWMutex is to keep it from being closed under a      *)
(* thread that uses it, while close() must still get a thread out of a     *)
(* blocking recv(), send() or accept().  One run has one socket: that of a *)
(* connection, which every thread may use for everything, or that on which *)
(* a Server listens, which its thread accepts connections from while the   *)
(* others call start() and stop().                                         *)
(*                                                                         *)
(* close() differs between the builds.  On Linux it shuts the socket down  *)
(* under the read lock and closes it under the write lock; on macOS and    *)
(* Windows it closes it under the read lock already, so that until it has  *)
(* the write lock s holds a number that the system may give to another     *)
(* file, as its comment admits.  A run is one build of either kind.        *)
(***************************************************************************)
EXTENDS RWMutex

CONSTANTS
  Acceptor,       \* Server's thread
  MaxCalls,       \* bound: calls on a connection, or start() and stop() calls
  MaxArrivals     \* bound: packets or connections that arrive

ASSUME AcceptorIsThread == Acceptor \in Threads
ASSUME BoundsAreNumbers == MaxCalls \in Nat /\ MaxArrivals \in Nat

VARIABLES
  listening,  \* the socket is a Server's
  closesFirst,\* the build is one for macOS or Windows
  descriptor, \* "open", "shut" by ::shutdown(), "closed" by ::close(), or "reused":
              \* closed, and its number is another file's
  valid,      \* Shared::s # InvalidSocket
  arrived,    \* packets or connections waiting in the kernel
  full,       \* the send buffer is full
  gone,       \* the peer has closed, or the listening socket has failed
  error,      \* SO_ERROR, which getsockopt() clears
  pc,         \* where each thread is
  op,         \* the call each thread makes
  got,        \* the last accept() returned a connection
  opening,    \* the thread whose Socket() found that it cannot bind
  stopped,    \* Server::stopped
  admin,      \* the thread in start() or stop(), which holds Server's mutex
  starting,   \* that call is start()
  serving,    \* Server's thread: "none", "ready", "accepting" or "ended"
  errors,     \* onError() calls of Server's thread
  calls, arrivals,
  killed      \* SIGPIPE has ended the process

kernel == <<descriptor, arrived, full, gone, error>>
server == <<got, opening, stopped, admin, starting, serving, errors>>
counts == <<calls, arrivals>>
vars   == <<lock, listening, closesFirst, kernel, valid, pc, op, server, counts, killed>>

Blocking == {"read", "write", "accept"}

SocketInit ==
  /\ descriptor = IF listening THEN "closed" ELSE "open"
  /\ valid = ~listening
  /\ arrived = 0 /\ full = FALSE /\ gone = FALSE /\ error = FALSE

Init ==
  /\ LockInit
  /\ listening \in BOOLEAN /\ closesFirst \in BOOLEAN
  /\ SocketInit
  /\ pc = [t \in Threads |-> "idle"] /\ op = [t \in Threads |-> "none"]
  /\ got = FALSE /\ opening = NoThread
  /\ stopped = TRUE /\ admin = NoThread /\ starting = FALSE
  /\ serving = "none" /\ errors = 0
  /\ calls = 0 /\ arrivals = 0 /\ killed = FALSE

Goto(t, l) == pc' = [pc EXCEPT ![t] = l]

Call(t, o) == /\ pc[t] = "idle"
              /\ Goto(t, "rlock")
              /\ op' = [op EXCEPT ![t] = o]

Return(t) == /\ Goto(t, "idle")
             /\ op' = [op EXCEPT ![t] = "none"]

-----------------------------------------------------------------------------
(***************************************************************************)
(* Every call takes the read lock first, looks at s, and releases it.      *)
(* read(), write() and accept() use the descriptor in between; isOpen()    *)
(* and close() go on to the write lock.                                    *)
(***************************************************************************)
Enter(t) == /\ pc[t] = "rlock"
            /\ LockReader
            /\ Goto(t, "locked")
            /\ UNCHANGED <<listening, kernel, valid, op, server, counts>>

(* What errored() may find: that of the file that has the number now. *)
Errors == IF descriptor = "reused" THEN BOOLEAN ELSE {error}

FindInvalid(t) ==
  /\ pc[t] = "locked" /\ ~valid
  /\ Goto(t, "unlock")
  /\ op' = [op EXCEPT ![t] = IF @ = "isOpen" THEN "invalidate" ELSE @]
  /\ got' = (got /\ op[t] # "accept")
  /\ UNCHANGED <<lock, listening, kernel, valid, opening, stopped, admin, starting, serving,
                 errors, counts>>

Block(t) == /\ pc[t] = "locked" /\ valid
            /\ op[t] \in {"read", "write"} \/ (op[t] = "accept" /\ FALSE \in Errors)
            /\ Goto(t, "blocked")
            /\ UNCHANGED <<lock, listening, kernel, valid, op, server, counts>>

AcceptErrored(t) == /\ pc[t] = "locked" /\ valid /\ op[t] = "accept" /\ TRUE \in Errors
                    /\ error' = FALSE
                    /\ got' = FALSE
                    /\ Goto(t, "unlock")
                    /\ UNCHANGED <<lock, listening, descriptor, arrived, full, gone, valid, op,
                                   opening, stopped, admin, starting, serving, errors, counts>>

CheckOpen(t) ==
  /\ pc[t] = "locked" /\ valid /\ op[t] = "isOpen"
  /\ error' = FALSE
  /\ \E failed \in Errors : op' = [op EXCEPT ![t] = IF failed THEN "invalidate" ELSE @]
  /\ Goto(t, "unlock")
  /\ UNCHANGED <<lock, listening, descriptor, arrived, full, gone, valid, server, counts>>

ForgetShutdown(t) ==    \* mutant: close() only waits for the write lock
  /\ pc[t] = "locked" /\ valid /\ op[t] = "close"
  /\ Goto(t, "unlock")
  /\ UNCHANGED <<lock, listening, kernel, valid, op, server, counts>>

(* A second close() on the number of another file closes that one. *)
Shut == IF ~closesFirst THEN "shut" ELSE IF descriptor = "reused" THEN "reused" ELSE "closed"

Shutdown(t) == /\ pc[t] = "locked" /\ valid /\ op[t] = "close"
               /\ descriptor' = Shut
               /\ Goto(t, "unlock")
               /\ UNCHANGED <<lock, listening, arrived, full, gone, error, valid, op, server,
                              counts>>

(***************************************************************************)
(* The kernel lets a blocked thread go: with what has arrived, with room   *)
(* in the send buffer, or because nothing more can come.                   *)
(***************************************************************************)
Unblock(t) ==
  /\ pc[t] = "blocked" /\ descriptor # "reused"
  /\ \/ /\ op[t] \in {"read", "accept"} /\ arrived > 0 /\ descriptor = "open"
        /\ arrived' = arrived - 1
        /\ got' = (got \/ op[t] = "accept")
        /\ UNCHANGED <<full, error>>
     \/ /\ op[t] = "write" /\ ~full
        /\ full' \in BOOLEAN
        /\ UNCHANGED <<arrived, error, got>>
     \/ /\ descriptor # "open" \/ gone
        /\ error' = FALSE
        /\ got' = (got /\ op[t] # "accept")
        /\ UNCHANGED <<arrived, full>>
  /\ Goto(t, "unlock")
  /\ UNCHANGED <<lock, listening, descriptor, gone, valid, op, opening, stopped, admin, starting,
                 serving, errors, counts>>

(***************************************************************************)
(* A call on the number of another file returns when, and with what, that  *)
(* file has for it.                                                        *)
(***************************************************************************)
ReturnFromOther(t) ==
  /\ pc[t] = "blocked" /\ descriptor = "reused"
  /\ got' \in {got, op[t] = "accept"}
  /\ Goto(t, "unlock")
  /\ UNCHANGED <<lock, listening, kernel, valid, op, opening, stopped, admin, starting, serving,
                 errors, counts>>

Leave(t) ==
  /\ pc[t] = "unlock"
  /\ UnlockReader
  /\ IF op[t] \in {"close", "invalidate"} THEN Goto(t, "wlock") /\ UNCHANGED op ELSE Return(t)
  /\ UNCHANGED <<listening, kernel, valid, server, counts>>

WriteWithoutLock(t) ==    \* mutant: close() does not wait for those that use the descriptor
  /\ pc[t] = "wlock"
  /\ UNCHANGED lock
  /\ Goto(t, "writing")
  /\ UNCHANGED <<listening, kernel, valid, op, server, counts>>

WriteLock(t) ==
  /\ \/ /\ pc[t] = "wlock"
        /\ \/ LockWriterAtOnce(t) /\ Goto(t, "writing")
           \/ WaitForReaders(t) /\ Goto(t, "waiting")
     \/ /\ pc[t] = "waiting"
        /\ \/ LockWriterWoken(t) /\ Goto(t, "writing")
           \/ WaitAgain(t) /\ UNCHANGED pc
  /\ UNCHANGED <<listening, kernel, valid, op, server, counts>>

(***************************************************************************)
(* Under the write lock close() closes what is still valid, unless it has  *)
(* done so already; isOpen() only forgets the descriptor, which then stays *)
(* open for good.                                                          *)
(***************************************************************************)
Invalidate(t) ==
  /\ pc[t] = "writing"
  /\ valid' = FALSE
  /\ descriptor' = IF valid /\ op[t] = "close" /\ ~closesFirst THEN "closed" ELSE descriptor
  /\ UnlockWriter
  /\ Return(t)
  /\ UNCHANGED <<listening, arrived, full, gone, error, server, counts>>

Spurious(t) == /\ WakeSpuriously(t)
               /\ UNCHANGED <<listening, kernel, valid, pc, op, server, counts>>

Step(t) == \/ Enter(t) \/ FindInvalid(t) \/ Block(t) \/ AcceptErrored(t) \/ CheckOpen(t)
           \/ Shutdown(t) \/ Unblock(t) \/ Leave(t) \/ WriteLock(t) \/ Invalidate(t)

-----------------------------------------------------------------------------
(* The users of a connection, the peer, and the rest of the program. *)
Use(t) == /\ ~listening /\ calls < MaxCalls
          /\ calls' = calls + 1
          /\ \E o \in {"read", "write", "isOpen", "close"} : Call(t, o)
          /\ UNCHANGED <<lock, listening, kernel, valid, server, arrivals>>

Arrive == /\ descriptor = "open" /\ ~gone /\ arrivals < MaxArrivals
          /\ arrived' = arrived + 1
          /\ arrivals' = arrivals + 1
          /\ UNCHANGED <<lock, listening, descriptor, full, gone, error, valid, pc, op, server,
                         calls>>

Drain == /\ full /\ ~gone
         /\ full' = FALSE
         /\ UNCHANGED <<lock, listening, descriptor, arrived, gone, error, valid, pc, op, server,
                        counts>>

(* The program opens a file, which gets the number that is free. *)
Reuse == /\ descriptor = "closed" /\ valid
         /\ descriptor' = "reused"
         /\ UNCHANGED <<lock, listening, arrived, full, gone, error, valid, pc, op, server, counts>>

Break == /\ descriptor = "open" /\ ~gone
         /\ gone' = TRUE
         /\ error' \in BOOLEAN
         /\ UNCHANGED <<lock, listening, descriptor, arrived, full, valid, pc, op, server, counts>>

-----------------------------------------------------------------------------
(***************************************************************************)
(* Server.  stop(), and start() before it opens a socket, close the socket *)
(* and join the thread, unless the server is stopped already.              *)
(***************************************************************************)
StopFirstClosing(t) ==    \* mutant: closes before it tells the thread
  /\ listening /\ t # Acceptor /\ admin = NoThread /\ pc[t] = "idle" /\ calls < MaxCalls
  /\ calls' = calls + 1
  /\ admin' = t
  /\ starting' \in BOOLEAN
  /\ UNCHANGED stopped
  /\ IF stopped THEN UNCHANGED <<pc, op>> ELSE Call(t, "close")
  /\ UNCHANGED <<lock, listening, kernel, valid, got, opening, serving, errors, arrivals>>

Stop(t) ==
  /\ listening /\ t # Acceptor /\ admin = NoThread /\ pc[t] = "idle" /\ calls < MaxCalls
  /\ calls' = calls + 1
  /\ admin' = t
  /\ starting' \in BOOLEAN
  /\ stopped' = TRUE
  /\ IF stopped THEN UNCHANGED <<pc, op>> ELSE Call(t, "close")
  /\ UNCHANGED <<lock, listening, kernel, valid, got, opening, serving, errors, arrivals>>

Joined(t) == admin = t /\ pc[t] = "idle" /\ serving \in {"none", "ended"}

Stopped(t) == /\ Joined(t) /\ ~starting
              /\ serving' = "none"
              /\ admin' = NoThread
              /\ UNCHANGED <<lock, listening, kernel, valid, pc, op, got, opening, stopped,
                             starting, errors, counts>>

Start(t) == /\ Joined(t) /\ starting
            /\ descriptor' = "open" /\ valid' = TRUE
            /\ arrived' = 0 /\ full' = FALSE /\ gone' = FALSE /\ error' = FALSE
            /\ stopped' = FALSE
            /\ serving' = "ready"
            /\ errors' = 0
            /\ admin' = NoThread
            /\ UNCHANGED <<lock, listening, pc, op, got, opening, starting, counts>>

(* The name does not resolve: there is no socket, and stopped stays set. *)
NotOpen(t) == /\ Joined(t) /\ starting
              /\ descriptor' = "closed" /\ valid' = FALSE
              /\ arrived' = 0 /\ full' = FALSE /\ gone' = FALSE /\ error' = FALSE
              /\ serving' = "none"
              /\ errors' = 0
              /\ admin' = NoThread
              /\ UNCHANGED <<lock, listening, pc, op, got, opening, stopped, starting, counts>>

(***************************************************************************)
(* Socket() that cannot bind destroys what it has locked: the destructor   *)
(* waits in close() for the read lock that its own caller holds.           *)
(***************************************************************************)
CannotBind(t) == /\ Joined(t) /\ starting
                 /\ LockReader
                 /\ opening' = t
                 /\ descriptor' = IF closesFirst THEN "closed" ELSE "shut"
                 /\ valid' = TRUE
                 /\ arrived' = 0 /\ full' = FALSE /\ gone' = FALSE /\ error' = FALSE
                 /\ serving' = "none"
                 /\ op' = [op EXCEPT ![t] = "close"]
                 /\ errors' = 0
                 /\ Goto(t, "wlock")
                 /\ UNCHANGED <<listening, got, stopped, admin, starting, counts>>

Accept == /\ serving = "ready"
          /\ got' = FALSE
          /\ Call(Acceptor, "accept")
          /\ serving' = "accepting"
          /\ UNCHANGED <<lock, listening, kernel, valid, opening, stopped, admin, starting,
                         errors, counts>>

Accepted == /\ serving = "accepting" /\ pc[Acceptor] = "idle"
            /\ serving' = IF got THEN "ready" ELSE "ended"
            /\ errors' = IF got \/ stopped THEN errors ELSE errors + 1
            /\ UNCHANGED <<lock, listening, kernel, valid, pc, op, got, opening, stopped, admin,
                           starting, counts>>

ServerStep(t) == Stopped(t) \/ Start(t) \/ NotOpen(t) \/ CannotBind(t)

(***************************************************************************)
(* send() to a peer that reads no more, or on a socket that was shut down, *)
(* raises SIGPIPE on Linux and macOS, and nothing in the repository        *)
(* ignores it.  It is an error instead on Windows, or when the connection  *)
(* was reset, and a success when a part had been sent.                     *)
(***************************************************************************)
BrokenPipe(t) == /\ ~killed
                 /\ pc[t] = "blocked" /\ op[t] = "write" /\ (descriptor # "open" \/ gone)
                 /\ killed' = TRUE
                 /\ UNCHANGED <<lock, listening, closesFirst, kernel, valid, pc, op, server, counts>>

Alive == ~killed /\ UNCHANGED <<closesFirst, killed>>

Next == \/ Alive /\ \E t \in Threads : Step(t) \/ ReturnFromOther(t) \/ Spurious(t) \/ Use(t)
                                      \/ Stop(t) \/ ServerStep(t)
        \/ Alive /\ (Accept \/ Accepted \/ Arrive \/ Drain \/ Break \/ Reuse)
        \/ \E t \in Threads : BrokenPipe(t)

Spec == Init /\ [][Next]_vars

(***************************************************************************)
(* The scheduler runs every thread; the peer need not send, read or close, *)
(* and another file need not let a call on its number return.              *)
(***************************************************************************)
FairSpec == /\ Spec
            /\ \A t \in Threads : WF_vars(Alive /\ Step(t)) /\ WF_vars(Alive /\ ServerStep(t))
            /\ WF_vars(Alive /\ Accept) /\ WF_vars(Alive /\ Accepted)

-----------------------------------------------------------------------------
TypeOK ==
  /\ readLocks \in Nat /\ pendingWriteLocks \in Nat
  /\ owner \in Threads \cup {NoThread} /\ sleepers \subseteq Threads
  /\ listening \in BOOLEAN /\ closesFirst \in BOOLEAN /\ killed \in BOOLEAN
  /\ descriptor \in {"open", "shut", "closed", "reused"} /\ valid \in BOOLEAN
  /\ arrived \in Nat /\ full \in BOOLEAN /\ gone \in BOOLEAN /\ error \in BOOLEAN
  /\ pc \in [Threads -> {"idle", "rlock", "locked", "blocked", "unlock", "wlock", "waiting",
                         "writing"}]
  /\ op \in [Threads -> Blocking \cup {"none", "isOpen", "invalidate", "close"}]
  /\ got \in BOOLEAN /\ opening \in Threads \cup {NoThread}
  /\ stopped \in BOOLEAN /\ admin \in Threads \cup {NoThread} /\ starting \in BOOLEAN
  /\ serving \in {"none", "ready", "accepting", "ended"}
  /\ errors \in Nat /\ calls \in 0..MaxCalls /\ arrivals \in 0..MaxArrivals

(***************************************************************************)
(* The use of a closed descriptor, whose number may be another file's.  On *)
(* Linux no thread uses one, and none closes it twice.  On macOS and       *)
(* Windows a thread can, as the comment in close() says, but only while a  *)
(* close() that has yet to forget the number is under way: when the last   *)
(* close() has returned nobody is left in a call on the number and nobody  *)
(* starts one.                                                             *)
(***************************************************************************)
Using(t) == \/ pc[t] = "blocked"
            \/ pc[t] = "locked" /\ valid
            \/ pc[t] = "writing" /\ valid /\ ~closesFirst

YetToForget(t) == op[t] = "close" /\ pc[t] \in {"unlock", "wlock", "waiting", "writing"}

UsesLiveDescriptor ==
  \A t \in Threads : Using(t) =>
    \/ descriptor \notin {"closed", "reused"}
    \/ closesFirst /\ \E u \in Threads : YetToForget(u)

(***************************************************************************)
(* No wake-up of a writer is lost: while one sleeps there is a reader or a *)
(* writer that will notify, or a writer that is awake already.             *)
(***************************************************************************)
WritersAreWoken ==
  sleepers # {} => \/ readLocks > 0 \/ owner # NoThread
                   \/ \E t \in Threads : pc[t] = "waiting" /\ t \notin sleepers

(***************************************************************************)
(* Stopping a server is not reported as a failure of its socket, though it *)
(* is what makes accept() fail.                                            *)
(***************************************************************************)
StopIsSilent == errors > 0 => gone

(***************************************************************************)
(* rwmutex.h:28: the lock is held by any number of readers or one writer.  *)
(***************************************************************************)
Readers == {t \in Threads : pc[t] \in {"locked", "blocked", "unlock"} \/ opening = t}

Lock == INSTANCE ReadersWriter WITH readers <- Readers, writer <- owner

LocksAsPromised == Lock!Spec

(***************************************************************************)
(* close() gets every thread out of the kernel and returns, and stop()     *)
(* joins its thread.  Only the thread whose start() could not bind waits   *)
(* for itself, and with it whoever calls start() or stop() after it; and   *)
(* in the builds that close first, a close() may wait for a call that has  *)
(* fallen on another file's number.  A process that SIGPIPE has ended      *)
(* makes no call.                                                          *)
(***************************************************************************)
Busy(t) == \/ pc[t] # "idle" /\ op[t] \in {"close", "isOpen", "invalidate"}
           \/ admin = t

CallsReturn ==
  \A t \in Threads :
    Busy(t) ~> (~Busy(t) \/ opening # NoThread \/ descriptor = "reused" \/ killed)
================================================================================
