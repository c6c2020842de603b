-------------------------------- MODULE Session --------------------------------
(***************************************************************************)
(* cppdap's session as an endpoint uses it (session.cpp, chan.h, io.cpp):  *)
(* a receive thread reads messages and puts requests into a channel, a     *)
(* dispatch thread takes them out, and the destructor closes channel and   *)
(* streams and joins both threads.                                         *)
(*                                                                         *)
(* The messages are those of a stream of framed contents (ContentReader).  *)
(* A stream made of a FILE that is not closable stays open whatever is     *)
(* called; one of a pipe or socket is closed, and its reader returns.      *)
(***************************************************************************)
EXTENDS Naturals, Sequences

VARIABLES
  closable,   \* the streams can be closed
  open,       \* Reader::isOpen() and Writer::isOpen()
  incoming,   \* messages of the client that the receive thread has not read
  receiving,  \* the receive thread runs
  inbox,      \* Chan: queue
  closed,     \* Chan: closed
  asleep      \* the dispatch thread sleeps in Chan::take()

stream  == <<closable, open, incoming, receiving>>
channel == <<inbox, closed, asleep>>

-----------------------------------------------------------------------------
(***************************************************************************)
(* Chan.  The thread that finds the queue empty sleeps; a put wakes it     *)
(* when it makes the queue nonempty, close always does.                    *)
(***************************************************************************)
PutOnTop(m) ==    \* mutant: notifies when there is something to take already
  /\ inbox' = Append(inbox, m)
  /\ asleep' = (asleep /\ (inbox = <<>> \/ closed))
  /\ UNCHANGED closed

Put(m) ==
  /\ inbox' = Append(inbox, m)
  /\ asleep' = (asleep /\ ~(inbox = <<>> /\ ~closed))
  /\ UNCHANGED closed

Sleep == /\ ~asleep /\ inbox = <<>> /\ ~closed
         /\ asleep' = TRUE
         /\ UNCHANGED <<inbox, closed>>

Take(m) == /\ ~asleep /\ inbox # <<>>
           /\ m = Head(inbox)
           /\ inbox' = Tail(inbox)
           /\ UNCHANGED <<closed, asleep>>

TakeNothing == ~asleep /\ inbox = <<>> /\ closed /\ UNCHANGED channel

CloseSilently ==    \* mutant: close() does not wake the dispatch thread
  closed' = TRUE /\ UNCHANGED <<inbox, asleep>>

CloseChannel == closed' = TRUE /\ asleep' = FALSE /\ UNCHANGED inbox

-----------------------------------------------------------------------------
(***************************************************************************)
(* The receive thread and what processMessage() makes of a message: the    *)
(* number of times it calls the error handler.  A response nobody waits    *)
(* for is reported by handlers.response() and again by its caller.         *)
(***************************************************************************)
Malformed == {"unknown", "event", "undeserializable", "typeless"}

Errors(kind) == CASE kind = "response"   -> 2
                  [] kind \in Malformed  -> 1
                  [] OTHER               -> 0

Read(m) == /\ receiving /\ open /\ incoming # <<>>
           /\ m = Head(incoming)
           /\ incoming' = Tail(incoming)
           /\ UNCHANGED <<closable, open, receiving>>

StopReceiving == /\ receiving /\ ~open
                 /\ receiving' = FALSE
                 /\ UNCHANGED <<closable, open, incoming>>

CloseStreams == /\ open' = (open /\ ~closable)
                /\ UNCHANGED <<closable, incoming, receiving>>

SessionInit ==
  /\ closable \in BOOLEAN
  /\ open = TRUE /\ incoming = <<>> /\ receiving = TRUE
  /\ inbox = <<>> /\ closed = FALSE /\ asleep = FALSE

(***************************************************************************)
(* No wake-up is lost: a dispatch thread sleeps only while there is        *)
(* nothing for it to do.                                                   *)
(***************************************************************************)
SleepsWhenIdle == asleep => inbox = <<>> /\ ~closed
=============================================================================
