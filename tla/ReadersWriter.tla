----------------------------- MODULE ReadersWriter -----------------------------
(***************************************************************************)
(* What a lock for readers and writers promises: any number of readers or  *)
(* a single writer.                                                        *)
(***************************************************************************)
CONSTANTS Threads, NoThread

VARIABLES readers, writer

Init == readers = {} /\ writer = NoThread

Read(t)   == /\ writer = NoThread /\ t \notin readers
             /\ readers' = readers \cup {t}
             /\ UNCHANGED writer

Leave(t)  == /\ t \in readers
             /\ readers' = readers \ {t}
             /\ UNCHANGED writer

Write(t)  == /\ readers = {} /\ writer = NoThread
             /\ writer' = t
             /\ UNCHANGED readers

Finish(t) == /\ writer = t
             /\ writer' = NoThread
             /\ UNCHANGED readers

Next == \E t \in Threads : Read(t) \/ Leave(t) \/ Write(t) \/ Finish(t)

Spec == Init /\ [][Next]_<<readers, writer>>
================================================================================
