------------------------------ MODULE SharedLock ------------------------------
(***************************************************************************)
(* What a reader/writer lock promises to the code that calls it: a section  *)
(* is entered in one step, and only when no incompatible section is open.   *)
(* ReaderWriterLock implements this specification; SymuCoreManager is       *)
(* written against it, so that the mutex, the condition variable and the    *)
(* wakeups need not be carried into the model of the path manager.          *)
(***************************************************************************)
CONSTANTS Threads,
          ReaderGroups   \* the sets of threads that may read together

VARIABLES readers,   \* threads inside a read section
          writers    \* threads inside a write section

lockVars == <<readers, writers>>

Init == readers = {} /\ writers = {}

BeginRead(t)  == /\ t \notin readers
                 /\ writers = {}
                 /\ readers \cup {t} \in ReaderGroups
                 /\ readers' = readers \cup {t}
                 /\ UNCHANGED writers

EndRead(t)    == /\ t \in readers
                 /\ readers' = readers \ {t}
                 /\ UNCHANGED writers

BeginWrite(t) == /\ readers = {}
                 /\ writers = {}
                 /\ writers' = {t}
                 /\ UNCHANGED readers

EndWrite(t)   == /\ t \in writers
                 /\ writers' = writers \ {t}
                 /\ UNCHANGED readers

Next == \E t \in Threads : \/ BeginRead(t)
                           \/ EndRead(t)
                           \/ BeginWrite(t)
                           \/ EndWrite(t)

Spec == Init /\ [][Next]_lockVars
=============================================================================
