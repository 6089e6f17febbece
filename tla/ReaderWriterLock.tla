--------------------------- MODULE ReaderWriterLock ---------------------------
(***************************************************************************)
(* The reader/writer lock of src/src/ReaderWriterLock.cpp: one mutex, one   *)
(* condition variable shared by readers and writers, a writer flag and a    *)
(* reader counter bounded by the number of hardware threads.                *)
(*                                                                          *)
(* The mutex is held only inside the four functions and released by         *)
(* m_Cond.wait, so a pass through a function body up to the next wait or    *)
(* return is one atomic action.  A thread blocked in m_Cond.wait is in      *)
(* state "readWait" or "writeWait"; once notified (or woken spuriously,     *)
(* which boost::condition_variable allows) it is back at the loop test.     *)
(***************************************************************************)
EXTENDS Integers, FiniteSets

CONSTANTS Threads,          \* the threads that call the lock
          m_nbMaxReaders    \* boost::thread::hardware_concurrency()

ASSUME ThreadsAssumption == IsFiniteSet(Threads)
(* hardware_concurrency() is allowed to answer 0 ("not computable").        *)
ASSUME MaxReadersAssumption == m_nbMaxReaders \in Nat

VARIABLES m_bHasWriter,     \* a writer is between BeginWrite and EndWrite
          m_nbReaders,      \* readers between BeginRead and EndRead
          pc                \* where each thread is

vars == <<m_bHasWriter, m_nbReaders, pc>>

At(s) == {t \in Threads : pc[t] = s}

Reading   == At("reading")
Writing   == At("writing")
Waiting   == At("readWait") \cup At("writeWait")
(* Threads about to evaluate the loop condition with the mutex free.        *)
Testing   == At("readTest") \cup At("writeTest")

Init == /\ m_bHasWriter = FALSE
        /\ m_nbReaders = 0
        /\ pc = [t \in Threads |-> "idle"]

(* The loop test a waiter returns to when m_Cond.wait returns.               *)
WokenState(s) == IF s = "readWait" THEN "readTest" ELSE "writeTest"

CallRead(t)  == /\ pc[t] = "idle"
                /\ pc' = [pc EXCEPT ![t] = "readTest"]
                /\ UNCHANGED <<m_bHasWriter, m_nbReaders>>

CallWrite(t) == /\ pc[t] = "idle"
                /\ pc' = [pc EXCEPT ![t] = "writeTest"]
                /\ UNCHANGED <<m_bHasWriter, m_nbReaders>>

(* Faulty variants of the two loop conditions.                               *)
ReadBlockedIgnoringWriter == m_nbReaders = m_nbMaxReaders
WriteBlockedIgnoringReaders == m_bHasWriter

ReadBlocked  == m_bHasWriter \/ m_nbReaders = m_nbMaxReaders
WriteBlocked == m_bHasWriter \/ m_nbReaders > 0

BeginReadWait(t) == /\ pc[t] = "readTest"
                    /\ ReadBlocked
                    /\ pc' = [pc EXCEPT ![t] = "readWait"]
                    /\ UNCHANGED <<m_bHasWriter, m_nbReaders>>

BeginRead(t) == /\ pc[t] = "readTest"
                /\ ~ReadBlocked
                /\ m_nbReaders' = m_nbReaders + 1
                /\ pc' = [pc EXCEPT ![t] = "reading"]
                /\ UNCHANGED m_bHasWriter

BeginWriteWait(t) == /\ pc[t] = "writeTest"
                     /\ WriteBlocked
                     /\ pc' = [pc EXCEPT ![t] = "writeWait"]
                     /\ UNCHANGED <<m_bHasWriter, m_nbReaders>>

BeginWrite(t) == /\ pc[t] = "writeTest"
                 /\ ~WriteBlocked
                 /\ m_bHasWriter' = TRUE
                 /\ pc' = [pc EXCEPT ![t] = "writing"]
                 /\ UNCHANGED m_nbReaders

(* Faulty variants of EndRead and EndWrite, used to test the properties.     *)
EndReadNotifyWhenFull(t) ==
    /\ pc[t] = "reading"
    /\ m_nbReaders' = m_nbReaders - 1
    /\ \/ /\ Waiting = {} \/ m_nbReaders < m_nbMaxReaders
          /\ pc' = [pc EXCEPT ![t] = "idle"]
       \/ /\ m_nbReaders = m_nbMaxReaders
          /\ \E w \in Waiting :
                pc' = [pc EXCEPT ![t] = "idle", ![w] = WokenState(pc[w])]
    /\ UNCHANGED m_bHasWriter

EndWriteAsReader(t) ==
    /\ pc[t] = "writing"
    /\ m_bHasWriter' = FALSE
    /\ m_nbReaders' = m_nbReaders - 1
    /\ pc' = [pc EXCEPT ![t] = "idle"]

EndWriteWithoutNotify(t) ==
    /\ pc[t] = "writing"
    /\ m_bHasWriter' = FALSE
    /\ pc' = [pc EXCEPT ![t] = "idle"]
    /\ UNCHANGED m_nbReaders

(* EndRead wakes one waiter, whichever the condition variable picks.         *)
EndRead(t) == /\ pc[t] = "reading"
              /\ m_nbReaders' = m_nbReaders - 1
              /\ \/ /\ Waiting = {}
                    /\ pc' = [pc EXCEPT ![t] = "idle"]
                 \/ \E w \in Waiting :
                       pc' = [pc EXCEPT ![t] = "idle", ![w] = WokenState(pc[w])]
              /\ UNCHANGED m_bHasWriter

(* EndWrite wakes them all.                                                  *)
EndWrite(t) == /\ pc[t] = "writing"
               /\ m_bHasWriter' = FALSE
               /\ pc' = [u \in Threads |-> IF u = t THEN "idle"
                                           ELSE IF u \in Waiting THEN WokenState(pc[u])
                                           ELSE pc[u]]
               /\ UNCHANGED m_nbReaders

SpuriousWakeup(t) == /\ t \in Waiting
                     /\ pc' = [pc EXCEPT ![t] = WokenState(pc[t])]
                     /\ UNCHANGED <<m_bHasWriter, m_nbReaders>>

(* What the lock itself does for a thread that has called it.                *)
LockStep(t) == \/ BeginReadWait(t)
               \/ BeginRead(t)
               \/ BeginWriteWait(t)
               \/ BeginWrite(t)

Release(t) == EndRead(t) \/ EndWrite(t)

Next == \E t \in Threads : \/ CallRead(t)
                           \/ CallWrite(t)
                           \/ LockStep(t)
                           \/ Release(t)
                           \/ SpuriousWakeup(t)

Spec == Init /\ [][Next]_vars

-----------------------------------------------------------------------------

TypeOK == /\ m_bHasWriter \in BOOLEAN
          /\ m_nbReaders \in Nat
          /\ pc \in [Threads -> {"idle", "readTest", "readWait", "reading",
                                 "writeTest", "writeWait", "writing"}]

(* The counter that BeginRead and EndRead maintain by hand is exactly the    *)
(* number of threads inside a read section, the flag tells whether one is    *)
(* inside a write section.                                                   *)
Bookkeeping == /\ m_nbReaders = Cardinality(Reading)
               /\ m_bHasWriter <=> Writing # {}

(* A write section excludes every other section of every other thread.       *)
WriterExclusion == /\ Writing # {} => Reading = {}
                   /\ \A t, u \in Writing : t = u

(* No more readers at once than hardware threads.                            *)
ReaderBound == Cardinality(Reading) <= m_nbMaxReaders

(* No lost wakeup.  EndRead notifies a single waiter although readers and    *)
(* writers share the condition variable: the notified one may find itself    *)
(* still blocked.  Even so nobody sleeps while the lock is free and no       *)
(* thread is on its way to the loop test.                                    *)
NoLostWakeup == m_nbMaxReaders > 0 =>
                  (Waiting # {} => Reading \cup Writing \cup Testing # {})

(* The lock implements the abstract reader/writer lock: what the callers of  *)
(* BeginRead ... EndWrite see is sections that open and close in one step,   *)
(* never two incompatible ones at a time.                                    *)
ReaderGroups == {S \in SUBSET Threads : Cardinality(S) <= m_nbMaxReaders}
Abstract == INSTANCE SharedLock WITH readers <- Reading, writers <- Writing
ImplementsSharedLock == Abstract!Spec
=============================================================================
