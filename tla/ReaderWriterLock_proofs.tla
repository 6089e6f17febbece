----------------------- MODULE ReaderWriterLock_proofs -----------------------
(***************************************************************************)
(* Proofs about ReaderWriterLock for any finite set of threads and any      *)
(* bound on the readers.                                                    *)
(***************************************************************************)
EXTENDS ReaderWriterLock, FiniteSetTheorems, TLAPS

(* The inductive invariant.  WriterExclusion is not inductive alone: the     *)
(* loop conditions test the counter and the flag, so it needs Bookkeeping to *)
(* turn them into statements about the sections that are open.               *)
IInv == /\ TypeOK
        /\ Bookkeeping
        /\ WriterExclusion
        /\ ReaderBound
        /\ NoLostWakeup

(* The sections are finite, and entering or leaving one changes the number   *)
(* of its threads by one.                                                    *)
LEMMA FiniteSections ==
  ASSUME NEW S \in SUBSET Threads
  PROVE  /\ IsFiniteSet(S)
         /\ Cardinality(S) \in Nat
         /\ Cardinality(S) = 0 <=> S = {}
         /\ \A t \in Threads \ S : Cardinality(S \cup {t}) = Cardinality(S) + 1
         /\ \A t \in S : Cardinality(S \ {t}) = Cardinality(S) - 1
<1>1. IsFiniteSet(S)
  BY ThreadsAssumption, FS_Subset
<1> QED
  BY <1>1, FS_CardinalityType, FS_EmptySet, FS_AddElement, FS_RemoveElement

(* Every step keeps the types.                                             *)
LEMMA TypeCorrectStep == TypeOK /\ Bookkeeping /\ [Next]_vars => TypeOK'
<1> SUFFICES ASSUME TypeOK, Bookkeeping, [Next]_vars
             PROVE  TypeOK'
  OBVIOUS
<1> USE DEF TypeOK, At, Reading, Writing, Waiting, WokenState
<1>1. ASSUME NEW t \in Threads, CallRead(t) PROVE TypeOK'
  BY <1>1 DEF CallRead
<1>2. ASSUME NEW t \in Threads, CallWrite(t) PROVE TypeOK'
  BY <1>2 DEF CallWrite
<1>3. ASSUME NEW t \in Threads, BeginReadWait(t) PROVE TypeOK'
  BY <1>3 DEF BeginReadWait
<1>4. ASSUME NEW t \in Threads, BeginRead(t) PROVE TypeOK'
  BY <1>4 DEF BeginRead
<1>5. ASSUME NEW t \in Threads, BeginWriteWait(t) PROVE TypeOK'
  BY <1>5 DEF BeginWriteWait
<1>6. ASSUME NEW t \in Threads, BeginWrite(t) PROVE TypeOK'
  BY <1>6 DEF BeginWrite
<1>7. ASSUME NEW t \in Threads, EndRead(t) PROVE TypeOK'
  <2>1. m_nbReaders > 0
    BY <1>7, FiniteSections DEF Bookkeeping, EndRead
  <2>2. pc' \in [Threads -> {"idle", "readTest", "readWait", "reading",
                             "writeTest", "writeWait", "writing"}]
    BY <1>7 DEF EndRead
  <2> QED
    BY <1>7, <2>1, <2>2 DEF EndRead
<1>8. ASSUME NEW t \in Threads, EndWrite(t) PROVE TypeOK'
  BY <1>8 DEF EndWrite
<1>9. ASSUME NEW t \in Threads, SpuriousWakeup(t) PROVE TypeOK'
  BY <1>9 DEF SpuriousWakeup
<1>10. CASE UNCHANGED vars
  BY <1>10 DEF vars
<1> QED
  BY <1>1, <1>2, <1>3, <1>4, <1>5, <1>6, <1>7, <1>8, <1>9, <1>10
     DEF Next, LockStep, Release

(* How each action moves its thread between the sections.  Every later step  *)
(* reasons on these sets and no longer on pc.                                *)
LEMMA SectionsStep ==
  ASSUME TypeOK, NEW t \in Threads
  PROVE  /\ BeginRead(t) => /\ t \notin Reading
                            /\ Reading' = Reading \cup {t}
                            /\ Writing' = Writing
                            /\ Waiting' = Waiting
         /\ BeginWrite(t) => /\ t \notin Writing
                             /\ Writing' = Writing \cup {t}
                             /\ Reading' = Reading
                             /\ Waiting' = Waiting
         /\ EndRead(t) => /\ t \in Reading
                          /\ Reading' = Reading \ {t}
                          /\ Writing' = Writing
         /\ EndWrite(t) => /\ t \in Writing
                           /\ Writing' = Writing \ {t}
                           /\ Reading' = Reading
                           /\ Waiting' = {}
         /\ CallRead(t) \/ CallWrite(t) \/ BeginReadWait(t)
              \/ BeginWriteWait(t) \/ SpuriousWakeup(t)
              => Reading' = Reading /\ Writing' = Writing
<1> USE DEF TypeOK, At, Reading, Writing, Waiting
<1>1. BeginRead(t) => /\ t \notin Reading
                      /\ Reading' = Reading \cup {t}
                      /\ Writing' = Writing
                      /\ Waiting' = Waiting
  BY DEF BeginRead
<1>2. BeginWrite(t) => /\ t \notin Writing
                       /\ Writing' = Writing \cup {t}
                       /\ Reading' = Reading
                       /\ Waiting' = Waiting
  BY DEF BeginWrite
<1>3. EndRead(t) => /\ t \in Reading
                    /\ Reading' = Reading \ {t}
                    /\ Writing' = Writing
  BY DEF EndRead, WokenState
<1>4. EndWrite(t) => /\ t \in Writing
                     /\ Writing' = Writing \ {t}
                     /\ Reading' = Reading
                     /\ Waiting' = {}
  BY DEF EndWrite, WokenState
<1>5. CallRead(t) \/ CallWrite(t) \/ BeginReadWait(t)
        \/ BeginWriteWait(t) \/ SpuriousWakeup(t)
        => Reading' = Reading /\ Writing' = Writing
  BY DEF CallRead, CallWrite, BeginReadWait, BeginWriteWait, SpuriousWakeup, WokenState
<1> QED
  BY <1>1, <1>2, <1>3, <1>4, <1>5

(* The counter, the flag and the bound.                                      *)
LEMMA SectionsInvariantStep ==
  IInv /\ [Next]_vars => (Bookkeeping /\ WriterExclusion /\ ReaderBound)'
<1> SUFFICES ASSUME IInv, [Next]_vars
             PROVE  (Bookkeeping /\ WriterExclusion /\ ReaderBound)'
  OBVIOUS
<1> DEFINE Goal == (Bookkeeping /\ WriterExclusion /\ ReaderBound)'
<1> USE DEF IInv, Bookkeeping, WriterExclusion, ReaderBound
<1>0. /\ Reading \in SUBSET Threads
      /\ Writing \in SUBSET Threads
      /\ m_bHasWriter \in BOOLEAN
      /\ m_nbReaders \in Nat
  BY DEF TypeOK, Reading, Writing, At
<1>1. ASSUME NEW t \in Threads, BeginRead(t) PROVE Goal
  <2>1. /\ Reading' = Reading \cup {t}
        /\ Writing' = Writing
        /\ t \notin Reading
    BY <1>1, SectionsStep
  <2>2. Writing = {} /\ m_nbReaders # m_nbMaxReaders
    BY <1>1 DEF BeginRead, ReadBlocked
  <2>3. Cardinality(Reading') = m_nbReaders + 1
    BY <1>0, <2>1, FiniteSections
  <2> QED
    BY <1>0, <1>1, <2>1, <2>2, <2>3, MaxReadersAssumption DEF BeginRead
<1>2. ASSUME NEW t \in Threads, BeginWrite(t) PROVE Goal
  <2>1. /\ Writing' = Writing \cup {t}
        /\ Reading' = Reading
    BY <1>2, SectionsStep
  <2>2. Writing = {} /\ Reading = {}
    BY <1>0, <1>2, FiniteSections DEF BeginWrite, WriteBlocked
  <2> QED
    BY <1>2, <2>1, <2>2 DEF BeginWrite
<1>3. ASSUME NEW t \in Threads, EndRead(t) PROVE Goal
  <2>1. /\ t \in Reading
        /\ Reading' = Reading \ {t}
        /\ Writing' = Writing
    BY <1>3, SectionsStep
  <2>2. Cardinality(Reading') = m_nbReaders - 1
    BY <1>0, <2>1, FiniteSections
  <2> QED
    BY <1>0, <1>3, <2>1, <2>2, MaxReadersAssumption DEF EndRead
<1>4. ASSUME NEW t \in Threads, EndWrite(t) PROVE Goal
  <2>1. /\ t \in Writing
        /\ Writing' = Writing \ {t}
        /\ Reading' = Reading
    BY <1>4, SectionsStep
  <2>2. Writing' = {}
    BY <2>1
  <2> QED
    BY <1>4, <2>1, <2>2 DEF EndWrite
<1>5. ASSUME NEW t \in Threads,
             CallRead(t) \/ CallWrite(t) \/ BeginReadWait(t)
               \/ BeginWriteWait(t) \/ SpuriousWakeup(t)
      PROVE  Goal
  <2>1. Reading' = Reading /\ Writing' = Writing
    BY <1>5, SectionsStep
  <2>2. m_bHasWriter' = m_bHasWriter /\ m_nbReaders' = m_nbReaders
    BY <1>5 DEF CallRead, CallWrite, BeginReadWait, BeginWriteWait, SpuriousWakeup
  <2> QED
    BY <2>1, <2>2
<1>6. CASE UNCHANGED vars
  BY <1>6 DEF vars, Reading, Writing, At
<1> QED
  BY <1>1, <1>2, <1>3, <1>4, <1>5, <1>6 DEF Next, LockStep, Release

(* Nobody is left sleeping: a thread goes to sleep only while a section is   *)
(* open, and whoever closes the last one wakes a sleeper.                    *)
LEMMA NoLostWakeupStep == IInv /\ [Next]_vars => NoLostWakeup'
<1> SUFFICES ASSUME IInv, [Next]_vars, m_nbMaxReaders > 0, Waiting' # {}
             PROVE  (Reading \cup Writing \cup Testing)' # {}
  BY DEF NoLostWakeup
<1> DEFINE Goal == (Reading \cup Writing \cup Testing)' # {}
<1>0. /\ TypeOK
      /\ Reading \in SUBSET Threads
      /\ m_nbReaders \in Nat
      /\ m_nbReaders = Cardinality(Reading)
  BY DEF IInv, TypeOK, Bookkeeping, Reading, At
<1>1. ASSUME NEW t \in Threads, CallRead(t) \/ CallWrite(t) PROVE Goal
  BY <1>0, <1>1 DEF CallRead, CallWrite, TypeOK, Testing, At
<1>2. ASSUME NEW t \in Threads, BeginReadWait(t) PROVE Goal
  <2>1. Reading # {} \/ Writing # {}
    BY <1>0, <1>2, FiniteSections, MaxReadersAssumption
       DEF IInv, Bookkeeping, BeginReadWait, ReadBlocked
  <2> QED
    BY <1>0, <1>2, <2>1, SectionsStep
<1>3. ASSUME NEW t \in Threads, BeginWriteWait(t) PROVE Goal
  <2>1. Reading # {} \/ Writing # {}
    BY <1>0, <1>3, FiniteSections DEF IInv, Bookkeeping, BeginWriteWait, WriteBlocked
  <2> QED
    BY <1>0, <1>3, <2>1, SectionsStep
<1>4. ASSUME NEW t \in Threads, BeginRead(t) \/ BeginWrite(t) PROVE Goal
  BY <1>0, <1>4, SectionsStep
<1>5. ASSUME NEW t \in Threads, EndRead(t) PROVE Goal
  <2>1. CASE Waiting = {}
    <3>1. Waiting' = {}
      BY <1>0, <1>5, <2>1 DEF EndRead, TypeOK, Waiting, At
    <3> QED
      BY <3>1
  <2>2. ASSUME NEW w \in Waiting,
               pc' = [pc EXCEPT ![t] = "idle", ![w] = WokenState(pc[w])]
        PROVE  Goal
    <3>1. w # t
      BY <1>5 DEF EndRead, Waiting, At
    <3>2. w \in Testing'
      BY <1>0, <2>2, <3>1 DEF TypeOK, Waiting, Testing, At, WokenState
    <3> QED
      BY <3>2
  <2> QED
    BY <1>5, <2>1, <2>2 DEF EndRead
<1>6. ASSUME NEW t \in Threads, EndWrite(t) PROVE Goal
  BY <1>0, <1>6, SectionsStep
<1>7. ASSUME NEW t \in Threads, SpuriousWakeup(t) PROVE Goal
  <2>1. t \in Testing'
    BY <1>0, <1>7 DEF SpuriousWakeup, TypeOK, Waiting, Testing, At, WokenState
  <2> QED
    BY <2>1
<1>8. CASE UNCHANGED vars
  BY <1>8 DEF IInv, NoLostWakeup, vars, Reading, Writing, Testing, Waiting, At
<1> QED
  BY <1>1, <1>2, <1>3, <1>4, <1>5, <1>6, <1>7, <1>8 DEF Next, LockStep, Release

(* The invariant holds at first.                                           *)
LEMMA InitIInv == Init => IInv
<1> SUFFICES ASSUME Init PROVE IInv
  OBVIOUS
<1>1. Reading = {} /\ Writing = {} /\ Waiting = {}
  BY DEF Init, Reading, Writing, Waiting, At
<1>2. Cardinality(Reading) = 0
  BY <1>1, FS_EmptySet
<1>3. TypeOK
  BY DEF Init, TypeOK
<1>4. Bookkeeping /\ ReaderBound
  BY <1>1, <1>2, MaxReadersAssumption DEF Init, Bookkeeping, ReaderBound
<1>5. WriterExclusion /\ NoLostWakeup
  BY <1>1 DEF WriterExclusion, NoLostWakeup
<1> QED
  BY <1>3, <1>4, <1>5 DEF IInv

(* Every step keeps the invariant.                                         *)
LEMMA Inductive == IInv /\ [Next]_vars => IInv'
  BY TypeCorrectStep, SectionsInvariantStep, NoLostWakeupStep DEF IInv

(* The invariant holds in every run.                                       *)
LEMMA AlwaysIInv == Spec => []IInv
  BY InitIInv, Inductive, PTL DEF Spec

(* The variables of the lock keep their types in every run.                  *)
THEOREM TypeCorrect == Spec => []TypeOK
<1>1. IInv => TypeOK
  BY DEF IInv
<1> QED
  BY AlwaysIInv, <1>1, PTL

(* The hand-maintained counter and flag always describe the open sections.   *)
THEOREM CounterAndFlagExact == Spec => []Bookkeeping
<1>1. IInv => Bookkeeping
  BY DEF IInv
<1> QED
  BY AlwaysIInv, <1>1, PTL

(* A section entered by BeginWrite excludes all others, for any number of    *)
(* threads and any hardware_concurrency().                                   *)
THEOREM WritersExclude == Spec => []WriterExclusion
<1>1. IInv => WriterExclusion
  BY DEF IInv
<1> QED
  BY AlwaysIInv, <1>1, PTL

(* BeginRead never admits more readers than hardware_concurrency().          *)
THEOREM ReadersBounded == Spec => []ReaderBound
<1>1. IInv => ReaderBound
  BY DEF IInv
<1> QED
  BY AlwaysIInv, <1>1, PTL

(* EndRead's notify_one and EndWrite's notify_all never leave every thread   *)
(* asleep with the lock free.                                                *)
THEOREM WakeupsNeverLost == Spec => []NoLostWakeup
<1>1. IInv => NoLostWakeup
  BY DEF IInv
<1> QED
  BY AlwaysIInv, <1>1, PTL

(* The lock implements the abstract reader/writer lock: BeginRead, EndRead,  *)
(* BeginWrite and EndWrite map to its actions, every other step stutters.    *)
THEOREM Refinement == Spec => ImplementsSharedLock
<1>1. Init => Abstract!Init
  BY DEF Init, Abstract!Init, Reading, Writing, At
<1>2. IInv /\ [Next]_vars => [Abstract!Next]_(Abstract!lockVars)
  <2> SUFFICES ASSUME IInv, [Next]_vars
               PROVE  [Abstract!Next]_(Abstract!lockVars)
    OBVIOUS
  <2> USE DEF Abstract!Next, Abstract!lockVars
  <2>0. /\ TypeOK
        /\ Reading \in SUBSET Threads
        /\ m_nbReaders \in Nat
        /\ m_nbReaders = Cardinality(Reading)
        /\ m_bHasWriter <=> Writing # {}
        /\ m_nbReaders <= m_nbMaxReaders
    BY DEF IInv, TypeOK, Bookkeeping, ReaderBound, Reading, At
  <2>1. ASSUME NEW t \in Threads, BeginRead(t) PROVE Abstract!BeginRead(t)
    <3>1. /\ t \notin Reading
          /\ Reading' = Reading \cup {t}
          /\ Writing' = Writing
      BY <2>0, <2>1, SectionsStep
    <3>2. Writing = {} /\ m_nbReaders < m_nbMaxReaders
      BY <2>0, <2>1, MaxReadersAssumption DEF BeginRead, ReadBlocked
    <3>3. Reading \cup {t} \in ReaderGroups
      BY <2>0, <3>1, <3>2, FiniteSections, MaxReadersAssumption DEF ReaderGroups
    <3> QED
      BY <3>1, <3>2, <3>3 DEF Abstract!BeginRead
  <2>2. ASSUME NEW t \in Threads, EndRead(t) PROVE Abstract!EndRead(t)
    BY <2>0, <2>2, SectionsStep DEF Abstract!EndRead
  <2>3. ASSUME NEW t \in Threads, BeginWrite(t) PROVE Abstract!BeginWrite(t)
    <3>1. Reading = {} /\ Writing = {}
      BY <2>0, <2>3, FiniteSections DEF BeginWrite, WriteBlocked
    <3> QED
      BY <2>0, <2>3, <3>1, SectionsStep DEF Abstract!BeginWrite
  <2>4. ASSUME NEW t \in Threads, EndWrite(t) PROVE Abstract!EndWrite(t)
    BY <2>0, <2>4, SectionsStep DEF Abstract!EndWrite
  <2>5. ASSUME NEW t \in Threads,
               CallRead(t) \/ CallWrite(t) \/ BeginReadWait(t)
                 \/ BeginWriteWait(t) \/ SpuriousWakeup(t)
        PROVE  UNCHANGED Abstract!lockVars
    BY <2>0, <2>5, SectionsStep
  <2>6. CASE UNCHANGED vars
    BY <2>6 DEF vars, Reading, Writing, At
  <2> QED
    BY <2>1, <2>2, <2>3, <2>4, <2>5, <2>6 DEF Next, LockStep, Release
<1> QED
  BY AlwaysIInv, <1>1, <1>2, PTL DEF Spec, ImplementsSharedLock, Abstract!Spec
=============================================================================
