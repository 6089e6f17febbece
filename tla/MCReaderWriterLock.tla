-------------------------- MODULE MCReaderWriterLock --------------------------
(***************************************************************************)
(* The workload under which every call to the lock returns: each thread     *)
(* makes at most MaxCalls calls.                                            *)
(* Without that bound the lock may starve a writer, since nothing in        *)
(* BeginRead makes a new reader wait for a waiting writer.                  *)
(***************************************************************************)
EXTENDS ReaderWriterLock

CONSTANT MaxCalls

VARIABLE calls   \* calls each thread may still make

mcVars == <<m_bHasWriter, m_nbReaders, pc, calls>>

MCInit == Init /\ calls = [t \in Threads |-> MaxCalls]

Call(t) == /\ calls[t] > 0
           /\ CallRead(t) \/ CallWrite(t)
           /\ calls' = [calls EXCEPT ![t] = @ - 1]

Run(t)   == LockStep(t) /\ UNCHANGED calls
Leave(t) == Release(t) /\ UNCHANGED calls
Wake(t)  == SpuriousWakeup(t) /\ UNCHANGED calls

MCNext == \E t \in Threads : Call(t) \/ Run(t) \/ Leave(t) \/ Wake(t)

(* A thread on its way to the loop test gets the mutex in the end (the body  *)
(* of the four functions is short), and a section that was opened is closed. *)
MCFairness == \A t \in Threads : WF_mcVars(Run(t)) /\ WF_mcVars(Leave(t))

MCSpec == MCInit /\ [][MCNext]_mcVars /\ MCFairness

(* Every call to BeginRead or BeginWrite is served, and its section closed,  *)
(* although EndRead wakes a single one of the readers and writers that share *)
(* the condition variable.                                                   *)
EveryCallServed == \A t \in Threads : pc[t] # "idle" ~> pc[t] = "idle"
=============================================================================
