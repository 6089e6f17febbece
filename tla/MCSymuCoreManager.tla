--------------------------- MODULE MCSymuCoreManager ---------------------------
(***************************************************************************)
(* The workload under which every call to the path manager returns: the     *)
(* simulation and the clients make a bounded number of calls.  m_Lock does   *)
(* not make new readers wait for a waiting writer, so an endless stream of   *)
(* path computations can keep a rebuild waiting for ever.                    *)
(***************************************************************************)
EXTENDS SymuCoreManager

CONSTANTS FlowCalls, MaxCalls   \* bounds on the calls of the simulation and of a client

VARIABLE calls   \* calls each thread may still make

mcVars == <<vars, calls>>

MCInit == Init /\ calls = [t \in Threads |-> IF t = Flow THEN FlowCalls ELSE MaxCalls]

MCCall(t) == /\ calls[t] > 0
             /\ Call(t)
             /\ calls' = [calls EXCEPT ![t] = @ - 1]

MCContinue(t) == Continue(t) /\ UNCHANGED calls

MCNext == \E t \in Threads : MCCall(t) \/ MCContinue(t)

(* A running thread keeps running, and a lock it waits for is given to it    *)
(* once it stays free.                                                       *)
MCSpec == MCInit /\ [][MCNext]_mcVars /\ \A t \in Threads : WF_mcVars(MCContinue(t))

(* Every cost refresh, path and cost computation returns, with rebuilds and  *)
(* cost computations that hold m_Mutex while they wait for m_Lock, unless a  *)
(* rebuild throws: its write section is never closed, and the calls that     *)
(* wait for m_Lock, or for the mutex of one that does, wait for ever.        *)
RebuildThrew == \E t \in Threads : At(t, "thrown")
EveryCallReturns == \A t \in Threads : pc[t] # "idle" ~> (pc[t] = "idle" \/ RebuildThrew)
=============================================================================
