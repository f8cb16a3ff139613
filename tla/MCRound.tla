------------------------------ MODULE MCRound ------------------------------
(***************************************************************************)
(* What goes on beside and inside syncSession in one process: the          *)
(* goroutines of a round (module Round), the lock of the file a worker     *)
(* writes (PathLocks), and the requests it waits for (HttpSource).  They   *)
(* share no state, so one run checks them side by side: machine says which *)
(* of the three a behaviour is about, and the others stand still.          *)
(***************************************************************************)
EXTENDS Round, PathLocks

CONSTANT Timeout    \* see HttpSource

ASSUME TimeoutAssumption == Timeout \in Nat

VARIABLES machine,
          reqPc, attempt, reqCancelled, timer, elapsed, reqResult

Http == INSTANCE HttpSource
          WITH pc <- reqPc, cancelled <- reqCancelled, result <- reqResult

httpVars == <<reqPc, attempt, reqCancelled, timer, elapsed, reqResult>>
partVars == <<roundVars, vars, httpVars>>

PartsInit == /\ machine \in {"round", "locks", "http"}
             /\ RoundInit /\ Init /\ Http!Init

PartsNext ==
  /\ \/ machine = "round" /\ RoundNext /\ UNCHANGED <<vars, httpVars>>
     \/ machine = "locks" /\ Next /\ UNCHANGED <<roundVars, httpVars>>
     \/ machine = "http" /\ Http!Next /\ UNCHANGED <<roundVars, vars>>
  /\ UNCHANGED machine

\* The fairness of Round and of PathLocks; who stands still owes nothing.
PartsSpec ==
  /\ PartsInit /\ [][PartsNext]_<<machine, partVars>>
  /\ WF_roundVars(Caller) /\ WF_roundVars(DispatcherEnds)
  /\ \A w \in Pool : WF_roundVars(Worker(w))
  /\ \A w \in Workers :
       /\ SF_vars(Lock(w))
       /\ WF_vars(Unlock(w) \/ releaseLock(w) \/ cleanupIdleLocks(w))

\* HttpSource: no call takes longer than its attempts and backoffs may.
TimeIsBounded == Http!TimeIsBounded
=============================================================================
