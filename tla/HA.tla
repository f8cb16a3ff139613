--------------------------------- MODULE HA ---------------------------------
(***************************************************************************)
(* HA mode as a whole (main.go, lease.go, watcher.go): instances compete   *)
(* for the lease (module Lease), and onLeader runs the watcher (module     *)
(* SessionSync) on one database and one output root.  Time goes on while   *)
(* the watcher works.  Nothing tells a watcher that its lease is lost:     *)
(* only a signal, or its own return, ends it.                              *)
(***************************************************************************)
EXTENDS SessionSync

CONSTANTS
  NoOne, LeaseTimeout, RenewInterval, VerifyMin, VerifyMax,
  IODelay, ClockSkew, MaxMissed,  \* see module Lease
  MaxLeaseFaults                  \* bound: crashes, returns, failed lease I/O

VARIABLES lease, pc, elapsed, running, copy, missed,  \* see module Lease
          leaseFaults                                 \* its faults

leaseVars == <<lease, pc, elapsed, running, copy, missed, leaseFaults>>
haVars == <<vars, leaseVars>>

L == INSTANCE Lease WITH faults <- leaseFaults, MaxFaults <- MaxLeaseFaults

ASSUME HAAssumption == L!LeaseAssumption

HAInit == Init /\ L!Init

Server == /\ \E s \in Sessions : NewMessage(s)
          /\ UNCHANGED leaseVars

\* lease.Run without its callback, and a start of the process.
Elect(i) == /\ \/ L!Run(i) \/ L!AcquireFails(i)
               \/ L!RenewFails(i) \/ L!Start(i)
            /\ UNCHANGED vars

Tick == L!Tick /\ UNCHANGED vars

\* Seeded fault: the watcher runs on every instance.
PollEverywhere(i) == ListSessions(i) /\ UNCHANGED leaseVars

\* runWatcher, inside onLeader: a round begins.
Poll(i) == /\ running[i]
           /\ ListSessions(i)
           /\ UNCHANGED leaseVars

\* The round goes on, as long as the process does.
Work(j) == JobStep(j) /\ UNCHANGED leaseVars

WorkFails(j) == /\ FlushHead(j) \/ WriteFails(j) \/ CallFails(j)
                /\ UNCHANGED leaseVars

\* onLeader returns after its round, or before its first.
OnLeaderReturns(i) == /\ RoundOver(i)
                      /\ L!OnLeaderReturns(i)
                      /\ UNCHANGED vars

\* The process is killed, or stops for a signal, with the round it is in.
Crash(i) == /\ L!Crash(i)
            /\ IF RoundOver(i) THEN UNCHANGED vars ELSE Restart(i)

HANext == \/ Server \/ Tick
          \/ \E i \in Instances : \/ Elect(i) \/ Poll(i)
                                  \/ OnLeaderReturns(i) \/ Crash(i)
          \/ \E j \in Jobs : Work(j) \/ WorkFails(j)

HASpec == HAInit /\ [][HANext]_haVars

\* As in Lease and SessionSync: time passes, and who runs gets on.
HAFairSpec ==
  /\ HASpec
  /\ WF_haVars(Tick)
  /\ \A i \in Instances :
       WF_haVars(L!Run(i) /\ UNCHANGED vars) /\ WF_haVars(Poll(i))
  /\ \A j \in Jobs : WF_haVars(Work(j))
-----------------------------------------------------------------------------
(***************************************************************************)
(* Properties.                                                             *)
(***************************************************************************)
\* Only a leader's process works on a session: the callback has waited for
\* its workers before leadership is given up (main.go, SyncOnce).
WorkNeedsLeader == \A j \in Jobs : job[j].pc # "idle" => running[j[1]]

\* Every message of a session without UpdatedAt is written in the end, by
\* whichever instance leads then, unless no instance is left running.
WrittenAfterFailover ==
  \A s \in Sessions \ Clocked : \A k \in Msgs :
    (total[s] >= k) ~> \/ messages[s][k] = "written" \/ s \in warned
                       \/ \A i \in Instances : pc[i] = "down"

HAInv == WorkNeedsLeader /\ L!LeaseInv
=============================================================================
