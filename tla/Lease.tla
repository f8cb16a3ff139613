-------------------------------- MODULE Lease --------------------------------
(***************************************************************************)
(* Leader election over a shared lease file (src/internal/lease/lease.go). *)
(* There is no compare-and-swap: a candidate overwrites the file, waits,   *)
(* and reads it back; a leader rewrites it at every renewal without        *)
(* looking at who holds it.  What keeps two instances from leading at once *)
(* is time alone, so time is part of the model: Tick advances it, and no   *)
(* deadline of a step may be overrun.                                      *)
(*                                                                         *)
(* Ages are counted up to LeaseTimeout: older is as good as expired.       *)
(* A standby may look at the file at any time, so PollInterval is left     *)
(* out.  A rename is atomic, so the file always parses.                    *)
(***************************************************************************)
EXTENDS Naturals, FiniteSets

CONSTANTS
  Instances,       \* holder ids
  NoOne,           \* holder of a file that does not exist
  LeaseTimeout,    \* lease_timeout
  RenewInterval,   \* lease_renew_interval
  VerifyMin,       \* least time from the write to the read back: 50 + 200 ms
  VerifyMax,       \* most time from the write to the read back: 200 + 200 ms
  IODelay,         \* most time between a read, or a tick, and the write it leads to
  ClockSkew,       \* how far two hosts' clocks may be apart
  MaxMissed,       \* consecutive renewals that may fail
  MaxFaults        \* bound: crashes, returns of onLeader, failed I/O

ASSUME LeaseAssumption ==
  /\ NoOne \notin Instances
  /\ LeaseTimeout \in Nat /\ RenewInterval \in Nat
  /\ VerifyMin \in Nat /\ VerifyMax \in Nat /\ VerifyMin <= VerifyMax
  /\ IODelay \in Nat /\ IODelay <= RenewInterval /\ ClockSkew \in Nat
  /\ MaxMissed \in Nat /\ MaxFaults \in Nat

VARIABLES
  lease,     \* the file: holder, whose acquired_at it carries, age of renewed_at
  pc,        \* where each instance stands
  elapsed,   \* time since it got there, or since the ticker last fired
  running,   \* onLeader is running
  copy,      \* the acquired_at that renew has read
  missed,    \* consecutive failed renewals
  faults     \* number of faults so far

vars == <<lease, pc, elapsed, running, copy, missed, faults>>

Holders == Instances \cup {NoOne}

NoLease == [holder |-> NoOne, acquired |-> NoOne, age |-> 0]

(***************************************************************************)
(*   down     the process does not run                                     *)
(*   standby  waitUntilCandidate                                           *)
(*   write    tryAcquire has read the clock and is to write the file       *)
(*   verify   tryAcquire has written and sleeps before it reads back       *)
(*   leader   runAsLeader, between two renewals                            *)
(*   renew    renew has read the file and is to write it                   *)
(***************************************************************************)
Deadline == [write |-> IODelay, verify |-> VerifyMax,
             leader |-> RenewInterval, renew |-> IODelay]

PC == {"down", "standby"} \cup DOMAIN Deadline

Init ==
  /\ lease \in {NoLease} \cup
       {[holder |-> i, acquired |-> i, age |-> a] :
          i \in Instances, a \in 0 .. LeaseTimeout}
  /\ pc = [i \in Instances |-> "standby"]
  /\ elapsed = [i \in Instances |-> 0]
  /\ running = [i \in Instances |-> FALSE]
  /\ copy = [i \in Instances |-> NoOne]
  /\ missed = [i \in Instances |-> 0]
  /\ faults = 0

Fault == faults < MaxFaults /\ faults' = faults + 1

Goto(i, to) == /\ pc' = [pc EXCEPT ![i] = to]
               /\ elapsed' = [elapsed EXCEPT ![i] = 0]

Older(age, d) == IF age + d < LeaseTimeout THEN age + d ELSE LeaseTimeout

\* Time passes, unless somebody is at a deadline.
Tick ==
  /\ \A i \in Instances :
       pc[i] \in DOMAIN Deadline => elapsed[i] < Deadline[pc[i]]
  /\ elapsed' = [i \in Instances |->
                   IF pc[i] \in DOMAIN Deadline THEN elapsed[i] + 1 ELSE 0]
  /\ lease' = IF lease.holder = NoOne THEN lease
              ELSE [lease EXCEPT !.age = Older(@, 1)]
  /\ UNCHANGED <<pc, running, copy, missed, faults>>

(***************************************************************************)
(* Standby.                                                                *)
(***************************************************************************)
\* Seeded fault: a file that does not exist is an unreadable file.
ExpiredOnly(l) == l.holder # NoOne /\ l.age + ClockSkew >= LeaseTimeout

\* Seeded fault: the age is not looked at.
AnyLease(l) == TRUE

\* The file does not exist, or is too old by the clock of some host.
Stale(l) == l.holder = NoOne \/ l.age + ClockSkew >= LeaseTimeout

BecomeCandidate(i) ==
  /\ pc[i] = "standby"
  /\ Stale(lease)
  /\ Goto(i, "write")
  /\ UNCHANGED <<lease, running, copy, missed, faults>>

(***************************************************************************)
(* tryAcquire.                                                             *)
(***************************************************************************)
\* Seeded fault: acquired_at is inherited from the previous holder.
AcquireInherited(i) ==
  /\ pc[i] = "write"
  /\ lease' = [holder |-> i,
               acquired |-> IF lease.holder = NoOne THEN i ELSE lease.acquired,
               age |-> Older(0, elapsed[i])]
  /\ Goto(i, "verify")
  /\ UNCHANGED <<running, copy, missed, faults>>

\* renewed_at is the time from before the write.
Acquire(i) ==
  /\ pc[i] = "write"
  /\ lease' = [holder |-> i, acquired |-> i, age |-> Older(0, elapsed[i])]
  /\ Goto(i, "verify")
  /\ UNCHANGED <<running, copy, missed, faults>>

\* Seeded fault: the file is read back without any delay.
VerifyAtOnce(i) ==
  /\ pc[i] = "verify"
  /\ running' = [running EXCEPT ![i] = lease.holder = i]
  /\ Goto(i, IF lease.holder = i THEN "leader" ELSE "standby")
  /\ UNCHANGED <<lease, copy, missed, faults>>

Verify(i) ==
  /\ pc[i] = "verify" /\ elapsed[i] >= VerifyMin
  /\ running' = [running EXCEPT ![i] = lease.holder = i]
  /\ Goto(i, IF lease.holder = i THEN "leader" ELSE "standby")
  /\ UNCHANGED <<lease, copy, missed, faults>>

\* The write, or the read back, fails.
AcquireFails(i) ==
  /\ pc[i] = "write" \/ (pc[i] = "verify" /\ elapsed[i] >= VerifyMin)
  /\ Fault
  /\ Goto(i, "standby")
  /\ UNCHANGED <<lease, running, copy, missed>>

(***************************************************************************)
(* runAsLeader.                                                            *)
(***************************************************************************)
\* The ticker fires.  If the file cannot be read, or is not there, renew
\* falls back on its own acquired_at.
RenewRead(i) ==
  /\ pc[i] = "leader" /\ elapsed[i] = RenewInterval
  /\ Goto(i, "renew")
  /\ \E acquired \in {lease.acquired, i} \ {NoOne} :
       copy' = [copy EXCEPT ![i] = acquired]
  /\ UNCHANGED <<lease, running, missed, faults>>

\* Where the renewing goroutine goes next: it waits for the next tick, or, if
\* onLeader has returned, it was the last thing runAsLeader waited for.
RenewalOver(i) ==
  /\ copy' = [copy EXCEPT ![i] = NoOne]
  /\ IF running[i] THEN pc' = [pc EXCEPT ![i] = "leader"] /\ UNCHANGED elapsed
                   ELSE Goto(i, "standby")

\* The file is overwritten whoever holds it.
RenewWrite(i) ==
  /\ pc[i] = "renew"
  /\ lease' = [holder |-> i, acquired |-> copy[i], age |-> Older(0, elapsed[i])]
  /\ missed' = [missed EXCEPT ![i] = 0]
  /\ RenewalOver(i)
  /\ UNCHANGED <<running, faults>>

\* The write fails; the instance goes on as leader.
RenewFails(i) ==
  /\ pc[i] = "renew" /\ missed[i] < MaxMissed
  /\ Fault
  /\ missed' = [missed EXCEPT ![i] = IF running[i] THEN @ + 1 ELSE 0]
  /\ RenewalOver(i)
  /\ UNCHANGED <<lease, running>>

\* onLeader returns by itself (the store does not open, or -once); the file
\* stays as it is, and a renewal that has begun is finished.
OnLeaderReturns(i) ==
  /\ running[i]
  /\ Fault
  /\ running' = [running EXCEPT ![i] = FALSE]
  /\ IF pc[i] = "leader"
     THEN Goto(i, "standby") /\ missed' = [missed EXCEPT ![i] = 0]
     ELSE UNCHANGED <<pc, elapsed, missed>>
  /\ UNCHANGED <<lease, copy>>

\* The process is killed, or stops for a signal: the lease is not released.
Crash(i) ==
  /\ pc[i] # "down"
  /\ Fault
  /\ Goto(i, "down")
  /\ running' = [running EXCEPT ![i] = FALSE]
  /\ copy' = [copy EXCEPT ![i] = NoOne]
  /\ missed' = [missed EXCEPT ![i] = 0]
  /\ UNCHANGED lease

Start(i) ==
  /\ pc[i] = "down"
  /\ Goto(i, "standby")
  /\ UNCHANGED <<lease, running, copy, missed, faults>>

Run(i) == \/ BecomeCandidate(i) \/ Acquire(i) \/ Verify(i)
          \/ RenewRead(i) \/ RenewWrite(i)

Next == \/ Tick
        \/ \E i \in Instances :
             \/ Run(i) \/ AcquireFails(i) \/ RenewFails(i)
             \/ OnLeaderReturns(i) \/ Crash(i) \/ Start(i)

Spec == Init /\ [][Next]_vars

\* Time passes, and a process that runs gets on; none has to be restarted.
FairSpec == Spec /\ WF_vars(Tick) /\ \A i \in Instances : WF_vars(Run(i))
-----------------------------------------------------------------------------
(***************************************************************************)
(* Properties.                                                             *)
(***************************************************************************)
\* Every variable stays in its range, deadlines included; a file always has
\* an acquired_at.
TypeOK ==
  /\ lease \in [holder : Holders, acquired : Holders, age : 0 .. LeaseTimeout]
  /\ lease.holder = NoOne <=> lease.acquired = NoOne
  /\ pc \in [Instances -> PC]
  /\ elapsed \in [Instances -> Nat]
  /\ \A i \in Instances : pc[i] \in DOMAIN Deadline => elapsed[i] <= Deadline[pc[i]]
  /\ running \in [Instances -> BOOLEAN]
  /\ copy \in [Instances -> Holders]
  /\ missed \in [Instances -> 0 .. MaxMissed]
  /\ faults \in 0 .. MaxFaults

\* When the timing is sound: the write of a candidate comes before any other
\* candidate can have read its own back, and a lease outlives the longest
\* time between two successful renewals.
SoundTiming ==
  /\ IODelay < VerifyMin
  /\ VerifyMax + 2 * IODelay + (MaxMissed + 1) * RenewInterval + ClockSkew
       < LeaseTimeout

Leads(i) == pc[i] \in {"leader", "renew"}

\* No two instances lead at once (write-then-verify in tryAcquire and the
\* renewals of runAsLeader), whatever crashes, returns or fails.
AtMostOneLeader == \A i, j \in Instances : Leads(i) /\ Leads(j) => i = j

\* acquired_at of a leader's file is that of the leader itself, never one it
\* took over (the comments of tryAcquire and renew).
AcquiredAtIsLeaders ==
  \A i \in Instances : Leads(i) => lease.holder = i /\ lease.acquired = i

\* The lease of a leader is overwritten by nobody else.
NotStolen == \A i \in Instances : Leads(i) /\ Leads(i)' => lease'.holder = i

ActiveLeaseNotStolen == [][NotStolen]_vars

\* Whenever an instance runs, some instance leads sooner or later, or it
\* stops running itself: an expired or missing lease is taken over.
EventuallyLed ==
  \A i \in Instances :
    (pc[i] # "down") ~> (pc[i] = "down" \/ \E j \in Instances : Leads(j))

\* Two leaders do not stay: the comment of renew says that one of them finds
\* that it is not the holder any more and leaves.
SplitBrainEnds ==
  \A i, j \in Instances :
    i # j /\ running[i] /\ running[j] ~> ~(running[i] /\ running[j])

(***************************************************************************)
(* Why: the inductive invariant.                                           *)
(***************************************************************************)
\* A leader holds the file, and the file is young for the time it has led.
HoldsYoungFile(i) ==
  /\ pc[i] = "leader" =>
       lease.age <= elapsed[i] + VerifyMax + IODelay + missed[i] * RenewInterval
  /\ pc[i] = "renew" =>
       lease.age <= elapsed[i] + RenewInterval + VerifyMax + IODelay
                      + missed[i] * RenewInterval

\* The winner so far wrote the file when it came to verify it.
WroteRecently(i) ==
  pc[i] = "verify" /\ lease.holder = i =>
    lease.acquired = i /\ lease.age <= elapsed[i] + IODelay

\* Another candidate that is still to write decided before that.
DecidedBefore(i, j) ==
  /\ pc[i] = "verify" /\ lease.holder = i /\ pc[j] = "write" =>
       elapsed[j] >= elapsed[i]
  /\ Leads(i) => pc[j] # "write"

LeaseInv ==
  /\ TypeOK
  /\ AcquiredAtIsLeaders
  /\ \A i \in Instances :
       /\ HoldsYoungFile(i) /\ WroteRecently(i)
       /\ pc[i] = "renew" => copy[i] = i
       /\ running[i] => Leads(i)
       /\ \A j \in Instances : DecidedBefore(i, j)
=============================================================================
