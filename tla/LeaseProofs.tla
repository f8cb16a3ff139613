----------------------------- MODULE LeaseProofs -----------------------------
(***************************************************************************)
(* With sound timing the lease elects at most one leader, for any number   *)
(* of instances and any values of the delays.                              *)
(***************************************************************************)
EXTENDS Lease, TLAPS

USE LeaseAssumption

-----------------------------------------------------------------------------
(***************************************************************************)
(* Arithmetic and types.                                                   *)
(***************************************************************************)
LEMMA DeadlineIs ==
  /\ DOMAIN Deadline = {"write", "verify", "leader", "renew"}
  /\ Deadline["write"] = IODelay /\ Deadline["verify"] = VerifyMax
  /\ Deadline["leader"] = RenewInterval /\ Deadline["renew"] = IODelay
BY DEF Deadline

LEMMA ProductGrows ==
  ASSUME NEW a \in Nat, NEW b \in Nat, NEW c \in Nat, a <= b
  PROVE  a * c <= b * c /\ a * c \in Nat /\ b * c \in Nat
OBVIOUS

LEMMA ProductStep ==
  ASSUME NEW a \in Nat, NEW c \in Nat
  PROVE  (a + 1) * c = a * c + c /\ a * c \in Nat
OBVIOUS

LEMMA OlderBounds ==
  ASSUME NEW age \in Nat, NEW d \in Nat
  PROVE  Older(age, d) \in 0 .. LeaseTimeout /\ Older(age, d) <= age + d
BY DEF Older

LEMMA TypeFacts ==
  ASSUME TypeOK, NEW i \in Instances
  PROVE  /\ lease.age \in Nat /\ elapsed[i] \in Nat /\ missed[i] \in Nat
         /\ missed[i] <= MaxMissed
         /\ missed[i] * RenewInterval \in Nat
         /\ missed[i] * RenewInterval <= MaxMissed * RenewInterval
         /\ MaxMissed * RenewInterval \in Nat
         /\ pc[i] \in PC
         /\ pc[i] \in {"write", "renew"} => elapsed[i] <= IODelay
         /\ pc[i] = "verify" => elapsed[i] <= VerifyMax
         /\ pc[i] = "leader" => elapsed[i] <= RenewInterval
<1>1. /\ lease.age \in Nat /\ elapsed[i] \in Nat /\ missed[i] \in 0 .. MaxMissed
      /\ pc[i] \in PC
      /\ pc[i] \in DOMAIN Deadline => elapsed[i] <= Deadline[pc[i]]
  BY DEF TypeOK
<1> QED BY <1>1, ProductGrows, DeadlineIs

\* What every action of one instance does to the program counters.
LEMMA GotoEffect ==
  ASSUME TypeOK, NEW i \in Instances, NEW to \in PC, Goto(i, to)
  PROVE  /\ pc' \in [Instances -> PC] /\ elapsed' \in [Instances -> Nat]
         /\ pc'[i] = to /\ elapsed'[i] = 0
         /\ \A j \in Instances : j # i => pc'[j] = pc[j] /\ elapsed'[j] = elapsed[j]
         /\ \A j \in Instances :
              pc'[j] \in DOMAIN Deadline => elapsed'[j] <= Deadline[pc'[j]]
<1>1. /\ pc' \in [Instances -> PC] /\ elapsed' \in [Instances -> Nat]
      /\ pc'[i] = to /\ elapsed'[i] = 0
      /\ \A j \in Instances : j # i => pc'[j] = pc[j] /\ elapsed'[j] = elapsed[j]
  BY DEF TypeOK, Goto
<1>2. \A p \in DOMAIN Deadline : 0 <= Deadline[p]
  BY DeadlineIs
<1> QED BY <1>1, <1>2 DEF TypeOK

-----------------------------------------------------------------------------
(***************************************************************************)
(* A lease that matters is young.                                          *)
(***************************************************************************)
LEMMA LeaderIsYoung ==
  ASSUME SoundTiming, TypeOK, NEW i \in Instances, Leads(i), HoldsYoungFile(i),
         lease.holder = i
  PROVE  ~Stale(lease)
<1> DEFINE mr == missed[i] * RenewInterval
           MR == MaxMissed * RenewInterval
<1>1. mr \in Nat /\ MR \in Nat /\ mr <= MR
  BY TypeFacts
<1>2. (MaxMissed + 1) * RenewInterval = MR + RenewInterval
  OBVIOUS
<1>3. VerifyMax + 2 * IODelay + MR + RenewInterval + ClockSkew < LeaseTimeout
  BY <1>1, <1>2 DEF SoundTiming
<1>4. lease.age <= IODelay + RenewInterval + VerifyMax + IODelay + mr
  <2> HIDE DEF mr
  <2>1. CASE pc[i] = "leader"
    BY <1>1, <2>1, TypeFacts DEF HoldsYoungFile, mr
  <2>2. CASE pc[i] = "renew"
    BY <1>1, <2>2, TypeFacts DEF HoldsYoungFile, mr
  <2> QED BY <2>1, <2>2 DEF Leads
<1> HIDE DEF mr, MR
<1>5. lease.age + ClockSkew < LeaseTimeout
  BY <1>1, <1>3, <1>4, TypeFacts
<1> QED BY <1>5, TypeFacts DEF Stale

LEMMA WinnerIsYoung ==
  ASSUME SoundTiming, TypeOK, NEW i \in Instances, pc[i] = "verify",
         lease.holder = i, WroteRecently(i)
  PROVE  ~Stale(lease)
<1> DEFINE MR == (MaxMissed + 1) * RenewInterval
<1>1. MR \in Nat
  OBVIOUS
<1>2. VerifyMax + 2 * IODelay + MR + ClockSkew < LeaseTimeout
  BY DEF SoundTiming
<1> HIDE DEF MR
<1>3. lease.age + ClockSkew < LeaseTimeout
  BY <1>1, <1>2, TypeFacts DEF WroteRecently
<1> QED BY <1>3, TypeFacts DEF Stale

-----------------------------------------------------------------------------
(***************************************************************************)
(* The invariant, one instance at a time.                                  *)
(***************************************************************************)
Own(i) == /\ HoldsYoungFile(i) /\ WroteRecently(i)
          /\ pc[i] = "renew" => copy[i] = i
          /\ running[i] => Leads(i)
          /\ Leads(i) => lease.holder = i /\ lease.acquired = i
          /\ \A j \in Instances : DecidedBefore(i, j)

LEMMA LeaseInvIs == LeaseInv <=> TypeOK /\ \A i \in Instances : Own(i)
BY DEF LeaseInv, Own, AcquiredAtIsLeaders

LEMMA NextLeaseInv ==
  ASSUME TypeOK', \A i \in Instances : Own(i)'
  PROVE  LeaseInv'
BY DEF LeaseInv, Own, AcquiredAtIsLeaders

\* An instance that neither leads nor verifies has nothing to keep.
LEMMA OwnNothing ==
  ASSUME NEW i \in Instances, pc'[i] \in {"down", "standby", "write"}, ~running'[i]
  PROVE  Own(i)'
BY DEF Own, HoldsYoungFile, WroteRecently, DecidedBefore, Leads

\* All that the step of one instance leaves alone.
Others(i) == \A j \in Instances : j # i =>
               /\ pc'[j] = pc[j] /\ elapsed'[j] = elapsed[j]
               /\ running'[j] = running[j] /\ copy'[j] = copy[j]
               /\ missed'[j] = missed[j]

\* A step that leaves the file alone and does not make a candidate.
LEMMA OthersKeep ==
  ASSUME NEW i \in Instances, Others(i), UNCHANGED lease, pc'[i] # "write",
         NEW j \in Instances, j # i, Own(j)
  PROVE  Own(j)'
<1>1. /\ pc'[j] = pc[j] /\ elapsed'[j] = elapsed[j] /\ running'[j] = running[j]
      /\ copy'[j] = copy[j] /\ missed'[j] = missed[j]
  BY DEF Others
<1>2. \A k \in Instances : DecidedBefore(j, k)'
  <2> SUFFICES ASSUME NEW k \in Instances
               PROVE  DecidedBefore(j, k)'
    OBVIOUS
  <2>1. CASE k = i
    BY <2>1 DEF DecidedBefore
  <2>2. CASE k # i
    BY <1>1, <2>2 DEF Own, DecidedBefore, Others, Leads
  <2> QED BY <2>1, <2>2
<1>3. HoldsYoungFile(j)' /\ WroteRecently(j)'
  BY <1>1 DEF Own, HoldsYoungFile, WroteRecently
<1>4. (pc[j] = "renew" => copy[j] = j)' /\ (running[j] => Leads(j))'
      /\ (Leads(j) => lease.holder = j /\ lease.acquired = j)'
  BY <1>1 DEF Own, Leads
<1> QED BY <1>2, <1>3, <1>4 DEF Own

-----------------------------------------------------------------------------
(***************************************************************************)
(* Time.                                                                   *)
(***************************************************************************)
LEMMA TickStep ==
  ASSUME LeaseInv, Tick
  PROVE  LeaseInv'
<1>1. TypeOK /\ \A i \in Instances : Own(i)
  BY LeaseInvIs
<1> DEFINE Timed(i) == pc[i] \in {"write", "verify", "leader", "renew"}
<1>2. \A i \in Instances :
        /\ elapsed'[i] = IF Timed(i) THEN elapsed[i] + 1 ELSE 0
        /\ elapsed'[i] \in Nat
        /\ Timed(i) => elapsed[i] < Deadline[pc[i]]
  BY <1>1, DeadlineIs, TypeFacts DEF Tick
<1>3. /\ lease'.holder = lease.holder /\ lease'.acquired = lease.acquired
      /\ lease'.age \in 0 .. LeaseTimeout
      /\ lease'.age <= lease.age + 1
      /\ lease' \in [holder : Holders, acquired : Holders, age : 0 .. LeaseTimeout]
  <2>1. lease.age \in Nat /\ lease.age \in 0 .. LeaseTimeout
        /\ lease \in [holder : Holders, acquired : Holders, age : 0 .. LeaseTimeout]
    BY <1>1 DEF TypeOK
  <2>2. CASE lease.holder = NoOne
    BY <2>1, <2>2 DEF Tick
  <2>3. CASE lease.holder # NoOne
    <3>1. lease' = [lease EXCEPT !.age = Older(lease.age, 1)]
      BY <2>3 DEF Tick
    <3> QED BY <2>1, <3>1, OlderBounds
  <2> QED BY <2>2, <2>3
<1>4. UNCHANGED <<pc, running, copy, missed, faults>>
  BY DEF Tick
<1>5. elapsed' \in [Instances -> Nat]
  BY <1>2 DEF Tick
<1>6. \A i \in Instances :
        pc[i] \in DOMAIN Deadline => elapsed'[i] <= Deadline[pc[i]]
  <2> SUFFICES ASSUME NEW i \in Instances, pc[i] \in DOMAIN Deadline
               PROVE  elapsed'[i] <= Deadline[pc[i]]
    OBVIOUS
  <2>1. elapsed[i] < Deadline[pc[i]] /\ elapsed'[i] = elapsed[i] + 1
    BY <1>2, DeadlineIs
  <2>2. elapsed[i] \in Nat /\ Deadline[pc[i]] \in Nat
    BY <1>1, TypeFacts, DeadlineIs
  <2> QED BY <2>1, <2>2
<1>7. TypeOK'
  BY <1>1, <1>3, <1>4, <1>5, <1>6 DEF TypeOK
<1>8. ASSUME NEW i \in Instances PROVE Own(i)'
  <2> DEFINE mr == missed[i] * RenewInterval
  <2>1. mr \in Nat /\ elapsed[i] \in Nat /\ lease.age \in Nat /\ Own(i)
    BY <1>1, TypeFacts
  <2>2. HoldsYoungFile(i)'
    <3>1. /\ pc[i] = "leader" => lease.age <= elapsed[i] + VerifyMax + IODelay + mr
          /\ pc[i] = "renew" => lease.age <= elapsed[i] + RenewInterval
                                               + VerifyMax + IODelay + mr
      BY <2>1 DEF Own, HoldsYoungFile
    <3> HIDE DEF mr
    <3>2. /\ pc[i] = "leader" => lease'.age <= elapsed'[i] + VerifyMax + IODelay + mr
          /\ pc[i] = "renew" => lease'.age <= elapsed'[i] + RenewInterval
                                                + VerifyMax + IODelay + mr
      BY <1>2, <1>3, <2>1, <3>1
    <3> QED BY <1>4, <3>2 DEF HoldsYoungFile, mr
  <2>3. WroteRecently(i)'
    BY <1>2, <1>3, <1>4, <2>1 DEF Own, WroteRecently
  <2>4. \A j \in Instances : DecidedBefore(i, j)'
    BY <1>1, <1>2, <1>3, <1>4, <2>1, TypeFacts DEF Own, DecidedBefore, Leads
  <2>5. (pc[i] = "renew" => copy[i] = i)' /\ (running[i] => Leads(i))'
    BY <1>4, <2>1 DEF Own, Leads
  <2>6. (Leads(i) => lease.holder = i /\ lease.acquired = i)'
    BY <1>3, <1>4, <2>1 DEF Own, Leads
  <2> QED BY <2>2, <2>3, <2>4, <2>5, <2>6 DEF Own
<1> QED BY <1>7, <1>8, NextLeaseInv

-----------------------------------------------------------------------------
(***************************************************************************)
(* Candidates.                                                             *)
(***************************************************************************)
LEMMA BecomeCandidateStep ==
  ASSUME SoundTiming, LeaseInv, NEW i \in Instances, BecomeCandidate(i)
  PROVE  LeaseInv'
<1>1. TypeOK /\ \A j \in Instances : Own(j)
  BY LeaseInvIs
<1>2. "write" \in PC /\ Goto(i, "write") /\ Stale(lease) /\ pc[i] = "standby"
  BY DEF PC, Deadline, BecomeCandidate
<1>3. UNCHANGED <<lease, running, copy, missed, faults>>
  BY DEF BecomeCandidate
<1>4. TypeOK'
  BY <1>1, <1>2, <1>3, GotoEffect DEF TypeOK
<1>5. \A j \in Instances : ~Leads(j) /\ ~(pc[j] = "verify" /\ lease.holder = j)
  BY <1>1, <1>2, LeaderIsYoung, WinnerIsYoung DEF Own
<1>6. ASSUME NEW j \in Instances PROVE Own(j)'
  <2>1. ~running'[j] /\ (j # i => pc'[j] = pc[j]) /\ pc'[i] = "write"
    BY <1>1, <1>2, <1>3, <1>5, GotoEffect DEF Own
  <2>2. pc'[j] \notin {"leader", "renew"} /\ ~(pc'[j] = "verify" /\ lease'.holder = j)
    BY <1>3, <1>5, <2>1 DEF Leads
  <2>3. HoldsYoungFile(j)' /\ WroteRecently(j)'
    BY <2>2 DEF HoldsYoungFile, WroteRecently
  <2>4. \A k \in Instances : DecidedBefore(j, k)'
    BY <2>2 DEF DecidedBefore, Leads
  <2> QED BY <2>1, <2>2, <2>3, <2>4 DEF Own, Leads
<1> QED BY <1>4, <1>6, NextLeaseInv

LEMMA AcquireStep ==
  ASSUME LeaseInv, NEW i \in Instances, Acquire(i)
  PROVE  LeaseInv'
<1>1. TypeOK /\ \A j \in Instances : Own(j)
  BY LeaseInvIs
<1>2. "verify" \in PC /\ Goto(i, "verify") /\ pc[i] = "write"
  BY DEF PC, Deadline, Acquire
<1>3. UNCHANGED <<running, copy, missed, faults>>
  BY DEF Acquire
<1>4. /\ lease' = [holder |-> i, acquired |-> i, age |-> Older(0, elapsed[i])]
      /\ Older(0, elapsed[i]) \in 0 .. LeaseTimeout
      /\ Older(0, elapsed[i]) <= IODelay
  <2>1. elapsed[i] \in Nat /\ elapsed[i] <= IODelay
    BY <1>1, <1>2, TypeFacts
  <2>2. /\ Older(0, elapsed[i]) \in 0 .. LeaseTimeout
        /\ Older(0, elapsed[i]) <= 0 + elapsed[i]
    BY <2>1, OlderBounds
  <2> QED BY <2>1, <2>2 DEF Acquire
<1>5. lease'.holder = i /\ lease'.acquired = i /\ lease'.age <= IODelay
  BY <1>4
<1>6. TypeOK'
  <2>1. lease' \in [holder : Holders, acquired : Holders, age : 0 .. LeaseTimeout]
    BY <1>4 DEF Holders
  <2> QED BY <1>1, <1>2, <1>3, <1>5, <2>1, GotoEffect DEF TypeOK
<1>7. \A j \in Instances : ~Leads(j) /\ ~running[j]
  BY <1>1, <1>2 DEF Own, DecidedBefore
<1>8. /\ pc'[i] = "verify" /\ elapsed'[i] = 0
      /\ \A j \in Instances : elapsed'[j] \in Nat /\ (j # i => pc'[j] = pc[j])
  BY <1>1, <1>2, GotoEffect
<1>9. ASSUME NEW j \in Instances PROVE Own(j)'
  <2>1. pc'[j] \notin {"leader", "renew"} /\ ~running'[j]
    BY <1>3, <1>7, <1>8 DEF Leads
  <2>2. WroteRecently(j)'
    BY <1>5, <1>8 DEF WroteRecently
  <2>3. \A k \in Instances : DecidedBefore(j, k)'
    BY <1>5, <1>8, <2>1 DEF DecidedBefore, Leads
  <2>4. HoldsYoungFile(j)'
    BY <2>1 DEF HoldsYoungFile
  <2> QED BY <2>1, <2>2, <2>3, <2>4 DEF Own, Leads
<1> QED BY <1>6, <1>9, NextLeaseInv

\* Who verifies its own write has no rival left.
LEMMA VerifyStep ==
  ASSUME SoundTiming, LeaseInv, NEW i \in Instances, Verify(i)
  PROVE  LeaseInv'
<1>1. TypeOK /\ \A j \in Instances : Own(j)
  BY LeaseInvIs
<1> DEFINE to == IF lease.holder = i THEN "leader" ELSE "standby"
<1>2. to \in PC /\ Goto(i, to) /\ pc[i] = "verify" /\ elapsed[i] >= VerifyMin
  BY DEF PC, Deadline, Verify
<1>3. UNCHANGED <<lease, copy, missed, faults>>
      /\ running' = [running EXCEPT ![i] = lease.holder = i]
  BY DEF Verify
<1>4. TypeOK'
  <2>1. running' \in [Instances -> BOOLEAN]
    BY <1>1, <1>3 DEF TypeOK
  <2> HIDE DEF to
  <2> QED BY <1>1, <1>2, <1>3, <2>1, GotoEffect DEF TypeOK
<1>5. Others(i) /\ pc'[i] = to /\ elapsed'[i] = 0
  <2> HIDE DEF to
  <2>1. \A j \in Instances : j # i => running'[j] = running[j]
    BY <1>1, <1>3 DEF TypeOK
  <2> QED BY <1>1, <1>2, <1>3, <2>1, GotoEffect DEF Others
<1>6. running'[i] = (lease.holder = i)
  BY <1>1, <1>3 DEF TypeOK
<1>7. Own(i)'
  <2>1. CASE lease.holder # i
    BY <1>5, <1>6, <2>1, OwnNothing
  <2>2. CASE lease.holder = i
    <3>1. pc'[i] = "leader"
      BY <1>5, <2>2
    <3>2. lease.acquired = i /\ lease.age <= VerifyMax + IODelay
      BY <1>1, <1>2, <2>2, TypeFacts DEF Own, WroteRecently
    <3>3. HoldsYoungFile(i)'
      <4> DEFINE mr == missed[i] * RenewInterval
      <4>1. mr \in Nat /\ lease.age \in Nat
        BY <1>1, TypeFacts
      <4> HIDE DEF mr
      <4>2. lease.age <= 0 + VerifyMax + IODelay + mr
        BY <3>2, <4>1
      <4> QED BY <1>3, <1>5, <3>1, <4>2 DEF HoldsYoungFile, mr
    <3>4. \A k \in Instances : pc[k] # "write"
      <4> SUFFICES ASSUME NEW k \in Instances, pc[k] = "write"
                   PROVE  FALSE
        OBVIOUS
      <4>1. elapsed[k] >= elapsed[i] /\ elapsed[k] <= IODelay
        BY <1>1, <1>2, <2>2, TypeFacts DEF Own, DecidedBefore
      <4> QED BY <1>1, <1>2, <4>1, TypeFacts DEF SoundTiming
    <3>5. \A k \in Instances : DecidedBefore(i, k)'
      BY <1>5, <3>1, <3>4 DEF DecidedBefore, Others
    <3>6. WroteRecently(i)' /\ (pc[i] = "renew" => copy[i] = i)' /\ Leads(i)'
      BY <3>1 DEF WroteRecently, Leads
    <3>7. lease'.holder = i /\ lease'.acquired = i
      BY <1>3, <2>2, <3>2
    <3> QED BY <3>3, <3>5, <3>6, <3>7 DEF Own
  <2> QED BY <2>1, <2>2
<1>8. \A j \in Instances : Own(j)'
  <2>1. pc'[i] # "write"
    BY <1>5
  <2> QED BY <1>1, <1>3, <1>5, <1>7, <2>1, OthersKeep
<1> QED BY <1>4, <1>8, NextLeaseInv

-----------------------------------------------------------------------------
(***************************************************************************)
(* The leader.                                                             *)
(***************************************************************************)
LEMMA RenewReadStep ==
  ASSUME LeaseInv, NEW i \in Instances, RenewRead(i)
  PROVE  LeaseInv'
<1>1. TypeOK /\ \A j \in Instances : Own(j)
  BY LeaseInvIs
<1>2. "renew" \in PC /\ Goto(i, "renew") /\ pc[i] = "leader"
      /\ elapsed[i] = RenewInterval
  BY DEF PC, Deadline, RenewRead
<1>3. UNCHANGED <<lease, running, missed, faults>>
  BY DEF RenewRead
<1>4. lease.holder = i /\ lease.acquired = i
  BY <1>1, <1>2 DEF Own, Leads
<1>5. copy' = [copy EXCEPT ![i] = i]
  BY <1>4 DEF RenewRead
<1>6. /\ copy' \in [Instances -> Holders] /\ copy'[i] = i
      /\ \A j \in Instances : j # i => copy'[j] = copy[j]
  BY <1>1, <1>5 DEF TypeOK, Holders
<1>7. TypeOK'
  BY <1>1, <1>2, <1>3, <1>6, GotoEffect DEF TypeOK
<1>8. Others(i) /\ pc'[i] = "renew" /\ elapsed'[i] = 0
  BY <1>1, <1>2, <1>3, <1>6, GotoEffect DEF Others
<1>9. Own(i)'
  <2>1. HoldsYoungFile(i)'
    <3> DEFINE mr == missed[i] * RenewInterval
    <3>1. mr \in Nat /\ lease.age \in Nat
      BY <1>1, TypeFacts
    <3>2. lease.age <= elapsed[i] + VerifyMax + IODelay + mr
      BY <1>1, <1>2 DEF Own, HoldsYoungFile
    <3> HIDE DEF mr
    <3>3. lease.age <= 0 + RenewInterval + VerifyMax + IODelay + mr
      BY <1>2, <3>1, <3>2
    <3> QED BY <1>3, <1>8, <3>3 DEF HoldsYoungFile, mr
  <2>2. \A j \in Instances : DecidedBefore(i, j)'
    BY <1>1, <1>2, <1>8 DEF Own, DecidedBefore, Leads, Others
  <2>3. WroteRecently(i)' /\ Leads(i)'
    BY <1>8 DEF WroteRecently, Leads
  <2> QED BY <1>3, <1>4, <1>6, <2>1, <2>2, <2>3 DEF Own
<1>10. \A j \in Instances : Own(j)'
  <2>1. pc'[i] # "write"
    BY <1>8
  <2> QED BY <1>1, <1>3, <1>8, <1>9, <2>1, OthersKeep
<1> QED BY <1>7, <1>10, NextLeaseInv

\* What ends a renewal, successful or not.
LEMMA RenewalOverEffect ==
  ASSUME LeaseInv, NEW i \in Instances, pc[i] = "renew", RenewalOver(i)
  PROVE  /\ pc' \in [Instances -> PC] /\ elapsed' \in [Instances -> Nat]
         /\ copy' \in [Instances -> Holders]
         /\ running[i] => pc'[i] = "leader" /\ elapsed'[i] = elapsed[i]
         /\ ~running[i] => pc'[i] = "standby"
         /\ \A j \in Instances : j # i =>
              pc'[j] = pc[j] /\ elapsed'[j] = elapsed[j] /\ copy'[j] = copy[j]
         /\ \A j \in Instances :
              pc'[j] \in DOMAIN Deadline => elapsed'[j] <= Deadline[pc'[j]]
<1>1. TypeOK
  BY LeaseInvIs
<1>2. /\ copy' \in [Instances -> Holders]
      /\ \A j \in Instances : j # i => copy'[j] = copy[j]
  BY <1>1 DEF RenewalOver, TypeOK, Holders
<1>3. "leader" \in PC /\ "standby" \in PC
  BY DEF PC, Deadline
<1>4. CASE running[i]
  <2>1. pc' = [pc EXCEPT ![i] = "leader"] /\ UNCHANGED elapsed
    BY <1>4 DEF RenewalOver
  <2>2. /\ pc' \in [Instances -> PC] /\ pc'[i] = "leader"
        /\ \A j \in Instances : j # i => pc'[j] = pc[j]
    BY <1>1, <1>3, <2>1 DEF TypeOK
  <2>3. elapsed[i] <= Deadline["leader"]
    BY <1>1, TypeFacts, DeadlineIs
  <2> QED BY <1>1, <1>2, <1>4, <2>1, <2>2, <2>3 DEF TypeOK
<1>5. CASE ~running[i]
  <2>1. Goto(i, "standby")
    BY <1>5 DEF RenewalOver
  <2> QED BY <1>1, <1>2, <1>3, <1>5, <2>1, GotoEffect
<1> QED BY <1>4, <1>5

LEMMA RenewWriteStep ==
  ASSUME LeaseInv, NEW i \in Instances, RenewWrite(i)
  PROVE  LeaseInv'
<1>1. TypeOK /\ \A j \in Instances : Own(j)
  BY LeaseInvIs
<1>2. pc[i] = "renew" /\ copy[i] = i /\ lease.holder = i
  BY <1>1 DEF RenewWrite, Own, Leads
<1>3. UNCHANGED <<running, faults>> /\ missed' = [missed EXCEPT ![i] = 0]
      /\ RenewalOver(i)
  BY DEF RenewWrite
<1>4. elapsed[i] \in Nat /\ elapsed[i] <= IODelay /\ lease.age \in Nat
  BY <1>1, <1>2, TypeFacts
<1>5. /\ lease' = [holder |-> i, acquired |-> i, age |-> Older(0, elapsed[i])]
      /\ Older(0, elapsed[i]) \in 0 .. LeaseTimeout
      /\ Older(0, elapsed[i]) <= 0 + elapsed[i]
  BY <1>2, <1>4, OlderBounds DEF RenewWrite
<1>6. /\ lease'.holder = i /\ lease'.acquired = i /\ lease'.age <= elapsed[i]
      /\ lease' \in [holder : Holders, acquired : Holders, age : 0 .. LeaseTimeout]
  BY <1>4, <1>5 DEF Holders
<1>7. /\ missed' \in [Instances -> 0 .. MaxMissed] /\ missed'[i] = 0
      /\ \A j \in Instances : j # i => missed'[j] = missed[j]
  BY <1>1, <1>3 DEF TypeOK
<1>8. TypeOK'
  BY <1>1, <1>2, <1>3, <1>6, <1>7, RenewalOverEffect DEF TypeOK
<1>9. \A j \in Instances : j # i => ~Leads(j) /\ pc'[j] = pc[j]
  BY <1>1, <1>2, <1>3, RenewalOverEffect DEF Own
<1>10. \A j \in Instances : pc[j] # "write" /\ pc'[j] # "write"
  <2>1. \A j \in Instances : pc[j] # "write"
    BY <1>1, <1>2 DEF Own, DecidedBefore, Leads
  <2> QED BY <1>2, <1>3, <1>9, <2>1, RenewalOverEffect
<1>11. ASSUME NEW j \in Instances, j # i PROVE Own(j)'
  <2>1. pc'[j] \notin {"leader", "renew"} /\ ~running'[j]
    BY <1>1, <1>3, <1>9, <1>11 DEF Own, Leads
  <2>2. HoldsYoungFile(j)' /\ WroteRecently(j)'
    BY <1>6, <1>11, <2>1 DEF HoldsYoungFile, WroteRecently
  <2>3. \A k \in Instances : DecidedBefore(j, k)'
    BY <1>10 DEF DecidedBefore
  <2> QED BY <2>1, <2>2, <2>3 DEF Own, Leads
<1>12. Own(i)'
  <2>1. CASE ~running[i]
    <3>1. pc'[i] = "standby" /\ ~running'[i]
      BY <1>2, <1>3, <2>1, RenewalOverEffect
    <3> QED BY <3>1, OwnNothing
  <2>2. CASE running[i]
    <3>1. pc'[i] = "leader" /\ elapsed'[i] = elapsed[i]
      BY <1>2, <1>3, <2>2, RenewalOverEffect
    <3>2. HoldsYoungFile(i)'
      <4>1. missed'[i] * RenewInterval = 0
        BY <1>7
      <4>2. lease'.age <= elapsed'[i] + VerifyMax + IODelay + 0
        BY <1>4, <1>6, <3>1
      <4> QED BY <3>1, <4>1, <4>2 DEF HoldsYoungFile
    <3>3. WroteRecently(i)' /\ (pc[i] = "renew" => copy[i] = i)' /\ Leads(i)'
      BY <3>1 DEF WroteRecently, Leads
    <3>4. \A k \in Instances : DecidedBefore(i, k)'
      BY <1>10 DEF DecidedBefore
    <3> QED BY <1>6, <3>2, <3>3, <3>4 DEF Own
  <2> QED BY <2>1, <2>2
<1> QED BY <1>8, <1>11, <1>12, NextLeaseInv

\* A failed renewal leaves a file that is one interval older.
LEMMA RenewFailsStep ==
  ASSUME LeaseInv, NEW i \in Instances, RenewFails(i)
  PROVE  LeaseInv'
<1>1. TypeOK /\ \A j \in Instances : Own(j)
  BY LeaseInvIs
<1>2. pc[i] = "renew" /\ missed[i] < MaxMissed /\ RenewalOver(i)
  BY DEF RenewFails
<1>3. UNCHANGED <<lease, running>> /\ faults' \in 0 .. MaxFaults
  BY <1>1 DEF RenewFails, Fault, TypeOK
<1>4. missed[i] \in Nat /\ elapsed[i] \in Nat /\ lease.age \in Nat
  BY <1>1, TypeFacts
<1>5. missed' = [missed EXCEPT ![i] = IF running[i] THEN missed[i] + 1 ELSE 0]
  BY DEF RenewFails
<1>6. /\ missed' \in [Instances -> 0 .. MaxMissed]
      /\ missed'[i] = IF running[i] THEN missed[i] + 1 ELSE 0
      /\ \A j \in Instances : j # i => missed'[j] = missed[j]
  <2>1. (IF running[i] THEN missed[i] + 1 ELSE 0) \in 0 .. MaxMissed
    BY <1>2, <1>4
  <2> QED BY <1>1, <1>5, <2>1 DEF TypeOK
<1>7. TypeOK'
  BY <1>1, <1>2, <1>3, <1>6, RenewalOverEffect DEF TypeOK
<1>8. Others(i) /\ pc'[i] # "write"
  BY <1>2, <1>3, <1>6, RenewalOverEffect DEF Others
<1>9. Own(i)'
  <2>1. CASE ~running[i]
    <3>1. pc'[i] = "standby" /\ ~running'[i]
      BY <1>2, <1>3, <2>1, RenewalOverEffect
    <3> QED BY <3>1, OwnNothing
  <2>2. CASE running[i]
    <3>1. pc'[i] = "leader" /\ elapsed'[i] = elapsed[i]
      BY <1>2, <2>2, RenewalOverEffect
    <3>2. HoldsYoungFile(i)'
      <4> DEFINE mr == missed[i] * RenewInterval
      <4>1. missed'[i] = missed[i] + 1
        BY <1>6, <2>2
      <4>2. mr \in Nat /\ missed'[i] * RenewInterval = mr + RenewInterval
        BY <1>4, <4>1, ProductStep
      <4>3. lease.age <= elapsed[i] + RenewInterval + VerifyMax + IODelay + mr
        BY <1>1, <1>2 DEF Own, HoldsYoungFile
      <4> HIDE DEF mr
      <4>4. lease'.age <= elapsed'[i] + VerifyMax + IODelay + (mr + RenewInterval)
        BY <1>3, <1>4, <3>1, <4>2, <4>3
      <4> QED BY <3>1, <4>2, <4>4 DEF HoldsYoungFile
    <3>3. WroteRecently(i)' /\ (pc[i] = "renew" => copy[i] = i)' /\ Leads(i)'
      BY <3>1 DEF WroteRecently, Leads
    <3>4. \A k \in Instances : DecidedBefore(i, k)'
      BY <1>1, <1>2, <1>8, <3>1 DEF Own, DecidedBefore, Leads, Others
    <3>5. lease'.holder = i /\ lease'.acquired = i
      BY <1>1, <1>2, <1>3 DEF Own, Leads
    <3> QED BY <3>2, <3>3, <3>4, <3>5 DEF Own
  <2> QED BY <2>1, <2>2
<1>10. \A j \in Instances : Own(j)'
  BY <1>1, <1>3, <1>8, <1>9, OthersKeep
<1> QED BY <1>7, <1>10, NextLeaseInv

-----------------------------------------------------------------------------
(***************************************************************************)
(* Everything else ends in standby, or in down.                            *)
(***************************************************************************)
Leaves(i) == \/ AcquireFails(i) \/ Crash(i) \/ Start(i)
             \/ OnLeaderReturns(i) /\ pc[i] = "leader"

LEMMA LeaveStep ==
  ASSUME LeaseInv, NEW i \in Instances, Leaves(i)
  PROVE  LeaseInv'
<1> USE DEF Leaves
<1>1. TypeOK /\ \A j \in Instances : Own(j)
  BY LeaseInvIs
<1>2. PICK to \in {"standby", "down"} : Goto(i, to)
  BY DEF AcquireFails, Crash, Start, OnLeaderReturns
<1>3. UNCHANGED lease /\ faults' \in 0 .. MaxFaults
  BY <1>1 DEF AcquireFails, Crash, Start, OnLeaderReturns, Fault, TypeOK
<1>4. /\ copy' \in [Instances -> Holders]
      /\ \A j \in Instances : j # i => copy'[j] = copy[j]
  BY <1>1 DEF AcquireFails, Crash, Start, OnLeaderReturns, TypeOK, Holders
<1>5. /\ missed' \in [Instances -> 0 .. MaxMissed]
      /\ \A j \in Instances : j # i => missed'[j] = missed[j]
  BY <1>1 DEF AcquireFails, Crash, Start, OnLeaderReturns, TypeOK
<1>6. /\ running' \in [Instances -> BOOLEAN] /\ ~running'[i]
      /\ \A j \in Instances : j # i => running'[j] = running[j]
  <2>1. CASE running' = [running EXCEPT ![i] = FALSE]
    BY <1>1, <2>1 DEF TypeOK
  <2>2. CASE UNCHANGED running /\ pc[i] \in {"write", "verify", "down"}
    <3>1. ~running[i]
      BY <1>1, <2>2 DEF Own, Leads
    <3> QED BY <1>1, <2>2, <3>1 DEF TypeOK
  <2> QED BY <2>1, <2>2 DEF AcquireFails, Crash, Start, OnLeaderReturns
<1>7. to \in PC
  BY DEF PC
<1>8. TypeOK'
  BY <1>1, <1>2, <1>3, <1>4, <1>5, <1>6, <1>7, GotoEffect DEF TypeOK
<1>9. Others(i) /\ pc'[i] = to
  BY <1>1, <1>2, <1>4, <1>5, <1>6, <1>7, GotoEffect DEF Others
<1>10. Own(i)'
  BY <1>6, <1>9, OwnNothing
<1>11. \A j \in Instances : Own(j)'
  <2>1. pc'[i] # "write"
    BY <1>9
  <2> QED BY <1>1, <1>3, <1>9, <1>10, <2>1, OthersKeep
<1> QED BY <1>8, <1>11, NextLeaseInv

\* onLeader returns while a renewal is under way.
LEMMA ReturnInRenewal ==
  ASSUME LeaseInv, NEW i \in Instances, OnLeaderReturns(i), pc[i] # "leader"
  PROVE  LeaseInv'
<1>1. TypeOK /\ \A j \in Instances : Own(j)
  BY LeaseInvIs
<1>2. UNCHANGED <<pc, elapsed, missed, lease, copy>> /\ faults' \in 0 .. MaxFaults
  BY <1>1 DEF OnLeaderReturns, Fault, TypeOK
<1>3. /\ running' \in [Instances -> BOOLEAN] /\ ~running'[i]
      /\ \A j \in Instances : j # i => running'[j] = running[j]
  BY <1>1 DEF OnLeaderReturns, TypeOK
<1>4. pc[i] = "renew"
  BY <1>1 DEF OnLeaderReturns, Own, Leads
<1>5. TypeOK'
  BY <1>1, <1>2, <1>3 DEF TypeOK
<1>6. Others(i) /\ pc'[i] # "write"
  BY <1>2, <1>3, <1>4 DEF Others
<1>7. Own(i)'
  BY <1>1, <1>2, <1>3 DEF Own, HoldsYoungFile, WroteRecently, DecidedBefore, Leads
<1>8. \A j \in Instances : Own(j)'
  BY <1>1, <1>2, <1>6, <1>7, OthersKeep
<1> QED BY <1>5, <1>8, NextLeaseInv

-----------------------------------------------------------------------------
(***************************************************************************)
(* The theorems.                                                           *)
(***************************************************************************)
LEMMA LeaseInvInit == Init => LeaseInv
<1> SUFFICES ASSUME Init PROVE LeaseInv
  OBVIOUS
<1>1. lease \in [holder : Holders, acquired : Holders, age : 0 .. LeaseTimeout]
      /\ (lease.holder = NoOne <=> lease.acquired = NoOne)
  BY DEF Init, NoLease, Holders
<1>2. \A i \in Instances : pc[i] = "standby" /\ ~running[i]
  BY DEF Init
<1>3. "standby" \in PC
  BY DEF PC
<1>4. TypeOK
  BY <1>1, <1>2, <1>3, DeadlineIs DEF Init, TypeOK, Holders
<1>5. \A i \in Instances : Own(i)
  BY <1>2 DEF Own, HoldsYoungFile, WroteRecently, DecidedBefore, Leads
<1> QED BY <1>4, <1>5, LeaseInvIs

LEMMA LeaseInvStep ==
  ASSUME SoundTiming, LeaseInv, [Next]_vars
  PROVE  LeaseInv'
<1>1. CASE UNCHANGED vars
  BY <1>1 DEF vars, LeaseInv, TypeOK, AcquiredAtIsLeaders, HoldsYoungFile,
              WroteRecently, DecidedBefore, Leads
<1>2. CASE Tick
  BY <1>2, TickStep
<1>3. ASSUME NEW i \in Instances, Run(i)
      PROVE  LeaseInv'
  BY <1>3, BecomeCandidateStep, AcquireStep, VerifyStep, RenewReadStep,
     RenewWriteStep DEF Run
<1>4. ASSUME NEW i \in Instances,
             AcquireFails(i) \/ RenewFails(i) \/ OnLeaderReturns(i)
               \/ Crash(i) \/ Start(i)
      PROVE  LeaseInv'
  <2>1. CASE Leaves(i)
    BY <2>1, LeaveStep
  <2>2. CASE RenewFails(i)
    BY <2>2, RenewFailsStep
  <2>3. CASE OnLeaderReturns(i) /\ pc[i] # "leader"
    BY <2>3, ReturnInRenewal
  <2> QED BY <1>4, <2>1, <2>2, <2>3 DEF Leaves
<1> QED BY <1>1, <1>2, <1>3, <1>4 DEF Next

\* The strengthened invariant holds in every reachable state.
THEOREM LeaseInvariant ==
  ASSUME SoundTiming
  PROVE  Spec => []LeaseInv
<1>1. LeaseInv /\ [Next]_vars => LeaseInv'
  BY LeaseInvStep
<1> QED BY <1>1, LeaseInvInit, PTL DEF Spec

\* Variables, deadlines included, stay in their ranges.
THEOREM TypeCorrect ==
  ASSUME SoundTiming
  PROVE  Spec => []TypeOK
<1>1. LeaseInv => TypeOK
  BY DEF LeaseInv
<1> QED BY <1>1, LeaseInvariant, PTL

\* At most one instance leads: no run of tryAcquire and runAsLeader on any
\* number of hosts makes two leaders, as long as the timing is sound.
THEOREM OneLeader ==
  ASSUME SoundTiming
  PROVE  Spec => []AtMostOneLeader
<1>1. LeaseInv => AtMostOneLeader
  BY DEF LeaseInv, AcquiredAtIsLeaders, AtMostOneLeader
<1> QED BY <1>1, LeaseInvariant, PTL

\* The file of a leader carries its own holder id and acquired_at.
THEOREM AcquiredAtCorrect ==
  ASSUME SoundTiming
  PROVE  Spec => []AcquiredAtIsLeaders
<1>1. LeaseInv => AcquiredAtIsLeaders
  BY DEF LeaseInv
<1> QED BY <1>1, LeaseInvariant, PTL

\* Nobody overwrites the lease of a leader.
THEOREM NeverStolen ==
  ASSUME SoundTiming
  PROVE  Spec => ActiveLeaseNotStolen
<1>1. LeaseInv /\ LeaseInv' => NotStolen
  BY DEF LeaseInv, AcquiredAtIsLeaders, NotStolen, Leads
<1>2. LeaseInv /\ LeaseInv' /\ [Next]_vars => [NotStolen]_vars
  BY <1>1
<1> QED BY <1>2, LeaseInvariant, PTL DEF Spec, ActiveLeaseNotStolen
=============================================================================
