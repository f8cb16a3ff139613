------------------------------- MODULE MCLease -------------------------------
(***************************************************************************)
(* The instances of the lease that TLC checks.  One run looks at the       *)
(* election (module Lease), which takes the writing of the file for one    *)
(* step, and at the writing of the file (LeaseFile), which is why it may.  *)
(* They share no state: machine says which of them a behaviour is about,   *)
(* and the other stands still.                                             *)
(***************************************************************************)
EXTENDS Lease, LeaseFile, TLC

VARIABLE machine

BothInit == machine \in {"election", "file"} /\ Init /\ FileInit

BothNext == /\ \/ machine = "election" /\ Next /\ UNCHANGED fileVars
               \/ machine = "file" /\ FileNext /\ UNCHANGED vars
            /\ UNCHANGED machine

LeaseSpec == BothInit /\ [][BothNext]_<<machine, vars, fileVars>>

\* The fairness of the election; it owes nothing while it stands still.
LeaseFairSpec ==
  /\ LeaseSpec
  /\ WF_vars(machine = "election" /\ Tick)
  /\ \A i \in Instances : WF_vars(machine = "election" /\ Run(i))

\* The name of the lease file, and that of each writer's temporary file.
MCLeasePath == <<"lease">>
MCTmp == [i \in Writers |-> <<"tmp", i>>]
MCTmpNames == {MCTmp[i] : i \in Writers}

\* Lease: some instance leads sooner or later, as long as one runs.
LeadershipGoesOn == machine = "election" => EventuallyLed
=============================================================================
