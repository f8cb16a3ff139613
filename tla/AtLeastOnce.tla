----------------------------- MODULE AtLeastOnce -----------------------------
(***************************************************************************)
(* What the exporter promises about each session, whatever happens to the  *)
(* process: a log of export attempts and a set of acknowledged messages.   *)
(* A message may be attempted any number of times until it is acknowledged,*)
(* is acknowledged only when an attempt got through completely, and is     *)
(* never attempted again after that.  This is the message state machine of *)
(* the design (Unseen, Pending, Written) without tables, batches or steps. *)
(***************************************************************************)
EXTENDS Naturals, Sequences

CONSTANTS Sessions, MaxMsgs

VARIABLES arrived,   \* arrived[s]: how many messages the session has
          log,       \* log[s]: the attempts, complete or torn, in file order
          acked      \* acked[s]: the acknowledged messages

vars == <<arrived, log, acked>>

Attempt == [msg : 1 .. MaxMsgs, whole : BOOLEAN]

Init == /\ arrived = [s \in Sessions |-> 0]
        /\ log = [s \in Sessions |-> << >>]
        /\ acked = [s \in Sessions |-> {}]

Arrive(s) == /\ arrived[s] < MaxMsgs
             /\ arrived' = [arrived EXCEPT ![s] = @ + 1]
             /\ UNCHANGED <<log, acked>>

Export(s, a) == /\ a.msg <= arrived[s]
                /\ a.msg \notin acked[s]
                /\ log' = [log EXCEPT ![s] = Append(@, a)]
                /\ UNCHANGED <<arrived, acked>>

Exported(s) == {k \in 1 .. MaxMsgs :
                  \E n \in DOMAIN log[s] : log[s][n].msg = k /\ log[s][n].whole}

Acknowledge(s, batch) == /\ batch \subseteq Exported(s)
                         /\ acked' = [acked EXCEPT ![s] = @ \cup batch]
                         /\ UNCHANGED <<arrived, log>>

Next == \E s \in Sessions :
          \/ Arrive(s)
          \/ \E a \in Attempt : Export(s, a)
          \/ \E batch \in SUBSET (1 .. MaxMsgs) : Acknowledge(s, batch)

Spec == Init /\ [][Next]_vars
=============================================================================
