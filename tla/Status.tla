------------------------------- MODULE Status -------------------------------
(***************************************************************************)
(* The status snapshot (Reporter in src/internal/status/status.go), which  *)
(* the main goroutine writes and the handler of /status reads, each under  *)
(* the mutex: an operation is one step.                                    *)
(*                                                                         *)
(* Of the counters of a round only whether sessions failed is kept, of the *)
(* time of the last success only what kind of round it was, of texts only  *)
(* whether they are empty.                                                 *)
(***************************************************************************)

VARIABLE snapshot

\* What a round may look like when it is recorded.
Rounds == [err : BOOLEAN, sessionsFailed : BOOLEAN]

NewReporter ==
  [mode |-> "",               \* "", standalone or ha
   lastSuccess |-> "never",   \* last_success_at: never, clean or some failed
   lastError |-> FALSE,       \* last_error # ""
   sessionsFailed |-> FALSE,  \* sessions_failed > 0
   isLeader |-> FALSE,        \* is_leader
   leaseID |-> FALSE]         \* lease_id # ""

RecordRound(round) ==
  snapshot' = [snapshot EXCEPT
                 !.sessionsFailed = round.sessionsFailed,
                 !.lastError = round.err,
                 !.lastSuccess = IF round.err THEN @
                                 ELSE IF round.sessionsFailed
                                      THEN "some failed" ELSE "clean"]

SetLeaderState(leader, id) ==
  snapshot' = [snapshot EXCEPT !.isLeader = leader, !.leaseID = id]

SetMode(mode) ==
  snapshot' = [snapshot EXCEPT !.mode = mode,
                               !.isLeader = @ \/ mode = "standalone"]
=============================================================================
