-------------------------------- MODULE Main --------------------------------
(***************************************************************************)
(* One process from start to exit: main and runWatcher                     *)
(* (src/cmd/session-watcher/main.go) with the status they report.          *)
(*                                                                         *)
(* The election (module Lease) and a round (module Round) are seen from    *)
(* outside: the process is elected or not, SyncOnce returns an error or a  *)
(* result in which sessions failed or not.  A signal cancels the context   *)
(* at any moment; so does -once in HA mode.  Logging is left out, and the  *)
(* log file, whose opening cannot fail.                                    *)
(***************************************************************************)
EXTENDS Integers, Status

VARIABLES
  cfg,        \* the configuration: HA mode, -once
  ctx,        \* why ctx is cancelled: no, signal or stop
  pc,         \* where the main goroutine stands
  err,        \* what runWatcher is going to return
  round,      \* the RoundResult
  opened,     \* the resources that are open
  exit,       \* the exit code, once the process has exited
  done        \* a round was done, without a cancellation

vars == <<snapshot, cfg, ctx, pc, err, round, opened, exit, done>>

Configs == [valid : BOOLEAN, ha : BOOLEAN, once : BOOLEAN]

Running == -1     \* no exit code yet

CleanRound == [err |-> FALSE, sessionsFailed |-> FALSE]

(***************************************************************************)
(*   start     before config.Parse                                         *)
(*   health    before health.Start, the signals already caught             *)
(*   mode      before SetMode                                              *)
(*   elect     at the head of the loop of Lease.Run                        *)
(*   standby   in waitUntilCandidate                                       *)
(*   lead      in onLeader, before SetLeaderState(true)                    *)
(*   open, sink, round, record, close   in runWatcher                      *)
(*   wait, asleep   before the select of its loop, and blocked in it       *)
(*   result    runWatcher has returned                                     *)
(*   unlead    onLeader returns, before its deferred SetLeaderState(false) *)
(*   return    main returns, before its deferred calls                     *)
(*   exited                                                                *)
(***************************************************************************)
InRunWatcher == {"open", "sink", "round", "record", "wait", "asleep", "close"}

Cancelled == ctx # "no"

Init == /\ snapshot = NewReporter
        /\ cfg \in Configs
        /\ ctx = "no"
        /\ pc = "start"
        /\ err = FALSE
        /\ round = CleanRound
        /\ opened = {}
        /\ exit = Running
        /\ done = FALSE

\* SIGINT or SIGTERM; before NotifyContext it kills the process at once.
Signal == /\ ctx = "no" /\ pc \notin {"start", "exited"}
          /\ ctx' = "signal"
          /\ UNCHANGED <<snapshot, cfg, pc, err, round, opened, exit, done>>

Goto(from, to) == pc = from /\ pc' = to

\* os.Exit runs no deferred call.
Exit(from, code) == Goto(from, "exited") /\ exit' = code

ParseConfig ==
  /\ IF cfg.valid THEN Goto("start", "health") /\ UNCHANGED exit
                  ELSE Exit("start", 2)
  /\ UNCHANGED <<snapshot, cfg, ctx, err, round, opened, done>>

StartHealth ==
  /\ \/ Goto("health", "mode") /\ opened' = {"health"} /\ UNCHANGED exit
     \/ Goto("health", "mode") /\ UNCHANGED <<opened, exit>>  \* no address
     \/ Exit("health", 1) /\ UNCHANGED opened
  /\ UNCHANGED <<snapshot, cfg, ctx, err, round, done>>

ChooseMode ==
  /\ Goto("mode", IF cfg.ha THEN "elect" ELSE "open")
  /\ SetMode(IF cfg.ha THEN "ha" ELSE "standalone")
  /\ UNCHANGED <<cfg, ctx, err, round, opened, exit, done>>

(***************************************************************************)
(* Lease.Run and its callback.                                             *)
(***************************************************************************)
LeaseRun ==
  /\ Goto("elect", IF Cancelled THEN "return" ELSE "standby")
  /\ UNCHANGED <<snapshot, cfg, ctx, err, round, opened, exit, done>>

\* The last look at the context comes before the lease is read back: the
\* election may be won after a cancellation.
Elected ==
  /\ Goto("standby", "lead")
  /\ UNCHANGED <<snapshot, cfg, ctx, err, round, opened, exit, done>>

StandbyStops ==
  /\ Cancelled
  /\ Goto("standby", "elect")
  /\ UNCHANGED <<snapshot, cfg, ctx, err, round, opened, exit, done>>

OnLeader ==
  /\ Goto("lead", "open")
  /\ SetLeaderState(TRUE, TRUE)
  /\ UNCHANGED <<cfg, ctx, err, round, opened, exit, done>>

\* Seeded fault: the deferred SetLeaderState is forgotten.
OnLeaderReturnsSilently ==
  /\ Goto("unlead", "elect")
  /\ UNCHANGED <<snapshot, cfg, ctx, err, round, opened, exit, done>>

\* The deferred SetLeaderState keeps the lease id; runAsLeader waits for a
\* renewal under way and Run loops.
OnLeaderReturns ==
  /\ Goto("unlead", "elect")
  /\ SetLeaderState(FALSE, TRUE)
  /\ UNCHANGED <<cfg, ctx, err, round, opened, exit, done>>

(***************************************************************************)
(* runWatcher.                                                             *)
(***************************************************************************)
\* Every statement of store.Open runs under the context.
OpenStore ==
  /\ \/ /\ ~Cancelled
        /\ Goto("open", "sink")
        /\ opened' = opened \cup {"store"}
        /\ UNCHANGED err
     \/ /\ Goto("open", "result")
        /\ err' = TRUE
        /\ UNCHANGED opened
  /\ UNCHANGED <<snapshot, cfg, ctx, round, exit, done>>

\* Seeded fault: the store is not closed when the sink cannot be opened.
OpenSinkLeaks ==
  /\ \/ Goto("sink", "round") /\ opened' = opened \cup {"sink"} /\ UNCHANGED err
     \/ Goto("sink", "result") /\ err' = TRUE /\ UNCHANGED opened
  /\ UNCHANGED <<snapshot, cfg, ctx, round, exit, done>>

OpenSink ==
  /\ \/ Goto("sink", "round") /\ opened' = opened \cup {"sink"} /\ UNCHANGED err
     \/ Goto("sink", "close") /\ err' = TRUE /\ UNCHANGED opened
  /\ UNCHANGED <<snapshot, cfg, ctx, round, exit, done>>

\* SyncOnce returns.  Under a cancelled context the list of sessions fails,
\* or, when the cancellation came later, sessions do.
SyncOnce ==
  /\ Goto("round", "record")
  /\ round' \in {r \in Rounds : r.err => ~r.sessionsFailed}
  /\ done' = (done \/ (~Cancelled /\ ~round'.err))
  /\ UNCHANGED <<snapshot, cfg, ctx, err, opened, exit>>

\* Seeded fault: the error of the only round is not returned.
RecordDropsError ==
  /\ Goto("record", IF cfg.once THEN "close" ELSE "wait")
  /\ RecordRound(round)
  /\ UNCHANGED <<cfg, ctx, err, round, opened, exit, done>>

Record ==
  /\ Goto("record", IF cfg.once THEN "close" ELSE "wait")
  /\ RecordRound(round)
  /\ err' = (cfg.once /\ round.err)
  /\ UNCHANGED <<cfg, ctx, round, opened, exit, done>>

\* Seeded fault: the context is no case of the select.
WaitForTimer ==
  /\ Goto("wait", "asleep")
  /\ UNCHANGED <<snapshot, cfg, ctx, err, round, opened, exit, done>>

\* The select between ctx.Done() and a timer that has only just started.
Wait ==
  /\ Goto("wait", IF Cancelled THEN "close" ELSE "asleep")
  /\ UNCHANGED <<snapshot, cfg, ctx, err, round, opened, exit, done>>

\* If both have happened by the time the goroutine runs, either is chosen.
Wakes ==
  /\ \/ Goto("asleep", "round")
     \/ Cancelled /\ Goto("asleep", "close")
  /\ UNCHANGED <<snapshot, cfg, ctx, err, round, opened, exit, done>>

Close ==
  /\ Goto("close", "result")
  /\ opened' = opened \ {"store", "sink"}
  /\ UNCHANGED <<snapshot, cfg, ctx, err, round, exit, done>>

(***************************************************************************)
(* What main makes of runWatcher's error.                                  *)
(***************************************************************************)
\* Seeded fault: stop() is not called.
ResultKeepsRunning ==
  /\ IF err /\ cfg.once
     THEN Exit("result", 1)
     ELSE Goto("result", IF cfg.ha THEN "unlead" ELSE "return") /\ UNCHANGED exit
  /\ err' = FALSE
  /\ UNCHANGED <<snapshot, cfg, ctx, round, opened, done>>

Result ==
  /\ IF err /\ cfg.once
     THEN Exit("result", 1)
     ELSE Goto("result", IF cfg.ha THEN "unlead" ELSE "return") /\ UNCHANGED exit
  /\ ctx' = IF cfg.ha /\ cfg.once /\ ~Cancelled THEN "stop" ELSE ctx
  /\ err' = FALSE
  /\ UNCHANGED <<snapshot, cfg, round, opened, done>>

\* The deferred calls; closing the health server takes 5 seconds at most.
Return ==
  /\ Exit("return", 0)
  /\ opened' = {}
  /\ UNCHANGED <<snapshot, cfg, ctx, err, round, done>>

Step == \/ ParseConfig \/ StartHealth \/ ChooseMode
        \/ LeaseRun \/ StandbyStops \/ OnLeader \/ OnLeaderReturns
        \/ OpenStore \/ OpenSink \/ SyncOnce \/ Record \/ Wait \/ Wakes \/ Close
        \/ Result \/ Return

Next == Signal \/ Elected \/ Step

Spec == Init /\ [][Next]_vars

\* The main goroutine goes on; nobody needs to be elected, and nobody sends
\* a signal.
FairSpec == Spec /\ WF_vars(Step)
-----------------------------------------------------------------------------
(***************************************************************************)
(* Properties.                                                             *)
(***************************************************************************)
Alive == pc # "exited"

\* is_leader says of a living process whether it is the one that works: in
\* standalone mode always, in HA mode exactly while onLeader runs
\* (status.go:19).  No round runs without it.
Leads == \/ pc \in InRunWatcher \cup {"result", "unlead"}
         \/ ~cfg.ha /\ pc = "return"

LeaderIsReported == Alive => (snapshot.isLeader <=> Leads)

\* A round finds the store and the sink open, and runWatcher leaves neither
\* open, whatever failed: the next leadership opens them again.
ResourcesMatch ==
  /\ pc \in {"round", "record", "wait", "asleep"} => {"store", "sink"} \subseteq opened
  /\ pc \notin InRunWatcher => opened \subseteq {"health"}

\* With -once the exit code is 0 only if the round was done, or if a signal
\* came: CI may rely on it (main.go:96).
OnceFailureIsReported ==
  cfg.once /\ exit = 0 => done \/ ctx = "signal"

\* A signal ends the process, wherever it is.
SignalEndsProcess == (ctx = "signal") ~> (pc = "exited")

\* -once ends the process after its round, in HA mode too, where main has to
\* cancel the context itself to get out of Lease.Run.
OnceEnds == (cfg.once /\ pc = "open") ~> (pc = "exited")
=============================================================================
