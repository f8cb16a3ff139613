-------------------------------- MODULE Round --------------------------------
(***************************************************************************)
(* One instance's rounds: the goroutines and channels of Watcher.SyncOnce  *)
(* (src/internal/watcher/watcher.go) and what it reports of a round.       *)
(*                                                                         *)
(* SyncOnce hands the sessions that need it to a pool of workers through   *)
(* an unbuffered channel (jobCh), collects their results in a buffered one *)
(* (resultCh), waits for the workers, and adds the results up.  A signal,  *)
(* or the loss of leadership, cancels the context at any time.  What a     *)
(* worker does with a job, syncSession, is module SessionSync; here it is  *)
(* its result that matters.                                                *)
(*                                                                         *)
(* A result is the session it is for: what syncSession returned for the    *)
(* session is in outcome.  The order of the list is left out.              *)
(***************************************************************************)
EXTENDS Naturals, FiniteSets

CONSTANTS
  Sessions,        \* session ids
  SessionWorkers,  \* session_workers
  NoSession,       \* a worker without a job
  MaxNew           \* bound: messages syncSession writes for one session

ASSUME RoundAssumption ==
  /\ IsFiniteSet(Sessions)
  /\ NoSession \notin Sessions
  /\ SessionWorkers \in Nat \ {0}
  /\ MaxNew \in Nat

VARIABLES
  cancelled,    \* ctx.Err() != nil
  phase,        \* where SyncOnce stands
  listed,       \* the result of ListSessions
  unread,       \* listed sessions that are not filtered yet
  jobs,         \* sessions to synchronise
  unsent,       \* jobs the dispatcher has not sent yet
  dispatcher,   \* the dispatching goroutine; jobCh is closed when it is done
  worker,       \* where each worker stands
  current,      \* the job of each worker
  outcome,      \* what syncSession returned for a session
  resultCh,     \* buffered results; closed when phase is not wait
  result        \* the RoundResult

poolVars == <<unsent, dispatcher, worker, current, outcome, resultCh>>
callerVars == <<cancelled, phase, listed, unread, jobs, result>>
roundVars == <<cancelled, phase, listed, unread, jobs, poolVars, result>>

Pool == 1 .. SessionWorkers

\* What syncSession returns; reachedMax may come with an error.
Outcome == [new : 0 .. MaxNew, reachedMax : BOOLEAN, failed : BOOLEAN]

NoOutcome == [new |-> 0, reachedMax |-> FALSE, failed |-> TRUE]

EmptyResult == [total |-> 0, skipped |-> 0, synced |-> 0, failed |-> 0,
                new |-> 0, maxFetchReached |-> 0, err |-> FALSE]

RoundInit == /\ cancelled = FALSE
             /\ phase = "returned"
             /\ listed = {} /\ unread = {} /\ jobs = {}
             /\ unsent = {}
             /\ dispatcher = "done"
             /\ worker = [w \in Pool |-> "done"]
             /\ current = [w \in Pool |-> NoSession]
             /\ outcome = [s \in Sessions |-> NoOutcome]
             /\ resultCh = {}
             /\ result = EmptyResult

Cancel == /\ ~cancelled
          /\ cancelled' = TRUE
          /\ UNCHANGED <<phase, listed, unread, jobs, poolVars, result>>

(***************************************************************************)
(* The goroutine of the caller.                                            *)
(***************************************************************************)
\* The loop of runWatcher calls again, perhaps once more after a
\* cancellation: its select may prefer the timer.
Call == /\ phase = "returned"
        /\ phase' = "listing"
        /\ listed' = {} /\ unread' = {} /\ jobs' = {}
        /\ unsent' = {} /\ resultCh' = {}
        /\ outcome' = [s \in Sessions |-> NoOutcome]
        /\ result' = EmptyResult
        /\ UNCHANGED <<cancelled, dispatcher, worker, current>>

ListSessions ==
  /\ phase = "listing" /\ ~cancelled
  /\ \E ss \in SUBSET Sessions : listed' = ss /\ unread' = ss
  /\ phase' = "filter"
  /\ UNCHANGED <<cancelled, jobs, poolVars, result>>

ListFails ==
  /\ phase = "listing"
  /\ phase' = "returned"
  /\ result' = [result EXCEPT !.err = TRUE]
  /\ UNCHANGED <<cancelled, listed, unread, jobs, poolVars>>

\* GetSessionState and shouldSync decide about one session.
Filter ==
  /\ phase = "filter"
  /\ \E s \in unread : /\ unread' = unread \ {s}
                       /\ jobs' \in {jobs, jobs \cup {s}}
  /\ UNCHANGED <<cancelled, phase, listed, poolVars, result>>

Counted == [total |-> Cardinality(listed),
            skipped |-> Cardinality(listed) - Cardinality(jobs),
            synced |-> 0, failed |-> 0, new |-> 0, maxFetchReached |-> 0,
            err |-> FALSE]

NothingToDo ==
  /\ phase = "filter" /\ unread = {} /\ jobs = {}
  /\ result' = Counted
  /\ phase' = "returned"
  /\ UNCHANGED <<cancelled, listed, unread, jobs, poolVars>>

StartWorkers ==
  /\ phase = "filter" /\ unread = {} /\ jobs # {}
  /\ result' = Counted
  /\ phase' = "wait"
  /\ unsent' = jobs
  /\ dispatcher' = "run"
  /\ worker' = [w \in Pool |-> IF w <= Cardinality(jobs) THEN "receive"
                                                            ELSE "done"]
  /\ UNCHANGED <<cancelled, listed, unread, jobs, current, outcome, resultCh>>

(***************************************************************************)
(* The dispatcher: a select between ctx.Done() and jobCh <- job.           *)
(***************************************************************************)
\* jobCh is unbuffered: sending is a rendezvous with a worker.  When the
\* context is cancelled as well, select takes either branch.
Dispatch(w) ==
  /\ dispatcher = "run"
  /\ worker[w] = "receive"
  /\ \E s \in unsent : /\ unsent' = unsent \ {s}
                       /\ current' = [current EXCEPT ![w] = s]
  /\ worker' = [worker EXCEPT ![w] = "start"]
  /\ UNCHANGED <<callerVars, dispatcher, outcome, resultCh>>

\* Seeded fault: close(jobCh) is forgotten.
DispatcherForgetsClose ==
  /\ dispatcher = "run"
  /\ unsent = {} \/ cancelled
  /\ UNCHANGED roundVars

\* All jobs are sent, or the context is cancelled: jobCh is closed.
DispatcherEnds ==
  /\ dispatcher = "run"
  /\ unsent = {} \/ cancelled
  /\ dispatcher' = "done"
  /\ UNCHANGED <<callerVars, unsent, worker, current, outcome, resultCh>>

(***************************************************************************)
(* A worker.                                                               *)
(***************************************************************************)
\* syncSession begins with GetSession, which fails under a cancelled context.
StartSync(w) ==
  /\ worker[w] = "start"
  /\ worker' = [worker EXCEPT ![w] = IF cancelled THEN "send" ELSE "sync"]
  /\ UNCHANGED <<callerVars, unsent, dispatcher, current, outcome, resultCh>>

\* Any later call may fail, and may still succeed after a cancellation.
SyncReturns(w) ==
  /\ worker[w] = "sync"
  /\ \E o \in Outcome :
       /\ o.failed => o.new = 0
       /\ outcome' = [outcome EXCEPT ![current[w]] = o]
  /\ worker' = [worker EXCEPT ![w] = "send"]
  /\ UNCHANGED <<callerVars, unsent, dispatcher, current, resultCh>>

ResultCapacity == Cardinality(jobs)

\* resultCh <- res, and back to jobCh.
SendResult(w) ==
  /\ worker[w] = "send"
  /\ Cardinality(resultCh) < ResultCapacity
  /\ resultCh' = resultCh \cup {current[w]}
  /\ current' = [current EXCEPT ![w] = NoSession]
  /\ worker' = [worker EXCEPT ![w] = "receive"]
  /\ UNCHANGED <<callerVars, unsent, dispatcher, outcome>>

\* The range over jobCh ends when the channel is closed.
WorkerEnds(w) ==
  /\ worker[w] = "receive" /\ dispatcher = "done"
  /\ worker' = [worker EXCEPT ![w] = "done"]
  /\ UNCHANGED <<callerVars, unsent, dispatcher, current, outcome, resultCh>>

(***************************************************************************)
(* The caller again: wg.Wait, close(resultCh), and the sum.                *)
(***************************************************************************)
\* Seeded fault: the caller waits for the dispatcher instead of the workers.
WaitForDispatcher ==
  /\ phase = "wait" /\ dispatcher = "done"
  /\ phase' = "aggregate"
  /\ UNCHANGED <<cancelled, listed, unread, jobs, poolVars, result>>

Wait == /\ phase = "wait"
        /\ \A w \in Pool : worker[w] = "done"
        /\ phase' = "aggregate"
        /\ UNCHANGED <<cancelled, listed, unread, jobs, poolVars, result>>

Failures(ss) == {s \in ss : outcome[s].failed}
ReachedMax(ss) == {s \in ss : outcome[s].reachedMax}

\* The sum of their newCount.
MessagesOf(ss) ==
  Cardinality({m \in ss \X (1 .. MaxNew) : m[2] <= outcome[m[1]].new})

\* Seeded fault: an error is handled before reachedMax is looked at.
TallyErrorFirst(r, ss) ==
  [r EXCEPT !.maxFetchReached = Cardinality(ReachedMax(ss \ Failures(ss))),
            !.failed = Cardinality(Failures(ss)),
            !.synced = Cardinality(ss \ Failures(ss)),
            !.new = MessagesOf(ss \ Failures(ss))]

\* The counters of a round, from the sessions whose results were received.
Tally(r, ss) == [r EXCEPT
                   !.maxFetchReached = Cardinality(ReachedMax(ss)),
                   !.failed = Cardinality(Failures(ss)),
                   !.synced = Cardinality(ss \ Failures(ss)),
                   !.new = MessagesOf(ss \ Failures(ss))]

Aggregate ==
  /\ phase = "aggregate"
  /\ result' = Tally(result, resultCh)
  /\ phase' = "returned"
  /\ UNCHANGED <<cancelled, listed, unread, jobs, poolVars>>

Caller == \/ ListSessions \/ ListFails \/ Filter \/ NothingToDo
          \/ StartWorkers \/ Wait \/ Aggregate

Worker(w) == \/ Dispatch(w) \/ StartSync(w) \/ SyncReturns(w)
             \/ SendResult(w) \/ WorkerEnds(w)

RoundNext == \/ Cancel \/ Call \/ Caller \/ DispatcherEnds
             \/ \E w \in Pool : Worker(w)

RoundSpec == RoundInit /\ [][RoundNext]_roundVars

\* Every goroutine that can go on is scheduled, and syncSession returns: its
\* HTTP calls have a timeout, its SQLite calls a busy timeout.
RoundFairSpec == /\ RoundSpec
                 /\ WF_roundVars(Caller) /\ WF_roundVars(DispatcherEnds)
                 /\ \A w \in Pool : WF_roundVars(Worker(w))
-----------------------------------------------------------------------------
(***************************************************************************)
(* Properties.                                                             *)
(***************************************************************************)
\* What the counters of a RoundResult range over.
Counters == [total : Nat, skipped : Nat, synced : Nat, failed : Nat,
             new : Nat, maxFetchReached : Nat, err : BOOLEAN]

\* Every variable stays in its range.
RoundTypeOK ==
  /\ cancelled \in BOOLEAN
  /\ phase \in {"listing", "filter", "wait", "aggregate", "returned"}
  /\ listed \in SUBSET Sessions
  /\ unread \in SUBSET listed
  /\ jobs \in SUBSET listed
  /\ unsent \in SUBSET jobs
  /\ dispatcher \in {"run", "done"}
  /\ worker \in [Pool -> {"receive", "start", "sync", "send", "done"}]
  /\ current \in [Pool -> jobs \cup {NoSession}]
  /\ outcome \in [Sessions -> Outcome]
  /\ resultCh \in SUBSET jobs
  /\ result \in Counters

\* No goroutine outlives its round (wg.Wait comes before close(resultCh)):
\* none sends on the closed channel, and none is left to use the store that
\* runWatcher closes when its last round has returned.
NothingOutlivesRound ==
  phase # "wait" => /\ dispatcher = "done"
                    /\ \A w \in Pool : worker[w] = "done"

\* The buffer of resultCh is large enough for every order of events: a
\* worker never blocks on a result while the caller waits for the workers.
ResultNeverBlocks ==
  \A w \in Pool :
    worker[w] = "send" => Cardinality(resultCh) < ResultCapacity

\* The report of a round: every session a worker took counts once, as
\* synchronised or as failed, with its new messages only if it did not fail
\* and its limit in any case; and the sessions add up, but for the jobs that
\* a cancellation kept from the workers.
TookJobs == jobs \ unsent

Synced == {s \in TookJobs : ~outcome[s].failed}

ReportIsComplete ==
  phase = "returned" /\ ~result.err =>
    /\ result.synced = Cardinality(Synced)
    /\ result.failed = Cardinality(TookJobs \ Synced)
    /\ result.new = MessagesOf(Synced)
    /\ result.maxFetchReached =
         Cardinality({s \in TookJobs : outcome[s].reachedMax})
    /\ result.total = result.skipped + result.synced + result.failed
                        + Cardinality(unsent)
    /\ unsent # {} => cancelled

\* A round returns, cancelled or not: the dispatcher always closes jobCh, the
\* workers always leave, and so wg.Wait ends.
RoundReturns == (phase = "listing") ~> (phase = "returned")

(***************************************************************************)
(* Why: every job is in one place.                                         *)
(***************************************************************************)
InHand == {current[w] : w \in Pool} \ {NoSession}

Busy(w) == worker[w] \in {"start", "sync", "send"}

JobInOnePlace ==
  /\ phase \in {"wait", "aggregate", "returned"} /\ ~result.err =>
       unsent \cup InHand \cup resultCh = jobs
  /\ unsent \cap InHand = {} /\ unsent \cap resultCh = {}
  /\ InHand \cap resultCh = {}
  /\ \A v, w \in Pool : current[v] = current[w] /\ Busy(v) => v = w
  /\ \A w \in Pool : Busy(w) <=> current[w] # NoSession

\* How far the round has come.
Progress ==
  /\ phase = "wait" =>
       /\ jobs # {}
       /\ \A w \in Pool : worker[w] = "done" =>
            dispatcher = "done" \/ Cardinality(jobs) < w
  /\ phase \in {"wait", "aggregate"} => result = Counted /\ ~result.err
  /\ dispatcher = "done" /\ unsent # {} => cancelled
  /\ phase \in {"listing", "filter"} =>
       /\ unsent = {} /\ resultCh = {}
       /\ result = EmptyResult
  /\ phase = "listing" => jobs = {}
  /\ phase = "returned" =>
       IF result.err THEN unsent = {} /\ jobs = {}
                     ELSE result = Tally(Counted, TookJobs)

RoundInv == RoundTypeOK /\ NothingOutlivesRound /\ JobInOnePlace /\ Progress
=============================================================================
