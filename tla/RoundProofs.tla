----------------------------- MODULE RoundProofs -----------------------------
(***************************************************************************)
(* Proofs about the three parts that MCRound checks side by side.          *)
(*                                                                         *)
(* Round: whatever the number of sessions and workers and whatever the     *)
(* order of the goroutines, none outlives the round, none blocks on its    *)
(* result, and the report is complete.  PathLocks: the lock table excludes *)
(* concurrent writers of a file.  HttpSource: a request takes no longer    *)
(* than its attempts and backoffs.                                         *)
(***************************************************************************)
EXTENDS MCRound, FiniteSetTheorems, TLAPS

\* A set of sessions has a number of elements.
LEMMA SessionsCount ==
  ASSUME NEW ss \in SUBSET Sessions
  PROVE  IsFiniteSet(ss) /\ Cardinality(ss) \in Nat
BY RoundAssumption, FS_Subset, FS_CardinalityType

\* A set of sessions within another counts no more.
LEMMA FewerSessions ==
  ASSUME NEW tt \in SUBSET Sessions, NEW ss \in SUBSET tt
  PROVE  /\ Cardinality(ss) <= Cardinality(tt)
         /\ ss # tt => Cardinality(ss) < Cardinality(tt)
<1>1. IsFiniteSet(tt) /\ Cardinality(ss) \in Nat /\ Cardinality(tt) \in Nat
  BY SessionsCount
<1>2. Cardinality(ss) <= Cardinality(tt)
      /\ (Cardinality(tt) = Cardinality(ss) => tt = ss)
  BY <1>1, FS_Subset
<1> QED BY <1>1, <1>2

\* The number of messages of a set of sessions is a number.
LEMMA MessagesCount ==
  ASSUME NEW ss \in SUBSET Sessions
  PROVE  MessagesOf(ss) \in Nat
<1> DEFINE M == {m \in ss \X (1 .. MaxNew) : m[2] <= outcome[m[1]].new}
<1>1. IsFiniteSet(ss) /\ IsFiniteSet(1 .. MaxNew)
  BY SessionsCount, FS_Interval, RoundAssumption
<1>2. IsFiniteSet(ss \X (1 .. MaxNew))
  BY <1>1, FS_Product
<1>3. M \in SUBSET (ss \X (1 .. MaxNew))
  OBVIOUS
<1> HIDE DEF M
<1>4. Cardinality(M) \in Nat
  BY <1>2, <1>3, FS_Subset, FS_CardinalityType
<1> QED BY <1>4 DEF M, MessagesOf

\* The counters before the workers start are numbers.
LEMMA CountedType ==
  ASSUME RoundTypeOK
  PROVE  Counted \in Counters /\ ~Counted.err
<1>1. listed \in SUBSET Sessions /\ jobs \in SUBSET listed
  BY DEF RoundTypeOK
<1>2. Cardinality(listed) \in Nat /\ Cardinality(jobs) \in Nat
      /\ Cardinality(jobs) <= Cardinality(listed)
  BY <1>1, SessionsCount, FewerSessions
<1>3. Cardinality(listed) - Cardinality(jobs) \in Nat
  BY <1>2
<1> QED BY <1>2, <1>3 DEF Counted, EmptyResult, Counters

\* Adding up keeps the counters numbers.
LEMMA TallyType ==
  ASSUME NEW r \in Counters, NEW ss \in SUBSET Sessions
  PROVE  Tally(r, ss) \in Counters /\ Tally(r, ss).err = r.err
<1>1. /\ Cardinality(ReachedMax(ss)) \in Nat
      /\ Cardinality(Failures(ss)) \in Nat
      /\ Cardinality(ss \ Failures(ss)) \in Nat
      /\ MessagesOf(ss \ Failures(ss)) \in Nat
  <2>1. /\ ReachedMax(ss) \in SUBSET Sessions
        /\ Failures(ss) \in SUBSET Sessions
        /\ ss \ Failures(ss) \in SUBSET Sessions
    BY DEF ReachedMax, Failures
  <2> QED BY <2>1, SessionsCount, MessagesCount
<1> QED BY <1>1 DEF Tally, Counters

\* Nothing changes for a set without sessions.
LEMMA TallyNothing ==
  ASSUME NEW r \in Counters, r.maxFetchReached = 0, r.failed = 0,
         r.synced = 0, r.new = 0
  PROVE  Tally(r, {}) = r
<1>1. Cardinality({}) = 0
  BY FS_EmptySet
<1>2. Failures({}) = {} /\ ReachedMax({}) = {}
  BY DEF Failures, ReachedMax
<1>3. {m \in {} \X (1 .. MaxNew) : m[2] <= outcome[m[1]].new} = {}
  OBVIOUS
<1>4. MessagesOf({}) = 0
  BY <1>1, <1>3 DEF MessagesOf
<1>5. {} \ Failures({}) = {}
  BY <1>2
<1> QED BY <1>1, <1>2, <1>4, <1>5 DEF Tally, Counters

-----------------------------------------------------------------------------
LEMMA InitInv == RoundInit => RoundInv
<1> SUFFICES ASSUME RoundInit PROVE RoundInv
  OBVIOUS
<1>1. RoundTypeOK
  <2>1. NoOutcome \in Outcome /\ EmptyResult \in Counters
    BY RoundAssumption DEF NoOutcome, Outcome, EmptyResult, Counters
  <2> QED BY <2>1 DEF RoundInit, RoundTypeOK
<1>2. NothingOutlivesRound
  BY DEF RoundInit, NothingOutlivesRound
<1>3. JobInOnePlace
  BY DEF RoundInit, JobInOnePlace, InHand, Busy
<1>4. Counted = EmptyResult
  <2>1. Cardinality(listed) = 0 /\ Cardinality(jobs) = 0
    BY FS_EmptySet DEF RoundInit
  <2>2. Cardinality(listed) - Cardinality(jobs) = 0
    BY <2>1
  <2> QED BY <2>1, <2>2 DEF Counted, EmptyResult
<1>5. Tally(Counted, TookJobs) = result
  <2>1. TookJobs = {}
    BY DEF RoundInit, TookJobs
  <2>2. result = EmptyResult
    BY DEF RoundInit
  <2> QED BY <1>1, <1>4, <2>1, <2>2, TallyNothing DEF RoundTypeOK, EmptyResult
<1>6. Progress
  BY <1>5 DEF RoundInit, Progress, EmptyResult
<1> QED BY <1>1, <1>2, <1>3, <1>6 DEF RoundInv

-----------------------------------------------------------------------------
(***************************************************************************)
(* The steps of the caller.                                                *)
(***************************************************************************)
\* What follows from the invariant when no round is in its parallel part.
LEMMA PoolIsOff ==
  ASSUME RoundInv, phase # "wait"
  PROVE  InHand = {} /\ current = [w \in Pool |-> NoSession]
<1>1. \A w \in Pool : current[w] = NoSession
  BY DEF RoundInv, NothingOutlivesRound, JobInOnePlace, Busy
<1> QED BY <1>1 DEF InHand, RoundInv, RoundTypeOK

LEMMA CancelInv == RoundInv /\ (Cancel \/ UNCHANGED roundVars) => RoundInv'
<1> SUFFICES ASSUME RoundInv, Cancel \/ UNCHANGED roundVars PROVE RoundInv'
  OBVIOUS
<1>1. UNCHANGED <<phase, listed, unread, jobs, poolVars, result>>
      /\ cancelled' \in BOOLEAN /\ (cancelled => cancelled')
  BY DEF Cancel, roundVars, RoundInv, RoundTypeOK
<1>2. RoundTypeOK' /\ NothingOutlivesRound'
  BY <1>1 DEF RoundInv, RoundTypeOK, NothingOutlivesRound, poolVars, Counters, Outcome
<1>3. JobInOnePlace'
  BY <1>1 DEF RoundInv, JobInOnePlace, InHand, Busy, poolVars
<1>4. Counted' = Counted /\ Tally(Counted, TookJobs)' = Tally(Counted, TookJobs)
  BY <1>1 DEF Counted, Tally, TookJobs, Failures, ReachedMax, MessagesOf, poolVars
<1>5. Progress'
  BY <1>1, <1>4 DEF RoundInv, Progress, EmptyResult, poolVars
<1> QED BY <1>2, <1>3, <1>5 DEF RoundInv

LEMMA CallInv == RoundInv /\ Call => RoundInv'
<1> SUFFICES ASSUME RoundInv, Call PROVE RoundInv'
  OBVIOUS
<1>1. InHand' = {} /\ InHand = {}
  BY PoolIsOff DEF Call, InHand
<1>2. NoOutcome \in Outcome /\ EmptyResult \in Counters
  BY RoundAssumption DEF NoOutcome, Outcome, EmptyResult, Counters
<1>3. current = [w \in Pool |-> NoSession]
  BY PoolIsOff DEF Call
<1>4. RoundTypeOK'
  BY <1>2, <1>3 DEF RoundInv, RoundTypeOK, Call
<1>5. NothingOutlivesRound'
  BY DEF RoundInv, NothingOutlivesRound, Call
<1>6. JobInOnePlace'
  BY <1>1 DEF RoundInv, JobInOnePlace, Busy, Call
<1>7. Progress'
  BY DEF Progress, Call, EmptyResult
<1> QED BY <1>4, <1>5, <1>6, <1>7 DEF RoundInv

LEMMA ListInv == RoundInv /\ (ListSessions \/ ListFails \/ Filter) => RoundInv'
<1> SUFFICES ASSUME RoundInv, ListSessions \/ ListFails \/ Filter PROVE RoundInv'
  OBVIOUS
<1>1. UNCHANGED <<cancelled, poolVars>> /\ phase \in {"listing", "filter"}
  BY DEF ListSessions, ListFails, Filter
<1>2. InHand = {} /\ InHand' = {}
  BY <1>1, PoolIsOff DEF InHand, poolVars
<1>3. unsent = {} /\ resultCh = {} /\ result = EmptyResult
  BY <1>1 DEF RoundInv, Progress
<1>0. current = [w \in Pool |-> NoSession]
  BY <1>1, PoolIsOff
<1>4. /\ listed' \in SUBSET Sessions /\ unread' \in SUBSET listed'
      /\ jobs' \in SUBSET listed'
  BY DEF RoundInv, RoundTypeOK, Progress, ListSessions, ListFails, Filter
<1>5. result' \in Counters
  BY <1>3 DEF RoundInv, RoundTypeOK, ListSessions, ListFails, Filter, Counters,
              EmptyResult
<1>6. phase' \in {"filter", "returned"} /\ (phase' = "returned" => result'.err)
      /\ (phase' = "filter" => result' = result)
      /\ (phase' = "returned" => jobs' = {})
  BY <1>1, <1>3 DEF ListSessions, ListFails, Filter, EmptyResult, RoundInv, Progress
<1>7. RoundTypeOK'
  BY <1>0, <1>1, <1>3, <1>4, <1>5, <1>6 DEF RoundInv, RoundTypeOK, poolVars
<1>8. NothingOutlivesRound'
  BY <1>1 DEF RoundInv, NothingOutlivesRound, poolVars
<1>9. JobInOnePlace'
  BY <1>1, <1>2, <1>3, <1>6 DEF RoundInv, JobInOnePlace, Busy, poolVars
<1>10. Progress'
  BY <1>1, <1>3, <1>6 DEF RoundInv, Progress, poolVars, EmptyResult
<1> QED BY <1>7, <1>8, <1>9, <1>10 DEF RoundInv

LEMMA NothingToDoInv == RoundInv /\ NothingToDo => RoundInv'
<1> SUFFICES ASSUME RoundInv, NothingToDo PROVE RoundInv'
  OBVIOUS
<1> USE DEF NothingToDo
<1>1. InHand = {} /\ InHand' = {}
  BY PoolIsOff DEF InHand, poolVars
<1>2. Counted \in Counters /\ ~Counted.err
  BY CountedType DEF RoundInv
<1>3. RoundTypeOK' /\ NothingOutlivesRound'
  BY <1>2 DEF RoundInv, RoundTypeOK, NothingOutlivesRound, poolVars
<1>4. JobInOnePlace'
  BY <1>1 DEF RoundInv, JobInOnePlace, Busy, poolVars, Progress
<1>5. Tally(Counted, {}) = Counted
  BY <1>2, TallyNothing DEF Counted
<1>6. Tally(Counted, TookJobs)' = Tally(Counted, {})
  <2>1. TookJobs' = {} /\ Counted' = Counted /\ outcome' = outcome
    BY DEF TookJobs, Counted, poolVars
  <2> QED BY <2>1 DEF Tally, Failures, ReachedMax, MessagesOf
<1>7. Progress'
  BY <1>2, <1>5, <1>6 DEF RoundInv, Progress, poolVars
<1> QED BY <1>3, <1>4, <1>7 DEF RoundInv

LEMMA StartWorkersInv == RoundInv /\ StartWorkers => RoundInv'
<1> SUFFICES ASSUME RoundInv, StartWorkers PROVE RoundInv'
  OBVIOUS
<1> USE DEF StartWorkers
<1>1. InHand = {} /\ InHand' = {} /\ current = [w \in Pool |-> NoSession]
  BY PoolIsOff DEF InHand
<1>2. Counted \in Counters /\ ~Counted.err /\ Counted' = Counted
  BY CountedType DEF RoundInv, Counted
<1>3. RoundTypeOK'
  BY <1>1, <1>2 DEF RoundInv, RoundTypeOK
<1>4. NothingOutlivesRound'
  BY DEF NothingOutlivesRound
<1>5. JobInOnePlace'
  <2>1. resultCh = {} /\ unsent' = jobs
    BY DEF RoundInv, Progress
  <2>2. \A w \in Pool : ~Busy(w)' /\ current'[w] = NoSession
    BY <1>1 DEF Busy
  <2> QED BY <1>1, <2>1, <2>2 DEF JobInOnePlace
<1>6. Cardinality(jobs) \in Nat
  BY SessionsCount DEF RoundInv, RoundTypeOK
<1>7. \A w \in Pool : worker'[w] = "done" => Cardinality(jobs') < w
  BY <1>6 DEF Pool
<1>8. Progress'
  BY <1>2, <1>7 DEF Progress
<1> QED BY <1>3, <1>4, <1>5, <1>8 DEF RoundInv

LEMMA WaitInv == RoundInv /\ Wait => RoundInv'
<1> SUFFICES ASSUME RoundInv, Wait PROVE RoundInv'
  OBVIOUS
<1>0. /\ phase = "wait" /\ phase' = "aggregate"
      /\ \A w \in Pool : worker[w] = "done"
      /\ UNCHANGED <<cancelled, listed, unread, jobs, unsent, dispatcher, worker,
                     current, outcome, resultCh, result>>
  BY DEF Wait, poolVars
<1>1. RoundTypeOK'
  BY <1>0 DEF RoundInv, RoundTypeOK
<1>2. dispatcher = "done"
  <2>1. jobs # {} /\ jobs \in SUBSET Sessions
    BY <1>0 DEF RoundInv, Progress, RoundTypeOK
  <2>2. Cardinality(jobs) \in Nat /\ Cardinality(jobs) # 0
    BY <2>1, SessionsCount, FS_EmptySet
  <2>3. 1 \in Pool
    BY RoundAssumption DEF Pool
  <2>4. dispatcher = "done" \/ Cardinality(jobs) < 1
    BY <1>0, <2>3 DEF RoundInv, Progress
  <2> QED BY <2>2, <2>4
<1>3. NothingOutlivesRound'
  BY <1>0, <1>2 DEF NothingOutlivesRound
<1>4. JobInOnePlace'
  BY <1>0 DEF RoundInv, JobInOnePlace, Busy, InHand
<1>5. Progress'
  <2>1. result = Counted /\ Counted' = Counted /\ ~result.err
    BY <1>0 DEF RoundInv, Progress, Counted
  <2>2. dispatcher' = "done" /\ unsent' # {} => cancelled'
    BY <1>0 DEF RoundInv, Progress
  <2> QED BY <1>0, <2>1, <2>2 DEF Progress
<1> QED BY <1>1, <1>3, <1>4, <1>5 DEF RoundInv

LEMMA AggregateInv == RoundInv /\ Aggregate => RoundInv'
<1> SUFFICES ASSUME RoundInv, Aggregate PROVE RoundInv'
  OBVIOUS
<1> USE DEF Aggregate
<1>1. InHand = {} /\ InHand' = {}
  BY PoolIsOff DEF InHand, poolVars
<1>2. resultCh = TookJobs /\ resultCh \in SUBSET Sessions
  BY <1>1 DEF RoundInv, JobInOnePlace, Progress, TookJobs, RoundTypeOK
<1>3. result \in Counters /\ result = Counted /\ ~result.err
  BY DEF RoundInv, RoundTypeOK, Progress
<1>4. result' \in Counters /\ ~result'.err
  BY <1>2, <1>3, TallyType
<1>5. RoundTypeOK' /\ NothingOutlivesRound'
  BY <1>4 DEF RoundInv, RoundTypeOK, NothingOutlivesRound, poolVars
<1>6. JobInOnePlace'
  BY <1>1, <1>3 DEF RoundInv, JobInOnePlace, Busy, poolVars
<1>7. Tally(Counted, TookJobs)' = Tally(Counted, TookJobs)
  BY DEF Counted, Tally, TookJobs, Failures, ReachedMax, MessagesOf, poolVars
<1>8. Progress'
  BY <1>2, <1>3, <1>4, <1>7 DEF RoundInv, Progress, poolVars
<1> QED BY <1>5, <1>6, <1>8 DEF RoundInv

-----------------------------------------------------------------------------
(***************************************************************************)
(* The steps of the dispatcher and of the workers: a round is in its       *)
(* parallel part, and what they change is only where a job is.             *)
(***************************************************************************)
\* A step of a goroutine is taken while the caller waits.
LEMMA PoolStepInWait ==
  ASSUME RoundInv, DispatcherEnds \/ \E w \in Pool : Worker(w)
  PROVE  phase = "wait" /\ UNCHANGED callerVars
BY DEF RoundInv, NothingOutlivesRound, DispatcherEnds, Worker, Dispatch,
       StartSync, SyncReturns, SendResult, WorkerEnds

\* What the caller knows stays true as long as jobCh and the workers do what
\* they should.
LEMMA WaitKept ==
  ASSUME RoundInv, phase = "wait", UNCHANGED callerVars,
         dispatcher' = "done" /\ unsent' # {} => cancelled,
         \A w \in Pool : worker'[w] = "done" =>
           worker[w] = "done" \/ dispatcher = "done",
         dispatcher = "done" => dispatcher' = "done"
  PROVE  Progress' /\ NothingOutlivesRound'
<1>1. Counted' = Counted
  BY DEF Counted, callerVars
<1>2. phase' = "wait" /\ result' = Counted' /\ ~result'.err /\ jobs' # {}
  BY <1>1 DEF RoundInv, Progress, callerVars
<1>3. \A w \in Pool : worker'[w] = "done" =>
        dispatcher' = "done" \/ Cardinality(jobs') < w
  BY DEF RoundInv, Progress, callerVars
<1>4. dispatcher' = "done" /\ unsent' # {} => cancelled'
  BY DEF callerVars
<1>5. Progress'
  BY <1>2, <1>3, <1>4 DEF Progress
<1> QED BY <1>2, <1>5 DEF NothingOutlivesRound

\* Only the places of the jobs are left to check.
LEMMA JobsInHand ==
  ASSUME RoundInv
  PROVE  /\ \A w \in Pool : ~Busy(w) => current[w] = NoSession
         /\ \A w \in Pool : Busy(w) => current[w] \in InHand
         /\ \A s \in InHand : \E w \in Pool : current[w] = s /\ Busy(w)
         /\ InHand \in SUBSET jobs /\ jobs \in SUBSET Sessions
         /\ NoSession \notin jobs
BY RoundAssumption DEF RoundInv, RoundTypeOK, JobInOnePlace, InHand

LEMMA DispatcherEndsInv == RoundInv /\ DispatcherEnds => RoundInv'
<1> SUFFICES ASSUME RoundInv, DispatcherEnds PROVE RoundInv'
  OBVIOUS
<1>1. phase = "wait" /\ UNCHANGED callerVars
  BY PoolStepInWait
<1>2. RoundTypeOK'
  BY DEF RoundInv, RoundTypeOK, DispatcherEnds, callerVars
<1>3. JobInOnePlace'
  BY DEF RoundInv, JobInOnePlace, InHand, Busy, DispatcherEnds, callerVars
<1>4. Progress' /\ NothingOutlivesRound'
  BY <1>1, WaitKept DEF DispatcherEnds
<1> QED BY <1>2, <1>3, <1>4 DEF RoundInv

LEMMA DispatchInv ==
  ASSUME RoundInv, NEW w \in Pool, Dispatch(w)
  PROVE  RoundInv'
<1>1. phase = "wait" /\ UNCHANGED callerVars
  BY PoolStepInWait DEF Worker
<1>2. PICK s \in unsent : unsent' = unsent \ {s}
                          /\ current' = [current EXCEPT ![w] = s]
  BY DEF Dispatch
<1>3. /\ worker[w] = "receive" /\ worker' = [worker EXCEPT ![w] = "start"]
      /\ UNCHANGED <<callerVars, dispatcher, outcome, resultCh>>
  BY DEF Dispatch
<1>4. s \in jobs /\ s # NoSession /\ s \in Sessions
  BY <1>2, RoundAssumption DEF RoundInv, RoundTypeOK
<1>5. RoundTypeOK'
  BY <1>2, <1>3, <1>4 DEF RoundInv, RoundTypeOK, callerVars
<1>6. current \in [Pool -> jobs \cup {NoSession}] /\ current[w] = NoSession
  BY <1>3 DEF RoundInv, RoundTypeOK, JobInOnePlace, Busy
<1>7. InHand' = InHand \cup {s}
  BY <1>2, <1>4, <1>6 DEF InHand
<1>8. \A v \in Pool : Busy(v)' <=> (v = w \/ Busy(v))
  BY <1>3 DEF Busy, RoundInv, RoundTypeOK
<1>9. JobInOnePlace'
  <2>1. s \notin InHand /\ s \notin resultCh
    BY DEF RoundInv, JobInOnePlace
  <2>2. \A v \in Pool : current[v] # s
    BY <2>1, <1>4 DEF InHand
  <2>3. \A u, v \in Pool : current'[u] = current'[v] /\ Busy(u)' => u = v
    BY <1>2, <1>3, <1>6, <1>8, <2>2 DEF RoundInv, JobInOnePlace
  <2>4. \A v \in Pool : Busy(v)' <=> current'[v] # NoSession
    BY <1>2, <1>4, <1>6, <1>8 DEF RoundInv, JobInOnePlace
  <2>5. unsent' \cup InHand' \cup resultCh' = unsent \cup InHand \cup resultCh
    BY <1>2, <1>3, <1>7
  <2>6. unsent' \cap InHand' = {} /\ unsent' \cap resultCh' = {}
        /\ InHand' \cap resultCh' = {}
    BY <1>2, <1>3, <1>7, <2>1 DEF RoundInv, JobInOnePlace
  <2> QED BY <1>1, <2>3, <2>4, <2>5, <2>6 DEF RoundInv, JobInOnePlace, callerVars
<1>10. Progress' /\ NothingOutlivesRound'
  <2>1. \A v \in Pool : worker'[v] = "done" => worker[v] = "done"
    BY <1>3 DEF RoundInv, RoundTypeOK
  <2>2. dispatcher' # "done"
    BY <1>3 DEF Dispatch
  <2> QED BY <1>1, <1>3, <2>1, <2>2, WaitKept
<1> QED BY <1>5, <1>9, <1>10 DEF RoundInv

LEMMA SyncInvStep ==
  ASSUME RoundInv, NEW w \in Pool, StartSync(w) \/ SyncReturns(w)
  PROVE  RoundInv'
<1>1. phase = "wait" /\ UNCHANGED callerVars
  BY PoolStepInWait DEF Worker
<1>2. /\ Busy(w) /\ UNCHANGED <<callerVars, unsent, dispatcher, current, resultCh>>
      /\ \E to \in {"sync", "send"} : worker' = [worker EXCEPT ![w] = to]
  BY DEF StartSync, SyncReturns, Busy
<1>3. outcome' \in [Sessions -> Outcome]
  <2>1. current[w] \in Sessions
    BY <1>2, JobsInHand
  <2> QED BY <2>1 DEF StartSync, SyncReturns, RoundInv, RoundTypeOK
<1>4. RoundTypeOK'
  BY <1>2, <1>3 DEF RoundInv, RoundTypeOK, callerVars
<1>5. \A v \in Pool : Busy(v)' <=> Busy(v)
  BY <1>2 DEF Busy, RoundInv, RoundTypeOK
<1>6. JobInOnePlace'
  BY <1>2, <1>5 DEF RoundInv, JobInOnePlace, InHand, callerVars
<1>7. Progress' /\ NothingOutlivesRound'
  <2>1. \A v \in Pool : worker'[v] = "done" => worker[v] = "done"
    BY <1>2 DEF RoundInv, RoundTypeOK
  <2>2. dispatcher' = "done" /\ unsent' # {} => cancelled
    BY <1>2 DEF RoundInv, Progress
  <2> QED BY <1>1, <1>2, <2>1, <2>2, WaitKept
<1> QED BY <1>4, <1>6, <1>7 DEF RoundInv

LEMMA SendResultInv ==
  ASSUME RoundInv, NEW w \in Pool, SendResult(w)
  PROVE  RoundInv'
<1>1. phase = "wait" /\ UNCHANGED callerVars
  BY PoolStepInWait DEF Worker
<1>2. /\ worker[w] = "send" /\ worker' = [worker EXCEPT ![w] = "receive"]
      /\ resultCh' = resultCh \cup {current[w]}
      /\ current' = [current EXCEPT ![w] = NoSession]
      /\ UNCHANGED <<callerVars, unsent, dispatcher, outcome>>
  BY DEF SendResult
<1>3. Busy(w) /\ current[w] \in InHand /\ current[w] \in jobs
      /\ current[w] # NoSession
  BY <1>2, JobsInHand DEF Busy
<1>4. RoundTypeOK'
  BY <1>2, <1>3 DEF RoundInv, RoundTypeOK, callerVars
<1>5. current \in [Pool -> jobs \cup {NoSession}]
  BY DEF RoundInv, RoundTypeOK
<1>6. \A v \in Pool : Busy(v)' <=> (v # w /\ Busy(v))
  BY <1>2 DEF Busy, RoundInv, RoundTypeOK
<1>7. InHand' = InHand \ {current[w]}
  <2>1. \A v \in Pool : v # w => current[v] # current[w]
    BY <1>3 DEF RoundInv, JobInOnePlace
  <2> QED BY <1>2, <1>5, <2>1 DEF InHand
<1>8. JobInOnePlace'
  <2>1. \A u, v \in Pool : current'[u] = current'[v] /\ Busy(u)' => u = v
    BY <1>2, <1>5, <1>6 DEF RoundInv, JobInOnePlace
  <2>2. \A v \in Pool : Busy(v)' <=> current'[v] # NoSession
    BY <1>2, <1>5, <1>6 DEF RoundInv, JobInOnePlace
  <2>3. unsent' \cup InHand' \cup resultCh' = unsent \cup InHand \cup resultCh
    BY <1>2, <1>3, <1>7
  <2>4. unsent' \cap InHand' = {} /\ unsent' \cap resultCh' = {}
        /\ InHand' \cap resultCh' = {}
    BY <1>2, <1>3, <1>7 DEF RoundInv, JobInOnePlace
  <2> QED BY <1>1, <2>1, <2>2, <2>3, <2>4 DEF RoundInv, JobInOnePlace, callerVars
<1>9. Progress' /\ NothingOutlivesRound'
  <2>1. \A v \in Pool : worker'[v] = "done" => worker[v] = "done"
    BY <1>2 DEF RoundInv, RoundTypeOK
  <2>2. dispatcher' = "done" /\ unsent' # {} => cancelled
    BY <1>2 DEF RoundInv, Progress
  <2> QED BY <1>1, <1>2, <2>1, <2>2, WaitKept
<1> QED BY <1>4, <1>8, <1>9 DEF RoundInv

LEMMA WorkerEndsInv ==
  ASSUME RoundInv, NEW w \in Pool, WorkerEnds(w)
  PROVE  RoundInv'
<1>1. phase = "wait" /\ UNCHANGED callerVars
  BY PoolStepInWait DEF Worker
<1>2. /\ worker[w] = "receive" /\ dispatcher = "done"
      /\ worker' = [worker EXCEPT ![w] = "done"]
      /\ UNCHANGED <<callerVars, unsent, dispatcher, current, outcome, resultCh>>
  BY DEF WorkerEnds
<1>3. RoundTypeOK'
  BY <1>2 DEF RoundInv, RoundTypeOK, callerVars
<1>4. \A v \in Pool : Busy(v)' <=> Busy(v)
  BY <1>2 DEF Busy, RoundInv, RoundTypeOK
<1>5. JobInOnePlace'
  BY <1>2, <1>4 DEF RoundInv, JobInOnePlace, InHand, callerVars
<1>6. Progress' /\ NothingOutlivesRound'
  <2>1. dispatcher' = "done" /\ unsent' # {} => cancelled
    BY <1>2 DEF RoundInv, Progress
  <2> QED BY <1>1, <1>2, <2>1, WaitKept
<1> QED BY <1>3, <1>5, <1>6 DEF RoundInv

-----------------------------------------------------------------------------
(***************************************************************************)
(* The theorems.                                                           *)
(***************************************************************************)
\* The invariant of a round holds in every reachable state.
THEOREM RoundInvariant == RoundSpec => []RoundInv
<1>1. RoundInv /\ [RoundNext]_roundVars => RoundInv'
  <2> SUFFICES ASSUME RoundInv, [RoundNext]_roundVars PROVE RoundInv'
    OBVIOUS
  <2>1. CASE Cancel \/ UNCHANGED roundVars
    BY <2>1, CancelInv
  <2>2. CASE Call
    BY <2>2, CallInv
  <2>3. CASE Caller
    BY <2>3, ListInv, NothingToDoInv, StartWorkersInv, WaitInv, AggregateInv
       DEF Caller
  <2>4. CASE DispatcherEnds
    BY <2>4, DispatcherEndsInv
  <2>5. ASSUME NEW w \in Pool, Worker(w) PROVE RoundInv'
    BY <2>5, DispatchInv, SyncInvStep, SendResultInv, WorkerEndsInv DEF Worker
  <2> QED BY <2>1, <2>2, <2>3, <2>4, <2>5 DEF RoundNext
<1> QED BY InitInv, <1>1, PTL DEF RoundSpec

\* Every variable stays in its range, for any number of sessions and workers.
THEOREM RoundTypeCorrect == RoundSpec => []RoundTypeOK
<1>1. RoundInv => RoundTypeOK
  BY DEF RoundInv
<1> QED BY <1>1, RoundInvariant, PTL

\* When SyncOnce has returned, none of its goroutines is left.
THEOREM GoroutinesEnd == RoundSpec => []NothingOutlivesRound
<1>1. RoundInv => NothingOutlivesRound
  BY DEF RoundInv
<1> QED BY <1>1, RoundInvariant, PTL

\* The capacity of resultCh, one slot for each job, is enough.
THEOREM ResultsNeverBlock == RoundSpec => []ResultNeverBlocks
<1>1. RoundInv => ResultNeverBlocks
  <2> SUFFICES ASSUME RoundInv, NEW w \in Pool, worker[w] = "send"
               PROVE  Cardinality(resultCh) < Cardinality(jobs)
    BY DEF ResultNeverBlocks, ResultCapacity
  <2>1. current[w] \in InHand /\ current[w] \in jobs
    BY JobsInHand DEF Busy
  <2>2. current[w] \notin resultCh
    BY <2>1 DEF RoundInv, JobInOnePlace
  <2>3. resultCh \in SUBSET jobs /\ jobs \in SUBSET Sessions
    BY DEF RoundInv, RoundTypeOK
  <2> QED BY <2>1, <2>2, <2>3, FewerSessions
<1> QED BY <1>1, RoundInvariant, PTL

\* The size of a set is that of a part and of the rest.
LEMMA PartAndRest ==
  ASSUME NEW tt \in SUBSET Sessions, NEW ss \in SUBSET tt
  PROVE  Cardinality(tt) = Cardinality(ss) + Cardinality(tt \ ss)
<1>1. IsFiniteSet(ss) /\ IsFiniteSet(tt \ ss)
      /\ Cardinality(ss) \in Nat /\ Cardinality(tt \ ss) \in Nat
  BY SessionsCount
<1>2. ss \cap (tt \ ss) = {} /\ ss \cup (tt \ ss) = tt
  OBVIOUS
<1>3. Cardinality(ss \cup (tt \ ss)) =
        Cardinality(ss) + Cardinality(tt \ ss) - Cardinality(ss \cap (tt \ ss))
  BY <1>1, FS_Union
<1>4. Cardinality(ss \cap (tt \ ss)) = 0
  BY <1>2, FS_EmptySet
<1> QED BY <1>1, <1>2, <1>3, <1>4

\* The report of a round that listed its sessions accounts for all of them.
THEOREM ReportComplete == RoundSpec => []ReportIsComplete
<1>1. RoundInv => ReportIsComplete
  <2> SUFFICES ASSUME RoundInv, phase = "returned", ~result.err
               PROVE  ReportIsComplete
    BY DEF ReportIsComplete
  <2>1. result = Tally(Counted, TookJobs)
    BY DEF RoundInv, Progress
  <2>2. dispatcher = "done" /\ (unsent # {} => cancelled)
    BY DEF RoundInv, NothingOutlivesRound, Progress
  <2>3. /\ listed \in SUBSET Sessions /\ jobs \in SUBSET listed
        /\ jobs \in SUBSET Sessions /\ unsent \in SUBSET jobs
        /\ TookJobs \in SUBSET Sessions /\ Failures(TookJobs) \in SUBSET TookJobs
        /\ unsent \in SUBSET Sessions /\ Failures(TookJobs) \in SUBSET Sessions
    BY DEF RoundInv, RoundTypeOK, TookJobs, Failures
  <2>4. Cardinality(jobs) = Cardinality(unsent) + Cardinality(TookJobs)
    BY <2>3, PartAndRest DEF TookJobs
  <2>5. Cardinality(TookJobs) = Cardinality(Failures(TookJobs))
                                + Cardinality(TookJobs \ Failures(TookJobs))
    BY <2>3, PartAndRest
  <2>6. /\ Cardinality(listed) \in Nat /\ Cardinality(jobs) \in Nat
        /\ Cardinality(unsent) \in Nat /\ Cardinality(TookJobs) \in Nat
        /\ Cardinality(Failures(TookJobs)) \in Nat
        /\ Cardinality(TookJobs \ Failures(TookJobs)) \in Nat
    BY <2>3, SessionsCount
  <2>7. /\ result.total = Cardinality(listed)
        /\ result.skipped = Cardinality(listed) - Cardinality(jobs)
        /\ result.failed = Cardinality(Failures(TookJobs))
        /\ result.synced = Cardinality(TookJobs \ Failures(TookJobs))
    BY <2>1 DEF Tally, Counted
  <2>8. result.total = result.skipped + result.synced + result.failed
                         + Cardinality(unsent)
    BY <2>4, <2>5, <2>6, <2>7
  <2>9. TookJobs \ Failures(TookJobs) = Synced
        /\ Failures(TookJobs) = TookJobs \ Synced
        /\ ReachedMax(TookJobs) = {s \in TookJobs : outcome[s].reachedMax}
    BY DEF Failures, Synced, ReachedMax
  <2>10. /\ result.maxFetchReached = Cardinality(ReachedMax(TookJobs))
         /\ result.new = MessagesOf(TookJobs \ Failures(TookJobs))
    BY <2>1 DEF Tally, Counted
  <2> QED BY <2>2, <2>7, <2>8, <2>9, <2>10 DEF ReportIsComplete
<1> QED BY <1>1, RoundInvariant, PTL

-----------------------------------------------------------------------------
(***************************************************************************)
(* The lock table, for any number of workers, paths and locks.             *)
(***************************************************************************)
USE PathLocksAssumption

LEMMA UsersFinite ==
  ASSUME NEW l
  PROVE  IsFiniteSet(Users(l)) /\ Cardinality(Users(l)) \in Nat
<1>1. Users(l) \in SUBSET Workers
  BY DEF Users
<1> QED BY <1>1, FS_Subset, FS_CardinalityType

\* Facts about a worker that uses a lock.
LEMMA UsingFacts ==
  ASSUME LocksInv, NEW w \in Workers, pc[w] \in Using
  PROVE  /\ path[w] \in Paths /\ lock[w] \in Locks
         /\ locks[path[w]] = lock[w] /\ lock[w] # None
         /\ w \in Users(lock[w])
         /\ users[lock[w]] = Cardinality(Users(lock[w])) /\ users[lock[w]] > 0
<1>1. /\ path[w] \in Paths /\ lock[w] \in Locks
      /\ locks[path[w]] = lock[w] /\ lock[w] # None
      /\ w \in Users(lock[w])
  BY DEF LocksInv, TypeOK, NeverReplaced, Users
<1>2. users[lock[w]] = Cardinality(Users(lock[w]))
  BY <1>1 DEF LocksInv, UsersExact
<1>3. Cardinality(Users(lock[w])) # 0
  BY <1>1, UsersFinite, FS_EmptySet
<1>4. Cardinality(Users(lock[w])) \in Nat
  BY UsersFinite
<1> QED BY <1>1, <1>2, <1>3, <1>4

\* UsersExact after a step, lock by lock.
LEMMA NextUsersExact ==
  ASSUME \A q \in Paths : locks'[q] \in Locks \cup {None},
         \A q \in Paths, m \in Locks :
           locks'[q] = m => users'[m] = Cardinality(Users(m)')
  PROVE  UsersExact'
<1> SUFFICES ASSUME NEW q \in Paths, locks'[q] # None
             PROVE  (users[locks[q]] = Cardinality(Users(locks[q])))'
  BY DEF UsersExact
<1>1. PICK m \in Locks : locks'[q] = m
  OBVIOUS
<1>2. Users(locks[q])' = Users(m)'
  BY <1>1 DEF Users
<1> QED BY <1>1, <1>2

-----------------------------------------------------------------------------
(***************************************************************************)
(* Taking a place at a lock.                                               *)
(***************************************************************************)
\* The new user is counted, and the users of other locks are not affected.
LEMMA UsersJoin ==
  ASSUME LocksInv, NEW w \in Workers, pc[w] = "idle", NEW l \in Locks,
         pc' = [pc EXCEPT ![w] = "waiting"], lock' = [lock EXCEPT ![w] = l]
  PROVE  /\ Users(l)' = Users(l) \cup {w} /\ w \notin Users(l)
         /\ Cardinality(Users(l)') = Cardinality(Users(l)) + 1
         /\ \A m \in Locks : m # l => Users(m)' = Users(m)
<1>1. pc \in [Workers -> Using \cup {"idle", "released"}]
      /\ lock \in [Workers -> Locks \cup {None}]
  BY DEF LocksInv, TypeOK
<1>2. w \notin Users(l) /\ Users(l)' = Users(l) \cup {w}
  BY <1>1 DEF Users, Using
<1>3. \A m \in Locks : m # l => Users(m)' = Users(m)
  BY <1>1 DEF Users, Using
<1> QED BY <1>2, <1>3, UsersFinite, FS_AddElement

LEMMA LockForStep ==
  ASSUME LocksInv, NEW w \in Workers, lockFor(w)
  PROVE  LocksInv'
<1>1. PICK p \in Paths : /\ path' = [path EXCEPT ![w] = p]
                         /\ Join(w, p) \/ Create(w, p)
  BY DEF lockFor
<1>2. PICK l \in Locks :
        /\ lock' = [lock EXCEPT ![w] = l] /\ locks'[p] = l
        /\ locks' \in [Paths -> Locks \cup {None}]
        /\ \A q \in Paths : q # p => locks'[q] = locks[q] /\ locks'[q] # l
        /\ \/ locks[p] = l /\ users' = [users EXCEPT ![l] = users[l] + 1]
           \/ /\ locks[p] = None /\ users' = [users EXCEPT ![l] = 1]
              /\ \A v \in Workers : lock[v] # l
  <2>1. CASE Join(w, p)
    <3>1. locks[p] \in Locks
      BY <2>1 DEF Join, LocksInv, TypeOK
    <3> QED BY <2>1, <3>1 DEF Join, LocksInv, TypeOK, LocksDistinct
  <2>2. CASE Create(w, p)
    <3>1. PICK l \in Locks : /\ ~Live(l)
                             /\ locks' = [locks EXCEPT ![p] = l]
                             /\ lock' = [lock EXCEPT ![w] = l]
                             /\ users' = [users EXCEPT ![l] = 1]
      BY <2>2 DEF Create
    <3>2. /\ locks' \in [Paths -> Locks \cup {None}] /\ locks'[p] = l
          /\ \A q \in Paths : q # p => locks'[q] = locks[q]
      BY <3>1 DEF LocksInv, TypeOK
    <3>3. /\ \A q \in Paths : locks[q] # l
          /\ \A v \in Workers : lock[v] # l
      BY <3>1 DEF Live
    <3> QED BY <2>2, <3>1, <3>2, <3>3 DEF Create
  <2> QED BY <1>1, <2>1, <2>2
<1>3. /\ pc[w] = "idle" /\ pc' = [pc EXCEPT ![w] = "waiting"]
      /\ UNCHANGED owner
  BY DEF lockFor
<1>4. /\ Cardinality(Users(l)') = Cardinality(Users(l)) + 1
      /\ \A m \in Locks : m # l => Users(m)' = Users(m)
  BY <1>2, <1>3, UsersJoin
<1>5. /\ pc'[w] = "waiting" /\ lock'[w] = l /\ path'[w] = p
      /\ \A v \in Workers : v # w =>
           pc'[v] = pc[v] /\ lock'[v] = lock[v] /\ path'[v] = path[v]
  BY <1>1, <1>2, <1>3 DEF LocksInv, TypeOK
<1>6. users'[l] = Cardinality(Users(l)') /\ users' \in [Locks -> Nat]
      /\ \A m \in Locks : m # l => users'[m] = users[m]
  <2>1. CASE locks[p] = l /\ users' = [users EXCEPT ![l] = users[l] + 1]
    <3>1. users[l] = Cardinality(Users(l))
      BY <2>1 DEF LocksInv, UsersExact
    <3> QED BY <1>4, <2>1, <3>1 DEF LocksInv, TypeOK
  <2>2. CASE users' = [users EXCEPT ![l] = 1] /\ \A v \in Workers : lock[v] # l
    <3>1. Users(l) = {}
      BY <2>2 DEF Users
    <3>2. Cardinality(Users(l)) = 0
      BY <3>1, FS_EmptySet
    <3> QED BY <1>4, <2>2, <3>2 DEF LocksInv, TypeOK
  <2> QED BY <1>2, <2>1, <2>2
<1>7. TypeOK'
  <2>1. /\ pc' \in [Workers -> Using \cup {"idle", "released"}]
        /\ path' \in [Workers -> Paths \cup {None}]
        /\ lock' \in [Workers -> Locks \cup {None}]
        /\ owner' \in [Locks -> Workers \cup {None}]
    BY <1>1, <1>2, <1>3 DEF LocksInv, TypeOK, Using
  <2>2. \A v \in Workers : IF pc'[v] \in Using
                           THEN path'[v] # None /\ lock'[v] # None
                           ELSE path'[v] = None /\ lock'[v] = None
    BY <1>5 DEF LocksInv, TypeOK, Using
  <2> QED BY <1>2, <1>6, <2>1, <2>2 DEF TypeOK
<1>8. NeverReplaced'
  <2> SUFFICES ASSUME NEW v \in Workers, pc'[v] \in Using
               PROVE  locks'[path'[v]] = lock'[v]
    BY DEF NeverReplaced
  <2>1. CASE v = w
    BY <1>2, <1>5, <2>1
  <2>2. CASE v # w
    <3>1. /\ path'[v] = path[v] /\ lock'[v] = lock[v] /\ path[v] \in Paths
          /\ locks[path[v]] = lock[v] /\ lock[v] # None
      BY <1>5, <2>2, UsingFacts
    <3>2. CASE path[v] # p
      BY <1>2, <3>1, <3>2
    <3>3. CASE path[v] = p
      BY <1>2, <3>1, <3>3
    <3> QED BY <3>2, <3>3
  <2> QED BY <2>1, <2>2
<1>9. UsersExact'
  <2>1. ASSUME NEW q \in Paths, NEW m \in Locks, locks'[q] = m
        PROVE  users'[m] = Cardinality(Users(m)')
    <3>1. CASE q = p
      BY <1>2, <1>6, <2>1, <3>1
    <3>2. CASE q # p
      BY <1>2, <1>4, <1>6, <2>1, <3>2 DEF LocksInv, UsersExact
    <3> QED BY <3>1, <3>2
  <2> QED BY <1>2, <2>1, NextUsersExact
<1>10. LocksDistinct'
  BY <1>2 DEF LocksInv, LocksDistinct
<1>11. OwnerWrites'
  <2> SUFFICES ASSUME NEW m \in Locks, NEW v \in Workers
               PROVE  owner'[m] = v <=> pc'[v] = "writing" /\ lock'[v] = m
    BY DEF OwnerWrites
  <2>1. owner[m] = v <=> pc[v] = "writing" /\ lock[v] = m
    BY DEF LocksInv, OwnerWrites
  <2> QED BY <1>3, <1>5, <2>1
<1> QED BY <1>7, <1>8, <1>9, <1>10, <1>11 DEF LocksInv

-----------------------------------------------------------------------------
(***************************************************************************)
(* The mutex.                                                              *)
(***************************************************************************)
\* Lock and Unlock move a worker between states in which it is counted.
LEMMA UsersSame ==
  ASSUME LocksInv, NEW w \in Workers, pc[w] \in Using, NEW to \in Using,
         pc' = [pc EXCEPT ![w] = to], UNCHANGED <<locks, users, path, lock>>
  PROVE  /\ NeverReplaced' /\ UsersExact' /\ LocksDistinct'
         /\ pc' \in [Workers -> Using \cup {"idle", "released"}]
         /\ pc'[w] = to /\ \A v \in Workers : v # w => pc'[v] = pc[v]
         /\ \A v \in Workers : pc'[v] \in Using <=> pc[v] \in Using
<1>1. /\ pc' \in [Workers -> Using \cup {"idle", "released"}]
      /\ pc'[w] = to /\ \A v \in Workers : v # w => pc'[v] = pc[v]
  BY DEF LocksInv, TypeOK
<1>2. \A v \in Workers : pc'[v] \in Using <=> pc[v] \in Using
  BY <1>1
<1>3. \A m \in Locks : Users(m)' = Users(m)
  BY <1>2 DEF Users
<1>4. UsersExact'
  BY <1>3, NextUsersExact DEF LocksInv, TypeOK, UsersExact
<1> QED BY <1>1, <1>2, <1>4 DEF LocksInv, NeverReplaced, LocksDistinct

LEMMA LockStep ==
  ASSUME LocksInv, NEW w \in Workers, Lock(w)
  PROVE  LocksInv'
<1> DEFINE l == lock[w]
<1>1. pc[w] \in Using /\ "writing" \in Using
  BY DEF Lock, Using
<1>2. /\ l \in Locks /\ owner[l] = None /\ owner' = [owner EXCEPT ![l] = w]
      /\ pc' = [pc EXCEPT ![w] = "writing"] /\ pc[w] = "waiting"
      /\ UNCHANGED <<locks, users, path, lock>>
  BY <1>1, UsingFacts DEF Lock
<1> HIDE DEF l
<1>3. /\ NeverReplaced' /\ UsersExact' /\ LocksDistinct'
      /\ pc' \in [Workers -> Using \cup {"idle", "released"}]
      /\ pc'[w] = "writing" /\ \A v \in Workers : v # w => pc'[v] = pc[v]
      /\ \A v \in Workers : pc'[v] \in Using <=> pc[v] \in Using
  BY <1>1, <1>2, UsersSame
<1>4. /\ owner' \in [Locks -> Workers \cup {None}] /\ owner'[l] = w
      /\ \A m \in Locks : m # l => owner'[m] = owner[m]
  BY <1>2 DEF LocksInv, TypeOK
<1>5. TypeOK'
  BY <1>2, <1>3, <1>4 DEF LocksInv, TypeOK
<1>6. OwnerWrites'
  <2> SUFFICES ASSUME NEW m \in Locks, NEW v \in Workers
               PROVE  owner'[m] = v <=> pc'[v] = "writing" /\ lock'[v] = m
    BY DEF OwnerWrites
  <2>1. owner[m] = v <=> pc[v] = "writing" /\ lock[v] = m
    BY DEF LocksInv, OwnerWrites
  <2> QED BY <1>2, <1>3, <1>4, <2>1 DEF l
<1> QED BY <1>3, <1>5, <1>6 DEF LocksInv

LEMMA UnlockStep ==
  ASSUME LocksInv, NEW w \in Workers, Unlock(w)
  PROVE  LocksInv'
<1> DEFINE l == lock[w]
<1>1. pc[w] \in Using /\ "unlocked" \in Using
  BY DEF Unlock, Using
<1>2. /\ l \in Locks /\ owner' = [owner EXCEPT ![l] = None]
      /\ pc' = [pc EXCEPT ![w] = "unlocked"] /\ pc[w] = "writing"
      /\ UNCHANGED <<locks, users, path, lock>>
  BY <1>1, UsingFacts DEF Unlock
<1>3. owner[l] = w
  BY <1>2 DEF LocksInv, OwnerWrites
<1> HIDE DEF l
<1>4. /\ NeverReplaced' /\ UsersExact' /\ LocksDistinct'
      /\ pc' \in [Workers -> Using \cup {"idle", "released"}]
      /\ pc'[w] = "unlocked" /\ \A v \in Workers : v # w => pc'[v] = pc[v]
      /\ \A v \in Workers : pc'[v] \in Using <=> pc[v] \in Using
  BY <1>1, <1>2, UsersSame
<1>5. /\ owner' \in [Locks -> Workers \cup {None}] /\ owner'[l] = None
      /\ \A m \in Locks : m # l => owner'[m] = owner[m]
  BY <1>2 DEF LocksInv, TypeOK
<1>6. TypeOK'
  BY <1>2, <1>4, <1>5 DEF LocksInv, TypeOK
<1>7. OwnerWrites'
  <2> SUFFICES ASSUME NEW m \in Locks, NEW v \in Workers
               PROVE  owner'[m] = v <=> pc'[v] = "writing" /\ lock'[v] = m
    BY DEF OwnerWrites
  <2>1. owner[m] = v <=> pc[v] = "writing" /\ lock[v] = m
    BY DEF LocksInv, OwnerWrites
  <2> QED BY <1>2, <1>3, <1>4, <1>5, <2>1 DEF l
<1> QED BY <1>4, <1>6, <1>7 DEF LocksInv

-----------------------------------------------------------------------------
(***************************************************************************)
(* Giving the place up, and cleaning up.                                   *)
(***************************************************************************)
LEMMA ReleaseStep ==
  ASSUME LocksInv, NEW w \in Workers, releaseLock(w)
  PROVE  LocksInv'
<1>1. pc[w] \in Using /\ pc[w] = "unlocked"
  BY DEF releaseLock, Using
<1>2. PICK l \in Locks :
      /\ l = lock[w] /\ locks[path[w]] = l /\ w \in Users(l)
      /\ users[l] = Cardinality(Users(l)) /\ users[l] > 0
  BY <1>1, UsingFacts
<1>3. /\ users' = [users EXCEPT ![l] = users[l] - 1]
      /\ pc' = [pc EXCEPT ![w] = "released"]
      /\ path' = [path EXCEPT ![w] = None] /\ lock' = [lock EXCEPT ![w] = None]
      /\ UNCHANGED <<locks, owner>>
  BY <1>2 DEF releaseLock
<1>4. /\ pc'[w] = "released" /\ path'[w] = None /\ lock'[w] = None
      /\ \A v \in Workers : v # w =>
           pc'[v] = pc[v] /\ lock'[v] = lock[v] /\ path'[v] = path[v]
  BY <1>3 DEF LocksInv, TypeOK
<1>5. /\ Users(l)' = Users(l) \ {w}
      /\ \A m \in Locks : m # l => Users(m)' = Users(m)
  BY <1>2, <1>4 DEF Users, Using
<1>6. Cardinality(Users(l)') = Cardinality(Users(l)) - 1
  BY <1>2, <1>5, UsersFinite, FS_RemoveElement
<1>7. /\ users' \in [Locks -> Nat] /\ users'[l] = users[l] - 1
      /\ \A m \in Locks : m # l => users'[m] = users[m]
  BY <1>2, <1>3 DEF LocksInv, TypeOK
<1>8. TypeOK'
  <2>1. /\ pc' \in [Workers -> Using \cup {"idle", "released"}]
        /\ path' \in [Workers -> Paths \cup {None}]
        /\ lock' \in [Workers -> Locks \cup {None}]
    BY <1>3 DEF LocksInv, TypeOK
  <2>2. \A v \in Workers : IF pc'[v] \in Using
                           THEN path'[v] # None /\ lock'[v] # None
                           ELSE path'[v] = None /\ lock'[v] = None
    BY <1>4 DEF LocksInv, TypeOK, Using
  <2> QED BY <1>3, <1>7, <2>1, <2>2 DEF LocksInv, TypeOK
<1>9. UsersExact'
  <2>1. ASSUME NEW q \in Paths, NEW m \in Locks, locks'[q] = m
        PROVE  users'[m] = Cardinality(Users(m)')
    <3>1. users[m] = Cardinality(Users(m))
      BY <1>3, <2>1 DEF LocksInv, UsersExact
    <3>2. CASE m = l
      BY <1>2, <1>6, <1>7, <3>2
    <3>3. CASE m # l
      BY <1>5, <1>7, <3>1, <3>3
    <3> QED BY <3>2, <3>3
  <2> QED BY <1>8, <2>1, NextUsersExact DEF TypeOK
<1>10. NeverReplaced' /\ LocksDistinct'
  BY <1>3, <1>4 DEF LocksInv, NeverReplaced, LocksDistinct, Using
<1>11. OwnerWrites'
  <2> SUFFICES ASSUME NEW m \in Locks, NEW v \in Workers
               PROVE  owner'[m] = v <=> pc'[v] = "writing" /\ lock'[v] = m
    BY DEF OwnerWrites
  <2>1. owner[m] = v <=> pc[v] = "writing" /\ lock[v] = m
    BY DEF LocksInv, OwnerWrites
  <2> QED BY <1>1, <1>3, <1>4, <2>1
<1> QED BY <1>8, <1>9, <1>10, <1>11 DEF LocksInv

\* What is removed has no users, so nobody can miss it.
LEMMA CleanupStep ==
  ASSUME LocksInv, NEW w \in Workers, cleanupIdleLocks(w)
  PROVE  LocksInv'
<1>1. PICK expired \in SUBSET {p \in Paths : Unused(p)} :
        locks' = [p \in Paths |-> IF p \in expired THEN None ELSE locks[p]]
  BY DEF cleanupIdleLocks
<1>2. /\ pc[w] = "released" /\ pc' = [pc EXCEPT ![w] = "idle"]
      /\ UNCHANGED <<users, owner, path, lock>>
  BY DEF cleanupIdleLocks
<1>3. pc'[w] = "idle" /\ \A v \in Workers : v # w => pc'[v] = pc[v]
  BY <1>2 DEF LocksInv, TypeOK
<1>4. \A v \in Workers : pc'[v] \in Using <=> pc[v] \in Using
  BY <1>2, <1>3 DEF Using
<1>5. \A m \in Locks : Users(m)' = Users(m)
  BY <1>2, <1>4 DEF Users
<1>6. TypeOK'
  <2>1. locks' \in [Paths -> Locks \cup {None}]
    BY <1>1 DEF LocksInv, TypeOK
  <2>2. pc' \in [Workers -> Using \cup {"idle", "released"}]
    BY <1>2 DEF LocksInv, TypeOK
  <2> QED BY <1>2, <1>4, <2>1, <2>2 DEF LocksInv, TypeOK
<1>7. NeverReplaced'
  <2> SUFFICES ASSUME NEW v \in Workers, pc'[v] \in Using
               PROVE  locks'[path'[v]] = lock'[v]
    BY DEF NeverReplaced
  <2>1. /\ path[v] \in Paths /\ locks[path[v]] = lock[v]
        /\ users[lock[v]] > 0
    BY <1>4, UsingFacts
  <2>2. path[v] \notin expired
    BY <2>1 DEF Unused
  <2> QED BY <1>1, <1>2, <2>1, <2>2
<1>8. UsersExact'
  <2>1. ASSUME NEW q \in Paths, NEW m \in Locks, locks'[q] = m
        PROVE  users'[m] = Cardinality(Users(m)')
    <3>1. locks[q] = m
      BY <1>1, <2>1
    <3> QED BY <1>2, <1>5, <3>1 DEF LocksInv, UsersExact
  <2> QED BY <1>6, <2>1, NextUsersExact DEF TypeOK
<1>9. LocksDistinct'
  BY <1>1 DEF LocksInv, LocksDistinct
<1>10. OwnerWrites'
  <2> SUFFICES ASSUME NEW m \in Locks, NEW v \in Workers
               PROVE  owner'[m] = v <=> pc'[v] = "writing" /\ lock'[v] = m
    BY DEF OwnerWrites
  <2>1. owner[m] = v <=> pc[v] = "writing" /\ lock[v] = m
    BY DEF LocksInv, OwnerWrites
  <2> QED BY <1>2, <1>3, <2>1
<1> QED BY <1>6, <1>7, <1>8, <1>9, <1>10 DEF LocksInv

-----------------------------------------------------------------------------
(***************************************************************************)
(* The theorems.                                                           *)
(***************************************************************************)
\* The strengthened invariant holds in every reachable state.
THEOREM LocksInvariant == Spec => []LocksInv
<1>1. Init => LocksInv
  <2> SUFFICES ASSUME Init PROVE LocksInv
    OBVIOUS
  <2>1. TypeOK /\ NeverReplaced /\ LocksDistinct /\ OwnerWrites
    BY DEF Init, TypeOK, NeverReplaced, LocksDistinct, OwnerWrites, Using
  <2>2. UsersExact
    BY DEF Init, UsersExact
  <2> QED BY <2>1, <2>2 DEF LocksInv
<1>2. ASSUME LocksInv, [Next]_vars
      PROVE  LocksInv'
  <2>1. CASE UNCHANGED vars
    <3>1. \A m \in Locks : Users(m)' = Users(m)
      BY <2>1 DEF vars, Users
    <3>2. UsersExact'
      BY <1>2, <2>1, <3>1, NextUsersExact DEF vars, LocksInv, TypeOK, UsersExact
    <3> QED BY <1>2, <2>1, <3>2 DEF vars, LocksInv, TypeOK, NeverReplaced,
                                    LocksDistinct, OwnerWrites
  <2>2. ASSUME NEW w \in Workers, Write(w)
        PROVE  LocksInv'
    BY <1>2, <2>2, LockForStep, LockStep, UnlockStep, ReleaseStep, CleanupStep
       DEF Write
  <2> QED BY <1>2, <2>1, <2>2 DEF Next
<1> QED BY <1>1, <1>2, PTL DEF Spec

\* No two goroutines write to one file at a time.
THEOREM OneWriter == Spec => []OneWriterPerPath
<1>1. ASSUME LocksInv PROVE OneWriterPerPath
  <2> SUFFICES ASSUME NEW v \in Workers, NEW w \in Workers, pc[v] = "writing",
                      pc[w] = "writing", path[v] = path[w]
               PROVE  v = w
    BY DEF OneWriterPerPath
  <2>1. lock[v] = lock[w] /\ lock[v] \in Locks
    BY <1>1, UsingFacts DEF Using
  <2>2. owner[lock[v]] = v /\ owner[lock[w]] = w
    BY <1>1, <2>1 DEF LocksInv, OwnerWrites
  <2> QED BY <2>1, <2>2
<1> QED BY <1>1, LocksInvariant, PTL

\* The case releaseLock takes for impossible is impossible.
THEOREM ReplacedNever == Spec => []NeverReplaced
<1>1. LocksInv => NeverReplaced
  BY DEF LocksInv
<1> QED BY <1>1, LocksInvariant, PTL

HIDE PathLocksAssumption

-----------------------------------------------------------------------------
(***************************************************************************)
(* A request, for any timeout.                                             *)
(***************************************************************************)
HttpTypeOK ==
  /\ reqPc \in {"idle", "request", "backoff", "returned"}
  /\ attempt \in 1 .. Http!maxHTTPAttempts
  /\ timer \in Nat
  /\ elapsed \in Nat

\* The time of n attempts and of the first m backoffs, at their longest.
Spent(n, m) == n * Timeout + (IF m = 0 THEN 0 ELSE IF m = 1 THEN 3 ELSE 9)

\* The time that has passed, and what is left of the timer, fit the attempts
\* and the backoffs so far; there is no backoff after the last attempt.
InTime ==
  /\ reqPc = "idle" => attempt = 1 /\ elapsed = 0
  /\ reqPc = "request" => elapsed + timer <= Spent(attempt, attempt - 1)
  /\ reqPc = "backoff" => /\ attempt < Http!maxHTTPAttempts
                          /\ elapsed + timer <= Spent(attempt, attempt)
  /\ reqPc = "returned" => elapsed <= Spent(3, 2)

HttpInv == HttpTypeOK /\ InTime

\* The two backoffs of a request, in half units.
LEMMA Backoffs == Http!retryBackoff(1) = 2 .. 3 /\ Http!retryBackoff(2) = 4 .. 6
<1>1. 2 ^ 0 = 1 /\ 2 ^ 1 = 2 /\ 2 ^ 2 = 4
  OBVIOUS
<1>2. 1 - 1 = 0 /\ 2 - 1 = 1
  OBVIOUS
<1>3. QED
  BY <1>1, <1>2 DEF Http!retryBackoff

LEMMA HttpInitially == Http!Init => HttpInv
BY DEF Http!Init, HttpInv, HttpTypeOK, InTime, Http!maxHTTPAttempts

LEMMA HttpPreserved == HttpInv /\ [Http!Next]_httpVars => HttpInv'
<1> SUFFICES ASSUME HttpInv, [Http!Next]_httpVars PROVE HttpInv'
  OBVIOUS
<1> USE TimeoutAssumption DEF HttpInv, HttpTypeOK, InTime, Spent, Http!maxHTTPAttempts
<1>1. CASE Http!Cancel
  BY <1>1 DEF Http!Cancel
<1>2. CASE Http!Get
  BY <1>2 DEF Http!Get
<1>3. ASSUME NEW end, Http!AfterAttempt(end) PROVE HttpInv'
  <2>1. reqPc = "request" /\ attempt' = attempt /\ elapsed' = elapsed
    BY <1>3 DEF Http!AfterAttempt
  <2>2. CASE reqPc' = "returned" /\ timer' = 0
    BY <2>1, <2>2
  <2>3. CASE /\ attempt # 3 /\ reqPc' = "backoff"
             /\ timer' \in Http!retryBackoff(attempt)
    BY <2>1, <2>3, Backoffs
  <2>4. QED
    BY <1>3, <2>2, <2>3 DEF Http!AfterAttempt, Http!Return, Http!LastAttempt
<1>4. CASE Http!BackoffEnds
  BY <1>4 DEF Http!BackoffEnds, Http!Return
<1>5. CASE Http!Tick
  BY <1>5 DEF Http!Tick
<1>6. CASE UNCHANGED httpVars
  BY <1>6 DEF httpVars
<1>7. QED
  BY <1>1, <1>2, <1>3, <1>4, <1>5, <1>6 DEF Http!Next, Http!AttemptEnds

\* HttpSource calls its tuple of variables vars.
LEMMA HttpStands == UNCHANGED httpVars <=> UNCHANGED Http!vars
BY DEF httpVars, Http!vars

LEMMA HttpInvariant == Http!Spec => []HttpInv
<1>1. [Http!Next]_(Http!vars) => [Http!Next]_httpVars
  BY HttpStands
<1>2. QED
  BY <1>1, HttpInitially, HttpPreserved, PTL DEF Http!Spec

\* No request takes longer than three timeouts and the two backoffs with all
\* their jitter.
THEOREM TimeAlwaysBounded == Http!Spec => []TimeIsBounded
<1>1. HttpInv => TimeIsBounded
  <2>1. 2 ^ (3 - 1) = 4
    OBVIOUS
  <2>2. QED
    BY <2>1, TimeoutAssumption DEF HttpInv, HttpTypeOK, InTime, Spent, TimeIsBounded,
            Http!TimeIsBounded, Http!maxHTTPAttempts
<1>2. QED
  BY <1>1, HttpInvariant, PTL

-----------------------------------------------------------------------------
(***************************************************************************)
(* The run: what it explores are behaviours of all three.                  *)
(***************************************************************************)
LEMMA PartsAreSpecs == PartsSpec => RoundSpec /\ Spec /\ Http!Spec
<1>1. PartsInit => RoundInit /\ Init /\ Http!Init
  BY DEF PartsInit
<1>2. [PartsNext]_<<machine, partVars>>
        => [RoundNext]_roundVars /\ [Next]_vars /\ [Http!Next]_(Http!vars)
  <2>1. PartsNext => [RoundNext]_roundVars /\ [Next]_vars /\ [Http!Next]_(Http!vars)
    BY HttpStands DEF PartsNext
  <2>2. UNCHANGED <<machine, partVars>>
          => UNCHANGED roundVars /\ UNCHANGED vars /\ UNCHANGED Http!vars
    BY HttpStands DEF partVars
  <2>3. QED
    BY <2>1, <2>2
<1>3. QED
  BY <1>1, <1>2, PTL DEF PartsSpec, RoundSpec, Spec, Http!Spec

\* All the safety properties hold side by side in the composed specification
\* that TLC runs.
THEOREM PartsAreSafe ==
  PartsSpec => /\ [](NothingOutlivesRound /\ ReportIsComplete)
               /\ []OneWriterPerPath
               /\ []TimeIsBounded
BY PartsAreSpecs, GoroutinesEnd, ReportComplete, OneWriter, TimeAlwaysBounded, PTL
=============================================================================
