------------------------- MODULE SessionSyncProofs -------------------------
(***************************************************************************)
(* Proofs about SessionSync, for every number of instances, sessions,      *)
(* messages and faults and every fetch limit.                              *)
(***************************************************************************)
EXTENDS SessionSync, TLAPS

SP == INSTANCE StateStoreProofs

USE SyncAssumption

-----------------------------------------------------------------------------
(***************************************************************************)
(* The job steps.  After(j, b): job j moves to state b, the others stay.   *)
(***************************************************************************)
After(j, b) == /\ b \in JobState
               /\ job' \in [Jobs -> JobState]
               /\ job'[j] = b
               /\ \A q \in Jobs \ {j} : job'[q] = job[q]

LEMMA JobUpdate ==
  ASSUME TypeOK, NEW j \in Jobs, NEW b \in JobState,
         job' = [job EXCEPT ![j] = b]
  PROVE  After(j, b)
BY DEF TypeOK, After

LEMMA JobType ==
  ASSUME TypeOK, NEW j \in Jobs
  PROVE  /\ job[j] \in JobState
         /\ j[1] \in Instances /\ j[2] \in Sessions
         /\ updated[j[2]] \in Times /\ total[j[2]] \in 0 .. MaxMsgs
BY DEF TypeOK, Jobs

LEMMA LimitType ==
  /\ EffectiveMaxFetch \in Nat
  /\ SmallerOf(MessageLimit, EffectiveMaxFetch) \in 0 .. EffectiveMaxFetch
  /\ \A n \in 0 .. EffectiveMaxFetch :
       SmallerOf(n + MessageLimit, EffectiveMaxFetch) \in 0 .. EffectiveMaxFetch
BY DEF SmallerOf, EffectiveMaxFetch

LEMMA IdleType ==
  /\ Idle \in JobState
  /\ \A t \in Times : [Idle EXCEPT !.pc = "listed", !.seen = t] \in JobState
<1>1. 0 \in Times /\ 0 \in 0 .. EffectiveMaxFetch /\ 0 \in 0 .. MaxMsgs
  BY LimitType DEF Times
<1> QED BY <1>1 DEF Idle, JobState, PC, Working

\* The moves between states of a job.
Moved(b, to) == [b EXCEPT !.pc = to]

LEMMA MovedType ==
  ASSUME NEW b \in JobState, NEW to \in PC
  PROVE  Moved(b, to) \in JobState
BY DEF Moved, JobState

LEMMA FilterAfter ==
  ASSUME TypeOK, NEW j \in Jobs, FilterSession(j)
  PROVE  After(j, Moved(job[j], "queued")) \/ After(j, Idle)
<1>1. \/ job' = [job EXCEPT ![j] = Moved(job[j], "queued")]
      \/ job' = [job EXCEPT ![j] = Idle]
  BY DEF FilterSession, Moved
<1>2. Moved(job[j], "queued") \in JobState /\ Idle \in JobState
  BY JobType, MovedType, IdleType DEF PC
<1> QED BY <1>1, <1>2, JobUpdate

LEMMA TakeAfter ==
  ASSUME TypeOK, NEW j \in Jobs, TakeJob(j)
  PROVE  After(j, Moved(job[j], "detail"))
<1>1. job' = [job EXCEPT ![j] = Moved(job[j], "detail")]
  BY DEF TakeJob, Moved
<1>2. Moved(job[j], "detail") \in JobState
  BY JobType, MovedType DEF PC, Working
<1> QED BY <1>1, <1>2, JobUpdate

Detailed(j) == [job[j] EXCEPT !.pc = "probe", !.seen = updated[j[2]],
                  !.limit = SmallerOf(MessageLimit, EffectiveMaxFetch)]

LEMMA GetSessionAfter ==
  ASSUME TypeOK, NEW j \in Jobs, GetSession(j)
  PROVE  After(j, Detailed(j))
<1>1. job' = [job EXCEPT ![j] = Detailed(j)]
  BY DEF GetSession, Detailed
<1>2. Detailed(j) \in JobState
  <2> DEFINE b == job[j]
             n == SmallerOf(MessageLimit, EffectiveMaxFetch)
  <2>1. b \in JobState /\ n \in 0 .. EffectiveMaxFetch /\ updated[j[2]] \in Times
    BY JobType, LimitType
  <2>2. Detailed(j) = [b EXCEPT !.pc = "probe", !.seen = updated[j[2]], !.limit = n]
    BY DEF Detailed
  <2> HIDE DEF b, n
  <2> QED BY <2>1, <2>2 DEF JobState, PC, Working
<1> QED BY <1>1, <1>2, JobUpdate

ListedAs(j) == [job[j] EXCEPT !.pc = "bound", !.top = total[j[2]]]

LEMMA ListMessagesAfter ==
  ASSUME TypeOK, NEW j \in Jobs, ListMessages(j)
  PROVE  After(j, ListedAs(j))
<1>1. job' = [job EXCEPT ![j] = ListedAs(j)]
  BY DEF ListMessages, ListedAs
<1>2. ListedAs(j) \in JobState
  BY JobType DEF ListedAs, JobState, PC, Working
<1> QED BY <1>1, <1>2, JobUpdate

Exhausted(b) == [b EXCEPT !.pc = "stats", !.reached = TRUE]
Grown(b) == [b EXCEPT !.pc = "probe",
               !.limit = SmallerOf(b.limit + MessageLimit, EffectiveMaxFetch)]

LEMMA ProbeDecisionAfter ==
  ASSUME TypeOK, NEW j \in Jobs, ProbeDecision(j)
  PROVE  \/ After(j, Moved(job[j], "stats")) /\ BoundaryFound(j)
         \/ After(j, Exhausted(job[j])) /\ j[2] \in warned'
         \/ After(j, Grown(job[j]))
<1> DEFINE b == job[j]
           n == SmallerOf(b.limit + MessageLimit, EffectiveMaxFetch)
<1>1. b \in JobState
  BY JobType
<1>2. n \in 0 .. EffectiveMaxFetch
  BY <1>1, LimitType DEF JobState
<1>3. \/ job' = [job EXCEPT ![j] = Moved(b, "stats")] /\ BoundaryFound(j)
      \/ job' = [job EXCEPT ![j] = Exhausted(b)] /\ j[2] \in warned'
      \/ job' = [job EXCEPT ![j] = Grown(b)]
  BY DEF ProbeDecision, Moved, Exhausted, Grown
<1>4. Grown(b) = [b EXCEPT !.pc = "probe", !.limit = n]
  BY DEF Grown
<1> HIDE DEF b, n
<1>5. Moved(b, "stats") \in JobState
  BY <1>1, MovedType DEF PC, Working
<1>6. Exhausted(b) \in JobState /\ Grown(b) \in JobState
  BY <1>1, <1>2, <1>4 DEF Exhausted, JobState, PC, Working
<1> QED BY <1>3, <1>5, <1>6, JobUpdate DEF b

LEMMA FetchStatsAfter ==
  ASSUME TypeOK, NEW j \in Jobs, FetchStats(j)
  PROVE  After(j, Moved(job[j], "dedup"))
<1>1. job' = [job EXCEPT ![j] = Moved(job[j], "dedup")]
  BY DEF FetchStats, Moved
<1>2. Moved(job[j], "dedup") \in JobState
  BY JobType, MovedType DEF PC, Working
<1> QED BY <1>1, <1>2, JobUpdate

WithBatch(b, to, recs) == [b EXCEPT !.pc = to, !.recs = recs]

LEMMA WithBatchType ==
  ASSUME NEW b \in JobState, NEW to \in PC, NEW recs \in SUBSET Msgs
  PROVE  WithBatch(b, to, recs) \in JobState
BY DEF WithBatch, JobState

LEMMA DeduplicateAfter ==
  ASSUME TypeOK, NEW j \in Jobs, Deduplicate(j)
  PROVE  After(j, WithBatch(job[j], "prepare",
                            Store!UnseenMessages(j[2], Window(job[j]))))
<1> DEFINE r == Store!UnseenMessages(j[2], Window(job[j]))
<1>1. r \in SUBSET Msgs
  BY DEF Store!UnseenMessages, Window
<1>2. job' = [job EXCEPT ![j] = WithBatch(job[j], "prepare", r)]
  BY DEF Deduplicate, WithBatch
<1> HIDE DEF r
<1>3. WithBatch(job[j], "prepare", r) \in JobState
  BY <1>1, JobType, WithBatchType DEF PC, Working
<1> QED BY <1>2, <1>3, JobUpdate DEF r

LEMMA PrepareAfter ==
  ASSUME TypeOK, NEW j \in Jobs, Prepare(j)
  PROVE  After(j, WithBatch(job[j], "write", Store!Prepared(j[2], job[j].recs)))
<1> DEFINE r == Store!Prepared(j[2], job[j].recs)
<1>1. r \in SUBSET Msgs
  BY JobType DEF Store!Prepared, JobState
<1>2. job' = [job EXCEPT ![j] = WithBatch(job[j], "write", r)]
  BY DEF Prepare, WithBatch
<1> HIDE DEF r
<1>3. WithBatch(job[j], "write", r) \in JobState
  BY <1>1, JobType, WithBatchType DEF PC, Working
<1> QED BY <1>2, <1>3, JobUpdate DEF r

\* Record k is completed.
WithLine(b, k) == [b EXCEPT !.out = @ \cup {k}, !.half = FALSE]
WithHead(b) == [b EXCEPT !.half = TRUE]

LEMMA FlushRecordAfter ==
  ASSUME TypeOK, NEW j \in Jobs, FlushRecord(j)
  PROVE  \E k \in Msgs : /\ NextRecord(job[j], k)
                         /\ Put(j, k, IF job[j].half THEN "tail" ELSE "line")
                         /\ After(j, WithLine(job[j], k))
<1>1. PICK k \in Msgs : /\ NextRecord(job[j], k)
                        /\ Put(j, k, IF job[j].half THEN "tail" ELSE "line")
                        /\ job' = [job EXCEPT ![j] = WithLine(job[j], k)]
  BY DEF FlushRecord, WithLine
<1>2. WithLine(job[j], k) \in JobState
  BY JobType DEF WithLine, JobState
<1> QED BY <1>1, <1>2, JobUpdate

LEMMA FlushHeadAfter ==
  ASSUME TypeOK, NEW j \in Jobs, FlushHead(j)
  PROVE  /\ \E k \in Msgs : NextRecord(job[j], k) /\ Put(j, k, "head")
         /\ After(j, WithHead(job[j]))
<1>1. job' = [job EXCEPT ![j] = WithHead(job[j])]
  BY DEF FlushHead, WithHead
<1>2. WithHead(job[j]) \in JobState
  BY JobType DEF WithHead, JobState
<1>3. After(j, WithHead(job[j]))
  BY <1>1, <1>2, JobUpdate
<1> QED BY <1>3 DEF FlushHead

LEMMA WriteDoneAfter ==
  ASSUME TypeOK, NEW j \in Jobs, WriteDone(j)
  PROVE  After(j, Moved(job[j], "mark"))
<1>1. job' = [job EXCEPT ![j] = Moved(job[j], "mark")]
  BY DEF WriteDone, Moved
<1>2. Moved(job[j], "mark") \in JobState
  BY JobType, MovedType DEF PC, Working
<1> QED BY <1>1, <1>2, JobUpdate

LEMMA WriteFailsAfter ==
  ASSUME TypeOK, NEW j \in Jobs, WriteFails(j)
  PROVE  After(j, Moved(job[j], "markfail"))
<1>1. job' = [job EXCEPT ![j] = Moved(job[j], "markfail")]
  BY DEF WriteFails, Moved
<1>2. Moved(job[j], "markfail") \in JobState
  BY JobType, MovedType DEF PC, Working
<1> QED BY <1>1, <1>2, JobUpdate

LEMMA EndsAfter ==
  ASSUME TypeOK, NEW j \in Jobs,
         MarkWritten(j) \/ MarkFailed(j) \/ CallFails(j)
  PROVE  After(j, Idle)
<1>1. job' = [job EXCEPT ![j] = Idle]
  BY DEF MarkWritten, MarkFailed, CallFails
<1> QED BY <1>1, IdleType, JobUpdate

\* Starting a round and dying touch the jobs of one instance.
LEMMA RoundAfter ==
  ASSUME TypeOK, NEW i \in Instances, ListSessions(i) \/ Restart(i)
  PROVE  /\ job' \in [Jobs -> JobState]
         /\ \A q \in Jobs :
              \/ job'[q] = job[q]
              \/ job'[q] = Idle
              \/ job'[q] = [Idle EXCEPT !.pc = "listed", !.seen = updated[q[2]]]
<1>1. CASE ListSessions(i)
  <2>1. \A q \in Jobs : updated[q[2]] \in Times
    BY JobType
  <2>2. \A q \in Jobs : job'[q] = IF q[1] = i
              THEN [Idle EXCEPT !.pc = "listed", !.seen = updated[q[2]]]
              ELSE job[q]
    BY <1>1 DEF ListSessions
  <2>3. \A q \in Jobs : job'[q] \in JobState
    BY <2>1, <2>2, IdleType DEF TypeOK
  <2>4. job' = [q \in Jobs |-> job'[q]]
    BY <1>1 DEF ListSessions
  <2> QED BY <2>2, <2>3, <2>4
<1>2. CASE Restart(i)
  <2>1. \A q \in Jobs : job'[q] = IF q[1] = i THEN Idle ELSE job[q]
    BY <1>2 DEF Restart
  <2>2. \A q \in Jobs : job'[q] \in JobState
    BY <2>1, IdleType DEF TypeOK
  <2>3. job' = [q \in Jobs |-> job'[q]]
    BY <1>2 DEF Restart
  <2> QED BY <2>1, <2>2, <2>3
<1> QED BY <1>1, <1>2

-----------------------------------------------------------------------------
(***************************************************************************)
(* The output file only grows.                                             *)
(***************************************************************************)
LEMMA PutGrows ==
  ASSUME TypeOK, NEW j \in Jobs, NEW k \in Msgs, NEW part \in Part,
         Put(j, k, part)
  PROVE  /\ file' \in [Sessions -> Seq(Chunk)]
         /\ \A s \in Sessions : \A n \in DOMAIN file[s] :
              n \in DOMAIN file'[s] /\ file'[s][n] = file[s][n]
         /\ \A s \in Sessions \ {j[2]} : file'[s] = file[s]
         /\ Len(file'[j[2]]) = Len(file[j[2]]) + 1
         /\ file'[j[2]][Len(file[j[2]]) + 1] =
              [msg |-> k, part |-> part, by |-> j[1]]
<1> DEFINE c == [msg |-> k, part |-> part, by |-> j[1]]
           f == file[j[2]]
<1>1. j[2] \in Sessions /\ f \in Seq(Chunk) /\ c \in Chunk
  BY JobType DEF TypeOK, Chunk
<1>2. file' = [file EXCEPT ![j[2]] = Append(f, c)]
  BY DEF Put
<1>3. /\ Append(f, c) \in Seq(Chunk)
      /\ Len(Append(f, c)) = Len(f) + 1
      /\ Append(f, c)[Len(f) + 1] = c
      /\ \A n \in DOMAIN f : n \in DOMAIN Append(f, c) /\ Append(f, c)[n] = f[n]
  <2> HIDE DEF c, f
  <2> QED BY <1>1
<1> HIDE DEF c, f
<1>4. file'[j[2]] = Append(f, c)
  BY <1>1, <1>2 DEF TypeOK
<1>5. \A s \in Sessions \ {j[2]} : file'[s] = file[s]
  BY <1>2 DEF TypeOK
<1>6. file' \in [Sessions -> Seq(Chunk)]
  BY <1>1, <1>2, <1>3 DEF TypeOK
<1> QED BY <1>3, <1>4, <1>5, <1>6 DEF c, f

LEMMA PutFlushes ==
  ASSUME TypeOK, NEW j \in Jobs, NEW k \in Msgs, NEW part \in Part,
         Put(j, k, part)
  PROVE  /\ \A s \in Sessions, m \in Msgs : Flushed(s, m) => Flushed(s, m)'
         /\ part # "head" => Flushed(j[2], k)'
<1>1. \A s \in Sessions, m \in Msgs : Flushed(s, m) => Flushed(s, m)'
  BY PutGrows DEF Flushed, EndsLine
<1>2. ASSUME part # "head" PROVE Flushed(j[2], k)'
  <2> DEFINE n == Len(file[j[2]]) + 1
  <2>1. file'[j[2]][n] = [msg |-> k, part |-> part, by |-> j[1]]
    BY PutGrows
  <2>2. n \in DOMAIN file'[j[2]]
    <3>1. j[2] \in Sessions /\ file[j[2]] \in Seq(Chunk) /\ file'[j[2]] \in Seq(Chunk)
      BY JobType, PutGrows DEF TypeOK
    <3>2. Len(file'[j[2]]) = n
      BY PutGrows
    <3>3. n \in 1 .. Len(file'[j[2]])
      BY <3>1, <3>2
    <3> QED BY <3>1, <3>3
  <2> HIDE DEF n
  <2> QED BY <1>2, <2>1, <2>2 DEF Flushed, EndsLine
<1> QED BY <1>1, <1>2

-----------------------------------------------------------------------------
(***************************************************************************)
(* The database: every step is a step of the store.  All a step needs is   *)
(* that the batch it marks is registered.                                  *)
(***************************************************************************)
LEMMA JobCases ==
  ASSUME TypeOK, NEW j \in Jobs, JobStep(j) \/ FlushHead(j) \/ WriteFails(j)
                                 \/ CallFails(j)
  PROVE  \/ UNCHANGED dbVars
         \/ FetchStats(j) \/ Prepare(j) \/ MarkWritten(j) \/ MarkFailed(j)
<1>1. CASE FilterSession(j) \/ TakeJob(j) \/ GetSession(j) \/ ListMessages(j)
  BY <1>1 DEF FilterSession, TakeJob, GetSession, ListMessages, dbVars
<1>2. CASE ProbeDecision(j) \/ Deduplicate(j) \/ FlushRecord(j) \/ FlushHead(j)
  BY <1>2 DEF ProbeDecision, Deduplicate, FlushRecord, FlushHead, dbVars
<1>3. CASE WriteDone(j) \/ WriteFails(j) \/ CallFails(j)
  BY <1>3 DEF WriteDone, WriteFails, CallFails, dbVars
<1> QED BY <1>1, <1>2, <1>3 DEF JobStep

LEMMA JobStoreStep ==
  ASSUME TypeOK, NEW j \in Jobs, BatchRegistered(j),
         FetchStats(j) \/ Prepare(j) \/ MarkWritten(j) \/ MarkFailed(j)
  PROVE  Store!Next
<1>1. /\ j[2] \in Sessions /\ job[j].reached \in BOOLEAN
      /\ job[j].recs \in SUBSET Store!Msgs /\ job[j].seen \in Times
  BY JobType DEF JobState, Msgs, Store!Msgs
<1>2. CASE FetchStats(j)
  BY <1>1, <1>2 DEF FetchStats, Store!Next
<1>3. CASE Prepare(j)
  BY <1>1, <1>3 DEF Prepare, Store!Next
<1>4. CASE MarkWritten(j)
  <2>1. Store!CallerPrepared(j[2], job[j].recs)
    BY <1>4 DEF MarkWritten, BatchRegistered, Store!CallerPrepared
  <2>2. Store!MarkMessagesWritten(j[2], job[j].recs, job[j].seen)
    BY <1>4 DEF MarkWritten
  <2> QED BY <1>1, <2>1, <2>2 DEF Store!Next
<1>5. CASE MarkFailed(j)
  BY <1>1, <1>5 DEF MarkFailed, Store!Next
<1> QED BY <1>2, <1>3, <1>4, <1>5

LEMMA IsStoreStep ==
  ASSUME TypeOK, \A j \in Jobs : BatchRegistered(j), [Next]_vars
  PROVE  [Store!Next]_<<sessions, messages>>
<1>1. CASE UNCHANGED vars
  BY <1>1 DEF vars
<1>2. ASSUME NEW s \in Sessions, NewMessage(s)
      PROVE  UNCHANGED <<sessions, messages>>
  BY <1>2 DEF NewMessage
<1>3. ASSUME NEW i \in Instances, ListSessions(i) \/ Restart(i)
      PROVE  UNCHANGED <<sessions, messages>>
  BY <1>3 DEF ListSessions, Restart
<1>4. ASSUME NEW j \in Jobs,
             JobStep(j) \/ FlushHead(j) \/ WriteFails(j) \/ CallFails(j)
      PROVE  [Store!Next]_<<sessions, messages>>
  BY <1>4, JobCases, JobStoreStep DEF dbVars
<1> QED BY <1>1, <1>2, <1>3, <1>4 DEF Next

\* The store's own lemma about its steps, stated here.
LEMMA StoreKeeps ==
  ASSUME TypeOK, [Store!Next]_<<sessions, messages>>
  PROVE  /\ Store!TypeOK'
         /\ \A s \in Sessions, k \in Msgs :
              /\ messages[s][k] = "written" => messages'[s][k] = "written"
              /\ messages[s][k] # "absent" => messages'[s][k] # "absent"
<1>1. SP!StoreAssumption
  BY DEF SP!StoreAssumption, Times
<1>2. SP!TypeOK
  BY DEF TypeOK, SP!TypeOK, Store!TypeOK, SP!SessionRow, Store!SessionRow,
         SP!Msgs, Store!Msgs, SP!Status, Store!Status
<1>3. [SP!Next]_SP!storeVars
  BY DEF SP!storeVars, SP!Next, Store!Next, SP!Msgs, Store!Msgs,
         SP!UpdateSessionFetchStats, Store!UpdateSessionFetchStats,
         SP!PrepareMessageRecords, Store!PrepareMessageRecords,
         SP!Prepared, Store!Prepared, SP!CallerPrepared, Store!CallerPrepared,
         SP!MarkMessagesWritten, Store!MarkMessagesWritten,
         SP!AdvancedCursor, Store!AdvancedCursor,
         SP!MarkMessagesFailed, Store!MarkMessagesFailed
<1>4. /\ SP!TypeOK'
      /\ \A s \in Sessions, k \in SP!Msgs :
           /\ messages[s][k] = "written" => messages'[s][k] = "written"
           /\ messages[s][k] # "absent" => messages'[s][k] # "absent"
  BY <1>1, <1>2, <1>3, SP!StoreStep
<1> QED
  BY <1>4 DEF Msgs, SP!TypeOK, Store!TypeOK, SP!SessionRow, Store!SessionRow,
              SP!Msgs, Store!Msgs, SP!Status, Store!Status

-----------------------------------------------------------------------------
(***************************************************************************)
(* What no step ever takes back.                                           *)
(***************************************************************************)
Grows ==
  /\ \A s \in Sessions : total[s] <= total'[s] /\ updated[s] <= updated'[s]
  /\ warned \subseteq warned'
  /\ \A s \in Sessions, k \in Msgs :
       /\ messages[s][k] = "written" => messages'[s][k] = "written"
       /\ messages[s][k] # "absent" => messages'[s][k] # "absent"
       /\ Flushed(s, k) => Flushed(s, k)'

LEMMA NewMessageEffect ==
  ASSUME TypeOK, NEW s \in Sessions, NewMessage(s)
  PROVE  /\ total' \in [Sessions -> 0 .. MaxMsgs]
         /\ updated' \in [Sessions -> Times]
         /\ dated' \in [Sessions -> 0 .. MaxMsgs]
         /\ \A t \in Sessions : total[t] <= total'[t] /\ updated[t] <= updated'[t]
         /\ \A t \in Sessions : t # s => /\ total'[t] = total[t]
                                         /\ updated'[t] = updated[t]
                                         /\ dated'[t] = dated[t]
         /\ \/ updated[s] < updated'[s] /\ dated'[s] = total'[s]
            \/ updated'[s] = updated[s] /\ dated'[s] = dated[s]
<1>1. /\ total[s] \in 0 .. MaxMsgs /\ total[s] < MaxMsgs
      /\ total' = [total EXCEPT ![s] = total[s] + 1]
  BY DEF TypeOK, NewMessage
<1>2. total[s] + 1 \in 0 .. MaxMsgs
  BY <1>1
<1>3. /\ total' \in [Sessions -> 0 .. MaxMsgs] /\ total'[s] = total[s] + 1
      /\ \A t \in Sessions : total[t] <= total'[t] /\ (t # s => total'[t] = total[t])
  BY <1>1, <1>2 DEF TypeOK
<1>4. \A t \in Sessions : updated[t] \in Nat /\ dated[t] \in 0 .. MaxMsgs
  BY DEF TypeOK, Times
<1>5. CASE s \in Clocked /\ \E d \in UpdateSteps :
             /\ updated[s] + d <= MaxUpdated
             /\ updated' = [updated EXCEPT ![s] = updated[s] + d]
             /\ dated' = [dated EXCEPT ![s] = IF d = 0 THEN dated[s]
                                                       ELSE total[s] + 1]
  <2>1. PICK d \in UpdateSteps :
             /\ updated[s] + d <= MaxUpdated
             /\ updated' = [updated EXCEPT ![s] = updated[s] + d]
             /\ dated' = [dated EXCEPT ![s] = IF d = 0 THEN dated[s]
                                                       ELSE total[s] + 1]
    BY <1>5
  <2>2. d \in Nat
    OBVIOUS
  <2>3. updated[s] + d \in Times /\ updated[s] <= updated[s] + d
    BY <1>4, <2>1, <2>2 DEF Times
  <2>4. /\ updated' \in [Sessions -> Times] /\ updated'[s] = updated[s] + d
        /\ \A t \in Sessions : t # s => updated'[t] = updated[t]
    BY <2>1, <2>3 DEF TypeOK
  <2>5. /\ dated' \in [Sessions -> 0 .. MaxMsgs]
        /\ dated'[s] = IF d = 0 THEN dated[s] ELSE total[s] + 1
        /\ \A t \in Sessions : t # s => dated'[t] = dated[t]
    BY <1>2, <1>4, <2>1 DEF TypeOK
  <2>6. \A t \in Sessions : updated[t] <= updated'[t]
    BY <1>4, <2>3, <2>4
  <2> QED BY <1>3, <1>4, <2>2, <2>4, <2>5, <2>6
<1>6. CASE s \notin Clocked /\ UNCHANGED <<updated, dated>>
  BY <1>3, <1>4, <1>6 DEF TypeOK
<1> QED BY <1>5, <1>6 DEF NewMessage

\* A job step appends at most one chunk to the file.
LEMMA FileStep ==
  ASSUME TypeOK, NEW j \in Jobs,
         JobStep(j) \/ FlushHead(j) \/ WriteFails(j) \/ CallFails(j)
  PROVE  /\ file' \in [Sessions -> Seq(Chunk)]
         /\ \A s \in Sessions, k \in Msgs : Flushed(s, k) => Flushed(s, k)'
<1>1. CASE FlushRecord(j)
  <2>1. PICK k \in Msgs : Put(j, k, IF job[j].half THEN "tail" ELSE "line")
    BY <1>1, FlushRecordAfter
  <2>2. (IF job[j].half THEN "tail" ELSE "line") \in Part
    BY DEF Part
  <2> QED BY <2>1, <2>2, PutGrows, PutFlushes
<1>2. CASE FlushHead(j)
  <2>1. PICK k \in Msgs : Put(j, k, "head")
    BY <1>2, FlushHeadAfter
  <2>2. "head" \in Part
    BY DEF Part
  <2> QED BY <2>1, <2>2, PutGrows, PutFlushes
<1>3. CASE UNCHANGED file
  BY <1>3 DEF TypeOK, Flushed
<1>4. FlushRecord(j) \/ FlushHead(j) \/ UNCHANGED file
  BY DEF JobStep, FilterSession, TakeJob, GetSession, ListMessages, ProbeDecision,
         FetchStats, Deduplicate, Prepare, WriteDone, MarkWritten, MarkFailed,
         WriteFails, CallFails
<1> QED BY <1>1, <1>2, <1>3, <1>4

LEMMA JobTypeStep ==
  ASSUME TypeOK, NEW j \in Jobs,
         JobStep(j) \/ FlushHead(j) \/ WriteFails(j) \/ CallFails(j)
  PROVE  job' \in [Jobs -> JobState] /\ \A q \in Jobs \ {j} : job'[q] = job[q]
<1>1. CASE FilterSession(j) \/ TakeJob(j)
  BY <1>1, FilterAfter, TakeAfter DEF After
<1>2. CASE GetSession(j) \/ ListMessages(j) \/ ProbeDecision(j)
  BY <1>2, GetSessionAfter, ListMessagesAfter, ProbeDecisionAfter DEF After
<1>3. CASE FetchStats(j) \/ Deduplicate(j) \/ Prepare(j)
  BY <1>3, FetchStatsAfter, DeduplicateAfter, PrepareAfter DEF After
<1>4. CASE FlushRecord(j) \/ FlushHead(j) \/ WriteDone(j) \/ WriteFails(j)
  BY <1>4, FlushRecordAfter, FlushHeadAfter, WriteDoneAfter, WriteFailsAfter DEF After
<1>5. CASE MarkWritten(j) \/ MarkFailed(j) \/ CallFails(j)
  BY <1>5, EndsAfter DEF After
<1> QED BY <1>1, <1>2, <1>3, <1>4, <1>5 DEF JobStep

\* The remaining variables of a job step.
LEMMA JobRest ==
  ASSUME TypeOK, NEW j \in Jobs,
         JobStep(j) \/ FlushHead(j) \/ WriteFails(j) \/ CallFails(j)
  PROVE  /\ UNCHANGED <<total, updated, dated>>
         /\ warned \subseteq warned' /\ warned' \subseteq Sessions
         /\ faults' \in 0 .. MaxFaults
<1>1. j[2] \in Sessions /\ warned \subseteq Sessions /\ faults \in 0 .. MaxFaults
  BY JobType DEF TypeOK
<1>2. UNCHANGED <<total, updated, dated>>
  BY DEF JobStep, FilterSession, TakeJob, GetSession, ListMessages, ProbeDecision,
         FetchStats, Deduplicate, Prepare, WriteDone, MarkWritten, MarkFailed,
         FlushRecord, FlushHead, WriteFails, CallFails
<1>3. warned' = warned \/ warned' = warned \cup {j[2]}
  BY DEF JobStep, FilterSession, TakeJob, GetSession, ListMessages, ProbeDecision,
         FetchStats, Deduplicate, Prepare, WriteDone, MarkWritten, MarkFailed,
         FlushRecord, FlushHead, WriteFails, CallFails
<1>4. faults' = faults \/ (faults < MaxFaults /\ faults' = faults + 1)
  BY DEF JobStep, FilterSession, TakeJob, GetSession, ListMessages, ProbeDecision,
         FetchStats, Deduplicate, Prepare, WriteDone, MarkWritten, MarkFailed,
         FlushRecord, FlushHead, WriteFails, CallFails, Fault
<1>5. faults' \in 0 .. MaxFaults
  BY <1>1, <1>4
<1> QED BY <1>1, <1>2, <1>3, <1>5

LEMMA TypeStep ==
  ASSUME TypeOK, \A j \in Jobs : BatchRegistered(j), [Next]_vars
  PROVE  TypeOK' /\ Grows
<1>1. /\ Store!TypeOK'
      /\ \A s \in Sessions, k \in Msgs :
           /\ messages[s][k] = "written" => messages'[s][k] = "written"
           /\ messages[s][k] # "absent" => messages'[s][k] # "absent"
  BY IsStoreStep, StoreKeeps
<1>2. \A s \in Sessions : total[s] \in Nat /\ updated[s] \in Nat
  BY DEF TypeOK, Times
<1>3. CASE UNCHANGED vars
  BY <1>1, <1>2, <1>3 DEF vars, TypeOK, Grows, Flushed
<1>4. ASSUME NEW s \in Sessions, NewMessage(s)
      PROVE  TypeOK' /\ Grows
  <2>1. UNCHANGED <<file, job, warned, faults>>
    BY <1>4 DEF NewMessage
  <2>2. TypeOK'
    BY <1>1, <1>4, <2>1, NewMessageEffect DEF TypeOK
  <2>3. Grows
    BY <1>1, <1>4, <2>1, NewMessageEffect DEF Grows, Flushed
  <2> QED BY <2>2, <2>3
<1>5. ASSUME NEW i \in Instances, ListSessions(i) \/ Restart(i)
      PROVE  TypeOK' /\ Grows
  <2>1. UNCHANGED <<total, updated, dated, file, warned>> /\ faults' \in 0 .. MaxFaults
    <3>1. /\ UNCHANGED <<total, updated, dated, file, warned>>
          /\ faults' = faults \/ (faults < MaxFaults /\ faults' = faults + 1)
      BY <1>5 DEF ListSessions, Restart, Fault
    <3>2. faults \in 0 .. MaxFaults
      BY DEF TypeOK
    <3> QED BY <3>1, <3>2
  <2>2. job' \in [Jobs -> JobState]
    BY <1>5, RoundAfter
  <2>3. TypeOK'
    BY <1>1, <2>1, <2>2 DEF TypeOK
  <2>4. Grows
    BY <1>1, <1>2, <2>1 DEF Grows, Flushed
  <2> QED BY <2>3, <2>4
<1>6. ASSUME NEW j \in Jobs,
             JobStep(j) \/ FlushHead(j) \/ WriteFails(j) \/ CallFails(j)
      PROVE  TypeOK' /\ Grows
  <2>1. TypeOK'
    BY <1>1, <1>6, FileStep, JobTypeStep, JobRest DEF TypeOK
  <2>2. Grows
    BY <1>1, <1>2, <1>6, FileStep, JobRest DEF Grows
  <2> QED BY <2>1, <2>2
<1> QED BY <1>3, <1>4, <1>5, <1>6 DEF Next

-----------------------------------------------------------------------------
(***************************************************************************)
(* What is known of a job survives the steps of everybody else.            *)
(***************************************************************************)
LEMMA JobStable ==
  ASSUME TypeOK, TypeOK', Grows, NEW j \in Jobs, JobInv(j), job'[j] = job[j]
  PROVE  JobInv(j)'
<1>1. /\ job[j] \in JobState /\ j[2] \in Sessions
      /\ updated[j[2]] \in Nat /\ total[j[2]] \in Nat
  BY JobType DEF Times
<1>2. updated'[j[2]] \in Nat /\ total'[j[2]] \in Nat
  BY <1>1 DEF TypeOK, Times
<1>3. job[j].seen \in Nat /\ job[j].top \in Nat /\ job[j].out \subseteq Msgs
      /\ job[j].recs \subseteq Msgs
  BY <1>1 DEF JobState, Times
<1>4. SeenBehind(j)'
  BY <1>1, <1>2, <1>3 DEF JobInv, SeenBehind, Grows
<1>5. BelowWritten(j)'
  BY <1>1 DEF JobInv, BelowWritten, Grows
<1>6. WindowSelected(j)'
  BY <1>1 DEF JobInv, WindowSelected, Grows, Window
<1>7. BatchRegistered(j)'
  BY <1>1, <1>3 DEF JobInv, BatchRegistered, Grows
<1>8. OutFlushed(j)'
  BY <1>1, <1>3 DEF JobInv, OutFlushed, Grows
<1> QED BY <1>4, <1>5, <1>6, <1>7, <1>8 DEF JobInv

-----------------------------------------------------------------------------
(***************************************************************************)
(* A job's own steps, one lemma each.                                      *)
(***************************************************************************)
\* The situation of all of them.
Stepping(j) == TypeOK /\ TypeOK' /\ Grows /\ JobInv(j)

LEMMA SteppingTypes ==
  ASSUME NEW j \in Jobs, Stepping(j)
  PROVE  /\ job[j] \in JobState /\ job'[j] \in JobState
         /\ j[2] \in Sessions /\ j[1] \in Instances
         /\ job[j].seen \in Nat /\ job[j].top \in Nat /\ job[j].limit \in Nat
         /\ job[j].recs \subseteq Msgs /\ job[j].out \subseteq Msgs
         /\ updated[j[2]] \in Nat /\ total[j[2]] \in Nat
         /\ updated'[j[2]] \in Nat /\ total'[j[2]] \in Nat
         /\ updated[j[2]] <= updated'[j[2]] /\ total[j[2]] <= total'[j[2]]
         /\ job[j].seen <= updated[j[2]] /\ job[j].top <= total[j[2]]
<1>1. TypeOK /\ TypeOK' /\ Grows /\ SeenBehind(j)
  BY DEF Stepping, JobInv
<1>2. /\ job[j] \in JobState /\ j[2] \in Sessions /\ j[1] \in Instances
      /\ updated[j[2]] \in Times /\ total[j[2]] \in 0 .. MaxMsgs
  BY <1>1, JobType
<1>3. /\ job'[j] \in JobState
      /\ updated'[j[2]] \in Times /\ total'[j[2]] \in 0 .. MaxMsgs
  BY <1>1, <1>2 DEF TypeOK
<1>4. /\ job[j].seen \in Nat /\ job[j].top \in Nat /\ job[j].limit \in Nat
      /\ job[j].recs \subseteq Msgs /\ job[j].out \subseteq Msgs
  BY <1>2, LimitType DEF JobState, Times
<1> QED BY <1>1, <1>2, <1>3, <1>4 DEF SeenBehind, Grows, Times

LEMMA RestInv ==
  ASSUME NEW j \in Jobs, Stepping(j),
         \/ job'[j] = Idle
         \/ job'[j] = [Idle EXCEPT !.pc = "listed", !.seen = updated[j[2]]]
  PROVE  JobInv(j)'
<1>1. /\ job'[j].pc \in {"idle", "listed"} /\ job'[j].top = 0
      /\ job'[j].seen = 0 \/ job'[j].seen = updated[j[2]]
      /\ job'[j].out = {}
  <2>1. CASE job'[j] = Idle
    BY <2>1 DEF Idle
  <2>2. CASE job'[j] = [Idle EXCEPT !.pc = "listed", !.seen = updated[j[2]]]
    BY <2>2 DEF Idle
  <2> QED BY <2>1, <2>2
<1>2. SeenBehind(j)'
  BY <1>1, SteppingTypes DEF SeenBehind
<1> QED BY <1>1, <1>2 DEF JobInv, BelowWritten, WindowSelected, BatchRegistered,
                          OutFlushed, Fetched, Selected

\* A move that keeps the window, the batch and the flushed records.
LEMMA MovedInv ==
  ASSUME NEW j \in Jobs, Stepping(j), NEW to \in PC,
         job'[j] = Moved(job[j], to),
         to \in Fetched => job[j].pc \in Fetched \/ BelowWritten(j)',
         to \in Selected => job[j].pc \in Selected,
         to \in {"write", "mark", "markfail"} => job[j].pc = "write",
         to = "mark" => job[j].recs \subseteq job[j].out
  PROVE  JobInv(j)'
<1>1. /\ job'[j].pc = to /\ job'[j].seen = job[j].seen /\ job'[j].top = job[j].top
      /\ job'[j].limit = job[j].limit /\ job'[j].recs = job[j].recs
      /\ job'[j].out = job[j].out
  BY SteppingTypes DEF Moved, JobState
<1>2. JobInv(j) /\ Grows /\ j[2] \in Sessions
  BY SteppingTypes DEF Stepping
<1>3. SeenBehind(j)'
  BY <1>1, SteppingTypes DEF SeenBehind
<1>4. BelowWritten(j)'
  BY <1>1, <1>2 DEF JobInv, BelowWritten, Grows
<1>5. WindowSelected(j)'
  BY <1>1, <1>2 DEF JobInv, WindowSelected, Grows, Window
<1>6. BatchRegistered(j)'
  BY <1>1, <1>2, SteppingTypes DEF JobInv, BatchRegistered, Grows
<1>7. OutFlushed(j)'
  BY <1>1, <1>2, SteppingTypes DEF JobInv, OutFlushed, Grows
<1> QED BY <1>3, <1>4, <1>5, <1>6, <1>7 DEF JobInv

LEMMA QueueInv ==
  ASSUME NEW j \in Jobs, Stepping(j), FilterSession(j) \/ TakeJob(j)
  PROVE  JobInv(j)'
<1>1. TypeOK
  BY DEF Stepping
<1>2. \/ job'[j] = Moved(job[j], "queued")
      \/ job'[j] = Moved(job[j], "detail")
      \/ job'[j] = Idle
  BY <1>1, FilterAfter, TakeAfter DEF After
<1>3. {"queued", "detail"} \subseteq PC \ (Fetched \cup {"write", "mark", "markfail"})
  BY DEF PC, Working, Fetched, Selected
<1>4. {"queued", "detail"} \cap Selected = {}
  BY DEF Selected
<1> QED BY <1>2, <1>3, <1>4, MovedInv, RestInv

LEMMA GetSessionInv ==
  ASSUME NEW j \in Jobs, Stepping(j), GetSession(j)
  PROVE  JobInv(j)'
<1>1. job'[j] = Detailed(j)
  BY GetSessionAfter DEF Stepping, After
<1>2. /\ job'[j].pc = "probe" /\ job'[j].seen = updated[j[2]]
      /\ job'[j].top = job[j].top /\ job'[j].out = job[j].out
  BY <1>1, SteppingTypes DEF Detailed, JobState
<1>3. SeenBehind(j)'
  BY <1>2, SteppingTypes DEF SeenBehind
<1>4. OutFlushed(j)'
  BY <1>2, SteppingTypes DEF Stepping, JobInv, OutFlushed, Grows
<1> QED BY <1>2, <1>3, <1>4 DEF JobInv, BelowWritten, WindowSelected,
                                BatchRegistered, Fetched, Selected

LEMMA ListMessagesInv ==
  ASSUME NEW j \in Jobs, Stepping(j), ListMessages(j)
  PROVE  JobInv(j)'
<1>1. job'[j] = ListedAs(j)
  BY ListMessagesAfter DEF Stepping, After
<1>2. /\ job'[j].pc = "bound" /\ job'[j].seen = job[j].seen
      /\ job'[j].top = total[j[2]] /\ job'[j].out = job[j].out
  BY <1>1, SteppingTypes DEF ListedAs, JobState
<1>3. SeenBehind(j)'
  BY <1>2, SteppingTypes DEF SeenBehind
<1>4. OutFlushed(j)'
  BY <1>2, SteppingTypes DEF Stepping, JobInv, OutFlushed, Grows
<1> QED BY <1>2, <1>3, <1>4 DEF JobInv, BelowWritten, WindowSelected,
                                BatchRegistered, Fetched, Selected

LEMMA StatsInv ==
  ASSUME NEW j \in Jobs, Stepping(j), NoSilentGap, ProbeDecision(j)
  PROVE  JobInv(j)'
<1>1. TypeOK /\ JobInv(j) /\ Grows
  BY DEF Stepping
<1>2. CASE After(j, Moved(job[j], "stats")) /\ BoundaryFound(j)
  <2>1. job'[j] = Moved(job[j], "stats")
    BY <1>2 DEF After
  <2>2. /\ job'[j].pc = "stats" /\ job'[j].top = job[j].top
        /\ job'[j].limit = job[j].limit
    BY <2>1, SteppingTypes DEF Moved, JobState
  <2>3. ASSUME NEW k \in Msgs, j[2] \notin warned, k + job[j].limit <= job[j].top
        PROVE  messages[j[2]][k] = "written"
    <3>1. PICK w \in Window(job[j]) : messages[j[2]][w] = "written"
      <4>1. k \in Nat /\ job[j].limit \in Nat /\ job[j].top \in Nat
        BY SteppingTypes DEF Msgs
      <4>2. ~(job[j].top < job[j].limit)
        BY <2>3, <4>1
      <4> QED BY <1>2, <4>2 DEF BoundaryFound, Store!AnyMessageExists
    <3>2. w \in Store!Msgs /\ j[2] \in Sessions /\ k <= w
      <4>1. w \in Nat /\ k \in Nat /\ job[j].limit \in Nat /\ job[j].top \in Nat
        BY SteppingTypes DEF Msgs, Window
      <4>2. job[j].top < w + job[j].limit
        BY <3>1 DEF Window
      <4>3. k <= w
        BY <2>3, <4>1, <4>2
      <4> QED BY <4>3, SteppingTypes DEF Msgs, Store!Msgs, Window
    <3>3. 1 .. w \subseteq Store!Written(j[2])
      BY <2>3, <3>1, <3>2 DEF NoSilentGap, Store!Written
    <3>4. k \in 1 .. w
      BY <3>2 DEF Msgs, Store!Msgs
    <3> QED BY <3>3, <3>4 DEF Store!Written
  <2>4. BelowWritten(j)'
    BY <1>1, <2>2, <2>3, SteppingTypes DEF BelowWritten, Grows
  <2>5. "stats" \in PC \ (Selected \cup {"write", "mark", "markfail"})
    BY DEF PC, Working, Selected
  <2> QED BY <2>1, <2>4, <2>5, MovedInv
<1>3. CASE After(j, Exhausted(job[j])) /\ j[2] \in warned'
  <2>1. job'[j] = Exhausted(job[j])
    BY <1>3 DEF After
  <2>2. /\ job'[j].pc = "stats" /\ job'[j].top = job[j].top
        /\ job'[j].seen = job[j].seen /\ job'[j].out = job[j].out
    BY <2>1, SteppingTypes DEF Exhausted, JobState
  <2>3. SeenBehind(j)'
    BY <2>2, SteppingTypes DEF SeenBehind
  <2>4. OutFlushed(j)'
    BY <1>1, <2>2, SteppingTypes DEF JobInv, OutFlushed, Grows
  <2> QED BY <1>3, <2>2, <2>3, <2>4 DEF JobInv, BelowWritten, WindowSelected,
                                        BatchRegistered, Selected
<1>4. CASE After(j, Grown(job[j]))
  <2>1. job'[j] = Grown(job[j])
    BY <1>4 DEF After
  <2>2. /\ job'[j].pc = "probe" /\ job'[j].top = job[j].top
        /\ job'[j].seen = job[j].seen /\ job'[j].out = job[j].out
    BY <2>1, SteppingTypes DEF Grown, JobState
  <2>3. SeenBehind(j)'
    BY <2>2, SteppingTypes DEF SeenBehind
  <2>4. OutFlushed(j)'
    BY <1>1, <2>2, SteppingTypes DEF JobInv, OutFlushed, Grows
  <2> QED BY <2>2, <2>3, <2>4 DEF JobInv, BelowWritten, WindowSelected,
                                  BatchRegistered, Fetched, Selected
<1> QED BY <1>1, <1>2, <1>3, <1>4, ProbeDecisionAfter

LEMMA FetchStatsInv ==
  ASSUME NEW j \in Jobs, Stepping(j), FetchStats(j)
  PROVE  JobInv(j)'
<1>1. job'[j] = Moved(job[j], "dedup")
  BY FetchStatsAfter DEF Stepping, After
<1>2. job[j].pc \in Fetched
  BY DEF FetchStats, Fetched
<1>3. "dedup" \in PC \ (Selected \cup {"write", "mark", "markfail"})
  BY DEF PC, Working, Selected
<1> QED BY <1>1, <1>2, <1>3, MovedInv

LEMMA DeduplicateInv ==
  ASSUME NEW j \in Jobs, Stepping(j), Deduplicate(j)
  PROVE  JobInv(j)'
<1> DEFINE r == Store!UnseenMessages(j[2], Window(job[j]))
<1>1. TypeOK /\ JobInv(j) /\ Grows /\ j[2] \in Sessions
  BY SteppingTypes DEF Stepping
<1>2. job'[j] = WithBatch(job[j], "prepare", r)
  BY <1>1, DeduplicateAfter DEF After
<1>3. /\ job'[j].pc = "prepare" /\ job'[j].seen = job[j].seen
      /\ job'[j].top = job[j].top /\ job'[j].limit = job[j].limit
      /\ job'[j].recs = r /\ job'[j].out = job[j].out
  <2> HIDE DEF r
  <2> QED BY <1>2, SteppingTypes DEF WithBatch, JobState
<1>4. SeenBehind(j)'
  BY <1>3, SteppingTypes DEF SeenBehind
<1>5. BelowWritten(j)'
  <2>1. job[j].pc \in Fetched
    BY DEF Deduplicate, Fetched
  <2> QED BY <1>1, <1>3, <2>1 DEF JobInv, BelowWritten, Grows
<1>6. WindowSelected(j)'
  <2>1. r \subseteq Window(job[j])
    BY DEF Store!UnseenMessages
  <2>2. \A k \in Window(job[j]) \ r : messages'[j[2]][k] = "written"
    BY <1>1 DEF Store!UnseenMessages, Window, Grows
  <2>3. Window(job[j])' = Window(job[j])
    BY <1>3 DEF Window
  <2> HIDE DEF r
  <2> QED BY <1>3, <2>1, <2>2, <2>3 DEF WindowSelected
<1>7. OutFlushed(j)'
  BY <1>1, <1>3, SteppingTypes DEF JobInv, OutFlushed, Grows
<1> QED BY <1>3, <1>4, <1>5, <1>6, <1>7 DEF JobInv, BatchRegistered

LEMMA PrepareInv ==
  ASSUME NEW j \in Jobs, Stepping(j), Prepare(j)
  PROVE  JobInv(j)'
<1> DEFINE r == Store!Prepared(j[2], job[j].recs)
<1>1. TypeOK /\ JobInv(j) /\ Grows /\ j[2] \in Sessions
  BY SteppingTypes DEF Stepping
<1>2. job'[j] = WithBatch(job[j], "write", r)
  BY <1>1, PrepareAfter DEF After
<1>3. /\ job'[j].pc = "write" /\ job'[j].seen = job[j].seen
      /\ job'[j].top = job[j].top /\ job'[j].limit = job[j].limit
      /\ job'[j].recs = r /\ job'[j].out = job[j].out
  <2> HIDE DEF r
  <2> QED BY <1>2, SteppingTypes DEF WithBatch, JobState
<1>4. r \subseteq job[j].recs /\ job[j].recs \subseteq Msgs
  BY SteppingTypes DEF Store!Prepared
<1>5. job[j].pc \in Selected /\ job[j].pc \in Fetched
  BY DEF Prepare, Selected, Fetched
<1>6. SeenBehind(j)'
  BY <1>3, SteppingTypes DEF SeenBehind
<1>7. BelowWritten(j)'
  BY <1>1, <1>3, <1>5 DEF JobInv, BelowWritten, Grows
<1>8. WindowSelected(j)'
  <2>1. job[j].recs \subseteq Window(job[j])
    BY <1>1, <1>5 DEF JobInv, WindowSelected
  <2>2. \A k \in Window(job[j]) \ r : messages'[j[2]][k] = "written"
    <3>1. \A k \in Window(job[j]) \ job[j].recs : messages[j[2]][k] = "written"
      BY <1>1, <1>5 DEF JobInv, WindowSelected
    <3>2. \A k \in job[j].recs \ r : messages[j[2]][k] = "written"
      BY DEF Store!Prepared
    <3>3. \A k \in Window(job[j]) : k \in Msgs
      BY DEF Window
    <3> HIDE DEF r
    <3> QED BY <1>1, <3>1, <3>2, <3>3 DEF Grows
  <2>3. Window(job[j])' = Window(job[j])
    BY <1>3 DEF Window
  <2> HIDE DEF r
  <2> QED BY <1>3, <1>4, <2>1, <2>2, <2>3 DEF WindowSelected
<1>9. BatchRegistered(j)'
  <2>1. \A k \in r : messages'[j[2]][k] = "pending"
    BY <1>1, <1>4 DEF Prepare, Store!PrepareMessageRecords, TypeOK, Store!TypeOK,
                      Msgs, Store!Msgs
  <2> HIDE DEF r
  <2> QED BY <1>3, <2>1 DEF BatchRegistered
<1>10. OutFlushed(j)'
  BY <1>1, <1>3, SteppingTypes DEF JobInv, OutFlushed, Grows
<1> QED BY <1>6, <1>7, <1>8, <1>9, <1>10 DEF JobInv

\* Appending to the file changes nothing but out and half.
LEMMA FlushInv ==
  ASSUME NEW j \in Jobs, Stepping(j), job[j].pc = "write",
         job'[j].pc = "write", job'[j].seen = job[j].seen,
         job'[j].top = job[j].top, job'[j].limit = job[j].limit,
         job'[j].recs = job[j].recs,
         \A k \in job'[j].out : Flushed(j[2], k)'
  PROVE  JobInv(j)'
<1>1. TypeOK /\ JobInv(j) /\ Grows /\ j[2] \in Sessions
  BY SteppingTypes DEF Stepping
<1>2. SeenBehind(j)'
  BY SteppingTypes DEF SeenBehind
<1>3. BelowWritten(j)'
  BY <1>1 DEF JobInv, BelowWritten, Grows
<1>4. WindowSelected(j)'
  BY <1>1 DEF JobInv, WindowSelected, Grows, Window
<1>5. BatchRegistered(j)'
  BY <1>1, SteppingTypes DEF JobInv, BatchRegistered, Grows
<1>6. OutFlushed(j)'
  BY DEF OutFlushed
<1> QED BY <1>2, <1>3, <1>4, <1>5, <1>6 DEF JobInv

LEMMA FlushRecordInv ==
  ASSUME NEW j \in Jobs, Stepping(j), FlushRecord(j)
  PROVE  JobInv(j)'
<1>1. TypeOK /\ JobInv(j) /\ Grows /\ j[2] \in Sessions
  BY SteppingTypes DEF Stepping
<1>2. PICK k \in Msgs : /\ Put(j, k, IF job[j].half THEN "tail" ELSE "line")
                        /\ job'[j] = WithLine(job[j], k)
  BY <1>1, FlushRecordAfter DEF After
<1>3. Flushed(j[2], k)'
  <2> DEFINE part == IF job[j].half THEN "tail" ELSE "line"
  <2>1. part \in Part /\ part # "head" /\ Put(j, k, part)
    BY <1>2 DEF Part
  <2> HIDE DEF part
  <2> QED BY <1>1, <2>1, PutFlushes
<1>4. /\ job'[j].pc = job[j].pc /\ job'[j].seen = job[j].seen
      /\ job'[j].top = job[j].top /\ job'[j].limit = job[j].limit
      /\ job'[j].recs = job[j].recs /\ job'[j].out = job[j].out \cup {k}
  BY <1>2, SteppingTypes DEF WithLine, JobState
<1>5. \A m \in job[j].out : Flushed(j[2], m)'
  BY <1>1, SteppingTypes DEF JobInv, OutFlushed, Grows
<1>6. job[j].pc = "write"
  BY DEF FlushRecord
<1> QED BY <1>3, <1>4, <1>5, <1>6, FlushInv

LEMMA FlushHeadInv ==
  ASSUME NEW j \in Jobs, Stepping(j), FlushHead(j)
  PROVE  JobInv(j)'
<1>1. TypeOK /\ JobInv(j) /\ Grows /\ j[2] \in Sessions
  BY SteppingTypes DEF Stepping
<1>2. job'[j] = WithHead(job[j])
  BY <1>1, FlushHeadAfter DEF After
<1>3. /\ job'[j].pc = job[j].pc /\ job'[j].seen = job[j].seen
      /\ job'[j].top = job[j].top /\ job'[j].limit = job[j].limit
      /\ job'[j].recs = job[j].recs /\ job'[j].out = job[j].out
  BY <1>2, SteppingTypes DEF WithHead, JobState
<1>4. \A m \in job[j].out : Flushed(j[2], m)'
  BY <1>1, SteppingTypes DEF JobInv, OutFlushed, Grows
<1>5. job[j].pc = "write"
  BY DEF FlushHead
<1> QED BY <1>3, <1>4, <1>5, FlushInv

LEMMA WriteEndInv ==
  ASSUME NEW j \in Jobs, Stepping(j), WriteDone(j) \/ WriteFails(j)
  PROVE  JobInv(j)'
<1>1. \/ job'[j] = Moved(job[j], "mark") /\ job[j].recs \subseteq job[j].out
      \/ job'[j] = Moved(job[j], "markfail")
  BY WriteDoneAfter, WriteFailsAfter DEF Stepping, After, WriteDone
<1>2. job[j].pc = "write"
  BY DEF WriteDone, WriteFails
<1>3. {"mark", "markfail"} \subseteq PC /\ "write" \in Selected \cap Fetched
  BY DEF PC, Working, Selected, Fetched
<1> QED BY <1>1, <1>2, <1>3, MovedInv

LEMMA OwnStepInv ==
  ASSUME NEW j \in Jobs, Stepping(j), NoSilentGap,
         JobStep(j) \/ FlushHead(j) \/ WriteFails(j) \/ CallFails(j)
  PROVE  JobInv(j)'
<1>1. CASE FilterSession(j) \/ TakeJob(j)
  BY <1>1, QueueInv
<1>2. CASE GetSession(j) \/ ListMessages(j) \/ ProbeDecision(j)
  BY <1>2, GetSessionInv, ListMessagesInv, StatsInv
<1>3. CASE FetchStats(j) \/ Deduplicate(j) \/ Prepare(j)
  BY <1>3, FetchStatsInv, DeduplicateInv, PrepareInv
<1>4. CASE FlushRecord(j) \/ FlushHead(j) \/ WriteDone(j) \/ WriteFails(j)
  BY <1>4, FlushRecordInv, FlushHeadInv, WriteEndInv
<1>5. CASE MarkWritten(j) \/ MarkFailed(j) \/ CallFails(j)
  BY <1>5, EndsAfter, RestInv DEF Stepping, After
<1> QED BY <1>1, <1>2, <1>3, <1>4, <1>5 DEF JobStep

-----------------------------------------------------------------------------
(***************************************************************************)
(* The invariants of the session.                                          *)
(***************************************************************************)
\* Only MarkMessagesWritten makes a message written, and only of its batch.
LEMMA MarkEffect ==
  ASSUME TypeOK, NEW j \in Jobs, MarkWritten(j)
  PROVE  \A s \in Sessions, k \in Msgs :
           messages'[s][k] =
             IF s = j[2] /\ k \in job[j].recs /\ messages[s][k] # "absent"
             THEN "written" ELSE messages[s][k]
BY JobType DEF MarkWritten, Store!MarkMessagesWritten, TypeOK, Store!TypeOK,
               Msgs, Store!Msgs

LEMMA WrittenBy ==
  ASSUME TypeOK, NEW j \in Jobs,
         JobStep(j) \/ FlushHead(j) \/ WriteFails(j) \/ CallFails(j),
         NEW s \in Sessions, NEW k \in Msgs, messages'[s][k] = "written"
  PROVE  \/ messages[s][k] = "written"
         \/ MarkWritten(j) /\ s = j[2] /\ k \in job[j].recs
<1>1. j[2] \in Sessions /\ k \in Store!Msgs
  BY JobType DEF Msgs, Store!Msgs
<1>2. CASE UNCHANGED dbVars
  BY <1>2 DEF dbVars
<1>3. CASE FetchStats(j)
  BY <1>3 DEF FetchStats, Store!UpdateSessionFetchStats
<1>4. CASE Prepare(j)
  BY <1>1, <1>4 DEF Prepare, Store!PrepareMessageRecords, TypeOK, Store!TypeOK
<1>5. CASE MarkWritten(j)
  BY <1>5, MarkEffect
<1>6. CASE MarkFailed(j)
  BY <1>1, <1>6 DEF MarkFailed, Store!MarkMessagesFailed, TypeOK, Store!TypeOK
<1> QED BY <1>2, <1>3, <1>4, <1>5, <1>6, JobCases

LEMMA OutputInv ==
  ASSUME SyncInv, Grows, NEW j \in Jobs,
         JobStep(j) \/ FlushHead(j) \/ WriteFails(j) \/ CallFails(j)
  PROVE  StatusNeverLeadsOutput'
<1>1. TypeOK /\ StatusNeverLeadsOutput /\ OutFlushed(j)
  BY DEF SyncInv, JobInv
<1> SUFFICES ASSUME NEW s \in Sessions, NEW k \in Msgs, messages'[s][k] = "written"
             PROVE  Flushed(s, k)'
  BY DEF StatusNeverLeadsOutput, Store!Written, Msgs, Store!Msgs
<1>2. CASE messages[s][k] = "written"
  BY <1>1, <1>2 DEF StatusNeverLeadsOutput, Store!Written, Msgs, Store!Msgs, Grows
<1>3. CASE MarkWritten(j) /\ s = j[2] /\ k \in job[j].recs
  BY <1>1, <1>3 DEF MarkWritten, OutFlushed, Grows
<1> QED BY <1>1, <1>2, <1>3, WrittenBy

LEMMA GapInv ==
  ASSUME SyncInv, Grows, NEW j \in Jobs,
         JobStep(j) \/ FlushHead(j) \/ WriteFails(j) \/ CallFails(j)
  PROVE  NoSilentGap'
<1>1. TypeOK /\ NoSilentGap /\ JobInv(j)
  BY DEF SyncInv
<1> SUFFICES ASSUME NEW s \in Sessions, s \notin warned', NEW k \in Msgs,
                    messages'[s][k] = "written", NEW m \in 1 .. k
             PROVE  m \in Msgs /\ messages'[s][m] = "written"
  BY DEF NoSilentGap, Store!Written, Msgs, Store!Msgs
<1>2. m \in Msgs /\ s \notin warned
  BY DEF Msgs, Grows
<1>3. CASE messages[s][k] = "written"
  BY <1>1, <1>2, <1>3 DEF NoSilentGap, Store!Written, Msgs, Store!Msgs, Grows
<1>4. CASE MarkWritten(j) /\ s = j[2] /\ k \in job[j].recs
  <2>1. job[j].pc = "mark"
    BY <1>4 DEF MarkWritten
  <2>2. /\ BelowWritten(j) /\ WindowSelected(j) /\ BatchRegistered(j)
        /\ job[j].pc \in Fetched /\ job[j].pc \in Selected
        /\ job[j].pc \in {"write", "mark", "markfail"}
    BY <1>1, <2>1 DEF JobInv, Fetched, Selected
  <2>3. job[j].limit \in Nat /\ job[j].top \in Nat /\ k \in Nat /\ m \in Nat /\ m <= k
    BY <1>1, JobType, LimitType DEF JobState, Msgs
  <2>4. k \in Window(job[j])
    BY <1>4, <2>2 DEF WindowSelected
  <2>5. CASE m + job[j].limit <= job[j].top
    BY <1>2, <1>4, <2>2, <2>5 DEF BelowWritten, Grows
  <2>6. CASE job[j].top < m + job[j].limit
    <3>1. m \in Window(job[j])
      BY <1>2, <2>3, <2>4, <2>6 DEF Window
    <3>2. CASE m \in job[j].recs
      BY <1>1, <1>2, <1>4, <2>2, <3>2, MarkEffect DEF BatchRegistered
    <3>3. CASE m \notin job[j].recs
      BY <1>2, <1>4, <2>2, <3>1, <3>3 DEF WindowSelected, Grows
    <3> QED BY <3>2, <3>3
  <2> QED BY <2>3, <2>5, <2>6
<1> QED BY <1>1, <1>3, <1>4, WrittenBy

-----------------------------------------------------------------------------
(***************************************************************************)
(* SyncInv is inductive.                                                   *)
(***************************************************************************)
LEMMA SyncInvInit == Init => SyncInv
<1> SUFFICES ASSUME Init PROVE SyncInv
  OBVIOUS
<1>1. TypeOK
  <2>1. Store!TypeOK
    BY DEF Init, Store!Init, Store!TypeOK, Store!SessionRow, Store!NoRow,
           Store!Status, Times
  <2>2. file \in [Sessions -> Seq(Chunk)]
    BY DEF Init
  <2>3. job \in [Jobs -> JobState]
    BY IdleType DEF Init
  <2>4. /\ total \in [Sessions -> 0 .. MaxMsgs] /\ updated \in [Sessions -> Times]
        /\ dated \in [Sessions -> 0 .. MaxMsgs]
        /\ warned \subseteq Sessions /\ faults \in 0 .. MaxFaults
    BY DEF Init, Times
  <2> QED BY <2>1, <2>2, <2>3, <2>4 DEF TypeOK
<1>2. \A s \in Sessions : Store!Written(s) = {}
  BY DEF Init, Store!Init, Store!Written
<1>3. StatusNeverLeadsOutput /\ NoSilentGap
  BY <1>2 DEF StatusNeverLeadsOutput, NoSilentGap
<1>4. ASSUME NEW j \in Jobs PROVE JobInv(j)
  <2>1. job[j] = Idle /\ j[2] \in Sessions
    BY DEF Init, Jobs
  <2>2. /\ job[j].pc = "idle" /\ job[j].seen = 0 /\ job[j].top = 0
        /\ job[j].out = {}
    BY <2>1 DEF Idle
  <2>3. updated[j[2]] \in Nat /\ total[j[2]] \in Nat
    BY <2>1 DEF Init
  <2> QED BY <2>2, <2>3 DEF JobInv, SeenBehind, BelowWritten, WindowSelected,
                            BatchRegistered, OutFlushed, Fetched, Selected
<1> QED BY <1>1, <1>3, <1>4 DEF SyncInv

LEMMA SyncInvNext == SyncInv /\ [Next]_vars => SyncInv'
<1> SUFFICES ASSUME SyncInv, [Next]_vars
             PROVE  SyncInv'
  OBVIOUS
<1>1. TypeOK /\ NoSilentGap /\ StatusNeverLeadsOutput /\ \A j \in Jobs : JobInv(j)
  BY DEF SyncInv
<1>2. TypeOK' /\ Grows
  BY <1>1, TypeStep DEF JobInv
<1>3. \A j \in Jobs : Stepping(j)
  BY <1>1, <1>2 DEF Stepping
<1>4. ASSUME UNCHANGED <<messages, file>>
      PROVE  StatusNeverLeadsOutput' /\ NoSilentGap'
  BY <1>1, <1>2, <1>4 DEF StatusNeverLeadsOutput, NoSilentGap, Store!Written,
                          Flushed, Grows
<1>5. CASE UNCHANGED vars
  <2>1. \A j \in Jobs : JobInv(j)'
    BY <1>1, <1>2, <1>5, JobStable DEF vars
  <2> QED BY <1>2, <1>4, <1>5, <2>1 DEF vars, SyncInv
<1>6. ASSUME NEW s \in Sessions, NewMessage(s)
      PROVE  SyncInv'
  <2>1. UNCHANGED <<messages, file, job>>
    BY <1>6 DEF NewMessage
  <2>2. \A j \in Jobs : JobInv(j)'
    BY <1>1, <1>2, <2>1, JobStable
  <2> QED BY <1>2, <1>4, <2>1, <2>2 DEF SyncInv
<1>7. ASSUME NEW i \in Instances, ListSessions(i) \/ Restart(i)
      PROVE  SyncInv'
  <2>1. UNCHANGED <<messages, file>>
    BY <1>7 DEF ListSessions, Restart
  <2>2. ASSUME NEW j \in Jobs PROVE JobInv(j)'
    BY <1>1, <1>2, <1>3, <1>7, RoundAfter, JobStable, RestInv
  <2> QED BY <1>2, <1>4, <2>1, <2>2 DEF SyncInv
<1>8. ASSUME NEW j \in Jobs,
             JobStep(j) \/ FlushHead(j) \/ WriteFails(j) \/ CallFails(j)
      PROVE  SyncInv'
  <2>1. JobInv(j)'
    BY <1>1, <1>3, <1>8, OwnStepInv
  <2>2. \A q \in Jobs \ {j} : JobInv(q)'
    BY <1>1, <1>2, <1>8, JobTypeStep, JobStable
  <2>3. StatusNeverLeadsOutput' /\ NoSilentGap'
    BY <1>2, <1>8, OutputInv, GapInv
  <2> QED BY <1>2, <2>1, <2>2, <2>3 DEF SyncInv
<1> QED BY <1>5, <1>6, <1>7, <1>8 DEF Next

\* The strengthened invariant holds in every reachable state.
THEOREM SyncInvariant == Spec => []SyncInv
<1> QED BY SyncInvInit, SyncInvNext, PTL DEF Spec

-----------------------------------------------------------------------------
(***************************************************************************)
(* Results.                                                                *)
(***************************************************************************)
\* Every variable keeps its range, whatever fails (SyncOnce, syncSession).
THEOREM TypeCorrect == Spec => []TypeOK
<1>1. SyncInv => TypeOK
  BY DEF SyncInv
<1> QED BY <1>1, SyncInvariant, PTL

\* syncSession marks a message written only when its whole line is in the
\* file, with any number of processes at work on the same database and file.
THEOREM OutputFirst == Spec => []StatusNeverLeadsOutput
<1>1. SyncInv => StatusNeverLeadsOutput
  BY DEF SyncInv
<1> QED BY <1>1, SyncInvariant, PTL

\* Unless max_message_fetch was hit, the written messages of a session are a
\* prefix of its history: the boundary search of fetchUntilBoundary is right.
THEOREM NoGap == Spec => []NoSilentGap
<1>1. SyncInv => NoSilentGap
  BY DEF SyncInv
<1> QED BY <1>1, SyncInvariant, PTL

\* The watcher uses the store as the store demands.
THEOREM StoreRefined == Spec => UsesStore
<1>1. Init => Store!Init
  BY DEF Init
<1>2. SyncInv /\ [Next]_vars => [Store!Next]_Store!storeVars
  BY IsStoreStep DEF SyncInv, JobInv, Store!storeVars
<1> QED BY <1>1, <1>2, SyncInvariant, PTL DEF Spec, UsesStore, Store!Spec

-----------------------------------------------------------------------------
(***************************************************************************)
(* Skipping: what UpdatedAt stands for, whether or not it moves with every *)
(* message.                                                                *)
(***************************************************************************)
\* A step that leaves the server alone and does not list keeps ListIsFresh.
LEMMA FreshStable ==
  ASSUME TypeOK, NEW j \in Jobs, ListIsFresh(j), UNCHANGED <<total, updated, dated>>,
         \/ job'[j].pc \notin Listed
         \/ /\ job[j].pc \in Listed
            /\ job'[j].seen = job[j].seen /\ job'[j].top = job[j].top
         \/ j[2] \in Clocked => dated[j[2]] <= job'[j].top
  PROVE  ListIsFresh(j)'
BY DEF ListIsFresh

LEMMA FreshJobStep ==
  ASSUME TypeOK, NEW j \in Jobs, ListIsFresh(j),
         j[2] \in Clocked => dated[j[2]] <= total[j[2]],
         JobStep(j) \/ FlushHead(j) \/ WriteFails(j) \/ CallFails(j)
  PROVE  ListIsFresh(j)'
<1>0. job[j] \in JobState /\ UNCHANGED <<total, updated, dated>>
  BY JobType, JobRest
<1>1. CASE FilterSession(j) \/ TakeJob(j) \/ GetSession(j)
  <2>1. \/ job'[j] = Moved(job[j], "queued") \/ job'[j] = Idle
        \/ job'[j] = Moved(job[j], "detail") \/ job'[j] = Detailed(j)
    BY <1>1, FilterAfter, TakeAfter, GetSessionAfter DEF After
  <2>2. job'[j].pc \in {"queued", "idle", "detail", "probe"}
    <3>1. CASE job'[j] = Idle
      BY <3>1 DEF Idle
    <3>2. CASE job'[j] # Idle
      BY <1>0, <2>1, <3>2 DEF Moved, Detailed, JobState
    <3> QED BY <3>1, <3>2
  <2>3. job'[j].pc \notin Listed
    BY <2>2 DEF Listed, Fetched, Selected
  <2> QED BY <1>0, <2>3, FreshStable
<1>2. CASE ListMessages(j)
  <2>1. job'[j].top = total[j[2]]
    BY <1>0, <1>2, ListMessagesAfter DEF After, ListedAs, JobState
  <2> QED BY <1>0, <2>1, FreshStable
<1>3. CASE ProbeDecision(j)
  <2>1. \/ job'[j] = Moved(job[j], "stats") \/ job'[j] = Exhausted(job[j])
        \/ job'[j] = Grown(job[j])
    BY <1>3, ProbeDecisionAfter DEF After
  <2>2. job'[j].seen = job[j].seen /\ job'[j].top = job[j].top
    BY <1>0, <2>1 DEF Moved, Exhausted, Grown, JobState
  <2>3. job[j].pc \in Listed
    BY <1>3 DEF ProbeDecision, Listed
  <2> QED BY <1>0, <2>2, <2>3, FreshStable
<1>4. CASE FetchStats(j) \/ WriteDone(j) \/ WriteFails(j)
  <2>1. \E to \in PC : job'[j] = Moved(job[j], to)
    BY <1>4, FetchStatsAfter, WriteDoneAfter, WriteFailsAfter DEF After, PC, Working
  <2>2. job'[j].seen = job[j].seen /\ job'[j].top = job[j].top
    BY <1>0, <2>1 DEF Moved, JobState
  <2>3. job[j].pc \in Listed
    BY <1>4 DEF FetchStats, WriteDone, WriteFails, Listed, Fetched, Selected
  <2> QED BY <1>0, <2>2, <2>3, FreshStable
<1>5. CASE Deduplicate(j) \/ Prepare(j)
  <2>1. \E to \in PC : \E r : job'[j] = WithBatch(job[j], to, r)
    BY <1>5, DeduplicateAfter, PrepareAfter DEF After, PC, Working
  <2>2. job'[j].seen = job[j].seen /\ job'[j].top = job[j].top
    BY <1>0, <2>1 DEF WithBatch, JobState
  <2>3. job[j].pc \in Listed
    BY <1>5 DEF Deduplicate, Prepare, Listed, Fetched, Selected
  <2> QED BY <1>0, <2>2, <2>3, FreshStable
<1>6. CASE FlushRecord(j) \/ FlushHead(j)
  <2>1. job'[j] = WithHead(job[j]) \/ \E k \in Msgs : job'[j] = WithLine(job[j], k)
    BY <1>6, FlushRecordAfter, FlushHeadAfter DEF After
  <2>2. job'[j].seen = job[j].seen /\ job'[j].top = job[j].top
    BY <1>0, <2>1 DEF WithHead, WithLine, JobState
  <2>3. job[j].pc \in Listed
    BY <1>6 DEF FlushRecord, FlushHead, Listed, Fetched, Selected
  <2> QED BY <1>0, <2>2, <2>3, FreshStable
<1>7. CASE MarkWritten(j) \/ MarkFailed(j) \/ CallFails(j)
  <2>1. job'[j] = Idle
    BY <1>7, EndsAfter DEF After
  <2>2. job'[j].pc \notin Listed
    BY <2>1 DEF Idle, Listed, Fetched, Selected
  <2> QED BY <1>0, <2>2, FreshStable
<1> QED BY <1>1, <1>2, <1>3, <1>4, <1>5, <1>6, <1>7 DEF JobStep

\* A batch accounts for everything up to the newest message of its window.
LEMMA BatchCovers ==
  ASSUME SyncInv, Grows, NEW j \in Jobs, job[j].pc \in Selected,
         j[2] \notin warned,
         \A k \in job[j].recs : messages'[j[2]][k] # "absent"
  PROVE  \A k \in 1 .. job[j].top : messages'[j[2]][k] # "absent"
<1>1. TypeOK /\ BelowWritten(j) /\ WindowSelected(j)
  BY DEF SyncInv, JobInv
<1>2. job[j].pc \in Fetched
  BY DEF Fetched
<1>3. /\ j[2] \in Sessions /\ job[j].limit \in Nat /\ job[j].top \in 0 .. MaxMsgs
  BY <1>1, JobType, LimitType DEF JobState
<1> SUFFICES ASSUME NEW k \in 1 .. job[j].top
             PROVE  messages'[j[2]][k] # "absent"
  OBVIOUS
<1>4. k \in Msgs /\ k \in Nat /\ k <= job[j].top
  BY <1>3 DEF Msgs
<1>5. CASE k + job[j].limit <= job[j].top
  BY <1>1, <1>2, <1>3, <1>4, <1>5 DEF BelowWritten, Grows
<1>6. CASE job[j].top < k + job[j].limit
  <2>1. k \in Window(job[j])
    BY <1>4, <1>6 DEF Window
  <2>2. CASE k \in job[j].recs
    BY <2>2
  <2>3. CASE k \notin job[j].recs
    BY <1>1, <1>3, <1>4, <2>1, <2>3 DEF WindowSelected, Grows
  <2> QED BY <2>2, <2>3
<1> QED BY <1>3, <1>4, <1>5, <1>6

LEMMA RowJobStep ==
  ASSUME SyncInv, Grows, NEW j \in Jobs, ListIsFresh(j),
         JobStep(j) \/ FlushHead(j) \/ WriteFails(j) \/ CallFails(j),
         NEW s \in Clocked, RowFresh(s)
  PROVE  RowFresh(s)'
<1>1. /\ TypeOK /\ SeenBehind(j) /\ BatchRegistered(j)
      /\ s \in Sessions /\ j[2] \in Sessions /\ UNCHANGED <<total, updated, dated>>
  BY JobType, JobRest DEF SyncInv, JobInv
<1>2. /\ \A k \in 1 .. dated[s] : k \in Msgs
      /\ dated[s] \in Nat /\ job[j].top \in Nat
  BY <1>1, JobType DEF TypeOK, Msgs, JobState
<1>3. CASE sessions'[s].updated = sessions[s].updated
  BY <1>1, <1>2, <1>3 DEF RowFresh, Grows
<1>4. CASE Prepare(j) /\ s = j[2]
  <2>1. sessions'[s].updated = job[j].seen
    BY <1>1, <1>4 DEF Prepare, Store!PrepareMessageRecords, TypeOK, Store!TypeOK,
                      Store!SessionRow
  <2>2. job[j].pc \in Selected /\ job[j].pc \in Listed
    BY <1>4 DEF Prepare, Selected, Fetched, Listed
  <2>3. \A k \in job[j].recs : messages'[s][k] # "absent"
    <3>1. job[j].recs \subseteq Store!Msgs
      BY <1>1, JobType DEF JobState, Msgs, Store!Msgs
    <3> QED BY <1>1, <1>4, <3>1 DEF Prepare, Store!PrepareMessageRecords,
                                    Store!Prepared, TypeOK, Store!TypeOK
  <2>4. ASSUME s \notin warned', sessions'[s].updated = updated'[s]
        PROVE  \A k \in 1 .. dated'[s] : messages'[s][k] # "absent"
    <3>1. dated[s] <= job[j].top /\ s \notin warned
      BY <1>1, <1>4, <2>1, <2>2, <2>4 DEF ListIsFresh, Grows
    <3>2. \A k \in 1 .. job[j].top : messages'[s][k] # "absent"
      BY <1>1, <1>4, <2>2, <2>3, <3>1, BatchCovers
    <3> QED BY <1>1, <1>2, <3>1, <3>2
  <2> QED BY <1>1, <1>4, <2>1, <2>4 DEF RowFresh, SeenBehind
<1>5. CASE MarkWritten(j) /\ s = j[2]
  <2>1. sessions'[s].updated = job[j].seen
    BY <1>1, <1>5 DEF MarkWritten, Store!MarkMessagesWritten, TypeOK, Store!TypeOK,
                      Store!SessionRow
  <2>2. job[j].pc \in Selected /\ job[j].pc \in Listed
        /\ job[j].pc \in {"write", "mark", "markfail"}
    BY <1>5 DEF MarkWritten, Selected, Fetched, Listed
  <2>3. \A k \in job[j].recs : messages'[s][k] # "absent"
    <3>1. job[j].recs \subseteq Msgs
      BY <1>1, JobType DEF JobState
    <3> QED BY <1>1, <1>5, <2>2, <3>1 DEF BatchRegistered, Grows
  <2>4. ASSUME s \notin warned', sessions'[s].updated = updated'[s]
        PROVE  \A k \in 1 .. dated'[s] : messages'[s][k] # "absent"
    <3>1. dated[s] <= job[j].top /\ s \notin warned
      BY <1>1, <1>5, <2>1, <2>2, <2>4 DEF ListIsFresh, Grows
    <3>2. \A k \in 1 .. job[j].top : messages'[s][k] # "absent"
      BY <1>1, <1>5, <2>2, <2>3, <3>1, BatchCovers
    <3> QED BY <1>1, <1>2, <3>1, <3>2
  <2> QED BY <1>1, <1>5, <2>1, <2>4 DEF RowFresh, SeenBehind
<1>6. \/ sessions'[s].updated = sessions[s].updated
      \/ Prepare(j) /\ s = j[2]
      \/ MarkWritten(j) /\ s = j[2]
  <2>1. CASE UNCHANGED dbVars
    BY <2>1 DEF dbVars
  <2>2. CASE FetchStats(j)
    BY <1>1, <2>2 DEF FetchStats, Store!UpdateSessionFetchStats, TypeOK,
                      Store!TypeOK, Store!SessionRow
  <2>3. CASE Prepare(j) /\ s # j[2]
    BY <1>1, <2>3 DEF Prepare, Store!PrepareMessageRecords, TypeOK, Store!TypeOK
  <2>4. CASE MarkWritten(j) /\ s # j[2]
    BY <1>1, <2>4 DEF MarkWritten, Store!MarkMessagesWritten, TypeOK, Store!TypeOK
  <2>5. CASE MarkFailed(j)
    BY <2>5 DEF MarkFailed, Store!MarkMessagesFailed
  <2> QED BY <1>1, <2>1, <2>2, <2>3, <2>4, <2>5, JobCases
<1> QED BY <1>3, <1>4, <1>5, <1>6

LEMMA SkipInvNext ==
  ASSUME SyncInv, SkipInv, [Next]_vars
  PROVE  SkipInv'
<1>1. /\ TypeOK /\ TypeOK' /\ Grows /\ \A j \in Jobs : SeenBehind(j)
      /\ \A j \in Jobs : ListIsFresh(j)
      /\ \A s \in Clocked : RowFresh(s)
  BY TypeStep DEF SyncInv, JobInv, SkipInv
<1>2. \A s \in Clocked : updated[s] \in Nat /\ sessions[s].updated \in Nat
  BY <1>1 DEF TypeOK, Store!TypeOK, Store!SessionRow, Times
<1>3. CASE UNCHANGED vars
  BY <1>1, <1>3 DEF vars, SkipInv, ListIsFresh, RowFresh
<1>4. ASSUME NEW t \in Sessions, NewMessage(t)
      PROVE  SkipInv'
  <2>1. UNCHANGED <<sessions, messages, job, warned>>
    BY <1>4 DEF NewMessage
  <2>2. /\ \A s \in Sessions : s # t => /\ total'[s] = total[s]
                                        /\ updated'[s] = updated[s]
                                        /\ dated'[s] = dated[s]
        /\ \/ updated[t] < updated'[t] /\ dated'[t] = total'[t]
           \/ updated'[t] = updated[t] /\ dated'[t] = dated[t]
        /\ total[t] <= total'[t]
    BY <1>1, <1>4, NewMessageEffect
  <2>3. \A j \in Jobs : job[j].seen \in Nat /\ j[2] \in Sessions
    BY <1>1, JobType DEF JobState, Times
  <2>4. \A s \in Sessions : /\ updated'[s] \in Nat /\ total[s] \in Nat
                            /\ total'[s] \in Nat /\ dated[s] \in Nat
    BY <1>1 DEF TypeOK, Times
  <2>5. ASSUME NEW j \in Jobs PROVE ListIsFresh(j)'
    <3>1. CASE j[2] = t /\ updated[t] < updated'[t]
      <4>1. t \in Clocked => job[j].seen # updated'[t]
        BY <1>1, <1>2, <2>3, <2>4, <3>1 DEF SeenBehind
      <4> QED BY <2>1, <3>1, <4>1 DEF ListIsFresh
    <3>2. CASE updated'[j[2]] = updated[j[2]] /\ dated'[j[2]] = dated[j[2]]
      BY <1>1, <2>1, <3>2 DEF ListIsFresh
    <3> QED BY <2>2, <2>3, <3>1, <3>2
  <2>6. ASSUME NEW s \in Clocked PROVE RowFresh(s)'
    <3>1. CASE s = t /\ updated[t] < updated'[t] /\ dated'[t] = total'[t]
      BY <1>1, <1>2, <2>1, <2>4, <3>1 DEF RowFresh
    <3>2. CASE updated'[s] = updated[s] /\ dated'[s] = dated[s] /\ total[s] <= total'[s]
      BY <1>1, <2>1, <2>4, <3>2 DEF RowFresh
    <3>3. s \in Sessions /\ (s # t => total[s] <= total'[s])
      BY <2>2, <2>4
    <3> QED BY <2>2, <3>1, <3>2, <3>3
  <2> QED BY <2>5, <2>6 DEF SkipInv
<1>5. ASSUME NEW i \in Instances, ListSessions(i) \/ Restart(i)
      PROVE  SkipInv'
  <2>1. UNCHANGED <<total, updated, dated, sessions, messages, warned>>
    BY <1>5 DEF ListSessions, Restart
  <2>2. ASSUME NEW q \in Jobs PROVE ListIsFresh(q)'
    <3>1. CASE job'[q] = job[q]
      BY <1>1, <2>1, <3>1 DEF ListIsFresh
    <3>2. CASE job'[q] = Idle
      BY <3>2 DEF Idle, ListIsFresh, Listed, Fetched, Selected
    <3>3. CASE job'[q] = [Idle EXCEPT !.pc = "listed", !.seen = updated[q[2]]]
      <4>1. job'[q].pc = "listed"
        BY <3>3 DEF Idle
      <4> QED BY <4>1 DEF ListIsFresh, Listed, Fetched, Selected
    <3> QED BY <1>1, <1>5, <3>1, <3>2, <3>3, RoundAfter
  <2>3. \A s \in Clocked : RowFresh(s)'
    BY <1>1, <2>1 DEF RowFresh
  <2> QED BY <2>2, <2>3 DEF SkipInv
<1>6. ASSUME NEW j \in Jobs,
             JobStep(j) \/ FlushHead(j) \/ WriteFails(j) \/ CallFails(j)
      PROVE  SkipInv'
  <2>1. ListIsFresh(j)'
    <3>1. j[2] \in Clocked => dated[j[2]] <= total[j[2]]
      BY <1>1 DEF RowFresh
    <3> QED BY <1>1, <1>6, <3>1, FreshJobStep
  <2>2. \A q \in Jobs \ {j} : ListIsFresh(q)'
    BY <1>1, <1>6, JobTypeStep, JobRest DEF ListIsFresh
  <2>3. \A s \in Clocked : RowFresh(s)'
    BY <1>1, <1>6, RowJobStep
  <2> QED BY <2>1, <2>2, <2>3 DEF SkipInv
<1> QED BY <1>3, <1>4, <1>5, <1>6 DEF Next

LEMMA SkipInvInit == Init => SkipInv
<1> SUFFICES ASSUME Init PROVE SkipInv
  OBVIOUS
<1>1. \A j \in Jobs : ListIsFresh(j)
  BY DEF Init, Idle, ListIsFresh, Listed, Fetched, Selected
<1>2. ASSUME NEW s \in Clocked PROVE RowFresh(s)
  <2>1. s \in Sessions
    OBVIOUS
  <2>2. sessions[s].updated = 0 /\ updated[s] = 1 /\ dated[s] = 0 /\ total[s] = 0
    BY <2>1 DEF Init, Store!Init, Store!NoRow
  <2> QED BY <2>2 DEF RowFresh
<1> QED BY <1>1, <1>2 DEF SkipInv

\* The UpdatedAt of a row is never ahead of the messages registered, and that
\* of a job never ahead of the messages it has listed (syncSession).
THEOREM SkipInvariant == Spec => []SkipInv
<1>1. SyncInv /\ SkipInv /\ [Next]_vars => SkipInv'
  BY SkipInvNext
<1> QED BY <1>1, SkipInvInit, SyncInvariant, PTL DEF Spec

\* The test of shouldSync never skips a session with a message the database has
\* not met and UpdatedAt has moved for, however many share one UpdatedAt.
THEOREM SkipNeverMisses == Spec => []SkipIsSafe
<1>1. SyncInv /\ SkipInv => SkipIsSafe
  <2> SUFFICES ASSUME SyncInv, SkipInv, NEW s \in Clocked \ warned,
                      ~shouldSync(updated[s], sessions[s])
               PROVE  \A k \in 1 .. dated[s] : messages[s][k] # "absent"
    BY DEF SkipIsSafe
  <2>1. updated[s] \in Nat /\ sessions[s].updated \in Nat
    BY DEF SyncInv, TypeOK, Store!TypeOK, Store!SessionRow, Times
  <2>2. RowFresh(s)
    BY DEF SkipInv
  <2> QED BY <2>1, <2>2 DEF RowFresh, shouldSync
<1> QED BY <1>1, SkipInvariant, SyncInvariant, PTL

-----------------------------------------------------------------------------
(***************************************************************************)
(* The order of the file.                                                  *)
(***************************************************************************)
\* Who puts the first part of a record into the file finds everything older
\* complete there, not only who puts the whole of it.
ChunksInOrder ==
  \A s \in Sessions \ warned : \A n \in DOMAIN file[s] :
    \A k \in 1 .. (file[s][n].msg - 1) :
      \E m \in 1 .. n - 1 : file[s][m].msg = k /\ EndsLine(file[s][m])

\* What is older than the next record is written, or flushed in this batch.
LEMMA OlderDone ==
  ASSUME SyncInv, NEW j \in Jobs, job[j].pc = "write", j[2] \notin warned,
         NEW k \in Msgs, NextRecord(job[j], k), NEW m \in 1 .. (k - 1)
  PROVE  /\ m \in Msgs
         /\ messages[j[2]][m] = "written" \/ m \in job[j].out
<1>1. /\ TypeOK /\ BelowWritten(j) /\ WindowSelected(j)
      /\ job[j].pc \in Fetched /\ job[j].pc \in Selected
  BY DEF SyncInv, JobInv, Fetched, Selected
<1>2. /\ job[j].limit \in Nat /\ job[j].top \in Nat /\ MaxMsgs \in Nat
      /\ k \in Nat /\ m \in Nat /\ m < k /\ m \in Msgs
  BY <1>1, JobType, LimitType DEF JobState, Msgs
<1>3. k \in Window(job[j])
  BY <1>1 DEF WindowSelected, NextRecord
<1>4. CASE m + job[j].limit <= job[j].top
  BY <1>1, <1>2, <1>4 DEF BelowWritten
<1>5. CASE job[j].top < m + job[j].limit
  <2>1. m \in Window(job[j])
    BY <1>2, <1>3, <1>5 DEF Window
  <2>2. m \in job[j].recs => m \in job[j].out
    BY <1>2 DEF NextRecord
  <2> QED BY <1>1, <1>2, <2>1, <2>2 DEF WindowSelected
<1> QED BY <1>2, <1>4, <1>5

LEMMA OlderFlushed ==
  ASSUME SyncInv, NEW j \in Jobs, job[j].pc = "write", j[2] \notin warned,
         NEW k \in Msgs, NextRecord(job[j], k), NEW m \in 1 .. (k - 1)
  PROVE  Flushed(j[2], m)
<1>1. TypeOK /\ StatusNeverLeadsOutput /\ OutFlushed(j) /\ j[2] \in Sessions
  BY JobType DEF SyncInv, JobInv
<1>2. m \in Msgs /\ (messages[j[2]][m] = "written" \/ m \in job[j].out)
  BY OlderDone
<1> QED BY <1>1, <1>2 DEF StatusNeverLeadsOutput, Store!Written, Msgs,
                          Store!Msgs, OutFlushed

\* Appending a part of the next record keeps the order.
LEMMA PutInOrder ==
  ASSUME SyncInv, ChunksInOrder, NEW j \in Jobs, job[j].pc = "write",
         NEW k \in Msgs, NextRecord(job[j], k), NEW part \in Part,
         Put(j, k, part), UNCHANGED warned
  PROVE  ChunksInOrder'
<1>1. /\ TypeOK /\ j[2] \in Sessions
      /\ file \in [Sessions -> Seq(Chunk)] /\ file' \in [Sessions -> Seq(Chunk)]
  BY JobType, PutGrows DEF SyncInv, TypeOK
<1> DEFINE L == Len(file[j[2]])
<1>2. /\ \A s \in Sessions : \A n \in DOMAIN file[s] :
           n \in DOMAIN file'[s] /\ file'[s][n] = file[s][n]
      /\ \A s \in Sessions \ {j[2]} : file'[s] = file[s]
      /\ file'[j[2]][L + 1] = [msg |-> k, part |-> part, by |-> j[1]]
      /\ L \in Nat /\ DOMAIN file[j[2]] = 1 .. L /\ DOMAIN file'[j[2]] = 1 .. (L + 1)
  BY <1>1, PutGrows
<1> HIDE DEF L
<1> SUFFICES ASSUME NEW s \in Sessions \ warned, NEW n \in DOMAIN file'[s],
                    NEW i \in 1 .. (file'[s][n].msg - 1)
             PROVE  \E m \in 1 .. n - 1 :
                      file'[s][m].msg = i /\ EndsLine(file'[s][m])
  BY DEF ChunksInOrder, EndsLine
<1>3. CASE n \in DOMAIN file[s]
  <2>1. file'[s][n] = file[s][n]
    BY <1>2, <1>3
  <2>2. PICK m \in 1 .. n - 1 : file[s][m].msg = i /\ EndsLine(file[s][m])
    BY <1>3, <2>1 DEF ChunksInOrder
  <2>3. m \in DOMAIN file[s]
    <3>1. file[s] \in Seq(Chunk)
      BY <1>1
    <3> QED BY <1>3, <3>1
  <2> QED BY <1>2, <2>2, <2>3
<1>4. CASE n \notin DOMAIN file[s]
  <2>1. s = j[2] /\ n = L + 1
    BY <1>2, <1>4
  <2>2. i \in 1 .. (k - 1)
    BY <1>2, <2>1
  <2>3. Flushed(s, i)
    BY <2>1, <2>2, OlderFlushed
  <2>4. PICK m \in DOMAIN file[s] : file[s][m].msg = i /\ EndsLine(file[s][m])
    BY <2>3 DEF Flushed
  <2>5. m \in 1 .. n - 1
    BY <1>2, <2>1, <2>4
  <2> QED BY <1>2, <2>4, <2>5
<1> QED BY <1>3, <1>4

\* Only the two steps that write touch the file.
LEMMA FileCases ==
  ASSUME [Next]_vars
  PROVE  \/ UNCHANGED file /\ (warned \subseteq warned')
         \/ \E j \in Jobs : FlushRecord(j) \/ FlushHead(j)
<1>1. CASE UNCHANGED vars
  BY <1>1 DEF vars
<1>2. CASE \E s \in Sessions : NewMessage(s)
  BY <1>2 DEF NewMessage
<1>3. CASE \E i \in Instances : ListSessions(i) \/ Restart(i)
  BY <1>3 DEF ListSessions, Restart
<1>4. ASSUME NEW j \in Jobs,
             JobStep(j) \/ FlushHead(j) \/ WriteFails(j) \/ CallFails(j)
      PROVE  FlushRecord(j) \/ FlushHead(j) \/ (UNCHANGED file /\ warned \subseteq warned')
  BY <1>4 DEF JobStep, FilterSession, TakeJob, GetSession, ListMessages,
     ProbeDecision, FetchStats, Deduplicate, Prepare, WriteDone, MarkWritten,
     MarkFailed, WriteFails, CallFails
<1> QED BY <1>1, <1>2, <1>3, <1>4 DEF Next

LEMMA ChunksInOrderNext ==
  ASSUME SyncInv, ChunksInOrder, [Next]_vars
  PROVE  ChunksInOrder'
<1>1. CASE UNCHANGED file /\ warned \subseteq warned'
  BY <1>1 DEF ChunksInOrder, EndsLine
<1>2. ASSUME NEW j \in Jobs, FlushRecord(j) \/ FlushHead(j)
      PROVE  ChunksInOrder'
  <2>1. PICK k \in Msgs, part \in Part : NextRecord(job[j], k) /\ Put(j, k, part)
    BY <1>2 DEF FlushRecord, FlushHead, Part
  <2>2. job[j].pc = "write" /\ UNCHANGED warned
    BY <1>2 DEF FlushRecord, FlushHead
  <2> QED BY <2>1, <2>2, PutInOrder
<1> QED BY <1>1, <1>2, FileCases

\* First occurrences are in API order (sortMessages before WriteMessages), for
\* any number of processes that write into the same file, and whatever fails.
THEOREM ExportedInOrder == Spec => []FirstExportsInOrder
<1>1. Init => ChunksInOrder
  BY DEF Init, ChunksInOrder
<1>2. SyncInv /\ ChunksInOrder /\ [Next]_vars => ChunksInOrder'
  BY ChunksInOrderNext
<1>3. ChunksInOrder => FirstExportsInOrder
  BY DEF ChunksInOrder, FirstExportsInOrder
<1> QED BY <1>1, <1>2, <1>3, SyncInvariant, PTL DEF Spec

-----------------------------------------------------------------------------
(***************************************************************************)
(* What the store guarantees its callers, the watcher has: every step of   *)
(* the system is a call of the store or leaves it alone (StoreRefined).    *)
(***************************************************************************)
LEMMA StoreConstants == SP!StoreAssumption
BY DEF SP!StoreAssumption, Times

LEMMA SameStoreInit == Store!Init => SP!Init
BY DEF Store!Init, SP!Init, Store!NoRow, SP!NoRow, Store!Msgs, SP!Msgs

LEMMA SameStoreNext == [Store!Next]_(Store!storeVars) => [SP!Next]_(SP!storeVars)
<1>1. Store!Msgs = SP!Msgs
  BY DEF Store!Msgs, SP!Msgs
<1>2. ASSUME NEW s \in Sessions, NEW reached,
             Store!UpdateSessionFetchStats(s, reached)
      PROVE  SP!UpdateSessionFetchStats(s, reached)
  BY <1>2 DEF Store!UpdateSessionFetchStats, SP!UpdateSessionFetchStats
<1>3. ASSUME NEW s \in Sessions, NEW recs, NEW u,
             Store!PrepareMessageRecords(s, recs, u)
      PROVE  SP!PrepareMessageRecords(s, recs, u)
  BY <1>3 DEF Store!PrepareMessageRecords, SP!PrepareMessageRecords,
              Store!Prepared, SP!Prepared, Store!Msgs, SP!Msgs
<1>4. ASSUME NEW s \in Sessions, NEW recs, NEW u,
             Store!CallerPrepared(s, recs), Store!MarkMessagesWritten(s, recs, u)
      PROVE  SP!CallerPrepared(s, recs) /\ SP!MarkMessagesWritten(s, recs, u)
  <2>1. Store!AdvancedCursor(s, recs) = SP!AdvancedCursor(s, recs)
    BY DEF Store!AdvancedCursor, SP!AdvancedCursor
  <2> QED BY <1>4, <2>1 DEF Store!MarkMessagesWritten, SP!MarkMessagesWritten,
            Store!CallerPrepared, SP!CallerPrepared, Store!Msgs, SP!Msgs
<1>5. ASSUME NEW s \in Sessions, NEW recs, Store!MarkMessagesFailed(s, recs)
      PROVE  SP!MarkMessagesFailed(s, recs)
  BY <1>5 DEF Store!MarkMessagesFailed, SP!MarkMessagesFailed,
              Store!Msgs, SP!Msgs
<1>6. Store!Next => SP!Next
  BY <1>1, <1>2, <1>3, <1>4, <1>5 DEF Store!Next, SP!Next
<1> QED BY <1>6 DEF Store!storeVars, SP!storeVars

LEMMA StoreOfProofs == Spec => SP!Spec
<1>1. UsesStore => SP!Spec
  BY SameStoreInit, SameStoreNext, PTL DEF UsesStore, Store!Spec, SP!Spec
<1> QED BY <1>1, StoreRefined

\* The cursor is the newest written message, and a session with registered
\* messages has a row, with any number of processes on one database.
THEOREM RowsAreTrue ==
  Spec => [](Store!CursorIsNewestWritten /\ Store!RegisteredSessionHasRow)
<1>1. SP!CursorIsNewestWritten /\ SP!RegisteredSessionHasRow
        => Store!CursorIsNewestWritten /\ Store!RegisteredSessionHasRow
  BY DEF SP!CursorIsNewestWritten, Store!CursorIsNewestWritten,
         SP!RegisteredSessionHasRow, Store!RegisteredSessionHasRow,
         SP!Written, Store!Written, SP!Msgs, Store!Msgs
<1>2. SP!Spec => []SP!CursorIsNewestWritten
  BY StoreConstants, SP!CursorCorrect
<1>3. SP!Spec => []SP!RegisteredSessionHasRow
  BY StoreConstants, SP!RegisteredSessionHasRowCorrect
<1> QED BY <1>1, <1>2, <1>3, StoreOfProofs, PTL

\* So a row tells what was exported, whatever processes did together and
\* wherever they died (updateSessionCursor, fetchUntilBoundary).
THEOREM CursorAlwaysBoundary == Spec => []CursorIsBoundary
<1>1. SyncInv /\ Store!CursorIsNewestWritten => CursorIsBoundary
  <2> SUFFICES ASSUME SyncInv, Store!CursorIsNewestWritten,
                      NEW s \in Sessions, s \notin warned
               PROVE  Store!Written(s) = 1 .. sessions[s].cursor
    BY DEF CursorIsBoundary
  <2> DEFINE c == sessions[s].cursor
  <2>1. c \in 0 .. MaxMsgs
    BY DEF SyncInv, TypeOK, Store!TypeOK, Store!SessionRow
  <2>2. Store!Written(s) \subseteq 1 .. c
    BY <2>1 DEF Store!CursorIsNewestWritten, Store!Written, Store!Msgs
  <2>3. c # 0 => messages[s][c] = "written"
    BY DEF Store!CursorIsNewestWritten
  <2>4. ASSUME NEW k \in 1 .. c PROVE k \in Store!Written(s)
    BY <2>1, <2>3, <2>4 DEF SyncInv, NoSilentGap, Store!Written, Store!Msgs, Msgs
  <2> QED BY <2>2, <2>4
<1> QED BY <1>1, SyncInvariant, RowsAreTrue, PTL

\* What is written stays written, whichever process retries what.
THEOREM WrittenForEver == Spec => Store!WrittenIsPermanent
<1>1. [SP!WrittenKept]_(SP!storeVars) => [Store!WrittenKept]_(Store!storeVars)
  BY DEF SP!WrittenKept, Store!WrittenKept, SP!Written, Store!Written,
         SP!Msgs, Store!Msgs, SP!storeVars, Store!storeVars
<1>2. SP!Spec => SP!WrittenIsPermanent
  BY StoreConstants, SP!WrittenStaysWritten
<1> QED BY <1>1, <1>2, StoreOfProofs, PTL
           DEF SP!WrittenIsPermanent, Store!WrittenIsPermanent
=============================================================================
