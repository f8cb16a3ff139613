------------------------------- MODULE HAProofs -------------------------------
(***************************************************************************)
(* What is exported by the processes together.                             *)
(*                                                                         *)
(* SessionSync: as long as one process at a time is in a round, every step *)
(* is a step of AtLeastOnce or changes nothing it can see, a torn line     *)
(* costs no other message, and repetitions are due to faults.  With two    *)
(* processes in a round this is false: one may export what the other has   *)
(* just marked.                                                            *)
(*                                                                         *)
(* HA: with sound timing the lease keeps the processes apart, and so what  *)
(* all of them export is what one at-least-once exporter does.             *)
(***************************************************************************)
EXTENDS HA, SessionSyncProofs, FiniteSetTheorems

-----------------------------------------------------------------------------
(***************************************************************************)
(* The watcher, one process in a round at a time.                          *)
(***************************************************************************)
USE SyncAssumption

OneInstance == \A a, b \in Instances : a = b

\* The batch in the sink is not acknowledged yet.
BatchUnwritten(j) == job[j].pc = "write" =>
  \A k \in job[j].recs : messages[j[2]][k] # "written"

ExportInv == SyncInv /\ \A j \in Jobs : BatchUnwritten(j)

LEMMA OneInstanceIsExclusive == OneInstance => Exclusive
BY DEF OneInstance, Exclusive, Jobs

\* With one process in a round, a session has one job that is going on.
LEMMA OneJobPerSession ==
  ASSUME Exclusive, NEW j \in Jobs, NEW q \in Jobs, j[2] = q[2],
         job[j].pc # "idle", job[q].pc # "idle"
  PROVE  j = q
BY DEF Exclusive, Jobs

\* A job that steps is going on.
LEMMA SteppingGoesOn ==
  ASSUME NEW j \in Jobs,
         JobStep(j) \/ FlushHead(j) \/ WriteFails(j) \/ CallFails(j)
  PROVE  job[j].pc # "idle"
<1>1. CASE JobStep(j)
  BY <1>1 DEF JobStep, FilterSession, TakeJob, GetSession, ListMessages,
     ProbeDecision, FetchStats, Deduplicate, Prepare, FlushRecord, WriteDone,
     MarkWritten, MarkFailed
<1>2. CASE FlushHead(j) \/ WriteFails(j)
  BY <1>2 DEF FlushHead, WriteFails
<1>3. CASE CallFails(j)
  BY <1>3 DEF CallFails, Working
<1> QED BY <1>1, <1>2, <1>3

\* A job touches the messages of its own session only.
LEMMA OtherSessions ==
  ASSUME TypeOK, NEW j \in Jobs,
         JobStep(j) \/ FlushHead(j) \/ WriteFails(j) \/ CallFails(j),
         NEW s \in Sessions, s # j[2]
  PROVE  messages'[s] = messages[s]
<1>1. messages \in [Sessions -> [Msgs -> Store!Status]] /\ j[2] \in Sessions
  BY JobType DEF TypeOK, Store!TypeOK, Msgs, Store!Msgs
<1>2. CASE UNCHANGED dbVars
  BY <1>2 DEF dbVars
<1>3. CASE FetchStats(j)
  BY <1>3 DEF FetchStats, Store!UpdateSessionFetchStats
<1>4. CASE Prepare(j)
  BY <1>1, <1>4 DEF Prepare, Store!PrepareMessageRecords
<1>5. CASE MarkWritten(j)
  BY <1>1, <1>5 DEF MarkWritten, Store!MarkMessagesWritten
<1>6. CASE MarkFailed(j)
  BY <1>1, <1>6 DEF MarkFailed, Store!MarkMessagesFailed
<1> QED BY <1>2, <1>3, <1>4, <1>5, <1>6, JobCases

LEMMA BatchUnwrittenStep ==
  ASSUME TypeOK, NEW j \in Jobs, BatchUnwritten(j),
         JobStep(j) \/ FlushHead(j) \/ WriteFails(j) \/ CallFails(j)
  PROVE  BatchUnwritten(j)'
<1>0. job[j] \in JobState /\ j[2] \in Sessions
  BY JobType
<1>1. CASE FilterSession(j) \/ TakeJob(j) \/ GetSession(j) \/ ListMessages(j)
  <2>1. \/ job'[j] = Moved(job[j], "queued") \/ job'[j] = Moved(job[j], "detail")
        \/ job'[j] = Detailed(j) \/ job'[j] = ListedAs(j) \/ job'[j] = Idle
    BY <1>1, FilterAfter, TakeAfter, GetSessionAfter, ListMessagesAfter DEF After
  <2>2. CASE job'[j] = Idle
    BY <2>2 DEF Idle, BatchUnwritten
  <2>3. CASE job'[j] # Idle
    <3>1. job'[j].pc # "write"
      BY <1>0, <2>1, <2>3 DEF Moved, Detailed, ListedAs, JobState
    <3> QED BY <3>1 DEF BatchUnwritten
  <2> QED BY <2>2, <2>3
<1>2. CASE ProbeDecision(j) \/ FetchStats(j) \/ WriteDone(j) \/ WriteFails(j)
  <2>1. \/ job'[j] = Moved(job[j], "stats") \/ job'[j] = Moved(job[j], "dedup")
        \/ job'[j] = Moved(job[j], "mark") \/ job'[j] = Moved(job[j], "markfail")
        \/ job'[j] = Exhausted(job[j]) \/ job'[j] = Grown(job[j])
    BY <1>2, ProbeDecisionAfter, FetchStatsAfter, WriteDoneAfter, WriteFailsAfter
       DEF After
  <2>2. job'[j].pc # "write"
    BY <1>0, <2>1 DEF Moved, Exhausted, Grown, JobState
  <2> QED BY <2>2 DEF BatchUnwritten
<1>3. CASE Deduplicate(j)
  <2>1. job'[j].pc = "prepare"
    BY <1>0, <1>3, DeduplicateAfter DEF After, WithBatch, JobState
  <2> QED BY <2>1 DEF BatchUnwritten
<1>4. CASE Prepare(j)
  <2>1. job'[j].recs = Store!Prepared(j[2], job[j].recs)
    <3> DEFINE r == Store!Prepared(j[2], job[j].recs)
    <3>1. job'[j] = WithBatch(job[j], "write", r)
      BY <1>4, PrepareAfter DEF After
    <3> HIDE DEF r
    <3>2. job'[j].recs = r
      BY <1>0, <3>1 DEF WithBatch, JobState
    <3> QED BY <3>2 DEF r
  <2>2. \A k \in Store!Prepared(j[2], job[j].recs) : messages[j[2]][k] # "written"
    BY DEF Store!Prepared
  <2>3. Store!Prepared(j[2], job[j].recs) \subseteq Msgs
    BY <1>0 DEF Store!Prepared, JobState
  <2>4. \A k \in Msgs : messages'[j[2]][k] = "written" =>
                          messages[j[2]][k] = "written"
    <3>1. JobStep(j)
      BY <1>4 DEF JobStep
    <3>2. ~MarkWritten(j)
      BY <1>4 DEF Prepare, MarkWritten
    <3> QED BY <1>0, <3>1, <3>2, WrittenBy
  <2> QED BY <2>1, <2>2, <2>3, <2>4 DEF BatchUnwritten
<1>5. CASE FlushRecord(j) \/ FlushHead(j)
  <2>0. job'[j] = WithHead(job[j]) \/ \E k \in Msgs : job'[j] = WithLine(job[j], k)
    BY <1>5, FlushRecordAfter, FlushHeadAfter DEF After
  <2>1. job'[j].recs = job[j].recs /\ job'[j].pc = job[j].pc
    BY <1>0, <2>0 DEF WithLine, WithHead, JobState
  <2>2. UNCHANGED messages
    BY <1>5 DEF FlushRecord, FlushHead
  <2> QED BY <2>1, <2>2 DEF BatchUnwritten
<1>6. CASE MarkWritten(j) \/ MarkFailed(j) \/ CallFails(j)
  <2>1. job'[j].pc # "write"
    BY <1>6, EndsAfter DEF After, Idle
  <2> QED BY <2>1 DEF BatchUnwritten
<1> QED BY <1>1, <1>2, <1>3, <1>4, <1>5, <1>6 DEF JobStep

LEMMA ExportInvInit == Init => ExportInv
BY SyncInvInit DEF ExportInv, BatchUnwritten, Init, Idle

LEMMA ExportInvNext ==
  ASSUME Exclusive, ExportInv, [Next]_vars
  PROVE  ExportInv'
<1>1. SyncInv' /\ TypeOK /\ \A j \in Jobs : BatchUnwritten(j)
  BY SyncInvNext DEF ExportInv, SyncInv
<1>2. CASE UNCHANGED vars
  BY <1>1, <1>2 DEF vars, ExportInv, BatchUnwritten
<1>3. ASSUME NEW s \in Sessions, NewMessage(s)
      PROVE  ExportInv'
  BY <1>1, <1>3 DEF NewMessage, ExportInv, BatchUnwritten
<1>4. ASSUME NEW i \in Instances, ListSessions(i) \/ Restart(i)
      PROVE  ExportInv'
  <2>1. UNCHANGED messages
    BY <1>4 DEF ListSessions, Restart
  <2>2. ASSUME NEW q \in Jobs PROVE BatchUnwritten(q)'
    <3>1. CASE job'[q] = job[q]
      BY <1>1, <2>1, <3>1 DEF BatchUnwritten
    <3>2. CASE job'[q] = Idle
      BY <3>2 DEF Idle, BatchUnwritten
    <3>3. CASE job'[q] = [Idle EXCEPT !.pc = "listed", !.seen = updated[q[2]]]
      <4>1. job'[q].pc = "listed"
        BY <3>3 DEF Idle
      <4> QED BY <4>1 DEF BatchUnwritten
    <3> QED BY <1>1, <1>4, <3>1, <3>2, <3>3, RoundAfter
  <2> QED BY <1>1, <2>2 DEF ExportInv
<1>5. ASSUME NEW j \in Jobs,
             JobStep(j) \/ FlushHead(j) \/ WriteFails(j) \/ CallFails(j)
      PROVE  ExportInv'
  <2>1. BatchUnwritten(j)'
    BY <1>1, <1>5, BatchUnwrittenStep
  <2>2. ASSUME NEW q \in Jobs, q # j PROVE BatchUnwritten(q)'
    <3>1. job'[q] = job[q]
      BY <1>1, <1>5, <2>2, JobTypeStep
    <3>2. CASE job[q].pc = "idle"
      BY <3>1, <3>2 DEF BatchUnwritten
    <3>3. CASE job[q].pc # "idle"
      <4>1. q[2] \in Sessions /\ q[2] # j[2]
        BY <1>1, <1>5, <2>2, <3>3, JobType, OneJobPerSession, SteppingGoesOn
      <4>2. messages'[q[2]] = messages[q[2]]
        BY <1>1, <1>5, <4>1, OtherSessions
      <4> QED BY <1>1, <3>1, <4>2 DEF BatchUnwritten
    <3> QED BY <3>2, <3>3
  <2> QED BY <1>1, <2>1, <2>2 DEF ExportInv
<1> QED BY <1>2, <1>3, <1>4, <1>5 DEF Next

-----------------------------------------------------------------------------
(***************************************************************************)
(* The refinement mapping, step by step.                                   *)
(***************************************************************************)
Log == [s \in Sessions |-> Attempts(s)]
Acked == [s \in Sessions |-> Store!Written(s)]

LEMMA LogSame ==
  ASSUME UNCHANGED file
  PROVE  UNCHANGED Log
BY DEF Log, Attempts, EndsLine

\* One write(2) is one attempt.
LEMMA LogGrows ==
  ASSUME TypeOK, NEW j \in Jobs, NEW k \in Msgs, NEW part \in Part,
         Put(j, k, part)
  PROVE  Log' = [Log EXCEPT ![j[2]] =
                   Append(Log[j[2]], [msg |-> k, whole |-> part # "head"])]
<1> DEFINE a == [msg |-> k, whole |-> part # "head"]
           c == [msg |-> k, part |-> part, by |-> j[1]]
           f == file[j[2]]
           g == file'[j[2]]
           At(chunk) == [msg |-> chunk.msg, whole |-> EndsLine(chunk)]
<1>1. /\ j[2] \in Sessions /\ f \in Seq(Chunk) /\ g \in Seq(Chunk)
      /\ Len(g) = Len(f) + 1 /\ g[Len(f) + 1] = c
      /\ \A n \in DOMAIN f : n \in DOMAIN g /\ g[n] = f[n]
  BY JobType, PutGrows DEF TypeOK
<1>2. \A s \in Sessions \ {j[2]} : Attempts(s)' = Attempts(s)
  BY PutGrows DEF Attempts, EndsLine
<1>3. Attempts(j[2]) = [n \in DOMAIN f |-> At(f[n])]
  BY DEF Attempts, EndsLine
<1>4. Attempts(j[2])' = [n \in DOMAIN g |-> At(g[n])]
  BY DEF Attempts, EndsLine
<1>5. At(c) = a
  BY DEF EndsLine
<1>6. [n \in DOMAIN g |-> At(g[n])] = Append([n \in DOMAIN f |-> At(f[n])], a)
  <2> HIDE DEF a, c, f, g, At
  <2>1. DOMAIN f = 1 .. Len(f) /\ DOMAIN g = 1 .. (Len(f) + 1) /\ Len(f) \in Nat
    BY <1>1
  <2> DEFINE F == [n \in DOMAIN f |-> At(f[n])]
             G == [n \in DOMAIN g |-> At(g[n])]
             Any == {At(f[n]) : n \in DOMAIN f} \cup {a}
  <2>2. F \in Seq(Any) /\ Len(F) = Len(f)
    BY <2>1
  <2>3. G = [n \in 1 .. (Len(f) + 1) |-> IF n <= Len(f) THEN F[n] ELSE a]
    BY <1>1, <1>5, <2>1
  <2>4. a \in Any
    OBVIOUS
  <2> HIDE DEF F, G, Any
  <2> DEFINE H == Append(F, a)
  <2>5. /\ H \in Seq(Any) /\ Len(H) = Len(f) + 1
        /\ \A n \in 1 .. Len(f) : H[n] = F[n]
        /\ H[Len(f) + 1] = a
    BY <2>1, <2>2, <2>4
  <2> HIDE DEF H
  <2>6. H = [n \in 1 .. Len(H) |-> H[n]]
    BY <2>5
  <2>7. H = G
    BY <2>1, <2>3, <2>5, <2>6
  <2> QED BY <2>7 DEF F, G, H
<1>7. Attempts(j[2])' = Append(Attempts(j[2]), a)
  BY <1>3, <1>4, <1>6
<1> HIDE DEF a, c, f, g, At
<1>8. Log[j[2]] = Attempts(j[2])
  BY <1>1 DEF Log
<1>9. Log' = [s \in Sessions |-> Attempts(s)']
  BY DEF Log
<1> QED BY <1>1, <1>2, <1>7, <1>8, <1>9 DEF Log, a

\* What the sink appends is a message that exists and is not acknowledged.
LEMMA ExportStep ==
  ASSUME ExportInv, NEW j \in Jobs, FlushRecord(j) \/ FlushHead(j)
  PROVE  Abstract!Next
<1>1. /\ TypeOK /\ SeenBehind(j) /\ WindowSelected(j) /\ BatchUnwritten(j)
      /\ j[2] \in Sessions /\ job[j].pc = "write"
  BY JobType DEF ExportInv, SyncInv, JobInv, FlushRecord, FlushHead
<1>2. PICK k \in Msgs, part \in Part : NextRecord(job[j], k) /\ Put(j, k, part)
  BY DEF FlushRecord, FlushHead, Part
<1>3. k \in job[j].recs /\ k <= total[j[2]] /\ messages[j[2]][k] # "written"
  <2>1. k \in job[j].recs
    BY <1>2 DEF NextRecord
  <2>2. k \in Window(job[j])
    BY <1>1, <2>1 DEF WindowSelected, Selected
  <2>3. k <= job[j].top /\ job[j].top <= total[j[2]]
    BY <1>1, <2>2 DEF Window, SeenBehind
  <2>4. job[j].top \in Nat /\ total[j[2]] \in Nat
    BY <1>1, JobType DEF JobState, TypeOK
  <2> QED BY <1>1, <2>1, <2>3, <2>4 DEF BatchUnwritten, Msgs
<1> DEFINE a == [msg |-> k, whole |-> part # "head"]
<1>4. a \in Abstract!Attempt
  BY DEF Abstract!Attempt, Msgs
<1>5. a.msg <= total[j[2]] /\ a.msg \notin Acked[j[2]]
  BY <1>1, <1>3 DEF Acked, Store!Written
<1>6. Log' = [Log EXCEPT ![j[2]] = Append(Log[j[2]], a)]
  BY <1>1, <1>2, LogGrows
<1>7. UNCHANGED <<total, Acked>>
  BY DEF FlushRecord, FlushHead, Acked, Store!Written
<1> HIDE DEF a
<1>8. Abstract!Export(j[2], a)
  BY <1>5, <1>6, <1>7 DEF Abstract!Export, Log, Acked
<1> QED BY <1>1, <1>4, <1>8 DEF Abstract!Next

\* What is marked has been exported completely.
LEMMA AcknowledgeStep ==
  ASSUME ExportInv, NEW j \in Jobs, MarkWritten(j)
  PROVE  Abstract!Next
<1> DEFINE batch == job[j].recs
<1>1. /\ TypeOK /\ OutFlushed(j) /\ BatchRegistered(j)
      /\ j[2] \in Sessions /\ job[j].pc = "mark" /\ batch \subseteq Msgs
  BY JobType DEF ExportInv, SyncInv, JobInv, MarkWritten, JobState
<1>2. batch \in SUBSET (1 .. MaxMsgs)
  BY <1>1 DEF Msgs
<1>3. ASSUME NEW k \in batch
      PROVE  k \in {m \in 1 .. MaxMsgs : \E n \in DOMAIN Log[j[2]] :
                                Log[j[2]][n].msg = m /\ Log[j[2]][n].whole}
  <2>1. PICK n \in DOMAIN file[j[2]] :
               file[j[2]][n].msg = k /\ EndsLine(file[j[2]][n])
    BY <1>1, <1>3 DEF OutFlushed, Flushed
  <2>2. Log[j[2]] = Attempts(j[2])
    BY <1>1 DEF Log
  <2>3. n \in DOMAIN Log[j[2]] /\ Log[j[2]][n].msg = k /\ Log[j[2]][n].whole
    BY <2>1, <2>2 DEF Attempts
  <2> QED BY <1>2, <2>3
<1>4. batch \subseteq Abstract!Exported(j[2])
  BY <1>3 DEF Abstract!Exported, Log
<1>5. Acked' = [Acked EXCEPT ![j[2]] = Acked[j[2]] \cup batch]
  <2>1. \A s \in Sessions : s # j[2] => Store!Written(s)' = Store!Written(s)
    BY <1>1, MarkEffect DEF Store!Written, Msgs, Store!Msgs
  <2>2. \A k \in batch : messages[j[2]][k] # "absent"
    BY <1>1 DEF BatchRegistered
  <2>3. Store!Written(j[2])' = Store!Written(j[2]) \cup batch
    BY <1>1, <2>2, MarkEffect DEF Store!Written, Msgs, Store!Msgs
  <2>4. Acked[j[2]] = Store!Written(j[2])
    BY <1>1 DEF Acked
  <2>5. Acked' = [s \in Sessions |-> Store!Written(s)']
    BY DEF Acked
  <2> HIDE DEF batch
  <2> QED BY <1>1, <2>1, <2>3, <2>4, <2>5 DEF Acked
<1>6. UNCHANGED <<total, Log>>
  BY LogSame DEF MarkWritten
<1> HIDE DEF batch
<1>7. Abstract!Acknowledge(j[2], batch)
  BY <1>4, <1>5, <1>6 DEF Abstract!Acknowledge, Log, Acked
<1> QED BY <1>1, <1>2, <1>7 DEF Abstract!Next

\* No other step of a job is seen from outside.
LEMMA SilentStep ==
  ASSUME TypeOK, NEW j \in Jobs, Grows,
         JobStep(j) \/ FlushHead(j) \/ WriteFails(j) \/ CallFails(j),
         ~FlushRecord(j), ~FlushHead(j), ~MarkWritten(j)
  PROVE  UNCHANGED Abstract!vars
<1>1. UNCHANGED total
  BY JobRest
<1>2. UNCHANGED Log
  <2>1. UNCHANGED file
    BY DEF JobStep, FilterSession, TakeJob, GetSession, ListMessages,
           ProbeDecision, FetchStats, Deduplicate, Prepare, WriteDone,
           MarkFailed, WriteFails, CallFails
  <2> QED BY <2>1, LogSame
<1>3. UNCHANGED Acked
  <2>1. \A s \in Sessions, k \in Msgs :
          messages'[s][k] = "written" <=> messages[s][k] = "written"
    BY WrittenBy DEF Grows
  <2>2. \A s \in Sessions : Store!Written(s)' = Store!Written(s)
    BY <2>1 DEF Store!Written, Msgs, Store!Msgs
  <2> QED BY <2>2 DEF Acked
<1> QED BY <1>1, <1>2, <1>3 DEF Abstract!vars, Log, Acked

\* As long as one process at a time is in a round, whatever the processes do,
\* fail at or forget, together they are an at-least-once exporter with final
\* acknowledgements (README, "at-least-once").
THEOREM ExclusiveIsAtLeastOnce ==
  Spec /\ []Exclusive => ImplementsAtLeastOnce
<1>1. Init => Abstract!Init
  <2> SUFFICES ASSUME Init PROVE Abstract!Init
    OBVIOUS
  <2>1. \A s \in Sessions : Attempts(s) = << >>
    BY DEF Init, Attempts
  <2>2. \A s \in Sessions : Store!Written(s) = {}
    BY DEF Init, Store!Init, Store!Written, Store!Msgs
  <2> QED BY <2>1, <2>2 DEF Init, Abstract!Init
<1>2. ASSUME ExportInv, [Next]_vars
      PROVE  [Abstract!Next]_Abstract!vars
  <2>1. TypeOK /\ Grows
    <3>1. TypeOK /\ \A j \in Jobs : JobInv(j)
      BY <1>2 DEF ExportInv, SyncInv
    <3> QED BY <1>2, <3>1, TypeStep DEF JobInv
  <2>2. CASE UNCHANGED vars
    BY <2>2, LogSame DEF vars, Abstract!vars, Log, Acked, Store!Written
  <2>3. ASSUME NEW s \in Sessions, NewMessage(s)
        PROVE  Abstract!Next
    <3>1. UNCHANGED <<Log, Acked>>
      BY <2>3, LogSame DEF NewMessage, Acked, Store!Written
    <3>2. Abstract!Arrive(s)
      BY <2>3, <3>1 DEF NewMessage, Abstract!Arrive, Log, Acked
    <3> QED BY <3>2 DEF Abstract!Next
  <2>4. ASSUME NEW i \in Instances, ListSessions(i) \/ Restart(i)
        PROVE  UNCHANGED Abstract!vars
    <3>1. UNCHANGED <<total, messages, file>>
      BY <2>4 DEF ListSessions, Restart
    <3>2. UNCHANGED <<Log, Acked>>
      BY <3>1, LogSame DEF Acked, Store!Written
    <3> QED BY <3>1, <3>2 DEF Abstract!vars, Log, Acked
  <2>5. ASSUME NEW j \in Jobs,
               JobStep(j) \/ FlushHead(j) \/ WriteFails(j) \/ CallFails(j)
        PROVE  [Abstract!Next]_Abstract!vars
    BY <1>2, <2>1, <2>5, ExportStep, AcknowledgeStep, SilentStep
  <2> QED BY <1>2, <2>2, <2>3, <2>4, <2>5 DEF Next
<1>3. Exclusive /\ ExportInv /\ [Next]_vars => ExportInv'
  BY ExportInvNext
<1> QED BY <1>1, <1>2, <1>3, ExportInvInit, PTL
        DEF Spec, ImplementsAtLeastOnce, Abstract!Spec

\* One process alone is an at-least-once exporter.
THEOREM AtLeastOnceRefined ==
  ASSUME OneInstance
  PROVE  Spec => ImplementsAtLeastOnce
<1>1. Exclusive
  BY OneInstanceIsExclusive
<1> QED BY <1>1, ExclusiveIsAtLeastOnce, PTL

-----------------------------------------------------------------------------
(***************************************************************************)
(* What a torn line costs.                                                 *)
(***************************************************************************)
HeadIn(s, k) == \E n \in DOMAIN file[s] :
                  file[s][n].msg = k /\ file[s][n].part = "head"

\* A job has flushed nothing unless it is in the sink or has just left it.
Flushing == {"write", "mark", "markfail"}

BatchClean(j) ==
  job[j].pc \notin Flushing => job[j].out = {} /\ ~job[j].half

\* Half a line is in the file as a head.
HeadThere(j) == job[j].half =>
  \A k \in Msgs : NextRecord(job[j], k) => HeadIn(j[2], k)

\* The record whose head ends the file is neither written nor flushed.
TearIsOpen(s) == \A n \in DOMAIN file[s] :
  n + 1 \notin DOMAIN file[s] /\ file[s][n].part = "head" =>
    /\ messages[s][file[s][n].msg] # "written"
    /\ \A j \in Jobs : j[2] = s => file[s][n].msg \notin job[j].out

OnlyTornLost(s) == \A k \in Msgs :
  Flushed(s, k) => Readable(s, k) \/ HeadIn(s, k)

TornInv == /\ ChunksInOrder
           /\ \A j \in Jobs : BatchClean(j) /\ HeadThere(j)
           /\ \A s \in Sessions : TearIsOpen(s)
           /\ \A s \in Sessions \ warned : OnlyTornLost(s)

\* A job that does not write forgets what it has flushed, or leaves it alone.
Calmer(b, c) == \/ c = b
                \/ c.out = {} /\ ~c.half
                \/ /\ c.out = b.out /\ c.half = b.half /\ c.recs = b.recs
                   /\ c.pc \in Flushing

LEMMA CalmStep ==
  ASSUME TypeOK, NEW j \in Jobs, BatchClean(j), ~FlushRecord(j), ~FlushHead(j),
         JobStep(j) \/ WriteFails(j) \/ CallFails(j)
  PROVE  Calmer(job[j], job'[j])
<1>0. job[j] \in JobState
  BY JobType
<1>1. CASE FilterSession(j) \/ TakeJob(j) \/ GetSession(j) \/ ListMessages(j)
  <2>1. \/ job'[j] = Moved(job[j], "queued") \/ job'[j] = Moved(job[j], "detail")
        \/ job'[j] = Detailed(j) \/ job'[j] = ListedAs(j) \/ job'[j] = Idle
    BY <1>1, FilterAfter, TakeAfter, GetSessionAfter, ListMessagesAfter DEF After
  <2>2. job[j].out = {} /\ ~job[j].half
    BY <1>1 DEF BatchClean, Flushing, FilterSession, TakeJob, GetSession,
                ListMessages
  <2>3. CASE job'[j] = Idle
    BY <2>3 DEF Calmer, Idle
  <2>4. CASE job'[j] # Idle
    <3>1. job'[j].out = job[j].out /\ job'[j].half = job[j].half
      BY <1>0, <2>1, <2>4 DEF Moved, Detailed, ListedAs, JobState
    <3> QED BY <2>2, <3>1 DEF Calmer
  <2> QED BY <2>3, <2>4
<1>2. CASE ProbeDecision(j) \/ FetchStats(j)
  <2>1. \/ job'[j] = Moved(job[j], "stats") \/ job'[j] = Moved(job[j], "dedup")
        \/ job'[j] = Exhausted(job[j]) \/ job'[j] = Grown(job[j])
    BY <1>2, ProbeDecisionAfter, FetchStatsAfter DEF After
  <2>2. job[j].out = {} /\ ~job[j].half
    BY <1>2 DEF BatchClean, Flushing, ProbeDecision, FetchStats
  <2> QED BY <1>0, <2>1, <2>2 DEF Calmer, Moved, Exhausted, Grown, JobState
<1>3. CASE Deduplicate(j) \/ Prepare(j)
  <2>1. \E to, r : job'[j] = WithBatch(job[j], to, r)
    BY <1>3, DeduplicateAfter, PrepareAfter DEF After
  <2>2. PICK to, r : job'[j] = [job[j] EXCEPT !.pc = to, !.recs = r]
    BY <2>1 DEF WithBatch
  <2>3. job[j].out = {} /\ ~job[j].half
    BY <1>3 DEF BatchClean, Flushing, Deduplicate, Prepare
  <2>4. job'[j].out = job[j].out /\ job'[j].half = job[j].half
    BY <1>0, <2>2 DEF JobState
  <2> QED BY <2>3, <2>4 DEF Calmer
<1>4. CASE WriteDone(j) \/ WriteFails(j)
  <2>1. job'[j] = Moved(job[j], "mark") \/ job'[j] = Moved(job[j], "markfail")
    BY <1>4, WriteDoneAfter, WriteFailsAfter DEF After
  <2> QED BY <1>0, <2>1 DEF Calmer, Moved, Flushing, JobState
<1>5. CASE MarkWritten(j) \/ MarkFailed(j) \/ CallFails(j)
  BY <1>5, EndsAfter DEF After, Calmer, Idle
<1> QED BY <1>1, <1>2, <1>3, <1>4, <1>5 DEF JobStep

\* Whatever leaves the file alone and marks only what was flushed.
LEMMA TornCalm ==
  ASSUME TypeOK, TypeOK', TornInv, UNCHANGED file, warned \subseteq warned',
         \A q \in Jobs : Calmer(job[q], job'[q]),
         \A s \in Sessions, k \in Msgs : messages'[s][k] = "written" =>
           \/ messages[s][k] = "written"
           \/ \E q \in Jobs : q[2] = s /\ k \in job[q].out
  PROVE  TornInv'
<1>1. ChunksInOrder'
  BY DEF TornInv, ChunksInOrder, EndsLine
<1>2. ASSUME NEW j \in Jobs PROVE BatchClean(j)' /\ HeadThere(j)'
  <2>1. BatchClean(j) /\ HeadThere(j) /\ Calmer(job[j], job'[j])
    BY DEF TornInv
  <2> QED BY <2>1 DEF Calmer, BatchClean, HeadThere, HeadIn, NextRecord
<1>3. ASSUME NEW s \in Sessions PROVE TearIsOpen(s)'
  <2> SUFFICES ASSUME NEW n \in DOMAIN file[s], n + 1 \notin DOMAIN file[s],
                      file[s][n].part = "head"
               PROVE  /\ messages'[s][file[s][n].msg] # "written"
                      /\ \A q \in Jobs : q[2] = s => file[s][n].msg \notin job'[q].out
    BY DEF TearIsOpen
  <2>1. /\ messages[s][file[s][n].msg] # "written"
        /\ \A q \in Jobs : q[2] = s => file[s][n].msg \notin job[q].out
    BY DEF TornInv, TearIsOpen
  <2>2. file[s][n].msg \in Msgs
    <3>1. file[s] \in Seq(Chunk)
      BY DEF TypeOK
    <3>2. file[s][n] \in Chunk
      BY <3>1
    <3> QED BY <3>2 DEF Chunk
  <2> QED BY <2>1, <2>2 DEF Calmer
<1>4. ASSUME NEW s \in Sessions \ warned' PROVE OnlyTornLost(s)'
  <2>1. OnlyTornLost(s)
    BY DEF TornInv
  <2> QED BY <2>1 DEF OnlyTornLost, Flushed, Readable, Completed, ReadableAt,
                      StartsLine, HeadIn, EndsLine
<1> QED BY <1>1, <1>2, <1>3, <1>4 DEF TornInv

\* What can be read stays readable when something is appended.
LEMMA ReadableGrows ==
  ASSUME TypeOK, NEW s \in Sessions, NEW k \in Msgs,
         file' \in [Sessions -> Seq(Chunk)],
         \A n \in DOMAIN file[s] : n \in DOMAIN file'[s] /\ file'[s][n] = file[s][n]
  PROVE  /\ Readable(s, k) => Readable(s, k)'
         /\ HeadIn(s, k) => HeadIn(s, k)'
<1>1. file[s] \in Seq(Chunk) /\ file'[s] \in Seq(Chunk)
  BY DEF TypeOK
<1>2. DOMAIN file[s] = 1 .. Len(file[s]) /\ Len(file[s]) \in Nat
  BY <1>1
<1>3. ASSUME NEW n \in DOMAIN file[s], StartsLine(s, n)
      PROVE  StartsLine(s, n)'
  <2>1. CASE n = 1
    BY <2>1 DEF StartsLine
  <2>2. CASE n # 1
    <3>1. n - 1 \in DOMAIN file[s] /\ EndsLine(file[s][n - 1])
      BY <1>2, <1>3, <2>2 DEF StartsLine
    <3> QED BY <3>1 DEF StartsLine, EndsLine
  <2> QED BY <2>1, <2>2
<1>4. ASSUME NEW n \in DOMAIN file[s], ReadableAt(s, n)
      PROVE  ReadableAt(s, n)'
  <2>1. CASE file[s][n].part = "line" /\ StartsLine(s, n)
    BY <1>3, <2>1 DEF ReadableAt
  <2>2. CASE /\ file[s][n].part = "tail" /\ n > 1
             /\ file[s][n - 1] = [file[s][n] EXCEPT !.part = "head"]
             /\ StartsLine(s, n - 1)
    <3>1. n - 1 \in DOMAIN file[s]
      BY <1>2, <2>2
    <3>2. StartsLine(s, n - 1)'
      BY <1>3, <2>2, <3>1
    <3>3. file'[s][n] = file[s][n] /\ file'[s][n - 1] = file[s][n - 1]
      BY <3>1
    <3> QED BY <2>2, <3>2, <3>3 DEF ReadableAt
  <2> QED BY <1>4, <2>1, <2>2 DEF ReadableAt
<1>5. Readable(s, k) => Readable(s, k)'
  <2> SUFFICES ASSUME Readable(s, k) PROVE Readable(s, k)'
    OBVIOUS
  <2>1. PICK n \in DOMAIN file[s] : /\ file[s][n].msg = k /\ EndsLine(file[s][n])
                                    /\ ReadableAt(s, n)
    BY DEF Readable, Completed
  <2>2. n \in DOMAIN file'[s] /\ file'[s][n].msg = k /\ EndsLine(file'[s][n])
    BY <2>1 DEF EndsLine
  <2> QED BY <1>4, <2>1, <2>2 DEF Readable, Completed, EndsLine
<1>6. HeadIn(s, k) => HeadIn(s, k)'
  BY DEF HeadIn
<1> QED BY <1>5, <1>6

\* The record that a job completes can be read, or is torn itself.
LEMMA LineReadable ==
  ASSUME SyncInv, TornInv, NEW j \in Jobs, job[j].pc = "write", ~job[j].half,
         j[2] \notin warned, NEW k \in Msgs, NextRecord(job[j], k),
         Put(j, k, "line")
  PROVE  Readable(j[2], k)' \/ HeadIn(j[2], k)'
<1> DEFINE s == j[2]
<1>1. TypeOK /\ ChunksInOrder /\ TearIsOpen(s) /\ OnlyTornLost(s) /\ s \in Sessions
  BY JobType DEF SyncInv, TornInv
<1>0. PICK size \in Nat : size = Len(file[s])
  <2>1. file[s] \in Seq(Chunk)
    BY <1>1 DEF TypeOK
  <2> QED BY <2>1
<1>2. /\ file' \in [Sessions -> Seq(Chunk)]
      /\ \A n \in DOMAIN file[s] : n \in DOMAIN file'[s] /\ file'[s][n] = file[s][n]
      /\ Len(file'[s]) = size + 1
      /\ file'[s][size + 1] = [msg |-> k, part |-> "line", by |-> j[1]]
  BY <1>0, <1>1, PutGrows DEF Part
<1>3. file[s] \in Seq(Chunk) /\ file'[s] \in Seq(Chunk)
  BY <1>1, <1>2 DEF TypeOK
<1>4. size \in Nat /\ DOMAIN file[s] = 1 .. size /\ size + 1 \in DOMAIN file'[s]
  BY <1>0, <1>2, <1>3
<1>5. ASSUME StartsLine(s, size + 1)' PROVE Readable(s, k)'
  <2>1. file'[s][size + 1].msg = k /\ file'[s][size + 1].part = "line"
    BY <1>2
  <2>2. ReadableAt(s, size + 1)'
    BY <1>5, <2>1 DEF ReadableAt
  <2> QED BY <1>4, <2>1, <2>2 DEF Readable, Completed, EndsLine
<1>6. CASE size = 0
  <2>1. StartsLine(s, size + 1)'
    BY <1>6 DEF StartsLine
  <2> QED BY <1>5, <2>1
<1>7. CASE size # 0 /\ EndsLine(file[s][size])
  <2>1. size \in DOMAIN file[s] /\ size + 1 - 1 = size
    BY <1>4, <1>7
  <2>2. StartsLine(s, size + 1)'
    BY <1>2, <1>7, <2>1 DEF StartsLine, EndsLine
  <2> QED BY <1>5, <2>2
<1>8. CASE size # 0 /\ ~EndsLine(file[s][size])
  <2> DEFINE m == file[s][size].msg
  <2>1. /\ size \in DOMAIN file[s] /\ size + 1 \notin DOMAIN file[s]
        /\ file[s][size].part = "head"
    BY <1>4, <1>8 DEF EndsLine
  <2>2. m \in Msgs /\ m \in Nat /\ k \in Nat
    <3>1. file[s][size] \in Chunk
      BY <1>3, <2>1
    <3> QED BY <3>1 DEF Chunk, Msgs
  <2>3. messages[s][m] # "written" /\ m \notin job[j].out
    BY <1>1, <2>1 DEF TearIsOpen
  <2>4. CASE m = k
    <3>1. HeadIn(s, k)
      BY <2>1, <2>4 DEF HeadIn
    <3> QED BY <1>1, <1>2, <3>1, ReadableGrows
  <2>5. CASE m < k
    <3>1. m \in 1 .. (k - 1)
      BY <2>2, <2>5 DEF Msgs
    <3> QED BY <2>3, <3>1, OlderDone
  <2>6. CASE k < m
    <3>1. k \in 1 .. (file[s][size].msg - 1)
      BY <2>2, <2>6 DEF Msgs
    <3>2. PICK n \in 1 .. size - 1 : file[s][n].msg = k /\ EndsLine(file[s][n])
      BY <1>1, <2>1, <3>1 DEF ChunksInOrder
    <3>3. Flushed(s, k)
      BY <1>4, <3>2 DEF Flushed
    <3>4. Readable(s, k) \/ HeadIn(s, k)
      BY <1>1, <3>3 DEF OnlyTornLost
    <3> QED BY <1>1, <1>2, <3>4, ReadableGrows
  <2> QED BY <2>2, <2>4, <2>5, <2>6
<1> QED BY <1>6, <1>7, <1>8

\* The jobs of the other sessions, and the other jobs, do not see a write.
LEMMA TornElsewhere ==
  ASSUME TypeOK, TornInv, NEW j \in Jobs, NEW k \in Msgs, NEW part \in Part,
         Put(j, k, part), UNCHANGED <<messages, warned>>,
         \A q \in Jobs \ {j} : job'[q] = job[q]
  PROVE  /\ \A q \in Jobs \ {j} : BatchClean(q)' /\ HeadThere(q)'
         /\ \A s \in Sessions \ {j[2]} : TearIsOpen(s)'
         /\ \A s \in Sessions \ warned : s # j[2] => OnlyTornLost(s)'
<1>1. /\ file' \in [Sessions -> Seq(Chunk)]
      /\ \A s \in Sessions : \A n \in DOMAIN file[s] :
           n \in DOMAIN file'[s] /\ file'[s][n] = file[s][n]
      /\ \A s \in Sessions \ {j[2]} : file'[s] = file[s]
  BY PutGrows
<1>2. ASSUME NEW q \in Jobs, q # j PROVE BatchClean(q)' /\ HeadThere(q)'
  <2>1. BatchClean(q) /\ HeadThere(q) /\ job'[q] = job[q] /\ q[2] \in Sessions
    BY <1>2, JobType DEF TornInv
  <2>2. \A m \in Msgs : HeadIn(q[2], m) => HeadIn(q[2], m)'
    BY <1>1, <2>1, ReadableGrows
  <2> QED BY <2>1, <2>2 DEF BatchClean, HeadThere, NextRecord
<1>3. ASSUME NEW s \in Sessions, s # j[2] PROVE TearIsOpen(s)'
  <2>1. TearIsOpen(s) /\ file'[s] = file[s] /\ messages' = messages
    BY <1>1, <1>3 DEF TornInv
  <2>2. \A q \in Jobs : q[2] = s => job'[q] = job[q]
    BY <1>3
  <2> QED BY <2>1, <2>2 DEF TearIsOpen
<1>4. ASSUME NEW s \in Sessions \ warned, s # j[2] PROVE OnlyTornLost(s)'
  <2>1. OnlyTornLost(s) /\ file'[s] = file[s]
    BY <1>1, <1>4 DEF TornInv
  <2> QED BY <2>1 DEF OnlyTornLost, Flushed, Readable, Completed, ReadableAt,
                      StartsLine, HeadIn, EndsLine
<1> QED BY <1>2, <1>3, <1>4

LEMMA TornLine ==
  ASSUME SyncInv, TornInv, NEW j \in Jobs, FlushRecord(j)
  PROVE  TornInv'
<1>0. TypeOK /\ j[2] \in Sessions /\ job[j] \in JobState /\ job[j].pc = "write"
  BY JobType DEF SyncInv, FlushRecord
<1> DEFINE s == j[2]
           part == IF job[j].half THEN "tail" ELSE "line"
<1>1. PICK k \in Msgs : /\ NextRecord(job[j], k) /\ Put(j, k, part)
                        /\ After(j, WithLine(job[j], k))
  BY <1>0, FlushRecordAfter
<1>2. part \in Part /\ part # "head"
  BY DEF Part
<1>3. UNCHANGED <<messages, warned>> /\ \A q \in Jobs \ {j} : job'[q] = job[q]
  BY <1>1 DEF FlushRecord, After
<1>4. /\ file' \in [Sessions -> Seq(Chunk)]
      /\ \A n \in DOMAIN file[s] : n \in DOMAIN file'[s] /\ file'[s][n] = file[s][n]
      /\ Len(file'[s]) = Len(file[s]) + 1
      /\ file'[s][Len(file[s]) + 1] = [msg |-> k, part |-> part, by |-> j[1]]
  BY <1>0, <1>1, <1>2, PutGrows
<1>5. /\ DOMAIN file[s] = 1 .. Len(file[s]) /\ Len(file[s]) \in Nat
      /\ DOMAIN file'[s] = 1 .. (Len(file[s]) + 1)
  <2>1. file[s] \in Seq(Chunk) /\ file'[s] \in Seq(Chunk)
    BY <1>0, <1>4 DEF TypeOK
  <2> QED BY <1>4, <2>1
<1>6. ChunksInOrder'
  BY <1>0, <1>1, <1>2, <1>3, PutInOrder DEF TornInv
<1>7. BatchClean(j)' /\ HeadThere(j)'
  <2>1. job'[j].pc = "write" /\ ~job'[j].half
    BY <1>0, <1>1 DEF After, WithLine, JobState
  <2> QED BY <2>1 DEF BatchClean, HeadThere, Flushing
<1>8. TearIsOpen(s)'
  <2>1. file'[s][Len(file[s]) + 1].part = part
    BY <1>4
  <2>2. \A n \in DOMAIN file'[s] :
          n + 1 \notin DOMAIN file'[s] => n = Len(file[s]) + 1
    BY <1>5
  <2> QED BY <1>2, <2>1, <2>2 DEF TearIsOpen
<1>9. ASSUME s \notin warned, NEW i \in Msgs, Flushed(s, i)'
      PROVE  Readable(s, i)' \/ HeadIn(s, i)'
  <2>1. CASE Flushed(s, i)
    <3>1. Readable(s, i) \/ HeadIn(s, i)
      BY <1>0, <1>9, <2>1 DEF TornInv, OnlyTornLost
    <3> QED BY <1>0, <1>4, <3>1, ReadableGrows
  <2>2. CASE ~Flushed(s, i)
    <3>1. PICK n \in DOMAIN file'[s] :
                 file'[s][n].msg = i /\ EndsLine(file'[s][n])
      BY <1>9 DEF Flushed, EndsLine
    <3>2. n \notin DOMAIN file[s]
      BY <1>4, <2>2, <3>1 DEF Flushed
    <3>3. n = Len(file[s]) + 1
      BY <1>5, <3>2
    <3>4. i = k
      BY <1>4, <3>1, <3>3
    <3>5. CASE job[j].half
      <4>1. HeadIn(s, k)
        BY <1>1, <3>5 DEF TornInv, HeadThere
      <4> QED BY <1>0, <1>4, <3>4, <4>1, ReadableGrows
    <3>6. CASE ~job[j].half
      <4>1. Put(j, k, "line")
        BY <1>1, <3>6
      <4> QED BY <1>0, <1>1, <1>9, <3>4, <3>6, <4>1, LineReadable
    <3> QED BY <3>5, <3>6
  <2> QED BY <2>1, <2>2
<1>10. s \notin warned => OnlyTornLost(s)'
  BY <1>9 DEF OnlyTornLost
<1>11. /\ \A q \in Jobs \ {j} : BatchClean(q)' /\ HeadThere(q)'
       /\ \A x \in Sessions \ {s} : TearIsOpen(x)'
       /\ \A x \in Sessions \ warned : x # s => OnlyTornLost(x)'
  BY <1>0, <1>1, <1>2, <1>3, TornElsewhere
<1> QED BY <1>3, <1>6, <1>7, <1>8, <1>10, <1>11 DEF TornInv

LEMMA TornHead ==
  ASSUME Exclusive, ExportInv, TornInv, NEW j \in Jobs, FlushHead(j)
  PROVE  TornInv'
<1>0. /\ SyncInv /\ TypeOK /\ j[2] \in Sessions /\ job[j] \in JobState
      /\ job[j].pc = "write" /\ BatchUnwritten(j)
  BY JobType DEF ExportInv, SyncInv, FlushHead
<1> DEFINE s == j[2]
<1>1. PICK k \in Msgs : NextRecord(job[j], k) /\ Put(j, k, "head")
  BY <1>0, FlushHeadAfter
<1>2. /\ UNCHANGED <<messages, warned>> /\ After(j, WithHead(job[j]))
      /\ "head" \in Part
  BY <1>0, FlushHeadAfter DEF FlushHead, Part
<1>3. \A q \in Jobs \ {j} : job'[q] = job[q]
  BY <1>2 DEF After
<1>4. /\ file' \in [Sessions -> Seq(Chunk)]
      /\ \A n \in DOMAIN file[s] : n \in DOMAIN file'[s] /\ file'[s][n] = file[s][n]
      /\ Len(file'[s]) = Len(file[s]) + 1
      /\ file'[s][Len(file[s]) + 1] = [msg |-> k, part |-> "head", by |-> j[1]]
  BY <1>0, <1>1, <1>2, PutGrows
<1>5. /\ DOMAIN file[s] = 1 .. Len(file[s]) /\ Len(file[s]) \in Nat
      /\ DOMAIN file'[s] = 1 .. (Len(file[s]) + 1)
  <2>1. file[s] \in Seq(Chunk) /\ file'[s] \in Seq(Chunk)
    BY <1>0, <1>4 DEF TypeOK
  <2> QED BY <1>4, <2>1
<1>6. ChunksInOrder'
  BY <1>0, <1>1, <1>2, PutInOrder DEF TornInv
<1>7. BatchClean(j)' /\ HeadThere(j)'
  <2>1. /\ job'[j].pc = "write" /\ job'[j].recs = job[j].recs
        /\ job'[j].out = job[j].out
    BY <1>0, <1>2 DEF After, WithHead, JobState
  <2>2. HeadIn(s, k)'
    BY <1>4, <1>5 DEF HeadIn
  <2>3. ASSUME NEW m \in Msgs, NextRecord(job'[j], m) PROVE m = k
    <3>1. NextRecord(job[j], m) /\ m \in Nat /\ k \in Nat
      BY <2>1, <2>3 DEF NextRecord, Msgs
    <3>2. m <= k /\ k <= m
      BY <1>1, <3>1 DEF NextRecord
    <3> QED BY <3>1, <3>2
  <2>4. HeadThere(j)'
    BY <2>2, <2>3 DEF HeadThere
  <2> QED BY <2>1, <2>4 DEF BatchClean, Flushing
<1>8. TearIsOpen(s)'
  <2>1. \A n \in DOMAIN file'[s] :
          n + 1 \notin DOMAIN file'[s] => file'[s][n].msg = k
    BY <1>4, <1>5
  <2>2. k \in job[j].recs /\ k \notin job[j].out
    BY <1>1 DEF NextRecord
  <2>3. messages'[s][k] # "written"
    BY <1>0, <1>2, <2>2 DEF BatchUnwritten
  <2>4. ASSUME NEW q \in Jobs, q[2] = s PROVE k \notin job'[q].out
    <3>1. CASE q = j
      BY <1>0, <1>2, <2>2, <3>1 DEF After, WithHead, JobState
    <3>2. CASE q # j
      <4>1. job[q].pc = "idle"
        BY <1>0, <2>4, <3>2, OneJobPerSession
      <4>2. job[q].out = {}
        BY <4>1 DEF TornInv, BatchClean, Flushing
      <4> QED BY <1>3, <3>2, <4>2
    <3> QED BY <3>1, <3>2
  <2> QED BY <2>1, <2>3, <2>4 DEF TearIsOpen
<1>9. s \notin warned => OnlyTornLost(s)'
  <2> SUFFICES ASSUME s \notin warned, NEW i \in Msgs, Flushed(s, i)'
               PROVE  Readable(s, i)' \/ HeadIn(s, i)'
    BY DEF OnlyTornLost
  <2>1. PICK n \in DOMAIN file'[s] : file'[s][n].msg = i /\ EndsLine(file'[s][n])
    BY DEF Flushed, EndsLine
  <2>2. n \in DOMAIN file[s]
    BY <1>4, <1>5, <2>1 DEF EndsLine
  <2>3. Flushed(s, i)
    BY <1>4, <2>1, <2>2 DEF Flushed
  <2>4. Readable(s, i) \/ HeadIn(s, i)
    BY <1>0, <2>3 DEF TornInv, OnlyTornLost
  <2> QED BY <1>0, <1>4, <2>4, ReadableGrows
<1>10. /\ \A q \in Jobs \ {j} : BatchClean(q)' /\ HeadThere(q)'
       /\ \A x \in Sessions \ {s} : TearIsOpen(x)'
       /\ \A x \in Sessions \ warned : x # s => OnlyTornLost(x)'
  BY <1>0, <1>1, <1>2, <1>3, TornElsewhere
<1> QED BY <1>2, <1>6, <1>7, <1>8, <1>9, <1>10 DEF TornInv

LEMMA TornInvInit == Init => TornInv
BY DEF Init, TornInv, ChunksInOrder, BatchClean, HeadThere, TearIsOpen,
       OnlyTornLost, Flushed, Idle

LEMMA TornInvNext ==
  ASSUME Exclusive, ExportInv, TornInv, [Next]_vars
  PROVE  TornInv'
<1>1. TypeOK /\ TypeOK' /\ SyncInv
  BY SyncInvNext DEF ExportInv, SyncInv
<1>2. CASE UNCHANGED vars
  BY <1>1, <1>2, TornCalm DEF vars, Calmer
<1>3. ASSUME NEW s \in Sessions, NewMessage(s) PROVE TornInv'
  BY <1>1, <1>3, TornCalm DEF NewMessage, Calmer
<1>4. ASSUME NEW i \in Instances, ListSessions(i) \/ Restart(i) PROVE TornInv'
  <2>1. UNCHANGED <<file, messages, warned>>
    BY <1>4 DEF ListSessions, Restart
  <2>2. ASSUME NEW q \in Jobs PROVE Calmer(job[q], job'[q])
    <3>1. CASE job'[q] = job[q]
      BY <3>1 DEF Calmer
    <3>2. CASE job'[q] = Idle
      BY <3>2 DEF Calmer, Idle
    <3>3. CASE job'[q] = [Idle EXCEPT !.pc = "listed", !.seen = updated[q[2]]]
      <4>1. job'[q].out = Idle.out /\ job'[q].half = Idle.half
        BY <3>3 DEF Idle
      <4> QED BY <4>1 DEF Calmer, Idle
    <3> QED BY <1>1, <1>4, <3>1, <3>2, <3>3, RoundAfter
  <2> QED BY <1>1, <2>1, <2>2, TornCalm
<1>5. ASSUME NEW j \in Jobs, FlushRecord(j) \/ FlushHead(j) PROVE TornInv'
  BY <1>1, <1>5, TornLine, TornHead
<1>6. ASSUME NEW j \in Jobs, ~FlushRecord(j), ~FlushHead(j),
             JobStep(j) \/ WriteFails(j) \/ CallFails(j)
      PROVE  TornInv'
  <2>1. UNCHANGED file /\ warned \subseteq warned'
    BY <1>6 DEF JobStep, FilterSession, TakeJob, GetSession, ListMessages,
       ProbeDecision, FetchStats, Deduplicate, Prepare, WriteDone, MarkWritten,
       MarkFailed, WriteFails, CallFails
  <2>2. Calmer(job[j], job'[j])
    BY <1>1, <1>6, CalmStep DEF TornInv
  <2>3. \A q \in Jobs : Calmer(job[q], job'[q])
    BY <1>1, <1>6, <2>2, JobTypeStep DEF Calmer
  <2>4. ASSUME NEW s \in Sessions, NEW k \in Msgs, messages'[s][k] = "written"
        PROVE  \/ messages[s][k] = "written"
               \/ \E q \in Jobs : q[2] = s /\ k \in job[q].out
    <3>1. CASE MarkWritten(j) /\ s = j[2] /\ k \in job[j].recs
      <4>1. OutFlushed(j) /\ job[j].pc = "mark"
        BY <1>1, <3>1 DEF SyncInv, JobInv, MarkWritten
      <4> QED BY <3>1, <4>1 DEF OutFlushed
    <3> QED BY <1>1, <1>6, <2>4, <3>1, WrittenBy
  <2> QED BY <1>1, <2>1, <2>3, <2>4, TornCalm
<1> QED BY <1>2, <1>3, <1>4, <1>5, <1>6 DEF Next

\* As long as one process at a time is in a round, a torn line costs at most
\* the message it belongs to (a record is written again after a failure, and
\* sorted before what is newer), whatever fails and whoever takes over.
THEOREM ExclusiveLosesOnlyTorn ==
  Spec /\ []Exclusive => []OnlyTornMessageIsLost
<1>1. Exclusive /\ ExportInv /\ [Next]_vars => ExportInv'
  BY ExportInvNext
<1>2. Exclusive /\ ExportInv /\ TornInv /\ [Next]_vars => TornInv'
  BY TornInvNext
<1>3. ExportInv /\ TornInv => OnlyTornMessageIsLost
  BY DEF ExportInv, SyncInv, StatusNeverLeadsOutput, TornInv, OnlyTornLost,
         OnlyTornMessageIsLost, HeadIn, Store!Written, Msgs, Store!Msgs
<1> QED BY <1>1, <1>2, <1>3, ExportInvInit, TornInvInit, PTL DEF Spec

\* One process alone loses only what it tears itself.
THEOREM OnlyTornLostAlone ==
  ASSUME OneInstance
  PROVE  Spec => []OnlyTornMessageIsLost
<1>1. Exclusive
  BY OneInstanceIsExclusive
<1> QED BY <1>1, ExclusiveLosesOnlyTorn, PTL

-----------------------------------------------------------------------------
(***************************************************************************)
(* What a repetition costs: a fault.                                       *)
(***************************************************************************)
\* The copy that everybody expects is there: the message is acknowledged, or
\* its batch is about to be.
Expected(s, k) == \/ messages[s][k] = "written"
                  \/ \E j \in Jobs : /\ j[2] = s /\ job[j].pc \in {"write", "mark"}
                                     /\ k \in job[j].out

CopiesPaid(s, k) == /\ Cardinality(Completed(s, k)) <= 1 + faults
                    /\ Expected(s, k) \/ Cardinality(Completed(s, k)) <= faults

CopiesInv == /\ \A j \in Jobs : BatchClean(j) /\ job[j].out \subseteq job[j].recs
             /\ \A s \in Sessions, k \in Msgs : CopiesPaid(s, k)

LEMMA CompletedType ==
  ASSUME TypeOK, NEW s \in Sessions, NEW k \in Msgs
  PROVE  IsFiniteSet(Completed(s, k)) /\ Cardinality(Completed(s, k)) \in Nat
<1>1. file[s] \in Seq(Chunk)
  BY DEF TypeOK
<1>2. PICK size \in Nat : DOMAIN file[s] = 1 .. size
  BY <1>1
<1>3. IsFiniteSet(1 .. size)
  BY <1>2, FS_Interval
<1>4. Completed(s, k) \subseteq 1 .. size
  BY <1>2 DEF Completed
<1>5. IsFiniteSet(Completed(s, k))
  BY <1>3, <1>4, FS_Subset
<1> QED BY <1>5, FS_CardinalityType

\* Whatever leaves the file alone and pays for what it forgets.
LEMMA CopiesCalm ==
  ASSUME TypeOK, TypeOK', CopiesInv, UNCHANGED file, faults <= faults',
         \A q \in Jobs : Calmer(job[q], job'[q]),
         \A s \in Sessions, k \in Msgs :
           Expected(s, k) => Expected(s, k)' \/ faults' = faults + 1
  PROVE  CopiesInv'
<1>1. ASSUME NEW j \in Jobs
      PROVE  BatchClean(j)' /\ job'[j].out \subseteq job'[j].recs
  <2>1. BatchClean(j) /\ job[j].out \subseteq job[j].recs /\ Calmer(job[j], job'[j])
    BY DEF CopiesInv
  <2> QED BY <2>1 DEF Calmer, BatchClean
<1>2. ASSUME NEW s \in Sessions, NEW k \in Msgs PROVE CopiesPaid(s, k)'
  <2> DEFINE C == Cardinality(Completed(s, k))
  <2>1. C' = C /\ C \in Nat
    BY CompletedType DEF Completed, EndsLine
  <2>2. faults \in Nat /\ faults' \in Nat
    BY DEF TypeOK
  <2>3. C <= 1 + faults /\ (Expected(s, k) \/ C <= faults)
    BY DEF CopiesInv, CopiesPaid
  <2>4. Expected(s, k) => Expected(s, k)' \/ faults' = faults + 1
    OBVIOUS
  <2> HIDE DEF C
  <2>5. C' <= 1 + faults' /\ (Expected(s, k)' \/ C' <= faults')
    BY <2>1, <2>2, <2>3, <2>4
  <2> QED BY <2>5 DEF CopiesPaid, C
<1> QED BY <1>1, <1>2 DEF CopiesInv

\* A job gives up an expected copy only when a call of it fails.
LEMMA ExpectedStep ==
  ASSUME ExportInv, CopiesInv, NEW j \in Jobs, ~FlushRecord(j), ~FlushHead(j),
         JobStep(j) \/ WriteFails(j) \/ CallFails(j),
         NEW s \in Sessions, NEW k \in Msgs, Expected(s, k)
  PROVE  Expected(s, k)' \/ faults' = faults + 1
<1>1. /\ TypeOK /\ BatchRegistered(j) /\ job[j] \in JobState
      /\ \A q \in Jobs \ {j} : job'[q] = job[q]
  BY JobType, JobTypeStep DEF ExportInv, SyncInv, JobInv
<1>2. CASE messages[s][k] = "written"
  <2>1. Grows
    <3>1. \A q \in Jobs : BatchRegistered(q)
      BY DEF ExportInv, SyncInv, JobInv
    <3> QED BY <1>1, <3>1, TypeStep DEF Next
  <2> QED BY <1>2, <2>1 DEF Grows, Expected
<1>3. ASSUME NEW q \in Jobs, q[2] = s, job[q].pc \in {"write", "mark"},
             k \in job[q].out
      PROVE  Expected(s, k)' \/ faults' = faults + 1
  <2>1. CASE q # j
    BY <1>1, <1>3, <2>1 DEF Expected
  <2>2. CASE q = j /\ (WriteFails(j) \/ CallFails(j))
    BY <2>2 DEF WriteFails, CallFails, Fault
  <2>3. CASE q = j /\ WriteDone(j)
    <3>1. job'[j].pc = "mark" /\ job'[j].out = job[j].out
      BY <1>1, <2>3, WriteDoneAfter DEF After, Moved, JobState
    <3> QED BY <1>3, <2>3, <3>1 DEF Expected
  <2>4. CASE q = j /\ MarkWritten(j)
    <3>1. k \in job[j].recs
      BY <1>3, <2>4 DEF CopiesInv
    <3>2. messages[s][k] # "absent"
      BY <1>1, <1>3, <2>4, <3>1 DEF BatchRegistered
    <3>3. messages'[s][k] = "written"
      BY <1>1, <1>3, <2>4, <3>1, <3>2, MarkEffect
    <3> QED BY <3>3 DEF Expected
  <2>5. CASE q = j /\ JobStep(j) /\ ~WriteDone(j) /\ ~MarkWritten(j)
    BY <1>3, <2>5 DEF JobStep, FilterSession, TakeJob, GetSession, ListMessages,
       ProbeDecision, FetchStats, Deduplicate, Prepare, MarkFailed
  <2> QED BY <2>1, <2>2, <2>3, <2>4, <2>5
<1> QED BY <1>2, <1>3 DEF Expected

\* The record that is completed was not expected before.
LEMMA CopiesLine ==
  ASSUME Exclusive, ExportInv, CopiesInv, NEW j \in Jobs, FlushRecord(j)
  PROVE  CopiesInv'
<1>0. /\ TypeOK /\ j[2] \in Sessions /\ job[j] \in JobState /\ job[j].pc = "write"
      /\ BatchUnwritten(j) /\ faults \in Nat
  BY JobType DEF ExportInv, SyncInv, FlushRecord, TypeOK
<1> DEFINE part == IF job[j].half THEN "tail" ELSE "line"
<1>1. PICK k \in Msgs : /\ NextRecord(job[j], k) /\ Put(j, k, part)
                        /\ After(j, WithLine(job[j], k))
  BY <1>0, FlushRecordAfter
<1>2. part \in Part /\ part # "head"
  BY DEF Part
<1>3. /\ UNCHANGED <<messages, faults>>
      /\ \A q \in Jobs \ {j} : job'[q] = job[q]
      /\ job'[j].pc = "write" /\ job'[j].recs = job[j].recs
      /\ job'[j].out = job[j].out \cup {k}
  BY <1>0, <1>1 DEF FlushRecord, After, WithLine, JobState
<1>4. /\ file' \in [Sessions -> Seq(Chunk)]
      /\ \A s \in Sessions : \A n \in DOMAIN file[s] :
           n \in DOMAIN file'[s] /\ file'[s][n] = file[s][n]
      /\ \A s \in Sessions \ {j[2]} : file'[s] = file[s]
      /\ Len(file'[j[2]]) = Len(file[j[2]]) + 1
      /\ file'[j[2]][Len(file[j[2]]) + 1] = [msg |-> k, part |-> part, by |-> j[1]]
  BY <1>0, <1>1, <1>2, PutGrows
<1>5. /\ DOMAIN file[j[2]] = 1 .. Len(file[j[2]]) /\ Len(file[j[2]]) \in Nat
      /\ DOMAIN file'[j[2]] = 1 .. (Len(file[j[2]]) + 1)
  <2>1. file[j[2]] \in Seq(Chunk) /\ file'[j[2]] \in Seq(Chunk)
    BY <1>0, <1>4 DEF TypeOK
  <2> QED BY <1>4, <2>1
<1>6. ASSUME NEW q \in Jobs
      PROVE  BatchClean(q)' /\ job'[q].out \subseteq job'[q].recs
  <2>1. BatchClean(q) /\ job[q].out \subseteq job[q].recs
    BY DEF CopiesInv
  <2>2. CASE q = j
    BY <1>1, <1>3, <2>1, <2>2 DEF BatchClean, Flushing, NextRecord
  <2>3. CASE q # j
    BY <1>3, <2>1, <2>3 DEF BatchClean
  <2> QED BY <2>2, <2>3
<1>7. ASSUME NEW s \in Sessions, NEW m \in Msgs PROVE CopiesPaid(s, m)'
  <2>1. /\ Cardinality(Completed(s, m)) <= 1 + faults
        /\ Expected(s, m) \/ Cardinality(Completed(s, m)) <= faults
        /\ IsFiniteSet(Completed(s, m)) /\ Cardinality(Completed(s, m)) \in Nat
    BY <1>0, CompletedType DEF CopiesInv, CopiesPaid
  <2>2. Expected(s, m) => Expected(s, m)'
    <3>1. ASSUME NEW q \in Jobs, q[2] = s, job[q].pc \in {"write", "mark"},
                 m \in job[q].out
          PROVE  Expected(s, m)'
      BY <1>3, <3>1 DEF Expected
    <3> QED BY <1>3, <3>1 DEF Expected
  <2>3. CASE s = j[2] /\ m = k
    <3>1. k \in job[j].recs /\ k \notin job[j].out
      BY <1>1 DEF NextRecord
    <3>2. ~Expected(s, m)
      <4>1. messages[s][m] # "written"
        BY <1>0, <2>3, <3>1 DEF BatchUnwritten
      <4>2. ASSUME NEW q \in Jobs, q[2] = s, job[q].pc \in {"write", "mark"}
            PROVE  m \notin job[q].out
        <5>1. q = j
          BY <1>0, <2>3, <4>2, OneJobPerSession
        <5> QED BY <2>3, <3>1, <5>1
      <4> QED BY <4>1, <4>2 DEF Expected
    <3>3. Completed(s, m)' = Completed(s, m) \cup {Len(file[s]) + 1}
      BY <1>2, <1>4, <1>5, <2>3 DEF Completed, EndsLine
    <3>4. Cardinality(Completed(s, m)') <= Cardinality(Completed(s, m)) + 1
      <4>1. PICK x : Completed(s, m)' = Completed(s, m) \cup {x}
        BY <3>3
      <4>2. \/ Cardinality(Completed(s, m) \cup {x}) = Cardinality(Completed(s, m))
            \/ Cardinality(Completed(s, m) \cup {x}) = Cardinality(Completed(s, m)) + 1
        BY <2>1, FS_AddElement
      <4> HIDE DEF Completed
      <4> QED BY <2>1, <4>1, <4>2
    <3>5. Expected(s, m)'
      BY <1>3, <2>3 DEF Expected
    <3>6. Cardinality(Completed(s, m)') \in Nat
      BY <2>1, <3>3, FS_AddElement, FS_CardinalityType
    <3>7. Cardinality(Completed(s, m)') <= 1 + faults'
      BY <1>0, <1>3, <2>1, <3>2, <3>4, <3>6
    <3> QED BY <3>5, <3>7 DEF CopiesPaid
  <2>4. CASE ~(s = j[2] /\ m = k)
    <3>1. Completed(s, m)' = Completed(s, m)
      <4>1. CASE s = j[2]
        BY <1>4, <1>5, <2>4, <4>1 DEF Completed, EndsLine
      <4>2. CASE s # j[2]
        BY <1>4, <4>2 DEF Completed, EndsLine
      <4> QED BY <4>1, <4>2
    <3> QED BY <1>3, <2>1, <2>2, <3>1 DEF CopiesPaid
  <2> QED BY <2>3, <2>4
<1> QED BY <1>6, <1>7 DEF CopiesInv

LEMMA CopiesHead ==
  ASSUME ExportInv, CopiesInv, NEW j \in Jobs, FlushHead(j)
  PROVE  CopiesInv'
<1>0. /\ TypeOK /\ j[2] \in Sessions /\ job[j] \in JobState /\ job[j].pc = "write"
  BY JobType DEF ExportInv, SyncInv, FlushHead
<1>1. PICK k \in Msgs : Put(j, k, "head")
  BY <1>0, FlushHeadAfter
<1>2. "head" \in Part
  BY DEF Part
<1>3. /\ UNCHANGED <<messages, faults>>
      /\ \A q \in Jobs \ {j} : job'[q] = job[q]
      /\ job'[j].pc = "write" /\ job'[j].recs = job[j].recs
      /\ job'[j].out = job[j].out
  BY <1>0, FlushHeadAfter DEF FlushHead, After, WithHead, JobState
<1>4. /\ file' \in [Sessions -> Seq(Chunk)]
      /\ \A s \in Sessions : \A n \in DOMAIN file[s] :
           n \in DOMAIN file'[s] /\ file'[s][n] = file[s][n]
      /\ \A s \in Sessions \ {j[2]} : file'[s] = file[s]
      /\ Len(file'[j[2]]) = Len(file[j[2]]) + 1
      /\ file'[j[2]][Len(file[j[2]]) + 1] = [msg |-> k, part |-> "head", by |-> j[1]]
  BY <1>0, <1>1, <1>2, PutGrows
<1>5. /\ DOMAIN file[j[2]] = 1 .. Len(file[j[2]]) /\ Len(file[j[2]]) \in Nat
      /\ DOMAIN file'[j[2]] = 1 .. (Len(file[j[2]]) + 1)
  <2>1. file[j[2]] \in Seq(Chunk) /\ file'[j[2]] \in Seq(Chunk)
    BY <1>0, <1>4 DEF TypeOK
  <2> QED BY <1>4, <2>1
<1>6. ASSUME NEW q \in Jobs
      PROVE  BatchClean(q)' /\ job'[q].out \subseteq job'[q].recs
  <2>1. BatchClean(q) /\ job[q].out \subseteq job[q].recs
    BY DEF CopiesInv
  <2>2. CASE q = j
    BY <1>3, <2>1, <2>2 DEF BatchClean, Flushing
  <2>3. CASE q # j
    BY <1>3, <2>1, <2>3 DEF BatchClean
  <2> QED BY <2>2, <2>3
<1>7. ASSUME NEW s \in Sessions, NEW m \in Msgs PROVE CopiesPaid(s, m)'
  <2>1. CopiesPaid(s, m)
    BY DEF CopiesInv
  <2>2. Expected(s, m) => Expected(s, m)'
    <3>1. ASSUME NEW q \in Jobs, q[2] = s, job[q].pc \in {"write", "mark"},
                 m \in job[q].out
          PROVE  Expected(s, m)'
      BY <1>3, <3>1 DEF Expected
    <3> QED BY <1>3, <3>1 DEF Expected
  <2>3. Completed(s, m)' = Completed(s, m)
    <3>1. CASE s = j[2]
      BY <1>4, <1>5, <3>1 DEF Completed, EndsLine
    <3>2. CASE s # j[2]
      BY <1>4, <3>2 DEF Completed, EndsLine
    <3> QED BY <3>1, <3>2
  <2> QED BY <1>3, <2>1, <2>2, <2>3 DEF CopiesPaid
<1> QED BY <1>6, <1>7 DEF CopiesInv

LEMMA CopiesInvInit == Init => CopiesInv
<1> SUFFICES ASSUME Init PROVE CopiesInv
  OBVIOUS
<1>1. \A j \in Jobs : BatchClean(j) /\ job[j].out \subseteq job[j].recs
  BY DEF Init, BatchClean, Idle
<1>2. ASSUME NEW s \in Sessions, NEW k \in Msgs PROVE CopiesPaid(s, k)
  <2>1. Completed(s, k) = {}
    BY DEF Init, Completed
  <2>2. Cardinality(Completed(s, k)) = 0 /\ faults = 0
    BY <2>1, FS_EmptySet DEF Init
  <2> QED BY <2>2 DEF CopiesPaid
<1> QED BY <1>1, <1>2 DEF CopiesInv

LEMMA CopiesInvNext ==
  ASSUME Exclusive, ExportInv, CopiesInv, [Next]_vars
  PROVE  CopiesInv'
<1>1. TypeOK /\ TypeOK' /\ SyncInv /\ faults \in Nat
  BY SyncInvNext DEF ExportInv, SyncInv, TypeOK
<1>2. CASE UNCHANGED vars
  <2>1. UNCHANGED <<file, faults, messages, job>>
    BY <1>2 DEF vars
  <2> QED BY <1>1, <2>1, CopiesCalm DEF Calmer, Expected
<1>3. ASSUME NEW s \in Sessions, NewMessage(s) PROVE CopiesInv'
  <2>1. UNCHANGED <<file, faults, messages, job>>
    BY <1>3 DEF NewMessage
  <2> QED BY <1>1, <2>1, CopiesCalm DEF Calmer, Expected
<1>4. ASSUME NEW i \in Instances, ListSessions(i) \/ Restart(i) PROVE CopiesInv'
  <2>1. UNCHANGED <<file, messages>>
    BY <1>4 DEF ListSessions, Restart
  <2>2. ASSUME NEW q \in Jobs PROVE Calmer(job[q], job'[q])
    <3>1. CASE job'[q] = job[q]
      BY <3>1 DEF Calmer
    <3>2. CASE job'[q] = Idle
      BY <3>2 DEF Calmer, Idle
    <3>3. CASE job'[q] = [Idle EXCEPT !.pc = "listed", !.seen = updated[q[2]]]
      <4>1. job'[q].out = Idle.out /\ job'[q].half = Idle.half
        BY <3>3 DEF Idle
      <4> QED BY <4>1 DEF Calmer, Idle
    <3> QED BY <1>1, <1>4, <3>1, <3>2, <3>3, RoundAfter
  <2>3. CASE Restart(i)
    <3>1. faults' = faults + 1
      BY <2>3 DEF Restart, Fault
    <3>2. faults <= faults'
      BY <1>1, <3>1
    <3> QED BY <1>1, <2>1, <2>2, <3>1, <3>2, CopiesCalm
  <2>4. CASE ListSessions(i)
    <3>1. faults' = faults
      BY <2>4 DEF ListSessions
    <3>2. ASSUME NEW q \in Jobs, job[q].pc \in {"write", "mark"}
          PROVE  job'[q] = job[q]
      <4>1. q = <<q[1], q[2]>> /\ q[2] \in Sessions
        BY DEF Jobs
      <4>2. q[1] # i
        BY <2>4, <3>2, <4>1 DEF ListSessions, RoundOver
      <4> QED BY <2>4, <4>2 DEF ListSessions
    <3>3. \A s \in Sessions, k \in Msgs : Expected(s, k) => Expected(s, k)'
      BY <2>1, <3>2 DEF Expected
    <3> QED BY <1>1, <2>1, <2>2, <3>1, <3>3, CopiesCalm
  <2> QED BY <1>4, <2>3, <2>4
<1>5. ASSUME NEW j \in Jobs, FlushRecord(j) \/ FlushHead(j) PROVE CopiesInv'
  BY <1>5, CopiesLine, CopiesHead
<1>6. ASSUME NEW j \in Jobs, ~FlushRecord(j), ~FlushHead(j),
             JobStep(j) \/ WriteFails(j) \/ CallFails(j)
      PROVE  CopiesInv'
  <2>1. UNCHANGED file
    BY <1>6 DEF JobStep, FilterSession, TakeJob, GetSession, ListMessages,
       ProbeDecision, FetchStats, Deduplicate, Prepare, WriteDone, MarkWritten,
       MarkFailed, WriteFails, CallFails
  <2>2. faults' = faults \/ faults' = faults + 1
    BY <1>6 DEF JobStep, FilterSession, TakeJob, GetSession, ListMessages,
       ProbeDecision, FetchStats, Deduplicate, Prepare, WriteDone, MarkWritten,
       MarkFailed, WriteFails, CallFails, Fault
  <2>3. Calmer(job[j], job'[j])
    BY <1>1, <1>6, CalmStep DEF CopiesInv
  <2>4. \A q \in Jobs : Calmer(job[q], job'[q])
    BY <1>1, <1>6, <2>3, JobTypeStep DEF Calmer
  <2>5. \A s \in Sessions, k \in Msgs :
          Expected(s, k) => Expected(s, k)' \/ faults' = faults + 1
    BY <1>6, ExpectedStep
  <2>6. faults <= faults'
    BY <1>1, <2>2
  <2> QED BY <1>1, <2>1, <2>4, <2>5, <2>6, CopiesCalm
<1> QED BY <1>2, <1>3, <1>4, <1>5, <1>6 DEF Next

\* As long as one process at a time is in a round, a record is repeated only
\* after a fault, and at most once per fault: what UnseenMessages selects is
\* not written yet, and what it wrote is marked in the same round.
THEOREM ExclusiveRepeatsOnlyAfterFaults ==
  Spec /\ []Exclusive => []DuplicatesNeedFaults
<1>1. Exclusive /\ ExportInv /\ [Next]_vars => ExportInv'
  BY ExportInvNext
<1>2. Exclusive /\ ExportInv /\ CopiesInv /\ [Next]_vars => CopiesInv'
  BY CopiesInvNext
<1>3. CopiesInv => DuplicatesNeedFaults
  BY DEF CopiesInv, CopiesPaid, DuplicatesNeedFaults
<1> QED BY <1>1, <1>2, <1>3, ExportInvInit, CopiesInvInit, PTL DEF Spec

HIDE SyncAssumption

-----------------------------------------------------------------------------
(***************************************************************************)
(* The lease of module HA is the one of module LeaseProofs.                *)
(***************************************************************************)
P == INSTANCE LeaseProofs WITH faults <- leaseFaults,
                               MaxFaults <- MaxLeaseFaults

LEMMA LeaseConstants == P!LeaseAssumption
BY HAAssumption DEF L!LeaseAssumption, P!LeaseAssumption

LEMMA SameTiming == L!SoundTiming <=> P!SoundTiming
BY DEF L!SoundTiming, P!SoundTiming

LEMMA SameLeaseInit == L!Init <=> P!Init
BY DEF L!Init, P!Init, L!NoLease, P!NoLease

LEMMA SameLeaseNext == [L!Next]_(L!vars) <=> [P!Next]_(P!vars)
<1>1. L!Next <=> P!Next
  BY DEF L!Next, P!Next, L!Tick, P!Tick, L!Run, P!Run,
         L!BecomeCandidate, P!BecomeCandidate, L!Acquire, P!Acquire,
         L!Verify, P!Verify, L!RenewRead, P!RenewRead,
         L!RenewWrite, P!RenewWrite, L!AcquireFails, P!AcquireFails,
         L!RenewFails, P!RenewFails, L!OnLeaderReturns, P!OnLeaderReturns,
         L!Crash, P!Crash, L!Start, P!Start, L!RenewalOver, P!RenewalOver,
         L!Goto, P!Goto, L!Older, P!Older, L!Stale, P!Stale,
         L!Fault, P!Fault, L!Deadline, P!Deadline
<1> QED BY <1>1 DEF L!vars, P!vars

LEMMA SameLeaseInv == L!LeaseInv <=> P!LeaseInv
<1>1. L!TypeOK <=> P!TypeOK
  BY DEF L!TypeOK, P!TypeOK, L!Holders, P!Holders, L!PC, P!PC,
         L!Deadline, P!Deadline
<1> QED BY <1>1 DEF L!LeaseInv, P!LeaseInv,
       L!AcquiredAtIsLeaders, P!AcquiredAtIsLeaders, L!Leads, P!Leads,
       L!HoldsYoungFile, P!HoldsYoungFile, L!WroteRecently, P!WroteRecently,
       L!DecidedBefore, P!DecidedBefore

LEMMA LeaseStep ==
  ASSUME L!SoundTiming, L!LeaseInv, [L!Next]_(L!vars)
  PROVE  L!LeaseInv'
<1>1. P!SoundTiming /\ P!LeaseInv /\ [P!Next]_(P!vars)
  BY SameTiming, SameLeaseInv, SameLeaseNext
<1>2. P!LeaseInv'
  BY <1>1, LeaseConstants, P!LeaseInvStep
<1>3. L!LeaseInv' <=> P!LeaseInv'
  BY SameLeaseInv, PTL
<1> QED BY <1>2, <1>3

LEMMA LeaseStarts == L!Init => L!LeaseInv
<1>1. P!Init => P!LeaseInv
  BY LeaseConstants, P!LeaseInvInit
<1> QED BY <1>1, SameLeaseInit, SameLeaseInv

-----------------------------------------------------------------------------
(***************************************************************************)
(* A step of the whole is a step of each part.                             *)
(***************************************************************************)
LEMMA SyncPart == [HANext]_haVars => [Next]_vars
<1> SUFFICES ASSUME [HANext]_haVars PROVE [Next]_vars
  OBVIOUS
<1>1. CASE UNCHANGED haVars
  BY <1>1 DEF haVars
<1>2. CASE Server \/ Tick
  BY <1>2 DEF Server, Tick, Next
<1>3. ASSUME NEW i \in Instances,
             Elect(i) \/ Poll(i) \/ OnLeaderReturns(i) \/ Crash(i)
      PROVE  [Next]_vars
  BY <1>3 DEF Elect, Poll, OnLeaderReturns, Crash, Next
<1>4. ASSUME NEW j \in Jobs, Work(j) \/ WorkFails(j)
      PROVE  [Next]_vars
  BY <1>4 DEF Work, WorkFails, Next
<1> QED BY <1>1, <1>2, <1>3, <1>4 DEF HANext

LEMMA LeasePart == [HANext]_haVars => [L!Next]_(L!vars)
<1> SUFFICES ASSUME [HANext]_haVars PROVE [L!Next]_(L!vars)
  OBVIOUS
<1>0. UNCHANGED leaseVars => UNCHANGED L!vars
  BY DEF leaseVars, L!vars
<1>1. CASE UNCHANGED haVars
  BY <1>0, <1>1 DEF haVars
<1>2. CASE Server \/ Tick
  BY <1>0, <1>2 DEF Server, Tick, L!Next
<1>3. ASSUME NEW i \in Instances,
             Elect(i) \/ Poll(i) \/ OnLeaderReturns(i) \/ Crash(i)
      PROVE  [L!Next]_(L!vars)
  BY <1>0, <1>3 DEF Elect, Poll, OnLeaderReturns, Crash, L!Next
<1>4. ASSUME NEW j \in Jobs, Work(j) \/ WorkFails(j)
      PROVE  [L!Next]_(L!vars)
  BY <1>0, <1>4 DEF Work, WorkFails
<1> QED BY <1>1, <1>2, <1>3, <1>4 DEF HANext

-----------------------------------------------------------------------------
(***************************************************************************)
(* Whoever works leads.                                                    *)
(***************************************************************************)
\* No step of the lease but a return or a crash ends onLeader.
LEMMA ElectKeepsRunning ==
  ASSUME L!LeaseInv, NEW i \in Instances, Elect(i), NEW k \in Instances,
         running[k]
  PROVE  running'[k]
<1>1. running \in [Instances -> BOOLEAN] /\ L!Leads(k)
  BY DEF L!LeaseInv, L!TypeOK
<1>2. CASE L!Verify(i)
  <2>1. k # i
    BY <1>1, <1>2 DEF L!Verify, L!Leads
  <2> QED BY <1>1, <1>2, <2>1 DEF L!Verify
<1>3. CASE UNCHANGED running
  BY <1>3
<1> QED BY <1>2, <1>3 DEF Elect, L!Run, L!BecomeCandidate, L!Acquire,
           L!RenewRead, L!RenewWrite, L!AcquireFails, L!RenewFails, L!Start

\* The jobs of an instance after its round has ended or been cut off.
LEMMA LeavingKeepsOthers ==
  ASSUME L!LeaseInv, NEW i \in Instances,
         L!OnLeaderReturns(i) \/ L!Crash(i),
         NEW k \in Instances, k # i, running[k]
  PROVE  running'[k]
<1>1. running \in [Instances -> BOOLEAN]
  BY DEF L!LeaseInv, L!TypeOK
<1>2. running' = [running EXCEPT ![i] = FALSE]
  BY DEF L!OnLeaderReturns, L!Crash
<1> QED BY <1>1, <1>2

LEMMA JobOf == \A j \in Jobs : j[1] \in Instances /\ j[2] \in Sessions
                               /\ j = <<j[1], j[2]>>
BY DEF Jobs

LEMMA WorkNeedsLeaderStep ==
  ASSUME TypeOK, L!LeaseInv, WorkNeedsLeader, [HANext]_haVars
  PROVE  WorkNeedsLeader'
<1> SUFFICES ASSUME NEW q \in Jobs, job'[q].pc # "idle"
             PROVE  running'[q[1]]
  BY DEF WorkNeedsLeader
<1>0. q[1] \in Instances
  BY JobOf
<1>1. CASE UNCHANGED <<job, running>>
  BY <1>1 DEF WorkNeedsLeader
<1>2. CASE Server \/ Tick
  <2>1. UNCHANGED <<job, running>>
    BY <1>2 DEF Server, Tick, NewMessage, L!Tick, leaseVars, vars
  <2> QED BY <1>1, <2>1
<1>3. ASSUME NEW i \in Instances, Elect(i) PROVE running'[q[1]]
  <2>1. job'[q] = job[q]
    BY <1>3 DEF Elect, vars
  <2> QED BY <1>0, <1>3, <2>1, ElectKeepsRunning DEF WorkNeedsLeader
<1>4. ASSUME NEW i \in Instances, Poll(i) PROVE running'[q[1]]
  <2>1. running' = running /\ running[i]
    BY <1>4 DEF Poll, leaseVars
  <2>2. q[1] # i => job'[q] = job[q]
    BY <1>4 DEF Poll, ListSessions
  <2> QED BY <2>1, <2>2 DEF WorkNeedsLeader
<1>5. ASSUME NEW i \in Instances, OnLeaderReturns(i) PROVE running'[q[1]]
  <2>1. job'[q] = job[q] /\ RoundOver(i) /\ L!OnLeaderReturns(i)
    BY <1>5 DEF OnLeaderReturns, vars
  <2>2. q[1] # i
    BY <2>1, JobOf DEF RoundOver
  <2> QED BY <1>0, <2>1, <2>2, LeavingKeepsOthers DEF WorkNeedsLeader
<1>6. ASSUME NEW i \in Instances, Crash(i) PROVE running'[q[1]]
  <2>1. L!Crash(i)
    BY <1>6 DEF Crash
  <2>2. q[1] # i /\ job'[q] = job[q]
    <3>1. CASE RoundOver(i)
      <4>1. job' = job
        BY <1>6, <3>1 DEF Crash, vars
      <4> QED BY <3>1, <4>1, JobOf DEF RoundOver
    <3>2. CASE Restart(i)
      <4>1. job'[q] = IF q[1] = i THEN Idle ELSE job[q]
        BY <3>2 DEF Restart
      <4> QED BY <4>1 DEF Idle
    <3> QED BY <1>6, <3>1, <3>2 DEF Crash
  <2> QED BY <1>0, <2>1, <2>2, LeavingKeepsOthers DEF WorkNeedsLeader
<1>7. ASSUME NEW j \in Jobs, Work(j) \/ WorkFails(j) PROVE running'[q[1]]
  <2>1. /\ running' = running
        /\ JobStep(j) \/ FlushHead(j) \/ WriteFails(j) \/ CallFails(j)
    BY <1>7 DEF Work, WorkFails, leaseVars
  <2>2. job[j].pc # "idle" /\ \A p \in Jobs \ {j} : job'[p] = job[p]
    BY <2>1, SteppingGoesOn, JobTypeStep
  <2> QED BY <2>1, <2>2 DEF WorkNeedsLeader
<1> QED BY <1>1, <1>2, <1>3, <1>4, <1>5, <1>6, <1>7
        DEF HANext, haVars, vars, leaseVars

\* Two instances at work would be two leaders of one file.
LEMMA HAInvIsExclusive == HAInv => Exclusive
BY JobOf DEF HAInv, WorkNeedsLeader, Exclusive, L!LeaseInv, L!AcquiredAtIsLeaders

LEMMA HAInvInit == HAInit => HAInv
BY LeaseStarts, JobOf DEF HAInit, HAInv, WorkNeedsLeader, Init, Idle

\* The parts keep their own specifications.
LEMMA HAIsSync == HASpec => Spec
BY SyncPart, PTL DEF HASpec, HAInit, Spec

-----------------------------------------------------------------------------
(***************************************************************************)
(* Results.                                                                *)
(***************************************************************************)
\* Whoever works on a session leads, and the lease invariant holds while the
\* watcher works.
THEOREM HAInvariant ==
  ASSUME L!SoundTiming
  PROVE  HASpec => []HAInv
<1>1. ASSUME TypeOK, HAInv, [HANext]_haVars PROVE HAInv'
  <2>1. L!LeaseInv'
    BY <1>1, LeasePart, LeaseStep DEF HAInv
  <2>2. WorkNeedsLeader'
    BY <1>1, WorkNeedsLeaderStep DEF HAInv
  <2> QED BY <2>1, <2>2 DEF HAInv
<1> QED BY <1>1, HAInvInit, HAIsSync, TypeCorrect, PTL DEF HASpec

\* Only a leader's process is in a round, and it waits for its workers.
THEOREM OnlyLeadersWork ==
  ASSUME L!SoundTiming
  PROVE  HASpec => []WorkNeedsLeader
<1>1. HAInv => WorkNeedsLeader
  BY DEF HAInv
<1> QED BY <1>1, HAInvariant, PTL

\* At most one process is in a round: the lease excludes the other watchers.
THEOREM OneProcessWorks ==
  ASSUME L!SoundTiming
  PROVE  HASpec => []Exclusive
BY HAInvIsExclusive, HAInvariant, PTL

\* Any number of instances, crashing, returning and taking over from each
\* other, are one at-least-once exporter.
THEOREM HAIsAtLeastOnce ==
  ASSUME L!SoundTiming
  PROVE  HASpec => ImplementsAtLeastOnce
BY HAIsSync, OneProcessWorks, ExclusiveIsAtLeastOnce, PTL

\* Whoever leads, takes over or dies, a torn line costs the message it belongs
\* to and no other.
THEOREM HALosesOnlyTorn ==
  ASSUME L!SoundTiming
  PROVE  HASpec => []OnlyTornMessageIsLost
BY HAIsSync, OneProcessWorks, ExclusiveLosesOnlyTorn, PTL

\* A handover alone repeats nothing: a record is there twice only where a call
\* failed, or a process died or was stopped in the middle of its round.
THEOREM HARepeatsOnlyAfterFaults ==
  ASSUME L!SoundTiming
  PROVE  HASpec => []DuplicatesNeedFaults
BY HAIsSync, OneProcessWorks, ExclusiveRepeatsOnlyAfterFaults, PTL

\* Nothing here asks for sound timing: with two leaders, or twenty, a written
\* message is in the file, there is no gap below it, and the first copies of
\* all messages stand in order.  What the lease adds is said above.
THEOREM HASafeInSplitBrain ==
  HASpec => [](/\ StatusNeverLeadsOutput /\ NoSilentGap
               /\ CursorIsBoundary /\ FirstExportsInOrder)
BY HAIsSync, OutputFirst, NoGap, CursorAlwaysBoundary, ExportedInOrder, PTL

\* Nor here: a takeover reopens no message, and a session is skipped by the
\* next leader only if the last one has registered all that its UpdatedAt
\* stands for.
THEOREM HAHandsOver == HASpec => []SkipIsSafe /\ Store!WrittenIsPermanent
BY HAIsSync, SkipNeverMisses, WrittenForEver, PTL
===============================================================================
