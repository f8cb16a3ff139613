---------------------------- MODULE SessionSync ----------------------------
(***************************************************************************)
(* Watcher.SyncOnce and Watcher.syncSession (src/internal/watcher/         *)
(* watcher.go) between the three things they touch: the open-code server,  *)
(* the SQLite state store (module StateStore) and the JSONL files.         *)
(*                                                                         *)
(* An instance is one session-watcher process.  Instances is a singleton   *)
(* in normal operation; with two of them the model is what the HA lease is *)
(* there to prevent, two leaders on one database and one output root.      *)
(* A job is the work of one instance on one session in one round.          *)
(*                                                                         *)
(* Messages of a session are numbered 1, 2, ... in (created_at, id) order, *)
(* which is the order they arrive in.  Empty message ids, user and agent   *)
(* ids, raw JSON and paths are left out: a session has one output file.    *)
(***************************************************************************)
EXTENDS Naturals, Sequences, FiniteSets

CONSTANTS
  Instances,        \* session-watcher processes sharing database and output
  Sessions,         \* session ids
  Clocked,          \* the sessions for which the server reports UpdatedAt
  UpdateSteps,      \* by how much a new message moves the server's UpdatedAt
  MessageLimit,     \* message_limit
  MaxMessageFetch,  \* max_message_fetch
  SessionWorkers,   \* session_workers
  MaxMsgs,          \* bound: messages a session ever has
  MaxUpdated,       \* bound: largest UpdatedAt
  MaxFaults         \* bound: failing calls and crashes

ASSUME SyncAssumption ==
  /\ Clocked \subseteq Sessions
  /\ UpdateSteps \subseteq Nat
  /\ MessageLimit \in Nat \ {0}
  /\ MaxMessageFetch \in Nat
  /\ SessionWorkers \in Nat \ {0}
  /\ MaxMsgs \in Nat
  /\ MaxUpdated \in Nat \ {0}
  /\ MaxFaults \in Nat

VARIABLES
  total, updated,       \* server: number of messages, UpdatedAt per session
  dated,                \* history: the messages up to where UpdatedAt last moved
  sessions, messages,   \* the database
  file,                 \* output file of each session: a sequence of chunks
  job,                  \* volatile state of every job
  warned,               \* sessions for which "max limit" was ever logged
  faults                \* number of faults so far

remoteVars == <<total, updated, dated>>
dbVars == <<sessions, messages>>
vars == <<total, updated, dated, sessions, messages, file, job, warned, faults>>

Times == 0 .. MaxUpdated

Store == INSTANCE StateStore

Msgs == 1 .. MaxMsgs
Jobs == Instances \X Sessions

SmallerOf(a, b) == IF a < b THEN a ELSE b

EffectiveMaxFetch == IF MaxMessageFetch = 0 THEN MessageLimit
                                            ELSE MaxMessageFetch

(***************************************************************************)
(* Where a job stands:                                                     *)
(*   idle     the instance has no round going on for this session          *)
(*   listed   in the result of ListSessions, not yet filtered              *)
(*   queued   waiting for a worker                                         *)
(*   detail   taken by a worker, before GetSession                         *)
(*   probe    before ListMessages(limit)                                   *)
(*   bound    after ListMessages, before AnyMessageExists                  *)
(*   stats    before UpdateSessionFetchStats                               *)
(*   dedup    before UnseenMessages                                        *)
(*   prepare  before PrepareMessageRecords                                 *)
(*   write    in Sink.WriteMessages                                        *)
(*   mark     before MarkMessagesWritten                                   *)
(*   markfail before MarkMessagesFailed                                    *)
(***************************************************************************)
Working == {"detail", "probe", "bound", "stats", "dedup", "prepare",
            "write", "mark", "markfail"}
PC == {"idle", "listed", "queued"} \cup Working

JobState ==
  [pc      : PC,
   seen    : Times,            \* UpdatedAt of the list, then of GetSession
   limit   : 0 .. EffectiveMaxFetch,  \* limit of the probe
   top     : 0 .. MaxMsgs,     \* newest message the probe returned
   reached : BOOLEAN,          \* reachedMax
   recs    : SUBSET Msgs,      \* unseen, then prepared records
   out     : SUBSET Msgs,      \* records whose line has been flushed
   half    : BOOLEAN]          \* a first part of the next line is flushed

Idle == [pc |-> "idle", seen |-> 0, limit |-> 0, top |-> 0,
         reached |-> FALSE, recs |-> {}, out |-> {}, half |-> FALSE]

\* What ListMessages(limit) returned: the newest limit messages.
Window(b) == {k \in Msgs : k <= b.top /\ b.top < k + b.limit}

(***************************************************************************)
(* The output file.  A chunk is what one write(2) adds of one record: its  *)
(* whole line, or a head without the newline, or the rest of the line.     *)
(***************************************************************************)
Part == {"line", "head", "tail"}
Chunk == [msg : Msgs, part : Part, by : Instances]

EndsLine(chunk) == chunk.part # "head"

\* The positions of the file that complete a record.
Completed(s, k) ==
  {n \in DOMAIN file[s] : file[s][n].msg = k /\ EndsLine(file[s][n])}

Flushed(s, k) == \E n \in DOMAIN file[s] : file[s][n].msg = k /\ EndsLine(file[s][n])

\* Position n starts a physical line.
StartsLine(s, n) == n = 1 \/ EndsLine(file[s][n - 1])

\* The physical line that ends at position n is one record and nothing else.
ReadableAt(s, n) ==
  \/ file[s][n].part = "line" /\ StartsLine(s, n)
  \/ /\ file[s][n].part = "tail" /\ n > 1
     /\ file[s][n - 1] = [file[s][n] EXCEPT !.part = "head"]
     /\ StartsLine(s, n - 1)

Readable(s, k) == \E n \in Completed(s, k) : ReadableAt(s, n)

-----------------------------------------------------------------------------
Init ==
  /\ total = [s \in Sessions |-> 0]
  /\ updated = [s \in Sessions |-> IF s \in Clocked THEN 1 ELSE 0]
  /\ dated = [s \in Sessions |-> 0]
  /\ Store!Init
  /\ file = [s \in Sessions |-> << >>]
  /\ job = [j \in Jobs |-> Idle]
  /\ warned = {}
  /\ faults = 0

(***************************************************************************)
(* The server: a conversation gets its next message.  With 0 among the     *)
(* steps UpdatedAt may stand still, as a clock in milliseconds does when   *)
(* two messages come at once.                                              *)
(***************************************************************************)
NewMessage(s) ==
  /\ total[s] < MaxMsgs
  /\ total' = [total EXCEPT ![s] = @ + 1]
  /\ \/ /\ s \in Clocked
        /\ \E d \in UpdateSteps :
             /\ updated[s] + d <= MaxUpdated
             /\ updated' = [updated EXCEPT ![s] = @ + d]
             /\ dated' = [dated EXCEPT ![s] = IF d = 0 THEN @ ELSE total[s] + 1]
     \/ s \notin Clocked /\ UNCHANGED <<updated, dated>>
  /\ UNCHANGED <<sessions, messages, file, job, warned, faults>>

Fault == faults < MaxFaults /\ faults' = faults + 1

(***************************************************************************)
(* SyncOnce: list the sessions, filter them, hand them to the workers.     *)
(***************************************************************************)
RoundOver(i) == \A s \in Sessions : job[<<i, s>>].pc = "idle"

ListSessions(i) ==
  /\ RoundOver(i)
  /\ job' = [j \in Jobs |->
               IF j[1] = i
               THEN [Idle EXCEPT !.pc = "listed", !.seen = updated[j[2]]]
               ELSE job[j]]
  /\ UNCHANGED <<total, updated, dated, sessions, messages, file, warned, faults>>

\* Seeded fault: a session without UpdatedAt is compared like any other.
shouldSyncStrict(listedAt, row) == ~row.found \/ listedAt > row.updated

shouldSync(listedAt, row) ==
  \/ ~row.found
  \/ listedAt = 0
  \/ listedAt > row.updated

\* A failing GetSessionState does not skip the session.
FilterSession(j) ==
  /\ job[j].pc = "listed"
  /\ \/ /\ shouldSync(job[j].seen, sessions[j[2]])
        /\ job' = [job EXCEPT ![j].pc = "queued"]
        /\ UNCHANGED faults
     \/ /\ ~shouldSync(job[j].seen, sessions[j[2]])
        /\ job' = [job EXCEPT ![j] = Idle]
        /\ UNCHANGED faults
     \/ /\ Fault
        /\ job' = [job EXCEPT ![j].pc = "queued"]
  /\ UNCHANGED <<total, updated, dated, sessions, messages, file, warned>>

Active(i) == {s \in Sessions : job[<<i, s>>].pc \in Working}

TakeJob(j) ==
  /\ job[j].pc = "queued"
  /\ \A s \in Sessions : job[<<j[1], s>>].pc # "listed"
  /\ Cardinality(Active(j[1])) < SessionWorkers
  /\ job' = [job EXCEPT ![j].pc = "detail"]
  /\ UNCHANGED <<total, updated, dated, sessions, messages, file, warned, faults>>

(***************************************************************************)
(* syncSession, one action per call that leaves the process.               *)
(***************************************************************************)
GetSession(j) ==
  /\ job[j].pc = "detail"
  /\ job' = [job EXCEPT ![j].pc = "probe",
                        ![j].seen = updated[j[2]],
                        ![j].limit = SmallerOf(MessageLimit, EffectiveMaxFetch)]
  /\ UNCHANGED <<total, updated, dated, sessions, messages, file, warned, faults>>

ListMessages(j) ==
  /\ job[j].pc = "probe"
  /\ job' = [job EXCEPT ![j].pc = "bound", ![j].top = total[j[2]]]
  /\ UNCHANGED <<total, updated, dated, sessions, messages, file, warned, faults>>

\* fetchUntilBoundary after a probe: the boundary or the end of the history
\* is in the window, or the limit is exhausted, or it grows.
BoundaryFound(j) ==
  \/ Store!AnyMessageExists(j[2], Window(job[j]))
  \/ job[j].top < job[j].limit

\* Seeded fault: the growing limit is not capped.
ProbeDecisionUncapped(j) ==
  /\ job[j].pc = "bound"
  /\ job' = [job EXCEPT ![j].pc = IF BoundaryFound(j) THEN "stats" ELSE "probe",
                        ![j].limit = IF BoundaryFound(j) THEN @
                                                         ELSE @ + MessageLimit]
  /\ UNCHANGED <<total, updated, dated, sessions, messages, file, warned, faults>>

ProbeDecision(j) ==
  /\ job[j].pc = "bound"
  /\ \/ /\ BoundaryFound(j)
        /\ job' = [job EXCEPT ![j].pc = "stats"]
        /\ UNCHANGED warned
     \/ /\ ~BoundaryFound(j) /\ job[j].limit >= EffectiveMaxFetch
        /\ job' = [job EXCEPT ![j].pc = "stats", ![j].reached = TRUE]
        /\ warned' = warned \cup {j[2]}
     \/ /\ ~BoundaryFound(j) /\ job[j].limit < EffectiveMaxFetch
        /\ job' = [job EXCEPT ![j].pc = "probe",
                     ![j].limit = SmallerOf(@ + MessageLimit, EffectiveMaxFetch)]
        /\ UNCHANGED warned
  /\ UNCHANGED <<total, updated, dated, sessions, messages, file, faults>>

\* Seeded fault: the session is read after its messages.
FetchStatsThenGetSession(j) ==
  /\ job[j].pc = "stats"
  /\ Store!UpdateSessionFetchStats(j[2], job[j].reached)
  /\ job' = [job EXCEPT ![j].pc = "dedup", ![j].seen = updated[j[2]]]
  /\ UNCHANGED <<total, updated, dated, file, warned, faults>>

\* Seeded fault: updated_at is stored as soon as the messages are listed.
FetchStatsStoresUpdatedAt(j) ==
  /\ job[j].pc = "stats"
  /\ Store!PrepareMessageRecords(j[2], {}, job[j].seen)
  /\ job' = [job EXCEPT ![j].pc = "dedup"]
  /\ UNCHANGED <<total, updated, dated, file, warned, faults>>

FetchStats(j) ==
  /\ job[j].pc = "stats"
  /\ Store!UpdateSessionFetchStats(j[2], job[j].reached)
  /\ job' = [job EXCEPT ![j].pc = "dedup"]
  /\ UNCHANGED <<total, updated, dated, file, warned, faults>>

\* Seeded fault: new messages are written without being registered.
DeduplicateThenWrite(j) ==
  /\ job[j].pc = "dedup"
  /\ job' = [job EXCEPT ![j].pc = "write",
               ![j].recs = Store!UnseenMessages(j[2], Window(job[j]))]
  /\ UNCHANGED <<total, updated, dated, sessions, messages, file, warned, faults>>

Deduplicate(j) ==
  /\ job[j].pc = "dedup"
  /\ job' = [job EXCEPT ![j].pc = "prepare",
               ![j].recs = Store!UnseenMessages(j[2], Window(job[j]))]
  /\ UNCHANGED <<total, updated, dated, sessions, messages, file, warned, faults>>

Prepare(j) ==
  /\ job[j].pc = "prepare"
  /\ Store!PrepareMessageRecords(j[2], job[j].recs, job[j].seen)
  /\ job' = [job EXCEPT ![j].pc = "write",
                        ![j].recs = Store!Prepared(j[2], @)]
  /\ UNCHANGED <<total, updated, dated, file, warned, faults>>

(***************************************************************************)
(* FileSink.WriteMessages: the records in the order of sortMessages.  The  *)
(* 4096-byte buffer is flushed wherever it fills up, so a line may reach   *)
(* the file in two pieces; O_APPEND puts each piece at the end.            *)
(***************************************************************************)
\* Seeded fault: the order of the API response, newest first.
NewestRecord(b, k) == k \in b.recs \ b.out /\ \A m \in b.recs \ b.out : m <= k

NextRecord(b, k) == k \in b.recs \ b.out /\ \A m \in b.recs \ b.out : k <= m

Put(j, k, part) ==
  file' = [file EXCEPT ![j[2]] =
             Append(@, [msg |-> k, part |-> part, by |-> j[1]])]

FlushRecord(j) ==
  /\ job[j].pc = "write"
  /\ \E k \in Msgs :
       /\ NextRecord(job[j], k)
       /\ Put(j, k, IF job[j].half THEN "tail" ELSE "line")
       /\ job' = [job EXCEPT ![j].out = @ \cup {k}, ![j].half = FALSE]
  /\ UNCHANGED <<total, updated, dated, sessions, messages, warned, faults>>

FlushHead(j) ==
  /\ job[j].pc = "write" /\ ~job[j].half
  /\ \E k \in Msgs : NextRecord(job[j], k) /\ Put(j, k, "head")
  /\ job' = [job EXCEPT ![j].half = TRUE]
  /\ UNCHANGED <<total, updated, dated, sessions, messages, warned, faults>>

\* Seeded fault: the batch counts as written before it is flushed.
WriteDoneUnflushed(j) ==
  /\ job[j].pc = "write"
  /\ job' = [job EXCEPT ![j].pc = "mark"]
  /\ UNCHANGED <<total, updated, dated, sessions, messages, file, warned, faults>>

WriteDone(j) ==
  /\ job[j].pc = "write" /\ job[j].recs \subseteq job[j].out
  /\ job' = [job EXCEPT ![j].pc = "mark"]
  /\ UNCHANGED <<total, updated, dated, sessions, messages, file, warned, faults>>

\* Seeded fault: the error of WriteMessages is dropped.
WriteErrorDropped(j) ==
  /\ job[j].pc = "write"
  /\ Fault
  /\ job' = [job EXCEPT ![j].pc = "mark"]
  /\ UNCHANGED <<total, updated, dated, sessions, messages, file, warned>>

\* open, write, flush or close fails, or the context is cancelled.
WriteFails(j) ==
  /\ job[j].pc = "write"
  /\ Fault
  /\ job' = [job EXCEPT ![j].pc = "markfail"]
  /\ UNCHANGED <<total, updated, dated, sessions, messages, file, warned>>

\* Seeded fault: only the newest record of the batch is marked.
MarkNewestWritten(j) ==
  /\ job[j].pc = "mark"
  /\ Store!MarkMessagesWritten(j[2],
       {k \in job[j].recs : \A m \in job[j].recs : m <= k}, job[j].seen)
  /\ job' = [job EXCEPT ![j] = Idle]
  /\ UNCHANGED <<total, updated, dated, file, warned, faults>>

MarkWritten(j) ==
  /\ job[j].pc = "mark"
  /\ Store!MarkMessagesWritten(j[2], job[j].recs, job[j].seen)
  /\ job' = [job EXCEPT ![j] = Idle]
  /\ UNCHANGED <<total, updated, dated, file, warned, faults>>

MarkFailed(j) ==
  /\ job[j].pc = "markfail"
  /\ Store!MarkMessagesFailed(j[2], job[j].recs)
  /\ job' = [job EXCEPT ![j] = Idle]
  /\ UNCHANGED <<total, updated, dated, file, warned, faults>>

\* Any other call fails: syncSession returns the error, the round goes on.
CallFails(j) ==
  /\ job[j].pc \in Working \ {"write"}
  /\ Fault
  /\ job' = [job EXCEPT ![j] = Idle]
  /\ UNCHANGED <<total, updated, dated, sessions, messages, file, warned>>

\* The process dies, or stops for a signal, and is started again: what is
\* in the database and in the files stays.
Restart(i) ==
  /\ ~RoundOver(i)
  /\ Fault
  /\ job' = [j \in Jobs |-> IF j[1] = i THEN Idle ELSE job[j]]
  /\ UNCHANGED <<total, updated, dated, sessions, messages, file, warned>>

JobStep(j) ==
  \/ FilterSession(j) \/ TakeJob(j) \/ GetSession(j) \/ ListMessages(j)
  \/ ProbeDecision(j) \/ FetchStats(j) \/ Deduplicate(j) \/ Prepare(j)
  \/ FlushRecord(j) \/ WriteDone(j) \/ MarkWritten(j) \/ MarkFailed(j)

Next == \/ \E s \in Sessions : NewMessage(s)
        \/ \E i \in Instances : ListSessions(i) \/ Restart(i)
        \/ \E j \in Jobs : JobStep(j) \/ FlushHead(j) \/ WriteFails(j)
                           \/ CallFails(j)

Spec == Init /\ [][Next]_vars

\* The poll ticker starts a round again and again, and a worker gets on with
\* its job: no call blocks for ever (HTTP and SQLite calls have timeouts).
Fairness == /\ \A i \in Instances : WF_vars(ListSessions(i))
            /\ \A j \in Jobs : WF_vars(JobStep(j))

FairSpec == Spec /\ Fairness
-----------------------------------------------------------------------------
(***************************************************************************)
(* Properties.                                                             *)
(***************************************************************************)
\* Every variable stays in its range.
TypeOK ==
  /\ total \in [Sessions -> 0 .. MaxMsgs]
  /\ updated \in [Sessions -> Times]
  /\ dated \in [Sessions -> 0 .. MaxMsgs]
  /\ Store!TypeOK
  /\ file \in [Sessions -> Seq(Chunk)]
  /\ job \in [Jobs -> JobState]
  /\ warned \subseteq Sessions
  /\ faults \in 0 .. MaxFaults

\* The database never claims more than the file holds: a message is marked
\* written only after its whole line went out (the order of WriteMessages
\* and MarkMessagesWritten in syncSession), crashes or not.
StatusNeverLeadsOutput ==
  \A s \in Sessions : \A k \in Store!Written(s) : Flushed(s, k)

\* Unless the fetch limit was hit, the written messages have no gap below
\* them: fetchUntilBoundary may stop at the first written message it meets,
\* because everything older is written as well.
NoSilentGap ==
  \A s \in Sessions \ warned :
    \A k \in Store!Written(s) : 1 .. k \subseteq Store!Written(s)

\* A session that shouldSync skips has no message that the database has not
\* met, except messages that came without moving UpdatedAt: the comparison
\* with > leaves those to the next change, and no others.  The UpdatedAt that
\* Prepare stores never runs ahead of the messages that were listed with it
\* (GetSession comes before ListMessages).
SkipIsSafe ==
  \A s \in Clocked \ warned :
    ~shouldSync(updated[s], sessions[s]) =>
      \A k \in 1 .. dated[s] : messages[s][k] # "absent"

\* First occurrences in the file are in API order, the order that
\* scripts/verify_jsonl.sh demands, retries and restarts included.
FirstExportsInOrder ==
  \A s \in Sessions \ warned :
    \A n \in DOMAIN file[s] : EndsLine(file[s][n]) =>
      \A k \in 1 .. (file[s][n].msg - 1) :
        \E m \in 1 .. n - 1 : file[s][m].msg = k /\ EndsLine(file[s][m])

\* A record is repeated only by a fault: at most once per fault.
DuplicatesNeedFaults ==
  \A s \in Sessions : \A k \in Msgs : Cardinality(Completed(s, k)) <= 1 + faults

\* A written message nobody can read back was itself torn by an earlier
\* attempt: what follows a torn line in the file is the same message again,
\* so a tear never destroys any other message.
OnlyTornMessageIsLost ==
  \A s \in Sessions \ warned : \A k \in Store!Written(s) :
    Readable(s, k) \/ \E n \in DOMAIN file[s] :
                         file[s][n].msg = k /\ file[s][n].part = "head"

\* The column updateSessionCursor maintains is the boundary of the export:
\* unless max_message_fetch was hit, the messages up to it are written and no
\* others are, whatever processes did together and wherever they died.
CursorIsBoundary ==
  \A s \in Sessions \ warned : Store!Written(s) = 1 .. sessions[s].cursor

(***************************************************************************)
(* Why these hold: what is known of a job wherever it stands.  SyncInv is  *)
(* inductive (module SessionSyncProofs).                                   *)
(***************************************************************************)
Selected == {"prepare", "write", "mark", "markfail"}
Fetched == {"stats", "dedup"} \cup Selected
Listed == {"bound"} \cup Fetched

\* A job never knows more than the server does.
SeenBehind(j) == /\ job[j].seen <= updated[j[2]]
                 /\ job[j].top <= total[j[2]]

\* If UpdatedAt still is what GetSession saw, the list has all it stands for.
ListIsFresh(j) == j[2] \in Clocked /\ job[j].pc \in Listed
                  /\ job[j].seen = updated[j[2]] => dated[j[2]] <= job[j].top

\* Everything older than the final window is written.
BelowWritten(j) == job[j].pc \in Fetched /\ j[2] \notin warned =>
  \A k \in Msgs : k + job[j].limit <= job[j].top => messages[j[2]][k] = "written"

\* What the batch leaves out of the window is written.
WindowSelected(j) == job[j].pc \in Selected =>
  /\ job[j].recs \subseteq Window(job[j])
  /\ \A k \in Window(job[j]) \ job[j].recs : messages[j[2]][k] = "written"

\* A batch that reaches the sink is registered.
BatchRegistered(j) == job[j].pc \in {"write", "mark", "markfail"} =>
  \A k \in job[j].recs : messages[j[2]][k] # "absent"

\* What the job takes for flushed is in the file, all of it before the mark.
OutFlushed(j) == /\ \A k \in job[j].out : Flushed(j[2], k)
                 /\ job[j].pc = "mark" => job[j].recs \subseteq job[j].out

JobInv(j) == /\ SeenBehind(j) /\ BelowWritten(j) /\ WindowSelected(j)
             /\ BatchRegistered(j) /\ OutFlushed(j)

SyncInv == /\ TypeOK
           /\ StatusNeverLeadsOutput
           /\ NoSilentGap
           /\ \A j \in Jobs : JobInv(j)

\* The stored UpdatedAt is one the server had, and if it is the current one,
\* everything it stands for is registered.
RowFresh(s) == /\ sessions[s].updated <= updated[s] /\ dated[s] <= total[s]
               /\ s \notin warned /\ sessions[s].updated = updated[s] =>
                    \A k \in 1 .. dated[s] : messages[s][k] # "absent"

SkipInv == /\ \A j \in Jobs : ListIsFresh(j)
           /\ \A s \in Clocked : RowFresh(s)

\* The database commands that syncSession issues are the store's, with
\* every batch prepared before it is marked.
UsesStore == Store!Spec

\* At most one process is in a round: what the lease is there for.
Exclusive == \A a, b \in Jobs :
  job[a].pc # "idle" /\ job[b].pc # "idle" => a[1] = b[1]

\* The whole of it, seen from outside, is an at-least-once exporter.
Attempts(s) == [n \in DOMAIN file[s] |->
                  [msg |-> file[s][n].msg, whole |-> EndsLine(file[s][n])]]

Abstract == INSTANCE AtLeastOnce WITH
              arrived <- total,
              log <- [s \in Sessions |-> Attempts(s)],
              acked <- [s \in Sessions |-> Store!Written(s)]

ImplementsAtLeastOnce == Abstract!Spec

\* When the server does not report UpdatedAt, every message that arrives is
\* written in the end, whatever failed in between.
EventuallyWritten ==
  \A s \in Sessions \ Clocked : \A k \in Msgs :
    (total[s] >= k) ~> (messages[s][k] = "written" \/ s \in warned)

\* When it does, every message is at least registered in the end, at the latest
\* when a message moves UpdatedAt that is not older: one that came without
\* moving it may wait for its successor.
EventuallyRegistered ==
  \A s \in Clocked : \A k \in Msgs :
    (dated[s] >= k) ~> (messages[s][k] # "absent" \/ s \in warned)

\* The comments of syncSession and MarkMessagesFailed: a message left
\* pending by a failed write is written by a later round.
PendingRetried ==
  \A s \in Sessions : \A k \in Msgs :
    (messages[s][k] \in {"pending", "failed"}) ~> (messages[s][k] = "written")

\* README: no message is missing from the JSONL; at worst, after a crash, a
\* record is there twice.  Every written message can be read back.
WrittenIsReadable ==
  \A s \in Sessions : \A k \in Store!Written(s) : Readable(s, k)
=============================================================================
