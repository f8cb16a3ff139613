# Verification of session-watcher

`session-watcher` polls an open-code server over HTTP, finds the messages it has
not exported yet, appends them to JSONL files and keeps what it has done in an
SQLite database. Several processes may stand by for each other through a lease
file. This directory holds TLA+ models of that program, configurations that
check them with TLC, and theorems checked by TLAPS. Paths below are relative to
`src/`.

## 1. Inventory

| Component | State | Operations | Called by | What is hard |
|---|---|---|---|---|
| **state store** `internal/store/store.go` | tables `sessions` (updated_at, message cursor, fetch statistics) and `messages` (status pending or written, output path, last_error) | `Open`; `UpdateSessionFetchStats`, `PrepareMessageRecords`, `MarkMessagesWritten`, `MarkMessagesFailed`, `CommitSessionSync`; queries `GetSessionState`, `AnyMessageExists`, `UnseenMessages` | watcher, main | calls of several workers, or of two processes on one file, in any order; a crash between two calls, or in the middle of creating the tables |
| **watcher** `internal/watcher/watcher.go` | none that lasts; per round a job per session, a worker pool, two channels | `SyncOnce` (list, filter, dispatch, add up), `syncSession`, `fetchUntilBoundary`, `mergeSessionMetadata` | main | the server moves on between every two requests; a failure between prepare, write and mark; the boundary search; `shouldSync` trusts a stored timestamp; cancellation while workers still send |
| **JSONL sink** `internal/sink/jsonl/writer.go` | the files; a table of counted locks | `WriteMessages`, `lockFor`, `releaseLock`, `cleanupIdleLocks`, `writeFile`, `PathFor` | watcher, from all workers | locks collected while others want them; lines cut in half |
| **lease** `internal/lease/lease.go` | the shared file (holder, acquired_at, renewed_at); in memory the time of acquisition | `Run`, `waitUntilCandidate`, `tryAcquire`, `runAsLeader`, `renew`, `readLease`, `writeLease` | main | no compare-and-swap: exclusion rests on time; failed renewals, clock skew, crashes; a writer that dies half way |
| **open-code source** `internal/source/opencode/` | none | `ListSessions`, `GetSession`, `ListMessages`, each by `get` with retries | watcher | retry and backoff against cancellation and timeouts |
| **main** `cmd/session-watcher/main.go` | context, mode | start-up, poll loop, leader callback, shutdown | | order of cancellation, status updates and exit; resources left open on a failure |
| **status**, **health** `internal/status`, `internal/health` | one snapshot under a mutex | `RecordRound`, `SetLeaderState`, `SetMode`, `Snapshot`; two HTTP handlers | main; HTTP clients | whether the snapshot tells the truth |
| **config**, **domain** | none | parsing, validation, types | main | the lease check is weaker than the election needs |
| **verify script** `scripts/verify_jsonl.sh` | none | compares the API with the files | operator | a watcher that works meanwhile; its own exit on errors |

How they interact: main starts a round; the watcher asks the source, reads and
writes the store, and writes to the sink, in this order for each session:

```
ListSessions  filter(GetSessionState)  |  GetSession  ListMessages*  AnyMessageExists*
                                       |  UpdateSessionFetchStats  UnseenMessages
                                       |  PrepareMessageRecords  WriteMessages
                                       |  MarkMessagesWritten   (or MarkMessagesFailed)
```

The workers share the store (one connection, so one transaction at a time) and
the sink's lock table. With a lease path, main runs this loop only inside the
lease's `onLeader` callback.

What makes each component correct:

* store: a written message stays written; the cursor is the newest written
  message; whoever has opened the database finds it complete.
* watcher: nothing is marked written that is not in the file; everything below
  the boundary is written; a skipped session has nothing new; every message is
  exported in the end; order and duplicates are as the verify script expects; a
  round returns and adds up, cancelled or not.
* sink: one writer per file; every writer gets its turn; records stay readable.
* lease: one leader at a time; a leader keeps its lease; somebody leads in the
  end; the file always parses.
* source: a call ends in bounded time.
* main and status: `is_leader` tells the truth; the store and the sink are open
  exactly while needed; a signal ends the process; `-once` ends and reports.
* script: status 0 vouches for the export, and a finished export gets status 0
  wherever the script looks at it and can parse it.

## 2. Modules

| Module | Models | Uses |
|---|---|---|
| `StateStore` | the two tables and the operations that change them, for interleaved callers | |
| `SessionSync` | rounds and `syncSession` of any number of processes, with server, database and files | `StateStore` (instance over its own variables), `AtLeastOnce` (refinement) |
| `AtLeastOnce` | what the exporter promises, without tables and steps | |
| `Lease` | the election over the lease file, with time | |
| `LeaseFile` | how the lease file is written, on a file system with inodes | |
| `HA` | a process works on sessions only while it leads: election and exporter composed | `SessionSync`, `Lease` |
| `Round` | the goroutines and channels of `SyncOnce` and its result | |
| `PathLocks` | the sink's lock table | |
| `HttpSource` | one request with its retries | |
| `Status` | the snapshot and the operations that write it | |
| `Main` | a process from flag parsing to exit code | `Status` |
| `StoreOpen` | `store.Open` by several processes on one file | |
| `OutputTracking` | under which user a session is filed, and what the rows say of it | |
| `VerifyScript` | the script beside a watcher | `OutputTracking` |
| `MC*` | constants, symmetry, and the side-by-side specifications for TLC | the above |
| `StateStoreProofs`, `SessionSyncProofs`, `LeaseProofs`, `LeaseFileProofs`, `VerifyScriptProofs` | theorems and proofs about the module of that name | that module |
| `HAProofs` | theorems about the exporter while one process at a time works, and about `HA` | `HA`, `SessionSyncProofs`, `LeaseProofs` (instance) |
| `RoundProofs` | theorems about `Round`, `PathLocks` and `HttpSource` | `MCRound` |
| `MainProofs` | theorems about `Main` and `StoreOpen` | `MCMain` |

Definitions named "Seeded fault" are not part of any specification. Each is a
wrong version of the definition below it, put in its place to show that the
property it is listed with would notice.

Three `MC` modules hold components that share no state with each other:
`MCLease` (`Lease`, `LeaseFile`), `MCRound` (`Round`, `PathLocks`, `HttpSource`)
and `MCMain` (`Main`, `StoreOpen`). A variable `machine`, chosen initially and
never changed, says which of them a behaviour is about; the others stand still.
A property of one is untouched by that, since it holds trivially in the
behaviours of another, and fairness is demanded of the chosen one only.

### StateStore

`sessions[s]` is the row of a session reduced to existence, `updated_at`, cursor
and `last_fetch_reached_limit`; `messages[s][k]` is the status of message `k`,
where "failed" is a pending row with a `last_error`. Messages are numbered in
the order of `sortMessages`, (created_at, id), which is also the order in which
cursors are compared, so the two columns of the cursor become one number. Each
Go method is one action because it is one transaction over the pool's single
connection; a failed one is a rollback. The specification lets callers do
anything except mark as written what they never prepared. `SessionSync` is shown
to keep to that (`UsesStore`).

### SessionSync

A *job* is the work of a process on a session in one round. Its `pc` names the
call it is about to make, and there is one action per call that leaves the
process: `ListSessions`, `FilterSession`, `TakeJob` (the channel and the workers,
at most `SessionWorkers` at a time), `GetSession`, `ListMessages`,
`ProbeDecision` (`AnyMessageExists` and the branches of `fetchUntilBoundary`),
`FetchStats`, `Deduplicate`, `Prepare`, then the write, then `MarkWritten` or
`MarkFailed`. Between any two of them the server may get a message, another job
or process may step, any call may fail (`CallFails`, `WriteFails`) and the
process may die or be stopped (`Restart`), with database and files as they are.

What `ListMessages(limit)` returned is determined by the newest message at that
moment and the limit, so a job keeps these two numbers instead of a list.

The file of a session is a sequence of chunks. `bufio.Writer` flushes whenever
4096 bytes are full, so a record reaches the file as one chunk or as a head and
a tail (`FlushHead`, `FlushRecord`), and whatever stands between can be a crash.
`Readable` says that a physical line is exactly one record.

`UpdatedAt` may stand still when a message arrives (the server counts
milliseconds), so a history variable `dated` remembers the messages a session
had when it last moved. Those are what an `UpdatedAt` stands for; the properties
about skipped sessions speak of them, and a message beyond them waits for the
next move.

`warned` remembers sessions that ever hit `max_message_fetch`: the documentation
(docs/design.md:275) gives up their older messages, and the properties about
completeness leave them out.

### AtLeastOnce

Three variables: how many messages arrived, the log of attempts, the set of
acknowledged messages. `Abstract` in `SessionSync` maps the file to the log and
the written rows to the acknowledged set; every step of the program is then an
arrival, an attempt at a message that is not acknowledged, an acknowledgement of
messages with a complete attempt, or invisible. It is the message state machine
of docs/design.md 6.4. It holds while one process at a time is in a round; two
may attempt a message the other has acknowledged.

### Lease

The file is a record of holder, whose `acquired_at` it carries, and the age of
`renewed_at`. `Tick` is a unit of time. A step with a deadline must be taken
before time can pass it: `IODelay` from reading the clock or the file to the
write it leads to, `VerifyMin` to `VerifyMax` from the write to the read back
(50 to 200 ms of jitter plus 200 ms), `RenewInterval` between ticks of the
renewal. A host's clock may be off by `ClockSkew`. A standby may look at any
time, which covers every poll interval. A renewal may fail `MaxMissed` times in
a row; a process may crash, restart, fail to acquire, or return from `onLeader`
by itself, and a renewal then under way is finished first.

Left out: equal holder ids, and clocks that jump. That reading and writing the
file are single steps is what `LeaseFile` shows.

### LeaseFile

A directory of names, inodes with what was written into them since they were
truncated, and writers that open (`O_TRUNC`), write and rename a temporary file,
or die anywhere between. `FileParses` is what keeps a standby from waiting for
ever on a file nobody can read (lease.go:97); `WriteIsAtomic` is the assumption
of `Lease`. Both need temporary files with different names (`TmpDistinct`).
`OpenTmp` may meet a file that a dead writer has left.

### HA

`Lease` is instantiated beside `SessionSync`: `Poll` begins a round only while
`running[i]`, `OnLeaderReturns` only when the round is over, and a crash takes
the process out of both. The election and the exporter keep their own faults.
`Exclusive` says that at most one process is in a round; with it the theorems
about one process hold of all of them together. A leader never steps down while its
callback runs, so no round is cut short by an election; a signal ends the
process, which is a `Crash` here like any other end in the middle of a round.

### Round

The caller of `SyncOnce`, the dispatching goroutine and `SessionWorkers` workers
are separate; `Dispatch(w)` is the rendezvous on the unbuffered `jobCh`,
`SendResult(w)` needs room in the buffered `resultCh`, `Wait` is `wg.Wait`.
`Cancel` may come at any moment, and both branches of a `select` may be taken
when both are ready. What a worker gets from `syncSession` is free, including
the maximum of `fetchUntilBoundary` together with an error.

### PathLocks

`lockFor`, `releaseLock` and `cleanupIdleLocks` are one step each because their
bodies run under `locksMu`; taking and releasing the path's own mutex are steps
between them. Addresses are reused once nobody can reach them, as memory is.
Instead of a clock, any unused lock may be found older than its TTL and any
clean-up may be skipped by its rate limit, which includes all real timings. Two
paths and several workers stand for sessions whose names `cleanSegment` maps to
one file.

### HttpSource

The loop of `get`: an attempt ends with a status, a network error, the client's
timeout or the context's end; `shouldRetry` decides; the backoff doubles and has
up to half of itself as jitter. Time counts in half units of the first backoff;
the client's timeout is any number of them (`TimeoutAssumption`).

### Status and Main

`Status` has the snapshot and the three operations that write it. `Main` has a
program counter for the main goroutine and what it holds open; `lease.Run` is
`elect`, `standby`, `lead`, `unlead`, and `runWatcher` the steps between. The
context is cancelled by a signal at any moment or by main's own `stop()`. The
properties relate what the status says, what is open, the exit code and the
context across these steps.

### StoreOpen

Every statement of `Open` commits by itself, so between two of them another
process may open the same file, a statement may fail or the process may die.
`Init` ranges over new files and those an earlier version left.

### OutputTracking and VerifyScript

The user of a session (standing for user and agent) decides the path. The list
and the detail request may disagree about it, and the server may change it
between two attempts at the same message. `VerifyScript` adds the script: it
finds the file by the list's answer alone, asks the server for the messages, and
compares; `ReturnStatus` is what `set -e` makes of the status of
`verify_session`. The watcher may go on working meanwhile. The lines of a batch
are the one ascending sequence of its messages (`OldestFirst`), and a failing
write leaves a beginning of it and perhaps a part of the next record (`Torn`),
since the sink's buffer is flushed wherever it fills up. What is appended after
such a part is glued to it; a parser does not get past the place, so `Parses`
is false of the file from then on and `verify_session` fails
(verify_jsonl.sh:259). A record that lacks only its newline is whole: `jq` takes
two values on one line. While a batch is being written the script may also come
upon half a record (`BeingWritten`).

## 3. Runs

| Run | Configuration | Shows |
|---|---|---|
| `StateStore` | one session, 4 messages, timestamps 0..2 | `CursorIsNewestWritten`, `WrittenIsPermanent` for calls in any order with any batches |
| `SyncOne` | 1 process, 1 session, limit 2, maximum 3, 4 messages, steps of `UpdatedAt` 0 and 1, 2 faults | `TypeOK`, `StatusNeverLeadsOutput`, `NoSilentGap`, `SkipIsSafe`, `FirstExportsInOrder`, `DuplicatesNeedFaults`, `OnlyTornMessageIsLost`, and the refinements `UsesStore` and `ImplementsAtLeastOnce` |
| `SyncSplitBrain` | 2 processes, 1 session, limit 1, maximum 3, 2 messages, steps 0 and 1, no faults | what survives two leaders: `FirstExportsInOrder`, `CursorIsBoundary`, and the inductive invariants `SyncInv`, `SkipInv` |
| `SyncLive` | 1 process, 2 sessions (one without `UpdatedAt`), 1 worker, 2 messages, steps 0 and 1, 1 fault | `EventuallyWritten`, `EventuallyRegistered` |
| `Lease` | 3 instances, timeout 11, renewal 2, verify 2..3, I/O 1, skew 1, 1 missed renewal, 6 faults; 2 writers of the file and 4 inodes | `AtMostOneLeader`, `AcquiredAtIsLeaders`, `ActiveLeaseNotStolen`, `LeadershipGoesOn`; `FileParses` |
| `HA` | 2 instances, 1 session without `UpdatedAt`, limit 1, maximum 2, 2 messages, timeout 3, renewal 1, verify 1, 1 failing call or crash in a round, 2 faults of the election | `Exclusive`, `WrittenAfterFailover` |
| `Round` | 3 sessions, 2 workers, 1 message each; 3 writers, 2 paths, 5 locks; timeout 5 | `NothingOutlivesRound`, `ReportIsComplete`, `RoundReturns`; `OneWriterPerPath`, `EventuallyWrites`; `TimeIsBounded` |
| `MainAll` | one process, every configuration; 2 processes that open the database, 2 indexes, 3 faults | `LeaderIsReported`, `ResourcesMatch`, `OnceFailureIsReported`, `SignalEndsProcess`, `OnceEnds`; `OpenedIsUsable`, `OwnIsNeverRefused` |
| `VerifyScript` | 1 session, 2 users and the default, 2 messages, 1 change of user, 2 faults | `RowNamesItsFile`, `ZeroMeansExported`, `VerdictIsRight` |
| `SyncPendingRetried` | 1 message, 1 fault | violated, see below |
| `SyncWrittenIsReadable` | 1 message, 1 fault | violated, see below |
| `LeaseSplitBrainEnds` | 2 instances, timeout 4, renewal 2, 2 missed renewals | violated, see below |

**Bounds.** `SyncOne`: four messages with a limit of 2 and a maximum of 3 make
the probe grow, stop at its cap, find a boundary in the middle of its window and
find none. Two faults allow a crash during the recovery from an earlier failure. Steps of
0 and 1 let messages tie before, between and after those that move `UpdatedAt`.
In `VerifyScript` two messages and two faults are enough for a record torn
before, between and after whole ones, and for its retry.
Sessions do not share anything in the model except workers, so one session is
enough for safety; `SyncLive` has two that compete for one worker.
`SyncSplitBrain` has no faults because a second process is itself everything a
fault does, and more; the proofs cover both together. `Lease` has the smallest
units for which every delay is at least one and the timing is still sound; with
a timeout of 10, a verify delay of 1 or an I/O delay of 2 `AtMostOneLeader` is
violated, so the bound is exactly where it matters. A third instance is the
smallest number in which a candidate can meet a leader and another candidate.
Four inodes are one for each name and one spare. `HA` takes the fastest sound
election, since what it asks is how a takeover meets a round that is going on:
with two messages and a failing call there is something left over for the
successor. `Round`: three sessions and two workers make a worker take a second
job, and leave one unsent when the context is cancelled. Three writers let one
write, one wait and one go through creation and clean-up. All bounds are
CONSTANTS (`MaxMsgs`, `MaxUpdated`, `MaxFaults`, `MaxNew`, `MaxChanges`); the
theorems hold for every value.

Messages stop at `MaxMsgs`, and a process can always begin another round, so
deadlock is checked except in `Round`, where a request that has returned is
over, and in `MainAll`, where a process that has exited is. Symmetry is used in
`VerifyScript` only, where no liveness is checked and users and sessions are not
ordered.

**Fairness.** `SessionSync`: a process begins a round again and again (the poll
loop of `runWatcher` has no exit but the context) and a job goes on with its
next call, because HTTP calls have a timeout and SQLite calls a busy timeout;
messages, failures and crashes are not fair. `Lease`: time passes and a running
process takes its steps; it need not be restarted. `HA`: both of these.
`Round`: each goroutine that can go on does; nobody cancels or calls.
`PathLocks`: a started write finishes, and Go's mutexes hand over to a waiter
that has waited long, which is strong fairness of `Lock`; nobody has to start a
write. `Main`: the main goroutine goes on; nobody need be elected.

### Where code and documentation disagree

With a run that shows it:

* **`SyncPendingRetried`.** `PrepareMessageRecords` stores the session's
  `updated_at` together with the pending rows. If the write fails, or the process
  dies before it, `shouldSync` finds the stored and the listed value equal in
  every later round and skips the session. The comments (watcher.go:280,
  store.go:493) and docs/design.md:577 say the next round retries. It does only
  if the server changes the session again; `EventuallyRegistered` states what is
  left of the promise. The run has a server that moves `UpdatedAt` with every
  message, so ties have no part in it.
* **`SyncWrittenIsReadable`.** After a line was cut off by a crash, the retry
  appends to the same physical line. The message is then marked written and no
  line of the file contains it. README.md:77 speaks of repeated messages only.
  `OnlyTornMessageIsLost` shows that the damage is confined to the torn message
  for a reader that takes lines one by one. `jq` reads the file as a whole: the
  verify script fails such a session with status 1 for ever, although every row
  is written (verify_jsonl.sh:259). `VerdictIsRight` has this as one of the two
  reasons for which it fails a finished export.
* **`LeaseSplitBrainEnds`.** `renew` never looks at the holder and a leader never
  steps down, so two leaders stay two leaders. The comment of `renew`
  (lease.go:211) and docs/plans/2026-05-05-ha-lease.md:860 say they converge.

Met while modelling, without a run, because the model says no more than the line
does or the case lies outside its assumptions:

* watcher.go:190: the comparison of `UpdatedAt` is strict. A message that arrives
  without moving the session's `UpdatedAt` past the stored value (a second one in
  the same millisecond, after the first was listed) does not bring the session
  back. It is exported with the next message that does move it, and never if
  none follows. `SkipIsSafe` and `EventuallyRegistered` are stated for the
  messages `UpdatedAt` stands for (`dated`) and show that nothing else is lost
  that way; README.md:8 promises every message.
* config.go:126: `Validate` accepts a renewal interval of almost the whole
  timeout. `AtMostOneLeader` needs `SoundTiming`:

  ```
  IODelay < VerifyMin
  VerifyMax + 2 * IODelay + (MaxMissed + 1) * RenewInterval + ClockSkew < LeaseTimeout
  ```

  With the defaults (30 s and 10 s) one missed renewal in a row is harmless, two
  are not; with an interval above half of the timeout none is. A timeout of 1 s
  with an interval of 950 ms passes `Validate` and gives two leaders without any
  failure: a candidate that found the lease just expired verifies it 250 to
  400 ms later.
* lease.go:252: the temporary file's name replaces "/" by "_", so the holder ids
  `host/1` and `host_1` share one. Then `TmpDistinct` fails, and `FileParses`
  with it.
* main.go:116: after leadership is lost the status still carries the lease id;
  status.go:20 says it is empty for who is not the leader.
* main.go:189: a shutdown during `ListSessions` is recorded as `last_error`;
  watcher.go:171 means to prevent that (it does for later cancellations).
* main.go:95: a database that cannot be opened ends runWatcher; without `-once`
  main then returns with 0, where docs/design.md:608 says 1, and in HA mode it
  stands for election again. Even with `-once` (main.go:166) the failure of
  single sessions does not change the exit code that "CI may rely on".
* client.go:176: the client's own timeout is a `DeadlineExceeded` and is not
  retried; docs/design.md:208 excludes only a cancelled ctx, and 209 counts
  network errors as retried.
* writer.go:204: nothing is fsynced, and SQLite runs with `synchronous=NORMAL`.
  docs/architecture-analysis.html:979 considers the loss of transactions; after a
  loss of power the opposite, a message marked written whose line is gone, is
  possible as well.
* store.go:591: the comment calls `CommitSessionSync` a single atomic operation;
  it is two transactions, `PrepareMessageRecords` and `MarkMessagesWritten`.
  Only tests call it.
* verify_jsonl.sh:410: the script runs under `set -e` (line 22) and calls
  `verify_session` as a plain command, so that the first session that fails or is
  skipped ends it, before the counters and the summary are reached, and with
  status 2 for a session that was merely skipped; docs/design.md:824 knows 0 and
  1 only. `VerifyScript` models that.
* watcher.go:237 against verify_jsonl.sh:198: the watcher files a session under
  the merged metadata, the script looks under the user of the list alone. When
  the detail request names another user, the script does not find the file.
  `VerdictIsRight` has this as the other reason for which it fails a finished
  export.
* verify_jsonl.sh:105: `clean_segment` works on bytes, the Go function on unicode
  letters, and `echo` swallows a name such as `-n`; docs/design.md:837 calls them
  identical.

## 4. Proofs

All theorems are about every value of the constants, from the named assumptions
of the modules and what is stated here.

* **`StateStoreProofs`.** `StoreInv` (types, cursor, rows) is inductive by
  itself; the two action properties follow from the types. The core is that the
  maximum of the batch and the old cursor is written after the mark, which is
  where the obligation that only prepared records are marked is used.
* **`SessionSyncProofs`.** `SyncInv` adds to the types and the two properties
  what a job knows wherever it stands: that what it takes for flushed is in the
  file, that everything below its final window is written, and that what the
  batch leaves out of the window is written. `NoSilentGap` needs them because
  the mark of a batch fills exactly the hole between the boundary and its newest
  record. It holds for any number of processes, since statuses only grow; no
  lemma speaks of the order of processes. `SkipInvariant` and `SkipNeverMisses`
  add `SkipInv` (an unchanged `UpdatedAt` means that nothing it stands for
  arrived after the list was read), for any server clock, ties included. `ExportedInOrder` strengthens `FirstExportsInOrder`
  to heads of records (`ChunksInOrder`): what is older than the next record of a
  batch is written, or flushed by the same batch, hence already complete in the
  file (`OlderDone`, `OlderFlushed`). `StoreRefined` maps every step to a store
  call or a stutter. Through it the theorems of `StateStoreProofs` become
  theorems of the system (`RowsAreTrue`, `WrittenForEver`), and with
  `NoSilentGap` they say that the cursor is the boundary of the export:
  `CursorAlwaysBoundary` (`CursorIsBoundary` of `SyncSplitBrain`), exactly the
  messages up to it are written.
* **`HAProofs`, first part.** Three theorems hold while one process at a time is
  in a round (`[]Exclusive` is their hypothesis, `OneInstance` implies it). All
  use `ExportInv`: a batch being written is unacknowledged.
  `ExclusiveIsAtLeastOnce` is the refinement. `ExclusiveLosesOnlyTorn` proves
  `OnlyTornMessageIsLost` from `TornInv`: the record whose head ends the file is
  neither written nor flushed (`TearIsOpen`). When the next line is put behind
  such a head it is either that record again, or an older one, which by
  `ChunksInOrder` is complete elsewhere in the file; it cannot be a newer one,
  since then the torn record would be written. `ExclusiveRepeatsOnlyAfterFaults`
  proves `DuplicatesNeedFaults` by counting: one copy is `Expected` while a job
  holds it or it is written, and a job gives up an expected copy only by a fault.
* **`HAProofs`, second part.** A step of `HA` is a step of `Lease` and a step of
  `SessionSync`, or leaves one of them alone. Hence, without any assumption on
  timing, whatever `SessionSyncProofs` says of many processes holds: two leaders
  at once leave no gap and no disorder (`HASafeInSplitBrain`), and a takeover
  skips and reopens nothing (`HAHandsOver`). Under `SoundTiming` the lease
  invariant holds, work needs a leader (`OnlyLeadersWork`), at most one process
  works (`OneProcessWorks`), and the three theorems of the first part hold of
  any number of instances that crash and take over from each other
  (`HAIsAtLeastOnce`, `HALosesOnlyTorn`, `HARepeatsOnlyAfterFaults`).
* **`LeaseProofs`**, under `SoundTiming`. `LeaseInv` bounds the age of the file
  by where its holder stands (`HoldsYoungFile`, `WroteRecently`), so that no
  standby sees a leader's file as stale, and orders candidates
  (`DecidedBefore`): one that is still to write when another verifies decided no
  later than the other wrote, so its I/O deadline comes before the verification.
  `OneLeader` then follows because every leader is the holder of the file.
* **`LeaseFileProofs`**, under `TmpDistinct`. `FileInv` says that a temporary
  file is its writer's alone and holds its text once written; `LeaseFileParses`
  and `RenameIsAtomic` follow. They are why `Lease` may take a read and a write
  of the file as single steps.
* **`RoundProofs`.** `RoundInv` places every job with the dispatcher, one worker
  or the result channel, never in two of these, and says what each phase of the
  caller implies. `GoroutinesEnd`, `ResultsNeverBlock` and `ReportComplete`
  follow, with the cardinality facts of `FiniteSetTheorems`. `LocksInv` says
  that counts are exact, that different paths have different locks and that a
  mutex is owned by who writes under it; `OneWriter` follows. `HttpInv` bounds
  the time spent so far together with the timer that runs (`InTime`), by the
  attempts and backoffs begun; `TimeAlwaysBounded` is its last case, for every
  timeout. `PartsAreSafe` carries the results over to the composed specification
  of the run.
* **`MainProofs`.** `LeaderIsReported`, `ResourcesMatch` and
  `OnceFailureIsReported` are not inductive. `MainInv` adds that only HA mode
  elects (`ModesApart`), in which order things are opened (`OpenedInOrder`), that
  main cancels its own context only after its only round (`StopsWhenDone`), and
  that with `-once`, wherever no error is at hand, the round was done or a signal
  came (`NothingUnreported`). For `StoreOpen`, `StoreInv` says what a process
  knows at each statement of `Open`, and that no other process undoes it
  (`KnownOf`), and that what an earlier version left stays visible
  (`PriorShows`): so whoever has finished finds everything, and nobody is refused
  because of a half-made database. `BothAreSafe` carries the results over to the
  composed specification.
* **`VerifyScriptProofs`.** `TrackInv`: the batch of a job has rows that name the
  file the job writes, and after the write the file has its messages
  (`BatchNamed`); `RowsNameTheirFiles` follows, whatever was retried under which
  user. `ScriptInv` says what the script knows while it goes on: files only grow,
  and what a parser has reached it still reaches, so a session it is done with
  stays exported (`ZeroAlwaysMeansExported`; `ParsedIsReadable` and
  `MatchesExports` make that of a file that parses and matches).
  `VerdictAlwaysRight` needs the order of lines as well. As long as nobody
  changes a user, a session has one file, the one its merged user names, and all
  others of it stay empty. In that file every message has all the older ones
  before it, wherever torn records stand (`InOrder`, `TearInOrder`), because a
  batch continues what is written (`CalmInv`). Once all is written it stays so
  (`ExportStays`) and no batch has a line left to write (`NothingToWrite`), so
  the file stands still under the script. `VerdictInv` follows the script
  through it: what it has done with so far is in place, and if it ended with
  another status, the session it ended at is not.

The assumptions are those of the modules: bounds and timeouts are natural
numbers, limits and worker counts positive, and that `HAAssumption` is the
lease's. The inductive invariants were checked by TLC before they were proved;
`SyncInv` and `SkipInv` still are, in `SyncSplitBrain`.

Every invariant and every action property of the runs, and both refinements, is
a theorem. Only model-checked is what speaks of liveness (`EventuallyWritten`,
`EventuallyRegistered`, `LeadershipGoesOn`, `WrittenAfterFailover`,
`RoundReturns`, `EventuallyWrites`, `SignalEndsProcess`, `OnceEnds`), because the
prover does not handle ENABLED and fairness. Nothing is proved by induction over
data: the two backoffs of a request are computed (`Backoffs`), and sequences are
reasoned about by their indices.

## 5. Not modelled

* Loss of data already handed to the operating system (nothing is fsynced).
* Contents: a message is its identity. That a server goes on extending a message
  which was exported (store.go:353 never looks at a written one again) is
  outside the models, and so are message ids that are empty or shared by two
  sessions.
* JSON decoding and URL building of the source, flag parsing, the log file, the
  two health handlers (they only read the snapshot), the characters of names
  (`cleanSegment`), and columns no decision reads.
* A stopping process that is slow to leave its round. On a signal the renewals
  stop at once (lease.go:186) while the round is still ending under the cancelled
  context; `HA` takes the process to end together with its round, which assumes
  that the one `write(2)` or transaction still under way ends before the lease
  runs out.
* The script's options, a failing `curl`, and a message request that is
  limited below the length of the session.
* `domain` has types only.

## 6. Plan

Done: store, synchronisation with its refinements, lease and its file, their
composition, the round, the lock table, requests, main and status, opening, the
output paths and the script, and proofs of every safety property the runs check.
What is left would add little by little:

1. `cleanSegment` and its counterpart in the script as functions over a small
   alphabet, against a reference definition.
2. Messages that change after their export, to state what a consumer may assume
   of the last version of a message.
3. Theorems about the composed specification of `MCLease`, and that the file of
   `LeaseFile` is the register `Lease` takes it for, as a refinement.
