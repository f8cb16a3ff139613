--------------------------- MODULE OutputTracking ---------------------------
(***************************************************************************)
(* Where a session's messages go.  The path of a file starts with the user *)
(* and the agent of the session; the list and the detail request may       *)
(* disagree about them, and the server may change them.  The watcher       *)
(* merges the two answers, files the messages under the result and notes   *)
(* the path in the table messages (syncSession, fillOutputTracking and     *)
(* mergeSessionMetadata in watcher.go, PathFor in writer.go).              *)
(*                                                                         *)
(* "User" stands for the pair of user and agent, which are treated alike.  *)
(* The steps within a session are those of SessionSync, with the fetch     *)
(* taken as one step; cleanSegment is not modelled.                        *)
(*                                                                         *)
(* A file is what a parser makes of it: records, in the order they were    *)
(* appended, and torn ones.  The buffer of the sink is flushed wherever it *)
(* fills up, so a write that fails may leave the beginning of a record.    *)
(* What comes next is glued to it, and no JSON parser gets past the place. *)
(* A record that lacks its newline only is whole.                          *)
(***************************************************************************)
EXTENDS Naturals, Sequences, SequencesExt

CONSTANTS Sessions, Users,
          Default,      \* domain.DefaultUserID
          NoUser,       \* an answer without the field, or with an empty one
          MaxMsgs,      \* bound: messages of a session
          MaxChanges,   \* bound: changes of a session's user
          MaxFaults     \* bound: failing calls and crashes

ASSUME OutputAssumption == MaxMsgs \in Nat

VARIABLES total,        \* the server's messages 1 .. total[s]
          listed,       \* the user in the list request's answer
          detail,       \* the user in the detail request's answer
          rows,         \* table messages: status and output_path
          file,         \* what each file holds: message ids and torn records
          job,          \* where the worker stands with each session
          changes, faults

serverVars == <<total, listed, detail, changes>>
trackVars == <<serverVars, rows, file, job, faults>>

Answers == Users \cup {NoUser}
Owners == Users \cup {Default}
Msgs == 1 .. MaxMsgs

\* The beginning of a record.
Torn == 0

\* A file exists once it has a line: the script below takes an empty file
\* and a missing one alike.
Paths == Owners \X Sessions

Idle == [step |-> "idle", user |-> Default, batch |-> {}]
NoRow == [status |-> "absent", path |-> <<>>]

TrackInit ==
  /\ total = [s \in Sessions |-> 0]
  /\ listed \in [Sessions -> Answers] /\ detail \in [Sessions -> Answers]
  /\ rows = [s \in Sessions |-> [k \in Msgs |-> NoRow]]
  /\ file = [p \in Paths |-> << >>]
  /\ job = [s \in Sessions |-> Idle]
  /\ changes = 0 /\ faults = 0

\* decodeSession: snake_case, camelCase, default.
firstNonEmpty(answer) == IF answer = NoUser THEN Default ELSE answer

\* After decodeSession neither is empty, which settles the other branches.
mergeSessionMetadata(fromDetail, fromList) ==
  IF fromDetail = Default THEN fromList ELSE fromDetail

PathFor(user, s) == <<user, s>>

NewMessage(s) == /\ total[s] < MaxMsgs
                 /\ total' = [total EXCEPT ![s] = @ + 1]
                 /\ UNCHANGED <<listed, detail, changes, rows, file, job, faults>>

ChangeUser(s) ==
  /\ changes < MaxChanges /\ changes' = changes + 1
  /\ \E a \in Answers, b \in Answers :
       /\ listed' = [listed EXCEPT ![s] = a]
       /\ detail' = [detail EXCEPT ![s] = b]
  /\ UNCHANGED <<total, rows, file, job, faults>>

\* A round lists all sessions and takes up those that shouldSync lets pass.
ListSessions ==
  /\ \A s \in Sessions : job[s].step = "idle"
  /\ \E taken \in SUBSET Sessions \ {{}} :
       job' = [s \in Sessions |->
                 IF s \in taken
                 THEN [Idle EXCEPT !.step = "listed", !.user = firstNonEmpty(listed[s])]
                 ELSE Idle]
  /\ UNCHANGED <<serverVars, rows, file, faults>>

GetSession(s) ==
  /\ job[s].step = "listed"
  /\ job' = [job EXCEPT ![s].step = "got",
               ![s].user = mergeSessionMetadata(firstNonEmpty(detail[s]), @)]
  /\ UNCHANGED <<serverVars, rows, file, faults>>

\* The unseen messages become the records; rows of both kinds are rewritten,
\* those INSERT OR IGNORE adds and those an earlier attempt has left.
Unseen(s) == {k \in 1 .. total[s] : rows[s][k].status # "written"}

\* Seeded fault: INSERT OR IGNORE alone, so an old row keeps its path.
PrepareInsertOnly(s) ==
  /\ job[s].step = "got"
  /\ job' = [job EXCEPT ![s].step = "prepared", ![s].batch = Unseen(s)]
  /\ rows' = [rows EXCEPT ![s] = [k \in Msgs |->
                IF k \in Unseen(s) /\ rows[s][k].status = "absent"
                THEN [status |-> "pending", path |-> PathFor(job[s].user, s)]
                ELSE rows[s][k]]]
  /\ UNCHANGED <<serverVars, file, faults>>

Prepare(s) ==
  /\ job[s].step = "got"
  /\ job' = [job EXCEPT ![s].step = "prepared", ![s].batch = Unseen(s)]
  /\ rows' = [rows EXCEPT ![s] = [k \in Msgs |->
                IF k \in Unseen(s)
                THEN [status |-> "pending", path |-> PathFor(job[s].user, s)]
                ELSE rows[s][k]]]
  /\ UNCHANGED <<serverVars, file, faults>>

\* The messages of a set as lines, oldest first: one sequence.
OldestFirst(ks) ==
  {q \in SeqOf(ks, MaxMsgs) :
     Range(q) = ks /\ \A i, j \in DOMAIN q : i < j => q[i] < q[j]}

\* These records of the batch reach the file, and what follows them does.
WriteLines(s, ks, end) ==
  \E q \in OldestFirst(ks) :
    file' = [file EXCEPT ![PathFor(job[s].user, s)] = @ \o q \o end]

Write(s) ==
  /\ job[s].step = "prepared"
  /\ WriteLines(s, job[s].batch, << >>)
  /\ job' = [job EXCEPT ![s].step = "wrote"]
  /\ UNCHANGED <<serverVars, rows, faults>>

\* An error or the end of the process, after the first records of the batch
\* and perhaps a part of the next one: MarkMessagesFailed, if it comes to it,
\* changes the error text only.
WriteFails(s) ==
  /\ job[s].step = "prepared" /\ faults < MaxFaults
  /\ \E ks \in SUBSET job[s].batch, end \in {<< >>, <<Torn>>} :
       /\ \A k \in ks, m \in job[s].batch \ ks : k < m
       /\ ks = job[s].batch => end = << >>
       /\ WriteLines(s, ks, end)
  /\ job' = [job EXCEPT ![s] = Idle]
  /\ faults' = faults + 1
  /\ UNCHANGED <<serverVars, rows>>

MarkWritten(s) ==
  /\ job[s].step = "wrote"
  /\ rows' = [rows EXCEPT ![s] = [k \in Msgs |->
                IF k \in job[s].batch THEN [rows[s][k] EXCEPT !.status = "written"]
                                      ELSE rows[s][k]]]
  /\ job' = [job EXCEPT ![s] = Idle]
  /\ UNCHANGED <<serverVars, file, faults>>

CallFails(s) ==
  /\ job[s].step \in {"listed", "got", "wrote"} /\ faults < MaxFaults
  /\ job' = [job EXCEPT ![s] = Idle]
  /\ faults' = faults + 1
  /\ UNCHANGED <<serverVars, rows, file>>

Watcher == \/ ListSessions
           \/ \E s \in Sessions : \/ GetSession(s) \/ Prepare(s) \/ Write(s)
                                  \/ WriteFails(s) \/ MarkWritten(s)
                                  \/ CallFails(s)

Server == \E s \in Sessions : NewMessage(s) \/ ChangeUser(s)
-----------------------------------------------------------------------------
(***************************************************************************)
(* Properties.                                                             *)
(***************************************************************************)
\* The file that output_path of a written row names holds the whole record of
\* the message, also when an earlier attempt prepared the row for another path
\* or tore a record.
RowNamesItsFile ==
  \A s \in Sessions, k \in Msgs : rows[s][k].status = "written" =>
    Contains(file[rows[s][k].path], k)
=============================================================================
