----------------------------- MODULE StateStore -----------------------------
(***************************************************************************)
(* The SQLite state store (src/internal/store/store.go): the tables        *)
(* sessions and messages and the four operations that change them.  The    *)
(* pool holds a single connection, so every operation is one transaction   *)
(* and one atomic step here; a failed operation rolls back and changes     *)
(* nothing.                                                                *)
(*                                                                         *)
(* The messages of a session are 1..MaxMsgs in the order of (created_at,   *)
(* id), the order of sortMessages and of the cursor; 0 is the cursor of a  *)
(* session none of whose messages is written (latest_message_id = '').     *)
(* The user, agent, raw JSON and output columns are left out.              *)
(***************************************************************************)
EXTENDS Naturals

CONSTANTS Sessions,     \* session ids
          MaxMsgs,      \* bound: messages a session ever has
          Times         \* values of Session.UpdatedAt; 0: not reported

ASSUME StoreAssumption == /\ MaxMsgs \in Nat
                          /\ Times \subseteq Nat
                          /\ 0 \in Times

VARIABLES sessions,     \* table sessions; found = FALSE: there is no row
          messages      \* table messages: the status of each message

storeVars == <<sessions, messages>>

Msgs == 1 .. MaxMsgs

\* "absent": no row; "failed": status 'pending' with a last_error.
Status == {"absent", "pending", "failed", "written"}

SessionRow == [found : BOOLEAN, updated : Times, cursor : 0 .. MaxMsgs,
               reached : BOOLEAN]

NoRow == [found |-> FALSE, updated |-> 0, cursor |-> 0, reached |-> FALSE]

Init == /\ sessions = [s \in Sessions |-> NoRow]
        /\ messages = [s \in Sessions |-> [k \in Msgs |-> "absent"]]

Written(s) == {k \in Msgs : messages[s][k] = "written"}

(***************************************************************************)
(* Queries.                                                                *)
(***************************************************************************)
\* Seeded fault: a registered message counts as processed.
AnyMessageExistsRegistered(s, msgs) == \E k \in msgs : messages[s][k] # "absent"

AnyMessageExists(s, msgs) == \E k \in msgs : messages[s][k] = "written"

UnseenMessages(s, msgs) == {k \in msgs : messages[s][k] # "written"}

\* What PrepareMessageRecords returns: the records still to be written.
Prepared(s, recs) == {k \in recs : messages[s][k] # "written"}

(***************************************************************************)
(* Operations.                                                             *)
(***************************************************************************)
\* A new row keeps updated_at = 0, the default of the column.
UpdateSessionFetchStats(s, reached) ==
  /\ sessions' = [sessions EXCEPT ![s].found = TRUE, ![s].reached = reached]
  /\ UNCHANGED messages

\* INSERT OR IGNORE, then UPDATE ... WHERE status <> 'written', then
\* upsertSessionMetadata, which moves updated_at before anything is written.
PrepareMessageRecords(s, recs, updated) ==
  /\ messages' = [messages EXCEPT ![s] =
       [k \in Msgs |-> IF k \in Prepared(s, recs) THEN "pending" ELSE @[k]]]
  /\ sessions' = [sessions EXCEPT ![s].found = TRUE, ![s].updated = updated]

\* Seeded fault: the cursor goes to the newest of the batch.
BatchCursor(s, recs) ==
  IF recs = {} THEN sessions[s].cursor
               ELSE CHOOSE c \in recs : \A k \in recs : k <= c

\* updateSessionCursor: the newest of the batch and of the stored cursor.
AdvancedCursor(s, recs) ==
  CHOOSE c \in recs \cup {sessions[s].cursor} :
    \A k \in recs \cup {sessions[s].cursor} : k <= c

\* The UPDATE touches existing rows only; the cursor moves all the same.
MarkMessagesWritten(s, recs, updated) ==
  /\ messages' = [messages EXCEPT ![s] =
       [k \in Msgs |-> IF k \in recs /\ @[k] # "absent"
                       THEN "written" ELSE @[k]]]
  /\ sessions' = [sessions EXCEPT ![s].found = TRUE,
                                  ![s].updated = updated,
                                  ![s].cursor = AdvancedCursor(s, recs)]

\* Seeded fault: a failed batch is reset whatever its status.
MarkFailedAnyStatus(s, recs) ==
  /\ messages' = [messages EXCEPT ![s] =
       [k \in Msgs |-> IF k \in recs /\ @[k] # "absent" THEN "failed" ELSE @[k]]]
  /\ UNCHANGED sessions

\* UPDATE ... WHERE status = 'pending': a written message stays written.
MarkMessagesFailed(s, recs) ==
  /\ messages' = [messages EXCEPT ![s] =
       [k \in Msgs |-> IF k \in recs /\ @[k] \in {"pending", "failed"}
                       THEN "failed" ELSE @[k]]]
  /\ UNCHANGED sessions

(***************************************************************************)
(* The store with any number of concurrent callers, which may interleave   *)
(* their calls in any way.  The one obligation of a caller: it marks as    *)
(* written only records it has prepared, that is, records that have a row. *)
(***************************************************************************)
CallerPrepared(s, recs) == \A k \in recs : messages[s][k] # "absent"

Next ==
  \E s \in Sessions :
    \/ \E reached \in BOOLEAN : UpdateSessionFetchStats(s, reached)
    \/ \E recs \in SUBSET Msgs, updated \in Times :
         PrepareMessageRecords(s, recs, updated)
    \/ \E recs \in SUBSET Msgs, updated \in Times :
         CallerPrepared(s, recs) /\ MarkMessagesWritten(s, recs, updated)
    \/ \E recs \in SUBSET Msgs : MarkMessagesFailed(s, recs)

Spec == Init /\ [][Next]_storeVars

-----------------------------------------------------------------------------
\* The tables hold values of their columns.
TypeOK == /\ sessions \in [Sessions -> SessionRow]
          /\ messages \in [Sessions -> [Msgs -> Status]]

\* The message cursor of a session is exactly its newest written message,
\* however the marks of concurrent callers interleave and in whatever order
\* their batches arrive (updateSessionCursor never moves back, and never
\* past a message that is not written).
CursorIsNewestWritten ==
  \A s \in Sessions :
    /\ sessions[s].cursor # 0 => messages[s][sessions[s].cursor] = "written"
    /\ \A k \in Written(s) : k <= sessions[s].cursor

\* A session with registered messages has a row: shouldSync never takes a
\* session with history for one it has never met.
RegisteredSessionHasRow ==
  \A s \in Sessions :
    (\E k \in Msgs : messages[s][k] # "absent") => sessions[s].found

\* written is final: a late PrepareMessageRecords or MarkMessagesFailed of
\* another caller never reopens a message (WHERE status <> 'written').
WrittenKept == \A s \in Sessions : Written(s) \subseteq Written(s)'

WrittenIsPermanent == [][WrittenKept]_storeVars

\* The stored cursor never moves back.
CursorKept == \A s \in Sessions : sessions[s].cursor <= sessions'[s].cursor

CursorNeverGoesBack == [][CursorKept]_storeVars
=============================================================================
