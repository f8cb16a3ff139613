---------------------------- MODULE VerifyScript ----------------------------
(***************************************************************************)
(* scripts/verify_jsonl.sh beside a watcher: it lists the sessions, finds  *)
(* the file of each by the path rule, asks the server for the messages and *)
(* compares.  docs/design.md recommends it after session_watcher -once; a  *)
(* watcher that goes on working meanwhile is allowed here.                 *)
(*                                                                         *)
(* The script runs under "set -e": verify_session is called as a plain     *)
(* command, so any status but 0 ends the script with that status, before   *)
(* main looks at it.  The limit of the message request is taken to cover   *)
(* the session (the script warns when it does not), and messages are never *)
(* deleted, so a session with a file has messages.                         *)
(***************************************************************************)
EXTENDS OutputTracking

VARIABLES at,        \* where the script stands
          listing,   \* the answer to its list request
          left,      \* sessions of the listing not looked at yet
          current,   \* the session being verified; << >>: none
          api,       \* the messages the server named for it
          code,      \* exit status of the script; -1: it has not ended
          known,     \* history: the messages when the script began
          exported   \* history: all of them were written by then

scriptVars == <<at, listing, left, current, api, code, known, exported>>
vars == <<trackVars, scriptVars>>

None == << >>
Running == -1

Init == /\ TrackInit
        /\ at = "start" /\ listing = listed /\ left = {}
        /\ current = None /\ api = {} /\ code = Running
        /\ known = total /\ exported = FALSE

AllWritten == \A s \in Sessions : \A k \in 1 .. total[s] :
                rows[s][k].status = "written"

\* list_sessions, after a complete round.
ListForCheck ==
  /\ at = "start" /\ \A s \in Sessions : job[s].step = "idle"
  /\ at' = "next" /\ listing' = listed /\ left' = Sessions
  /\ known' = total /\ exported' = AllWritten
  /\ UNCHANGED <<trackVars, current, api, code>>

\* The path from the listing alone.
jsonl_path(s) == PathFor(firstNonEmpty(listing[s]), s)

\* Is there a file?
FindFile(s) ==
  /\ at = "next" /\ s \in left
  /\ at' = IF file[jsonl_path(s)] = << >> THEN "probe" ELSE "messages"
  /\ current' = s
  /\ UNCHANGED <<trackVars, listing, left, api, code, known, exported>>

\* verify_session returns; set -e ends the script unless it returned 0.
ReturnStatus(status) ==
  /\ IF status = 0 THEN at' = "next" /\ code' = code
                   ELSE at' = "done" /\ code' = status
  /\ left' = left \ {current} /\ current' = None /\ api' = {}
  /\ UNCHANGED <<trackVars, listing, known, exported>>

\* No file: a failure if the server has a message, or else "skipped".
Probe == /\ at = "probe"
         /\ ReturnStatus(IF total[current] = 0 THEN 2 ELSE 1)

AskMessages ==
  /\ at = "messages"
  /\ at' = "compare" /\ api' = 1 .. total[current]
  /\ UNCHANGED <<trackVars, listing, left, current, code, known, exported>>

Lines == file[jsonl_path(current)]

\* jq reads the whole file or fails, and its failure ends the script with 1.
Parses == ~Contains(Lines, Torn)

\* The watcher is writing to the file at this moment: jq may come upon the
\* record that is just being written.
BeingWritten ==
  /\ job[current].step = "prepared" /\ job[current].batch # {}
  /\ PathFor(job[current].user, current) = jsonl_path(current)

\* line_map: the first line of a message.
IsFirst(i, k) == Lines[i] = k /\ \A j \in 1 .. i - 1 : Lines[j] # k

\* Seeded fault: as many lines as messages.
MatchesByCount == Len(Lines) >= Cardinality(api)

\* Seeded fault: a second line of a message is an error, too.
MatchesExactly == Lines \in OldestFirst(api)

\* The awk program: every message has a line, the first ones in API order.
Matches == /\ \A k \in api : Contains(Lines, k)
           /\ \A k, m \in api, i, j \in DOMAIN Lines :
                k < m /\ IsFirst(i, k) /\ IsFirst(j, m) => i < j

Compare == /\ at = "compare"
           /\ \/ ReturnStatus(IF Parses /\ Matches THEN 0 ELSE 1)
              \/ BeingWritten /\ ReturnStatus(1)

Finish == /\ at = "next" /\ left = {}
          /\ at' = "done" /\ code' = 0
          /\ UNCHANGED <<trackVars, listing, left, current, api, known, exported>>

Script == \/ ListForCheck \/ Probe \/ AskMessages \/ Compare \/ Finish
          \/ \E s \in Sessions : FindFile(s)

Next == \/ (Watcher \/ Server) /\ UNCHANGED scriptVars
        \/ Script

Spec == Init /\ [][Next]_vars
-----------------------------------------------------------------------------
(***************************************************************************)
(* Properties.                                                             *)
(***************************************************************************)
\* A parser that reads the file from its beginning finds the message.
Readable(f, k) == \E i \in DOMAIN f : f[i] = k /\ \A j \in 1 .. i - 1 : f[j] # Torn

\* Status 0 vouches for the export: every message that existed when the script
\* began can be read back from a file of its session, whatever failed, was
\* torn and was retried.
ZeroMeansExported ==
  code = 0 => \A s \in Sessions : \A k \in 1 .. known[s] :
    \E u \in Owners : Readable(file[PathFor(u, s)], k)

\* All was exported before the script began, according to the database, and
\* since then nothing has come and no user was ever changed.
Quiet == /\ exported /\ total = known /\ changes = 0
         /\ \A s \in Sessions : total[s] > 0

\* The script looks where the watcher has written, and nothing is torn there.
InPlace(s) ==
  LET user == firstNonEmpty(listed[s])
  IN  /\ mergeSessionMetadata(firstNonEmpty(detail[s]), user) = user
      /\ ~Contains(file[PathFor(user, s)], Torn)

\* The script's verdict on a finished export.  It is 0 unless an answer to the
\* detail request moved a session elsewhere or an attempt left a torn record:
\* nothing else that failed or was repeated disturbs the script, and neither
\* of the two escapes it.
VerdictIsRight ==
  Quiet /\ code # Running => (code = 0 <=> \A s \in Sessions : InPlace(s))
=============================================================================
