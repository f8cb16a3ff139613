------------------------- MODULE VerifyScriptProofs -------------------------
(***************************************************************************)
(* Proofs about the files, the rows that name them and the script that     *)
(* verifies them, for any number of sessions, users, messages and faults.  *)
(*                                                                         *)
(* The watcher's part is inductive by itself (TrackInv).  What the script  *)
(* concludes rests on it in two ways: status 0 on the files only growing,  *)
(* its verdict on a finished export on where the records of a session are  *)
(* and in which order, as long as nobody changes its user (CalmInv).       *)
(***************************************************************************)
EXTENDS VerifyScript, TLAPS

-----------------------------------------------------------------------------
(***************************************************************************)
(* The invariants.                                                         *)
(***************************************************************************)
\* What a file is made of.
Lumps == Msgs \cup {Torn}

Rows == [status : {"absent", "pending", "written"}, path : Paths \cup {<< >>}]

JobStates == [step : {"idle", "listed", "got", "prepared", "wrote"},
              user : Owners, batch : SUBSET Msgs]

TrackTypeOK ==
  /\ total \in [Sessions -> 0 .. MaxMsgs]
  /\ listed \in [Sessions -> Answers]
  /\ detail \in [Sessions -> Answers]
  /\ rows \in [Sessions -> [Msgs -> Rows]]
  /\ file \in [Paths -> Seq(Lumps)]
  /\ job \in [Sessions -> JobStates]
  /\ changes \in Nat

\* A row that exists names a file of its session.
RowsNamed == \A s \in Sessions, k \in Msgs :
  rows[s][k].status # "absent" => rows[s][k].path \in Paths

\* The batch of a job has arrived, it is what its rows say, and after Write it
\* is in the file.
BatchNamed(s) ==
  /\ job[s].step \in {"prepared", "wrote"} =>
       \A k \in job[s].batch :
         k <= total[s] /\ rows[s][k] = [status |-> "pending", path |-> PathFor(job[s].user, s)]
  /\ job[s].step = "wrote" =>
       \A k \in job[s].batch : Contains(file[PathFor(job[s].user, s)], k)

TrackInv == /\ TrackTypeOK /\ RowsNamed
            /\ \A s \in Sessions : BatchNamed(s)
            /\ RowNamesItsFile

\* The messages that existed when the script began can be read from a file of
\* their session.
Exported(s) == \A k \in 1 .. known[s] :
                 \E u \in Owners : Readable(file[PathFor(u, s)], k)

Verifying == {"probe", "messages", "compare"}

ScriptTypeOK ==
  /\ at \in {"start", "next", "done"} \cup Verifying
  /\ listing \in [Sessions -> Answers]
  /\ left \in SUBSET Sessions
  /\ at \in Verifying => current \in Sessions
  /\ code \in {Running, 0, 1, 2}
  /\ known \in [Sessions -> 0 .. MaxMsgs]
  /\ exported \in BOOLEAN

\* The script has not ended as long as it works, and every session it is
\* done with is exported, unless it has complained.
ScriptKnows ==
  /\ code = Running <=> at # "done"
  /\ \A s \in Sessions : known[s] <= total[s]
  /\ at = "compare" => api \subseteq 1 .. total[current] /\ 1 .. known[current] \subseteq api
  /\ at # "start" /\ code \in {Running, 0} => \A s \in Sessions \ left : Exported(s)
  /\ code = 0 => left = {}

ScriptInv == TrackInv /\ ScriptTypeOK /\ ScriptKnows

(***************************************************************************)
(* Nobody has changed a session's user.                                    *)
(***************************************************************************)
Calm == changes = 0

\* The user in the list's answer, and the one the watcher settles on.
ListedUser(s) == firstNonEmpty(listed[s])
UserOf(s) == mergeSessionMetadata(firstNonEmpty(detail[s]), ListedUser(s))

\* In a file, every message is preceded by all the older ones.
InOrder(f) == \A j \in 1 .. Len(f), k \in Msgs :
                k < f[j] => \E i \in 1 .. j - 1 : f[i] = k

\* A session has one file, and its records begin in order: what is prepared and
\* not written yet continues what is written.
CalmSession(s) ==
  /\ job[s].step = "listed" => job[s].user = ListedUser(s)
  /\ job[s].step \in {"got", "prepared", "wrote"} => job[s].user = UserOf(s)
  /\ \A k \in Msgs : rows[s][k].status # "absent" =>
       rows[s][k].path = PathFor(UserOf(s), s)
  /\ job[s].step = "prepared" =>
       \A m \in job[s].batch, k \in Msgs : k < m =>
         k \in job[s].batch \/ rows[s][k].status = "written"
  /\ InOrder(file[PathFor(UserOf(s), s)])
  /\ \A u \in Owners : u # UserOf(s) => file[PathFor(u, s)] = << >>

CalmInv == Calm => listing = listed /\ \A s \in Sessions : CalmSession(s)

\* Once all was written it stays written.
ExportStays == exported => \A s \in Sessions, k \in Msgs :
                 k <= known[s] => rows[s][k].status = "written"

\* What the script has found out about the sessions it has looked at is true.
VerdictInv == Quiet =>
  /\ code # 2
  /\ code \in {Running, 0} /\ at # "start" => \A s \in Sessions \ left : InPlace(s)
  /\ code = 1 => \E s \in Sessions : ~InPlace(s)
  /\ at = "probe" => ~InPlace(current)
  /\ at \in {"messages", "compare"} => UserOf(current) = ListedUser(current)

VerifyInv == ScriptInv /\ CalmInv /\ ExportStays /\ VerdictInv

-----------------------------------------------------------------------------
(***************************************************************************)
(* Lines and files.                                                        *)
(***************************************************************************)
\* What OldestFirst promises of its sequence.
LEMMA OldestFirstIs ==
  ASSUME NEW ks \in SUBSET Msgs, NEW q \in OldestFirst(ks)
  PROVE  /\ q \in Seq(Lumps)
         /\ \A i \in 1 .. Len(q) : q[i] \in ks
         /\ \A k \in ks : Contains(q, k)
         /\ \A i, j \in 1 .. Len(q) : i < j => q[i] < q[j]
<1>1. PICK n \in 0 .. MaxMsgs : q \in [1 .. n -> ks]
  BY DEF OldestFirst, SeqOf
<1>2. n \in Nat
  BY <1>1, OutputAssumption
<1>3. q \in Seq(ks) /\ Len(q) = n /\ DOMAIN q = 1 .. n
  BY <1>1, <1>2
<1>4. \A k \in ks : \E i \in 1 .. Len(q) : q[i] = k
  BY <1>3 DEF OldestFirst, Range
<1>5. \A i, j \in 1 .. Len(q) : i < j => q[i] < q[j]
  BY <1>3 DEF OldestFirst
<1>6. q \in Seq(Lumps)
  BY <1>3 DEF Lumps
<1>7. QED
  BY <1>1, <1>3, <1>4, <1>5, <1>6 DEF Contains

\* Appending records loses none and adds its own.
LEMMA AppendKeeps ==
  ASSUME NEW f \in Seq(Lumps), NEW q \in Seq(Lumps)
  PROVE  /\ f \o q \in Seq(Lumps)
         /\ \A k : Contains(f, k) => Contains(f \o q, k)
         /\ \A k : Contains(q, k) => Contains(f \o q, k)
         /\ \A k : Readable(f, k) => Readable(f \o q, k)
<1>1. f \o q \in Seq(Lumps) /\ Len(f \o q) = Len(f) + Len(q)
  OBVIOUS
<1>2. ASSUME NEW k, Contains(f, k) PROVE Contains(f \o q, k)
  <2>1. PICK i \in 1 .. Len(f) : f[i] = k
    BY <1>2 DEF Contains
  <2>2. i \in 1 .. Len(f \o q) /\ (f \o q)[i] = k
    BY <1>1, <2>1
  <2>3. QED
    BY <2>2 DEF Contains
<1>3. ASSUME NEW k, Contains(q, k) PROVE Contains(f \o q, k)
  <2>1. PICK i \in 1 .. Len(q) : q[i] = k
    BY <1>3 DEF Contains
  <2>2. Len(f) + i \in 1 .. Len(f \o q) /\ (f \o q)[Len(f) + i] = k
    BY <1>1, <2>1
  <2>3. QED
    BY <2>2 DEF Contains
<1>4. ASSUME NEW k, Readable(f, k) PROVE Readable(f \o q, k)
  <2>1. PICK i \in 1 .. Len(f) : f[i] = k /\ \A j \in 1 .. i - 1 : f[j] # Torn
    BY <1>4 DEF Readable
  <2>2. /\ i \in 1 .. Len(f \o q) /\ (f \o q)[i] = k
        /\ \A j \in 1 .. i - 1 : (f \o q)[j] # Torn
    BY <1>1, <2>1
  <2>3. DOMAIN (f \o q) = 1 .. Len(f \o q)
    BY <1>1
  <2>4. QED
    BY <2>2, <2>3 DEF Readable
<1>5. QED
  BY <1>1, <1>2, <1>3, <1>4

\* Records in ascending order that continue a file keep it in order.
LEMMA AppendInOrder ==
  ASSUME NEW f \in Seq(Lumps), NEW q \in Seq(Lumps), InOrder(f),
         \A i, j \in 1 .. Len(q) : i < j => q[i] < q[j],
         \A j \in 1 .. Len(q), k \in Msgs :
           k < q[j] => Contains(f, k) \/ Contains(q, k)
  PROVE  InOrder(f \o q)
<1> DEFINE g == f \o q
<1>1. /\ Len(g) = Len(f) + Len(q)
      /\ \A i \in 1 .. Len(f) : g[i] = f[i]
      /\ \A i \in 1 .. Len(q) : g[Len(f) + i] = q[i]
  OBVIOUS
<1>2. SUFFICES ASSUME NEW j \in 1 .. Len(g), NEW k \in Msgs, k < g[j]
               PROVE  \E i \in 1 .. j - 1 : g[i] = k
  BY DEF InOrder
<1>3. CASE j <= Len(f)
  <2>1. j \in 1 .. Len(f) /\ k < f[j]
    BY <1>1, <1>2, <1>3
  <2>2. PICK i \in 1 .. j - 1 : f[i] = k
    BY <2>1 DEF InOrder
  <2>3. QED
    BY <1>1, <2>1, <2>2
<1>4. CASE j > Len(f)
  <2>1. PICK b \in 1 .. Len(q) : j = Len(f) + b
    <3>1. j - Len(f) \in 1 .. Len(q) /\ j = Len(f) + (j - Len(f))
      BY <1>1, <1>4
    <3>2. QED
      BY <3>1
  <2>2. k < q[b]
    BY <1>1, <1>2, <2>1
  <2>3. CASE Contains(f, k)
    <3>1. PICK i \in 1 .. Len(f) : f[i] = k
      BY <2>3 DEF Contains
    <3>2. QED
      BY <1>1, <2>1, <3>1
  <2>4. CASE Contains(q, k)
    <3>1. PICK i \in 1 .. Len(q) : q[i] = k
      BY <2>4 DEF Contains
    <3>2. q[i] \in Lumps /\ q[b] \in Lumps
      BY <2>1, <3>1
    <3>3. i < b
      <4>1. ~(b < i) /\ b # i
        BY <2>2, <3>1, <3>2 DEF Lumps, Msgs, Torn
      <4>2. QED
        BY <4>1, <2>1, <3>1
    <3>4. Len(f) + i \in 1 .. j - 1 /\ g[Len(f) + i] = k
      BY <1>1, <2>1, <3>1, <3>3
    <3>5. QED
      BY <3>4
  <2>5. QED
    BY <2>2, <2>3, <2>4
<1>5. QED
  BY <1>3, <1>4, <1>1

\* A torn record at the end does not matter to the order.
LEMMA TearInOrder ==
  ASSUME NEW f \in Seq(Lumps), InOrder(f), NEW end \in {<< >>, <<Torn>>}
  PROVE  InOrder(f \o end)
<1> DEFINE g == f \o end
<1>0. Torn \in Lumps
  BY DEF Lumps
<1>1. /\ Len(g) \in {Len(f), Len(f) + 1} /\ Len(f) \in Nat
      /\ \A i \in 1 .. Len(f) : g[i] = f[i]
      /\ Len(g) = Len(f) + 1 => g[Len(f) + 1] = Torn
  <2>1. CASE end = << >>
    <3>1. g = f
      BY <2>1
    <3>2. Len(f) \in Nat
      OBVIOUS
    <3>3. QED
      BY <3>1, <3>2
  <2>2. CASE end = <<Torn>>
    BY <1>0, <2>2
  <2>3. QED
    BY <2>1, <2>2
<1>2. SUFFICES ASSUME NEW j \in 1 .. Len(g), NEW k \in Msgs, k < g[j]
               PROVE  \E i \in 1 .. j - 1 : g[i] = k
  BY DEF InOrder
<1>3. j \in 1 .. Len(f)
  <2>1. CASE j = Len(f) + 1
    <3>1. g[j] = 0
      BY <1>1, <1>2, <2>1 DEF Torn
    <3>2. QED
      BY <1>2, <3>1 DEF Msgs
  <2>2. QED
    BY <1>1, <2>1
<1>4. PICK i \in 1 .. j - 1 : f[i] = k
  BY <1>1, <1>2, <1>3 DEF InOrder
<1>5. QED
  BY <1>1, <1>3, <1>4

\* An answer always stands for an owner.
LEMMA OwnerOf == \A a \in Answers : firstNonEmpty(a) \in Owners
BY DEF Answers, Owners, firstNonEmpty

\* The file of an owner and a session is one of the paths.
LEMMA PathIsPath ==
  ASSUME NEW u \in Owners, NEW s \in Sessions
  PROVE  PathFor(u, s) \in Paths
BY DEF PathFor, Paths

\* What writing does to the files.
LEMMA LinesWritten ==
  ASSUME TrackTypeOK, NEW s \in Sessions, NEW ks \in SUBSET Msgs,
         NEW end \in {<< >>, <<Torn>>}, WriteLines(s, ks, end)
  PROVE  /\ file' \in [Paths -> Seq(Lumps)]
         /\ \A p \in Paths : \A k : Contains(file[p], k) => Contains(file'[p], k)
         /\ \A p \in Paths : \A k : Readable(file[p], k) => Readable(file'[p], k)
         /\ \A k \in ks : Contains(file'[PathFor(job[s].user, s)], k)
<1>1. PICK q \in OldestFirst(ks) :
        file' = [file EXCEPT ![PathFor(job[s].user, s)] = @ \o q \o end]
  BY DEF WriteLines
<1>2. q \in Seq(Lumps) /\ \A k \in ks : Contains(q, k)
  BY <1>1, OldestFirstIs
<1>3. PathFor(job[s].user, s) \in Paths
  BY PathIsPath DEF TrackTypeOK, JobStates
<1> DEFINE here == PathFor(job[s].user, s)
<1>4. file[here] \in Seq(Lumps) /\ file'[here] = file[here] \o q \o end
  BY <1>1, <1>3 DEF TrackTypeOK
<1>5. \A p \in Paths : p # here => file'[p] = file[p]
  BY <1>1, <1>3 DEF TrackTypeOK
<1>6. end \in Seq(Lumps)
  <2>1. Torn \in Lumps
    BY DEF Lumps
  <2>2. << >> \in Seq(Lumps) /\ <<Torn>> \in Seq(Lumps)
    BY <2>1
  <2>3. QED
    BY <2>2
<1>7. /\ file[here] \o q \in Seq(Lumps)
      /\ \A k : Contains(file[here], k) => Contains(file[here] \o q, k)
      /\ \A k : Contains(q, k) => Contains(file[here] \o q, k)
      /\ \A k : Readable(file[here], k) => Readable(file[here] \o q, k)
  BY <1>2, <1>4, AppendKeeps
<1>8. /\ file[here] \o q \o end \in Seq(Lumps)
      /\ \A k : Contains(file[here] \o q, k) => Contains(file[here] \o q \o end, k)
      /\ \A k : Readable(file[here] \o q, k) => Readable(file[here] \o q \o end, k)
  BY <1>6, <1>7, AppendKeeps
<1>9. file' \in [Paths -> Seq(Lumps)]
  BY <1>1, <1>3, <1>4, <1>8 DEF TrackTypeOK
<1>10. ASSUME NEW p \in Paths, NEW k
       PROVE  /\ Contains(file[p], k) => Contains(file'[p], k)
              /\ Readable(file[p], k) => Readable(file'[p], k)
  BY <1>4, <1>5, <1>7, <1>8
<1>11. \A k \in ks : Contains(file'[here], k)
  BY <1>2, <1>4, <1>7, <1>8
<1>12. QED
  BY <1>9, <1>10, <1>11

-----------------------------------------------------------------------------
(***************************************************************************)
(* The watcher.                                                            *)
(***************************************************************************)
LEMMA TrackInitially == Init => TrackInv
<1> SUFFICES ASSUME Init PROVE TrackInv
  OBVIOUS
<1> USE DEF Init, TrackInit
<1>1. NoRow \in Rows /\ Idle \in JobStates /\ << >> \in Seq(Lumps)
  BY DEF NoRow, Rows, Idle, JobStates, Owners
<1>2. 0 \in 0 .. MaxMsgs
  BY OutputAssumption
<1>3. TrackTypeOK
  BY <1>1, <1>2 DEF TrackTypeOK
<1>4. \A s \in Sessions, k \in Msgs : rows[s][k].status = "absent"
  BY DEF NoRow
<1>5. \A s \in Sessions : job[s].step = "idle"
  BY DEF Idle
<1>6. QED
  BY <1>3, <1>4, <1>5 DEF TrackInv, RowsNamed, BatchNamed, RowNamesItsFile

\* A step that changes neither rows nor files and, of a job, nothing that
\* BatchNamed speaks of.
LEMMA TrackFramed ==
  ASSUME TrackInv, TrackTypeOK', UNCHANGED <<rows, file>>,
         \A s \in Sessions : total[s] <= total'[s],
         \A s \in Sessions : job'[s] = job[s]
                             \/ job'[s].step \notin {"prepared", "wrote"}
  PROVE  TrackInv'
<1>1. ASSUME NEW s \in Sessions PROVE BatchNamed(s)'
  <2>1. CASE job'[s].step \notin {"prepared", "wrote"}
    BY <2>1 DEF BatchNamed
  <2>2. CASE job'[s] = job[s] /\ job[s].step \in {"prepared", "wrote"}
    <3>1. BatchNamed(s) /\ job[s].batch \in SUBSET Msgs
      BY DEF TrackInv, TrackTypeOK, JobStates
    <3>2. total[s] \in Nat /\ total'[s] \in Nat
      BY OutputAssumption DEF TrackInv, TrackTypeOK
    <3>3. \A k \in job[s].batch : k \in Nat /\ k <= total[s]
      BY <2>2, <3>1 DEF BatchNamed, Msgs
    <3>4. \A k \in job[s].batch : k <= total'[s]
      BY <3>2, <3>3
    <3>5. QED
      BY <2>2, <3>1, <3>4 DEF BatchNamed
  <2>3. QED
    BY <2>1, <2>2
<1>2. QED
  BY <1>1 DEF TrackInv, RowsNamed, RowNamesItsFile

LEMMA ServerStep == TrackInv /\ Server => TrackInv'
<1> SUFFICES ASSUME TrackInv, NEW s \in Sessions, NewMessage(s) \/ ChangeUser(s)
             PROVE  TrackInv'
  BY DEF Server
<1>1. UNCHANGED <<rows, file, job>>
  BY DEF NewMessage, ChangeUser
<1>2. CASE NewMessage(s)
  <2>1. total[s] + 1 \in 0 .. MaxMsgs
    BY <1>2, OutputAssumption DEF NewMessage, TrackInv, TrackTypeOK
  <2>2. TrackTypeOK'
    BY <1>1, <1>2, <2>1 DEF NewMessage, TrackInv, TrackTypeOK
  <2>3. ASSUME NEW r \in Sessions PROVE total[r] <= total'[r]
    <3>1. total'[r] = total[r] \/ total'[r] = total[r] + 1
      BY <1>2 DEF NewMessage, TrackInv, TrackTypeOK
    <3>2. total[r] \in Nat
      BY OutputAssumption DEF TrackInv, TrackTypeOK
    <3>3. QED
      BY <3>1, <3>2
  <2>4. QED
    BY <1>1, <2>2, <2>3, TrackFramed
<1>3. CASE ChangeUser(s)
  <2>1. TrackTypeOK'
    BY <1>1, <1>3 DEF ChangeUser, TrackInv, TrackTypeOK
  <2>2. \A r \in Sessions : total[r] <= total'[r]
    BY <1>3, OutputAssumption DEF ChangeUser, TrackInv, TrackTypeOK
  <2>3. QED
    BY <1>1, <2>1, <2>2, TrackFramed
<1>4. QED
  BY <1>2, <1>3

\* The four steps of a round that write nothing.
LEMMA ReadingStep ==
  ASSUME TrackInv,
         ListSessions \/ \E s \in Sessions : GetSession(s) \/ CallFails(s)
  PROVE  TrackInv'
<1>0. UNCHANGED serverVars => \A s \in Sessions : total[s] <= total'[s]
  BY OutputAssumption DEF serverVars, TrackInv, TrackTypeOK
<1>1. Idle \in JobStates /\ Idle.step = "idle"
  BY DEF Idle, JobStates, Owners
<1>2. CASE ListSessions
  <2>1. PICK taken \in SUBSET Sessions :
          job' = [s \in Sessions |->
                    IF s \in taken
                    THEN [Idle EXCEPT !.step = "listed", !.user = firstNonEmpty(listed[s])]
                    ELSE Idle]
    BY <1>2 DEF ListSessions
  <2>2. \A s \in Sessions :
          [Idle EXCEPT !.step = "listed", !.user = firstNonEmpty(listed[s])] \in JobStates
    BY OwnerOf DEF TrackInv, TrackTypeOK, Idle, JobStates
  <2>3. job' \in [Sessions -> JobStates]
    BY <1>1, <2>1, <2>2
  <2>4. \A s \in Sessions : job'[s].step \in {"idle", "listed"}
    BY <1>1, <2>1 DEF Idle
  <2>5. UNCHANGED <<serverVars, rows, file>>
    BY <1>2 DEF ListSessions
  <2>6. TrackTypeOK'
    BY <2>3, <2>5 DEF TrackInv, TrackTypeOK, serverVars
  <2>7. QED
    BY <1>0, <2>4, <2>5, <2>6, TrackFramed
<1>3. ASSUME NEW s \in Sessions, GetSession(s) PROVE TrackInv'
  <2>1. mergeSessionMetadata(firstNonEmpty(detail[s]), job[s].user) \in Owners
    BY OwnerOf DEF TrackInv, TrackTypeOK, JobStates, mergeSessionMetadata
  <2>2. job' \in [Sessions -> JobStates]
    BY <1>3, <2>1 DEF GetSession, TrackInv, TrackTypeOK, JobStates
  <2>3. job'[s].step = "got" /\ \A t \in Sessions : t # s => job'[t] = job[t]
    BY <1>3 DEF GetSession, TrackInv, TrackTypeOK, JobStates
  <2>4. UNCHANGED <<serverVars, rows, file>>
    BY <1>3 DEF GetSession
  <2>5. TrackTypeOK'
    BY <2>2, <2>4 DEF TrackInv, TrackTypeOK, serverVars
  <2>6. QED
    BY <1>0, <2>3, <2>4, <2>5, TrackFramed
<1>4. ASSUME NEW s \in Sessions, CallFails(s) PROVE TrackInv'
  <2>1. UNCHANGED <<serverVars, rows, file>> /\ job' = [job EXCEPT ![s] = Idle]
    BY <1>4 DEF CallFails
  <2>2. TrackTypeOK'
    BY <1>1, <2>1 DEF TrackInv, TrackTypeOK, serverVars
  <2>3. \A t \in Sessions : job'[t] = job[t] \/ job'[t].step = "idle"
    BY <1>1, <2>1 DEF TrackInv, TrackTypeOK
  <2>4. QED
    BY <1>0, <2>1, <2>2, <2>3, TrackFramed
<1>5. QED
  BY <1>2, <1>3, <1>4

\* Unseen messages are messages the model knows.
LEMMA UnseenInRange ==
  ASSUME TrackTypeOK, NEW s \in Sessions
  PROVE  Unseen(s) \in SUBSET Msgs
BY OutputAssumption DEF Unseen, TrackTypeOK, Msgs

\* What Prepare does to jobs and rows.
LEMMA Prepared ==
  ASSUME TrackTypeOK, NEW s \in Sessions, Prepare(s)
  PROVE  /\ job[s].step = "got" /\ job'[s].step = "prepared"
         /\ job'[s].user = job[s].user /\ job'[s].batch = Unseen(s)
         /\ \A t \in Sessions : t # s => job'[t] = job[t] /\ rows'[t] = rows[t]
         /\ \A k \in Msgs : rows'[s][k] = IF k \in Unseen(s)
                THEN [status |-> "pending", path |-> PathFor(job[s].user, s)]
                ELSE rows[s][k]
         /\ job' \in [Sessions -> JobStates]
         /\ rows' \in [Sessions -> [Msgs -> Rows]]
         /\ PathFor(job[s].user, s) \in Paths
         /\ UNCHANGED <<serverVars, file>>
<1>1. job[s].step = "got" /\ UNCHANGED <<serverVars, file>>
  BY DEF Prepare
<1>2. job' = [job EXCEPT ![s].step = "prepared", ![s].batch = Unseen(s)]
  BY DEF Prepare
<1>3. /\ job'[s].step = "prepared" /\ job'[s].user = job[s].user
      /\ job'[s].batch = Unseen(s)
      /\ \A t \in Sessions : t # s => job'[t] = job[t]
      /\ job' \in [Sessions -> JobStates]
  BY <1>2, UnseenInRange DEF TrackTypeOK, JobStates
<1>4. PathFor(job[s].user, s) \in Paths
  BY PathIsPath DEF TrackTypeOK, JobStates
<1> DEFINE new == [k \in Msgs |->
                     IF k \in Unseen(s)
                     THEN [status |-> "pending", path |-> PathFor(job[s].user, s)]
                     ELSE rows[s][k]]
<1>5. rows' = [rows EXCEPT ![s] = new]
  BY DEF Prepare
<1>6. new \in [Msgs -> Rows]
  BY <1>4 DEF TrackTypeOK, Rows
<1>7. /\ rows'[s] = new /\ rows' \in [Sessions -> [Msgs -> Rows]]
      /\ \A t \in Sessions : t # s => rows'[t] = rows[t]
  BY <1>5, <1>6 DEF TrackTypeOK
<1>8. QED
  BY <1>1, <1>3, <1>4, <1>7

LEMMA PrepareStep ==
  ASSUME TrackInv, NEW s \in Sessions, Prepare(s)
  PROVE  TrackInv'
<1> DEFINE pending == [status |-> "pending", path |-> PathFor(job[s].user, s)]
<1>0. TrackTypeOK
  BY DEF TrackInv
<1>1. TrackTypeOK'
  BY Prepared DEF TrackInv, TrackTypeOK, serverVars
<1>2. /\ pending.status = "pending" /\ pending.path \in Paths
      /\ file' = file
  BY <1>0, Prepared
<1>3. ASSUME NEW t \in Sessions, NEW k \in Msgs
      PROVE  rows'[t][k] = rows[t][k] \/ rows'[t][k] = pending
  BY <1>0, Prepared
<1>4. RowsNamed'
  BY <1>2, <1>3 DEF TrackInv, RowsNamed
<1>5. ASSUME NEW t \in Sessions PROVE BatchNamed(t)'
  <2>1. CASE t = s
    <3>1. \A k \in Unseen(s) : k <= total'[s] /\ rows'[s][k] = pending
      <4>1. total' = total /\ total[s] \in Nat
        <5>1. UNCHANGED serverVars
          BY <1>0, Prepared
        <5>2. QED
          BY <1>0, <5>1, OutputAssumption DEF serverVars, TrackTypeOK
      <4>2. \A k \in Unseen(s) : k <= total[s]
        BY <4>1 DEF Unseen
      <4>3. QED
        BY <1>0, <4>1, <4>2, Prepared, UnseenInRange
    <3>2. job'[s].step = "prepared" /\ job'[s].user = job[s].user
          /\ job'[s].batch = Unseen(s)
      BY <1>0, Prepared
    <3>3. QED
      BY <2>1, <3>1, <3>2 DEF BatchNamed
  <2>2. CASE t # s
    <3>1. job'[t] = job[t] /\ rows'[t] = rows[t] /\ total' = total
      BY <1>0, <2>2, Prepared DEF serverVars
    <3>2. QED
      BY <1>2, <3>1 DEF TrackInv, BatchNamed
  <2>3. QED
    BY <2>1, <2>2
<1>6. RowNamesItsFile'
  BY <1>2, <1>3 DEF TrackInv, RowNamesItsFile
<1>7. QED
  BY <1>1, <1>4, <1>5, <1>6 DEF TrackInv

\* The two steps that write: the files only grow, so what named a line before
\* still does.
LEMMA GrowingStep ==
  ASSUME TrackInv, TrackTypeOK', rows' = rows,
         \A p \in Paths : \A k : Contains(file[p], k) => Contains(file'[p], k),
         \A s \in Sessions : BatchNamed(s)'
  PROVE  TrackInv'
<1>1. RowsNamed'
  BY DEF TrackInv, RowsNamed
<1>2. RowNamesItsFile'
  BY DEF TrackInv, RowsNamed, RowNamesItsFile
<1>3. QED
  BY <1>1, <1>2 DEF TrackInv

LEMMA WriteStep ==
  ASSUME TrackInv, NEW s \in Sessions, Write(s)
  PROVE  TrackInv'
<1>1. job[s].step = "prepared" /\ UNCHANGED <<serverVars, rows>>
      /\ WriteLines(s, job[s].batch, << >>) /\ job[s].batch \in SUBSET Msgs
  BY DEF Write, TrackInv, TrackTypeOK, JobStates
<1>2. /\ job'[s].step = "wrote" /\ job'[s].user = job[s].user
      /\ job'[s].batch = job[s].batch /\ job' \in [Sessions -> JobStates]
      /\ \A t \in Sessions : t # s => job'[t] = job[t]
  BY DEF Write, TrackInv, TrackTypeOK, JobStates
<1>3. /\ file' \in [Paths -> Seq(Lumps)]
      /\ \A p \in Paths : \A k : Contains(file[p], k) => Contains(file'[p], k)
      /\ \A k \in job[s].batch : Contains(file'[PathFor(job[s].user, s)], k)
  BY <1>1, LinesWritten DEF TrackInv
<1>4. TrackTypeOK'
  BY <1>1, <1>2, <1>3 DEF TrackInv, TrackTypeOK, serverVars
<1>5. ASSUME NEW t \in Sessions PROVE BatchNamed(t)'
  <2>1. CASE t = s
    BY <1>1, <1>2, <1>3, <2>1 DEF TrackInv, BatchNamed, serverVars
  <2>2. CASE t # s
    <3>1. PathFor(job[t].user, t) \in Paths
      BY PathIsPath DEF TrackInv, TrackTypeOK, JobStates
    <3>2. QED
      BY <1>1, <1>2, <1>3, <2>2, <3>1 DEF TrackInv, BatchNamed, serverVars
  <2>3. QED
    BY <2>1, <2>2
<1>6. QED
  BY <1>1, <1>3, <1>4, <1>5, GrowingStep

LEMMA WriteFailsStep ==
  ASSUME TrackInv, NEW s \in Sessions, WriteFails(s)
  PROVE  TrackInv'
<1>1. PICK ks \in SUBSET job[s].batch, end \in {<< >>, <<Torn>>} :
        WriteLines(s, ks, end)
  BY DEF WriteFails
<1>2. ks \in SUBSET Msgs
  BY <1>1 DEF TrackInv, TrackTypeOK, JobStates
<1>3. Idle \in JobStates /\ Idle.step = "idle"
  BY DEF Idle, JobStates, Owners
<1>4. /\ job'[s] = Idle /\ job' \in [Sessions -> JobStates]
      /\ \A t \in Sessions : t # s => job'[t] = job[t]
      /\ UNCHANGED <<serverVars, rows>>
  BY <1>3 DEF WriteFails, TrackInv, TrackTypeOK
<1>5. /\ file' \in [Paths -> Seq(Lumps)]
      /\ \A p \in Paths : \A k : Contains(file[p], k) => Contains(file'[p], k)
  BY <1>1, <1>2, LinesWritten DEF TrackInv
<1>6. TrackTypeOK'
  BY <1>4, <1>5 DEF TrackInv, TrackTypeOK, serverVars
<1>7. ASSUME NEW t \in Sessions PROVE BatchNamed(t)'
  <2>1. CASE t = s
    BY <1>3, <1>4, <2>1 DEF BatchNamed
  <2>2. CASE t # s
    <3>1. PathFor(job[t].user, t) \in Paths
      BY PathIsPath DEF TrackInv, TrackTypeOK, JobStates
    <3>2. QED
      BY <1>4, <1>5, <2>2, <3>1 DEF TrackInv, BatchNamed, serverVars
  <2>3. QED
    BY <2>1, <2>2
<1>8. QED
  BY <1>4, <1>5, <1>6, <1>7, GrowingStep

\* What MarkWritten does to jobs and rows.
LEMMA Marked ==
  ASSUME TrackTypeOK, NEW s \in Sessions, MarkWritten(s)
  PROVE  /\ job[s].step = "wrote" /\ job'[s] = Idle
         /\ \A t \in Sessions : t # s => job'[t] = job[t] /\ rows'[t] = rows[t]
         /\ \A k \in Msgs : IF k \in job[s].batch
                            THEN /\ rows'[s][k].status = "written"
                                 /\ rows'[s][k].path = rows[s][k].path
                            ELSE rows'[s][k] = rows[s][k]
         /\ job' \in [Sessions -> JobStates]
         /\ rows' \in [Sessions -> [Msgs -> Rows]]
         /\ UNCHANGED <<serverVars, file>>
<1>1. job[s].step = "wrote" /\ UNCHANGED <<serverVars, file>>
      /\ job' = [job EXCEPT ![s] = Idle]
  BY DEF MarkWritten
<1>2. Idle \in JobStates
  BY DEF Idle, JobStates, Owners
<1>3. /\ job'[s] = Idle /\ job' \in [Sessions -> JobStates]
      /\ \A t \in Sessions : t # s => job'[t] = job[t]
  BY <1>1, <1>2 DEF TrackTypeOK
<1> DEFINE new == [k \in Msgs |->
                     IF k \in job[s].batch THEN [rows[s][k] EXCEPT !.status = "written"]
                                           ELSE rows[s][k]]
<1>4. rows' = [rows EXCEPT ![s] = new]
  BY DEF MarkWritten
<1>5. ASSUME NEW k \in Msgs
      PROVE  /\ rows[s][k] \in Rows
             /\ [rows[s][k] EXCEPT !.status = "written"] \in Rows
             /\ [rows[s][k] EXCEPT !.status = "written"].status = "written"
             /\ [rows[s][k] EXCEPT !.status = "written"].path = rows[s][k].path
  <2>1. rows[s][k] \in Rows
    BY DEF TrackTypeOK
  <2>2. QED
    BY <2>1 DEF Rows
<1>6. new \in [Msgs -> Rows]
  BY <1>5
<1>7. /\ rows'[s] = new /\ rows' \in [Sessions -> [Msgs -> Rows]]
      /\ \A t \in Sessions : t # s => rows'[t] = rows[t]
  BY <1>4, <1>6 DEF TrackTypeOK
<1>8. \A k \in Msgs : IF k \in job[s].batch
                      THEN /\ rows'[s][k].status = "written"
                           /\ rows'[s][k].path = rows[s][k].path
                      ELSE rows'[s][k] = rows[s][k]
  BY <1>5, <1>7
<1>9. QED
  BY <1>1, <1>3, <1>7, <1>8

LEMMA MarkStep ==
  ASSUME TrackInv, NEW s \in Sessions, MarkWritten(s)
  PROVE  TrackInv'
<1>1. TrackTypeOK'
  BY Marked DEF TrackInv, TrackTypeOK, serverVars
<1>2. \A k \in job[s].batch :
        /\ rows[s][k] = [status |-> "pending", path |-> PathFor(job[s].user, s)]
        /\ Contains(file[rows[s][k].path], k)
  BY Marked DEF TrackInv, BatchNamed
<1>3. RowsNamed'
  <2>1. ASSUME NEW t \in Sessions, NEW k \in Msgs, rows'[t][k].status # "absent"
        PROVE  rows'[t][k].path \in Paths
    <3>1. CASE t = s /\ k \in job[s].batch
      <4>1. rows[s][k].status = "pending"
        BY <1>2, <3>1
      <4>2. QED
        BY <3>1, <4>1, <2>1, Marked DEF TrackInv, RowsNamed
    <3>2. CASE ~(t = s /\ k \in job[s].batch)
      BY <2>1, <3>2, Marked DEF TrackInv, RowsNamed
    <3>3. QED
      BY <3>1, <3>2
  <2>2. QED
    BY <2>1 DEF RowsNamed
<1>4. ASSUME NEW t \in Sessions PROVE BatchNamed(t)'
  <2>1. Idle.step = "idle"
    BY DEF Idle
  <2>2. CASE t = s
    BY <2>1, <2>2, Marked DEF TrackInv, BatchNamed
  <2>3. CASE t # s
    <3>1. job'[t] = job[t] /\ rows'[t] = rows[t] /\ UNCHANGED <<total, file>>
      BY <2>3, Marked DEF TrackInv, serverVars
    <3>2. QED
      BY <3>1 DEF TrackInv, BatchNamed
  <2>4. QED
    BY <2>2, <2>3
<1>5. RowNamesItsFile'
  <2>1. ASSUME NEW t \in Sessions, NEW k \in Msgs, rows'[t][k].status = "written"
        PROVE  Contains(file'[rows'[t][k].path], k)
    <3>1. CASE t = s /\ k \in job[s].batch
      BY <1>2, <3>1, Marked DEF TrackInv
    <3>2. CASE ~(t = s /\ k \in job[s].batch)
      BY <2>1, <3>2, Marked DEF TrackInv, RowNamesItsFile
    <3>3. QED
      BY <3>1, <3>2
  <2>2. QED
    BY <2>1 DEF RowNamesItsFile
<1>6. QED
  BY <1>1, <1>3, <1>4, <1>5 DEF TrackInv

LEMMA TrackPreserved == TrackInv /\ [Next]_vars => TrackInv'
<1> SUFFICES ASSUME TrackInv, [Next]_vars PROVE TrackInv'
  OBVIOUS
<1>1. CASE Watcher
  BY <1>1, ReadingStep, PrepareStep, WriteStep, WriteFailsStep, MarkStep DEF Watcher
<1>2. CASE Server
  BY <1>2, ServerStep
<1>3. CASE UNCHANGED trackVars
  BY <1>3 DEF trackVars, serverVars, TrackInv, TrackTypeOK, RowsNamed, BatchNamed,
              RowNamesItsFile
<1>4. Script => UNCHANGED trackVars
  BY DEF Script, ListForCheck, FindFile, Probe, AskMessages, Compare, Finish,
         ReturnStatus
<1>5. QED
  BY <1>1, <1>2, <1>3, <1>4 DEF Next, vars

LEMMA TrackInvariant == Spec => []TrackInv
<1>1. Init => TrackInv
  BY TrackInitially
<1>2. QED
  BY <1>1, TrackPreserved, PTL DEF Spec

\* The output path of a written row is true, whatever was retried under which
\* path and whoever changed a user in between.
THEOREM RowsNameTheirFiles == Spec => []RowNamesItsFile
<1>1. TrackInv => RowNamesItsFile
  BY DEF TrackInv
<1>2. QED
  BY <1>1, TrackInvariant, PTL

-----------------------------------------------------------------------------
(***************************************************************************)
(* The script: what status 0 stands for.                                   *)
(***************************************************************************)
\* The world the script looks at only grows, and it grows without the script.
LEMMA WorldGrows ==
  ASSUME TrackInv, [Next]_vars
  PROVE  /\ \A p \in Paths : \A k : Readable(file[p], k) => Readable(file'[p], k)
         /\ \A s \in Sessions : total[s] <= total'[s]
         /\ Script => UNCHANGED trackVars
         /\ ~Script => UNCHANGED scriptVars
<1>1. Script => UNCHANGED trackVars
  BY DEF Script, ListForCheck, FindFile, Probe, AskMessages, Compare, Finish,
         ReturnStatus
<1>2. ~Script => UNCHANGED scriptVars
  BY DEF Next, vars
<1>3. \A s \in Sessions : total[s] \in 0 .. MaxMsgs
  BY DEF TrackInv, TrackTypeOK
<1>4. CASE UNCHANGED trackVars
  <2>1. file' = file /\ total' = total
    BY <1>4 DEF trackVars, serverVars
  <2>2. QED
    BY <1>1, <1>2, <1>3, <2>1, OutputAssumption
<1>5. CASE Server
  <2>1. PICK s \in Sessions : NewMessage(s) \/ ChangeUser(s)
    BY <1>5 DEF Server
  <2>2. file' = file /\ (total' = total \/ total' = [total EXCEPT ![s] = @ + 1])
    BY <2>1 DEF NewMessage, ChangeUser
  <2>3. ASSUME NEW t \in Sessions PROVE total[t] <= total'[t]
    <3>1. total'[t] = total[t] \/ total'[t] = total[t] + 1
      BY <2>2 DEF TrackInv, TrackTypeOK
    <3>2. total[t] \in Nat
      BY <1>3, OutputAssumption
    <3>3. QED
      BY <3>1, <3>2
  <2>4. QED
    BY <1>1, <1>2, <2>2, <2>3
<1>6. CASE Watcher
  <2>1. total' = total
    BY <1>6 DEF Watcher, ListSessions, GetSession, Prepare, Write, WriteFails,
                MarkWritten, CallFails, serverVars
  <2>2. CASE file' = file
    BY <1>1, <1>2, <1>3, <2>1, <2>2, OutputAssumption
  <2>3. CASE file' # file
    <3>1. PICK s \in Sessions : Write(s) \/ WriteFails(s)
      BY <1>6, <2>3 DEF Watcher, ListSessions, GetSession, Prepare, MarkWritten,
                        CallFails
    <3>2. PICK ks \in SUBSET job[s].batch, end \in {<< >>, <<Torn>>} :
            WriteLines(s, ks, end)
      BY <3>1 DEF Write, WriteFails
    <3>3. ks \in SUBSET Msgs
      BY <3>2 DEF TrackInv, TrackTypeOK, JobStates
    <3>4. \A p \in Paths : \A k : Readable(file[p], k) => Readable(file'[p], k)
      BY <3>2, <3>3, LinesWritten DEF TrackInv
    <3>5. QED
      BY <1>1, <1>2, <1>3, <2>1, <3>4, OutputAssumption
  <2>4. QED
    BY <2>2, <2>3
<1>7. QED
  BY <1>1, <1>4, <1>5, <1>6 DEF Next, vars

\* What was exported stays so, as long as the script does not begin again.
LEMMA ExportedStays ==
  ASSUME TrackInv, [Next]_vars, known' = known, NEW s \in Sessions, Exported(s)
  PROVE  Exported(s)'
<1>1. ASSUME NEW k \in 1 .. known[s]
      PROVE  \E u \in Owners : Readable(file'[PathFor(u, s)], k)
  <2>1. PICK u \in Owners : Readable(file[PathFor(u, s)], k)
    BY <1>1 DEF Exported
  <2>2. QED
    BY <2>1, PathIsPath, WorldGrows
<1>2. QED
  BY <1>1 DEF Exported

\* The watcher and the server go on without the script.
LEMMA OthersStep ==
  ASSUME ScriptInv, [Next]_vars, ~Script
  PROVE  ScriptTypeOK' /\ ScriptKnows'
<1>1. UNCHANGED scriptVars
  BY WorldGrows DEF ScriptInv
<1>2. ScriptTypeOK'
  BY <1>1 DEF ScriptInv, ScriptTypeOK, scriptVars
<1>3. \A s \in Sessions : known'[s] <= total'[s] /\ total[s] <= total'[s]
  <2>1. TAKE s \in Sessions
  <2>2. known[s] \in Nat /\ total[s] \in Nat /\ total'[s] \in Nat
    BY TrackPreserved, OutputAssumption
       DEF ScriptInv, ScriptTypeOK, TrackInv, TrackTypeOK
  <2>3. known[s] <= total[s] /\ total[s] <= total'[s]
    BY WorldGrows DEF ScriptInv, ScriptKnows
  <2>4. QED
    BY <1>1, <2>2, <2>3 DEF scriptVars
<1>4. at = "compare" => api \subseteq 1 .. total'[current]
  <2>1. SUFFICES ASSUME at = "compare" PROVE api \subseteq 1 .. total'[current]
    OBVIOUS
  <2>2. current \in Sessions /\ api \subseteq 1 .. total[current]
    BY <2>1 DEF ScriptInv, ScriptTypeOK, ScriptKnows, Verifying
  <2>3. total[current] \in Nat /\ total'[current] \in Nat
    BY <2>2, TrackPreserved, OutputAssumption DEF ScriptInv, TrackInv, TrackTypeOK
  <2>4. QED
    BY <1>3, <2>2, <2>3
<1>5. at # "start" /\ code \in {Running, 0} => \A s \in Sessions \ left : Exported(s)'
  BY <1>1, ExportedStays DEF ScriptInv, ScriptKnows, scriptVars
<1>6. QED
  BY <1>1, <1>2, <1>3, <1>4, <1>5 DEF ScriptInv, ScriptKnows, scriptVars

LEMMA ListStep ==
  ASSUME ScriptInv, ListForCheck
  PROVE  ScriptTypeOK' /\ ScriptKnows'
<1>1. /\ at = "start" /\ at' = "next" /\ listing' = listed /\ left' = Sessions
      /\ known' = total /\ exported' = AllWritten /\ code' = code /\ total' = total
  BY DEF ListForCheck, trackVars, serverVars
<1>2. AllWritten \in BOOLEAN
  BY DEF AllWritten
<1>3. ScriptTypeOK'
  BY <1>1, <1>2 DEF ScriptInv, ScriptTypeOK, TrackInv, TrackTypeOK, Verifying
<1>4. \A s \in Sessions : known'[s] <= total'[s]
  BY <1>1, OutputAssumption DEF ScriptInv, TrackInv, TrackTypeOK
<1>5. code = Running /\ Running # 0
  BY <1>1 DEF ScriptInv, ScriptKnows, Running
<1>6. QED
  BY <1>1, <1>3, <1>4, <1>5 DEF ScriptKnows

\* The steps that look something up.
LEMMA LookStep ==
  ASSUME ScriptInv, AskMessages \/ \E s \in Sessions : FindFile(s)
  PROVE  ScriptTypeOK' /\ ScriptKnows'
<1>1. UNCHANGED <<trackVars, listing, left, code, known, exported>>
  BY DEF AskMessages, FindFile
<1>2. \A s \in Sessions : Exported(s) <=> Exported(s)'
  BY <1>1 DEF Exported, trackVars
<1>3. CASE AskMessages
  <2>1. at = "messages" /\ at' = "compare" /\ api' = 1 .. total[current]
        /\ current' = current
    BY <1>3 DEF AskMessages
  <2>2. current \in Sessions
    BY <2>1 DEF ScriptInv, ScriptTypeOK, Verifying
  <2>3. known[current] \in Nat /\ total[current] \in Nat
        /\ known[current] <= total[current]
    BY <2>2, OutputAssumption
       DEF ScriptInv, ScriptTypeOK, ScriptKnows, TrackInv, TrackTypeOK
  <2>4. 1 .. known[current] \subseteq 1 .. total[current]
    BY <2>3
  <2>5. ScriptTypeOK'
    BY <1>1, <2>1, <2>2 DEF ScriptInv, ScriptTypeOK, Verifying
  <2>6. QED
    BY <1>1, <1>2, <2>1, <2>4, <2>5 DEF ScriptInv, ScriptKnows, trackVars, serverVars
<1>4. ASSUME NEW s \in Sessions, FindFile(s) PROVE ScriptTypeOK' /\ ScriptKnows'
  <2>1. at = "next" /\ at' \in {"probe", "messages"} /\ current' = s
    BY <1>4 DEF FindFile
  <2>2. ScriptTypeOK'
    BY <1>1, <2>1 DEF ScriptInv, ScriptTypeOK, Verifying
  <2>3. QED
    BY <1>1, <1>2, <2>1, <2>2 DEF ScriptInv, ScriptKnows, trackVars, serverVars
<1>5. QED
  BY <1>3, <1>4

\* A file that parses is readable to its end.
LEMMA ParsedIsReadable ==
  ASSUME NEW f \in Seq(Lumps), ~Contains(f, Torn), NEW k, Contains(f, k)
  PROVE  Readable(f, k)
<1>1. DOMAIN f = 1 .. Len(f) /\ Len(f) \in Nat
  OBVIOUS
<1>2. PICK i \in 1 .. Len(f) : f[i] = k
  BY DEF Contains
<1>3. \A j \in 1 .. i - 1 : f[j] # Torn
  BY <1>1, <1>2 DEF Contains
<1>4. QED
  BY <1>1, <1>2, <1>3 DEF Readable

\* A comparison that succeeds finds all the messages of its session.
LEMMA MatchesExports ==
  ASSUME ScriptInv, at = "compare", Parses, Matches
  PROVE  Exported(current)
<1>1. current \in Sessions /\ 1 .. known[current] \subseteq api
  BY DEF ScriptInv, ScriptTypeOK, ScriptKnows, Verifying
<1>2. firstNonEmpty(listing[current]) \in Owners
  BY <1>1, OwnerOf DEF ScriptInv, ScriptTypeOK
<1> DEFINE here == PathFor(firstNonEmpty(listing[current]), current)
<1>3. Lines = file[here] /\ file[here] \in Seq(Lumps)
  BY <1>1, <1>2, PathIsPath
     DEF Lines, jsonl_path, ScriptInv, TrackInv, TrackTypeOK
<1>4. \A k \in 1 .. known[current] : Contains(file[here], k)
  BY <1>1, <1>3 DEF Matches
<1>5. \A k \in 1 .. known[current] : Readable(file[here], k)
  BY <1>3, <1>4, ParsedIsReadable DEF Parses
<1>6. QED
  BY <1>2, <1>5 DEF Exported

\* verify_session returns, with 0 only for a session that is exported.
LEMMA ReturnStep ==
  ASSUME ScriptInv, at \in Verifying, NEW status \in {0, 1, 2}, ReturnStatus(status),
         status = 0 => Exported(current)
  PROVE  ScriptTypeOK' /\ ScriptKnows'
<1>1. /\ UNCHANGED <<trackVars, listing, known, exported>>
      /\ left' = left \ {current}
      /\ IF status = 0 THEN at' = "next" /\ code' = code
                       ELSE at' = "done" /\ code' = status
  BY DEF ReturnStatus
<1>2. code = Running /\ Running # 0 /\ Running # 1 /\ Running # 2
  BY DEF ScriptInv, ScriptKnows, Running, Verifying
<1>3. ScriptTypeOK'
  BY <1>1 DEF ScriptInv, ScriptTypeOK, Verifying
<1>4. \A s \in Sessions : Exported(s) <=> Exported(s)'
  BY <1>1 DEF Exported, trackVars
<1>5. \A s \in Sessions : known'[s] <= total'[s]
  BY <1>1 DEF ScriptInv, ScriptKnows, trackVars, serverVars
<1>6. CASE status = 0
  <2>1. \A s \in Sessions \ left' : Exported(s)
    BY <1>1, <1>2, <1>6 DEF ScriptInv, ScriptKnows, Verifying
  <2>2. QED
    BY <1>1, <1>2, <1>3, <1>4, <1>5, <1>6, <2>1 DEF ScriptKnows
<1>7. CASE status # 0
  BY <1>1, <1>2, <1>3, <1>5, <1>7 DEF ScriptKnows
<1>8. QED
  BY <1>6, <1>7

LEMMA ScriptPreserved == ScriptInv /\ [Next]_vars => ScriptInv'
<1> SUFFICES ASSUME ScriptInv, [Next]_vars PROVE ScriptTypeOK' /\ ScriptKnows'
  BY TrackPreserved DEF ScriptInv
<1>1. CASE ~Script
  BY <1>1, OthersStep
<1>2. CASE ListForCheck
  BY <1>2, ListStep
<1>3. CASE AskMessages \/ \E s \in Sessions : FindFile(s)
  BY <1>3, LookStep
<1>4. CASE Probe
  <2>1. PICK status \in {1, 2} : ReturnStatus(status)
    BY <1>4 DEF Probe
  <2>2. QED
    BY <1>4, <2>1, ReturnStep DEF Probe, Verifying
<1>5. CASE Compare
  <2>1. PICK status \in {0, 1} :
          ReturnStatus(status) /\ (status = 0 => Parses /\ Matches)
    BY <1>5 DEF Compare
  <2>2. status = 0 => Exported(current)
    BY <1>5, <2>1, MatchesExports DEF Compare
  <2>3. QED
    BY <1>5, <2>1, <2>2, ReturnStep DEF Compare, Verifying
<1>6. CASE Finish
  <2>1. /\ at = "next" /\ left = {} /\ at' = "done" /\ code' = 0
        /\ UNCHANGED <<trackVars, listing, left, current, api, known, exported>>
    BY <1>6 DEF Finish
  <2>2. ScriptTypeOK'
    BY <2>1 DEF ScriptInv, ScriptTypeOK, Verifying
  <2>3. \A s \in Sessions : Exported(s) <=> Exported(s)'
    BY <2>1 DEF Exported, trackVars
  <2>4. Running # 0 /\ code = Running
    BY <2>1 DEF ScriptInv, ScriptKnows, Running
  <2>5. QED
    BY <2>1, <2>2, <2>3, <2>4 DEF ScriptInv, ScriptKnows, trackVars, serverVars
<1>7. QED
  BY <1>1, <1>2, <1>3, <1>4, <1>5, <1>6 DEF Script

LEMMA ScriptInitially == Init => ScriptInv
<1> SUFFICES ASSUME Init PROVE ScriptInv
  OBVIOUS
<1>1. TrackInv
  BY TrackInitially
<1>2. ScriptTypeOK
  BY <1>1 DEF Init, ScriptTypeOK, Verifying, TrackInv, TrackTypeOK
<1>3. ScriptKnows
  BY <1>1, OutputAssumption DEF Init, ScriptKnows, Running, TrackInv, TrackTypeOK
<1>4. QED
  BY <1>1, <1>2, <1>3 DEF ScriptInv

LEMMA ScriptInvariant == Spec => []ScriptInv
BY ScriptInitially, ScriptPreserved, PTL DEF Spec

\* Status 0 vouches for every message that existed when the script began.
THEOREM ZeroAlwaysMeansExported == Spec => []ZeroMeansExported
<1>1. ScriptInv => ZeroMeansExported
  BY DEF ScriptInv, ScriptKnows, Running, Exported, ZeroMeansExported
<1>2. QED
  BY <1>1, ScriptInvariant, PTL

-----------------------------------------------------------------------------
(***************************************************************************)
(* The script: its verdict on a finished export.                           *)
(***************************************************************************)
\* Who is calm now was calm before, and nobody's user has changed.
LEMMA CalmBefore ==
  ASSUME TrackInv, [Next]_vars, Calm'
  PROVE  Calm /\ UNCHANGED <<listed, detail>>
<1>1. CASE Server
  <2>1. PICK s \in Sessions : NewMessage(s) \/ ChangeUser(s)
    BY <1>1 DEF Server
  <2>2. changes \in Nat /\ changes' = 0
    BY DEF TrackInv, TrackTypeOK, Calm
  <2>3. NewMessage(s)
    BY <2>1, <2>2 DEF ChangeUser
  <2>4. QED
    BY <2>3 DEF NewMessage, Calm
<1>2. CASE Watcher
  <2>1. UNCHANGED serverVars
    BY <1>2 DEF Watcher, ListSessions, GetSession, Prepare, Write, WriteFails,
                MarkWritten, CallFails
  <2>2. QED
    BY <2>1 DEF serverVars, Calm
<1>3. CASE UNCHANGED trackVars
  BY <1>3 DEF trackVars, serverVars, Calm
<1>4. QED
  BY <1>1, <1>2, <1>3, WorldGrows DEF Next, vars

\* The users are those of the answers, which are the same.
LEMMA SameUsers ==
  ASSUME UNCHANGED <<listed, detail>>, NEW s \in Sessions
  PROVE  UserOf(s)' = UserOf(s) /\ ListedUser(s)' = ListedUser(s)
BY DEF UserOf, ListedUser, firstNonEmpty, mergeSessionMetadata

\* A session whose rows, jobs and files stand still stays calm.
LEMMA CalmFramed ==
  ASSUME NEW s \in Sessions, CalmSession(s), UNCHANGED <<listed, detail>>,
         rows'[s] = rows[s], job'[s] = job[s], UserOf(s) \in Owners,
         \A u \in Owners : file'[PathFor(u, s)] = file[PathFor(u, s)]
  PROVE  CalmSession(s)'
<1>1. UserOf(s)' = UserOf(s) /\ ListedUser(s)' = ListedUser(s)
  BY SameUsers
<1>2. file'[PathFor(UserOf(s), s)] = file[PathFor(UserOf(s), s)]
  OBVIOUS
<1>3. QED
  BY <1>1, <1>2 DEF CalmSession, InOrder

\* Writing the first records of a batch to the file of a calm session.
LEMMA CalmLines ==
  ASSUME TrackInv, NEW s \in Sessions, CalmSession(s), job[s].step = "prepared",
         NEW ks \in SUBSET job[s].batch, NEW end \in {<< >>, <<Torn>>},
         \A k \in ks, m \in job[s].batch \ ks : k < m,
         WriteLines(s, ks, end)
  PROVE  /\ InOrder(file'[PathFor(UserOf(s), s)])
         /\ \A t \in Sessions, u \in Owners :
              t # s \/ u # UserOf(s) => file'[PathFor(u, t)] = file[PathFor(u, t)]
<1>1. PICK q \in OldestFirst(ks) :
        file' = [file EXCEPT ![PathFor(job[s].user, s)] = @ \o q \o end]
  BY DEF WriteLines
<1>2. ks \in SUBSET Msgs /\ job[s].batch \in SUBSET Msgs /\ job[s].user \in Owners
  BY DEF TrackInv, TrackTypeOK, JobStates
<1>3. job[s].user = UserOf(s)
  BY DEF CalmSession
<1> DEFINE here == PathFor(UserOf(s), s)
<1>4. here \in Paths /\ file[here] \in Seq(Lumps)
  BY <1>2, <1>3, PathIsPath DEF TrackInv, TrackTypeOK
<1>5. file'[here] = file[here] \o q \o end
  BY <1>1, <1>3, <1>4 DEF TrackInv, TrackTypeOK
<1>6. /\ q \in Seq(Lumps)
      /\ \A i \in 1 .. Len(q) : q[i] \in ks
      /\ \A k \in ks : Contains(q, k)
      /\ \A i, j \in 1 .. Len(q) : i < j => q[i] < q[j]
  BY <1>1, <1>2, OldestFirstIs
<1>7. ASSUME NEW j \in 1 .. Len(q), NEW k \in Msgs, k < q[j]
      PROVE  Contains(file[here], k) \/ Contains(q, k)
  <2>1. q[j] \in ks /\ q[j] \in Msgs
    BY <1>2, <1>6
  <2>2. k \in job[s].batch \/ rows[s][k].status = "written"
    BY <1>7, <2>1 DEF CalmSession
  <2>3. CASE rows[s][k].status = "written"
    <3>1. rows[s][k].path = here
      BY <2>3 DEF CalmSession
    <3>2. QED
      BY <2>3, <3>1 DEF TrackInv, RowNamesItsFile
  <2>4. CASE k \in job[s].batch
    <3>1. k \in ks
      <4>1. CASE k \notin ks
        <5>1. q[j] < k
          BY <2>1, <2>4, <4>1
        <5>2. QED
          BY <1>7, <2>1, <5>1, OutputAssumption DEF Msgs
      <4>2. QED
        BY <4>1
    <3>2. QED
      BY <1>6, <3>1
  <2>5. QED
    BY <2>2, <2>3, <2>4
<1>8. InOrder(file[here])
  BY DEF CalmSession
<1>9. InOrder(file[here] \o q)
  BY <1>4, <1>6, <1>7, <1>8, AppendInOrder
<1>10. file[here] \o q \in Seq(Lumps)
  BY <1>4, <1>6
<1>11. InOrder(file[here] \o q \o end)
  BY <1>9, <1>10, TearInOrder
<1>12. ASSUME NEW t \in Sessions, NEW u \in Owners, t # s \/ u # UserOf(s)
       PROVE  file'[PathFor(u, t)] = file[PathFor(u, t)]
  <2>1. PathFor(u, t) # PathFor(job[s].user, s)
    BY <1>3, <1>12 DEF PathFor
  <2>2. PathFor(u, t) \in Paths
    BY PathIsPath
  <2>3. QED
    BY <1>1, <2>1, <2>2 DEF TrackInv, TrackTypeOK
<1>13. QED
  BY <1>5, <1>11, <1>12

\* The users of a session are owners.
LEMMA UserIsOwner ==
  ASSUME TrackInv, NEW s \in Sessions
  PROVE  /\ ListedUser(s) \in Owners /\ UserOf(s) \in Owners
         /\ PathFor(UserOf(s), s) \in Paths
<1>1. firstNonEmpty(detail[s]) \in Owners /\ ListedUser(s) \in Owners
  BY OwnerOf DEF TrackInv, TrackTypeOK, ListedUser
<1>2. UserOf(s) \in Owners
  BY <1>1 DEF UserOf, mergeSessionMetadata
<1>3. QED
  BY <1>1, <1>2, PathIsPath

LEMMA CalmWatcher ==
  ASSUME TrackInv, Calm, \A s \in Sessions : CalmSession(s), Watcher,
         UNCHANGED <<listed, detail>>
  PROVE  \A s \in Sessions : CalmSession(s)'
<1>0. TrackTypeOK
  BY DEF TrackInv
<1>1. \A s \in Sessions : UserOf(s)' = UserOf(s) /\ ListedUser(s)' = ListedUser(s)
  BY SameUsers
<1>u. \A s \in Sessions : UserOf(s) \in Owners
  BY UserIsOwner
<1>2. Idle.step = "idle"
  BY DEF Idle
<1>3. CASE ListSessions
  <2>1. UNCHANGED <<rows, file>>
    BY <1>3 DEF ListSessions
  <2>2. ASSUME NEW s \in Sessions
        PROVE  /\ job'[s].step \in {"idle", "listed"}
               /\ job'[s].step = "listed" => job'[s].user = ListedUser(s)
    <3>1. \/ job'[s] = [Idle EXCEPT !.step = "listed", !.user = ListedUser(s)]
          \/ job'[s] = Idle
      BY <1>3 DEF ListSessions, ListedUser
    <3>2. CASE job'[s] = Idle
      BY <3>2, <1>2
    <3>3. CASE job'[s] = [Idle EXCEPT !.step = "listed", !.user = ListedUser(s)]
      <4>1. PICK u : u = ListedUser(s)
        OBVIOUS
      <4>2. job'[s] = [Idle EXCEPT !.step = "listed", !.user = u]
        BY <3>3, <4>1
      <4>3. job'[s].step = "listed" /\ job'[s].user = u
        BY <4>2 DEF Idle
      <4>4. QED
        BY <4>1, <4>3
    <3>4. QED
      BY <3>1, <3>2, <3>3
  <2>3. QED
    BY <1>1, <2>1, <2>2 DEF CalmSession
<1>4. ASSUME NEW s \in Sessions, GetSession(s)
      PROVE  \A t \in Sessions : CalmSession(t)'
  <2>1. UNCHANGED <<rows, file>> /\ job[s].step = "listed"
    BY <1>4 DEF GetSession
  <2>2. /\ job'[s].step = "got"
        /\ job'[s].user = mergeSessionMetadata(firstNonEmpty(detail[s]), job[s].user)
        /\ \A t \in Sessions : t # s => job'[t] = job[t]
    BY <1>0, <1>4 DEF GetSession, TrackTypeOK, JobStates
  <2>3. job[s].user = ListedUser(s)
    BY <2>1 DEF CalmSession
  <2>4. job'[s].user = UserOf(s)
    BY <2>2, <2>3 DEF UserOf
  <2>5. CalmSession(s)'
    BY <1>1, <2>1, <2>2, <2>4 DEF CalmSession
  <2>6. \A t \in Sessions : t # s => CalmSession(t)'
    BY <2>1, <2>2, <1>u, CalmFramed
  <2>7. QED
    BY <2>5, <2>6
<1>5. ASSUME NEW s \in Sessions, Prepare(s)
      PROVE  \A t \in Sessions : CalmSession(t)'
  <2>1. /\ job[s].step = "got" /\ job'[s].step = "prepared" /\ file' = file
        /\ job'[s].user = job[s].user /\ job'[s].batch = Unseen(s)
        /\ \A t \in Sessions : t # s => job'[t] = job[t] /\ rows'[t] = rows[t]
        /\ \A k \in Msgs : rows'[s][k] = IF k \in Unseen(s)
                THEN [status |-> "pending", path |-> PathFor(job[s].user, s)]
                ELSE rows[s][k]
    BY <1>0, <1>5, Prepared
  <2>2. job[s].user = UserOf(s)
    BY <2>1 DEF CalmSession
  <2>3. \A k \in Msgs : rows'[s][k].status # "absent" =>
                          rows'[s][k].path = PathFor(UserOf(s), s)
    BY <2>1, <2>2 DEF CalmSession
  <2>4. ASSUME NEW m \in Unseen(s), NEW k \in Msgs, k < m
        PROVE  k \in Unseen(s) \/ rows'[s][k].status = "written"
    <3>1. total[s] \in Nat /\ m \in 1 .. total[s]
      BY <1>0, OutputAssumption DEF TrackTypeOK, Unseen
    <3>2. k \in 1 .. total[s]
      BY <2>4, <3>1, OutputAssumption DEF Msgs
    <3>3. QED
      BY <2>1, <3>2 DEF Unseen
  <2>5. CalmSession(s)'
    BY <1>1, <2>1, <2>2, <2>3, <2>4 DEF CalmSession
  <2>6. \A t \in Sessions : t # s => CalmSession(t)'
    BY <2>1, <1>u, CalmFramed
  <2>7. QED
    BY <2>5, <2>6
<1>6. ASSUME NEW s \in Sessions, NEW ks \in SUBSET job[s].batch,
             NEW end \in {<< >>, <<Torn>>},
             \A k \in ks, m \in job[s].batch \ ks : k < m,
             job[s].step = "prepared", WriteLines(s, ks, end), rows' = rows,
             job'[s] = Idle \/ (/\ job'[s].step = "wrote"
                                /\ job'[s].user = job[s].user),
             \A t \in Sessions : t # s => job'[t] = job[t]
      PROVE  \A t \in Sessions : CalmSession(t)'
  <2>1. /\ InOrder(file'[PathFor(UserOf(s), s)])
        /\ \A t \in Sessions, u \in Owners :
             t # s \/ u # UserOf(s) => file'[PathFor(u, t)] = file[PathFor(u, t)]
    BY <1>6, CalmLines
  <2>2. CalmSession(s)'
    <3>1. job'[s].step \in {"idle", "wrote"}
          /\ (job'[s].step = "wrote" => job'[s].user = UserOf(s))
      BY <1>2, <1>6 DEF CalmSession
    <3>2. \A u \in Owners : u # UserOf(s) => file'[PathFor(u, s)] = << >>
      BY <2>1 DEF CalmSession
    <3>3. \A k \in Msgs : rows'[s][k].status # "absent" =>
                            rows'[s][k].path = PathFor(UserOf(s), s)
      BY <1>6 DEF CalmSession
    <3>4. QED
      BY <1>1, <2>1, <3>1, <3>2, <3>3 DEF CalmSession, InOrder
  <2>3. ASSUME NEW t \in Sessions, t # s PROVE CalmSession(t)'
    BY <1>6, <2>1, <2>3, <1>u, CalmFramed
  <2>4. QED
    BY <2>2, <2>3
<1>7. ASSUME NEW s \in Sessions, Write(s)
      PROVE  \A t \in Sessions : CalmSession(t)'
  <2>1. /\ job[s].step = "prepared" /\ rows' = rows
        /\ WriteLines(s, job[s].batch, << >>)
        /\ job' = [job EXCEPT ![s].step = "wrote"]
    BY <1>7 DEF Write
  <2>2. /\ job'[s].step = "wrote" /\ job'[s].user = job[s].user
        /\ \A t \in Sessions : t # s => job'[t] = job[t]
    BY <1>0, <2>1 DEF TrackTypeOK, JobStates
  <2>3. QED
    BY <1>6, <2>1, <2>2
<1>8. ASSUME NEW s \in Sessions, WriteFails(s)
      PROVE  \A t \in Sessions : CalmSession(t)'
  <2>1. /\ job[s].step = "prepared" /\ rows' = rows /\ job' = [job EXCEPT ![s] = Idle]
    BY <1>8 DEF WriteFails
  <2>2. PICK ks \in SUBSET job[s].batch, end \in {<< >>, <<Torn>>} :
          (\A k \in ks, m \in job[s].batch \ ks : k < m) /\ WriteLines(s, ks, end)
    BY <1>8 DEF WriteFails
  <2>3. job'[s] = Idle /\ \A t \in Sessions : t # s => job'[t] = job[t]
    BY <1>0, <2>1 DEF TrackTypeOK
  <2>4. QED
    BY <1>6, <2>1, <2>2, <2>3
<1>9. ASSUME NEW s \in Sessions, MarkWritten(s)
      PROVE  \A t \in Sessions : CalmSession(t)'
  <2>1. /\ job[s].step = "wrote" /\ job'[s] = Idle /\ file' = file
        /\ \A t \in Sessions : t # s => job'[t] = job[t] /\ rows'[t] = rows[t]
        /\ \A k \in Msgs : IF k \in job[s].batch
                           THEN /\ rows'[s][k].status = "written"
                                /\ rows'[s][k].path = rows[s][k].path
                           ELSE rows'[s][k] = rows[s][k]
    BY <1>0, <1>9, Marked
  <2>2. ASSUME NEW k \in job[s].batch PROVE rows[s][k].status # "absent"
    <3>1. rows[s][k] = [status |-> "pending", path |-> PathFor(job[s].user, s)]
      BY <2>1 DEF TrackInv, BatchNamed
    <3>2. QED
      BY <3>1
  <2>3. \A k \in Msgs : rows'[s][k].status # "absent" =>
                          rows'[s][k].path = PathFor(UserOf(s), s)
    BY <2>1, <2>2 DEF CalmSession
  <2>4. CalmSession(s)'
    BY <1>1, <1>2, <2>1, <2>3 DEF CalmSession
  <2>5. \A t \in Sessions : t # s => CalmSession(t)'
    BY <2>1, <1>u, CalmFramed
  <2>6. QED
    BY <2>4, <2>5
<1>10. ASSUME NEW s \in Sessions, CallFails(s)
       PROVE  \A t \in Sessions : CalmSession(t)'
  <2>1. UNCHANGED <<rows, file>> /\ job' = [job EXCEPT ![s] = Idle]
    BY <1>10 DEF CallFails
  <2>2. job'[s] = Idle /\ \A t \in Sessions : t # s => job'[t] = job[t]
    BY <1>0, <2>1 DEF TrackTypeOK
  <2>3. CalmSession(s)'
    BY <1>1, <1>2, <2>1, <2>2 DEF CalmSession
  <2>4. \A t \in Sessions : t # s => CalmSession(t)'
    BY <2>1, <2>2, <1>u, CalmFramed
  <2>5. QED
    BY <2>3, <2>4
<1>11. QED
  BY <1>3, <1>4, <1>5, <1>7, <1>8, <1>9, <1>10 DEF Watcher

LEMMA CalmPreserved ==
  ASSUME TrackInv, CalmInv, [Next]_vars
  PROVE  CalmInv'
<1> SUFFICES ASSUME Calm' PROVE listing' = listed' /\ \A s \in Sessions : CalmSession(s)'
  BY DEF CalmInv
<1>1. Calm /\ UNCHANGED <<listed, detail>>
  BY CalmBefore
<1>2. listing = listed /\ \A s \in Sessions : CalmSession(s)
  BY <1>1 DEF CalmInv
<1>3. listing' = listed'
  <2>1. CASE Script
    BY <1>1, <1>2, <2>1 DEF Script, ListForCheck, FindFile, Probe, AskMessages,
                            Compare, Finish, ReturnStatus
  <2>2. CASE ~Script
    BY <1>1, <1>2, <2>2, WorldGrows DEF scriptVars
  <2>3. QED
    BY <2>1, <2>2
<1>4. CASE Watcher
  BY <1>1, <1>2, <1>3, <1>4, CalmWatcher
<1>5. CASE UNCHANGED <<rows, file, job>>
  BY <1>1, <1>2, <1>3, <1>5, UserIsOwner, CalmFramed
<1>6. Server => UNCHANGED <<rows, file, job>>
  BY DEF Server, NewMessage, ChangeUser
<1>7. UNCHANGED trackVars => UNCHANGED <<rows, file, job>>
  BY DEF trackVars
<1>8. QED
  BY <1>4, <1>5, <1>6, <1>7, WorldGrows DEF Next, vars

\* A message that is written stays written.
LEMMA WrittenStays ==
  ASSUME TrackInv, [Next]_vars, NEW s \in Sessions, NEW k \in Msgs,
         rows[s][k].status = "written"
  PROVE  rows'[s][k].status = "written"
<1>1. TrackTypeOK
  BY DEF TrackInv
<1>2. CASE rows' = rows
  BY <1>2
<1>3. ASSUME NEW t \in Sessions, Prepare(t) PROVE rows'[s][k].status = "written"
  <2>1. k \notin Unseen(s)
    BY DEF Unseen
  <2>2. rows'[s][k] = rows[s][k]
    BY <1>1, <1>3, <2>1, Prepared
  <2>3. QED
    BY <2>2
<1>4. ASSUME NEW t \in Sessions, MarkWritten(t) PROVE rows'[s][k].status = "written"
  <2>1. rows'[s][k] = rows[s][k] \/ rows'[s][k].status = "written"
    BY <1>1, <1>4, Marked
  <2>2. QED
    BY <2>1
<1>5. Watcher => rows' = rows \/ \E t \in Sessions : Prepare(t) \/ MarkWritten(t)
  BY DEF Watcher, ListSessions, GetSession, Write, WriteFails, CallFails
<1>6. Server \/ UNCHANGED trackVars => rows' = rows
  BY DEF Server, NewMessage, ChangeUser, trackVars
<1>7. QED
  BY <1>2, <1>3, <1>4, <1>5, <1>6, WorldGrows DEF Next, vars

LEMMA ExportPreserved ==
  ASSUME ScriptInv, ExportStays, [Next]_vars
  PROVE  ExportStays'
<1> SUFFICES ASSUME exported', NEW s \in Sessions, NEW k \in Msgs, k <= known'[s]
             PROVE  rows'[s][k].status = "written"
  BY DEF ExportStays
<1>1. CASE ListForCheck
  <2>1. AllWritten /\ known' = total /\ rows' = rows
    BY <1>1 DEF ListForCheck, trackVars
  <2>2. total[s] \in Nat /\ k \in Nat /\ k >= 1
    BY OutputAssumption DEF ScriptInv, TrackInv, TrackTypeOK, Msgs
  <2>3. k \in 1 .. total[s]
    BY <2>1, <2>2
  <2>4. QED
    BY <2>1, <2>3 DEF AllWritten
<1>2. CASE ~ListForCheck
  <2>1. exported' = exported /\ known' = known
    BY <1>2, WorldGrows DEF ScriptInv, Script, FindFile, Probe, AskMessages, Compare,
                            Finish, ReturnStatus, scriptVars
  <2>2. rows[s][k].status = "written"
    BY <2>1 DEF ExportStays
  <2>3. QED
    BY <2>2, WrittenStays DEF ScriptInv
<1>3. QED
  BY <1>1, <1>2

\* After a finished export every message is in the session's file.
LEMMA QuietFiles ==
  ASSUME ScriptInv, CalmInv, ExportStays, Quiet, NEW s \in Sessions
  PROVE  /\ jsonl_path(s) = PathFor(ListedUser(s), s)
         /\ \A k \in 1 .. total[s] : Contains(file[PathFor(UserOf(s), s)], k)
<1>1. Calm
  BY DEF Quiet, Calm
<1>2. listing = listed /\ CalmSession(s)
  BY <1>1 DEF CalmInv
<1>3. jsonl_path(s) = PathFor(ListedUser(s), s)
  BY <1>2 DEF jsonl_path, ListedUser
<1>4. ASSUME NEW k \in 1 .. total[s]
      PROVE  Contains(file[PathFor(UserOf(s), s)], k)
  <2>1. total[s] \in Nat /\ k \in Msgs /\ k <= known[s]
    BY OutputAssumption DEF ScriptInv, TrackInv, TrackTypeOK, Msgs, Quiet
  <2>2. rows[s][k].status = "written"
    BY <2>1 DEF ExportStays, Quiet
  <2>3. rows[s][k].path = PathFor(UserOf(s), s)
    BY <1>2, <2>1, <2>2 DEF CalmSession
  <2>4. QED
    BY <2>1, <2>2, <2>3 DEF ScriptInv, TrackInv, RowNamesItsFile
<1>5. QED
  BY <1>3, <1>4

\* In the right place the comparison succeeds: repetitions come after the first
\* records.
LEMMA QuietMatches ==
  ASSUME ScriptInv, CalmInv, ExportStays, Quiet, at = "compare",
         UserOf(current) = ListedUser(current)
  PROVE  Matches
<1>1. current \in Sessions /\ api \subseteq 1 .. total[current]
  BY DEF ScriptInv, ScriptTypeOK, ScriptKnows, Verifying
<1>2. Lines = file[PathFor(UserOf(current), current)]
  BY <1>1, QuietFiles DEF Lines
<1>3. \A k \in api : Contains(Lines, k)
  BY <1>1, <1>2, QuietFiles
<1>4. ASSUME NEW k \in api, NEW m \in api, NEW i \in DOMAIN Lines,
             NEW j \in DOMAIN Lines, k < m, IsFirst(i, k), IsFirst(j, m)
      PROVE  i < j
  <2>1. InOrder(Lines) /\ Lines \in Seq(Lumps)
    <3>1. CalmSession(current)
      BY <1>1 DEF CalmInv, Calm, Quiet
    <3>2. PathFor(UserOf(current), current) \in Paths
      BY <1>1, UserIsOwner DEF ScriptInv
    <3>3. QED
      BY <1>2, <3>1, <3>2 DEF CalmSession, ScriptInv, TrackInv, TrackTypeOK
  <2>2. i \in 1 .. Len(Lines) /\ j \in 1 .. Len(Lines)
    BY <2>1
  <2>3. k \in Msgs
    BY <1>1, OutputAssumption DEF ScriptInv, TrackInv, TrackTypeOK, Msgs
  <2>4. PICK h \in 1 .. j - 1 : Lines[h] = k
    BY <1>4, <2>1, <2>2, <2>3 DEF InOrder, IsFirst
  <2>5. h \notin 1 .. i - 1
    BY <1>4, <2>4 DEF IsFirst
  <2>6. QED
    BY <2>2, <2>4, <2>5
<1>5. QED
  BY <1>3, <1>4 DEF Matches

\* An export that is finished now was finished before.
LEMMA QuietBefore ==
  ASSUME ScriptInv, [Next]_vars, ~ListForCheck, Quiet'
  PROVE  Quiet /\ UNCHANGED <<listed, detail>>
<1>1. Calm /\ UNCHANGED <<listed, detail>>
  BY CalmBefore DEF ScriptInv, Quiet, Calm
<1>2. exported' = exported /\ known' = known
  BY WorldGrows DEF ScriptInv, Script, FindFile, Probe, AskMessages, Compare, Finish,
                    ReturnStatus, scriptVars
<1>3. ASSUME NEW s \in Sessions PROVE total[s] = known[s] /\ total[s] > 0
  <2>1. total[s] \in Nat /\ total'[s] \in Nat /\ known[s] \in Nat
    BY TrackPreserved, OutputAssumption
       DEF ScriptInv, ScriptTypeOK, TrackInv, TrackTypeOK
  <2>2. known[s] <= total[s] /\ total[s] <= total'[s]
    BY WorldGrows DEF ScriptInv, ScriptKnows
  <2>3. total'[s] = known[s] /\ total'[s] > 0
    BY <1>2 DEF Quiet
  <2>4. QED
    BY <2>1, <2>2, <2>3
<1>4. total = known
  BY <1>3 DEF ScriptInv, ScriptTypeOK, TrackInv, TrackTypeOK
<1>5. QED
  BY <1>1, <1>2, <1>3, <1>4 DEF Quiet, Calm

\* A finished export leaves nothing to write.
LEMMA NothingToWrite ==
  ASSUME ScriptInv, ExportStays, Quiet, NEW s \in Sessions, job[s].step = "prepared"
  PROVE  job[s].batch = {}
<1>1. SUFFICES ASSUME NEW k \in job[s].batch PROVE FALSE
  OBVIOUS
<1>2. k \in Msgs /\ k <= known[s] /\ rows[s][k] = [status |-> "pending",
                                        path |-> PathFor(job[s].user, s)]
  BY DEF ScriptInv, TrackInv, TrackTypeOK, JobStates, BatchNamed, Quiet
<1>3. rows[s][k].status = "written"
  BY <1>2 DEF ExportStays, Quiet
<1>4. QED
  BY <1>2, <1>3

\* So its files stay as they are.
LEMMA QuietRests ==
  ASSUME ScriptInv, ExportStays, Quiet, [Next]_vars
  PROVE  file' = file
<1>1. ASSUME NEW s \in Sessions, NEW ks \in SUBSET job[s].batch,
             NEW end \in {<< >>, <<Torn>>}, job[s].step = "prepared",
             ks = job[s].batch => end = << >>, WriteLines(s, ks, end)
      PROVE  file' = file
  <2>1. ks = {} /\ end = << >>
    BY <1>1, NothingToWrite
  <2>2. PICK q \in OldestFirst(ks) :
          file' = [file EXCEPT ![PathFor(job[s].user, s)] = @ \o q \o end]
    BY <1>1 DEF WriteLines
  <2>3. ks \in SUBSET Msgs
    BY <2>1
  <2>4. q \in Seq(Lumps) /\ \A i \in 1 .. Len(q) : q[i] \in ks
    BY <2>2, <2>3, OldestFirstIs
  <2>5. q = << >>
    BY <2>1, <2>4
  <2>6. PathFor(job[s].user, s) \in Paths
    BY PathIsPath DEF ScriptInv, TrackInv, TrackTypeOK, JobStates
  <2>7. file[PathFor(job[s].user, s)] \in Seq(Lumps)
    BY <2>6 DEF ScriptInv, TrackInv, TrackTypeOK
  <2>8. file[PathFor(job[s].user, s)] \o q \o end = file[PathFor(job[s].user, s)]
    BY <2>1, <2>5, <2>7
  <2>9. QED
    BY <2>2, <2>8 DEF ScriptInv, TrackInv, TrackTypeOK
<1>2. ASSUME NEW s \in Sessions, Write(s) PROVE file' = file
  BY <1>1, <1>2 DEF Write
<1>3. ASSUME NEW s \in Sessions, WriteFails(s) PROVE file' = file
  BY <1>1, <1>3 DEF WriteFails
<1>4. Watcher => file' = file
  BY <1>2, <1>3 DEF Watcher, ListSessions, GetSession, Prepare, MarkWritten, CallFails
<1>5. Server \/ UNCHANGED trackVars => file' = file
  BY DEF Server, NewMessage, ChangeUser, trackVars
<1>6. QED
  BY <1>4, <1>5, WorldGrows DEF ScriptInv, Next, vars

\* Whether a session is in place is a matter of its user and its file.
LEMMA InPlaceMeans ==
  ASSUME NEW s \in Sessions
  PROVE  InPlace(s) <=> /\ UserOf(s) = ListedUser(s)
                        /\ ~Contains(file[PathFor(ListedUser(s), s)], Torn)
BY DEF InPlace, UserOf, ListedUser

LEMMA VerdictPreserved ==
  ASSUME ScriptInv, CalmInv, ExportStays, VerdictInv, [Next]_vars
  PROVE  VerdictInv'
<1> SUFFICES ASSUME Quiet' PROVE VerdictInv'
  BY DEF VerdictInv
<1>1. CASE ListForCheck
  <2>1. /\ code' = code /\ code = Running /\ Running \notin {1, 2}
        /\ left' = Sessions /\ at' = "next"
    BY <1>1 DEF ListForCheck, ScriptInv, ScriptKnows, Running
  <2>2. QED
    BY <2>1 DEF VerdictInv
<1>2. CASE ~ListForCheck
  <2>1. Quiet /\ UNCHANGED <<listed, detail>>
    BY <1>2, QuietBefore
  <2>2. file' = file
    BY <2>1, QuietRests
  <2>3. \A s \in Sessions : InPlace(s)' <=> InPlace(s)
    BY <2>1, <2>2 DEF InPlace, firstNonEmpty, mergeSessionMetadata
  <2>4. \A s \in Sessions : UserOf(s)' = UserOf(s) /\ ListedUser(s)' = ListedUser(s)
    BY <2>1, SameUsers
  <2>5. /\ code # 2
        /\ code \in {Running, 0} /\ at # "start" =>
             \A s \in Sessions \ left : InPlace(s)
        /\ code = 1 => \E s \in Sessions : ~InPlace(s)
        /\ at = "probe" => ~InPlace(current)
        /\ at \in {"messages", "compare"} => UserOf(current) = ListedUser(current)
    BY <2>1 DEF VerdictInv
  <2>6. current \in Sessions \/ at \notin Verifying
    BY DEF ScriptInv, ScriptTypeOK
  <2>7. Running \notin {0, 1, 2} /\ (code = Running <=> at # "done")
    BY DEF Running, ScriptInv, ScriptKnows
  <2>8. CASE ~Script
    <3>1. UNCHANGED scriptVars
      BY <2>8, WorldGrows DEF ScriptInv
    <3>2. UNCHANGED <<at, code, left, current>>
      BY <3>1 DEF scriptVars
    <3>3. QED
      BY <2>3, <2>4, <2>5, <2>6, <3>2 DEF VerdictInv, Verifying
  <2>9. CASE AskMessages
    <3>1. at = "messages" /\ at' = "compare" /\ UNCHANGED <<code, left, current>>
      BY <2>9 DEF AskMessages
    <3>2. QED
      BY <2>3, <2>4, <2>5, <2>6, <3>1 DEF VerdictInv, Verifying
  <2>10. CASE Finish
    <3>1. at = "next" /\ at' = "done" /\ code' = 0 /\ left' = left
      BY <2>10 DEF Finish
    <3>2. QED
      BY <2>3, <2>5, <2>7, <3>1 DEF VerdictInv
  <2>11. ASSUME NEW s \in Sessions, FindFile(s) PROVE VerdictInv'
    <3>1. /\ at = "next" /\ current' = s /\ UNCHANGED <<code, left>>
          /\ at' = IF file[jsonl_path(s)] = << >> THEN "probe" ELSE "messages"
      BY <2>11 DEF FindFile
    <3>2. jsonl_path(s) = PathFor(ListedUser(s), s) /\ CalmSession(s)
      BY <2>1, QuietFiles DEF CalmInv, Calm, Quiet
    <3>3. CASE file[jsonl_path(s)] = << >>
      <4>1. total[s] \in Nat /\ total[s] > 0
        BY <2>1, OutputAssumption DEF Quiet, ScriptInv, TrackInv, TrackTypeOK
      <4>2. Contains(file[PathFor(UserOf(s), s)], 1)
        BY <2>1, <4>1, QuietFiles
      <4>3. ~Contains(<< >>, 1)
        BY DEF Contains
      <4>4. ~InPlace(s)
        BY <3>2, <3>3, <4>2, <4>3, InPlaceMeans
      <4>5. QED
        BY <2>3, <2>5, <2>7, <3>1, <3>3, <4>4 DEF VerdictInv
    <3>4. CASE file[jsonl_path(s)] # << >>
      <4>1. UserOf(s) = ListedUser(s)
        BY <3>2, <3>4, UserIsOwner DEF CalmSession, ScriptInv
      <4>2. QED
        BY <2>3, <2>4, <2>5, <2>7, <3>1, <3>4, <4>1 DEF VerdictInv
    <3>5. QED
      BY <3>3, <3>4
  <2>12. ASSUME NEW status \in {0, 1}, ReturnStatus(status), at \in Verifying,
                status = 0 <=> InPlace(current)
         PROVE  VerdictInv'
    <3>1. /\ left' = left \ {current}
          /\ IF status = 0 THEN at' = "next" /\ code' = code
                           ELSE at' = "done" /\ code' = status
      BY <2>12 DEF ReturnStatus
    <3>2. current \in Sessions /\ code = Running /\ at # "start"
      BY <2>6, <2>7, <2>12 DEF Verifying
    <3>3. QED
      BY <2>3, <2>5, <2>7, <2>12, <3>1, <3>2 DEF VerdictInv
  <2>13. CASE Probe
    <3>1. at = "probe" /\ current \in Sessions
      BY <2>6, <2>13 DEF Probe, Verifying
    <3>2. total[current] \in Nat /\ total[current] # 0
      BY <2>1, <3>1, OutputAssumption DEF Quiet, ScriptInv, TrackInv, TrackTypeOK
    <3>3. ReturnStatus(1)
      BY <2>13, <3>2 DEF Probe
    <3>4. QED
      BY <2>5, <2>12, <3>1, <3>3 DEF Verifying
  <2>14. CASE Compare
    <3>1. at = "compare" /\ current \in Sessions /\ UserOf(current) = ListedUser(current)
      BY <2>5, <2>6, <2>14 DEF Compare, Verifying
    <3>2. Matches
      BY <2>1, <3>1, QuietMatches
    <3>3. ~BeingWritten
      BY <2>1, <3>1, NothingToWrite DEF BeingWritten
    <3>4. Parses <=> InPlace(current)
      BY <2>1, <3>1, QuietFiles, InPlaceMeans DEF Parses, Lines
    <3>5. ReturnStatus(IF Parses THEN 0 ELSE 1)
      BY <2>14, <3>2, <3>3 DEF Compare
    <3>6. QED
      BY <2>12, <3>1, <3>4, <3>5 DEF Verifying
  <2>15. QED
    BY <1>2, <2>8, <2>9, <2>10, <2>11, <2>13, <2>14 DEF Script
<1>3. QED
  BY <1>1, <1>2

LEMMA VerifyInitially == Init => VerifyInv
<1> SUFFICES ASSUME Init PROVE VerifyInv
  OBVIOUS
<1>1. ScriptInv
  BY ScriptInitially
<1>2. /\ \A s \in Sessions, k \in Msgs : rows[s][k].status = "absent"
      /\ \A s \in Sessions : job[s].step = "idle"
      /\ \A p \in Paths : file[p] = << >>
  BY DEF Init, TrackInit, NoRow, Idle
<1>3. ASSUME NEW s \in Sessions PROVE CalmSession(s)
  <2>1. \A u \in Owners : file[PathFor(u, s)] = << >>
    BY <1>2, PathIsPath
  <2>2. UserOf(s) \in Owners
    BY <1>1, UserIsOwner DEF ScriptInv
  <2>3. InOrder(<< >>)
    BY DEF InOrder
  <2>4. QED
    BY <1>2, <2>1, <2>2, <2>3 DEF CalmSession
<1>4. CalmInv
  BY <1>3 DEF Init, CalmInv
<1>5. ExportStays /\ VerdictInv
  BY DEF Init, ExportStays, VerdictInv, Quiet
<1>6. QED
  BY <1>1, <1>4, <1>5 DEF VerifyInv

LEMMA VerifyPreserved == VerifyInv /\ [Next]_vars => VerifyInv'
<1> SUFFICES ASSUME VerifyInv, [Next]_vars PROVE VerifyInv'
  OBVIOUS
<1>1. TrackInv /\ ScriptInv /\ CalmInv /\ ExportStays /\ VerdictInv
  BY DEF VerifyInv, ScriptInv
<1>2. QED
  BY <1>1, ScriptPreserved, CalmPreserved, ExportPreserved, VerdictPreserved
     DEF VerifyInv

LEMMA VerifyInvariant == Spec => []VerifyInv
BY VerifyInitially, VerifyPreserved, PTL DEF Spec

\* On a finished export the script returns 0 unless a session's answers name
\* different users or a record was torn, and then it returns 1: nothing else
\* that failed and was repeated on the way makes a difference.
THEOREM VerdictAlwaysRight == Spec => []VerdictIsRight
<1>1. VerifyInv => VerdictIsRight
  <2>1. SUFFICES ASSUME VerifyInv, Quiet, code # Running
                 PROVE  code = 0 <=> \A s \in Sessions : InPlace(s)
    BY DEF VerdictIsRight
  <2>2. /\ code \in {0, 1, 2} /\ at = "done"
        /\ code = 0 => left = {}
    BY <2>1 DEF VerifyInv, ScriptInv, ScriptTypeOK, ScriptKnows
  <2>3. /\ code # 2
        /\ code = 0 => \A s \in Sessions \ left : InPlace(s)
        /\ code = 1 => \E s \in Sessions : ~InPlace(s)
    BY <2>1, <2>2 DEF VerifyInv, VerdictInv
  <2>4. QED
    BY <2>2, <2>3
<1>2. QED
  BY <1>1, VerifyInvariant, PTL
=============================================================================
