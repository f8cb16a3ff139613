-------------------------- MODULE StateStoreProofs --------------------------
(***************************************************************************)
(* Proofs about the state store: the invariants and action properties of   *)
(* StateStore hold for every set of sessions, number of messages and set   *)
(* of timestamps, under every interleaving of callers.                     *)
(***************************************************************************)
EXTENDS StateStore, FiniteSetTheorems, TLAPS

\* A non-empty set of naturals up to a bound has a largest element: of the
\* sets From(c) of members not below c, take one that is minimal.
LEMMA LargestExists ==
  ASSUME NEW n \in Nat, NEW T \in SUBSET (0 .. n), T # {}
  PROVE  \E c \in T : \A k \in T : k <= c
<1> DEFINE From(c) == {k \in T : c <= k}
           F == {From(c) : c \in T}
           R == StrictSubsetOrdering(0 .. n)
           S == FiniteSubsetsOf(0 .. n)
<1>1. IsFiniteSet(0 .. n)
  BY FS_Interval
<1>0. \A k \in T : k \in Nat
  OBVIOUS
<1>2. F \subseteq S /\ F # {}
  <2>1. \A c \in T : From(c) \in SUBSET (0 .. n) /\ IsFiniteSet(From(c))
    <3> SUFFICES ASSUME NEW c \in T
                 PROVE  From(c) \in SUBSET (0 .. n) /\ IsFiniteSet(From(c))
      OBVIOUS
    <3>1. From(c) \in SUBSET (0 .. n)
      OBVIOUS
    <3> HIDE DEF From
    <3> QED BY <3>1, <1>1, FS_Subset
  <2> HIDE DEF From
  <2> QED BY <2>1 DEF FiniteSubsetsOf
<1>3. IsWellFoundedOn(R, S)
  BY FS_StrictSubsetOrderingWellFounded
<1>4. PICK A \in F : \A B \in F : <<B, A>> \notin R
  <2> HIDE DEF F, R, S
  <2> QED BY <1>2, <1>3, WFMin
<1>5. PICK c \in T : A = From(c)
  BY <1>4
<1>6. ASSUME NEW k \in T, c < k
      PROVE  FALSE
  <2>1. From(k) \subseteq From(c) /\ From(k) # From(c)
    <3>1. c \in From(c) /\ c \notin From(k)
      BY <1>6, <1>0
    <3>2. From(k) \subseteq From(c)
      <4> SUFFICES ASSUME NEW m \in T, k <= m
                   PROVE  c <= m
        OBVIOUS
      <4>1. c \in Nat /\ k \in Nat /\ m \in Nat
        BY <1>0
      <4> QED BY <4>1, <1>6
    <3> QED BY <3>1, <3>2
  <2>2. <<From(k), From(c)>> \in R
    BY <2>1 DEF StrictSubsetOrdering
  <2>3. From(k) \in F
    OBVIOUS
  <2> HIDE DEF R, F, From
  <2> QED BY <1>4, <1>5, <2>2, <2>3
<1> QED
  BY <1>6, <1>0

\* updateSessionCursor returns the newest of the batch and the old cursor.
LEMMA AdvancedCursorIsLargest ==
  ASSUME TypeOK, NEW s \in Sessions, NEW recs \in SUBSET Msgs
  PROVE  /\ AdvancedCursor(s, recs) \in recs \cup {sessions[s].cursor}
         /\ AdvancedCursor(s, recs) \in 0 .. MaxMsgs
         /\ \A k \in recs \cup {sessions[s].cursor} :
              k <= AdvancedCursor(s, recs)
<1> DEFINE T == recs \cup {sessions[s].cursor}
<1>1. T \in SUBSET (0 .. MaxMsgs) /\ T # {}
  <2>1. sessions[s].cursor \in 0 .. MaxMsgs
    BY DEF TypeOK, SessionRow
  <2>2. recs \subseteq 0 .. MaxMsgs
    BY StoreAssumption DEF Msgs
  <2> QED BY <2>1, <2>2
<1>2. \E c \in T : \A k \in T : k <= c
  <2> HIDE DEF T
  <2> QED BY <1>1, LargestExists, StoreAssumption
<1>3. AdvancedCursor(s, recs) = CHOOSE c \in T : \A k \in T : k <= c
  BY DEF AdvancedCursor
<1>4. /\ AdvancedCursor(s, recs) \in T
      /\ \A k \in T : k <= AdvancedCursor(s, recs)
  <2> HIDE DEF T
  <2> QED BY <1>2, <1>3
<1> QED
  BY <1>1, <1>4

-----------------------------------------------------------------------------
(***************************************************************************)
(* One lemma per operation: what it keeps of the tables' types.            *)
(***************************************************************************)
LEMMA InitTypeOK == Init => TypeOK
BY StoreAssumption DEF Init, TypeOK, SessionRow, NoRow, Status

LEMMA FetchStatsTypeOK ==
  ASSUME TypeOK, NEW s \in Sessions, NEW reached \in BOOLEAN,
         UpdateSessionFetchStats(s, reached)
  PROVE  TypeOK'
BY DEF TypeOK, SessionRow, UpdateSessionFetchStats

LEMMA PrepareTypeOK ==
  ASSUME TypeOK, NEW s \in Sessions, NEW recs \in SUBSET Msgs,
         NEW updated \in Times, PrepareMessageRecords(s, recs, updated)
  PROVE  TypeOK'
<1>1. sessions' \in [Sessions -> SessionRow]
  BY DEF TypeOK, SessionRow, PrepareMessageRecords
<1>2. messages' \in [Sessions -> [Msgs -> Status]]
  BY DEF TypeOK, Status, PrepareMessageRecords
<1> QED BY <1>1, <1>2 DEF TypeOK

LEMMA MarkWrittenTypeOK ==
  ASSUME TypeOK, NEW s \in Sessions, NEW recs \in SUBSET Msgs,
         NEW updated \in Times, MarkMessagesWritten(s, recs, updated)
  PROVE  TypeOK'
<1>1. sessions' \in [Sessions -> SessionRow]
  <2>1. AdvancedCursor(s, recs) \in 0 .. MaxMsgs
    BY AdvancedCursorIsLargest
  <2> QED BY <2>1 DEF TypeOK, SessionRow, MarkMessagesWritten
<1>2. messages' \in [Sessions -> [Msgs -> Status]]
  BY DEF TypeOK, Status, MarkMessagesWritten
<1> QED BY <1>1, <1>2 DEF TypeOK

LEMMA MarkFailedTypeOK ==
  ASSUME TypeOK, NEW s \in Sessions, NEW recs \in SUBSET Msgs,
         MarkMessagesFailed(s, recs)
  PROVE  TypeOK'
<1>1. messages' \in [Sessions -> [Msgs -> Status]]
  BY DEF TypeOK, Status, MarkMessagesFailed
<1> QED BY <1>1 DEF TypeOK, MarkMessagesFailed

-----------------------------------------------------------------------------
(***************************************************************************)
(* The inductive invariant.                                                *)
(***************************************************************************)
StoreInv == TypeOK /\ CursorIsNewestWritten /\ RegisteredSessionHasRow

LEMMA StoreInvInit == Init => StoreInv
<1> SUFFICES ASSUME Init PROVE StoreInv
  OBVIOUS
<1>1. TypeOK
  BY InitTypeOK
<1>2. CursorIsNewestWritten /\ RegisteredSessionHasRow
  BY DEF Init, CursorIsNewestWritten, RegisteredSessionHasRow, NoRow, Written
<1> QED BY <1>1, <1>2 DEF StoreInv

LEMMA StoreInvMarkWritten ==
  ASSUME StoreInv, NEW s \in Sessions, NEW recs \in SUBSET Msgs,
         NEW updated \in Times, CallerPrepared(s, recs),
         MarkMessagesWritten(s, recs, updated)
  PROVE  StoreInv'
<1> DEFINE c == AdvancedCursor(s, recs)
<1>1. TypeOK /\ CursorIsNewestWritten /\ RegisteredSessionHasRow
  BY DEF StoreInv
<1>2. TypeOK'
  BY <1>1, MarkWrittenTypeOK
<1>3. /\ c \in recs \cup {sessions[s].cursor}
      /\ c \in 0 .. MaxMsgs
      /\ \A k \in recs \cup {sessions[s].cursor} : k <= c
  BY <1>1, AdvancedCursorIsLargest
<1>4. \A t \in Sessions : sessions'[t].cursor =
                            IF t = s THEN c ELSE sessions[t].cursor
  BY <1>1 DEF MarkMessagesWritten, TypeOK, SessionRow
<1>5. \A t \in Sessions, k \in Msgs :
        messages'[t][k] = IF t = s /\ k \in recs THEN "written"
                                                 ELSE messages[t][k]
  BY <1>1 DEF MarkMessagesWritten, TypeOK, CallerPrepared
<1>6. CursorIsNewestWritten'
  <2> SUFFICES ASSUME NEW t \in Sessions
               PROVE  /\ sessions'[t].cursor # 0 =>
                           messages'[t][sessions'[t].cursor] = "written"
                      /\ \A k \in Msgs : messages'[t][k] = "written" =>
                           k <= sessions'[t].cursor
    BY DEF CursorIsNewestWritten, Written
  <2>1. CASE t # s
    <3>1. sessions'[t].cursor = sessions[t].cursor
      BY <1>4, <2>1
    <3>2. sessions[t].cursor \in 0 .. MaxMsgs
      BY <1>1 DEF TypeOK, SessionRow
    <3>3. sessions[t].cursor # 0 => sessions[t].cursor \in Msgs
      BY <3>2, StoreAssumption DEF Msgs
    <3> HIDE DEF c
    <3> QED BY <1>1, <1>5, <2>1, <3>1, <3>3 DEF CursorIsNewestWritten, Written
  <2>2. CASE t = s
    <3>1. sessions'[s].cursor = c
      BY <1>4
    <3>2. c # 0 => c \in Msgs /\ messages'[s][c] = "written"
      <4>1. c # 0 => c \in Msgs
        BY <1>3, StoreAssumption DEF Msgs
      <4>2. CASE c \in recs
        BY <4>1, <4>2, <1>5 DEF Msgs
      <4>3. CASE c \notin recs
        <5>1. c = sessions[s].cursor
          BY <1>3, <4>3
        <5> HIDE DEF c
        <5> QED BY <5>1, <4>1, <1>1, <1>5 DEF CursorIsNewestWritten
      <4> QED BY <4>2, <4>3
    <3>3. \A k \in Msgs : messages'[s][k] = "written" => k <= c
      <4> SUFFICES ASSUME NEW k \in Msgs, messages'[s][k] = "written"
                   PROVE  k <= c
        OBVIOUS
      <4>1. CASE k \in recs
        BY <4>1, <1>3
      <4>2. CASE k \notin recs
        <5>1. k \in Written(s)
          BY <4>2, <1>5 DEF Written
        <5>2. k <= sessions[s].cursor /\ sessions[s].cursor <= c
          BY <5>1, <1>1, <1>3 DEF CursorIsNewestWritten
        <5>3. k \in Nat /\ sessions[s].cursor \in Nat /\ c \in Nat
          BY <1>1, <1>3, StoreAssumption DEF Msgs, TypeOK, SessionRow
        <5> HIDE DEF c
        <5> QED BY <5>2, <5>3
      <4> QED BY <4>1, <4>2
    <3> HIDE DEF c
    <3> QED BY <2>2, <3>1, <3>2, <3>3
  <2> QED BY <2>1, <2>2
<1>7. RegisteredSessionHasRow'
  <2>1. \A t \in Sessions : sessions'[t].found = (t = s \/ sessions[t].found)
    BY <1>1 DEF MarkMessagesWritten, TypeOK, SessionRow
  <2> QED BY <1>1, <1>5, <2>1 DEF RegisteredSessionHasRow
<1> QED BY <1>2, <1>6, <1>7 DEF StoreInv

LEMMA StoreInvFetchStats ==
  ASSUME StoreInv, NEW s \in Sessions, NEW reached \in BOOLEAN,
         UpdateSessionFetchStats(s, reached)
  PROVE  StoreInv'
<1>1. TypeOK'
  BY FetchStatsTypeOK DEF StoreInv
<1>2. /\ messages' = messages
      /\ \A t \in Sessions : /\ sessions'[t].cursor = sessions[t].cursor
                             /\ sessions[t].found => sessions'[t].found
  BY DEF StoreInv, TypeOK, SessionRow, UpdateSessionFetchStats
<1>3. CursorIsNewestWritten'
  BY <1>2 DEF StoreInv, CursorIsNewestWritten, Written
<1>4. RegisteredSessionHasRow'
  BY <1>2 DEF StoreInv, RegisteredSessionHasRow
<1> QED BY <1>1, <1>3, <1>4 DEF StoreInv

\* Neither preparing nor failing a batch changes which messages are written.
LEMMA StoreInvSameWritten ==
  ASSUME StoreInv, TypeOK',
         \A t \in Sessions : Written(t)' = Written(t),
         \A t \in Sessions : sessions'[t].cursor = sessions[t].cursor
  PROVE  CursorIsNewestWritten'
<1> SUFFICES ASSUME NEW t \in Sessions
             PROVE  /\ sessions[t].cursor # 0 =>
                         messages'[t][sessions[t].cursor] = "written"
                    /\ \A k \in Written(t) : k <= sessions[t].cursor
  BY DEF CursorIsNewestWritten
<1>1. CursorIsNewestWritten /\ sessions[t].cursor \in 0 .. MaxMsgs
  BY DEF StoreInv, TypeOK, SessionRow
<1>2. sessions[t].cursor # 0 => sessions[t].cursor \in Written(t)
  BY <1>1, StoreAssumption DEF CursorIsNewestWritten, Written, Msgs
<1>3. Written(t)' = Written(t)
  OBVIOUS
<1>4. \A k \in Written(t) : messages'[t][k] = "written"
  BY <1>3 DEF Written
<1> QED BY <1>1, <1>2, <1>4 DEF CursorIsNewestWritten

LEMMA StoreInvPrepare ==
  ASSUME StoreInv, NEW s \in Sessions, NEW recs \in SUBSET Msgs,
         NEW updated \in Times, PrepareMessageRecords(s, recs, updated)
  PROVE  StoreInv'
<1>1. TypeOK'
  BY PrepareTypeOK DEF StoreInv
<1>2. \A t \in Sessions, k \in Msgs :
        messages'[t][k] = IF t = s /\ k \in Prepared(s, recs)
                          THEN "pending" ELSE messages[t][k]
  BY DEF StoreInv, TypeOK, PrepareMessageRecords
<1>3. \A t \in Sessions : /\ sessions'[t].cursor = sessions[t].cursor
                          /\ sessions'[t].found = (t = s \/ sessions[t].found)
  BY DEF StoreInv, TypeOK, SessionRow, PrepareMessageRecords
<1>4. \A t \in Sessions : Written(t)' = Written(t)
  BY <1>2 DEF Written, Prepared
<1>5. CursorIsNewestWritten'
  BY <1>1, <1>3, <1>4, StoreInvSameWritten
<1>6. RegisteredSessionHasRow'
  BY <1>2, <1>3 DEF StoreInv, RegisteredSessionHasRow
<1> QED BY <1>1, <1>5, <1>6 DEF StoreInv

LEMMA StoreInvMarkFailed ==
  ASSUME StoreInv, NEW s \in Sessions, NEW recs \in SUBSET Msgs,
         MarkMessagesFailed(s, recs)
  PROVE  StoreInv'
<1>1. TypeOK'
  BY MarkFailedTypeOK DEF StoreInv
<1>2. \A t \in Sessions, k \in Msgs :
        messages'[t][k] =
          IF t = s /\ k \in recs /\ messages[s][k] \in {"pending", "failed"}
          THEN "failed" ELSE messages[t][k]
  BY DEF StoreInv, TypeOK, MarkMessagesFailed
<1>3. sessions' = sessions
  BY DEF MarkMessagesFailed
<1>4. \A t \in Sessions : Written(t)' = Written(t)
  BY <1>2 DEF Written
<1>5. CursorIsNewestWritten'
  BY <1>1, <1>3, <1>4, StoreInvSameWritten
<1>6. RegisteredSessionHasRow'
  BY <1>2, <1>3 DEF StoreInv, RegisteredSessionHasRow
<1> QED BY <1>1, <1>5, <1>6 DEF StoreInv

LEMMA StoreInvNext == StoreInv /\ [Next]_storeVars => StoreInv'
<1> SUFFICES ASSUME StoreInv, [Next]_storeVars
             PROVE  StoreInv'
  OBVIOUS
<1>1. CASE UNCHANGED storeVars
  BY <1>1 DEF storeVars, StoreInv, TypeOK, CursorIsNewestWritten,
              RegisteredSessionHasRow, Written
<1>2. ASSUME NEW s \in Sessions, NEW reached \in BOOLEAN,
             UpdateSessionFetchStats(s, reached)
      PROVE  StoreInv'
  BY <1>2, StoreInvFetchStats
<1>3. ASSUME NEW s \in Sessions, NEW recs \in SUBSET Msgs,
             NEW updated \in Times, PrepareMessageRecords(s, recs, updated)
      PROVE  StoreInv'
  BY <1>3, StoreInvPrepare
<1>4. ASSUME NEW s \in Sessions, NEW recs \in SUBSET Msgs,
             NEW updated \in Times, CallerPrepared(s, recs),
             MarkMessagesWritten(s, recs, updated)
      PROVE  StoreInv'
  BY <1>4, StoreInvMarkWritten
<1>5. ASSUME NEW s \in Sessions, NEW recs \in SUBSET Msgs,
             MarkMessagesFailed(s, recs)
      PROVE  StoreInv'
  BY <1>5, StoreInvMarkFailed
<1> QED BY <1>1, <1>2, <1>3, <1>4, <1>5 DEF Next

\* The strengthened invariant holds in every reachable state.
THEOREM StoreInvariant == Spec => []StoreInv
<1> QED BY StoreInvInit, StoreInvNext, PTL DEF Spec

-----------------------------------------------------------------------------
\* What every step of the store guarantees on its own: types are kept, no
\* row of messages goes away and no written message is reopened.
LEMMA StoreStep ==
  ASSUME TypeOK, [Next]_storeVars
  PROVE  /\ TypeOK'
         /\ \A t \in Sessions, k \in Msgs :
              /\ messages[t][k] = "written" => messages'[t][k] = "written"
              /\ messages[t][k] # "absent" => messages'[t][k] # "absent"
<1> DEFINE Kept == \A t \in Sessions, k \in Msgs :
              /\ messages[t][k] = "written" => messages'[t][k] = "written"
              /\ messages[t][k] # "absent" => messages'[t][k] # "absent"
<1>1. CASE UNCHANGED storeVars
  BY <1>1 DEF storeVars, TypeOK
<1>2. ASSUME NEW s \in Sessions, NEW reached \in BOOLEAN,
             UpdateSessionFetchStats(s, reached)
      PROVE  TypeOK' /\ Kept
  BY <1>2, FetchStatsTypeOK DEF UpdateSessionFetchStats
<1>3. ASSUME NEW s \in Sessions, NEW recs \in SUBSET Msgs,
             NEW updated \in Times, PrepareMessageRecords(s, recs, updated)
      PROVE  TypeOK' /\ Kept
  <2>1. TypeOK'
    BY <1>3, PrepareTypeOK
  <2>2. Kept
    BY <1>3 DEF TypeOK, PrepareMessageRecords, Prepared
  <2> QED BY <2>1, <2>2
<1>4. ASSUME NEW s \in Sessions, NEW recs \in SUBSET Msgs,
             NEW updated \in Times, MarkMessagesWritten(s, recs, updated)
      PROVE  TypeOK' /\ Kept
  <2>1. TypeOK'
    BY <1>4, MarkWrittenTypeOK
  <2>2. Kept
    BY <1>4 DEF TypeOK, MarkMessagesWritten
  <2> QED BY <2>1, <2>2
<1>5. ASSUME NEW s \in Sessions, NEW recs \in SUBSET Msgs,
             MarkMessagesFailed(s, recs)
      PROVE  TypeOK' /\ Kept
  <2>1. TypeOK'
    BY <1>5, MarkFailedTypeOK
  <2>2. Kept
    BY <1>5 DEF TypeOK, MarkMessagesFailed
  <2> QED BY <2>1, <2>2
<1> HIDE DEF Kept
<1>6. TypeOK' /\ Kept
  <2>1. CASE UNCHANGED storeVars
    BY <1>1, <2>1 DEF storeVars, Kept
  <2>2. CASE Next
    BY <2>2, <1>2, <1>3, <1>4, <1>5 DEF Next
  <2> QED BY <2>1, <2>2
<1> QED BY <1>6 DEF Kept

-----------------------------------------------------------------------------
\* The tables keep their types (store.go, the schema of sessions and
\* messages).
THEOREM TypeCorrect == Spec => []TypeOK
<1>1. StoreInv => TypeOK
  BY DEF StoreInv
<1> QED BY <1>1, StoreInvariant, PTL

\* updateSessionCursor: the cursor is the newest written message, for any
\* number of concurrent callers and batches in any order.
THEOREM CursorCorrect == Spec => []CursorIsNewestWritten
<1>1. StoreInv => CursorIsNewestWritten
  BY DEF StoreInv
<1> QED BY <1>1, StoreInvariant, PTL

\* A session with registered messages has its row.
THEOREM RegisteredSessionHasRowCorrect == Spec => []RegisteredSessionHasRow
<1>1. StoreInv => RegisteredSessionHasRow
  BY DEF StoreInv
<1> QED BY <1>1, StoreInvariant, PTL

\* No operation reopens a written message (the WHERE clauses on status in
\* PrepareMessageRecords and MarkMessagesFailed).
THEOREM WrittenStaysWritten == Spec => WrittenIsPermanent
<1>1. StoreInv /\ [Next]_storeVars => [WrittenKept]_storeVars
  BY StoreStep DEF StoreInv, WrittenKept, Written
<1> QED BY <1>1, StoreInvariant, PTL DEF Spec, WrittenIsPermanent

\* The cursor only advances ("only forward" of updateSessionCursor).
THEOREM CursorOnlyAdvances == Spec => CursorNeverGoesBack
<1>1. StoreInv /\ [Next]_storeVars
        => [CursorKept]_storeVars
  <2> SUFFICES ASSUME StoreInv, Next, NEW t \in Sessions
               PROVE  sessions[t].cursor <= sessions'[t].cursor
    BY DEF CursorKept
  <2>0. TypeOK /\ sessions[t].cursor \in Nat
    BY StoreAssumption DEF StoreInv, TypeOK, SessionRow
  <2>1. ASSUME NEW s \in Sessions, NEW recs \in SUBSET Msgs,
               NEW updated \in Times, MarkMessagesWritten(s, recs, updated)
        PROVE  sessions[t].cursor <= sessions'[t].cursor
    <3>1. sessions[s].cursor <= AdvancedCursor(s, recs)
      BY <2>0, AdvancedCursorIsLargest
    <3>2. sessions'[t].cursor =
            IF t = s THEN AdvancedCursor(s, recs) ELSE sessions[t].cursor
      BY <2>0, <2>1 DEF TypeOK, SessionRow, MarkMessagesWritten
    <3> QED BY <2>0, <3>1, <3>2
  <2>2. ASSUME NEW s \in Sessions, NEW reached \in BOOLEAN,
               UpdateSessionFetchStats(s, reached)
        PROVE  sessions'[t].cursor = sessions[t].cursor
    BY <2>0, <2>2 DEF TypeOK, SessionRow, UpdateSessionFetchStats
  <2>3. ASSUME NEW s \in Sessions, NEW recs \in SUBSET Msgs,
               NEW updated \in Times, PrepareMessageRecords(s, recs, updated)
        PROVE  sessions'[t].cursor = sessions[t].cursor
    BY <2>0, <2>3 DEF TypeOK, SessionRow, PrepareMessageRecords
  <2>4. ASSUME NEW s \in Sessions, NEW recs \in SUBSET Msgs,
               MarkMessagesFailed(s, recs)
        PROVE  sessions'[t].cursor = sessions[t].cursor
    BY <2>4 DEF MarkMessagesFailed
  <2> QED BY <2>0, <2>1, <2>2, <2>3, <2>4 DEF Next
<1> QED BY <1>1, StoreInvariant, PTL DEF Spec, CursorNeverGoesBack
=============================================================================
