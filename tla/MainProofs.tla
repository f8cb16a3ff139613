----------------------------- MODULE MainProofs -----------------------------
(***************************************************************************)
(* Main and StoreOpen, proved: what MCMain checks on its instance holds    *)
(* for every number of processes, indexes and faults.                      *)
(***************************************************************************)
EXTENDS MCMain, TLAPS

-----------------------------------------------------------------------------
(***************************************************************************)
(* The process.                                                            *)
(***************************************************************************)
Electing == {"elect", "standby", "lead", "unlead"}

Places == {"start", "health", "mode", "result", "return", "exited"}
            \cup Electing \cup InRunWatcher

Snapshots == [mode : {"", "standalone", "ha"},
              lastSuccess : {"never", "clean", "some failed"},
              lastError : BOOLEAN, sessionsFailed : BOOLEAN,
              isLeader : BOOLEAN, leaseID : BOOLEAN]

MainTypeOK ==
  /\ snapshot \in Snapshots
  /\ cfg \in Configs
  /\ ctx \in {"no", "signal", "stop"}
  /\ pc \in Places
  /\ err \in BOOLEAN
  /\ round \in Rounds
  /\ opened \in SUBSET {"health", "store", "sink"}
  /\ exit \in {Running, 0, 1, 2}
  /\ done \in BOOLEAN

\* Only HA mode elects, and -once never waits for a second round.
ModesApart == /\ pc \in Electing => cfg.ha
              /\ pc \in {"wait", "asleep"} => ~cfg.once

\* runWatcher opens the store first, and nothing is open when it begins.
OpenedInOrder == /\ pc = "open" => opened \subseteq {"health"}
                 /\ pc = "sink" => "store" \in opened

\* main stops itself after its only round alone, and then leaves Lease.Run.
StopsWhenDone == ctx = "stop" => /\ pc \in {"unlead", "elect", "return", "exited"}
                                 /\ pc # "exited" => done

\* With -once the round was done or a signal came wherever no error is known:
\* that is what is left to report when the process ends.
NothingUnreported ==
  cfg.once => /\ pc = "record" /\ ~round.err => done \/ ctx = "signal"
              /\ pc \in {"close", "result"} /\ ~err => done \/ ctx = "signal"
              /\ pc = "return" => done \/ ctx = "signal"
              /\ pc = "unlead" => done \/ ctx = "signal"

\* There is an exit code once the process has exited.
ExitedHasCode == exit # Running <=> pc = "exited"

MainInv == /\ MainTypeOK /\ ModesApart /\ OpenedInOrder /\ StopsWhenDone
           /\ NothingUnreported /\ ExitedHasCode
           /\ LeaderIsReported /\ ResourcesMatch /\ OnceFailureIsReported

LEMMA MainInitially == Init => MainInv
<1> SUFFICES ASSUME Init PROVE MainInv
  OBVIOUS
<1>1. snapshot \in Snapshots /\ ~snapshot.isLeader
  BY DEF Init, NewReporter, Snapshots
<1>2. CleanRound \in Rounds
  BY DEF CleanRound, Rounds
<1>3. MainTypeOK
  BY <1>1, <1>2 DEF Init, MainTypeOK, Places, Running
<1>4. ModesApart /\ OpenedInOrder /\ StopsWhenDone /\ NothingUnreported /\ ExitedHasCode
  BY DEF Init, ModesApart, OpenedInOrder, StopsWhenDone, NothingUnreported,
         ExitedHasCode, Electing
<1>5. LeaderIsReported /\ ResourcesMatch /\ OnceFailureIsReported
  BY <1>1 DEF Init, LeaderIsReported, Alive, Leads, InRunWatcher, ResourcesMatch,
              OnceFailureIsReported, Running
<1>6. QED
  BY <1>3, <1>4, <1>5 DEF MainInv

\* The three operations on the status keep its shape.
LEMMA SnapshotTyped ==
  snapshot \in Snapshots /\ round \in Rounds /\ [Next]_vars => snapshot' \in Snapshots
<1> SUFFICES ASSUME snapshot \in Snapshots, round \in Rounds, [Next]_vars
             PROVE  snapshot' \in Snapshots
  OBVIOUS
<1>1. CASE Record
  BY <1>1 DEF Record, RecordRound, Snapshots, Rounds
<1>2. CASE OnLeader \/ OnLeaderReturns
  BY <1>2 DEF OnLeader, OnLeaderReturns, SetLeaderState, Snapshots
<1>3. CASE ChooseMode
  BY <1>3 DEF ChooseMode, SetMode, Snapshots
<1>4. CASE UNCHANGED snapshot
  BY <1>4
<1>5. QED
  BY <1>1, <1>2, <1>3, <1>4
     DEF Next, Step, vars, Signal, ParseConfig, StartHealth, LeaseRun, Elected,
         StandbyStops, OpenStore, OpenSink, SyncOnce, Wait, Wakes, Close, Result, Return

LEMMA MainTyped == MainInv /\ [Next]_vars => MainTypeOK'
<1> SUFFICES ASSUME MainInv, [Next]_vars PROVE MainTypeOK'
  OBVIOUS
<1> USE DEF MainInv, MainTypeOK, Next, Step, vars, Goto, Exit, Cancelled,
            Signal, ParseConfig, StartHealth, ChooseMode, LeaseRun, Elected,
            StandbyStops, OnLeader, OnLeaderReturns, OpenStore, OpenSink, SyncOnce,
            Record, Wait, Wakes, Close, Result, Return
<1>1. snapshot' \in Snapshots
  BY SnapshotTyped
<1>2. cfg' \in Configs /\ ctx' \in {"no", "signal", "stop"}
  OBVIOUS
<1>3. pc' \in Places
  BY DEF Places, Electing, InRunWatcher
<1>4. err' \in BOOLEAN
  OBVIOUS
<1>5. round' \in Rounds
  OBVIOUS
<1>6. opened' \in SUBSET {"health", "store", "sink"}
  OBVIOUS
<1>7. exit' \in {Running, 0, 1, 2}
  BY DEF Running
<1>8. done' \in BOOLEAN
  OBVIOUS
<1>9. QED
  BY <1>1, <1>2, <1>3, <1>4, <1>5, <1>6, <1>7, <1>8

\* Elections begin at ChooseMode and waiting at Record, under these conditions.
LEMMA ModesPreserved == MainInv /\ [Next]_vars => ModesApart'
BY DEF MainInv, MainTypeOK, ModesApart, Electing, Configs, Next, Step, vars,
       Goto, Exit, SetMode, SetLeaderState, RecordRound, Cancelled, Signal,
       ParseConfig, StartHealth, ChooseMode, LeaseRun, Elected, StandbyStops,
       OnLeader, OnLeaderReturns, OpenStore, OpenSink, SyncOnce, Record, Wait,
       Wakes, Close, Result, Return

\* is_leader and the place in the program change together.
LEMMA LeaderPreserved == MainInv /\ [Next]_vars => LeaderIsReported'
BY DEF MainInv, MainTypeOK, LeaderIsReported, ModesApart, Electing, Configs,
       Snapshots, Alive, Leads, InRunWatcher, Next, Step, vars, Goto, Exit,
       SetMode, SetLeaderState, RecordRound, Cancelled, Signal, ParseConfig,
       StartHealth, ChooseMode, LeaseRun, Elected, StandbyStops, OnLeader,
       OnLeaderReturns, OpenStore, OpenSink, SyncOnce, Record, Wait, Wakes,
       Close, Result, Return

\* Nothing but runWatcher opens the store or the sink, and Close closes both.
LEMMA OpenedPreserved == MainInv /\ [Next]_vars => (ResourcesMatch /\ OpenedInOrder)'
BY DEF MainInv, MainTypeOK, ResourcesMatch, OpenedInOrder, InRunWatcher, Next,
       Step, vars, Goto, Exit, SetMode, SetLeaderState, RecordRound,
       Cancelled, Signal, ParseConfig, StartHealth, ChooseMode, LeaseRun,
       Elected, StandbyStops, OnLeader, OnLeaderReturns, OpenStore, OpenSink,
       SyncOnce, Record, Wait, Wakes, Close, Result, Return

LEMMA ExitPreserved == MainInv /\ [Next]_vars => ExitedHasCode'
BY DEF MainInv, MainTypeOK, ExitedHasCode, Running, Next, Step, vars, Goto,
       Exit, SetMode, SetLeaderState, RecordRound, Cancelled, Signal,
       ParseConfig, StartHealth, ChooseMode, LeaseRun, Elected, StandbyStops,
       OnLeader, OnLeaderReturns, OpenStore, OpenSink, SyncOnce, Record, Wait,
       Wakes, Close, Result, Return

LEMMA OncePreserved == MainInv /\ [Next]_vars => OnceFailureIsReported'
BY DEF MainInv, MainTypeOK, StopsWhenDone, NothingUnreported,
       OnceFailureIsReported, ExitedHasCode, Running, Next, Step, vars, Goto,
       Exit, SetMode, SetLeaderState, RecordRound, Cancelled, Signal,
       ParseConfig, StartHealth, ChooseMode, LeaseRun, Elected, StandbyStops,
       OnLeader, OnLeaderReturns, OpenStore, OpenSink, SyncOnce, Record, Wait,
       Wakes, Close, Result, Return

\* Once main has stopped itself, only the way out of Lease.Run is left.
LEMMA StopsPreserved == MainInv /\ [Next]_vars => StopsWhenDone'
<1> SUFFICES ASSUME MainInv, [Next]_vars, ctx' = "stop"
             PROVE  /\ pc' \in {"unlead", "elect", "return", "exited"}
                    /\ pc' # "exited" => done'
  BY DEF StopsWhenDone
<1>1. CASE Result
  <2>1. pc = "result" /\ done' = done
    BY <1>1 DEF Result, Goto, Exit
  <2>2. ctx # "stop"
    BY <2>1 DEF MainInv, MainTypeOK, StopsWhenDone
  <2>3. cfg.ha /\ cfg.once /\ ctx = "no"
    BY <1>1, <2>2 DEF Result, Cancelled
  <2>4. CASE err
    BY <1>1, <2>3, <2>4 DEF Result, Exit, Goto
  <2>5. CASE ~err
    <3>1. pc' = "unlead"
      BY <1>1, <2>3, <2>5 DEF Result, Goto
    <3>2. done
      BY <2>1, <2>3, <2>5 DEF MainInv, NothingUnreported
    <3>3. QED
      BY <2>1, <3>1, <3>2
  <2>6. QED
    BY <2>4, <2>5
<1>2. CASE ~Result
  <2>1. ctx = "stop"
    BY <1>2 DEF Next, Step, vars, Goto, Exit, SetMode, SetLeaderState,
           RecordRound, Cancelled, Signal, ParseConfig, StartHealth,
           ChooseMode, LeaseRun, Elected, StandbyStops, OnLeader,
           OnLeaderReturns, OpenStore, OpenSink, SyncOnce, Record, Wait,
           Wakes, Close, Result, Return
  <2>2. pc \in {"unlead", "elect", "return", "exited"} /\ (pc # "exited" =>
         done)
    BY <2>1 DEF MainInv, MainTypeOK, StopsWhenDone
  <2>3. pc' \in {"unlead", "elect", "return", "exited"} /\ done' = done
        /\ (pc = "exited" => pc' = "exited")
    BY <1>2, <2>1, <2>2 DEF Next, Step, vars, Goto, Exit, SetMode,
           SetLeaderState, RecordRound, Cancelled, Signal, ParseConfig,
           StartHealth, ChooseMode, LeaseRun, Elected, StandbyStops, OnLeader,
           OnLeaderReturns, OpenStore, OpenSink, SyncOnce, Record, Wait,
           Wakes, Close, Result, Return
  <2>4. QED
    BY <2>2, <2>3
<1>3. QED
  BY <1>1, <1>2

\* A round under a cancellation of main itself does not happen, so a round that
\* is no success is an error or was interrupted by a signal.
LEMMA ReportPreserved == MainInv /\ [Next]_vars => NothingUnreported'
<1> SUFFICES ASSUME MainInv, [Next]_vars PROVE NothingUnreported'
  OBVIOUS
<1>1. CASE SyncOnce
  <2>1. pc = "round" /\ pc' = "record" /\ ctx' = ctx
    BY <1>1 DEF SyncOnce, Goto
  <2>2. ctx # "stop"
    BY <2>1 DEF MainInv, MainTypeOK, StopsWhenDone
  <2>3. ~round'.err => done' \/ ctx = "signal"
    BY <1>1, <2>2 DEF SyncOnce, Cancelled, MainInv, MainTypeOK
  <2>4. QED
    BY <2>1, <2>3 DEF NothingUnreported
<1>2. CASE Signal
  BY <1>2 DEF Signal, Goto, Exit, MainInv, MainTypeOK, NothingUnreported,
         ModesApart, Electing
<1>3. CASE ParseConfig
  BY <1>3 DEF ParseConfig, Goto, Exit, MainInv, MainTypeOK, NothingUnreported,
         ModesApart, Electing
<1>4. CASE StartHealth
  BY <1>4 DEF StartHealth, Goto, Exit, MainInv, MainTypeOK, NothingUnreported,
         ModesApart, Electing
<1>5. CASE ChooseMode
  BY <1>5 DEF ChooseMode, Goto, Exit, MainInv, MainTypeOK, NothingUnreported,
         ModesApart, Electing
<1>6. CASE LeaseRun
  <2>1. pc = "elect" /\ ctx' = ctx /\ done' = done
        /\ pc' \in {"return", "standby"} /\ (pc' = "return" => ctx # "no")
    BY <1>6 DEF LeaseRun, Goto, Cancelled
  <2>2. ctx \in {"no", "signal", "stop"} /\ (ctx = "stop" => done)
    BY <2>1 DEF MainInv, MainTypeOK, StopsWhenDone
  <2>3. QED
    BY <2>1, <2>2 DEF NothingUnreported
<1>7. CASE Elected
  BY <1>7 DEF Elected, Goto, Exit, MainInv, MainTypeOK, NothingUnreported,
         ModesApart, Electing
<1>8. CASE StandbyStops
  BY <1>8 DEF StandbyStops, Goto, Exit, MainInv, MainTypeOK,
         NothingUnreported, ModesApart, Electing
<1>9. CASE OnLeader
  BY <1>9 DEF OnLeader, Goto, Exit, MainInv, MainTypeOK, NothingUnreported,
         ModesApart, Electing
<1>10. CASE OnLeaderReturns
  BY <1>10 DEF OnLeaderReturns, Goto, Exit, MainInv, MainTypeOK,
         NothingUnreported, ModesApart, Electing
<1>11. CASE OpenStore
  BY <1>11 DEF OpenStore, Goto, Exit, MainInv, MainTypeOK, NothingUnreported,
         ModesApart, Electing
<1>12. CASE OpenSink
  BY <1>12 DEF OpenSink, Goto, Exit, MainInv, MainTypeOK, NothingUnreported,
         ModesApart, Electing
<1>13. CASE Record
  BY <1>13 DEF Record, Goto, Exit, MainInv, MainTypeOK, NothingUnreported,
         ModesApart, Electing
<1>14. CASE Wait
  BY <1>14 DEF Wait, Goto, Exit, MainInv, MainTypeOK, NothingUnreported,
         ModesApart, Electing
<1>15. CASE Wakes
  BY <1>15 DEF Wakes, Goto, Exit, MainInv, MainTypeOK, NothingUnreported,
         ModesApart, Electing
<1>16. CASE Close
  BY <1>16 DEF Close, Goto, Exit, MainInv, MainTypeOK, NothingUnreported,
         ModesApart, Electing
<1>17. CASE Result
  <2>1. pc = "result" /\ cfg' = cfg /\ done' = done
        /\ pc' \in {"exited", "unlead", "return"} /\ (ctx = "signal" => ctx' =
               "signal")
    BY <1>17 DEF Result, Goto, Exit, Cancelled
  <2>2. cfg.once /\ err => pc' = "exited"
    BY <1>17 DEF Result, Goto, Exit
  <2>3. cfg.once /\ ~err => done \/ ctx = "signal"
    BY <2>1 DEF MainInv, NothingUnreported
  <2>4. QED
    BY <2>1, <2>2, <2>3 DEF NothingUnreported
<1>18. CASE Return
  BY <1>18 DEF Return, Goto, Exit, MainInv, MainTypeOK, NothingUnreported,
         ModesApart, Electing
<1>19. CASE UNCHANGED vars
  BY <1>19 DEF vars, MainInv, NothingUnreported
<1>20. QED
  BY <1>1, <1>2, <1>3, <1>4, <1>5, <1>6, <1>7, <1>8, <1>9, <1>10, <1>11,
         <1>12, <1>13, <1>14, <1>15, <1>16, <1>17, <1>18, <1>19 DEF Next, Step

LEMMA MainPreserved == MainInv /\ [Next]_vars => MainInv'
BY MainTyped, ModesPreserved, LeaderPreserved, OpenedPreserved, ExitPreserved,
   OncePreserved, StopsPreserved, ReportPreserved DEF MainInv

LEMMA MainInvariant == Spec => []MainInv
BY MainInitially, MainPreserved, PTL DEF Spec

\* Every variable of the process stays in its range, the status too.
THEOREM MainTypeCorrect == Spec => []MainTypeOK
<1>1. MainInv => MainTypeOK
  BY DEF MainInv
<1>2. QED
  BY <1>1, MainInvariant, PTL

\* is_leader tells whether this process is the one that works.
THEOREM LeaderIsAlwaysReported == Spec => []LeaderIsReported
<1>1. MainInv => LeaderIsReported
  BY DEF MainInv
<1>2. QED
  BY <1>1, MainInvariant, PTL

\* A round never runs on a closed store, and no leadership leaves one open.
THEOREM ResourcesAlwaysMatch == Spec => []ResourcesMatch
<1>1. MainInv => ResourcesMatch
  BY DEF MainInv
<1>2. QED
  BY <1>1, MainInvariant, PTL

\* -once exits with 0 only after its round, or because of a signal.
THEOREM OnceFailureAlwaysReported == Spec => []OnceFailureIsReported
<1>1. MainInv => OnceFailureIsReported
  BY DEF MainInv
<1>2. QED
  BY <1>1, MainInvariant, PTL

-----------------------------------------------------------------------------
(***************************************************************************)
(* The opening of the database.                                            *)
(***************************************************************************)
StorePlaces ==
  {"closed", "configure", "init", "check", "columns", "indexes", "open", "refused"}

StoreTypeOK ==
  /\ tables \in [Store!Tables -> {"absent", "complete", "lacking", "removed"}]
  /\ migrations \in BOOLEAN
  /\ prior \in BOOLEAN
  /\ indexes \in SUBSET Indexes
  /\ openPc \in [Processes -> StorePlaces]

\* What an earlier version has left stays visible: no statement of this one
\* completes a table or removes schema_migrations.
PriorShows ==
  prior <=> migrations \/ \E t \in Store!Tables : tables[t] \in {"lacking", "removed"}

\* What a process knows of the database, wherever it stands in Open: what it
\* has seen is never undone by another process.
KnownOf(p) ==
  /\ openPc[p] \in {"check", "columns", "indexes", "open"} =>
       \A t \in Store!Tables : tables[t] # "absent"
  /\ openPc[p] \in {"columns", "indexes", "open"} => ~migrations
  /\ openPc[p] \in {"indexes", "open"} =>
       \A t \in Store!Tables : tables[t] = "complete"
  /\ openPc[p] = "open" => indexes = Indexes
  /\ openPc[p] = "refused" => prior

StoreInv == StoreTypeOK /\ PriorShows /\ \A p \in Processes : KnownOf(p)

LEMMA StoreInitially == Store!Init => StoreInv
BY DEF Store!Init, StoreInv, StoreTypeOK, StorePlaces, PriorShows, KnownOf

\* Every statement of Open only adds to the database.
LEMMA StorePreserved == StoreInv /\ [Store!Next]_storeVars => StoreInv'
<1> SUFFICES ASSUME StoreInv, [Store!Next]_storeVars PROVE StoreInv'
  OBVIOUS
<1> USE DEF StoreInv, StoreTypeOK, StorePlaces, PriorShows, KnownOf, Store!Goto
<1>1. ASSUME NEW p \in Processes, Store!Open(p)
       PROVE  StoreInv'
  BY <1>1 DEF Store!Open
<1>2. ASSUME NEW p \in Processes, Store!Configure(p)
       PROVE  StoreInv'
  BY <1>2 DEF Store!Configure
<1>3. ASSUME NEW p \in Processes, Store!TablesExist(p)
       PROVE  StoreInv'
  BY <1>3 DEF Store!TablesExist
<1>4. ASSUME NEW p \in Processes, Store!CheckMigrations(p)
       PROVE  StoreInv'
  BY <1>4 DEF Store!CheckMigrations
<1>5. ASSUME NEW p \in Processes, Store!CheckColumns(p)
       PROVE  StoreInv'
  BY <1>5 DEF Store!CheckColumns
<1>6. ASSUME NEW p \in Processes, Store!IndexesExist(p)
       PROVE  StoreInv'
  BY <1>6 DEF Store!IndexesExist
<1>7. ASSUME NEW p \in Processes, NEW t \in Store!Tables, Store!CreateTable(p, t)
       PROVE  StoreInv'
  BY <1>7 DEF Store!CreateTable
<1>8. ASSUME NEW p \in Processes, NEW x \in Indexes, Store!CreateIndex(p, x)
       PROVE  StoreInv'
  BY <1>8 DEF Store!CreateIndex
<1>9. ASSUME NEW p \in Processes, Store!Fails(p)
       PROVE  StoreInv'
  BY <1>9 DEF Store!Fails
<1>10. ASSUME NEW p \in Processes, Store!Close(p)
       PROVE  StoreInv'
  BY <1>10 DEF Store!Close
<1>11. CASE UNCHANGED storeVars
  BY <1>11 DEF storeVars
<1>12. QED
  BY <1>1, <1>2, <1>3, <1>4, <1>5, <1>6, <1>7, <1>8, <1>9, <1>10, <1>11
     DEF Store!Next, Store!OpenStep

\* StoreOpen calls its tuple of variables vars.
LEMMA StoreStands == UNCHANGED storeVars <=> UNCHANGED Store!vars
BY DEF storeVars, Store!vars

LEMMA StoreInvariant == Store!Spec => []StoreInv
<1>1. [Store!Next]_(Store!vars) => [Store!Next]_storeVars
  BY StoreStands
<1>2. QED
  BY <1>1, StoreInitially, StorePreserved, PTL DEF Store!Spec

\* Whoever has opened the database finds every table and index, and it is not
\* of an earlier version: for any number of processes that race and die.
THEOREM OpenedIsAlwaysUsable == Store!Spec => []OpenedIsUsable
<1>1. StoreInv => OpenedIsUsable
  BY DEF StoreInv, StoreTypeOK, PriorShows, KnownOf, OpenedIsUsable,
         Store!OpenedIsUsable
<1>2. QED
  BY <1>1, StoreInvariant, PTL

\* An Open that died half way never makes a later one refuse the database.
THEOREM OwnIsAlwaysAccepted == Store!Spec => []OwnIsNeverRefused
<1>1. StoreInv => OwnIsNeverRefused
  BY DEF StoreInv, KnownOf, OwnIsNeverRefused, Store!OwnIsNeverRefused
<1>2. QED
  BY <1>1, StoreInvariant, PTL

-----------------------------------------------------------------------------
(***************************************************************************)
(* The run: what it explores are behaviours of both.                       *)
(***************************************************************************)
LEMMA BothAreParts == BothSpec => Spec /\ Store!Spec
<1>1. BothInit => Init /\ Store!Init
  BY DEF BothInit
<1>2. [BothNext]_<<machine, vars, storeVars>> => [Next]_vars /\ [Store!Next]_(Store!vars)
  <2>1. BothNext => [Next]_vars /\ [Store!Next]_(Store!vars)
    BY StoreStands DEF BothNext
  <2>2. UNCHANGED <<machine, vars, storeVars>> => UNCHANGED vars /\ UNCHANGED Store!vars
    BY StoreStands
  <2>3. QED
    BY <2>1, <2>2
<1>3. QED
  BY <1>1, <1>2, PTL DEF BothSpec, Spec, Store!Spec

\* All five hold side by side in the composed specification that TLC runs.
THEOREM BothAreSafe ==
  BothSpec => [](/\ LeaderIsReported /\ ResourcesMatch /\ OnceFailureIsReported
                 /\ OpenedIsUsable /\ OwnIsNeverRefused)
BY BothAreParts, LeaderIsAlwaysReported, ResourcesAlwaysMatch,
   OnceFailureAlwaysReported, OpenedIsAlwaysUsable, OwnIsAlwaysAccepted, PTL
=============================================================================
