------------------------------- MODULE MCMain -------------------------------
(***************************************************************************)
(* A process from start to exit (module Main), which takes the opening of  *)
(* the database for one step, and the opening itself, by several processes *)
(* (StoreOpen).  They share no state: machine says which of them a         *)
(* behaviour is about, and the other stands still.                         *)
(***************************************************************************)
EXTENDS Main

CONSTANTS Processes, Indexes, MaxFaults    \* see StoreOpen

VARIABLES machine, tables, migrations, indexes, openPc, prior, faults

storeVars == <<tables, migrations, indexes, openPc, prior, faults>>

Store == INSTANCE StoreOpen WITH pc <- openPc

BothInit == machine \in {"main", "store"} /\ Init /\ Store!Init

BothNext == /\ \/ machine = "main" /\ Next /\ UNCHANGED storeVars
               \/ machine = "store" /\ Store!Next /\ UNCHANGED vars
            /\ UNCHANGED machine

\* The main goroutine goes on, if it is the process that is looked at.
BothSpec == /\ BothInit /\ [][BothNext]_<<machine, vars, storeVars>>
            /\ WF_vars(machine = "main" /\ Step)

\* StoreOpen: who has opened the database finds all it needs.
OpenedIsUsable == Store!OpenedIsUsable

\* StoreOpen: a database that this version began to make is never refused.
OwnIsNeverRefused == Store!OwnIsNeverRefused
=============================================================================
