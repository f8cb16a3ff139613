------------------------------ MODULE LeaseFile ------------------------------
(***************************************************************************)
(* How the lease file is written: readLease and writeLease                 *)
(* (src/internal/lease/lease.go) on a file system with inodes.  A writer   *)
(* truncates or creates its temporary file, writes it, and renames it to   *)
(* the lease path; it may die between any two of these.  Module Lease      *)
(* takes all this for one step; this module shows when it may.             *)
(***************************************************************************)
EXTENDS Naturals, FiniteSets

CONSTANTS
  Writers,     \* holder ids
  TmpNames,    \* names of temporary files
  Tmp,         \* the name of each holder's temporary file
  LeasePath,   \* the name of the lease file
  Inodes,      \* inodes (bound: one for each name and one for each writer)
  NoInode      \* no inode

ASSUME LeaseFileAssumption == /\ Tmp \in [Writers -> TmpNames]
                              /\ LeasePath \notin TmpNames
                              /\ NoInode \notin Inodes

VARIABLES
  dir,    \* the directory: an inode, or NoInode, for each name
  data,   \* whose texts an inode holds since it was last truncated
  at,     \* idle, opened, written
  fd      \* the inode each writer has open

fileVars == <<dir, data, at, fd>>

Names == TmpNames \cup {LeasePath}

\* One text after the other at offset 0: only a single one is sure to parse.
Parses(texts) == Cardinality(texts) = 1

\* readLease: the holders in the file, or NoInode if there is no file.
LeaseText == IF dir[LeasePath] = NoInode THEN {} ELSE data[dir[LeasePath]]

FileInit == /\ dir = [n \in Names |-> NoInode]
            /\ data = [f \in Inodes |-> {}]
            /\ at = [i \in Writers |-> "idle"]
            /\ fd = [i \in Writers |-> NoInode]

Free(f) == /\ \A n \in Names : dir[n] # f
           /\ \A i \in Writers : fd[i] # f

\* Seeded fault: the lease file itself is written.
OpenLease(i) ==
  /\ at[i] = "idle"
  /\ \E f \in Inodes :
       /\ IF dir[LeasePath] = NoInode THEN Free(f) ELSE f = dir[LeasePath]
       /\ dir' = [dir EXCEPT ![LeasePath] = f]
       /\ data' = [data EXCEPT ![f] = {}]
       /\ fd' = [fd EXCEPT ![i] = f]
  /\ at' = [at EXCEPT ![i] = "opened"]

\* os.WriteFile opens with O_CREATE and O_TRUNC.
OpenTmp(i) ==
  /\ at[i] = "idle"
  /\ \E f \in Inodes :
       /\ IF dir[Tmp[i]] = NoInode THEN Free(f) ELSE f = dir[Tmp[i]]
       /\ dir' = [dir EXCEPT ![Tmp[i]] = f]
       /\ data' = [data EXCEPT ![f] = {}]
       /\ fd' = [fd EXCEPT ![i] = f]
  /\ at' = [at EXCEPT ![i] = "opened"]

WriteTmp(i) ==
  /\ at[i] = "opened"
  /\ data' = [data EXCEPT ![fd[i]] = @ \cup {i}]
  /\ fd' = [fd EXCEPT ![i] = NoInode]
  /\ at' = [at EXCEPT ![i] = "written"]
  /\ UNCHANGED dir

Rename(i) ==
  /\ at[i] = "written" /\ dir[Tmp[i]] # NoInode
  /\ dir' = [dir EXCEPT ![LeasePath] = dir[Tmp[i]], ![Tmp[i]] = NoInode]
  /\ at' = [at EXCEPT ![i] = "idle"]
  /\ UNCHANGED <<data, fd>>

\* The rename fails, for one because the file is gone; it is removed.
RenameFails(i) ==
  /\ at[i] = "written"
  /\ dir' = [dir EXCEPT ![Tmp[i]] = NoInode]
  /\ at' = [at EXCEPT ![i] = "idle"]
  /\ UNCHANGED <<data, fd>>

\* The open or the write fails, or the process dies: the file stays.
Stop(i) ==
  /\ at[i] # "idle"
  /\ at' = [at EXCEPT ![i] = "idle"]
  /\ fd' = [fd EXCEPT ![i] = NoInode]
  /\ UNCHANGED <<dir, data>>

FileNext == \E i \in Writers : \/ OpenTmp(i) \/ WriteTmp(i) \/ Rename(i)
                               \/ RenameFails(i) \/ Stop(i)

FileSpec == FileInit /\ [][FileNext]_fileVars
-----------------------------------------------------------------------------
(***************************************************************************)
(* Properties.                                                             *)
(***************************************************************************)
\* Every variable stays in its range.
FileTypeOK == /\ dir \in [Names -> Inodes \cup {NoInode}]
              /\ data \in [Inodes -> SUBSET Writers]
              /\ at \in [Writers -> {"idle", "opened", "written"}]
              /\ fd \in [Writers -> Inodes \cup {NoInode}]

\* Holder ids that differ have different temporary files: what the comment of
\* writeLease says, and what module Lease relies on.
TmpDistinct == \A i, j \in Writers : Tmp[i] = Tmp[j] => i = j

\* The lease file parses whenever it is there, whoever died in the middle of
\* writing it: otherwise every standby would wait for ever (lease.go:97).
FileParses == dir[LeasePath] # NoInode => Parses(LeaseText)

\* The text of the lease file changes in one step, the rename of its writer:
\* reading it never meets a lease half written or the text of another.
OneStep == LeaseText' # LeaseText =>
  \E i \in Writers : /\ at[i] = "written" /\ at'[i] = "idle"
                     /\ LeaseText' = {i}

WriteIsAtomic == [][OneStep]_fileVars

(***************************************************************************)
(* Why: a temporary file is its writer's alone.                            *)
(***************************************************************************)
FileInv ==
  /\ FileTypeOK
  /\ \A m, n \in Names : dir[m] # NoInode /\ dir[m] = dir[n] => m = n
  /\ dir[LeasePath] # NoInode => \E i \in Writers : LeaseText = {i}
  /\ \A i \in Writers :
       /\ at[i] = "opened" => /\ fd[i] # NoInode /\ fd[i] = dir[Tmp[i]]
                              /\ data[fd[i]] = {}
       /\ at[i] # "opened" => fd[i] = NoInode
       /\ at[i] = "written" => /\ dir[Tmp[i]] # NoInode
                               /\ data[dir[Tmp[i]]] = {i}
=============================================================================
