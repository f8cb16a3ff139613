------------------------------ MODULE PathLocks ------------------------------
(***************************************************************************)
(* The lock table of the JSONL sink (FileSink in src/internal/sink/jsonl/  *)
(* writer.go).  Workers write to files through one mutex per path; the     *)
(* mutexes are created on demand, counted by users, and removed from the   *)
(* table by whoever finds them unused for longer than the TTL.             *)
(*                                                                         *)
(* Time is left out: any lock without users may have outlived its TTL, and *)
(* the clean-up may always be skipped by its rate limit.  The body of      *)
(* lockFor, releaseLock and cleanupIdleLocks runs under locksMu and is one *)
(* step.                                                                   *)
(***************************************************************************)
EXTENDS Naturals, FiniteSets

CONSTANTS
  Workers,     \* goroutines that call WriteMessages
  Paths,       \* output paths; two sessions may share one (cleanSegment)
  Locks,       \* addresses a pathLock may have (bound: as many as can be live)
  None         \* the nil pointer

ASSUME PathLocksAssumption == /\ IsFiniteSet(Workers)
                              /\ None \notin Locks /\ None \notin Workers
                              /\ None \notin Paths

VARIABLES
  locks,       \* the table: the lock of each path, or None
  users,       \* lock.users
  owner,       \* who holds lock.mu
  pc,          \* idle, waiting, writing, unlocked or released
  path, lock   \* locals of WriteMessages

vars == <<locks, users, owner, pc, path, lock>>

Init == /\ locks = [p \in Paths |-> None]
        /\ users = [l \in Locks |-> 0]
        /\ owner = [l \in Locks |-> None]
        /\ pc = [w \in Workers |-> "idle"]
        /\ path = [w \in Workers |-> None]
        /\ lock = [w \in Workers |-> None]

\* A lock that somebody can still reach.
Live(l) == (\E p \in Paths : locks[p] = l) \/ (\E w \in Workers : lock[w] = l)

\* lockFor, when the path has a lock, and when it gets one.
Join(w, p) ==
  /\ locks[p] # None
  /\ lock' = [lock EXCEPT ![w] = locks[p]]
  /\ users' = [users EXCEPT ![locks[p]] = @ + 1]
  /\ UNCHANGED locks

Create(w, p) ==
  /\ locks[p] = None
  /\ \E l \in Locks :
       /\ ~Live(l)
       /\ locks' = [locks EXCEPT ![p] = l]
       /\ lock' = [lock EXCEPT ![w] = l]
       /\ users' = [users EXCEPT ![l] = 1]

lockFor(w) ==
  /\ pc[w] = "idle"
  /\ \E p \in Paths : /\ path' = [path EXCEPT ![w] = p]
                      /\ Join(w, p) \/ Create(w, p)
  /\ pc' = [pc EXCEPT ![w] = "waiting"]
  /\ UNCHANGED owner

Lock(w) ==
  /\ pc[w] = "waiting" /\ owner[lock[w]] = None
  /\ owner' = [owner EXCEPT ![lock[w]] = w]
  /\ pc' = [pc EXCEPT ![w] = "writing"]
  /\ UNCHANGED <<locks, users, path, lock>>

\* Seeded fault: a failed writeFile returns without unlocking.
UnlockForgotten(w) ==
  /\ pc[w] = "writing"
  /\ \/ owner' = [owner EXCEPT ![lock[w]] = None]
     \/ UNCHANGED owner
  /\ pc' = [pc EXCEPT ![w] = "unlocked"]
  /\ UNCHANGED <<locks, users, path, lock>>

\* writeFile returns, with or without an error.
Unlock(w) ==
  /\ pc[w] = "writing"
  /\ owner' = [owner EXCEPT ![lock[w]] = None]
  /\ pc' = [pc EXCEPT ![w] = "unlocked"]
  /\ UNCHANGED <<locks, users, path, lock>>

\* A lock that is not in the table any more is not touched.
releaseLock(w) ==
  /\ pc[w] = "unlocked"
  /\ users' = IF locks[path[w]] = lock[w] /\ users[lock[w]] > 0
              THEN [users EXCEPT ![lock[w]] = @ - 1] ELSE users
  /\ pc' = [pc EXCEPT ![w] = "released"]
  /\ path' = [path EXCEPT ![w] = None]
  /\ lock' = [lock EXCEPT ![w] = None]
  /\ UNCHANGED <<locks, owner>>

\* Seeded fault: a lock nobody holds may go, whoever waits for it.
Unowned(p) == locks[p] # None /\ owner[locks[p]] = None

Unused(p) == locks[p] # None /\ users[locks[p]] = 0

cleanupIdleLocks(w) ==
  /\ pc[w] = "released"
  /\ \E expired \in SUBSET {p \in Paths : Unused(p)} :
       locks' = [p \in Paths |-> IF p \in expired THEN None ELSE locks[p]]
  /\ pc' = [pc EXCEPT ![w] = "idle"]
  /\ UNCHANGED <<users, owner, path, lock>>

Write(w) == lockFor(w) \/ Lock(w) \/ Unlock(w) \/ releaseLock(w) \/ cleanupIdleLocks(w)

Next == \E w \in Workers : Write(w)

Spec == Init /\ [][Next]_vars

\* A write that has begun goes on; sync.Mutex starves nobody.
FairSpec ==
  /\ Spec
  /\ \A w \in Workers :
       /\ SF_vars(Lock(w))
       /\ WF_vars(Unlock(w) \/ releaseLock(w) \/ cleanupIdleLocks(w))
-----------------------------------------------------------------------------
\* A worker that is counted as a user of its lock.
Using == {"waiting", "writing", "unlocked"}

Users(l) == {w \in Workers : pc[w] \in Using /\ lock[w] = l}

TypeOK == /\ locks \in [Paths -> Locks \cup {None}]
          /\ users \in [Locks -> Nat]
          /\ owner \in [Locks -> Workers \cup {None}]
          /\ pc \in [Workers -> Using \cup {"idle", "released"}]
          /\ path \in [Workers -> Paths \cup {None}]
          /\ lock \in [Workers -> Locks \cup {None}]
          /\ \A w \in Workers : IF pc[w] \in Using
                                THEN path[w] # None /\ lock[w] # None
                                ELSE path[w] = None /\ lock[w] = None

\* Two workers never write to one file at the same time, although the locks
\* come and go (WriteMessages, cleanupIdleLocks).
OneWriterPerPath ==
  \A v, w \in Workers :
    pc[v] = "writing" /\ pc[w] = "writing" /\ path[v] = path[w] => v = w

\* The comment of releaseLock: the lock in the table is never another one
\* than the one a worker uses.
NeverReplaced ==
  \A w \in Workers : pc[w] \in Using => locks[path[w]] = lock[w]

\* The count of a lock in the table is exact, so unused locks can be removed.
UsersExact ==
  \A p \in Paths : locks[p] # None => users[locks[p]] = Cardinality(Users(locks[p]))

\* Every worker that wants to write gets its turn.
EventuallyWrites == \A w \in Workers : pc[w] = "waiting" ~> pc[w] = "writing"

\* Two paths never share a lock, and a lock is held by who writes under it.
LocksDistinct == \A p, q \in Paths : locks[p] # None /\ locks[p] = locks[q] => p = q

OwnerWrites ==
  \A l \in Locks, w \in Workers :
    owner[l] = w <=> pc[w] = "writing" /\ lock[w] = l

LocksInv == TypeOK /\ NeverReplaced /\ UsersExact /\ LocksDistinct /\ OwnerWrites
=============================================================================
