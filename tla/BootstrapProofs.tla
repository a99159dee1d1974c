--------------------------- MODULE BootstrapProofs --------------------------
(***************************************************************************)
(* What is proved of Bootstrap, for every tree of blocks, every chain in   *)
(* it, every set of beacons and of faulty ones below Alpha: the queue      *)
(* survives crashes, execution meets no error, only the network's blocks   *)
(* are touched, and no missing block is forgotten.  First what the         *)
(* operations of JobQueue preserve, then the invariant IInv, the actions   *)
(* one by one, and the theorems.  The predicates on queues are on any      *)
(* record with the fields of a queue: the one on disk and the one in       *)
(* memory.                                                                 *)
(***************************************************************************)
EXTENDS Bootstrap, TLAPS

\* A job is runnable or waits for its parent, not both, and only jobs are.
Shape(q) ==
  /\ q.runnable \subseteq q.jobs /\ Genesis \notin q.jobs
  /\ \A p \in Blocks : \A b \in q.dependents[p] : b \in q.jobs /\ b \notin q.runnable /\ Parent[b] = p

\* Every job is runnable, or waits for a block that is a job, or missing, or in hole:
\* the block that the running handler holds.
Kept(q, hole) ==
  \A b \in q.jobs :
    \/ b \in q.runnable
    \/ b \in q.dependents[Parent[b]] /\ Parent[b] \in q.jobs \cup q.missing \cup hole

\* The parents of runnable jobs are accepted.
Ready(q, known) == \A b \in q.runnable : Parent[b] \in known

\* Jobs wait for an accepted block only as long as it is a job itself.
Released(q, known) == \A p \in known : q.dependents[p] # {} => p \in q.jobs

\* The missing IDs on disk and the changes not yet written add up to those in memory.
Synced(d, q) == (d.missing \cup q.added) \ q.removed = q.missing

\* But for the missing IDs, disk and memory agree.
Same(d, q) == d.jobs = q.jobs /\ d.runnable = q.runnable /\ d.dependents = q.dependents

-----------------------------------------------------------------------------
(* Operations of the queue.  The steps are first-order reasoning about sets and *)
(* records; the few that need more cite SMT.                                    *)

USE Zenon

LEMMA AddMissingFields ==
  ASSUME NEW q \in MemoryQueue, NEW ids \in SUBSET Blocks
  PROVE  /\ AddMissingID(q, ids) \in MemoryQueue
         /\ Same(AddMissingID(q, ids), q)
         /\ AddMissingID(q, ids).missing = q.missing \cup ids
         /\ AddMissingID(q, ids).added = q.added \cup (ids \ q.missing)
         /\ AddMissingID(q, ids).removed = q.removed \ (ids \ q.missing)
BY DEF AddMissingID, MemoryQueue, Same

LEMMA RemoveMissingFields ==
  ASSUME NEW q \in MemoryQueue, NEW b \in Blocks
  PROVE  /\ RemoveMissingID(q, b) \in MemoryQueue
         /\ Same(RemoveMissingID(q, b), q)
         /\ RemoveMissingID(q, b).missing = q.missing \ {b}
         /\ b \in q.missing => /\ RemoveMissingID(q, b).added = q.added \ {b}
                               /\ RemoveMissingID(q, b).removed = q.removed \cup {b}
         /\ b \notin q.missing => RemoveMissingID(q, b) = q
BY DEF RemoveMissingID, MemoryQueue, Same

LEMMA PushReady ==
  ASSUME NEW q \in MemoryQueue, NEW b \in Blocks \ {Genesis}, NEW known,
         ~HasMissingDependencies(b, known)
  PROVE  /\ Push(q, b, known) \in MemoryQueue
         /\ Push(q, b, known).jobs = q.jobs \cup {b}
         /\ Push(q, b, known).runnable = q.runnable \cup {b}
         /\ Push(q, b, known).dependents = q.dependents
         /\ Push(q, b, known).missing = q.missing
         /\ Push(q, b, known).added = q.added
         /\ Push(q, b, known).removed = q.removed
BY DEF Push, MemoryQueue

\* In r, unlike in q, job b waits for its parent.
Waits(r, q, b) ==
  /\ r.runnable = q.runnable
  /\ \A p \in Blocks : r.dependents[p] = IF p = Parent[b] THEN q.dependents[p] \cup {b}
                                        ELSE q.dependents[p]

LEMMA PushWaits ==
  ASSUME NEW q \in MemoryQueue, NEW b \in Blocks \ {Genesis}, NEW known,
         HasMissingDependencies(b, known)
  PROVE  /\ Push(q, b, known) \in MemoryQueue
         /\ Push(q, b, known).jobs = q.jobs \cup {b}
         /\ Waits(Push(q, b, known), q, b)
         /\ Push(q, b, known).missing = q.missing
         /\ Push(q, b, known).added = q.added
         /\ Push(q, b, known).removed = q.removed
<1>1. Parent[b] \in Blocks BY BlocksAssumption
<1> QED BY <1>1, ZenonT(30) DEF Push, MemoryQueue, Waits

LEMMA PushFields ==
  ASSUME NEW q \in MemoryQueue, NEW b \in Blocks \ {Genesis}, NEW known
  PROVE  /\ Push(q, b, known) \in MemoryQueue
         /\ Push(q, b, known).jobs = q.jobs \cup {b}
         /\ Push(q, b, known).missing = q.missing
         /\ Push(q, b, known).added = q.added
         /\ Push(q, b, known).removed = q.removed
<1>1. CASE ~HasMissingDependencies(b, known) BY <1>1, PushReady, SMT
<1>2. CASE HasMissingDependencies(b, known) BY <1>2, PushWaits, SMT
<1> QED BY <1>1, <1>2

LEMMA CommitFields ==
  ASSUME NEW d \in DiskQueue, NEW q \in MemoryQueue
  PROVE  /\ CommitJobs(d, q) \in DiskQueue /\ Same(CommitJobs(d, q), q)
         /\ CommitJobs(d, q).missing = d.missing
         /\ Commit(d, q) \in DiskQueue /\ Same(Commit(d, q), q)
         /\ Synced(d, q) => Commit(d, q).missing = q.missing
         /\ Committed(q) \in MemoryQueue /\ Same(Committed(q), q)
         /\ Committed(q).missing = q.missing
         /\ Committed(q).added = {} /\ Committed(q).removed = {}
<1>1. CommitJobs(d, q) \in DiskQueue /\ Same(CommitJobs(d, q), q) /\ CommitJobs(d, q).missing = d.missing
  BY DEF CommitJobs, DiskQueue, MemoryQueue, Same
<1>2. /\ Commit(d, q) \in DiskQueue /\ Same(Commit(d, q), CommitJobs(d, q))
      /\ Commit(d, q).missing = (d.missing \cup q.added) \ q.removed
  BY <1>1 DEF Commit, DiskQueue, MemoryQueue, Same
<1>3. Committed(q) \in MemoryQueue /\ Same(Committed(q), q) /\ Committed(q).missing = q.missing
      /\ Committed(q).added = {} /\ Committed(q).removed = {}
  BY DEF Committed, MemoryQueue, Same
<1> QED BY <1>1, <1>2, <1>3 DEF Same, Synced

-----------------------------------------------------------------------------
(* Records that agree satisfy the same predicates. *)

LEMMA SameShape ==
  ASSUME NEW d, NEW q, Same(d, q), NEW known
  PROVE  /\ Shape(q) => Shape(d)
         /\ Ready(q, known) => Ready(d, known)
         /\ Released(q, known) => Released(d, known)
<1>1. Shape(q) => Shape(d) BY DEF Same, Shape
<1>2. Ready(q, known) => Ready(d, known) BY DEF Same, Ready
<1>3. Released(q, known) => Released(d, known) BY DEF Same, Released
<1> QED BY <1>1, <1>2, <1>3

LEMMA SameKept ==
  ASSUME NEW d, NEW q, Same(d, q), NEW hole, NEW hole2, Kept(q, hole),
         q.missing \cup hole \subseteq d.missing \cup hole2
  PROVE  Kept(d, hole2)
BY DEF Same, Kept

-----------------------------------------------------------------------------
(* The missing IDs. *)

LEMMA AddMissingSynced ==
  ASSUME NEW q \in MemoryQueue, NEW ids \in SUBSET Blocks, NEW d, Synced(d, q)
  PROVE  Synced(d, AddMissingID(q, ids))
BY AddMissingFields, SMT DEF Synced

LEMMA RemoveMissingSynced ==
  ASSUME NEW q \in MemoryQueue, NEW b \in Blocks, NEW d, Synced(d, q)
  PROVE  Synced(d, RemoveMissingID(q, b))
<1>1. CASE b \in q.missing BY <1>1, RemoveMissingFields, SMT DEF Synced
<1>2. CASE b \notin q.missing BY <1>2, RemoveMissingFields
<1> QED BY <1>1, <1>2

\* An added ID need not be held by the handler any more.
LEMMA AddMissingKept ==
  ASSUME NEW q \in MemoryQueue, NEW ids \in SUBSET Blocks, NEW hole, Kept(q, hole)
  PROVE  Kept(AddMissingID(q, ids), hole \ ids)
<1> DEFINE r == AddMissingID(q, ids)
<1>1. Same(r, q) /\ r.missing = q.missing \cup ids BY AddMissingFields
<1> HIDE DEF r
<1>2. Kept(r, hole \ ids) BY <1>1, SameKept, SMT
<1> QED BY <1>2 DEF r

LEMMA RemoveMissingKept ==
  ASSUME NEW q \in MemoryQueue, NEW b \in Blocks, NEW hole, Kept(q, hole)
  PROVE  Kept(RemoveMissingID(q, b), hole \cup {b})
<1> DEFINE r == RemoveMissingID(q, b)
<1>1. Same(r, q) /\ r.missing = q.missing \ {b} BY RemoveMissingFields
<1> HIDE DEF r
<1>2. Kept(r, hole \cup {b}) BY <1>1, SameKept, SMT
<1> QED BY <1>2 DEF r

-----------------------------------------------------------------------------
(* Push: the jobs that waited for the block now wait for a job, and the      *)
(* handler goes on to its parent.                                            *)

LEMMA PushPreserves ==
  ASSUME NEW q \in MemoryQueue, NEW b \in Blocks \ {Genesis}, b \notin q.jobs,
         NEW known \in SUBSET Blocks, NEW hole, Shape(q), Kept(q, hole), Ready(q, known), Released(q, known)
  PROVE  /\ Shape(Push(q, b, known))
         /\ Kept(Push(q, b, known), (hole \ {b}) \cup {Parent[b]})
         /\ Ready(Push(q, b, known), known)
         /\ Released(Push(q, b, known), known)
<1> DEFINE r == Push(q, b, known)
           run == IF Parent[b] \in known THEN q.runnable \cup {b} ELSE q.runnable
<1>0. HasMissingDependencies(b, known) <=> Parent[b] \notin known
  BY DEF HasMissingDependencies, MissingDependencies
<1>1. r.jobs = q.jobs \cup {b} /\ r.missing = q.missing BY PushFields, SMT
<1>2. Parent[b] \in Blocks BY BlocksAssumption
<1>3. /\ r.runnable = run
      /\ \A p \in Blocks : r.dependents[p] = IF p = Parent[b] /\ p \notin known
                                             THEN q.dependents[p] \cup {b} ELSE q.dependents[p]
  <2>1. CASE Parent[b] \in known
    <3>1. r.runnable = q.runnable \cup {b} /\ r.dependents = q.dependents BY <1>0, <2>1, PushReady, SMT
    <3> HIDE DEF r
    <3> QED BY <2>1, <3>1
  <2>2. CASE Parent[b] \notin known
    <3>1. HasMissingDependencies(b, known) BY <1>0, <2>2
    <3>2. Waits(r, q, b) BY <3>1, PushWaits
    <3> HIDE DEF r
    <3> QED BY <2>2, <3>2 DEF Waits
  <2> QED BY <2>1, <2>2
<1>4. \A c \in q.jobs : c # b /\ c # Genesis /\ c \in Blocks /\ Parent[c] \in Blocks
  BY BlocksAssumption, SMT DEF Shape, MemoryQueue
<1> HIDE DEF r
<1>5. Shape(r)
  <2>1. r.runnable \subseteq r.jobs /\ Genesis \notin r.jobs BY <1>1, <1>3 DEF Shape
  <2>2. ASSUME NEW p \in Blocks, NEW c \in r.dependents[p]
        PROVE  c \in r.jobs /\ c \notin r.runnable /\ Parent[c] = p
    <3>1. CASE c \in q.dependents[p] BY <3>1, <1>1, <1>3, <1>4, SMT DEF Shape
    <3>2. CASE c \notin q.dependents[p]
      <4>1. c = b /\ p = Parent[b] /\ p \notin known BY <3>2, <2>2, <1>1, <1>3, ZenonT(30)
      <4> QED BY <4>1, <1>1, <1>3 DEF Shape
    <3> QED BY <3>1, <3>2
  <2> QED BY <2>1, <2>2 DEF Shape
<1>6. Kept(r, (hole \ {b}) \cup {Parent[b]})
  <2> SUFFICES ASSUME NEW c \in r.jobs, c \notin r.runnable
               PROVE  /\ c \in r.dependents[Parent[c]]
                      /\ Parent[c] \in r.jobs \cup r.missing \cup ((hole \ {b}) \cup {Parent[b]})
    BY DEF Kept
  <2>1. CASE c = b BY <2>1, <1>1, <1>2, <1>3
  <2>2. CASE c # b
    <3>1. c \in q.jobs /\ c \notin q.runnable BY <2>2, <1>1, <1>3
    <3>2. c \in q.dependents[Parent[c]] /\ Parent[c] \in q.jobs \cup q.missing \cup hole
      BY <3>1 DEF Kept
    <3> QED BY <3>1, <3>2, <1>1, <1>3, <1>4
  <2> QED BY <2>1, <2>2
<1>7. Ready(r, known) BY <1>3 DEF Ready
<1>8. Released(r, known)
  <2> SUFFICES ASSUME NEW p \in known, r.dependents[p] # {} PROVE p \in r.jobs
    BY DEF Released
  <2>1. r.dependents[p] = q.dependents[p] BY <1>3
  <2> QED BY <2>1, <1>1 DEF Released
<1> QED BY <1>5, <1>6, <1>7, <1>8 DEF r

-----------------------------------------------------------------------------
(* ExecuteAll: the handler holds the executed job until its dependents are   *)
(* released.                                                                 *)

LEMMA ExecutePreserves ==
  ASSUME NEW q \in MemoryQueue, NEW b \in q.runnable, NEW known,
         Shape(q), Kept(q, {}), Ready(q, known), Released(q, known)
  PROVE  /\ RemoveRunnableJob(q, b) \in MemoryQueue
         /\ RemoveRunnableJob(q, b).missing = q.missing
         /\ RemoveRunnableJob(q, b).added = q.added
         /\ RemoveRunnableJob(q, b).removed = q.removed
         /\ RemoveRunnableJob(q, b).jobs \subseteq q.jobs
         /\ Shape(RemoveRunnableJob(q, b))
         /\ Kept(RemoveRunnableJob(q, b), {b})
         /\ Ready(RemoveRunnableJob(q, b), known \cup {b})
         /\ Released(RemoveRunnableJob(q, b), (known \cup {b}) \ {b})
<1> DEFINE r == RemoveRunnableJob(q, b)
<1>1. /\ r \in MemoryQueue /\ r.jobs = q.jobs \ {b} /\ r.runnable = q.runnable \ {b}
      /\ r.dependents = q.dependents /\ r.missing = q.missing
      /\ r.added = q.added /\ r.removed = q.removed
  BY DEF RemoveRunnableJob, MemoryQueue
<1> HIDE DEF r
<1>2. Shape(r) BY <1>1, SMT DEF Shape
<1>3. Kept(r, {b}) BY <1>1 DEF Kept
<1>4. Ready(r, known \cup {b}) BY <1>1 DEF Ready
<1>5. Released(r, (known \cup {b}) \ {b}) BY <1>1 DEF Released
<1> QED BY <1>1, <1>2, <1>3, <1>4, <1>5 DEF r

LEMMA ReleasePreserves ==
  ASSUME NEW q \in MemoryQueue, NEW b \in Blocks, NEW known, b \in known,
         Shape(q), Kept(q, {b}), Ready(q, known), Released(q, known \ {b})
  PROVE  /\ ReleaseDependents(q, b, known) \in MemoryQueue
         /\ ReleaseDependents(q, b, known).jobs = q.jobs
         /\ ReleaseDependents(q, b, known).missing = q.missing
         /\ ReleaseDependents(q, b, known).added = q.added
         /\ ReleaseDependents(q, b, known).removed = q.removed
         /\ Shape(ReleaseDependents(q, b, known))
         /\ Kept(ReleaseDependents(q, b, known), {})
         /\ Ready(ReleaseDependents(q, b, known), known)
         /\ Released(ReleaseDependents(q, b, known), known)
<1> DEFINE r == ReleaseDependents(q, b, known)
<1>1. q.dependents \in [Blocks -> SUBSET Blocks] /\ q.jobs \subseteq Blocks /\ q.runnable \subseteq Blocks
  BY DEF MemoryQueue
<1>2. \A d \in q.dependents[b] : ~HasMissingDependencies(d, known)
  BY SMT DEF Shape, HasMissingDependencies, MissingDependencies
<1>3. {d \in q.dependents[b] : ~HasMissingDependencies(d, known)} = q.dependents[b]
  BY <1>2
<1> DEFINE deps == [q.dependents EXCEPT ![b] = {}]
           run == q.runnable \cup q.dependents[b]
<1>4. deps \in [Blocks -> SUBSET Blocks] /\ run \in SUBSET Blocks /\ r = [q EXCEPT !.dependents = deps, !.runnable = run]
  <2>1. deps \in [Blocks -> SUBSET Blocks] /\ run \in SUBSET Blocks BY <1>1
  <2>2. r = [q EXCEPT !.dependents = deps, !.runnable = run] BY <1>3 DEF ReleaseDependents
  <2> QED BY <2>1, <2>2
<1>5. /\ r \in MemoryQueue /\ r.jobs = q.jobs /\ r.runnable = q.runnable \cup q.dependents[b]
      /\ r.dependents = [q.dependents EXCEPT ![b] = {}] /\ r.missing = q.missing
      /\ r.added = q.added /\ r.removed = q.removed
  <2> HIDE DEF deps, run
  <2>1. /\ r \in MemoryQueue /\ r.jobs = q.jobs /\ r.runnable = run /\ r.dependents = deps
        /\ r.missing = q.missing /\ r.added = q.added /\ r.removed = q.removed
    BY <1>4 DEF MemoryQueue
  <2> QED BY <2>1 DEF deps, run
<1>6. \A p \in Blocks : r.dependents[p] = IF p = b THEN {} ELSE q.dependents[p]
  BY <1>1, <1>5
<1>7. \A c \in q.jobs : c # Genesis /\ c \in Blocks /\ Parent[c] \in Blocks
  BY <1>1, BlocksAssumption DEF Shape
<1> HIDE DEF r
<1>8. Shape(r)
  <2>1. r.runnable \subseteq r.jobs /\ Genesis \notin r.jobs BY <1>5 DEF Shape
  <2>2. ASSUME NEW p \in Blocks, NEW c \in r.dependents[p]
        PROVE  c \in r.jobs /\ c \notin r.runnable /\ Parent[c] = p
    <3>1. p # b /\ c \in q.dependents[p] BY <2>2, <1>6
    <3>2. c \in q.jobs /\ c \notin q.runnable /\ Parent[c] = p BY <3>1 DEF Shape
    <3>3. c \notin q.dependents[b] BY <3>1, <3>2 DEF Shape
    <3> QED BY <3>2, <3>3, <1>5
  <2> QED BY <2>1, <2>2 DEF Shape
<1>9. Kept(r, {})
  <2> SUFFICES ASSUME NEW c \in r.jobs, c \notin r.runnable
               PROVE  c \in r.dependents[Parent[c]] /\ Parent[c] \in r.jobs \cup r.missing \cup {}
    BY DEF Kept
  <2>1. c \in q.jobs /\ c \notin q.runnable /\ c \notin q.dependents[b] BY <1>5
  <2>2. c \in q.dependents[Parent[c]] /\ Parent[c] \in q.jobs \cup q.missing \cup {b}
    BY <2>1 DEF Kept
  <2> QED BY <2>1, <2>2, <1>5, <1>6, <1>7
<1>10. Ready(r, known) BY <1>5, SMT DEF Ready, Shape
<1>11. Released(r, known)
  <2> SUFFICES ASSUME NEW p \in known, r.dependents[p] # {} PROVE p \in r.jobs
    BY DEF Released
  <2>1. p # b BY <1>6
  <2>2. r.dependents[p] = q.dependents[p] BY <2>1, <1>5, <1>1, SMT
  <2> QED BY <2>1, <2>2, <1>5 DEF Released
<1> QED BY <1>5, <1>8, <1>9, <1>10, <1>11 DEF r

-----------------------------------------------------------------------------
(* A restart: whatever the VM has lost, the cleaned queue is ready to run.   *)

LEMMA CleanPreserves ==
  ASSUME NEW q \in MemoryQueue, NEW known \in SUBSET Blocks, NEW d,
         Shape(q), Kept(q, {}), Released(q, known), Synced(d, q)
  PROVE  /\ CleanRunnableStack(q, known) \in MemoryQueue
         /\ CleanRunnableStack(q, known).jobs = q.jobs
         /\ CleanRunnableStack(q, known).missing \subseteq q.missing \cup {Parent[b] : b \in q.jobs}
         /\ Shape(CleanRunnableStack(q, known))
         /\ Kept(CleanRunnableStack(q, known), {})
         /\ Ready(CleanRunnableStack(q, known), known)
         /\ Released(CleanRunnableStack(q, known), known)
         /\ Synced(d, CleanRunnableStack(q, known))
<1> DEFINE blocked == {b \in q.runnable : HasMissingDependencies(b, known)}
           deps == [p \in Blocks |-> q.dependents[p] \cup {b \in blocked : Parent[b] = p}]
           moved == [q EXCEPT !.runnable = @ \ blocked, !.dependents = deps]
           ids == UNION {MissingDependencies(b, known) : b \in blocked}
           r == AddMissingID(moved, ids)
<1>1. CleanRunnableStack(q, known) = r BY DEF CleanRunnableStack
<1>2. \A b \in q.jobs : b # Genesis /\ b \in Blocks /\ Parent[b] \in Blocks
  BY BlocksAssumption DEF Shape, MemoryQueue
<1>3. \A b \in q.runnable : b \in q.jobs /\ (b \in blocked <=> Parent[b] \notin known)
  BY <1>2 DEF Shape, HasMissingDependencies, MissingDependencies
<1>4. ids = {Parent[b] : b \in blocked}
  BY <1>2, <1>3 DEF MissingDependencies
<1>5. q.dependents \in [Blocks -> SUBSET Blocks] /\ blocked \subseteq q.runnable /\ q.runnable \subseteq Blocks
  BY DEF MemoryQueue
<1>6. deps \in [Blocks -> SUBSET Blocks]
  BY <1>5
<1> HIDE DEF blocked
<1>7. /\ moved \in MemoryQueue /\ moved.jobs = q.jobs /\ moved.runnable = q.runnable \ blocked
      /\ moved.dependents = deps /\ moved.missing = q.missing
      /\ moved.added = q.added /\ moved.removed = q.removed
  <2> HIDE DEF deps
  <2> QED BY <1>5, <1>6 DEF MemoryQueue
<1>8. \A p \in Blocks : deps[p] = q.dependents[p] \cup {b \in blocked : Parent[b] = p}
  OBVIOUS
<1>9. ids \in SUBSET Blocks BY <1>2, <1>3, <1>4, <1>5
<1> HIDE DEF moved, ids, deps
<1>10. r \in MemoryQueue /\ Same(r, moved) /\ r.missing = q.missing \cup ids
  BY <1>7, <1>9, AddMissingFields, SMT
<1>11. Synced(d, r)
  <2>1. Synced(d, moved) BY <1>7 DEF Synced
  <2> QED BY <2>1, <1>7, <1>9, AddMissingSynced
<1> HIDE DEF r
<1>12. r.jobs = q.jobs /\ r.runnable = q.runnable \ blocked
       /\ \A p \in Blocks : r.dependents[p] = q.dependents[p] \cup {b \in blocked : Parent[b] = p}
  BY <1>7, <1>8, <1>10 DEF Same
<1>13. Shape(r)
  <2>1. r.runnable \subseteq r.jobs /\ Genesis \notin r.jobs BY <1>12 DEF Shape
  <2>2. ASSUME NEW p \in Blocks, NEW c \in r.dependents[p]
        PROVE  c \in r.jobs /\ c \notin r.runnable /\ Parent[c] = p
    <3>1. CASE c \in q.dependents[p] BY <3>1, <1>12 DEF Shape
    <3>2. CASE c \in blocked /\ Parent[c] = p BY <3>2, <1>3, <1>5, <1>12
    <3> QED BY <2>2, <3>1, <3>2, <1>12, SMT
  <2> QED BY <2>1, <2>2 DEF Shape
<1>14. Kept(r, {})
  <2> SUFFICES ASSUME NEW c \in r.jobs, c \notin r.runnable
               PROVE  c \in r.dependents[Parent[c]] /\ Parent[c] \in r.jobs \cup r.missing \cup {}
    BY DEF Kept
  <2>1. CASE c \in blocked BY <2>1, <1>2, <1>3, <1>4, <1>5, <1>10, <1>12, SMT
  <2>2. CASE c \notin blocked
    <3>1. c \in q.jobs /\ c \notin q.runnable BY <2>2, <1>12
    <3>2. c \in q.dependents[Parent[c]] /\ Parent[c] \in q.jobs \cup q.missing BY <3>1 DEF Kept
    <3> QED BY <3>1, <3>2, <1>2, <1>10, <1>12
  <2> QED BY <2>1, <2>2
<1>15. Ready(r, known) BY <1>3, <1>12 DEF Ready
<1>16. Released(r, known)
  <2> SUFFICES ASSUME NEW p \in known, r.dependents[p] # {} PROVE p \in r.jobs
    BY DEF Released
  <2>1. {b \in blocked : Parent[b] = p} = {} BY <1>3, <1>5
  <2>2. r.dependents[p] = q.dependents[p] \cup {b \in blocked : Parent[b] = p} BY <1>12
  <2>3. q.dependents[p] # {} BY <2>1, <2>2
  <2> QED BY <2>3, <1>12 DEF Released
<1>17. r.missing \subseteq q.missing \cup {Parent[b] : b \in q.jobs}
  BY <1>3, <1>4, <1>5, <1>10
<1> QED BY <1>1, <1>10, <1>11, <1>12, <1>13, <1>14, <1>15, <1>16, <1>17

-----------------------------------------------------------------------------
(* The invariant. *)

\* The block that the running handler holds: no longer missing, or no longer queued.
Hole == IF pc \in {"process", "release"} THEN {at} ELSE {}

\* The accepted blocks whose dependents have been released.
Settled == IF pc = "release" THEN accepted \ {at} ELSE accepted

\* With a block, all lower blocks of the chain.
Prefix(S) == \A b \in S, c \in Chain : Height[c] <= Height[b] => c \in S

\* Correct beacons vote for blocks of the chain.
Honest(r) == \A b \in Blocks \ Chain : r.votes[b] \subseteq Faulty

\* The queue on disk fits the VM's disk: the jobs it holds can all be reached.
DiskInv == Shape(db) /\ Kept(db, {}) /\ Released(db, vmDB)

\* The VM accepts along the chain, and the disk lags behind.
VMInv ==
  /\ Genesis \in vmDB /\ vmDB \subseteq Chain /\ Prefix(vmDB)
  /\ accepted \subseteq Chain /\ Prefix(accepted)
  /\ pc # "down" => vmDB \subseteq accepted
  /\ pc # "down" => \A b \in Chain : Height[b] <= startingHeight => b \in accepted

\* The queue in memory fits the running VM, but for the block the handler holds, and
\* is ahead of the disk only inside of a handler.
MemoryInv ==
  /\ Shape(queue) /\ Kept(queue, Hole) /\ Ready(queue, accepted) /\ Released(queue, Settled)
  /\ pc # "down" => Synced(db, queue)
  /\ pc \in {"idle", "execute"} => Same(db, queue)
  /\ pc \in {"execute", "release"} => queue.missing = {}
  /\ pc = "release" => at \in accepted

\* Everything the node works on is a block of the chain.
NetworkInv ==
  /\ at \in Chain /\ todo \subseteq Chain /\ outstanding \subseteq Chain
  /\ queue.jobs \subseteq Chain /\ queue.missing \subseteq Chain
  /\ db.jobs \subseteq Chain /\ db.missing \subseteq Chain
  /\ Honest(round)

IInv == TypeOK /\ DiskInv /\ VMInv /\ MemoryInv /\ NetworkInv

\* After a restart nothing is asked for until the first round ends; from then on every
\* missing block is asked for, or in the handler's hands, or in the VM.
RequestInv ==
  /\ pc = "down" => outstanding = {}
  /\ pc # "down" =>
    \/ outstanding = {} /\ pc = "idle" /\ round.phase # "none"
    \/ \A b \in queue.missing : b \in outstanding \/ CanGet(b) \/ (pc = "process" /\ b \in todo \cup {at})

-----------------------------------------------------------------------------
(* Rounds. *)

LEMMA NoRoundHonest == NoRound \in Rounds /\ Honest(NoRound) /\ NoRound.phase = "none"
BY DEF NoRound, Rounds, Honest

LEMMA SentRound ==
  ASSUME NEW r \in Rounds, NEW s \in Sent(r)
  PROVE  s \in Rounds /\ s.votes = r.votes /\ s.phase = r.phase /\ s.frontier = r.frontier
<1>1. PICK now \in SUBSET r.pendingSend :
         s = [r EXCEPT !.pendingSend = @ \ now, !.pendingReceive = @ \cup now]
  BY DEF Sent, kSubset
<1> QED BY <1>1 DEF Rounds

LEMMA StartupRound ==
  ASSUME Startup
  PROVE  round' \in Rounds /\ Honest(round') /\ round'.phase # "none"
<1>1. PICK S \in Samples :
        \/ round' = [NoRound EXCEPT !.phase = "skip"]
        \/ round' \in Sent([NoRound EXCEPT !.phase = "frontier", !.pendingSend = S])
  BY DEF Startup
<1> DEFINE r == [NoRound EXCEPT !.phase = "frontier", !.pendingSend = S]
           t == [NoRound EXCEPT !.phase = "skip"]
<1>2. S \in SUBSET Beacons BY DEF Samples
<1>3. r \in Rounds /\ r.phase = "frontier" /\ r.votes = NoRound.votes
  BY <1>2, NoRoundHonest DEF Rounds
<1>4. t \in Rounds /\ t.phase = "skip" /\ t.votes = NoRound.votes BY NoRoundHonest DEF Rounds
<1> HIDE DEF r, t
<1>5. round' \in Rounds /\ round'.votes = NoRound.votes /\ round'.phase \in {"frontier", "skip"}
  BY <1>1, <1>3, <1>4, SentRound DEF r, t
<1> QED BY <1>5, NoRoundHonest DEF Honest

LEMMA FrontierRound ==
  ASSUME NEW r \in Rounds, Honest(r), r.phase = "frontier", MarkAcceptedFrontierReceived(r)
  PROVE  round' \in Rounds /\ Honest(round') /\ round'.phase # "none"
<1>1. PICK s \in Sent(r) :
        \/ round' = s
        \/ Startup
        \/ round' \in Sent([NoRound EXCEPT !.phase = "accepted", !.pendingSend = Beacons,
                                           !.frontier = s.frontier])
  BY DEF MarkAcceptedFrontierReceived
<1>2. s \in Rounds /\ s.votes = r.votes /\ s.phase = "frontier" BY SentRound
<1>3. CASE round' = s BY <1>2, <1>3 DEF Honest
<1>4. CASE Startup BY <1>4, StartupRound
<1>5. CASE round' \in Sent([NoRound EXCEPT !.phase = "accepted", !.pendingSend = Beacons,
                                           !.frontier = s.frontier])
  <2> DEFINE t == [NoRound EXCEPT !.phase = "accepted", !.pendingSend = Beacons, !.frontier = s.frontier]
  <2>1. t \in Rounds /\ t.phase = "accepted" /\ t.votes = NoRound.votes
    BY <1>2, NoRoundHonest DEF Rounds
  <2> HIDE DEF t
  <2>2. round' \in Rounds /\ round'.votes = NoRound.votes /\ round'.phase = "accepted"
    BY <1>5, <2>1, SentRound DEF t
  <2> QED BY <2>2, NoRoundHonest DEF Honest
<1> QED BY <1>1, <1>3, <1>4, <1>5

\* Alpha weight takes a correct beacon.
LEMMA SupportedChain ==
  ASSUME NEW r \in Rounds, Honest(r)
  PROVE  Supported(r) \subseteq Chain
<1> SUFFICES ASSUME NEW b \in Blocks, b \notin Chain, WeightOf(r.votes[b]) >= Alpha PROVE FALSE
  BY DEF Supported
<1>1. r.votes[b] \in SUBSET Faulty BY DEF Honest
<1>2. Alpha \in Nat /\ WeightOf(r.votes[b]) \in 0..(Alpha - 1) BY <1>1, BootstrapAssumption
<1> HIDE DEF WeightOf
<1> QED BY <1>2, SMT

LEMMA AcceptedRound ==
  ASSUME NEW r \in Rounds, Honest(r), r.phase = "accepted", MarkAcceptedReceived(r)
  PROVE  \/ /\ round' \in Rounds /\ Honest(round') /\ round'.phase # "none"
            /\ UNCHANGED <<queue, outstanding, loopVars>>
         \/ \E ids \in SUBSET Chain : ForceAccepted(ids)
<1>1. PICK s \in Sent(r) :
        \/ round' = s /\ UNCHANGED <<queue, outstanding, loopVars>>
        \/ Startup /\ UNCHANGED <<queue, outstanding, loopVars>>
        \/ ForceAccepted(Supported(s))
  BY DEF MarkAcceptedReceived
<1>2. s \in Rounds /\ s.votes = r.votes /\ s.phase = "accepted" BY SentRound
<1>3. Honest(s) BY <1>2 DEF Honest
<1>4. CASE round' = s /\ UNCHANGED <<queue, outstanding, loopVars>> BY <1>2, <1>3, <1>4
<1>5. CASE Startup /\ UNCHANGED <<queue, outstanding, loopVars>> BY <1>5, StartupRound
<1>6. CASE ForceAccepted(Supported(s)) BY <1>2, <1>3, <1>6, SupportedChain
<1> QED BY <1>1, <1>4, <1>5, <1>6

\* The round of an answering beacon.
LEMMA AnswerRound ==
  ASSUME IInv, NEW n
  PROVE  /\ Without(n) \in Rounds /\ Honest(Without(n)) /\ Without(n).phase = round.phase
         /\ Without(n).votes = round.votes /\ Without(n).frontier = round.frontier
         /\ Without(n).failed = round.failed
<1>1. round \in Rounds /\ Honest(round) BY DEF IInv, TypeOK, NetworkInv
<1>2. /\ Without(n) \in Rounds /\ Without(n).phase = round.phase /\ Without(n).failed = round.failed
      /\ Without(n).votes = round.votes /\ Without(n).frontier = round.frontier
  BY <1>1 DEF Without, Rounds
<1> QED BY <1>1, <1>2 DEF Honest

-----------------------------------------------------------------------------
(* The inductive invariant: initial states. *)

LEMMA EmptyQueueKept ==
  /\ EmptyQueue \in DiskQueue /\ Load(EmptyQueue) \in MemoryQueue
  /\ Shape(EmptyQueue) /\ Kept(EmptyQueue, {})
  /\ \A S \in SUBSET Blocks : Released(EmptyQueue, S)
  /\ Shape(Load(EmptyQueue))
  /\ \A hole : Kept(Load(EmptyQueue), hole)
  /\ \A S \in SUBSET Blocks : Ready(Load(EmptyQueue), S) /\ Released(Load(EmptyQueue), S)
  /\ Load(EmptyQueue).jobs = {} /\ Load(EmptyQueue).missing = {}
BY DEF EmptyQueue, Load, DiskQueue, MemoryQueue, Shape, Kept, Ready, Released

LEMMA ChainFacts ==
  /\ Chain \subseteq Blocks /\ Genesis \in Chain /\ Height \in [Blocks -> Nat] /\ Height[Genesis] = 0
  /\ \A b \in Chain \ {Genesis} : Parent[b] \in Chain /\ Height[b] = Height[Parent[b]] + 1
  /\ \A b, c \in Chain : Height[b] = Height[c] => b = c
BY BlocksAssumption, BootstrapAssumption

LEMMA InitInv == Init => IInv /\ RequestInv
<1> SUFFICES ASSUME Init PROVE IInv /\ RequestInv OBVIOUS

<1>1. TypeOK BY EmptyQueueKept, NoRoundHonest, ChainFacts DEF Init, TypeOK, None
<1>2. DiskInv BY EmptyQueueKept, ChainFacts, SMT DEF Init, DiskInv
<1>3. VMInv BY ChainFacts, SMT DEF Init, VMInv, Prefix
<1>4. MemoryInv
  <2>1. queue = Load(EmptyQueue) /\ accepted = {} /\ pc = "down" BY DEF Init
  <2>2. accepted \in SUBSET Blocks /\ Settled \in SUBSET Blocks BY <2>1 DEF Settled
  <2> QED BY <2>1, <2>2, EmptyQueueKept DEF MemoryInv
<1>5. NetworkInv BY EmptyQueueKept, NoRoundHonest, ChainFacts DEF Init, NetworkInv, None, EmptyQueue
<1> QED BY <1>1, <1>2, <1>3, <1>4, <1>5 DEF IInv, Init, RequestInv

-----------------------------------------------------------------------------
(* Steps that leave the disk, the VM and the jobs alone: a handler that      *)
(* keeps to the rounds, or that starts to process or to execute.             *)

LEMMA HandlerInv ==
  ASSUME IInv, UNCHANGED <<db, vmDB, accepted, startingHeight>>,
         \/ pc' = pc /\ at' = at /\ queue' = queue
         \/ pc \in {"idle", "execute"} /\ pc' \in {"idle", "process", "execute"},
         pc' = "execute" => queue'.missing = {},
         queue' \in MemoryQueue, Same(queue', queue), queue.missing \subseteq queue'.missing,
         queue'.missing \subseteq Chain, pc # "down" => Synced(db, queue'),
         at' \in Chain, todo' \subseteq Chain, outstanding' \subseteq Chain,
         batch' \subseteq Blocks, parsed' \subseteq Blocks, round' \in Rounds, Honest(round')
  PROVE  IInv'
<1>1. TypeOK'
  BY ChainFacts DEF IInv, TypeOK
<1>2. DiskInv' BY DEF IInv, DiskInv
<1>3. VMInv' BY DEF IInv, VMInv, Prefix
<1>4. NetworkInv' BY DEF IInv, NetworkInv, Same
<1>5. MemoryInv'
  <2>1. CASE pc' = pc /\ at' = at /\ queue' = queue
    BY <2>1 DEF IInv, MemoryInv, Hole, Settled
  <2>2. CASE pc \in {"idle", "execute"} /\ pc' \in {"idle", "process", "execute"}
    <3>1. Kept(queue, {}) /\ Shape(queue) /\ Ready(queue, accepted) /\ Released(queue, accepted)
      BY <2>2 DEF IInv, MemoryInv, Hole, Settled
    <3>2. Kept(queue', Hole') BY <3>1, SameKept
    <3>3. Shape(queue') /\ Ready(queue', accepted) /\ Released(queue', accepted) BY <3>1, SameShape
    <3>4. Settled' = accepted BY <2>2 DEF Settled
    <3>5. Same(db, queue) BY <2>2 DEF IInv, MemoryInv
    <3>6. Same(db', queue') BY <3>5 DEF Same
    <3>7. Synced(db', queue') BY <2>2
    <3> QED BY <2>2, <3>2, <3>3, <3>4, <3>6, <3>7 DEF MemoryInv
  <2> QED BY <2>1, <2>2
<1> QED BY <1>1, <1>2, <1>3, <1>4, <1>5 DEF IInv

LEMMA FrontierInv ==
  ASSUME IInv, NEW n \in Beacons, AcceptedFrontier(n) \/ GetAcceptedFrontierFailed(n)
  PROVE  IInv' /\ round'.phase # "none"
<1>1. round.phase = "frontier" /\ round.pendingReceive \subseteq Beacons
  BY DEF AcceptedFrontier, GetAcceptedFrontierFailed, Expects, IInv, TypeOK, Rounds
<1>2. round' \in Rounds /\ Honest(round') /\ round'.phase # "none"
  <2>1. CASE AcceptedFrontier(n)
    <3>1. PICK b \in Blocks : MarkAcceptedFrontierReceived([Without(n) EXCEPT !.frontier = @ \cup {b}])
      BY <2>1, BootstrapAssumption DEF AcceptedFrontier
    <3> DEFINE r == [Without(n) EXCEPT !.frontier = @ \cup {b}]
    <3>2. r \in Rounds /\ r.votes = Without(n).votes /\ r.phase = "frontier"
      BY <1>1, AnswerRound DEF Rounds
    <3> HIDE DEF r
    <3>3. Honest(r) BY <3>2, AnswerRound DEF Honest
    <3> QED BY <3>1, <3>2, <3>3, FrontierRound DEF r
  <2>2. CASE GetAcceptedFrontierFailed(n)
    <3> DEFINE r == [Without(n) EXCEPT !.failed = @ \cup {n}]
    <3>1. MarkAcceptedFrontierReceived(r) BY <2>2 DEF GetAcceptedFrontierFailed
    <3>2. r \in Rounds /\ r.votes = Without(n).votes /\ r.phase = "frontier"
      BY <1>1, AnswerRound DEF Rounds
    <3> HIDE DEF r
    <3>3. Honest(r) BY <3>2, AnswerRound DEF Honest
    <3> QED BY <3>1, <3>2, <3>3, FrontierRound
  <2> QED BY <2>1, <2>2
<1>3. /\ UNCHANGED <<db, vmDB, accepted, startingHeight, queue, pc, at, todo, outstanding, batch, parsed>>
      /\ pc = "idle"
  BY DEF AcceptedFrontier, GetAcceptedFrontierFailed, diskVars, loopVars, Expects, Idle
<1>4. /\ queue \in MemoryQueue /\ Same(queue, queue) /\ queue.missing \subseteq Chain /\ Synced(db, queue)
      /\ at \in Chain /\ todo \subseteq Chain /\ outstanding \subseteq Chain
      /\ batch \subseteq Blocks /\ parsed \subseteq Blocks
  BY <1>3 DEF IInv, TypeOK, NetworkInv, MemoryInv, Same
<1> QED BY <1>2, <1>3, <1>4, HandlerInv

\* The end of a round, or of Startup without one.
LEMMA ForceAcceptedInv ==
  ASSUME IInv, NEW ids \in SUBSET Chain, ForceAccepted(ids), pc = "idle",
         UNCHANGED <<db, vmDB, accepted, startingHeight, parsed>>
  PROVE  IInv'
<1> DEFINE pending == queue.missing \cup ids
           q == AddMissingID(queue, pending)
<1>1. /\ queue \in MemoryQueue /\ Same(queue, queue) /\ queue.missing \subseteq Chain /\ Synced(db, queue)
      /\ at \in Chain /\ todo \subseteq Chain /\ outstanding \subseteq Chain
      /\ batch \subseteq Blocks /\ parsed \subseteq Blocks
  BY DEF IInv, TypeOK, NetworkInv, MemoryInv, Same
<1>2. pending \in SUBSET Blocks /\ pending \subseteq Chain BY <1>1, ChainFacts
<1>3. q \in MemoryQueue /\ Same(q, queue) /\ q.missing = pending /\ Synced(db, q)
  BY <1>1, <1>2, AddMissingFields, AddMissingSynced, SMT
<1>4. /\ queue' = q /\ round' = NoRound /\ batch' = batch
      /\ outstanding' \subseteq outstanding \cup pending
  BY DEF ForceAccepted, PendingIDs
<1>5. pc' \in {"idle", "process", "execute"} /\ at' \in Chain /\ todo' \subseteq Chain
  BY <1>1, <1>2 DEF ForceAccepted, PendingIDs
<1>6. pc' = "execute" => queue'.missing = {} BY DEF ForceAccepted, MayExecute
<1> HIDE DEF pending, q
<1>7. queue.missing \subseteq pending BY DEF pending
<1> QED BY <1>1, <1>2, <1>3, <1>4, <1>5, <1>6, <1>7, NoRoundHonest, HandlerInv

LEMMA SkipInv ==
  ASSUME IInv, Skip
  PROVE  IInv'
<1>1. /\ ForceAccepted({}) /\ pc = "idle" /\ {} \in SUBSET Chain
      /\ UNCHANGED <<db, vmDB, accepted, startingHeight, parsed>>
  BY DEF Skip, diskVars
<1> QED BY <1>1, ForceAcceptedInv

LEMMA AcceptedInv ==
  ASSUME IInv, NEW n \in Beacons, Accepted(n) \/ GetAcceptedFailed(n)
  PROVE  /\ IInv'
         /\ \/ round'.phase # "none" /\ UNCHANGED <<queue, outstanding, pc, at, todo, accepted, parsed>>
            \/ \E ids \in SUBSET Chain : ForceAccepted(ids) /\ UNCHANGED <<accepted, parsed>>
<1>1. /\ UNCHANGED <<db, vmDB, accepted, startingHeight, parsed>>
      /\ pc = "idle" /\ round.phase = "accepted"
  BY DEF Accepted, GetAcceptedFailed, diskVars, Expects, Idle
<1>2. /\ queue \in MemoryQueue /\ Same(queue, queue) /\ queue.missing \subseteq Chain /\ Synced(db, queue)
      /\ at \in Chain /\ todo \subseteq Chain /\ outstanding \subseteq Chain
      /\ batch \subseteq Blocks /\ parsed \subseteq Blocks
  BY <1>1 DEF IInv, TypeOK, NetworkInv, MemoryInv, Same
<1>3. \/ /\ round' \in Rounds /\ Honest(round') /\ round'.phase # "none"
         /\ UNCHANGED <<queue, outstanding, loopVars>>
      \/ \E ids \in SUBSET Chain : ForceAccepted(ids)
  <2>1. CASE Accepted(n)
    <3>1. PICK ids \in SUBSET Blocks :
            /\ n \notin Faulty => ids \subseteq Chain
            /\ MarkAcceptedReceived([Without(n) EXCEPT
                 !.votes = [b \in Blocks |-> IF b \in ids THEN @[b] \cup {n} ELSE @[b]]])
      BY <2>1, BootstrapAssumption DEF Accepted
    <3> DEFINE v == [b \in Blocks |-> IF b \in ids THEN round.votes[b] \cup {n} ELSE round.votes[b]]
               r == [Without(n) EXCEPT !.votes = v]
    <3>2. MarkAcceptedReceived(r) BY <3>1, AnswerRound
    <3>3. round.votes \in [Blocks -> SUBSET Beacons] /\ Honest(round)
      BY DEF IInv, TypeOK, Rounds, NetworkInv
    <3>4. v \in [Blocks -> SUBSET Beacons] BY <3>3
    <3>5. \A b \in Blocks \ Chain : v[b] \subseteq Faulty BY <3>1, <3>3 DEF Honest
    <3> HIDE DEF v
    <3>6. r \in Rounds /\ r.votes = v /\ r.phase = "accepted"
      BY <1>1, <3>4, AnswerRound DEF Rounds
    <3> HIDE DEF r
    <3>7. Honest(r) BY <3>5, <3>6 DEF Honest
    <3> QED BY <3>2, <3>6, <3>7, AcceptedRound
  <2>2. CASE GetAcceptedFailed(n)
    <3> DEFINE r == [Without(n) EXCEPT !.failed = @ \cup {n}]
    <3>1. MarkAcceptedReceived(r) BY <2>2 DEF GetAcceptedFailed
    <3>2. r \in Rounds /\ r.votes = Without(n).votes /\ r.phase = "accepted"
      BY <1>1, AnswerRound DEF Rounds
    <3> HIDE DEF r
    <3>3. Honest(r) BY <3>2, AnswerRound DEF Honest
    <3> QED BY <3>1, <3>2, <3>3, AcceptedRound
  <2> QED BY <2>1, <2>2
<1>4. CASE /\ round' \in Rounds /\ Honest(round') /\ round'.phase # "none"
           /\ UNCHANGED <<queue, outstanding, loopVars>>
  BY <1>1, <1>2, <1>4, HandlerInv DEF loopVars
<1>5. CASE \E ids \in SUBSET Chain : ForceAccepted(ids)
  BY <1>1, <1>5, ForceAcceptedInv
<1> QED BY <1>1, <1>3, <1>4, <1>5 DEF loopVars

\* What HandlerInv asks for holds of the state before the step.
LEMMA HandlerFacts ==
  ASSUME IInv, pc # "down"
  PROVE  /\ queue \in MemoryQueue /\ Same(queue, queue) /\ queue.missing \subseteq Chain
         /\ Synced(db, queue)
         /\ at \in Chain /\ todo \subseteq Chain /\ outstanding \subseteq Chain
         /\ batch \subseteq Blocks /\ parsed \subseteq Blocks /\ round \in Rounds /\ Honest(round)
BY DEF IInv, TypeOK, NetworkInv, MemoryInv, Same

LEMMA FetchInv ==
  ASSUME IInv, NEW b \in Blocks, Ancestors(b) \/ GetAncestorsFailed(b)
  PROVE  IInv'
<1>1. UNCHANGED <<db, vmDB, accepted, startingHeight, queue, todo>> /\ pc = "idle"
      /\ outstanding' \subseteq outstanding /\ b \in outstanding
  BY DEF Ancestors, GetAncestorsFailed, Refetch, diskVars, Idle
<1>2. CASE Ancestors(b)
  <2>1. pc' = "process" /\ at' = b /\ batch' \subseteq Blocks /\ round' = round
    BY <1>2 DEF Ancestors
  <2>2. parsed' \subseteq Blocks
    BY <1>1, <1>2, HandlerFacts DEF Ancestors
  <2> QED BY <1>1, <2>1, <2>2, HandlerFacts, HandlerInv
<1>3. CASE GetAncestorsFailed(b)
  <2>1. at' = at /\ batch' = batch /\ round' \in {round, NoRound} /\ pc' \in {"idle", "execute"}
    BY <1>1, <1>3 DEF GetAncestorsFailed, Refetch
  <2>2. pc' = "execute" => queue.missing = {}
    BY <1>1, <1>3 DEF GetAncestorsFailed, Refetch, MayExecute
  <2>3. parsed' \subseteq Blocks
    BY <1>1, <1>3, HandlerFacts DEF GetAncestorsFailed
  <2> QED BY <1>1, <2>1, <2>2, <2>3, HandlerFacts, NoRoundHonest, HandlerInv
<1> QED BY <1>2, <1>3

LEMMA TimerInv ==
  ASSUME IInv, Executed \/ Timeout
  PROVE  IInv'
<1>1. /\ UNCHANGED <<db, vmDB, accepted, startingHeight, queue, todo, outstanding, at, batch, parsed>>
      /\ pc \in {"idle", "execute"} /\ pc' \in {"idle", "execute"} /\ (pc' = "execute" => pc = "execute")
      /\ (Startup \/ round' = round)
  BY DEF Executed, Timeout, diskVars, loopVars, Idle
<1>2. round' \in Rounds /\ Honest(round') BY <1>1, StartupRound, HandlerFacts
<1>3. pc = "execute" => queue.missing = {} BY DEF IInv, MemoryInv
<1> QED BY <1>1, <1>2, <1>3, HandlerFacts, HandlerInv

LEMMA EnvironmentInv ==
  ASSUME IInv, SubnetBootstrapped \/ Stabilize \/ UNCHANGED vars
  PROVE  IInv'
<1>1. UNCHANGED <<db, vmDB, queue, accepted, parsed, startingHeight, pc, at, batch, todo, outstanding, round>>
  BY DEF SubnetBootstrapped, Stabilize, diskVars, loopVars, vars
<1>2. TypeOK' BY <1>1 DEF IInv, TypeOK
<1>3. DiskInv' BY <1>1 DEF IInv, DiskInv
<1>4. VMInv' BY <1>1 DEF IInv, VMInv
<1>5. MemoryInv' BY <1>1 DEF IInv, MemoryInv, Hole, Settled
<1>6. NetworkInv' BY <1>1 DEF IInv, NetworkInv
<1> QED BY <1>2, <1>3, <1>4, <1>5, <1>6 DEF IInv

-----------------------------------------------------------------------------
(* process. *)

\* A queue without a hole is committed.
LEMMA StopInv ==
  ASSUME IInv, pc = "process", NEW q \in MemoryQueue, StopProcess(q),
         Shape(q), Kept(q, {}), Ready(q, accepted), Released(q, accepted), Synced(db, q),
         q.jobs \subseteq Chain, q.missing \subseteq Chain,
         UNCHANGED <<vmDB, accepted, parsed, startingHeight>>,
         outstanding' \subseteq Chain, round' \in Rounds, Honest(round')
  PROVE  IInv'
<1>1. queue' = Committed(q) /\ db' = Commit(db, q) /\ batch' = {} BY DEF StopProcess
<1>2. db \in DiskQueue /\ todo \subseteq Chain BY DEF IInv, TypeOK, NetworkInv
<1>3. /\ db' \in DiskQueue /\ Same(db', q) /\ db'.missing = q.missing
      /\ queue' \in MemoryQueue /\ Same(queue', q) /\ queue'.missing = q.missing
      /\ queue'.added = {} /\ queue'.removed = {}
  BY <1>1, <1>2, CommitFields
<1>4. pc' \in {"idle", "process", "execute"} /\ at' \in Chain /\ todo' \subseteq Chain
  BY <1>2, ChainFacts DEF StopProcess, None
<1>5. pc' = "execute" => q.missing = {} BY DEF StopProcess, MayExecute
<1>6. vmDB \subseteq accepted BY DEF IInv, VMInv
<1>7. TypeOK' BY <1>1, <1>3, <1>4, ChainFacts DEF IInv, TypeOK
<1>8. DiskInv'
  <2>1. Shape(db') /\ Kept(db', {}) BY <1>3, SameShape, SameKept
  <2>2. Released(db', accepted) BY <1>3, SameShape
  <2> QED BY <2>1, <2>2, <1>6 DEF DiskInv, Released
<1>9. VMInv' BY <1>4 DEF IInv, VMInv, Prefix
<1>10. MemoryInv'
  <2>1. Shape(queue') /\ Ready(queue', accepted) /\ Released(queue', accepted) BY <1>3, SameShape
  <2>2. Kept(queue', Hole') BY <1>3, SameKept
  <2>3. Synced(db', queue') /\ Same(db', queue') BY <1>3 DEF Synced, Same
  <2>4. Settled' = accepted BY <1>4 DEF Settled
  <2> QED BY <2>1, <2>2, <2>3, <2>4, <1>3, <1>4, <1>5 DEF MemoryInv
<1>11. NetworkInv' BY <1>3, <1>4 DEF NetworkInv, Same
<1> QED BY <1>7, <1>8, <1>9, <1>10, <1>11 DEF IInv

\* The block at is taken off the missing ones.
LEMMA TakenOff ==
  ASSUME IInv, pc = "process"
  PROVE  LET q == RemoveMissingID(queue, at)
         IN  /\ q \in MemoryQueue /\ Same(q, queue) /\ q.missing = queue.missing \ {at}
             /\ Shape(q) /\ Kept(q, {at}) /\ Ready(q, accepted) /\ Released(q, accepted) /\ Synced(db, q)
             /\ q.jobs \subseteq Chain /\ q.missing \subseteq Chain
<1> DEFINE q == RemoveMissingID(queue, at)
<1>1. queue \in MemoryQueue /\ at \in Blocks /\ Synced(db, queue) /\ Kept(queue, {at})
      /\ Shape(queue) /\ Ready(queue, accepted) /\ Released(queue, accepted)
  BY DEF IInv, TypeOK, MemoryInv, Hole, Settled
<1>2. q \in MemoryQueue /\ Same(q, queue) /\ q.missing = queue.missing \ {at} /\ Synced(db, q)
  BY <1>1, RemoveMissingFields, RemoveMissingSynced
<1> HIDE DEF q
<1>3. Shape(q) /\ Ready(q, accepted) /\ Released(q, accepted) BY <1>1, <1>2, SameShape
<1>4. Kept(q, {at}) BY <1>1, <1>2, SameKept
<1>5. q.jobs \subseteq Chain /\ q.missing \subseteq Chain BY <1>2 DEF IInv, NetworkInv, Same
<1> QED BY <1>2, <1>3, <1>4, <1>5 DEF q

LEMMA ProcessInv ==
  ASSUME IInv, Process
  PROVE  IInv'
<1> DEFINE q == RemoveMissingID(queue, at)
<1>1. pc = "process" /\ UNCHANGED <<vmDB, accepted, parsed, startingHeight>>
  BY DEF Process, vmVars
<1>2. /\ q \in MemoryQueue /\ Same(q, queue) /\ q.missing = queue.missing \ {at}
      /\ Shape(q) /\ Kept(q, {at}) /\ Ready(q, accepted) /\ Released(q, accepted) /\ Synced(db, q)
      /\ q.jobs \subseteq Chain /\ q.missing \subseteq Chain
  BY <1>1, TakenOff
<1>3. /\ at \in Chain /\ outstanding \subseteq Chain /\ round \in Rounds /\ Honest(round)
      /\ accepted \subseteq Blocks /\ Genesis \in accepted
  BY <1>1, ChainFacts DEF IInv, TypeOK, NetworkInv, VMInv
<1>4. \A b \in Chain : Height[b] <= startingHeight => b \in accepted
  BY <1>1 DEF IInv, VMInv
<1>5. CASE ProcessAccepted
  <2>1. at \in accepted /\ StopProcess(q) /\ UNCHANGED <<outstanding, round>>
    BY <1>3, <1>4, <1>5 DEF ProcessAccepted
  <2> HIDE DEF q
  <2>2. Kept(q, {})
    <3> SUFFICES ASSUME NEW b \in q.jobs, b \notin q.runnable
                 PROVE  b \in q.dependents[Parent[b]] /\ Parent[b] \in q.jobs \cup q.missing \cup {}
      BY DEF Kept
    <3>1. b \in q.dependents[Parent[b]] /\ Parent[b] \in q.jobs \cup q.missing \cup {at}
      BY <1>2 DEF Kept
    <3>2. Parent[b] = at => at \in q.jobs BY <3>1, <2>1, <1>2 DEF Released
    <3> QED BY <3>1, <3>2
  <2> QED BY <1>1, <1>2, <1>3, <2>1, <2>2, StopInv
<1>6. CASE ProcessPushed
  <2>1. at \in q.jobs /\ StopProcess(q) /\ UNCHANGED <<outstanding, round>>
    BY <1>6 DEF ProcessPushed, Has
  <2> HIDE DEF q
  <2>2. Kept(q, {}) BY <1>2, <2>1 DEF Kept
  <2> QED BY <1>1, <1>2, <1>3, <2>1, <2>2, StopInv
<1>7. CASE ProcessPush
  <2> DEFINE pushed == Push(q, at, accepted)
             parent == Parent[at]
             r == AddMissingID(pushed, {parent})
  <2>1. at \in Blocks \ {Genesis} /\ at \notin q.jobs /\ parent \in Chain
    BY <1>2, <1>3, <1>7, ChainFacts DEF ProcessPush, Has
  <2>2. \/ /\ queue' = pushed /\ at' = parent
           /\ UNCHANGED <<db, pc, batch, todo, forcing, outstanding, round>>
        \/ /\ StopProcess(r)
           /\ outstanding' = outstanding \cup {parent} /\ round' \in {round, NoRound}
    BY <1>7 DEF ProcessPush
  <2> HIDE DEF q
  <2>3. /\ pushed \in MemoryQueue /\ pushed.jobs = q.jobs \cup {at} /\ pushed.missing = q.missing
        /\ pushed.added = q.added /\ pushed.removed = q.removed
    BY <1>2, <2>1, PushFields, SMT
  <2>4. /\ Shape(pushed) /\ Kept(pushed, ({at} \ {at}) \cup {parent})
        /\ Ready(pushed, accepted) /\ Released(pushed, accepted)
    BY <1>2, <1>3, <2>1, PushPreserves
  <2>5. Synced(db, pushed) BY <1>2, <2>3 DEF Synced
  <2>6. pushed.jobs \subseteq Chain /\ pushed.missing \subseteq Chain BY <1>2, <1>3, <2>3
  <2> HIDE DEF pushed, parent
  <2>7. Kept(pushed, {parent}) BY <2>4
  <2>8. CASE /\ queue' = pushed /\ at' = parent
             /\ UNCHANGED <<db, pc, batch, todo, forcing, outstanding, round>>
    <3>1. TypeOK' BY <1>1, <2>1, <2>3, <2>8, ChainFacts DEF IInv, TypeOK
    <3>2. DiskInv' BY <1>1, <2>8 DEF IInv, DiskInv
    <3>3. VMInv' BY <1>1, <2>8 DEF IInv, VMInv, Prefix
    <3>4. Hole' = {parent} /\ Settled' = accepted BY <1>1, <2>8 DEF Hole, Settled
    <3>5. MemoryInv' BY <1>1, <2>4, <2>5, <2>7, <2>8, <3>4 DEF MemoryInv
    <3>6. NetworkInv' BY <2>1, <2>6, <2>8 DEF IInv, NetworkInv
    <3> QED BY <3>1, <3>2, <3>3, <3>5, <3>6 DEF IInv
  <2>9. CASE /\ StopProcess(r)
             /\ outstanding' = outstanding \cup {parent} /\ round' \in {round, NoRound}
    <3>1. {parent} \in SUBSET Blocks BY <2>1, ChainFacts
    <3>2. r \in MemoryQueue /\ Same(r, pushed) /\ r.missing = pushed.missing \cup {parent} /\ Synced(db, r)
      BY <2>3, <2>5, <3>1, AddMissingFields, AddMissingSynced
    <3> HIDE DEF r
    <3>3. Shape(r) /\ Ready(r, accepted) /\ Released(r, accepted) BY <2>4, <3>2, SameShape
    <3>4. Kept(r, {}) BY <2>7, <3>2, SameKept
    <3>5. r.jobs \subseteq Chain /\ r.missing \subseteq Chain BY <2>1, <2>6, <3>2 DEF Same
    <3>6. outstanding' \subseteq Chain /\ round' \in Rounds /\ Honest(round')
      BY <1>3, <2>1, <2>9, NoRoundHonest
    <3> QED BY <1>1, <2>9, <3>2, <3>3, <3>4, <3>5, <3>6, StopInv
  <2> QED BY <2>2, <2>8, <2>9
<1> QED BY <1>5, <1>6, <1>7 DEF Process

-----------------------------------------------------------------------------
(* Execution. *)

LEMMA PrefixGrows ==
  ASSUME NEW S \in SUBSET Chain, Prefix(S), NEW b \in Chain \ {Genesis}, Parent[b] \in S
  PROVE  Prefix(S \cup {b})
<1> SUFFICES ASSUME NEW a \in S \cup {b}, NEW c \in Chain, Height[c] <= Height[a] PROVE c \in S \cup {b}
  BY DEF Prefix
<1>1. CASE a \in S BY <1>1 DEF Prefix
<1>2. CASE a = b
  <2>1. Height[b] = Height[Parent[b]] + 1 /\ Height[c] \in Nat /\ Height[Parent[b]] \in Nat
    BY ChainFacts
  <2>2. Height[c] = Height[b] \/ Height[c] <= Height[Parent[b]] BY <1>2, <2>1, SMT
  <2> QED BY <2>2, ChainFacts DEF Prefix
<1> QED BY <1>1, <1>2

LEMMA ExecuteJobInv ==
  ASSUME IInv, ExecuteJob
  PROVE  IInv'
<1>1. PICK b \in queue.runnable :
        /\ queue' = RemoveRunnableJob(queue, b) /\ accepted' = accepted \cup {b}
        /\ vmDB' \in {vmDB, accepted'} /\ at' = b
  BY DEF ExecuteJob
<1>2. /\ pc = "execute" /\ pc' = "release"
      /\ UNCHANGED <<db, parsed, startingHeight, batch, todo, outstanding, round>>
  BY DEF ExecuteJob
<1>3. /\ queue \in MemoryQueue /\ Shape(queue) /\ Kept(queue, {}) /\ Ready(queue, accepted)
      /\ Released(queue, accepted) /\ Synced(db, queue) /\ Same(db, queue) /\ queue.missing = {}
  BY <1>2 DEF IInv, TypeOK, MemoryInv, Hole, Settled
<1>4. /\ b \in queue.jobs /\ b \in Chain \ {Genesis} /\ Parent[b] \in accepted
      /\ vmDB \subseteq accepted /\ accepted \subseteq Chain /\ Prefix(accepted) /\ Genesis \in vmDB
  BY <1>2, <1>3, SMT DEF Shape, Ready, IInv, NetworkInv, VMInv
<1>5. /\ queue' \in MemoryQueue /\ queue'.missing = queue.missing /\ queue'.jobs \subseteq queue.jobs
      /\ queue'.added = queue.added /\ queue'.removed = queue.removed
      /\ Shape(queue') /\ Kept(queue', {b}) /\ Ready(queue', accepted \cup {b})
      /\ Released(queue', (accepted \cup {b}) \ {b})
  BY <1>1, <1>3, ExecutePreserves
<1>6. Prefix(accepted') /\ accepted' \subseteq Chain BY <1>1, <1>4, PrefixGrows
<1>7. TypeOK' BY <1>1, <1>2, <1>4, <1>5, <1>6, ChainFacts DEF IInv, TypeOK
<1>8. DiskInv'
  <2>1. Released(db, accepted) BY <1>3, SameShape
  <2>2. b \in db.jobs BY <1>3, <1>4 DEF Same
  <2>3. Released(db, accepted \cup {b}) BY <2>1, <2>2 DEF Released
  <2>4. Released(db, vmDB') BY <1>1, <1>4, <2>3 DEF Released
  <2> QED BY <1>2, <2>4 DEF IInv, DiskInv
<1>9. VMInv'
  <2>1. CASE vmDB' = vmDB BY <1>1, <1>2, <1>4, <1>6, <2>1 DEF IInv, VMInv
  <2>2. CASE vmDB' = accepted' BY <1>1, <1>2, <1>4, <1>6, <2>2 DEF IInv, VMInv
  <2> QED BY <1>1, <2>1, <2>2
<1>10. MemoryInv'
  <2>1. Hole' = {b} /\ Settled' = (accepted \cup {b}) \ {b} BY <1>1, <1>2 DEF Hole, Settled
  <2>2. Synced(db', queue') BY <1>2, <1>3, <1>5 DEF Synced
  <2> QED BY <1>1, <1>2, <1>3, <1>5, <2>1, <2>2 DEF MemoryInv
<1>11. NetworkInv' BY <1>1, <1>2, <1>4, <1>5 DEF IInv, NetworkInv
<1> QED BY <1>7, <1>8, <1>9, <1>10, <1>11 DEF IInv

LEMMA ReleaseJobsInv ==
  ASSUME IInv, ReleaseJobs
  PROVE  IInv'
<1>1. /\ pc = "release" /\ pc' = "execute" /\ at' = Genesis
      /\ queue' = ReleaseDependents(queue, at, accepted) /\ db' = CommitJobs(db, queue')
      /\ UNCHANGED <<vmDB, accepted, parsed, startingHeight, batch, todo, outstanding, round>>
  BY DEF ReleaseJobs, vmVars, None
<1>2. /\ queue \in MemoryQueue /\ db \in DiskQueue /\ at \in Blocks /\ at \in accepted
      /\ Shape(queue) /\ Kept(queue, {at}) /\ Ready(queue, accepted) /\ Released(queue, accepted \ {at})
      /\ Synced(db, queue) /\ queue.missing = {} /\ vmDB \subseteq accepted
  BY <1>1 DEF IInv, TypeOK, MemoryInv, Hole, Settled, VMInv
<1>3. /\ queue' \in MemoryQueue /\ queue'.jobs = queue.jobs /\ queue'.missing = queue.missing
      /\ queue'.added = queue.added /\ queue'.removed = queue.removed
      /\ Shape(queue') /\ Kept(queue', {}) /\ Ready(queue', accepted) /\ Released(queue', accepted)
  BY <1>1, <1>2, ReleasePreserves, SMT
<1>4. db' \in DiskQueue /\ Same(db', queue') /\ db'.missing = db.missing
  BY <1>1, <1>2, <1>3, CommitFields
<1>5. TypeOK' BY <1>1, <1>3, <1>4, BlocksAssumption DEF IInv, TypeOK
<1>6. DiskInv'
  <2>1. Shape(db') /\ Released(db', accepted) BY <1>3, <1>4, SameShape
  <2>2. Kept(db', {}) BY <1>2, <1>3, <1>4, SameKept
  <2> QED BY <1>1, <1>2, <2>1, <2>2 DEF DiskInv, Released
<1>7. VMInv' BY <1>1 DEF IInv, VMInv, Prefix
<1>8. MemoryInv'
  <2>1. Hole' = {} /\ Settled' = accepted BY <1>1 DEF Hole, Settled
  <2>2. Synced(db', queue') BY <1>2, <1>3, <1>4 DEF Synced
  <2> QED BY <1>1, <1>2, <1>3, <1>4, <2>1, <2>2 DEF MemoryInv
<1>9. NetworkInv' BY <1>1, <1>3, <1>4, ChainFacts DEF IInv, NetworkInv, Same
<1> QED BY <1>5, <1>6, <1>7, <1>8, <1>9 DEF IInv

-----------------------------------------------------------------------------
(* Crashes and restarts. *)

LEMMA DownInv ==
  ASSUME IInv, Down, db' \in DiskQueue, Shape(db'), Kept(db', {}), Released(db', vmDB),
         db'.jobs \subseteq Chain, db'.missing \subseteq Chain
  PROVE  IInv'
<1>1. /\ pc' = "down" /\ queue' = Load(EmptyQueue) /\ accepted' = {} /\ parsed' = {} /\ startingHeight' = 0
      /\ at' = Genesis /\ batch' = {} /\ todo' = {} /\ outstanding' = {} /\ round' = NoRound /\ vmDB' = vmDB
  BY DEF Down, None
<1>2. TypeOK' BY <1>1, EmptyQueueKept, NoRoundHonest, BlocksAssumption DEF IInv, TypeOK
<1>3. DiskInv' BY <1>1 DEF DiskInv
<1>4. VMInv' BY <1>1 DEF IInv, VMInv, Prefix
<1>5. MemoryInv'
  <2>1. Settled' \in SUBSET Blocks /\ accepted' \in SUBSET Blocks BY <1>1 DEF Settled
  <2> QED BY <1>1, <2>1, EmptyQueueKept DEF MemoryInv
<1>6. NetworkInv' BY <1>1, EmptyQueueKept, NoRoundHonest, ChainFacts DEF NetworkInv
<1> QED BY <1>2, <1>3, <1>4, <1>5, <1>6 DEF IInv

LEMMA CrashInv ==
  ASSUME IInv, Crash
  PROVE  IInv'
<1>1. Down /\ db' = db BY DEF Crash
<1> QED BY <1>1, DownInv DEF IInv, TypeOK, DiskInv, NetworkInv

LEMMA ProcessHaltedInv ==
  ASSUME IInv, ProcessHalted
  PROVE  IInv'
<1> DEFINE q == AddMissingID(queue, {at})
<1>1. Down /\ db' = Commit(db, q) /\ pc = "process" BY DEF ProcessHalted
<1>2. /\ queue \in MemoryQueue /\ db \in DiskQueue /\ {at} \in SUBSET Blocks /\ at \in Chain
      /\ Shape(queue) /\ Kept(queue, {at}) /\ Released(queue, accepted) /\ Synced(db, queue)
      /\ queue.jobs \subseteq Chain /\ queue.missing \subseteq Chain /\ vmDB \subseteq accepted
  BY <1>1 DEF IInv, TypeOK, MemoryInv, Hole, Settled, NetworkInv, VMInv
<1>3. q \in MemoryQueue /\ Same(q, queue) /\ q.missing = queue.missing \cup {at} /\ Synced(db, q)
  BY <1>2, AddMissingFields, AddMissingSynced
<1> HIDE DEF q
<1>4. db' \in DiskQueue /\ Same(db', q) /\ db'.missing = q.missing BY <1>1, <1>2, <1>3, CommitFields
<1>5. Same(db', queue) BY <1>3, <1>4 DEF Same
<1>6. Shape(db') /\ Released(db', accepted) BY <1>2, <1>5, SameShape
<1>7. Kept(db', {}) BY <1>2, <1>3, <1>4, <1>5, SameKept, SMT
<1>8. Released(db', vmDB) BY <1>2, <1>6 DEF Released
<1>9. db'.jobs \subseteq Chain /\ db'.missing \subseteq Chain BY <1>2, <1>3, <1>4, <1>5 DEF Same
<1> QED BY <1>1, <1>4, <1>6, <1>7, <1>8, <1>9, DownInv

LEMMA StartInv ==
  ASSUME IInv, Start
  PROVE  IInv' /\ outstanding' = outstanding /\ pc' = "idle" /\ round'.phase # "none"
<1> DEFINE q == CleanRunnableStack(Load(db), vmDB)
<1>1. /\ queue' = Committed(q) /\ db' = Commit(db, q) /\ accepted' = vmDB /\ pc' = "idle" /\ Startup
      /\ UNCHANGED <<vmDB, parsed, at, batch, todo, outstanding>>
  BY DEF Start
<1>2. PICK last \in vmDB : startingHeight' = Height[last] BY DEF Start
<1>3. /\ db \in DiskQueue /\ Shape(db) /\ Kept(db, {}) /\ Released(db, vmDB)
      /\ vmDB \subseteq Chain /\ vmDB \in SUBSET Blocks /\ Genesis \in vmDB /\ Prefix(vmDB)
      /\ db.jobs \subseteq Chain /\ db.missing \subseteq Chain
  BY DEF IInv, TypeOK, DiskInv, VMInv, NetworkInv
<1>4. /\ Load(db) \in MemoryQueue /\ Same(Load(db), db) /\ Load(db).missing = db.missing /\ Synced(db, Load(db))
  BY <1>3 DEF Load, DiskQueue, MemoryQueue, Same, Synced
<1>5. Shape(Load(db)) /\ Kept(Load(db), {}) /\ Released(Load(db), vmDB)
  BY <1>3, <1>4, SameShape, SameKept
<1>6. /\ q \in MemoryQueue /\ q.jobs = Load(db).jobs
      /\ q.missing \subseteq Load(db).missing \cup {Parent[b] : b \in Load(db).jobs}
      /\ Shape(q) /\ Kept(q, {}) /\ Ready(q, vmDB) /\ Released(q, vmDB) /\ Synced(db, q)
  BY <1>3, <1>4, <1>5, CleanPreserves
<1> HIDE DEF q
<1>7. q.jobs \subseteq Chain /\ q.missing \subseteq Chain
  BY <1>3, <1>4, <1>6, ChainFacts, SMT DEF Same, Shape
<1>8. /\ db' \in DiskQueue /\ Same(db', q) /\ db'.missing = q.missing
      /\ queue' \in MemoryQueue /\ Same(queue', q) /\ queue'.missing = q.missing
      /\ queue'.added = {} /\ queue'.removed = {}
  BY <1>1, <1>3, <1>6, CommitFields
<1>9. round' \in Rounds /\ Honest(round') /\ round'.phase # "none" BY <1>1, StartupRound
<1>10. TypeOK' BY <1>1, <1>2, <1>3, <1>8, <1>9, ChainFacts DEF IInv, TypeOK
<1>11. DiskInv' BY <1>1, <1>6, <1>8, SameShape, SameKept DEF DiskInv
<1>12. VMInv' BY <1>1, <1>2, <1>3 DEF VMInv, Prefix
<1>13. MemoryInv'
  <2>1. Shape(queue') /\ Kept(queue', {}) /\ Ready(queue', vmDB) /\ Released(queue', vmDB)
    BY <1>6, <1>8, SameShape, SameKept
  <2>2. Hole' = {} /\ Settled' = vmDB BY <1>1 DEF Hole, Settled
  <2>3. Synced(db', queue') /\ Same(db', queue') BY <1>8 DEF Synced, Same
  <2> QED BY <1>1, <2>1, <2>2, <2>3 DEF MemoryInv
<1>14. NetworkInv' BY <1>1, <1>7, <1>8, <1>9 DEF IInv, NetworkInv, Same
<1> QED BY <1>1, <1>9, <1>10, <1>11, <1>12, <1>13, <1>14 DEF IInv

LEMMA NextInv == IInv /\ [Next]_vars => IInv'
<1> SUFFICES ASSUME IInv, [Next]_vars PROVE IInv' OBVIOUS
<1>1. CASE Progress
  <2>1. CASE Process BY <2>1, ProcessInv
  <2>2. CASE ExecuteJob BY <2>2, ExecuteJobInv
  <2>3. CASE ReleaseJobs BY <2>3, ReleaseJobsInv
  <2>4. CASE Executed \/ Timeout BY <2>4, TimerInv
  <2>5. CASE \E n \in Beacons : AcceptedFrontier(n) \/ Accepted(n) BY <2>5, FrontierInv, AcceptedInv
  <2>6. CASE \E b \in Blocks : Ancestors(b) BY <2>6, FetchInv
  <2>7. CASE Start BY <2>7, StartInv
  <2>8. CASE Skip BY <2>8, SkipInv
  <2> QED BY <1>1, <2>1, <2>2, <2>3, <2>4, <2>5, <2>6, <2>7, <2>8 DEF Progress
<1>2. CASE Failure
  <2>1. CASE \E n \in Beacons : GetAcceptedFrontierFailed(n) \/ GetAcceptedFailed(n)
    BY <2>1, FrontierInv, AcceptedInv
  <2>2. CASE \E b \in Blocks : GetAncestorsFailed(b) BY <2>2, FetchInv
  <2>3. CASE Crash BY <2>3, CrashInv
  <2>4. CASE ProcessHalted BY <2>4, ProcessHaltedInv
  <2> QED BY <1>2, <2>1, <2>2, <2>3, <2>4 DEF Failure
<1>3. CASE SubnetBootstrapped \/ Stabilize \/ UNCHANGED vars BY <1>3, EnvironmentInv
<1> QED BY <1>1, <1>2, <1>3 DEF Next

\* The queue in memory and the queue on disk keep their shape and fit the VM's disk
\* and the chain through every handler, halt, crash and start.
THEOREM Invariant == Spec => []IInv
BY InitInv, NextInv, PTL DEF Spec

-----------------------------------------------------------------------------
(* Requests. *)

\* A step of process takes the block at off the missing ones and adds only a block
\* that it asks for.
LEMMA StopRequest ==
  ASSUME IInv, pc = "process", NEW q \in MemoryQueue, StopProcess(q), UNCHANGED <<accepted, parsed>>,
         \A b \in q.missing : b \in outstanding' \/ CanGet(b) \/ b \in todo
  PROVE  RequestInv'
<1>1. queue'.missing = q.missing
  BY CommitFields DEF StopProcess, IInv, TypeOK
<1>2. \/ q.missing = {} /\ pc' = "execute"
      \/ \E b \in todo : at' = b /\ todo' = todo \ {b} /\ pc' = "process"
      \/ todo = {}
  BY DEF StopProcess, MayExecute
<1>3. \A b \in q.missing : b \in outstanding' \/ CanGet(b) \/ (pc' = "process" /\ b \in todo' \cup {at'})
  BY <1>2
<1>4. pc' # "down" BY DEF StopProcess
<1> QED BY <1>1, <1>3, <1>4 DEF RequestInv, CanGet

\* ForceAccepted asks for every missing block that the VM does not have.
LEMMA ForceRequest ==
  ASSUME IInv, NEW ids \in SUBSET Chain, ForceAccepted(ids), UNCHANGED <<accepted, parsed>>
  PROVE  RequestInv'
<1> DEFINE pending == queue.missing \cup ids
<1>1. queue \in MemoryQueue /\ pending \in SUBSET Blocks
  BY ChainFacts DEF IInv, TypeOK, MemoryQueue
<1>2. queue'.missing = pending
  BY <1>1, AddMissingFields, SMT DEF ForceAccepted, PendingIDs
<1>3. outstanding' = outstanding \cup (pending \ {b \in pending : CanGet(b)})
  BY DEF ForceAccepted, PendingIDs
<1>4. pc' # "down" BY DEF ForceAccepted
<1> QED BY <1>2, <1>3, <1>4 DEF RequestInv, CanGet

LEMMA NextRequest == IInv /\ RequestInv /\ [Next]_vars => RequestInv'
<1> SUFFICES ASSUME IInv, RequestInv, [Next]_vars PROVE RequestInv' OBVIOUS
<1> USE DEF CanGet
<1>1. CASE Process
  <2> DEFINE q == RemoveMissingID(queue, at)
  <2>1. pc = "process" /\ UNCHANGED <<accepted, parsed>> BY <1>1 DEF Process, vmVars
  <2>2. q \in MemoryQueue /\ q.missing = queue.missing \ {at} BY <2>1, TakenOff
  <2>3. \A b \in q.missing : b \in outstanding \/ CanGet(b) \/ b \in todo
    BY <2>1, <2>2 DEF RequestInv
  <2>4. CASE ProcessAccepted \/ ProcessPushed
    <3>1. StopProcess(q) /\ outstanding' = outstanding BY <2>4 DEF ProcessAccepted, ProcessPushed
    <3> HIDE DEF q
    <3> QED BY <2>1, <2>2, <2>3, <3>1, StopRequest
  <2>5. CASE ProcessPush
    <3> DEFINE pushed == Push(q, at, accepted)
               r == AddMissingID(pushed, {Parent[at]})
    <3>1. at \in Blocks \ {Genesis} /\ Parent[at] \in Blocks
      <4>1. Genesis \in accepted /\ at \notin accepted /\ at \in Blocks
        BY <2>1, <2>5 DEF ProcessPush, IInv, VMInv, TypeOK
      <4> QED BY <4>1, BlocksAssumption
    <3>2. \/ queue' = pushed /\ UNCHANGED <<pc, todo, outstanding>>
          \/ StopProcess(r) /\ outstanding' = outstanding \cup {Parent[at]}
      BY <2>5 DEF ProcessPush
    <3> HIDE DEF q
    <3>3. pushed \in MemoryQueue /\ pushed.missing = q.missing BY <2>2, <3>1, PushFields, SMT
    <3> HIDE DEF pushed
    <3>4. CASE queue' = pushed /\ UNCHANGED <<pc, todo, outstanding>>
      BY <2>1, <2>3, <3>3, <3>4 DEF RequestInv
    <3>5. CASE StopProcess(r) /\ outstanding' = outstanding \cup {Parent[at]}
      <4>1. r \in MemoryQueue /\ r.missing = q.missing \cup {Parent[at]}
        BY <3>1, <3>3, AddMissingFields, SMT
      <4> HIDE DEF r
      <4> QED BY <2>1, <2>3, <3>5, <4>1, StopRequest
    <3> QED BY <3>2, <3>4, <3>5
  <2> QED BY <1>1, <2>4, <2>5 DEF Process
<1>2. CASE ExecuteJob \/ ReleaseJobs \/ Executed
  <2>1. pc \in {"execute", "release"} BY <1>2 DEF ExecuteJob, ReleaseJobs, Executed
  <2>2. queue.missing = {} BY <2>1 DEF IInv, MemoryInv
  <2>3. queue'.missing = queue.missing
    <3>1. queue \in MemoryQueue BY DEF IInv, TypeOK
    <3> QED BY <1>2, <3>1 DEF ExecuteJob, ReleaseJobs, Executed, RemoveRunnableJob, ReleaseDependents, MemoryQueue
  <2>4. pc' # "down" BY <1>2 DEF ExecuteJob, ReleaseJobs, Executed
  <2> QED BY <2>2, <2>3, <2>4 DEF RequestInv
<1>3. ASSUME NEW n \in Beacons, AcceptedFrontier(n) \/ GetAcceptedFrontierFailed(n) PROVE RequestInv'
  <2>1. round'.phase # "none" /\ UNCHANGED <<queue, outstanding, accepted, parsed, pc, at, todo>>
    BY <1>3, FrontierInv DEF AcceptedFrontier, GetAcceptedFrontierFailed, loopVars
  <2> QED BY <2>1 DEF RequestInv
<1>4. ASSUME NEW n \in Beacons, Accepted(n) \/ GetAcceptedFailed(n) PROVE RequestInv'
  <2>1. CASE round'.phase # "none" /\ UNCHANGED <<queue, outstanding, pc, at, todo, accepted, parsed>>
    BY <2>1 DEF RequestInv
  <2>2. ASSUME NEW ids \in SUBSET Chain, ForceAccepted(ids), UNCHANGED <<accepted, parsed>> PROVE RequestInv'
    BY <2>2, ForceRequest
  <2> QED BY <1>4, <2>1, <2>2, AcceptedInv
<1>5. ASSUME NEW b \in Blocks, Ancestors(b) PROVE RequestInv'
  <2>1. /\ UNCHANGED <<queue, accepted, todo>> /\ pc = "idle" /\ parsed \subseteq parsed'
        /\ outstanding' = outstanding \ {b} /\ b \in outstanding /\ pc' = "process" /\ at' = b
    BY <1>5 DEF Ancestors, Idle
  <2> QED BY <2>1 DEF RequestInv
<1>6. ASSUME NEW b \in Blocks, GetAncestorsFailed(b) PROVE RequestInv'
  <2>1. UNCHANGED <<queue, accepted>> /\ pc = "idle" /\ parsed \subseteq parsed' /\ b \in outstanding
    BY <1>6 DEF GetAncestorsFailed, Idle
  <2>2. outstanding' = outstanding \/ (outstanding' = outstanding \ {b} /\ b \in accepted \cup parsed')
    BY <1>6 DEF GetAncestorsFailed, Refetch
  <2>3. pc' # "down" BY <1>6, <2>1 DEF GetAncestorsFailed, Refetch
  <2> QED BY <2>1, <2>2, <2>3 DEF RequestInv
<1>7. CASE Timeout
  <2>1. UNCHANGED <<queue, accepted, parsed, outstanding, pc, at, todo>> /\ (round' = round \/ Startup)
    BY <1>7 DEF Timeout, loopVars
  <2> QED BY <2>1, StartupRound DEF RequestInv
<1>8. CASE Start
  <2>1. outstanding = {} BY <1>8 DEF Start, RequestInv
  <2> QED BY <1>8, <2>1, StartInv DEF RequestInv
<1>11. CASE Skip
  <2>1. ForceAccepted({}) /\ UNCHANGED <<accepted, parsed>> /\ {} \in SUBSET Chain
    BY <1>11 DEF Skip
  <2> QED BY <2>1, ForceRequest
<1>9. CASE Crash \/ ProcessHalted BY <1>9 DEF Crash, ProcessHalted, Down, RequestInv
<1>10. CASE SubnetBootstrapped \/ Stabilize \/ UNCHANGED vars
  BY <1>10 DEF SubnetBootstrapped, Stabilize, vars, loopVars, RequestInv
<1> QED BY <1>1, <1>2, <1>3, <1>4, <1>5, <1>6, <1>7, <1>8, <1>9, <1>10, <1>11 DEF Next, Progress, Failure

-----------------------------------------------------------------------------
(* The properties. *)

\* Wherever a crash or a halt hits, every job on the disk that the VM has not
\* accepted is runnable there, or waits for a job or for a block recorded as missing.
THEOREM JobsKept == Spec => []NoLostJob
<1>1. IInv => NoLostJob
  BY DEF IInv, DiskInv, Kept, NoLostJob
<1> QED BY <1>1, Invariant, PTL

\* ExecuteAll never finds a runnable job without its bytes or with a missing
\* dependency, and never a dependent that is not in the queue.
THEOREM ExecutionSucceeds == Spec => []NoExecutionError
<1>1. IInv => NoExecutionError
  <2> SUFFICES ASSUME IInv PROVE NoExecutionError OBVIOUS
  <2>1. pc # "release" => \A b \in queue.runnable : b \in queue.jobs /\ ~HasMissingDependencies(b, accepted)
    BY DEF IInv, MemoryInv, Shape, Ready, HasMissingDependencies, MissingDependencies
  <2>2. pc = "release" => queue.dependents[at] \subseteq queue.jobs
    BY DEF IInv, MemoryInv, Shape, TypeOK
  <2> QED BY <2>1, <2>2 DEF NoExecutionError
<1> QED BY <1>1, Invariant, PTL

\* As long as the faulty beacons weigh less than Alpha, every block that the node asks
\* for, records as missing, queues or accepts is one that the network accepted.
THEOREM NetworkBlocks == Spec => []OnlyNetworkBlocks
<1>1. IInv => OnlyNetworkBlocks
  BY DEF IInv, VMInv, NetworkInv, OnlyNetworkBlocks
<1> QED BY <1>1, Invariant, PTL

\* Outside of a round, fetch has asked for every missing block that the VM does not
\* have, so that the handler never sleeps on a block that nobody was asked for.
THEOREM MissingFetched == Spec => []MissingRequested
<1>1. Spec => []RequestInv
  BY Invariant, InitInv, NextRequest, PTL DEF Spec
<1>2. RequestInv => MissingRequested
  BY DEF RequestInv, MissingRequested, Idle
<1> QED BY <1>1, <1>2, PTL
=============================================================================
