------------------------------ MODULE JobQueue ------------------------------
(***************************************************************************)
(* The persistent queue of blocks that bootstrapping still has to execute  *)
(* (snow/engine/common/queue), as operators on two records:                *)
(*                                                                         *)
(*   a queue in memory: the view through the versiondb (jobs, the runnable *)
(*     ones, dependents of each block), the set of missing IDs, and the    *)
(*     changes to that set not yet written (added, removed);               *)
(*   a queue on disk: the same without the changes.                        *)
(*                                                                         *)
(* A job is the block it executes.  Its one dependency is its parent       *)
(* (snow/engine/snowman/bootstrap/block_job.go), which is missing until    *)
(* the VM has accepted it.  The runnable stack is a set here: the code     *)
(* takes its newest element, the model any.  The caches of state.go change *)
(* no answer and the number of jobs is only reported; both are left out.   *)
(***************************************************************************)
EXTENDS Naturals, FiniteSets

CONSTANTS Blocks,    \* the IDs of blocks
          Genesis,   \* the block every VM starts from
          Parent,    \* a block's parent
          Height     \* a block's height

ASSUME BlocksAssumption ==
  /\ Genesis \in Blocks
  /\ Parent \in [Blocks \ {Genesis} -> Blocks]
  /\ Height \in [Blocks -> Nat] /\ Height[Genesis] = 0
  /\ \A b \in Blocks \ {Genesis} : Height[b] = Height[Parent[b]] + 1

-----------------------------------------------------------------------------

DiskQueue == [jobs : SUBSET Blocks, runnable : SUBSET Blocks,
              dependents : [Blocks -> SUBSET Blocks], missing : SUBSET Blocks]

MemoryQueue == [jobs : SUBSET Blocks, runnable : SUBSET Blocks,
                dependents : [Blocks -> SUBSET Blocks], missing : SUBSET Blocks,
                added : SUBSET Blocks, removed : SUBSET Blocks]

EmptyQueue == [jobs |-> {}, runnable |-> {}, dependents |-> [b \in Blocks |-> {}], missing |-> {}]

\* NewWithMissing: everything is read back from the database.
Load(d) == [jobs |-> d.jobs, runnable |-> d.runnable, dependents |-> d.dependents,
            missing |-> d.missing, added |-> {}, removed |-> {}]

\* blockJob.MissingDependencies, given the blocks the VM has accepted.
MissingDependencies(b, accepted) == IF b = Genesis \/ Parent[b] \in accepted THEN {} ELSE {Parent[b]}

HasMissingDependencies(b, accepted) == MissingDependencies(b, accepted) # {}

-----------------------------------------------------------------------------

\* Mutant: the IDs are not written.
AddMissingIDUnwritten(q, ids) == [q EXCEPT !.missing = @ \cup ids]

AddMissingID(q, ids) ==
  LET new == ids \ q.missing
  IN  [q EXCEPT !.missing = @ \cup new, !.added = @ \cup new, !.removed = @ \ new]

RemoveMissingID(q, b) ==
  IF b \in q.missing
  THEN [q EXCEPT !.missing = @ \ {b}, !.added = @ \ {b}, !.removed = @ \cup {b}]
  ELSE q

\* JobsWithMissing.Has: a job that is being fetched again does not count.
Has(q, b) == b \in q.jobs \ q.missing

\* What Push does with a job that is not in the queue: it waits for its missing
\* dependency, or goes on the runnable stack.
Push(q, b, accepted) ==
  IF HasMissingDependencies(b, accepted)
  THEN [q EXCEPT !.jobs = @ \cup {b}, !.dependents[Parent[b]] = @ \cup {b}]
  ELSE [q EXCEPT !.jobs = @ \cup {b}, !.runnable = @ \cup {b}]

\* RemoveRunnableJob: the job leaves the stack and the database.
RemoveRunnableJob(q, b) == [q EXCEPT !.runnable = @ \ {b}, !.jobs = @ \ {b}]

\* RemoveDependencies, and the loop that makes the dependents runnable that wait
\* for nothing else.
ReleaseDependents(q, b, accepted) ==
  [q EXCEPT !.dependents[b] = {},
            !.runnable = @ \cup {d \in q.dependents[b] : ~HasMissingDependencies(d, accepted)}]

\* Jobs.Commit writes the versiondb and leaves the missing IDs as they are on disk.
CommitJobs(d, q) == [d EXCEPT !.jobs = q.jobs, !.runnable = q.runnable, !.dependents = q.dependents]

\* JobsWithMissing.Commit applies the changes to the missing IDs first: what it
\* leaves on disk, and in memory.
Commit(d, q) == [CommitJobs(d, q) EXCEPT !.missing = (@ \cup q.added) \ q.removed]

Committed(q) == [q EXCEPT !.added = {}, !.removed = {}]

\* Mutant: the stack is taken as it is.
CleanRunnableStackNot(q, accepted) == q

\* cleanRunnableStack: a job on the stack whose parent is not accepted after all
\* waits for it again, and the parent is missing.
CleanRunnableStack(q, accepted) ==
  LET blocked == {b \in q.runnable : HasMissingDependencies(b, accepted)}
  IN  AddMissingID([q EXCEPT !.runnable = @ \ blocked,
                             !.dependents = [p \in Blocks |-> @[p] \cup {b \in blocked : Parent[b] = p}]],
                   UNION {MissingDependencies(b, accepted) : b \in blocked})
=============================================================================
