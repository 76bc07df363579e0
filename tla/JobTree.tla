----------------------------- MODULE JobTree -----------------------------
(***************************************************************************)
(* What the job queue of a4-threads-and-locks promises.  Jobs form a tree  *)
(* rooted in job 0.  A job waits, runs and completes; it may run only once *)
(* every job below it is complete, and a waiting job may be given a new    *)
(* child at any time.  JobSystem is shown to implement this module.        *)
(***************************************************************************)
EXTENDS Integers

CONSTANTS Capacity,   \* size of the queue
          InitJobs    \* the jobs of the tree at the start

VARIABLES made,     \* the jobs made so far are 0 .. made-1
          state,    \* state[i]: 0 waiting, 1 running, 2 complete
          kids      \* kids[i]: the set of the children of i

treevars == <<made, state, kids>>

Job == 0 .. Capacity - 1
Root == 0
Made == 0 .. made - 1

TreeInit ==
    /\ made = InitJobs
    /\ state = [i \in Job |-> 0]
    /\ kids = [i \in Job |-> IF i = Root THEN 1 .. InitJobs - 1 ELSE {}]

\* A producer puts a new job under a job that waits.
Add(p) ==
    /\ made < Capacity
    /\ state[p] = 0
    /\ made' = made + 1
    /\ kids' = [kids EXCEPT ![p] = @ \cup {made}]
    /\ UNCHANGED state

\* A consumer starts a job that waits for nobody.
Start(i) ==
    /\ state[i] = 0
    /\ \A k \in kids[i] : state[k] = 2
    /\ state' = [state EXCEPT ![i] = 1]
    /\ UNCHANGED <<made, kids>>

Finish(i) ==
    /\ state[i] = 1
    /\ state' = [state EXCEPT ![i] = 2]
    /\ UNCHANGED <<made, kids>>

TreeNext == \E i \in Made : Add(i) \/ Start(i) \/ Finish(i)

TreeSpec == TreeInit /\ [][TreeNext]_treevars

-----------------------------------------------------------------------------
TreeTypeOK ==
    /\ made \in InitJobs .. Capacity
    /\ state \in [Job -> {0, 1, 2}]
    /\ kids \in [Job -> SUBSET Made]

\* A job that runs or has run has only complete children.
ChildrenFirst ==
    \A i \in Job : state[i] # 0 => \A k \in kids[i] : state[k] = 2

\* Every job but the root is the child of a job made before it.
Rooted == \A k \in Made \ {Root} : \E i \in 0 .. k - 1 : k \in kids[i]

TreeInv == TreeTypeOK /\ ChildrenFirst /\ Rooted

\* The root runs last: by the time it starts every other job is complete ...
RootLast == state[Root] # 0 => \A k \in Made \ {Root} : state[k] = 2

\* ... and no job is added any more.
ClosedAfterRoot == [][state[Root] # 0 => made' = made]_treevars
=============================================================================
