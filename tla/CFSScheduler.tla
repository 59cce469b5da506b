---------------------------- MODULE CFSScheduler ----------------------------
(***************************************************************************)
(* nivisor's fair scheduler: CFSScheduler in src/nivisor/src/scheduler.cpp *)
(* (CFS, POOL and FART builds) with the system calls that change what it   *)
(* schedules (split, setsid, exit) and the ways SwitchAndExec can end.     *)
(* The red-black tree is the ordered sequence its walk yields (RunQueue)   *)
(* and the node pool the number of blocks in use (MemPool).                *)
(*                                                                         *)
(* One action is one call of SwitchAndExec or one of the stretches of Run  *)
(* between such calls; Run is sequential, so nothing interleaves with it,  *)
(* but the guests decide what each call returns.                           *)
(***************************************************************************)
EXTENDS KeyedSequence

CONSTANTS Task,          \* ThreadContext objects
          SE,            \* SchedEntity objects
          NULL,
          MaxTasks,      \* NIVISOR_MAX_PROCESSES, also the scheduling period
          PoolBlocks,    \* nodes the pool has room for
          Calls,         \* what the guests of this instance may do
          InitVruntime,  \* values `new SchedEntity` may leave in vruntime
          InitSize,      \* values `new RBTree(heap)` may leave in m_size
          MaxVruntime    \* bound: past it a guest only exits or calls setsid

ASSUME SchedulerAssumption ==
  /\ MaxTasks \in Nat \ {0} /\ PoolBlocks \in Nat \ {0} /\ MaxVruntime \in Nat
  /\ NULL \notin Task \cup SE
  /\ Task # {} /\ SE # {}
  /\ InitVruntime \subseteq Nat /\ InitVruntime # {}
  /\ InitSize \subseteq Nat /\ InitSize # {}
  /\ Calls \subseteq {"other", "split", "setsid", "fault", "error"}

VARIABLES
  tree,         \* m_rbtree in order: records [key, se]
  m_size,       \* the tree's node counter, which no constructor sets
  my_rq,        \* SE -> the FIFO queue of its tasks
  vruntime,     \* SE -> SwitchAndExec calls charged to it
  entities,     \* the SEs that exist
  alive,        \* the tasks that exist
  m_se,         \* Task -> the SE it belongs to
  spid,         \* Task -> the id get_spid reports
  m_num_tasks,
  m_next_se,    \* the SE sys_setsid leaves for Run
  node,         \* the SE whose node Run removed from the tree
  num_tasks,    \* length of its queue when it was removed
  num_entities, \* m_size when Run was called
  y,            \* tasks of it already run in this round
  to_run,       \* the task popped from its queue
  j,            \* SwitchAndExec calls of to_run in this slice
  rc,           \* what the last SwitchAndExec returned
  nodes,        \* pool blocks in use
  killed,       \* tasks KillTasks sent SIGKILL
  pc

tasks  == <<alive, m_se, spid, m_num_tasks>>
queues == <<tree, m_size, my_rq, vruntime, entities, nodes>>
round  == <<node, num_tasks, num_entities>>
vars   == <<tasks, queues, round, m_next_se, y, to_run, j, rc, killed, pc>>

\* num_entities is read once, before the loop, when only the entity main
\* scheduled is in the tree; setsid never makes Run compute it again.
slice_per_entity == MaxTasks \div num_entities
slice_per_task == slice_per_entity \div num_tasks

\* main: ScheduleThread of the first task, which makes its SE, and then
\* m_num_tasks++; the SE's vruntime is never assigned.
Init ==
  \E t \in Task, s \in SE, v \in InitVruntime, z \in InitSize :
    /\ alive = {t} /\ entities = {s}
    /\ m_se = [x \in Task |-> IF x = t THEN s ELSE NULL]
    /\ spid = [x \in Task |-> IF x = t THEN 1 ELSE 0]
    /\ m_num_tasks = 1
    /\ tree = <<[key |-> v, se |-> s]>> /\ m_size = z + 1 /\ nodes = 1
    /\ num_entities = m_size
    /\ my_rq = [x \in SE |-> IF x = s THEN <<t>> ELSE <<>>]
    /\ vruntime = [x \in SE |-> IF x = s THEN v ELSE 0]
    /\ m_next_se = NULL /\ node = NULL /\ to_run = NULL
    /\ num_tasks = 0 /\ y = 0 /\ j = 0
    /\ rc = "SUCCESS" /\ killed = {} /\ pc = "pick"
-----------------------------------------------------------------------------
(* The top of the loop over entities.                                      *)

\* removeLeftmostNode; the node's block stays allocated.
PickEntity ==
  /\ pc = "pick" /\ m_size > 0 /\ tree # <<>>
  /\ node' = Head(tree).se
  /\ tree' = Tail(tree) /\ m_size' = m_size - 1
  /\ num_tasks' = Len(my_rq[node'])
  /\ y' = 0
  /\ pc' = IF num_tasks' > 0 THEN "slice" ELSE "place"
  /\ UNCHANGED <<tasks, my_rq, vruntime, entities, nodes, num_entities,
                 m_next_se, to_run, j, rc, killed>>

\* m_size says there are nodes and there are none: Run dereferences the NULL
\* that removeLeftmostNode returns.
PickNothing ==
  /\ pc = "pick" /\ m_size > 0 /\ tree = <<>>
  /\ pc' = "segv"
  /\ UNCHANGED <<tasks, queues, round, m_next_se, y, to_run, j, rc, killed>>

\* The loop ends with m_size and main returns.
Return ==
  /\ pc = "pick" /\ m_size = 0
  /\ pc' = "returned"
  /\ UNCHANGED <<tasks, queues, round, m_next_se, y, to_run, j, rc, killed>>

PopTask ==
  /\ pc = "slice"
  /\ to_run' = Head(my_rq[node])
  /\ my_rq' = [my_rq EXCEPT ![node] = Tail(@)]
  /\ j' = 0
  /\ pc' = "exec"
  /\ UNCHANGED <<tasks, tree, m_size, vruntime, entities, nodes, round,
                 m_next_se, y, rc, killed>>
-----------------------------------------------------------------------------
(* One SwitchAndExec: the guest runs to its next call or fault.            *)

InSlice == pc = "exec" /\ j < slice_per_task

\* A guest may do this, and the bound on the time charged leaves room for it.
MayCall(c) == InSlice /\ c \in Calls /\ vruntime[node] + j < MaxVruntime

CanScheduleMore == m_num_tasks < MaxTasks

\* Any call that leaves the scheduler alone, a repaired page fault, and the
\* refused forms of split (-1), exit (-1) and setsid (NIVISOR_NO_SPACE).
OtherCall ==
  /\ MayCall("other")
  /\ rc' = "SUCCESS" /\ j' = j + 1
  /\ UNCHANGED <<tasks, queues, round, m_next_se, y, to_run, killed, pc>>

\* A failure of ptrace or of the memory manager: only THREAD_EXIT and FAULT
\* leave the slice, so the task is entered again.
ErrorCall ==
  /\ MayCall("error")
  /\ rc' = "ERROR" /\ j' = j + 1
  /\ UNCHANGED <<tasks, queues, round, m_next_se, y, to_run, killed, pc>>

\* sys_split_proc, Clone and ScheduleThread(lctx, true): the child joins the
\* queue of its parent's entity behind the tasks of this round.
Split ==
  /\ MayCall("split") /\ CanScheduleMore
  /\ \E child \in Task \ alive :
       /\ alive' = alive \cup {child}
       /\ m_se' = [m_se EXCEPT ![child] = m_se[to_run]]
       /\ spid' = [spid EXCEPT ![child] = m_num_tasks + 1]
       /\ my_rq' = [my_rq EXCEPT ![m_se[to_run]] = Append(@, child)]
  /\ m_num_tasks' = m_num_tasks + 1
  /\ rc' = "SUCCESS" /\ j' = j + 1
  /\ pc' = IF m_num_tasks' > MaxTasks THEN "aborted" ELSE pc
  /\ UNCHANGED <<tree, m_size, vruntime, entities, nodes, round, m_next_se, y,
                 to_run, killed>>

\* Slip: the limit is tested as if the running entity's node were in the tree.
TreeFullAtLimit == m_size >= MaxTasks

\* sys_setsid refuses from this many nodes in the tree on.
TreeFull == m_size >= MaxTasks - 1

\* sys_setsid: the new entity starts at its creator's vruntime and waits in
\* m_next_se; is_terminating turns the 0 into THREAD_EXIT, which ends the slice.
Setsid ==
  /\ InSlice /\ "setsid" \in Calls /\ ~TreeFull
  /\ \E s \in SE \ entities :
       /\ entities' = entities \cup {s}
       /\ vruntime' = [vruntime EXCEPT ![s] = vruntime[m_se[to_run]]]
       /\ m_next_se' = s
  /\ rc' = "THREAD_EXIT" /\ pc' = "ended"
  /\ UNCHANGED <<tasks, tree, m_size, my_rq, nodes, round, y, to_run, j,
                 killed>>

\* sys_exit succeeded.
Exit ==
  /\ InSlice
  /\ rc' = "THREAD_EXIT" /\ pc' = "ended"
  /\ UNCHANGED <<tasks, queues, round, m_next_se, y, to_run, j, killed>>

\* HandlePageFault found no mapping that allows the access.
Fault ==
  /\ InSlice /\ "fault" \in Calls
  /\ rc' = "FAULT" /\ pc' = "ended"
  /\ UNCHANGED <<tasks, queues, round, m_next_se, y, to_run, j, killed>>

SliceOver ==
  /\ pc = "exec" /\ j >= slice_per_task
  /\ pc' = "ended"
  /\ UNCHANGED <<tasks, queues, round, m_next_se, y, to_run, j, rc, killed>>
-----------------------------------------------------------------------------
(* What Run does with the task when its slice has ended.                   *)

\* Slip: the slice is not charged.
AdvanceOnly ==
  /\ y' = y + 1
  /\ to_run' = NULL
  /\ pc' = IF y' < num_tasks THEN "slice" ELSE "place"
  /\ UNCHANGED vruntime

\* The end of the loop body: charge the entity, go to its next task.
ChargeSlice ==
  /\ vruntime' = [vruntime EXCEPT ![node] = @ + j]
  /\ y' = y + 1
  /\ to_run' = NULL
  /\ pc' = IF y' < num_tasks THEN "slice" ELSE "place"

KeepTask ==
  /\ pc = "ended" /\ rc = "SUCCESS"
  /\ my_rq' = [my_rq EXCEPT ![node] = Append(@, to_run)]
  /\ ChargeSlice
  /\ UNCHANGED <<tasks, tree, m_size, entities, nodes, round, m_next_se, j, rc,
                 killed>>

\* Slips: the task that ended is not deleted; it is counted out twice, here and
\* in sys_exit.
DropWithoutDelete ==
  /\ pc = "ended" /\ rc # "SUCCESS" /\ m_next_se = NULL
  /\ m_num_tasks' = m_num_tasks - 1
  /\ ChargeSlice
  /\ UNCHANGED <<alive, m_se, spid, tree, m_size, my_rq, entities, nodes, round,
                 m_next_se, j, rc, killed>>

\* delete(to_run): the task ended, crashed or kept failing.
DropTask ==
  /\ pc = "ended" /\ rc # "SUCCESS" /\ m_next_se = NULL
  /\ alive' = alive \ {to_run}
  /\ m_se' = [m_se EXCEPT ![to_run] = NULL]
  /\ spid' = [spid EXCEPT ![to_run] = 0]
  /\ m_num_tasks' = m_num_tasks - 1
  /\ ChargeSlice
  /\ UNCHANGED <<tree, m_size, my_rq, entities, nodes, round, m_next_se, j, rc,
                 killed>>

\* After setsid: m_se = GetNextSe(), SetNextSe(NULL), ScheduleThread(to_run),
\* which takes a new node for the entity.  assert(rc == NIVISOR_THREAD_EXIT).
MoveTask ==
  /\ pc = "ended" /\ rc # "SUCCESS" /\ m_next_se # NULL /\ nodes < PoolBlocks
  /\ IF rc # "THREAD_EXIT"
     THEN /\ pc' = "aborted"
          /\ UNCHANGED <<tasks, queues, m_next_se, y, to_run>>
     ELSE /\ m_se' = [m_se EXCEPT ![to_run] = m_next_se]
          /\ spid' = [spid EXCEPT ![to_run] = m_num_tasks + 1]
          /\ tree' = InsertByKey(tree, [key |-> vruntime[m_next_se],
                                        se |-> m_next_se])
          /\ m_size' = m_size + 1 /\ nodes' = nodes + 1
          /\ my_rq' = [my_rq EXCEPT ![m_next_se] = Append(@, to_run)]
          /\ m_next_se' = NULL
          /\ ChargeSlice
          /\ UNCHANGED <<alive, m_num_tasks, entities>>
  /\ UNCHANGED <<round, j, rc, killed>>

\* The same with an exhausted pool: add() builds the node at the NULL that
\* AllocBlock returned, before it tests it.
MoveTaskNoBlock ==
  /\ pc = "ended" /\ rc = "THREAD_EXIT" /\ m_next_se # NULL
  /\ nodes >= PoolBlocks
  /\ m_se' = [m_se EXCEPT ![to_run] = m_next_se]
  /\ spid' = [spid EXCEPT ![to_run] = m_num_tasks + 1]
  /\ m_next_se' = NULL
  /\ pc' = "segv"
  /\ UNCHANGED <<alive, m_num_tasks, queues, round, y, to_run, j, rc, killed>>
-----------------------------------------------------------------------------
(* The end of an entity's round.                                           *)

\* Slip: an entity without tasks goes back to the tree as well.
ReinsertAlways ==
  /\ pc = "place"
  /\ tree' = InsertByKey(tree, [key |-> vruntime[node], se |-> node])
  /\ m_size' = m_size + 1
  /\ node' = NULL /\ pc' = "pick"
  /\ UNCHANGED <<tasks, my_rq, vruntime, entities, nodes, num_tasks,
                 num_entities, m_next_se, y, to_run, j, rc, killed>>

\* deleteNode(node), then add with the new vruntime, which reuses its block.
Reinsert ==
  /\ pc = "place" /\ my_rq[node] # <<>>
  /\ tree' = InsertByKey(tree, [key |-> vruntime[node], se |-> node])
  /\ m_size' = m_size + 1
  /\ node' = NULL /\ pc' = "pick"
  /\ UNCHANGED <<tasks, my_rq, vruntime, entities, nodes, num_tasks,
                 num_entities, m_next_se, y, to_run, j, rc, killed>>

\* delete(node->m_val), deleteNode(node).
DropEntity ==
  /\ pc = "place" /\ my_rq[node] = <<>>
  /\ entities' = entities \ {node}
  /\ vruntime' = [vruntime EXCEPT ![node] = 0]
  /\ nodes' = nodes - 1
  /\ node' = NULL /\ pc' = "pick"
  /\ UNCHANGED <<tasks, tree, m_size, my_rq, num_tasks, num_entities, m_next_se,
                 y, to_run, j, rc, killed>>

\* Slip: only the task at the front of each queue is killed.
KillFrontTasks ==
  /\ pc = "segv"
  /\ LET queued == {tree[i].se : i \in DOMAIN tree}
     IN /\ killed' = killed \cup {Head(my_rq[s]) : s \in queued}
        /\ my_rq' = [s \in SE |-> IF s \in queued THEN <<>> ELSE my_rq[s]]
  /\ tree' = <<>> /\ m_size' = m_size - Len(tree)
  /\ pc' = IF m_size' > 0 THEN "died" ELSE pc
  /\ UNCHANGED <<tasks, vruntime, entities, nodes, round, m_next_se, y, to_run,
                 j, rc>>

\* The SIGSEGV handler, killKids -> KillTasks: every node leaves the tree and
\* every task of its queue is killed.  The loop goes by m_size: when that says
\* there are more nodes it faults on the NULL removeLeftmostNode returns, and a
\* fault inside the handler ends the process.  Otherwise the handler returns to
\* the faulting instruction and is entered again, with nothing left to do.
KillTasks ==
  /\ pc = "segv"
  /\ LET queued == {tree[i].se : i \in DOMAIN tree}
     IN /\ killed' = killed \cup {t \in Task : \E s \in queued :
                                    \E i \in DOMAIN my_rq[s] : my_rq[s][i] = t}
        /\ my_rq' = [s \in SE |-> IF s \in queued THEN <<>> ELSE my_rq[s]]
  /\ tree' = <<>> /\ m_size' = m_size - Len(tree)
  /\ pc' = IF m_size' > 0 THEN "died" ELSE pc
  /\ UNCHANGED <<tasks, vruntime, entities, nodes, round, m_next_se, y, to_run,
                 j, rc>>

Finished == pc \in {"returned", "died"} /\ UNCHANGED vars

Next ==
  \/ PickEntity \/ PickNothing \/ Return \/ PopTask
  \/ OtherCall \/ ErrorCall \/ Split \/ Setsid \/ Exit \/ Fault \/ SliceOver
  \/ KeepTask \/ DropTask \/ MoveTask \/ MoveTaskNoBlock
  \/ Reinsert \/ DropEntity \/ KillTasks \/ Finished

Spec == Init /\ [][Next]_vars

\* Run is one thread that never waits for anything but the guest it entered;
\* guests are assumed to reach their next call, fault or exit.
FairSpec == Spec /\ WF_vars(Next)
-----------------------------------------------------------------------------
States == {"pick", "slice", "exec", "ended", "place", "returned", "segv",
           "died", "aborted"}

\* A segmentation fault of nivisor itself.
Crashed == pc \in {"segv", "died"}

\* The types of the scheduler's members and of Run's locals.
TypeOK ==
  /\ tree \in Seq([key : Nat, se : SE]) /\ m_size \in Nat
  /\ my_rq \in [SE -> Seq(Task)]
  /\ vruntime \in [SE -> Nat] /\ entities \in SUBSET SE
  /\ alive \in SUBSET Task /\ m_se \in [Task -> SE \cup {NULL}]
  /\ spid \in [Task -> Nat] /\ m_num_tasks \in Nat
  /\ m_next_se \in SE \cup {NULL} /\ node \in SE \cup {NULL}
  /\ num_tasks \in Nat /\ num_entities \in Nat \ {0} /\ y \in Nat /\ j \in Nat /\ nodes \in Nat
  /\ to_run \in Task \cup {NULL}
  /\ rc \in {"SUCCESS", "THREAD_EXIT", "FAULT", "ERROR"}
  /\ killed \in SUBSET Task /\ pc \in States

Count(b) == IF b THEN 1 ELSE 0

\* Every task that exists is in exactly one place: one slot of one run queue,
\* or in to_run, or killed.  ScheduleThread and the end of each slice move
\* tasks between queues by hand; a task pushed twice would be deleted twice,
\* one not pushed back would never run or be deleted.
TaskInOnePlace ==
  /\ \A s, r \in SE : \A i \in DOMAIN my_rq[s], k \in DOMAIN my_rq[r] :
       my_rq[s][i] = my_rq[r][k] => s = r /\ i = k
  /\ \A s \in SE : \A i \in DOMAIN my_rq[s] :
       my_rq[s][i] \in alive \ (killed \cup {to_run})
  /\ to_run # NULL => to_run \in alive \ killed
  /\ \A t \in alive : \/ t = to_run \/ t \in killed
                      \/ \E s \in SE : \E i \in DOMAIN my_rq[s] : my_rq[s][i] = t

InTree(s) == {i \in DOMAIN tree : tree[i].se = s}

\* "We could be pushing duplicate SEs onto the tree": an entity that exists is
\* once in the tree, or its node is being run, or it waits in m_next_se, and
\* an entity in the tree has a task, so that Run never finds an empty queue;
\* queued tasks know the entity they are queued on.
EntityInOnePlace ==
  ~Crashed =>
    /\ \A s \in SE :
         Cardinality(InTree(s)) + Count(node = s) + Count(m_next_se = s)
           = Count(s \in entities)
    /\ \A s \in SE : InTree(s) # {} => my_rq[s] # <<>>
    /\ \A s \in SE : \A i \in DOMAIN my_rq[s] : m_se[my_rq[s][i]] = s
    /\ to_run # NULL => m_se[to_run] = node

\* The counter that CanScheduleMore tests counts the tasks that exist, although
\* main, ScheduleThread and Run each change it in places of their own; the
\* abort in ScheduleThread and the assert in Run are never reached.
TaskCount == m_num_tasks = Cardinality(alive) /\ pc # "aborted"

\* One node per entity in the tree or running, never more than MaxTasks:
\* that is what the test in sys_setsid must ensure while the running entity's
\* node is not counted by m_size.
NodesBounded ==
  ~Crashed => /\ nodes = Len(tree) + Count(node # NULL)
              /\ nodes <= MaxTasks

\* When the SIGSEGV handler has emptied the tree, the tasks it did not kill are
\* those of the entity Run was running, whose node is not in the tree.
SurvivorsAreRunning ==
  Crashed /\ tree = <<>> =>
    \A t \in alive \ killed : m_se[t] = node \/ t = to_run

\* Run always takes an entity that has used the least.
LeastVruntimeFirst ==
  [][PickEntity => \A s \in SE : InTree(s) # {} => vruntime[node'] <= vruntime[s]]_vars

\* A queued task is entered again, or nivisor has faulted, unless the guests call
\* setsid for ever, or, where m_size did not start at 0, slices come out empty for
\* ever: their entity is charged nothing and stays leftmost.  Otherwise no entity
\* is passed over while the others are charged for what they use.
Queued(t)  == t \in alive /\ to_run # t
Entered(t) == to_run = t /\ InSlice
EmptySlice == pc = "exec" /\ slice_per_task = 0
QueuedTaskRuns ==
  <>[][~Setsid /\ (EmptySlice => num_entities = 1)]_vars =>
    \A t \in Task : Queued(t) ~> (Entered(t) \/ t \notin alive \/ Crashed)

\* scheduler.hpp:74 says of m_sched_period: "period during which all tasks
\* should run at least once".  No task is left waiting for ever.
EveryTaskRuns ==
  \A t \in Task : Queued(t) ~> (Entered(t) \/ t \notin alive \/ Crashed)
=============================================================================
