----------------------------- MODULE MCCFSLive -----------------------------
(* CFSScheduler for ever, in finitely many states.  Run only compares the    *)
(* vruntimes of entities, and the entity that used least always runs first,  *)
(* so they stay within one period of each other: before each pick the least  *)
(* is taken off all of them, and what is not read again is forgotten.        *)
(* MaxVruntime is then never reached.  Of the objects that do not exist,     *)
(* `new` makes the first: which one it is tells nothing.                     *)
EXTENDS CFSScheduler

Least == Head(tree).key

Forgotten == num_tasks = 0 /\ y = 0 /\ j = 0 /\ spid = [t \in Task |-> 0]

Rebased == pc = "pick" /\ tree # <<>> => Least = 0 /\ Forgotten

Rebase ==
  /\ ~Rebased
  /\ num_tasks' = 0 /\ y' = 0 /\ j' = 0 /\ spid' = [t \in Task |-> 0]
  /\ tree' = [i \in DOMAIN tree |-> [tree[i] EXCEPT !.key = @ - Least]]
  /\ vruntime' = [s \in SE |-> IF s \in entities THEN vruntime[s] - Least ELSE 0]
  /\ UNCHANGED <<alive, m_se, m_num_tasks, m_size, my_rq, entities, nodes, node,
                 num_entities, m_next_se, to_run, rc, killed, pc>>

\* Of the objects in all, those in used exist; the new one is the first other.
FirstUnused(all, used, new) == \A x \in new \ used, z \in all \ used : x <= z

\* The run's specification, and the steps it looks at (an ACTION_CONSTRAINT): what it
\* leaves out is a step before room was made, or one that differs in names from
\* another that it has.
LiveInit == Init /\ FirstUnused(Task, {}, alive) /\ FirstUnused(SE, {}, entities)
LiveSpec == LiveInit /\ [][Rebase \/ Next]_vars /\ WF_vars(Rebase \/ Next)
Canonical ==
  \/ Rebase
  \/ /\ Rebased
     /\ FirstUnused(Task, alive, alive') /\ FirstUnused(SE, entities, entities')
=============================================================================
