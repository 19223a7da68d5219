-------------------------------- MODULE Tasks --------------------------------
(***************************************************************************)
(* Cooperative tasks (kernel/task.c, cpu/task_switch.asm): one queue in    *)
(* the order of creation, schedule() switching to the next ready task of   *)
(* it, and task_exit leaving its own stack and task_t to whoever schedules *)
(* next.  No interrupt handler calls any of these functions, so each call  *)
(* is one step, up to the switch of stacks at its end.                     *)
(*                                                                         *)
(* Nothing in the kernel calls them yet: the model lets the running task   *)
(* call any of them at any time after tasking_init.                        *)
(***************************************************************************)
EXTENDS Integers, Sequences, FiniteSets

CONSTANTS
  Task,          \* the places kmalloc may give to a task_t
  NoTask,        \* NULL
  MAX_PID        \* bound: tasks ever created

ASSUME TasksAssumption ==
  /\ NoTask \notin Task
  /\ MAX_PID \in Nat \ {0}

VARIABLES
  task_queue,    \* the tasks linked from task_queue, in order
  current_task,
  state, pid,    \* the fields of each task_t
  next_pid,
  allocated,     \* the task_t's kmalloc has given out and not got back
  stack,         \* the tasks that have a stack of their own allocated
  overtook       \* per task, who has been switched to since it became ready;
                 \* no variable of the code

taskVars == <<task_queue, current_task, state, pid, next_pid, allocated, stack, overtook>>

State == {"READY", "RUNNING", "TERMINATED"}

TasksInit ==
  /\ task_queue = <<>> /\ current_task = NoTask
  /\ state = [t \in Task |-> "READY"] /\ pid = [t \in Task |-> 0]
  /\ next_pid = 1
  /\ allocated = {} /\ stack = {}
  /\ overtook = [t \in Task |-> {}]
-----------------------------------------------------------------------------
\* The task running now becomes the first of the queue.  It has no stack of its
\* own to free.
tasking_init(t) ==
  /\ current_task = NoTask
  /\ allocated' = allocated \cup {t}
  /\ state' = [state EXCEPT ![t] = "RUNNING"]
  /\ pid' = [pid EXCEPT ![t] = next_pid]
  /\ next_pid' = next_pid + 1
  /\ current_task' = t /\ task_queue' = <<t>>
  /\ UNCHANGED <<stack, overtook>>

\* The processor is in a task's body, and not in the endless hlt of task_exit.
Runs == current_task # NoTask /\ state[current_task] = "RUNNING"

\* Faulty: the pid is taken after the increment.
CreateNextPid(t) ==
  /\ Runs /\ next_pid <= MAX_PID
  /\ t \notin allocated /\ allocated' = allocated \cup {t}
  /\ stack' = stack \cup {t}
  /\ state' = [state EXCEPT ![t] = "READY"]
  /\ next_pid' = next_pid + 1
  /\ pid' = [pid EXCEPT ![t] = next_pid']
  /\ task_queue' = Append(task_queue, t)
  /\ overtook' = [u \in Task |-> IF u = t THEN {} ELSE overtook[u] \ {t}]
  /\ UNCHANGED current_task

\* Both kmallocs succeed.
task_create(t) ==
  /\ Runs /\ next_pid <= MAX_PID
  /\ t \notin allocated /\ allocated' = allocated \cup {t}
  /\ stack' = stack \cup {t}
  /\ state' = [state EXCEPT ![t] = "READY"]
  /\ pid' = [pid EXCEPT ![t] = next_pid]
  /\ next_pid' = next_pid + 1
  /\ task_queue' = Append(task_queue, t)
  /\ overtook' = [u \in Task |-> IF u = t THEN {} ELSE overtook[u] \ {t}]
  /\ UNCHANGED current_task

\* A kmalloc fails; a task_t already allocated is given back.
task_create_fails == Runs /\ UNCHANGED taskVars

\* Faulty: the current task is freed too.
ReapsCurrent(st) == {t \in allocated : st[t] = "TERMINATED"}

\* Tasks that have ended and are not the current one leave the queue, which
\* keeps its order, and their stack and task_t are freed.
Reapable(st) == {t \in allocated : st[t] = "TERMINATED" /\ t # current_task}

\* What sequence q is when only the places in K are kept.
Rank(K, i)     == Cardinality({j \in K : j <= i})
Filtered(q, K) == [n \in 1 .. Cardinality(K) |-> q[CHOOSE i \in K : Rank(K, i) = n]]

KeptPlaces(st) == {i \in DOMAIN task_queue : task_queue[i] \notin Reapable(st)}
Reaped(st)     == Filtered(task_queue, KeptPlaces(st))

\* The ready task of queue q that comes first behind the current one, going
\* round.
ReadyPlaces(q, st) == {i \in DOMAIN q : st[q[i]] = "READY"}
Least(S) == CHOOSE i \in S : \A j \in S : i <= j

\* Faulty: the search starts at the head of the queue.
FirstReady(q, st) == q[Least(ReadyPlaces(q, st))]

NextReady(q, st) ==
  LET R == ReadyPlaces(q, st)
      c == CHOOSE i \in DOMAIN q : q[i] = current_task
      Behind == {i \in R : c < i}
  IN  q[Least(IF Behind # {} THEN Behind ELSE R)]

\* Faulty: the task that yields stays marked running.
ScheduleKeepsRunning(st) ==
  LET q == Reaped(st)
  IN  /\ task_queue' = q
      /\ allocated' = allocated \ Reapable(st)
      /\ stack' = stack \ Reapable(st)
      /\ IF ReadyPlaces(q, st) = {}
         THEN /\ state' = st
              /\ UNCHANGED <<current_task, overtook>>
         ELSE LET n == NextReady(q, st)
              IN  /\ current_task' = n
                  /\ state' = [st EXCEPT ![n] = "RUNNING"]
                  /\ overtook' = [t \in Task |-> IF t \in {n, current_task} THEN {}
                                                 ELSE overtook[t] \cup {n}]
      /\ UNCHANGED <<pid, next_pid>>

\* schedule() with the tasks in state st.
schedule(st) ==
  \E q \in {Reaped(st)} :    \* one q: TLC then evaluates it once
      /\ task_queue' = q
      /\ allocated' = allocated \ Reapable(st)
      /\ stack' = stack \ Reapable(st)
      /\ IF ReadyPlaces(q, st) = {}
         THEN /\ state' = st
              /\ UNCHANGED <<current_task, overtook>>
         ELSE LET n == NextReady(q, st)
              IN  /\ current_task' = n
                  /\ state' = [st EXCEPT
                       ![n] = "RUNNING",
                       ![current_task] = IF @ = "RUNNING" THEN "READY" ELSE @]
                  /\ overtook' = [t \in Task |-> IF t \in {n, current_task} THEN {}
                                                 ELSE overtook[t] \cup {n}]
      /\ UNCHANGED <<pid, next_pid>>

\* A task gives up the processor.
Yield == Runs /\ schedule(state)

\* A task ends.  If nobody is ready it halts in its own context for ever.
task_exit == Runs /\ schedule([state EXCEPT ![current_task] = "TERMINATED"])

TasksNext ==
  \/ \E t \in Task : tasking_init(t) \/ task_create(t)
  \/ task_create_fails \/ Yield \/ task_exit

TasksSpec == TasksInit /\ [][TasksNext]_taskVars

\* Every task that runs yields or ends some time.
FairTasksSpec == TasksSpec /\ WF_taskVars(Yield \/ task_exit)
-----------------------------------------------------------------------------
(* Properties.                                                             *)

\* Types of the variables.
TasksTypeOK ==
  /\ task_queue \in Seq(Task)
  /\ current_task \in Task \cup {NoTask}
  /\ state \in [Task -> State] /\ pid \in [Task -> 0 .. MAX_PID]
  /\ next_pid \in 1 .. MAX_PID + 1
  /\ allocated \subseteq Task /\ stack \subseteq Task
  /\ overtook \in [Task -> SUBSET Task]

\* The queue links exactly the task_t's that are allocated, each once, and the
\* current one is among them: neither the task that runs nor one that may be
\* switched to has been freed, nor its stack; and what tasks that have ended
\* leave behind does not pile up, at most one waits to be reaped
\* (task.c:12-31, 87-94 and 127-133).
QueueIsAllocated ==
  /\ TasksTypeOK
  /\ \A t \in Task : t \in allocated <=> \E i \in DOMAIN task_queue : task_queue[i] = t
  /\ \A i, j \in DOMAIN task_queue : task_queue[i] = task_queue[j] => i = j
  /\ current_task # NoTask => current_task \in allocated
  /\ \A t \in allocated : t \in stack <=> pid[t] # 1
  /\ stack \subseteq allocated
  /\ \A t, u \in Reapable(state) : t = u

\* Only the current task is marked running; and it has ended, with the processor
\* halted for good, only when no task was ready to go on (task.c:105-120 and
\* 131-137).
OnlyCurrentRuns ==
  \A t \in allocated :
    /\ state[t] = "RUNNING" => t = current_task
    /\ state[current_task] = "TERMINATED" => state[t] # "READY"

\* No task is switched to twice while another one stays ready: the search starts
\* behind the current task, although the reaping before it changes the queue
\* (task.c:103-109).
NobodyOvertakesTwice ==
  [][\A t \in allocated :
       current_task' # current_task /\ state[t] = "READY" /\ state'[t] = "READY"
         => current_task' \notin overtook[t]]_taskVars

\* A task that is ready runs some time.
ReadyRuns ==
  \A t \in Task : (t \in allocated /\ state[t] = "READY") ~> (current_task = t)
=============================================================================
