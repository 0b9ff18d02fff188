-------------------------------- MODULE Tasks --------------------------------
(***************************************************************************)
(* Tasks of employees: managers assign them, their owners complete them,   *)
(* and the mobile home page shows the first few next to the counts of all. *)
(***************************************************************************)
EXTENDS Sessions, Sequences, FiniteSets

CONSTANTS
  Assignees,    \* employees, each with a user account of the same name
  LastTask,     \* bound on employee_tasks.id
  DueDates,     \* dates
  Priorities,   \* priorities assigned
  ListLimits    \* limits a caller passes

ASSUME DueDatesAreNat == LastTask \in Nat /\ DueDates \subseteq Nat
ASSUME PrioritiesAreKnown == Priorities \subseteq {"low", "medium", "high"}
ASSUME ListLimitsArePositive == ListLimits \subseteq Nat \ {0}

VARIABLES
  task,          \* employee_tasks in the order of their ids
  taskSession    \* the task a worker is about to complete, or None

taskListVars == <<task, taskSession>>

TaskRow == [owner: Assignees, status: {"todo", "done"}, due: Maybe(DueDates), priority: Priorities]

-----------------------------------------------------------------------------

(* create_task                                                             *)
AssignTask ==
  \E owner \in Assignees, due \in Maybe(DueDates), priority \in Priorities :
    /\ Len(task) < LastTask
    /\ task' = Append(task, [owner |-> owner, status |-> "todo", due |-> due, priority |-> priority])
    /\ UNCHANGED taskSession

Owns(t, user) == task[t].owner = user

(* complete_my_task                                                        *)
BeginCompletion(w) ==
  \E t \in DOMAIN task, user \in Assignees :
    /\ MayServe(taskSession, w, FALSE)
    /\ Owns(t, user)
    /\ taskSession' = [taskSession EXCEPT ![w] = [task |-> t, user |-> user]]
    /\ UNCHANGED task

CommitCompletion(w) ==
  /\ taskSession[w] # None
  /\ task' = [task EXCEPT ![taskSession[w].task].status = "done"]
  /\ taskSession' = [taskSession EXCEPT ![w] = None]

-----------------------------------------------------------------------------
(* Lists.  Status and priority are strings and sort as such: done tasks    *)
(* come first, and of one date "medium" before "low" before "high".        *)

StatusOrder == [done |-> 1, todo |-> 2]
PriorityOrder == [medium |-> 1, low |-> 2, high |-> 3]
Earlier(a, b) == a # b /\ (b = None \/ (a # None /\ a < b))

ListedBefore(t, u) ==
  LET a == task[t]
      b == task[u]
  IN  \/ StatusOrder[a.status] < StatusOrder[b.status]
      \/ /\ a.status = b.status
         /\ \/ Earlier(a.due, b.due)
            \/ /\ a.due = b.due
               /\ \/ PriorityOrder[a.priority] < PriorityOrder[b.priority]
                  \/ a.priority = b.priority /\ t > u

TasksOf(user) == {t \in DOMAIN task : task[t].owner = user}
OpenTasks(user) == {t \in TasksOf(user) : task[t].status # "done"}

Rank(tasks, t) == Cardinality({u \in tasks : ListedBefore(u, t)})
Capped(n, limit) == IF n < limit THEN n ELSE limit

(* ORDER BY ... LIMIT                                                      *)
FirstOf(tasks, limit) ==
  [i \in 1..Capped(Cardinality(tasks), limit) |-> CHOOSE t \in tasks : Rank(tasks, t) = i - 1]

(* Mutant: done tasks are taken out of the limited list.                   *)
ListCutFirst(user, includeDone, limit) ==
  SelectSeq(FirstOf(TasksOf(user), limit), LAMBDA t : includeDone \/ task[t].status # "done")

(* list_my_tasks                                                           *)
MyTasks(user, includeDone, limit) ==
  FirstOf(IF includeDone THEN TasksOf(user) ELSE OpenTasks(user), limit)

(* _build_task_stats                                                       *)
TaskStats(user, today) ==
  [total |-> Cardinality(TasksOf(user)),
   done |-> Cardinality(TasksOf(user) \ OpenTasks(user)),
   open |-> Cardinality(OpenTasks(user)),
   overdue |-> Cardinality({t \in OpenTasks(user) : task[t].due # None /\ task[t].due < today})]

TaskInit == task = <<>> /\ taskSession = [w \in Workers |-> None]
TaskNext == AssignTask \/ \E w \in Workers : BeginCompletion(w) \/ CommitCompletion(w)
TaskSpec == TaskInit /\ [][TaskNext]_taskListVars

-----------------------------------------------------------------------------

TasksTypeOK ==
  /\ task \in Seq(TaskRow) /\ Len(task) <= LastTask
  /\ taskSession \in [Workers -> Maybe([task: DOMAIN task, user: Assignees])]

(* A page of open tasks is full or holds all that the counts of the home   *)
(* page promise, and the overdue ones come before the rest: what is done   *)
(* takes no place in it.                                                   *)
OpenTasksAreListed ==
  \A user \in Assignees, limit \in ListLimits, today \in UNION {{d, d + 1} : d \in DueDates} :
    LET page == MyTasks(user, FALSE, limit)
        stats == TaskStats(user, today)
        overdue == {i \in DOMAIN page : task[page[i]].due # None /\ task[page[i]].due < today}
    IN  Len(page) = Capped(stats.open, limit) /\ overdue = 1..Capped(stats.overdue, limit)

(* Tasks have their types, and the open ones are found.                    *)
TaskInv ==
  /\ TasksTypeOK
  /\ OpenTasksAreListed

=============================================================================
