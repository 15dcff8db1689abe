--------------------------- MODULE ProcessTracer ---------------------------
(***************************************************************************)
(* The process tracer (03_Process_Scheduling_Simulation/                   *)
(* 01_Process_State_Tracer): the kernel's fork path, to which the project  *)
(* adds a fork_count per task (sched.h:860, fork.c:1959 and 2387), and the *)
(* module whose system call prints the count and the family of a task.     *)
(*                                                                         *)
(* copy_process acquires some twenty things one after the other; a failure *)
(* jumps to the label from which what has been acquired is released.       *)
(***************************************************************************)
EXTENDS Integers, Sequences, FiniteSets, FiniteSetsExt

CONSTANTS Task,         \* pids; 1 is init
          Flags,        \* sets of clone flags a caller may pass
          max_threads,  \* tunable limit on nr_threads
          NPROC,        \* RLIMIT_NPROC
          MaxForks      \* bound on the forks of one task

ASSUME TaskAssumption == IsFiniteSet(Task) /\ 1 \in Task

VARIABLES life,         \* "none", "alive" or "zombie"
          real_parent, group_leader,
          fork_count,   \* the project's counter
          making,       \* the fork a task is in the middle of
          nr_threads, processes,
          unbalanced,   \* what the last failed fork released wrongly
          forks,        \* history: the tasks this task has made
          traced        \* the system call's progress through its target

tasks == <<life, real_parent, group_leader>>
vars == <<tasks, fork_count, making, nr_threads, processes, unbalanced, forks, traced>>

Exists == {t \in Task : life[t] # "none"}
Nothing == [at |-> "idle", flags |-> {}, held |-> {}, count |-> 0]
NoTrace == [task |-> 0, at |-> "idle", gone |-> FALSE]

\* init_task has fork_count 0; pid 1 stands for it and for what it started.
Init == /\ life = [t \in Task |-> IF t = 1 THEN "alive" ELSE "none"]
        /\ real_parent = [t \in Task |-> 1]
        /\ group_leader = [t \in Task |-> t]
        /\ fork_count = [t \in Task |-> 0]
        /\ making = [t \in Task |-> Nothing]
        /\ nr_threads = 1
        /\ processes = 1
        /\ unbalanced = {}
        /\ forks = [t \in Task |-> 0]
        /\ traced = NoTrace

-----------------------------------------------------------------------------
(* What copy_process acquires, in order: a step first takes "sure", which  *)
(* cannot fail, then "takes", or fails and goes to its label.              *)

Step(sure, takes, label) == [sure |-> sure, takes |-> takes, label |-> label]

SetUp == << Step({"delays"},  {"mempolicy"}, "threadgroup_lock"),
            Step({}, {}, "policy"),                           \* sched_fork
            Step({}, {"perf"}, "policy"),
            Step({}, {"audit"}, "perf") >>

Copies == << Step({}, {"security"}, "audit"),
             Step({}, {"semundo"}, "security"),
             Step({}, {"files"}, "semundo"),
             Step({}, {"fs"}, "files"),
             Step({}, {"sighand"}, "fs"),
             Step({}, {"signal"}, "sighand"),
             Step({}, {"mm"}, "signal"),
             Step({}, {"namespaces"}, "mm"),
             Step({}, {"io"}, "namespaces"),
             Step({}, {"thread"}, "io") >>

Identity == << Step({}, {"pid"}, "thread"),
               Step({}, {"pidfd"}, "free_pid"),
               Step({}, {}, "put_pidfd"),                     \* put_user
               Step({"change"}, {"cgroup"}, "threadgroup_change_end") >>

Steps == SetUp \o Copies \o Identity

Release(label, what) == [label |-> label, what |-> what]

\* The labels in the order of the text: a jump runs all that follows. The
\* mutated ladder has two neighbours swapped.
LadderSwapped ==
    << Release("cancel_cgroup", {"cgroup"}), Release("threadgroup_change_end", {"change"}),
       Release("put_pidfd", {"pidfd"}), Release("free_pid", {"pid"}),
       Release("thread", {"thread"}), Release("io", {"io"}),
       Release("namespaces", {"namespaces"}), Release("mm", {"mm"}),
       Release("sighand", {"sighand"}), Release("signal", {"signal"}),
       Release("fs", {"fs"}), Release("files", {"files"}),
       Release("semundo", {"semundo"}), Release("security", {"security"}),
       Release("audit", {"audit"}), Release("perf", {"perf"}),
       Release("policy", {"mempolicy"}), Release("threadgroup_lock", {"delays"}),
       Release("count", {"creds"}), Release("free", {"task"}) >>

Ladder ==
    << Release("cancel_cgroup", {"cgroup"}), Release("threadgroup_change_end", {"change"}),
       Release("put_pidfd", {"pidfd"}), Release("free_pid", {"pid"}),
       Release("thread", {"thread"}), Release("io", {"io"}),
       Release("namespaces", {"namespaces"}), Release("mm", {"mm"}),
       Release("signal", {"signal"}), Release("sighand", {"sighand"}),
       Release("fs", {"fs"}), Release("files", {"files"}),
       Release("semundo", {"semundo"}), Release("security", {"security"}),
       Release("audit", {"audit"}), Release("perf", {"perf"}),
       Release("policy", {"mempolicy"}), Release("threadgroup_lock", {"delays"}),
       Release("count", {"creds"}), Release("free", {"task"}) >>

\* A thread shares its signal_struct, and only CLONE_PIDFD makes a pidfd:
\* neither is then taken, nor released.
Concerns(flags, what) ==
    what \ ((IF "THREAD" \in flags THEN {"signal"} ELSE {})
            \cup (IF "PIDFD" \in flags THEN {} ELSE {"pidfd"}))

Below(label, flags) ==
    LET from == CHOOSE k \in DOMAIN Ladder : Ladder[k].label = label
    IN Concerns(flags, UNION {Ladder[k].what : k \in from..Len(Ladder)})

Fails(flags, held, label) ==
    LET freed == Below(label, flags)
    IN unbalanced' = (held \ freed) \cup (freed \ held)

-----------------------------------------------------------------------------
(* The invalid combinations of clone flags, refused before anything else.  *)

Refused(t, f) ==
    \/ {"NEWNS", "FS"} \subseteq f \/ {"NEWUSER", "FS"} \subseteq f
    \/ "THREAD" \in f /\ "SIGHAND" \notin f
    \/ "SIGHAND" \in f /\ "VM" \notin f
    \/ "PARENT" \in f /\ t = 1                                \* SIGNAL_UNKILLABLE
    \/ "THREAD" \in f /\ {"NEWUSER", "NEWPID"} \cap f # {}
    \/ "PIDFD" \in f /\ {"DETACHED", "THREAD"} \cap f # {}

\* From the first lines to copy_creds: the task structure is a copy of the
\* caller's, counter included, and the user has one more process.
Begin(t) == \E f \in Flags :
    /\ life[t] = "alive" /\ making[t].at = "idle"
    /\ ~Refused(t, f)
    /\ forks[t] < MaxForks
    /\ processes < NPROC
    /\ making' = [making EXCEPT ![t] = [at |-> "begun", flags |-> f,
                                        held |-> {"task", "creds"},
                                        count |-> fork_count[t]]]
    /\ processes' = processes + 1
    /\ UNCHANGED <<tasks, fork_count, nr_threads, unbalanced, forks, traced>>

\* Refused, a signal pending, no memory, RLIMIT_NPROC or no credentials.
BeginFails(t) == \E f \in Flags, held \in {{}, {"task"}} :
    /\ life[t] = "alive" /\ making[t].at = "idle"
    /\ Refused(t, f) => held = {}
    /\ IF held = {} THEN unbalanced' = {} ELSE Fails(f, held, "free")
    /\ UNCHANGED <<tasks, fork_count, making, nr_threads, processes, forks, traced>>

\* What a fork holds after k steps, and after failing in the one that follows.
Held(f, k) == {"task", "creds"}
              \cup Concerns(f, UNION {Steps[j].sure \cup Steps[j].takes : j \in 1..k})

\* p->fork_count = 0, and a copy whose counter keeps its parent's value.
CountKept(t) == making[t].count
ChildCount(t) == 0

Copy(t) ==
    /\ making[t].at = "begun" /\ nr_threads < max_threads
    /\ making' = [making EXCEPT ![t].at = "copied", ![t].count = ChildCount(t),
                                ![t].held = Held(making[t].flags, Len(Steps))]
    /\ UNCHANGED <<tasks, fork_count, nr_threads, processes, unbalanced, forks, traced>>

\* The processes counter goes down again at bad_fork_cleanup_count.
GivesUp(t, held, label) ==
    /\ making' = [making EXCEPT ![t] = Nothing]
    /\ Fails(making[t].flags, held, label)
    /\ processes' = processes - 1
    /\ UNCHANGED <<tasks, fork_count, nr_threads, forks, traced>>

TooManyThreads(t) ==
    /\ making[t].at = "begun" /\ nr_threads >= max_threads
    /\ GivesUp(t, making[t].held, "count")

CopyFails(t) == \E k \in DOMAIN Steps :
    /\ making[t].at = "begun" /\ nr_threads < max_threads
    /\ Steps[k].label = "put_pidfd" => "PIDFD" \in making[t].flags
    /\ Steps[k].label = "free_pid" => "PIDFD" \in making[t].flags
    /\ GivesUp(t, Held(making[t].flags, k - 1) \cup Steps[k].sure, Steps[k].label)

\* Under tasklist_lock the child becomes visible; nobody has counted it yet.
Publish(t) == \E c \in Task \ Exists :
    LET f == making[t].flags IN
    /\ making[t].at = "copied"
    /\ life' = [life EXCEPT ![c] = "alive"]
    /\ real_parent' = [real_parent EXCEPT
           ![c] = IF {"PARENT", "THREAD"} \cap f # {} THEN real_parent[t] ELSE t]
    /\ group_leader' = [group_leader EXCEPT
           ![c] = IF "THREAD" \in f THEN group_leader[t] ELSE c]
    /\ fork_count' = [fork_count EXCEPT ![c] = making[t].count]
    /\ forks' = [forks EXCEPT ![t] = @ + 1, ![c] = 0]
    /\ nr_threads' = nr_threads + 1
    /\ making' = [making EXCEPT ![t].at = "published", ![t].held = {}]
    /\ UNCHANGED <<processes, unbalanced, traced>>

\* The namespace is dying or a fatal signal has come.
PublishFails(t) == /\ making[t].at = "copied"
                   /\ GivesUp(t, making[t].held, "cancel_cgroup")

\* _do_fork counts the fork in the caller and wakes the child up.
Count(t) ==
    /\ making[t].at = "published"
    /\ fork_count' = [fork_count EXCEPT ![t] = @ + 1]
    /\ making' = [making EXCEPT ![t] = Nothing]
    /\ UNCHANGED <<tasks, nr_threads, processes, unbalanced, forks, traced>>

-----------------------------------------------------------------------------
(* Exit and release are the kernel's (exit.c, not in the repository): the  *)
(* children go to init, a thread leaves at once, a process is a zombie     *)
(* until its parent waits for it.                                          *)

Alone(t) == \A u \in Exists : group_leader[u] = t => u = t

Exit(t) ==
    /\ t # 1 /\ life[t] = "alive" /\ making[t].at = "idle"
    /\ group_leader[t] = t /\ Alone(t)
    /\ life' = [life EXCEPT ![t] = "zombie"]
    /\ real_parent' = [u \in Task |-> IF real_parent[u] = t THEN 1 ELSE real_parent[u]]
    /\ UNCHANGED <<group_leader, fork_count, making, nr_threads, processes,
                   unbalanced, forks, traced>>

Release_task(t) ==
    /\ t # 1 /\ making[t].at = "idle"
    /\ life[t] = "zombie" \/ (life[t] = "alive" /\ group_leader[t] # t)
    /\ life' = [life EXCEPT ![t] = "none"]
    /\ real_parent' = [u \in Task |-> IF real_parent[u] = t THEN 1 ELSE real_parent[u]]
    /\ nr_threads' = nr_threads - 1
    /\ processes' = processes - 1
    /\ traced' = [traced EXCEPT !.gone = @ \/ traced.task = t]
    /\ UNCHANGED <<group_leader, fork_count, making, unbalanced, forks>>

-----------------------------------------------------------------------------
(* The system call: count and parent under the RCU read lock, the family   *)
(* after it has been released.                                             *)

TraceTask(t) ==
    /\ traced.at = "idle" /\ t \in Exists
    /\ traced' = [task |-> t, at |-> "unlocked", gone |-> FALSE]
    /\ UNCHANGED <<tasks, fork_count, making, nr_threads, processes, unbalanced, forks>>

\* The walks over its parent's and its own children take no lock: of a task
\* that is gone by now they read freed memory.
TraceFamily ==
    /\ traced.at = "unlocked"
    /\ traced' = [NoTrace EXCEPT !.at = IF traced.gone THEN "freed" ELSE "idle"]
    /\ UNCHANGED <<tasks, fork_count, making, nr_threads, processes, unbalanced, forks>>

Next == \/ \E t \in Task : \/ Begin(t) \/ BeginFails(t) \/ Copy(t) \/ TooManyThreads(t)
                           \/ CopyFails(t) \/ Publish(t) \/ PublishFails(t) \/ Count(t)
                           \/ Exit(t) \/ Release_task(t) \/ TraceTask(t)
        \/ TraceFamily

Spec == Init /\ [][Next]_vars

-----------------------------------------------------------------------------
\* A failed fork releases exactly what it had acquired, whatever step failed,
\* and the two counters of tasks always agree with the tasks there are.
ForksBalanced ==
    /\ unbalanced = {}
    /\ nr_threads = Cardinality(Exists)
    /\ processes = Cardinality(Exists)
                   + Cardinality({t \in Task : making[t].at \in {"begun", "copied"}})

\* The count a task shows is the number of tasks it made itself: its copy of
\* its parent's count is gone, a failed fork is not counted, and the count is
\* late by one only between the child's appearance and the end of _do_fork.
ForksCounted ==
    \A t \in Exists :
       fork_count[t] + (IF making[t].at = "published" THEN 1 ELSE 0) = forks[t]
=============================================================================
