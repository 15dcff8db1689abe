---------------------------- MODULE CPUScheduler ----------------------------
(***************************************************************************)
(* cpu_scheduler.c: a simulator of one processor that runs a set of tasks  *)
(* under one of four policies, one tick at a time, and reports when each   *)
(* task first ran and when it finished. Times are in ticks, the total with *)
(* its context switches in tenths of a tick.                               *)
(***************************************************************************)
EXTENDS Integers, SequencesExt

CONSTANTS
    Task,            \* places in the input file, 0..n-1
    pid,             \* the number each of them has there
    Arrivals,        \* times of arrival to choose from
    Bursts,          \* lengths to choose from
    Quanta,          \* time slices to choose from
    QCap,            \* pushes the ready queue has room for, 1000 in the code
    MaxTime          \* bound: ticks simulated

VARIABLES
    policy,          \* fcfs, sjf, rr or srtf
    quantum,         \* slice of rr
    arr,             \* arrival of each task
    burst,           \* its length
    remain,          \* what is left of it
    start,           \* when it first ran, or -1
    finish,          \* when it is said to have finished, or -1
    pc,              \* pick: choosing; run: in a slice; done or exited
    time,            \* ticks gone by
    total,           \* tenths gone by, context switches included
    finished,        \* count of ends
    cur,             \* the task that has the processor, or -1
    left,            \* ticks left of its slice
    queue,           \* the ready queue of rr
    pushes,          \* how often it was pushed to
    inq,             \* tasks marked as queued
    gantt            \* who ran in each tick, -1 where nobody did

input == <<policy, quantum, arr, burst>>
report == <<remain, start, finish, finished>>
ready == <<queue, pushes, inq>>
vars == <<input, report, pc, time, total, cur, left, ready, gantt>>

n == Cardinality(Task)

load_tasks == arr \in [Task -> Arrivals] /\ burst \in [Task -> Bursts]

\* The policy of the command line, and a quantum that is at least 1.
main ==
    /\ policy \in {"fcfs", "sjf", "rr", "srtf"}
    /\ quantum \in IF policy = "rr" THEN {IF q <= 0 THEN 1 ELSE q : q \in Quanta} ELSE {1}

reset_for_algo ==
    /\ remain = burst
    /\ start = [i \in Task |-> -1] /\ finish = [i \in Task |-> -1]

Init ==
    /\ load_tasks /\ main /\ reset_for_algo
    /\ pc = "pick" /\ time = 0 /\ total = 0 /\ finished = 0
    /\ cur = -1 /\ left = 0
    /\ queue = <<>> /\ pushes = 0 /\ inq = {} /\ gantt = <<>>

-----------------------------------------------------------------------------
\* Choosing.

\* Those the loops over the tasks look at.
Waiting == {i \in Task : remain[i] > 0 /\ arr[i] <= time}

\* Mutation: the shortest burst, not the shortest rest.
KeyByBurst(i) ==
    CASE policy = "fcfs" -> <<arr[i], pid[i], i>>
      [] policy \in {"sjf", "srtf"} -> <<burst[i], arr[i], pid[i], i>>

\* What the comparisons of each policy put first; ties go to the first found.
Key(i) ==
    CASE policy = "fcfs" -> <<arr[i], pid[i], i>>
      [] policy = "sjf"  -> <<burst[i], arr[i], pid[i], i>>
      [] policy = "srtf" -> <<remain[i], arr[i], pid[i], i>>

Before(k, l) == \E j \in DOMAIN k : k[j] < l[j] /\ \A h \in 1..j - 1 : k[h] = l[h]

Best == CHOOSE i \in Waiting : \A j \in Waiting \ {i} : Before(Key(i), Key(j))

\* A context switch costs a tenth; srtf counts one only when the task changes.
Dispatch(i, ticks) ==
    /\ cur' = i /\ left' = ticks
    /\ total' = IF cur = i THEN total ELSE total + 1
    /\ start' = [start EXCEPT ![i] = IF @ < 0 /\ cur # i THEN time ELSE @]
    /\ UNCHANGED <<input, remain, finish, finished, time, gantt>>

\* Nobody to run: the clock goes on.
Idle ==
    /\ time < MaxTime
    /\ time' = time + 1 /\ total' = total + 10
    /\ gantt' = Append(gantt, -1)
    /\ UNCHANGED <<input, report, cur, left>>

Looping == pc = "pick" /\ finished < n

\* sim_fcfs, sim_sjf and sim_srtf.
Pick ==
    /\ Looping /\ policy # "rr"
    /\ IF Waiting = {} THEN Idle /\ UNCHANGED pc
       ELSE /\ Dispatch(Best, IF policy = "srtf" THEN 1 ELSE remain[Best])
            /\ pc' = "run"
    /\ UNCHANGED ready

-----------------------------------------------------------------------------
\* The ready queue of sim_rr: arrivals join in the order of the file.

Joining(arrived) ==
    LET new == arrived \ inq
        places == 1..Cardinality(new)
    IN  CHOOSE s \in [places -> new] : \A k, l \in places : k < l => s[k] < s[l]

Ready(q, joined) ==
    /\ queue' = q
    /\ pushes' = pushes + joined

\* q_push has run out of room, and the program exits.
Overflow == pushes' > QCap

PickRR ==
    LET all == queue \o Joining(Waiting)
        joined == Len(all) - Len(queue)
    IN  /\ Looping /\ policy = "rr"
        /\ IF all = <<>>
           THEN Idle /\ UNCHANGED <<ready, pc>>
           ELSE /\ Dispatch(Head(all), IF remain[Head(all)] < quantum THEN remain[Head(all)]
                                       ELSE quantum)
                /\ Ready(Tail(all), joined)
                /\ inq' = (inq \cup Waiting) \ {Head(all)}
                /\ pc' = IF Overflow THEN "exited" ELSE "run"

-----------------------------------------------------------------------------
\* One tick of a slice. Under rr whoever is waiting by then joins the queue,
\* the running task included: it is not marked as queued.
Tick ==
    /\ pc = "run" /\ left > 0 /\ time < MaxTime
    /\ left' = left - 1
    /\ remain' = [remain EXCEPT ![cur] = @ - 1]
    /\ time' = time + 1 /\ total' = total + 10
    /\ gantt' = Append(gantt, cur)
    /\ IF policy = "rr"
       THEN LET arrived == {i \in Task : remain'[i] > 0 /\ arr[i] <= time'}
            IN  /\ Ready(queue \o Joining(arrived), Cardinality(arrived \ inq))
                /\ inq' = inq \cup arrived
       ELSE UNCHANGED ready
    /\ pc' = IF Overflow THEN "exited" ELSE "run"
    /\ UNCHANGED <<input, start, finish, finished, cur>>

FinishTime == time

\* The slice is over with the task at its end. Under rr the task may have been
\* there before, and is counted again.
Finish ==
    /\ pc = "run" /\ left = 0 /\ remain[cur] = 0
    /\ finish' = [finish EXCEPT ![cur] = FinishTime]
    /\ finished' = finished + 1
    /\ cur' = -1 /\ pc' = "pick"
    /\ UNCHANGED <<input, remain, start, time, total, left, ready, gantt>>

\* The slice is over and the task is not: rr pushes it (again), srtf keeps it
\* as the current one.
Preempt ==
    /\ pc = "run" /\ left = 0 /\ remain[cur] > 0
    /\ IF policy = "rr"
       THEN /\ Ready(Append(queue, cur), 1) /\ inq' = inq \cup {cur}
            /\ cur' = -1
       ELSE UNCHANGED <<ready, cur>>
    /\ pc' = IF Overflow THEN "exited" ELSE "pick"
    /\ UNCHANGED <<input, report, time, total, left, gantt>>

\* The loop ends and compute_stats takes the reported times.
Stop ==
    /\ pc = "pick" /\ finished >= n
    /\ pc' = "done"
    /\ UNCHANGED <<input, report, time, total, cur, left, ready, gantt>>

Next == Pick \/ PickRR \/ Tick \/ Finish \/ Preempt \/ Stop

Spec == Init /\ [][Next]_vars

-----------------------------------------------------------------------------
\* compute_stats, for one task.
turnaround(i) == finish[i] - arr[i]
waiting(i) == turnaround(i) - burst[i]
response(i) == start[i] - arr[i]

-----------------------------------------------------------------------------
(* Properties. *)

Ticks(i) == {k \in 1..time : gantt[k] = i}
Served(i, k) == Cardinality({j \in Ticks(i) : j < k})

\* The processor is given to tasks that have arrived and are not yet served,
\* and is idle only in ticks where there is none.
WorkConserving ==
    \A k \in 1..time :
        LET wanting == {i \in Task : arr[i] < k /\ Served(i, k) < burst[i]}
        IN  IF wanting = {} THEN gantt[k] = -1 ELSE gantt[k] \in wanting

\* Every report is true to the chart: a task that is said to have finished has
\* had its whole burst, first at its start, and finished with its last tick; it
\* waited no less than for its first. Under rr the finish may be a later one.
ReportsTrue ==
    \A i \in Task :
        finish[i] >= 0 =>
            /\ remain[i] = 0 /\ Cardinality(Ticks(i)) = burst[i]
            /\ burst[i] > 0 => start[i] + 1 \in Ticks(i) /\ \A k \in Ticks(i) : k > start[i]
            /\ \A k \in Ticks(i) : k <= finish[i]
            /\ policy # "rr" => finish[i] \in Ticks(i)
            /\ 0 <= response(i) /\ response(i) <= waiting(i)

\* The least sum of finishing times any schedule reaches for what rest leaves
\* to do from time t on, tasks being interrupted at will. (What is not done by
\* MaxTime counts as done a tick later, the least it can come to.)
LeastSum ==
    LET least[t \in 0..MaxTime] ==
            [rest \in [Task -> 0..MaxTime] |->
                LET open == {i \in Task : rest[i] > 0}
                    come == {i \in open : arr[i] <= t}
                    next(i) == least[t + 1][[rest EXCEPT ![i] = @ - 1]]
                               + IF rest[i] = 1 THEN t + 1 ELSE 0
                    sums == {next(i) : i \in come}
                IN  IF open = {} THEN 0
                    ELSE IF t = MaxTime THEN (MaxTime + 1) * Cardinality(open)
                    ELSE IF come = {} THEN least[t + 1][rest]
                    ELSE CHOOSE s \in sums : \A r \in sums : s <= r]
    IN  least[0][burst]

SumOver(f) == FoldFunction(+, 0, f)

\* Shortest remaining time first is the best there is: no schedule of the same
\* tasks has a smaller mean turnaround.
SRTFOptimal ==
    pc = "done" /\ policy = "srtf" =>
        SumOver([i \in Task |-> turnaround(i)]) = LeastSum - SumOver(arr)
=============================================================================
