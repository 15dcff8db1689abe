------------------------------ MODULE ForkSum ------------------------------
(***************************************************************************)
(* The two parallel sums of a file of numbers (03_Process_Scheduling_      *)
(* Simulation/02_Multi_Thread_Fork): numgen writes 1, 2, ... one a line,   *)
(* worker i adds lines 2i and 2i + 1. In fork.c a worker is a child that   *)
(* hands its sum over as its exit status, in thread.c a thread that leaves *)
(* it in its argument. The file is read-only here: numgen has ended. A     *)
(* worker may fail to open it. A signal may end a child; what ends main or *)
(* a thread ends the program, which prints nothing then.                   *)
(***************************************************************************)
EXTENDS Integers, Sequences, FiniteSetsExt

CONSTANTS MAX_PROCESSES, StatusMax      \* StatusMax: the largest exit status

VARIABLES program,  \* "fork" or "thread"
          file,     \* the lines of temp.txt
          i,        \* main's loop variable
          worker,   \* "none", "runs", "ended" with its sum, "failed", "killed",
                    \* and collected "gone" if it had ended, "lost" if not
          result,   \* exit status, or args[i].result
          total,
          phase     \* "create", "collect", "printed", or "undefined"

vars == <<program, file, i, worker, result, total, phase>>

Index == 0..(MAX_PROCESSES - 1)

\* numgen writes two lines for every worker, or stops early (a full disk).
numgen(n) == [k \in 1..n |-> k]

Init == /\ program \in {"fork", "thread"}
        /\ \E n \in 0..(2 * MAX_PROCESSES) : file = numgen(n)
        /\ i = 0
        /\ worker = [w \in Index |-> "none"]
        /\ result = [w \in Index |-> 0]
        /\ total = 0
        /\ phase = "create"

\* The two lines of worker w, nothing if one of them is missing.
read_pair_sum_by_index(w) ==
    IF 2 * w + 2 <= Len(file) THEN file[2 * w + 1] + file[2 * w + 2] ELSE 0

\* The largest sum of all is cut off by one.
ExitStatusCut(part) == IF part >= StatusMax THEN StatusMax - 1 ELSE part

ExitStatus(part) == IF part > StatusMax THEN StatusMax ELSE part

\* The loop that starts the workers, and its end.
StartsNext(next) == /\ i' = (IF next = "create" THEN i + 1 ELSE 0)
                    /\ phase' = next

Fork == /\ program = "fork" /\ phase = "create" /\ i < MAX_PROCESSES
        /\ worker' = [worker EXCEPT ![i] = "runs"]
        /\ StartsNext("create")
        /\ UNCHANGED <<program, file, result, total>>

\* fork fails: the loop is left, and later the wait for the rest fails too.
ForkFails == /\ program = "fork" /\ phase = "create" /\ i < MAX_PROCESSES
             /\ StartsNext("collect")
             /\ UNCHANGED <<program, file, worker, result, total>>

ThreadCreate == /\ program = "thread" /\ phase = "create" /\ i < MAX_PROCESSES
                /\ worker' = [worker EXCEPT ![i] = "runs"]
                /\ StartsNext("create")
                /\ UNCHANGED <<program, file, result, total>>

\* pthread_create fails: the loop goes on with th[i] unset.
CreateFails == /\ program = "thread" /\ phase = "create" /\ i < MAX_PROCESSES
               /\ StartsNext("create")
               /\ UNCHANGED <<program, file, worker, result, total>>

AllStarted == /\ phase = "create" /\ i = MAX_PROCESSES
              /\ StartsNext("collect")
              /\ UNCHANGED <<program, file, worker, result, total>>

EndsAs(w, how, part) == /\ worker' = [worker EXCEPT ![w] = how]
                        /\ result' = [result EXCEPT ![w] = part]

\* A worker reads its pair and ends, while main goes on; or its fopen fails.
Child(w) == /\ program = "fork" /\ worker[w] = "runs"
            /\ \/ EndsAs(w, "ended", ExitStatus(read_pair_sum_by_index(w)))
               \/ EndsAs(w, "failed", 0)
            /\ UNCHANGED <<program, file, i, total, phase>>

Thread(w) == /\ program = "thread" /\ worker[w] = "runs"
             /\ \/ EndsAs(w, "ended", read_pair_sum_by_index(w))
                \/ EndsAs(w, "failed", 0)
             /\ UNCHANGED <<program, file, i, total, phase>>

\* A signal ends a child before it has exited.
Killed(w) == /\ program = "fork" /\ worker[w] = "runs"
             /\ worker' = [worker EXCEPT ![w] = "killed"]
             /\ UNCHANGED <<program, file, i, result, total, phase>>

Over(w) == worker[w] \in {"ended", "failed", "killed"}

Collected(w) == worker' = [worker EXCEPT ![w] = IF @ = "ended" THEN "gone" ELSE "lost"]

\* wait takes any child that is over, and fails at once without children. The
\* status of one that a signal has ended is not added.
Wait(w) == /\ program = "fork" /\ phase = "collect" /\ i < MAX_PROCESSES
           /\ Over(w) /\ Collected(w)
           /\ total' = total + (IF worker[w] = "killed" THEN 0 ELSE result[w])
           /\ i' = i + 1
           /\ UNCHANGED <<program, file, result, phase>>

WaitFails == /\ program = "fork" /\ phase = "collect" /\ i < MAX_PROCESSES
             /\ \A w \in Index : worker[w] \in {"none", "gone", "lost"}
             /\ i' = i + 1
             /\ UNCHANGED <<program, file, worker, result, total, phase>>

\* The i-th pthread_join returns.
Joins == Over(i)

Join == /\ program = "thread" /\ phase = "collect" /\ i < MAX_PROCESSES
        /\ Joins /\ Collected(i)
        /\ total' = total + result[i]
        /\ i' = i + 1
        /\ UNCHANGED <<program, file, result, phase>>

\* Joining the identifier pthread_create never set may return, or do anything.
JoinsUnset == /\ program = "thread" /\ phase = "collect" /\ i < MAX_PROCESSES
              /\ worker[i] = "none"
              /\ \/ /\ i' = i + 1 /\ total' = total + result[i]
                    /\ UNCHANGED phase
                 \/ phase' = "undefined" /\ UNCHANGED <<i, total>>
              /\ UNCHANGED <<program, file, worker, result>>

Prints == /\ phase = "collect" /\ i = MAX_PROCESSES
          /\ phase' = "printed"
          /\ UNCHANGED <<program, file, i, worker, result, total>>

Next == \/ Fork \/ ForkFails \/ ThreadCreate \/ CreateFails \/ AllStarted
        \/ \E w \in Index : Child(w) \/ Killed(w) \/ Thread(w) \/ Wait(w)
        \/ WaitFails \/ Join \/ JoinsUnset \/ Prints

Spec == Init /\ [][Next]_vars

-----------------------------------------------------------------------------
\* Whichever program printed it, the total is the sum of the whole pairs of
\* the workers that it could start, that could open the file and that no signal
\* ended, each counted once, and none is left over: an exit status holds every
\* sum that numgen's numbers can give.
SumsAgree ==
    phase = "printed" =>
        /\ \A w \in Index : worker[w] \in {"none", "gone", "lost"}
        /\ total = MapThenSumSet(LAMBDA w : IF Len(file) < 2 * w + 2 THEN 0 ELSE 4 * w + 3,
                                 {w \in Index : worker[w] = "gone"})
=============================================================================
