---------------------------- MODULE MCSimulators ----------------------------
(* The programs of Operating_System without files, and the circuits of        *)
(* Digital_Logic, one of them in a run. None knows of another: a variable     *)
(* that several of the modules name belongs to the one that runs.             *)
EXTENDS ProcessTracer, Sequences

CONSTANTS
    Pid, Arrivals, Bursts, Quanta, QCap, MaxTime,    \* CPUScheduler; Pid a sequence
    Frames, Pages, References,                       \* PageReplacement
    Width, Votes,                                    \* LogicCircuits
    Process, File, Call, MaxCalls, MaxLoaded,        \* SyscallHooks
    MAX_PROCESSES, StatusMax                         \* ForkSum

VARIABLES
    family,
    policy, quantum, arr, burst, remain, start, finish, pc, time, total,
    finished, cur, left, queue, pushes, inq, gantt,                 \* CPUScheduler
    nframe, refs, algorithm, i, frames, last_used, refb, next,
    filled, faults,                                                 \* PageReplacement
    current_state, taken,                                           \* SequenceDetector
    A, B, Cin, ballot,                                              \* LogicCircuits
    loaded, os_ftrace, orig, hooked, tracing_pid, cnt, bytes,
    traced_file, made, disturbed, tidy,                             \* SyscallHooks
    program, file, worker, result, phase                            \* ForkSum

\* pc is of CPUScheduler and SyscallHooks, total of CPUScheduler and ForkSum,
\* i of PageReplacement and ForkSum.
cpuVars == <<policy, quantum, arr, burst, remain, start, finish, time,
             finished, cur, left, queue, pushes, inq, gantt>>
pageVars == <<nframe, refs, algorithm, frames, last_used, refb, next, filled, faults>>
detectorVars == <<current_state, taken>>
circuitVars == <<A, B, Cin, ballot>>
hookVars == <<loaded, os_ftrace, orig, hooked, tracing_pid, cnt, bytes,
              traced_file, made, disturbed, tidy>>
sumVars == <<program, file, worker, result, phase>>
allVars == <<family, cpuVars, pageVars, detectorVars, circuitVars, hookVars,
             vars, sumVars, pc, total, i>>

\* Reference strings up to the names of the pages, which are numbered in the
\* order in which they are first referenced.
Strings ==
    {s \in [1..References -> 1..Pages] :
        \A k \in 1..References : s[k] = 1 \/ \E j \in 1..k - 1 : s[j] = s[k] - 1}

\* Numbers of processes and flags that TLC configurations cannot write down.
ThreePids == <<2, 1, 3>>
FourFlags == {{}, {"THREAD", "SIGHAND", "VM"}, {"PARENT", "PIDFD"}, {"THREAD"}}

Cpu == INSTANCE CPUScheduler WITH
    Task <- 0..Len(Pid) - 1, pid <- [t \in 0..Len(Pid) - 1 |-> Pid[t + 1]]
Paging == INSTANCE PageReplacement WITH RefStrings <- Strings
Detector == INSTANCE SequenceDetector
Circuits == INSTANCE LogicCircuits
Hooks == INSTANCE SyscallHooks
Sums == INSTANCE ForkSum

ASSUME CallsAssumption == Hooks!CallOK
\* Process numbers are positive: 0 in tracing_pid is nobody.
ASSUME ProcessAssumption == 0 \notin Process
\* An adder has a column at least, for the sign.
ASSUME WidthAssumption == Width \in Nat \ {0} /\ Votes \in Nat
\* The input file's tasks are of any number and arrival, their bursts not negative.
ASSUME TasksAssumption ==
    /\ Pid \in Seq(Int) /\ Arrivals \subseteq Int /\ Bursts \subseteq Nat /\ Quanta \subseteq Int
    /\ MaxTime \in Nat
ASSUME ReferencesAssumption == References \in Nat /\ Pages \in Nat /\ Frames \subseteq Int
\* The largest sum a child exits with, the last one's, is an exit status.
ASSUME StatusAssumption ==
    MAX_PROCESSES \in Nat /\ StatusMax \in Nat /\ 4 * MAX_PROCESSES - 1 <= StatusMax

-----------------------------------------------------------------------------

CpuIdle ==
    /\ policy = 0 /\ quantum = 0 /\ arr = 0 /\ burst = 0 /\ remain = 0 /\ start = 0
    /\ finish = 0 /\ time = 0 /\ finished = 0 /\ cur = 0 /\ left = 0
    /\ queue = 0 /\ pushes = 0 /\ inq = 0 /\ gantt = 0
PageIdle ==
    /\ nframe = 0 /\ refs = 0 /\ algorithm = 0 /\ frames = 0 /\ last_used = 0
    /\ refb = 0 /\ next = 0 /\ filled = 0 /\ faults = 0
DetectorIdle == current_state = 0 /\ taken = 0
CircuitIdle == A = 0 /\ B = 0 /\ Cin = 0 /\ ballot = 0
HookIdle ==
    /\ loaded = 0 /\ os_ftrace = 0 /\ orig = 0 /\ hooked = 0 /\ tracing_pid = 0
    /\ cnt = 0 /\ bytes = 0 /\ traced_file = 0 /\ made = 0 /\ disturbed = 0 /\ tidy = 0
TracerIdle ==
    /\ life = 0 /\ real_parent = 0 /\ group_leader = 0 /\ fork_count = 0 /\ making = 0
    /\ nr_threads = 0 /\ processes = 0 /\ unbalanced = 0 /\ forks = 0 /\ traced = 0
SumIdle == program = 0 /\ file = 0 /\ worker = 0 /\ result = 0 /\ phase = 0

SimulatorsInit ==
    \/ /\ family = "cpu" /\ Cpu!Init /\ i = 0
       /\ PageIdle /\ DetectorIdle /\ CircuitIdle /\ HookIdle /\ TracerIdle /\ SumIdle
    \/ /\ family = "paging" /\ Paging!Init /\ pc = 0 /\ total = 0
       /\ CpuIdle /\ DetectorIdle /\ CircuitIdle /\ HookIdle /\ TracerIdle /\ SumIdle
    \/ /\ family = "detector" /\ Detector!Init /\ pc = 0 /\ total = 0 /\ i = 0
       /\ CpuIdle /\ PageIdle /\ CircuitIdle /\ HookIdle /\ TracerIdle /\ SumIdle
    \/ /\ family = "circuits" /\ Circuits!Init /\ pc = 0 /\ total = 0 /\ i = 0
       /\ CpuIdle /\ PageIdle /\ DetectorIdle /\ HookIdle /\ TracerIdle /\ SumIdle
    \/ /\ family = "hooks" /\ Hooks!Init /\ total = 0 /\ i = 0
       /\ CpuIdle /\ PageIdle /\ DetectorIdle /\ CircuitIdle /\ TracerIdle /\ SumIdle
    \/ /\ family = "tracer" /\ Init /\ pc = 0 /\ total = 0 /\ i = 0
       /\ CpuIdle /\ PageIdle /\ DetectorIdle /\ CircuitIdle /\ HookIdle /\ SumIdle
    \/ /\ family = "sums" /\ Sums!Init /\ pc = 0
       /\ CpuIdle /\ PageIdle /\ DetectorIdle /\ CircuitIdle /\ HookIdle /\ TracerIdle

Schedules(step) ==
    /\ family = "cpu" /\ step
    /\ UNCHANGED <<family, pageVars, detectorVars, circuitVars, hookVars, vars, sumVars, i>>
Replaces(step) ==
    /\ family = "paging" /\ step
    /\ UNCHANGED <<family, cpuVars, detectorVars, circuitVars, hookVars, vars, sumVars, pc, total>>
Clocks(step) ==
    /\ family = "detector" /\ step
    /\ UNCHANGED <<family, cpuVars, pageVars, circuitVars, hookVars, vars, sumVars, pc, total, i>>
Switches(step) ==
    /\ family = "circuits" /\ step
    /\ UNCHANGED <<family, cpuVars, pageVars, detectorVars, hookVars, vars, sumVars, pc, total, i>>
Calls(step) ==
    /\ family = "hooks" /\ step
    /\ UNCHANGED <<family, cpuVars, pageVars, detectorVars, circuitVars, vars, sumVars, total, i>>
Traces(step) ==
    /\ family = "tracer" /\ step
    /\ UNCHANGED <<family, cpuVars, pageVars, detectorVars, circuitVars, hookVars, sumVars, pc, total, i>>
Adds(step) ==
    /\ family = "sums" /\ step
    /\ UNCHANGED <<family, cpuVars, pageVars, detectorVars, circuitVars, hookVars, vars, pc>>

SimulatorsNext ==
    \/ Schedules(Cpu!Pick) \/ Schedules(Cpu!PickRR) \/ Schedules(Cpu!Tick)
    \/ Schedules(Cpu!Finish) \/ Schedules(Cpu!Preempt) \/ Schedules(Cpu!Stop)
    \/ Replaces(Paging!simulate_optimal) \/ Replaces(Paging!simulate_fifo)
    \/ Replaces(Paging!simulate_lru) \/ Replaces(Paging!simulate_clock) \/ Replaces(Paging!main)
    \/ Clocks(Detector!Reset) \/ \E x \in {0, 1} : Clocks(Detector!Clock(x))
    \/ Switches(Circuits!Next)
    \/ Calls(Hooks!hook_init) \/ Calls(Hooks!ftrace_init) \/ Calls(Hooks!pt_init)
    \/ Calls(Hooks!file_varea_init) \/ Calls(Hooks!hook_exit) \/ Calls(Hooks!ftrace_exit)
    \/ Calls(Hooks!pt_exit) \/ Calls(Hooks!file_varea_exit)
    \/ Calls(Hooks!init_mod) \/ Calls(Hooks!exit_mod)
    \/ \E p \in Process :
          \/ Calls(Hooks!ftrace(p)) \/ Calls(\E c \in Call : Hooks!Enter(p, c))
          \/ Calls(Hooks!Look(p)) \/ Calls(Hooks!Count(p))
    \/ \E t \in Task :
          \/ Traces(Begin(t)) \/ Traces(BeginFails(t)) \/ Traces(Copy(t))
          \/ Traces(TooManyThreads(t)) \/ Traces(CopyFails(t))
          \/ Traces(Publish(t)) \/ Traces(PublishFails(t))
          \/ Traces(Count(t)) \/ Traces(Exit(t))
          \/ Traces(Release_task(t)) \/ Traces(TraceTask(t))
    \/ Traces(TraceFamily)
    \/ Adds(Sums!Fork) \/ Adds(Sums!ForkFails) \/ Adds(Sums!WaitFails)
    \/ Adds(Sums!ThreadCreate) \/ Adds(Sums!CreateFails) \/ Adds(Sums!AllStarted)
    \/ Adds(Sums!Join) \/ Adds(Sums!JoinsUnset) \/ Adds(Sums!Prints)
    \/ \E w \in Sums!Index :
          \/ Adds(Sums!Child(w)) \/ Adds(Sums!Killed(w))
          \/ Adds(Sums!Thread(w)) \/ Adds(Sums!Wait(w))

SimulatorsSpec == SimulatorsInit /\ [][SimulatorsNext]_allVars

-----------------------------------------------------------------------------
(* The properties of the modules, each of the program it is about.            *)

\* CPU: the processor idles only while there is nobody to run, every report of
\* a finished task is true to the chart of who ran when, and no schedule of the
\* tasks has a smaller mean turnaround than srtf's.
SchedulesHold == family = "cpu" => Cpu!WorkConserving /\ Cpu!ReportsTrue /\ Cpu!SRTFOptimal

\* Paging: the optimal algorithm has the fewest faults any choice of victims
\* allows, so that none of the other three has fewer, and lru's frames are the
\* pages referenced last.
ReplacementsHold == family = "paging" => Paging!OptimalIsLeast /\ Paging!LRUKeepsRecent

\* Circuits: the outputs of the Moore machine stand for patterns of the bits
\* taken, those of the adder for a sum and an overflow, the voter's for a majority.
OutputsMean ==
    /\ family = "detector" => Detector!OutputsMean
    /\ family = "circuits" => Circuits!CircuitsCorrect

\* Hooks: the counters of a trace are those of the traced process's own calls
\* since the trace began, as long as each process traces itself only, and a file
\* is named only if it opened one.
CountsExact == family = "hooks" => Hooks!TypeOK /\ Hooks!CountsExact

\* Hooks: modules unloaded in reverse order and out of use leave no pointer to
\* code that is gone and, all unloaded, the kernel's own call.
TidyUnload == family = "hooks" => Hooks!TidyUnload

\* Kernel: a fork that fails in any step gives back just what it had taken.
ForksGiveBack == family = "tracer" => ForksBalanced

\* Kernel: fork_count is the number of tasks a task has made, late by one only
\* while _do_fork is on its way out.
ForksAreCounted == family = "tracer" => ForksCounted

\* Sums: what is printed is the sum of the pairs of the workers that started,
\* could open the file and were not killed, through an exit status as through
\* memory.
SumsAgree == family = "sums" => Sums!SumsAgree
=============================================================================
