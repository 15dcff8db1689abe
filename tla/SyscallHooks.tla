---------------------------- MODULE SyscallHooks ----------------------------
(***************************************************************************)
(* The kernel modules that replace entries of the system call table and    *)
(* put back, when they are unloaded, what they found. Four of them hook    *)
(* the added call 336: os_ftracehooking and ftracehooking                  *)
(* (02_System_Call_Hooking), process_tracer (03_Process_Scheduling_        *)
(* Simulation) and file_varea (04_Memory_Management). iotracehooking hooks *)
(* the calls on files, whose use by one process it counts in variables     *)
(* that ftracehooking exports.                                             *)
(***************************************************************************)
EXTENDS Integers, Sequences

CONSTANTS
    Process,         \* numbers of processes, from 1
    File,            \* names of files
    Call,            \* hooked calls: openat, read, write, lseek, close
    MaxCalls,        \* bound: hooked calls counted for a process
    MaxLoaded        \* bound: modules loaded at a time

CallOK == Call \subseteq {"openat", "read", "write", "lseek", "close"}

VARIABLES
    loaded,          \* modules loaded, oldest first
    os_ftrace,       \* what entry 336 of the table points to
    orig,            \* what each module found there when it was loaded
    hooked,          \* whether the entries of the calls on files are replaced
    tracing_pid,     \* the process traced, or 0
    cnt, bytes,      \* its calls and the bytes they moved, by call
    traced_file,     \* the first file it opened, as far as its name was copied, or ""
    pc,              \* what each process is doing
    made,            \* history: hooked calls of each process since its trace began
    disturbed,       \* history: a trace was begun or ended by another process
    tidy             \* history: modules were unloaded in order and out of use

hookVars == <<loaded, os_ftrace, orig, hooked>>
traceVars == <<tracing_pid, cnt, bytes, traced_file>>
vars == <<hookVars, traceVars, pc, made, disturbed, tidy>>

Hooker == {"os_ftracehooking", "ftracehooking", "process_tracer", "file_varea"}
Module == Hooker \cup {"iotracehooking"}
Loaded(m) == \E k \in DOMAIN loaded : loaded[k] = m

Zero == [c \in Call |-> 0]
User == [at |-> "user", call |-> "none", file |-> ""]
Lost == [at |-> "lost", call |-> "none", file |-> ""]

\* The variables of ftracehooking as they are when it is loaded.
NoTrace == tracing_pid' = 0 /\ cnt' = Zero /\ bytes' = Zero /\ traced_file' = ""

Init ==
    /\ loaded = <<>> /\ os_ftrace = "kernel" /\ hooked = FALSE
    /\ orig = [m \in Hooker |-> "none"]
    /\ tracing_pid = 0 /\ cnt = Zero /\ bytes = Zero /\ traced_file = ""
    /\ pc = [p \in Process |-> User]
    /\ made = [p \in Process |-> Zero]
    /\ disturbed = FALSE /\ tidy = TRUE

-----------------------------------------------------------------------------
\* Loading and unloading.

Without(m) ==
    LET k == CHOOSE j \in DOMAIN loaded : loaded[j] = m
    IN  SubSeq(loaded, 1, k - 1) \o SubSeq(loaded, k + 1, Len(loaded))

\* Hookers that were loaded after m and are still there.
Above(m) == \E j, k \in DOMAIN loaded : j < k /\ loaded[j] = m /\ loaded[k] \in Hooker

\* What the four hookers do when they are loaded.
init_hook(m) ==
    /\ ~Loaded(m) /\ Len(loaded) < MaxLoaded
    /\ loaded' = Append(loaded, m)
    /\ orig' = [orig EXCEPT ![m] = os_ftrace]
    /\ os_ftrace' = m
    /\ IF m = "ftracehooking" THEN NoTrace ELSE UNCHANGED traceVars
    /\ UNCHANGED <<hooked, pc, made, disturbed, tidy>>

\* Mutation: the entry is left as it is.
Kept(m) == os_ftrace

Restored(m) == orig[m]

hook_init == init_hook("os_ftracehooking")
ftrace_init == init_hook("ftracehooking")
pt_init == init_hook("process_tracer")
file_varea_init == init_hook("file_varea")

\* Their unloading, with which a module's variables go. While iotracehooking
\* uses those of ftracehooking the kernel does not let that one go.
exit_hook(m) ==
    /\ Loaded(m)
    /\ m = "ftracehooking" => ~Loaded("iotracehooking")
    /\ loaded' = Without(m)
    /\ os_ftrace' = Restored(m)
    /\ orig' = [orig EXCEPT ![m] = "none"]
    /\ IF m = "ftracehooking" THEN NoTrace ELSE UNCHANGED traceVars
    /\ tidy' = (tidy /\ ~Above(m))
    /\ UNCHANGED <<hooked, pc, made, disturbed>>

hook_exit == exit_hook("os_ftracehooking")
ftrace_exit == exit_hook("ftracehooking")
pt_exit == exit_hook("process_tracer")
file_varea_exit == exit_hook("file_varea")

\* init_mod and exit_mod of iotracehooking. Nothing keeps the module while a
\* process is in one of its hooks, and there is no code to return to then.
init_mod ==
    /\ Loaded("ftracehooking") /\ ~Loaded("iotracehooking") /\ Len(loaded) < MaxLoaded
    /\ loaded' = Append(loaded, "iotracehooking")
    /\ hooked' = TRUE
    /\ UNCHANGED <<os_ftrace, orig, traceVars, pc, made, disturbed, tidy>>

exit_mod ==
    /\ Loaded("iotracehooking")
    /\ loaded' = Without("iotracehooking")
    /\ hooked' = FALSE
    /\ pc' = [p \in Process |-> IF pc[p] = User THEN User ELSE Lost]
    /\ tidy' = (tidy /\ \A p \in Process : pc[p] = User)
    /\ UNCHANGED <<os_ftrace, orig, traceVars, made, disturbed>>

-----------------------------------------------------------------------------
\* my_ftrace.

\* Mutation: the counters of the trace before go on.
CountFromLast == cnt

CountFrom == Zero

BeginTrace(p, pid) ==
    /\ tracing_pid' = pid
    /\ cnt' = CountFrom /\ bytes' = Zero /\ traced_file' = ""
    /\ made' = [made EXCEPT ![pid] = Zero]
    /\ disturbed' = (disturbed \/ pid # p \/ tracing_pid \notin {0, p})

EndTrace(p) ==
    /\ tracing_pid' = 0
    /\ disturbed' = (disturbed \/ tracing_pid \notin {0, p})
    /\ UNCHANGED <<cnt, bytes, traced_file, made>>

\* A process calls number 336: the kernel's own os_ftrace and the hook of
\* os_ftracehooking only print.
ftrace(p) ==
    /\ pc[p] = User
    /\ os_ftrace = "ftracehooking" /\ Loaded("ftracehooking")
    /\ (\E pid \in Process : BeginTrace(p, pid)) \/ EndTrace(p)
    /\ UNCHANGED <<hookVars, pc, tidy>>

-----------------------------------------------------------------------------
\* ftrace_openat, ftrace_read, ftrace_write, ftrace_lseek and ftrace_close: the
\* original call first, which may take its time, then the counting.

Enter(p, c) ==
    /\ pc[p] = User /\ hooked /\ made[p][c] < MaxCalls
    /\ \E f \in IF c = "openat" THEN File ELSE {""} :
          pc' = [pc EXCEPT ![p] = [at |-> "original", call |-> c, file |-> f]]
    /\ UNCHANGED <<hookVars, traceVars, made, disturbed, tidy>>

Leaves(p) == pc' = [pc EXCEPT ![p] = User] /\ made' = [made EXCEPT ![p][pc[p].call] = @ + 1]

Traced(p) == tracing_pid = p

\* The process is looked at, and a little later the counters are changed.
Look(p) ==
    /\ pc[p].at = "original"
    /\ IF Traced(p)
       THEN pc' = [pc EXCEPT ![p].at = "counting"] /\ UNCHANGED made
       ELSE Leaves(p)
    /\ UNCHANGED <<hookVars, traceVars, disturbed, tidy>>

\* While there is no name yet it is copied from the caller. A copy that meets
\* memory it cannot read fails, and leaves nothing or a part of the name.
Torn == "..."
FirstFile(f) == IF traced_file = "" THEN {f, "", Torn} ELSE {traced_file}

Count(p) ==
    LET c == pc[p].call
    IN  /\ pc[p].at = "counting"
        /\ cnt' = [cnt EXCEPT ![c] = @ + 1]
        /\ \E moved \in IF c \in {"read", "write"} THEN {0, 1} ELSE {0} :
              bytes' = [bytes EXCEPT ![c] = @ + moved]
        /\ traced_file' \in IF c = "openat" THEN FirstFile(pc[p].file) ELSE {traced_file}
        /\ Leaves(p)
        /\ UNCHANGED <<hookVars, tracing_pid, disturbed, tidy>>

Next ==
    \/ hook_init \/ ftrace_init \/ pt_init \/ file_varea_init
    \/ hook_exit \/ ftrace_exit \/ pt_exit \/ file_varea_exit
    \/ init_mod \/ exit_mod
    \/ \E p \in Process :
          \/ ftrace(p)
          \/ \E c \in Call : Enter(p, c)
          \/ Look(p) \/ Count(p)

Spec == Init /\ [][Next]_vars

-----------------------------------------------------------------------------
(* Properties. *)

\* Every variable keeps its type.
TypeOK ==
    /\ loaded \in Seq(Module) /\ os_ftrace \in Hooker \cup {"kernel"}
    /\ orig \in [Hooker -> Hooker \cup {"kernel", "none"}] /\ hooked \in BOOLEAN
    /\ tracing_pid \in Process \cup {0} /\ cnt \in [Call -> Nat] /\ bytes \in [Call -> Nat]
    /\ traced_file \in File \cup {"", Torn}
    /\ pc \in [Process -> [at : {"user", "original", "counting", "lost"},
                           call : Call \cup {"none"}, file : File \cup {""}]]
    /\ made \in [Process -> [Call -> Nat]]
    /\ disturbed \in BOOLEAN /\ tidy \in BOOLEAN

\* As long as each process begins and ends its own trace and nobody else's, the
\* counters are those of its hooked calls since it began, none lost between
\* looking and counting and none of another process among them; a file is named
\* only if the process has opened one since.
CountsExact ==
    \A p \in Process :
        tracing_pid = p /\ pc[p] = User /\ ~disturbed =>
            /\ cnt = made[p]
            /\ \A c \in Call : bytes[c] <= cnt[c]
            /\ "openat" \in Call => (traced_file # "" => cnt["openat"] > 0)

CodePresent ==
    /\ os_ftrace \in Hooker => Loaded(os_ftrace)
    /\ \A p \in Process : pc[p] # Lost

\* Modules unloaded in the reverse order of loading, while nobody is in them,
\* leave no pointer to code that is gone and in the end the kernel's own call.
TidyUnload ==
    tidy => CodePresent /\ (loaded = <<>> => os_ftrace = "kernel")
=============================================================================
