---------------------------- MODULE ThreadedProxy ----------------------------
(***************************************************************************)
(* 09_Hybrid_Arch_Threaded_Logging/threaded_proxy.c: the proxy of          *)
(* SynchronizedProxy, whose code it repeats but for the line of the log,   *)
(* which a thread writes that the child starts and waits for inside the    *)
(* region.                                                                 *)
(***************************************************************************)
EXTENDS SynchronizedProxy

VARIABLE thread      \* the log thread of each child: none, running, exited

threadedVars == <<vars, thread>>

ThreadedInit == Init /\ thread = [c \in Child |-> "none"]

Turns(c, from, to) == thread[c] = from /\ thread' = [thread EXCEPT ![c] = to]

\* pthread_create.
CreateThread(c) ==
    /\ pc[c] = "critical" /\ Turns(c, "none", "running")
    /\ UNCHANGED vars

\* write_log_thread, which reads its parameters from the child's stack.
write_log_thread(c) ==
    /\ Turns(c, "running", "exited")
    /\ logfile' = Append(logfile, [kind |-> IF found[c] THEN "hit" ELSE "miss", url |-> url[c]])
    /\ UNCHANGED <<serverVars, semVars, sigchld, pc, parent, childVars, cache, cut>>

\* Mutation: the thread is left to itself.
JoinableAtOnce(c) == thread[c] # "none"

\* pthread_join returns.
Joinable(c) == thread[c] = "exited"

Join(c) ==
    /\ Goes(c, "critical", "logged") /\ Joinable(c)
    /\ UNCHANGED <<serverVars, semVars, sigchld, parent, childVars, fileVars, thread>>

\* The thread ends with its process.
EndedWithThread(c) == Ended(c) /\ thread' = [thread EXCEPT ![c] = "none"]

ChildWork(c) ==
    \/ Searches(c) \/ Enter(c) \/ Leave(c)
    \/ Serve(c) \/ Served(c)
    \/ Open(c) \/ Copy(c) \/ Copied(c)

ThreadedNext ==
    \/ Start /\ UNCHANGED thread
    \/ SetVal /\ UNCHANGED thread
    \/ Reap /\ UNCHANGED thread
    \/ ServerEnds /\ UNCHANGED thread
    \/ \E c \in Child :
          \/ Accept(c) /\ UNCHANGED thread
          \/ NoRequest(c) /\ UNCHANGED thread
          \/ Request(c) /\ UNCHANGED thread
          \/ ChildWork(c) /\ UNCHANGED thread
          \/ OriginFails(c) /\ UNCHANGED thread
          \/ CreateThread(c) \/ write_log_thread(c) \/ Join(c)
          \/ EndedWithThread(c)

ThreadedSpec == ThreadedInit /\ [][ThreadedNext]_threadedVars

-----------------------------------------------------------------------------
(* Properties. *)

\* The thread's parameters are variables of proxy_cache1_2 and its line is
\* written under the semaphore: it never runs once its child has moved on.
ThreadInRegion == \A c \in Child : thread[c] = "running" => pc[c] = "critical"

\* Writing the line in a thread makes no difference to anyone else: the child
\* is where SynchronizedProxy has it, past its line as soon as that is written.
Synchronized == INSTANCE SynchronizedProxy WITH
    pc <- [c \in Child |-> IF pc[c] = "critical" /\ thread[c] = "exited" THEN "logged" ELSE pc[c]]
ImplementsSynchronized == Synchronized!Spec
=============================================================================
