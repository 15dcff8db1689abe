------------------------------ MODULE MCProxies ------------------------------
(* The proxies of 08 and 09: SynchronizedProxy, whose children write the log  *)
(* themselves, and ThreadedProxy, whose children have a thread write it.      *)
EXTENDS ThreadedProxy

VARIABLE program     \* "08" or "09"

\* A step that both programs have.
Same(step) == step /\ UNCHANGED <<thread, program>>

LogsItself(c) == program = "08" /\ Same(Log(c))

HasThread(step) == program = "09" /\ step /\ UNCHANGED program

ProxiesInit == ThreadedInit /\ program \in {"08", "09"}

ProxiesNext ==
    \/ Same(Start)
    \/ Same(SetVal)
    \/ Same(Reap)
    \/ Same(ServerEnds)
    \/ \E c \in Child :
          \/ Same(Accept(c))
          \/ Same(NoRequest(c))
          \/ Same(Request(c))
          \/ Same(Searches(c))
          \/ Same(Enter(c))
          \/ LogsItself(c)
          \/ HasThread(CreateThread(c))
          \/ HasThread(write_log_thread(c))
          \/ HasThread(Join(c))
          \/ Same(Leave(c))
          \/ Same(Serve(c))
          \/ Same(Served(c))
          \/ Same(Open(c))
          \/ Same(Copy(c))
          \/ Same(Copied(c))
          \/ Same(OriginFails(c))
          \/ EndedWithThread(c) /\ UNCHANGED program

proxiesVars == <<threadedVars, program>>

\* What a child and its thread do as long as they are scheduled.
Runs(c) ==
    \/ Same(Searches(c)) \/ Same(Leave(c)) \/ Same(Serve(c)) \/ Same(Served(c))
    \/ LogsItself(c)
    \/ HasThread(CreateThread(c)) \/ HasThread(write_log_thread(c)) \/ HasThread(Join(c))

ProxiesSpec ==
    /\ ProxiesInit /\ [][ProxiesNext]_proxiesVars
    /\ WF_proxiesVars(Same(SetVal)) /\ WF_proxiesVars(Same(Reap))
    /\ \A c \in Child : WF_proxiesVars(Runs(c)) /\ SF_proxiesVars(Same(Enter(c)))
=============================================================================
