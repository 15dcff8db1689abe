---------------------------- MODULE CachePrograms ----------------------------
(***************************************************************************)
(* 01_Proxy_Cache_Server, 02_Cache_Hit_Miss_Logging and                    *)
(* 03_Multi_Process_Server_Arch: programs that read pages from a terminal  *)
(* and look for them in the cache. 01 keeps no log; 03 is a shell that     *)
(* forks a child for "connect" and waits for it. Sessions on several       *)
(* terminals share the cache and the log of the user.                      *)
(*                                                                         *)
(* Nobody looks at what scanf returns: at the end of the input the last    *)
(* page is read again and again, which here is a page typed again.         *)
(***************************************************************************)
EXTENDS Integers, Sequences, FiniteSets

CONSTANTS
    Session,         \* programs run at the same time
    Url,             \* pages typed, "bye" not among them
    MaxTyped         \* bound: pages and commands typed in one session

VARIABLES
    program,         \* what each session runs: 01, 02 or 03
    typed,           \* bound: what has been typed there
    pc,              \* shell (03), input, search, create, log, ended
    url, found,      \* the page it is at, and whether there is a file of it
    hit, miss,       \* its counters
    logfile_path,    \* 02 knows the path of the log: some page has been typed
    sub_process_count,
    cache,           \* files of the cache: what 02 and 03 put into them
    logfile          \* lines of logfile.txt

counterVars == <<hit, miss, sub_process_count, logfile_path>>
vars == <<program, typed, pc, url, found, counterVars, cache, logfile>>

Init ==
    /\ program \in [Session -> {"01", "02", "03"}]
    /\ typed = [s \in Session |-> 0]
    /\ pc = [s \in Session |-> IF program[s] = "03" THEN "shell" ELSE "input"]
    /\ url = [s \in Session |-> CHOOSE u \in Url : TRUE]
    /\ found = [s \in Session |-> FALSE]
    /\ hit = [s \in Session |-> 0] /\ miss = [s \in Session |-> 0]
    /\ logfile_path = [s \in Session |-> program[s] = "03"]
    /\ sub_process_count = [s \in Session |-> 0]
    /\ cache = [u \in {} |-> ""] /\ logfile = <<>>

Goes(s, from, to) == pc[s] = from /\ pc' = [pc EXCEPT ![s] = to]
Types(s) == typed[s] < MaxTyped /\ typed' = [typed EXCEPT ![s] = @ + 1]

\* A line of the log, with the session and the child that wrote it.
Writes(s, line) ==
    logfile' = Append(logfile, [session |-> s, child |-> sub_process_count[s], line |-> line])

-----------------------------------------------------------------------------
\* proxy_cache3, the shell of program 03, which waits while its child reads.

\* Mutation: the child goes on counting where the one before it stopped.
CountersKept(s) == UNCHANGED <<hit, miss>>

CountersFresh(s) == hit' = [hit EXCEPT ![s] = 0] /\ miss' = [miss EXCEPT ![s] = 0]

connect(s) ==
    /\ pc[s] = "shell" /\ Types(s)
    /\ pc' = [pc EXCEPT ![s] = "input"]
    /\ CountersFresh(s)
    /\ sub_process_count' = [sub_process_count EXCEPT ![s] = @ + 1]
    /\ UNCHANGED <<program, url, found, logfile_path, cache, logfile>>

\* fork fails and nothing is counted; or the command is none.
NoConnect(s) ==
    /\ pc[s] = "shell" /\ Types(s)
    /\ UNCHANGED <<program, pc, url, found, counterVars, cache, logfile>>

quit(s) ==
    /\ Goes(s, "shell", "ended")
    /\ Writes(s, [kind |-> "server", count |-> sub_process_count[s]])
    /\ UNCHANGED <<program, typed, url, found, counterVars, cache>>

-----------------------------------------------------------------------------
\* main of 01 and 02, proxy_cache2 of 03.

\* Where the program returns to when it has read "bye" or is killed.
Returns(s) == Goes(s, pc[s], IF program[s] = "03" THEN "shell" ELSE "ended")

TypesUrl(s, u) ==
    /\ Goes(s, "input", "search") /\ Types(s)
    /\ url' = [url EXCEPT ![s] = u]
    /\ logfile_path' = [logfile_path EXCEPT ![s] = TRUE]
    /\ UNCHANGED <<program, found, hit, miss, sub_process_count, cache, logfile>>

Search(s) ==
    LET there == url[s] \in DOMAIN cache
    IN  /\ Goes(s, "search", IF ~there THEN "create"
                             ELSE IF program[s] = "01" THEN "input" ELSE "log")
        /\ found' = [found EXCEPT ![s] = there]
        /\ UNCHANGED <<program, typed, url, counterVars, cache, logfile>>

\* The file of a miss. 01 leaves what another session may have put there.
Created(s) ==
    LET u == url[s]
    IN  [v \in DOMAIN cache \cup {u} |->
            IF v # u \/ (program[s] = "01" /\ u \in DOMAIN cache) THEN cache[v]
            ELSE IF program[s] = "01" THEN "" ELSE u]

Create(s) ==
    /\ Goes(s, "create", IF program[s] = "01" THEN "input" ELSE "log")
    /\ cache' = Created(s)
    /\ UNCHANGED <<program, typed, url, found, counterVars, logfile>>

\* The line leaves the buffer with fclose, after the file of a miss was made.
Log(s) ==
    /\ Goes(s, "log", "input")
    /\ Writes(s, [kind |-> IF found[s] THEN "hit" ELSE "miss", url |-> url[s]])
    /\ hit' = [hit EXCEPT ![s] = IF found[s] THEN @ + 1 ELSE @]
    /\ miss' = [miss EXCEPT ![s] = IF found[s] THEN @ ELSE @ + 1]
    /\ UNCHANGED <<program, typed, url, found, sub_process_count, logfile_path, cache>>

\* "bye": in 02 before any page the path of the log is not set, and the line is
\* lost, or goes to some other file.
bye(s) ==
    /\ pc[s] = "input" /\ Returns(s)
    /\ IF program[s] # "01" /\ logfile_path[s]
       THEN Writes(s, [kind |-> "bye", hit |-> hit[s], miss |-> miss[s]])
       ELSE UNCHANGED logfile
    /\ UNCHANGED <<program, typed, url, found, counterVars, cache>>

\* The program, or the child of 03, is interrupted anywhere.
Killed(s) ==
    /\ pc[s] \in {"input", "search", "create", "log"} /\ Returns(s)
    /\ UNCHANGED <<program, typed, url, found, counterVars, cache, logfile>>

Next ==
    \E s \in Session :
        \/ connect(s) \/ NoConnect(s) \/ quit(s)
        \/ \E u \in Url : TypesUrl(s, u)
        \/ Search(s) \/ Create(s) \/ Log(s) \/ bye(s) \/ Killed(s)

Spec == Init /\ [][Next]_vars

-----------------------------------------------------------------------------
(* Property. *)

\* The log tells the truth of each session, whatever other sessions write in
\* between: no page is missed twice in it, and the line at the end of 02, or of
\* a child of 03, has the number of its own lines before.
SessionLogTrue ==
    \A j \in 1..Len(logfile) :
        LET last == logfile[j]
            Mine(kind) == {i \in 1..j - 1 : /\ logfile[i].line.kind = kind
                                            /\ logfile[i].session = last.session}
            Count(kind) == Cardinality({i \in Mine(kind) : logfile[i].child = last.child})
        IN  /\ last.line.kind = "miss" =>
                   \A i \in Mine("miss") : logfile[i].line.url # last.line.url
            /\ last.line.kind = "bye" =>
                   last.line.hit = Count("hit") /\ last.line.miss = Count("miss")
=============================================================================
