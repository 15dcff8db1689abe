--------------------------- MODULE ForkingProxies ---------------------------
(***************************************************************************)
(* The proxies that fork a child for each connection and share the cache   *)
(* among the children without any lock: 05_HTTP_Web_Proxy_Server, whose    *)
(* cache files are empty marks, 06_Reliable_Web_Proxy_Timeout, which puts  *)
(* an answer into them and an alarm around the child, and                  *)
(* 07_Full_Featured_Web_Proxy_DNS, which fetches pages from their origin.  *)
(*                                                                         *)
(* A page is a sequence of pieces, one read() each, as in                  *)
(* SynchronizedProxy; of the answers that 06 puts into a file the model    *)
(* keeps whose they are. Any opendir and any fopen may fail; a write to a  *)
(* file that is open does not.                                             *)
(***************************************************************************)
EXTENDS Integers, Sequences

CONSTANTS
    Program,         \* those of 05, 06 and 07 that are run
    Child,           \* connections, one child process each
    Url,             \* pages asked for
    MainUrl,         \* those for which is_main_url is true
    SlowUrl,         \* those with "timeout" in their name
    Pieces           \* pieces of a page

VARIABLES
    program,         \* the program that runs
    listening,       \* its server is up
    sigchld,         \* the server has a SIGCHLD pending
    pc,              \* how far each child is
    url,             \* the page it was asked for
    found,           \* what it saw of the cache
    offset,          \* pieces it has read from the cache or the origin
    cache,           \* the cache files, by page
    logfile,         \* lines of logfile.txt
    answered,        \* history: children that have answered and whose page had its file
    before,          \* history: those who had when a child could search the cache
    cut              \* history: pages some writer of which stopped early or could not open the file

childVars == <<url, found, offset, before>>
fileVars == <<cache, logfile, answered, cut>>
vars == <<program, listening, sigchld, pc, childVars, fileVars>>

Hole == 0
Garbage == "garbage"         \* what is in buf when nothing was read

Fetching == {"fetching", "copying", "relaying"}
Working == Fetching \cup {"reading", "paused", "lookup", "log", "create",
                          "respond", "unmade", "append", "serving", "spinning"}

Init ==
    /\ program \in Program
    /\ listening = TRUE /\ sigchld = FALSE
    /\ pc = [c \in Child |-> "none"]
    /\ url \in [Child -> Url]
    /\ found = [c \in Child |-> FALSE]
    /\ offset = [c \in Child |-> 0]
    /\ before = [c \in Child |-> {}]
    /\ cache = [u \in {} |-> <<>>] /\ logfile = <<>>
    /\ answered = {} /\ cut = {}

-----------------------------------------------------------------------------
\* The server.

\* Where fork fails the parent closes the connection as for a child.
Accept(c) ==
    /\ listening /\ pc[c] = "none"
    /\ \E p \in {"reading", "gone"} : pc' = [pc EXCEPT ![c] = p]
    /\ UNCHANGED <<program, listening, sigchld, childVars, fileVars>>

\* Mutation: one waitpid for each signal, and signals do not queue.
ReapedOne(zombies) == IF zombies = {} THEN {} ELSE {CHOOSE z \in zombies : TRUE}

Reaped(zombies) == zombies

\* handler: SIGCHLD.
Reap ==
    /\ listening /\ sigchld /\ sigchld' = FALSE
    /\ LET reaped == Reaped({c \in Child : pc[c] = "zombie"})
       IN  pc' = [c \in Child |-> IF c \in reaped THEN "gone" ELSE pc[c]]
    /\ UNCHANGED <<program, listening, childVars, fileVars>>

Terminated == [kind |-> "terminated"]

\* The line of a program is written, or logfile.txt cannot be opened.
Logs(line) == logfile' \in {logfile, Append(logfile, line)}

\* The server is interrupted; in program 07 sigint_handler writes a line.
ServerEnds ==
    /\ listening /\ listening' = FALSE
    /\ sigchld' = FALSE
    /\ pc' = [c \in Child |-> IF pc[c] = "zombie" THEN "gone" ELSE pc[c]]
    /\ IF program = "07" THEN Logs(Terminated) ELSE UNCHANGED logfile
    /\ UNCHANGED <<program, childVars, cache, answered, cut>>

-----------------------------------------------------------------------------
\* A child, from the request to the search of the cache.

Ends(c) ==
    /\ pc' = [pc EXCEPT ![c] = IF listening THEN "zombie" ELSE "gone"]
    /\ sigchld' = (sigchld \/ listening)
    /\ UNCHANGED <<program, listening>>

Goes(c, from, to) ==
    /\ pc[c] = from /\ pc' = [pc EXCEPT ![c] = to]
    /\ UNCHANGED <<program, listening, sigchld>>

\* The client leaves without a request. 05 does not look at what read returns
\* and takes what is in buf; 06 goes back to accept, on a socket the child has
\* closed, where it fails again and again.
NoRequest(c) ==
    /\ pc[c] = "reading"
    /\ \/ program = "05" /\ Goes(c, "reading", "lookup") /\ url' = [url EXCEPT ![c] = Garbage]
       \/ program = "06" /\ Goes(c, "reading", "spinning") /\ UNCHANGED url
       \/ program = "07" /\ Ends(c) /\ UNCHANGED url
    /\ UNCHANGED <<found, offset, before, fileVars>>

\* 06 waits for its alarm when the page is a slow one; 07 has nothing to say
\* about pictures and scripts.
Request(c) ==
    /\ pc[c] = "reading"
    /\ \/ program = "06" /\ url[c] \in SlowUrl /\ Goes(c, "reading", "paused")
       \/ program = "07" /\ url[c] \notin MainUrl /\ Ends(c)
       \/ /\ program = "06" => url[c] \notin SlowUrl
          /\ program = "07" => url[c] \in MainUrl
          /\ Goes(c, "reading", "lookup")
    /\ UNCHANGED <<childVars, fileVars>>

\* proxy_cache1_2, as far as the search. Where opendir fails nothing is found.
Lookup(c) ==
    /\ Goes(c, "lookup", "log")
    /\ \/ /\ found' = [found EXCEPT ![c] = url[c] \in DOMAIN cache]
          /\ before' = [before EXCEPT ![c] = answered]
       \/ UNCHANGED <<found, before>>
    /\ UNCHANGED <<url, offset, fileVars>>

\* Mutation: the file is not created.
AfterLogAtOnce(c) == IF program = "07" THEN "fetching" ELSE "respond"

AfterLog(c) ==
    IF program = "07" THEN IF found[c] THEN "serving" ELSE "fetching"
    ELSE IF found[c] THEN "respond" ELSE "create"

Log(c) ==
    /\ Goes(c, "log", AfterLog(c))
    /\ Logs([kind |-> IF found[c] THEN "hit" ELSE "miss", url |-> url[c], child |-> c])
    /\ UNCHANGED <<childVars, cache, answered, cut>>

Emptied(u) == [v \in DOMAIN cache \cup {u} |-> IF v = u THEN <<>> ELSE cache[v]]

Answers(c) == answered' = answered \cup {c}

-----------------------------------------------------------------------------
\* 05 and 06.

\* The empty file of a miss: it may exist by now, and be emptied. Where fopen
\* fails the child goes on without it.
Create(c) ==
    /\ \/ Goes(c, "create", "respond") /\ cache' = Emptied(url[c])
       \/ Goes(c, "create", "unmade") /\ UNCHANGED cache
    /\ UNCHANGED <<childVars, logfile, answered, cut>>

\* The header and the message of the answer, which in 06 is empty.
Respond(c) ==
    /\ pc[c] \in {"respond", "unmade"}
    /\ IF pc[c] = "respond" THEN Answers(c) ELSE UNCHANGED answered
    /\ IF program = "06" /\ ~found[c] THEN Goes(c, pc[c], "append") ELSE Ends(c)
    /\ UNCHANGED <<childVars, cache, logfile, cut>>

Appended(data, answer) == Append(data, answer)

FileOf(u) == IF u \in DOMAIN cache THEN cache[u] ELSE <<>>

\* The answer goes to the end of the file, which "a" makes if it is not there,
\* or the file cannot be opened.
AppendAnswer(c) ==
    /\ pc[c] = "append" /\ Ends(c)
    /\ \/ /\ cache' = [v \in DOMAIN cache \cup {url[c]} |->
                         IF v = url[c] THEN Appended(FileOf(v), c) ELSE cache[v]]
          /\ UNCHANGED cut
       \/ cut' = cut \cup {url[c]} /\ UNCHANGED cache
    /\ UNCHANGED <<childVars, logfile, answered>>

-----------------------------------------------------------------------------
\* 07.

\* What the file holds goes to the client, piece by piece up to its end.
Serve(c) ==
    /\ Goes(c, "serving", "serving")
    /\ offset[c] < Len(cache[url[c]])
    /\ offset' = [offset EXCEPT ![c] = @ + 1]
    /\ UNCHANGED <<url, found, before, fileVars>>

\* The end of the file, or the file could not be opened.
Served(c) ==
    /\ pc[c] = "serving" /\ (offset[c] >= Len(cache[url[c]]) \/ offset[c] = 0)
    /\ Answers(c) /\ Ends(c)
    /\ UNCHANGED <<childVars, cache, logfile, cut>>

\* The origin is known and has been asked; the cache file is opened with "wb"
\* or cannot be.
Open(c) ==
    /\ \/ Goes(c, "fetching", "copying") /\ cache' = Emptied(url[c])
       \/ Goes(c, "fetching", "relaying") /\ UNCHANGED cache
    /\ UNCHANGED <<childVars, logfile, answered, cut>>

\* Mutation: pieces go to the end of the file, wherever the writer is.
WrittenAtEnd(data, at, piece) == Append(data, piece)

\* The file after piece is written as its at-th.
Written(data, at, piece) ==
    [k \in 1..(IF at > Len(data) THEN at ELSE Len(data)) |->
        IF k = at THEN piece ELSE IF k <= Len(data) THEN data[k] ELSE Hole]

Copy(c) ==
    LET k == offset[c] + 1
    IN  /\ pc[c] \in {"copying", "relaying"} /\ k <= Pieces
        /\ cache' = IF pc[c] = "relaying" THEN cache
                    ELSE [cache EXCEPT ![url[c]] = Written(@, k, k)]
        /\ offset' = [offset EXCEPT ![c] = k]
        /\ UNCHANGED <<program, listening, sigchld, pc, url, found, before, logfile, answered, cut>>

Copied(c) ==
    /\ pc[c] \in {"copying", "relaying"} /\ offset[c] = Pieces
    /\ answered' = IF pc[c] = "copying" THEN answered \cup {c} ELSE answered
    /\ Ends(c)
    /\ UNCHANGED <<childVars, cache, logfile, cut>>

\* The history of pages whose writer stops between "wb" and the last piece.
Cut(c) ==
    cut' = IF pc[c] \in {"copying", "append"} \/ (pc[c] = "respond" /\ ~found[c])
           THEN cut \cup {url[c]} ELSE cut

\* The origin is unknown, refuses, or stops before the end of the page.
OriginFails(c) ==
    /\ pc[c] \in Fetching /\ offset[c] < Pieces
    /\ Ends(c) /\ Cut(c)
    /\ UNCHANGED <<childVars, cache, logfile, answered>>

-----------------------------------------------------------------------------
\* sigalcut_handler: in 06 the alarm is on until the child has done its work,
\* in 07 while it waits for the request. 05 has none.
SigAlrm(c) ==
    /\ \/ program = "06" /\ pc[c] \in Working \ {"spinning"}
       \/ program = "07" /\ pc[c] = "reading"
    /\ Ends(c) /\ Cut(c)
    /\ UNCHANGED <<childVars, cache, logfile, answered>>

\* The child is ended from outside at any time: by SIGPIPE when its client has
\* left, by Ctrl-C, which in 07 makes it write a line as the server does.
Ended(c) ==
    /\ pc[c] \in Working
    /\ Ends(c) /\ Cut(c)
    /\ IF program = "07" THEN Logs(Terminated) ELSE UNCHANGED logfile
    /\ UNCHANGED <<childVars, cache, answered>>

\* What a child does of its own accord once it has a request.
Work(c) ==
    Lookup(c) \/ Log(c) \/ Create(c) \/ Respond(c) \/ AppendAnswer(c)

Next ==
    \/ Reap \/ ServerEnds
    \/ \E c \in Child :
          \/ Accept(c) \/ NoRequest(c) \/ Request(c) \/ Work(c)
          \/ Serve(c) \/ Served(c) \/ Open(c) \/ Copy(c) \/ Copied(c) \/ OriginFails(c)
          \/ SigAlrm(c) \/ Ended(c)

Spec == Init /\ [][Next]_vars

\* Running processes are scheduled and signals are delivered. Clients need not
\* ask, nor origins answer, nor clients take a hit: 07 has switched its alarm
\* off when it writes one, and the write waits for the client.
Fairness == WF_vars(Reap) /\ \A c \in Child : WF_vars(Work(c)) /\ WF_vars(SigAlrm(c))

-----------------------------------------------------------------------------
(* Properties. *)

\* Every variable keeps its type.
TypeOK ==
    /\ program \in Program /\ listening \in BOOLEAN /\ sigchld \in BOOLEAN
    /\ pc \in [Child -> Working \cup {"none", "zombie", "gone"}]
    /\ url \in [Child -> Url \cup {Garbage}] /\ found \in [Child -> BOOLEAN]
    /\ offset \in [Child -> 0..Pieces]
    /\ DOMAIN cache \subseteq Url \cup {Garbage}
    /\ \A u \in DOMAIN cache : cache[u] \in Seq((0..Pieces) \cup Child)
    /\ answered \subseteq Child /\ before \in [Child -> SUBSET Child] /\ cut \subseteq Url \cup {Garbage}

Writing(c) == pc[c] \in {"respond", "append", "copying"} /\ ~found[c]

\* Two children may miss the same page only while both are at it: who can search
\* the cache after another has been answered and had its file, finds the page.
MissesOverlap ==
    \A i, j \in 1..Len(logfile) :
        logfile[i].kind = "miss" /\ logfile[j].kind = "miss" /\ i # j
            => ~(logfile[i].url = logfile[j].url
                 /\ logfile[i].child \in before[logfile[j].child])

\* The file holds answers of children that missed the page, one of each at most.
OnceEach(u) ==
    \A k \in 1..Len(cache[u]) :
        /\ cache[u][k] \in Child
        /\ url[cache[u][k]] = u /\ ~found[cache[u][k]]
        /\ \A j \in 1..Len(cache[u]) : cache[u][j] = cache[u][k] => j = k

\* Children that miss the same page open and write its file in any order. When
\* all are through, none was cut short and each could open it, the file is whole:
\* in 07 it is the page, in 06 it has an answer; and no child's twice.
WholeWhenQuiet ==
    \A u \in DOMAIN cache \ cut :
        (\A c \in Child : ~(Writing(c) /\ url[c] = u)) =>
            /\ program = "07" => cache[u] = [k \in 1..Pieces |-> k]
            /\ program = "06" => cache[u] # <<>> /\ OnceEach(u)

\* With its alarm a child of 06 or 07 ends and is collected, whether its client
\* asks or not, unless it has gone back to accept, waits for the origin or waits
\* for the client to take a hit, when the alarm is off.
ChildrenLeave ==
    \A c \in Child :
        pc[c] = "reading" /\ program # "05"
            ~> pc[c] \in {"gone", "spinning", "serving"} \cup Fetching
=============================================================================
