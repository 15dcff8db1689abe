-------------------------- MODULE SynchronizedProxy --------------------------
(***************************************************************************)
(* 08_Concurrent_Proxy_Semaphore_Sync/synchronized_proxy.c: a proxy that   *)
(* forks a child for each connection. The children share a directory of    *)
(* cached pages, a log file and a System V semaphore, all of which outlive *)
(* the server; the server may be ended and started again while children of *)
(* the old one are still at work.                                          *)
(*                                                                         *)
(* A page is a sequence of pieces, one read() each. The cache file of a    *)
(* page is the sequence of piece numbers it holds; every writer has an     *)
(* offset of its own, so a piece written past the end leaves a hole.       *)
(***************************************************************************)
EXTENDS Integers, Sequences

CONSTANTS
    Child,           \* connections, one child process each
    Url,             \* pages asked for
    MainUrl,         \* those for which is_main_url is true
    Pieces,          \* pieces of a page
    MaxStarts        \* bound: times the server is started

ASSUME UrlAssumption == MainUrl \subseteq Url
ASSUME PiecesAssumption == Pieces \in Nat
ASSUME StartsAssumption == MaxStarts \in Nat

VARIABLES
    server,          \* down, created (before SETVAL), listening
    starts,          \* servers started so far
    semval,          \* value of the semaphore, -1 when there is none
    sigchld,         \* the server has a SIGCHLD pending
    pc,              \* how far each child is
    parent,          \* the server that forked it
    url,             \* the page it was asked for
    found,           \* what it saw of the cache
    offset,          \* pieces it has read from the cache or the origin
    sent,            \* pieces it has sent to its client
    cache,           \* the cache files, by page
    logfile,         \* lines of logfile.txt
    initialised,     \* history: the semaphore has been set
    cut              \* history: pages some writer of which stopped early

childVars == <<url, found, offset, sent>>
fileVars == <<cache, logfile, cut>>
serverVars == <<server, starts>>
semVars == <<semval, initialised>>
vars == <<serverVars, semVars, sigchld, pc, parent, childVars, fileVars>>

Hole == 0
NoSemaphore == -1

Working == {"reading", "lookup", "waiting", "critical", "logged", "serving",
            "fetching", "copying", "relaying"}
Region == {"critical", "logged"}
InRegion == {c \in Child : pc[c] \in Region}

Init ==
    /\ server = "down" /\ starts = 0
    /\ semval = NoSemaphore /\ initialised = FALSE /\ sigchld = FALSE
    /\ pc = [c \in Child |-> "none"]
    /\ parent = [c \in Child |-> 0]
    /\ url \in [Child -> Url]
    /\ found = [c \in Child |-> FALSE]
    /\ offset = [c \in Child |-> 0]
    /\ sent = [c \in Child |-> <<>>]
    /\ cache = [u \in {} |-> <<>>] /\ logfile = <<>> /\ cut = {}

-----------------------------------------------------------------------------
\* The server.

\* Mutation: whoever starts sets the semaphore, whether it was there or not.
SemgetAlways == server' = "created" /\ semval' = 0

\* semget with IPC_EXCL: a new semaphore is 0 until SETVAL, one that exists is
\* taken as it is.
Semget ==
    \/ semval = NoSemaphore /\ server' = "created" /\ semval' = 0
    \/ semval # NoSemaphore /\ server' = "listening" /\ UNCHANGED semval

Start ==
    /\ server = "down" /\ starts < MaxStarts
    /\ starts' = starts + 1
    /\ Semget
    /\ UNCHANGED <<initialised, sigchld, pc, parent, childVars, fileVars>>

SetVal ==
    /\ server = "created" /\ server' = "listening"
    /\ semval' = 1 /\ initialised' = TRUE
    /\ UNCHANGED <<starts, sigchld, pc, parent, childVars, fileVars>>

\* accept and fork; where fork fails the client is sent away.
Accept(c) ==
    /\ server = "listening" /\ pc[c] = "none"
    /\ \E p \in {"reading", "gone"} : pc' = [pc EXCEPT ![c] = p]
    /\ parent' = [parent EXCEPT ![c] = starts]
    /\ UNCHANGED <<serverVars, semVars, sigchld, childVars, fileVars>>

\* Mutation: one waitpid for each signal, and signals do not queue.
ReapedOne(zombies) == IF zombies = {} THEN {} ELSE {CHOOSE z \in zombies : TRUE}

\* Those the loop of waitpid(-1, ..., WNOHANG) collects.
Reaped(zombies) == zombies

\* handler: SIGCHLD.
Reap ==
    /\ server = "listening" /\ sigchld
    /\ LET reaped == Reaped({c \in Child : pc[c] = "zombie"})
       IN  pc' = [c \in Child |-> IF c \in reaped THEN "gone" ELSE pc[c]]
    /\ sigchld' = FALSE
    /\ UNCHANGED <<serverVars, semVars, parent, childVars, fileVars>>

\* sigint_handler in the server, or its sudden end. init collects its zombies.
ServerEnds ==
    /\ server # "down" /\ server' = "down"
    /\ sigchld' = FALSE
    /\ pc' = [c \in Child |-> IF pc[c] = "zombie" THEN "gone" ELSE pc[c]]
    /\ \/ server = "listening" /\ logfile' = Append(logfile, [kind |-> "terminated"])
       \/ UNCHANGED logfile
    /\ UNCHANGED <<starts, semVars, parent, childVars, cache, cut>>

-----------------------------------------------------------------------------
\* A child's end, whatever brings it about.

\* Mutation: the operation on the semaphore does not ask for SEM_UNDO.
UndoForgotten(c) == semval

\* SEM_UNDO: the kernel gives back what a child took and did not return.
Undo(c) == IF pc[c] \in Region THEN semval + 1 ELSE semval

HasParent(c) == server = "listening" /\ parent[c] = starts

Ends(c) ==
    /\ pc' = [pc EXCEPT ![c] = IF HasParent(c) THEN "zombie" ELSE "gone"]
    /\ sigchld' = (sigchld \/ HasParent(c))
    /\ UNCHANGED <<serverVars, parent, url, found>>

Goes(c, from, to) == pc[c] = from /\ pc' = [pc EXCEPT ![c] = to]

-----------------------------------------------------------------------------
\* A child, from the request to the answer.

\* No request came, or one for a picture or a script: nothing is sent. The
\* alarm of 15 seconds ends the wait for a request.
NoRequest(c) ==
    /\ pc[c] = "reading"
    /\ Ends(c)
    /\ UNCHANGED <<semVars, offset, sent, fileVars>>

Request(c) ==
    /\ Goes(c, "reading", "lookup")
    /\ url[c] \in MainUrl
    /\ UNCHANGED <<serverVars, semVars, sigchld, parent, childVars, fileVars>>

\* Mutation: a miss creates the file at once, as the earlier proxies do.
LookupCreates(c) ==
    /\ found' = [found EXCEPT ![c] = url[c] \in DOMAIN cache]
    /\ cache' = [u \in DOMAIN cache \cup {url[c]} |->
                    IF u \in DOMAIN cache THEN cache[u] ELSE <<>>]

\* The directory is searched before the semaphore is asked for.
Lookup(c) ==
    /\ found' = [found EXCEPT ![c] = url[c] \in DOMAIN cache]
    /\ UNCHANGED cache

Searches(c) ==
    /\ Goes(c, "lookup", "waiting")
    /\ Lookup(c)
    /\ UNCHANGED <<serverVars, semVars, sigchld, parent, url, offset, sent, logfile, cut>>

\* semop -1.
Enter(c) ==
    /\ Goes(c, "waiting", "critical")
    /\ semval > 0 /\ semval' = semval - 1
    /\ UNCHANGED <<serverVars, initialised, sigchld, parent, childVars, fileVars>>

Log(c) ==
    /\ Goes(c, "critical", "logged")
    /\ logfile' = Append(logfile, [kind |-> IF found[c] THEN "hit" ELSE "miss", url |-> url[c]])
    /\ UNCHANGED <<serverVars, semVars, sigchld, parent, childVars, cache, cut>>

\* semop +1.
Leave(c) ==
    /\ pc[c] = "logged"
    /\ pc' = [pc EXCEPT ![c] = IF found[c] THEN "serving" ELSE "fetching"]
    /\ semval' = semval + 1
    /\ UNCHANGED <<serverVars, initialised, sigchld, parent, childVars, fileVars>>

\* A hit: what the file holds now goes to the client, up to its end.
Serve(c) ==
    /\ pc[c] = "serving" /\ offset[c] < Len(cache[url[c]])
    /\ offset' = [offset EXCEPT ![c] = @ + 1]
    /\ sent' = [sent EXCEPT ![c] = Append(@, cache[url[c]][offset[c] + 1])]
    /\ UNCHANGED <<serverVars, semVars, sigchld, pc, parent, url, found, fileVars>>

Served(c) ==
    /\ pc[c] = "serving" /\ offset[c] >= Len(cache[url[c]])
    /\ Ends(c)
    /\ UNCHANGED <<semVars, offset, sent, fileVars>>

\* A miss: the origin has been found and asked; the cache file is opened with
\* "wb", which creates or empties it, or cannot be.
Open(c) ==
    /\ \/ /\ Goes(c, "fetching", "copying")
          /\ cache' = [u \in DOMAIN cache \cup {url[c]} |->
                          IF u = url[c] THEN <<>> ELSE cache[u]]
       \/ Goes(c, "fetching", "relaying") /\ UNCHANGED cache
    /\ UNCHANGED <<serverVars, semVars, sigchld, parent, childVars, logfile, cut>>

\* Mutation: pieces go to the end of the file, wherever the writer is.
WrittenAtEnd(data, at, piece) == Append(data, piece)

\* The file after piece is written as its at-th.
Written(data, at, piece) ==
    [k \in 1..(IF at > Len(data) THEN at ELSE Len(data)) |->
        IF k = at THEN piece ELSE IF k <= Len(data) THEN data[k] ELSE Hole]

Copy(c) ==
    LET k == offset[c] + 1
    IN  /\ pc[c] \in {"copying", "relaying"} /\ k <= Pieces
        /\ cache' = IF pc[c] = "relaying" THEN cache
                    ELSE [cache EXCEPT ![url[c]] = Written(@, k, k)]
        /\ offset' = [offset EXCEPT ![c] = k]
        /\ sent' = [sent EXCEPT ![c] = Append(@, k)]
        /\ UNCHANGED <<serverVars, semVars, sigchld, pc, parent, url, found, logfile, cut>>

Copied(c) ==
    /\ pc[c] \in {"copying", "relaying"} /\ offset[c] = Pieces
    /\ Ends(c)
    /\ UNCHANGED <<semVars, offset, sent, fileVars>>

\* The history of pages cut short.
Cut(c) == cut' = IF pc[c] = "copying" THEN cut \cup {url[c]} ELSE cut

\* The origin is unknown, refuses, or stops before the end of the page.
OriginFails(c) ==
    /\ pc[c] \in {"fetching", "copying", "relaying"} /\ offset[c] < Pieces
    /\ Ends(c) /\ Cut(c)
    /\ UNCHANGED <<semVars, offset, sent, cache, logfile>>

\* The child is ended from outside at any time: by sigint_handler, by SIGPIPE
\* when its client has left, or killed.
Ended(c) ==
    /\ pc[c] \in Working
    /\ Ends(c) /\ Cut(c)
    /\ semval' = Undo(c) /\ UNCHANGED initialised
    /\ \/ logfile' = Append(logfile, [kind |-> "terminated"])
       \/ UNCHANGED logfile
    /\ UNCHANGED <<offset, sent, cache>>

\* What a child does of its own accord once it has a request.
Work(c) ==
    \/ Searches(c) \/ Enter(c) \/ Log(c) \/ Leave(c)
    \/ Serve(c) \/ Served(c)
    \/ Open(c) \/ Copy(c) \/ Copied(c)

Next ==
    \/ Start \/ SetVal \/ Reap \/ ServerEnds
    \/ \E c \in Child :
          \/ Accept(c) \/ NoRequest(c) \/ Request(c)
          \/ Work(c)
          \/ OriginFails(c) \/ Ended(c)

Spec == Init /\ [][Next]_vars

\* Running processes are scheduled, a pending signal is delivered, and a
\* waiter gets a semaphore that keeps being given back. Nothing obliges a
\* client to ask or an origin to answer.
Fairness ==
    /\ WF_vars(SetVal) /\ WF_vars(Reap)
    /\ \A c \in Child :
          /\ WF_vars(Searches(c) \/ Log(c) \/ Leave(c) \/ Serve(c) \/ Served(c))
          /\ SF_vars(Enter(c))

FairSpec == Spec /\ Fairness

-----------------------------------------------------------------------------
(* Properties. Both directories are taken to be writable but for single cache *)
(* files; an origin gives every reader of a page the same page.               *)

Page == [k \in 1..Pieces |-> k]
Line == [kind : {"hit", "miss"}, url : Url] \cup [kind : {"terminated"}]

\* Every variable keeps its type; no cache file outgrows its page.
TypeOK ==
    /\ server \in {"down", "created", "listening"}
    /\ starts \in 0..MaxStarts
    /\ semval \in {NoSemaphore, 0, 1}
    /\ sigchld \in BOOLEAN /\ initialised \in BOOLEAN
    /\ pc \in [Child -> Working \cup {"none", "zombie", "gone"}]
    /\ parent \in [Child -> 0..MaxStarts]
    /\ url \in [Child -> Url]
    /\ found \in [Child -> BOOLEAN]
    /\ offset \in [Child -> 0..Pieces]
    /\ \A c \in Child : sent[c] \in Seq(0..Pieces)
    /\ DOMAIN cache \subseteq Url
    /\ \A u \in DOMAIN cache : cache[u] \in Seq(0..Pieces) /\ Len(cache[u]) <= Pieces
    /\ logfile \in Seq(Line)
    /\ cut \subseteq Url

\* At most one child is in the region, though servers come and go around it.
MutualExclusion == \A c, d \in InRegion : c = d

\* A semaphore that has been set is there for the taking whenever nobody is
\* in the region: no child, however it ended, has taken it along.
SemaphoreReturned == initialised => semval = IF InRegion = {} THEN 1 ELSE 0

\* Children that miss the same page write its file at the same time, each
\* from the start. Once all of them are through, and none was cut short, the
\* file is the page.
WholeWhenQuiet ==
    \A u \in DOMAIN cache \ cut :
        (\A c \in Child : ~(pc[c] = "copying" /\ url[c] = u)) => cache[u] = Page

\* The log tells the story in order: a page is hit after it was missed, for
\* whoever missed it wrote its line before the file was there to be found.
HitAfterMiss ==
    \A i \in 1..Len(logfile) :
        logfile[i].kind = "hit" =>
            \E j \in 1..i - 1 : logfile[j] = [kind |-> "miss", url |-> logfile[i].url]

\* Who waits for the semaphore gets it, whatever becomes of the others and of
\* the server.
WaitersProceed ==
    \A c \in Child : (pc[c] = "waiting" /\ initialised) ~> pc[c] # "waiting"

\* No child stays a zombie, though signals of children that end together are
\* delivered as one.
ZombiesReaped == \A c \in Child : pc[c] = "zombie" ~> pc[c] = "gone"

\* "Using semaphores to resolve Race Conditions that occur when multiple child
\* processes access the same cache file simultaneously." (README.md)
OneWriter ==
    \A c, d \in Child :
        pc[c] = "copying" /\ pc[d] = "copying" /\ url[c] = url[d] => c = d
=============================================================================
