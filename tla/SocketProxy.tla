----------------------------- MODULE SocketProxy -----------------------------
(***************************************************************************)
(* 04_Networked_Proxy_Server_Socket: server.c, which forks a child for     *)
(* each client, and client.c, which sends a line and waits for the verdict *)
(* of the cache. The two talk over a TCP connection: what is written in    *)
(* two pieces may be read in one.                                          *)
(***************************************************************************)
EXTENDS Integers, Sequences, FiniteSets

CONSTANTS
    Client,          \* clients, each with the child that serves it
    Url,             \* lines that are neither empty nor begin with "bye"
    MaxLines,        \* bound: lines typed into a client
    FdLimit          \* log files a child can leave open

ASSUME LinesAssumption == MaxLines \in Nat
ASSUME FdAssumption == FdLimit \in Nat \ {0}
ASSUME UrlAssumption == Url \cap {"bye", "runtime"} = {}

VARIABLES
    listening,       \* the parent still accepts
    client,          \* new, connected, asking, ended
    lines,           \* lines typed so far
    upstream,        \* what the client has written and the child not read
    downstream,      \* verdicts the child has written and the client not read
    result,          \* the client's variable result
    shown,           \* verdicts the client has shown
    child,           \* none, reading, lookup, missed, runtime, ended
    url,             \* the line the child is at
    openLogs,        \* log files the child has opened and not closed
    hit, miss,       \* the child's counters
    runtime,         \* the child's variable runtime
    cache,           \* pages that have a cache file
    answered         \* history: the child's lines and what it found for them

clientVars == <<client, lines, result, shown>>
childVars == <<url, openLogs, hit, miss, runtime, answered>>
vars == <<listening, clientVars, upstream, downstream, child, childVars, cache>>

Verdict == {"HIT", "MISS"}
Bye == "bye"
Runtime == "runtime"         \* the four bytes of the client's run time
Uninitialised == "?"

Init ==
    /\ listening = TRUE
    /\ client = [c \in Client |-> "new"]
    /\ lines = [c \in Client |-> 0]
    /\ upstream = [c \in Client |-> <<>>] /\ downstream = [c \in Client |-> <<>>]
    /\ result = [c \in Client |-> Uninitialised]
    /\ shown = [c \in Client |-> <<>>]
    /\ child = [c \in Client |-> "none"]
    /\ url \in [Client -> Url]
    /\ openLogs = [c \in Client |-> 0]
    /\ hit = [c \in Client |-> 0] /\ miss = [c \in Client |-> 0]
    /\ runtime = [c \in Client |-> Uninitialised]
    /\ cache = {}
    /\ answered = [c \in Client |-> <<>>]

-----------------------------------------------------------------------------
(* client.c *)

\* A child keeps the listening socket it inherits: while one lives, clients can
\* connect, whether or not the parent is still there to accept them.
SocketOpen == listening \/ \E c \in Client : child[c] \notin {"none", "ended"}

Gone(c) == child[c] = "ended" \/ (child[c] = "none" /\ ~SocketOpen)

Connect(c) ==
    /\ SocketOpen /\ client[c] = "new"
    /\ client' = [client EXCEPT ![c] = "connected"]
    /\ UNCHANGED <<listening, lines, result, shown, upstream, downstream, child, childVars, cache>>


\* What is written to a connection whose other end is closed is lost; a second
\* write ends the client.
Types(c, to, written) ==
    /\ client[c] = "connected" /\ lines[c] < MaxLines
    /\ lines' = [lines EXCEPT ![c] = @ + 1]
    /\ \E next \in {to} \cup IF Gone(c) THEN {"ended"} ELSE {} :
          client' = [client EXCEPT ![c] = next]
    /\ upstream' = IF Gone(c) THEN upstream ELSE [upstream EXCEPT ![c] = @ \o written]
    /\ UNCHANGED <<listening, result, shown, downstream, child, childVars, cache>>

TypesUrl(c) == \E u \in Url : Types(c, "asking", <<u>>)

\* An empty line: nothing is written, and the client waits all the same.
TypesNothing(c) == Types(c, "asking", <<>>)

\* "bye", then the run time; the client closes without waiting.
TypesBye(c) == Types(c, "ended", <<Bye, Runtime>>)

\* End of input: the client closes. It has nothing under way then.
InputEnds(c) ==
    /\ client[c] = "connected"
    /\ client' = [client EXCEPT ![c] = "ended"]
    /\ UNCHANGED <<listening, lines, result, shown, upstream, downstream, child, childVars, cache>>

\* Mutation: result is shown before it is read into.
ShowsLast(c, verdict) ==
    /\ client[c] = "asking" /\ client' = [client EXCEPT ![c] = "connected"]
    /\ result' = [result EXCEPT ![c] = verdict]
    /\ shown' = [shown EXCEPT ![c] = Append(@, result[c])]
    /\ UNCHANGED <<listening, lines, upstream, child, childVars, cache>>

Shows(c, verdict) ==
    /\ client[c] = "asking" /\ client' = [client EXCEPT ![c] = "connected"]
    /\ result' = [result EXCEPT ![c] = verdict]
    /\ shown' = [shown EXCEPT ![c] = Append(@, verdict)]
    /\ UNCHANGED <<listening, lines, upstream, child, childVars, cache>>

ReadsResult(c) ==
    /\ downstream[c] # <<>>
    /\ Shows(c, Head(downstream[c]))
    /\ downstream' = [downstream EXCEPT ![c] = Tail(@)]

\* The child is gone: read returns 0, which is not less than 0, and the client
\* shows what is in result from before.
ReadsNothing(c) ==
    /\ downstream[c] = <<>> /\ Gone(c)
    /\ Shows(c, result[c])
    /\ UNCHANGED downstream

\* The connection was reset: read fails and the client goes on to the next line.
ReadFails(c) ==
    /\ client[c] = "asking" /\ client' = [client EXCEPT ![c] = "connected"]
    /\ downstream[c] = <<>> /\ Gone(c)
    /\ UNCHANGED <<listening, lines, result, shown, upstream, downstream, child, childVars, cache>>

-----------------------------------------------------------------------------
(* server.c *)

\* Where fork fails the listening socket is closed with the client's, the next
\* accept fails and the server returns.
Accept(c) ==
    /\ listening /\ client[c] # "new" /\ child[c] = "none"
    /\ \/ child' = [child EXCEPT ![c] = "reading"] /\ UNCHANGED listening
       \/ child' = [child EXCEPT ![c] = "ended"] /\ listening' = FALSE
    /\ UNCHANGED <<clientVars, upstream, downstream, childVars, cache>>

Goes(c, from, to) == child[c] = from /\ child' = [child EXCEPT ![c] = to]

\* How many of the writes in queue one read may take.
Readable(queue) == 1..Len(queue)

Drops(c, n) == upstream' = [upstream EXCEPT ![c] = SubSeq(@, n + 1, Len(@))]

ReadsUrl(c) ==
    /\ Goes(c, "reading", "lookup")
    /\ upstream[c] # <<>> /\ Head(upstream[c]) \in Url
    /\ Drops(c, 1)
    /\ url' = [url EXCEPT ![c] = Head(upstream[c])]
    /\ UNCHANGED <<listening, clientVars, downstream, openLogs, hit, miss, runtime, answered, cache>>

\* Whatever was read together with "bye" is lost.
ReadsBye(c) ==
    /\ Goes(c, "reading", "runtime")
    /\ upstream[c] # <<>> /\ Head(upstream[c]) = Bye
    /\ \E n \in Readable(upstream[c]) : Drops(c, n)
    /\ UNCHANGED <<listening, clientVars, downstream, childVars, cache>>

ReadsEnd(c) ==
    /\ Goes(c, "reading", "ended")
    /\ upstream[c] = <<>> /\ client[c] = "ended"
    /\ UNCHANGED <<listening, clientVars, upstream, downstream, childVars, cache>>

\* The run time, or the end of the stream, which leaves runtime as it was.
ReadsRuntime(c) ==
    /\ Goes(c, "runtime", "ended")
    /\ upstream[c] # <<>> \/ client[c] = "ended"
    /\ runtime' = [runtime EXCEPT ![c] = IF upstream[c] = <<>> THEN @ ELSE Runtime]
    /\ upstream' = [upstream EXCEPT ![c] = <<>>]
    /\ UNCHANGED <<listening, clientVars, downstream, url, openLogs, hit, miss, answered, cache>>

\* Mutation: only a hit is written to the client.
AnswersHits(c, verdict) ==
    /\ downstream' = [downstream EXCEPT ![c] = IF verdict = "HIT" THEN Append(@, verdict) ELSE @]
    /\ answered' = [answered EXCEPT ![c] = Append(@, [url |-> url[c], verdict |-> verdict])]
    /\ hit' = [hit EXCEPT ![c] = IF verdict = "HIT" THEN @ + 1 ELSE @]
    /\ miss' = [miss EXCEPT ![c] = IF verdict = "MISS" THEN @ + 1 ELSE @]

Answers(c, verdict) ==
    /\ downstream' = [downstream EXCEPT ![c] = Append(@, verdict)]
    /\ answered' = [answered EXCEPT ![c] = Append(@, [url |-> url[c], verdict |-> verdict])]
    /\ hit' = [hit EXCEPT ![c] = IF verdict = "HIT" THEN @ + 1 ELSE @]
    /\ miss' = [miss EXCEPT ![c] = IF verdict = "MISS" THEN @ + 1 ELSE @]

\* Both returns of proxy_cache1_2 come before its fclose.
OpensLog(c) ==
    /\ openLogs[c] < FdLimit
    /\ openLogs' = [openLogs EXCEPT ![c] = @ + 1]

\* proxy_cache1_2 and its answer: the page is there.
Hit(c) ==
    /\ Goes(c, "lookup", "reading")
    /\ url[c] \in cache
    /\ OpensLog(c) /\ Answers(c, "HIT")
    /\ UNCHANGED <<listening, clientVars, upstream, url, runtime, cache>>

\* Mutation: the file is never made.
CreatedNot(u) == cache

Created(u) == cache \cup {u}

\* It is not: between the search and fopen another child may create it.
Misses(c) ==
    /\ Goes(c, "lookup", "missed")
    /\ url[c] \notin cache
    /\ OpensLog(c)
    /\ UNCHANGED <<listening, clientVars, upstream, downstream, url, hit, miss, runtime, answered, cache>>

\* Without a descriptor for the cache file, a miss all the same.
Creates(c) ==
    /\ Goes(c, "missed", "reading")
    /\ cache' = IF openLogs[c] < FdLimit THEN Created(url[c]) ELSE cache
    /\ Answers(c, "MISS")
    /\ UNCHANGED <<listening, clientVars, upstream, url, openLogs, runtime>>

\* No descriptor is left: fopen returns NULL and fprintf to it ends the child.
OutOfDescriptors(c) ==
    /\ Goes(c, "lookup", "ended")
    /\ openLogs[c] = FdLimit
    /\ UNCHANGED <<listening, clientVars, upstream, downstream, childVars, cache>>

ClientSteps(c) ==
    Connect(c) \/ TypesUrl(c) \/ TypesNothing(c) \/ TypesBye(c) \/ InputEnds(c)
    \/ ReadsResult(c) \/ ReadsNothing(c) \/ ReadFails(c)

ChildSteps(c) ==
    \/ ReadsUrl(c) \/ ReadsBye(c) \/ ReadsEnd(c) \/ ReadsRuntime(c)
    \/ Hit(c) \/ Misses(c) \/ Creates(c) \/ OutOfDescriptors(c)

Next == \E c \in Client : ClientSteps(c) \/ Accept(c) \/ ChildSteps(c)

Spec == Init /\ [][Next]_vars

\* The processes run; the user need not type anything.
Fairness ==
    \A c \in Client :
        /\ WF_vars(Accept(c)) /\ WF_vars(ChildSteps(c))
        /\ WF_vars(ReadsResult(c) \/ ReadsNothing(c) \/ ReadFails(c))

FairSpec == Spec /\ Fairness

-----------------------------------------------------------------------------
(* Properties. *)

\* Every variable keeps its type; at most one line is under way to a child,
\* but for the run time behind "bye".
TypeOK ==
    /\ listening \in BOOLEAN
    /\ \A c \in Client :
          /\ client[c] \in {"new", "connected", "asking", "ended"}
          /\ lines[c] \in 0..MaxLines
          /\ upstream[c] \in {<<>>, <<Bye, Runtime>>, <<Runtime>>} \cup {<<u>> : u \in Url}
          /\ downstream[c] \in {<<>>} \cup {<<v>> : v \in Verdict}
          /\ result[c] \in Verdict \cup {Uninitialised}
          /\ child[c] \in {"none", "reading", "lookup", "missed", "runtime", "ended"}
          /\ url[c] \in Url
          /\ openLogs[c] \in 0..FdLimit
          /\ hit[c] \in Nat /\ miss[c] \in Nat
          /\ runtime[c] \in {Runtime, Uninitialised}
    /\ cache \subseteq Url

\* The verdicts a client shows are those its child found, question by
\* question, for as long as it has a child.
ShownInOrder ==
    \A c \in Client :
        /\ \A k \in 1..Len(shown[c]) :
              k <= Len(answered[c]) => shown[c][k] = answered[c][k].verdict
        /\ Len(shown[c]) > Len(answered[c]) => child[c] \in {"none", "ended"}

Count(seq, v) == Cardinality({k \in 1..Len(seq) : seq[k] = v})

\* When a client has said bye its child's counters, which go to the log, are
\* those of the verdicts the client has shown.
CountersAreShown ==
    \A c \in Client :
        child[c] = "runtime" =>
            hit[c] = Count(shown[c], "HIT") /\ miss[c] = Count(shown[c], "MISS")

\* Two clients may both miss a page, but who asks again for what it was
\* answered is told of a hit, if there was a descriptor to make the file: the
\* i-th answer of a child leaves i log files open.
MissedOnce ==
    \A c \in Client : \A j \in 1..Len(answered[c]) : \A i \in 1..j - 1 :
        answered[c][i].url = answered[c][j].url /\ i < FdLimit
            => answered[c][j].verdict = "HIT"

\* A line that reached a child is answered, and a child whose client has gone
\* ends.
ChildrenServe ==
    \A c \in Client :
        /\ child[c] = "reading" /\ upstream[c] # <<>> ~> client[c] # "asking"
        /\ child[c] = "reading" /\ client[c] = "ended" ~> child[c] = "ended"
=============================================================================
