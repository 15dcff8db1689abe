--------------------------- MODULE MCProxyPrograms ---------------------------
(* The programs 01 to 07 of System_Programming: sessions of the cache         *)
(* programs (CachePrograms), the cache server with its clients (SocketProxy,  *)
(* extended here), or one of the forking proxies (ForkingProxies). A variable *)
(* that several of the modules name belongs to the one that runs.             *)
EXTENDS SocketProxy

CONSTANTS
    Number,          \* numbers of sessions and of connections
    MaxTyped,        \* bound: pages and commands typed in one session
    Asked,           \* pages asked of the forking proxies
    Slow, Main,      \* those that time out, those that the 07 proxy caches
    Pieces           \* pieces of a page

ASSUME PiecesAssumption == Pieces \in Nat \ {0}

VARIABLES
    family,          \* which of the modules runs
    program, pc, found, logfile,
    sigchld, offset, before, cut,
    typed, logfile_path, sub_process_count

Forking == INSTANCE ForkingProxies WITH
    Program <- {"05", "06", "07"}, Child <- Number, Url <- Asked,
    MainUrl <- Main, SlowUrl <- Slow

Caching == INSTANCE CachePrograms WITH Session <- Number

socketOnly == <<clientVars, upstream, downstream, child, openLogs, runtime>>
forkingOnly == <<sigchld, offset, before, cut>>
cachingOnly == <<typed, logfile_path, sub_process_count>>
programVars == <<program, pc, found, logfile>>

SocketIdle ==
    /\ client = [c \in Client |-> "new"] /\ child = [c \in Client |-> "none"]
    /\ lines = 0 /\ result = 0 /\ shown = 0 /\ upstream = 0 /\ downstream = 0
    /\ openLogs = 0 /\ runtime = 0

ForkingIdle == sigchld = FALSE /\ offset = 0 /\ before = 0 /\ cut = {}
CachingIdle == typed = 0 /\ logfile_path = 0 /\ sub_process_count = 0

ProgramsInit ==
    \/ /\ family = "caching" /\ Caching!Init
       /\ listening = TRUE /\ answered = {} /\ SocketIdle /\ ForkingIdle
    \/ /\ family = "socket" /\ Init
       /\ program = 0 /\ pc = [n \in Number |-> "none"] /\ found = 0 /\ logfile = <<>>
       /\ ForkingIdle /\ CachingIdle
    \/ /\ family = "forking" /\ Forking!Init
       /\ hit = 0 /\ miss = 0 /\ SocketIdle /\ CachingIdle

Caches(step) ==
    family = "caching" /\ step /\ UNCHANGED <<family, listening, answered, socketOnly, forkingOnly>>
Serves(step) ==
    family = "socket" /\ step /\ UNCHANGED <<family, programVars, forkingOnly, cachingOnly>>
Forks(step) ==
    family = "forking" /\ step /\ UNCHANGED <<family, hit, miss, socketOnly, cachingOnly>>

ProgramsNext ==
    \/ \E s \in Number :
          \/ Caches(Caching!connect(s)) \/ Caches(Caching!NoConnect(s))
          \/ Caches(Caching!quit(s)) \/ Caches(\E u \in Url : Caching!TypesUrl(s, u))
          \/ Caches(Caching!Search(s)) \/ Caches(Caching!Create(s)) \/ Caches(Caching!Log(s))
          \/ Caches(Caching!bye(s)) \/ Caches(Caching!Killed(s))
    \/ \E c \in Client : Serves(ClientSteps(c)) \/ Serves(Accept(c)) \/ Serves(ChildSteps(c))
    \/ Forks(Forking!Reap) \/ Forks(Forking!ServerEnds)
    \/ \E c \in Number :
          \/ Forks(Forking!Accept(c)) \/ Forks(Forking!NoRequest(c)) \/ Forks(Forking!Request(c))
          \/ Forks(Forking!Work(c)) \/ Forks(Forking!Serve(c)) \/ Forks(Forking!Served(c))
          \/ Forks(Forking!Open(c)) \/ Forks(Forking!Copy(c))
          \/ Forks(Forking!Copied(c)) \/ Forks(Forking!OriginFails(c))
          \/ Forks(Forking!SigAlrm(c)) \/ Forks(Forking!Ended(c))

programsVars == <<family, vars, programVars, forkingOnly, cachingOnly>>

\* The fairness of SocketProxy and of ForkingProxies, each where it runs.
ProgramsSpec ==
    /\ ProgramsInit /\ [][ProgramsNext]_programsVars
    /\ \A c \in Client :
          /\ WF_programsVars(Serves(Accept(c))) /\ WF_programsVars(Serves(ChildSteps(c)))
          /\ WF_programsVars(Serves(ReadsResult(c) \/ ReadsNothing(c) \/ ReadFails(c)))
    /\ WF_programsVars(Forks(Forking!Reap))
    /\ \A c \in Number :
          WF_programsVars(Forks(Forking!Work(c))) /\ WF_programsVars(Forks(Forking!SigAlrm(c)))

-----------------------------------------------------------------------------
(* The properties of the three modules, each of the programs it is about.     *)

\* 01-03: the log of a session counts that session's own lines only and no page
\* is missed twice in it, whatever other sessions write in between.
SessionLogTrue == family = "caching" => Caching!SessionLogTrue

\* 04: a client shows the verdicts its child found, question by question, and
\* the counters its child logs at the end are those of the verdicts shown.
VerdictsInOrder == family = "socket" => TypeOK /\ ShownInOrder /\ CountersAreShown

\* 04: who asks again for what it was answered is told of a hit, if there
\* was a descriptor to make the file.
SocketMissedOnce == family = "socket" => MissedOnce

\* 05-07: two children that can search the cache miss the same page only while
\* both are at it, or when the first could not make its file.
MissesOverlap == family = "forking" => Forking!TypeOK /\ Forking!MissesOverlap

\* 06 and 07: a cache file is whole once all that write it are through, none was
\* cut short and each could open it, however their writes were mixed.
FilesWholeWhenQuiet == family = "forking" => Forking!WholeWhenQuiet

\* 06 and 07: with its alarm a child ends and is collected, whether its client
\* asks or not, unless it has gone back to accept, waits for the origin, or waits
\* for the client to take a hit.
ChildrenLeave == Forking!ChildrenLeave
=============================================================================
