-------------------------- MODULE MCDataStructures --------------------------
(* The programs of Data_Structures: a run is one of the music library, with   *)
(* run times only or, of fewer songs, with and without, the B+ tree alone     *)
(* with many names, the employee database, which extends the tree, with few,  *)
(* or the graph engine.                                                       *)
EXTENDS GraphEngine

CONSTANTS
    order, Name, Dept, Income, employee_txt, MaxHeap,   \* the employee database
    Names,                                              \* names in the tree alone
    Shelf,                                              \* songs: <<artist, title>>
    Fewer,                                              \* those ADD also gives without a run time
    Music_List,                                         \* those of Music_List.txt
    QueueMax, PlayListMax

VARIABLES
    family,                                         \* which program runs
    running, q, ab, tb, pl, time, timeless, again,  \* the music library
    bptree, employee,                               \* the B+ tree
    dsEmpty, built, heap, pData, stale              \* the rest of the employee database

musicVars == <<running, q, ab, tb, pl, time, timeless, again>>
graphVars == <<graph, out>>
treeVars == <<bptree, employee>>
employeeVars == <<dsEmpty, built, heap, pData, stale>>

\* A run time that tells the song.
ASong(s) == [artist |-> s[1], title |-> s[2], run_time |-> 10 * s[1] + s[2]]
Unsung(s) == [ASong(s) EXCEPT !.run_time = 0]

Music == INSTANCE MusicLibrary WITH
    Song <- {ASong(s) : s \in Shelf} \cup {Unsung(s) : s \in Fewer},
    Music_List <- [k \in DOMAIN Music_List |-> ASong(Music_List[k])]

Tree == INSTANCE BpTree WITH Name <- Names, Dept <- {1}, Income <- {1}

Database == INSTANCE EmployeeManager

(* Graph files: every list of 3 vertices with weights from -1 and 2, but for  *)
(* one of the six pairs, and of 2 with 0 and 1; a matrix of which only the    *)
(* first entries can be read; files that break off at the header or have an      *)
(* unknown type; loops.                                                       *)
Pairs(n) == {p \in (0..n - 1) \X (0..n - 1) : p[1] # p[2] /\ p # <<2, 1>>}
Lists(n, weights) ==
    {[header |-> TRUE, type |-> "L", size |-> n, entries |-> 0, edge |-> e] :
        e \in UNION {[E -> weights] : E \in SUBSET Pairs(n)}}
Cycle == <<0, 1>> :> 1 @@ <<1, 2>> :> 2 @@ <<2, 0>> :> 3 @@ <<0, 2>> :> 4
GraphFiles ==
    Lists(3, {-1, 2}) \cup Lists(2, {0, 1})
    \cup {[header |-> TRUE, type |-> "M", size |-> 3, entries |-> n, edge |-> Cycle] : n \in 0..9}
    \cup {[header |-> h, type |-> "?", size |-> 1, entries |-> 0, edge |-> <<0, 0>> :> 1] : h \in BOOLEAN}
    \cup {[header |-> TRUE, type |-> "L", size |-> 2, entries |-> 0,
           edge |-> <<0, 1>> :> 1 @@ <<0, 0>> :> w] : w \in {-1, 1}}

ASSUME FilesAssumption == FilesOK

\* Values of the constants for the configuration.
FirstStaff ==
    <<[name |-> 2, dept_no |-> 1, income |-> 2], [name |-> 1, dept_no |-> 1, income |-> 2],
      [name |-> 2, dept_no |-> 3, income |-> 1]>>
FirstShelf == {<<1, 2>>, <<2, 1>>, <<2, 2>>, <<3, 3>>}
FirstFewer == {<<2, 1>>, <<2, 2>>}
FirstList == <<<<2, 2>>, <<1, 2>>>>

-----------------------------------------------------------------------------

MusicIdle == running = FALSE /\ q = <<>> /\ ab = 0 /\ tb = 0 /\ pl = <<>> /\ time = 0 /\ timeless = FALSE /\ again = FALSE
GraphIdle == graph = 0 /\ out = 0

DataInit ==
    \/ family \in {"music", "untimed"} /\ Music!Init /\ Database!Init /\ GraphIdle
    \/ family \in {"tree", "employees"} /\ Database!Init /\ MusicIdle /\ GraphIdle
    \/ family = "graph" /\ Init /\ Database!Init /\ MusicIdle

Plays(step) ==
    /\ \/ family = "music" /\ ~timeless       \* bound: what comes after is not explored,
       \/ family = "untimed" /\ ~again        \* or, with fewer songs, until one comes again
    /\ step
    /\ UNCHANGED <<family, treeVars, employeeVars, graphVars>>
Grows(step) ==
    family = "tree" /\ step /\ UNCHANGED <<family, employeeVars, musicVars, graphVars>>
Employs(step) ==
    family = "employees" /\ step /\ UNCHANGED <<family, musicVars, graphVars>>
Answers(step) ==
    family = "graph" /\ step /\ UNCHANGED <<family, musicVars, treeVars, employeeVars>>

DataNext ==
    \/ family = "music" /\ Plays(Music!LOAD)
    \/ Plays(Music!QPOP)
    \/ \E a \in 1..3, t \in 1..3 :
          /\ <<a, t>> \in IF family = "untimed" THEN Fewer ELSE Shelf
          /\ \/ Plays(Music!ADD(ASong(<<a, t>>)))
             \/ family = "untimed" /\ Plays(Music!ADD(Unsung(<<a, t>>)))
             \/ Plays(Music!MAKEPL_ARTIST(a)) \/ Plays(Music!MAKEPL_TITLE(t))
             \/ Plays(Music!MAKEPL_SONG(a, t))
             \/ Plays(Music!DELETE_ARTIST(a)) \/ Plays(Music!DELETE_TITLE(t))
             \/ Plays(Music!DELETE_LIST(a, t)) \/ Plays(Music!DELETE_SONG(a, t))
    \/ \E rec \in Tree!Record : Grows(Tree!Insert(rec))
    \/ Employs(Database!LOAD) \/ Employs(Database!DELETE)
    \/ \E rec \in Database!Record : Employs(Database!ADD_BP(rec))
    \/ \E d \in Dept : Employs(Database!ADD_ST_DEPTNO(d))
    \/ \E n \in Name : Employs(Database!ADD_ST_NAME(n))
    \/ Answers(LOAD)
    \/ Answers(Asks(PRINT)) \/ Answers(Asks(BFS))
    \/ Answers(Asks(DFS)) \/ Answers(Asks(KRUSKAL))
    \/ Answers(Asks(DIJKSTRA)) \/ Answers(Asks(BELLMANFORD))
    \/ Answers(Asks(FLOYD)) \/ Answers(Asks(Centrality))
    \/ Answers(Asks(EXIT))

DataSpec == DataInit /\ [][DataNext]_<<family, musicVars, treeVars, employeeVars, graphVars>>

-----------------------------------------------------------------------------
(* The properties of the modules, each of the program it is about.            *)

\* Music: the trees of artists and of titles list the same songs, each once,
\* until one that QPOP takes for a new one comes again; the playlist has no
\* song twice and the time of its songs.
LibraryConsistent == family \in {"music", "untimed"} => Music!LibraryConsistent /\ Music!PlayListTimed

\* Employees: whatever the order in which names come, every search of the B+
\* tree, by name, by range or along the leaves, finds what was put there.
SearchesAgreed == family = "tree" => Tree!SearchesAgree

\* Employees: while no income changes behind its back, each node of the
\* tournament has the best employee of the heaps below it and each heap its
\* highest income on top.
WinnersKept == family = "employees" => Database!WinnersRight /\ Database!HighestFirst

\* Graph: BFS and DFS visit just what the start reaches, in an order of theirs.
TraversalsComplete == family = "graph" => TraversalsReach

\* Graph: KRUSKAL answers with a cheapest tree, if any tree spans the graph.
NoTreeCheaper == family = "graph" => TreeCheapest

\* Graph: the shortest paths found are paths, and none is shorter; a command that
\* looks for them refuses a graph exactly for the weights it cannot deal with.
NoPathShorter == family = "graph" => PathsShortest
=============================================================================
