--------------------------- MODULE EmployeeManager ---------------------------
(***************************************************************************)
(* 02_Employee_DB_BPlusTree: the commands, over the B+ tree and a          *)
(* selection tree, a tournament whose eight leaves, nodes 8 to 15, each    *)
(* have a heap of the employees of one department. Heaps and tournament    *)
(* point to the records of the B+ tree: here they hold names.              *)
(***************************************************************************)
EXTENDS BpTree

CONSTANTS
    employee_txt,    \* the records of employee.txt
    MaxHeap          \* bound: employees in the selection tree

VARIABLES
    dsEmpty,         \* nothing has been loaded or added
    built,           \* setTree has made the tournament
    heap,            \* the heap of each department, from its top
    pData,           \* the employee at each node of the tournament, or 0
    stale            \* history: an employee in the tournament had the income changed

stVars == <<built, heap, pData>>
vars == <<treeVars, dsEmpty, stVars, stale>>

nobody == 0

Init ==
    /\ TreeInit
    /\ dsEmpty = TRUE /\ built = FALSE
    /\ heap = [d \in 1..8 |-> <<>>]
    /\ pData = [i \in 1..15 |-> nobody]
    /\ stale = FALSE

-----------------------------------------------------------------------------
(* EmployeeHeap: an array from 1, which is doubled when it is full. *)

\* Higher income first, of the same income the smaller name.
better(a, b) ==
    \/ employee[a].income > employee[b].income
    \/ employee[a].income = employee[b].income /\ a < b

Swapped(arr, i, j) == [arr EXCEPT ![i] = arr[j], ![j] = arr[i]]

RECURSIVE UpHeap(_, _)
UpHeap(arr, i) ==
    IF i > 1 /\ better(arr[i], arr[i \div 2])
    THEN UpHeap(Swapped(arr, i, i \div 2), i \div 2) ELSE arr

\* Mutation: always the left child.
LeftChild(arr, i) == 2 * i

BestChild(arr, i) ==
    IF 2 * i + 1 <= Len(arr) /\ better(arr[2 * i + 1], arr[2 * i]) THEN 2 * i + 1 ELSE 2 * i

RECURSIVE DownHeap(_, _)
DownHeap(arr, i) ==
    IF 2 * i <= Len(arr) /\ better(arr[BestChild(arr, i)], arr[i])
    THEN DownHeap(Swapped(arr, i, BestChild(arr, i)), BestChild(arr, i)) ELSE arr

HeapInsert(arr, name) == UpHeap(Append(arr, name), Len(arr) + 1)

\* The last goes to the top and sinks.
HeapDelete(arr) ==
    IF Len(arr) = 1 THEN <<>> ELSE DownHeap(SubSeq([arr EXCEPT ![1] = Last(arr)], 1, Len(arr) - 1), 1)

Top(arr) == IF arr = <<>> THEN nobody ELSE arr[1]

-----------------------------------------------------------------------------
(* SelectionTree. *)

pickBetter(a, b) ==
    IF a = nobody THEN b ELSE IF b = nobody \/ a = b \/ better(a, b) THEN a ELSE b

RECURSIVE pullUpWinners(_, _)
pullUpWinners(data, i) ==
    IF i = 0 THEN data
    ELSE pullUpWinners([data EXCEPT ![i] = pickBetter(data[2 * i], data[2 * i + 1])], i \div 2)

\* A heap has changed: its top goes to the leaf, and winners up from there.
WithHeap(st, d, arr) ==
    [heap |-> [st.heap EXCEPT ![d] = arr],
     pData |-> pullUpWinners([st.pData EXCEPT ![d + 7] = Top(arr)], (d + 7) \div 2)]

StInsert(st, name) ==
    LET d == employee[name].dept_no IN WithHeap(st, d, HeapInsert(st.heap[d], name))

SetSt(st) == heap' = st.heap /\ pData' = st.pData

Entered == UNION {Range(heap[d]) : d \in 1..8}

-----------------------------------------------------------------------------
(* Manager: the commands. *)

LOAD ==
    /\ dsEmpty /\ employee_txt # <<>>
    /\ LET to == FoldLeft(Inserted, [bptree |-> bptree, employee |-> employee], employee_txt)
       IN  bptree' = to.bptree /\ employee' = to.employee
    /\ dsEmpty' = FALSE
    /\ UNCHANGED <<stVars, stale>>

ADD_BP(rec) ==
    /\ Insert(rec)
    /\ dsEmpty' = FALSE
    /\ stale' = (stale \/ \E n \in Entered : employee'[n] # employee[n])
    /\ UNCHANGED stVars

\* Whoever is there already is entered again.
ADD_ST_DEPTNO(dept_no) ==
    LET staff == SelectSeq(PrintBp(bptree), LAMBDA n : employee[n].dept_no = dept_no)
    IN  /\ ~dsEmpty /\ built' = TRUE
        /\ Len(heap[dept_no]) + Len(staff) <= MaxHeap
        /\ SetSt(FoldLeft(StInsert, [heap |-> heap, pData |-> pData], staff))
        /\ UNCHANGED <<treeVars, dsEmpty, stale>>

\* The tournament is built though the name be unknown.
ADD_ST_NAME(name) ==
    /\ ~dsEmpty /\ built' = TRUE
    /\ IF Search(bptree, name)
       THEN /\ Len(heap[employee[name].dept_no]) < MaxHeap
            /\ SetSt(StInsert([heap |-> heap, pData |-> pData], name))
       ELSE UNCHANGED <<heap, pData>>
    /\ UNCHANGED <<treeVars, dsEmpty, stale>>

\* The winner leaves the heap of the department.
DELETE ==
    LET d == employee[pData[1]].dept_no
    IN  /\ built /\ pData[1] # nobody
        /\ heap[d] # <<>>
        /\ SetSt(WithHeap([heap |-> heap, pData |-> pData], d, HeapDelete(heap[d])))
        /\ UNCHANGED <<treeVars, dsEmpty, built, stale>>

\* SEARCH_BP, PRINT_BP and PRINT_ST change nothing.
Next ==
    \/ LOAD \/ DELETE
    \/ \E rec \in Record : ADD_BP(rec)
    \/ \E d \in Dept : ADD_ST_DEPTNO(d)
    \/ \E n \in Name : ADD_ST_NAME(n)

Spec == Init /\ [][Next]_vars

-----------------------------------------------------------------------------
(* Properties. *)

\* While no income changes behind its back, the tournament has at every node
\* the best of the employees below it, so that DELETE takes the best of all.
WinnersRight ==
    ~stale =>
        \A i \in 1..15 :
            LET Below(d) == \E k \in 0..3 : (d + 7) \div 2^k = i
                there == UNION {Range(heap[d]) : d \in {e \in 1..8 : Below(e)}}
            IN  /\ pData[i] = nobody <=> there = {}
                /\ \A n \in there : n = pData[i] \/ better(pData[i], n)

\* As long, too, the first of a department's heap has its highest income: "Max
\* Heap (extract highest salary by department)" (README.md).
HighestFirst ==
    ~stale => \A d \in 1..8 : \A n \in Range(heap[d]) : employee[n].income <= employee[Top(heap[d])].income
=============================================================================
