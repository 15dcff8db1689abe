------------------------------- MODULE BpTree -------------------------------
(***************************************************************************)
(* The B+ tree of 02_Employee_DB_BPlusTree. Nodes are numbers, in the      *)
(* order in which they are allocated; 0 is the null pointer. A leaf holds  *)
(* a map from names to records and links to its neighbours, an index node  *)
(* a map from names to children and one child more, to the left of them.   *)
(* Names are numbers, which gives them the order of the strings.           *)
(***************************************************************************)
EXTENDS Integers, Sequences, FiniteSets, SequencesExt, TLC

CONSTANTS
    order,           \* children of an index node, 3 in Manager.h
    Name,            \* names of employees, from 1
    Dept,            \* departments, 1 for 100 to 8 for 800
    Income           \* incomes

VARIABLES
    bptree,          \* [root, node]
    employee         \* the records, by name: [dept_no, income]

treeVars == <<bptree, employee>>

null == 0
Leaf(names) == [leaf |-> TRUE, map |-> names, next |-> null, prev |-> null, parent |-> null]
Index(child, map) == [leaf |-> FALSE, map |-> map, mostLeft |-> child, parent |-> null]

TreeInit ==
    /\ bptree = [root |-> null, node |-> <<>>]
    /\ employee = [n \in {} |-> 0]

\* The keys of a node, in order. A leaf is a set of names, whose records are in
\* employee; an index node a function from keys to children.
Keys(node) == IF node.leaf THEN node.map ELSE DOMAIN node.map
Sorted(S) == SetToSortSeq(S, LAMBDA a, b : a < b)

-----------------------------------------------------------------------------

\* The children of a node that a name is looked for under: the last whose key is
\* not greater.
ChildFor(node, name) ==
    LET below == {k \in DOMAIN node.map : k <= name}
    IN  IF below = {} THEN node.mostLeft
        ELSE node.map[CHOOSE k \in below : \A j \in below : j <= k]

RECURSIVE DescendFrom(_, _, _)
DescendFrom(t, n, name) ==
    IF t.node[n].leaf THEN n ELSE DescendFrom(t, ChildFor(t.node[n], name), name)

searchDataNode(t, name) ==
    IF t.root = null THEN null ELSE DescendFrom(t, t.root, name)

\* Search of one name.
Search(t, name) ==
    LET l == searchDataNode(t, name) IN l # null /\ name \in t.node[l].map

\* Search of a range, inclusive, along the links of the leaves; it stops at the
\* first name past the end.
RECURSIVE Sweep(_, _, _, _)
Sweep(t, l, start, end) ==
    IF l = null THEN <<>>
    ELSE LET names == {k \in t.node[l].map : k >= start}
             here == Sorted({k \in names : k <= end})
         IN  IF \E k \in names : k > end THEN here
             ELSE here \o Sweep(t, t.node[l].next, start, end)

SearchRange(t, start, end) == Sweep(t, searchDataNode(t, start), start, end)

\* The printing starts at the leftmost leaf.
RECURSIVE LeftmostLeaf(_, _)
LeftmostLeaf(t, n) == IF t.node[n].leaf THEN n ELSE LeftmostLeaf(t, t.node[n].mostLeft)

RECURSIVE Chain(_, _)
Chain(t, l) == IF l = null THEN <<>> ELSE Sorted(t.node[l].map) \o Chain(t, t.node[l].next)

PrintBp(t) == IF t.root = null THEN <<>> ELSE Chain(t, LeftmostLeaf(t, t.root))

-----------------------------------------------------------------------------
\* Insertion.

excessNode(t, n) == Cardinality(Keys(t.node[n])) > order - 1

Cut(size) == (size + 1) \div 2

\* Mutation: the first child of the right node keeps its parent.
MovedWithoutFirst(node, upKey) == {node.map[k] : k \in {j \in DOMAIN node.map : j > upKey}}

\* The children that go to the right with the keys after upKey.
Moved(node, upKey) == {node.map[k] : k \in {j \in DOMAIN node.map : j >= upKey}}

\* The right half of a split node goes to its parent, which may be split in
\* turn; a root gets a parent.
RECURSIVE Attach(_, _, _, _), splitIndexNode(_, _)
Attach(t, left, right, upKey) ==
    LET parent == t.node[left].parent
        newRoot == Len(t.node) + 1
        attached == [t EXCEPT !.node[parent].map = @ @@ (upKey :> right),
                              !.node[right].parent = parent]
        raised == [t EXCEPT !.node[left].parent = newRoot, !.node[right].parent = newRoot]
    IN  IF parent = null
        THEN [root |-> newRoot, node |-> Append(raised.node, Index(left, upKey :> right))]
        ELSE IF excessNode(attached, parent) THEN splitIndexNode(attached, parent) ELSE attached

splitIndexNode(t, left) ==
    LET node == t.node[left]
        keys == Sorted(DOMAIN node.map)
        upKey == keys[Len(keys) \div 2 + 1]
        Part(S) == [k \in S |-> node.map[k]]
        right == Len(t.node) + 1
        halved == [t.node EXCEPT ![left].map = Part({k \in DOMAIN node.map : k < upKey})]
        reparented == [n \in Moved(node, upKey) |-> [halved[n] EXCEPT !.parent = right]] @@ halved
        nodes == Append(reparented, Index(node.map[upKey], Part({k \in DOMAIN node.map : k > upKey})))
    IN  Attach([t EXCEPT !.node = nodes], left, right, upKey)

splitDataNode(t, left) ==
    LET node == t.node[left]
        keys == Sorted(node.map)
        upper == {keys[k] : k \in Cut(Len(keys)) + 1..Len(keys)}
        right == Len(t.node) + 1
        halved == [t.node EXCEPT ![left].map = @ \ upper, ![left].next = right]
        linked == IF node.next = null THEN halved ELSE [halved EXCEPT ![node.next].prev = right]
    IN  Attach([t EXCEPT !.node = Append(linked, [Leaf(upper) EXCEPT !.next = node.next, !.prev = left])],
               left, right, Sorted(upper)[1])

\* A name that is there has its income changed, in place.
InsertNew(t, name) ==
    LET l == searchDataNode(t, name)
        there == [t EXCEPT !.node[l].map = @ \cup {name}]
    IN  IF t.root = null THEN [root |-> 1, node |-> <<Leaf({name})>>]
        ELSE IF excessNode(there, l) THEN splitDataNode(there, l) ELSE there

Inserted(state, rec) ==
    IF Search(state.bptree, rec.name)
    THEN [state EXCEPT !.employee[rec.name].income = rec.income]
    ELSE [bptree |-> InsertNew(state.bptree, rec.name),
          employee |-> (rec.name :> [dept_no |-> rec.dept_no, income |-> rec.income]) @@ state.employee]

Insert(rec) ==
    LET to == Inserted([bptree |-> bptree, employee |-> employee], rec)
    IN  bptree' = to.bptree /\ employee' = to.employee

Record == [name : Name, dept_no : Dept, income : Income]

TreeSpec == TreeInit /\ [][\E rec \in Record : Insert(rec)]_treeVars

-----------------------------------------------------------------------------
(* Property. *)

\* Whatever the order in which names come, every search finds what is there:
\* a name from the root, a range and the whole along the leaves, each in order,
\* and the back links and the parents that later splits go by are right.
SearchesAgree ==
    LET names == DOMAIN employee
        Between(a, b) == {n \in names : a <= n /\ n <= b}
        node == bptree.node
    IN  /\ PrintBp(bptree) = Sorted(names)
        /\ \A a, b \in Name : a <= b => SearchRange(bptree, a, b) = Sorted(Between(a, b))
        /\ \A n \in Name : Search(bptree, n) <=> n \in names
        /\ \A n \in DOMAIN node :
              /\ Cardinality(Keys(node[n])) \in 1..order - 1
              /\ node[n].leaf /\ node[n].next # null => node[node[n].next].prev = n
              /\ ~node[n].leaf =>
                    /\ node[node[n].mostLeft].parent = n
                    /\ \A k \in DOMAIN node[n].map : node[node[n].map[k]].parent = n
=============================================================================
