---------------------------- MODULE LogicCircuits ----------------------------
(***************************************************************************)
(* The combinational circuits of Digital_Logic: adder_16bit.v, a chain of  *)
(* full adders, and majority_voter.v. Their inputs change at any time, one *)
(* at a time, and the outputs are functions of them.                       *)
(***************************************************************************)
EXTENDS Integers, FiniteSets, Functions

CONSTANTS
    Width,           \* bits of the adder, 16 in the circuit
    Votes            \* bits of the voter, 12 in the circuit

VARIABLES
    A, B, Cin,       \* the adder's inputs, bit by bit
    ballot           \* the voter's input A

vars == <<A, B, Cin, ballot>>

Bit == {0, 1}
Column == 0..Width - 1
Voter == 0..Votes - 1

Init ==
    /\ A = [k \in Column |-> 0] /\ B = [k \in Column |-> 0] /\ Cin = 0
    /\ ballot = [v \in Voter |-> 0]

Flip(bits, b) == [bits EXCEPT ![b] = 1 - @]

Next ==
    \/ \E k \in Column : A' = Flip(A, k) /\ UNCHANGED <<B, Cin, ballot>>
    \/ \E k \in Column : B' = Flip(B, k) /\ UNCHANGED <<A, Cin, ballot>>
    \/ Cin' = 1 - Cin /\ UNCHANGED <<A, B, ballot>>
    \/ \E v \in Voter : ballot' = Flip(ballot, v) /\ UNCHANGED <<A, B, Cin>>

Spec == Init /\ [][Next]_vars

-----------------------------------------------------------------------------
\* adder_16bit.v.

xor(a, b) == (a + b) % 2
and(a, b) == a * b
or(a, b) == IF a + b > 0 THEN 1 ELSE 0

half_adder(a, b) == [sum |-> xor(a, b), carry |-> and(a, b)]

full_adder(a, b, cin) ==
    LET HA1 == half_adder(a, b)
        HA2 == half_adder(HA1.sum, cin)
    IN  [sum |-> HA2.sum, cout |-> or(HA1.carry, HA2.carry)]

\* The carry wires: c[0] is Cin, c[k + 1] the carry out of column k.
c ==
    LET wire[k \in 0..Width] ==
            IF k = 0 THEN Cin ELSE full_adder(A[k - 1], B[k - 1], wire[k - 1]).cout
    IN  wire

Sum == [k \in Column |-> full_adder(A[k], B[k], c[k]).sum]
Cout == c[Width]
Overflow == xor(c[Width], c[Width - 1])

-----------------------------------------------------------------------------
\* majority_voter.v: one pass over the bits, two counts.

count1 == FoldFunction(LAMBDA bit, count : IF bit = 1 THEN count + 1 ELSE count, 0, ballot)
count0 == FoldFunction(LAMBDA bit, count : IF bit = 1 THEN count ELSE count + 1, 0, ballot)

Y == IF count0 > count1 THEN "100" ELSE IF count0 = count1 THEN "010" ELSE "001"

-----------------------------------------------------------------------------
(* Properties. *)

Value(bits) == FoldFunctionOnSet(+, 0, [k \in Column |-> bits[k] * 2^k], Column)

\* The number that bits stand for in two's complement.
Signed(bits) == Value(bits) - bits[Width - 1] * 2^Width

Ones == {v \in Voter : ballot[v] = 1}

\* The chain adds: with its carry out the sum is that of the inputs, and
\* Overflow tells exactly when the signed sum does not fit. The voter says
\* what more than half of the bits are.
CircuitsCorrect ==
    LET signed == Signed(A) + Signed(B) + Cin
    IN  /\ Value(Sum) + Cout * 2^Width = Value(A) + Value(B) + Cin
        /\ Overflow = 1 <=> signed \notin -(2^(Width - 1))..2^(Width - 1) - 1
        /\ Overflow = 0 => Signed(Sum) = signed
        /\ Y = "100" <=> 2 * Cardinality(Ones) < Votes
        /\ Y = "001" <=> 2 * Cardinality(Ones) > Votes
=============================================================================
