-------------------------- MODULE SequenceDetector --------------------------
(***************************************************************************)
(* sequence_detector.v: a Moore machine that takes a bit X at each rising  *)
(* edge of the clock. The bits taken since the last reset are kept as a    *)
(* history, as far as the patterns reach back.                             *)
(***************************************************************************)
EXTENDS Integers, Sequences

VARIABLES
    current_state,   \* S0..S6, as numbers
    taken            \* history: the last six bits since reset, oldest first

vars == <<current_state, taken>>

Bit == {0, 1}

Init == current_state = 0 /\ taken = <<>>

\* Mutation: the state S3 is left for S0 on a 0, its last bits forgotten.
next_state_forgetful(s, X) ==
    IF X = 1 THEN <<1, 1, 3, 4, 5, 1, 3>>[s + 1] ELSE <<0, 2, 0, 0, 0, 6, 2>>[s + 1]

next_state(s, X) ==
    IF X = 1 THEN <<1, 1, 3, 4, 5, 1, 3>>[s + 1] ELSE <<0, 2, 0, 2, 0, 6, 0>>[s + 1]

Y == IF current_state \in {3, 6} THEN 1 ELSE 0
Y1 == IF current_state = 6 THEN 1 ELSE 0

Clock(X) ==
    /\ current_state' = next_state(current_state, X)
    /\ taken' = IF Len(taken) < 6 THEN Append(taken, X) ELSE Append(Tail(taken), X)

Reset == current_state' = 0 /\ taken' = <<>>

Next == Reset \/ \E X \in Bit : Clock(X)

Spec == Init /\ [][Next]_vars

-----------------------------------------------------------------------------
(* Properties. *)

Ends(pattern) ==
    /\ Len(taken) >= Len(pattern)
    /\ SubSeq(taken, Len(taken) - Len(pattern) + 1, Len(taken)) = pattern

\* What the outputs do stand for: Y1 for a 101110, or a 101 that one has run
\* into, and Y for Y1 or a 101.
OutputsMean ==
    /\ Y1 = 1 => Ends(<<1, 0, 1, 1, 1, 0>>)
    /\ Y = 1 /\ Y1 = 0 => Ends(<<1, 0, 1>>)

\* "Moore Machine to detect specific bit patterns (e.g., 101101)"
\* (sequence_detector.v:2), "Detected '101101' pattern end" (line 35).
Detects101101 == Y1 = 1 <=> Ends(<<1, 0, 1, 1, 0, 1>>)
=============================================================================
