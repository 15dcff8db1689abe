--------------------------- MODULE PageReplacement ---------------------------
(***************************************************************************)
(* page_replacement_simulator.c: one string of page references is served   *)
(* from nframe frames by four algorithms, one after the other, and the     *)
(* page faults of each are counted.                                        *)
(***************************************************************************)
EXTENDS Integers, Sequences, FiniteSets

CONSTANTS
    RefStrings,      \* reference strings to choose from
    Frames           \* frame counts to choose from

VARIABLES
    nframe, refs,    \* the input
    algorithm,       \* which of the four simulations runs
    i,               \* references it has taken
    frames,          \* the page in each frame, or -1
    last_used,       \* lru: reference at which each frame was last used
    refb,            \* clock: the reference bits
    next,            \* fifo: frame to replace next; clock: the hand
    filled,          \* frames in use
    faults           \* faults counted, by algorithm

input == <<nframe, refs>>
local == <<frames, last_used, refb, next, filled>>
vars == <<input, algorithm, i, local, faults>>

Order == <<"optimal", "fifo", "lru", "clock", "none">>
Algorithm == {"optimal", "fifo", "lru", "clock"}
Frame == 0..nframe - 1

\* read_input and the check of the frame count.
read_input == nframe \in {k \in Frames : k > 0 /\ k <= 1000} /\ refs \in RefStrings

Init ==
    /\ read_input
    /\ algorithm = "optimal" /\ i = 0
    /\ frames = [f \in Frame |-> -1]
    /\ last_used = [f \in Frame |-> -1]
    /\ refb = [f \in Frame |-> 0]
    /\ next = 0 /\ filled = 0
    /\ faults = [a \in Algorithm |-> 0]

-----------------------------------------------------------------------------
p == refs[i + 1]

in_frames == {f \in Frame : frames[f] = p}
Hit == in_frames # {}

Taking(a) == algorithm = a /\ i < Len(refs) /\ i' = i + 1

\* A hit leaves everything as it is, but for lru and clock.
Keep == UNCHANGED <<local, faults>>

Fault(f, a) ==
    /\ frames' = [frames EXCEPT ![f] = p]
    /\ faults' = [faults EXCEPT ![a] = @ + 1]

First(S) == CHOOSE f \in S : \A g \in S : f <= g

\* When the page of f is referenced again: Len(refs) + 1 for never.
NextUse(f) ==
    LET uses == {j \in i + 2..Len(refs) : refs[j] = frames[f]}
    IN  IF uses = {} THEN Len(refs) + 1 ELSE First(uses)

\* Mutation: the page needed soonest.
NearestUse == First({f \in Frame : \A g \in Frame : NextUse(f) <= NextUse(g)})

\* The first of those needed last.
FarthestUse == First({f \in Frame : \A g \in Frame : NextUse(f) >= NextUse(g)})

simulate_optimal ==
    /\ Taking("optimal")
    /\ IF Hit THEN Keep
       ELSE /\ IF filled < nframe THEN filled' = filled + 1 /\ Fault(filled, "optimal")
               ELSE Fault(FarthestUse, "optimal") /\ UNCHANGED filled
            /\ UNCHANGED <<last_used, refb, next>>
    /\ UNCHANGED <<input, algorithm>>

simulate_fifo ==
    /\ Taking("fifo")
    /\ IF Hit THEN Keep
       ELSE /\ IF filled < nframe THEN filled' = filled + 1 /\ Fault(filled, "fifo") /\ UNCHANGED next
               ELSE /\ Fault(next, "fifo") /\ next' = (next + 1) % nframe
                    /\ UNCHANGED filled
            /\ UNCHANGED <<last_used, refb>>
    /\ UNCHANGED <<input, algorithm>>

LeastRecent == First({f \in Frame : \A g \in Frame : last_used[f] <= last_used[g]})

\* Where p is, or goes.
LruFrame == IF Hit THEN First(in_frames) ELSE IF filled < nframe THEN filled ELSE LeastRecent

Used == [last_used EXCEPT ![LruFrame] = i]

simulate_lru ==
    /\ Taking("lru")
    /\ last_used' = Used
    /\ IF Hit THEN UNCHANGED <<frames, faults, filled>>
       ELSE /\ Fault(LruFrame, "lru")
            /\ filled' = IF filled < nframe THEN filled + 1 ELSE filled
    /\ UNCHANGED <<input, algorithm, refb, next>>

\* How far the hand moves: to an empty frame or one whose bit is clear, giving
\* the others their second chance; all the way round if there is none.
HandMoves ==
    First({d \in 0..nframe :
              \/ d = nframe
              \/ frames[(next + d) % nframe] = -1 \/ refb[(next + d) % nframe] = 0})

simulate_clock ==
    /\ Taking("clock")
    /\ IF Hit
       THEN /\ refb' = [refb EXCEPT ![First(in_frames)] = 1]
            /\ UNCHANGED <<frames, faults, next>>
       ELSE LET passed == {(next + d) % nframe : d \in 0..HandMoves - 1}
                victim == (next + HandMoves) % nframe
            IN  /\ Fault(victim, "clock")
                /\ refb' = [f \in Frame |-> IF f = victim THEN 1
                                            ELSE IF f \in passed THEN 0 ELSE refb[f]]
                /\ next' = (victim + 1) % nframe
    /\ UNCHANGED <<input, algorithm, last_used, filled>>

\* One simulation returns and main calls the next, which starts afresh.
main ==
    /\ algorithm # "none" /\ i = Len(refs)
    /\ algorithm' = Order[(CHOOSE k \in 1..4 : Order[k] = algorithm) + 1]
    /\ i' = 0
    /\ frames' = [f \in Frame |-> -1] /\ last_used' = [f \in Frame |-> -1]
    /\ refb' = [f \in Frame |-> 0] /\ next' = 0 /\ filled' = 0
    /\ UNCHANGED <<input, faults>>

Next == simulate_optimal \/ simulate_fifo \/ simulate_lru \/ simulate_clock \/ main

Spec == Init /\ [][Next]_vars

-----------------------------------------------------------------------------
(* Properties. *)

\* The fewest faults with which any choice of victims serves the references.
LeastFaults ==
    LET least[j \in 1..Len(refs) + 1] ==
            [held \in SUBSET {refs[k] : k \in DOMAIN refs} |->
                IF j > Len(refs) THEN 0
                ELSE IF refs[j] \in held THEN least[j + 1][held]
                ELSE IF Cardinality(held) < nframe THEN 1 + least[j + 1][held \cup {refs[j]}]
                ELSE 1 + First({least[j + 1][(held \ {v}) \cup {refs[j]}] : v \in held})]
    IN  least[1][{}]

\* The optimal algorithm has the fewest faults there can be, and no other one
\* fewer. ("Optimal replacement based on future references", README.md.)
OptimalIsLeast ==
    /\ algorithm = "fifo" => faults["optimal"] = LeastFaults
    /\ algorithm = "none" => \A a \in Algorithm : faults["optimal"] <= faults[a]

\* The frames of lru are the nframe pages referenced last, however the frames
\* they lie in have changed hands: the reason why more frames never hurt.
LRUKeepsRecent ==
    algorithm = "lru" =>
        {frames[f] : f \in Frame} \ {-1} =
            {refs[j] : j \in {j \in 1..i : Cardinality({refs[k] : k \in j..i}) <= nframe}}
=============================================================================
