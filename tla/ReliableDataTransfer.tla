------------------------ MODULE ReliableDataTransfer ------------------------
(***************************************************************************)
(* What a reliable transport promises the two layer-5 users: each entity's *)
(* layer 5 is handed the other entity's accepted messages, unchanged, in   *)
(* order and once. Messages in transit are those accepted and not yet      *)
(* handed over; a step may hand over several.                              *)
(***************************************************************************)
EXTENDS Integers, Sequences

CONSTANT Payload     \* what a message can be

VARIABLES
    accepted,        \* messages each entity's user has sent
    layer5           \* messages each entity's user has been handed

Entity == {"A", "B"}
Peer(e) == IF e = "A" THEN "B" ELSE "A"

vars == <<accepted, layer5>>

Init ==
    /\ accepted = [e \in Entity |-> <<>>]
    /\ layer5 = [e \in Entity |-> <<>>]

Accept(e) ==
    /\ \E m \in Payload : accepted' = [accepted EXCEPT ![e] = Append(@, m)]
    /\ UNCHANGED layer5

Deliver(e) ==
    /\ \E k \in Len(layer5[e]) + 1..Len(accepted[Peer(e)]) :
          layer5' = [layer5 EXCEPT ![e] = SubSeq(accepted[Peer(e)], 1, k)]
    /\ UNCHANGED accepted

Next == \E e \in Entity : Accept(e) \/ Deliver(e)

Spec == Init /\ [][Next]_vars
=============================================================================
