------------------------------- MODULE GoBackN -------------------------------
(***************************************************************************)
(* Network/Implementation_Go_Back_N.c: the same event loop and medium as   *)
(* Selective Repeat, with a cumulative acknowledgement, one timer for each *)
(* entity and a receiver that keeps nothing out of order. The handlers of  *)
(* A and B differ in one thing, the acknowledgement they put on data.      *)
(*                                                                         *)
(* One packet format serves for data and acknowledgements: input takes a   *)
(* packet whose acknum lies in the send window for an acknowledgement, and *)
(* any other for data.                                                     *)
(***************************************************************************)
EXTENDS Layer3

CONSTANTS
    N,               \* window size
    NSIMMAX,         \* messages main takes from layer 5 before it stops
    BIDIRECTIONAL    \* whether B has messages to send as well

\* The mark 999 for "no acknowledgement" is meant never to be a number in use.
NoAck == 999

ASSUME WindowAssumption == N \in Nat \ {0}
ASSUME NsimmaxAssumption == NSIMMAX \in Nat /\ NSIMMAX < NoAck
ASSUME DirectionAssumption == BIDIRECTIONAL \in BOOLEAN

VARIABLES
    nsim,            \* messages taken from layer 5 so far
    arrival,         \* entity of the pending FROM_LAYER5 event
    base,            \* oldest sequence number not yet acknowledged
    nextseqnum,      \* next sequence number to use
    window,          \* sent packets, by sequence number modulo N
    expectedseqnum,  \* next sequence number to deliver
    lastACKToSend,   \* last number delivered and not yet piggybacked, or -1
    timer,           \* whether the entity's timer runs
    inflight,        \* packets travelling to the entity, oldest first
    accepted,        \* history: payloads the entity's output took
    layer5           \* history: payloads handed to the entity's layer 5

receiverVars == <<expectedseqnum, lastACKToSend, layer5>>
vars == <<nsim, arrival, base, nextseqnum, window, receiverVars, timer, inflight, accepted>>

Slot == 0..N - 1

\* init, A_init and B_init.
generate_next_arrival == IF BIDIRECTIONAL THEN Entity ELSE {"A"}

Init ==
    /\ nsim = 0
    /\ arrival \in generate_next_arrival
    /\ base = [e \in Entity |-> 0]
    /\ nextseqnum = [e \in Entity |-> 0]
    /\ window = [e \in Entity |-> [i \in Slot |-> Packet(0, 0, NUL)]]
    /\ expectedseqnum = [e \in Entity |-> 0]
    /\ lastACKToSend = [e \in Entity |-> -1]
    /\ timer = [e \in Entity |-> FALSE]
    /\ inflight = [e \in Entity |-> <<>>]
    /\ accepted = [e \in Entity |-> <<>>]
    /\ layer5 = [e \in Entity |-> <<>>]

-----------------------------------------------------------------------------
\* A_output and B_output.

\* Mutation: the window holds one packet more than its N slots.
WindowOpenOffByOne(e) == nextseqnum[e] <= base[e] + N

WindowOpen(e) == nextseqnum[e] < base[e] + N

\* A piggybacks its acknowledgement; B writes 0, which is a sequence number.
Piggyback(e) ==
    IF e = "A" THEN IF lastACKToSend[e] >= 0 THEN lastACKToSend[e] ELSE NoAck
               ELSE 0

Send(e, data) ==
    LET p == Packet(nextseqnum[e], Piggyback(e), data)
    IN  /\ WindowOpen(e)
        /\ window' = [window EXCEPT ![e][nextseqnum[e] % N] = p]
        /\ \E queue \in tolayer3(inflight[Other(e)], p) :
              inflight' = [inflight EXCEPT ![Other(e)] = queue]
        /\ timer' = [timer EXCEPT ![e] = @ \/ base[e] = nextseqnum[e]]
        /\ nextseqnum' = [nextseqnum EXCEPT ![e] = @ + 1]
        /\ lastACKToSend' = [lastACKToSend EXCEPT !["A"] = IF e = "A" THEN -1 ELSE @]
        /\ accepted' = [accepted EXCEPT ![e] = Append(@, data)]
        /\ UNCHANGED <<base, expectedseqnum, layer5>>

\* The window is full: the message is dropped without a word to layer 5.
Refuse(e) ==
    /\ ~WindowOpen(e)
    /\ UNCHANGED <<base, nextseqnum, window, receiverVars, timer, inflight, accepted>>

output(e, data) == Send(e, data) \/ Refuse(e)

A_output(data) == output("A", data)
B_output(data) == output("B", data)

-----------------------------------------------------------------------------
\* A_input and B_input, p being the packet main took from the event list.

Consume(e) == inflight' = [inflight EXCEPT ![e] = Tail(@)]

\* What input takes for an acknowledgement.
Acknowledges(e, p) == p.acknum >= base[e] /\ p.acknum < nextseqnum[e]

Discard(e, p) ==
    /\ ~Intact(p)
    /\ Consume(e)
    /\ UNCHANGED <<base, nextseqnum, window, receiverVars, timer, accepted>>

\* Mutation: the timer is stopped but not started again.
TimerStopped(e, ack) == FALSE

\* Stopped, and started again if packets remain outstanding.
TimerAfterAck(e, ack) == ack + 1 # nextseqnum[e]

\* A cumulative acknowledgement: whatever data came with it is not looked at.
Ack(e, p) ==
    /\ Intact(p) /\ Acknowledges(e, p)
    /\ base' = [base EXCEPT ![e] = p.acknum + 1]
    /\ timer' = [timer EXCEPT ![e] = TimerAfterAck(e, p.acknum)]
    /\ Consume(e)
    /\ UNCHANGED <<nextseqnum, window, receiverVars, accepted>>

\* Mutation: any packet numbered from the expected one on is delivered.
InOrderOrLater(e, p) == p.seqnum >= expectedseqnum[e]

InOrder(e, p) == p.seqnum = expectedseqnum[e]

\* The packet expected next: deliver it. No acknowledgement is sent yet.
Deliver(e, p) ==
    /\ Intact(p) /\ ~Acknowledges(e, p)
    /\ InOrder(e, p)
    /\ layer5' = [layer5 EXCEPT ![e] = Append(@, p.payload)]
    /\ lastACKToSend' = [lastACKToSend EXCEPT ![e] = expectedseqnum[e]]
    /\ expectedseqnum' = [expectedseqnum EXCEPT ![e] = @ + 1]
    /\ Consume(e)
    /\ UNCHANGED <<base, nextseqnum, window, timer, accepted>>

\* Mutation: the packet still expected is acknowledged.
LastDeliveredOffByOne(e) == expectedseqnum[e]

LastDelivered(e) == expectedseqnum[e] - 1

\* Any other packet: acknowledge the last one delivered, if there is one.
Reacknowledge(e, p) ==
    /\ Intact(p) /\ ~Acknowledges(e, p)
    /\ ~InOrder(e, p)
    /\ IF LastDelivered(e) >= 0
       THEN \E queue \in tolayer3(inflight[Other(e)], Packet(0, LastDelivered(e), NUL)) :
                inflight' = [inflight EXCEPT ![e] = Tail(@), ![Other(e)] = queue]
       ELSE Consume(e)
    /\ UNCHANGED <<base, nextseqnum, window, receiverVars, timer, accepted>>

input(e, p) ==
    \/ Discard(e, p)
    \/ Ack(e, p)
    \/ Deliver(e, p)
    \/ Reacknowledge(e, p)

A_input(p) == input("A", p)
B_input(p) == input("B", p)

-----------------------------------------------------------------------------
\* A_timerinterrupt and B_timerinterrupt: start the timer again and resend
\* the whole window, each packet with the acknum it was first sent with.

\* What may be travelling after the packets base..last of e are sent again.
Resent(e) ==
    LET sent[last \in base[e] - 1..nextseqnum[e] - 1] ==
            IF last = base[e] - 1
            THEN {inflight[Other(e)]}
            ELSE UNION {tolayer3(queue, window[e][last % N]) : queue \in sent[last - 1]}
    IN  sent[nextseqnum[e] - 1]

timerinterrupt(e) ==
    /\ timer' = [timer EXCEPT ![e] = TRUE]
    /\ \E queue \in Resent(e) : inflight' = [inflight EXCEPT ![Other(e)] = queue]
    /\ UNCHANGED <<base, nextseqnum, window, receiverVars, accepted>>

A_timerinterrupt == timerinterrupt("A")
B_timerinterrupt == timerinterrupt("B")

-----------------------------------------------------------------------------
\* The events of main. The loop breaks at the first event it takes once
\* nsim = nsimmax, before handling it.

Running == nsim < NSIMMAX

FROM_LAYER5 ==
    /\ Running
    /\ nsim' = nsim + 1
    /\ arrival' \in generate_next_arrival
    /\ \/ arrival = "A" /\ A_output(Letters(nsim))
       \/ arrival = "B" /\ B_output(Letters(nsim))

FROM_LAYER3 ==
    /\ Running
    /\ \/ inflight["A"] # <<>> /\ A_input(Head(inflight["A"]))
       \/ inflight["B"] # <<>> /\ B_input(Head(inflight["B"]))
    /\ UNCHANGED <<nsim, arrival>>

TIMER_INTERRUPT ==
    /\ Running
    /\ \/ timer["A"] /\ A_timerinterrupt
       \/ timer["B"] /\ B_timerinterrupt
    /\ UNCHANGED <<nsim, arrival>>

Next == FROM_LAYER5 \/ FROM_LAYER3 \/ TIMER_INTERRUPT

Spec == Init /\ [][Next]_vars

-----------------------------------------------------------------------------
(* Properties. *)

\* Every variable keeps its type; the event counter stays within its bound.
TypeOK ==
    /\ nsim \in 0..NSIMMAX
    /\ arrival \in Entity
    /\ base \in [Entity -> Nat]
    /\ nextseqnum \in [Entity -> Nat]
    /\ window \in [Entity -> [Slot -> Pkt]]
    /\ expectedseqnum \in [Entity -> Nat]
    /\ lastACKToSend \in [Entity -> Nat \cup {-1}]
    /\ timer \in [Entity -> BOOLEAN]
    /\ inflight \in [Entity -> Seq(Pkt)]
    /\ accepted \in [Entity -> Seq(Int)]
    /\ layer5 \in [Entity -> Seq(Int)]

\* The timer runs exactly while packets are outstanding: the window is never
\* stuck without one, and none fires over an empty window.
TimerIffOutstanding == \A e \in Entity : timer[e] <=> base[e] < nextseqnum[e]

\* The slots of the window hold the accepted messages of their own numbers, so
\* a timeout resends what was first sent.
CopiesKept ==
    \A e \in Entity :
        /\ base[e] <= nextseqnum[e] /\ nextseqnum[e] <= base[e] + N
        /\ \A s \in base[e]..nextseqnum[e] - 1 :
              /\ window[e][s % N].seqnum = s
              /\ window[e][s % N].payload = accepted[e][s + 1]

\* What an entity takes to be acknowledged the other one has delivered: no
\* packet leaves the window before it arrived. ("Process cumulative
\* acknowledgment at sender side", A_input.)
AckedWasDelivered == \A e \in Entity : base[e] <= expectedseqnum[Other(e)]

\* How far the code can be from it: only A's packet 0 can be taken as
\* acknowledged before it is delivered, by the 0 that B writes on its data.
OnlyFirstAckedEarly ==
    /\ base["B"] <= expectedseqnum["A"]
    /\ base["A"] > expectedseqnum["B"] => base["A"] = 1 /\ expectedseqnum["B"] = 0

\* An entity's layer 5 is handed no more than the other side accepted. ("Check
\* if this is a data packet", A_input.)
NothingInvented == \A e \in Entity : Len(layer5[e]) <= Len(accepted[Other(e)])

\* The messages of A reach B's layer 5 in order, unchanged, without gap or
\* repetition, when B itself sends nothing.
DeliveredInOrder ==
    /\ expectedseqnum["B"] <= Len(accepted["A"])
    /\ layer5["B"] = SubSeq(accepted["A"], 1, expectedseqnum["B"])

\* Everything after the first delivery is the message of its number, in both
\* directions; the first one may be the empty payload of an acknowledgement.
DeliveredInOrderButFirst ==
    \A e \in Entity :
        /\ Len(layer5[e]) = expectedseqnum[e]
        /\ \A k \in 1..expectedseqnum[e] :
              \/ k = 1 /\ layer5[e][k] = NUL
              \/ k <= Len(accepted[Other(e)]) /\ layer5[e][k] = accepted[Other(e)][k]
=============================================================================
