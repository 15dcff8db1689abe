--------------------------- MODULE SelectiveRepeat ---------------------------
(***************************************************************************)
(* Network/Implementation_Selective_Repeat.c: the event loop and the two   *)
(* entities A and B, each a sender and a receiver of its own stream. The   *)
(* handlers of A and B are the same code over differently named globals,   *)
(* so each handler is written once, with the entity as parameter.          *)
(*                                                                         *)
(* evlist is split by kind of event: the one pending arrival from layer 5, *)
(* the running timers of each entity and the packets travelling to it.     *)
(* The clock is abstracted: any pending event may come next, except that   *)
(* packets for one entity keep their order.                                *)
(***************************************************************************)
EXTENDS Layer3

CONSTANTS
    N,               \* window size
    NSIMMAX,         \* messages main takes from layer 5 before it stops
    BIDIRECTIONAL    \* whether B has messages to send as well

ASSUME WindowAssumption == N \in Nat \ {0}
ASSUME NsimmaxAssumption == NSIMMAX \in Nat /\ NSIMMAX < Garbage
ASSUME DirectionAssumption == BIDIRECTIONAL \in BOOLEAN

VARIABLES
    nsim,            \* messages taken from layer 5 so far
    arrival,         \* entity of the pending FROM_LAYER5 event
    base,            \* oldest sequence number not yet acknowledged
    nextseqnum,      \* next sequence number to use
    window,          \* sent packets, by sequence number modulo N
    acked,           \* slots of window acknowledged out of order
    expectedseqnum,  \* next sequence number to deliver
    buffer,          \* packets received, by sequence number modulo N
    received,        \* slots of buffer that hold a packet
    timers,          \* sequence numbers whose timer runs
    inflight,        \* packets travelling to the entity, oldest first
    accepted,        \* history: payloads the entity's output took
    layer5           \* history: payloads handed to the entity's layer 5

senderVars == <<base, nextseqnum, window, acked>>
receiverVars == <<expectedseqnum, buffer, received, layer5>>
vars == <<nsim, arrival, senderVars, receiverVars, timers, inflight, accepted>>

Slot == 0..N - 1

-----------------------------------------------------------------------------
\* The loops "while (flag[from % N]) { flag[from % N] = 0; from++; }".

\* Where the loop started at from stops.
Slides(flags, from, to) ==
    /\ \A s \in from..to - 1 : flags[s % N]
    /\ to < from + N => ~flags[to % N]

\* Mutation: the flags are left set.
ClearedNothing(flags, from, to) == flags

\* The flags it leaves.
Cleared(flags, from, to) ==
    [i \in Slot |-> flags[i] /\ \A s \in from..to - 1 : s % N # i]

\* What it hands to layer 5 on the way.
Run(buf, from, to) ==
    [k \in 1..to - from |-> buf[(from + k - 1) % N].payload]

starttimer(running, seqnum) == running \cup {seqnum}

\* Mutation: the timer of an acknowledged packet is forgotten.
stoptimerForgotten(running, seqnum) == running

stoptimer(running, seqnum) == running \ {seqnum}

-----------------------------------------------------------------------------
\* init, A_init and B_init. Globals C leaves zeroed are zero packets.

generate_next_arrival == IF BIDIRECTIONAL THEN Entity ELSE {"A"}

Init ==
    /\ nsim = 0
    /\ arrival \in generate_next_arrival
    /\ base = [e \in Entity |-> 0]
    /\ nextseqnum = [e \in Entity |-> 0]
    /\ window = [e \in Entity |-> [i \in Slot |-> Packet(0, 0, NUL)]]
    /\ acked = [e \in Entity |-> [i \in Slot |-> FALSE]]
    /\ expectedseqnum = [e \in Entity |-> 0]
    /\ buffer = [e \in Entity |-> [i \in Slot |-> Packet(0, 0, NUL)]]
    /\ received = [e \in Entity |-> [i \in Slot |-> FALSE]]
    /\ timers = [e \in Entity |-> {}]
    /\ inflight = [e \in Entity |-> <<>>]
    /\ accepted = [e \in Entity |-> <<>>]
    /\ layer5 = [e \in Entity |-> <<>>]

-----------------------------------------------------------------------------
\* A_output and B_output.

\* Mutation: the window holds one packet more than its N slots.
WindowOpenOffByOne(e) == nextseqnum[e] <= base[e] + N

WindowOpen(e) == nextseqnum[e] < base[e] + N

\* There is room in the window: number the message, send it, time it.
Send(e, data) ==
    LET seqnum == nextseqnum[e]
        p == Packet(seqnum, 0, data)
    IN  /\ WindowOpen(e)
        /\ window' = [window EXCEPT ![e][seqnum % N] = p]
        /\ \E queue \in tolayer3(inflight[Other(e)], p) :
              inflight' = [inflight EXCEPT ![Other(e)] = queue]
        /\ timers' = [timers EXCEPT ![e] = starttimer(@, seqnum)]
        /\ nextseqnum' = [nextseqnum EXCEPT ![e] = @ + 1]
        /\ accepted' = [accepted EXCEPT ![e] = Append(@, data)]
        /\ UNCHANGED <<base, acked, receiverVars>>

\* The window is full: the message is dropped without a word to layer 5.
Refuse(e) ==
    /\ ~WindowOpen(e)
    /\ UNCHANGED <<senderVars, receiverVars, timers, inflight, accepted>>

output(e, data) == Send(e, data) \/ Refuse(e)

A_output(data) == output("A", data)
B_output(data) == output("B", data)

-----------------------------------------------------------------------------
\* A_input and B_input, p being the packet main took from the event list.

Consume(e) == inflight' = [inflight EXCEPT ![e] = Tail(@)]

\* Consume the packet and answer it with an acknowledgement of seqnum.
ConsumeAndAck(e, seqnum) ==
    \E queue \in tolayer3(inflight[Other(e)], Packet(-1, seqnum, NUL)) :
        inflight' = [inflight EXCEPT ![e] = Tail(@), ![Other(e)] = queue]

\* Damaged, or data beyond the receive window: nothing happens.
Ignore(e, p) ==
    /\ Intact(p) => p.seqnum >= expectedseqnum[e] + N
    /\ Consume(e)
    /\ UNCHANGED <<senderVars, receiverVars, timers, accepted>>

\* A first acknowledgement of an outstanding packet: stop its timer, slide.
AckNew(e, p) ==
    LET ack == p.acknum
        flags == [acked[e] EXCEPT ![ack % N] = TRUE]
    IN  /\ Intact(p) /\ p.seqnum < 0
        /\ ack >= base[e] /\ ack < nextseqnum[e] /\ ~acked[e][ack % N]
        /\ timers' = [timers EXCEPT ![e] = stoptimer(@, ack)]
        /\ \E to \in base[e]..base[e] + N :
              /\ Slides(flags, base[e], to)
              /\ base' = [base EXCEPT ![e] = to]
              /\ acked' = [acked EXCEPT ![e] = Cleared(flags, base[e], to)]
        /\ Consume(e)
        /\ UNCHANGED <<nextseqnum, window, receiverVars, accepted>>

\* An acknowledgement of a packet outside the window or acknowledged before.
AckOld(e, p) ==
    LET ack == p.acknum
    IN  /\ Intact(p) /\ p.seqnum < 0
        /\ ack < base[e] \/ ack >= nextseqnum[e] \/ acked[e][ack % N]
        /\ Consume(e)
        /\ UNCHANGED <<senderVars, receiverVars, timers, accepted>>

\* Data in the receive window: store it unless the slot is taken, acknowledge
\* it, and deliver the run of packets that is now complete.
DataInWindow(e, p) ==
    LET seqnum == p.seqnum
        slot == seqnum % N
        from == expectedseqnum[e]
        buf == IF received[e][slot] THEN buffer[e] ELSE [buffer[e] EXCEPT ![slot] = p]
        flags == [received[e] EXCEPT ![slot] = TRUE]
    IN  /\ Intact(p) /\ seqnum >= 0
        /\ seqnum >= from /\ seqnum < from + N
        /\ buffer' = [buffer EXCEPT ![e] = buf]
        /\ ConsumeAndAck(e, seqnum)
        /\ \E to \in from..from + N :
              /\ Slides(flags, from, to)
              /\ layer5' = [layer5 EXCEPT ![e] = @ \o Run(buf, from, to)]
              /\ received' = [received EXCEPT ![e] = Cleared(flags, from, to)]
              /\ expectedseqnum' = [expectedseqnum EXCEPT ![e] = to]
        /\ UNCHANGED <<senderVars, timers, accepted>>

\* Data already delivered: acknowledge it again.
DataDuplicate(e, p) ==
    /\ Intact(p) /\ p.seqnum >= 0
    /\ p.seqnum < expectedseqnum[e]
    /\ ConsumeAndAck(e, p.seqnum)
    /\ UNCHANGED <<senderVars, receiverVars, timers, accepted>>

input(e, p) ==
    \/ Ignore(e, p)
    \/ AckNew(e, p)
    \/ AckOld(e, p)
    \/ DataInWindow(e, p)
    \/ DataDuplicate(e, p)

A_input(p) == input("A", p)
B_input(p) == input("B", p)

-----------------------------------------------------------------------------
\* A_timerinterrupt and B_timerinterrupt: main has taken the timer event off
\* the list; the handler starts it again and resends the slot of seqnum.
timerinterrupt(e, seqnum) ==
    /\ timers' = [timers EXCEPT ![e] = starttimer(@ \ {seqnum}, seqnum)]
    /\ \E queue \in tolayer3(inflight[Other(e)], window[e][seqnum % N]) :
          inflight' = [inflight EXCEPT ![Other(e)] = queue]
    /\ UNCHANGED <<senderVars, receiverVars, accepted>>

A_timerinterrupt(seqnum) == timerinterrupt("A", seqnum)
B_timerinterrupt(seqnum) == timerinterrupt("B", seqnum)

-----------------------------------------------------------------------------
\* The events of main. The loop breaks at the first event it takes once
\* nsim = nsimmax, before handling it.

Running == nsim < NSIMMAX

FROM_LAYER5 ==
    /\ Running
    /\ nsim' = nsim + 1
    /\ arrival' \in generate_next_arrival
    /\ \/ arrival = "A" /\ A_output(Letters(nsim))
       \/ arrival = "B" /\ B_output(Letters(nsim))

FROM_LAYER3 ==
    /\ Running
    /\ \/ inflight["A"] # <<>> /\ A_input(Head(inflight["A"]))
       \/ inflight["B"] # <<>> /\ B_input(Head(inflight["B"]))
    /\ UNCHANGED <<nsim, arrival>>

TIMER_INTERRUPT ==
    /\ Running
    /\ \/ \E s \in timers["A"] : A_timerinterrupt(s)
       \/ \E s \in timers["B"] : B_timerinterrupt(s)
    /\ UNCHANGED <<nsim, arrival>>

Next == FROM_LAYER5 \/ FROM_LAYER3 \/ TIMER_INTERRUPT

Spec == Init /\ [][Next]_vars

-----------------------------------------------------------------------------
(* Properties. *)

PayloadSet == {NUL} \cup {Letters(n) : n \in 0..NSIMMAX - 1}

\* Every variable keeps its type; counters stay within nsim.
TypeOK ==
    /\ nsim \in 0..NSIMMAX
    /\ arrival \in Entity
    /\ base \in [Entity -> Nat]
    /\ nextseqnum \in [Entity -> Nat]
    /\ window \in [Entity -> [Slot -> Pkt]]
    /\ acked \in [Entity -> [Slot -> BOOLEAN]]
    /\ expectedseqnum \in [Entity -> Nat]
    /\ buffer \in [Entity -> [Slot -> Pkt]]
    /\ received \in [Entity -> [Slot -> BOOLEAN]]
    /\ timers \in [Entity -> SUBSET Nat]
    /\ inflight \in [Entity -> Seq(Pkt)]
    /\ accepted \in [Entity -> Seq(PayloadSet)]
    /\ layer5 \in [Entity -> Seq(Int)]

Outstanding(e) == {s \in base[e]..nextseqnum[e] - 1 : ~acked[e][s % N]}

\* A retransmission timer runs exactly for the packets sent and not yet
\* acknowledged: no timer outlives its slot (it would resend whatever packet
\* has reused the slot) and no packet is left without one.
TimersMatchOutstanding == \A e \in Entity : timers[e] = Outstanding(e)

Holds(e, s) ==
    \/ s < expectedseqnum[e]
    \/ s < expectedseqnum[e] + N /\ received[e][s % N]

\* The sender gives up a packet only when the receiver has it: every sequence
\* number below base, or acknowledged inside the window, is delivered or
\* buffered at the other side (WindowsAligned says under which number).
AckedIsHeld ==
    \A e \in Entity : \A s \in 0..nextseqnum[e] - 1 :
        s \notin Outstanding(e) => Holds(Other(e), s)

\* Layer 5 has been handed the accepted messages of the other side, in order,
\* unchanged, without gap or repetition, up to the expected number.
DeliveredInOrder ==
    \A e \in Entity :
        /\ expectedseqnum[e] <= Len(accepted[Other(e)])
        /\ layer5[e] = SubSeq(accepted[Other(e)], 1, expectedseqnum[e])

\* The two windows never drift apart by more than N, so slots reused modulo N
\* are never ambiguous: no intact packet is beyond the receive window, and a
\* slot of buffer that is taken holds the packet of its own number.
WindowsAligned ==
    \A e \in Entity :
        /\ base[Other(e)] <= expectedseqnum[e]
        /\ expectedseqnum[e] <= nextseqnum[Other(e)]
        /\ \A p \in Packets(inflight[e]) : Intact(p) => p.seqnum < expectedseqnum[e] + N
        /\ \A s \in expectedseqnum[e]..expectedseqnum[e] + N - 1 :
              received[e][s % N] => buffer[e][s % N].seqnum = s

\* No step overwrites the stored copy of a packet that may yet have to be
\* sent again.
OutstandingKept ==
    [][\A e \in Entity : \A s \in Outstanding(e) :
          window'[e][s % N] = window[e][s % N]]_vars

-----------------------------------------------------------------------------
(* The inductive invariant behind these properties, for the stream from each *)
(* entity to the other.                                                      *)

\* The packet e sends for its message number s.
DataPacket(e, s) == Packet(s, 0, accepted[e][s + 1])

\* The windows: the sender's lies around the receiver's expected number.
CountersAligned ==
    \A e \in Entity :
        /\ nextseqnum[e] = Len(accepted[e]) /\ nextseqnum[e] <= nsim
        /\ base[e] <= nextseqnum[e] /\ nextseqnum[e] <= base[e] + N
        /\ base[e] <= expectedseqnum[Other(e)]
        /\ expectedseqnum[Other(e)] <= nextseqnum[e]

\* The window slots in use hold the packets as first sent.
CopiesKept ==
    \A e \in Entity : \A s \in base[e]..nextseqnum[e] - 1 :
        window[e][s % N] = DataPacket(e, s)

\* An intact packet travelling to e is one of the other side's messages or the
\* acknowledgement of one of e's that the other side holds.
Genuine(e, p) ==
    Intact(p) =>
        \/ \E s \in 0..nextseqnum[Other(e)] - 1 : p = DataPacket(Other(e), s)
        \/ \E s \in 0..nextseqnum[e] - 1 : p = Packet(-1, s, NUL) /\ Holds(Other(e), s)

TransitGenuine ==
    \A e \in Entity : \A p \in Packets(inflight[e]) : Genuine(e, p)

\* The receive slots in use hold the messages of their numbers, and the one
\* expected next is not among them.
BuffersGenuine ==
    \A e \in Entity :
        /\ ~received[e][expectedseqnum[e] % N]
        /\ \A s \in expectedseqnum[e]..expectedseqnum[e] + N - 1 :
              received[e][s % N] =>
                  s < nextseqnum[Other(e)] /\ buffer[e][s % N] = DataPacket(Other(e), s)

\* A slot marked acknowledged stands for a packet sent and held.
AcksTrue ==
    \A e \in Entity : \A s \in base[e]..base[e] + N - 1 :
        acked[e][s % N] => s < nextseqnum[e] /\ Holds(Other(e), s)

DeliveredSoFar ==
    \A e \in Entity :
        /\ Len(layer5[e]) = expectedseqnum[e]
        /\ \A k \in 1..expectedseqnum[e] : layer5[e][k] = accepted[Other(e)][k]

\* All of it; no step from a state where it holds leads to one where it does
\* not, which none of the properties above achieves alone.
IInv ==
    /\ TypeOK
    /\ CountersAligned
    /\ CopiesKept
    /\ TransitGenuine
    /\ BuffersGenuine
    /\ AcksTrue
    /\ TimersMatchOutstanding
    /\ DeliveredSoFar

-----------------------------------------------------------------------------
\* The program implements the abstract reliable transport.
RDT == INSTANCE ReliableDataTransfer WITH Payload <- PayloadSet
ImplementsRDT == RDT!Spec
=============================================================================
