----------------------- MODULE SelectiveRepeatProofs -----------------------
(***************************************************************************)
(* Selective Repeat delivers in order, for every window size, number of    *)
(* messages and capacity of the medium.                                    *)
(*                                                                         *)
(* The inductive invariant IInv says, for each of the two streams, what    *)
(* the two windows, the packets in transit and the retransmission timers   *)
(* have to do with each other. The proof has one lemma per handler.        *)
(***************************************************************************)
EXTENDS SelectiveRepeat, Layer3Proofs

-----------------------------------------------------------------------------
(* Slots: sequence numbers modulo N. *)

\* A natural number has a slot.
LEMMA SlotType == ASSUME NEW s \in Nat PROVE s % N \in Slot
  BY WindowAssumption DEF Slot

\* Two numbers less than N apart share a slot only if they are equal.
LEMMA SameSlot ==
  ASSUME NEW s \in Nat, NEW t \in Nat, s < t + N, t < s + N, s % N = t % N
  PROVE  s = t
  BY WindowAssumption, SameResidue

\* N numbers further on comes the same slot.
LEMMA NextRound == ASSUME NEW s \in Nat PROVE (s + N) % N = s % N
  BY WindowAssumption, ResidueRound

-----------------------------------------------------------------------------
(* Type correctness. *)

LEMMA PayloadInt == \A d \in PayloadSet : d \in Payloads /\ d \in Int
  BY NsimmaxAssumption, LettersPayload, ZChangesPayload DEF PayloadSet, Payloads

\* The step that takes an event off the list and runs its handler.
Step(e) ==
    \/ /\ arrival = e
       /\ nsim' = nsim + 1
       /\ arrival' \in generate_next_arrival
       /\ output(e, Letters(nsim))
    \/ /\ inflight[e] # <<>>
       /\ input(e, Head(inflight[e]))
       /\ UNCHANGED <<nsim, arrival>>
    \/ /\ \E s \in timers[e] : timerinterrupt(e, s)
       /\ UNCHANGED <<nsim, arrival>>

LEMMA NextIsStep == Next <=> nsim < NSIMMAX /\ \E e \in Entity : Step(e)
  BY DEF Next, Running, FROM_LAYER5, FROM_LAYER3, TIMER_INTERRUPT, Step, Entity,
         A_output, B_output, A_input, B_input, A_timerinterrupt, B_timerinterrupt

\* Sending from e puts a queue of packets in transit.
LEMMA SentType ==
  ASSUME inflight \in [Entity -> Seq(Pkt)], NEW e \in Entity, NEW p \in Pkt,
         NEW q \in tolayer3(inflight[Other(e)], p)
  PROVE  /\ q \in Seq(Pkt)
         /\ [inflight EXCEPT ![Other(e)] = q] \in [Entity -> Seq(Pkt)]
         /\ inflight[e] # <<>> =>
               [inflight EXCEPT ![e] = Tail(@), ![Other(e)] = q] \in [Entity -> Seq(Pkt)]
<1>1. Other(e) \in Entity
  BY OtherType
<1>2. q \in Seq(Pkt)
  BY <1>1, tolayer3Type
<1>3. inflight[e] # <<>> => Tail(inflight[e]) \in Seq(Pkt)
  OBVIOUS
<1>. QED
  BY <1>1, <1>2, <1>3

LEMMA AckedType ==
  ASSUME TypeOK, NEW e \in Entity, NEW s \in Int, inflight[e] # <<>>, ConsumeAndAck(e, s)
  PROVE  inflight' \in [Entity -> Seq(Pkt)]
<1>1. Packet(-1, s, NUL) \in Pkt
  BY PacketType DEF NUL
<1>2. PICK q \in tolayer3(inflight[Other(e)], Packet(-1, s, NUL)) :
        inflight' = [inflight EXCEPT ![e] = Tail(@), ![Other(e)] = q]
  BY DEF ConsumeAndAck
<1>3. [inflight EXCEPT ![e] = Tail(@), ![Other(e)] = q] \in [Entity -> Seq(Pkt)]
  BY <1>1, SentType DEF TypeOK
<1>. QED
  BY <1>2, <1>3

LEMMA SendType ==
  ASSUME TypeOK, NEW e \in Entity, NEW data \in PayloadSet, Send(e, data)
  PROVE  /\ nextseqnum' \in [Entity -> Nat]
         /\ window' \in [Entity -> [Slot -> Pkt]]
         /\ timers' \in [Entity -> SUBSET Nat]
         /\ inflight' \in [Entity -> Seq(Pkt)]
         /\ accepted' \in [Entity -> Seq(PayloadSet)]
<1>1. nextseqnum[e] \in Nat /\ nextseqnum[e] % N \in Slot
  BY SlotType DEF TypeOK
<1>2. data \in Int
  BY PayloadInt
<1>3. Packet(nextseqnum[e], 0, data) \in Pkt
  BY <1>1, <1>2, PacketType
<1>4. nextseqnum' \in [Entity -> Nat] /\ timers' \in [Entity -> SUBSET Nat]
  <2>1. nextseqnum \in [Entity -> Nat] /\ timers \in [Entity -> SUBSET Nat]
    BY DEF TypeOK
  <2>2. /\ timers' = [timers EXCEPT ![e] = @ \cup {nextseqnum[e]}]
        /\ nextseqnum' = [nextseqnum EXCEPT ![e] = @ + 1]
    BY DEF Send, starttimer
  <2>3. nextseqnum' \in [Entity -> Nat]
    BY <1>1, <2>1, <2>2
  <2>4. timers[e] \cup {nextseqnum[e]} \in SUBSET Nat
    BY <1>1, <2>1
  <2>. QED
    BY <2>1, <2>2, <2>3, <2>4
<1>5. window' \in [Entity -> [Slot -> Pkt]]
  BY <1>1, <1>3 DEF TypeOK, Send
<1>6. accepted' \in [Entity -> Seq(PayloadSet)]
  BY DEF TypeOK, Send
<1>7. inflight' \in [Entity -> Seq(Pkt)]
  <2>1. PICK q \in tolayer3(inflight[Other(e)], Packet(nextseqnum[e], 0, data)) :
          inflight' = [inflight EXCEPT ![Other(e)] = q]
    BY DEF Send
  <2>2. [inflight EXCEPT ![Other(e)] = q] \in [Entity -> Seq(Pkt)]
    BY <1>3, SentType DEF TypeOK
  <2>. QED
    BY <2>1, <2>2
<1>. QED
  BY <1>4, <1>5, <1>6, <1>7

LEMMA AckNewType ==
  ASSUME TypeOK, NEW e \in Entity, NEW p \in Pkt, inflight[e] # <<>>, AckNew(e, p)
  PROVE  /\ base' \in [Entity -> Nat]
         /\ acked' \in [Entity -> [Slot -> BOOLEAN]]
         /\ timers' \in [Entity -> SUBSET Nat]
         /\ inflight' \in [Entity -> Seq(Pkt)]
<1>. DEFINE flags == [acked[e] EXCEPT ![p.acknum % N] = TRUE]
<1>1. p.acknum \in Nat
  <2>1. base[e] \in Nat /\ p.acknum \in Int
    BY DEF TypeOK, Pkt
  <2>2. p.acknum >= base[e]
    BY DEF AckNew
  <2>. QED
    BY <2>1, <2>2
<1>2. p.acknum % N \in Slot
  BY <1>1, SlotType
<1>3. flags \in [Slot -> BOOLEAN]
  BY <1>2 DEF TypeOK
<1>. HIDE DEF flags
<1>4. PICK to \in base[e]..base[e] + N :
        /\ base' = [base EXCEPT ![e] = to]
        /\ acked' = [acked EXCEPT ![e] = Cleared(flags, base[e], to)]
  BY DEF AckNew, flags
<1>5. to \in Nat
  BY <1>4 DEF TypeOK
<1>6. Cleared(flags, base[e], to) \in [Slot -> BOOLEAN]
  BY <1>3 DEF Cleared
<1>7. inflight' \in [Entity -> Seq(Pkt)]
  BY DEF TypeOK, AckNew, Consume
<1>8. timers' \in [Entity -> SUBSET Nat]
  BY DEF TypeOK, AckNew, stoptimer
<1>. QED
  BY <1>4, <1>5, <1>6, <1>7, <1>8 DEF TypeOK

\* What the delivery loop hands to layer 5.
LEMMA RunType ==
  ASSUME NEW buf \in [Slot -> Pkt], NEW from \in Nat, NEW to \in from..from + N
  PROVE  /\ Run(buf, from, to) \in Seq(Int) /\ Len(Run(buf, from, to)) = to - from
         /\ \A k \in 1..to - from :
               Run(buf, from, to)[k] = buf[(from + k - 1) % N].payload
<1>1. to - from \in Nat
  BY WindowAssumption
<1>2. ASSUME NEW k \in 1..to - from PROVE buf[(from + k - 1) % N].payload \in Int
  <2>1. from + k - 1 \in Nat
    OBVIOUS
  <2>2. (from + k - 1) % N \in Slot
    BY <2>1, SlotType
  <2>. QED
    BY <2>2 DEF Pkt
<1>3. Run(buf, from, to) \in Seq(Int)
  BY <1>1, <1>2, IsASeq DEF Run
<1>. QED
  BY <1>1, <1>3 DEF Run

LEMMA DataInWindowType ==
  ASSUME TypeOK, NEW e \in Entity, NEW p \in Pkt, inflight[e] # <<>>, DataInWindow(e, p)
  PROVE  /\ expectedseqnum' \in [Entity -> Nat]
         /\ buffer' \in [Entity -> [Slot -> Pkt]]
         /\ received' \in [Entity -> [Slot -> BOOLEAN]]
         /\ inflight' \in [Entity -> Seq(Pkt)]
         /\ layer5' \in [Entity -> Seq(Int)]
<1>. DEFINE slot == p.seqnum % N
           from == expectedseqnum[e]
           buf == IF received[e][slot] THEN buffer[e] ELSE [buffer[e] EXCEPT ![slot] = p]
           flags == [received[e] EXCEPT ![slot] = TRUE]
<1>1. p.seqnum \in Nat
  BY DEF DataInWindow, Pkt
<1>2. slot \in Slot
  BY <1>1, SlotType
<1>3. flags \in [Slot -> BOOLEAN] /\ buf \in [Slot -> Pkt]
  BY <1>2 DEF TypeOK
<1>4. from \in Nat
  BY DEF TypeOK
<1>5. buffer' = [buffer EXCEPT ![e] = buf] /\ ConsumeAndAck(e, p.seqnum)
  BY DEF DataInWindow
<1>6. PICK to \in from..from + N :
        /\ layer5' = [layer5 EXCEPT ![e] = @ \o Run(buf, from, to)]
        /\ received' = [received EXCEPT ![e] = Cleared(flags, from, to)]
        /\ expectedseqnum' = [expectedseqnum EXCEPT ![e] = to]
  BY DEF DataInWindow
<1>. HIDE DEF slot, buf, flags, from
<1>7. Cleared(flags, from, to) \in [Slot -> BOOLEAN]
  BY <1>3 DEF Cleared
<1>8. to - from \in Nat /\ to \in Nat
  BY <1>4, <1>6, WindowAssumption
<1>9. Run(buf, from, to) \in Seq(Int)
  BY <1>3, <1>4, RunType
<1>10. layer5' \in [Entity -> Seq(Int)]
  BY <1>6, <1>9, ConcatProperties DEF TypeOK
<1>11. inflight' \in [Entity -> Seq(Pkt)]
  BY <1>1, <1>5, AckedType
<1>. QED
  BY <1>3, <1>5, <1>6, <1>7, <1>8, <1>10, <1>11 DEF TypeOK

LEMMA TimerType ==
  ASSUME TypeOK, NEW e \in Entity, NEW s \in timers[e], timerinterrupt(e, s)
  PROVE  /\ timers' \in [Entity -> SUBSET Nat]
         /\ inflight' \in [Entity -> Seq(Pkt)]
<1>1. s \in Nat
  BY DEF TypeOK
<1>2. s % N \in Slot
  BY <1>1, SlotType
<1>3. window[e][s % N] \in Pkt
  BY <1>2 DEF TypeOK
<1>4. PICK q \in tolayer3(inflight[Other(e)], window[e][s % N]) :
        inflight' = [inflight EXCEPT ![Other(e)] = q]
  BY DEF timerinterrupt
<1>5. [inflight EXCEPT ![Other(e)] = q] \in [Entity -> Seq(Pkt)]
  BY <1>3, SentType DEF TypeOK
<1>6. timers' \in [Entity -> SUBSET Nat]
  BY <1>1 DEF TypeOK, timerinterrupt, starttimer
<1>. QED
  BY <1>4, <1>5, <1>6

\* The type invariant is inductive by itself.
LEMMA TypeStep ==
  ASSUME TypeOK, nsim < NSIMMAX, NEW e \in Entity, Step(e)
  PROVE  TypeOK'
<1>1. CASE /\ arrival = e
           /\ nsim' = nsim + 1
           /\ arrival' \in generate_next_arrival
           /\ output(e, Letters(nsim))
  <2>1. nsim' \in 0..NSIMMAX /\ arrival' \in Entity
    BY <1>1, NsimmaxAssumption DEF TypeOK, generate_next_arrival, Entity
  <2>2. Letters(nsim) \in PayloadSet
    BY NsimmaxAssumption DEF TypeOK, PayloadSet
  <2>3. CASE Send(e, Letters(nsim))
    <3>1. UNCHANGED <<base, acked, receiverVars>>
      BY <2>3 DEF Send
    <3>. QED
      BY <2>1, <2>2, <2>3, <3>1, SendType DEF TypeOK, receiverVars
  <2>4. CASE Refuse(e)
    BY <2>1, <2>4 DEF Refuse, TypeOK, senderVars, receiverVars
  <2>. QED
    BY <1>1, <2>3, <2>4 DEF output
<1>2. CASE /\ inflight[e] # <<>>
           /\ input(e, Head(inflight[e]))
           /\ UNCHANGED <<nsim, arrival>>
  <2>. DEFINE p == Head(inflight[e])
  <2>1. p \in Pkt
    BY <1>2 DEF TypeOK
  <2>2. p.seqnum \in Int
    BY <2>1 DEF Pkt
  <2>3. Consume(e) => inflight' \in [Entity -> Seq(Pkt)]
    BY <1>2 DEF Consume, TypeOK
  <2>. HIDE DEF p
  <2>4. CASE Ignore(e, p) \/ AckOld(e, p)
    BY <1>2, <2>3, <2>4 DEF Ignore, AckOld, TypeOK, senderVars, receiverVars
  <2>5. CASE AckNew(e, p)
    <3>1. UNCHANGED <<nextseqnum, window, receiverVars, accepted>>
      BY <2>5 DEF AckNew
    <3>. QED
      BY <1>2, <2>1, <2>5, <3>1, AckNewType DEF TypeOK, receiverVars
  <2>6. CASE DataInWindow(e, p)
    <3>1. UNCHANGED <<senderVars, timers, accepted>>
      BY <2>6 DEF DataInWindow
    <3>. QED
      BY <1>2, <2>1, <2>6, <3>1, DataInWindowType DEF TypeOK, senderVars
  <2>7. CASE DataDuplicate(e, p)
    <3>1. inflight' \in [Entity -> Seq(Pkt)]
      BY <1>2, <2>2, <2>7, AckedType DEF DataDuplicate
    <3>. QED
      BY <1>2, <2>7, <3>1 DEF DataDuplicate, TypeOK, senderVars, receiverVars
  <2>. QED
    BY <1>2, <2>4, <2>5, <2>6, <2>7 DEF input, p
<1>3. CASE /\ \E s \in timers[e] : timerinterrupt(e, s)
           /\ UNCHANGED <<nsim, arrival>>
  <2>1. PICK s \in timers[e] : timerinterrupt(e, s)
    BY <1>3
  <2>2. UNCHANGED <<senderVars, receiverVars, accepted>>
    BY <2>1 DEF timerinterrupt
  <2>. QED
    BY <1>3, <2>1, <2>2, TimerType DEF TypeOK, senderVars, receiverVars
<1>. QED
  BY <1>1, <1>2, <1>3 DEF Step

LEMMA TypeInit == Init => TypeOK
<1>. SUFFICES ASSUME Init PROVE TypeOK
  OBVIOUS
<1>1. Packet(0, 0, NUL) \in Pkt
  BY PacketType DEF NUL
<1>2. nsim \in 0..NSIMMAX /\ arrival \in Entity
  BY NsimmaxAssumption DEF Init, generate_next_arrival, Entity
<1>. QED
  BY <1>1, <1>2 DEF Init, TypeOK

\* Every variable keeps its type in every behaviour of the program.
THEOREM TypeCorrect == Spec => []TypeOK
<1>1. TypeOK /\ [Next]_vars => TypeOK'
  <2>1. CASE Next
    BY <2>1, NextIsStep, TypeStep
  <2>2. CASE UNCHANGED vars
    BY <2>2 DEF TypeOK, vars, senderVars, receiverVars
  <2>. QED
    BY <2>1, <2>2
<1>. QED
  BY <1>1, TypeInit, PTL DEF Spec

-----------------------------------------------------------------------------
(* The pieces of the invariant. *)

LEMMA DataWellFormed ==
  ASSUME TypeOK, CountersAligned, NEW e \in Entity, NEW s \in 0..nextseqnum[e] - 1
  PROVE  WellFormed(DataPacket(e, s))
<1>1. s + 1 \in 1..Len(accepted[e]) /\ s < Garbage /\ s \in Int
  BY NsimmaxAssumption, GarbageType DEF TypeOK, CountersAligned
<1>2. accepted[e][s + 1] \in PayloadSet
  BY SMTT(20), <1>1 DEF TypeOK
<1>. QED
  BY <1>1, <1>2, PayloadInt, PacketWellFormed, GarbageType DEF DataPacket

LEMMA AckWellFormed ==
  ASSUME NEW s \in Nat, s < Garbage
  PROVE  WellFormed(Packet(-1, s, NUL))
<1>1. NUL \in Payloads /\ -1 # Garbage /\ s # Garbage
  BY GarbageType DEF Payloads
<1>. QED
  BY <1>1, PacketWellFormed

LEMMA Counters ==
  ASSUME TypeOK, NEW e \in Entity
  PROVE  /\ base[e] \in Nat /\ nextseqnum[e] \in Nat /\ expectedseqnum[e] \in Nat
         /\ Other(e) \in Entity /\ base[Other(e)] \in Nat
         /\ nextseqnum[Other(e)] \in Nat /\ expectedseqnum[Other(e)] \in Nat
  BY OtherType DEF TypeOK

LEMMA CountersNext ==
  ASSUME TypeOK', NEW e \in Entity
  PROVE  /\ base'[e] \in Nat /\ nextseqnum'[e] \in Nat /\ expectedseqnum'[e] \in Nat
         /\ Other(e) \in Entity /\ base'[Other(e)] \in Nat
         /\ nextseqnum'[Other(e)] \in Nat /\ expectedseqnum'[Other(e)] \in Nat
  BY OtherType DEF TypeOK

\* What a step may not take back: messages stay accepted under their numbers,
\* and what a receiver holds it keeps holding.
Grows ==
    \A e \in Entity :
        /\ nextseqnum[e] <= nextseqnum'[e]
        /\ \A s \in 0..nextseqnum[e] - 1 : accepted'[e][s + 1] = accepted[e][s + 1]
        /\ \A s \in 0..nextseqnum[e] - 1 : Holds(Other(e), s) => Holds(Other(e), s)'

\* Then genuine packets stay genuine.
LEMMA GenuineStable ==
  ASSUME TypeOK, TypeOK', Grows, NEW e \in Entity, NEW p, Genuine(e, p)
  PROVE  Genuine(e, p)'
<1>. SUFFICES ASSUME Intact(p) PROVE Genuine(e, p)'
  BY DEF Genuine, Intact, compute_checksum
<1>1. Other(e) \in Entity
  BY OtherType
<1>2. CASE \E s \in 0..nextseqnum[Other(e)] - 1 : p = DataPacket(Other(e), s)
  <2>1. PICK s \in 0..nextseqnum[Other(e)] - 1 : p = DataPacket(Other(e), s)
    BY <1>2
  <2>2. s \in 0..nextseqnum'[Other(e)] - 1
    BY <1>1, <2>1, Counters, CountersNext DEF Grows
  <2>3. DataPacket(Other(e), s)' = DataPacket(Other(e), s)
    BY <1>1, <2>1 DEF Grows, DataPacket
  <2>. QED
    BY <2>1, <2>2, <2>3 DEF Genuine
<1>3. CASE \E s \in 0..nextseqnum[e] - 1 : p = Packet(-1, s, NUL) /\ Holds(Other(e), s)
  <2>1. PICK s \in 0..nextseqnum[e] - 1 : p = Packet(-1, s, NUL) /\ Holds(Other(e), s)
    BY <1>3
  <2>2. s \in 0..nextseqnum'[e] - 1 /\ Holds(Other(e), s)'
    BY <2>1, Counters, CountersNext DEF Grows
  <2>. QED
    BY <2>1, <2>2 DEF Genuine
<1>. QED
  BY <1>2, <1>3 DEF Genuine

\* A step leaves only genuine packets in transit if the packets it adds are.
LEMMA TransitStable ==
  ASSUME TypeOK, TypeOK', Grows, TransitGenuine,
         \A e \in Entity : \A x \in Packets(inflight'[e]) :
             x \in Packets(inflight[e]) \/ ~Intact(x) \/ Genuine(e, x)'
  PROVE  TransitGenuine'
<1>. SUFFICES ASSUME NEW e \in Entity, NEW x \in Packets(inflight'[e])
              PROVE  Genuine(e, x)'
  BY DEF TransitGenuine, Packets
<1>1. CASE x \in Packets(inflight[e])
  <2>1. Genuine(e, x)
    BY <1>1 DEF TransitGenuine
  <2>. QED
    BY <2>1, GenuineStable
<1>2. CASE ~Intact(x)
  BY <1>2 DEF Genuine, Intact, compute_checksum
<1>. QED
  BY <1>1, <1>2

\* Sending p from e, and perhaps taking a packet, adds p and damaged packets.
LEMMA SentPackets ==
  ASSUME TypeOK, NEW e \in Entity, NEW p, WellFormed(p), Genuine(Other(e), p)',
         NEW q \in tolayer3(inflight[Other(e)], p),
         \/ inflight' = [inflight EXCEPT ![Other(e)] = q]
         \/ /\ inflight[e] # <<>>
            /\ inflight' = [inflight EXCEPT ![e] = Tail(@), ![Other(e)] = q]
  PROVE  \A f \in Entity : \A x \in Packets(inflight'[f]) :
             x \in Packets(inflight[f]) \/ ~Intact(x) \/ Genuine(f, x)'
<1>. TAKE f \in Entity
<1>. TAKE x \in Packets(inflight'[f])
<1>1. inflight[e] \in Seq(Pkt) /\ inflight[Other(e)] \in Seq(Pkt)
  BY OtherType DEF TypeOK
<1>2. CASE f = Other(e)
  <2>1. inflight'[f] = q
    BY <1>2, OtherType DEF TypeOK
  <2>. QED
    BY <1>1, <1>2, <2>1, tolayer3Packets
<1>3. CASE f = e
  <2>1. inflight'[f] = inflight[f] \/ (inflight[f] # <<>> /\ inflight'[f] = Tail(inflight[f]))
    BY <1>3, OtherType DEF TypeOK
  <2>. QED
    BY <1>1, <1>3, <2>1, TailPackets
<1>4. f = e \/ f = Other(e)
  BY DEF Entity, Other
<1>. QED
  BY <1>2, <1>3, <1>4

LEMMA HeadPacket ==
  ASSUME NEW q \in Seq(Pkt), q # <<>>
  PROVE  Head(q) \in Packets(q) /\ Head(q) \in Pkt
<1>1. 1 \in 1..Len(q) /\ Head(q) = q[1]
  OBVIOUS
<1>. QED
  BY <1>1 DEF Packets

\* Taking a packet from the head of a queue adds none.
LEMMA ConsumedPackets ==
  ASSUME TypeOK, NEW e \in Entity, inflight[e] # <<>>, Consume(e)
  PROVE  \A f \in Entity : \A x \in Packets(inflight'[f]) : x \in Packets(inflight[f])
<1>. TAKE f \in Entity
<1>1. inflight'[f] = inflight[f] \/ (inflight[f] # <<>> /\ inflight'[f] = Tail(inflight[f]))
  BY DEF TypeOK, Consume
<1>. QED
  BY <1>1, TailPackets DEF TypeOK

\* The invariant survives a step that only moves packets.
LEMMA OnlyPackets ==
  ASSUME IInv, TypeOK', nsim <= nsim',
         UNCHANGED <<senderVars, receiverVars, timers, accepted>>,
         \A e \in Entity : \A x \in Packets(inflight'[e]) :
             x \in Packets(inflight[e]) \/ ~Intact(x) \/ Genuine(e, x)'
  PROVE  IInv'
<1>. USE DEF senderVars, receiverVars
<1>1. Grows
  <2>1. ASSUME NEW e \in Entity, NEW s PROVE Holds(e, s) => Holds(e, s)'
    BY DEF Holds
  <2>2. \A e \in Entity : nextseqnum[e] <= nextseqnum'[e]
    BY Counters DEF IInv
  <2>. QED
    BY <2>1, <2>2, OtherType DEF Grows
<1>2. TransitGenuine'
  BY <1>1, TransitStable DEF IInv
<1>3. CountersAligned'
  <2>. SUFFICES ASSUME NEW e \in Entity
                PROVE  nextseqnum[e] <= nsim'
    BY DEF IInv, CountersAligned
  <2>1. nsim \in Int /\ nsim' \in Int /\ nextseqnum[e] \in Int
    BY DEF IInv, TypeOK
  <2>. QED
    BY <2>1 DEF IInv, CountersAligned
<1>4. CopiesKept'
  BY DEF IInv, CopiesKept, DataPacket
<1>5. BuffersGenuine'
  BY DEF IInv, BuffersGenuine, DataPacket
<1>6. AcksTrue'
  BY DEF IInv, AcksTrue, Holds
<1>7. TimersMatchOutstanding'
  BY DEF IInv, TimersMatchOutstanding, Outstanding
<1>8. DeliveredSoFar'
  BY DEF IInv, DeliveredSoFar
<1>. QED
  BY <1>2, <1>3, <1>4, <1>5, <1>6, <1>7, <1>8 DEF IInv

-----------------------------------------------------------------------------
(* The handlers that change the protocol state. *)

\* A_output, B_output: the slot taken is not in use, the packet is genuine.
LEMMA SendStep ==
  ASSUME IInv, TypeOK', nsim' = nsim + 1, nsim < NSIMMAX,
         NEW e \in Entity, NEW data \in PayloadSet, Send(e, data)
  PROVE  IInv'
<1>1. /\ TypeOK /\ CountersAligned /\ CopiesKept /\ TransitGenuine /\ BuffersGenuine
      /\ AcksTrue /\ TimersMatchOutstanding /\ DeliveredSoFar
  BY DEF IInv
<1>2. \A f \in Entity :
        /\ base[f] \in Nat /\ nextseqnum[f] \in Nat /\ expectedseqnum[f] \in Nat
        /\ nextseqnum'[f] \in Nat /\ Other(f) \in Entity
  BY <1>1, Counters, CountersNext
<1>3. nsim \in Nat /\ N \in Nat \ {0}
  BY <1>1, WindowAssumption DEF TypeOK
<1>4. PICK n \in Nat : n = nextseqnum[e]
  BY <1>2
<1>. DEFINE pkt == Packet(n, 0, data)
<1>5. n < base[e] + N
  BY <1>4 DEF Send, WindowOpen
<1>6. base[e] <= n /\ n = Len(accepted[e]) /\ n <= nsim
  BY <1>1, <1>4 DEF CountersAligned
<1>7. /\ window' = [window EXCEPT ![e][n % N] = pkt]
      /\ timers' = [timers EXCEPT ![e] = @ \cup {n}]
      /\ nextseqnum' = [nextseqnum EXCEPT ![e] = n + 1]
      /\ accepted' = [accepted EXCEPT ![e] = Append(@, data)]
  BY <1>4 DEF Send, starttimer
<1>8. UNCHANGED <<base, acked, expectedseqnum, buffer, received, layer5>>
  BY DEF Send, receiverVars
<1>9. \A f \in Entity : f # e =>
        /\ nextseqnum'[f] = nextseqnum[f] /\ accepted'[f] = accepted[f]
        /\ window'[f] = window[f] /\ timers'[f] = timers[f]
  BY <1>1, <1>7 DEF TypeOK
<1>10. nextseqnum'[e] = n + 1 /\ timers'[e] = timers[e] \cup {n}
  BY <1>1, <1>7 DEF TypeOK
<1>11. /\ accepted'[e] = Append(accepted[e], data)
       /\ accepted[e] \in Seq(PayloadSet)
  BY <1>1, <1>7 DEF TypeOK
<1>12. /\ Len(accepted'[e]) = n + 1 /\ accepted'[e][n + 1] = data
       /\ \A s \in 0..n - 1 : accepted'[e][s + 1] = accepted[e][s + 1]
  BY <1>6, <1>11, AppendProperties
<1>13. \A f \in Entity : nextseqnum[f] <= nextseqnum'[f]
  BY <1>2, <1>4, <1>9, <1>10
<1>14. \A f \in Entity : \A s \in 0..nextseqnum[f] - 1 : accepted'[f][s + 1] = accepted[f][s + 1]
  BY <1>4, <1>9, <1>12
<1>15. \A f \in Entity : \A s \in 0..nextseqnum[f] - 1 : DataPacket(f, s)' = DataPacket(f, s)
  BY <1>14 DEF DataPacket
<1>16. \A f \in Entity : \A s : Holds(f, s)' = Holds(f, s)
  BY <1>8 DEF Holds
<1>17. Grows
  BY <1>2, <1>13, <1>14, <1>16 DEF Grows
<1>18. pkt = DataPacket(e, n)'
  BY <1>12 DEF DataPacket
<1>. HIDE DEF pkt
<1>19. TransitGenuine'
  <2>1. PICK q \in tolayer3(inflight[Other(e)], pkt) :
          inflight' = [inflight EXCEPT ![Other(e)] = q]
    BY <1>4 DEF Send, pkt
  <2>2. WellFormed(pkt)
    <3>1. n # Garbage /\ 0 # Garbage
      BY <1>3, <1>6, NsimmaxAssumption, GarbageType
    <3>. QED
      BY <3>1, PayloadInt, PacketWellFormed DEF pkt
  <2>3. Genuine(Other(e), pkt)'
    <3>1. n \in 0..nextseqnum'[e] - 1
      BY <1>10
    <3>2. \E s \in 0..nextseqnum'[Other(Other(e))] - 1 : pkt = DataPacket(Other(Other(e)), s)'
      BY <1>18, <3>1, OtherType
    <3>. QED
      BY <3>2 DEF Genuine, pkt
  <2>4. \A f \in Entity : \A x \in Packets(inflight'[f]) :
          x \in Packets(inflight[f]) \/ ~Intact(x) \/ Genuine(f, x)'
    BY <1>1, <2>1, <2>2, <2>3, SentPackets DEF pkt
  <2>. QED
    BY <1>1, <1>17, <2>4, TransitStable
<1>20. CountersAligned'
  <2>. SUFFICES ASSUME NEW f \in Entity
                PROVE  /\ nextseqnum'[f] = Len(accepted'[f]) /\ nextseqnum'[f] <= nsim'
                       /\ base[f] <= nextseqnum'[f] /\ nextseqnum'[f] <= base[f] + N
                       /\ base[f] <= expectedseqnum[Other(f)]
                       /\ expectedseqnum[Other(f)] <= nextseqnum'[f]
    BY <1>8 DEF CountersAligned
  <2>1. /\ nextseqnum[f] = Len(accepted[f]) /\ nextseqnum[f] <= nsim
        /\ base[f] <= nextseqnum[f] /\ nextseqnum[f] <= base[f] + N
        /\ base[f] <= expectedseqnum[Other(f)]
        /\ expectedseqnum[Other(f)] <= nextseqnum[f]
    BY <1>1 DEF CountersAligned
  <2>2. CASE f = e
    BY SMTT(20), <1>2, <1>3, <1>4, <1>5, <1>10, <1>12, <2>1, <2>2
  <2>3. CASE f # e
    BY <1>2, <1>3, <1>9, <2>1, <2>3
  <2>. QED
    BY <2>2, <2>3
<1>21. CopiesKept'
  <2>. SUFFICES ASSUME NEW f \in Entity, NEW s \in base[f]..nextseqnum'[f] - 1
                PROVE  window'[f][s % N] = DataPacket(f, s)'
    BY <1>8 DEF CopiesKept
  <2>1. s \in Nat /\ s % N \in Slot
    <3>1. s \in Nat
      BY <1>2
    <3>. QED
      BY <3>1, SlotType
  <2>2. CASE f = e /\ s = n
    <3>1. window'[e][n % N] = pkt
      BY <1>1, <1>7, <2>1, <2>2 DEF TypeOK
    <3>. QED
      BY <1>18, <2>2, <3>1
  <2>3. CASE f = e /\ s # n
    <3>1. s \in base[e]..n - 1 /\ s \in 0..n - 1
      BY <1>2, <1>10, <2>1, <2>3
    <3>2. s % N # n % N
      BY <1>2, <1>3, <1>5, <2>1, <3>1, SameSlot
    <3>3. window'[e][s % N] = window[e][s % N]
      BY <1>1, <1>7, <2>1, <3>2 DEF TypeOK
    <3>. QED
      BY <1>1, <1>4, <1>15, <2>3, <3>1, <3>3 DEF CopiesKept
  <2>4. CASE f # e
    <3>1. s \in base[f]..nextseqnum[f] - 1 /\ s \in 0..nextseqnum[f] - 1
      BY <1>2, <1>9, <2>1, <2>4
    <3>. QED
      BY <1>1, <1>9, <1>15, <2>4, <3>1 DEF CopiesKept
  <2>. QED
    BY <2>2, <2>3, <2>4
<1>22. BuffersGenuine'
  <2>. SUFFICES ASSUME NEW f \in Entity,
                       NEW s \in expectedseqnum[f]..expectedseqnum[f] + N - 1,
                       received[f][s % N]
                PROVE  s < nextseqnum'[Other(f)] /\ buffer[f][s % N] = DataPacket(Other(f), s)'
    BY <1>1, <1>8 DEF BuffersGenuine
  <2>1. s < nextseqnum[Other(f)] /\ buffer[f][s % N] = DataPacket(Other(f), s)
    BY <1>1 DEF BuffersGenuine
  <2>2. Other(f) \in Entity /\ s \in 0..nextseqnum[Other(f)] - 1
    BY <1>2, <2>1
  <2>3. s < nextseqnum'[Other(f)]
    BY <1>2, <1>13, <2>2
  <2>. QED
    BY <1>15, <2>1, <2>2, <2>3
<1>23. AcksTrue'
  <2>. SUFFICES ASSUME NEW f \in Entity, NEW s \in base[f]..base[f] + N - 1, acked[f][s % N]
                PROVE  s < nextseqnum'[f] /\ Holds(Other(f), s)'
    BY <1>8 DEF AcksTrue
  <2>1. s < nextseqnum[f] /\ Holds(Other(f), s)
    BY <1>1 DEF AcksTrue
  <2>2. s < nextseqnum'[f]
    BY <1>2, <1>13, <2>1
  <2>. QED
    BY <1>2, <1>16, <2>1, <2>2
<1>24. TimersMatchOutstanding'
  <2>. SUFFICES ASSUME NEW f \in Entity
                PROVE  timers'[f] = {s \in base[f]..nextseqnum'[f] - 1 : ~acked[f][s % N]}
    BY <1>8 DEF TimersMatchOutstanding, Outstanding
  <2>1. timers[f] = {s \in base[f]..nextseqnum[f] - 1 : ~acked[f][s % N]}
    BY <1>1 DEF TimersMatchOutstanding, Outstanding
  <2>2. CASE f = e
    <3>1. n \in base[e]..base[e] + N - 1
      BY <1>2, <1>3, <1>5, <1>6
    <3>2. ~acked[e][n % N]
      BY <1>1, <1>4, <3>1 DEF AcksTrue
    <3>3. \A s : s \in base[e]..(n + 1) - 1 <=> s \in base[e]..n - 1 \/ s = n
      BY <1>2, <1>6
    <3>4. timers'[e] = {s \in base[e]..n - 1 : ~acked[e][s % N]} \cup {n}
      BY <1>4, <1>10, <2>1, <2>2
    <3>5. timers'[e] = {s \in base[e]..(n + 1) - 1 : ~acked[e][s % N]}
      BY <3>2, <3>3, <3>4
    <3>. QED
      BY <1>10, <2>2, <3>5
  <2>3. CASE f # e
    BY <1>9, <2>1, <2>3
  <2>. QED
    BY <2>2, <2>3
<1>25. DeliveredSoFar'
  <2>. SUFFICES ASSUME NEW f \in Entity, NEW k \in 1..expectedseqnum[f]
                PROVE  accepted'[Other(f)][k] = accepted[Other(f)][k]
    BY <1>1, <1>8 DEF DeliveredSoFar
  <2>1. expectedseqnum[f] <= nextseqnum[Other(f)]
    BY <1>1, OtherType DEF CountersAligned
  <2>2. k - 1 \in 0..nextseqnum[Other(f)] - 1 /\ (k - 1) + 1 = k
    BY <1>2, <2>1
  <2>. QED
    BY <1>2, <1>14, <2>2
<1>. QED
  BY <1>19, <1>20, <1>21, <1>22, <1>23, <1>24, <1>25 DEF IInv

\* After a window has moved from from to to, a slot of the new window is marked
\* if it was marked and already belonged to the old window.
LEMMA ClearedSlot ==
  ASSUME NEW flags \in [Slot -> BOOLEAN], NEW from \in Nat, NEW to \in from..from + N,
         NEW s \in to..to + N - 1
  PROVE  Cleared(flags, from, to)[s % N] <=> s < from + N /\ flags[s % N]
<1>1. s \in Nat /\ to \in Nat /\ N \in Nat \ {0}
  BY WindowAssumption
<1>2. s % N \in Slot
  BY <1>1, SlotType
<1>3. Cleared(flags, from, to)[s % N]
        <=> flags[s % N] /\ \A t \in from..to - 1 : t % N # s % N
  BY <1>2 DEF Cleared
<1>4. CASE s < from + N
  <2>1. ASSUME NEW t \in from..to - 1 PROVE t % N # s % N
    <3>1. t \in Nat /\ t # s /\ s < t + N /\ t < s + N
      BY <1>1, <1>4
    <3>2. s % N = t % N => s = t
      BY <1>1, <3>1, SameSlot, Zenon
    <3>. QED
      BY <3>1, <3>2, Zenon
  <2>. QED
    BY <1>3, <1>4, <2>1
<1>5. CASE ~(s < from + N)
  <2>1. s - N \in from..to - 1 /\ s - N \in Nat /\ (s - N) + N = s
    BY <1>1, <1>5
  <2>2. (s - N) % N = s % N
    BY <2>1, NextRound
  <2>. QED
    BY <1>3, <1>5, <2>1, <2>2
<1>. QED
  BY <1>4, <1>5

\* A_input, B_input on a new acknowledgement: the window slides over packets
\* that the other side holds, all but past the one it expects next.
LEMMA AckNewStep ==
  ASSUME IInv, TypeOK', nsim' = nsim,
         NEW e \in Entity, inflight[e] # <<>>, NEW p, p = Head(inflight[e]), AckNew(e, p)
  PROVE  IInv'
<1>1. /\ TypeOK /\ CountersAligned /\ CopiesKept /\ TransitGenuine /\ BuffersGenuine
      /\ AcksTrue /\ TimersMatchOutstanding /\ DeliveredSoFar
  BY DEF IInv
<1>2. \A f \in Entity :
        /\ base[f] \in Nat /\ nextseqnum[f] \in Nat /\ expectedseqnum[f] \in Nat
        /\ Other(f) \in Entity
  BY <1>1, Counters
<1>3. nsim \in Nat /\ N \in Nat \ {0}
  BY <1>1, WindowAssumption DEF TypeOK
<1>4. PICK n \in Nat : n = nextseqnum[e]
  BY <1>2
<1>5. PICK b \in Nat : b = base[e]
  BY <1>2
<1>6. PICK a \in 0..n - 1 : p = Packet(-1, a, NUL) /\ Holds(Other(e), a)
  <2>1. Genuine(e, p) /\ Intact(p) /\ p.seqnum < 0
    <3>1. inflight[e] \in Seq(Pkt)
      BY <1>1 DEF TypeOK
    <3>2. p \in Packets(inflight[e])
      BY <3>1, HeadPacket
    <3>. QED
      BY <1>1, <3>2 DEF TransitGenuine, AckNew
  <2>2. ASSUME NEW s \in 0..nextseqnum[Other(e)] - 1, p = DataPacket(Other(e), s) PROVE FALSE
    BY <1>2, <2>1, <2>2 DEF DataPacket, Packet
  <2>. QED
    BY <1>4, <2>1, <2>2 DEF Genuine
<1>. DEFINE flags == [acked[e] EXCEPT ![p.acknum % N] = TRUE]
<1>7. p.acknum = a
  BY <1>6 DEF Packet
<1>8. a \in b..n - 1 /\ ~acked[e][a % N] /\ timers' = [timers EXCEPT ![e] = @ \ {a}]
  <2>1. /\ p.acknum >= base[e] /\ ~acked[e][p.acknum % N]
        /\ timers' = [timers EXCEPT ![e] = @ \ {p.acknum}]
    BY DEF AckNew, stoptimer
  <2>. QED
    BY <1>4, <1>5, <1>6, <1>7, <2>1
<1>9. PICK to \in base[e]..base[e] + N :
        /\ Slides(flags, base[e], to)
        /\ base' = [base EXCEPT ![e] = to]
        /\ acked' = [acked EXCEPT ![e] = Cleared(flags, base[e], to)]
  BY DEF AckNew
<1>10. UNCHANGED <<nextseqnum, window, expectedseqnum, buffer, received, layer5, accepted>>
  BY DEF AckNew, receiverVars
<1>11. n <= b + N /\ n \in Int /\ b \in Int /\ a \in Nat /\ to \in b..b + N /\ to \in Int
  BY <1>1, <1>3, <1>4, <1>5 DEF CountersAligned
<1>12. a % N \in Slot /\ acked[e] \in [Slot -> BOOLEAN] /\ flags \in [Slot -> BOOLEAN]
  <2>1. a % N \in Slot
    BY <1>11, SlotType
  <2>2. acked[e] \in [Slot -> BOOLEAN]
    BY <1>1 DEF TypeOK
  <2>. QED
    BY <2>1, <2>2
<1>13. ASSUME NEW s \in b..b + N - 1
       PROVE  s % N \in Slot /\ flags[s % N] = (s = a \/ acked[e][s % N])
  <2>1. s \in Nat /\ s < a + N /\ a < s + N
    BY <1>3, <1>8, <1>11
  <2>2. s % N \in Slot
    BY <2>1, SlotType
  <2>3. s % N = a % N => s = a
    BY <1>11, <2>1, SameSlot, Zenon
  <2>. QED
    BY <1>7, <1>12, <2>2, <2>3
<1>. HIDE DEF flags
<1>14. ASSUME NEW s \in b..b + N - 1, flags[s % N]
       PROVE  s < n /\ Holds(Other(e), s)
  <2>1. CASE s = a
    BY <1>6, <2>1
  <2>2. CASE acked[e][s % N]
    BY <1>1, <1>4, <1>5, <2>2 DEF AcksTrue
  <2>. QED
    BY <1>13, <1>14, <2>1, <2>2
<1>15. \A s \in b..to - 1 : s \in b..b + N - 1 /\ flags[s % N]
  BY SMTT(20), <1>3, <1>5, <1>9, <1>11 DEF Slides
<1>16. to <= n
  <2>. SUFFICES ASSUME n < to PROVE FALSE
    BY <1>11
  <2>1. n \in b..to - 1
    BY <1>8, <1>11
  <2>. QED
    BY <1>11, <1>14, <1>15, <2>1
<1>17. to <= expectedseqnum[Other(e)]
  <2>. SUFFICES ASSUME expectedseqnum[Other(e)] < to PROVE FALSE
    BY <1>2, <1>11
  <2>. DEFINE x == expectedseqnum[Other(e)]
  <2>1. x \in b..to - 1 /\ x \in Int
    BY <1>1, <1>2, <1>5 DEF CountersAligned
  <2>2. Holds(Other(e), x)
    BY <1>14, <1>15, <2>1
  <2>3. ~received[Other(e)][x % N]
    BY <1>1, <1>2 DEF BuffersGenuine
  <2>. QED
    BY <2>1, <2>2, <2>3 DEF Holds
<1>18. /\ base'[e] = to /\ acked'[e] = Cleared(flags, b, to) /\ timers'[e] = timers[e] \ {a}
       /\ \A f \in Entity : f # e =>
            base'[f] = base[f] /\ acked'[f] = acked[f] /\ timers'[f] = timers[f]
  BY <1>1, <1>5, <1>8, <1>9 DEF TypeOK
<1>19. \A s \in to..to + N - 1 : acked'[e][s % N] <=> s < b + N /\ flags[s % N]
  BY <1>11, <1>12, <1>18, ClearedSlot
<1>20. \A f, s : Holds(f, s)' = Holds(f, s)
  BY <1>10 DEF Holds
<1>21. CountersAligned'
  <2>. SUFFICES ASSUME NEW f \in Entity
                PROVE  /\ nextseqnum[f] = Len(accepted[f]) /\ nextseqnum[f] <= nsim
                       /\ base'[f] <= nextseqnum[f] /\ nextseqnum[f] <= base'[f] + N
                       /\ base'[f] <= expectedseqnum[Other(f)]
                       /\ expectedseqnum[Other(f)] <= nextseqnum[f]
    BY <1>10 DEF CountersAligned
  <2>1. /\ nextseqnum[f] = Len(accepted[f]) /\ nextseqnum[f] <= nsim
        /\ base[f] <= nextseqnum[f] /\ nextseqnum[f] <= base[f] + N
        /\ base[f] <= expectedseqnum[Other(f)]
        /\ expectedseqnum[Other(f)] <= nextseqnum[f]
    BY <1>1 DEF CountersAligned
  <2>2. CASE f = e
    BY SMTT(20), <1>3, <1>4, <1>5, <1>9, <1>11, <1>16, <1>17, <1>18, <2>1, <2>2
  <2>3. CASE f # e
    BY <1>18, <2>1, <2>3
  <2>. QED
    BY <2>2, <2>3
<1>22. CopiesKept'
  <2>. SUFFICES ASSUME NEW f \in Entity, NEW s \in base'[f]..nextseqnum[f] - 1
                PROVE  window[f][s % N] = DataPacket(f, s)
    BY <1>10 DEF CopiesKept, DataPacket
  <2>1. s \in base[f]..nextseqnum[f] - 1
    BY <1>2, <1>5, <1>11, <1>18
  <2>. QED
    BY <1>1, <2>1 DEF CopiesKept
<1>23. TransitGenuine'
  <2>1. Grows
    BY <1>2, <1>10, <1>20 DEF Grows
  <2>2. \A f \in Entity : \A x \in Packets(inflight'[f]) : x \in Packets(inflight[f])
    BY <1>1, ConsumedPackets DEF AckNew
  <2>. QED
    BY <1>1, <2>1, <2>2, TransitStable
<1>24. BuffersGenuine'
  BY <1>1, <1>10 DEF BuffersGenuine, DataPacket
<1>25. AcksTrue'
  <2>. SUFFICES ASSUME NEW f \in Entity, NEW s \in base'[f]..base'[f] + N - 1, acked'[f][s % N]
                PROVE  s < nextseqnum[f] /\ Holds(Other(f), s)
    BY <1>10, <1>20 DEF AcksTrue
  <2>1. CASE f = e
    <3>1. s \in b..b + N - 1 /\ flags[s % N]
      BY <1>3, <1>9, <1>11, <1>18, <1>19, <2>1
    <3>. QED
      BY <1>4, <1>14, <2>1, <3>1
  <2>2. CASE f # e
    BY <1>1, <1>18, <2>2 DEF AcksTrue
  <2>. QED
    BY <2>1, <2>2
<1>26. TimersMatchOutstanding'
  <2>. SUFFICES ASSUME NEW f \in Entity
                PROVE  timers'[f] = {s \in base'[f]..nextseqnum[f] - 1 : ~acked'[f][s % N]}
    BY <1>10 DEF TimersMatchOutstanding, Outstanding
  <2>1. timers[f] = {s \in base[f]..nextseqnum[f] - 1 : ~acked[f][s % N]}
    BY <1>1 DEF TimersMatchOutstanding, Outstanding
  <2>2. CASE f = e
    <3>1. ASSUME NEW s \in b..n - 1
          PROVE  s \in timers'[e] <=> ~flags[s % N]
      <4>1. s \in b..b + N - 1
        BY <1>3, <1>11
      <4>2. flags[s % N] = (s = a \/ acked[e][s % N])
        BY <1>13, <4>1
      <4>3. s \in timers[e] <=> ~acked[e][s % N]
        BY <1>4, <1>5, <2>1, <2>2
      <4>. QED
        BY <1>18, <4>2, <4>3
    <3>2. ASSUME NEW s \in to..n - 1
          PROVE  acked'[e][s % N] <=> flags[s % N]
      <4>1. s \in to..to + N - 1 /\ s < b + N
        BY <1>3, <1>11
      <4>. QED
        BY <1>19, <4>1
    <3>3. \A s : s \in b..n - 1 <=> s \in b..to - 1 \/ s \in to..n - 1
      BY <1>9, <1>11, <1>16
    <3>4. \A s \in timers'[e] : s \in b..n - 1
      BY <1>4, <1>5, <1>18, <2>1, <2>2
    <3>5. \A s : s \in timers'[e] <=> s \in to..n - 1 /\ ~acked'[e][s % N]
      BY <1>15, <3>1, <3>2, <3>3, <3>4
    <3>. QED
      BY <1>4, <1>18, <2>2, <3>5
  <2>3. CASE f # e
    BY <1>18, <2>1, <2>3
  <2>. QED
    BY <2>2, <2>3
<1>27. DeliveredSoFar'
  BY <1>1, <1>10 DEF DeliveredSoFar
<1>. QED
  BY <1>21, <1>22, <1>23, <1>24, <1>25, <1>26, <1>27 DEF IInv

\* A_input, B_input on data in the receive window: the slot is free or already
\* holds this packet, and the run delivered consists of accepted messages.
LEMMA DataInWindowStep ==
  ASSUME IInv, TypeOK', nsim' = nsim,
         NEW e \in Entity, inflight[e] # <<>>, NEW p, p = Head(inflight[e]), DataInWindow(e, p)
  PROVE  IInv'
<1>1. /\ TypeOK /\ CountersAligned /\ CopiesKept /\ TransitGenuine /\ BuffersGenuine
      /\ AcksTrue /\ TimersMatchOutstanding /\ DeliveredSoFar
  BY DEF IInv
<1>2. \A f \in Entity :
        /\ base[f] \in Nat /\ nextseqnum[f] \in Nat /\ expectedseqnum[f] \in Nat
        /\ Other(f) \in Entity
  BY <1>1, Counters
<1>3. nsim \in Nat /\ N \in Nat \ {0}
  BY <1>1, WindowAssumption DEF TypeOK
<1>4. PICK n \in Nat : n = nextseqnum[Other(e)]
  BY <1>2
<1>5. PICK r \in Nat : r = expectedseqnum[e]
  BY <1>2
<1>6. p \in Pkt /\ Genuine(e, p) /\ Intact(p) /\ p.seqnum >= 0
  <2>1. inflight[e] \in Seq(Pkt)
    BY <1>1 DEF TypeOK
  <2>2. p \in Packets(inflight[e]) /\ p \in Pkt
    BY <2>1, HeadPacket
  <2>. QED
    BY <1>1, <2>2 DEF TransitGenuine, DataInWindow
<1>7. PICK q \in 0..n - 1 : p = DataPacket(Other(e), q)
  <2>1. ASSUME NEW s \in 0..nextseqnum[e] - 1, p = Packet(-1, s, NUL) PROVE FALSE
    BY <1>6, <2>1 DEF Packet
  <2>. QED
    BY <1>4, <1>6, <2>1 DEF Genuine
<1>. DEFINE slot == p.seqnum % N
           buf == IF received[e][slot] THEN buffer[e] ELSE [buffer[e] EXCEPT ![slot] = p]
           flags == [received[e] EXCEPT ![slot] = TRUE]
<1>8. p.seqnum = q /\ q \in Nat
  BY <1>7 DEF DataPacket, Packet
<1>9. PICK to \in expectedseqnum[e]..expectedseqnum[e] + N :
        /\ Slides(flags, expectedseqnum[e], to)
        /\ layer5' = [layer5 EXCEPT ![e] = @ \o Run(buf, expectedseqnum[e], to)]
        /\ received' = [received EXCEPT ![e] = Cleared(flags, expectedseqnum[e], to)]
        /\ expectedseqnum' = [expectedseqnum EXCEPT ![e] = to]
  BY DEF DataInWindow
<1>10. /\ buffer' = [buffer EXCEPT ![e] = buf] /\ ConsumeAndAck(e, q)
       /\ q >= r /\ q < r + N
  BY <1>5, <1>8 DEF DataInWindow
<1>11. UNCHANGED <<base, nextseqnum, window, acked, timers, accepted>>
  BY DEF DataInWindow, senderVars
<1>12. n \in Int /\ r \in Int /\ r <= n /\ to \in r..r + N /\ to \in Int
  <2>1. expectedseqnum[Other(Other(e))] <= nextseqnum[Other(e)]
    BY <1>1, <1>2 DEF CountersAligned
  <2>. QED
    BY <1>2, <1>3, <1>4, <1>5, <2>1, OtherType
<1>13. /\ slot = q % N /\ q % N \in Slot
       /\ received[e] \in [Slot -> BOOLEAN] /\ flags \in [Slot -> BOOLEAN]
       /\ buffer[e] \in [Slot -> Pkt] /\ buf \in [Slot -> Pkt]
  <2>1. q % N \in Slot
    BY <1>8, SlotType
  <2>2. received[e] \in [Slot -> BOOLEAN] /\ buffer[e] \in [Slot -> Pkt]
    BY <1>1 DEF TypeOK
  <2>. QED
    BY <1>6, <1>8, <2>1, <2>2
<1>14. ASSUME NEW s \in r..r + N - 1
       PROVE  /\ flags[s % N] <=> s = q \/ received[e][s % N]
              /\ flags[s % N] => s < n /\ buf[s % N] = DataPacket(Other(e), s)
  <2>1. s \in Nat /\ s < q + N /\ q < s + N
    BY <1>3, <1>8, <1>10, <1>12
  <2>2. s % N \in Slot
    BY <2>1, SlotType
  <2>3. s % N = q % N => s = q
    BY <1>8, <2>1, SameSlot, Zenon
  <2>4. received[e][s % N] => s < n /\ buffer[e][s % N] = DataPacket(Other(e), s)
    BY <1>1, <1>4, <1>5 DEF BuffersGenuine
  <2>5. flags[s % N] <=> s = q \/ received[e][s % N]
    BY <1>13, <2>2, <2>3
  <2>6. CASE s = q
    <3>1. s < n
      BY <1>12, <2>6
    <3>2. buf[s % N] = DataPacket(Other(e), s)
      BY <1>7, <1>13, <2>2, <2>4, <2>6
    <3>. QED
      BY <2>5, <3>1, <3>2
  <2>7. CASE s # q
    <3>1. buf[s % N] = buffer[e][s % N]
      BY <1>13, <2>2, <2>3, <2>7
    <3>. QED
      BY <2>4, <2>5, <2>7, <3>1
  <2>. QED
    BY <2>6, <2>7
<1>. HIDE DEF slot, flags, buf
<1>15. \A s \in r..to - 1 : s \in r..r + N - 1 /\ flags[s % N]
  <2>1. \A s \in r..to - 1 : flags[s % N]
    BY <1>5, <1>9 DEF Slides
  <2>2. \A s \in r..to - 1 : s \in r..r + N - 1
    BY <1>3, <1>12
  <2>. QED
    BY <2>1, <2>2
<1>16. to <= n
  <2>. SUFFICES ASSUME n < to PROVE FALSE
    BY <1>12
  <2>1. n \in r..to - 1
    BY <1>12
  <2>. QED
    BY <1>12, <1>14, <1>15, <2>1
<1>17. /\ expectedseqnum'[e] = to /\ buffer'[e] = buf /\ layer5'[e] = layer5[e] \o Run(buf, r, to)
       /\ received'[e] = Cleared(flags, r, to)
       /\ \A f \in Entity : f # e =>
            /\ expectedseqnum'[f] = expectedseqnum[f] /\ buffer'[f] = buffer[f]
            /\ layer5'[f] = layer5[f] /\ received'[f] = received[f]
  BY <1>1, <1>5, <1>9, <1>10 DEF TypeOK
<1>18. \A s \in to..to + N - 1 : received'[e][s % N] <=> s < r + N /\ flags[s % N]
  BY <1>12, <1>13, <1>17, ClearedSlot
<1>19. \A f, s : DataPacket(f, s)' = DataPacket(f, s)
  BY <1>11 DEF DataPacket
<1>20. ASSUME NEW s \in Nat, s < r \/ (s < r + N /\ (s = q \/ received[e][s % N]))
       PROVE  Holds(e, s)'
  <2>1. CASE s < to
    BY <1>17, <2>1 DEF Holds
  <2>2. CASE ~(s < to)
    <3>1. s \in r..r + N - 1 /\ s \in to..to + N - 1
      BY <1>3, <1>12, <1>20, <2>2
    <3>2. flags[s % N]
      <4>1. s = q \/ received[e][s % N]
        BY <1>20, <3>1
      <4>. QED
        BY <1>14, <3>1, <4>1
    <3>3. s < r + N /\ s < to + N
      BY <1>3, <1>12, <3>1
    <3>4. received'[e][s % N]
      BY <1>18, <3>1, <3>2, <3>3
    <3>. QED
      BY <1>17, <3>3, <3>4 DEF Holds
  <2>. QED
    BY <2>1, <2>2
<1>21. ASSUME NEW f \in Entity, NEW s \in Nat, Holds(f, s)
       PROVE  Holds(f, s)'
  <2>1. CASE f = e
    BY <1>5, <1>20, <1>21, <2>1 DEF Holds
  <2>2. CASE f # e
    BY <1>17, <1>21, <2>2 DEF Holds
  <2>. QED
    BY <2>1, <2>2
<1>22. CountersAligned'
  <2>. SUFFICES ASSUME NEW f \in Entity
                PROVE  /\ nextseqnum[f] = Len(accepted[f]) /\ nextseqnum[f] <= nsim
                       /\ base[f] <= nextseqnum[f] /\ nextseqnum[f] <= base[f] + N
                       /\ base[f] <= expectedseqnum'[Other(f)]
                       /\ expectedseqnum'[Other(f)] <= nextseqnum[f]
    BY <1>11 DEF CountersAligned
  <2>1. /\ nextseqnum[f] = Len(accepted[f]) /\ nextseqnum[f] <= nsim
        /\ base[f] <= nextseqnum[f] /\ nextseqnum[f] <= base[f] + N
        /\ base[f] <= expectedseqnum[Other(f)]
        /\ expectedseqnum[Other(f)] <= nextseqnum[f]
    BY <1>1 DEF CountersAligned
  <2>2. CASE Other(f) = e
    <3>1. f = Other(e)
      BY <2>2 DEF Entity, Other
    <3>. QED
      BY <1>2, <1>4, <1>5, <1>12, <1>16, <1>17, <2>1, <2>2, <3>1
  <2>3. CASE Other(f) # e
    BY <1>2, <1>17, <2>1, <2>3
  <2>. QED
    BY <2>2, <2>3
<1>23. CopiesKept'
  BY <1>1, <1>11, <1>19 DEF CopiesKept
<1>24. TransitGenuine'
  <2>1. Grows
    <3>1. \A f \in Entity : \A s \in 0..nextseqnum[f] - 1 : s \in Nat /\ Other(f) \in Entity
      BY <1>2
    <3>. QED
      BY <1>2, <1>11, <1>21, <3>1 DEF Grows
  <2>. DEFINE ack == Packet(-1, q, NUL)
  <2>2. WellFormed(ack)
    <3>1. n <= nsim
      BY <1>1, <1>2, <1>4 DEF CountersAligned
    <3>2. nsim <= NSIMMAX
      BY <1>1 DEF TypeOK
    <3>3. q < Garbage
      BY <1>3, <1>12, <3>1, <3>2, NsimmaxAssumption, GarbageType
    <3>. QED
      BY <1>8, <3>3, AckWellFormed
  <2>3. Genuine(Other(e), ack)'
    <3>1. Holds(e, q)'
      BY <1>8, <1>10, <1>20
    <3>2. Other(Other(e)) = e /\ q \in 0..nextseqnum'[Other(e)] - 1
      BY <1>4, <1>11, OtherType
    <3>. QED
      BY <3>1, <3>2 DEF Genuine
  <2>4. PICK queue \in tolayer3(inflight[Other(e)], ack) :
          inflight' = [inflight EXCEPT ![e] = Tail(@), ![Other(e)] = queue]
    BY <1>10 DEF ConsumeAndAck
  <2>. HIDE DEF ack
  <2>5. \A f \in Entity : \A x \in Packets(inflight'[f]) :
          x \in Packets(inflight[f]) \/ ~Intact(x) \/ Genuine(f, x)'
    BY <1>1, <2>2, <2>3, <2>4, SentPackets DEF ack
  <2>. QED
    BY <1>1, <2>1, <2>5, TransitStable
<1>25. BuffersGenuine'
  <2>1. ~received'[e][to % N]
    <3>1. to \in to..to + N - 1
      BY <1>3, <1>12
    <3>2. to < r + N => ~flags[to % N]
      BY <1>5, <1>9 DEF Slides
    <3>. QED
      BY <1>18, <3>1, <3>2
  <2>2. ASSUME NEW s \in to..to + N - 1, received'[e][s % N]
        PROVE  s < nextseqnum'[Other(e)] /\ buffer'[e][s % N] = DataPacket(Other(e), s)'
    <3>1. s \in r..r + N - 1 /\ flags[s % N]
      <4>1. s < r + N /\ flags[s % N]
        BY <1>18, <2>2
      <4>. QED
        BY <1>3, <1>12, <4>1
    <3>2. s < n /\ buf[s % N] = DataPacket(Other(e), s)
      BY <1>14, <3>1
    <3>. QED
      BY <1>4, <1>11, <1>17, <1>19, <3>2
  <2>3. ASSUME NEW f \in Entity, f # e
        PROVE  /\ ~received'[f][expectedseqnum'[f] % N]
               /\ \A s \in expectedseqnum'[f]..expectedseqnum'[f] + N - 1 :
                    received'[f][s % N] =>
                      s < nextseqnum'[Other(f)] /\ buffer'[f][s % N] = DataPacket(Other(f), s)'
    BY <1>1, <1>11, <1>17, <1>19, <2>3 DEF BuffersGenuine
  <2>. QED
    BY <1>17, <2>1, <2>2, <2>3 DEF BuffersGenuine
<1>26. AcksTrue'
  <2>. SUFFICES ASSUME NEW f \in Entity, NEW s \in base[f]..base[f] + N - 1, acked[f][s % N]
                PROVE  s < nextseqnum[f] /\ Holds(Other(f), s)'
    BY <1>11 DEF AcksTrue
  <2>1. s \in Nat /\ Other(f) \in Entity
    BY <1>2
  <2>. QED
    BY <1>1, <1>21, <2>1 DEF AcksTrue
<1>27. TimersMatchOutstanding'
  BY <1>1, <1>11 DEF TimersMatchOutstanding, Outstanding
<1>28. DeliveredSoFar'
  <2>1. layer5[e] \in Seq(Int) /\ Len(layer5[e]) = r
    BY <1>1, <1>5 DEF TypeOK, DeliveredSoFar
  <2>2. /\ Run(buf, r, to) \in Seq(Int) /\ Len(Run(buf, r, to)) = to - r
        /\ \A k \in 1..to - r : Run(buf, r, to)[k] = buf[(r + k - 1) % N].payload
    BY <1>12, <1>13, RunType
  <2>3. /\ Len(layer5'[e]) = to
        /\ \A k \in 1..to : layer5'[e][k] =
              IF k <= r THEN layer5[e][k] ELSE Run(buf, r, to)[k - r]
    <3>. DEFINE old == layer5[e]
                new == Run(buf, r, to)
    <3>0. old \in Seq(Int) /\ new \in Seq(Int)
      BY <2>1, <2>2
    <3>. HIDE DEF old, new
    <3>1. /\ Len(old \o new) = Len(old) + Len(new)
          /\ \A k \in 1..Len(old) + Len(new) :
                (old \o new)[k] = IF k <= Len(old) THEN old[k] ELSE new[k - Len(old)]
      BY <3>0, ConcatProperties
    <3>2. Len(old) = r /\ Len(old) + Len(new) = to
      BY <1>12, <2>1, <2>2 DEF old, new
    <3>. QED
      BY <1>17, <3>1, <3>2 DEF old, new
  <2>4. ASSUME NEW k \in 1..to PROVE layer5'[e][k] = accepted[Other(e)][k]
    <3>1. CASE k <= r
      BY <1>1, <1>5, <2>3, <3>1 DEF DeliveredSoFar
    <3>2. CASE ~(k <= r)
      <4>1. k - r \in 1..to - r /\ r + (k - r) - 1 = k - 1 /\ k - 1 \in r..to - 1
        BY <1>12, <3>2
      <4>2. layer5'[e][k] = buf[(k - 1) % N].payload
        BY <2>2, <2>3, <3>2, <4>1
      <4>3. buf[(k - 1) % N] = DataPacket(Other(e), k - 1) /\ (k - 1) + 1 = k
        BY <1>14, <1>15, <4>1
      <4>. QED
        BY <4>2, <4>3 DEF DataPacket, Packet
    <3>. QED
      BY <3>1, <3>2
  <2>5. ASSUME NEW f \in Entity, f # e
        PROVE  /\ Len(layer5'[f]) = expectedseqnum'[f]
               /\ \A k \in 1..expectedseqnum'[f] : layer5'[f][k] = accepted'[Other(f)][k]
    BY <1>1, <1>11, <1>17, <2>5 DEF DeliveredSoFar
  <2>6. /\ Len(layer5'[e]) = expectedseqnum'[e]
        /\ \A k \in 1..expectedseqnum'[e] : layer5'[e][k] = accepted'[Other(e)][k]
    <3>1. expectedseqnum'[e] = to /\ accepted' = accepted
      BY <1>11, <1>17
    <3>. QED
      BY <2>3, <2>4, <3>1
  <2>7. ASSUME NEW f \in Entity
        PROVE  /\ Len(layer5'[f]) = expectedseqnum'[f]
               /\ \A k \in 1..expectedseqnum'[f] : layer5'[f][k] = accepted'[Other(f)][k]
    <3>1. CASE f = e
      BY <2>6, <3>1
    <3>2. CASE f # e
      BY <2>5, <3>2
    <3>. QED
      BY <3>1, <3>2
  <2>. QED
    BY <2>7, Zenon DEF DeliveredSoFar
<1>. QED
  BY <1>22, <1>23, <1>24, <1>25, <1>26, <1>27, <1>28 DEF IInv

\* A_input, B_input on data delivered before: the acknowledgement is true.
LEMMA DataDuplicateStep ==
  ASSUME IInv, TypeOK', nsim' = nsim,
         NEW e \in Entity, inflight[e] # <<>>, NEW p, p = Head(inflight[e]), DataDuplicate(e, p)
  PROVE  IInv'
<1>1. TypeOK /\ CountersAligned /\ TransitGenuine
  BY DEF IInv
<1>2. \A f \in Entity : nextseqnum[f] \in Nat /\ expectedseqnum[f] \in Nat /\ Other(f) \in Entity
  BY <1>1, Counters
<1>3. UNCHANGED <<senderVars, receiverVars, timers, accepted>>
  BY DEF DataDuplicate
<1>4. Genuine(e, p) /\ Intact(p) /\ p.seqnum >= 0 /\ p.seqnum < expectedseqnum[e]
  <2>1. inflight[e] \in Seq(Pkt)
    BY <1>1 DEF TypeOK
  <2>2. p \in Packets(inflight[e])
    BY <2>1, HeadPacket
  <2>. QED
    BY <1>1, <2>2 DEF TransitGenuine, DataDuplicate
<1>5. PICK q \in 0..nextseqnum[Other(e)] - 1 : p = DataPacket(Other(e), q)
  <2>1. ASSUME NEW s \in 0..nextseqnum[e] - 1, p = Packet(-1, s, NUL) PROVE FALSE
    BY <1>4, <2>1 DEF Packet
  <2>. QED
    BY <1>4, <2>1 DEF Genuine
<1>6. p.seqnum = q /\ q \in Nat
  BY <1>2, <1>5 DEF DataPacket, Packet
<1>. DEFINE ack == Packet(-1, q, NUL)
<1>7. WellFormed(ack)
  <2>1. nextseqnum[Other(e)] <= nsim /\ nsim <= NSIMMAX /\ nsim \in Nat
    BY <1>1, <1>2, NsimmaxAssumption DEF CountersAligned, TypeOK
  <2>2. q < Garbage
    BY <1>2, <2>1, NsimmaxAssumption, GarbageType
  <2>. QED
    BY <1>6, <2>2, AckWellFormed
<1>8. Genuine(Other(e), ack)'
  <2>1. Holds(e, q)'
    BY <1>3, <1>4, <1>6 DEF Holds, receiverVars
  <2>2. Other(Other(e)) = e /\ q \in 0..nextseqnum'[Other(e)] - 1
    BY <1>3, OtherType DEF senderVars
  <2>. QED
    BY <2>1, <2>2 DEF Genuine
<1>9. PICK queue \in tolayer3(inflight[Other(e)], ack) :
        inflight' = [inflight EXCEPT ![e] = Tail(@), ![Other(e)] = queue]
  BY <1>6 DEF DataDuplicate, ConsumeAndAck
<1>. HIDE DEF ack
<1>10. \A f \in Entity : \A x \in Packets(inflight'[f]) :
         x \in Packets(inflight[f]) \/ ~Intact(x) \/ Genuine(f, x)'
  BY <1>1, <1>7, <1>8, <1>9, SentPackets DEF ack
<1>11. nsim <= nsim'
  BY <1>1 DEF TypeOK
<1>. QED
  BY <1>3, <1>10, <1>11, OnlyPackets

\* A_timerinterrupt, B_timerinterrupt: the timer is that of an outstanding
\* packet, so its slot still holds that packet.
LEMMA TimerStep ==
  ASSUME IInv, TypeOK', nsim' = nsim,
         NEW e \in Entity, NEW s \in timers[e], timerinterrupt(e, s)
  PROVE  IInv'
<1>1. TypeOK /\ CountersAligned /\ CopiesKept /\ TimersMatchOutstanding
  BY DEF IInv
<1>2. base[e] \in Nat /\ nextseqnum[e] \in Nat
  BY <1>1, Counters
<1>3. s \in base[e]..nextseqnum[e] - 1 /\ s \in 0..nextseqnum[e] - 1
  BY <1>1, <1>2 DEF TimersMatchOutstanding, Outstanding
<1>. DEFINE copy == window[e][s % N]
<1>4. copy = DataPacket(e, s)
  BY <1>1, <1>3 DEF CopiesKept
<1>5. WellFormed(copy)
  BY <1>1, <1>3, <1>4, DataWellFormed
<1>6. UNCHANGED <<senderVars, receiverVars, timers, accepted>>
  <2>1. timers' = [timers EXCEPT ![e] = (@ \ {s}) \cup {s}]
    BY DEF timerinterrupt, starttimer
  <2>2. (timers[e] \ {s}) \cup {s} = timers[e]
    OBVIOUS
  <2>3. timers' = timers
    BY <1>1, <2>1, <2>2 DEF TypeOK
  <2>. QED
    BY <2>3 DEF timerinterrupt
<1>7. Genuine(Other(e), copy)'
  <2>1. copy' = DataPacket(e, s)' /\ s \in 0..nextseqnum'[e] - 1
    BY <1>3, <1>4, <1>6 DEF senderVars, DataPacket
  <2>. QED
    BY <2>1, OtherType DEF Genuine
<1>8. PICK queue \in tolayer3(inflight[Other(e)], copy) :
        inflight' = [inflight EXCEPT ![Other(e)] = queue]
  BY DEF timerinterrupt
<1>9. PICK c : c = copy
  OBVIOUS
<1>10. Genuine(Other(e), c)'
  <2>1. c = copy'
    BY <1>6, <1>9 DEF senderVars
  <2>. QED
    BY <1>7, <2>1
<1>. HIDE DEF copy
<1>11. \A f \in Entity : \A x \in Packets(inflight'[f]) :
         x \in Packets(inflight[f]) \/ ~Intact(x) \/ Genuine(f, x)'
  BY <1>1, <1>5, <1>8, <1>9, <1>10, SentPackets
<1>12. nsim <= nsim'
  BY <1>1 DEF TypeOK
<1>. QED
  BY <1>6, <1>11, <1>12, OnlyPackets

\* Every step of the program preserves the invariant.
LEMMA InvStep ==
  ASSUME IInv, nsim < NSIMMAX, NEW e \in Entity, Step(e)
  PROVE  IInv'
<1>1. TypeOK /\ TypeOK' /\ nsim \in Nat
  <2>1. TypeOK
    BY DEF IInv
  <2>2. TypeOK'
    BY <2>1, TypeStep
  <2>3. nsim \in Nat
    BY <2>1 DEF TypeOK
  <2>. QED
    BY <2>1, <2>2, <2>3
<1>2. CASE /\ arrival = e
           /\ nsim' = nsim + 1
           /\ arrival' \in generate_next_arrival
           /\ output(e, Letters(nsim))
  <2>1. Letters(nsim) \in PayloadSet
    BY <1>1, NsimmaxAssumption DEF PayloadSet
  <2>2. CASE Send(e, Letters(nsim))
    BY <1>1, <1>2, <2>1, <2>2, SendStep
  <2>3. CASE Refuse(e)
    <3>1. UNCHANGED <<senderVars, receiverVars, timers, inflight, accepted>> /\ nsim <= nsim'
      BY <1>1, <1>2, <2>3 DEF Refuse
    <3>. QED
      BY <1>1, <3>1, OnlyPackets
  <2>. QED
    BY <1>2, <2>2, <2>3 DEF output
<1>3. CASE /\ inflight[e] # <<>>
           /\ input(e, Head(inflight[e]))
           /\ UNCHANGED <<nsim, arrival>>
  <2>1. PICK p : p = Head(inflight[e])
    OBVIOUS
  <2>2. CASE Ignore(e, p) \/ AckOld(e, p)
    <3>1. UNCHANGED <<senderVars, receiverVars, timers, accepted>> /\ Consume(e)
      BY <2>2 DEF Ignore, AckOld
    <3>2. nsim <= nsim'
      BY <1>1, <1>3
    <3>. QED
      BY <1>1, <1>3, <3>1, <3>2, ConsumedPackets, OnlyPackets
  <2>3. CASE AckNew(e, p)
    BY <1>1, <1>3, <2>1, <2>3, AckNewStep
  <2>4. CASE DataInWindow(e, p)
    BY <1>1, <1>3, <2>1, <2>4, DataInWindowStep
  <2>5. CASE DataDuplicate(e, p)
    BY <1>1, <1>3, <2>1, <2>5, DataDuplicateStep
  <2>. QED
    BY <1>3, <2>1, <2>2, <2>3, <2>4, <2>5 DEF input
<1>4. CASE /\ \E s \in timers[e] : timerinterrupt(e, s)
           /\ UNCHANGED <<nsim, arrival>>
  BY <1>1, <1>4, TimerStep
<1>. QED
  BY <1>2, <1>3, <1>4 DEF Step

LEMMA InvInit == Init => IInv
<1>. SUFFICES ASSUME Init PROVE IInv
  OBVIOUS
<1>1. TypeOK
  BY TypeInit
<1>2. N \in Nat \ {0} /\ 0 \in Nat
  BY WindowAssumption
<1>3. \A s \in 0..0 + N - 1 : s % N \in Slot
  <2>1. \A s \in 0..0 + N - 1 : s \in Nat
    BY <1>2
  <2>. QED
    BY <2>1, SlotType
<1>4. 0 % N \in Slot
  BY <1>2, SlotType
<1>5. CountersAligned
  BY <1>2, OtherType DEF Init, CountersAligned
<1>6. CopiesKept
  BY DEF Init, CopiesKept
<1>7. TransitGenuine
  BY DEF Init, TransitGenuine, Packets
<1>8. BuffersGenuine
  BY <1>3, <1>4 DEF Init, BuffersGenuine
<1>9. AcksTrue
  BY <1>3 DEF Init, AcksTrue
<1>10. TimersMatchOutstanding
  BY DEF Init, TimersMatchOutstanding, Outstanding
<1>11. DeliveredSoFar
  BY DEF Init, DeliveredSoFar
<1>. QED
  BY <1>1, <1>5, <1>6, <1>7, <1>8, <1>9, <1>10, <1>11 DEF IInv

\* The invariant behind all the rest holds in every state of the program.
THEOREM Invariant == Spec => []IInv
<1>1. IInv /\ [Next]_vars => IInv'
  <2>1. CASE Next
    BY <2>1, NextIsStep, InvStep
  <2>2. CASE UNCHANGED vars
    <3>1. IInv /\ UNCHANGED vars => TypeOK' /\ nsim <= nsim'
      BY DEF IInv, TypeOK, vars, senderVars, receiverVars
    <3>2. UNCHANGED <<senderVars, receiverVars, timers, accepted, inflight>>
      BY <2>2 DEF vars
    <3>. QED
      BY <2>2, <3>1, <3>2, OnlyPackets
  <2>. QED
    BY <2>1, <2>2
<1>. QED
  BY <1>1, InvInit, PTL DEF Spec

-----------------------------------------------------------------------------
(* What follows from the invariant. *)

LEMMA InvTimers == IInv => TimersMatchOutstanding
  BY DEF IInv

LEMMA InvHeld == IInv => AckedIsHeld
<1>. SUFFICES ASSUME IInv, NEW e \in Entity, NEW s \in 0..nextseqnum[e] - 1,
                     s \notin Outstanding(e)
              PROVE  Holds(Other(e), s)
  BY DEF AckedIsHeld
<1>1. TypeOK /\ CountersAligned /\ AcksTrue
  BY DEF IInv
<1>2. /\ base[e] \in Nat /\ nextseqnum[e] \in Nat /\ expectedseqnum[Other(e)] \in Nat
      /\ base[e] <= expectedseqnum[Other(e)] /\ nextseqnum[e] <= base[e] + N
      /\ N \in Nat
  BY <1>1, Counters, WindowAssumption DEF CountersAligned
<1>3. CASE s < base[e]
  BY <1>2, <1>3 DEF Holds
<1>4. CASE ~(s < base[e])
  <2>1. s \in base[e]..nextseqnum[e] - 1 /\ s \in base[e]..base[e] + N - 1
    BY <1>2, <1>4
  <2>2. acked[e][s % N]
    BY <2>1 DEF Outstanding
  <2>. QED
    BY <1>1, <2>1, <2>2 DEF AcksTrue
<1>. QED
  BY <1>3, <1>4

LEMMA InvDelivered == IInv => DeliveredInOrder
<1>. SUFFICES ASSUME IInv, NEW e \in Entity
              PROVE  /\ expectedseqnum[e] <= Len(accepted[Other(e)])
                     /\ layer5[e] = SubSeq(accepted[Other(e)], 1, expectedseqnum[e])
  BY DEF DeliveredInOrder
<1>1. TypeOK /\ CountersAligned /\ DeliveredSoFar
  BY DEF IInv
<1>. DEFINE whole == accepted[Other(e)]
            r == expectedseqnum[e]
            part == SubSeq(whole, 1, r)
<1>2. r \in Nat /\ r <= Len(whole)
  <2>1. expectedseqnum[Other(Other(e))] <= nextseqnum[Other(e)]
    BY <1>1, OtherType DEF CountersAligned
  <2>2. nextseqnum[Other(e)] = Len(whole)
    BY <1>1, OtherType DEF CountersAligned
  <2>. QED
    BY <1>1, <2>1, <2>2, Counters, OtherType
<1>3. whole \in Seq(PayloadSet)
  BY <1>1, OtherType DEF TypeOK
<1>4. \A k \in 1..r : whole[k] \in Int
  BY <1>2, <1>3, PayloadInt
<1>5. layer5[e] \in Seq(Int) /\ Len(layer5[e]) = r /\ \A k \in 1..r : layer5[e][k] = whole[k]
  BY <1>1 DEF TypeOK, DeliveredSoFar
<1>. HIDE DEF whole, r
<1>6. part \in Seq(Int) /\ Len(part) = r /\ \A k \in 1..r : part[k] = whole[k]
  <2>1. /\ part \in Seq(Int) /\ Len(part) = IF 1 <= r THEN r - 1 + 1 ELSE 0
        /\ \A k \in 1..r - 1 + 1 : part[k] = whole[1 + k - 1]
    BY <1>2, <1>4, SubSeqProperties
  <2>2. r - 1 + 1 = r /\ \A k \in 1..r : 1 + k - 1 = k
    BY <1>2
  <2>. QED
    BY <1>2, <2>1, <2>2
<1>. HIDE DEF part
<1>7. layer5[e] = part
  BY <1>5, <1>6, SeqEqual
<1>. QED
  BY <1>2, <1>7 DEF whole, r, part

LEMMA InvWindows == IInv => WindowsAligned
<1>. SUFFICES ASSUME IInv, NEW e \in Entity
              PROVE  /\ base[Other(e)] <= expectedseqnum[e]
                     /\ expectedseqnum[e] <= nextseqnum[Other(e)]
                     /\ \A p \in Packets(inflight[e]) :
                           Intact(p) => p.seqnum < expectedseqnum[e] + N
                     /\ \A s \in expectedseqnum[e]..expectedseqnum[e] + N - 1 :
                           received[e][s % N] => buffer[e][s % N].seqnum = s
  BY DEF WindowsAligned
<1>1. TypeOK /\ CountersAligned /\ TransitGenuine /\ BuffersGenuine
  BY DEF IInv
<1>2. /\ base[Other(e)] <= expectedseqnum[e] /\ expectedseqnum[e] <= nextseqnum[Other(e)]
      /\ nextseqnum[Other(e)] <= base[Other(e)] + N
  <2>1. Other(e) \in Entity /\ Other(Other(e)) = e
    BY OtherType
  <2>. QED
    BY <1>1, <2>1 DEF CountersAligned
<1>3. /\ base[Other(e)] \in Nat /\ nextseqnum[Other(e)] \in Nat /\ expectedseqnum[e] \in Nat
      /\ N \in Nat
  BY <1>1, Counters, WindowAssumption
<1>4. ASSUME NEW p \in Packets(inflight[e]), Intact(p)
      PROVE  p.seqnum < expectedseqnum[e] + N
  <2>1. Genuine(e, p)
    BY <1>1 DEF TransitGenuine
  <2>2. ASSUME NEW s \in 0..nextseqnum[Other(e)] - 1, p = DataPacket(Other(e), s)
        PROVE  p.seqnum < expectedseqnum[e] + N
    <3>1. p.seqnum = s
      BY <2>2 DEF DataPacket, Packet
    <3>. QED
      BY <1>2, <1>3, <3>1
  <2>3. ASSUME NEW s, p = Packet(-1, s, NUL)
        PROVE  p.seqnum < expectedseqnum[e] + N
    <3>1. p.seqnum = -1
      BY <2>3 DEF Packet
    <3>. QED
      BY <1>3, <3>1
  <2>. QED
    BY <1>4, <2>1, <2>2, <2>3 DEF Genuine
<1>5. ASSUME NEW s \in expectedseqnum[e]..expectedseqnum[e] + N - 1, received[e][s % N]
      PROVE  buffer[e][s % N].seqnum = s
  <2>1. buffer[e][s % N] = DataPacket(Other(e), s)
    BY <1>1, <1>5 DEF BuffersGenuine
  <2>. QED
    BY <2>1 DEF DataPacket, Packet
<1>. QED
  BY <1>2, <1>4, <1>5

\* A timer runs exactly for each packet sent and not yet acknowledged.
THEOREM TimersCorrect == Spec => []TimersMatchOutstanding
  BY Invariant, InvTimers, PTL

\* What the sender has given up, the receiver has.
THEOREM AckedCorrect == Spec => []AckedIsHeld
  BY Invariant, InvHeld, PTL

\* Layer 5 gets the accepted messages, in order, unchanged and once.
THEOREM DeliveryCorrect == Spec => []DeliveredInOrder
  BY Invariant, InvDelivered, PTL

\* The windows of the two sides never drift apart by more than N.
THEOREM WindowsCorrect == Spec => []WindowsAligned
  BY Invariant, InvWindows, PTL

\* No step overwrites a packet that may have to be sent again.
THEOREM CopiesCorrect == Spec => OutstandingKept
<1>1. ASSUME IInv, [Next]_vars
      PROVE  \A e \in Entity : \A s \in Outstanding(e) : window'[e][s % N] = window[e][s % N]
  <2>. SUFFICES ASSUME NEW e \in Entity, NEW s \in Outstanding(e), window'[e] # window[e]
                PROVE  window'[e][s % N] = window[e][s % N]
    OBVIOUS
  <2>1. TypeOK /\ CountersAligned
    BY <1>1 DEF IInv
  <2>2. PICK f \in Entity : Step(f)
    BY <1>1, NextIsStep DEF vars, senderVars
  <2>3. Send(f, Letters(nsim))
    BY <2>2 DEF Step, output, Refuse, input, Ignore, AckNew, AckOld, DataInWindow,
                DataDuplicate, timerinterrupt, senderVars
  <2>4. PICK p : window' = [window EXCEPT ![f][nextseqnum[f] % N] = p]
    BY <2>3 DEF Send
  <2>5. f = e
    BY <2>1, <2>4 DEF TypeOK
  <2>6. /\ base[e] \in Nat /\ nextseqnum[e] \in Nat /\ N \in Nat /\ N > 0
        /\ nextseqnum[e] < base[e] + N
    BY <2>1, <2>3, <2>5, Counters, WindowAssumption DEF Send, WindowOpen
  <2>7. s \in base[e]..nextseqnum[e] - 1
    BY DEF Outstanding
  <2>8. s \in Nat /\ s # nextseqnum[e] /\ s < nextseqnum[e] + N /\ nextseqnum[e] < s + N
    BY <2>6, <2>7
  <2>9. s % N = nextseqnum[e] % N => s = nextseqnum[e]
    BY <2>6, <2>8, SameSlot, Zenon
  <2>10. s % N \in Slot /\ nextseqnum[e] % N \in Slot
    BY <2>6, <2>8, SlotType
  <2>. QED
    BY <2>1, <2>4, <2>5, <2>8, <2>9, <2>10 DEF TypeOK
<1>. QED
  BY <1>1, Invariant, PTL DEF Spec, OutstandingKept

-----------------------------------------------------------------------------
(* The program implements the abstract transport. *)

LEMMA RefineInit == Init => RDT!Init
  BY DEF Init, RDT!Init, Entity, RDT!Entity

\* Only A_output and B_output accept messages, and only data in the receive
\* window reaches layer 5; the rest is invisible to the users.
LEMMA RefineStep ==
  ASSUME IInv, IInv', nsim < NSIMMAX, NEW e \in Entity, Step(e)
  PROVE  RDT!Next \/ UNCHANGED <<accepted, layer5>>
<1>1. TypeOK /\ TypeOK' /\ DeliveredInOrder /\ DeliveredInOrder'
  <2>1. DeliveredInOrder /\ DeliveredInOrder'
    BY InvDelivered, PTL
  <2>. QED
    BY <2>1 DEF IInv
<1>2. nsim \in Nat /\ e \in RDT!Entity /\ Other(e) = RDT!Peer(e)
  BY <1>1 DEF TypeOK, Entity, RDT!Entity, Other, RDT!Peer
<1>3. CASE Send(e, Letters(nsim))
  <2>1. Letters(nsim) \in PayloadSet
    BY <1>2, NsimmaxAssumption DEF PayloadSet
  <2>2. accepted' = [accepted EXCEPT ![e] = Append(@, Letters(nsim))] /\ layer5' = layer5
    BY <1>3 DEF Send, receiverVars
  <2>3. RDT!Accept(e)
    BY <2>1, <2>2 DEF RDT!Accept
  <2>. QED
    BY <1>2, <2>3 DEF RDT!Next
<1>4. CASE \E p : DataInWindow(e, p)
  <2>1. PICK p : DataInWindow(e, p)
    BY <1>4
  <2>2. PICK to \in expectedseqnum[e]..expectedseqnum[e] + N :
          /\ \E delivered : layer5' = [layer5 EXCEPT ![e] = delivered]
          /\ expectedseqnum' = [expectedseqnum EXCEPT ![e] = to]
    BY <2>1, Zenon DEF DataInWindow
  <2>3. accepted' = accepted
    BY <2>1 DEF DataInWindow
  <2>. DEFINE whole == accepted[Other(e)]
  <2>4. /\ expectedseqnum[e] \in Nat /\ expectedseqnum'[e] = to
        /\ layer5[e] = SubSeq(whole, 1, expectedseqnum[e]) /\ expectedseqnum[e] <= Len(whole)
        /\ layer5'[e] = SubSeq(whole, 1, to) /\ to <= Len(whole)
    <3>1. expectedseqnum[e] \in Nat /\ expectedseqnum'[e] = to
      BY <1>1, <2>2 DEF TypeOK
    <3>2. /\ layer5[e] = SubSeq(whole, 1, expectedseqnum[e])
          /\ expectedseqnum[e] <= Len(whole)
      BY <1>1 DEF DeliveredInOrder
    <3>3. /\ layer5'[e] = SubSeq(whole, 1, expectedseqnum'[e])
          /\ expectedseqnum'[e] <= Len(whole)
      BY <1>1, <2>3 DEF DeliveredInOrder
    <3>. QED
      BY <3>1, <3>2, <3>3
  <2>5. Len(layer5[e]) = expectedseqnum[e] /\ Len(whole) \in Nat
    BY <1>1, OtherType DEF IInv, DeliveredSoFar, TypeOK
  <2>6. layer5' = [layer5 EXCEPT ![e] = SubSeq(whole, 1, to)]
    BY <1>1, <2>2, <2>4 DEF TypeOK
  <2>. HIDE DEF whole
  <2>7. CASE to = expectedseqnum[e]
    <3>1. layer5' = layer5
      BY <1>1, <2>4, <2>6, <2>7 DEF TypeOK
    <3>. QED
      BY <2>3, <3>1
  <2>8. CASE to # expectedseqnum[e]
    <3>1. to \in Len(layer5[e]) + 1..Len(whole)
      BY <2>4, <2>5, <2>8, WindowAssumption
    <3>2. RDT!Deliver(e)
      BY <1>2, <2>3, <2>6, <3>1 DEF RDT!Deliver, whole
    <3>. QED
      BY <1>2, <3>2 DEF RDT!Next
  <2>. QED
    BY <2>7, <2>8
<1>5. CASE ~Send(e, Letters(nsim)) /\ ~\E p : DataInWindow(e, p)
  BY <1>5 DEF Step, output, Refuse, input, Ignore, AckNew, AckOld, DataDuplicate,
              timerinterrupt, receiverVars
<1>. QED
  BY <1>3, <1>4, <1>5

\* Selective Repeat is a reliable transport: every behaviour of the program
\* is one of the abstract specification.
THEOREM Implements == Spec => ImplementsRDT
<1>1. IInv /\ IInv' /\ [Next]_vars => [RDT!Next]_(RDT!vars)
  <2>1. ASSUME IInv, IInv', Next PROVE RDT!Next \/ UNCHANGED RDT!vars
    BY <2>1, NextIsStep, RefineStep DEF RDT!vars
  <2>2. UNCHANGED vars => UNCHANGED RDT!vars
    BY DEF vars, receiverVars, RDT!vars
  <2>. QED
    BY <2>1, <2>2
<1>. QED
  BY <1>1, RefineInit, Invariant, PTL DEF Spec, ImplementsRDT, RDT!Spec

=============================================================================
