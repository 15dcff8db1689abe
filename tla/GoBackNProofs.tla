---------------------------- MODULE GoBackNProofs ----------------------------
(***************************************************************************)
(* What Go-Back-N keeps, for every window size, number of messages,        *)
(* capacity of the medium and kind of damage, built for one direction or   *)
(* for both.                                                               *)
(*                                                                         *)
(* The inductive invariant IInv says what an intact packet in transit can  *)
(* be, and what the two windows and the two layers 5 have to do with it;   *)
(* SimplexInv adds what is true when B has nothing to send. Both builds    *)
(* take the steps of Moves, which the proof is about.                      *)
(***************************************************************************)
EXTENDS MCGoBackN, Layer3Proofs

-----------------------------------------------------------------------------
(* The inductive invariant. *)

Typed ==
    /\ nsim \in 0..NoAck
    /\ arrival \in Entity
    /\ base \in [Entity -> Nat]
    /\ nextseqnum \in [Entity -> Nat]
    /\ window \in [Entity -> [Slot -> Pkt]]
    /\ expectedseqnum \in [Entity -> Nat]
    /\ lastACKToSend \in [Entity -> Nat \cup {-1}]
    /\ timer \in [Entity -> BOOLEAN]
    /\ inflight \in [Entity -> Seq(Pkt)]
    /\ accepted \in [Entity -> Seq(Payloads)]
    /\ layer5 \in [Entity -> Seq(Int)]

\* The counters of e count its histories and stay below the mark 999.
Counters(e) ==
    /\ Len(accepted[e]) = nextseqnum[e]
    /\ nextseqnum[e] <= nsim
    /\ base[e] <= nextseqnum[e] /\ nextseqnum[e] <= base[e] + N
    /\ expectedseqnum[e] <= NoAck
    /\ lastACKToSend[e] < expectedseqnum[e]

\* The acknowledgement e puts on data: B's is the number 0 whatever it has.
Piggybacked(e, acknum) ==
    IF e = "A" THEN acknum = NoAck \/ acknum \in 0..expectedseqnum[e] - 1 ELSE acknum = 0

\* p carries the message e accepted with p's number.
IsData(e, p) ==
    /\ p.seqnum \in 0..nextseqnum[e] - 1
    /\ p.payload = accepted[e][p.seqnum + 1]
    /\ Piggybacked(e, p.acknum)

\* p acknowledges a packet that was delivered to e.
IsAck(e, p) ==
    /\ p.seqnum = 0 /\ p.payload = NUL
    /\ p.acknum \in 0..expectedseqnum[e] - 1

\* A packet that e has sent and nothing has damaged.
Genuine(e, p) == Intact(p) /\ (IsData(e, p) \/ IsAck(e, p))

\* The window of e holds the data packets outstanding, each in its slot.
WindowKept(e) ==
    \A s \in base[e]..nextseqnum[e] - 1 :
        /\ Genuine(e, window[e][s % N])
        /\ IsData(e, window[e][s % N])
        /\ window[e][s % N].seqnum = s

\* What travels from e is damaged or genuine.
TransitGenuine(e) ==
    \A p \in Packets(inflight[Other(e)]) : Intact(p) => Genuine(e, p)

\* Layer 5 of e was handed the messages of its numbers, the first of them
\* perhaps the empty payload of an acknowledgement.
Handed(e) ==
    /\ Len(layer5[e]) = expectedseqnum[e]
    /\ \A k \in 1..expectedseqnum[e] :
          \/ k = 1 /\ layer5[e][k] = NUL
          \/ k <= Len(accepted[Other(e)]) /\ layer5[e][k] = accepted[Other(e)][k]

IInv ==
    /\ Typed
    /\ \A e \in Entity : Counters(e) /\ WindowKept(e) /\ TransitGenuine(e) /\ Handed(e)
    /\ TimerIffOutstanding
    /\ OnlyFirstAckedEarly

\* With nothing sent by B, an acknowledgement travels only after B delivered,
\* and A's layer 5 is handed an empty payload only then.
SimplexInv ==
    /\ arrival = "A"
    /\ nextseqnum["B"] = 0
    /\ base["A"] <= expectedseqnum["B"]
    /\ expectedseqnum["A"] >= 1 => expectedseqnum["B"] >= 1
    /\ expectedseqnum["B"] >= 1 =>
          Len(accepted["A"]) >= 1 /\ layer5["B"][1] = accepted["A"][1]

BuildInv ==
    /\ IInv
    /\ nsim <= (IF duplex THEN NSIMMAX ELSE NSIMMAX + 1)
    /\ ~duplex => SimplexInv

-----------------------------------------------------------------------------
(* The steps of both builds, with the medium reduced to what it can carry.   *)

\* The packets e has sent and does not take for acknowledged.
Outstanding(e) == Sent(base[e], nextseqnum[e], window[e], N)

\* e gives the packets ps to the medium.
Gives(e, ps) ==
    \E queue : /\ Carried(inflight[Other(e)], ps, queue)
              /\ inflight' = [inflight EXCEPT ![Other(e)] = queue]

\* e takes the first packet and gives the packets ps to the medium.
ConsumesAndGives(e, ps) ==
    \E queue : /\ Carried(inflight[Other(e)], ps, queue)
              /\ inflight' = [inflight EXCEPT ![e] = Tail(@), ![Other(e)] = queue]

Sending(e, data) ==
    /\ WindowOpen(e)
    /\ window' = [window EXCEPT ![e][nextseqnum[e] % N] = Packet(nextseqnum[e], Piggyback(e), data)]
    /\ Gives(e, {Packet(nextseqnum[e], Piggyback(e), data)})
    /\ timer' = [timer EXCEPT ![e] = @ \/ base[e] = nextseqnum[e]]
    /\ nextseqnum' = [nextseqnum EXCEPT ![e] = @ + 1]
    /\ lastACKToSend' = [lastACKToSend EXCEPT !["A"] = IF e = "A" THEN -1 ELSE @]
    /\ accepted' = [accepted EXCEPT ![e] = Append(@, data)]
    /\ UNCHANGED <<base, expectedseqnum, layer5>>

Reacknowledging(e) ==
    /\ LastDelivered(e) >= 0
    /\ ConsumesAndGives(e, {Packet(0, LastDelivered(e), NUL)})
    /\ UNCHANGED <<base, nextseqnum, window, receiverVars, timer, accepted>>

Ignoring(e) ==
    /\ Consume(e)
    /\ UNCHANGED <<base, nextseqnum, window, receiverVars, timer, accepted>>

Resending(e) ==
    /\ timer[e]
    /\ timer' = [timer EXCEPT ![e] = TRUE]
    /\ Gives(e, Outstanding(e))
    /\ UNCHANGED <<base, nextseqnum, window, receiverVars, accepted>>

\* The event at e: from layer 5, from layer 3 or from the timer.
Move(e) ==
    \/ /\ nsim' = nsim + 1
       /\ arrival = e
       /\ Sending(e, Letters(nsim)) \/ Refuse(e)
    \/ /\ nsim' = nsim /\ arrival' = arrival
       /\ inflight[e] # <<>>
       /\ \/ Ack(e, Head(inflight[e]))
          \/ Deliver(e, Head(inflight[e]))
          \/ Reacknowledging(e)
          \/ Ignoring(e)
    \/ /\ nsim' = nsim /\ arrival' = arrival
       /\ Resending(e)

\* A step of either build; limit is its number of messages.
Moves(limit) ==
    /\ nsim < limit
    /\ arrival' \in Entity
    /\ \E e \in Entity : Move(e)

-----------------------------------------------------------------------------
(* Both builds take such steps. *)

LEMMA SlotType == ASSUME NEW s \in Nat PROVE s % N \in Slot
  BY WindowAssumption, Division DEF Slot

\* Two numbers less than N apart share a slot only if they are equal.
LEMMA SameSlot ==
  ASSUME NEW s \in Nat, NEW t \in Nat, s < t + N, t < s + N, s % N = t % N
  PROVE  s = t
  BY WindowAssumption, SameResidue

LEMMA PiggybackType ==
  ASSUME Typed, NEW e \in Entity
  PROVE  Piggyback(e) \in Int
  BY DEF Typed, Piggyback, NoAck

\* A packet given to the medium is carried.
LEMMA GivesOne ==
  ASSUME Typed, NEW e \in Entity, NEW p \in Pkt, NEW q \in tolayer3(inflight[Other(e)], p)
  PROVE  Carried(inflight[Other(e)], {p}, q)
<1>1. inflight[Other(e)] \in Seq(Pkt)
  BY OtherType DEF Typed
<1>. QED
  BY <1>1, tolayer3Carried

\* The whole window given to the medium is carried.
LEMMA GivesWindow ==
  ASSUME Typed, NEW e \in Entity, Counters(e),
         NEW q \in Resends(base[e], nextseqnum[e], inflight[Other(e)], window[e], N)
  PROVE  Carried(inflight[Other(e)], Outstanding(e), q)
<1>1. inflight[Other(e)] \in Seq(Pkt) /\ window[e] \in [0..N - 1 -> Pkt]
  BY OtherType DEF Typed, Slot
<1>2. base[e] \in Nat /\ nextseqnum[e] \in Nat /\ base[e] <= nextseqnum[e]
  BY DEF Typed, Counters
<1>. QED
  BY <1>1, <1>2, WindowAssumption, ResendsCarried DEF Outstanding

LEMMA ResentResends ==
  ASSUME NEW e \in Entity
  PROVE  Resent(e) = Resends(base[e], nextseqnum[e], inflight[Other(e)], window[e], N)
  BY DEF Resent, Resends

\* Each event of GoBackN is one of Moves.
LEMMA NextMoves ==
  ASSUME IInv, Next
  PROVE  Moves(NSIMMAX)
<1>1. Typed /\ \A e \in Entity : Counters(e)
  BY DEF IInv
<1>2. nsim < NSIMMAX
  BY DEF Next, FROM_LAYER5, FROM_LAYER3, TIMER_INTERRUPT, Running
<1>3. CASE FROM_LAYER5
  <2>1. PICK e \in Entity : arrival = e /\ output(e, Letters(nsim))
    BY <1>3 DEF FROM_LAYER5, A_output, B_output, Entity
  <2>2. nsim' = nsim + 1 /\ arrival' \in Entity
    BY <1>3 DEF FROM_LAYER5, generate_next_arrival, Entity
  <2>3. CASE Send(e, Letters(nsim))
    <3>. DEFINE p == Packet(nextseqnum[e], Piggyback(e), Letters(nsim))
    <3>1. p \in Pkt
      <4>1. nextseqnum[e] \in Int /\ Piggyback(e) \in Int /\ nsim \in Nat
        BY <1>1, PiggybackType DEF Typed
      <4>2. Letters(nsim) \in Int
        BY <4>1, LettersPayload, ZChangesPayload
      <4>. QED
        BY <4>1, <4>2, PacketType
    <3>2. PICK q \in tolayer3(inflight[Other(e)], p) :
            inflight' = [inflight EXCEPT ![Other(e)] = q]
      BY <2>3 DEF Send
    <3>3. Gives(e, {p})
      BY <1>1, <3>1, <3>2, GivesOne DEF Gives
    <3>4. Sending(e, Letters(nsim))
      BY <2>3, <3>3 DEF Send, Sending
    <3>. QED
      BY <1>2, <2>1, <2>2, <3>4 DEF Moves, Move
  <2>4. CASE Refuse(e)
    BY <1>2, <2>1, <2>2, <2>4 DEF Moves, Move
  <2>. QED
    BY <2>1, <2>3, <2>4 DEF output
<1>4. CASE FROM_LAYER3
  <2>1. PICK e \in Entity : inflight[e] # <<>> /\ input(e, Head(inflight[e]))
    BY <1>4 DEF FROM_LAYER3, A_input, B_input, Entity
  <2>2. nsim' = nsim /\ arrival' = arrival /\ arrival' \in Entity
    BY <1>1, <1>4 DEF FROM_LAYER3, Typed
  <2>3. CASE Discard(e, Head(inflight[e]))
    <3>1. Ignoring(e)
      BY <2>3 DEF Discard, Ignoring
    <3>. QED
      BY <1>2, <2>1, <2>2, <3>1 DEF Moves, Move
  <2>4. CASE Ack(e, Head(inflight[e])) \/ Deliver(e, Head(inflight[e]))
    BY <1>2, <2>1, <2>2, <2>4 DEF Moves, Move
  <2>5. CASE Reacknowledge(e, Head(inflight[e])) /\ LastDelivered(e) >= 0
    <3>. DEFINE p == Packet(0, LastDelivered(e), NUL)
    <3>1. p \in Pkt
      BY <1>1, PacketType DEF Typed, LastDelivered, NUL
    <3>2. PICK q \in tolayer3(inflight[Other(e)], p) :
            inflight' = [inflight EXCEPT ![e] = Tail(@), ![Other(e)] = q]
      BY <2>5 DEF Reacknowledge
    <3>3. ConsumesAndGives(e, {p})
      BY <1>1, <3>1, <3>2, GivesOne DEF ConsumesAndGives
    <3>4. Reacknowledging(e)
      BY <2>5, <3>3 DEF Reacknowledge, Reacknowledging
    <3>. QED
      BY <1>2, <2>1, <2>2, <3>4 DEF Moves, Move
  <2>6. CASE Reacknowledge(e, Head(inflight[e])) /\ ~(LastDelivered(e) >= 0)
    <3>1. Ignoring(e)
      BY <2>6 DEF Reacknowledge, Ignoring
    <3>. QED
      BY <1>2, <2>1, <2>2, <3>1 DEF Moves, Move
  <2>. QED
    BY <2>1, <2>3, <2>4, <2>5, <2>6 DEF input
<1>5. CASE TIMER_INTERRUPT
  <2>1. PICK e \in Entity : timer[e] /\ timerinterrupt(e)
    BY <1>5 DEF TIMER_INTERRUPT, A_timerinterrupt, B_timerinterrupt, Entity
  <2>2. nsim' = nsim /\ arrival' = arrival /\ arrival' \in Entity
    BY <1>1, <1>5 DEF TIMER_INTERRUPT, Typed
  <2>3. PICK q \in Resent(e) : inflight' = [inflight EXCEPT ![Other(e)] = q]
    BY <2>1 DEF timerinterrupt
  <2>4. Carried(inflight[Other(e)], Outstanding(e), q)
    BY <1>1, <2>3, ResentResends, GivesWindow
  <2>5. Resending(e)
    BY <2>1, <2>3, <2>4 DEF timerinterrupt, Resending, Gives
  <2>. QED
    BY <1>2, <2>2, <2>5 DEF Moves, Move
<1>. QED
  BY <1>3, <1>4, <1>5 DEF Next

\* The medium of the build with messages from A only does every kind of damage.
Medium == INSTANCE Layer3Proofs WITH CorruptForms <- {"payload", "seqnum", "acknum"}

\* All kinds of damage are the same ones there.
LEMMA MediumDamage ==
  /\ Medium!Forms = Forms /\ Medium!Pkt = Pkt
  /\ \A q : Medium!Packets(q) = Packets(q)
  /\ \A p, form : Medium!Damage(p, form) = Damage(p, form)
<1>1. Medium!Forms = Forms /\ Medium!Pkt = Pkt
  BY DEF Medium!Forms, Forms, Medium!Pkt, Pkt
<1>2. ASSUME NEW q PROVE Medium!Packets(q) = Packets(q)
  BY DEF Medium!Packets, Packets
<1>3. ASSUME NEW p, NEW form PROVE Medium!Damage(p, form) = Damage(p, form)
  BY DEF Medium!Damage, Damage, Medium!PayloadBytes, PayloadBytes, Medium!Z, Z,
         Medium!Garbage, Garbage
<1>. QED
  BY <1>1, <1>2, <1>3

LEMMA MediumCarried ==
  ASSUME NEW q, NEW ps, NEW r, Medium!Carried(q, ps, r)
  PROVE  Carried(q, ps, r)
  BY MediumDamage DEF Medium!Carried, Carried

LEMMA SimplexMedium ==
  ASSUME NEW queue, NEW p
  PROVE  Simplex!tolayer3(queue, p) = Medium!tolayer3(queue, p)
  BY DEF Simplex!tolayer3, Medium!tolayer3, Simplex!Damaged, Medium!Damaged,
         Simplex!Damage, Medium!Damage, Simplex!PayloadBytes, Medium!PayloadBytes,
         Simplex!Z, Medium!Z, Simplex!Garbage, Medium!Garbage

\* What its medium carries.
LEMMA SimplexCarried ==
  ASSUME Typed, NEW e \in Entity, NEW p \in Pkt, NEW q \in Simplex!tolayer3(inflight[Other(e)], p)
  PROVE  Carried(inflight[Other(e)], {p}, q)
<1>1. inflight[Other(e)] \in Seq(Medium!Pkt) /\ p \in Medium!Pkt
  BY OtherType, MediumDamage DEF Typed
<1>2. Medium!Carried(inflight[Other(e)], {p}, q)
  BY <1>1, InFlightAssumption, SimplexMedium, Medium!tolayer3Carried
<1>. QED
  BY <1>2, MediumCarried

LEMMA SimplexCarriedWindow ==
  ASSUME Typed, NEW e \in Entity, Counters(e), NEW q \in Simplex!Resent(e)
  PROVE  Carried(inflight[Other(e)], Outstanding(e), q)
<1>1. /\ inflight[Other(e)] \in Seq(Medium!Pkt)
      /\ window[e] \in [0..N - 1 -> Medium!Pkt]
  BY OtherType, MediumDamage DEF Typed, Slot
<1>2. base[e] \in Nat /\ nextseqnum[e] \in Nat /\ base[e] <= nextseqnum[e]
  BY DEF Typed, Counters
<1>. DEFINE lo == base[e]
           hi == nextseqnum[e]
           at == inflight[Other(e)]
           w == window[e]
           F == CHOOSE f : f = [last \in lo - 1..hi - 1 |->
                    IF last = lo - 1
                    THEN {at}
                    ELSE UNION {Simplex!tolayer3(t, w[last % N]) : t \in f[last - 1]}]
<1>3. q \in F[hi - 1]
  <2>1. Simplex!Other(e) = Other(e)
    BY DEF Simplex!Other, Other
  <2>. QED
    BY <2>1 DEF Simplex!Resent
<1>4. Medium!Solves(F, lo, hi - lo, at, w, N)
  <2>1. hi - lo \in Nat /\ lo - 1 + (hi - lo) = hi - 1
    BY <1>2
  <2>2. PICK f : Medium!Solves(f, lo, hi - lo, at, w, N)
    BY <1>2, <2>1, InFlightAssumption, Medium!ResendsDefined
  <2>3. ASSUME NEW S, NEW last
        PROVE  UNION {Simplex!tolayer3(t, w[last % N]) : t \in S} = Medium!Relay(S, w[last % N])
    BY SimplexMedium DEF Medium!Relay
  <2>4. ASSUME NEW g
        PROVE  Medium!Solves(g, lo, hi - lo, at, w, N) <=>
                 g = [last \in lo - 1..hi - 1 |->
                        IF last = lo - 1
                        THEN {at}
                        ELSE UNION {Simplex!tolayer3(t, w[last % N]) : t \in g[last - 1]}]
    <3>. DEFINE X(S, last) == UNION {Simplex!tolayer3(t, w[last % N]) : t \in S}
    <3>1. \A S, last : X(S, last) = Medium!Relay(S, w[last % N])
      BY <2>3
    <3>. HIDE DEF X, lo, hi, at, w
    <3>2. [last \in lo - 1..hi - 1 |-> IF last = lo - 1 THEN {at} ELSE X(g[last - 1], last)]
          = [last \in lo - 1..hi - 1 |->
                IF last = lo - 1 THEN {at} ELSE Medium!Relay(g[last - 1], w[last % N])]
      BY <3>1
    <3>. QED
      BY <2>1, <3>2 DEF X, Medium!Solves
  <2>. HIDE DEF lo, hi, at, w
  <2>. QED
    BY <2>2, <2>4
<1>. HIDE DEF F
<1>5. Medium!Carried(inflight[Other(e)], Medium!Sent(base[e], nextseqnum[e], window[e], N), q)
  BY <1>1, <1>2, <1>3, <1>4, WindowAssumption, InFlightAssumption, Medium!SolvesCarried
<1>6. Medium!Sent(base[e], nextseqnum[e], window[e], N) = Outstanding(e)
  BY DEF Medium!Sent, Sent, Outstanding
<1>. QED
  BY <1>5, <1>6, MediumCarried

\* The handlers of the two builds differ in the medium only.
LEMMA SimplexHandlers ==
  ASSUME NEW e \in Entity, NEW p
  PROVE  /\ Simplex!Other(e) = Other(e)
         /\ Simplex!Refuse(e) = Refuse(e)
         /\ Simplex!Discard(e, p) = Discard(e, p)
         /\ Simplex!Ack(e, p) = Ack(e, p)
         /\ Simplex!Deliver(e, p) = Deliver(e, p)
  BY DEF Simplex!Other, Other, Simplex!Refuse, Refuse, Simplex!WindowOpen, WindowOpen,
         Simplex!Discard, Discard, Simplex!Intact, Intact, Simplex!compute_checksum,
         compute_checksum, Simplex!Consume, Consume, Simplex!receiverVars, receiverVars,
         Simplex!Ack, Ack, Simplex!Acknowledges, Acknowledges, Simplex!TimerAfterAck,
         TimerAfterAck, Simplex!Deliver, Deliver, Simplex!InOrder, InOrder

\* Each event of the build with messages from A only is one of Moves, and the
\* messages from layer 5 stay A's.
LEMMA SimplexMoves ==
  ASSUME IInv, Simplex!Next
  PROVE  Moves(NSIMMAX + 1) /\ arrival' \in {"A", arrival}
<1>1. Typed /\ \A e \in Entity : Counters(e)
  BY DEF IInv
<1>2. nsim < NSIMMAX + 1
  BY DEF Simplex!Next, Simplex!FROM_LAYER5, Simplex!FROM_LAYER3, Simplex!TIMER_INTERRUPT,
         Simplex!Running
<1>3. CASE Simplex!FROM_LAYER5
  <2>. DEFINE d == Letters(nsim)
  <2>1. PICK e \in Entity : arrival = e /\ (Simplex!Send(e, d) \/ Simplex!Refuse(e))
    BY <1>3 DEF Simplex!FROM_LAYER5, Simplex!A_output, Simplex!B_output, Simplex!output,
       Entity, Simplex!Letters, Letters, Simplex!PayloadBytes, PayloadBytes
  <2>2. nsim' = nsim + 1 /\ arrival' = "A" /\ arrival' \in Entity
    BY <1>3 DEF Simplex!FROM_LAYER5, Simplex!generate_next_arrival, Entity
  <2>3. CASE Simplex!Send(e, d)
    <3>. DEFINE p == Packet(nextseqnum[e], Piggyback(e), d)
    <3>1. p \in Pkt
      <4>1. nextseqnum[e] \in Int /\ Piggyback(e) \in Int /\ nsim \in Nat
        BY <1>1, PiggybackType DEF Typed
      <4>2. d \in Int
        BY <4>1, LettersPayload, ZChangesPayload
      <4>. QED
        BY <4>1, <4>2, PacketType
    <3>. HIDE DEF d
    <3>2. p = Simplex!Packet(nextseqnum[e], Simplex!Piggyback(e), d)
      BY DEF Packet, Simplex!Packet, Piggyback, Simplex!Piggyback, NoAck, Simplex!NoAck
    <3>. HIDE DEF p
    <3>3. PICK q \in Simplex!tolayer3(inflight[Other(e)], p) :
            inflight' = [inflight EXCEPT ![Other(e)] = q]
      BY <2>3, <3>2, SimplexHandlers DEF Simplex!Send
    <3>4. Gives(e, {p})
      BY <1>1, <3>1, <3>3, SimplexCarried DEF Gives
    <3>5. Sending(e, d)
      BY <2>3, <3>2, <3>4 DEF p, Simplex!Send, Sending, Simplex!WindowOpen, WindowOpen
    <3>. QED
      BY <1>2, <2>1, <2>2, <3>5 DEF Moves, Move, d
  <2>4. CASE Simplex!Refuse(e)
    <3>1. Refuse(e)
      BY <2>4, SimplexHandlers
    <3>. QED
      BY <1>2, <2>1, <2>2, <3>1 DEF Moves, Move
  <2>. QED
    BY <2>1, <2>3, <2>4
<1>4. CASE Simplex!FROM_LAYER3
  <2>1. PICK e \in Entity : inflight[e] # <<>> /\ Simplex!input(e, Head(inflight[e]))
    BY <1>4 DEF Simplex!FROM_LAYER3, Simplex!A_input, Simplex!B_input, Entity
  <2>2. nsim' = nsim /\ arrival' = arrival /\ arrival' \in Entity
    BY <1>1, <1>4 DEF Simplex!FROM_LAYER3, Typed
  <2>3. CASE Simplex!Discard(e, Head(inflight[e]))
    <3>1. Ignoring(e)
      BY <2>3, SimplexHandlers DEF Discard, Ignoring
    <3>. QED
      BY <1>2, <2>1, <2>2, <3>1 DEF Moves, Move
  <2>4. CASE Simplex!Ack(e, Head(inflight[e])) \/ Simplex!Deliver(e, Head(inflight[e]))
    <3>1. Ack(e, Head(inflight[e])) \/ Deliver(e, Head(inflight[e]))
      BY <2>4, SimplexHandlers
    <3>. QED
      BY <1>2, <2>1, <2>2, <3>1 DEF Moves, Move
  <2>5. CASE Simplex!Reacknowledge(e, Head(inflight[e])) /\ LastDelivered(e) >= 0
    <3>. DEFINE p == Packet(0, LastDelivered(e), NUL)
    <3>1. p \in Pkt
      BY <1>1, PacketType DEF Typed, LastDelivered, NUL
    <3>2. p = Simplex!Packet(0, Simplex!LastDelivered(e), Simplex!NUL)
      BY DEF Packet, Simplex!Packet, LastDelivered, Simplex!LastDelivered, NUL, Simplex!NUL
    <3>3. Simplex!LastDelivered(e) >= 0
      BY <2>5 DEF LastDelivered, Simplex!LastDelivered
    <3>. HIDE DEF p
    <3>4. PICK q \in Simplex!tolayer3(inflight[Other(e)], p) :
            inflight' = [inflight EXCEPT ![e] = Tail(@), ![Other(e)] = q]
      BY <2>5, <3>2, <3>3, SimplexHandlers DEF Simplex!Reacknowledge
    <3>5. ConsumesAndGives(e, {p})
      BY <1>1, <3>1, <3>4, SimplexCarried DEF ConsumesAndGives
    <3>6. Reacknowledging(e)
      BY <2>5, <3>5 DEF p, Simplex!Reacknowledge, Reacknowledging, Simplex!receiverVars, receiverVars
    <3>. QED
      BY <1>2, <2>1, <2>2, <3>6 DEF Moves, Move
  <2>6. CASE Simplex!Reacknowledge(e, Head(inflight[e])) /\ ~(LastDelivered(e) >= 0)
    <3>1. ~(Simplex!LastDelivered(e) >= 0)
      BY <2>6 DEF LastDelivered, Simplex!LastDelivered
    <3>2. Ignoring(e)
      BY <2>6, <3>1 DEF Simplex!Reacknowledge, Ignoring, Simplex!Consume, Consume,
         Simplex!receiverVars, receiverVars
    <3>. QED
      BY <1>2, <2>1, <2>2, <3>2 DEF Moves, Move
  <2>. QED
    BY <2>1, <2>3, <2>4, <2>5, <2>6 DEF Simplex!input
<1>5. CASE Simplex!TIMER_INTERRUPT
  <2>1. PICK e \in Entity : timer[e] /\ Simplex!timerinterrupt(e)
    BY <1>5 DEF Simplex!TIMER_INTERRUPT, Simplex!A_timerinterrupt, Simplex!B_timerinterrupt, Entity
  <2>2. nsim' = nsim /\ arrival' = arrival /\ arrival' \in Entity
    BY <1>1, <1>5 DEF Simplex!TIMER_INTERRUPT, Typed
  <2>3. PICK q \in Simplex!Resent(e) : inflight' = [inflight EXCEPT ![Other(e)] = q]
    BY <2>1, SimplexHandlers DEF Simplex!timerinterrupt
  <2>4. Carried(inflight[Other(e)], Outstanding(e), q)
    BY <1>1, <2>3, SimplexCarriedWindow
  <2>5. Resending(e)
    BY <2>1, <2>3, <2>4 DEF Simplex!timerinterrupt, Resending, Gives, Simplex!receiverVars, receiverVars
  <2>. QED
    BY <1>2, <2>2, <2>5 DEF Moves, Move
<1>. QED
  BY <1>3, <1>4, <1>5 DEF Simplex!Next

-----------------------------------------------------------------------------
(* Packets that travel stay genuine. *)

\* No step takes back what was numbered, accepted or delivered.
Grows ==
    \A e \in Entity :
        /\ nextseqnum[e] <= nextseqnum'[e]
        /\ expectedseqnum[e] <= expectedseqnum'[e]
        /\ \A k \in 1..nextseqnum[e] : accepted'[e][k] = accepted[e][k]

LEMMA GenuineStable ==
  ASSUME Typed, Typed', Grows, NEW e \in Entity, NEW p
  PROVE  /\ Genuine(e, p) => Genuine(e, p)'
         /\ IsData(e, p) => IsData(e, p)'
<1>1. /\ nextseqnum[e] \in Nat /\ nextseqnum'[e] \in Nat /\ nextseqnum[e] <= nextseqnum'[e]
      /\ expectedseqnum[e] \in Nat /\ expectedseqnum'[e] \in Nat
      /\ expectedseqnum[e] <= expectedseqnum'[e]
  BY DEF Typed, Grows
<1>2. IsAck(e, p) => IsAck(e, p)'
  BY <1>1 DEF IsAck
<1>3. ASSUME IsData(e, p) PROVE IsData(e, p)'
  <2>1. p.seqnum \in 0..nextseqnum[e] - 1 /\ p.seqnum \in 0..nextseqnum'[e] - 1
    BY <1>1, <1>3 DEF IsData
  <2>2. accepted'[e][p.seqnum + 1] = accepted[e][p.seqnum + 1]
    BY <1>1, <2>1 DEF Grows
  <2>3. Piggybacked(e, p.acknum)'
    BY <1>1, <1>3 DEF IsData, Piggybacked
  <2>. QED
    BY <1>3, <2>1, <2>2, <2>3 DEF IsData
<1>4. Intact(p)' <=> Intact(p)
  BY DEF Intact, compute_checksum
<1>. QED
  BY <1>2, <1>3, <1>4 DEF Genuine

\* A genuine packet is well formed: damage to it is detected.
LEMMA GenuineWellFormed ==
  ASSUME Typed, NEW e \in Entity, Counters(e), NEW p \in Pkt, Genuine(e, p)
  PROVE  WellFormed(p)
<1>1. nextseqnum[e] \in Nat /\ nextseqnum[e] <= 999
      /\ expectedseqnum[e] \in Nat /\ expectedseqnum[e] <= 999
  <2>1. nsim \in 0..999 /\ nextseqnum[e] \in Nat /\ expectedseqnum[e] \in Nat
    BY DEF Typed, NoAck
  <2>2. nextseqnum[e] <= nsim /\ expectedseqnum[e] <= 999
    BY DEF Counters, NoAck
  <2>. QED
    BY <2>1, <2>2
<1>2. CASE IsData(e, p)
  <2>1. p.seqnum \in 0..nextseqnum[e] - 1 /\ p.acknum <= 999
    BY <1>1, <1>2 DEF IsData, Piggybacked, NoAck
  <2>2. p.payload \in Payloads
    <3>1. accepted[e] \in Seq(Payloads) /\ Len(accepted[e]) = nextseqnum[e]
      BY DEF Typed, Counters
    <3>2. p.seqnum + 1 \in 1..nextseqnum[e]
      BY <1>1, <2>1
    <3>3. accepted[e][p.seqnum + 1] \in Payloads
      BY <3>1, <3>2, ElementOfSeq
    <3>. QED
      BY <1>2, <3>3 DEF IsData
  <2>. QED
    BY <1>1, <2>1, <2>2 DEF WellFormed, Genuine, Garbage, Pkt
<1>3. CASE IsAck(e, p)
  BY <1>1, <1>3 DEF IsAck, WellFormed, Genuine, Garbage, Payloads, Pkt
<1>. QED
  BY <1>2, <1>3 DEF Genuine

\* What travels from f after a step that adds damaged and genuine packets only.
LEMMA TransitStable ==
  ASSUME Typed, Typed', Grows, NEW f \in Entity, TransitGenuine(f),
         \A x \in Packets(inflight'[Other(f)]) :
             x \in Packets(inflight[Other(f)]) \/ ~Intact(x) \/ Genuine(f, x)'
  PROVE  TransitGenuine(f)'
<1>. SUFFICES ASSUME NEW x \in Packets(inflight'[Other(f)]), Intact(x)
              PROVE  Genuine(f, x)'
  BY DEF TransitGenuine, Packets, Intact, compute_checksum
<1>1. CASE x \in Packets(inflight[Other(f)])
  BY <1>1, GenuineStable DEF TransitGenuine
<1>. QED
  BY <1>1

\* Packets that e gives to the medium, perhaps after taking one.
LEMMA GivenTransit ==
  ASSUME Typed, Typed', Grows, NEW e \in Entity, \A f \in Entity : TransitGenuine(f),
         NEW ps, \A p \in ps : WellFormed(p) /\ Genuine(e, p)',
         \/ Gives(e, ps)
         \/ inflight[e] # <<>> /\ ConsumesAndGives(e, ps)
  PROVE  \A f \in Entity : TransitGenuine(f)'
<1>1. PICK q : /\ Carried(inflight[Other(e)], ps, q)
              /\ \/ inflight' = [inflight EXCEPT ![Other(e)] = q]
                 \/ /\ inflight[e] # <<>>
                    /\ inflight' = [inflight EXCEPT ![e] = Tail(@), ![Other(e)] = q]
  BY DEF Gives, ConsumesAndGives
<1>2. /\ inflight \in [Entity -> Seq(Pkt)] /\ Other(e) \in Entity /\ Other(e) # e
      /\ Other(Other(e)) = e
  BY OtherType DEF Typed
<1>3. inflight'[Other(e)] = q /\ Packets(inflight'[e]) \subseteq Packets(inflight[e])
  BY <1>1, <1>2, TailPackets
<1>4. ASSUME NEW f \in Entity PROVE TransitGenuine(f)'
  <2>1. CASE f = e
    <3>1. ASSUME NEW x \in Packets(q), Intact(x)
          PROVE  x \in Packets(inflight[Other(e)]) \/ x \in ps
      BY <1>1, <3>1, CarriedIntact
    <3>. QED
      BY <1>3, <2>1, <3>1, TransitStable
  <2>2. CASE f = Other(e)
    BY <1>2, <1>3, <2>2, TransitStable
  <2>. QED
    BY <2>1, <2>2 DEF Entity, Other
<1>. QED
  BY <1>4

\* Nothing given to the medium, and perhaps one packet taken.
LEMMA TakenTransit ==
  ASSUME Typed, Typed', Grows, NEW e \in Entity, \A f \in Entity : TransitGenuine(f),
         \/ inflight' = inflight
         \/ inflight[e] # <<>> /\ Consume(e)
  PROVE  \A f \in Entity : TransitGenuine(f)'
<1>1. ASSUME NEW f \in Entity PROVE Packets(inflight'[f]) \subseteq Packets(inflight[f])
  <2>1. inflight \in [Entity -> Seq(Pkt)]
    BY DEF Typed
  <2>2. CASE inflight' = inflight
    BY <2>2
  <2>3. CASE inflight[e] # <<>> /\ inflight' = [inflight EXCEPT ![e] = Tail(@)]
    <3>1. CASE f = e
      <4>1. inflight'[f] = Tail(inflight[f])
        BY <2>1, <2>3, <3>1
      <4>. QED
        BY <2>1, <2>3, <3>1, <4>1, TailPackets
    <3>2. CASE f # e
      BY <2>1, <2>3, <3>2
    <3>. QED
      BY <3>1, <3>2
  <2>. QED
    BY <2>2, <2>3 DEF Consume
<1>. QED
  BY <1>1, OtherType, TransitStable

\* The first packet that travels to e, if it is intact, is one of Other(e)'s.
LEMMA HeadGenuine ==
  ASSUME IInv, NEW e \in Entity, inflight[e] # <<>>, Intact(Head(inflight[e]))
  PROVE  Head(inflight[e]) \in Pkt /\ Genuine(Other(e), Head(inflight[e]))
<1>1. inflight[e] \in Seq(Pkt) /\ TransitGenuine(Other(e)) /\ Other(Other(e)) = e
  BY OtherType DEF IInv, Typed
<1>. QED
  BY <1>1, TailPackets DEF TransitGenuine

-----------------------------------------------------------------------------
(* Each event keeps the invariant. *)

\* The parts of the invariant, as facts about one entity.
LEMMA Numbers ==
  ASSUME IInv, NEW e \in Entity
  PROVE  /\ nsim \in Nat /\ nsim <= NoAck
         /\ base[e] \in Nat /\ nextseqnum[e] \in Nat
         /\ base[e] <= nextseqnum[e] /\ nextseqnum[e] <= base[e] + N
         /\ nextseqnum[e] <= nsim
         /\ expectedseqnum[e] \in Nat /\ expectedseqnum[e] <= NoAck
         /\ lastACKToSend[e] \in Nat \cup {-1} /\ lastACKToSend[e] < expectedseqnum[e]
<1>1. Typed /\ Counters(e)
  BY DEF IInv
<1>2. /\ nsim \in 0..NoAck /\ base[e] \in Nat /\ nextseqnum[e] \in Nat
      /\ expectedseqnum[e] \in Nat /\ lastACKToSend[e] \in Nat \cup {-1}
  BY <1>1 DEF Typed
<1>3. nsim \in Nat /\ nsim <= NoAck
  BY <1>2 DEF NoAck
<1>4. /\ nextseqnum[e] <= nsim
      /\ base[e] <= nextseqnum[e] /\ nextseqnum[e] <= base[e] + N
      /\ expectedseqnum[e] <= NoAck /\ lastACKToSend[e] < expectedseqnum[e]
  BY <1>1 DEF Counters
<1>. QED
  BY <1>2, <1>3, <1>4

\* Handed and the window stay for an entity when their variables do, but for
\* messages accepted since.
LEMMA HandedStable ==
  ASSUME IInv, Typed', Grows, NEW f \in Entity,
         layer5'[f] = layer5[f], expectedseqnum'[f] = expectedseqnum[f],
         Len(accepted'[Other(f)]) >= Len(accepted[Other(f)])
  PROVE  Handed(f)'
<1>. DEFINE o == Other(f)
<1>1. Handed(f) /\ o \in Entity /\ Len(accepted[o]) = nextseqnum[o]
  BY OtherType DEF IInv, Counters
<1>2. /\ expectedseqnum[f] \in Nat /\ nextseqnum[o] \in Nat
      /\ Len(accepted'[o]) \in Nat
  <2>1. accepted'[o] \in Seq(Payloads)
    BY <1>1 DEF Typed
  <2>. QED
    BY <1>1, <2>1, Numbers
<1>3. Len(layer5'[f]) = expectedseqnum'[f]
  BY <1>1 DEF Handed
<1>4. ASSUME NEW k \in 1..expectedseqnum'[f], ~(k = 1 /\ layer5'[f][k] = NUL)
      PROVE  k <= Len(accepted'[o]) /\ layer5'[f][k] = accepted'[o][k]
  <2>1. k <= Len(accepted[o]) /\ layer5[f][k] = accepted[o][k]
    BY <1>1, <1>4 DEF Handed
  <2>2. k \in 1..nextseqnum[o]
    BY <1>1, <1>2, <1>4, <2>1
  <2>3. accepted'[o][k] = accepted[o][k]
    BY <1>1, <2>2 DEF Grows
  <2>. QED
    BY <1>1, <1>2, <1>4, <2>1, <2>2, <2>3
<1>. QED
  BY <1>3, <1>4 DEF Handed

LEMMA WindowStable ==
  ASSUME IInv, Typed', Grows, NEW f \in Entity,
         window'[f] = window[f], nextseqnum'[f] = nextseqnum[f], base[f] <= base'[f]
  PROVE  WindowKept(f)'
<1>. SUFFICES ASSUME NEW s \in base'[f]..nextseqnum'[f] - 1
              PROVE  /\ Genuine(f, window[f][s % N])'
                     /\ IsData(f, window[f][s % N])'
                     /\ (window[f][s % N].seqnum = s)'
  BY DEF WindowKept
<1>1. base[f] \in Nat /\ base'[f] \in Nat /\ nextseqnum[f] \in Nat
  BY Numbers DEF Typed
<1>2. s \in base[f]..nextseqnum[f] - 1
  BY <1>1
<1>3. PICK w : w = window[f][s % N]
  OBVIOUS
<1>4. Genuine(f, w) /\ IsData(f, w) /\ w.seqnum = s
  BY <1>2, <1>3 DEF IInv, WindowKept
<1>5. Genuine(f, w)' /\ IsData(f, w)'
  BY <1>4, GenuineStable DEF IInv
<1>6. window'[f][s % N] = w
  BY <1>3
<1>. QED
  BY <1>4, <1>5, <1>6 DEF Genuine, IsData, IsAck, Intact, compute_checksum, Piggybacked

\* A message is numbered, kept and sent.
LEMMA SendingKeeps ==
  ASSUME IInv, nsim < NoAck, nsim' = nsim + 1, arrival' \in Entity,
         NEW e \in Entity, NEW d \in Payloads, Sending(e, d)
  PROVE  IInv'
<1>0. PICK n, a, p : n = nextseqnum[e] /\ a = Piggyback(e) /\ p = Packet(n, a, d)
  OBVIOUS
<1>1. /\ n \in Nat /\ nsim \in Nat /\ base[e] \in Nat /\ base[e] <= n /\ n <= nsim
      /\ n < base[e] + N /\ nsim < 999 /\ n < 999
  BY <1>0, Numbers DEF Sending, WindowOpen, NoAck
<1>2. /\ base \in [Entity -> Nat] /\ nextseqnum \in [Entity -> Nat]
      /\ expectedseqnum \in [Entity -> Nat] /\ lastACKToSend \in [Entity -> Nat \cup {-1}]
  BY DEF IInv, Typed
<1>17. Typed
  BY DEF IInv
<1>3. a \in Int /\ a # Garbage /\ Piggybacked(e, a)
  <2>1. CASE e = "A"
    <3>1. /\ lastACKToSend[e] \in Nat \cup {-1} /\ lastACKToSend[e] < expectedseqnum[e]
          /\ expectedseqnum[e] \in Nat /\ expectedseqnum[e] <= 999
      BY Numbers DEF NoAck
    <3>. QED
      BY <1>0, <2>1, <3>1 DEF Piggyback, Piggybacked, NoAck, Garbage
  <2>2. CASE e # "A"
    BY <1>0, <2>2 DEF Piggyback, Piggybacked, Garbage
  <2>. QED
    BY <2>1, <2>2
<1>4. WellFormed(p) /\ p \in Pkt /\ p.seqnum = n /\ p.payload = d /\ p.acknum = a
  <2>1. n # Garbage
    BY <1>1 DEF Garbage
  <2>. QED
    BY <1>0, <1>1, <1>3, <2>1, PacketWellFormed DEF WellFormed, Packet
<1>5. /\ nextseqnum' = [nextseqnum EXCEPT ![e] = n + 1]
      /\ accepted' = [accepted EXCEPT ![e] = Append(@, d)]
      /\ window' = [window EXCEPT ![e][n % N] = p]
      /\ base' = base /\ expectedseqnum' = expectedseqnum /\ layer5' = layer5
      /\ lastACKToSend' = [lastACKToSend EXCEPT !["A"] = IF e = "A" THEN -1 ELSE @]
      /\ timer' = [timer EXCEPT ![e] = @ \/ base[e] = n]
      /\ Gives(e, {p})
  BY <1>0 DEF Sending
<1>6. Typed'
  <2>1. nsim' \in 0..NoAck /\ nextseqnum' \in [Entity -> Nat]
    <3>1. nsim' \in 0..NoAck /\ n + 1 \in Nat
      BY <1>1 DEF NoAck
    <3>. QED
      BY <1>2, <1>5, <3>1
  <2>2. window' \in [Entity -> [Slot -> Pkt]]
    BY <1>1, <1>17, <1>4, <1>5, SlotType DEF Typed
  <2>3. timer' \in [Entity -> BOOLEAN]
    BY <1>17, <1>5, Zenon DEF Typed
  <2>4. lastACKToSend' \in [Entity -> Nat \cup {-1}]
    BY <1>2, <1>5
  <2>5. accepted' \in [Entity -> Seq(Payloads)]
    BY <1>17, <1>5 DEF Typed
  <2>6. inflight' \in [Entity -> Seq(Pkt)]
    <3>1. PICK q : Carried(inflight[Other(e)], {p}, q) /\ inflight' = [inflight EXCEPT ![Other(e)] = q]
      BY <1>5 DEF Gives
    <3>. QED
      BY <1>17, <3>1 DEF Typed, Carried
  <2>. QED
    BY <1>17, <1>5, <2>1, <2>2, <2>3, <2>4, <2>5, <2>6 DEF Typed
<1>7. /\ nextseqnum'[e] = n + 1
      /\ \A f \in Entity \ {e} : nextseqnum'[f] = nextseqnum[f]
      /\ \A f \in Entity : base'[f] = base[f] /\ expectedseqnum'[f] = expectedseqnum[f]
  BY <1>0, <1>2, <1>5
<1>8. /\ Len(accepted[e]) = n /\ Len(accepted'[e]) = n + 1 /\ accepted'[e][n + 1] = d
      /\ \A k \in 1..n : accepted'[e][k] = accepted[e][k]
      /\ \A f \in Entity \ {e} : accepted'[f] = accepted[f]
  <2>1. accepted[e] \in Seq(Payloads) /\ Len(accepted[e]) = n
    BY <1>0, <1>17 DEF Typed, IInv, Counters
  <2>2. accepted'[e] = Append(accepted[e], d) /\ \A f \in Entity \ {e} : accepted'[f] = accepted[f]
    BY <1>17, <1>5 DEF Typed
  <2>. QED
    BY <2>1, <2>2
<1>9. Grows
  <2>1. ASSUME NEW f \in Entity, f # e
        PROVE  /\ nextseqnum[f] <= nextseqnum'[f]
               /\ \A k \in 1..nextseqnum[f] : accepted'[f][k] = accepted[f][k]
    BY <1>0, <1>7, <1>8, <2>1, Numbers
  <2>2. nextseqnum[e] <= nextseqnum'[e]
    BY <1>0, <1>1, <1>7
  <2>3. \A f \in Entity : expectedseqnum[f] <= expectedseqnum'[f]
    BY <1>7, Numbers
  <2>. QED
    BY <1>0, <1>8, <2>1, <2>2, <2>3 DEF Grows
<1>10. Genuine(e, p)' /\ IsData(e, p)'
  <2>1. Piggybacked(e, p.acknum)'
    BY <1>3, <1>4, <1>7 DEF Piggybacked
  <2>2. IsData(e, p)'
    <3>1. n \in 0..nextseqnum'[e] - 1
      BY <1>1, <1>7
    <3>. QED
      BY <1>4, <1>8, <2>1, <3>1 DEF IsData
  <2>. QED
    BY <1>4, <2>2 DEF Genuine, WellFormed, Intact, compute_checksum
<1>11. ASSUME NEW f \in Entity PROVE Counters(f)'
  <2>1. lastACKToSend'[f] < expectedseqnum'[f]
    <3>1. lastACKToSend'[f] \in {-1, lastACKToSend[f]}
      BY <1>2, <1>5
    <3>. QED
      BY <1>7, <3>1, Numbers
  <2>2. CASE f = e
    <3>1. expectedseqnum'[e] <= NoAck /\ n + 1 <= nsim + 1 /\ base[e] <= n + 1 /\ n + 1 <= base[e] + N
      BY <1>1, <1>7, Numbers, WindowAssumption
    <3>. QED
      BY <1>7, <1>8, <2>1, <2>2, <3>1 DEF Counters
  <2>3. CASE f # e
    <3>1. Counters(f)
      BY DEF IInv
    <3>2. nextseqnum[f] <= nsim'
      BY <1>1, Numbers
    <3>. QED
      BY <1>1, <1>7, <1>8, <2>1, <2>3, <3>1, <3>2 DEF Counters
  <2>. QED
    BY <2>2, <2>3
<1>12. ASSUME NEW f \in Entity PROVE WindowKept(f)'
  <2>1. CASE f # e
    <3>1. window'[f] = window[f]
      BY <1>17, <1>5, <2>1 DEF Typed
    <3>2. nextseqnum'[f] = nextseqnum[f] /\ base[f] <= base'[f]
      BY <1>7, <2>1, Numbers
    <3>. QED
      BY <1>6, <1>9, <3>1, <3>2, WindowStable
  <2>2. CASE f = e
    <3>. SUFFICES ASSUME NEW s \in base'[e]..nextseqnum'[e] - 1
                  PROVE  /\ Genuine(e, window[e][s % N])'
                         /\ IsData(e, window[e][s % N])'
                         /\ (window[e][s % N].seqnum = s)'
      BY <2>2 DEF WindowKept
    <3>1. s \in base[e]..n /\ s \in Nat
      BY <1>1, <1>7
    <3>2. PICK w : w = window'[e][s % N]
      OBVIOUS
    <3>3. Genuine(e, w)' /\ IsData(e, w)' /\ w.seqnum = s
      <4>1. CASE s = n
        <5>1. w = p
          BY <1>1, <1>17, <1>5, <3>2, <4>1, SlotType DEF Typed
        <5>. QED
          BY <1>4, <1>10, <4>1, <5>1
      <4>2. CASE s # n
        <5>1. s % N # n % N
          <6>1. s < n + N /\ n < s + N
            BY <1>1, <3>1, WindowAssumption
          <6>. QED
            BY <1>1, <3>1, <4>2, <6>1, SameSlot
        <5>2. w = window[e][s % N]
          BY <1>1, <1>17, <1>5, <3>1, <3>2, <5>1, SlotType DEF Typed
        <5>3. s \in base[e]..n - 1
          BY <1>1, <3>1, <4>2
        <5>4. Genuine(e, w) /\ IsData(e, w) /\ w.seqnum = s
          BY <1>0, <5>2, <5>3 DEF IInv, WindowKept
        <5>. QED
          BY <1>17, <1>6, <1>9, <5>4, GenuineStable
      <4>. QED
        BY <4>1, <4>2
    <3>. QED
      BY <3>2, <3>3 DEF Genuine, IsData, IsAck, Intact, compute_checksum, Piggybacked
  <2>. QED
    BY <2>1, <2>2
<1>13. \A f \in Entity : TransitGenuine(f)'
  <2>1. \A f \in Entity : TransitGenuine(f)
    BY DEF IInv
  <2>2. \A x \in {p} : WellFormed(x) /\ Genuine(e, x)'
    BY <1>4, <1>10
  <2>. QED
    BY <1>17, <1>5, <1>6, <1>9, <2>1, <2>2, GivenTransit
<1>14. ASSUME NEW f \in Entity PROVE Handed(f)'
  <2>1. Len(accepted'[Other(f)]) >= Len(accepted[Other(f)])
    <3>1. Other(f) \in Entity /\ Len(accepted[Other(f)]) = nextseqnum[Other(f)]
      BY OtherType DEF IInv, Counters
    <3>2. CASE Other(f) = e
      BY <1>1, <1>8, <3>2
    <3>3. CASE Other(f) # e
      BY <1>8, <3>1, <3>3, Numbers
    <3>. QED
      BY <3>2, <3>3
  <2>. QED
    BY <1>5, <1>6, <1>7, <1>9, <2>1, HandedStable
<1>15. TimerIffOutstanding'
  <2>1. ASSUME NEW f \in Entity PROVE timer'[f] <=> base'[f] < nextseqnum'[f]
    <3>1. timer[f] <=> base[f] < nextseqnum[f]
      BY DEF IInv, TimerIffOutstanding
    <3>2. CASE f # e
      <4>1. timer'[f] <=> timer[f]
        BY <1>17, <1>5, <3>2 DEF Typed
      <4>. QED
        BY <1>7, <3>1, <3>2, <4>1
    <3>3. CASE f = e
      <4>1. base'[f] < nextseqnum'[f] /\ (base[e] < n \/ base[e] = n)
        BY <1>1, <1>7, <3>3
      <4>2. timer'[e] <=> timer[e] \/ base[e] = n
        BY <1>17, <1>5, Zenon DEF Typed
      <4>. QED
        BY <1>0, <3>1, <3>3, <4>1, <4>2, Zenon
    <3>. QED
      BY <3>2, <3>3
  <2>. QED
    BY <2>1 DEF TimerIffOutstanding
<1>16. OnlyFirstAckedEarly'
  BY <1>5 DEF IInv, OnlyFirstAckedEarly
<1>. QED
  BY <1>6, <1>11, <1>12, <1>13, <1>14, <1>15, <1>16 DEF IInv

\* What a step that hands nothing over and numbers nothing has to show.
LEMMA QuietKeeps ==
  ASSUME IInv, Typed', nsim' = nsim,
         UNCHANGED <<nextseqnum, window, receiverVars, accepted>>,
         \A f \in Entity : base[f] <= base'[f] /\ base'[f] <= nextseqnum[f],
         \A f \in Entity : TransitGenuine(f)',
         TimerIffOutstanding', OnlyFirstAckedEarly'
  PROVE  IInv'
<1>1. Grows
  BY Numbers DEF Grows, receiverVars
<1>2. ASSUME NEW f \in Entity PROVE Counters(f)'
  <2>1. Counters(f)
    BY DEF IInv
  <2>2. base[f] <= base'[f] /\ base'[f] <= nextseqnum[f] /\ base'[f] \in Nat
    BY DEF Typed
  <2>3. nextseqnum[f] <= base'[f] + N
    BY <2>2, Numbers, WindowAssumption
  <2>. QED
    BY <2>1, <2>2, <2>3 DEF Counters, receiverVars
<1>3. ASSUME NEW f \in Entity PROVE WindowKept(f)'
  BY <1>1, WindowStable
<1>4. ASSUME NEW f \in Entity PROVE Handed(f)'
  <2>1. Handed(f)
    BY DEF IInv
  <2>. QED
    BY <2>1 DEF Handed, receiverVars
<1>. QED
  BY <1>2, <1>3, <1>4 DEF IInv

\* An acknowledgement taken: the packets up to its number leave the window.
LEMMA AckKeeps ==
  ASSUME IInv, nsim < NoAck, nsim' = nsim, arrival' = arrival,
         NEW e \in Entity, inflight[e] # <<>>, Ack(e, Head(inflight[e]))
  PROVE  IInv'
<1>1. PICK o, p : o = Other(e) /\ p = Head(inflight[e])
  OBVIOUS
<1>2. o \in Entity /\ o # e /\ p \in Pkt /\ Genuine(o, p)
  BY <1>1, OtherType, HeadGenuine DEF Ack
<1>3. /\ p.acknum \in Int /\ base[e] <= p.acknum /\ p.acknum < nextseqnum[e]
      /\ base' = [base EXCEPT ![e] = p.acknum + 1]
      /\ timer' = [timer EXCEPT ![e] = p.acknum + 1 # nextseqnum[e]]
      /\ Consume(e)
      /\ UNCHANGED <<nextseqnum, window, receiverVars, accepted>>
  BY <1>1, <1>2 DEF Ack, Acknowledges, TimerAfterAck, Pkt
<1>4. /\ base \in [Entity -> Nat] /\ timer \in [Entity -> BOOLEAN] /\ Typed
      /\ base[e] \in Nat /\ nextseqnum[e] \in Nat /\ nextseqnum[e] < 999
      /\ expectedseqnum[o] \in Nat /\ base[e] <= nextseqnum[e]
  <2>1. base \in [Entity -> Nat] /\ timer \in [Entity -> BOOLEAN] /\ Typed
    BY DEF IInv, Typed
  <2>2. nsim < 999
    BY DEF NoAck
  <2>. QED
    BY <1>2, <2>1, <2>2, Numbers
<1>5. p.acknum + 1 <= expectedseqnum[o] \/ (o = "B" /\ p.acknum = 0)
  <2>1. CASE IsAck(o, p)
    BY <1>3, <1>4, <2>1 DEF IsAck
  <2>2. CASE IsData(o, p)
    BY <1>2, <1>3, <1>4, <2>2 DEF IsData, Piggybacked, NoAck, Entity
  <2>. QED
    BY <1>2, <2>1, <2>2 DEF Genuine
<1>6. p.acknum + 1 \in Nat /\ p.acknum + 1 <= nextseqnum[e]
  BY <1>3, <1>4
<1>7. base'[e] = p.acknum + 1 /\ \A f \in Entity \ {e} : base'[f] = base[f]
  BY <1>3, <1>4
<1>8. Typed'
  <2>1. base' \in [Entity -> Nat]
    BY <1>3, <1>4, <1>6
  <2>2. timer' \in [Entity -> BOOLEAN]
    BY <1>3, <1>4, Zenon
  <2>3. inflight' \in [Entity -> Seq(Pkt)]
    BY <1>3, <1>4, TailPackets DEF Typed, Consume
  <2>. QED
    BY <1>3, <1>4, <2>1, <2>2, <2>3 DEF Typed, receiverVars
<1>9. \A f \in Entity : base[f] <= base'[f] /\ base'[f] <= nextseqnum[f]
  BY <1>3, <1>4, <1>6, <1>7, Numbers
<1>10. \A f \in Entity : TransitGenuine(f)'
  <2>1. Grows
    BY <1>3, Numbers DEF Grows, receiverVars
  <2>. QED
    BY <1>3, <1>4, <1>8, <2>1, TakenTransit DEF IInv
<1>11. TimerIffOutstanding'
  <2>1. ASSUME NEW f \in Entity PROVE timer'[f] <=> base'[f] < nextseqnum'[f]
    <3>1. CASE f # e
      BY <1>3, <1>4, <1>7, <3>1 DEF IInv, TimerIffOutstanding
    <3>2. CASE f = e
      <4>1. p.acknum + 1 # nextseqnum[e] <=> p.acknum + 1 < nextseqnum[e]
        BY <1>3, <1>4
      <4>2. timer'[e] = (p.acknum + 1 # nextseqnum[e])
        BY <1>3, <1>4, Zenon
      <4>. QED
        BY <1>3, <1>7, <3>2, <4>1, <4>2
    <3>. QED
      BY <3>1, <3>2
  <2>. QED
    BY <2>1 DEF TimerIffOutstanding
<1>12. OnlyFirstAckedEarly'
  <2>1. CASE e = "A"
    <3>1. o = "B" /\ base'["B"] = base["B"] /\ base'["A"] = p.acknum + 1
      BY <1>2, <1>7, <2>1 DEF Entity
    <3>. QED
      BY <1>3, <1>4, <1>5, <3>1 DEF IInv, OnlyFirstAckedEarly, receiverVars
  <2>2. CASE e = "B"
    <3>1. o = "A" /\ base'["A"] = base["A"] /\ base'["B"] = p.acknum + 1
      BY <1>2, <1>7, <2>2 DEF Entity
    <3>. QED
      BY <1>3, <1>4, <1>5, <3>1 DEF IInv, OnlyFirstAckedEarly, receiverVars
  <2>. QED
    BY <2>1, <2>2 DEF Entity
<1>. QED
  BY <1>3, <1>8, <1>9, <1>10, <1>11, <1>12, QuietKeeps

\* A packet lost to the receiver, or a repeated acknowledgement sent for it.
LEMMA ReacknowledgingKeeps ==
  ASSUME IInv, nsim' = nsim, arrival' = arrival,
         NEW e \in Entity, inflight[e] # <<>>, Reacknowledging(e)
  PROVE  IInv'
<1>1. PICK p : p = Packet(0, LastDelivered(e), NUL)
  OBVIOUS
<1>2. /\ expectedseqnum[e] \in Nat /\ expectedseqnum[e] <= 999
      /\ expectedseqnum[e] - 1 >= 0
  BY Numbers DEF Reacknowledging, LastDelivered, NoAck
<1>3. /\ WellFormed(p) /\ p \in Pkt
      /\ p.seqnum = 0 /\ p.payload = NUL /\ p.acknum = expectedseqnum[e] - 1
  <2>1. NUL \in Payloads /\ 0 # Garbage /\ expectedseqnum[e] - 1 # Garbage
    BY <1>2 DEF Payloads, Garbage
  <2>2. p = Packet(0, expectedseqnum[e] - 1, NUL)
    BY <1>1 DEF LastDelivered
  <2>3. p.seqnum = 0 /\ p.payload = NUL /\ p.acknum = expectedseqnum[e] - 1
    BY <2>2 DEF Packet
  <2>4. expectedseqnum[e] - 1 \in Int /\ 0 \in Int
    BY <1>2
  <2>5. WellFormed(p)
    BY <2>1, <2>2, <2>4, PacketWellFormed
  <2>. QED
    BY <2>3, <2>5 DEF WellFormed
<1>4. Typed /\ inflight \in [Entity -> Seq(Pkt)] /\ \A f \in Entity : TransitGenuine(f)
  BY DEF IInv, Typed
<1>5. ConsumesAndGives(e, {p})
  BY <1>1 DEF Reacknowledging
<1>6. Typed'
  <2>1. PICK q : /\ Carried(inflight[Other(e)], {p}, q)
                /\ inflight' = [inflight EXCEPT ![e] = Tail(@), ![Other(e)] = q]
    BY <1>5 DEF ConsumesAndGives
  <2>2. inflight' \in [Entity -> Seq(Pkt)]
    BY <1>4, <2>1, TailPackets DEF Carried
  <2>. QED
    BY <1>4, <2>2 DEF Typed, Reacknowledging, receiverVars
<1>7. Grows
  BY Numbers DEF Grows, Reacknowledging, receiverVars
<1>8. Genuine(e, p)'
  <2>1. expectedseqnum' = expectedseqnum
    BY DEF Reacknowledging, receiverVars
  <2>2. p.acknum \in 0..expectedseqnum'[e] - 1
    BY <1>2, <1>3, <2>1
  <2>3. IsAck(e, p)'
    BY <1>3, <2>2 DEF IsAck
  <2>. QED
    BY <1>3, <2>3 DEF Genuine, WellFormed, Intact, compute_checksum
<1>9. \A f \in Entity : TransitGenuine(f)'
  <2>1. \A x \in {p} : WellFormed(x) /\ Genuine(e, x)'
    BY <1>3, <1>8
  <2>. QED
    BY <1>4, <1>5, <1>6, <1>7, <2>1, GivenTransit
<1>10. TimerIffOutstanding' /\ OnlyFirstAckedEarly'
  BY DEF IInv, TimerIffOutstanding, OnlyFirstAckedEarly, Reacknowledging, receiverVars
<1>. QED
  BY <1>6, <1>9, <1>10, Numbers, QuietKeeps DEF Reacknowledging, receiverVars

LEMMA IgnoringKeeps ==
  ASSUME IInv, nsim' = nsim, arrival' = arrival,
         NEW e \in Entity, inflight[e] # <<>>, Ignoring(e)
  PROVE  IInv'
<1>1. Typed /\ inflight \in [Entity -> Seq(Pkt)] /\ \A f \in Entity : TransitGenuine(f)
  BY DEF IInv, Typed
<1>2. Typed'
  <2>1. inflight' \in [Entity -> Seq(Pkt)]
    BY <1>1, TailPackets DEF Ignoring, Consume
  <2>. QED
    BY <1>1, <2>1 DEF Typed, Ignoring, receiverVars
<1>3. Grows
  BY Numbers DEF Grows, Ignoring, receiverVars
<1>4. \A f \in Entity : TransitGenuine(f)'
  BY <1>1, <1>2, <1>3, TakenTransit DEF Ignoring
<1>5. TimerIffOutstanding' /\ OnlyFirstAckedEarly'
  BY DEF IInv, TimerIffOutstanding, OnlyFirstAckedEarly, Ignoring, receiverVars
<1>. QED
  BY <1>2, <1>4, <1>5, Numbers, QuietKeeps DEF Ignoring, receiverVars

\* The window sent again.
LEMMA ResendingKeeps ==
  ASSUME IInv, nsim' = nsim, arrival' = arrival, NEW e \in Entity, Resending(e)
  PROVE  IInv'
<1>1. Typed /\ inflight \in [Entity -> Seq(Pkt)] /\ \A f \in Entity : TransitGenuine(f)
  BY DEF IInv, Typed
<1>2. timer' = timer
  <2>1. timer \in [Entity -> BOOLEAN] /\ timer[e] /\ timer' = [timer EXCEPT ![e] = TRUE]
    BY <1>1 DEF Typed, Resending
  <2>. QED
    BY <2>1
<1>3. Typed'
  <2>1. PICK q : /\ Carried(inflight[Other(e)], Outstanding(e), q)
                /\ inflight' = [inflight EXCEPT ![Other(e)] = q]
    BY DEF Resending, Gives
  <2>2. inflight' \in [Entity -> Seq(Pkt)]
    BY <1>1, <2>1 DEF Carried
  <2>. QED
    BY <1>1, <1>2, <2>2 DEF Typed, Resending, receiverVars
<1>4. Grows
  BY Numbers DEF Grows, Resending, receiverVars
<1>5. ASSUME NEW p \in Outstanding(e) PROVE WellFormed(p) /\ Genuine(e, p)'
  <2>1. PICK s \in base[e]..nextseqnum[e] - 1 : p = window[e][s % N]
    BY DEF Outstanding, Sent
  <2>2. Genuine(e, p)
    BY <2>1 DEF IInv, WindowKept
  <2>3. p \in Pkt
    <3>1. s \in Nat
      BY Numbers
    <3>. QED
      BY <1>1, <2>1, <3>1, SlotType DEF Typed
  <2>. QED
    BY <1>1, <1>3, <1>4, <2>2, <2>3, GenuineStable, GenuineWellFormed DEF IInv
<1>6. \A f \in Entity : TransitGenuine(f)'
  BY <1>1, <1>3, <1>4, <1>5, GivenTransit DEF Resending
<1>7. TimerIffOutstanding' /\ OnlyFirstAckedEarly'
  BY <1>2 DEF IInv, TimerIffOutstanding, OnlyFirstAckedEarly, Resending, receiverVars
<1>. QED
  BY <1>3, <1>6, <1>7, Numbers, QuietKeeps DEF Resending, receiverVars

\* The packet of the number expected is handed to layer 5.
LEMMA DeliverKeeps ==
  ASSUME IInv, nsim < NoAck, nsim' = nsim, arrival' = arrival,
         NEW e \in Entity, inflight[e] # <<>>, Deliver(e, Head(inflight[e]))
  PROVE  IInv'
<1>1. PICK o, p, x : o = Other(e) /\ p = Head(inflight[e]) /\ x = expectedseqnum[e]
  OBVIOUS
<1>2. o \in Entity /\ p \in Pkt /\ Genuine(o, p)
  BY <1>1, OtherType, HeadGenuine DEF Deliver
<1>3. /\ p.seqnum = x
      /\ layer5' = [layer5 EXCEPT ![e] = Append(@, p.payload)]
      /\ lastACKToSend' = [lastACKToSend EXCEPT ![e] = x]
      /\ expectedseqnum' = [expectedseqnum EXCEPT ![e] = x + 1]
      /\ Consume(e)
      /\ UNCHANGED <<base, nextseqnum, window, timer, accepted>>
  BY <1>1 DEF Deliver, InOrder
<1>4. /\ Typed /\ expectedseqnum \in [Entity -> Nat]
      /\ lastACKToSend \in [Entity -> Nat \cup {-1}] /\ Handed(e)
      /\ layer5 \in [Entity -> Seq(Int)] /\ inflight \in [Entity -> Seq(Pkt)]
  BY DEF IInv, Typed
<1>5. /\ x \in Nat
      /\ \/ IsData(o, p) /\ x + 1 <= nextseqnum[o] /\ p.payload = accepted[o][x + 1]
         \/ x = 0 /\ p.payload = NUL
  <2>1. x \in Nat /\ nextseqnum[o] \in Nat
    BY <1>1, <1>2, Numbers
  <2>2. CASE IsAck(o, p)
    BY <1>3, <2>1, <2>2 DEF IsAck
  <2>3. CASE IsData(o, p)
    BY <1>3, <2>1, <2>3 DEF IsData
  <2>. QED
    BY <1>2, <2>1, <2>2, <2>3 DEF Genuine
<1>6. x + 1 <= NoAck
  <2>1. nextseqnum[o] \in Nat /\ nextseqnum[o] <= nsim /\ nsim \in Nat /\ nsim < 999
    BY <1>2, Numbers DEF NoAck
  <2>. QED
    BY <1>5, <2>1 DEF NoAck
<1>7. /\ expectedseqnum'[e] = x + 1 /\ lastACKToSend'[e] = x
      /\ \A f \in Entity \ {e} :
            /\ expectedseqnum'[f] = expectedseqnum[f]
            /\ lastACKToSend'[f] = lastACKToSend[f]
            /\ layer5'[f] = layer5[f]
  BY <1>3, <1>4
<1>8. Typed'
  <2>1. expectedseqnum' \in [Entity -> Nat] /\ lastACKToSend' \in [Entity -> Nat \cup {-1}]
    <3>1. x + 1 \in Nat
      BY <1>5
    <3>. QED
      BY <1>3, <1>4, <1>5, <3>1
  <2>2. layer5' \in [Entity -> Seq(Int)]
    <3>1. p.payload \in Int
      BY <1>2 DEF Pkt
    <3>. QED
      BY <1>3, <1>4, <3>1
  <2>3. inflight' \in [Entity -> Seq(Pkt)]
    BY <1>3, <1>4, TailPackets DEF Consume
  <2>. QED
    BY <1>3, <1>4, <2>1, <2>2, <2>3 DEF Typed
<1>9. Grows
  <2>1. \A f \in Entity : expectedseqnum[f] <= expectedseqnum'[f]
    BY <1>1, <1>5, <1>7, Numbers
  <2>2. \A f \in Entity : nextseqnum[f] <= nextseqnum'[f]
    BY <1>3, Numbers
  <2>. QED
    BY <1>3, <2>1, <2>2 DEF Grows
<1>10. ASSUME NEW f \in Entity PROVE Counters(f)'
  <2>1. Counters(f)
    BY DEF IInv
  <2>2. expectedseqnum'[f] <= NoAck /\ lastACKToSend'[f] < expectedseqnum'[f]
    BY <1>5, <1>6, <1>7, Numbers
  <2>. QED
    BY <1>3, <2>1, <2>2 DEF Counters
<1>11. ASSUME NEW f \in Entity PROVE WindowKept(f)'
  BY <1>3, <1>8, <1>9, Numbers, WindowStable
<1>12. \A f \in Entity : TransitGenuine(f)'
  BY <1>3, <1>4, <1>8, <1>9, TakenTransit DEF IInv
<1>13. ASSUME NEW f \in Entity PROVE Handed(f)'
  <2>1. CASE f # e
    <3>1. Len(accepted'[Other(f)]) >= Len(accepted[Other(f)])
      <4>1. Len(accepted[Other(f)]) = nextseqnum[Other(f)] /\ nextseqnum[Other(f)] \in Nat
        BY OtherType, Numbers DEF IInv, Counters
      <4>. QED
        BY <1>3, <4>1
    <3>. QED
      BY <1>7, <1>8, <1>9, <2>1, <3>1, HandedStable
  <2>2. CASE f = e
    <3>1. Len(accepted[o]) = nextseqnum[o] /\ Len(layer5[e]) = x
      BY <1>1, <1>2, <1>4 DEF IInv, Counters, Handed
    <3>2. layer5'[e] = Append(layer5[e], p.payload) /\ layer5[e] \in Seq(Int) /\ p.payload \in Int
      BY <1>2, <1>3, <1>4 DEF Pkt
    <3>3. Len(layer5'[e]) = expectedseqnum'[e] /\ layer5'[e][x + 1] = p.payload
          /\ \A k \in 1..x : layer5'[e][k] = layer5[e][k]
      BY <1>7, <3>1, <3>2
    <3>4. ASSUME NEW k \in 1..x + 1, ~(k = 1 /\ layer5'[e][k] = NUL)
          PROVE  k <= nextseqnum[o] /\ layer5'[e][k] = accepted[o][k]
      <4>1. CASE k = x + 1
        BY <1>5, <3>3, <3>4, <4>1
      <4>2. CASE k # x + 1
        <5>1. k \in 1..x
          BY <1>5, <4>2
        <5>. QED
          BY <1>1, <1>4, <3>1, <3>3, <3>4, <5>1 DEF Handed
      <4>. QED
        BY <4>1, <4>2
    <3>. QED
      BY <1>1, <1>3, <1>7, <2>2, <3>1, <3>3, <3>4 DEF Handed
  <2>. QED
    BY <2>1, <2>2
<1>14. TimerIffOutstanding'
  BY <1>3 DEF IInv, TimerIffOutstanding
<1>15. OnlyFirstAckedEarly'
  <2>1. /\ base["A"] \in Nat /\ base["B"] \in Nat
        /\ expectedseqnum["A"] \in Nat /\ expectedseqnum["B"] \in Nat
    BY Numbers DEF Entity
  <2>2. CASE e = "A"
    BY <1>1, <1>3, <1>7, <2>1, <2>2 DEF IInv, OnlyFirstAckedEarly, Entity
  <2>3. CASE e = "B"
    BY <1>1, <1>3, <1>7, <2>1, <2>3 DEF IInv, OnlyFirstAckedEarly, Entity
  <2>. QED
    BY <2>2, <2>3 DEF Entity
<1>. QED
  BY <1>8, <1>10, <1>11, <1>12, <1>13, <1>14, <1>15 DEF IInv

\* The window is full: the message is counted and dropped.
LEMMA RefuseKeeps ==
  ASSUME IInv, nsim < NoAck, nsim' = nsim + 1, arrival' \in Entity,
         NEW e \in Entity, Refuse(e)
  PROVE  IInv'
<1>1. nsim \in Nat /\ nsim < 999 /\ nsim' = nsim + 1
  BY Numbers DEF NoAck, Entity
<1>2. Typed /\ UNCHANGED <<base, nextseqnum, window, receiverVars, timer, inflight, accepted>>
  BY DEF IInv, Refuse
<1>3. Typed'
  <2>1. nsim' \in 0..NoAck
    BY <1>1 DEF NoAck
  <2>. QED
    BY <1>2, <2>1 DEF Typed, receiverVars
<1>4. ASSUME NEW f \in Entity PROVE Counters(f)' /\ WindowKept(f)' /\ TransitGenuine(f)' /\ Handed(f)'
  <2>1. Counters(f) /\ WindowKept(f) /\ TransitGenuine(f) /\ Handed(f)
    BY DEF IInv
  <2>2. nextseqnum[f] <= nsim'
    BY <1>1, Numbers
  <2>3. Counters(f)' /\ Handed(f)'
    BY <1>2, <2>1, <2>2 DEF Counters, Handed, receiverVars
  <2>4. WindowKept(f)' /\ TransitGenuine(f)'
    BY <1>2, <2>1 DEF WindowKept, TransitGenuine, Genuine, IsData, IsAck, Piggybacked, Intact,
       compute_checksum, Packets, receiverVars
  <2>. QED
    BY <2>3, <2>4
<1>. QED
  BY <1>2, <1>3, <1>4 DEF IInv, TimerIffOutstanding, OnlyFirstAckedEarly, receiverVars

\* Every step of either build keeps the invariant.
LEMMA MovesKeep ==
  ASSUME IInv, NEW limit \in Nat, limit <= NoAck, Moves(limit)
  PROVE  IInv' /\ nsim' <= limit
<1>1. nsim < NoAck /\ nsim \in Nat /\ nsim < limit
  BY Numbers DEF Moves, NoAck, Entity
<1>2. PICK e \in Entity : Move(e)
  BY DEF Moves
<1>3. arrival' \in Entity
  BY DEF Moves
<1>4. CASE nsim' = nsim + 1 /\ arrival = e /\ (Sending(e, Letters(nsim)) \/ Refuse(e))
  BY <1>1, <1>3, <1>4, LettersPayload, SendingKeeps, RefuseKeeps
<1>5. CASE /\ nsim' = nsim /\ arrival' = arrival
           /\ inflight[e] # <<>>
           /\ \/ Ack(e, Head(inflight[e]))
              \/ Deliver(e, Head(inflight[e]))
              \/ Reacknowledging(e)
              \/ Ignoring(e)
  BY <1>1, <1>5, AckKeeps, DeliverKeeps, ReacknowledgingKeeps, IgnoringKeeps
<1>6. CASE nsim' = nsim /\ arrival' = arrival /\ Resending(e)
  BY <1>1, <1>6, ResendingKeeps
<1>. QED
  BY <1>2, <1>4, <1>5, <1>6 DEF Move

-----------------------------------------------------------------------------
(* With nothing sent by B. *)

\* What reaches A is an acknowledgement of something B delivered; what reaches
\* B before it delivered anything is A's first message.
LEMMA SimplexHead ==
  ASSUME IInv, SimplexInv, NEW e \in Entity, inflight[e] # <<>>, Intact(Head(inflight[e]))
  PROVE  /\ e = "A" => IsAck("B", Head(inflight[e]))
         /\ e = "B" /\ expectedseqnum["B"] = 0 => IsData("A", Head(inflight[e]))
<1>1. Genuine(Other(e), Head(inflight[e]))
  BY HeadGenuine
<1>2. expectedseqnum["A"] \in Nat /\ expectedseqnum["B"] \in Nat
  BY Numbers DEF Entity
<1>3. CASE e = "A"
  <2>1. ~IsData("B", Head(inflight[e]))
    BY DEF SimplexInv, IsData
  <2>. QED
    BY <1>1, <1>3, <2>1 DEF Genuine, Other
<1>4. CASE e = "B" /\ expectedseqnum["B"] = 0
  <2>1. ~IsAck("A", Head(inflight[e]))
    BY <1>2, <1>4 DEF SimplexInv, IsAck
  <2>. QED
    BY <1>1, <1>4, <2>1 DEF Genuine, Other
<1>. QED
  BY <1>3, <1>4

LEMMA SimplexKeeps ==
  ASSUME IInv, IInv', SimplexInv, NEW limit \in Nat, Moves(limit), arrival' \in {"A", arrival}
  PROVE  SimplexInv'
<1>1. /\ base \in [Entity -> Nat] /\ nextseqnum \in [Entity -> Nat]
      /\ expectedseqnum \in [Entity -> Nat]
  BY DEF IInv, Typed
<1>2. /\ base["A"] \in Nat /\ expectedseqnum["A"] \in Nat /\ expectedseqnum["B"] \in Nat
      /\ "A" \in Entity /\ "B" \in Entity
  BY <1>1 DEF Entity
<1>3. arrival' = "A"
  BY DEF SimplexInv
<1>4. Len(accepted["A"]) = nextseqnum["A"] /\ Len(layer5["B"]) = expectedseqnum["B"]
      /\ nextseqnum["A"] \in Nat /\ accepted["A"] \in Seq(Payloads) /\ layer5["B"] \in Seq(Int)
      /\ Typed
  BY <1>1, <1>2 DEF IInv, Counters, Handed, Typed
<1>5. PICK e \in Entity : Move(e)
  BY DEF Moves
<1>6. CASE arrival = e /\ Sending(e, Letters(nsim))
  <2>1. e = "A" /\ UNCHANGED <<base, expectedseqnum, layer5>>
        /\ nextseqnum'["B"] = nextseqnum["B"]
    BY <1>1, <1>2, <1>6 DEF SimplexInv, Sending
  <2>2. accepted'["A"] = Append(accepted["A"], Letters(nsim))
    BY <1>2, <1>4, <1>6, <2>1 DEF Sending, Typed
  <2>3. Len(accepted["A"]) >= 1 =>
          Len(accepted'["A"]) >= 1 /\ accepted'["A"][1] = accepted["A"][1]
    <3>1. nsim \in Nat
      BY Numbers
    <3>2. Letters(nsim) \in Payloads
      BY <3>1, LettersPayload
    <3>. QED
      BY <1>4, <2>2, <3>2
  <2>. QED
    BY <1>3, <2>1, <2>3 DEF SimplexInv
<1>7. CASE UNCHANGED <<base, nextseqnum, expectedseqnum, layer5, accepted>>
  BY <1>3, <1>7 DEF SimplexInv
<1>8. CASE inflight[e] # <<>> /\ Ack(e, Head(inflight[e]))
  <2>1. /\ UNCHANGED <<nextseqnum, expectedseqnum, layer5, accepted>>
        /\ base' = [base EXCEPT ![e] = Head(inflight[e]).acknum + 1]
        /\ Intact(Head(inflight[e]))
    BY <1>8 DEF Ack, receiverVars
  <2>2. base'["A"] <= expectedseqnum["B"]
    <3>1. CASE e = "A"
      <4>1. Head(inflight[e]).acknum \in 0..expectedseqnum["B"] - 1
        BY <1>8, <2>1, <3>1, SimplexHead DEF IsAck
      <4>2. base'["A"] = Head(inflight[e]).acknum + 1
        BY <1>1, <1>2, <2>1, <3>1
      <4>. QED
        BY <1>2, <4>1, <4>2
    <3>2. CASE e # "A"
      BY <1>1, <1>2, <2>1, <3>2 DEF SimplexInv
    <3>. QED
      BY <3>1, <3>2
  <2>. QED
    BY <1>3, <2>1, <2>2 DEF SimplexInv
<1>9. CASE inflight[e] # <<>> /\ Deliver(e, Head(inflight[e]))
  <2>. DEFINE p == Head(inflight[e])
  <2>1. /\ UNCHANGED <<base, nextseqnum, accepted>> /\ Intact(p)
        /\ p.seqnum = expectedseqnum[e]
        /\ layer5' = [layer5 EXCEPT ![e] = Append(@, p.payload)]
        /\ expectedseqnum' = [expectedseqnum EXCEPT ![e] = @ + 1]
    BY <1>9 DEF Deliver, InOrder
  <2>2. CASE e = "A"
    <3>1. expectedseqnum'["B"] = expectedseqnum["B"] /\ layer5'["B"] = layer5["B"]
      BY <1>1, <1>2, <1>4, <2>1, <2>2 DEF Typed
    <3>2. p.acknum \in 0..expectedseqnum["B"] - 1
      BY <1>9, <2>1, <2>2, SimplexHead DEF IsAck
    <3>3. expectedseqnum["B"] >= 1
      BY <1>2, <3>2
    <3>. QED
      BY <1>3, <2>1, <3>1, <3>3 DEF SimplexInv
  <2>3. CASE e = "B"
    <3>1. /\ expectedseqnum'["B"] = expectedseqnum["B"] + 1
          /\ expectedseqnum'["A"] = expectedseqnum["A"]
      BY <1>1, <1>2, <2>1, <2>3
    <3>2. layer5'["B"] = Append(layer5["B"], p.payload)
      BY <1>2, <1>4, <2>1, <2>3 DEF Typed
    <3>3. p \in Pkt
      BY <1>9, <2>1, HeadGenuine
    <3>4. p.payload \in Int
      BY <3>3 DEF Pkt
    <3>. HIDE DEF p
    <3>5. Len(accepted["A"]) >= 1 /\ layer5'["B"][1] = accepted["A"][1]
      <4>1. CASE expectedseqnum["B"] = 0
        <5>1. IsData("A", p)
          BY <1>9, <2>1, <2>3, <4>1, SimplexHead DEF p
        <5>2. p.seqnum = 0 /\ nextseqnum["A"] >= 1 /\ p.payload = accepted["A"][1]
          BY <1>4, <2>1, <2>3, <4>1, <5>1 DEF IsData
        <5>3. layer5'["B"][1] = p.payload
          BY <1>4, <3>2, <3>4, <4>1
        <5>. QED
          BY <1>4, <5>2, <5>3
      <4>2. CASE expectedseqnum["B"] # 0
        <5>1. Len(layer5["B"]) >= 1 /\ expectedseqnum["B"] >= 1
          BY <1>2, <1>4, <4>2
        <5>2. layer5'["B"][1] = layer5["B"][1]
          BY <1>4, <3>2, <3>4, <5>1
        <5>. QED
          BY <5>1, <5>2 DEF SimplexInv
      <4>. QED
        BY <4>1, <4>2
    <3>6. base["A"] <= expectedseqnum["B"] + 1 /\ expectedseqnum["B"] + 1 >= 1
      BY <1>2 DEF SimplexInv
    <3>. QED
      BY <1>3, <2>1, <3>1, <3>5, <3>6 DEF SimplexInv
  <2>. QED
    BY <2>2, <2>3 DEF Entity
<1>. QED
  BY <1>5, <1>6, <1>7, <1>8, <1>9 DEF Move, Refuse, Reacknowledging, Ignoring, Resending, receiverVars

-----------------------------------------------------------------------------
(* The theorems. *)

LEMMA InitInvariant == Init => IInv /\ nsim = 0
<1>. SUFFICES ASSUME Init PROVE IInv /\ nsim = 0
  OBVIOUS
<1>1. arrival \in Entity
  BY DEF Init, generate_next_arrival, Entity
<1>2. Packet(0, 0, NUL) \in Pkt
  BY PacketType DEF NUL
<1>3. Typed
  <2>1. window \in [Entity -> [Slot -> Pkt]]
    BY <1>2 DEF Init
  <2>2. <<>> \in Seq(Pkt) /\ <<>> \in Seq(Payloads) /\ <<>> \in Seq(Int)
    OBVIOUS
  <2>. QED
    BY <1>1, <2>1, <2>2 DEF Init, Typed, NoAck
<1>4. ASSUME NEW e \in Entity PROVE Counters(e) /\ WindowKept(e) /\ TransitGenuine(e) /\ Handed(e)
  <2>1. /\ base[e] = 0 /\ nextseqnum[e] = 0 /\ expectedseqnum[e] = 0 /\ lastACKToSend[e] = -1
        /\ accepted[e] = <<>> /\ layer5[e] = <<>> /\ nsim = 0 /\ inflight[Other(e)] = <<>>
    BY OtherType DEF Init
  <2>2. Counters(e)
    BY <2>1, WindowAssumption DEF Counters, NoAck
  <2>3. WindowKept(e) /\ Handed(e)
    BY <2>1 DEF WindowKept, Handed
  <2>4. TransitGenuine(e)
    BY <2>1 DEF TransitGenuine, Packets
  <2>. QED
    BY <2>2, <2>3, <2>4
<1>5. TimerIffOutstanding /\ OnlyFirstAckedEarly
  BY DEF Init, TimerIffOutstanding, OnlyFirstAckedEarly, Entity
<1>. QED
  BY <1>3, <1>4, <1>5 DEF IInv, Init

LEMMA SimplexInit == Simplex!Init => Init /\ SimplexInv
<1>. SUFFICES ASSUME Simplex!Init PROVE Init /\ SimplexInv
  OBVIOUS
<1>1. arrival = "A" /\ arrival \in generate_next_arrival
  BY DEF Simplex!Init, Simplex!generate_next_arrival, generate_next_arrival, Entity
<1>2. Init
  BY <1>1 DEF Init, Simplex!Init, Simplex!Entity, Entity, Simplex!Slot, Slot, Simplex!Packet, Packet, Simplex!NUL, NUL
<1>3. SimplexInv
  BY <1>1, <1>2 DEF SimplexInv, Init, Entity
<1>. QED
  BY <1>2, <1>3

LEMMA Stutters == IInv /\ UNCHANGED vars => IInv' /\ nsim' = nsim /\ (SimplexInv => SimplexInv')
<1>. SUFFICES ASSUME IInv, UNCHANGED vars PROVE IInv' /\ nsim' = nsim /\ (SimplexInv => SimplexInv')
  OBVIOUS
<1>1. UNCHANGED <<nsim, arrival, base, nextseqnum, window, expectedseqnum, lastACKToSend, layer5,
                  timer, inflight, accepted>>
  BY DEF vars, receiverVars
<1>2. Typed' /\ TimerIffOutstanding' /\ OnlyFirstAckedEarly'
  BY <1>1 DEF IInv, Typed, TimerIffOutstanding, OnlyFirstAckedEarly
<1>3. ASSUME NEW f \in Entity PROVE Counters(f)' /\ WindowKept(f)' /\ TransitGenuine(f)' /\ Handed(f)'
  <2>1. Counters(f) /\ WindowKept(f) /\ TransitGenuine(f) /\ Handed(f)
    BY DEF IInv
  <2>. QED
    BY <1>1, <2>1 DEF Counters, Handed, WindowKept, TransitGenuine, Genuine, IsData, IsAck,
       Piggybacked, Intact, compute_checksum, Packets
<1>. QED
  BY <1>1, <1>2, <1>3 DEF IInv, SimplexInv

\* The invariant of the build of GoBackN alone, in both directions or in one.
LEMMA Bidirectional == Spec => [](IInv /\ nsim <= NSIMMAX)
<1>. DEFINE Inv == IInv /\ nsim <= NSIMMAX
<1>1. NSIMMAX \in Nat /\ NSIMMAX <= NoAck
  BY NsimmaxAssumption DEF NoAck
<1>2. Init => Inv
  BY <1>1, InitInvariant
<1>3. Inv /\ [Next]_vars => Inv'
  BY <1>1, NextMoves, MovesKeep, Stutters
<1>. QED
  BY <1>2, <1>3, PTL DEF Spec

LEMMA BuildStep == BuildInv /\ BuildNext => BuildInv'
<1>. SUFFICES ASSUME BuildInv, BuildNext PROVE BuildInv'
  OBVIOUS
<1>1. NSIMMAX \in Nat /\ NSIMMAX <= NoAck /\ NSIMMAX + 1 \in Nat /\ NSIMMAX + 1 <= NoAck
  BY NsimmaxAssumption DEF NoAck
<1>2. CASE duplex
  BY <1>1, <1>2, NextMoves, MovesKeep DEF BuildInv, BuildNext
<1>3. CASE ~duplex
  <2>1. IInv /\ SimplexInv /\ Moves(NSIMMAX + 1) /\ arrival' \in {"A", arrival}
    BY <1>3, SimplexMoves DEF BuildInv, BuildNext
  <2>2. IInv' /\ nsim' <= NSIMMAX + 1 /\ SimplexInv'
    BY <1>1, <2>1, MovesKeep, SimplexKeeps
  <2>. QED
    BY <1>3, <2>2 DEF BuildInv, BuildNext
<1>. QED
  BY <1>2, <1>3

\* BuildInv is an invariant of both builds.
THEOREM BuildInvariant == BuildSpec => []BuildInv
<1>1. BuildInit => BuildInv
  <2>. SUFFICES ASSUME BuildInit PROVE BuildInv
    OBVIOUS
  <2>1. NSIMMAX \in Nat
    BY NsimmaxAssumption
  <2>2. Init /\ (~duplex => SimplexInv)
    BY SimplexInit DEF BuildInit
  <2>. QED
    BY <2>1, <2>2, InitInvariant DEF BuildInv
<1>2. BuildInv /\ UNCHANGED <<vars, duplex>> => BuildInv'
  BY Stutters DEF BuildInv
<1>. QED
  BY <1>1, <1>2, BuildStep, PTL DEF BuildSpec

\* The timer of an entity runs exactly while its window holds packets: the
\* handlers start, stop and start it again so that none is left without one.
THEOREM TimerRuns == BuildSpec => []TimerIffOutstanding
<1>1. BuildInv => TimerIffOutstanding
  BY DEF BuildInv, IInv
<1>. QED
  BY <1>1, BuildInvariant, PTL

\* Each slot of the window keeps the packet of its number, so that a timeout
\* resends the messages first sent.
THEOREM WindowKeepsCopies == BuildSpec => []CopiesKept
<1>1. ASSUME BuildInv PROVE CopiesKept
  <2>1. ASSUME NEW e \in Entity
        PROVE  /\ base[e] <= nextseqnum[e] /\ nextseqnum[e] <= base[e] + N
               /\ \A s \in base[e]..nextseqnum[e] - 1 :
                     /\ window[e][s % N].seqnum = s
                     /\ window[e][s % N].payload = accepted[e][s + 1]
    BY <1>1, Numbers DEF BuildInv, IInv, WindowKept, IsData
  <2>. QED
    BY <2>1 DEF CopiesKept
<1>. QED
  BY <1>1, BuildInvariant, PTL

\* No packet leaves a window before it was delivered, but A's first when B
\* sends as well.
THEOREM AckedCorrectly == BuildSpec => []AckedWasDeliveredButFirst
<1>1. ASSUME BuildInv PROVE AckedWasDeliveredButFirst
  <2>1. CASE duplex
    BY <1>1, <2>1 DEF BuildInv, IInv, AckedWasDeliveredButFirst
  <2>2. CASE ~duplex
    BY <1>1, <2>2 DEF BuildInv, IInv, SimplexInv, AckedWasDeliveredButFirst, OnlyFirstAckedEarly,
       AckedWasDelivered, Entity, Other
  <2>. QED
    BY <2>1, <2>2
<1>. QED
  BY <1>1, BuildInvariant, PTL

\* The sequences of layer 5 and of the messages accepted are of integers.
LEMMA PayloadSequences == Seq(Payloads) \subseteq Seq(Int)
  BY ZChangesPayload

\* The messages reach layer 5 in order, each once and unchanged; with both
\* sides sending, the first may be the empty payload of an acknowledgement.
THEOREM DeliveredCorrectly == BuildSpec => []InOrderButFirst
<1>1. ASSUME BuildInv PROVE InOrderButFirst
  <2>1. Typed /\ nsim \in Nat /\ accepted \in [Entity -> Seq(Int)]
    BY <1>1, PayloadSequences, Numbers DEF BuildInv, IInv, Typed, Entity
  <2>2. CASE duplex
    <3>1. nsim \in 0..NSIMMAX
      BY <1>1, <2>1, <2>2, NsimmaxAssumption DEF BuildInv
    <3>2. TypeOK
      BY <2>1, <3>1 DEF Typed, TypeOK
    <3>. QED
      BY <1>1, <2>2, <3>2 DEF BuildInv, IInv, Handed, InOrderButFirst, DeliveredInOrderButFirst
  <2>3. CASE ~duplex
    <3>1. nsim \in 0..NSIMMAX + 1
      BY <1>1, <2>1, <2>3, NsimmaxAssumption DEF BuildInv
    <3>2. Simplex!TypeOK
      BY <2>1, <3>1 DEF Typed, Simplex!TypeOK, Simplex!Entity, Entity, Simplex!Slot, Slot, Simplex!Pkt, Pkt
    <3>3. DeliveredInOrder
      <4>. DEFINE n == expectedseqnum["B"]
                  a == accepted["A"]
                  l == layer5["B"]
      <4>1. n \in Nat /\ a \in Seq(Payloads) /\ l \in Seq(Int) /\ Handed("B") /\ SimplexInv
        BY <1>1, <2>1, <2>3 DEF Typed, BuildInv, IInv, Entity
      <4>2. Len(l) = n /\ \A k \in 1..n : k <= Len(a) /\ l[k] = a[k]
        BY <4>1 DEF Handed, SimplexInv, Other
      <4>. HIDE DEF n, a, l
      <4>3. n <= Len(a)
        BY <4>1, <4>2
      <4>4. l = SubSeq(a, 1, n)
        BY <4>1, <4>2, <4>3
      <4>. QED
        BY <4>3, <4>4 DEF DeliveredInOrder, n, a, l
    <3>. QED
      BY <2>3, <3>2, <3>3 DEF InOrderButFirst
  <2>. QED
    BY <2>2, <2>3
<1>. QED
  BY <1>1, BuildInvariant, PTL

\* The same for the program as it is built from one set of constants.
THEOREM GoBackNCorrect ==
  Spec => [](TypeOK /\ TimerIffOutstanding /\ OnlyFirstAckedEarly /\ DeliveredInOrderButFirst)
<1>1. ASSUME IInv, nsim <= NSIMMAX
      PROVE  TypeOK /\ TimerIffOutstanding /\ OnlyFirstAckedEarly /\ DeliveredInOrderButFirst
  <2>1. Typed /\ nsim \in 0..NSIMMAX /\ accepted \in [Entity -> Seq(Int)]
    BY <1>1, PayloadSequences, Numbers, NsimmaxAssumption DEF IInv, Typed, Entity
  <2>2. TypeOK
    BY <2>1 DEF Typed, TypeOK
  <2>. QED
    BY <1>1, <2>2 DEF IInv, Handed, DeliveredInOrderButFirst
<1>. QED
  BY <1>1, Bidirectional, PTL
=============================================================================
