------------------------------- MODULE Layer3 -------------------------------
(***************************************************************************)
(* The medium both transport simulators of Network/ run over: the packet,  *)
(* its checksum, and tolayer3, which may lose a packet, damage it, or      *)
(* queue it behind the packets already travelling to the same entity.      *)
(* The two programs carry identical copies of this code.                   *)
(*                                                                         *)
(* A payload is the sum of its 20 bytes: every payload the programs build  *)
(* repeats one byte (a letter, or NUL in an acknowledgement), so the sum   *)
(* determines it, and the sum is all compute_checksum reads.               *)
(***************************************************************************)
EXTENDS Integers, Sequences

CONSTANTS
    MaxInFlight,     \* bound: packets travelling to one entity at a time
    CorruptForms     \* which of tolayer3's three kinds of damage occur

ASSUME InFlightAssumption == MaxInFlight \in Nat
ASSUME CorruptAssumption == CorruptForms \subseteq {"payload", "seqnum", "acknum"}

Entity == {"A", "B"}

\* (AorB + 1) % 2: the entity a packet of e is delivered to.
Other(e) == IF e = "A" THEN "B" ELSE "A"

PayloadBytes == 20
NUL == 0
Z == 90
Garbage == 999999

\* The payload of 20 bytes 'a' + n % 26 that main builds for its n-th message.
Letters(n) == PayloadBytes * (97 + (n % 26))

\* struct pkt.
Pkt == [seqnum : Int, acknum : Int, payload : Int, checksum : Int]

compute_checksum(p) == p.seqnum + p.acknum + p.payload

\* A packet as the sending code fills it in, its checksum last.
Packet(seqnum, acknum, payload) ==
    [seqnum   |-> seqnum,
     acknum   |-> acknum,
     payload  |-> payload,
     checksum |-> seqnum + acknum + payload]

\* How tolayer3 damages p: 'Z' over the first payload byte, or
\* 999999 over the sequence or acknowledgement number; the checksum stays.
Damage(p, form) ==
    CASE form = "payload" -> [p EXCEPT !.payload = (@ - (@ \div PayloadBytes)) + Z]
      [] form = "seqnum"  -> [p EXCEPT !.seqnum = Garbage]
      [] form = "acknum"  -> [p EXCEPT !.acknum = Garbage]

Damaged(p) == {Damage(p, form) : form \in CorruptForms}

\* tolayer3: what may be travelling to the receiver after p is sent behind
\* queue. Arrival times are stacked on the last arrival already scheduled for
\* that entity, so the medium is first-in first-out.
tolayer3(queue, p) ==
    {queue} \cup {Append(queue, r) : r \in IF Len(queue) < MaxInFlight
                                           THEN {p} \cup Damaged(p)
                                           ELSE {}}

\* Mutation: the receiver trusts every packet.
IntactAlways(p) == TRUE

Intact(p) == compute_checksum(p) = p.checksum

\* The packets in a queue.
Packets(queue) == {queue[k] : k \in 1..Len(queue)}
=============================================================================
