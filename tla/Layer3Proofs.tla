---------------------------- MODULE Layer3Proofs ----------------------------
(***************************************************************************)
(* Facts the proofs about both transport protocols rest on: residues       *)
(* modulo the size of a window, what the medium can make of the packets    *)
(* given to it, and that the checksum catches each kind of damage.         *)
(***************************************************************************)
EXTENDS Layer3, SequenceTheorems, WellFoundedInduction, TLAPS

-----------------------------------------------------------------------------
(* Induction, as a fact about sets. *)

\* A set of natural numbers that is not empty has a least element.
LEMMA LeastNatural ==
  ASSUME NEW S \in SUBSET Nat, S # {}
  PROVE  \E m \in S : \A n \in S : m <= n
<1>. DEFINE R == {ss \in Nat \X Nat : ss[1] < ss[2]}
<1>1. IsWellFoundedOn(R, Nat)
  BY NatLessThanWellFounded DEF OpToRel
<1>2. PICK m \in S : \A n \in S : ~(<<n, m>> \in R)
  <2>. HIDE DEF R
  <2>. QED
    BY <1>1, WFMin
<1>3. \A n \in S : ~(n < m)
  BY <1>2
<1>. QED
  BY <1>3

\* A set with 0 and with the successor of each of its elements has them all.
LEMMA SetInduction ==
  ASSUME NEW S, 0 \in S, \A n \in Nat : n \in S => n + 1 \in S
  PROVE  Nat \subseteq S
<1>. DEFINE T == Nat \ S
<1>1. SUFFICES ASSUME T # {} PROVE FALSE
  OBVIOUS
<1>2. PICK m \in T : \A n \in T : m <= n
  BY <1>1, LeastNatural
<1>3. m - 1 \in Nat /\ m - 1 \notin T
  BY <1>2
<1>. QED
  BY <1>2, <1>3

-----------------------------------------------------------------------------
(* Residues modulo the size W of a window. *)

\* A multiple of W that is less than W away from another is the same one.
LEMMA SameMultiple ==
  ASSUME NEW W \in Nat \ {0}, NEW a \in Int, NEW b \in Int,
         W * a < W * b + W, W * b < W * a + W
  PROVE  a = b
<1>1. ASSUME NEW k \in Nat PROVE W * (1 + k) = W + W * k /\ W * k >= 0
  OBVIOUS
<1>2. CASE a < b
  <2>1. b - a - 1 \in Nat
    BY <1>2
  <2>2. W * b = W * a + W * (1 + (b - a - 1))
    OBVIOUS
  <2>. QED
    BY <1>1, <2>1, <2>2
<1>3. CASE b < a
  <2>1. a - b - 1 \in Nat
    BY <1>3
  <2>2. W * a = W * b + W * (1 + (a - b - 1))
    OBVIOUS
  <2>. QED
    BY <1>1, <2>1, <2>2
<1>. QED
  BY <1>2, <1>3

\* A number is its multiple of W and its residue.
LEMMA Division ==
  ASSUME NEW W \in Nat \ {0}, NEW s \in Nat
  PROVE  s \div W \in Int /\ s = W * (s \div W) + (s % W) /\ s % W \in 0..W - 1
  OBVIOUS

\* Two numbers less than W apart have a residue in common only if they are equal.
LEMMA SameResidue ==
  ASSUME NEW W \in Nat \ {0}, NEW s \in Nat, NEW t \in Nat,
         s < t + W, t < s + W, s % W = t % W
  PROVE  s = t
<1> DEFINE a == s \div W
           b == t \div W
<1>1. /\ a \in Int /\ s = W * a + (s % W)
      /\ b \in Int /\ t = W * b + (t % W)
      /\ s % W \in 0..W - 1
  BY Division
<1>. HIDE DEF a, b
<1>2. a = b
  <2>1. W * a < W * b + W /\ W * b < W * a + W
    BY <1>1
  <2>. QED
    BY <1>1, <2>1, SameMultiple
<1>. QED
  BY <1>1, <1>2

\* W numbers further on comes the same residue.
LEMMA ResidueRound ==
  ASSUME NEW W \in Nat \ {0}, NEW s \in Nat PROVE (s + W) % W = s % W
<1> DEFINE a == s \div W
           b == (s + W) \div W
           r == s % W
           q == (s + W) % W
<1>1. a \in Int /\ s = W * a + r /\ r \in 0..W - 1
  BY Division
<1>2. s + W \in Nat
  OBVIOUS
<1>3. b \in Int /\ s + W = W * b + q /\ q \in 0..W - 1
  BY <1>2, Division
<1>. HIDE DEF a, b, r, q
<1>4. W * (a + 1) = W * a + W
  BY <1>1
<1>5. a + 1 = b
  <2>1. W * (a + 1) < W * b + W /\ W * b < W * (a + 1) + W
    BY <1>1, <1>3, <1>4
  <2>. QED
    BY <1>1, <1>3, <2>1, SameMultiple
<1>6. q = r
  BY <1>1, <1>3, <1>4, <1>5
<1>. QED
  BY <1>6 DEF q, r

-----------------------------------------------------------------------------
(* The medium. *)

LEMMA GarbageType == Garbage \in Int /\ Garbage > 0
  BY DEF Garbage

\* The kinds of damage there are.
Forms == {"payload", "seqnum", "acknum"}

\* Damage overwrites one field.
LEMMA DamageCases ==
  ASSUME NEW p, NEW form \in Forms
  PROVE  \/ Damage(p, form) = [p EXCEPT !.payload = (@ - (@ \div PayloadBytes)) + Z]
         \/ Damage(p, form) = [p EXCEPT !.seqnum = Garbage]
         \/ Damage(p, form) = [p EXCEPT !.acknum = Garbage]
<1>1. form \in {"payload", "seqnum", "acknum"}
  BY DEF Forms
<1>2. CASE form = "payload"
  BY <1>2 DEF Damage
<1>3. CASE form = "seqnum"
  BY <1>3 DEF Damage
<1>4. CASE form = "acknum"
  BY <1>4 DEF Damage
<1>. QED
  BY <1>1, <1>2, <1>3, <1>4

\* What tolayer3 leaves in transit is a queue of packets.
LEMMA tolayer3Type ==
  ASSUME NEW q \in Seq(Pkt), NEW p \in Pkt, NEW r \in tolayer3(q, p)
  PROVE  r \in Seq(Pkt)
<1>1. ASSUME NEW form \in Forms PROVE Damage(p, form) \in Pkt
  BY DamageCases, GarbageType DEF Pkt, PayloadBytes, Z
<1>2. \A x \in {p} \cup Damaged(p) : x \in Pkt
  BY <1>1, CorruptAssumption DEF Damaged, Forms
<1>3. r = q \/ \E x \in {p} \cup Damaged(p) : r = Append(q, x)
  BY DEF tolayer3
<1>. QED
  BY <1>2, <1>3

\* What the bytes of a payload can add up to.
Payloads == {NUL} \cup {PayloadBytes * (97 + k) : k \in 0..25}

\* A packet whose fields are in range, with the payload of a message or NUL.
WellFormed(p) ==
    /\ p \in Pkt
    /\ p.payload \in Payloads
    /\ p.seqnum # Garbage /\ p.acknum # Garbage
    /\ Intact(p)

\* 'Z' is no letter: overwriting the first byte changes the sum of the bytes.
LEMMA ZChangesPayload ==
  ASSUME NEW x \in Payloads
  PROVE  x \in Int /\ (x - (x \div PayloadBytes)) + Z # x
<1>1. CASE x = NUL
  BY <1>1 DEF NUL, PayloadBytes, Z
<1>2. CASE \E k \in 0..25 : x = PayloadBytes * (97 + k)
  <2>1. PICK k \in 0..25 : x = 20 * (97 + k)
    BY <1>2 DEF PayloadBytes
  <2>2. x \div 20 = 97 + k
    BY <2>1
  <2>. QED
    BY <2>1, <2>2 DEF PayloadBytes, Z
<1>. QED
  BY <1>1, <1>2 DEF Payloads

\* What main builds is a payload, and none without letters.
LEMMA LettersPayload == ASSUME NEW n \in Nat PROVE Letters(n) \in Payloads /\ Letters(n) # NUL
<1>1. n % 26 \in 0..25
  OBVIOUS
<1>. QED
  BY <1>1 DEF Letters, Payloads, PayloadBytes, NUL

\* Each kind of damage is caught by the checksum.
LEMMA DamageDetected ==
  ASSUME NEW p, WellFormed(p), NEW form \in Forms
  PROVE  ~Intact(Damage(p, form))
<1>1. p \in Pkt /\ p.payload \in Payloads
  BY DEF WellFormed
<1>2. p.payload \in Int /\ (p.payload - (p.payload \div PayloadBytes)) + Z # p.payload
  BY <1>1, ZChangesPayload
<1>3. (p.payload - (p.payload \div PayloadBytes)) + Z \in Int
  BY <1>2 DEF PayloadBytes, Z
<1>. HIDE DEF PayloadBytes, Z
<1>4. CASE Damage(p, form) = [p EXCEPT !.payload = (@ - (@ \div PayloadBytes)) + Z]
  BY <1>1, <1>2, <1>3, <1>4 DEF WellFormed, Intact, compute_checksum, Pkt
<1>5. CASE Damage(p, form) = [p EXCEPT !.seqnum = Garbage]
  <2>1. /\ Damage(p, form).seqnum = Garbage
        /\ Damage(p, form).acknum = p.acknum
        /\ Damage(p, form).payload = p.payload
        /\ Damage(p, form).checksum = p.checksum
    BY <1>1, <1>5 DEF Pkt
  <2>2. p.seqnum \in Int /\ p.acknum \in Int /\ p.payload \in Int
    BY <1>1 DEF Pkt
  <2>3. p.seqnum + p.acknum + p.payload = p.checksum /\ p.seqnum # Garbage
    BY DEF WellFormed, Intact, compute_checksum
  <2>4. ASSUME NEW g \in Int, NEW a \in Int, NEW b \in Int, NEW c \in Int, g # a
        PROVE  g + b + c # a + b + c
    BY <2>4
  <2>5. Garbage + p.acknum + p.payload # p.seqnum + p.acknum + p.payload
    BY <2>2, <2>3, <2>4, GarbageType
  <2>. QED
    BY <2>1, <2>3, <2>5 DEF Intact, compute_checksum
<1>6. CASE Damage(p, form) = [p EXCEPT !.acknum = Garbage]
  BY <1>1, <1>6, GarbageType DEF WellFormed, Intact, compute_checksum, Pkt
<1>. QED
  BY <1>4, <1>5, <1>6, DamageCases

\* Every packet tolayer3 leaves in transit was there before, or is the packet
\* sent, or is one the receiver will throw away.
LEMMA tolayer3Packets ==
  ASSUME NEW q \in Seq(Pkt), NEW p, WellFormed(p), NEW r \in tolayer3(q, p)
  PROVE  \A x \in Packets(r) : x \in Packets(q) \/ x = p \/ ~Intact(x)
<1>1. CASE r = q
  BY <1>1
<1>2. ASSUME NEW y \in {p} \cup Damaged(p), r = Append(q, y)
      PROVE  \A x \in Packets(r) : x \in Packets(q) \/ x = y
  BY <1>2 DEF Packets
<1>3. \A y \in Damaged(p) : ~Intact(y)
  BY DamageDetected, CorruptAssumption DEF Damaged, Forms
<1>. QED
  BY <1>1, <1>2, <1>3 DEF tolayer3

\* Taking the first packet of a queue leaves packets that were there.
LEMMA TailPackets ==
  ASSUME NEW q \in Seq(Pkt), q # <<>>
  PROVE  /\ Head(q) \in Pkt /\ Head(q) \in Packets(q)
         /\ Tail(q) \in Seq(Pkt) /\ Packets(Tail(q)) \subseteq Packets(q)
  BY DEF Packets

LEMMA OtherType == \A e \in Entity : Other(e) \in Entity /\ Other(e) # e /\ Other(Other(e)) = e
  BY DEF Entity, Other

LEMMA PacketType ==
  ASSUME NEW s \in Int, NEW a \in Int, NEW d \in Int
  PROVE  Packet(s, a, d) \in Pkt
  BY DEF Packet, Pkt

\* The packets the senders build pass their own checksum and are well formed.
LEMMA PacketWellFormed ==
  ASSUME NEW n \in Int, NEW a \in Int, NEW d \in Payloads, n # Garbage, a # Garbage
  PROVE  WellFormed(Packet(n, a, d))
<1>1. d \in Int
  BY ZChangesPayload
<1>2. Packet(n, a, d) \in Pkt
  BY <1>1, PacketType
<1>. QED
  BY <1>2 DEF WellFormed, Packet, Intact, compute_checksum

-----------------------------------------------------------------------------
(* Sending a window again. *)

\* What may be travelling behind queue after the packets lo..hi - 1 of the
\* window w of size W are given to the medium one after the other.
Resends(lo, hi, queue, w, W) ==
    LET sent[last \in lo - 1..hi - 1] ==
            IF last = lo - 1
            THEN {queue}
            ELSE UNION {tolayer3(q, w[last % W]) : q \in sent[last - 1]}
    IN  sent[hi - 1]

\* The packets lo..hi - 1 of a window.
Sent(lo, hi, w, W) == {w[s % W] : s \in lo..hi - 1}

\* Every packet of r was in queue before, or is one of ps or a damaged one.
Carried(queue, ps, r) ==
    /\ r \in Seq(Pkt)
    /\ \A x \in Packets(r) :
          \/ x \in Packets(queue)
          \/ \E p \in ps : x = p \/ \E form \in Forms : x = Damage(p, form)

\* One packet given to the medium is carried.
LEMMA tolayer3Carried ==
  ASSUME NEW q \in Seq(Pkt), NEW p \in Pkt, NEW r \in tolayer3(q, p)
  PROVE  Carried(q, {p}, r)
<1>1. r \in Seq(Pkt)
  BY tolayer3Type
<1>2. ASSUME NEW y \in {p} \cup Damaged(p), r = Append(q, y)
      PROVE  \A x \in Packets(r) : x \in Packets(q) \/ x = y
  BY <1>2 DEF Packets
<1>3. \A y \in Damaged(p) : \E form \in Forms : y = Damage(p, form)
  BY CorruptAssumption DEF Damaged, Forms
<1>. QED
  BY <1>1, <1>2, <1>3 DEF tolayer3, Carried

\* What is carried from what was carried.
LEMMA CarriedOn ==
  ASSUME NEW q, NEW ps, NEW r, Carried(q, ps, r), NEW p, NEW t, Carried(r, {p}, t)
  PROVE  Carried(q, ps \cup {p}, t)
  BY DEF Carried

\* Where p is given to the medium behind a queue of S.
Relay(S, p) == UNION {tolayer3(q, p) : q \in S}

\* f[last] is what may be travelling after the packets lo..last, last < lo + n.
Solves(f, lo, n, queue, w, W) ==
    f = [last \in lo - 1..lo - 1 + n |->
            IF last = lo - 1 THEN {queue} ELSE Relay(f[last - 1], w[last % W])]

\* The definition of Resends by recursion has a solution.
LEMMA ResendsDefined ==
  ASSUME NEW lo \in Nat, NEW n \in Nat, NEW queue, NEW w, NEW W
  PROVE  \E f : Solves(f, lo, n, queue, w, W)
<1>. DEFINE S == {k \in Nat : \E f : Solves(f, lo, k, queue, w, W)}
<1>1. 0 \in S
  <2>1. Solves([last \in lo - 1..lo - 1 + 0 |-> {queue}], lo, 0, queue, w, W)
    BY DEF Solves
  <2>. QED
    BY <2>1
<1>2. ASSUME NEW k \in Nat, k \in S PROVE k + 1 \in S
  <2>1. PICK f : Solves(f, lo, k, queue, w, W)
    BY <1>2
  <2>. DEFINE g == [last \in lo - 1..lo - 1 + (k + 1) |->
                      IF last = lo - 1 + (k + 1) THEN Relay(f[last - 1], w[last % W]) ELSE f[last]]
  <2>2. ASSUME NEW last \in lo - 1..lo - 1 + (k + 1)
        PROVE  g[last] = IF last = lo - 1 THEN {queue} ELSE Relay(g[last - 1], w[last % W])
    <3>1. \A i \in lo - 1..lo - 1 + k :
             f[i] = IF i = lo - 1 THEN {queue} ELSE Relay(f[i - 1], w[i % W])
      BY <2>1 DEF Solves
    <3>2. \A i \in lo - 1..lo - 1 + k : g[i] = f[i]
      OBVIOUS
    <3>3. CASE last = lo - 1 + (k + 1)
      <4>1. last - 1 \in lo - 1..lo - 1 + k /\ last # lo - 1
        BY <3>3
      <4>2. g[last] = Relay(f[last - 1], w[last % W])
        BY <3>3
      <4>. QED
        BY <3>2, <4>1, <4>2
    <3>4. CASE last # lo - 1 + (k + 1)
      <4>1. last \in lo - 1..lo - 1 + k
        BY <3>4
      <4>2. last # lo - 1 => last - 1 \in lo - 1..lo - 1 + k
        BY <4>1
      <4>. HIDE DEF g
      <4>. QED
        BY <3>1, <3>2, <4>1, <4>2
    <3>. QED
      BY <3>3, <3>4
  <2>3. g = [last \in lo - 1..lo - 1 + (k + 1) |-> g[last]]
    OBVIOUS
  <2>. HIDE DEF g
  <2>4. Solves(g, lo, k + 1, queue, w, W)
    BY <2>2, <2>3 DEF Solves
  <2>. QED
    BY <2>4
<1>3. Nat \subseteq S
  <2>. HIDE DEF S
  <2>. QED
    BY <1>1, <1>2, SetInduction
<1>. QED
  BY <1>3

\* What is travelling after a window was sent again was there before or is a
\* packet of the window, whole or damaged.
LEMMA SolvesCarried ==
  ASSUME NEW lo \in Nat, NEW hi \in Nat, lo <= hi, NEW W \in Nat \ {0},
         NEW queue \in Seq(Pkt), NEW w \in [0..W - 1 -> Pkt],
         NEW F, Solves(F, lo, hi - lo, queue, w, W), NEW r \in F[hi - 1]
  PROVE  Carried(queue, Sent(lo, hi, w, W), r)
<1>. DEFINE Ps(n) == {w[s % W] : s \in lo..lo + n - 1}
           Upto(n) == \A t \in F[lo - 1 + n] : Carried(queue, Ps(n), t)
           S == {n \in Nat : n <= hi - lo => Upto(n)}
<1>3. Upto(0)
  <2>1. F[lo - 1] = {queue}
    BY DEF Solves
  <2>2. Carried(queue, Ps(0), queue)
    BY DEF Carried
  <2>. QED
    BY <2>1, <2>2
<1>4. ASSUME NEW n \in Nat, n + 1 <= hi - lo, Upto(n) PROVE Upto(n + 1)
  <2>. DEFINE at == lo + n
  <2>1. /\ at \in lo - 1..lo - 1 + (hi - lo) /\ at # lo - 1 /\ at \in Nat
        /\ at - 1 = lo - 1 + n /\ at = lo - 1 + (n + 1)
    BY <1>4
  <2>2. w[at % W] \in Pkt
    <3>1. at % W \in 0..W - 1
      BY <2>1, Division
    <3>. QED
      BY <3>1
  <2>3. Ps(n + 1) = Ps(n) \cup {w[at % W]}
    <3>1. lo..lo + (n + 1) - 1 = (lo..lo + n - 1) \cup {at}
      OBVIOUS
    <3>. QED
      BY <3>1
  <2>. HIDE DEF at, Ps
  <2>4. F[at] = Relay(F[at - 1], w[at % W])
    BY <2>1 DEF Solves
  <2>5. ASSUME NEW t \in F[at] PROVE Carried(queue, Ps(n + 1), t)
    <3>1. PICK q \in F[at - 1] : t \in tolayer3(q, w[at % W])
      BY <2>4, <2>5 DEF Relay
    <3>2. Carried(queue, Ps(n), q)
      BY <1>4, <2>1, <3>1
    <3>3. Carried(q, {w[at % W]}, t)
      <4>1. q \in Seq(Pkt)
        BY <3>2 DEF Carried
      <4>. QED
        BY <2>2, <3>1, <4>1, tolayer3Carried
    <3>4. Carried(queue, Ps(n) \cup {w[at % W]}, t)
      BY <3>2, <3>3, CarriedOn, Zenon
    <3>. QED
      BY <2>3, <3>4
  <2>. QED
    BY <2>1, <2>5
<1>5. Upto(hi - lo)
  <2>. HIDE DEF Upto
  <2>1. 0 \in S /\ \A n \in Nat : n \in S => n + 1 \in S
    BY <1>3, <1>4
  <2>2. hi - lo \in Nat
    OBVIOUS
  <2>. HIDE DEF S
  <2>3. hi - lo \in S
    BY <2>1, <2>2, SetInduction
  <2>. QED
    BY <2>3 DEF S
<1>6. Carried(queue, Ps(hi - lo), r)
  <2>1. lo - 1 + (hi - lo) = hi - 1
    OBVIOUS
  <2>. QED
    BY <1>5, <2>1
<1>7. Ps(hi - lo) = Sent(lo, hi, w, W)
  <2>1. lo + (hi - lo) - 1 = hi - 1
    OBVIOUS
  <2>. QED
    BY <2>1 DEF Sent
<1>. QED
  BY <1>6, <1>7

LEMMA ResendsCarried ==
  ASSUME NEW lo \in Nat, NEW hi \in Nat, lo <= hi, NEW W \in Nat \ {0},
         NEW queue \in Seq(Pkt), NEW w \in [0..W - 1 -> Pkt],
         NEW r \in Resends(lo, hi, queue, w, W)
  PROVE  Carried(queue, Sent(lo, hi, w, W), r)
<1>. DEFINE F == CHOOSE f : Solves(f, lo, hi - lo, queue, w, W)
<1>1. r \in F[hi - 1]
  <2>1. lo - 1 + (hi - lo) = hi - 1
    OBVIOUS
  <2>. QED
    BY <2>1 DEF Resends, Solves, Relay
<1>2. Solves(F, lo, hi - lo, queue, w, W)
  <2>1. \E f : Solves(f, lo, hi - lo, queue, w, W)
    BY ResendsDefined
  <2>. QED
    BY <2>1
<1>. HIDE DEF F
<1>. QED
  BY <1>1, <1>2, SolvesCarried

\* An intact packet that was carried was there before or is one that was sent.
LEMMA CarriedIntact ==
  ASSUME NEW q, NEW ps, NEW r, Carried(q, ps, r), \A p \in ps : WellFormed(p),
         NEW x \in Packets(r), Intact(x)
  PROVE  x \in Packets(q) \/ x \in ps
  BY DamageDetected DEF Carried
=============================================================================
