--------------------------- MODULE PoliciesProofs ---------------------------
(***************************************************************************)
(* What the algorithms of the page replacement simulator keep, for any     *)
(* string of references and any number of frames, and the policies of the  *)
(* CPU scheduler, for any tasks, quantum and number of ticks.              *)
(***************************************************************************)
EXTENDS SimulatorsProofs

-----------------------------------------------------------------------------
(* Input of the page replacement simulator.                                   *)

Referenced == {refs[j] : j \in DOMAIN refs}

LEMMA FirstIs ==
  ASSUME NEW S \in SUBSET Nat, S # {}
  PROVE  Paging!First(S) \in S /\ \A s \in S : Paging!First(S) <= s
<1>1. \E m \in S : \A n \in S : m <= n
  BY LeastNatural
<1>. QED
  BY <1>1 DEF Paging!First

LEMMA PagingCounts == \A S : Paging!Cardinality(S) = Cardinality(S)
  BY Zenon DEF Paging!Cardinality, Cardinality

InputInv == nframe \in Nat /\ nframe > 0 /\ refs \in [1..References -> 1..Pages]

LEMMA InputIs ==
  ASSUME InputInv
  PROVE  /\ References \in Nat /\ Len(refs) = References /\ DOMAIN refs = 1..References
         /\ \A j \in 1..References : refs[j] \in Referenced
         /\ \A h \in Referenced : h # -1 /\ \E j \in 1..References : refs[j] = h
         /\ Paging!Frame = 0..nframe - 1 /\ IsFiniteSet(Paging!Frame)
         /\ Cardinality(Paging!Frame) = nframe /\ Paging!Frame \in SUBSET Nat
<1>1. References \in Nat /\ Pages \in Nat
  BY ReferencesAssumption
<1>2. DOMAIN refs = 1..References
  BY DEF InputInv
<1>3. Len(refs) = References
  <2>1. refs \in Seq(1..Pages)
    BY <1>1, Z3 DEF InputInv
  <2>2. DOMAIN refs = 1..Len(refs) /\ Len(refs) \in Nat
    BY <2>1
  <2>. QED
    BY <1>1, <1>2, <2>2
<1>4. \A j \in 1..References : refs[j] \in 1..Pages /\ refs[j] # -1
  BY <1>1 DEF InputInv
<1>5. \A h \in Referenced : h # -1 /\ \E j \in 1..References : refs[j] = h
  BY <1>2, <1>4 DEF Referenced
<1>6. \A j \in 1..References : refs[j] \in Referenced
  BY <1>2 DEF Referenced
<1>7. nframe - 1 \in Int /\ nframe \in Nat /\ nframe > 0
  BY DEF InputInv
<1>8. IsFiniteSet(0..nframe - 1)
      /\ Cardinality(0..nframe - 1) = IF 0 > nframe - 1 THEN 0 ELSE nframe - 1 - 0 + 1
  BY <1>7, FS_Interval
<1>9. Cardinality(0..nframe - 1) = nframe
  BY <1>7, <1>8
<1>. QED
  BY <1>1, <1>2, <1>3, <1>5, <1>6, <1>8, <1>9 DEF Paging!Frame

-----------------------------------------------------------------------------
(* The fewest faults, as a function of the pages held and the reference to    *)
(* come. It goes on from the end of the string to the front.                  *)

Cost(g, held, j) ==
    IF j > Len(refs) THEN 0
    ELSE IF refs[j] \in held THEN g[held]
    ELSE IF Cardinality(held) < nframe THEN 1 + g[held \cup {refs[j]}]
    ELSE 1 + Paging!First({g[(held \ {v}) \cup {refs[j]}] : v \in held})

Row(g, j) == [held \in SUBSET Referenced |-> Cost(g, held, j)]

Costs(f, m) == f = [j \in m..References + 1 |-> Row(f[j + 1], j)]

\* At the end of the string nothing is left to pay.
LEMMA CostAtEnd ==
  ASSUME InputInv, NEW j, j = References + 1
  PROVE  \A g : Row(g, j) = [held \in SUBSET Referenced |-> 0]
<1>1. j > Len(refs)
  BY InputIs
<1>2. \A g, held : Cost(g, held, j) = 0
  BY <1>1, Zenon DEF Cost
<1>. QED
  BY <1>2, Zenon DEF Row

LEMMA CostsGoOn ==
  ASSUME InputInv
  PROVE  \E f : Costs(f, 1)
<1>1. PICK N : N = References
  OBVIOUS
<1>2. N \in Nat
  BY <1>1, InputIs
<1>. DEFINE I == {d \in 0..N : \E f : Costs(f, N + 1 - d)}
<1>3. 0 \in I
  <2>1. PICK m : m = N + 1
    OBVIOUS
  <2>2. PICK zero : zero = [held \in SUBSET Referenced |-> 0]
    OBVIOUS
  <2>3. PICK f : f = [j \in m..m |-> zero]
    OBVIOUS
  <2>4. \A j \in m..m : j = m
    BY <1>2, <2>1
  <2>5. \A g : Row(g, m) = zero
    BY <1>1, <2>1, <2>2, CostAtEnd
  <2>6. f = [j \in m..m |-> Row(f[j + 1], j)]
    BY <2>3, <2>4, <2>5
  <2>7. Costs(f, m)
    BY <1>1, <2>1, <2>6 DEF Costs
  <2>8. N + 1 - 0 = m /\ 0 \in 0..N
    BY <1>2, <2>1
  <2>. QED
    BY <2>7, <2>8
<1>4. ASSUME NEW d \in 0..N - 1, d \in I PROVE d + 1 \in I
  <2>1. PICK m, q, z : m = N + 1 - d /\ q = N + 1 - (d + 1) /\ z = N + 1
    OBVIOUS
  <2>2. m \in Nat /\ q \in 1..N /\ m = q + 1 /\ d + 1 \in 0..N /\ z \in Nat
    BY <1>2, <2>1
  <2>3. PICK f : Costs(f, m)
    BY <1>4, <2>1
  <2>4. f = [j \in m..z |-> Row(f[j + 1], j)]
    BY <1>1, <2>1, <2>3 DEF Costs
  <2>5. PICK g : g = [j \in q..z |-> IF j = q THEN Row(f[m], q) ELSE f[j]]
    OBVIOUS
  <2>6. \A j \in m..z : j \in q..z /\ j # q
    BY <2>2
  <2>7. \A j \in m..z : g[j] = f[j]
    BY <2>5, <2>6
  <2>8. ASSUME NEW j \in q..z PROVE g[j] = Row(g[j + 1], j)
    <3>1. CASE j = q
      <4>1. j + 1 = m /\ m \in m..z
        BY <1>2, <2>1, <2>2, <3>1
      <4>2. g[m] = f[m]
        BY <2>7, <4>1
      <4>. QED
        BY <2>5, <3>1, <4>1, <4>2
    <3>2. CASE j # q /\ j < z
      <4>1. j \in m..z /\ j + 1 \in m..z
        BY <2>2, <3>2
      <4>2. g[j] = f[j] /\ g[j + 1] = f[j + 1]
        BY <2>7, <4>1
      <4>3. f[j] = Row(f[j + 1], j)
        BY <2>4, <4>1
      <4>. QED
        BY <4>2, <4>3
    <3>3. CASE j # q /\ j = z
      <4>1. j \in m..z
        BY <2>2, <3>3
      <4>2. g[j] = f[j] /\ f[j] = Row(f[j + 1], j)
        BY <2>4, <2>7, <4>1
      <4>3. j = References + 1
        BY <1>1, <2>1, <3>3
      <4>. QED
        BY <4>2, <4>3, CostAtEnd
    <3>. QED
      BY <2>2, <3>1, <3>2, <3>3
  <2>9. g = [j \in q..z |-> Row(g[j + 1], j)]
    BY <2>5, <2>8
  <2>10. Costs(g, q)
    BY <1>1, <2>1, <2>9 DEF Costs
  <2>. QED
    BY <2>1, <2>2, <2>10
<1>5. N \in I
  <2>. HIDE DEF I
  <2>. QED
    BY <1>2, <1>3, <1>4, Climb
<1>6. N + 1 - N = 1
  BY <1>2
<1>. QED
  BY <1>5, <1>6

Least == CHOOSE f : Costs(f, 1)

LEMMA LeastIs ==
  ASSUME InputInv
  PROVE  /\ Paging!LeastFaults = Least[1][{}]
         /\ \A j \in 1..References + 1, held \in SUBSET Referenced :
               Least[j][held] = Cost(Least[j + 1], held, j)
<1>1. PICK f : f = Least
  OBVIOUS
<1>2. Costs(f, 1)
  BY <1>1, CostsGoOn, Zenon DEF Least
<1>3. \A j \in 1..References + 1 : f[j] = Row(f[j + 1], j)
  BY <1>2, Zenon DEF Costs
<1>4. \A g, j : \A held \in SUBSET Referenced : Row(g, j)[held] = Cost(g, held, j)
  BY DEF Row
<1>5. \A j \in 1..References + 1, held \in SUBSET Referenced : f[j][held] = Cost(f[j + 1], held, j)
  BY <1>3, <1>4
<1>6. ASSUME NEW g, NEW j
      PROVE  Row(g, j) =
               [held \in SUBSET {refs[k] : k \in DOMAIN refs} |->
                  IF j > Len(refs) THEN 0
                  ELSE IF refs[j] \in held THEN g[held]
                  ELSE IF Paging!Cardinality(held) < nframe THEN 1 + g[held \cup {refs[j]}]
                  ELSE 1 + Paging!First({g[(held \ {v}) \cup {refs[j]}] : v \in held})]
  BY PagingCounts, Zenon DEF Row, Cost, Referenced
<1>7. Len(refs) = References
  BY InputIs
<1>8. Paging!LeastFaults = f[1][{}]
  BY <1>1, <1>6, <1>7, Zenon DEF Paging!LeastFaults, Least, Costs
<1>. QED
  BY <1>1, <1>5, <1>8

\* The faults still to come when the pages in held are there for reference j.
ToCome(j, held) == Least[j][held]
With(held, v, j) == (held \ {v}) \cup {refs[j]}

LEMMA CostIsNatural ==
  ASSUME InputInv, NEW j \in 1..References + 1, NEW held \in SUBSET Referenced,
         NEW g, \A h \in SUBSET Referenced : g[h] \in Nat
  PROVE  /\ Cost(g, held, j) \in Nat
         /\ j \in 1..References /\ refs[j] \in held => Cost(g, held, j) = g[held]
         /\ j \in 1..References /\ refs[j] \notin held /\ Cardinality(held) < nframe =>
               Cost(g, held, j) = 1 + g[held \cup {refs[j]}]
         /\ j \in 1..References /\ refs[j] \notin held /\ ~(Cardinality(held) < nframe) =>
               /\ \E v \in held : Cost(g, held, j) = 1 + g[With(held, v, j)]
               /\ \A v \in held : Cost(g, held, j) <= 1 + g[With(held, v, j)]
<1>1. CASE j > Len(refs)
  <2>1. Cost(g, held, j) = 0
    BY <1>1, Zenon DEF Cost
  <2>2. j \notin 1..References
    BY <1>1, InputIs
  <2>. QED
    BY <2>1, <2>2
<1>2. CASE ~(j > Len(refs))
  <2>1. j \in 1..References /\ refs[j] \in Referenced
    BY <1>2, InputIs
  <2>2. CASE refs[j] \in held
    <3>1. Cost(g, held, j) = g[held]
      BY <1>2, <2>2, Zenon DEF Cost
    <3>. QED
      BY <2>2, <3>1
  <2>3. CASE refs[j] \notin held /\ Cardinality(held) < nframe
    <3>1. PICK more : more = held \cup {refs[j]}
      OBVIOUS
    <3>2. Cost(g, held, j) = 1 + g[more]
      BY <1>2, <2>3, <3>1, Zenon DEF Cost
    <3>3. more \in SUBSET Referenced
      BY <2>1, <3>1
    <3>4. g[more] \in Nat
      BY <3>3
    <3>. QED
      BY <2>3, <3>1, <3>2, <3>4
  <2>4. CASE refs[j] \notin held /\ ~(Cardinality(held) < nframe)
    <3>1. PICK S : S = {g[With(held, v, j)] : v \in held}
      OBVIOUS
    <3>2. Cost(g, held, j) = 1 + Paging!First(S)
      BY <1>2, <2>4, <3>1, Zenon DEF Cost, With
    <3>3. held # {}
      BY <2>4, FS_EmptySet DEF InputInv
    <3>4. S \in SUBSET Nat /\ S # {}
      <4>1. \A v \in held : With(held, v, j) \in SUBSET Referenced
        BY <2>1 DEF With
      <4>2. \A v \in held : g[With(held, v, j)] \in Nat
        BY <4>1
      <4>. QED
        BY <3>1, <3>3, <4>2
    <3>5. PICK low : low = Paging!First(S)
      OBVIOUS
    <3>6. low \in S /\ \A s \in S : low <= s
      BY <3>4, <3>5, FirstIs
    <3>7. low \in Nat /\ \A s \in S : s \in Nat
      BY <3>4, <3>6
    <3>8. Cost(g, held, j) = 1 + low
      BY <3>2, <3>5
    <3>9. \E v \in held : low = g[With(held, v, j)]
      BY <3>1, <3>6
    <3>10. ASSUME NEW v \in held PROVE 1 + low <= 1 + g[With(held, v, j)]
      <4>1. PICK s : s = g[With(held, v, j)]
        OBVIOUS
      <4>2. s \in S
        BY <3>1, <4>1
      <4>3. s \in Nat /\ low <= s
        BY <3>6, <3>7, <4>2
      <4>. QED
        BY <3>7, <4>1, <4>3
    <3>. QED
      BY <2>4, <3>7, <3>8, <3>9, <3>10
  <2>. QED
    BY <2>2, <2>3, <2>4
<1>. QED
  BY <1>1, <1>2

\* Backwards from the end of the string.
LEMMA Backwards ==
  ASSUME NEW n \in Nat, NEW S, n + 1 \in S, \A j \in 1..n : j + 1 \in S => j \in S
  PROVE  \A j \in 1..n + 1 : j \in S
<1>. DEFINE I == {d \in 0..n : n + 1 - d \in S}
<1>1. 0 \in I
  OBVIOUS
<1>2. ASSUME NEW d \in 0..n - 1, d \in I PROVE d + 1 \in I
  <2>1. PICK j : j = n + 1 - (d + 1)
    OBVIOUS
  <2>2. j \in 1..n /\ j + 1 = n + 1 - d /\ d + 1 \in 0..n
    BY <2>1
  <2>. QED
    BY <1>2, <2>1, <2>2
<1>3. \A d \in 0..n : d \in I
  <2>. HIDE DEF I
  <2>. QED
    BY <1>1, <1>2, Climb
<1>4. \A j \in 1..n + 1 : n + 1 - j \in 0..n /\ n + 1 - (n + 1 - j) = j
  OBVIOUS
<1>. QED
  BY <1>3, <1>4

LEMMA ToComeIs ==
  ASSUME InputInv
  PROVE  \A j \in 1..References + 1, held \in SUBSET Referenced : ToCome(j, held) \in Nat
<1>. DEFINE S == {j \in 1..References + 1 : \A held \in SUBSET Referenced : ToCome(j, held) \in Nat}
<1>1. References \in Nat
  BY InputIs
<1>2. References + 1 \in S
  <2>1. PICK j : j = References + 1
    OBVIOUS
  <2>2. j \in 1..References + 1 /\ j > Len(refs)
    BY <1>1, <2>1, InputIs
  <2>3. \A held \in SUBSET Referenced : ToCome(j, held) = Cost(Least[j + 1], held, j)
    BY <2>2, LeastIs DEF ToCome
  <2>4. \A g, held : Cost(g, held, j) = 0
    BY <2>2, Zenon DEF Cost
  <2>. QED
    BY <2>1, <2>2, <2>3, <2>4
<1>3. ASSUME NEW j \in 1..References, j + 1 \in S PROVE j \in S
  <2>1. PICK g : g = Least[j + 1]
    OBVIOUS
  <2>2. \A h \in SUBSET Referenced : g[h] \in Nat
    BY <1>3, <2>1 DEF ToCome
  <2>3. j \in 1..References + 1
    BY <1>1
  <2>4. \A held \in SUBSET Referenced : Cost(g, held, j) \in Nat
    BY <2>2, <2>3, CostIsNatural
  <2>5. \A held \in SUBSET Referenced : ToCome(j, held) = Cost(g, held, j)
    BY <2>1, <2>3, LeastIs DEF ToCome
  <2>. QED
    BY <2>3, <2>4, <2>5
<1>4. \A j \in 1..References + 1 : j \in S
  <2>. HIDE DEF S
  <2>. QED
    BY <1>1, <1>2, <1>3, Backwards
<1>. QED
  BY <1>4

LEMMA ToComeGoes ==
  ASSUME InputInv, NEW j \in 1..References, NEW held \in SUBSET Referenced
  PROVE  /\ refs[j] \in held => ToCome(j, held) = ToCome(j + 1, held)
         /\ refs[j] \notin held /\ Cardinality(held) < nframe =>
               ToCome(j, held) = 1 + ToCome(j + 1, held \cup {refs[j]})
         /\ refs[j] \notin held /\ ~(Cardinality(held) < nframe) =>
               /\ \E v \in held : ToCome(j, held) = 1 + ToCome(j + 1, With(held, v, j))
               /\ \A v \in held : ToCome(j, held) <= 1 + ToCome(j + 1, With(held, v, j))
<1>1. j \in 1..References + 1 /\ j + 1 \in 1..References + 1
  BY InputIs
<1>2. PICK g : g = Least[j + 1]
  OBVIOUS
<1>3. \A h \in SUBSET Referenced : g[h] \in Nat
  BY <1>1, <1>2, ToComeIs DEF ToCome
<1>4. ToCome(j, held) = Cost(g, held, j)
  BY <1>1, <1>2, LeastIs DEF ToCome
<1>5. \A h : ToCome(j + 1, h) = g[h]
  BY <1>2 DEF ToCome
<1>6. /\ refs[j] \in held => Cost(g, held, j) = g[held]
      /\ refs[j] \notin held /\ Cardinality(held) < nframe =>
            Cost(g, held, j) = 1 + g[held \cup {refs[j]}]
      /\ refs[j] \notin held /\ ~(Cardinality(held) < nframe) =>
            /\ \E v \in held : Cost(g, held, j) = 1 + g[With(held, v, j)]
            /\ \A v \in held : Cost(g, held, j) <= 1 + g[With(held, v, j)]
  <2>. HIDE DEF Cost
  <2>. QED
    BY <1>1, <1>3, CostIsNatural, ZenonT(30)
<1>. QED
  BY <1>4, <1>5, <1>6, ZenonT(30)

LEMMA NothingToCome ==
  ASSUME InputInv, NEW j, j = References + 1, NEW held \in SUBSET Referenced
  PROVE  ToCome(j, held) = 0
<1>1. j \in 1..References + 1 /\ j > Len(refs)
  BY InputIs
<1>2. ToCome(j, held) = Cost(Least[j + 1], held, j)
  BY <1>1, LeastIs DEF ToCome
<1>3. \A g : Cost(g, held, j) = 0
  BY <1>1, Zenon DEF Cost
<1>. QED
  BY <1>2, <1>3

-----------------------------------------------------------------------------
(* Pages needed sooner are better to have, and one page for another costs one *)
(* fault at most.                                                             *)

Sooner(x, y, j) == \A k \in j..References : refs[k] = y => \E h \in j..k : refs[h] = x

\* All but one of the pages in the frames, and two pages for the last frame.
Apart(D, x, y) ==
    /\ D \in SUBSET Referenced /\ IsFiniteSet(D) /\ Cardinality(D) + 1 = nframe
    /\ x \in Referenced \ D /\ y \in Referenced \ D

Exchange(j) ==
    \A D, x, y :
       Apart(D, x, y) =>
          /\ ToCome(j, D \cup {x}) <= 1 + ToCome(j, D \cup {y})
          /\ Sooner(x, y, j) => ToCome(j, D \cup {x}) <= ToCome(j, D \cup {y})

LEMMA ApartIs ==
  ASSUME InputInv, NEW D, NEW x, NEW y, Apart(D, x, y)
  PROVE  /\ D \cup {x} \in SUBSET Referenced /\ D \cup {y} \in SUBSET Referenced
         /\ ~(Cardinality(D \cup {x}) < nframe) /\ ~(Cardinality(D \cup {y}) < nframe)
         /\ \A v \in D, r \in Referenced :
               r \notin D /\ r # y => Apart((D \ {v}) \cup {r}, v, y)
         /\ \A v \in D, r \in Referenced :
               r \notin D /\ r # x /\ r # y => Apart((D \ {v}) \cup {r}, x, y)
<1>1. Cardinality(D \cup {x}) = Cardinality(D) + 1 /\ Cardinality(D \cup {y}) = Cardinality(D) + 1
  BY FS_AddElement DEF Apart
<1>2. nframe \in Nat
  BY DEF InputInv
<1>3. ~(Cardinality(D \cup {x}) < nframe) /\ ~(Cardinality(D \cup {y}) < nframe)
  BY <1>1, <1>2 DEF Apart
<1>4. ASSUME NEW v \in D, NEW r \in Referenced, r \notin D
      PROVE  /\ (D \ {v}) \cup {r} \in SUBSET Referenced /\ IsFiniteSet((D \ {v}) \cup {r})
             /\ Cardinality((D \ {v}) \cup {r}) + 1 = nframe
  <2>1. PICK E : E = D \ {v}
    OBVIOUS
  <2>2. IsFiniteSet(E) /\ Cardinality(E) = Cardinality(D) - 1
    BY <2>1, FS_RemoveElement DEF Apart
  <2>3. r \notin E
    BY <1>4, <2>1
  <2>4. IsFiniteSet(E \cup {r}) /\ Cardinality(E \cup {r}) = Cardinality(E) + 1
    BY <2>2, <2>3, FS_AddElement
  <2>5. Cardinality(D) \in Nat /\ Cardinality(D) + 1 = nframe
    BY FS_CardinalityType DEF Apart
  <2>6. Cardinality(E \cup {r}) + 1 = nframe
    BY <2>2, <2>4, <2>5
  <2>7. E \cup {r} \in SUBSET Referenced
    BY <2>1 DEF Apart
  <2>. QED
    BY <2>1, <2>4, <2>6, <2>7
<1>5. ASSUME NEW v \in D, NEW r \in Referenced, r \notin D, r # y
      PROVE  Apart((D \ {v}) \cup {r}, v, y)
  <2>1. v \in Referenced /\ y \in Referenced /\ y \notin D
    BY DEF Apart
  <2>. QED
    BY <1>4, <1>5, <2>1 DEF Apart
<1>6. ASSUME NEW v \in D, NEW r \in Referenced, r \notin D, r # x, r # y
      PROVE  Apart((D \ {v}) \cup {r}, x, y)
  <2>1. x \in Referenced /\ y \in Referenced /\ y \notin D /\ x \notin D
    BY DEF Apart
  <2>. QED
    BY <1>4, <1>6, <2>1 DEF Apart
<1>7. D \cup {x} \in SUBSET Referenced /\ D \cup {y} \in SUBSET Referenced
  BY DEF Apart
<1>. QED
  BY <1>3, <1>5, <1>6, <1>7

\* What is better to have stays so while it is not what is referenced.
LEMMA SoonerGoes ==
  ASSUME InputInv, NEW j \in 1..References, NEW x, NEW y, Sooner(x, y, j)
  PROVE  refs[j] # x => refs[j] # y /\ Sooner(x, y, j + 1)
<1>1. References \in Nat
  BY InputIs
<1>2. HAVE refs[j] # x
<1>3. refs[j] # y
  <2>1. j \in j..References
    BY <1>1
  <2>2. \A h \in j..j : h = j
    BY <1>1
  <2>. QED
    BY <1>2, <2>1, <2>2 DEF Sooner
<1>4. ASSUME NEW k \in j + 1..References, refs[k] = y PROVE \E h \in j + 1..k : refs[h] = x
  <2>1. k \in j..References
    BY <1>1
  <2>2. PICK h \in j..k : refs[h] = x
    BY <1>4, <2>1 DEF Sooner
  <2>3. h # j
    BY <1>2, <2>2
  <2>4. h \in j + 1..k
    BY <2>1, <2>3
  <2>. QED
    BY <2>2, <2>4
<1>. QED
  BY <1>3, <1>4 DEF Sooner

\* The page referenced is among those both have, is what one of the two has, or
\* is what neither has.
LEMMA ExchangeGoesOn ==
  ASSUME InputInv, NEW j \in 1..References, Exchange(j + 1)
  PROVE  Exchange(j)
<1>1. SUFFICES ASSUME NEW D, NEW x, NEW y, Apart(D, x, y)
               PROVE  /\ ToCome(j, D \cup {x}) <= 1 + ToCome(j, D \cup {y})
                      /\ Sooner(x, y, j) => ToCome(j, D \cup {x}) <= ToCome(j, D \cup {y})
  BY Zenon DEF Exchange
<1>2. PICK r, X, Y : r = refs[j] /\ X = D \cup {x} /\ Y = D \cup {y}
  OBVIOUS
<1>3. r \in Referenced
  BY <1>2, InputIs
<1>4. /\ X \in SUBSET Referenced /\ Y \in SUBSET Referenced
      /\ ~(Cardinality(X) < nframe) /\ ~(Cardinality(Y) < nframe)
  BY <1>1, <1>2, ApartIs
<1>5. /\ j \in 1..References + 1 /\ j + 1 \in 1..References + 1
      /\ \A h \in SUBSET Referenced : ToCome(j, h) \in Nat /\ ToCome(j + 1, h) \in Nat
  BY InputIs, ToComeIs
<1>6. \A E, a, b : Apart(E, a, b) =>
         /\ ToCome(j + 1, E \cup {a}) <= 1 + ToCome(j + 1, E \cup {b})
         /\ Sooner(a, b, j + 1) => ToCome(j + 1, E \cup {a}) <= ToCome(j + 1, E \cup {b})
  BY Zenon DEF Exchange
<1>7. \A h \in SUBSET Referenced :
         /\ r \in h => ToCome(j, h) = ToCome(j + 1, h)
         /\ r \notin h /\ ~(Cardinality(h) < nframe) =>
               /\ \E v \in h : ToCome(j, h) = 1 + ToCome(j + 1, (h \ {v}) \cup {r})
               /\ \A v \in h : ToCome(j, h) <= 1 + ToCome(j + 1, (h \ {v}) \cup {r})
  BY <1>2, ToComeGoes, Zenon DEF With
<1>8. Sooner(x, y, j) /\ r # x => r # y /\ Sooner(x, y, j + 1)
  BY <1>2, SoonerGoes
<1>9. CASE r \in D
  <2>1. ToCome(j, X) = ToCome(j + 1, X) /\ ToCome(j, Y) = ToCome(j + 1, Y) /\ r # x
    BY <1>1, <1>2, <1>4, <1>7, <1>9 DEF Apart
  <2>2. /\ ToCome(j + 1, X) <= 1 + ToCome(j + 1, Y)
        /\ Sooner(x, y, j + 1) => ToCome(j + 1, X) <= ToCome(j + 1, Y)
    BY <1>1, <1>2, <1>6, Zenon
  <2>. QED
    BY <1>2, <1>8, <2>1, <2>2, Zenon
<1>10. CASE r = x /\ x = y
  <2>1. ToCome(j, X) \in Nat /\ X = Y
    BY <1>2, <1>4, <1>5, <1>10
  <2>2. PICK c : c = ToCome(j, X)
    OBVIOUS
  <2>3. c \in Nat /\ c <= c /\ c <= 1 + c
    BY <2>1, <2>2
  <2>. QED
    BY <1>2, <2>1, <2>2, <2>3, Zenon
<1>11. CASE r = x /\ x # y
  <2>1. r \in X /\ r \notin Y
    BY <1>1, <1>2, <1>11 DEF Apart
  <2>2. ToCome(j, X) = ToCome(j + 1, X)
    BY <1>4, <1>7, <2>1
  <2>3. PICK v \in Y : ToCome(j, Y) = 1 + ToCome(j + 1, (Y \ {v}) \cup {r})
    BY <1>4, <1>7, <2>1
  <2>4. PICK Z : Z = (Y \ {v}) \cup {r}
    OBVIOUS
  <2>5. Z \in SUBSET Referenced
    BY <1>3, <1>4, <2>4
  <2>6. ToCome(j + 1, X) <= 1 + ToCome(j + 1, Z)
    <3>1. CASE v = y
      <4>1. Z = X
        BY <1>1, <1>2, <1>11, <2>4, <3>1 DEF Apart
      <4>2. PICK c : c = ToCome(j + 1, X)
        OBVIOUS
      <4>3. c \in Nat /\ c <= 1 + c
        BY <1>4, <1>5, <4>2
      <4>. QED
        BY <4>1, <4>2, <4>3, Zenon
    <3>2. CASE v # y
      <4>1. v \in D
        BY <1>2, <2>3, <3>2
      <4>2. PICK E : E = (D \ {v}) \cup {r}
        OBVIOUS
      <4>3. r \notin D /\ r # y
        BY <1>1, <1>11 DEF Apart
      <4>4. Apart(E, v, y)
        BY <1>1, <1>3, <4>1, <4>2, <4>3, ApartIs
      <4>5. E \cup {v} = X
        BY <1>2, <1>11, <4>1, <4>2
      <4>6. E \cup {y} = Z
        BY <1>1, <1>2, <2>4, <3>2, <4>2 DEF Apart
      <4>. QED
        BY <1>6, <4>4, <4>5, <4>6
    <3>. QED
      BY <3>1, <3>2
  <2>7. ToCome(j, Y) = 1 + ToCome(j + 1, Z)
    BY <2>3, <2>4
  <2>8. ToCome(j, X) <= ToCome(j, Y)
    BY <2>2, <2>6, <2>7
  <2>9. ToCome(j, Y) \in Nat /\ ToCome(j, X) \in Nat
    BY <1>4, <1>5
  <2>10. ToCome(j, X) <= 1 + ToCome(j, Y)
    BY <2>8, <2>9
  <2>. QED
    BY <1>2, <2>8, <2>10, Zenon
<1>12. CASE r = y /\ x # y
  <2>1. r \in Y /\ r \notin X /\ x \in X
    BY <1>1, <1>2, <1>12 DEF Apart
  <2>2. ToCome(j, Y) = ToCome(j + 1, Y)
    BY <1>4, <1>7, <2>1
  <2>3. ToCome(j, X) <= 1 + ToCome(j + 1, (X \ {x}) \cup {r})
    BY <1>4, <1>7, <2>1
  <2>4. (X \ {x}) \cup {r} = Y
    BY <1>1, <1>2, <1>12 DEF Apart
  <2>5. ~Sooner(x, y, j)
    BY <1>8, <1>12
  <2>. QED
    BY <1>2, <2>2, <2>3, <2>4, <2>5, Zenon
<1>13. CASE r \notin D /\ r # x /\ r # y
  <2>1. r \notin X /\ r \notin Y
    BY <1>2, <1>13
  <2>2. PICK v \in Y : ToCome(j, Y) = 1 + ToCome(j + 1, (Y \ {v}) \cup {r})
    BY <1>4, <1>7, <2>1
  <2>3. PICK Z : Z = (Y \ {v}) \cup {r}
    OBVIOUS
  <2>4. Z \in SUBSET Referenced /\ ToCome(j, Y) = 1 + ToCome(j + 1, Z)
    BY <1>3, <1>4, <2>2, <2>3
  <2>5. \E w \in X : /\ ToCome(j + 1, (X \ {w}) \cup {r}) <= 1 + ToCome(j + 1, Z)
                     /\ Sooner(x, y, j) =>
                           ToCome(j + 1, (X \ {w}) \cup {r}) <= ToCome(j + 1, Z)
    <3>1. CASE v = y
      <4>1. x \in X /\ (X \ {x}) \cup {r} = Z
        BY <1>1, <1>2, <2>3, <3>1 DEF Apart
      <4>2. PICK c : c = ToCome(j + 1, Z)
        OBVIOUS
      <4>3. c \in Nat /\ c <= c /\ c <= 1 + c
        BY <1>5, <2>4, <4>2
      <4>. QED
        BY <4>1, <4>2, <4>3, Zenon
    <3>2. CASE v # y
      <4>1. v \in D /\ v \in X
        BY <1>2, <2>2, <3>2
      <4>2. PICK E : E = (D \ {v}) \cup {r}
        OBVIOUS
      <4>3. Apart(E, x, y)
        BY <1>1, <1>3, <1>13, <4>1, <4>2, ApartIs
      <4>4. E \cup {x} = (X \ {v}) \cup {r} /\ E \cup {y} = Z
        BY <1>1, <1>2, <2>3, <3>2, <4>1, <4>2 DEF Apart
      <4>5. /\ ToCome(j + 1, E \cup {x}) <= 1 + ToCome(j + 1, E \cup {y})
            /\ Sooner(x, y, j + 1) => ToCome(j + 1, E \cup {x}) <= ToCome(j + 1, E \cup {y})
        BY <1>6, <4>3, Zenon
      <4>6. Sooner(x, y, j) => Sooner(x, y, j + 1)
        BY <1>8, <1>13
      <4>. QED
        BY <4>1, <4>4, <4>5, <4>6, Zenon
    <3>. QED
      BY <3>1, <3>2
  <2>6. PICK w \in X : /\ ToCome(j + 1, (X \ {w}) \cup {r}) <= 1 + ToCome(j + 1, Z)
                       /\ Sooner(x, y, j) =>
                             ToCome(j + 1, (X \ {w}) \cup {r}) <= ToCome(j + 1, Z)
    BY <2>5
  <2>7. PICK a, b, c, d : /\ a = ToCome(j, X) /\ b = ToCome(j + 1, (X \ {w}) \cup {r})
                          /\ c = ToCome(j + 1, Z) /\ d = ToCome(j, Y)
    OBVIOUS
  <2>8. (X \ {w}) \cup {r} \in SUBSET Referenced
    BY <1>3, <1>4
  <2>9. a \in Nat /\ b \in Nat /\ c \in Nat /\ d \in Nat
    BY <1>4, <1>5, <2>4, <2>7, <2>8, Zenon
  <2>10. a <= 1 + b /\ d = 1 + c /\ b <= 1 + c /\ (Sooner(x, y, j) => b <= c)
    BY <1>4, <1>7, <2>1, <2>4, <2>6, <2>7, Zenon
  <2>11. a <= 1 + d /\ (Sooner(x, y, j) => a <= d)
    BY <2>9, <2>10
  <2>. QED
    BY <1>2, <2>7, <2>11, Zenon
<1>. QED
  BY <1>9, <1>10, <1>11, <1>12, <1>13

LEMMA Exchanges ==
  ASSUME InputInv
  PROVE  \A j \in 1..References + 1 : Exchange(j)
<1>. DEFINE S == {j \in 1..References + 1 : Exchange(j)}
<1>1. References \in Nat
  BY InputIs
<1>2. References + 1 \in S
  <2>1. PICK j : j = References + 1
    OBVIOUS
  <2>2. \A h \in SUBSET Referenced : ToCome(j, h) = 0
    BY <2>1, NothingToCome
  <2>3. \A D, x, y : Apart(D, x, y) => D \cup {x} \in SUBSET Referenced /\ D \cup {y} \in SUBSET Referenced
    BY DEF Apart
  <2>4. 0 <= 0 /\ 0 <= 1 + 0
    OBVIOUS
  <2>5. Exchange(j)
    BY <2>2, <2>3, <2>4 DEF Exchange
  <2>6. j \in 1..References + 1
    BY <1>1, <2>1
  <2>. QED
    BY <2>1, <2>5, <2>6
<1>3. ASSUME NEW j \in 1..References, j + 1 \in S PROVE j \in S
  <2>1. Exchange(j + 1) /\ j \in 1..References + 1
    BY <1>1, <1>3
  <2>. QED
    BY <2>1, ExchangeGoesOn
<1>4. \A j \in 1..References + 1 : j \in S
  <2>. HIDE DEF S
  <2>. QED
    BY <1>1, <1>2, <1>3, Backwards
<1>. QED
  BY <1>4

-----------------------------------------------------------------------------
(* The frames: no page lies in two of them. That their pages are as many as   *)
(* the frames in use is what the count of pages held in a cost stands for.    *)

Shape(fr) ==
    /\ fr \in [Paging!Frame -> Referenced \cup {-1}]
    /\ \A f, g \in Paging!Frame : fr[f] = fr[g] /\ fr[f] # -1 => f = g

Inside(fr) == {fr[f] : f \in Paging!Frame} \ {-1}

LEMMA InsideIs ==
  ASSUME InputInv, NEW fr, Shape(fr)
  PROVE  /\ Inside(fr) \in SUBSET Referenced /\ IsFiniteSet(Inside(fr))
         /\ Cardinality(Inside(fr)) <= nframe /\ Cardinality(Inside(fr)) \in Nat
         /\ (\E f \in Paging!Frame : fr[f] = -1) => Cardinality(Inside(fr)) < nframe
         /\ (\A f \in Paging!Frame : fr[f] # -1) => Cardinality(Inside(fr)) = nframe
<1>1. PICK Z, Q, S : /\ Z = Paging!Frame /\ Q = {f \in Z : fr[f] # -1} /\ S = Inside(fr)
  OBVIOUS
<1>2. IsFiniteSet(Z) /\ Cardinality(Z) = nframe /\ nframe \in Nat
  BY <1>1, InputIs DEF InputInv
<1>3. S = {fr[f] : f \in Q}
  BY <1>1 DEF Inside
<1>4. IsFiniteSet(Q) /\ Cardinality(Q) <= Cardinality(Z) /\ (Cardinality(Q) = Cardinality(Z) => Q = Z)
  <2>1. Q \in SUBSET Z
    BY <1>1
  <2>. QED
    BY <1>2, <2>1, FS_Subset
<1>5. ExistsBijection(Q, S)
  <2>1. PICK m : m = [f \in Q |-> fr[f]]
    OBVIOUS
  <2>2. m \in [Q -> S] /\ \A s \in S : \E f \in Q : m[f] = s
    BY <1>3, <2>1
  <2>3. \A f, g \in Q : m[f] = m[g] => f = g
    BY <1>1, <2>1 DEF Shape
  <2>4. m \in Bijection(Q, S)
    BY <2>2, <2>3 DEF Bijection, Injection, IsInjective, Surjection
  <2>. QED
    BY <2>4 DEF ExistsBijection
<1>6. IsFiniteSet(S) /\ Cardinality(S) = Cardinality(Q)
  BY <1>4, <1>5, FS_Bijection
<1>7. Cardinality(S) \in Nat /\ Cardinality(Q) \in Nat /\ Cardinality(S) <= nframe
  BY <1>2, <1>4, <1>6, FS_CardinalityType
<1>8. (\E f \in Z : fr[f] = -1) => Cardinality(S) < nframe
  <2>1. (\E f \in Z : fr[f] = -1) => Q # Z
    BY <1>1
  <2>. QED
    BY <1>2, <1>4, <1>6, <1>7, <2>1
<1>9. (\A f \in Z : fr[f] # -1) => Cardinality(S) = nframe
  <2>1. (\A f \in Z : fr[f] # -1) => Q = Z
    BY <1>1
  <2>. QED
    BY <1>2, <1>6, <2>1
<1>10. S \in SUBSET Referenced
  BY <1>1 DEF Inside, Shape
<1>. QED
  BY <1>1, <1>6, <1>7, <1>8, <1>9, <1>10

Put(fr, v, r) == [fr EXCEPT ![v] = r]

LEMMA Replaced ==
  ASSUME InputInv, NEW fr, Shape(fr), NEW v \in Paging!Frame, NEW r \in Referenced \ Inside(fr)
  PROVE  /\ Shape(Put(fr, v, r))
         /\ fr[v] = -1 => Inside(Put(fr, v, r)) = Inside(fr) \cup {r}
         /\ fr[v] # -1 => /\ fr[v] \in Inside(fr)
                          /\ Inside(Put(fr, v, r)) = (Inside(fr) \ {fr[v]}) \cup {r}
<1>1. PICK ex : ex = Put(fr, v, r) /\ r # -1
  BY InputIs
<1>2. \A f \in Paging!Frame : fr[f] # r
  BY <1>1 DEF Inside
<1>3. /\ ex \in [Paging!Frame -> Referenced \cup {-1}] /\ ex[v] = r
      /\ \A f \in Paging!Frame : f # v => ex[f] = fr[f]
  BY <1>1 DEF Shape, Put
<1>4. Shape(ex)
  <2>1. ASSUME NEW f \in Paging!Frame, NEW g \in Paging!Frame, ex[f] = ex[g], ex[f] # -1, f # g
        PROVE  FALSE
    <3>1. CASE f = v
      BY <1>2, <1>3, <2>1, <3>1
    <3>2. CASE g = v
      BY <1>2, <1>3, <2>1, <3>2
    <3>3. CASE f # v /\ g # v
      BY <1>3, <2>1, <3>3 DEF Shape
    <3>. QED
      BY <3>1, <3>2, <3>3
  <2>. QED
    BY <1>3, <2>1 DEF Shape
<1>5. \A y : y \in Inside(ex) <=> y = r \/ \E f \in Paging!Frame : f # v /\ y = fr[f] /\ y # -1
  BY <1>1, <1>3 DEF Inside
<1>6. \A y : y \in Inside(fr) <=> \E f \in Paging!Frame : y = fr[f] /\ y # -1
  BY DEF Inside
<1>7. CASE fr[v] = -1
  BY <1>1, <1>4, <1>5, <1>6, <1>7
<1>8. CASE fr[v] # -1
  <2>1. \A f \in Paging!Frame : f # v => fr[f] # fr[v]
    BY <1>8 DEF Shape
  <2>. QED
    BY <1>1, <1>2, <1>4, <1>5, <1>6, <1>8, <2>1
<1>. QED
  BY <1>7, <1>8

\* The last of the pages to be needed again is the one to do without.
LEMMA FarthestIs ==
  ASSUME InputInv, i \in 0..References - 1, NEW v, v = Paging!FarthestUse
  PROVE  /\ v \in Paging!Frame
         /\ \A f \in Paging!Frame : Sooner(frames[f], frames[v], i + 2)
<1>1. PICK Z, N, k : Z = Paging!Frame /\ N = References /\ k = i + 2
  OBVIOUS
<1>2. N \in Nat /\ k \in Nat /\ k <= N + 1 /\ Z \in SUBSET Nat /\ 0 \in Z
  <2>1. nframe \in Nat /\ nframe > 0
    BY DEF InputInv
  <2>. QED
    BY <1>1, <2>1, InputIs
<1>3. PICK Uses : Uses = [f \in Z |-> {h \in k..N : refs[h] = frames[f]}]
  OBVIOUS
<1>4. \A f \in Z : Paging!NextUse(f) = IF Uses[f] = {} THEN N + 1 ELSE Paging!First(Uses[f])
  BY <1>1, <1>3, InputIs DEF Paging!NextUse
<1>5. PICK Use : Use = [f \in Z |-> Paging!NextUse(f)]
  OBVIOUS
<1>6. ASSUME NEW f \in Z
      PROVE  /\ Use[f] \in Nat /\ Use[f] <= N + 1
             /\ \A h \in Uses[f] : Use[f] <= h
             /\ Use[f] # N + 1 => Use[f] \in Uses[f]
  <2>1. Use[f] = IF Uses[f] = {} THEN N + 1 ELSE Paging!First(Uses[f])
    BY <1>4, <1>5
  <2>2. Uses[f] \in SUBSET Nat /\ \A h \in Uses[f] : h \in Nat /\ h <= N
    BY <1>2, <1>3
  <2>3. CASE Uses[f] = {}
    BY <1>2, <2>1, <2>3
  <2>4. CASE Uses[f] # {}
    <3>1. Paging!First(Uses[f]) \in Uses[f] /\ \A h \in Uses[f] : Paging!First(Uses[f]) <= h
      BY <2>2, <2>4, FirstIs
    <3>2. Use[f] \in Uses[f] /\ \A h \in Uses[f] : Use[f] <= h
      BY <2>1, <2>4, <3>1
    <3>3. Use[f] \in Nat /\ Use[f] <= N
      BY <2>2, <3>2
    <3>. QED
      BY <1>2, <3>2, <3>3
  <2>. QED
    BY <2>3, <2>4
<1>7. PICK T : T = {f \in Z : \A g \in Z : Use[f] >= Use[g]}
  OBVIOUS
<1>8. v = Paging!First(T)
  <2>1. T = {f \in Paging!Frame : \A g \in Paging!Frame : Paging!NextUse(f) >= Paging!NextUse(g)}
    BY <1>1, <1>5, <1>7
  <2>. QED
    BY <2>1 DEF Paging!FarthestUse
<1>9. T # {}
  <2>1. PICK R : R = {N + 1 - Use[f] : f \in Z}
    OBVIOUS
  <2>2. R \in SUBSET Nat /\ R # {}
    BY <1>2, <1>6, <2>1
  <2>3. PICK m \in R : \A n \in R : m <= n
    BY <2>2, LeastNatural
  <2>4. PICK f \in Z : m = N + 1 - Use[f]
    BY <2>1, <2>3
  <2>5. \A g \in Z : N + 1 - Use[f] <= N + 1 - Use[g]
    BY <2>1, <2>3, <2>4
  <2>6. \A g \in Z : Use[f] >= Use[g]
    BY <1>2, <1>6, <2>5
  <2>. QED
    BY <1>7, <2>6
<1>10. v \in T
  <2>1. T \in SUBSET Nat
    BY <1>2, <1>7
  <2>. QED
    BY <1>8, <1>9, <2>1, FirstIs
<1>11. ASSUME NEW f \in Z, NEW h \in k..N, refs[h] = frames[v]
       PROVE  \E e \in k..h : refs[e] = frames[f]
  <2>1. v \in Z /\ Use[v] >= Use[f]
    BY <1>7, <1>10
  <2>2. h \in Uses[v]
    BY <1>3, <1>11, <2>1
  <2>3. Use[v] <= h /\ h <= N /\ h \in Nat
    BY <1>2, <1>6, <2>1, <2>2
  <2>4. Use[f] <= h /\ Use[f] # N + 1
    BY <1>2, <1>6, <2>1, <2>3
  <2>5. Use[f] \in Uses[f]
    BY <1>6, <2>4
  <2>6. Use[f] \in k..N /\ refs[Use[f]] = frames[f]
    BY <1>3, <2>5
  <2>7. Use[f] \in k..h
    BY <1>2, <2>3, <2>4, <2>6
  <2>. QED
    BY <2>6, <2>7
<1>. QED
  BY <1>1, <1>7, <1>10, <1>11 DEF Sooner

\* So that no other choice has fewer faults to come.
LEMMA DoWithout ==
  ASSUME InputInv, NEW j \in 1..References, NEW C \in SUBSET Referenced, IsFiniteSet(C),
         Cardinality(C) = nframe, refs[j] \notin C, NEW v \in C,
         \A w \in C : Sooner(w, v, j + 1)
  PROVE  ToCome(j, C) = 1 + ToCome(j + 1, (C \ {v}) \cup {refs[j]})
<1>1. PICK r : r = refs[j]
  OBVIOUS
<1>2. r \in Referenced /\ nframe \in Nat /\ r \notin C
  BY <1>1, InputIs DEF InputInv
<1>3. /\ \E w \in C : ToCome(j, C) = 1 + ToCome(j + 1, (C \ {w}) \cup {r})
      /\ \A w \in C : ToCome(j, C) <= 1 + ToCome(j + 1, (C \ {w}) \cup {r})
  <2>1. ~(Cardinality(C) < nframe)
    BY <1>2
  <2>. QED
    BY <1>1, <2>1, ToComeGoes DEF With
<1>4. PICK w \in C : ToCome(j, C) = 1 + ToCome(j + 1, (C \ {w}) \cup {r})
  BY <1>3
<1>5. PICK X, Y : X = (C \ {v}) \cup {r} /\ Y = (C \ {w}) \cup {r}
  OBVIOUS
<1>6. j + 1 \in 1..References + 1 /\ X \in SUBSET Referenced /\ Y \in SUBSET Referenced
  BY <1>2, <1>5, InputIs
<1>7. ToCome(j + 1, X) <= ToCome(j + 1, Y)
  <2>1. CASE v = w
    <3>1. PICK c : c = ToCome(j + 1, X)
      OBVIOUS
    <3>2. c \in Nat /\ c <= c
      BY <1>6, <3>1, ToComeIs
    <3>. QED
      BY <1>5, <2>1, <3>1, <3>2, Zenon
  <2>2. CASE v # w
    <3>1. PICK E, D : E = C \ {v} /\ D = (E \ {w}) \cup {r}
      OBVIOUS
    <3>2. IsFiniteSet(E) /\ Cardinality(E) = Cardinality(C) - 1 /\ w \in E
      BY <2>2, <3>1, FS_RemoveElement
    <3>3. IsFiniteSet(E \ {w}) /\ Cardinality(E \ {w}) = Cardinality(E) - 1 /\ r \notin E \ {w}
      BY <1>2, <3>1, <3>2, FS_RemoveElement
    <3>4. IsFiniteSet(D) /\ Cardinality(D) = Cardinality(E \ {w}) + 1
      BY <3>1, <3>3, FS_AddElement
    <3>5. Cardinality(D) + 1 = nframe
      BY <1>2, <3>2, <3>3, <3>4
    <3>6. Apart(D, w, v)
      BY <1>2, <2>2, <3>1, <3>4, <3>5 DEF Apart
    <3>7. X = D \cup {w} /\ Y = D \cup {v}
      BY <1>2, <1>5, <2>2, <3>1
    <3>8. Exchange(j + 1)
      BY <1>6, Exchanges
    <3>9. Sooner(w, v, j + 1) => ToCome(j + 1, D \cup {w}) <= ToCome(j + 1, D \cup {v})
      BY <3>6, <3>8, Zenon DEF Exchange
    <3>. QED
      BY <3>7, <3>9
  <2>. QED
    BY <2>1, <2>2
<1>8. PICK a, b, c : a = ToCome(j, C) /\ b = ToCome(j + 1, X) /\ c = ToCome(j + 1, Y)
  OBVIOUS
<1>9. a = 1 + c /\ a <= 1 + b /\ b <= c
  BY <1>3, <1>4, <1>5, <1>7, <1>8, Zenon
<1>10. a \in Nat /\ b \in Nat /\ c \in Nat
  BY <1>6, <1>8, <1>9, ToComeIs
<1>11. a = 1 + b
  BY <1>9, <1>10
<1>. QED
  BY <1>1, <1>5, <1>8, <1>11, Zenon

-----------------------------------------------------------------------------
(* The algorithms. Each serves a reference from a frame or, with a fault,     *)
(* puts the page in an empty frame while there is one and in place of another *)
(* page only when all the frames are in use.                                  *)

\* Which frames are in use: the first ones, until all of them are.
PlacesInv ==
    /\ filled \in 0..nframe /\ next \in Paging!Frame
    /\ algorithm \in {"optimal", "fifo", "lru"} =>
          \A f \in Paging!Frame : frames[f] # -1 <=> f < filled
    /\ algorithm = "clock" /\ (\E f \in Paging!Frame : frames[f] = -1) =>
          \A f \in Paging!Frame : frames[f] # -1 <=> f < next

FramesInv == InputInv /\ i \in 0..References /\ Shape(frames) /\ PlacesInv

Serves(a) ==
    /\ algorithm = a /\ algorithm' = a /\ i < References /\ i' = i + 1
    /\ refs' = refs /\ nframe' = nframe
    /\ \/ refs[i + 1] \in Inside(frames) /\ frames' = frames /\ faults' = faults
       \/ /\ refs[i + 1] \notin Inside(frames)
          /\ faults' = [faults EXCEPT ![a] = @ + 1]
          /\ \E v \in Paging!Frame :
                /\ frames' = [frames EXCEPT ![v] = refs[i + 1]]
                /\ frames[v] = -1 \/ \A f \in Paging!Frame : frames[f] # -1
                /\ a = "optimal" /\ frames[v] # -1 => v = Paging!FarthestUse

LEMMA HitIs ==
  ASSUME InputInv, i \in 0..References - 1
  PROVE  /\ Paging!Hit <=> refs[i + 1] \in Inside(frames)
         /\ Paging!p = refs[i + 1] /\ i + 1 \in 1..References /\ i < Len(refs)
         /\ Paging!Hit => /\ Paging!First(Paging!in_frames) \in Paging!Frame
                          /\ frames[Paging!First(Paging!in_frames)] = refs[i + 1]
<1>1. i + 1 \in 1..References /\ i < Len(refs)
  BY InputIs
<1>2. refs[i + 1] # -1
  BY <1>1, InputIs
<1>3. Paging!in_frames = {f \in Paging!Frame : frames[f] = refs[i + 1]}
  BY DEF Paging!in_frames, Paging!p
<1>4. Paging!Hit => Paging!First(Paging!in_frames) \in Paging!in_frames
  <2>1. Paging!in_frames \in SUBSET Nat
    BY <1>3, InputIs
  <2>. QED
    BY <2>1, FirstIs DEF Paging!Hit
<1>. QED
  BY <1>1, <1>2, <1>3, <1>4 DEF Paging!Hit, Inside, Paging!p

\* A fault of an algorithm that fills the frames in their order.
LEMMA Fills ==
  ASSUME FramesInv, i < References, algorithm \in {"optimal", "fifo", "lru"},
         UNCHANGED <<nframe, refs, algorithm>>, NEW v \in Paging!Frame,
         \/ filled < nframe /\ v = filled /\ filled' = filled + 1
         \/ ~(filled < nframe) /\ filled' = filled,
         frames' = [frames EXCEPT ![v] = refs[i + 1]], next' \in Paging!Frame
  PROVE  /\ PlacesInv'
         /\ filled < nframe => frames[v] = -1
         /\ ~(filled < nframe) => \A f \in Paging!Frame : frames[f] # -1
<1>1. /\ nframe \in Nat /\ nframe > 0 /\ filled \in 0..nframe /\ i + 1 \in 1..References
      /\ \A f \in Paging!Frame : f \in Nat /\ f < nframe
  BY InputIs DEF FramesInv, InputInv, PlacesInv
<1>2. refs[i + 1] # -1
  BY <1>1, InputIs DEF FramesInv
<1>3. \A f \in Paging!Frame : frames[f] # -1 <=> f < filled
  BY DEF FramesInv, PlacesInv
<1>4. Paging!Frame' = Paging!Frame
  BY DEF Paging!Frame
<1>5. \A f \in Paging!Frame : frames'[f] = IF f = v THEN refs[i + 1] ELSE frames[f]
  BY DEF FramesInv, Shape
<1>6. filled' \in 0..nframe
  BY <1>1
<1>7. ASSUME NEW f \in Paging!Frame PROVE frames'[f] # -1 <=> f < filled'
  <2>1. CASE filled < nframe /\ v = filled /\ filled' = filled + 1
    BY <1>1, <1>2, <1>3, <1>5, <2>1
  <2>2. CASE ~(filled < nframe) /\ filled' = filled
    BY <1>1, <1>2, <1>3, <1>5, <2>2
  <2>. QED
    BY <2>1, <2>2
<1>8. algorithm # "clock"
  OBVIOUS
<1>. QED
  BY <1>1, <1>3, <1>4, <1>6, <1>7, <1>8 DEF PlacesInv

LEMMA OptimalServes ==
  ASSUME FramesInv, Paging!simulate_optimal
  PROVE  Serves("optimal") /\ PlacesInv'
<1>1. /\ algorithm = "optimal" /\ algorithm' = algorithm /\ i < Len(refs) /\ i' = i + 1
      /\ refs' = refs /\ nframe' = nframe
  BY DEF Paging!simulate_optimal, Paging!Taking, Paging!input
<1>2. InputInv /\ i < References /\ i \in 0..References - 1 /\ PlacesInv /\ Paging!Frame' = Paging!Frame
  BY <1>1, InputIs DEF FramesInv, Paging!Frame
<1>3. CASE Paging!Hit
  <2>1. UNCHANGED <<frames, filled, next, faults>>
    BY <1>3 DEF Paging!simulate_optimal, Paging!Keep, Paging!local
  <2>2. PlacesInv'
    BY <1>1, <1>2, <2>1 DEF PlacesInv
  <2>. QED
    BY <1>1, <1>2, <1>3, <2>1, <2>2, HitIs DEF Serves
<1>4. CASE ~Paging!Hit
  <2>1. PICK v : /\ \/ filled < nframe /\ v = filled /\ filled' = filled + 1
                    \/ ~(filled < nframe) /\ v = Paging!FarthestUse /\ filled' = filled
                 /\ Paging!Fault(v, "optimal") /\ next' = next
    BY <1>4 DEF Paging!simulate_optimal
  <2>2. frames' = [frames EXCEPT ![v] = refs[i + 1]] /\ faults' = [faults EXCEPT !["optimal"] = @ + 1]
    BY <2>1 DEF Paging!Fault, Paging!p
  <2>3. v \in Paging!Frame
    <3>1. filled < nframe => filled \in Paging!Frame
      BY <1>2, InputIs DEF PlacesInv, InputInv
    <3>. QED
      BY <1>2, <2>1, <3>1, FarthestIs
  <2>4. next' \in Paging!Frame
    BY <1>2, <2>1 DEF PlacesInv
  <2>5. /\ PlacesInv'
        /\ filled < nframe => frames[v] = -1
        /\ ~(filled < nframe) => \A f \in Paging!Frame : frames[f] # -1
    BY <1>1, <1>2, <2>1, <2>2, <2>3, <2>4, Fills
  <2>6. refs[i + 1] \notin Inside(frames)
    BY <1>2, <1>4, HitIs
  <2>. QED
    BY <1>1, <1>2, <2>1, <2>2, <2>3, <2>5, <2>6 DEF Serves
<1>. QED
  BY <1>3, <1>4

LEMMA FifoServes ==
  ASSUME FramesInv, Paging!simulate_fifo
  PROVE  Serves("fifo") /\ PlacesInv'
<1>1. /\ algorithm = "fifo" /\ algorithm' = algorithm /\ i < Len(refs) /\ i' = i + 1
      /\ refs' = refs /\ nframe' = nframe
  BY DEF Paging!simulate_fifo, Paging!Taking, Paging!input
<1>2. InputInv /\ i < References /\ i \in 0..References - 1 /\ PlacesInv /\ Paging!Frame' = Paging!Frame
  BY <1>1, InputIs DEF FramesInv, Paging!Frame
<1>3. CASE Paging!Hit
  <2>1. UNCHANGED <<frames, filled, next, faults>>
    BY <1>3 DEF Paging!simulate_fifo, Paging!Keep, Paging!local
  <2>2. PlacesInv'
    BY <1>1, <1>2, <2>1 DEF PlacesInv
  <2>. QED
    BY <1>1, <1>2, <1>3, <2>1, <2>2, HitIs DEF Serves
<1>4. CASE ~Paging!Hit
  <2>1. PICK v : /\ \/ filled < nframe /\ v = filled /\ filled' = filled + 1 /\ next' = next
                    \/ /\ ~(filled < nframe) /\ v = next /\ filled' = filled
                       /\ next' = (next + 1) % nframe
                 /\ Paging!Fault(v, "fifo")
    BY <1>4 DEF Paging!simulate_fifo
  <2>2. frames' = [frames EXCEPT ![v] = refs[i + 1]] /\ faults' = [faults EXCEPT !["fifo"] = @ + 1]
    BY <2>1 DEF Paging!Fault, Paging!p
  <2>3. v \in Paging!Frame
    <3>1. filled < nframe => filled \in Paging!Frame
      BY <1>2, InputIs DEF PlacesInv, InputInv
    <3>. QED
      BY <1>2, <2>1, <3>1 DEF PlacesInv
  <2>4. next' \in Paging!Frame
    <3>1. next \in Nat /\ nframe \in Nat /\ nframe > 0
      BY <1>2, InputIs DEF PlacesInv, InputInv
    <3>2. (next + 1) % nframe \in 0..nframe - 1
      BY <3>1
    <3>. QED
      BY <1>2, <2>1, <3>2, InputIs DEF PlacesInv
  <2>5. /\ PlacesInv'
        /\ filled < nframe => frames[v] = -1
        /\ ~(filled < nframe) => \A f \in Paging!Frame : frames[f] # -1
    BY <1>1, <1>2, <2>1, <2>2, <2>3, <2>4, Fills
  <2>6. refs[i + 1] \notin Inside(frames)
    BY <1>2, <1>4, HitIs
  <2>. QED
    BY <1>1, <1>2, <2>1, <2>2, <2>3, <2>5, <2>6 DEF Serves
<1>. QED
  BY <1>3, <1>4

LEMMA LeastRecentIs ==
  ASSUME InputInv, last_used \in [Paging!Frame -> Int], \A f \in Paging!Frame : last_used[f] >= -1
  PROVE  /\ Paging!LeastRecent \in Paging!Frame
         /\ \A g \in Paging!Frame : last_used[Paging!LeastRecent] <= last_used[g]
<1>1. PICK Z, T, R : /\ Z = Paging!Frame
                     /\ T = {f \in Z : \A g \in Z : last_used[f] <= last_used[g]}
                     /\ R = {last_used[g] + 1 : g \in Z}
  OBVIOUS
<1>2. Z \in SUBSET Nat /\ 0 \in Z
  BY <1>1, InputIs DEF InputInv
<1>3. \A g \in Z : last_used[g] \in Int /\ last_used[g] + 1 \in Nat
  BY <1>1
<1>4. R \in SUBSET Nat /\ R # {}
  BY <1>1, <1>2, <1>3
<1>5. PICK m \in R : \A n \in R : m <= n
  BY <1>4, LeastNatural
<1>6. PICK f \in Z : m = last_used[f] + 1
  BY <1>1, <1>5
<1>7. \A g \in Z : last_used[f] + 1 <= last_used[g] + 1
  BY <1>1, <1>5, <1>6
<1>8. \A g \in Z : last_used[f] <= last_used[g]
  BY <1>3, <1>7
<1>9. Paging!First(T) \in T
  <2>1. T # {} /\ T \in SUBSET Nat
    BY <1>1, <1>2, <1>8
  <2>. QED
    BY <2>1, FirstIs
<1>. QED
  BY <1>1, <1>9 DEF Paging!LeastRecent

\* When each page in a frame was last referenced, and that whoever was
\* referenced and is in no frame was not since.
RecentInv ==
    /\ last_used \in [Paging!Frame -> Int]
    /\ \A f \in Paging!Frame : last_used[f] >= -1 /\ last_used[f] < i
    /\ algorithm = "lru" =>
          /\ \A f \in Paging!Frame :
                frames[f] # -1 =>
                   /\ last_used[f] >= 0 /\ refs[last_used[f] + 1] = frames[f]
                   /\ \A k \in 1..i : refs[k] = frames[f] => k <= last_used[f] + 1
          /\ \A k \in 1..i :
                refs[k] \notin Inside(frames) =>
                   \A f \in Paging!Frame : frames[f] # -1 /\ k <= last_used[f]

LEMMA LruServes ==
  ASSUME FramesInv, RecentInv, Paging!simulate_lru
  PROVE  /\ Serves("lru") /\ PlacesInv'
         /\ Paging!LruFrame \in Paging!Frame
         /\ last_used' = [last_used EXCEPT ![Paging!LruFrame] = i]
         /\ frames' = [frames EXCEPT ![Paging!LruFrame] = refs[i + 1]]
         /\ frames[Paging!LruFrame] # refs[i + 1] /\ frames[Paging!LruFrame] # -1 =>
               \A g \in Paging!Frame : last_used[Paging!LruFrame] <= last_used[g]
<1>1. /\ algorithm = "lru" /\ algorithm' = algorithm /\ i < Len(refs) /\ i' = i + 1
      /\ refs' = refs /\ nframe' = nframe /\ next' = next
      /\ last_used' = [last_used EXCEPT ![Paging!LruFrame] = i]
  BY DEF Paging!simulate_lru, Paging!Taking, Paging!input, Paging!Used
<1>2. InputInv /\ i < References /\ i \in 0..References - 1 /\ PlacesInv /\ Paging!Frame' = Paging!Frame
  BY <1>1, InputIs DEF FramesInv, Paging!Frame
<1>3. CASE Paging!Hit
  <2>1. UNCHANGED <<frames, filled, next, faults>>
    BY <1>1, <1>3 DEF Paging!simulate_lru
  <2>2. PlacesInv'
    BY <1>1, <1>2, <2>1 DEF PlacesInv
  <2>3. Paging!LruFrame \in Paging!Frame /\ frames[Paging!LruFrame] = refs[i + 1]
    BY <1>2, <1>3, HitIs DEF Paging!LruFrame
  <2>4. frames' = [frames EXCEPT ![Paging!LruFrame] = refs[i + 1]]
    BY <2>1, <2>3 DEF FramesInv, Shape
  <2>. QED
    BY <1>1, <1>2, <1>3, <2>1, <2>2, <2>3, <2>4, HitIs DEF Serves
<1>4. CASE ~Paging!Hit
  <2>1. PICK v : v = Paging!LruFrame
    OBVIOUS
  <2>2. /\ \/ filled < nframe /\ v = filled /\ filled' = filled + 1
           \/ ~(filled < nframe) /\ v = Paging!LeastRecent /\ filled' = filled
        /\ Paging!Fault(v, "lru")
    BY <1>4, <2>1 DEF Paging!simulate_lru, Paging!LruFrame
  <2>3. frames' = [frames EXCEPT ![v] = refs[i + 1]] /\ faults' = [faults EXCEPT !["lru"] = @ + 1]
    BY <2>2 DEF Paging!Fault, Paging!p
  <2>4. v \in Paging!Frame
    <3>1. filled < nframe => filled \in Paging!Frame
      BY <1>2, InputIs DEF PlacesInv, InputInv
    <3>. QED
      BY <1>2, <2>2, <3>1, LeastRecentIs DEF RecentInv
  <2>5. next' \in Paging!Frame
    BY <1>1, <1>2 DEF PlacesInv
  <2>6. /\ PlacesInv'
        /\ filled < nframe => frames[v] = -1
        /\ ~(filled < nframe) => \A f \in Paging!Frame : frames[f] # -1
    BY <1>1, <1>2, <2>2, <2>3, <2>4, <2>5, Fills
  <2>7. refs[i + 1] \notin Inside(frames)
    BY <1>2, <1>4, HitIs
  <2>8. Serves("lru")
    BY <1>1, <1>2, <2>2, <2>3, <2>4, <2>6, <2>7 DEF Serves
  <2>9. frames[v] # -1 => \A g \in Paging!Frame : last_used[v] <= last_used[g]
    BY <1>2, <2>2, <2>6, LeastRecentIs DEF RecentInv
  <2>. QED
    BY <1>1, <2>1, <2>3, <2>4, <2>6, <2>8, <2>9
<1>. QED
  BY <1>3, <1>4

LEMMA ClockServes ==
  ASSUME FramesInv, Paging!simulate_clock
  PROVE  Serves("clock") /\ PlacesInv'
<1>1. /\ algorithm = "clock" /\ algorithm' = algorithm /\ i < Len(refs) /\ i' = i + 1
      /\ refs' = refs /\ nframe' = nframe /\ filled' = filled
  BY DEF Paging!simulate_clock, Paging!Taking, Paging!input
<1>2. InputInv /\ i < References /\ i \in 0..References - 1 /\ PlacesInv /\ Paging!Frame' = Paging!Frame
  BY <1>1, InputIs DEF FramesInv, Paging!Frame
<1>3. CASE Paging!Hit
  <2>1. UNCHANGED <<frames, next, faults>>
    BY <1>3 DEF Paging!simulate_clock
  <2>2. PlacesInv'
    BY <1>1, <1>2, <2>1 DEF PlacesInv
  <2>. QED
    BY <1>1, <1>2, <1>3, <2>1, <2>2, HitIs DEF Serves
<1>4. CASE ~Paging!Hit
  <2>1. PICK d, v : d = Paging!HandMoves /\ v = (next + d) % nframe
    OBVIOUS
  <2>2. Paging!Fault(v, "clock") /\ next' = (v + 1) % nframe
    BY <1>4, <2>1 DEF Paging!simulate_clock
  <2>3. frames' = [frames EXCEPT ![v] = refs[i + 1]] /\ faults' = [faults EXCEPT !["clock"] = @ + 1]
    BY <2>2 DEF Paging!Fault, Paging!p
  <2>4. next \in Nat /\ nframe \in Nat /\ nframe > 0 /\ next < nframe
    BY <1>2, InputIs DEF PlacesInv, InputInv
  <2>5. PICK T : T = {e \in 0..nframe : \/ e = nframe
                         \/ frames[(next + e) % nframe] = -1 \/ refb[(next + e) % nframe] = 0}
    OBVIOUS
  <2>6. T \in SUBSET Nat /\ nframe \in T
    BY <2>4, <2>5
  <2>7. d = Paging!First(T)
    BY <2>1, <2>5 DEF Paging!HandMoves
  <2>8. d \in T /\ \A e \in T : d <= e
    BY <2>6, <2>7, FirstIs
  <2>9. d \in Nat
    BY <2>6, <2>8
  <2>10. v \in 0..nframe - 1
    BY <2>1, <2>4, <2>9
  <2>11. v \in Paging!Frame
    BY <1>2, <2>10, InputIs
  <2>12. next' \in 0..nframe - 1
    BY <2>2, <2>4, <2>10
  <2>13. next' \in Paging!Frame
    BY <1>2, <2>12, InputIs
  <2>14. refs[i + 1] \notin Inside(frames)
    BY <1>2, <1>4, HitIs
  <2>15. refs[i + 1] # -1
    BY <1>2, HitIs, InputIs
  <2>16. \A f \in Paging!Frame : frames'[f] = IF f = v THEN refs[i + 1] ELSE frames[f]
    BY <2>3 DEF FramesInv, Shape
  <2>17. CASE \A f \in Paging!Frame : frames[f] # -1
    <3>1. \A f \in Paging!Frame : frames'[f] # -1
      BY <2>15, <2>16, <2>17
    <3>2. PlacesInv'
      BY <1>1, <1>2, <2>13, <3>1 DEF PlacesInv
    <3>. QED
      BY <1>1, <1>2, <2>3, <2>11, <2>14, <2>17, <3>2 DEF Serves
  <2>18. CASE \E f \in Paging!Frame : frames[f] = -1
    <3>1. \A f \in Paging!Frame : frames[f] # -1 <=> f < next
      BY <1>1, <1>2, <2>18 DEF PlacesInv
    <3>2. frames[next] = -1
      BY <1>2, <2>4, <3>1 DEF PlacesInv
    <3>3. (next + 0) % nframe = next
      BY <2>4
    <3>4. 0 \in T
      BY <2>4, <2>5, <3>2, <3>3
    <3>5. d = 0
      BY <2>8, <2>9, <3>4
    <3>6. v = next
      BY <2>1, <3>3, <3>5
    <3>7. \A f \in Paging!Frame : f \in Nat /\ f < nframe
      BY <1>2, <2>4, InputIs
    <3>8. (\E f \in Paging!Frame : frames'[f] = -1) =>
             \A f \in Paging!Frame : frames'[f] # -1 <=> f < next'
      <4>1. CASE next + 1 < nframe
        <5>1. next' = next + 1
          BY <2>2, <2>4, <3>6, <4>1
        <5>2. \A f \in Paging!Frame : f < next + 1 <=> f = next \/ f < next
          BY <2>4, <3>7
        <5>. QED
          BY <2>15, <2>16, <3>1, <3>6, <5>1, <5>2
      <4>2. CASE ~(next + 1 < nframe)
        <5>1. \A f \in Paging!Frame : f = next \/ f < next
          BY <2>4, <3>7, <4>2
        <5>. QED
          BY <2>15, <2>16, <3>1, <3>6, <5>1
      <4>. QED
        BY <4>1, <4>2
    <3>9. PlacesInv'
      BY <1>1, <1>2, <2>13, <3>8 DEF PlacesInv
    <3>. QED
      BY <1>1, <1>2, <2>3, <2>11, <2>14, <3>2, <3>6, <3>9 DEF Serves
  <2>. QED
    BY <2>17, <2>18
<1>. QED
  BY <1>3, <1>4

-----------------------------------------------------------------------------
(* The faults: what an algorithm has had and has still to come, at its best,  *)
(* is never less than the least for the whole string and, for the optimal     *)
(* one, never more.                                                           *)

LEMMA SameCosts ==
  ASSUME refs' = refs, nframe' = nframe
  PROVE  /\ Referenced' = Referenced /\ (Least = Least') /\ Paging!Frame' = Paging!Frame
         /\ InputInv => InputInv'
<1>1. Referenced' = Referenced
  BY DEF Referenced
<1>2. ASSUME NEW g, NEW held, NEW j PROVE (Cost(g, held, j))' = Cost(g, held, j)
  BY DEF Cost
<1>3. ASSUME NEW g, NEW j PROVE (Row(g, j))' = Row(g, j)
  BY <1>1, <1>2, Zenon DEF Row
<1>4. ASSUME NEW f, NEW m PROVE (Costs(f, m))' = Costs(f, m)
  BY <1>3, Zenon DEF Costs
<1>5. Least' = Least
  BY <1>4, Zenon DEF Least
<1>. QED
  BY <1>1, <1>5 DEF InputInv, Paging!Frame

LeastCost == ToCome(1, {})

\* The algorithms that have run.
Over ==
    IF algorithm = "optimal" THEN {}
    ELSE IF algorithm = "fifo" THEN {"optimal"}
    ELSE IF algorithm = "lru" THEN {"optimal", "fifo"}
    ELSE IF algorithm = "clock" THEN {"optimal", "fifo", "lru"} ELSE Paging!Algorithm

FaultsInv ==
    /\ algorithm \in Paging!Algorithm \cup {"none"} /\ faults \in [Paging!Algorithm -> Nat]
    /\ \A a \in Over : LeastCost <= faults[a] /\ (a = "optimal" => faults[a] = LeastCost)
    /\ \A a \in Paging!Algorithm : a \notin Over /\ a # algorithm => faults[a] = 0
    /\ algorithm # "none" =>
          /\ LeastCost <= faults[algorithm] + ToCome(i + 1, Inside(frames))
          /\ algorithm = "optimal" =>
                faults["optimal"] + ToCome(i + 1, Inside(frames)) = LeastCost

\* What serving a reference costs, to any algorithm and to the optimal one.
LEMMA ServesPays ==
  ASSUME FramesInv, FaultsInv, NEW a \in Paging!Algorithm, Serves(a)
  PROVE  /\ Shape(frames') /\ faults' \in [Paging!Algorithm -> Nat]
         /\ \A b \in Paging!Algorithm : b # a => faults'[b] = faults[b]
         /\ LET before == faults[a] + ToCome(i + 1, Inside(frames))
                after  == faults'[a] + ToCome(i + 2, Inside(frames'))
            IN  before <= after /\ (a = "optimal" => after = before)
<1>1. PICK C, r, j : C = Inside(frames) /\ r = refs[i + 1] /\ j = i + 1
  OBVIOUS
<1>2. /\ InputInv /\ Shape(frames) /\ i \in 0..References - 1 /\ j \in 1..References
      /\ j + 1 = i + 2 /\ j + 1 \in 1..References + 1 /\ j \in 1..References + 1
  BY <1>1, InputIs DEF FramesInv, Serves
<1>3. /\ C \in SUBSET Referenced /\ IsFiniteSet(C) /\ Cardinality(C) \in Nat
      /\ ((\E f \in Paging!Frame : frames[f] = -1) => Cardinality(C) < nframe)
      /\ ((\A f \in Paging!Frame : frames[f] # -1) => Cardinality(C) = nframe)
  BY <1>1, <1>2, InsideIs
<1>4. r \in Referenced /\ r = refs[j]
  BY <1>1, <1>2, InputIs
<1>5. faults \in [Paging!Algorithm -> Nat] /\ faults[a] \in Nat
  BY DEF FaultsInv
<1>6. \A h \in SUBSET Referenced : ToCome(j, h) \in Nat /\ ToCome(j + 1, h) \in Nat
  BY <1>2, ToComeIs
<1>7. nframe \in Nat
  BY <1>2 DEF InputInv
<1>8. CASE r \in C /\ frames' = frames /\ faults' = faults
  <2>1. ToCome(j, C) = ToCome(j + 1, C)
    BY <1>2, <1>3, <1>4, <1>8, ToComeGoes
  <2>2. PICK x, y : x = ToCome(j, C) /\ y = faults[a]
    OBVIOUS
  <2>3. x \in Nat /\ y \in Nat
    BY <1>3, <1>5, <1>6, <2>2
  <2>4. y + x <= y + x
    BY <2>3
  <2>5. Inside(frames') = C /\ faults'[a] = y
    BY <1>1, <1>8, <2>2
  <2>6. ToCome(i + 1, Inside(frames)) = x /\ ToCome(i + 2, Inside(frames')) = x
    BY <1>1, <1>2, <2>1, <2>2, <2>5
  <2>. QED
    BY <1>2, <1>5, <1>8, <2>2, <2>4, <2>5, <2>6
<1>9. CASE r \notin C
  <2>1. PICK v \in Paging!Frame : /\ frames' = [frames EXCEPT ![v] = r]
                                  /\ frames[v] = -1 \/ \A f \in Paging!Frame : frames[f] # -1
                                  /\ a = "optimal" /\ frames[v] # -1 => v = Paging!FarthestUse
    BY <1>1, <1>9 DEF Serves
  <2>2. faults' = [faults EXCEPT ![a] = @ + 1]
    BY <1>1, <1>9 DEF Serves
  <2>3. faults'[a] = faults[a] + 1 /\ faults' \in [Paging!Algorithm -> Nat]
        /\ \A b \in Paging!Algorithm : b # a => faults'[b] = faults[b]
    BY <1>5, <2>2
  <2>4. r \in Referenced \ Inside(frames)
    BY <1>1, <1>4, <1>9
  <2>5. /\ Shape(frames')
        /\ (frames[v] = -1 => Inside(frames') = C \cup {r})
        /\ (frames[v] # -1 => frames[v] \in C /\ Inside(frames') = (C \ {frames[v]}) \cup {r})
    <3>1. frames' = Put(frames, v, r)
      BY <2>1 DEF Put
    <3>2. /\ Shape(Put(frames, v, r))
          /\ frames[v] = -1 => Inside(Put(frames, v, r)) = Inside(frames) \cup {r}
          /\ frames[v] # -1 =>
                /\ frames[v] \in Inside(frames)
                /\ Inside(Put(frames, v, r)) = (Inside(frames) \ {frames[v]}) \cup {r}
      BY <1>2, <2>4, Replaced
    <3>. QED
      BY <1>1, <3>1, <3>2
  <2>6. PICK Q : Q = Inside(frames')
    OBVIOUS
  <2>7. Q \in SUBSET Referenced
    BY <1>3, <1>4, <2>5, <2>6
  <2>8. ToCome(j, C) <= 1 + ToCome(j + 1, Q) /\ (a = "optimal" => ToCome(j, C) = 1 + ToCome(j + 1, Q))
    <3>1. CASE frames[v] = -1
      <4>1. Cardinality(C) < nframe /\ Q = C \cup {r}
        BY <1>3, <2>5, <2>6, <3>1
      <4>2. ToCome(j, C) = 1 + ToCome(j + 1, Q)
        BY <1>2, <1>3, <1>4, <1>9, <4>1, ToComeGoes
      <4>3. PICK c : c = ToCome(j, C)
        OBVIOUS
      <4>4. c <= c
        BY <1>3, <1>6, <4>3
      <4>. QED
        BY <4>2, <4>3, <4>4
    <3>2. CASE frames[v] # -1
      <4>1. Cardinality(C) = nframe /\ frames[v] \in C /\ Q = (C \ {frames[v]}) \cup {r}
        BY <1>3, <2>1, <2>5, <2>6, <3>2
      <4>2. ~(Cardinality(C) < nframe)
        BY <1>7, <4>1
      <4>3. ToCome(j, C) <= 1 + ToCome(j + 1, With(C, frames[v], j))
        BY <1>2, <1>3, <1>4, <1>9, <4>1, <4>2, ToComeGoes
      <4>4. With(C, frames[v], j) = Q
        BY <1>4, <4>1 DEF With
      <4>5. ASSUME a = "optimal" PROVE ToCome(j, C) = 1 + ToCome(j + 1, Q)
        <5>1. v = Paging!FarthestUse
          BY <2>1, <3>2, <4>5
        <5>2. \A f \in Paging!Frame : Sooner(frames[f], frames[v], j + 1)
          BY <1>2, <5>1, FarthestIs
        <5>3. \A w \in C : Sooner(w, frames[v], j + 1)
          BY <1>1, <5>2 DEF Inside
        <5>4. ToCome(j, C) = 1 + ToCome(j + 1, (C \ {frames[v]}) \cup {refs[j]})
          BY <1>2, <1>3, <1>4, <1>9, <4>1, <5>3, DoWithout
        <5>. QED
          BY <1>4, <4>1, <5>4
      <4>. QED
        BY <4>3, <4>4, <4>5
    <3>. QED
      BY <3>1, <3>2
  <2>9. PICK x, y, z : x = ToCome(j, C) /\ y = ToCome(j + 1, Q) /\ z = faults[a]
    OBVIOUS
  <2>10. x \in Nat /\ y \in Nat /\ z \in Nat
    BY <1>3, <1>5, <1>6, <2>7, <2>9
  <2>11. z + x <= z + 1 + y /\ (a = "optimal" => z + 1 + y = z + x)
    BY <2>8, <2>9, <2>10
  <2>12. /\ ToCome(i + 1, Inside(frames)) = x /\ ToCome(i + 2, Inside(frames')) = y
         /\ faults[a] = z /\ faults'[a] = z + 1
    BY <1>1, <1>2, <2>3, <2>6, <2>9
  <2>. QED
    BY <2>3, <2>5, <2>11, <2>12
<1>10. \/ r \in C /\ frames' = frames /\ faults' = faults
       \/ r \notin C
  BY <1>1 DEF Serves
<1>. QED
  BY <1>8, <1>9, <1>10

LEMMA ServesKeeps ==
  ASSUME FramesInv, FaultsInv, PlacesInv', NEW a \in Paging!Algorithm, Serves(a)
  PROVE  FramesInv' /\ FaultsInv'
<1>1. /\ InputInv /\ InputInv' /\ Least' = Least /\ Referenced' = Referenced
      /\ Paging!Frame' = Paging!Frame /\ refs' = refs /\ nframe' = nframe
      /\ algorithm = a /\ algorithm' = a /\ i' = i + 1 /\ i \in 0..References - 1
  BY SameCosts, InputIs DEF Serves, FramesInv
<1>2. i' \in 0..References /\ i' + 1 = i + 2
  BY <1>1, InputIs
<1>3. (Shape(frames))'
  BY <1>1, ServesPays DEF Shape
<1>4. (Inside(frames))' = Inside(frames')
  BY <1>1 DEF Inside
<1>5. (LeastCost)' = LeastCost /\ \A h : (ToCome(i + 1, h))' = ToCome(i + 2, h)
  BY <1>1, <1>2 DEF LeastCost, ToCome
<1>6. Over' = Over /\ a \notin Over
  BY <1>1 DEF Over, Paging!Algorithm
<1>7. PICK low, x, y, n, m : /\ low = LeastCost
                             /\ x = ToCome(i + 1, Inside(frames)) /\ n = faults[a]
                             /\ y = ToCome(i + 2, Inside(frames')) /\ m = faults'[a]
  OBVIOUS
<1>8. low <= n + x /\ (a = "optimal" => n + x = low) /\ a # "none"
  BY <1>1, <1>7 DEF FaultsInv, Paging!Algorithm
<1>9. n + x <= m + y /\ (a = "optimal" => m + y = n + x)
  BY <1>7, ServesPays
<1>10. low \in Nat /\ x \in Nat /\ n \in Nat /\ y \in Nat /\ m \in Nat
  <2>1. Inside(frames) \in SUBSET Referenced /\ Inside(frames') \in SUBSET Referenced
    BY <1>1, ServesPays, InsideIs DEF FramesInv
  <2>2. i + 1 \in 1..References + 1 /\ i + 2 \in 1..References + 1 /\ 1 \in 1..References + 1
    BY <1>1, InputIs
  <2>3. {} \in SUBSET Referenced
    OBVIOUS
  <2>4. low \in Nat /\ x \in Nat /\ y \in Nat
    BY <1>1, <1>7, <2>1, <2>2, <2>3, ToComeIs DEF LeastCost
  <2>5. n \in Nat /\ m \in Nat
    BY <1>7, ServesPays DEF FaultsInv
  <2>. QED
    BY <2>4, <2>5
<1>11. low <= m + y /\ (a = "optimal" => m + y = low)
  BY <1>8, <1>9, <1>10
<1>12. (ToCome(i + 1, Inside(frames)))' = y
  BY <1>4, <1>5, <1>7
<1>13. FaultsInv'
  <2>1. faults' \in [Paging!Algorithm -> Nat] /\ \A b \in Paging!Algorithm : b # a => faults'[b] = faults[b]
    BY ServesPays
  <2>2. Over \in SUBSET Paging!Algorithm
    BY DEF Over, Paging!Algorithm
  <2>3. \A b \in Over : LeastCost <= faults'[b] /\ (b = "optimal" => faults'[b] = LeastCost)
    BY <1>6, <2>1, <2>2 DEF FaultsInv
  <2>4. \A b \in Paging!Algorithm : b \notin Over /\ b # a => faults'[b] = 0
    BY <1>1, <2>1 DEF FaultsInv
  <2>5. algorithm' \in Paging!Algorithm \cup {"none"}
    BY <1>1
  <2>6. /\ LeastCost <= faults'[a] + y
        /\ a = "optimal" => faults'["optimal"] + y = LeastCost
    BY <1>7, <1>11
  <2>. QED
    BY <1>1, <1>5, <1>6, <1>12, <2>1, <2>3, <2>4, <2>5, <2>6 DEF FaultsInv
<1>. QED
  BY <1>1, <1>2, <1>3, <1>13 DEF FramesInv

-----------------------------------------------------------------------------
(* lru: what is in no frame was last referenced before anything that is in    *)
(* one.                                                                       *)

LEMMA RecentGoesOn ==
  ASSUME FramesInv, RecentInv, Paging!simulate_lru
  PROVE  RecentInv'
<1>1. PICK v, r : v = Paging!LruFrame /\ r = refs[i + 1]
  OBVIOUS
<1>2. /\ Serves("lru") /\ v \in Paging!Frame
      /\ last_used' = [last_used EXCEPT ![v] = i] /\ frames' = [frames EXCEPT ![v] = r]
      /\ frames[v] # r /\ frames[v] # -1 => \A g \in Paging!Frame : last_used[v] <= last_used[g]
  BY <1>1, LruServes
<1>3. /\ algorithm = "lru" /\ algorithm' = "lru" /\ i \in 0..References - 1 /\ i' = i + 1
      /\ refs' = refs /\ Paging!Frame' = Paging!Frame /\ InputInv /\ Shape(frames)
      /\ i \in Nat /\ r # -1
  BY <1>1, <1>2, HitIs, InputIs DEF Serves, FramesInv, Paging!Frame
<1>4. (Inside(frames))' = Inside(frames')
  BY <1>3 DEF Inside
<1>5. /\ \A f \in Paging!Frame : frames'[f] = IF f = v THEN r ELSE frames[f]
      /\ \A f \in Paging!Frame : last_used'[f] = IF f = v THEN i ELSE last_used[f]
  BY <1>2, <1>3 DEF RecentInv, Shape
<1>6. last_used \in [Paging!Frame -> Int]
      /\ \A f \in Paging!Frame : last_used[f] \in Int /\ last_used[f] >= -1 /\ last_used[f] < i
  BY DEF RecentInv
<1>7. last_used' \in [Paging!Frame -> Int]
      /\ \A f \in Paging!Frame : last_used'[f] >= -1 /\ last_used'[f] < i + 1
  BY <1>2, <1>3, <1>5, <1>6
<1>8. /\ \A f \in Paging!Frame :
            frames[f] # -1 =>
               /\ last_used[f] >= 0 /\ refs[last_used[f] + 1] = frames[f]
               /\ \A k \in 1..i : refs[k] = frames[f] => k <= last_used[f] + 1
      /\ \A k \in 1..i :
            refs[k] \notin Inside(frames) =>
               \A f \in Paging!Frame : frames[f] # -1 /\ k <= last_used[f]
  BY <1>3 DEF RecentInv
<1>9. \A k \in 1..i + 1 : k \in 1..i \/ k = i + 1
  BY <1>3
<1>10. r \in Inside(frames) => frames[v] = r
  <2>1. r \in Inside(frames) => frames' = frames
    BY <1>1, <1>2 DEF Serves
  <2>. QED
    BY <1>2, <1>5, <2>1
<1>11. \A f \in Paging!Frame : f # v /\ frames[f] # -1 => frames[f] # r
  <2>1. \A f \in Paging!Frame : frames[f] = r => r \in Inside(frames)
    BY <1>3 DEF Inside
  <2>2. \A f \in Paging!Frame : f # v /\ frames[f] = frames[v] => frames[f] = -1
    BY <1>2, <1>3 DEF Shape
  <2>. QED
    BY <1>10, <2>1, <2>2
<1>12. ASSUME NEW f \in Paging!Frame, frames'[f] # -1
       PROVE  /\ last_used'[f] >= 0 /\ refs[last_used'[f] + 1] = frames'[f]
              /\ \A k \in 1..i + 1 : refs[k] = frames'[f] => k <= last_used'[f] + 1
  <2>1. CASE f = v
    BY <1>1, <1>3, <1>5, <1>9, <2>1
  <2>2. CASE f # v
    <3>1. frames'[f] = frames[f] /\ last_used'[f] = last_used[f] /\ frames[f] # r
      BY <1>5, <1>11, <1>12, <2>2
    <3>. QED
      BY <1>1, <1>8, <1>9, <1>12, <3>1
  <2>. QED
    BY <2>1, <2>2
<1>13. ASSUME NEW k \in 1..i + 1, refs[k] \notin Inside(frames')
       PROVE  \A f \in Paging!Frame : frames'[f] # -1 /\ k <= last_used'[f]
  <2>1. r \in Inside(frames')
    BY <1>2, <1>3, <1>5 DEF Inside
  <2>2. k \in 1..i /\ refs[k] # r
    BY <1>1, <1>9, <1>13, <2>1
  <2>3. \A y \in Inside(frames) : y # frames[v] => y \in Inside(frames')
    <3>1. ASSUME NEW y \in Inside(frames), y # frames[v] PROVE y \in Inside(frames')
      <4>1. PICK f \in Paging!Frame : y = frames[f] /\ y # -1
        BY DEF Inside
      <4>2. frames'[f] = y
        BY <1>5, <3>1, <4>1
      <4>. QED
        BY <4>1, <4>2 DEF Inside
    <3>. QED
      BY <3>1
  <2>4. CASE refs[k] \notin Inside(frames)
    <3>1. \A f \in Paging!Frame : frames[f] # -1 /\ k <= last_used[f]
      BY <1>8, <2>2, <2>4
    <3>2. ASSUME NEW f \in Paging!Frame PROVE frames'[f] # -1 /\ k <= last_used'[f]
      BY <1>3, <1>5, <2>2, <3>1
    <3>. QED
      BY <3>2
  <2>5. CASE refs[k] \in Inside(frames)
    <3>1. refs[k] = frames[v] /\ frames[v] # -1 /\ frames[v] # r
      BY <1>13, <2>2, <2>3, <2>5 DEF Inside
    <3>2. k <= last_used[v] + 1 /\ refs[last_used[v] + 1] = frames[v]
      BY <1>2, <1>8, <2>2, <3>1
    <3>3. r \notin Inside(frames)
      BY <1>10, <3>1
    <3>4. \A f \in Paging!Frame : frames[f] # -1
      <4>1. PICK x \in Paging!Frame : /\ frames' = [frames EXCEPT ![x] = r]
                                      /\ frames[x] = -1 \/ \A f \in Paging!Frame : frames[f] # -1
        BY <1>1, <1>2, <3>3 DEF Serves
      <4>2. frames'[x] = r
        BY <1>3, <4>1 DEF Shape
      <4>3. frames[x] # r
        BY <1>3, <3>3 DEF Inside
      <4>4. x = v
        BY <1>5, <4>2, <4>3
      <4>. QED
        BY <3>1, <4>1, <4>4
    <3>5. ASSUME NEW f \in Paging!Frame PROVE frames'[f] # -1 /\ k <= last_used'[f]
      <4>1. CASE f = v
        BY <1>3, <1>5, <2>2, <4>1
      <4>2. CASE f # v
        <5>1. frames[f] # frames[v]
          BY <1>2, <1>3, <3>4, <4>2 DEF Shape
        <5>2. refs[last_used[f] + 1] = frames[f] /\ last_used[v] <= last_used[f]
          BY <1>2, <1>8, <3>1, <3>4
        <5>3. last_used[f] # last_used[v]
          BY <3>2, <5>1, <5>2
        <5>4. k <= last_used[f]
          <6>1. PICK x, y : x = last_used[v] /\ y = last_used[f]
            OBVIOUS
          <6>2. x \in Int /\ y \in Int /\ k \in Int /\ k <= x + 1 /\ x <= y /\ x # y
            BY <1>2, <1>6, <2>2, <3>2, <5>2, <5>3, <6>1
          <6>. QED
            BY <6>1, <6>2
        <5>. QED
          BY <1>5, <3>4, <4>2, <5>4
      <4>. QED
        BY <4>1, <4>2
    <3>. QED
      BY <3>5
  <2>. QED
    BY <2>4, <2>5
<1>. QED
  BY <1>3, <1>4, <1>7, <1>12, <1>13 DEF RecentInv

LEMMA RecentStays ==
  ASSUME FramesInv, RecentInv, i' = i + 1, last_used' = last_used, nframe' = nframe,
         algorithm' = algorithm, algorithm # "lru"
  PROVE  RecentInv'
<1>1. Paging!Frame' = Paging!Frame /\ i \in Int /\ algorithm' # "lru"
  BY InputIs DEF Paging!Frame, FramesInv
<1>2. \A f \in Paging!Frame : last_used[f] \in Int /\ last_used[f] < i + 1
  BY <1>1 DEF RecentInv
<1>. QED
  BY <1>1, <1>2 DEF RecentInv

-----------------------------------------------------------------------------
(* The page replacement simulator.                                            *)

PagingInv == FramesInv /\ RecentInv /\ FaultsInv

\* The order in which main calls the simulations.
After(a) == Paging!Order[(CHOOSE k \in 1..4 : Paging!Order[k] = a) + 1]

LEMMA AfterIs ==
  /\ After("optimal") = "fifo" /\ After("fifo") = "lru"
  /\ After("lru") = "clock" /\ After("clock") = "none"
<1>1. /\ Paging!Order[1] = "optimal" /\ Paging!Order[2] = "fifo" /\ Paging!Order[3] = "lru"
      /\ Paging!Order[4] = "clock" /\ Paging!Order[5] = "none"
  BY DEF Paging!Order
<1>2. \A k \in 1..4 : k = 1 \/ k = 2 \/ k = 3 \/ k = 4
  OBVIOUS
<1>3. ASSUME NEW n \in 1..4 PROVE After(Paging!Order[n]) = Paging!Order[n + 1]
  <2>1. PICK at : at = CHOOSE k \in 1..4 : Paging!Order[k] = Paging!Order[n]
    OBVIOUS
  <2>2. at \in 1..4 /\ Paging!Order[at] = Paging!Order[n]
    BY <2>1
  <2>3. at = n
    BY <1>1, <1>2, <2>2
  <2>. QED
    BY <2>1, <2>3 DEF After
<1>4. /\ After(Paging!Order[1]) = Paging!Order[2] /\ After(Paging!Order[2]) = Paging!Order[3]
      /\ After(Paging!Order[3]) = Paging!Order[4] /\ After(Paging!Order[4]) = Paging!Order[5]
  BY <1>3
<1>. QED
  BY <1>1, <1>4

\* An empty frame, for each of them, and everything still to pay.
LEMMA StartsEmpty ==
  ASSUME InputInv, NEW fr, fr = [f \in Paging!Frame |-> -1]
  PROVE  /\ Shape(fr) /\ Inside(fr) = {} /\ 0 \in Paging!Frame /\ 0 \in 0..nframe
         /\ \A f \in Paging!Frame : fr[f] = -1 /\ ~(f < 0)
         /\ LeastCost \in Nat
<1>1. nframe \in Nat /\ nframe > 0 /\ Paging!Frame = 0..nframe - 1
  BY InputIs DEF InputInv
<1>2. 1 \in 1..References + 1 /\ {} \in SUBSET Referenced
  BY InputIs
<1>. QED
  BY <1>1, <1>2, ToComeIs DEF Shape, Inside, LeastCost

LEMMA PagingBegins == Paging!Init => PagingInv
<1>1. HAVE Paging!Init
<1>2. /\ nframe \in Frames /\ nframe > 0 /\ refs \in Strings
      /\ algorithm = "optimal" /\ i = 0 /\ frames = [f \in Paging!Frame |-> -1]
      /\ last_used = [f \in Paging!Frame |-> -1] /\ next = 0 /\ filled = 0
      /\ faults = [a \in Paging!Algorithm |-> 0]
  BY <1>1 DEF Paging!Init, Paging!read_input
<1>3. InputInv
  <2>1. nframe \in Int
    BY <1>2, ReferencesAssumption
  <2>2. nframe \in Nat
    BY <1>2, <2>1
  <2>3. refs \in [1..References -> 1..Pages]
    BY <1>2 DEF Strings
  <2>. QED
    BY <1>2, <2>2, <2>3 DEF InputInv
<1>4. /\ Shape(frames) /\ Inside(frames) = {} /\ 0 \in Paging!Frame /\ 0 \in 0..nframe
      /\ \A f \in Paging!Frame : frames[f] = -1 /\ ~(f < 0)
      /\ LeastCost \in Nat
  BY <1>2, <1>3, StartsEmpty
<1>5. FramesInv
  BY <1>2, <1>3, <1>4, InputIs DEF FramesInv, PlacesInv
<1>6. RecentInv
  BY <1>2 DEF RecentInv
<1>7. FaultsInv
  <2>1. ToCome(i + 1, Inside(frames)) = LeastCost
    <3>1. i + 1 = 1
      BY <1>2
    <3>. QED
      BY <1>4, <3>1 DEF LeastCost
  <2>2. PICK c : c = LeastCost
    OBVIOUS
  <2>3. c \in Nat /\ c <= 0 + c /\ 0 + c = c
    BY <1>4, <2>2
  <2>4. Over = {}
    BY <1>2 DEF Over
  <2>5. "optimal" \in Paging!Algorithm
    BY DEF Paging!Algorithm
  <2>. QED
    BY <1>2, <2>1, <2>2, <2>3, <2>4, <2>5 DEF FaultsInv
<1>. QED
  BY <1>5, <1>6, <1>7 DEF PagingInv

LEMMA MainKeeps ==
  ASSUME PagingInv, Paging!main
  PROVE  PagingInv'
<1>1. /\ algorithm # "none" /\ i = Len(refs) /\ i' = 0
      /\ frames' = [f \in Paging!Frame |-> -1] /\ last_used' = [f \in Paging!Frame |-> -1]
      /\ next' = 0 /\ filled' = 0 /\ refs' = refs /\ nframe' = nframe /\ faults' = faults
      /\ algorithm' = Paging!Order[(CHOOSE k \in 1..4 : Paging!Order[k] = algorithm) + 1]
  BY DEF Paging!main, Paging!input
<1>2. FramesInv /\ FaultsInv
  BY DEF PagingInv
<1>3. /\ InputInv /\ InputInv' /\ Least' = Least /\ Referenced' = Referenced
      /\ Paging!Frame' = Paging!Frame /\ i = References
  BY <1>1, <1>2, SameCosts, InputIs DEF FramesInv
<1>4. /\ Shape(frames') /\ Inside(frames') = {} /\ 0 \in Paging!Frame /\ 0 \in 0..nframe
      /\ \A f \in Paging!Frame : frames'[f] = -1 /\ ~(f < 0)
      /\ LeastCost \in Nat
  BY <1>1, <1>3, StartsEmpty
<1>5. (Shape(frames))' /\ (Inside(frames))' = {}
  BY <1>3, <1>4 DEF Shape, Inside
<1>6. FramesInv'
  BY <1>1, <1>3, <1>4, <1>5, InputIs DEF FramesInv, PlacesInv
<1>7. RecentInv'
  <2>1. /\ last_used' \in [Paging!Frame -> Int]
        /\ \A f \in Paging!Frame : last_used'[f] >= -1 /\ last_used'[f] < 0
    BY <1>1
  <2>2. \A k \in 1..0 : FALSE
    OBVIOUS
  <2>. QED
    BY <1>1, <1>3, <1>4, <2>1, <2>2 DEF RecentInv
<1>8. \/ algorithm = "optimal" /\ algorithm' = "fifo"
      \/ algorithm = "fifo" /\ algorithm' = "lru"
      \/ algorithm = "lru" /\ algorithm' = "clock"
      \/ algorithm = "clock" /\ algorithm' = "none"
  <2>1. algorithm \in {"optimal", "fifo", "lru", "clock"}
    BY <1>1, <1>2 DEF FaultsInv, Paging!Algorithm
  <2>. QED
    <3>1. algorithm' = After(algorithm)
      BY <1>1, Zenon DEF After
    <3>. QED
      BY <2>1, <3>1, AfterIs, Zenon
<1>9. PICK c : c = LeastCost
  OBVIOUS
<1>10. c \in Nat /\ (LeastCost)' = c /\ (ToCome(i + 1, Inside(frames)))' = c
  <2>1. i' + 1 = 1
    BY <1>1
  <2>. QED
    BY <1>3, <1>4, <1>5, <1>9, <2>1 DEF LeastCost, ToCome
<1>11. faults \in [Paging!Algorithm -> Nat] /\ algorithm \in Paging!Algorithm
  BY <1>1, <1>2 DEF FaultsInv
<1>12. c <= faults[algorithm] /\ (algorithm = "optimal" => faults[algorithm] = c)
  <2>1. Inside(frames) \in SUBSET Referenced
    BY <1>2, <1>3, InsideIs DEF FramesInv
  <2>2. ToCome(i + 1, Inside(frames)) = 0
    BY <1>3, <2>1, NothingToCome
  <2>3. /\ c <= faults[algorithm] + 0
        /\ algorithm = "optimal" => faults["optimal"] + 0 = c
    BY <1>1, <1>2, <1>9, <2>2 DEF FaultsInv
  <2>4. faults[algorithm] \in Nat
    BY <1>11
  <2>. QED
    BY <1>10, <2>3, <2>4
<1>13. Over' = Over \cup {algorithm} /\ algorithm' # "optimal"
  BY <1>8 DEF Over, Paging!Algorithm
<1>14. \A a \in Over' : c <= faults[a] /\ (a = "optimal" => faults[a] = c)
  BY <1>2, <1>9, <1>12, <1>13 DEF FaultsInv
<1>15. \A a \in Paging!Algorithm : a \notin Over' => faults[a] = 0
  BY <1>2, <1>13 DEF FaultsInv
<1>16. algorithm' # "none" => algorithm' \in Paging!Algorithm /\ algorithm' \notin Over'
  BY <1>8, <1>13 DEF Over, Paging!Algorithm
<1>17. FaultsInv'
  <2>1. algorithm' # "none" => c <= faults[algorithm'] + c
    BY <1>10, <1>15, <1>16
  <2>2. algorithm' \in Paging!Algorithm \cup {"none"}
    BY <1>8 DEF Paging!Algorithm
  <2>. QED
    BY <1>1, <1>10, <1>11, <1>13, <1>14, <1>15, <2>1, <2>2 DEF FaultsInv
<1>. QED
  BY <1>6, <1>7, <1>17 DEF PagingInv

LEMMA PagingKeep == PagingInv /\ (Paging!Next \/ UNCHANGED <<pageVars, i>>) => PagingInv'
<1>1. SUFFICES ASSUME PagingInv, Paging!Next \/ UNCHANGED <<pageVars, i>>
               PROVE  PagingInv'
  OBVIOUS
<1>2. FramesInv /\ RecentInv /\ FaultsInv
  BY <1>1 DEF PagingInv
<1>3. {"optimal", "fifo", "lru", "clock"} \in SUBSET Paging!Algorithm
  BY DEF Paging!Algorithm
<1>4. CASE Paging!simulate_optimal
  <2>1. Serves("optimal") /\ PlacesInv'
    BY <1>2, <1>4, OptimalServes
  <2>2. FramesInv' /\ FaultsInv'
    BY <1>2, <1>3, <2>1, ServesKeeps
  <2>3. last_used' = last_used
    BY <1>4 DEF Paging!simulate_optimal, Paging!Keep, Paging!local
  <2>. QED
    BY <1>2, <2>1, <2>2, <2>3, RecentStays DEF PagingInv, Serves
<1>5. CASE Paging!simulate_fifo
  <2>1. Serves("fifo") /\ PlacesInv'
    BY <1>2, <1>5, FifoServes
  <2>2. FramesInv' /\ FaultsInv'
    BY <1>2, <1>3, <2>1, ServesKeeps
  <2>3. last_used' = last_used
    BY <1>5 DEF Paging!simulate_fifo, Paging!Keep, Paging!local
  <2>. QED
    BY <1>2, <2>1, <2>2, <2>3, RecentStays DEF PagingInv, Serves
<1>6. CASE Paging!simulate_lru
  <2>1. Serves("lru") /\ PlacesInv'
    BY <1>2, <1>6, LruServes
  <2>2. FramesInv' /\ FaultsInv'
    BY <1>2, <1>3, <2>1, ServesKeeps
  <2>. QED
    BY <1>2, <1>6, <2>2, RecentGoesOn DEF PagingInv
<1>7. CASE Paging!simulate_clock
  <2>1. Serves("clock") /\ PlacesInv'
    BY <1>2, <1>7, ClockServes
  <2>2. FramesInv' /\ FaultsInv'
    BY <1>2, <1>3, <2>1, ServesKeeps
  <2>3. last_used' = last_used
    BY <1>7 DEF Paging!simulate_clock
  <2>. QED
    BY <1>2, <2>1, <2>2, <2>3, RecentStays DEF PagingInv, Serves
<1>8. CASE Paging!main
  BY <1>1, <1>8, MainKeeps
<1>9. CASE UNCHANGED <<pageVars, i>>
  <2>1. UNCHANGED <<nframe, refs, algorithm, frames, last_used, next, filled, faults, i>>
    BY <1>9 DEF pageVars
  <2>2. InputInv' /\ Least' = Least /\ Referenced' = Referenced /\ Paging!Frame' = Paging!Frame
    BY <1>2, <2>1, SameCosts DEF FramesInv
  <2>3. (Shape(frames))' /\ PlacesInv' /\ (Inside(frames))' = Inside(frames)
    BY <1>2, <2>1, <2>2 DEF FramesInv, Shape, PlacesInv, Inside
  <2>4. RecentInv'
    BY <1>2, <2>1, <2>2, <2>3 DEF RecentInv
  <2>5. (LeastCost)' = LeastCost /\ Over' = Over
        /\ (ToCome(i + 1, Inside(frames)))' = ToCome(i + 1, Inside(frames))
    BY <2>1, <2>2, <2>3 DEF LeastCost, Over, ToCome
  <2>6. FaultsInv'
    BY <1>2, <2>1, <2>5 DEF FaultsInv
  <2>. QED
    BY <1>2, <2>1, <2>2, <2>3, <2>4, <2>6 DEF PagingInv, FramesInv
<1>. QED
  BY <1>1, <1>4, <1>5, <1>6, <1>7, <1>8, <1>9 DEF Paging!Next

LEMMA PagingAlways == SimulatorsSpec => [](family = "paging" => PagingInv)
<1>1. SimulatorsInit => (family = "paging" => PagingInv)
  BY SimulatorsBegin, PagingBegins
<1>2. (family = "paging" => PagingInv) /\ [SimulatorsNext]_allVars => (family = "paging" => PagingInv)'
  BY OneRuns, PagingKeep
<1>. QED
  BY <1>1, <1>2, PTL DEF SimulatorsSpec

-----------------------------------------------------------------------------
(* What the runs check.                                                       *)

\* The pages referenced from the j-th reference on.
Since(j) == {refs[k] : k \in j..i}

LEMMA SinceIs ==
  ASSUME FramesInv, NEW j \in 1..i
  PROVE  Since(j) \in SUBSET Referenced /\ IsFiniteSet(Since(j)) /\ Cardinality(Since(j)) \in Nat
<1>1. InputInv /\ i \in 0..References /\ References \in Nat
  BY InputIs DEF FramesInv
<1>2. \A k \in j..i : k \in 1..References
  BY <1>1
<1>3. Since(j) \in SUBSET Referenced
  BY <1>1, <1>2, InputIs DEF Since
<1>4. IsFiniteSet(1..Pages)
  BY ReferencesAssumption, FS_Interval
<1>5. IsFiniteSet(Since(j))
  <2>1. Referenced \in SUBSET (1..Pages)
    BY <1>1 DEF Referenced, InputInv
  <2>2. Since(j) \in SUBSET (1..Pages)
    BY <1>3, <2>1
  <2>. QED
    BY <1>4, <2>2, FS_Subset
<1>. QED
  BY <1>3, <1>5, FS_CardinalityType

\* The pages of lru's frames are those since whose last reference no more pages
\* were referenced than there are frames.
LEMMA RecentAreKept ==
  ASSUME FramesInv, RecentInv, algorithm = "lru"
  PROVE  Inside(frames) = {refs[j] : j \in {j \in 1..i : Cardinality(Since(j)) <= nframe}}
<1>1. PICK C : C = Inside(frames)
  OBVIOUS
<1>2. /\ InputInv /\ Shape(frames) /\ i \in 0..References /\ i \in Nat /\ References \in Nat
      /\ nframe \in Nat
  BY InputIs DEF FramesInv, InputInv
<1>3. /\ IsFiniteSet(C) /\ Cardinality(C) <= nframe /\ Cardinality(C) \in Nat
      /\ (\A f \in Paging!Frame : frames[f] # -1) => Cardinality(C) = nframe
  BY <1>1, <1>2, InsideIs
<1>4. /\ \A f \in Paging!Frame : last_used[f] \in Int /\ last_used[f] < i
      /\ \A f \in Paging!Frame :
            frames[f] # -1 => last_used[f] >= 0 /\ refs[last_used[f] + 1] = frames[f]
      /\ \A k \in 1..i :
            refs[k] \notin C => \A f \in Paging!Frame : frames[f] # -1 /\ k <= last_used[f]
  BY <1>1 DEF RecentInv
<1>5. ASSUME NEW y \in C
      PROVE  \E j \in 1..i : y = refs[j] /\ Cardinality(Since(j)) <= nframe
  <2>1. PICK f \in Paging!Frame : y = frames[f] /\ y # -1
    BY <1>1 DEF Inside
  <2>2. PICK j : j = last_used[f] + 1
    OBVIOUS
  <2>3. j \in 1..i /\ y = refs[j] /\ last_used[f] = j - 1
    BY <1>2, <1>4, <2>1, <2>2
  <2>4. ASSUME NEW k \in j..i PROVE refs[k] \in C
    <3>1. k \in 1..i /\ ~(k <= j - 1)
      BY <1>2, <2>3
    <3>. QED
      BY <1>4, <2>3, <3>1
  <2>5. Since(j) \in SUBSET C
    BY <2>4 DEF Since
  <2>6. Cardinality(Since(j)) <= Cardinality(C) /\ Cardinality(Since(j)) \in Nat
    BY <1>3, <2>3, <2>5, FS_Subset, SinceIs
  <2>7. Cardinality(Since(j)) <= nframe
    BY <1>2, <1>3, <2>6
  <2>. QED
    BY <2>3, <2>7
<1>6. ASSUME NEW j \in 1..i, Cardinality(Since(j)) <= nframe PROVE refs[j] \in C
  <2>1. SUFFICES ASSUME refs[j] \notin C PROVE FALSE
    OBVIOUS
  <2>2. \A f \in Paging!Frame : frames[f] # -1 /\ j <= last_used[f]
    BY <1>4, <2>1
  <2>3. Cardinality(C) = nframe
    BY <1>3, <2>2
  <2>4. C \in SUBSET Since(j)
    <3>1. ASSUME NEW f \in Paging!Frame PROVE frames[f] \in Since(j)
      <4>1. PICK k : k = last_used[f] + 1
        OBVIOUS
      <4>2. k \in j..i /\ frames[f] = refs[k]
        BY <1>2, <1>4, <2>2, <4>1
      <4>. QED
        BY <4>2 DEF Since
    <3>. QED
      BY <1>1, <3>1 DEF Inside
  <2>5. refs[j] \in Since(j)
    BY <1>2 DEF Since
  <2>6. Cardinality(C) <= Cardinality(Since(j)) /\ (Cardinality(C) = Cardinality(Since(j)) => C = Since(j))
    BY <2>4, SinceIs, FS_Subset
  <2>7. Cardinality(C) = Cardinality(Since(j))
    BY <1>2, <1>3, <1>6, <2>3, <2>6, SinceIs
  <2>. QED
    BY <2>1, <2>5, <2>6, <2>7
<1>7. ASSUME NEW y
      PROVE  y \in C <=> y \in {refs[j] : j \in {j \in 1..i : Cardinality(Since(j)) <= nframe}}
  BY <1>5, <1>6
<1>. QED
  BY <1>1, <1>7

\* Paging: for every string of references and every number of frames, the
\* optimal algorithm has the fewest faults any choice of victims allows, so
\* that none of fifo, lru and clock has fewer, and the frames of lru hold the
\* pages referenced last.
THEOREM ReplacementsAreRight == SimulatorsSpec => []ReplacementsHold
<1>1. (family = "paging" => PagingInv) => ReplacementsHold
  <2>1. SUFFICES ASSUME PagingInv PROVE Paging!OptimalIsLeast /\ Paging!LRUKeepsRecent
    BY DEF ReplacementsHold
  <2>2. FramesInv /\ RecentInv /\ FaultsInv /\ InputInv
    BY <2>1 DEF PagingInv, FramesInv
  <2>3. LeastCost = Paging!LeastFaults
    BY <2>2, LeastIs DEF LeastCost, ToCome
  <2>4. Paging!OptimalIsLeast
    <3>1. algorithm = "fifo" => faults["optimal"] = LeastCost
      BY <2>2 DEF FaultsInv, Over
    <3>2. algorithm = "none" => \A a \in Paging!Algorithm : faults["optimal"] <= faults[a]
      BY <2>2 DEF FaultsInv, Over, Paging!Algorithm
    <3>. QED
      BY <2>3, <3>1, <3>2 DEF Paging!OptimalIsLeast
  <2>5. Paging!LRUKeepsRecent
    <3>1. ASSUME algorithm = "lru"
          PROVE  {frames[f] : f \in Paging!Frame} \ {-1} =
                    {refs[j] : j \in {j \in 1..i : Paging!Cardinality({refs[k] : k \in j..i}) <= nframe}}
      <4>1. \A j : Paging!Cardinality({refs[k] : k \in j..i}) = Cardinality(Since(j))
        BY PagingCounts, Zenon DEF Since
      <4>2. Inside(frames) = {refs[j] : j \in {j \in 1..i : Cardinality(Since(j)) <= nframe}}
        BY <2>2, <3>1, RecentAreKept
      <4>3. {j \in 1..i : Paging!Cardinality({refs[k] : k \in j..i}) <= nframe} =
               {j \in 1..i : Cardinality(Since(j)) <= nframe}
        <5>1. \A j : Paging!Cardinality({refs[k] : k \in j..i}) <= nframe <=>
                        Cardinality(Since(j)) <= nframe
          BY <4>1, Zenon
        <5>2. ASSUME NEW j
              PROVE  j \in {m \in 1..i : Paging!Cardinality({refs[k] : k \in m..i}) <= nframe} <=>
                        j \in {m \in 1..i : Cardinality(Since(m)) <= nframe}
          BY <5>1, Zenon
        <5>. QED
          BY <5>2, Zenon
      <4>. QED
        BY <4>2, <4>3, Zenon DEF Inside
    <3>. QED
      BY <3>1, Zenon DEF Paging!LRUKeepsRecent
  <2>. QED
    BY <2>4, <2>5
<1>. QED
  BY <1>1, PagingAlways, PTL

-----------------------------------------------------------------------------
(* The CPU scheduler. Its policies choose the first of those who wait, in an  *)
(* order of several keys; a round robin's newcomers join in order.            *)

Tasks == 0..Len(Pid) - 1

LEMMA TasksAre ==
  /\ IsFiniteSet(Tasks) /\ Tasks \in SUBSET Nat /\ -1 \notin Tasks
  /\ Len(Pid) \in Nat /\ Cardinality(Tasks) = Len(Pid)
  /\ \A t \in Tasks : Pid[t + 1] \in Int
  /\ MaxTime \in Nat /\ Arrivals \subseteq Int /\ Bursts \subseteq Nat /\ Quanta \subseteq Int
<1>1. Pid \in Seq(Int)
  BY TasksAssumption
<1>2. PICK m : m = Len(Pid)
  OBVIOUS
<1>3. m \in Nat /\ \A k \in 1..m : Pid[k] \in Int
  BY <1>1, <1>2
<1>4. IsFiniteSet(0..m - 1)
      /\ Cardinality(0..m - 1) = IF 0 > m - 1 THEN 0 ELSE m - 1 - 0 + 1
  <2>1. 0 \in Int /\ m - 1 \in Int
    BY <1>3
  <2>. QED
    BY <2>1, FS_Interval
<1>5. Cardinality(0..m - 1) = m
  BY <1>3, <1>4
<1>6. \A t \in 0..m - 1 : t + 1 \in 1..m
  BY <1>3
<1>. QED
  BY <1>2, <1>3, <1>4, <1>5, <1>6, TasksAssumption DEF Tasks

LEMMA CpuCounts == \A S : Cpu!Cardinality(S) = Cardinality(S)
  BY Zenon DEF Cpu!Cardinality, Cardinality

\* The least value on a finite set, as the one with the fewest below it.
LEMMA LeastOn ==
  ASSUME NEW S, IsFiniteSet(S), S # {}, NEW g, \A s \in S : g[s] \in Int
  PROVE  \E s \in S : \A t \in S : g[s] <= g[t]
<1>1. PICK low : low = [s \in S |-> {t \in S : g[t] < g[s]}]
  OBVIOUS
<1>2. PICK R : R = {Cardinality(low[s]) : s \in S}
  OBVIOUS
<1>3. \A s \in S : IsFiniteSet(low[s]) /\ Cardinality(low[s]) \in Nat
  <2>1. \A s \in S : low[s] \in SUBSET S
    BY <1>1
  <2>2. \A s \in S : IsFiniteSet(low[s])
    BY <2>1, FS_Subset
  <2>. QED
    BY <2>2, FS_CardinalityType
<1>4. R \in SUBSET Nat /\ R # {}
  BY <1>2, <1>3
<1>5. PICK m \in R : \A k \in R : m <= k
  BY <1>4, LeastNatural
<1>6. PICK s \in S : m = Cardinality(low[s])
  BY <1>2, <1>5
<1>7. ASSUME NEW t \in S, ~(g[s] <= g[t]) PROVE FALSE
  <2>1. g[t] < g[s] /\ g[s] \in Int /\ g[t] \in Int
    BY <1>7
  <2>2. PICK X, Y : X = low[s] /\ Y = low[t]
    OBVIOUS
  <2>3. \A u \in Y : u \in X
    BY <1>1, <2>1, <2>2
  <2>4. t \in X /\ t \notin Y
    BY <1>1, <2>1, <2>2
  <2>5. Cardinality(Y) <= Cardinality(X) /\ (Cardinality(Y) = Cardinality(X) => X = Y)
    BY <1>3, <2>2, <2>3, FS_Subset
  <2>6. Cardinality(X) <= Cardinality(Y)
    BY <1>2, <1>5, <1>6, <2>2
  <2>7. Cardinality(X) \in Nat /\ Cardinality(Y) \in Nat
    BY <1>3, <2>2
  <2>. QED
    BY <2>4, <2>5, <2>6, <2>7
<1>. QED
  BY <1>7

Lesser(g, a, b, rest) == g[a] < g[b] \/ (g[a] = g[b] /\ rest)

LEMMA LeastByKeys ==
  ASSUME NEW S, IsFiniteSet(S), S # {}, S \in SUBSET Nat,
         NEW f, NEW g, NEW h, \A s \in S : f[s] \in Int /\ g[s] \in Int /\ h[s] \in Int
  PROVE  \E s \in S : \A t \in S \ {s} :
            Lesser(f, s, t, Lesser(g, s, t, Lesser(h, s, t, s < t)))
<1>1. PICK a \in S : \A t \in S : f[a] <= f[t]
  BY LeastOn
<1>2. PICK A1 : A1 = {t \in S : f[t] = f[a]}
  OBVIOUS
<1>3. IsFiniteSet(A1) /\ A1 # {} /\ A1 \in SUBSET S
  BY <1>2, FS_Subset
<1>4. PICK b \in A1 : \A t \in A1 : g[b] <= g[t]
  BY <1>3, LeastOn
<1>5. PICK A2 : A2 = {t \in A1 : g[t] = g[b]}
  OBVIOUS
<1>6. IsFiniteSet(A2) /\ A2 # {} /\ A2 \in SUBSET A1
  BY <1>3, <1>5, FS_Subset
<1>7. PICK c \in A2 : \A t \in A2 : h[c] <= h[t]
  BY <1>3, <1>6, LeastOn
<1>8. PICK A3 : A3 = {t \in A2 : h[t] = h[c]}
  OBVIOUS
<1>9. A3 # {} /\ A3 \in SUBSET Nat
  BY <1>3, <1>6, <1>8
<1>10. PICK s \in A3 : \A t \in A3 : s <= t
  BY <1>9, LeastNatural
<1>11. s \in S /\ f[s] = f[a] /\ g[s] = g[b] /\ h[s] = h[c] /\ s \in Nat
  BY <1>2, <1>3, <1>5, <1>6, <1>8, <1>9
<1>12. ASSUME NEW t \in S \ {s}
       PROVE  Lesser(f, s, t, Lesser(g, s, t, Lesser(h, s, t, s < t)))
  <2>1. f[s] < f[t] \/ f[s] = f[t]
    BY <1>1, <1>11
  <2>2. ASSUME f[s] = f[t] PROVE g[s] < g[t] \/ g[s] = g[t]
    BY <1>2, <1>3, <1>4, <1>11, <2>2
  <2>3. ASSUME f[s] = f[t], g[s] = g[t] PROVE h[s] < h[t] \/ h[s] = h[t]
    BY <1>2, <1>3, <1>5, <1>6, <1>7, <1>11, <2>3
  <2>4. ASSUME f[s] = f[t], g[s] = g[t], h[s] = h[t] PROVE s < t
    <3>1. t \in A3 /\ t \in Nat /\ t # s
      BY <1>2, <1>5, <1>8, <1>11, <2>4
    <3>. QED
      BY <1>10, <1>11, <3>1
  <2>. QED
    BY <2>1, <2>2, <2>3, <2>4 DEF Lesser
<1>. QED
  BY <1>11, <1>12

\* The increasing sequence of a finite set of numbers.
Ascending(S, m) == CHOOSE s \in [1..m -> S] : \A k, l \in 1..m : k < l => s[k] < s[l]

LEMMA InOrder ==
  ASSUME NEW S \in SUBSET Nat, IsFiniteSet(S)
  PROVE  /\ Ascending(S, Cardinality(S)) \in [1..Cardinality(S) -> S]
         /\ Cardinality(S) \in Nat
         /\ \A s \in S : \E k \in 1..Cardinality(S) : Ascending(S, Cardinality(S))[k] = s
<1>. PICK m : m = Cardinality(S)
  OBVIOUS
<1>0. PICK q : q = Ascending(S, m)
  OBVIOUS
<1>1. m \in Nat /\ IsFiniteSet(1..m) /\ Cardinality(1..m) = m /\ \A s \in S : s \in Nat
  BY FS_CardinalityType, UpToIs
<1>2. PICK upto : upto = [s \in S |-> {t \in S : t <= s}]
  OBVIOUS
<1>3. \A s \in S : /\ IsFiniteSet(upto[s]) /\ Cardinality(upto[s]) \in Nat
                   /\ Cardinality(upto[s]) <= m /\ Cardinality(upto[s]) # 0
  <2>1. ASSUME NEW s \in S
        PROVE  /\ IsFiniteSet(upto[s]) /\ Cardinality(upto[s]) \in Nat
               /\ Cardinality(upto[s]) <= m /\ Cardinality(upto[s]) # 0
    <3>1. PICK X : X = upto[s]
      OBVIOUS
    <3>2. X \in SUBSET S /\ s \in X
      BY <1>2, <3>1
    <3>3. IsFiniteSet(X) /\ Cardinality(X) <= m
      BY <3>2, FS_Subset
    <3>4. Cardinality(X) # 0
      BY <3>2, <3>3, FS_EmptySet
    <3>. QED
      BY <3>1, <3>3, <3>4, FS_CardinalityType
  <2>. QED
    BY <2>1
<1>4. PICK rank : rank = [s \in S |-> Cardinality(upto[s])]
  OBVIOUS
<1>5. \A s \in S : rank[s] \in 1..m
  BY <1>1, <1>3, <1>4
<1>6. ASSUME NEW s \in S, NEW t \in S, s < t PROVE rank[s] < rank[t]
  <2>1. PICK X, Y : X = upto[s] /\ Y = upto[t]
    OBVIOUS
  <2>2. X \in SUBSET Y /\ t \in Y /\ t \notin X
    <3>1. s \in Nat /\ t \in Nat
      BY <1>1
    <3>2. t \in Y /\ t \notin X
      BY <1>2, <1>6, <2>1, <3>1
    <3>3. ASSUME NEW u \in X PROVE u \in Y
      <4>1. u \in S /\ u <= s /\ u \in Nat
        BY <1>1, <1>2, <2>1
      <4>2. u <= t
        BY <1>6, <3>1, <4>1
      <4>. QED
        BY <1>2, <2>1, <4>1, <4>2
    <3>. QED
      BY <3>2, <3>3
  <2>3. Cardinality(X) <= Cardinality(Y) /\ Cardinality(X) # Cardinality(Y)
    BY <1>3, <2>1, <2>2, FS_Subset
  <2>. QED
    BY <1>3, <1>4, <2>1, <2>3
<1>7. \A s, t \in S : rank[s] = rank[t] => s = t
  <2>1. ASSUME NEW s \in S, NEW t \in S, rank[s] = rank[t], s # t PROVE FALSE
    <3>1. s < t \/ t < s
      BY <2>1
    <3>2. rank[s] \in Int /\ rank[t] \in Int
      BY <1>5
    <3>. QED
      BY <1>6, <2>1, <3>1, <3>2
  <2>. QED
    BY <2>1
<1>8. \A k \in 1..m : \E s \in S : rank[s] = k
  <2>1. rank \in Injection(S, 1..m)
    <3>1. rank \in [S -> 1..m]
      BY <1>4, <1>5
    <3>. QED
      BY <1>7, <3>1 DEF Injection, IsInjective
  <2>2. Cardinality(S) = Cardinality(1..m) <=> rank \in Surjection(S, 1..m)
    BY <1>1, <2>1, FS_Injection
  <2>. QED
    BY <1>1, <2>2 DEF Surjection
<1>9. PICK p : p = [k \in 1..m |-> CHOOSE s \in S : rank[s] = k]
  OBVIOUS
<1>10. \A k \in 1..m : p[k] \in S /\ rank[p[k]] = k
  BY <1>8, <1>9
<1>11. p \in [1..m -> S] /\ \A k, l \in 1..m : k < l => p[k] < p[l]
  <2>1. p \in [1..m -> S]
    BY <1>9, <1>10
  <2>2. ASSUME NEW k \in 1..m, NEW l \in 1..m, k < l PROVE p[k] < p[l]
    <3>1. PICK x, y : x = p[k] /\ y = p[l]
      OBVIOUS
    <3>2. x \in S /\ y \in S /\ rank[x] = k /\ rank[y] = l
      BY <1>10, <3>1
    <3>3. x \in Nat /\ y \in Nat /\ k \in Nat /\ l \in Nat
      BY <1>1, <3>2
    <3>4. x # y
      BY <2>2, <3>2, <3>3
    <3>5. ~(y < x)
      BY <1>6, <2>2, <3>2, <3>3
    <3>. QED
      BY <3>1, <3>3, <3>4, <3>5
  <2>. QED
    BY <2>1, <2>2
<1>12. q \in [1..m -> S] /\ \A k, l \in 1..m : k < l => q[k] < q[l]
  BY <1>0, <1>11, Zenon DEF Ascending
<1>13. \A s \in S : \E k \in 1..m : q[k] = s
  <2>1. q \in Injection(1..m, S)
    <3>1. ASSUME NEW k \in 1..m, NEW l \in 1..m, q[k] = q[l], k # l PROVE FALSE
      <4>1. k < l \/ l < k
        BY <1>1, <3>1
      <4>2. q[k] \in S /\ q[l] \in S
        BY <1>12
      <4>3. q[k] \in Nat /\ q[l] \in Nat
        BY <1>1, <4>2
      <4>4. q[k] < q[l] \/ q[l] < q[k]
        BY <1>12, <4>1
      <4>. QED
        BY <3>1, <4>3, <4>4
    <3>2. DOMAIN q = 1..m /\ \A k, l \in 1..m : q[k] = q[l] => k = l
      BY <1>12, <3>1
    <3>3. IsInjective(q)
      BY <3>2 DEF IsInjective
    <3>. QED
      BY <1>12, <3>3 DEF Injection
  <2>2. Cardinality(1..m) = Cardinality(S) <=> q \in Surjection(1..m, S)
    BY <2>1, FS_Injection
  <2>. QED
    BY <1>1, <2>2 DEF Surjection
<1>14. /\ Ascending(S, m) \in [1..m -> S] /\ m \in Nat
       /\ \A s \in S : \E k \in 1..m : Ascending(S, m)[k] = s
  BY <1>0, <1>1, <1>12, <1>13
<1>. QED
  BY <1>14, Zenon

LEMMA BeforeIs ==
  ASSUME NEW a, NEW b, NEW c, NEW d, NEW p, NEW q, NEW r, NEW s
  PROVE  /\ a < p \/ (a = p /\ (b < q \/ (b = q /\ c < r))) => Cpu!Before(<<a, b, c>>, <<p, q, r>>)
         /\ a < p \/ (a = p /\ (b < q \/ (b = q /\ (c < r \/ (c = r /\ d < s))))) =>
               Cpu!Before(<<a, b, c, d>>, <<p, q, r, s>>)
<1>1. /\ DOMAIN <<a, b, c>> = 1..3 /\ DOMAIN <<a, b, c, d>> = 1..4
      /\ \A h \in 1..1 - 1 : FALSE
      /\ \A h \in 1..2 - 1 : h = 1
      /\ \A h \in 1..3 - 1 : h = 1 \/ h = 2
      /\ \A h \in 1..4 - 1 : h = 1 \/ h = 2 \/ h = 3
      /\ 1 \in 1..3 /\ 2 \in 1..3 /\ 3 \in 1..3 /\ 1 \in 1..4 /\ 2 \in 1..4 /\ 3 \in 1..4 /\ 4 \in 1..4
      /\ \A j \in 1..4 : j = 1 \/ 1 \in 1..j - 1
  OBVIOUS
<1>2. ASSUME NEW k, NEW l, DOMAIN k = 1..3, k[1] = a, k[2] = b, k[3] = c,
             l[1] = p, l[2] = q, l[3] = r,
             a < p \/ (a = p /\ (b < q \/ (b = q /\ c < r)))
      PROVE  Cpu!Before(k, l)
  <2>1. CASE a < p
    BY <1>1, <1>2, <2>1 DEF Cpu!Before
  <2>2. CASE a = p /\ b < q
    BY <1>1, <1>2, <2>2 DEF Cpu!Before
  <2>3. CASE a = p /\ b = q /\ c < r
    BY <1>1, <1>2, <2>3 DEF Cpu!Before
  <2>. QED
    BY <1>2, <2>1, <2>2, <2>3
<1>3. ASSUME NEW k, NEW l, DOMAIN k = 1..4, k[1] = a, k[2] = b, k[3] = c, k[4] = d,
             l[1] = p, l[2] = q, l[3] = r, l[4] = s,
             a < p \/ (a = p /\ (b < q \/ (b = q /\ (c < r \/ (c = r /\ d < s)))))
      PROVE  Cpu!Before(k, l)
  <2>1. CASE a < p
    BY <1>1, <1>3, <2>1 DEF Cpu!Before
  <2>2. CASE a = p /\ b < q
    BY <1>1, <1>3, <2>2 DEF Cpu!Before
  <2>3. CASE a = p /\ b = q /\ c < r
    BY <1>1, <1>3, <2>3 DEF Cpu!Before
  <2>4. CASE a = p /\ b = q /\ c = r /\ d < s
    BY <1>1, <1>3, <2>4 DEF Cpu!Before
  <2>. QED
    BY <1>3, <2>1, <2>2, <2>3, <2>4
<1>5. /\ <<a, b, c>>[1] = a /\ <<a, b, c>>[2] = b /\ <<a, b, c>>[3] = c
      /\ <<p, q, r>>[1] = p /\ <<p, q, r>>[2] = q /\ <<p, q, r>>[3] = r
      /\ <<a, b, c, d>>[1] = a /\ <<a, b, c, d>>[2] = b /\ <<a, b, c, d>>[3] = c
      /\ <<a, b, c, d>>[4] = d
      /\ <<p, q, r, s>>[1] = p /\ <<p, q, r, s>>[2] = q /\ <<p, q, r, s>>[3] = r
      /\ <<p, q, r, s>>[4] = s
  OBVIOUS
<1>6. PICK k3, l3, k4, l4 : /\ k3 = <<a, b, c>> /\ l3 = <<p, q, r>>
                            /\ k4 = <<a, b, c, d>> /\ l4 = <<p, q, r, s>>
  OBVIOUS
<1>. QED
  BY <1>1, <1>2, <1>3, <1>5, <1>6

LEMMA BeforeFirst ==
  ASSUME NEW k, NEW l, DOMAIN k = 1..4, Cpu!Before(k, l)
  PROVE  k[1] < l[1] \/ k[1] = l[1]
<1>1. PICK j \in 1..4 : k[j] < l[j] /\ \A h \in 1..j - 1 : k[h] = l[h]
  BY DEF Cpu!Before
<1>2. j = 1 \/ 1 \in 1..j - 1
  OBVIOUS
<1>. QED
  BY <1>1, <1>2

CpuTypes ==
    /\ policy \in {"fcfs", "sjf", "rr", "srtf"} /\ quantum \in Int /\ quantum > 0
    /\ arr \in [Tasks -> Int] /\ burst \in [Tasks -> Nat] /\ remain \in [Tasks -> Nat]
    /\ start \in [Tasks -> Int] /\ finish \in [Tasks -> Int]
    /\ pc \in {"pick", "run", "exited", "done"} /\ finished \in Nat
    /\ time \in Nat /\ time <= MaxTime /\ left \in Nat /\ cur \in Tasks \cup {-1}
    /\ gantt \in Seq(Tasks \cup {-1}) /\ Len(gantt) = time
    /\ queue \in Seq(Tasks) /\ inq \in SUBSET Tasks

Waits == {t \in Tasks : remain[t] > 0 /\ arr[t] <= time}

LEMMA WaitsIs == Cpu!Waiting = Waits
  BY DEF Cpu!Waiting, Waits, Tasks

LEMMA BestIs ==
  ASSUME CpuTypes, policy # "rr", Waits # {}
  PROVE  /\ Cpu!Best \in Waits
         /\ policy = "srtf" => \A t \in Waits : remain[Cpu!Best] <= remain[t]
<1>1. PICK number : number = [t \in 0..Len(Pid) - 1 |-> Pid[t + 1]]
  OBVIOUS
<1>2. /\ IsFiniteSet(Waits) /\ Waits \in SUBSET Nat /\ Waits \in SUBSET Tasks
      /\ \A t \in Waits : /\ arr[t] \in Int /\ burst[t] \in Int /\ remain[t] \in Int
                          /\ number[t] \in Int
  <2>1. Waits \in SUBSET Tasks
    BY DEF Waits
  <2>2. IsFiniteSet(Waits) /\ Waits \in SUBSET Nat
    BY <2>1, TasksAre, FS_Subset
  <2>3. \A t \in Tasks : number[t] \in Int
    BY <1>1, TasksAre DEF Tasks
  <2>. QED
    BY <2>1, <2>2, <2>3 DEF CpuTypes
<1>5. \A t \in Tasks : Cpu!Key(t) =
          IF policy = "fcfs" THEN <<arr[t], number[t], t>>
          ELSE IF policy = "sjf" THEN <<burst[t], arr[t], number[t], t>>
          ELSE <<remain[t], arr[t], number[t], t>>
  <2>1. policy = "fcfs" \/ policy = "sjf" \/ policy = "srtf"
    BY DEF CpuTypes
  <2>. QED
    BY <1>1, <2>1 DEF Cpu!Key
<1>6. \E s \in Waits : \A t \in Waits \ {s} : Cpu!Before(Cpu!Key(s), Cpu!Key(t))
  <2>1. CASE policy = "fcfs"
    <3>1. PICK none : none = [t \in Waits |-> 0]
      OBVIOUS
    <3>2. PICK s \in Waits : \A t \in Waits \ {s} :
             Lesser(arr, s, t, Lesser(number, s, t, Lesser(none, s, t, s < t)))
      <4>1. \A t \in Waits : arr[t] \in Int /\ number[t] \in Int /\ none[t] \in Int
        BY <1>2, <3>1
      <4>. QED
        BY <1>2, <4>1, LeastByKeys
    <3>3. ASSUME NEW t \in Waits \ {s} PROVE Cpu!Before(Cpu!Key(s), Cpu!Key(t))
      <4>1. ~(none[s] < none[t])
        BY <3>1
      <4>2. \/ arr[s] < arr[t]
            \/ (arr[s] = arr[t] /\ (\/ number[s] < number[t]
                                    \/ (number[s] = number[t] /\ s < t)))
        BY <3>2, <4>1 DEF Lesser
      <4>3. Cpu!Before(<<arr[s], number[s], s>>, <<arr[t], number[t], t>>)
        BY <4>2, BeforeIs
      <4>. QED
        BY <1>2, <1>5, <2>1, <4>3
    <3>. QED
      BY <3>3
  <2>2. CASE policy = "sjf"
    <3>1. PICK s \in Waits : \A t \in Waits \ {s} :
             Lesser(burst, s, t, Lesser(arr, s, t, Lesser(number, s, t, s < t)))
      BY <1>2, LeastByKeys
    <3>2. ASSUME NEW t \in Waits \ {s} PROVE Cpu!Before(Cpu!Key(s), Cpu!Key(t))
      <4>1. Cpu!Before(<<burst[s], arr[s], number[s], s>>, <<burst[t], arr[t], number[t], t>>)
        BY <3>1, BeforeIs DEF Lesser
      <4>. QED
        BY <1>2, <1>5, <2>2, <4>1
    <3>. QED
      BY <3>2
  <2>3. CASE policy = "srtf"
    <3>1. PICK s \in Waits : \A t \in Waits \ {s} :
             Lesser(remain, s, t, Lesser(arr, s, t, Lesser(number, s, t, s < t)))
      BY <1>2, LeastByKeys
    <3>2. ASSUME NEW t \in Waits \ {s} PROVE Cpu!Before(Cpu!Key(s), Cpu!Key(t))
      <4>1. Cpu!Before(<<remain[s], arr[s], number[s], s>>, <<remain[t], arr[t], number[t], t>>)
        BY <3>1, BeforeIs DEF Lesser
      <4>. QED
        BY <1>2, <1>5, <2>3, <4>1
    <3>. QED
      BY <3>2
  <2>. QED
    BY <2>1, <2>2, <2>3 DEF CpuTypes
<1>7. Cpu!Best \in Waits /\ \A t \in Waits \ {Cpu!Best} : Cpu!Before(Cpu!Key(Cpu!Best), Cpu!Key(t))
  BY <1>6, WaitsIs, Zenon DEF Cpu!Best
<1>8. ASSUME policy = "srtf", NEW t \in Waits PROVE remain[Cpu!Best] <= remain[t]
  <2>1. PICK b : b = Cpu!Best
    OBVIOUS
  <2>2. b \in Waits /\ remain[b] \in Int /\ remain[t] \in Int
    BY <1>2, <1>7, <2>1
  <2>3. CASE t = b
    BY <2>1, <2>2, <2>3
  <2>4. CASE t # b
    <3>1. PICK k, l : k = Cpu!Key(b) /\ l = Cpu!Key(t)
      OBVIOUS
    <3>2. k = <<remain[b], arr[b], number[b], b>> /\ l = <<remain[t], arr[t], number[t], t>>
      BY <1>2, <1>5, <1>8, <2>2, <3>1
    <3>3. DOMAIN k = 1..4 /\ k[1] = remain[b] /\ l[1] = remain[t]
      BY <3>2
    <3>4. Cpu!Before(k, l)
      BY <1>7, <2>1, <2>4, <3>1
    <3>5. remain[b] < remain[t] \/ remain[b] = remain[t]
      <4>1. k[1] < l[1] \/ k[1] = l[1]
        BY <3>3, <3>4, BeforeFirst
      <4>. QED
        BY <3>3, <4>1
    <3>. QED
      BY <2>1, <2>2, <3>5
  <2>. QED
    BY <2>3, <2>4
<1>. QED
  BY <1>7, <1>8

\* Those who join the queue of a round robin.
LEMMA JoiningIs ==
  ASSUME CpuTypes, NEW S \in SUBSET Tasks
  PROVE  /\ Cpu!Joining(S) \in Seq(Tasks)
         /\ \A k \in 1..Len(Cpu!Joining(S)) : Cpu!Joining(S)[k] \in S
         /\ \A t \in S : t \in inq \/ \E k \in 1..Len(Cpu!Joining(S)) : Cpu!Joining(S)[k] = t
<1>1. PICK new, m, q : new = S \ inq /\ m = Cardinality(new) /\ q = Cpu!Joining(S)
  OBVIOUS
<1>2. q = Ascending(new, m)
  BY <1>1, CpuCounts, Zenon DEF Cpu!Joining, Ascending
<1>3. new \in SUBSET Nat /\ IsFiniteSet(new) /\ new \in SUBSET Tasks
  BY <1>1, TasksAre, FS_Subset
<1>4. q \in [1..m -> new] /\ m \in Nat /\ \A s \in new : \E k \in 1..m : q[k] = s
  <2>1. m = Cardinality(new)
    BY <1>1
  <2>2. /\ Ascending(new, Cardinality(new)) \in [1..Cardinality(new) -> new]
        /\ Cardinality(new) \in Nat
        /\ \A s \in new : \E k \in 1..Cardinality(new) : Ascending(new, Cardinality(new))[k] = s
    <3>1. new \in SUBSET Nat /\ IsFiniteSet(new)
      BY <1>3
    <3>. QED
      BY <3>1, InOrder
  <2>. QED
    BY <1>2, <2>1, <2>2, Zenon
<1>5. q \in Seq(Tasks) /\ Len(q) = m
  <2>1. q \in [1..m -> Tasks] /\ m \in Nat
    BY <1>3, <1>4
  <2>2. q \in Seq(Tasks)
    BY <2>1, Z3
  <2>. QED
    BY <2>1, <2>2
<1>. QED
  BY <1>1, <1>4, <1>5

-----------------------------------------------------------------------------
(* The least sum of finishing times, as a function of the time and of what    *)
(* each task has left to do. It goes on from the last tick to the first.      *)

Rests == [Tasks -> 0..MaxTime]
Less(rest, t) == [rest EXCEPT ![t] = @ - 1]
Open(rest) == {t \in Tasks : rest[t] > 0}
Come(s, rest) == {t \in Open(rest) : arr[t] <= s}
Ends(s, rest, t) == IF rest[t] = 1 THEN s + 1 ELSE 0
Goes(g, s, rest, t) == g[Less(rest, t)] + Ends(s, rest, t)

Cheapest(g, s, rest) ==
    CHOOSE d \in {Goes(g, s, rest, t) : t \in Come(s, rest)} :
        \A e \in {Goes(g, s, rest, t) : t \in Come(s, rest)} : d <= e

Dues(g, s, rest) ==
    IF Open(rest) = {} THEN 0
    ELSE IF s = MaxTime THEN (MaxTime + 1) * Cardinality(Open(rest))
    ELSE IF Come(s, rest) = {} THEN g[rest]
    ELSE Cheapest(g, s, rest)

DuesRow(g, s) == [rest \in Rests |-> Dues(g, s, rest)]
DuesRows(f, m) == f = [s \in m..MaxTime |-> DuesRow(f[s + 1], s)]

LEMMA RestsAre ==
  /\ \A rest \in Rests : /\ DOMAIN rest = Tasks
                         /\ \A t \in Tasks : rest[t] \in Nat /\ rest[t] <= MaxTime
  /\ \A rest \in Rests : \A t \in Tasks :
        /\ \A u \in Tasks : Less(rest, t)[u] = IF u = t THEN rest[t] - 1 ELSE rest[u]
        /\ rest[t] > 0 => Less(rest, t) \in Rests
  /\ \A q \in Rests : \A r \in Rests : (\A t \in Tasks : q[t] = r[t]) => q = r
<1>1. MaxTime \in Nat
  BY TasksAre
<1>2. \A rest \in Rests : /\ DOMAIN rest = Tasks
                          /\ \A t \in Tasks : rest[t] \in Nat /\ rest[t] <= MaxTime
  BY <1>1 DEF Rests
<1>3. ASSUME NEW rest \in Rests, NEW t \in Tasks
      PROVE  /\ \A u \in Tasks : Less(rest, t)[u] = IF u = t THEN rest[t] - 1 ELSE rest[u]
             /\ rest[t] > 0 => Less(rest, t) \in Rests
  <2>1. Less(rest, t) = [u \in Tasks |-> IF u = t THEN rest[t] - 1 ELSE rest[u]]
    BY <1>2 DEF Less
  <2>2. \A u \in Tasks : rest[u] \in 0..MaxTime
    BY <1>1, <1>2
  <2>3. rest[t] > 0 => rest[t] - 1 \in 0..MaxTime
    BY <1>1, <2>2
  <2>. QED
    BY <2>1, <2>2, <2>3 DEF Rests
<1>4. \A q \in Rests : \A r \in Rests : (\A t \in Tasks : q[t] = r[t]) => q = r
  BY DEF Rests
<1>. QED
  BY <1>2, <1>3, <1>4

\* In the last tick nothing is looked up.
LEMMA DuesAtEnd == \A g, h : DuesRow(g, MaxTime) = DuesRow(h, MaxTime)
<1>1. \A g, h, rest : Dues(g, MaxTime, rest) = Dues(h, MaxTime, rest)
  BY Zenon DEF Dues
<1>. QED
  BY <1>1, Zenon DEF DuesRow

LEMMA DuesGoOn == \E f : DuesRows(f, 0)
<1>1. PICK N : N = MaxTime
  OBVIOUS
<1>2. N \in Nat
  BY <1>1, TasksAre
<1>. DEFINE I == {d \in 0..N : \E f : DuesRows(f, N - d)}
<1>3. 0 \in I
  <2>1. PICK row : row = DuesRow(0, N)
    OBVIOUS
  <2>2. PICK f : f = [s \in N..N |-> row]
    OBVIOUS
  <2>3. \A s \in N..N : s = N
    BY <1>2
  <2>4. \A g : DuesRow(g, N) = row
    BY <1>1, <2>1, DuesAtEnd
  <2>5. f = [s \in N..N |-> DuesRow(f[s + 1], s)]
    BY <2>2, <2>3, <2>4
  <2>6. DuesRows(f, N)
    BY <1>1, <2>5 DEF DuesRows
  <2>7. N - 0 = N /\ 0 \in 0..N
    BY <1>2
  <2>. QED
    BY <2>6, <2>7
<1>4. ASSUME NEW d \in 0..N - 1, d \in I PROVE d + 1 \in I
  <2>1. PICK m, q : m = N - d /\ q = N - (d + 1)
    OBVIOUS
  <2>2. m \in 1..N /\ q \in 0..N - 1 /\ m = q + 1 /\ d + 1 \in 0..N
    BY <1>2, <2>1
  <2>3. PICK f : DuesRows(f, m)
    BY <1>4, <2>1
  <2>4. f = [s \in m..N |-> DuesRow(f[s + 1], s)]
    BY <1>1, <2>3 DEF DuesRows
  <2>5. PICK g : g = [s \in q..N |-> IF s = q THEN DuesRow(f[m], q) ELSE f[s]]
    OBVIOUS
  <2>6. \A s \in m..N : s \in q..N /\ s # q
    BY <2>2
  <2>7. \A s \in m..N : g[s] = f[s]
    BY <2>5, <2>6
  <2>8. ASSUME NEW s \in q..N PROVE g[s] = DuesRow(g[s + 1], s)
    <3>1. CASE s = q
      <4>1. s + 1 = m /\ m \in m..N
        BY <1>2, <2>1, <2>2, <3>1
      <4>2. g[m] = f[m]
        BY <2>7, <4>1
      <4>. QED
        BY <2>5, <3>1, <4>1, <4>2
    <3>2. CASE s # q /\ s < N
      <4>1. s \in m..N /\ s + 1 \in m..N
        BY <1>2, <2>2, <3>2
      <4>2. g[s] = f[s] /\ g[s + 1] = f[s + 1]
        BY <2>7, <4>1
      <4>3. f[s] = DuesRow(f[s + 1], s)
        BY <2>4, <4>1
      <4>. QED
        BY <4>2, <4>3
    <3>3. CASE s # q /\ s = N
      <4>1. s \in m..N
        BY <2>2, <3>3
      <4>2. g[s] = f[s] /\ f[s] = DuesRow(f[s + 1], s)
        BY <2>4, <2>7, <4>1
      <4>. QED
        BY <1>1, <3>3, <4>2, DuesAtEnd
    <3>. QED
      BY <1>2, <2>2, <3>1, <3>2, <3>3
  <2>9. g = [s \in q..N |-> DuesRow(g[s + 1], s)]
    BY <2>5, <2>8
  <2>10. DuesRows(g, q)
    BY <1>1, <2>9 DEF DuesRows
  <2>. QED
    BY <2>1, <2>2, <2>10
<1>5. N \in I
  <2>. HIDE DEF I
  <2>. QED
    BY <1>2, <1>3, <1>4, Climb
<1>6. N - N = 0
  BY <1>2
<1>. QED
  BY <1>5, <1>6

Plan == CHOOSE f : DuesRows(f, 0)

LEMMA PlanIs ==
  /\ Cpu!LeastSum = Plan[0][burst]
  /\ \A s \in 0..MaxTime, rest \in Rests : Plan[s][rest] = Dues(Plan[s + 1], s, rest)
<1>1. PICK f : f = Plan
  OBVIOUS
<1>2. DuesRows(f, 0)
  BY <1>1, DuesGoOn, Zenon DEF Plan
<1>3. \A s \in 0..MaxTime : f[s] = DuesRow(f[s + 1], s)
  BY <1>2, Zenon DEF DuesRows
<1>4. \A g, s : \A rest \in Rests : DuesRow(g, s)[rest] = Dues(g, s, rest)
  BY DEF DuesRow
<1>5. \A s \in 0..MaxTime, rest \in Rests : f[s][rest] = Dues(f[s + 1], s, rest)
  BY <1>3, <1>4
<1>6. ASSUME NEW g, NEW s
      PROVE  DuesRow(g, s) =
               [rest \in Rests |->
                  IF Open(rest) = {} THEN 0
                  ELSE IF s = MaxTime THEN (MaxTime + 1) * Cpu!Cardinality(Open(rest))
                  ELSE IF Come(s, rest) = {} THEN g[rest]
                  ELSE Cheapest(g, s, rest)]
  BY CpuCounts, Zenon DEF DuesRow, Dues
<1>7. Cpu!LeastSum = f[0][burst]
  BY <1>1, <1>6, Zenon DEF Cpu!LeastSum, Plan, DuesRows, Cheapest, Goes, Ends, Come, Open, Less, Rests, Tasks
<1>. QED
  BY <1>1, <1>5, <1>7

ToPay(s, rest) == Plan[s][rest]

LEMMA DuesAre ==
  ASSUME \A t \in Tasks : arr[t] \in Int, NEW s \in 0..MaxTime, NEW rest \in Rests,
         NEW g, s < MaxTime => \A r \in Rests : g[r] \in Nat
  PROVE  /\ Dues(g, s, rest) \in Nat
         /\ Open(rest) = {} => Dues(g, s, rest) = 0
         /\ s = MaxTime => Dues(g, s, rest) = (MaxTime + 1) * Cardinality(Open(rest))
         /\ Open(rest) # {} /\ Come(s, rest) = {} /\ s < MaxTime => Dues(g, s, rest) = g[rest]
         /\ Come(s, rest) # {} /\ s < MaxTime =>
               /\ \E t \in Come(s, rest) : Dues(g, s, rest) = Goes(g, s, rest, t)
               /\ \A t \in Come(s, rest) : Dues(g, s, rest) <= Goes(g, s, rest, t)
<1>1. PICK n, c : n = MaxTime /\ c = Cardinality(Open(rest))
  OBVIOUS
<1>2. n \in Nat /\ s \in Nat
  BY <1>1, TasksAre
<1>3. IsFiniteSet(Open(rest)) /\ c \in Nat
  <2>1. Open(rest) \in SUBSET Tasks
    BY DEF Open
  <2>2. IsFiniteSet(Open(rest))
    BY <2>1, TasksAre, FS_Subset
  <2>. QED
    BY <1>1, <2>2, FS_CardinalityType
<1>4. CASE Open(rest) = {}
  <2>1. Dues(g, s, rest) = 0
    BY <1>4, Zenon DEF Dues
  <2>2. c = 0 /\ Come(s, rest) = {}
    <3>1. Cardinality({}) = 0
      BY FS_EmptySet
    <3>. QED
      BY <1>1, <1>4, <3>1 DEF Come
  <2>3. (n + 1) * c = 0
    BY <1>2, <2>2
  <2>. QED
    BY <1>1, <1>4, <2>1, <2>2, <2>3
<1>5. CASE Open(rest) # {} /\ s = MaxTime
  <2>1. Dues(g, s, rest) = (MaxTime + 1) * Cardinality(Open(rest))
    BY <1>5, Zenon DEF Dues
  <2>2. Dues(g, s, rest) = (n + 1) * c
    BY <1>1, <2>1
  <2>3. (n + 1) * c \in Nat
    BY <1>2, <1>3
  <2>. QED
    BY <1>1, <1>2, <1>5, <2>1, <2>2, <2>3
<1>6. CASE Open(rest) # {} /\ s # MaxTime /\ Come(s, rest) = {}
  <2>1. Dues(g, s, rest) = g[rest]
    BY <1>6, Zenon DEF Dues
  <2>2. s < MaxTime
    BY <1>1, <1>2, <1>6
  <2>. QED
    BY <1>6, <2>1, <2>2
<1>7. CASE Open(rest) # {} /\ s # MaxTime /\ Come(s, rest) # {}
  <2>1. Dues(g, s, rest) = Cheapest(g, s, rest)
    BY <1>7, Zenon DEF Dues
  <2>2. s < MaxTime
    BY <1>1, <1>2, <1>7
  <2>3. PICK S : S = {Goes(g, s, rest, t) : t \in Come(s, rest)}
    OBVIOUS
  <2>4. \A t \in Come(s, rest) : Goes(g, s, rest, t) \in Nat
    <3>1. \A t \in Come(s, rest) : t \in Tasks /\ rest[t] > 0
      BY DEF Come, Open
    <3>2. \A t \in Come(s, rest) : Less(rest, t) \in Rests
      BY <3>1, RestsAre
    <3>3. \A t \in Come(s, rest) : g[Less(rest, t)] \in Nat
      BY <2>2, <3>2
    <3>4. \A t : Ends(s, rest, t) \in Nat
      BY <1>2 DEF Ends
    <3>. QED
      BY <3>3, <3>4 DEF Goes
  <2>5. S \in SUBSET Nat /\ S # {}
    BY <1>7, <2>3, <2>4
  <2>6. \E d \in S : \A e \in S : d <= e
    BY <2>5, LeastNatural
  <2>7. PICK low : low = Cheapest(g, s, rest)
    OBVIOUS
  <2>8. low = CHOOSE d \in S : \A e \in S : d <= e
    BY <2>3, <2>7, Zenon DEF Cheapest
  <2>9. low \in S /\ \A e \in S : low <= e
    BY <2>6, <2>8
  <2>. QED
    BY <1>7, <2>1, <2>2, <2>3, <2>5, <2>7, <2>9
<1>. QED
  BY <1>4, <1>5, <1>6, <1>7

\* Down from a number to 0.
LEMMA Descend ==
  ASSUME NEW n \in Nat, NEW S, n \in S, \A j \in 0..n - 1 : j + 1 \in S => j \in S
  PROVE  \A j \in 0..n : j \in S
<1>. DEFINE I == {d \in 0..n : n - d \in S}
<1>1. 0 \in I
  OBVIOUS
<1>2. ASSUME NEW d \in 0..n - 1, d \in I PROVE d + 1 \in I
  <2>1. PICK j : j = n - (d + 1)
    OBVIOUS
  <2>2. j \in 0..n - 1 /\ j + 1 = n - d /\ d + 1 \in 0..n
    BY <2>1
  <2>. QED
    BY <1>2, <2>1, <2>2
<1>3. \A d \in 0..n : d \in I
  <2>. HIDE DEF I
  <2>. QED
    BY <1>1, <1>2, Climb
<1>4. \A j \in 0..n : n - j \in 0..n /\ n - (n - j) = j
  OBVIOUS
<1>. QED
  BY <1>3, <1>4

LEMMA ToPayIs ==
  ASSUME \A t \in Tasks : arr[t] \in Int
  PROVE  \A s \in 0..MaxTime, rest \in Rests : ToPay(s, rest) \in Nat
<1>. DEFINE S == {s \in 0..MaxTime : \A rest \in Rests : ToPay(s, rest) \in Nat}
<1>1. MaxTime \in Nat
  BY TasksAre
<1>2. \A s \in 0..MaxTime, rest \in Rests : ToPay(s, rest) = Dues(Plan[s + 1], s, rest)
  BY PlanIs DEF ToPay
<1>3. MaxTime \in S
  <2>1. PICK n : n = MaxTime
    OBVIOUS
  <2>2. n \in 0..MaxTime /\ ~(n < MaxTime)
    BY <1>1, <2>1
  <2>3. \A rest \in Rests : Dues(Plan[n + 1], n, rest) \in Nat
    BY <2>2, DuesAre
  <2>. QED
    BY <1>2, <2>1, <2>2, <2>3
<1>4. ASSUME NEW s \in 0..MaxTime - 1, s + 1 \in S PROVE s \in S
  <2>1. PICK g : g = Plan[s + 1]
    OBVIOUS
  <2>2. \A r \in Rests : g[r] \in Nat
    BY <1>4, <2>1 DEF ToPay
  <2>3. s \in 0..MaxTime
    BY <1>1
  <2>4. \A rest \in Rests : Dues(g, s, rest) \in Nat
    BY <2>2, <2>3, DuesAre
  <2>. QED
    BY <1>2, <2>1, <2>3, <2>4
<1>5. \A s \in 0..MaxTime : s \in S
  <2>. HIDE DEF S
  <2>. QED
    BY <1>1, <1>3, <1>4, Descend
<1>. QED
  BY <1>5

LEMMA ToPayGoes ==
  ASSUME \A t \in Tasks : arr[t] \in Int, NEW s \in 0..MaxTime, NEW rest \in Rests
  PROVE  /\ Open(rest) = {} => ToPay(s, rest) = 0
         /\ s = MaxTime => ToPay(s, rest) = (MaxTime + 1) * Cardinality(Open(rest))
         /\ Come(s, rest) = {} /\ s < MaxTime => ToPay(s, rest) = ToPay(s + 1, rest)
         /\ Come(s, rest) # {} /\ s < MaxTime =>
               /\ \E t \in Come(s, rest) :
                     ToPay(s, rest) = ToPay(s + 1, Less(rest, t)) + Ends(s, rest, t)
               /\ \A t \in Come(s, rest) :
                     ToPay(s, rest) <= ToPay(s + 1, Less(rest, t)) + Ends(s, rest, t)
<1>1. PICK g : g = Plan[s + 1]
  OBVIOUS
<1>2. ToPay(s, rest) = Dues(g, s, rest)
  BY <1>1, PlanIs DEF ToPay
<1>3. s < MaxTime => s + 1 \in 0..MaxTime
  BY TasksAre
<1>4. s < MaxTime => \A r \in Rests : g[r] \in Nat
  BY <1>1, <1>3, ToPayIs DEF ToPay
<1>5. /\ Open(rest) = {} => Dues(g, s, rest) = 0
      /\ s = MaxTime => Dues(g, s, rest) = (MaxTime + 1) * Cardinality(Open(rest))
      /\ Open(rest) # {} /\ Come(s, rest) = {} /\ s < MaxTime => Dues(g, s, rest) = g[rest]
      /\ Come(s, rest) # {} /\ s < MaxTime =>
            /\ \E t \in Come(s, rest) : Dues(g, s, rest) = Goes(g, s, rest, t)
            /\ \A t \in Come(s, rest) : Dues(g, s, rest) <= Goes(g, s, rest, t)
  <2>. HIDE DEF Dues
  <2>. QED
    BY <1>4, DuesAre
<1>6. \A r, t : g[r] = ToPay(s + 1, r) /\ Goes(g, s, rest, t) = ToPay(s + 1, Less(rest, t)) + Ends(s, rest, t)
  BY <1>1 DEF ToPay, Goes
<1>7. s < MaxTime /\ Open(rest) = {} => ToPay(s + 1, rest) = 0
  <2>1. SUFFICES ASSUME s < MaxTime, Open(rest) = {} PROVE ToPay(s + 1, rest) = 0
    OBVIOUS
  <2>2. PICK u, h : u = s + 1 /\ h = Plan[u + 1]
    OBVIOUS
  <2>3. u \in 0..MaxTime
    BY <1>3, <2>1, <2>2
  <2>4. ToPay(u, rest) = Dues(h, u, rest)
    BY <2>2, <2>3, PlanIs DEF ToPay
  <2>5. Dues(h, u, rest) = 0
    BY <2>1, Zenon DEF Dues
  <2>. QED
    BY <2>2, <2>4, <2>5
<1>. QED
  BY <1>2, <1>5, <1>6, <1>7

-----------------------------------------------------------------------------
(* Of two tasks that have come it is better to bring the shorter one nearer   *)
(* to its end: where one plan has as much left for both of them as another    *)
(* but less for one of them than either has there, it is no worse.            *)

Zero(x, s) == IF x = 0 THEN s ELSE 0
Done(rest, a, b, s) == Zero(rest[a], s) + Zero(rest[b], s)

Uneven(p, q, x, y) == p + q = x + y /\ ((p <= x /\ p <= y) \/ (q <= x /\ q <= y))

Nearer(u, w, a, b) ==
    /\ \A t \in Tasks \ {a, b} : u[t] = w[t]
    /\ Uneven(u[a], u[b], w[a], w[b])

Favours(s) ==
    \A u, w \in Rests, a, b \in Tasks :
        a # b /\ arr[a] <= s /\ arr[b] <= s /\ Nearer(u, w, a, b) =>
            ToPay(s, u) + Done(u, a, b, s) <= ToPay(s, w) + Done(w, a, b, s)

\* A tick later each of them that is done counts one more.
Gains(p, q, x, y, s) ==
    \E z, v \in Nat :
        /\ z >= v
        /\ Zero(p, s + 1) + Zero(q, s + 1) = Zero(p, s) + Zero(q, s) + z
        /\ Zero(x, s + 1) + Zero(y, s + 1) = Zero(x, s) + Zero(y, s) + v

LEMMA ZerosGo ==
  ASSUME NEW p \in Nat, NEW q \in Nat, NEW x \in Nat, NEW y \in Nat, Uneven(p, q, x, y),
         NEW s \in Nat
  PROVE  Gains(p, q, x, y, s)
<1>1. PICK z, v : /\ z = (IF p = 0 THEN 1 ELSE 0) + (IF q = 0 THEN 1 ELSE 0)
                  /\ v = (IF x = 0 THEN 1 ELSE 0) + (IF y = 0 THEN 1 ELSE 0)
  OBVIOUS
<1>2. z \in Nat /\ v \in Nat
  BY <1>1
<1>3. z >= v
  BY <1>1 DEF Uneven
<1>4. Zero(p, s + 1) + Zero(q, s + 1) = Zero(p, s) + Zero(q, s) + z
  BY <1>1 DEF Zero
<1>5. Zero(x, s + 1) + Zero(y, s + 1) = Zero(x, s) + Zero(y, s) + v
  BY <1>1 DEF Zero
<1>. QED
  BY <1>2, <1>3, <1>4, <1>5 DEF Gains

\* How many are open, but for two of them.
LEMMA OpenIs ==
  ASSUME NEW rest \in Rests, NEW a \in Tasks, NEW b \in Tasks, a # b
  PROVE  Cardinality(Open(rest)) =
            Cardinality(Open(rest) \ {a, b})
            + (IF rest[a] = 0 THEN 0 ELSE 1) + (IF rest[b] = 0 THEN 0 ELSE 1)
         /\ Cardinality(Open(rest) \ {a, b}) \in Nat
<1>1. PICK O, O1, O2 : O = Open(rest) /\ O1 = O \ {b} /\ O2 = O \ {a, b}
  OBVIOUS
<1>2. IsFiniteSet(O)
  <2>1. O \in SUBSET Tasks
    BY <1>1 DEF Open
  <2>. QED
    BY <2>1, TasksAre, FS_Subset
<1>3. IsFiniteSet(O1) /\ IsFiniteSet(O2)
  BY <1>1, <1>2, FS_Subset
<1>4. Cardinality(O) \in Nat /\ Cardinality(O1) \in Nat /\ Cardinality(O2) \in Nat
  BY <1>2, <1>3, FS_CardinalityType
<1>5. rest[a] \in Nat /\ rest[b] \in Nat
  BY RestsAre
<1>6. Cardinality(O) = Cardinality(O1) + IF rest[b] = 0 THEN 0 ELSE 1
  <2>1. CASE rest[b] = 0
    <3>1. O1 = O
      BY <1>1, <2>1 DEF Open
    <3>. QED
      BY <1>4, <2>1, <3>1
  <2>2. CASE rest[b] # 0
    <3>1. O = O1 \cup {b} /\ b \notin O1
      BY <1>1, <1>5, <2>2 DEF Open
    <3>2. Cardinality(O1 \cup {b}) = Cardinality(O1) + 1
      BY <1>3, <3>1, FS_AddElement
    <3>. QED
      BY <2>2, <3>1, <3>2
  <2>. QED
    BY <2>1, <2>2
<1>7. Cardinality(O1) = Cardinality(O2) + IF rest[a] = 0 THEN 0 ELSE 1
  <2>1. CASE rest[a] = 0
    <3>1. O1 = O2
      BY <1>1, <2>1 DEF Open
    <3>. QED
      BY <1>4, <2>1, <3>1
  <2>2. CASE rest[a] # 0
    <3>1. O1 = O2 \cup {a} /\ a \notin O2
      BY <1>1, <1>5, <2>2 DEF Open
    <3>2. Cardinality(O2 \cup {a}) = Cardinality(O2) + 1
      BY <1>3, <3>1, FS_AddElement
    <3>. QED
      BY <2>2, <3>1, <3>2
  <2>. QED
    BY <2>1, <2>2
<1>8. Cardinality(O) = Cardinality(O2) + (IF rest[a] = 0 THEN 0 ELSE 1)
                       + (IF rest[b] = 0 THEN 0 ELSE 1)
  BY <1>4, <1>6, <1>7
<1>. QED
  BY <1>1, <1>4, <1>8, Zenon

LEMMA FavoursAtEnd ==
  ASSUME \A t \in Tasks : arr[t] \in Int
  PROVE  Favours(MaxTime)
<1>1. PICK n : n = MaxTime
  OBVIOUS
<1>2. n \in Nat /\ n \in 0..MaxTime
  BY <1>1, TasksAre
<1>3. ASSUME NEW u \in Rests, NEW w \in Rests, NEW a \in Tasks, NEW b \in Tasks,
             a # b, Nearer(u, w, a, b)
      PROVE  ToPay(n, u) + Done(u, a, b, n) <= ToPay(n, w) + Done(w, a, b, n)
  <2>1. PICK p, q, x, y : p = u[a] /\ q = u[b] /\ x = w[a] /\ y = w[b]
    OBVIOUS
  <2>2. p \in Nat /\ q \in Nat /\ x \in Nat /\ y \in Nat
    BY <2>1, RestsAre
  <2>3. Uneven(p, q, x, y)
    BY <1>3, <2>1 DEF Nearer
  <2>4. Open(u) \ {a, b} = Open(w) \ {a, b}
    BY <1>3 DEF Nearer, Open
  <2>5. PICK c, d, e : c = Cardinality(Open(u) \ {a, b}) /\ d = Cardinality(Open(u))
                       /\ e = Cardinality(Open(w))
    OBVIOUS
  <2>6. d = c + (IF p = 0 THEN 0 ELSE 1) + (IF q = 0 THEN 0 ELSE 1) /\ c \in Nat
    <3>1. a # b
      BY <1>3
    <3>. QED
      BY <2>1, <2>5, <3>1, OpenIs
  <2>7. e = c + (IF x = 0 THEN 0 ELSE 1) + (IF y = 0 THEN 0 ELSE 1)
    <3>1. a # b
      BY <1>3
    <3>. QED
      BY <2>1, <2>4, <2>5, <3>1, OpenIs
  <2>8. ToPay(n, u) = (n + 1) * d /\ ToPay(n, w) = (n + 1) * e
    BY <1>1, <1>2, <2>5, ToPayGoes
  <2>9. PICK k, l : k = (IF p = 0 THEN 0 ELSE 1) + (IF q = 0 THEN 0 ELSE 1)
                    /\ l = (IF x = 0 THEN 0 ELSE 1) + (IF y = 0 THEN 0 ELSE 1)
    OBVIOUS
  <2>10. k \in 0..2 /\ l \in 0..2 /\ k <= l
    BY <2>2, <2>3, <2>9 DEF Uneven
  <2>11. Zero(p, n) + Zero(q, n) = (2 - k) * n /\ Zero(x, n) + Zero(y, n) = (2 - l) * n
    BY <1>2, <2>9 DEF Zero
  <2>12. (n + 1) * (c + k) + (2 - k) * n <= (n + 1) * (c + l) + (2 - l) * n
    <3>1. k = 0 \/ k = 1 \/ k = 2
      BY <2>10
    <3>2. l = 0 \/ l = 1 \/ l = 2
      BY <2>10
    <3>3. PICK m : m = (n + 1) * c
      OBVIOUS
    <3>4. m \in Nat
      BY <1>2, <2>6, <3>3
    <3>5. /\ (n + 1) * (c + 0) = m /\ (n + 1) * (c + 1) = m + n + 1
          /\ (n + 1) * (c + 2) = m + n + 1 + n + 1
      BY <1>2, <2>6, <3>3
    <3>. QED
      BY <1>2, <2>10, <3>1, <3>2, <3>4, <3>5
  <2>13. d = c + k /\ e = c + l
    BY <2>6, <2>7, <2>9
  <2>14. Done(u, a, b, n) = Zero(p, n) + Zero(q, n) /\ Done(w, a, b, n) = Zero(x, n) + Zero(y, n)
    BY <2>1 DEF Done
  <2>. QED
    BY <2>8, <2>11, <2>12, <2>13, <2>14
<1>. QED
  BY <1>1, <1>3 DEF Favours

\* Whatever the one plan does next, there is a step for the other that keeps it
\* ahead and costs no more.
LEMMA NearerGoes ==
  ASSUME NEW u \in Rests, NEW w \in Rests, NEW a \in Tasks, NEW b \in Tasks, a # b,
         Nearer(u, w, a, b), NEW s \in Nat, NEW k \in Tasks, w[k] > 0
  PROVE  \E l \in Tasks :
            /\ u[l] > 0 /\ l \in {k, a, b} /\ (l = k \/ k \in {a, b})
            /\ Nearer(Less(u, l), Less(w, k), a, b)
            /\ Ends(s, w, k) + Done(Less(u, l), a, b, s + 1) + Done(w, a, b, s + 1)
               = Ends(s, u, l) + Done(Less(w, k), a, b, s + 1) + Done(u, a, b, s + 1)
<1>1. PICK p, q, x, y : p = u[a] /\ q = u[b] /\ x = w[a] /\ y = w[b]
  OBVIOUS
<1>2. p \in Nat /\ q \in Nat /\ x \in Nat /\ y \in Nat
  BY <1>1, RestsAre
<1>3. Uneven(p, q, x, y) /\ \A t \in Tasks \ {a, b} : u[t] = w[t]
  BY <1>1 DEF Nearer
<1>4. ASSUME NEW rest \in Rests, NEW t \in Tasks
      PROVE  \A v \in Tasks : Less(rest, t)[v] = IF v = t THEN rest[t] - 1 ELSE rest[v]
  BY RestsAre
<1>5. CASE k \notin {a, b}
  <2>1. u[k] = w[k] /\ Ends(s, w, k) = Ends(s, u, k)
    BY <1>3, <1>5 DEF Ends
  <2>2. PICK u1, w1 : u1 = Less(u, k) /\ w1 = Less(w, k)
    OBVIOUS
  <2>3. u1[a] = p /\ u1[b] = q /\ w1[a] = x /\ w1[b] = y
    BY <1>1, <1>4, <1>5, <2>2
  <2>4. \A t \in Tasks \ {a, b} : u1[t] = w1[t]
    BY <1>3, <1>4, <2>1, <2>2
  <2>5. Nearer(u1, w1, a, b)
    BY <1>3, <2>3, <2>4 DEF Nearer
  <2>6. Done(u1, a, b, s + 1) = Done(u, a, b, s + 1) /\ Done(w1, a, b, s + 1) = Done(w, a, b, s + 1)
    BY <1>1, <2>3 DEF Done
  <2>7. Ends(s, u, k) \in Int /\ Done(u, a, b, s + 1) \in Int /\ Done(w, a, b, s + 1) \in Int
    BY <1>1, <1>2 DEF Ends, Done, Zero
  <2>8. Ends(s, w, k) + Done(u1, a, b, s + 1) + Done(w, a, b, s + 1)
        = Ends(s, u, k) + Done(w1, a, b, s + 1) + Done(u, a, b, s + 1)
    BY <2>1, <2>6, <2>7
  <2>. QED
    BY <2>1, <2>2, <2>5, <2>8
<1>6. ASSUME NEW rest \in Rests, NEW t \in {a, b}, rest[t] > 0
      PROVE  /\ Done(Less(rest, t), a, b, s + 1) = Ends(s, rest, t) + Done(rest, a, b, s + 1)
             /\ Ends(s, rest, t) \in Int /\ Done(rest, a, b, s + 1) \in Int
  <2>1. PICK r : r = Less(rest, t)
    OBVIOUS
  <2>2. PICK g, h : g = rest[a] /\ h = rest[b]
    OBVIOUS
  <2>3. g \in Nat /\ h \in Nat
    BY <2>2, RestsAre
  <2>4. CASE t = a
    <3>1. r[a] = g - 1 /\ r[b] = h /\ g > 0
      BY <1>4, <1>6, <2>1, <2>2, <2>4
    <3>2. Done(r, a, b, s + 1) = Zero(g - 1, s + 1) + Zero(h, s + 1)
      BY <3>1 DEF Done
    <3>3. Done(rest, a, b, s + 1) = Zero(g, s + 1) + Zero(h, s + 1)
          /\ Ends(s, rest, t) = IF g = 1 THEN s + 1 ELSE 0
      BY <2>2, <2>4 DEF Done, Ends
    <3>4. Zero(g - 1, s + 1) = (IF g = 1 THEN s + 1 ELSE 0) + Zero(g, s + 1)
          /\ Zero(h, s + 1) \in Int /\ Zero(g, s + 1) \in Int
      BY <2>3, <3>1 DEF Zero
    <3>. QED
      BY <2>1, <3>2, <3>3, <3>4
  <2>5. CASE t = b
    <3>1. r[a] = g /\ r[b] = h - 1 /\ h > 0
      BY <1>4, <1>6, <2>1, <2>2, <2>5
    <3>2. Done(r, a, b, s + 1) = Zero(g, s + 1) + Zero(h - 1, s + 1)
      BY <3>1 DEF Done
    <3>3. Done(rest, a, b, s + 1) = Zero(g, s + 1) + Zero(h, s + 1)
          /\ Ends(s, rest, t) = IF h = 1 THEN s + 1 ELSE 0
      BY <2>2, <2>5 DEF Done, Ends
    <3>4. Zero(h - 1, s + 1) = (IF h = 1 THEN s + 1 ELSE 0) + Zero(h, s + 1)
          /\ Zero(h, s + 1) \in Int /\ Zero(g, s + 1) \in Int
      BY <2>3, <3>1 DEF Zero
    <3>. QED
      BY <2>1, <3>2, <3>3, <3>4
  <2>. QED
    BY <1>6, <2>4, <2>5
<1>7. CASE k \in {a, b}
  <2>1. \E l \in {a, b} : u[l] > 0 /\ Nearer(Less(u, l), Less(w, k), a, b)
    <3>1. PICK w1, ua, ub : w1 = Less(w, k) /\ ua = Less(u, a) /\ ub = Less(u, b)
      OBVIOUS
    <3>2. /\ w1[a] = (IF k = a THEN x - 1 ELSE x) /\ w1[b] = (IF k = b THEN y - 1 ELSE y)
          /\ ua[a] = p - 1 /\ ua[b] = q /\ ub[a] = p /\ ub[b] = q - 1
          /\ \A t \in Tasks \ {a, b} : w1[t] = u[t] /\ ua[t] = u[t] /\ ub[t] = u[t]
      BY <1>1, <1>3, <1>4, <1>7, <3>1
    <3>3. PICK x1, y1 : x1 = w1[a] /\ y1 = w1[b]
      OBVIOUS
    <3>4. (p > 0 /\ Uneven(p - 1, q, x1, y1)) \/ (q > 0 /\ Uneven(p, q - 1, x1, y1))
      <4>1. CASE k = a
        <5>1. x1 = x - 1 /\ y1 = y /\ x > 0
          BY <1>1, <3>2, <3>3, <4>1
        <5>. QED
          BY <1>2, <1>3, <5>1 DEF Uneven
      <4>2. CASE k = b
        <5>1. x1 = x /\ y1 = y - 1 /\ y > 0
          BY <1>1, <3>2, <3>3, <4>2
        <5>. QED
          BY <1>2, <1>3, <5>1 DEF Uneven
      <4>. QED
        BY <1>7, <4>1, <4>2
    <3>5. CASE p > 0 /\ Uneven(p - 1, q, x1, y1)
      <4>1. Nearer(ua, w1, a, b)
        BY <3>2, <3>3, <3>5 DEF Nearer
      <4>. QED
        BY <1>1, <3>1, <3>5, <4>1
    <3>6. CASE q > 0 /\ Uneven(p, q - 1, x1, y1)
      <4>1. Nearer(ub, w1, a, b)
        BY <3>2, <3>3, <3>6 DEF Nearer
      <4>. QED
        BY <1>1, <3>1, <3>6, <4>1
    <3>. QED
      BY <3>4, <3>5, <3>6
  <2>2. PICK l \in {a, b} : u[l] > 0 /\ Nearer(Less(u, l), Less(w, k), a, b)
    BY <2>1
  <2>3. Done(Less(u, l), a, b, s + 1) = Ends(s, u, l) + Done(u, a, b, s + 1)
        /\ Ends(s, u, l) \in Int /\ Done(u, a, b, s + 1) \in Int
    BY <1>6, <2>2
  <2>4. Done(Less(w, k), a, b, s + 1) = Ends(s, w, k) + Done(w, a, b, s + 1)
        /\ Ends(s, w, k) \in Int /\ Done(w, a, b, s + 1) \in Int
    BY <1>6, <1>7
  <2>5. Ends(s, w, k) + Done(Less(u, l), a, b, s + 1) + Done(w, a, b, s + 1)
        = Ends(s, u, l) + Done(Less(w, k), a, b, s + 1) + Done(u, a, b, s + 1)
    BY <2>3, <2>4
  <2>. QED
    BY <1>7, <2>2, <2>5
<1>. QED
  BY <1>5, <1>7

LEMMA FavoursGoOn ==
  ASSUME \A t \in Tasks : arr[t] \in Int, NEW s \in 0..MaxTime - 1, Favours(s + 1)
  PROVE  Favours(s)
<1>1. s \in 0..MaxTime /\ s + 1 \in 0..MaxTime /\ s \in Nat /\ s < MaxTime
  BY TasksAre
<1>2. SUFFICES ASSUME NEW u \in Rests, NEW w \in Rests, NEW a \in Tasks, NEW b \in Tasks,
                      a # b, arr[a] <= s, arr[b] <= s, Nearer(u, w, a, b)
               PROVE  ToPay(s, u) + Done(u, a, b, s) <= ToPay(s, w) + Done(w, a, b, s)
  BY DEF Favours
<1>3. PICK p, q, x, y : p = u[a] /\ q = u[b] /\ x = w[a] /\ y = w[b]
  OBVIOUS
<1>4. p \in Nat /\ q \in Nat /\ x \in Nat /\ y \in Nat
  BY <1>3, RestsAre
<1>5. Uneven(p, q, x, y) /\ \A t \in Tasks \ {a, b} : u[t] = w[t]
  BY <1>2, <1>3 DEF Nearer
<1>6. \A r \in Rests, t \in 0..MaxTime : ToPay(t, r) \in Int
  BY ToPayIs
<1>7. \A r \in Rests, t \in Nat : Done(r, a, b, t) \in Int
  <2>1. \A r : Done(r, a, b, 0) = Done(r, a, b, 0)
    OBVIOUS
  <2>. QED
    BY DEF Done, Zero
<1>8. CASE x + y = 0
  <2>1. \A t \in Tasks : u[t] = w[t]
    <3>1. p = 0 /\ q = 0 /\ x = 0 /\ y = 0
      <4>1. p + q = x + y
        BY <1>5 DEF Uneven
      <4>2. x = 0 /\ y = 0
        BY <1>4, <1>8
      <4>3. p + q = 0
        BY <4>1, <4>2
      <4>. QED
        BY <1>4, <4>2, <4>3
    <3>. QED
      BY <1>3, <1>5, <3>1
  <2>2. u = w
    BY <2>1, RestsAre
  <2>. QED
    BY <1>1, <1>6, <1>7, <2>2
<1>9. CASE x + y # 0
  <2>1. Come(s, w) # {}
    <3>1. a \in Come(s, w) \/ b \in Come(s, w)
      BY <1>2, <1>3, <1>4, <1>9 DEF Come, Open
    <3>. QED
      BY <3>1
  <2>2. PICK k \in Come(s, w) : ToPay(s, w) = ToPay(s + 1, Less(w, k)) + Ends(s, w, k)
    BY <1>1, <2>1, ToPayGoes
  <2>3. k \in Tasks /\ w[k] > 0 /\ arr[k] <= s
    BY DEF Come, Open
  <2>4. PICK l \in Tasks :
            /\ u[l] > 0 /\ l \in {k, a, b} /\ (l = k \/ k \in {a, b})
            /\ Nearer(Less(u, l), Less(w, k), a, b)
            /\ Ends(s, w, k) + Done(Less(u, l), a, b, s + 1) + Done(w, a, b, s + 1)
               = Ends(s, u, l) + Done(Less(w, k), a, b, s + 1) + Done(u, a, b, s + 1)
    BY <1>1, <1>2, <2>3, NearerGoes
  <2>5. l \in Come(s, u)
    BY <1>2, <2>3, <2>4 DEF Come, Open
  <2>6. ToPay(s, u) <= ToPay(s + 1, Less(u, l)) + Ends(s, u, l)
    BY <1>1, <2>5, ToPayGoes
  <2>7. PICK u1, w1, v : u1 = Less(u, l) /\ w1 = Less(w, k) /\ v = s + 1
    OBVIOUS
  <2>8. u1 \in Rests /\ w1 \in Rests
    BY <2>3, <2>4, <2>7, RestsAre
  <2>9. ToPay(v, u1) + Done(u1, a, b, v) <= ToPay(v, w1) + Done(w1, a, b, v)
    <3>1. arr[a] <= v /\ arr[b] <= v
      BY <1>1, <1>2, <2>7
    <3>2. Nearer(u1, w1, a, b)
      BY <2>4, <2>7
    <3>. QED
      BY <1>2, <2>7, <2>8, <3>1, <3>2 DEF Favours
  <2>10. PICK z \in Nat, y2 \in Nat : /\ z >= y2
               /\ Zero(p, s + 1) + Zero(q, s + 1) = Zero(p, s) + Zero(q, s) + z
               /\ Zero(x, s + 1) + Zero(y, s + 1) = Zero(x, s) + Zero(y, s) + y2
    <3>1. Uneven(p, q, x, y)
      BY <1>5
    <3>2. Gains(p, q, x, y, s)
      BY <1>1, <1>4, <3>1, ZerosGo
    <3>. QED
      BY <3>2, Zenon DEF Gains
  <2>11. Done(u, a, b, v) = Done(u, a, b, s) + z /\ Done(w, a, b, v) = Done(w, a, b, s) + y2
    BY <1>3, <2>7, <2>10 DEF Done
  <2>12. PICK A1, A2, B1, B2, C1, C2, D1, D2 :
            /\ A1 = ToPay(v, u1) /\ A2 = ToPay(v, w1)
            /\ B1 = Done(u1, a, b, v) /\ B2 = Done(w1, a, b, v)
            /\ C1 = Done(u, a, b, s) /\ C2 = Done(w, a, b, s)
            /\ D1 = ToPay(s, u) /\ D2 = ToPay(s, w)
    OBVIOUS
  <2>13. /\ A1 \in Int /\ A2 \in Int /\ B1 \in Int /\ B2 \in Int
         /\ C1 \in Int /\ C2 \in Int /\ D1 \in Int /\ D2 \in Int
    <3>1. v \in 0..MaxTime /\ v \in Nat
      BY <1>1, <2>7
    <3>. QED
      BY <1>1, <1>6, <1>7, <2>8, <2>12, <3>1
  <2>14. PICK E1, E2 : E1 = Ends(s, u, l) /\ E2 = Ends(s, w, k)
    OBVIOUS
  <2>15. E1 \in Int /\ E2 \in Int
    BY <1>1, <2>14 DEF Ends
  <2>16. /\ E2 + B1 + (C2 + y2) = E1 + B2 + (C1 + z)
         /\ A1 + B1 <= A2 + B2
         /\ D1 <= A1 + E1 /\ D2 = A2 + E2
    BY <2>2, <2>4, <2>6, <2>7, <2>9, <2>11, <2>12, <2>14
  <2>17. D1 + C1 <= D2 + C2
    BY <2>10, <2>13, <2>15, <2>16
  <2>. QED
    BY <2>12, <2>17
<1>. QED
  BY <1>4, <1>8, <1>9

LEMMA ShorterFirst ==
  ASSUME \A t \in Tasks : arr[t] \in Int
  PROVE  \A s \in 0..MaxTime : Favours(s)
<1>. DEFINE S == {s \in 0..MaxTime : Favours(s)}
<1>1. MaxTime \in Nat /\ MaxTime \in S
  BY TasksAre, FavoursAtEnd
<1>2. ASSUME NEW s \in 0..MaxTime - 1, s + 1 \in S PROVE s \in S
  <2>1. Favours(s + 1)
    BY <1>2
  <2>2. Favours(s)
    BY <2>1, FavoursGoOn
  <2>. QED
    BY <1>1, <2>2
<1>3. \A s \in 0..MaxTime : s \in S
  <2>. HIDE DEF S
  <2>. QED
    BY <1>1, <1>2, Descend
<1>. QED
  BY <1>3

\* So the shortest rest goes first.
LEMMA ShortestRest ==
  ASSUME \A t \in Tasks : arr[t] \in Int, NEW s \in 0..MaxTime - 1, NEW rest \in Rests,
         NEW b \in Come(s, rest), \A t \in Come(s, rest) : rest[b] <= rest[t]
  PROVE  ToPay(s, rest) = ToPay(s + 1, Less(rest, b)) + Ends(s, rest, b)
<1>1. s \in 0..MaxTime /\ s + 1 \in 0..MaxTime /\ s \in Nat /\ s < MaxTime
  BY TasksAre
<1>2. \A t \in Come(s, rest) : t \in Tasks /\ rest[t] > 0 /\ arr[t] <= s /\ Less(rest, t) \in Rests
  BY RestsAre DEF Come, Open
<1>3. PICK t \in Come(s, rest) : ToPay(s, rest) = ToPay(s + 1, Less(rest, t)) + Ends(s, rest, t)
  BY <1>1, ToPayGoes
<1>4. ToPay(s, rest) <= ToPay(s + 1, Less(rest, b)) + Ends(s, rest, b)
  BY <1>1, ToPayGoes
<1>5. CASE t = b
  BY <1>3, <1>5
<1>6. CASE t # b
  <2>1. PICK u, w, v : u = Less(rest, b) /\ w = Less(rest, t) /\ v = s + 1
    OBVIOUS
  <2>2. PICK x, y : x = rest[b] /\ y = rest[t]
    OBVIOUS
  <2>3. x \in Nat /\ y \in Nat /\ x > 0 /\ y > 0 /\ x <= y
    BY <1>2, <2>2, RestsAre
  <2>4. u \in Rests /\ w \in Rests /\ t \in Tasks /\ b \in Tasks
    BY <1>2, <2>1
  <2>5. /\ u[b] = x - 1 /\ u[t] = y /\ w[b] = x /\ w[t] = y - 1
        /\ \A k \in Tasks \ {b, t} : u[k] = w[k]
    BY <1>6, <2>1, <2>2, <2>4, RestsAre
  <2>6. Nearer(u, w, b, t)
    <3>1. Uneven(x - 1, y, x, y - 1)
      BY <2>3 DEF Uneven
    <3>. QED
      BY <2>5, <3>1 DEF Nearer
  <2>7. ToPay(v, u) + Done(u, b, t, v) <= ToPay(v, w) + Done(w, b, t, v)
    <3>1. Favours(v) /\ arr[b] <= v /\ arr[t] <= v
      BY <1>1, <1>2, <2>1, <2>4, ShorterFirst
    <3>. QED
      BY <1>6, <2>4, <2>6, <3>1 DEF Favours
  <2>8. Done(u, b, t, v) = Ends(s, rest, b) /\ Done(w, b, t, v) = Ends(s, rest, t)
    BY <1>1, <2>1, <2>2, <2>3, <2>5 DEF Done, Zero, Ends
  <2>9. ToPay(v, u) \in Int /\ ToPay(v, w) \in Int /\ ToPay(s, rest) \in Int
        /\ Ends(s, rest, b) \in Int /\ Ends(s, rest, t) \in Int
    <3>1. Ends(s, rest, b) \in Int /\ Ends(s, rest, t) \in Int
      BY <1>1 DEF Ends
    <3>. QED
      BY <1>1, <2>1, <2>4, <3>1, ToPayIs
  <2>10. PICK a1, b1, c1, d1, e1 : /\ a1 = ToPay(v, u) /\ b1 = ToPay(v, w) /\ c1 = ToPay(s, rest)
                              /\ d1 = Ends(s, rest, b) /\ e1 = Ends(s, rest, t)
    OBVIOUS
  <2>11. /\ c1 = b1 + e1 /\ c1 <= a1 + d1 /\ a1 + d1 <= b1 + e1
         /\ a1 \in Int /\ b1 \in Int /\ c1 \in Int /\ d1 \in Int /\ e1 \in Int
    BY <1>3, <1>4, <2>1, <2>7, <2>8, <2>9, <2>10
  <2>12. c1 = a1 + d1
    <3>1. PICK f1 : f1 = a1 + d1
      OBVIOUS
    <3>2. f1 \in Int /\ c1 <= f1 /\ f1 <= c1 /\ c1 \in Int
      BY <2>11, <3>1
    <3>3. c1 = f1
      BY <3>2
    <3>. QED
      BY <3>1, <3>3
  <2>. QED
    BY <2>1, <2>10, <2>12
<1>. QED
  BY <1>5, <1>6

-----------------------------------------------------------------------------
(* Sums over the tasks, as the fold takes them.                               *)

Sum(f, S) == (CHOOSE g : SumsUp(g, f, S))[S]
Plus(x) == IF x > 0 THEN x ELSE 0

LEMMA SumsExist ==
  ASSUME NEW S, IsFiniteSet(S), NEW f, \A s \in S : f[s] \in Int
  PROVE  \E g : SumsUp(g, f, S) /\ \A s \in SUBSET S : g[s] \in Int
<1>1. PICK p, q, z : /\ p = [s \in S |-> Plus(f[s])] /\ q = [s \in S |-> Plus(0 - f[s])]
                     /\ z = [s \in S |-> 0 - (p[s] + q[s])]
  <2>1. PICK p, q : p = [s \in S |-> Plus(f[s])] /\ q = [s \in S |-> Plus(0 - f[s])]
    OBVIOUS
  <2>. QED
    BY <2>1
<1>2. \A s \in S : /\ p[s] \in Nat /\ q[s] \in Nat /\ f[s] = p[s] - q[s]
                   /\ z[s] \in Int /\ z[s] = 0 - (p[s] + q[s])
  BY <1>1 DEF Plus
<1>3. PICK M \in Nat : \A s \in S : p[s] <= M /\ q[s] <= M
  <2>1. CASE S = {}
    BY <2>1
  <2>2. CASE S # {}
    <3>1. PICK m \in S : \A s \in S : z[m] <= z[s]
      BY <1>2, <2>2, LeastOn
    <3>2. PICK M : M = p[m] + q[m]
      OBVIOUS
    <3>3. M \in Nat /\ z[m] = 0 - M
      BY <1>2, <3>2
    <3>4. \A s \in S : p[s] <= M /\ q[s] <= M
      <4>1. ASSUME NEW s \in S PROVE p[s] <= M /\ q[s] <= M
        <5>1. PICK x, y : x = p[s] /\ y = q[s]
          OBVIOUS
        <5>2. x \in Nat /\ y \in Nat /\ z[s] = 0 - (x + y) /\ 0 - M <= 0 - (x + y)
          BY <1>2, <3>1, <3>3, <5>1
        <5>. QED
          BY <3>3, <5>1, <5>2
      <4>. QED
        BY <4>1
    <3>. QED
      BY <3>3, <3>4
  <2>. QED
    BY <2>1, <2>2
<1>4. p \in [S -> Nat] /\ q \in [S -> Nat]
  BY <1>1, <1>2
<1>5. ASSUME NEW T \in SUBSET S
      PROVE  /\ Total(p, T, M) \in Nat /\ Total(q, T, M) \in Nat
             /\ \A w \in S \ T : /\ Total(p, T \cup {w}, M) = Total(p, T, M) + p[w]
                                 /\ Total(q, T \cup {w}, M) = Total(q, T, M) + q[w]
  BY <1>3, <1>4, TotalMore
<1>6. PICK h : h = [s \in SUBSET S |-> Total(p, s, M) - Total(q, s, M)]
  OBVIOUS
<1>7. ASSUME NEW s \in SUBSET S
      PROVE  h[s] = (IF s = {} THEN 0 ELSE f[Picked(s)] + h[s \ {Picked(s)}]) /\ h[s] \in Int
  <2>1. CASE s = {}
    BY <1>6, <2>1, TotalOfNone
  <2>2. CASE s # {}
    <3>1. PICK w : w = Picked(s)
      OBVIOUS
    <3>2. w \in s
      BY <2>2, <3>1 DEF Picked
    <3>3. PICK t : t = s \ {w}
      OBVIOUS
    <3>4. t \in SUBSET S /\ w \in S \ t /\ s = t \cup {w}
      BY <3>2, <3>3
    <3>5. PICK P, Q : P = Total(p, t, M) /\ Q = Total(q, t, M)
      OBVIOUS
    <3>6. P \in Nat /\ Q \in Nat /\ Total(p, s, M) = P + p[w] /\ Total(q, s, M) = Q + q[w]
      BY <1>5, <3>4, <3>5
    <3>7. h[s] = (P + p[w]) - (Q + q[w]) /\ h[t] = P - Q
      BY <1>6, <3>4, <3>5, <3>6
    <3>8. h[s] = f[w] + h[t] /\ h[s] \in Int
      BY <1>2, <3>4, <3>6, <3>7
    <3>. QED
      BY <2>2, <3>1, <3>3, <3>8
  <2>. QED
    BY <2>1, <2>2
<1>8. SumsUp(h, f, S)
  <2>1. h = [s \in SUBSET S |-> IF s = {} THEN 0 ELSE f[Picked(s)] + h[s \ {Picked(s)}]]
    BY <1>6, <1>7
  <2>. QED
    BY <2>1 DEF SumsUp
<1>. QED
  BY <1>7, <1>8

\* Any function that adds up f that way has the sum of S at S.
AddsUp(h, f, S) ==
    /\ h[{}] = 0
    /\ \A s \in SUBSET S : s # {} => h[s] = f[Picked(s)] + h[s \ {Picked(s)}]

LEMMA SumIs ==
  ASSUME NEW S, IsFiniteSet(S), NEW f, \A s \in S : f[s] \in Int, NEW h, AddsUp(h, f, S)
  PROVE  Sum(f, S) = h[S] /\ Sum(f, S) \in Int
<1>1. PICK k : SumsUp(k, f, S) /\ \A s \in SUBSET S : k[s] \in Int
  BY SumsExist
<1>2. PICK g : g = CHOOSE x : SumsUp(x, f, S)
  OBVIOUS
<1>3. SumsUp(g, f, S)
  BY <1>1, <1>2, Zenon
<1>4. ASSUME NEW a, SumsUp(a, f, S) PROVE \A s \in SUBSET S : a[s] = h[s]
  <2>1. \A s \in SUBSET S : a[s] = IF s = {} THEN 0 ELSE f[Picked(s)] + a[s \ {Picked(s)}]
    BY <1>4, Zenon DEF SumsUp
  <2>2. StepAlike(a, h, S)
    BY <2>1 DEF StepAlike, AddsUp
  <2>. QED
    BY <2>2, SameOnSets
<1>5. g[S] = h[S] /\ k[S] = h[S] /\ k[S] \in Int
  BY <1>1, <1>3, <1>4
<1>. QED
  BY <1>2, <1>5 DEF Sum

LEMMA SumAdds ==
  ASSUME NEW S, IsFiniteSet(S), NEW f, NEW g, NEW h,
         \A s \in S : f[s] \in Int /\ g[s] \in Int /\ h[s] = f[s] + g[s]
  PROVE  Sum(h, S) = Sum(f, S) + Sum(g, S) /\ Sum(f, S) \in Int /\ Sum(g, S) \in Int
<1>1. PICK x : SumsUp(x, f, S) /\ \A s \in SUBSET S : x[s] \in Int
  BY SumsExist
<1>2. PICK y : SumsUp(y, g, S) /\ \A s \in SUBSET S : y[s] \in Int
  BY SumsExist
<1>3. \A s \in SUBSET S : /\ x[s] = IF s = {} THEN 0 ELSE f[Picked(s)] + x[s \ {Picked(s)}]
                          /\ y[s] = IF s = {} THEN 0 ELSE g[Picked(s)] + y[s \ {Picked(s)}]
  BY <1>1, <1>2, Zenon DEF SumsUp
<1>4. PICK z : z = [s \in SUBSET S |-> x[s] + y[s]]
  OBVIOUS
<1>5. z[{}] = 0 /\ x[{}] = 0 /\ y[{}] = 0
  <2>1. {} \in SUBSET S
    OBVIOUS
  <2>2. x[{}] = 0 /\ y[{}] = 0
    BY <1>3, <2>1
  <2>. QED
    BY <1>4, <2>1, <2>2
<1>6. ASSUME NEW s \in SUBSET S, s # {} PROVE z[s] = h[Picked(s)] + z[s \ {Picked(s)}]
  <2>1. PICK w, t : w = Picked(s) /\ t = s \ {w}
    OBVIOUS
  <2>2. w \in S /\ t \in SUBSET S
    BY <1>6, <2>1 DEF Picked
  <2>3. x[s] = f[w] + x[t] /\ y[s] = g[w] + y[t]
    BY <1>3, <1>6, <2>1
  <2>4. z[s] = x[s] + y[s] /\ z[t] = x[t] + y[t]
    BY <1>4, <2>2
  <2>5. /\ h[w] = f[w] + g[w] /\ f[w] \in Int /\ g[w] \in Int /\ x[t] \in Int /\ y[t] \in Int
    BY <1>1, <1>2, <2>2
  <2>6. z[s] = h[w] + z[t]
    BY <2>3, <2>4, <2>5
  <2>. QED
    BY <2>1, <2>6
<1>7. \A s \in S : h[s] \in Int
  OBVIOUS
<1>8. Sum(h, S) = z[S]
  <2>1. AddsUp(z, h, S)
    BY <1>5, <1>6 DEF AddsUp
  <2>. QED
    BY <1>7, <2>1, SumIs
<1>9. Sum(f, S) = x[S] /\ Sum(g, S) = y[S] /\ x[S] \in Int /\ y[S] \in Int
  <2>1. \A s \in SUBSET S : s # {} => x[s] = f[Picked(s)] + x[s \ {Picked(s)}]
    BY <1>3
  <2>2. \A s \in SUBSET S : s # {} => y[s] = g[Picked(s)] + y[s \ {Picked(s)}]
    BY <1>3
  <2>3. \A s \in S : f[s] \in Int
    OBVIOUS
  <2>4. \A s \in S : g[s] \in Int
    OBVIOUS
  <2>5. AddsUp(x, f, S) /\ AddsUp(y, g, S)
    BY <1>5, <2>1, <2>2 DEF AddsUp
  <2>6. Sum(f, S) = x[S] /\ Sum(g, S) = y[S]
    BY <2>3, <2>4, <2>5, SumIs
  <2>. QED
    BY <1>1, <1>2, <2>6
<1>10. z[S] = x[S] + y[S]
  BY <1>4
<1>. QED
  BY <1>8, <1>9, <1>10

LEMMA SumOfOne ==
  ASSUME NEW S, IsFiniteSet(S), NEW c \in S, NEW d \in Int, NEW f,
         \A s \in S : f[s] = IF s = c THEN d ELSE 0
  PROVE  Sum(f, S) = d
<1>1. PICK z : z = [s \in SUBSET S |-> IF c \in s THEN d ELSE 0]
  OBVIOUS
<1>2. z[{}] = 0 /\ z[S] = d
  BY <1>1
<1>3. ASSUME NEW s \in SUBSET S, s # {} PROVE z[s] = f[Picked(s)] + z[s \ {Picked(s)}]
  <2>1. PICK w, t : w = Picked(s) /\ t = s \ {w}
    OBVIOUS
  <2>2. w \in s /\ w \in S /\ t \in SUBSET S
    BY <1>3, <2>1 DEF Picked
  <2>3. z[s] = (IF c \in s THEN d ELSE 0) /\ z[t] = IF c \in t THEN d ELSE 0
    BY <1>1, <2>2
  <2>4. f[w] = IF w = c THEN d ELSE 0
    BY <2>2
  <2>5. z[s] = f[w] + z[t]
    BY <2>1, <2>2, <2>3, <2>4
  <2>. QED
    BY <2>1, <2>5
<1>4. \A s \in S : f[s] \in Int
  OBVIOUS
<1>5. Sum(f, S) = z[S]
  <2>1. AddsUp(z, f, S)
    BY <1>2, <1>3 DEF AddsUp
  <2>. QED
    BY <1>4, <2>1, SumIs
<1>. QED
  BY <1>2, <1>5

\* h is f, with d more at c.
Changed(h, f, c, d, S) == \A s \in S : f[s] \in Int /\ h[s] = IF s = c THEN f[s] + d ELSE f[s]

LEMMA SumChanges ==
  ASSUME NEW S, IsFiniteSet(S), NEW c \in S, NEW d \in Int, NEW f, NEW h,
         Changed(h, f, c, d, S)
  PROVE  Sum(h, S) = Sum(f, S) + d
<1>1. PICK g : g = [s \in S |-> IF s = c THEN d ELSE 0]
  OBVIOUS
<1>2. Sum(g, S) = d
  BY <1>1, SumOfOne
<1>3. \A s \in S : f[s] \in Int /\ g[s] \in Int /\ h[s] = f[s] + g[s]
  BY <1>1 DEF Changed
<1>4. Sum(h, S) = Sum(f, S) + Sum(g, S)
  BY <1>3, SumAdds
<1>. QED
  BY <1>2, <1>4

LEMMA SumOfNone ==
  ASSUME NEW S, IsFiniteSet(S), NEW f, \A s \in S : f[s] = 0
  PROVE  Sum(f, S) = 0
<1>1. \A s \in S : f[s] \in Int /\ f[s] \in Int /\ f[s] = f[s] + f[s]
  OBVIOUS
<1>2. PICK m : m = Sum(f, S)
  OBVIOUS
<1>3. m = m + m /\ m \in Int
  BY <1>1, <1>2, SumAdds
<1>4. m = 0
  BY <1>3
<1>. QED
  BY <1>2, <1>4

LEMMA SumOverIs == \A f : DOMAIN f = Tasks => Cpu!SumOver(f) = Sum(f, Tasks)
<1>1. ASSUME NEW f, DOMAIN f = Tasks PROVE Cpu!SumOver(f) = Sum(f, Tasks)
  BY <1>1, Zenon DEF Cpu!SumOver, Cpu!FoldFunction, Cpu!FoldFunctionOnSet, Cpu!MapThenFoldSet,
     Sum, SumsUp, Picked
<1>. QED
  BY <1>1

-----------------------------------------------------------------------------
(* The chart of who ran when.                                                 *)

Ran(g, k, t) == {j \in 1..k : g[j] = t}
Had(g, k, t) == Cardinality(Ran(g, k, t))
Wanting(g, k) == {t \in Tasks : arr[t] < k /\ Had(g, k - 1, t) < burst[t]}

Chart(g, m, rest) ==
    /\ \A t \in Tasks : rest[t] + Had(g, m, t) = burst[t]
    /\ \A k \in 1..m : IF Wanting(g, k) = {} THEN g[k] = -1 ELSE g[k] \in Wanting(g, k)

LEMMA RanIs ==
  ASSUME NEW k \in Nat, NEW g, NEW t
  PROVE  IsFiniteSet(Ran(g, k, t)) /\ Had(g, k, t) \in Nat /\ Had(g, k, t) <= k
<1>1. PICK K : K = 1..k
  OBVIOUS
<1>2. IsFiniteSet(K) /\ Cardinality(K) = k
  BY <1>1, UpToIs
<1>3. Ran(g, k, t) \in SUBSET K
  BY <1>1 DEF Ran
<1>4. IsFiniteSet(Ran(g, k, t)) /\ Cardinality(Ran(g, k, t)) <= Cardinality(K)
  BY <1>2, <1>3, FS_Subset
<1>. QED
  BY <1>2, <1>4, FS_CardinalityType DEF Had

Longer(h, g, x, m) == h[m + 1] = x /\ \A k \in 1..m : h[k] = g[k]
More(R, m, same) == IF same THEN R \cup {m + 1} ELSE R

LEMMA RanGoes ==
  ASSUME NEW m \in Nat, NEW g, NEW h, NEW x, Longer(h, g, x, m)
  PROVE  /\ \A k \in 0..m : \A t : Ran(h, k, t) = Ran(g, k, t) /\ Had(h, k, t) = Had(g, k, t)
         /\ \A t : Had(h, m + 1, t) = IF t = x THEN Had(g, m, t) + 1 ELSE Had(g, m, t)
         /\ \A t : Ran(h, m + 1, t) = More(Ran(g, m, t), m, t = x)
<1>1. m \in Nat /\ h[m + 1] = x /\ \A k \in 1..m : h[k] = g[k]
  BY DEF Longer
<1>2. ASSUME NEW k \in 0..m, NEW t PROVE Ran(h, k, t) = Ran(g, k, t)
  <2>1. \A j \in 1..k : j \in 1..m
    BY <1>1
  <2>2. \A j \in 1..k : h[j] = g[j]
    BY <1>1, <2>1
  <2>. QED
    BY <2>2 DEF Ran
<1>3. ASSUME NEW t
      PROVE  Ran(h, m + 1, t) = More(Ran(g, m, t), m, t = x)
  <2>1. \A j : j \in 1..m + 1 <=> j \in 1..m \/ j = m + 1
    BY <1>1
  <2>2. ASSUME NEW j PROVE j \in Ran(h, m + 1, t) <=> (j \in 1..m /\ g[j] = t) \/ (j = m + 1 /\ x = t)
    BY <1>1, <2>1 DEF Ran
  <2>. QED
    BY <2>2 DEF Ran, More
<1>4. ASSUME NEW t PROVE Had(h, m + 1, t) = IF t = x THEN Had(g, m, t) + 1 ELSE Had(g, m, t)
  <2>1. PICK R : R = Ran(g, m, t)
    OBVIOUS
  <2>2. IsFiniteSet(R) /\ m + 1 \notin R
    <3>1. IsFiniteSet(R)
      BY <1>1, <2>1, RanIs
    <3>. QED
      BY <1>1, <2>1, <3>1 DEF Ran
  <2>3. Cardinality(R \cup {m + 1}) = Cardinality(R) + 1
    BY <2>2, FS_AddElement
  <2>. QED
    BY <1>3, <2>1, <2>3 DEF Had, More
<1>5. \A k \in 0..m : \A t : Had(h, k, t) = Had(g, k, t)
  BY <1>2 DEF Had
<1>. QED
  BY <1>2, <1>3, <1>4, <1>5

\* A tick more, for one of those who wait or for nobody when there is none.
LEMMA ChartGoes ==
  ASSUME CpuTypes, Chart(gantt, time, remain), NEW x \in Tasks \cup {-1}, NEW rest,
         \A t \in Tasks : rest[t] = IF t = x THEN remain[t] - 1 ELSE remain[t],
         IF Waits = {} THEN x = -1 ELSE x \in Waits
  PROVE  Chart(Append(gantt, x), time + 1, rest)
<1>1. PICK h : h = Append(gantt, x)
  OBVIOUS
<1>2. gantt \in Seq(Tasks \cup {-1}) /\ time = Len(gantt) /\ time \in Nat
  BY DEF CpuTypes
<1>3. /\ h[time + 1] = x /\ \A k \in 1..time : h[k] = gantt[k]
      /\ \A k \in 0..time : \A t : Had(h, k, t) = Had(gantt, k, t)
      /\ \A t : Had(h, time + 1, t) = IF t = x THEN Had(gantt, time, t) + 1 ELSE Had(gantt, time, t)
  <2>1. Longer(h, gantt, x, time)
    BY <1>1, <1>2 DEF Longer
  <2>2. h[time + 1] = x /\ \A k \in 1..time : h[k] = gantt[k]
    BY <2>1 DEF Longer
  <2>. QED
    BY <1>2, <2>1, <2>2, RanGoes
<1>4. ASSUME NEW t \in Tasks PROVE rest[t] + Had(h, time + 1, t) = burst[t]
  <2>1. PICK y : y = Had(gantt, time, t)
    OBVIOUS
  <2>2. y \in Nat /\ remain[t] \in Nat /\ remain[t] + y = burst[t]
    BY <1>2, <2>1, RanIs DEF CpuTypes, Chart
  <2>3. Had(h, time + 1, t) = IF t = x THEN y + 1 ELSE y
    BY <1>3, <2>1
  <2>. QED
    BY <2>2, <2>3
<1>5. \A k \in 1..time : Wanting(h, k) = Wanting(gantt, k)
  <2>1. \A k \in 1..time : k - 1 \in 0..time
    BY <1>2
  <2>. QED
    BY <1>3, <2>1 DEF Wanting
<1>6. Wanting(h, time + 1) = Waits
  <2>1. \A t \in Tasks : Had(h, time, t) = Had(gantt, time, t) /\ (time + 1) - 1 = time
    BY <1>2, <1>3
  <2>2. ASSUME NEW t \in Tasks
        PROVE  arr[t] < time + 1 /\ Had(h, (time + 1) - 1, t) < burst[t] <=>
                   remain[t] > 0 /\ arr[t] <= time
    <3>1. PICK y : y = Had(gantt, time, t)
      OBVIOUS
    <3>2. y \in Nat /\ remain[t] \in Nat /\ remain[t] + y = burst[t] /\ arr[t] \in Int
      BY <1>2, <3>1, RanIs DEF CpuTypes, Chart
    <3>3. Had(h, (time + 1) - 1, t) = y
      BY <2>1, <3>1
    <3>. QED
      BY <1>2, <3>2, <3>3
  <2>. QED
    BY <2>2, Zenon DEF Wanting, Waits
<1>7. ASSUME NEW k \in 1..time + 1
      PROVE  IF Wanting(h, k) = {} THEN h[k] = -1 ELSE h[k] \in Wanting(h, k)
  <2>1. CASE k \in 1..time
    BY <1>3, <1>5, <2>1 DEF Chart
  <2>2. CASE k = time + 1
    BY <1>3, <1>6, <2>2
  <2>. QED
    BY <1>2, <2>1, <2>2
<1>8. Chart(h, time + 1, rest)
  BY <1>4, <1>7 DEF Chart
<1>. QED
  BY <1>1, <1>8

\* The property, in the module's own words.
LEMMA ChartSays ==
  ASSUME CpuTypes, Chart(gantt, time, remain)
  PROVE  Cpu!WorkConserving
<1>1. ASSUME NEW k \in 1..time, NEW t
      PROVE  Cpu!Served(t, k) = Had(gantt, k - 1, t)
  <2>1. \A j : j \in 1..k - 1 <=> j \in 1..time /\ j < k
    BY DEF CpuTypes
  <2>2. {j \in Cpu!Ticks(t) : j < k} = Ran(gantt, k - 1, t)
    BY <2>1 DEF Cpu!Ticks, Ran
  <2>. QED
    BY <2>2, CpuCounts DEF Cpu!Served, Had
<1>2. ASSUME NEW k \in 1..time
      PROVE  {t \in 0..Len(Pid) - 1 : arr[t] < k /\ Cpu!Served(t, k) < burst[t]} = Wanting(gantt, k)
  BY <1>1 DEF Wanting, Tasks
<1>. QED
  BY <1>2 DEF Cpu!WorkConserving, Chart

-----------------------------------------------------------------------------
(* What holds of a run of the scheduler.                                      *)

Now(t) == Ran(gantt, time, t)

QueueInv ==
    /\ \A t \in inq : \E k \in 1..Len(queue) : queue[k] = t
    /\ \A k \in 1..Len(queue) : arr[queue[k]] <= time /\ burst[queue[k]] > 0

\* Who has the processor; under srtf for a tick, with the shortest rest.
RunInv ==
    /\ pc = "run" => cur \in Tasks /\ left <= remain[cur] /\ arr[cur] <= time /\ burst[cur] > 0
    /\ cur # -1 => start[cur] >= 0
    /\ pc = "run" /\ policy # "rr" =>
          finish[cur] < 0 /\ (left = 0 => time > 0 /\ gantt[time] = cur)
    /\ pc = "run" /\ policy = "srtf" /\ left > 0 =>
          left = 1 /\ \A t \in Waits : remain[cur] <= remain[t]

\* A task that is started runs in the next tick, if it is not about to.
Began(t) ==
    IF start[t] < 0 THEN Now(t) = {}
    ELSE /\ arr[t] <= start[t] /\ start[t] <= time
         /\ \A k \in Now(t) : k > start[t]
         /\ \/ start[t] + 1 \in Now(t)
            \/ (pc \in {"run", "exited"} /\ cur = t /\ start[t] = time /\ left > 0)

Ended(t) ==
    finish[t] >= 0 =>
        /\ remain[t] = 0 /\ burst[t] > 0
        /\ start[t] >= 0 /\ start[t] + 1 \in Now(t)
        /\ finish[t] <= time /\ \A k \in Now(t) : k <= finish[t]
        /\ policy # "rr" => finish[t] \in Now(t)

ReportInv == \A t \in Tasks : Began(t) /\ Ended(t)


\* Those whose end is reported.
Reported == {t \in Tasks : finish[t] >= 0}

CountInv ==
    /\ policy # "rr" => finished = Cardinality(Reported)
    /\ pc = "done" => finished >= Cardinality(Tasks)

\* What the ends so far come to: one that is not yet reported is now.
Charge(t) == IF finish[t] >= 0 THEN finish[t] ELSE IF remain[t] = 0 THEN time ELSE 0
Charges == [t \in Tasks |-> Charge(t)]

\* Under srtf the ends so far and the least that the rest can come to are the
\* least the tasks could come to from the start.
PayInv ==
    policy = "srtf" /\ (\A t \in Tasks : burst[t] > 0 /\ burst[t] <= MaxTime) =>
        /\ \A t \in Tasks :
              finish[t] < 0 /\ remain[t] = 0 => pc \in {"run", "exited"} /\ cur = t /\ left = 0
        /\ Sum(Charges, Tasks) + ToPay(time, remain) = ToPay(0, burst)

CpuInv ==
    /\ CpuTypes /\ Chart(gantt, time, remain) /\ QueueInv /\ RunInv /\ ReportInv
    /\ CountInv /\ PayInv

InputsStay == policy' = policy /\ quantum' = quantum /\ arr' = arr /\ burst' = burst
QueueKept == queue' \in Seq(Tasks) /\ inq' \in SUBSET Tasks /\ QueueInv'

LEMMA NowGoes ==
  ASSUME CpuTypes, NEW x \in Tasks \cup {-1}, gantt' = Append(gantt, x), time' = time + 1
  PROVE  /\ \A t : Ran(gantt', time', t) = IF t = x THEN Now(t) \cup {time + 1} ELSE Now(t)
         /\ gantt'[time'] = x /\ \A t : \A k \in Now(t) : k <= time /\ k \in Nat
<1>1. PICK h : h = gantt'
  OBVIOUS
<1>2. Longer(h, gantt, x, time) /\ time \in Nat
  BY <1>1 DEF Longer, CpuTypes
<1>3. \A t : Ran(h, time + 1, t) = More(Ran(gantt, time, t), time, t = x)
  <2>1. PICK g, m : g = gantt /\ m = time
    OBVIOUS
  <2>2. m \in Nat /\ Longer(h, g, x, m)
    BY <1>2, <2>1
  <2>3. \A t : Ran(h, m + 1, t) = More(Ran(g, m, t), m, t = x)
    BY <2>2, RanGoes
  <2>. QED
    BY <2>1, <2>3
<1>4. h[time + 1] = x
  BY <1>2 DEF Longer
<1>5. \A t : \A k \in Now(t) : k <= time /\ k \in Nat
  BY <1>2 DEF Now, Ran
<1>6. \A t : Ran(gantt', time', t) = IF t = x THEN Now(t) \cup {time + 1} ELSE Now(t)
  BY <1>1, <1>3, Zenon DEF Now, More
<1>. QED
  BY <1>1, <1>4, <1>5, <1>6

LEMMA SamePlan == arr' = arr => Plan' = Plan
<1>1. SUFFICES ASSUME arr' = arr PROVE Plan' = Plan
  OBVIOUS
<1>2. ASSUME NEW s, NEW rest PROVE Come(s, rest)' = Come(s, rest)
  BY <1>1 DEF Come, Open
<1>3. ASSUME NEW g, NEW s, NEW rest PROVE Cheapest(g, s, rest)' = Cheapest(g, s, rest)
  BY <1>2, Zenon DEF Cheapest, Goes
<1>4. ASSUME NEW g, NEW s, NEW rest PROVE Dues(g, s, rest)' = Dues(g, s, rest)
  BY <1>2, <1>3, Zenon DEF Dues
<1>5. ASSUME NEW g, NEW s PROVE DuesRow(g, s)' = DuesRow(g, s)
  BY <1>4, Zenon DEF DuesRow
<1>6. ASSUME NEW f, NEW m PROVE DuesRows(f, m)' = DuesRows(f, m)
  BY <1>5, Zenon DEF DuesRows
<1>. QED
  BY <1>6, Zenon DEF Plan

LEMMA ChartStays ==
  ASSUME InputsStay, Chart(gantt', time', remain')
  PROVE  Chart(gantt, time, remain)'
BY DEF InputsStay, Chart, Wanting

\* What is left to do is what the value function is of.
LEMMA RemainIs ==
  ASSUME CpuTypes, Chart(gantt, time, remain)
  PROVE  /\ \A t \in Tasks : /\ remain[t] <= burst[t] /\ remain[t] \in Nat /\ burst[t] \in Nat
                             /\ burst[t] - remain[t] = Cardinality(Now(t))
         /\ (\A t \in Tasks : burst[t] <= MaxTime) => remain \in Rests /\ burst \in Rests
<1>1. ASSUME NEW t \in Tasks
      PROVE  /\ remain[t] <= burst[t] /\ remain[t] \in Nat /\ burst[t] \in Nat
             /\ burst[t] - remain[t] = Cardinality(Now(t))
  <2>1. PICK y : y = Had(gantt, time, t)
    OBVIOUS
  <2>2. y \in Nat /\ remain[t] \in Nat /\ remain[t] + y = burst[t] /\ burst[t] \in Nat
    BY <2>1, RanIs DEF CpuTypes, Chart
  <2>3. Cardinality(Now(t)) = y
    BY <2>1 DEF Now, Had
  <2>. QED
    BY <2>2, <2>3
<1>2. ASSUME \A t \in Tasks : burst[t] <= MaxTime PROVE remain \in Rests /\ burst \in Rests
  <2>1. \A t \in Tasks : remain[t] \in 0..MaxTime /\ burst[t] \in 0..MaxTime
    BY <1>1, <1>2, TasksAre
  <2>2. remain = [t \in Tasks |-> remain[t]] /\ burst = [t \in Tasks |-> burst[t]]
    BY DEF CpuTypes
  <2>. QED
    BY <2>1, <2>2 DEF Rests
<1>. QED
  BY <1>1, <1>2

IdleGoes ==
    /\ pc = "pick" /\ pc' = pc /\ Waits = {}
    /\ time < MaxTime /\ time' = time + 1 /\ gantt' = Append(gantt, -1)
    /\ remain' = remain /\ start' = start /\ finish' = finish /\ finished' = finished
    /\ cur' = cur /\ left' = left /\ queue' = queue /\ inq' = inq /\ InputsStay

LEMMA IdleKeeps ==
  ASSUME CpuInv, IdleGoes
  PROVE  CpuInv'
<1>1. CpuTypes /\ time \in Nat /\ MaxTime \in Nat /\ -1 \notin Tasks
  BY TasksAre DEF CpuInv, CpuTypes
<1>2. CpuTypes'
  <2>1. gantt' \in Seq(Tasks \cup {-1}) /\ Len(gantt') = time'
    BY DEF CpuInv, CpuTypes, IdleGoes
  <2>2. time' \in Nat /\ time' <= MaxTime
    BY <1>1 DEF IdleGoes
  <2>. QED
    BY <2>1, <2>2 DEF CpuInv, CpuTypes, IdleGoes, InputsStay
<1>3. Chart(gantt, time, remain)'
  <2>1. \A t \in Tasks : remain[t] = IF t = -1 THEN remain[t] - 1 ELSE remain[t]
    BY <1>1
  <2>2. Chart(Append(gantt, -1), time + 1, remain)
    BY <2>1, ChartGoes DEF CpuInv, IdleGoes
  <2>. QED
    BY <2>2, ChartStays DEF IdleGoes
<1>4. \A t \in Tasks : Ran(gantt', time', t) = Now(t)
  <2>1. \A t : Ran(gantt', time', t) = IF t = -1 THEN Now(t) \cup {time + 1} ELSE Now(t)
    BY <1>1, NowGoes DEF IdleGoes
  <2>. QED
    BY <1>1, <2>1, Zenon
<1>5. QueueInv'
  <2>1. \A k \in 1..Len(queue) : queue[k] \in Tasks
    BY <1>1 DEF CpuTypes
  <2>2. \A k \in 1..Len(queue) : arr[queue[k]] <= time + 1
    <3>1. \A k \in 1..Len(queue) : arr[queue[k]] \in Int /\ arr[queue[k]] <= time
      BY <1>1, <2>1 DEF CpuTypes, CpuInv, QueueInv
    <3>. QED
      BY <1>1, <3>1
  <2>. QED
    BY <2>2 DEF CpuInv, QueueInv, IdleGoes, InputsStay
<1>6. RunInv'
  BY DEF CpuInv, RunInv, IdleGoes
<1>7. ReportInv'
  <2>1. ASSUME NEW t \in Tasks PROVE Began(t)' /\ Ended(t)'
    <3>1. Began(t) /\ Ended(t) /\ start[t] \in Int /\ finish[t] \in Int
      BY <1>1 DEF CpuInv, ReportInv, CpuTypes
    <3>2. Now(t)' = Now(t)
      BY <1>4 DEF Now
    <3>3. Began(t)'
      BY <1>1, <3>1, <3>2 DEF Began, IdleGoes, InputsStay
    <3>4. Ended(t)'
      BY <1>1, <3>1, <3>2 DEF Ended, IdleGoes, InputsStay
    <3>. QED
      BY <3>3, <3>4
  <2>. QED
    BY <2>1 DEF ReportInv
<1>8. CountInv'
  BY DEF CpuInv, CountInv, Reported, IdleGoes, InputsStay
<1>9. PayInv'
  <2>1. SUFFICES ASSUME policy = "srtf", \A t \in Tasks : burst[t] > 0 /\ burst[t] <= MaxTime
                 PROVE  /\ \A t \in Tasks : ~(finish'[t] < 0 /\ remain'[t] = 0)
                        /\ Sum(Charges', Tasks) + ToPay(time, remain)' = ToPay(0, burst)'
    BY DEF PayInv, IdleGoes, InputsStay
  <2>2. /\ \A t \in Tasks : ~(finish[t] < 0 /\ remain[t] = 0)
        /\ Sum(Charges, Tasks) + ToPay(time, remain) = ToPay(0, burst)
    BY <2>1 DEF CpuInv, PayInv, IdleGoes
  <2>3. Charges' = Charges
    <3>1. \A t \in Tasks : Charge(t)' = Charge(t)
      BY <1>1, <2>2 DEF Charge, IdleGoes, CpuTypes
    <3>. QED
      BY <3>1 DEF Charges
  <2>4. ToPay(time, remain) = ToPay(time + 1, remain)
    <3>1. remain \in Rests
      BY <2>1, RemainIs DEF CpuInv
    <3>2. Come(time, remain) = {}
      BY DEF Come, Open, IdleGoes, Waits
    <3>3. time \in 0..MaxTime /\ time < MaxTime
      BY <1>1 DEF IdleGoes
    <3>4. \A t \in Tasks : arr[t] \in Int
      BY <1>1 DEF CpuTypes
    <3>. QED
      BY <3>1, <3>2, <3>3, <3>4, ToPayGoes
  <2>5. ToPay(time, remain)' = ToPay(time + 1, remain) /\ ToPay(0, burst)' = ToPay(0, burst)
    BY SamePlan DEF ToPay, IdleGoes, InputsStay
  <2>. QED
    BY <2>2, <2>3, <2>4, <2>5 DEF IdleGoes
<1>. QED
  BY <1>2, <1>3, <1>5, <1>6, <1>7, <1>8, <1>9 DEF CpuInv

DispatchGoes(t, d) ==
    /\ pc = "pick" /\ pc' \in {"run", "exited"}
    /\ t \in Tasks /\ arr[t] <= time /\ burst[t] > 0
    /\ d \in Nat /\ d <= remain[t] /\ (remain[t] > 0 => d > 0)
    /\ policy # "rr" => remain[t] > 0
    /\ policy = "srtf" => d = 1 /\ \A u \in Waits : remain[t] <= remain[u]
    /\ cur' = t /\ left' = d
    /\ start' = [start EXCEPT ![t] = IF @ < 0 /\ cur # t THEN time ELSE @]
    /\ time' = time /\ gantt' = gantt /\ remain' = remain /\ finish' = finish
    /\ finished' = finished /\ InputsStay /\ QueueKept

LEMMA DispatchKeeps ==
  ASSUME CpuInv, NEW t, NEW d, DispatchGoes(t, d)
  PROVE  CpuInv'
<1>1. CpuTypes /\ time \in Nat /\ -1 \notin Tasks /\ t \in Tasks /\ pc = "pick"
  BY TasksAre DEF CpuInv, CpuTypes, DispatchGoes
<1>2. \A u \in Tasks : start'[u] = IF u = t /\ start[t] < 0 /\ cur # t THEN time ELSE start[u]
  BY <1>1 DEF CpuTypes, DispatchGoes
<1>3. CpuTypes'
  <2>1. start' \in [Tasks -> Int]
    BY <1>1 DEF CpuTypes, DispatchGoes
  <2>. QED
    BY <2>1 DEF CpuInv, CpuTypes, DispatchGoes, InputsStay, QueueKept
<1>4. Chart(gantt, time, remain)'
  BY ChartStays DEF CpuInv, DispatchGoes
<1>5. QueueInv'
  BY DEF DispatchGoes, QueueKept
<1>6. \A u \in Tasks : /\ Began(u) /\ Ended(u) /\ start[u] \in Int /\ finish[u] \in Int
                       /\ Now(u)' = Now(u) /\ arr[u] \in Int /\ remain[u] \in Nat
  BY <1>1 DEF CpuInv, ReportInv, CpuTypes, Now, DispatchGoes
<1>7. cur # -1 => start[cur] >= 0
  BY DEF CpuInv, RunInv
<1>8. start'[t] >= 0
  BY <1>1, <1>2, <1>6, <1>7
<1>9. RunInv'
  <2>1. policy # "rr" => finish[t] < 0 /\ d > 0
    BY <1>1, <1>6 DEF Ended, DispatchGoes
  <2>2. Waits' = Waits
    BY DEF Waits, DispatchGoes, InputsStay
  <2>. QED
    BY <1>1, <1>8, <2>1, <2>2 DEF RunInv, DispatchGoes, InputsStay
<1>10. ReportInv'
  <2>1. ASSUME NEW u \in Tasks PROVE Began(u)' /\ Ended(u)'
    <3>1. CASE start[u] >= 0
      <4>1. start'[u] = start[u]
        BY <1>1, <1>2, <1>6, <3>1
      <4>2. start[u] + 1 \in Now(u)
        BY <1>1, <1>6, <3>1 DEF Began
      <4>3. Began(u)'
        BY <1>6, <3>1, <4>1, <4>2 DEF Began, DispatchGoes, InputsStay
      <4>4. Ended(u)'
        BY <1>6, <4>1 DEF Ended, DispatchGoes, InputsStay
      <4>. QED
        BY <4>3, <4>4
    <3>2. CASE start[u] < 0
      <4>1. Now(u) = {} /\ finish[u] < 0
        BY <1>6, <3>2 DEF Began, Ended
      <4>2. Ended(u)'
        BY <1>6, <4>1 DEF Ended, DispatchGoes
      <4>3. CASE u = t
        <5>1. start'[t] = time
          BY <1>1, <1>2, <1>6, <1>7, <3>2, <4>3
        <5>2. d > 0
          <6>1. burst[t] - remain[t] = Cardinality(Now(t)) /\ burst[t] \in Nat /\ remain[t] \in Nat
            BY <1>1, RemainIs DEF CpuInv
          <6>2. Cardinality(Now(t)) = 0
            BY <4>1, <4>3, FS_EmptySet
          <6>3. remain[t] > 0
            BY <6>1, <6>2 DEF DispatchGoes
          <6>. QED
            BY <6>3 DEF DispatchGoes
        <5>. QED
          BY <1>1, <1>6, <4>1, <4>2, <4>3, <5>1, <5>2 DEF Began, DispatchGoes, InputsStay
      <4>4. CASE u # t
        <5>1. start'[u] = start[u]
          BY <1>2, <4>4
        <5>2. Began(u)'
          BY <1>6, <3>2, <4>1, <5>1 DEF Began
        <5>. QED
          BY <4>2, <5>2
      <4>. QED
        BY <4>3, <4>4
    <3>. QED
      BY <1>6, <3>1, <3>2
  <2>. QED
    BY <2>1 DEF ReportInv
<1>11. CountInv'
  BY DEF CpuInv, CountInv, Reported, DispatchGoes, InputsStay
<1>12. PayInv'
  <2>1. Charges' = Charges
    <3>1. \A u \in Tasks : Charge(u)' = Charge(u)
      BY DEF Charge, DispatchGoes
    <3>. QED
      BY <3>1 DEF Charges
  <2>2. ToPay(time, remain)' = ToPay(time, remain) /\ ToPay(0, burst)' = ToPay(0, burst)
    BY SamePlan DEF ToPay, DispatchGoes, InputsStay
  <2>. QED
    BY <1>1, <2>1, <2>2 DEF CpuInv, PayInv, DispatchGoes, InputsStay
<1>. QED
  BY <1>3, <1>4, <1>5, <1>9, <1>10, <1>11, <1>12 DEF CpuInv

TickGoes ==
    /\ pc = "run" /\ pc' \in {"run", "exited"} /\ left > 0 /\ left' = left - 1
    /\ time < MaxTime /\ time' = time + 1 /\ gantt' = Append(gantt, cur)
    /\ remain' = [remain EXCEPT ![cur] = @ - 1]
    /\ start' = start /\ finish' = finish /\ finished' = finished /\ cur' = cur
    /\ InputsStay /\ QueueKept

LEMMA TickKeeps ==
  ASSUME CpuInv, TickGoes
  PROVE  CpuInv'
<1>1. /\ CpuTypes /\ time \in Nat /\ MaxTime \in Nat /\ -1 \notin Tasks /\ left \in Nat
      /\ cur \in Tasks /\ left > 0 /\ left <= remain[cur] /\ arr[cur] <= time
      /\ burst[cur] > 0 /\ start[cur] >= 0
  BY TasksAre DEF CpuInv, CpuTypes, RunInv, TickGoes
<1>2. \A u \in Tasks : remain'[u] = IF u = cur THEN remain[cur] - 1 ELSE remain[u]
  BY <1>1 DEF CpuTypes, TickGoes
<1>3. remain[cur] \in Nat /\ remain[cur] > 0 /\ cur \in Waits
  BY <1>1 DEF CpuTypes, Waits
<1>4. CpuTypes'
  <2>1. gantt' \in Seq(Tasks \cup {-1}) /\ Len(gantt') = time'
    BY DEF CpuInv, CpuTypes, TickGoes
  <2>2. time' \in Nat /\ time' <= MaxTime /\ left' \in Nat
    BY <1>1 DEF TickGoes
  <2>3. remain' \in [Tasks -> Nat]
    BY <1>1, <1>3 DEF CpuTypes, TickGoes
  <2>. QED
    BY <2>1, <2>2, <2>3 DEF CpuInv, CpuTypes, TickGoes, InputsStay, QueueKept
<1>5. Chart(gantt, time, remain)'
  <2>1. PICK rest : rest = remain'
    OBVIOUS
  <2>2. \A t \in Tasks : rest[t] = IF t = cur THEN remain[t] - 1 ELSE remain[t]
    BY <1>2, <2>1
  <2>3. IF Waits = {} THEN cur = -1 ELSE cur \in Waits
    BY <1>3
  <2>4. Chart(gantt, time, remain)
    BY DEF CpuInv
  <2>5. Chart(Append(gantt, cur), time + 1, rest)
    BY <1>1, <2>2, <2>3, <2>4, ChartGoes
  <2>. QED
    BY <2>1, <2>5, ChartStays DEF TickGoes
<1>6. /\ \A t \in Tasks : Ran(gantt', time', t) = IF t = cur THEN Now(t) \cup {time + 1} ELSE Now(t)
      /\ gantt'[time'] = cur /\ \A t : \A k \in Now(t) : k <= time /\ k \in Nat
  BY <1>1, NowGoes DEF TickGoes
<1>7. \A u \in Tasks : /\ Began(u) /\ Ended(u) /\ start[u] \in Int /\ finish[u] \in Int
                       /\ arr[u] \in Int /\ remain[u] \in Nat
  BY <1>1 DEF CpuInv, ReportInv, CpuTypes
<1>8. finish[cur] < 0
  BY <1>1, <1>3, <1>7 DEF Ended
<1>9. QueueInv'
  BY DEF TickGoes, QueueKept
<1>10. RunInv'
  <2>1. policy = "srtf" => left = 1
    BY <1>1 DEF CpuInv, RunInv, TickGoes
  <2>2. left - 1 <= remain'[cur] /\ arr[cur] <= time + 1 /\ time + 1 > 0
    BY <1>1, <1>2, <1>3, <1>7
  <2>3. policy = "srtf" => ~(left' > 0)
    BY <2>1 DEF TickGoes
  <2>. QED
    BY <1>1, <1>6, <1>8, <2>2, <2>3 DEF RunInv, TickGoes, InputsStay
<1>11. ReportInv'
  <2>1. ASSUME NEW u \in Tasks PROVE Began(u)' /\ Ended(u)'
    <3>1. CASE u = cur
      <4>1. Now(u)' = Now(u) \cup {time + 1}
        BY <1>6, <3>1 DEF Now
      <4>2. Ended(u)'
        <5>1. finish'[u] \in Int /\ finish'[u] < 0
          BY <1>7, <1>8, <3>1 DEF TickGoes
        <5>. QED
          BY <5>1 DEF Ended
      <4>3. /\ arr[u] <= start[u] /\ start[u] <= time /\ \A k \in Now(u) : k > start[u]
            /\ start[u] + 1 \in Now(u) \/ start[u] = time
        BY <1>1, <1>7, <3>1 DEF Began
      <4>4. Began(u)'
        <5>1. start[u] <= time + 1
          BY <1>1, <1>7, <4>3
        <5>2. \A k \in Now(u) \cup {time + 1} : k > start[u]
          BY <1>1, <1>7, <4>3
        <5>3. start[u] + 1 \in Now(u) \cup {time + 1}
          BY <4>3
        <5>. QED
          BY <1>1, <1>7, <3>1, <4>1, <4>3, <5>1, <5>2, <5>3 DEF Began, TickGoes, InputsStay
      <4>. QED
        BY <4>2, <4>4
    <3>2. CASE u # cur
      <4>1. Now(u)' = Now(u) /\ remain'[u] = remain[u]
        BY <1>2, <1>6, <3>2 DEF Now
      <4>2. Began(u)'
        BY <1>1, <1>7, <3>2, <4>1 DEF Began, TickGoes, InputsStay
      <4>3. Ended(u)'
        BY <1>1, <1>7, <4>1 DEF Ended, TickGoes, InputsStay
      <4>. QED
        BY <4>2, <4>3
    <3>. QED
      BY <3>1, <3>2
  <2>. QED
    BY <2>1 DEF ReportInv
<1>12. CountInv'
  BY DEF CpuInv, CountInv, Reported, TickGoes, InputsStay
<1>13. PayInv'
  <2>1. SUFFICES ASSUME policy = "srtf", \A t \in Tasks : burst[t] > 0 /\ burst[t] <= MaxTime
                 PROVE  /\ \A t \in Tasks : finish[t] < 0 /\ remain'[t] = 0 => cur = t /\ left' = 0
                        /\ Sum(Charges', Tasks) + ToPay(time, remain)' = ToPay(0, burst)'
    BY DEF PayInv, TickGoes, InputsStay
  <2>2. /\ \A t \in Tasks : finish[t] < 0 /\ remain[t] = 0 => cur = t
        /\ Sum(Charges, Tasks) + ToPay(time, remain) = ToPay(0, burst)
    BY <2>1 DEF CpuInv, PayInv
  <2>3. left = 1 /\ left' = 0 /\ \A t \in Waits : remain[cur] <= remain[t]
    BY <1>1, <2>1 DEF CpuInv, RunInv, TickGoes
  <2>4. \A t \in Tasks : finish[t] < 0 /\ remain'[t] = 0 => cur = t
    BY <1>2, <2>2
  <2>5. PICK e, f, h : e = Ends(time, remain, cur) /\ f = Charges /\ h = Charges'
    OBVIOUS
  <2>6. e \in Int
    BY <1>1, <2>5 DEF Ends
  <2>7. \A t \in Tasks : f[t] \in Int /\ h[t] = IF t = cur THEN f[t] + e ELSE f[t]
    <3>1. ASSUME NEW t \in Tasks PROVE f[t] \in Int /\ h[t] = IF t = cur THEN f[t] + e ELSE f[t]
      <4>1. f[t] = Charge(t) /\ h[t] = Charge(t)'
        BY <2>5 DEF Charges
      <4>2. Charge(t) \in Int
        BY <1>1, <1>7 DEF Charge
      <4>3. CASE t = cur
        <5>1. Charge(t) = 0 /\ Charge(t)' = IF remain[cur] - 1 = 0 THEN time + 1 ELSE 0
          BY <1>1, <1>2, <1>3, <1>7, <1>8, <4>3 DEF Charge, TickGoes
        <5>2. e = IF remain[cur] - 1 = 0 THEN time + 1 ELSE 0
          BY <1>3, <2>5 DEF Ends
        <5>. QED
          BY <2>6, <4>1, <4>3, <5>1, <5>2
      <4>4. CASE t # cur
        <5>1. Charge(t)' = Charge(t)
          BY <1>2, <1>7, <2>2, <4>4 DEF Charge, TickGoes
        <5>. QED
          BY <4>1, <4>2, <4>4, <5>1
      <4>. QED
        BY <4>3, <4>4
    <3>. QED
      BY <3>1
  <2>8. Sum(h, Tasks) = Sum(f, Tasks) + e
    <3>1. Changed(h, f, cur, e, Tasks)
      BY <2>7 DEF Changed
    <3>. QED
      BY <1>1, <2>6, <3>1, TasksAre, SumChanges
  <2>9. PICK r : r = Less(remain, cur)
    OBVIOUS
  <2>10. remain' = r
    BY <2>9 DEF TickGoes, Less
  <2>11. remain \in Rests /\ r \in Rests
    <3>1. remain \in Rests
      BY <2>1, RemainIs DEF CpuInv
    <3>. QED
      BY <1>1, <1>3, <2>9, <3>1, RestsAre
  <2>12. time \in 0..MaxTime - 1 /\ time \in 0..MaxTime /\ time + 1 \in 0..MaxTime
    BY <1>1 DEF TickGoes
  <2>13. \A t \in Tasks : arr[t] \in Int
    BY <1>7
  <2>14. ToPay(time, remain) = ToPay(time + 1, r) + e
    <3>1. Come(time, remain) = Waits
      BY DEF Come, Open, Waits
    <3>. QED
      BY <1>3, <2>3, <2>5, <2>9, <2>11, <2>12, <2>13, <3>1, ShortestRest
  <2>15. ToPay(time, remain)' = ToPay(time + 1, r) /\ ToPay(0, burst)' = ToPay(0, burst)
    BY <2>10, SamePlan DEF ToPay, TickGoes, InputsStay
  <2>16. Sum(f, Tasks) \in Int /\ ToPay(time + 1, r) \in Int
    <3>1. ToPay(time + 1, r) \in Int
      BY <2>11, <2>12, <2>13, ToPayIs
    <3>2. Sum(f, Tasks) \in Int
      <4>1. PICK zero : zero = [t \in Tasks |-> 0]
        OBVIOUS
      <4>2. \A t \in Tasks : f[t] \in Int /\ zero[t] \in Int /\ f[t] = f[t] + zero[t]
        BY <2>7, <4>1
      <4>. QED
        BY <4>2, TasksAre, SumAdds
    <3>. QED
      BY <3>1, <3>2
  <2>17. PICK a, b, c : a = Sum(f, Tasks) /\ b = ToPay(time + 1, r) /\ c = ToPay(0, burst)
    OBVIOUS
  <2>18. a \in Int /\ b \in Int /\ a + (b + e) = c
    BY <2>2, <2>5, <2>14, <2>16, <2>17
  <2>19. (a + e) + b = c
    BY <2>6, <2>18
  <2>. QED
    BY <2>3, <2>4, <2>5, <2>8, <2>15, <2>17, <2>19
<1>. QED
  BY <1>4, <1>5, <1>9, <1>10, <1>11, <1>12, <1>13 DEF CpuInv

FinishGoes ==
    /\ pc = "run" /\ pc' = "pick" /\ left = 0 /\ remain[cur] = 0
    /\ finish' = [finish EXCEPT ![cur] = time] /\ finished' = finished + 1
    /\ cur' = -1 /\ left' = left /\ time' = time /\ gantt' = gantt
    /\ remain' = remain /\ start' = start /\ InputsStay
    /\ queue' = queue /\ inq' = inq

LEMMA FinishKeeps ==
  ASSUME CpuInv, FinishGoes
  PROVE  CpuInv'
<1>1. /\ CpuTypes /\ time \in Nat /\ -1 \notin Tasks
      /\ cur \in Tasks /\ arr[cur] <= time /\ burst[cur] > 0 /\ start[cur] >= 0
  BY TasksAre DEF CpuInv, CpuTypes, RunInv, FinishGoes
<1>2. \A u \in Tasks : finish'[u] = IF u = cur THEN time ELSE finish[u]
  BY <1>1 DEF CpuTypes, FinishGoes
<1>3. CpuTypes'
  <2>1. finish' \in [Tasks -> Int] /\ finished' \in Nat
    BY <1>1 DEF CpuTypes, FinishGoes
  <2>. QED
    BY <2>1 DEF CpuInv, CpuTypes, FinishGoes, InputsStay
<1>4. Chart(gantt, time, remain)'
  BY ChartStays DEF CpuInv, FinishGoes
<1>5. QueueInv' /\ RunInv'
  BY DEF CpuInv, QueueInv, RunInv, FinishGoes, InputsStay
<1>6. \A u \in Tasks : /\ Began(u) /\ Ended(u) /\ start[u] \in Int /\ finish[u] \in Int
                       /\ Now(u)' = Now(u) /\ arr[u] \in Int /\ remain[u] \in Nat
  BY <1>1 DEF CpuInv, ReportInv, CpuTypes, Now, FinishGoes
<1>7. policy # "rr" => finish[cur] < 0 /\ time > 0 /\ gantt[time] = cur
  BY DEF CpuInv, RunInv, FinishGoes
<1>8. ReportInv'
  <2>1. ASSUME NEW u \in Tasks PROVE Began(u)' /\ Ended(u)'
    <3>1. start[u] >= 0 => start[u] + 1 \in Now(u) \/ (cur = u /\ left > 0)
      BY <1>6 DEF Began
    <3>2. start[u] >= 0 => start[u] + 1 \in Now(u)
      BY <3>1 DEF FinishGoes
    <3>3. Began(u)'
      BY <1>6, <3>2 DEF Began, FinishGoes, InputsStay
    <3>4. CASE u = cur
      <4>1. policy # "rr" => time \in Now(u)
        BY <1>1, <1>7, <3>4 DEF Now, Ran
      <4>2. \A k \in Now(u) : k <= time
        BY <1>1 DEF Now, Ran
      <4>3. finish'[u] = time /\ start[u] + 1 \in Now(u)
        BY <1>1, <1>2, <3>2, <3>4
      <4>. QED
        BY <1>1, <1>6, <3>3, <3>4, <4>1, <4>2, <4>3 DEF Ended, FinishGoes, InputsStay
    <3>5. CASE u # cur
      BY <1>2, <1>6, <3>3, <3>5 DEF Ended, FinishGoes, InputsStay
    <3>. QED
      BY <3>4, <3>5
  <2>. QED
    BY <2>1 DEF ReportInv
<1>9. CountInv'
  <2>1. ASSUME policy # "rr" PROVE finished + 1 = Cardinality(Reported')
    <3>1. finish[cur] < 0
      BY <1>7, <2>1
    <3>2. Reported' = Reported \cup {cur} /\ cur \notin Reported
      <4>1. finish[cur] \in Int /\ ~(finish[cur] >= 0) /\ finish'[cur] >= 0
        BY <1>1, <1>2, <1>6, <3>1
      <4>2. \A u \in Tasks : u # cur => finish'[u] = finish[u]
        BY <1>2
      <4>. QED
        BY <1>1, <4>1, <4>2 DEF Reported
    <3>3. IsFiniteSet(Reported)
      BY TasksAre, FS_Subset DEF Reported
    <3>4. Cardinality(Reported \cup {cur}) = Cardinality(Reported) + 1
      BY <3>2, <3>3, FS_AddElement
    <3>. QED
      BY <2>1, <3>2, <3>4 DEF CpuInv, CountInv
  <2>. QED
    BY <2>1 DEF CountInv, FinishGoes, InputsStay
<1>10. PayInv'
  <2>1. SUFFICES ASSUME policy = "srtf", \A t \in Tasks : burst[t] > 0 /\ burst[t] <= MaxTime
                 PROVE  /\ \A t \in Tasks : ~(finish'[t] < 0 /\ remain[t] = 0)
                        /\ Sum(Charges', Tasks) + ToPay(time, remain)' = ToPay(0, burst)'
    BY DEF PayInv, FinishGoes, InputsStay
  <2>2. /\ \A t \in Tasks : finish[t] < 0 /\ remain[t] = 0 => cur = t
        /\ Sum(Charges, Tasks) + ToPay(time, remain) = ToPay(0, burst)
    BY <2>1 DEF CpuInv, PayInv
  <2>3. \A t \in Tasks : ~(finish'[t] < 0 /\ remain[t] = 0)
    BY <1>1, <1>2, <2>2
  <2>4. Charges' = Charges
    <3>1. ASSUME NEW t \in Tasks PROVE Charge(t)' = Charge(t)
      <4>1. CASE t = cur
        <5>1. ~(finish[t] >= 0) /\ finish'[t] = time /\ time >= 0
          BY <1>1, <1>2, <1>6, <1>7, <2>1, <4>1
        <5>. QED
          BY <4>1, <5>1 DEF Charge, FinishGoes
      <4>2. CASE t # cur
        BY <1>2, <4>2 DEF Charge, FinishGoes
      <4>. QED
        BY <4>1, <4>2
    <3>. QED
      BY <3>1 DEF Charges
  <2>5. ToPay(time, remain)' = ToPay(time, remain) /\ ToPay(0, burst)' = ToPay(0, burst)
    BY SamePlan DEF ToPay, FinishGoes, InputsStay
  <2>. QED
    BY <2>2, <2>3, <2>4, <2>5
<1>. QED
  BY <1>3, <1>4, <1>5, <1>8, <1>9, <1>10 DEF CpuInv

\* A task is put back, or the loop is over.
RestGoes ==
    /\ \/ pc = "pick" /\ pc' = "done" /\ finished >= Cardinality(Tasks)
       \/ pc = "run" /\ pc' \in {"pick", "exited"} /\ left = 0 /\ remain[cur] > 0
    /\ cur' \in {cur, -1} /\ left' = left /\ time' = time /\ gantt' = gantt
    /\ remain' = remain /\ start' = start /\ finish' = finish /\ finished' = finished
    /\ InputsStay /\ QueueKept

LEMMA RestKeeps ==
  ASSUME CpuInv, RestGoes
  PROVE  CpuInv'
<1>1. CpuTypes /\ time \in Nat /\ left \in Nat /\ cur \in Tasks \cup {-1} /\ -1 \notin Tasks
  BY TasksAre DEF CpuInv, CpuTypes
<1>2. CpuTypes'
  BY DEF CpuInv, CpuTypes, RestGoes, InputsStay, QueueKept
<1>3. Chart(gantt, time, remain)'
  BY ChartStays DEF CpuInv, RestGoes
<1>4. QueueInv'
  BY DEF RestGoes, QueueKept
<1>5. RunInv'
  BY DEF CpuInv, RunInv, RestGoes
<1>6. ReportInv'
  <2>1. ASSUME NEW u \in Tasks PROVE Began(u)' /\ Ended(u)'
    <3>1. Began(u) /\ Ended(u) /\ Now(u)' = Now(u)
      BY DEF CpuInv, ReportInv, Now, RestGoes
    <3>2. ~(pc \in {"run", "exited"} /\ left > 0)
      BY <1>1 DEF RestGoes
    <3>3. Began(u)'
      BY <3>1, <3>2 DEF Began, RestGoes, InputsStay
    <3>4. Ended(u)'
      BY <3>1 DEF Ended, RestGoes, InputsStay
    <3>. QED
      BY <3>3, <3>4
  <2>. QED
    BY <2>1 DEF ReportInv
<1>7. CountInv'
  BY DEF CpuInv, CountInv, Reported, RestGoes, InputsStay
<1>8. PayInv'
  <2>1. Charges' = Charges
    <3>1. \A u \in Tasks : Charge(u)' = Charge(u)
      BY DEF Charge, RestGoes
    <3>. QED
      BY <3>1 DEF Charges
  <2>2. ToPay(time, remain)' = ToPay(time, remain) /\ ToPay(0, burst)' = ToPay(0, burst)
    BY SamePlan DEF ToPay, RestGoes, InputsStay
  <2>3. SUFFICES ASSUME policy = "srtf", \A t \in Tasks : burst[t] > 0 /\ burst[t] <= MaxTime,
                        NEW t \in Tasks, finish[t] < 0, remain[t] = 0
                 PROVE  FALSE
    BY <2>1, <2>2 DEF CpuInv, PayInv, RestGoes, InputsStay
  <2>4. pc \in {"run", "exited"} /\ cur = t
    BY <2>3 DEF CpuInv, PayInv
  <2>. QED
    BY <2>3, <2>4 DEF RestGoes
<1>. QED
  BY <1>2, <1>3, <1>4, <1>5, <1>6, <1>7, <1>8 DEF CpuInv

-----------------------------------------------------------------------------
(* Each step of the scheduler is one of those.                                *)

LEMMA QueueStays ==
  ASSUME CpuInv, InputsStay, queue' = queue, inq' = inq, time' = time
  PROVE  QueueKept
BY DEF CpuInv, CpuTypes, QueueInv, InputsStay, QueueKept

\* What may be in the queue by the time e.
Fits(q, e) == \A k \in 1..Len(q) : arr[q[k]] <= e /\ burst[q[k]] > 0
Holds(q, S) == \A t \in S : \E k \in 1..Len(q) : q[k] = t

LEMMA QueueGrows ==
  ASSUME CpuInv, NEW S \in SUBSET Tasks, NEW e \in Int, time <= e,
         \A t \in S : arr[t] <= e /\ burst[t] > 0,
         NEW q, q = queue \o Cpu!Joining(S)
  PROVE  q \in Seq(Tasks) /\ Fits(q, e) /\ Holds(q, inq \cup S)
<1>1. CpuTypes /\ QueueInv
  BY DEF CpuInv
<1>2. PICK new : new = Cpu!Joining(S)
  OBVIOUS
<1>3. /\ new \in Seq(Tasks) /\ \A k \in 1..Len(new) : new[k] \in S
      /\ \A t \in S : t \in inq \/ \E k \in 1..Len(new) : new[k] = t
  BY <1>1, <1>2, JoiningIs
<1>4. queue \in Seq(Tasks) /\ time \in Int /\ \A t \in Tasks : arr[t] \in Int
  BY <1>1 DEF CpuTypes
<1>5. q = queue \o new
  BY <1>2
<1>6. /\ q \in Seq(Tasks) /\ Len(q) = Len(queue) + Len(new)
      /\ Len(queue) \in Nat /\ Len(new) \in Nat
      /\ \A k \in 1..Len(queue) : q[k] = queue[k]
      /\ \A k \in 1..Len(new) : q[Len(queue) + k] = new[k]
  BY <1>3, <1>4, <1>5
<1>7. ASSUME NEW k \in 1..Len(q) PROVE arr[q[k]] <= e /\ burst[q[k]] > 0
  <2>1. CASE k <= Len(queue)
    <3>1. q[k] = queue[k] /\ k \in 1..Len(queue)
      BY <1>6, <2>1
    <3>2. arr[q[k]] <= time /\ burst[q[k]] > 0 /\ q[k] \in Tasks
      BY <1>1, <1>4, <3>1 DEF QueueInv
    <3>3. arr[q[k]] \in Int
      BY <1>4, <3>2
    <3>. QED
      BY <1>4, <3>2, <3>3
  <2>2. CASE k > Len(queue)
    <3>1. PICK j : j = k - Len(queue)
      OBVIOUS
    <3>2. j \in 1..Len(new) /\ k = Len(queue) + j
      BY <1>6, <2>2, <3>1
    <3>. QED
      BY <1>3, <1>6, <3>2
  <2>. QED
    BY <1>6, <2>1, <2>2
<1>8. ASSUME NEW t \in inq \cup S PROVE \E k \in 1..Len(q) : q[k] = t
  <2>1. CASE t \in inq
    <3>1. PICK k \in 1..Len(queue) : queue[k] = t
      BY <1>1, <2>1 DEF QueueInv
    <3>2. k \in 1..Len(q)
      BY <1>6
    <3>. QED
      BY <1>6, <3>1, <3>2
  <2>2. CASE t \notin inq
    <3>1. PICK k \in 1..Len(new) : new[k] = t
      BY <1>3, <2>2
    <3>2. Len(queue) + k \in 1..Len(q)
      BY <1>6
    <3>. QED
      BY <1>6, <3>1, <3>2
  <2>. QED
    BY <2>1, <2>2
<1>. QED
  BY <1>6, <1>7, <1>8 DEF Fits, Holds

LEMMA PickGoes ==
  ASSUME CpuInv, Cpu!Pick
  PROVE  IdleGoes \/ \E t, d : DispatchGoes(t, d)
<1>1. /\ CpuTypes /\ policy # "rr" /\ pc = "pick"
      /\ queue' = queue /\ inq' = inq
  BY DEF CpuInv, Cpu!Pick, Cpu!Looping, Cpu!ready
<1>2. CASE Waits = {}
  <2>1. Cpu!Idle /\ pc' = pc
    BY <1>2, WaitsIs DEF Cpu!Pick
  <2>. QED
    BY <1>1, <1>2, <2>1 DEF Cpu!Idle, Cpu!input, Cpu!report, IdleGoes, InputsStay
<1>3. CASE Waits # {}
  <2>1. PICK t, d : t = Cpu!Best /\ d = IF policy = "srtf" THEN 1 ELSE remain[t]
    OBVIOUS
  <2>2. Cpu!Dispatch(t, d) /\ pc' = "run"
    BY <1>3, <2>1, WaitsIs DEF Cpu!Pick
  <2>3. t \in Waits /\ (policy = "srtf" => \A u \in Waits : remain[t] <= remain[u])
    BY <1>1, <1>3, <2>1, BestIs
  <2>4. t \in Tasks /\ arr[t] <= time /\ remain[t] > 0 /\ remain[t] \in Nat /\ burst[t] > 0
    <3>1. t \in Tasks /\ arr[t] <= time /\ remain[t] > 0
      BY <2>3 DEF Waits
    <3>2. remain[t] \in Nat /\ burst[t] \in Nat /\ remain[t] <= burst[t]
      BY <1>1, <3>1, RemainIs DEF CpuInv
    <3>. QED
      BY <3>1, <3>2
  <2>5. d \in Nat /\ d <= remain[t] /\ d > 0 /\ (policy = "srtf" => d = 1)
    BY <2>1, <2>4
  <2>6. /\ cur' = t /\ left' = d /\ InputsStay
        /\ start' = [start EXCEPT ![t] = IF @ < 0 /\ cur # t THEN time ELSE @]
        /\ time' = time /\ gantt' = gantt /\ remain' = remain /\ finish' = finish
        /\ finished' = finished
    BY <2>2 DEF Cpu!Dispatch, Cpu!input, InputsStay
  <2>7. QueueKept
    BY <1>1, <2>6, QueueStays
  <2>8. DispatchGoes(t, d)
    BY <1>1, <2>2, <2>3, <2>4, <2>5, <2>6, <2>7 DEF DispatchGoes
  <2>. QED
    BY <2>8
<1>. QED
  BY <1>2, <1>3

LEMMA PickRRGoes ==
  ASSUME CpuInv, Cpu!PickRR
  PROVE  IdleGoes \/ \E t, d : DispatchGoes(t, d)
<1>1. CpuTypes /\ policy = "rr" /\ pc = "pick" /\ time \in Int /\ quantum \in Int /\ quantum > 0
  BY DEF CpuInv, CpuTypes, Cpu!PickRR, Cpu!Looping
<1>2. PICK q : q = queue \o Cpu!Joining(Waits)
  OBVIOUS
<1>3. \A t \in Tasks : remain[t] \in Nat /\ burst[t] \in Nat /\ remain[t] <= burst[t]
  BY <1>1, RemainIs DEF CpuInv
<1>4. q \in Seq(Tasks) /\ Fits(q, time) /\ Holds(q, inq \cup Waits)
  <2>1. Waits \in SUBSET Tasks /\ \A t \in Waits : arr[t] <= time /\ remain[t] > 0
    BY DEF Waits
  <2>2. \A t \in Waits : arr[t] <= time /\ burst[t] > 0
    BY <1>3, <2>1
  <2>3. time <= time
    BY <1>1
  <2>. QED
    BY <1>1, <1>2, <2>1, <2>2, <2>3, QueueGrows
<1>5. CASE q = <<>>
  <2>1. Waits = {}
    BY <1>4, <1>5 DEF Holds
  <2>2. Cpu!Idle /\ queue' = queue /\ inq' = inq /\ pc' = pc
    BY <1>2, <1>5, WaitsIs DEF Cpu!PickRR, Cpu!ready
  <2>. QED
    BY <1>1, <2>1, <2>2 DEF Cpu!Idle, Cpu!input, Cpu!report, IdleGoes, InputsStay
<1>6. CASE q # <<>>
  <2>1. PICK t, d : t = Head(q) /\ d = IF remain[t] < quantum THEN remain[t] ELSE quantum
    OBVIOUS
  <2>2. /\ Cpu!Dispatch(t, d) /\ queue' = Tail(q) /\ inq' = (inq \cup Waits) \ {t}
        /\ pc' \in {"run", "exited"}
    BY <1>2, <1>6, <2>1, WaitsIs DEF Cpu!PickRR, Cpu!Ready
  <2>3. /\ cur' = t /\ left' = d /\ InputsStay
        /\ start' = [start EXCEPT ![t] = IF @ < 0 /\ cur # t THEN time ELSE @]
        /\ time' = time /\ gantt' = gantt /\ remain' = remain /\ finish' = finish
        /\ finished' = finished
    BY <2>2 DEF Cpu!Dispatch, Cpu!input, InputsStay
  <2>4. /\ Len(q) \in Nat /\ 1 \in 1..Len(q) /\ t = q[1] /\ t \in Tasks
        /\ Tail(q) \in Seq(Tasks) /\ Len(Tail(q)) = Len(q) - 1
        /\ \A k \in 1..Len(q) - 1 : Tail(q)[k] = q[k + 1]
    BY <1>4, <1>6, <2>1
  <2>5. arr[t] <= time /\ burst[t] > 0
    BY <1>4, <2>4 DEF Fits
  <2>6. d \in Nat /\ d <= remain[t] /\ (remain[t] > 0 => d > 0)
    BY <1>1, <1>3, <2>1, <2>4
  <2>7. QueueKept
    <3>1. queue' \in Seq(Tasks) /\ inq' \in SUBSET Tasks
      <4>1. inq \in SUBSET Tasks /\ Waits \in SUBSET Tasks
        BY <1>1 DEF CpuTypes, Waits
      <4>. QED
        BY <2>2, <2>4, <4>1
    <3>2. ASSUME NEW k \in 1..Len(queue') PROVE arr'[queue'[k]] <= time' /\ burst'[queue'[k]] > 0
      <4>1. k + 1 \in 1..Len(q) /\ queue'[k] = q[k + 1]
        BY <2>2, <2>4
      <4>. QED
        BY <1>4, <2>3, <4>1 DEF Fits, InputsStay
    <3>3. ASSUME NEW u \in inq' PROVE \E k \in 1..Len(queue') : queue'[k] = u
      <4>1. u \in inq \cup Waits /\ u # t
        BY <2>2
      <4>2. PICK k \in 1..Len(q) : q[k] = u
        BY <1>4, <4>1 DEF Holds
      <4>3. k # 1 /\ k \in Int
        BY <2>4, <4>1, <4>2
      <4>4. PICK j : j = k - 1
        OBVIOUS
      <4>5. j \in 1..Len(q) - 1 /\ j + 1 = k
        BY <2>4, <4>2, <4>3, <4>4
      <4>. QED
        BY <2>2, <2>4, <4>2, <4>5
    <3>. QED
      BY <3>1, <3>2, <3>3 DEF QueueKept, QueueInv
  <2>8. DispatchGoes(t, d)
    BY <1>1, <2>2, <2>3, <2>4, <2>5, <2>6, <2>7 DEF DispatchGoes
  <2>. QED
    BY <2>8
<1>. QED
  BY <1>5, <1>6

LEMMA TickIsGoes ==
  ASSUME CpuInv, Cpu!Tick
  PROVE  TickGoes
<1>1. /\ CpuTypes /\ time \in Int /\ pc = "run" /\ cur \in Tasks
      /\ \A t \in Tasks : remain[t] \in Nat /\ burst[t] \in Nat /\ remain[t] <= burst[t] /\ arr[t] \in Int
  <2>1. CpuTypes /\ RunInv /\ Chart(gantt, time, remain) /\ pc = "run"
    BY DEF CpuInv, Cpu!Tick
  <2>2. cur \in Tasks /\ time \in Int /\ \A t \in Tasks : arr[t] \in Int
    BY <2>1 DEF CpuTypes, RunInv
  <2>. QED
    BY <2>1, <2>2, RemainIs
<1>2. /\ pc' \in {"run", "exited"} /\ left > 0 /\ left' = left - 1
      /\ time < MaxTime /\ time' = time + 1 /\ gantt' = Append(gantt, cur)
      /\ remain' = [remain EXCEPT ![cur] = @ - 1]
      /\ start' = start /\ finish' = finish /\ finished' = finished /\ cur' = cur /\ InputsStay
  BY DEF Cpu!Tick, Cpu!input, InputsStay
<1>3. QueueKept
  <2>1. CASE policy # "rr"
    <3>1. queue' = queue /\ inq' = inq
      BY <2>1 DEF Cpu!Tick, Cpu!ready
    <3>2. \A k \in 1..Len(queue) : arr[queue[k]] <= time + 1
      <4>1. \A k \in 1..Len(queue) : queue[k] \in Tasks
        BY <1>1 DEF CpuTypes
      <4>2. \A k \in 1..Len(queue) : arr[queue[k]] \in Int /\ arr[queue[k]] <= time
        BY <1>1, <4>1 DEF CpuInv, QueueInv
      <4>. QED
        BY <1>1, <4>2
    <3>. QED
      BY <1>1, <1>2, <3>1, <3>2 DEF CpuInv, CpuTypes, QueueInv, InputsStay, QueueKept
  <2>2. CASE policy = "rr"
    <3>1. PICK S, q : /\ S = {t \in Tasks : remain'[t] > 0 /\ arr[t] <= time'}
                      /\ q = queue \o Cpu!Joining(S)
      OBVIOUS
    <3>2. queue' = q /\ inq' = inq \cup S
      BY <2>2, <3>1 DEF Cpu!Tick, Cpu!Ready, Tasks
    <3>3. ASSUME NEW t \in S PROVE arr[t] <= time + 1 /\ burst[t] > 0
      <4>1. t \in Tasks /\ remain'[t] > 0 /\ arr[t] <= time + 1
        BY <1>2, <3>1
      <4>2. remain'[t] = IF t = cur THEN remain[t] - 1 ELSE remain[t]
        BY <1>1, <1>2, <4>1 DEF CpuTypes
      <4>3. remain[t] \in Nat /\ burst[t] \in Nat /\ remain[t] <= burst[t]
        BY <1>1, <4>1
      <4>. QED
        BY <4>1, <4>2, <4>3
    <3>4. S \in SUBSET Tasks /\ time + 1 \in Int /\ time <= time + 1
      BY <1>1, <3>1
    <3>5. q \in Seq(Tasks) /\ Fits(q, time + 1) /\ Holds(q, inq \cup S)
      BY <3>1, <3>3, <3>4, QueueGrows
    <3>6. inq \cup S \in SUBSET Tasks
      BY <1>1, <3>4 DEF CpuTypes
    <3>. QED
      BY <1>2, <3>2, <3>5, <3>6 DEF Fits, Holds, QueueKept, QueueInv, InputsStay
  <2>. QED
    BY <2>1, <2>2
<1>. QED
  BY <1>1, <1>2, <1>3 DEF TickGoes

LEMMA PreemptGoes ==
  ASSUME CpuInv, Cpu!Preempt
  PROVE  RestGoes
<1>1. CpuTypes /\ pc = "run" /\ cur \in Tasks /\ arr[cur] <= time /\ burst[cur] > 0
  BY DEF CpuInv, RunInv, Cpu!Preempt
<1>2. /\ left = 0 /\ remain[cur] > 0 /\ pc' \in {"pick", "exited"}
      /\ left' = left /\ time' = time /\ gantt' = gantt
      /\ remain' = remain /\ start' = start /\ finish' = finish /\ finished' = finished
      /\ InputsStay
  BY DEF Cpu!Preempt, Cpu!input, Cpu!report, InputsStay
<1>3. CASE policy # "rr"
  <2>1. queue' = queue /\ inq' = inq /\ cur' = cur
    BY <1>3 DEF Cpu!Preempt, Cpu!ready
  <2>2. QueueKept
    BY <1>2, <2>1, QueueStays
  <2>. QED
    BY <1>1, <1>2, <2>1, <2>2 DEF RestGoes
<1>4. CASE policy = "rr"
  <2>1. queue' = Append(queue, cur) /\ inq' = inq \cup {cur} /\ cur' = -1
    BY <1>4 DEF Cpu!Preempt, Cpu!Ready
  <2>2. PICK q, c : q = queue' /\ c = cur
    OBVIOUS
  <2>3. /\ q \in Seq(Tasks) /\ Len(q) = Len(queue) + 1 /\ Len(queue) \in Nat
        /\ \A k \in 1..Len(queue) : q[k] = queue[k]
        /\ q[Len(queue) + 1] = c
    <3>1. queue \in Seq(Tasks) /\ c \in Tasks
      BY <1>1, <2>2 DEF CpuTypes
    <3>2. q = Append(queue, c)
      BY <2>1, <2>2
    <3>. QED
      BY <3>1, <3>2
  <2>4. QueueInv
    BY DEF CpuInv
  <2>5. ASSUME NEW k \in 1..Len(q) PROVE arr[q[k]] <= time /\ burst[q[k]] > 0
    <3>1. k \in 1..Len(queue) \/ k = Len(queue) + 1
      BY <2>3
    <3>. QED
      BY <1>1, <2>2, <2>3, <2>4, <3>1 DEF QueueInv
  <2>6. ASSUME NEW t \in inq \cup {c} PROVE \E k \in 1..Len(q) : q[k] = t
    <3>1. CASE t = c
      <4>1. Len(queue) + 1 \in 1..Len(q)
        BY <2>3
      <4>. QED
        BY <2>3, <3>1, <4>1
    <3>2. CASE t \in inq
      <4>1. PICK k \in 1..Len(queue) : queue[k] = t
        BY <2>4, <3>2 DEF QueueInv
      <4>2. k \in 1..Len(q)
        BY <2>3
      <4>. QED
        BY <2>3, <4>1, <4>2
    <3>. QED
      BY <3>1, <3>2
  <2>7. QueueInv' /\ queue' \in Seq(Tasks)
    BY <1>2, <2>1, <2>2, <2>3, <2>5, <2>6 DEF QueueInv, InputsStay
  <2>8. inq' \in SUBSET Tasks
    BY <1>1, <2>1 DEF CpuTypes
  <2>. QED
    BY <1>1, <1>2, <2>1, <2>7, <2>8 DEF RestGoes, QueueKept
<1>. QED
  BY <1>3, <1>4

LEMMA StopGoes ==
  ASSUME CpuInv, Cpu!Stop
  PROVE  RestGoes
<1>1. /\ pc = "pick" /\ pc' = "done" /\ finished >= Cardinality(Tasks)
      /\ cur' = cur /\ left' = left /\ time' = time /\ gantt' = gantt
      /\ remain' = remain /\ start' = start /\ finish' = finish /\ finished' = finished
      /\ queue' = queue /\ inq' = inq /\ InputsStay
  BY CpuCounts, Zenon DEF Cpu!Stop, Cpu!n, Tasks, Cpu!input, Cpu!report, Cpu!ready, InputsStay
<1>2. QueueKept
  BY <1>1, QueueStays
<1>. QED
  BY <1>1, <1>2 DEF RestGoes

LEMMA FinishIsGoes == Cpu!Finish => FinishGoes
  BY DEF Cpu!Finish, Cpu!FinishTime, Cpu!input, Cpu!ready, FinishGoes, InputsStay

LEMMA CpuBegins == Cpu!Init => CpuInv
<1>. SUFFICES ASSUME Cpu!Init PROVE CpuInv
  OBVIOUS
<1>1. MaxTime \in Nat /\ -1 \notin Tasks /\ IsFiniteSet(Tasks)
      /\ Arrivals \subseteq Int /\ Bursts \subseteq Nat /\ Quanta \subseteq Int
  BY TasksAre
<1>2. /\ policy \in {"fcfs", "sjf", "rr", "srtf"} /\ quantum \in Int /\ quantum > 0
  <2>1. policy \in {"fcfs", "sjf", "rr", "srtf"}
        /\ quantum \in IF policy = "rr" THEN {IF q <= 0 THEN 1 ELSE q : q \in Quanta} ELSE {1}
    BY DEF Cpu!Init, Cpu!main
  <2>2. \A q \in Quanta : q \in Int /\ (IF q <= 0 THEN 1 ELSE q) \in Int
                          /\ (IF q <= 0 THEN 1 ELSE q) > 0
    BY <1>1
  <2>. QED
    BY <2>1, <2>2
<1>3. /\ arr \in [Tasks -> Int] /\ burst \in [Tasks -> Nat] /\ remain = burst
      /\ start = [t \in Tasks |-> -1] /\ finish = [t \in Tasks |-> -1]
      /\ pc = "pick" /\ time = 0 /\ finished = 0 /\ cur = -1 /\ left = 0
      /\ queue = <<>> /\ inq = {} /\ gantt = <<>>
  BY <1>1 DEF Cpu!Init, Cpu!load_tasks, Cpu!reset_for_algo, Tasks
<1>4. CpuTypes
  <2>1. start \in [Tasks -> Int] /\ finish \in [Tasks -> Int]
    BY <1>3
  <2>. QED
    BY <1>1, <1>2, <1>3, <2>1 DEF CpuTypes
<1>5. \A t : Ran(gantt, 0, t) = {} /\ Had(gantt, 0, t) = 0
  <2>1. \A t : Ran(gantt, 0, t) = {}
    BY DEF Ran
  <2>. QED
    BY <2>1, FS_EmptySet, Zenon DEF Had
<1>6. Chart(gantt, time, remain)
  BY <1>3, <1>5 DEF Chart
<1>7. QueueInv /\ RunInv
  BY <1>3 DEF QueueInv, RunInv
<1>8. ReportInv
  <2>1. \A t \in Tasks : start[t] = -1 /\ finish[t] = -1 /\ Now(t) = {}
    BY <1>3, <1>5 DEF Now
  <2>. QED
    BY <2>1 DEF ReportInv, Began, Ended
<1>9. CountInv
  <2>1. Reported = {}
    BY <1>3 DEF Reported
  <2>. QED
    BY <1>3, <2>1, FS_EmptySet DEF CountInv
<1>10. PayInv
  <2>1. SUFFICES ASSUME \A t \in Tasks : burst[t] > 0 /\ burst[t] <= MaxTime
                 PROVE  /\ \A t \in Tasks : ~(remain[t] = 0)
                        /\ Sum(Charges, Tasks) + ToPay(time, remain) = ToPay(0, burst)
    BY DEF PayInv
  <2>2. \A t \in Tasks : remain[t] > 0 /\ finish[t] = -1
    BY <1>3, <2>1
  <2>3. \A t \in Tasks : Charges[t] = 0
    BY <2>2 DEF Charges, Charge
  <2>4. Sum(Charges, Tasks) = 0
    BY <1>1, <2>3, SumOfNone
  <2>5. ToPay(0, burst) \in Nat
    <3>1. burst \in Rests
      BY <1>4, <1>6, <2>1, RemainIs
    <3>2. 0 \in 0..MaxTime /\ \A t \in Tasks : arr[t] \in Int
      BY <1>1, <1>3
    <3>. QED
      BY <3>1, <3>2, ToPayIs
  <2>. QED
    BY <1>3, <2>2, <2>4, <2>5
<1>. QED
  BY <1>4, <1>6, <1>7, <1>8, <1>9, <1>10 DEF CpuInv

LEMMA CpuKeep ==
  ASSUME CpuInv, Cpu!Next \/ UNCHANGED <<cpuVars, pc, total>>
  PROVE  CpuInv'
<1>1. CASE Cpu!Pick
  BY <1>1, PickGoes, IdleKeeps, DispatchKeeps
<1>2. CASE Cpu!PickRR
  BY <1>2, PickRRGoes, IdleKeeps, DispatchKeeps
<1>3. CASE Cpu!Tick
  BY <1>3, TickIsGoes, TickKeeps
<1>4. CASE Cpu!Finish
  BY <1>4, FinishIsGoes, FinishKeeps
<1>5. CASE Cpu!Preempt
  BY <1>5, PreemptGoes, RestKeeps
<1>6. CASE Cpu!Stop
  BY <1>6, StopGoes, RestKeeps
<1>7. CASE UNCHANGED <<cpuVars, pc, total>>
  <2>1. /\ policy' = policy /\ quantum' = quantum /\ arr' = arr /\ burst' = burst
        /\ remain' = remain /\ start' = start /\ finish' = finish /\ finished' = finished
        /\ pc' = pc /\ time' = time /\ cur' = cur /\ left' = left /\ gantt' = gantt
        /\ queue' = queue /\ inq' = inq
    BY <1>7 DEF cpuVars
  <2>2. CpuTypes' = CpuTypes /\ QueueInv' = QueueInv /\ CountInv' = CountInv
    BY <2>1 DEF CpuTypes, QueueInv, CountInv, Reported
  <2>3. (Chart(gantt, time, remain))' = Chart(gantt, time, remain)
    BY <2>1 DEF Chart, Wanting
  <2>4. RunInv' = RunInv
    BY <2>1 DEF RunInv, Waits
  <2>5. ReportInv' = ReportInv
    BY <2>1 DEF ReportInv, Began, Ended, Now
  <2>6. /\ ToPay(time, remain)' = ToPay(time, remain) /\ ToPay(0, burst)' = ToPay(0, burst)
        /\ Charges' = Charges
    BY <2>1, SamePlan DEF ToPay, Charges, Charge
  <2>7. PayInv' = PayInv
    BY <2>1, <2>6 DEF PayInv
  <2>. QED
    BY <2>2, <2>3, <2>4, <2>5, <2>7 DEF CpuInv
<1>. QED
  BY <1>1, <1>2, <1>3, <1>4, <1>5, <1>6, <1>7 DEF Cpu!Next

LEMMA CpuAlways == SimulatorsSpec => [](family = "cpu" => CpuInv)
<1>1. SimulatorsInit => (family = "cpu" => CpuInv)
  BY SimulatorsBegin, CpuBegins
<1>2. (family = "cpu" => CpuInv) /\ [SimulatorsNext]_allVars => (family = "cpu" => CpuInv)'
  BY OneRuns, CpuKeep
<1>. QED
  BY <1>1, <1>2, PTL DEF SimulatorsSpec

-----------------------------------------------------------------------------
(* What the runs check.                                                       *)

LEMMA TicksIs == CpuTypes => \A t : Cpu!Ticks(t) = Now(t)
  BY DEF Cpu!Ticks, Now, Ran

LEMMA ReportsSay ==
  ASSUME CpuInv
  PROVE  Cpu!ReportsTrue
<1>1. CpuTypes /\ Chart(gantt, time, remain) /\ ReportInv
  BY DEF CpuInv
<1>2. ASSUME NEW t \in Tasks, finish[t] >= 0
      PROVE  /\ remain[t] = 0 /\ Cardinality(Now(t)) = burst[t]
             /\ start[t] + 1 \in Now(t) /\ \A k \in Now(t) : k > start[t] /\ k <= finish[t]
             /\ policy # "rr" => finish[t] \in Now(t)
             /\ 0 <= start[t] - arr[t]
             /\ start[t] - arr[t] <= finish[t] - arr[t] - burst[t]
  <2>1. Began(t) /\ Ended(t)
    BY <1>1 DEF ReportInv
  <2>2. PICK s, e, a, b, X : s = start[t] /\ e = finish[t] /\ a = arr[t] /\ b = burst[t] /\ X = Now(t)
    OBVIOUS
  <2>3. s \in Int /\ e \in Int /\ a \in Int /\ b \in Nat /\ remain[t] \in Nat
    BY <1>1, <2>2 DEF CpuTypes
  <2>4. /\ remain[t] = 0 /\ s >= 0 /\ s + 1 \in X /\ \A k \in X : k <= e
        /\ policy # "rr" => e \in X
    BY <1>2, <2>1, <2>2 DEF Ended
  <2>5. a <= s /\ \A k \in X : k > s
    BY <2>1, <2>2, <2>3, <2>4 DEF Began
  <2>6. Cardinality(X) = b
    <3>1. b - remain[t] = Cardinality(X)
      BY <1>1, <2>2, RemainIs
    <3>. QED
      BY <2>3, <2>4, <3>1
  <2>7. \A k \in X : k \in Nat
    BY <2>2 DEF Now, Ran
  <2>8. X \in SUBSET (s + 1..e)
    BY <2>3, <2>4, <2>5, <2>7
  <2>9. s + 1 <= e
    BY <2>3, <2>4
  <2>10. IsFiniteSet(s + 1..e) /\ Cardinality(s + 1..e) = e - s
    <3>1. PICK l : l = s + 1
      OBVIOUS
    <3>2. l \in Int /\ ~(l > e) /\ e - l + 1 = e - s
      BY <2>3, <2>9, <3>1
    <3>3. IsFiniteSet(l..e) /\ Cardinality(l..e) = IF l > e THEN 0 ELSE e - l + 1
      BY <2>3, <3>2, FS_Interval
    <3>. QED
      BY <3>1, <3>2, <3>3
  <2>11. b <= e - s
    <3>1. PICK Y : Y = s + 1..e
      OBVIOUS
    <3>2. X \in SUBSET Y /\ IsFiniteSet(Y) /\ Cardinality(Y) = e - s
      BY <2>8, <2>10, <3>1
    <3>3. Cardinality(X) <= Cardinality(Y)
      BY <3>2, FS_Subset
    <3>. QED
      BY <2>6, <3>2, <3>3
  <2>12. 0 <= s - a /\ s - a <= e - a - b
    BY <2>3, <2>5, <2>11
  <2>. QED
    BY <2>2, <2>4, <2>5, <2>6, <2>12
<1>3. \A t : Cpu!Ticks(t) = Now(t) /\ Cpu!Cardinality(Cpu!Ticks(t)) = Cardinality(Now(t))
  BY <1>1, TicksIs, CpuCounts
<1>. QED
  BY <1>2, <1>3, Zenon DEF Cpu!ReportsTrue, Cpu!response, Cpu!waiting, Cpu!turnaround, Tasks

\* Nothing is left to do, and the ends are what was to be paid from the start.
LEMMA ShortestIsBest ==
  ASSUME CpuInv
  PROVE  Cpu!SRTFOptimal
<1>1. SUFFICES ASSUME pc = "done", policy = "srtf"
               PROVE  Cpu!SumOver([t \in Tasks |-> finish[t] - arr[t]]) =
                         Cpu!LeastSum - Cpu!SumOver(arr)
  BY Zenon DEF Cpu!SRTFOptimal, Cpu!turnaround, Tasks
<1>2. CpuTypes /\ Chart(gantt, time, remain) /\ ReportInv /\ CountInv /\ PayInv
  BY DEF CpuInv
<1>3. IsFiniteSet(Tasks) /\ MaxTime \in Nat
  BY TasksAre
<1>4. Reported = Tasks
  <2>1. Reported \in SUBSET Tasks
    BY DEF Reported
  <2>2. Cardinality(Reported) >= Cardinality(Tasks)
    BY <1>1, <1>2 DEF CountInv
  <2>3. /\ Cardinality(Reported) <= Cardinality(Tasks)
        /\ Cardinality(Reported) = Cardinality(Tasks) => Tasks = Reported
    BY <1>3, <2>1, FS_Subset
  <2>4. Cardinality(Reported) \in Nat /\ Cardinality(Tasks) \in Nat
    BY <1>3, <2>1, FS_Subset, FS_CardinalityType
  <2>. QED
    BY <2>2, <2>3, <2>4
<1>5. \A t \in Tasks : /\ finish[t] >= 0 /\ finish[t] \in Int /\ arr[t] \in Int
                       /\ remain[t] = 0 /\ burst[t] > 0
  BY <1>2, <1>4 DEF Reported, ReportInv, Ended, CpuTypes
<1>6. \A t \in Tasks : burst[t] <= MaxTime
  <2>1. ASSUME NEW t \in Tasks PROVE burst[t] <= MaxTime
    <3>1. PICK y : y = Had(gantt, time, t)
      OBVIOUS
    <3>2. y \in Nat /\ y <= time /\ 0 + y = burst[t] /\ time \in Nat /\ time <= MaxTime
      BY <1>2, <1>5, <3>1, RanIs DEF CpuTypes, Chart
    <3>. QED
      BY <1>3, <3>2
  <2>. QED
    BY <2>1
<1>7. Sum(Charges, Tasks) + ToPay(time, remain) = ToPay(0, burst)
  BY <1>1, <1>2, <1>5, <1>6 DEF PayInv
<1>8. Charges = finish
  <2>1. finish = [t \in Tasks |-> finish[t]]
    BY <1>2 DEF CpuTypes
  <2>2. \A t \in Tasks : Charge(t) = finish[t]
    BY <1>5 DEF Charge
  <2>. QED
    BY <2>1, <2>2 DEF Charges
<1>9. ToPay(time, remain) = 0
  <2>1. remain \in Rests
    BY <1>2, <1>6, RemainIs
  <2>2. time \in 0..MaxTime
    BY <1>2, <1>3 DEF CpuTypes
  <2>3. Open(remain) = {}
    BY <1>5 DEF Open
  <2>. QED
    BY <1>5, <2>1, <2>2, <2>3, ToPayGoes
<1>10. ToPay(0, burst) = Cpu!LeastSum
  BY PlanIs DEF ToPay
<1>11. PICK tau : tau = [t \in Tasks |-> finish[t] - arr[t]]
  OBVIOUS
<1>12. Cpu!SumOver(tau) = Sum(tau, Tasks) /\ Cpu!SumOver(arr) = Sum(arr, Tasks)
  <2>1. DOMAIN tau = Tasks /\ DOMAIN arr = Tasks
    BY <1>2, <1>11 DEF CpuTypes
  <2>. QED
    BY <2>1, SumOverIs
<1>13. /\ Sum(finish, Tasks) = Sum(tau, Tasks) + Sum(arr, Tasks)
       /\ Sum(tau, Tasks) \in Int /\ Sum(arr, Tasks) \in Int
  <2>1. \A t \in Tasks : tau[t] \in Int /\ arr[t] \in Int /\ finish[t] = tau[t] + arr[t]
    BY <1>5, <1>11
  <2>. QED
    BY <1>3, <2>1, SumAdds
<1>14. PICK a, b, c, d : /\ a = Sum(tau, Tasks) /\ b = Sum(arr, Tasks) /\ c = Sum(finish, Tasks)
                         /\ d = Cpu!LeastSum
  OBVIOUS
<1>15. a \in Int /\ b \in Int /\ c = a + b /\ c + 0 = d
  BY <1>7, <1>8, <1>9, <1>10, <1>13, <1>14
<1>16. a = d - b
  BY <1>15
<1>. QED
  BY <1>11, <1>12, <1>14, <1>16

\* CPU: whatever the tasks, the policy and the quantum, the processor idles only
\* while there is nobody to run, every report is true to the chart of who ran
\* when, and no schedule of the tasks has a smaller mean turnaround than srtf's.
THEOREM SchedulesAreRight == SimulatorsSpec => []SchedulesHold
<1>1. (family = "cpu" => CpuInv) => SchedulesHold
  <2>1. CpuInv => Cpu!WorkConserving
    BY ChartSays DEF CpuInv
  <2>. QED
    BY <2>1, ReportsSay, ShortestIsBest DEF SchedulesHold
<1>. QED
  BY <1>1, CpuAlways, PTL
=============================================================================
