------------------------- MODULE ThreadedProxyProofs -------------------------
(***************************************************************************)
(* Proofs about SynchronizedProxy, for any children, pages and number of   *)
(* starts of the server, and about ThreadedProxy: the thread lives only    *)
(* inside the region, and the proxy with a thread implements the one       *)
(* without.                                                                *)
(***************************************************************************)
EXTENDS ThreadedProxy, TLAPS

\* What a child saw in the cache is still there when it serves it.
FoundIsThere ==
    \A c \in Child :
        /\ found[c] => url[c] \in DOMAIN cache
        /\ pc[c] = "serving" => found[c]

\* The semaphore counts who is in the region, once it has been set; before,
\* nobody can be.
SemInv ==
    /\ MutualExclusion
    /\ SemaphoreReturned
    /\ ~initialised => semval \in {NoSemaphore, 0} /\ InRegion = {}
    /\ server = "created" => ~initialised

\* A child starts to copy at the first piece.
Early == {"none", "reading", "lookup", "waiting", "critical", "logged", "fetching"}
StartsAtFirst == \A c \in Child : pc[c] \in Early => offset[c] = 0

\* Whatever the file of a page lacks, some writer is still to write.
FileInv ==
    \A u \in DOMAIN cache \ cut : \A k \in 1..Pieces :
        \/ k <= Len(cache[u]) /\ cache[u][k] = k
        \/ \E c \in Child : pc[c] = "copying" /\ url[c] = u /\ offset[c] < k

Missed(u) == \E j \in 1..Len(logfile) : logfile[j] = [kind |-> "miss", url |-> u]

\* Who creates a file has logged the miss before.
LogInv ==
    /\ \A u \in DOMAIN cache : Missed(u)
    /\ \A c \in Child :
          (pc[c] = "logged" /\ ~found[c]) \/ pc[c] = "fetching" => Missed(url[c])
    /\ HitAfterMiss

-----------------------------------------------------------------------------
(* The semaphore. *)

\* The part of TypeOK the semaphore's proof needs.
PcType == pc \in [Child -> Working \cup {"none", "zombie", "gone"}]

LEMMA SemInit == Init => SemInv
  BY DEF Init, SemInv, MutualExclusion, SemaphoreReturned, InRegion, Region, NoSemaphore

\* Who neither enters nor leaves the region leaves SemInv alone.
LEMMA RegionKept ==
    ASSUME SemInv, InRegion' = InRegion, UNCHANGED semVars,
           server' = "created" => server = "created"
    PROVE  SemInv'
  BY DEF SemInv, MutualExclusion, SemaphoreReturned, semVars

\* One child moves without crossing the region's border.
LEMMA MoveOutside ==
    ASSUME PcType, NEW c \in Child, NEW p, pc' = [pc EXCEPT ![c] = p],
           pc[c] \in Region <=> p \in Region
    PROVE  InRegion' = InRegion
  BY DEF PcType, InRegion

LEMMA EndsOutside ==
    ASSUME PcType, NEW c \in Child, Ends(c), pc[c] \notin Region
    PROVE  InRegion' = InRegion /\ server' = server
  <1>1. PICK p \in {"zombie", "gone"} : pc' = [pc EXCEPT ![c] = p]
    BY DEF Ends
  <1>2. p \notin Region
    BY DEF Region
  <1>3. QED
    BY <1>1, <1>2, MoveOutside DEF Ends, serverVars

LEMMA SemStep ==
    ASSUME PcType, SemInv, [Next]_vars
    PROVE  SemInv'
  <1>1. CASE Start
    <2>1. InRegion' = InRegion
      BY <1>1 DEF Start, InRegion
    <2>2. CASE semval = NoSemaphore /\ server' = "created" /\ semval' = 0
      BY <1>1, <2>1, <2>2 DEF Start, SemInv, MutualExclusion, SemaphoreReturned, NoSemaphore
    <2>3. CASE semval # NoSemaphore /\ server' = "listening" /\ UNCHANGED semval
      BY <1>1, <2>1, <2>3, RegionKept DEF Start, semVars
    <2>4. QED
      BY <1>1, <2>2, <2>3 DEF Start, Semget
  <1>2. CASE SetVal
    BY <1>2 DEF SetVal, SemInv, MutualExclusion, SemaphoreReturned, InRegion
  <1>3. CASE Reap
    <2>1. InRegion' = InRegion
      BY <1>3 DEF Reap, Reaped, InRegion, Region
    <2>2. QED
      BY <1>3, <2>1, RegionKept DEF Reap, serverVars
  <1>4. CASE ServerEnds
    <2>1. InRegion' = InRegion
      BY <1>4 DEF ServerEnds, InRegion, Region
    <2>2. QED
      BY <1>4, <2>1, RegionKept DEF ServerEnds
  <1>5. ASSUME NEW c \in Child, Accept(c) PROVE SemInv'
    <2>1. PICK p \in {"reading", "gone"} : pc' = [pc EXCEPT ![c] = p]
      BY <1>5 DEF Accept
    <2>2. InRegion' = InRegion
      BY <1>5, <2>1, MoveOutside DEF Accept, Region
    <2>3. QED
      BY <1>5, <2>2, RegionKept DEF Accept, serverVars
  <1>6. ASSUME NEW c \in Child, NoRequest(c) \/ Served(c) \/ Copied(c) \/ OriginFails(c)
        PROVE  SemInv'
    <2>1. Ends(c) /\ pc[c] \notin Region /\ UNCHANGED semVars
      BY <1>6 DEF NoRequest, Served, Copied, OriginFails, Region
    <2>2. QED
      BY <2>1, EndsOutside, RegionKept
  <1>7. ASSUME NEW c \in Child, Request(c) \/ Searches(c) PROVE SemInv'
    <2>1. InRegion' = InRegion
      BY <1>7, MoveOutside DEF Request, Searches, Goes, Region
    <2>2. QED
      BY <1>7, <2>1, RegionKept DEF Request, Searches, serverVars
  <1>8. ASSUME NEW c \in Child, Enter(c) PROVE SemInv'
    <2>1. semval = 1 /\ initialised /\ InRegion = {} /\ semval' = 0
      BY <1>8 DEF Enter, SemInv, SemaphoreReturned, NoSemaphore
    <2>2. InRegion' = {c}
      BY <1>8, <2>1 DEF Enter, Goes, PcType, InRegion, Region
    <2>3. QED
      BY <1>8, <2>1, <2>2 DEF Enter, SemInv, MutualExclusion, SemaphoreReturned, serverVars
  <1>9. ASSUME NEW c \in Child, Log(c) PROVE SemInv'
    <2>1. InRegion' = InRegion
      BY <1>9, MoveOutside DEF Log, Goes, Region
    <2>2. QED
      BY <1>9, <2>1, RegionKept DEF Log, serverVars
  <1>10. ASSUME NEW c \in Child, pc[c] \in Region, semval' = semval + 1,
                NEW p, p \notin Region, pc' = [pc EXCEPT ![c] = p],
                UNCHANGED <<initialised, server>>
         PROVE  SemInv'
    <2>1. InRegion = {c} /\ initialised /\ semval = 0
      BY <1>10 DEF InRegion, SemInv, MutualExclusion, SemaphoreReturned
    <2>2. InRegion' = {}
      BY <1>10, <2>1 DEF PcType, InRegion
    <2>3. QED
      BY <1>10, <2>1, <2>2 DEF SemInv, MutualExclusion, SemaphoreReturned
  <1>11. ASSUME NEW c \in Child, Leave(c) PROVE SemInv'
    <2>1. PICK p \in {"serving", "fetching"} : pc' = [pc EXCEPT ![c] = p]
      BY <1>11 DEF Leave
    <2>2. p \notin Region /\ pc[c] \in Region
      BY <1>11 DEF Leave, Region
    <2>3. QED
      BY <1>10, <1>11, <2>1, <2>2 DEF Leave, serverVars
  <1>12. ASSUME NEW c \in Child, Serve(c) \/ Copy(c) PROVE SemInv'
    <2>1. InRegion' = InRegion
      BY <1>12 DEF Serve, Copy, InRegion
    <2>2. QED
      BY <1>12, <2>1, RegionKept DEF Serve, Copy, serverVars
  <1>13. ASSUME NEW c \in Child, Open(c) PROVE SemInv'
    <2>1. InRegion' = InRegion
      BY <1>13, MoveOutside DEF Open, Goes, Region
    <2>2. QED
      BY <1>13, <2>1, RegionKept DEF Open, serverVars
  <1>14. ASSUME NEW c \in Child, Ended(c) PROVE SemInv'
    <2>1. PICK p \in {"zombie", "gone"} : pc' = [pc EXCEPT ![c] = p]
      BY <1>14 DEF Ended, Ends
    <2>2. p \notin Region
      BY DEF Region
    <2>3. CASE pc[c] \in Region
      BY <1>10, <1>14, <2>1, <2>2, <2>3 DEF Ended, Ends, Undo, serverVars
    <2>4. CASE pc[c] \notin Region
      <3>1. UNCHANGED semVars
        BY <1>14, <2>4 DEF Ended, Undo, semVars
      <3>2. QED
        BY <1>14, <2>4, <3>1, EndsOutside, RegionKept DEF Ended
    <2>5. QED
      BY <2>3, <2>4
  <1>15. CASE UNCHANGED vars
    <2>1. InRegion' = InRegion
      BY <1>15 DEF vars, InRegion
    <2>2. QED
      BY <1>15, <2>1, RegionKept DEF vars, serverVars
  <1>16. QED
    BY <1>1, <1>2, <1>3, <1>4, <1>5, <1>6, <1>7, <1>8, <1>9, <1>11, <1>12, <1>13,
       <1>14, <1>15 DEF Next, Work

-----------------------------------------------------------------------------
(* Types. *)

LEMMA WrittenType ==
    ASSUME NEW data \in Seq(0..Pieces), NEW at \in 1..Pieces, Len(data) <= Pieces
    PROVE  /\ Written(data, at, at) \in Seq(0..Pieces)
           /\ Len(Written(data, at, at)) <= Pieces
           /\ \A k \in 1..Len(data) : k # at => Written(data, at, at)[k] = data[k]
           /\ at <= Len(Written(data, at, at)) /\ Written(data, at, at)[at] = at
           /\ Len(data) <= Len(Written(data, at, at))
  <1> DEFINE n == IF at > Len(data) THEN at ELSE Len(data)
             f == [k \in 1..n |-> IF k = at THEN at ELSE IF k <= Len(data) THEN data[k] ELSE Hole]
  <1>1. n \in Nat /\ n <= Pieces /\ at <= n /\ Len(data) <= n
    BY PiecesAssumption
  <1>2. f \in [1..n -> 0..Pieces]
    BY <1>1, PiecesAssumption DEF Hole
  <1>3. f \in Seq(0..Pieces) /\ Len(f) = n
    BY <1>1, <1>2
  <1>4. Written(data, at, at) = f
    BY DEF Written
  <1>5. \A k \in 1..n : f[k] = IF k = at THEN at ELSE IF k <= Len(data) THEN data[k] ELSE Hole
    OBVIOUS
  <1>6. \A k \in 1..Len(data) : k \in 1..n /\ k <= Len(data)
    BY <1>1
  <1>7. at \in 1..n
    BY <1>1
  <1>8. f[at] = at /\ \A k \in 1..Len(data) : k # at => f[k] = data[k]
    BY <1>5, <1>6, <1>7
  <1> HIDE DEF f, n
  <1>9. QED
    BY <1>1, <1>3, <1>4, <1>8

TypeInv == TypeOK /\ FoundIsThere

LEMMA TypeInit == Init => TypeInv
  <1>1. SUFFICES ASSUME Init PROVE TypeInv
    OBVIOUS
  <1>2. /\ server \in {"down", "created", "listening"} /\ starts \in 0..MaxStarts
        /\ parent \in [Child -> 0..MaxStarts] /\ offset \in [Child -> 0..Pieces]
        /\ semval \in {NoSemaphore, 0, 1}
    BY <1>1, StartsAssumption, PiecesAssumption DEF Init
  <1>3. sigchld \in BOOLEAN /\ initialised \in BOOLEAN /\ found \in [Child -> BOOLEAN]
    BY <1>1 DEF Init
  <1>4. /\ pc \in [Child -> Working \cup {"none", "zombie", "gone"}]
        /\ url \in [Child -> Url] /\ cut \subseteq Url
    BY <1>1 DEF Init
  <1>5. logfile \in Seq(Line) /\ \A c \in Child : sent[c] \in Seq(0..Pieces)
    BY <1>1 DEF Init
  <1>6. DOMAIN cache = {}
    BY <1>1 DEF Init
  <1>7. TypeOK
    BY <1>2, <1>3, <1>4, <1>5, <1>6 DEF TypeOK
  <1>8. QED
    BY <1>1, <1>7 DEF Init, TypeInv, FoundIsThere

\* A line appended to the log is a line.
LEMMA LogType ==
    ASSUME TypeOK, NEW line \in Line, logfile' = Append(logfile, line)
    PROVE  logfile' \in Seq(Line)
  BY DEF TypeOK

\* Where a child ends.
LEMMA EndsType ==
    ASSUME TypeInv, NEW c \in Child, Ends(c), NEW n \in {-1, 0, 1}, semval' = n,
           UNCHANGED <<initialised, offset, sent, cache>>,
           logfile' \in Seq(Line), cut' \subseteq Url
    PROVE  TypeInv'
  <1>1. PICK p \in {"zombie", "gone"} : pc' = [pc EXCEPT ![c] = p]
    BY DEF Ends
  <1>2. sigchld' \in BOOLEAN /\ UNCHANGED <<server, starts, parent, url, found>>
    BY DEF Ends, HasParent, serverVars, TypeInv, TypeOK
  <1>3. pc' \in [Child -> Working \cup {"none", "zombie", "gone"}]
    BY <1>1 DEF TypeInv, TypeOK
  <1>4. TypeOK'
    BY <1>2, <1>3 DEF TypeInv, TypeOK, NoSemaphore
  <1>5. FoundIsThere'
    BY <1>1, <1>2 DEF TypeInv, TypeOK, FoundIsThere
  <1>6. QED
    BY <1>4, <1>5 DEF TypeInv

\* Where a child goes on, the semaphore and the files are of their types.
LEMMA GoesType ==
    ASSUME TypeInv, NEW c \in Child, NEW p \in Working, pc' = [pc EXCEPT ![c] = p],
           p = "serving" => found'[c], NEW n \in {-1, 0, 1}, semval' = n,
           UNCHANGED <<server, starts, initialised, sigchld, parent, url, offset, sent, cut>>,
           found' \in [Child -> BOOLEAN],
           \A d \in Child : found'[d] => url[d] \in DOMAIN cache',
           \A d \in Child : d # c => found'[d] = found[d],
           DOMAIN cache' \subseteq Url,
           \A u \in DOMAIN cache' : cache'[u] \in Seq(0..Pieces) /\ Len(cache'[u]) <= Pieces,
           logfile' \in Seq(Line)
    PROVE  TypeInv'
  <1>1. pc' \in [Child -> Working \cup {"none", "zombie", "gone"}]
    BY DEF TypeInv, TypeOK
  <1>2. TypeOK'
    BY <1>1 DEF TypeInv, TypeOK, NoSemaphore
  <1>3. FoundIsThere'
    BY DEF TypeInv, TypeOK, FoundIsThere
  <1>4. QED
    BY <1>2, <1>3 DEF TypeInv

\* Who is in the region has the semaphore.
LEMMA RegionHeld ==
    ASSUME TypeInv, SemInv, NEW c \in Child, pc[c] \in Region
    PROVE  semval = 0 /\ initialised
  BY DEF SemInv, SemaphoreReturned, InRegion

LEMMA TypeStep ==
    ASSUME TypeInv, SemInv, [Next]_vars
    PROVE  TypeInv'
  <1>1. CASE Start \/ SetVal
    <2>1. /\ server' \in {"down", "created", "listening"} /\ starts' \in 0..MaxStarts
          /\ semval' \in {NoSemaphore, 0, 1} /\ initialised' \in BOOLEAN
      <3>1. CASE Start
        <4>1. starts' \in 0..MaxStarts
          BY <3>1, StartsAssumption DEF Start, TypeInv, TypeOK
        <4>2. QED
          BY <3>1, <4>1 DEF Start, Semget, TypeInv, TypeOK
      <3>2. CASE SetVal
        BY <3>2 DEF SetVal, TypeInv, TypeOK
      <3>3. QED
        BY <1>1, <3>1, <3>2
    <2>2. UNCHANGED <<sigchld, pc, parent, childVars, fileVars>>
      BY <1>1 DEF Start, SetVal
    <2>3. QED
      BY <2>1, <2>2 DEF TypeInv, TypeOK, FoundIsThere, childVars, fileVars
  <1>2. CASE Reap
    <2>1. pc' \in [Child -> Working \cup {"none", "zombie", "gone"}]
      BY <1>2 DEF Reap, TypeInv, TypeOK
    <2>2. \A c \in Child : pc'[c] = "serving" => pc[c] = "serving"
      BY <1>2 DEF Reap
    <2>3. QED
      BY <1>2, <2>1, <2>2
         DEF Reap, TypeInv, TypeOK, FoundIsThere, serverVars, semVars, childVars, fileVars
  <1>3. CASE ServerEnds
    <2>1. pc' \in [Child -> Working \cup {"none", "zombie", "gone"}]
      BY <1>3 DEF ServerEnds, TypeInv, TypeOK
    <2>2. \A c \in Child : pc'[c] = "serving" => pc[c] = "serving"
      BY <1>3 DEF ServerEnds
    <2>3. logfile' \in Seq(Line)
      <3>1. [kind |-> "terminated"] \in Line
        BY DEF Line
      <3>2. QED
        BY <1>3, <3>1, LogType DEF ServerEnds, TypeInv, TypeOK
    <2>4. QED
      BY <1>3, <2>1, <2>2, <2>3
         DEF ServerEnds, TypeInv, TypeOK, FoundIsThere, semVars, childVars
  <1>4. ASSUME NEW c \in Child, Accept(c) PROVE TypeInv'
    <2>1. PICK p \in {"reading", "gone"} : pc' = [pc EXCEPT ![c] = p]
      BY <1>4 DEF Accept
    <2>2. pc' \in [Child -> Working \cup {"none", "zombie", "gone"}]
      BY <2>1 DEF TypeInv, TypeOK, Working
    <2>3. parent' \in [Child -> 0..MaxStarts]
      BY <1>4 DEF Accept, TypeInv, TypeOK
    <2>4. \A d \in Child : pc'[d] = "serving" => pc[d] = "serving"
      BY <2>1 DEF TypeInv, TypeOK
    <2>5. QED
      BY <1>4, <2>2, <2>3, <2>4
         DEF Accept, TypeInv, TypeOK, FoundIsThere, serverVars, semVars, childVars, fileVars
  <1>5. ASSUME NEW c \in Child, NoRequest(c) \/ Served(c) \/ Copied(c) \/ OriginFails(c)
        PROVE  TypeInv'
    <2>1. Ends(c) /\ UNCHANGED <<semVars, offset, sent, cache, logfile>>
      BY <1>5 DEF NoRequest, Served, Copied, OriginFails, fileVars
    <2>2. cut' \subseteq Url
      BY <1>5 DEF NoRequest, Served, Copied, OriginFails, Cut, fileVars, TypeInv, TypeOK
    <2>3. semval' \in {-1, 0, 1} /\ logfile' \in Seq(Line)
      BY <2>1 DEF semVars, TypeInv, TypeOK, NoSemaphore
    <2>4. QED
      BY <2>1, <2>2, <2>3, EndsType DEF semVars
  <1>6. ASSUME NEW c \in Child, Ended(c) PROVE TypeInv'
    <2>1. Ends(c) /\ UNCHANGED <<initialised, offset, sent, cache>>
      BY <1>6 DEF Ended
    <2>2. cut' \subseteq Url
      BY <1>6 DEF Ended, Cut, TypeInv, TypeOK
    <2>3. semval' \in {-1, 0, 1}
      BY <1>6, RegionHeld DEF Ended, Undo, TypeInv, TypeOK, NoSemaphore
    <2>4. logfile' \in Seq(Line)
      <3>1. [kind |-> "terminated"] \in Line
        BY DEF Line
      <3>2. QED
        BY <1>6, <3>1, LogType DEF Ended, TypeInv, TypeOK
    <2>5. QED
      BY <2>1, <2>2, <2>3, <2>4, EndsType
  <1>7. ASSUME NEW c \in Child, Request(c) PROVE TypeInv'
    BY <1>7, GoesType DEF Request, Goes, Working, serverVars, semVars, childVars, fileVars,
       TypeInv, TypeOK, FoundIsThere, NoSemaphore
  <1>8. ASSUME NEW c \in Child, Searches(c) PROVE TypeInv'
    <2>1. found' \in [Child -> BOOLEAN] /\ \A d \in Child : d # c => found'[d] = found[d]
      BY <1>8 DEF Searches, Lookup, TypeInv, TypeOK
    <2>2. \A d \in Child : found'[d] => url[d] \in DOMAIN cache'
      BY <1>8 DEF Searches, Lookup, TypeInv, TypeOK, FoundIsThere
    <2>3. QED
      BY <1>8, <2>1, <2>2, GoesType
         DEF Searches, Goes, Lookup, Working, serverVars, semVars, TypeInv, TypeOK, NoSemaphore
  <1>9. ASSUME NEW c \in Child, Enter(c) PROVE TypeInv'
    <2>1. semval' \in {-1, 0, 1}
      BY <1>9 DEF Enter, TypeInv, TypeOK, NoSemaphore
    <2>2. QED
      BY <1>9, <2>1, GoesType DEF Enter, Goes, Working, serverVars, childVars, fileVars,
         TypeInv, TypeOK, FoundIsThere
  <1>10. ASSUME NEW c \in Child, Log(c) PROVE TypeInv'
    <2>1. [kind |-> IF found[c] THEN "hit" ELSE "miss", url |-> url[c]] \in Line
      BY DEF Line, TypeInv, TypeOK
    <2>2. logfile' \in Seq(Line)
      BY <1>10, <2>1, LogType DEF Log, TypeInv
    <2>3. QED
      BY <1>10, <2>2, GoesType DEF Log, Goes, Working, serverVars, semVars, childVars,
         TypeInv, TypeOK, FoundIsThere, NoSemaphore
  <1>11. ASSUME NEW c \in Child, Leave(c) PROVE TypeInv'
    <2>1. semval' \in {-1, 0, 1}
      BY <1>11, RegionHeld DEF Leave, Region
    <2>2. PICK p \in Working : pc' = [pc EXCEPT ![c] = p] /\ (p = "serving" => found[c])
      BY <1>11 DEF Leave, Working
    <2>3. QED
      BY <1>11, <2>1, <2>2, GoesType DEF Leave, serverVars, childVars, fileVars,
         TypeInv, TypeOK, FoundIsThere
  <1>12. ASSUME NEW c \in Child, offset[c] + 1 <= Pieces, NEW piece \in 0..Pieces,
                offset' = [offset EXCEPT ![c] = @ + 1],
                sent' = [sent EXCEPT ![c] = Append(@, piece)],
                DOMAIN cache' = DOMAIN cache,
                \A u \in DOMAIN cache : cache'[u] \in Seq(0..Pieces) /\ Len(cache'[u]) <= Pieces,
                UNCHANGED <<serverVars, semVars, sigchld, pc, parent, url, found, logfile, cut>>
         PROVE  TypeInv'
    <2>1. offset' \in [Child -> 0..Pieces]
      BY <1>12, PiecesAssumption DEF TypeInv, TypeOK
    <2>2. \A d \in Child : sent'[d] \in Seq(0..Pieces)
      <3>1. SUFFICES ASSUME NEW d \in Child PROVE sent'[d] \in Seq(0..Pieces)
        OBVIOUS
      <3>2. sent'[d] = Append(sent[d], piece) \/ sent'[d] = sent[d]
        BY <1>12
      <3>3. sent[d] \in Seq(0..Pieces)
        BY DEF TypeInv, TypeOK
      <3>4. Append(sent[d], piece) \in Seq(0..Pieces)
        BY <3>3
      <3>5. QED
        BY <3>2, <3>3, <3>4
    <2>3. TypeOK'
      BY <1>12, <2>1, <2>2 DEF TypeInv, TypeOK, serverVars, semVars
    <2>4. QED
      BY <1>12, <2>3 DEF TypeInv, FoundIsThere
  <1>13. ASSUME NEW c \in Child, Serve(c) PROVE TypeInv'
    <2>1. url[c] \in DOMAIN cache
      BY <1>13 DEF Serve, TypeInv, FoundIsThere
    <2>2. /\ cache[url[c]] \in Seq(0..Pieces) /\ Len(cache[url[c]]) <= Pieces
          /\ offset[c] \in Nat /\ offset[c] < Len(cache[url[c]])
      BY <1>13, <2>1 DEF Serve, TypeInv, TypeOK
    <2>3. offset[c] + 1 <= Pieces /\ cache[url[c]][offset[c] + 1] \in 0..Pieces
      BY <2>2, PiecesAssumption
    <2>4. QED
      BY <1>12, <1>13, <2>3 DEF Serve, fileVars, TypeInv, TypeOK
  <1>14. ASSUME NEW c \in Child, Copy(c) PROVE TypeInv'
    <2>1. offset[c] + 1 \in 1..Pieces
      BY <1>14, PiecesAssumption DEF Copy, TypeInv, TypeOK
    <2>2. DOMAIN cache' = DOMAIN cache
      BY <1>14 DEF Copy
    <2>3. \A u \in DOMAIN cache : cache'[u] \in Seq(0..Pieces) /\ Len(cache'[u]) <= Pieces
      <3>1. SUFFICES ASSUME NEW u \in DOMAIN cache
                     PROVE  cache'[u] \in Seq(0..Pieces) /\ Len(cache'[u]) <= Pieces
        OBVIOUS
      <3>2. cache[u] \in Seq(0..Pieces) /\ Len(cache[u]) <= Pieces
        BY DEF TypeInv, TypeOK
      <3>3. cache'[u] = cache[u] \/ cache'[u] = Written(cache[u], offset[c] + 1, offset[c] + 1)
        BY <1>14 DEF Copy
      <3>4. QED
        BY <2>1, <3>2, <3>3, WrittenType
    <2>4. offset[c] + 1 \in 0..Pieces /\ offset[c] + 1 <= Pieces
      BY <2>1, PiecesAssumption
    <2>5. /\ offset' = [offset EXCEPT ![c] = @ + 1]
          /\ sent' = [sent EXCEPT ![c] = Append(@, offset[c] + 1)]
          /\ UNCHANGED <<serverVars, semVars, sigchld, pc, parent, url, found, logfile, cut>>
      BY <1>14 DEF Copy
    <2>6. QED
      BY <1>12, <2>2, <2>3, <2>4, <2>5
  <1>15. ASSUME NEW c \in Child, Open(c) PROVE TypeInv'
    <2>1. PICK p \in {"copying", "relaying"} : pc' = [pc EXCEPT ![c] = p]
      BY <1>15 DEF Open, Goes
    <2>2. DOMAIN cache \subseteq DOMAIN cache' /\ DOMAIN cache' \subseteq Url
      BY <1>15 DEF Open, TypeInv, TypeOK
    <2>3. \A u \in DOMAIN cache' : cache'[u] = <<>> \/ (u \in DOMAIN cache /\ cache'[u] = cache[u])
      BY <1>15 DEF Open
    <2>4. <<>> \in Seq(0..Pieces) /\ Len(<<>>) <= Pieces
      BY PiecesAssumption
    <2>5. \A u \in DOMAIN cache' : cache'[u] \in Seq(0..Pieces) /\ Len(cache'[u]) <= Pieces
      BY <2>3, <2>4 DEF TypeInv, TypeOK
    <2>6. /\ UNCHANGED <<server, starts, semval, initialised, sigchld, parent, url, found, offset, sent, cut, logfile>>
          /\ p # "serving" /\ p \in Working
      BY <1>15 DEF Open, serverVars, semVars, childVars, Working
    <2>7. \A d \in Child : found'[d] => url[d] \in DOMAIN cache'
      BY <2>2, <2>6 DEF TypeInv, FoundIsThere
    <2>8. semval' \in {-1, 0, 1} /\ found' \in [Child -> BOOLEAN] /\ logfile' \in Seq(Line)
      BY <2>6 DEF TypeInv, TypeOK, NoSemaphore
    <2>9. QED
      BY <2>1, <2>2, <2>5, <2>6, <2>7, <2>8, GoesType
  <1>16. CASE UNCHANGED vars
    BY <1>16 DEF vars, serverVars, semVars, childVars, fileVars, TypeInv, TypeOK, FoundIsThere
  <1>17. QED
    BY <1>1, <1>2, <1>3, <1>4, <1>5, <1>6, <1>7, <1>8, <1>9, <1>10, <1>11, <1>13, <1>14,
       <1>15, <1>16 DEF Next, Work

-----------------------------------------------------------------------------
(* The cache files. *)

LEMMA StartsStep ==
    ASSUME TypeInv, StartsAtFirst, [Next]_vars
    PROVE  StartsAtFirst'
  <1>1. SUFFICES ASSUME NEW d \in Child, pc'[d] \in Early
                 PROVE  pc[d] \in Early /\ offset'[d] = offset[d]
    BY DEF StartsAtFirst
  <1> USE DEF Early
  <1>2. CASE Start \/ SetVal \/ Reap \/ ServerEnds
    BY <1>1, <1>2 DEF Start, SetVal, Reap, ServerEnds, childVars
  <1>3. ASSUME NEW c \in Child, NoRequest(c) \/ Served(c) \/ Copied(c) \/ OriginFails(c) \/ Ended(c)
        PROVE  pc[d] \in Early /\ offset'[d] = offset[d]
    <2>1. Ends(c) /\ UNCHANGED offset
      BY <1>3 DEF NoRequest, Served, Copied, OriginFails, Ended
    <2>2. QED
      BY <1>1, <2>1 DEF Ends, TypeInv, TypeOK
  <1>4. ASSUME NEW c \in Child, Accept(c) \/ Request(c) \/ Searches(c) \/ Enter(c) \/ Log(c) \/ Open(c)
        PROVE  pc[d] \in Early /\ offset'[d] = offset[d]
    BY <1>1, <1>4 DEF Accept, Request, Searches, Enter, Log, Open, Goes, childVars, TypeInv, TypeOK
  <1>5. ASSUME NEW c \in Child, Leave(c) PROVE pc[d] \in Early /\ offset'[d] = offset[d]
    BY <1>1, <1>5 DEF Leave, childVars, TypeInv, TypeOK
  <1>6. ASSUME NEW c \in Child, Serve(c) \/ Copy(c) PROVE pc[d] \in Early /\ offset'[d] = offset[d]
    BY <1>1, <1>6 DEF Serve, Copy, TypeInv, TypeOK
  <1>7. CASE UNCHANGED vars
    BY <1>1, <1>7 DEF vars, childVars
  <1>8. QED
    BY <1>2, <1>3, <1>4, <1>5, <1>6, <1>7 DEF Next, Work

\* A writer that goes on, has written everything, or is noted as cut short
\* leaves FileInv alone.
LEMMA FileKept ==
    ASSUME TypeInv, FileInv, UNCHANGED <<cache, url>>, cut \subseteq cut',
           \A d \in Child : pc[d] = "copying" =>
              \/ pc'[d] = "copying" /\ offset'[d] = offset[d]
              \/ url[d] \in cut'
              \/ offset[d] = Pieces
    PROVE  FileInv'
  <1>1. SUFFICES ASSUME NEW u \in DOMAIN cache \ cut', NEW k \in 1..Pieces,
                        ~(k <= Len(cache[u]) /\ cache[u][k] = k)
                 PROVE  \E c \in Child : pc'[c] = "copying" /\ url[c] = u /\ offset'[c] < k
    BY DEF FileInv
  <1>2. PICK c \in Child : pc[c] = "copying" /\ url[c] = u /\ offset[c] < k
    BY <1>1 DEF FileInv
  <1>3. offset[c] # Pieces
    BY <1>2, PiecesAssumption DEF TypeInv, TypeOK
  <1>4. QED
    BY <1>1, <1>2, <1>3

LEMMA FileStep ==
    ASSUME TypeInv, StartsAtFirst, FileInv, [Next]_vars
    PROVE  FileInv'
  <1>1. CASE Start \/ SetVal \/ Reap \/ ServerEnds
    <2>1. UNCHANGED <<cache, cut, url, offset>>
      BY <1>1 DEF Start, SetVal, Reap, ServerEnds, childVars, fileVars
    <2>2. \A d \in Child : pc[d] = "copying" => pc'[d] = "copying"
      BY <1>1 DEF Start, SetVal, Reap, Reaped, ServerEnds
    <2>3. QED
      BY <2>1, <2>2, FileKept
  <1>2. ASSUME NEW c \in Child, NoRequest(c) \/ Served(c) \/ Copied(c)
        PROVE  FileInv'
    <2>1. Ends(c) /\ UNCHANGED <<cache, cut, offset, url>> /\ (pc[c] = "copying" => offset[c] = Pieces)
      BY <1>2 DEF NoRequest, Served, Copied, Ends, fileVars
    <2>2. \A d \in Child : d # c => pc'[d] = pc[d]
      BY <2>1 DEF Ends, TypeInv, TypeOK
    <2>3. QED
      BY <2>1, <2>2, FileKept
  <1>3. ASSUME NEW c \in Child, OriginFails(c) \/ Ended(c) PROVE FileInv'
    <2>1. Ends(c) /\ Cut(c) /\ UNCHANGED <<cache, offset, url>>
      BY <1>3 DEF OriginFails, Ended, Ends
    <2>2. \A d \in Child : d # c => pc'[d] = pc[d]
      BY <2>1 DEF Ends, TypeInv, TypeOK
    <2>3. cut \subseteq cut' /\ (pc[c] = "copying" => url[c] \in cut')
      BY <2>1 DEF Cut
    <2>4. QED
      BY <2>1, <2>2, <2>3, FileKept
  <1>4. ASSUME NEW c \in Child, Accept(c) \/ Request(c) \/ Searches(c) \/ Enter(c) \/ Log(c) \/ Leave(c)
        PROVE  FileInv'
    <2>1. pc[c] # "copying" /\ UNCHANGED <<cache, cut, offset, url>>
      BY <1>4 DEF Accept, Request, Searches, Lookup, Enter, Log, Leave, Goes, childVars, fileVars
    <2>2. \A d \in Child : d # c => pc'[d] = pc[d]
      BY <1>4 DEF Accept, Request, Searches, Enter, Log, Leave, Goes, TypeInv, TypeOK
    <2>3. QED
      BY <2>1, <2>2, FileKept
  <1>5. ASSUME NEW c \in Child, Serve(c) PROVE FileInv'
    <2>1. pc[c] = "serving" /\ UNCHANGED <<cache, cut, url, pc>>
      BY <1>5 DEF Serve, fileVars
    <2>2. \A d \in Child : d # c => offset'[d] = offset[d]
      BY <1>5 DEF Serve, TypeInv, TypeOK
    <2>3. QED
      BY <2>1, <2>2, FileKept
  <1>6. ASSUME NEW c \in Child, Open(c) PROVE FileInv'
    <2>1. CASE UNCHANGED cache
      <3>1. pc[c] = "fetching" /\ UNCHANGED <<cache, cut, url, offset>>
        BY <1>6, <2>1 DEF Open, Goes, childVars
      <3>2. \A d \in Child : d # c => pc'[d] = pc[d]
        BY <1>6 DEF Open, Goes, TypeInv, TypeOK
      <3>3. QED
        BY <3>1, <3>2, FileKept
    <2>2. CASE /\ Goes(c, "fetching", "copying")
               /\ cache' = [u \in DOMAIN cache \cup {url[c]} |->
                               IF u = url[c] THEN <<>> ELSE cache[u]]
      <3>1. SUFFICES ASSUME NEW u \in DOMAIN cache' \ cut', NEW k \in 1..Pieces,
                            ~(k <= Len(cache'[u]) /\ cache'[u][k] = k)
                     PROVE  \E d \in Child : pc'[d] = "copying" /\ url'[d] = u /\ offset'[d] < k
        BY DEF FileInv
      <3>2. UNCHANGED <<url, offset, cut>>
        BY <1>6 DEF Open, childVars
      <3>3. pc'[c] = "copying" /\ \A d \in Child : d # c => pc'[d] = pc[d]
        BY <2>2 DEF Goes, TypeInv, TypeOK
      <3>4. CASE u = url[c]
        <4>1. offset[c] = 0
          BY <2>2 DEF Goes, StartsAtFirst, Early
        <4>2. offset'[c] < k
          BY <3>2, <4>1
        <4>3. QED
          BY <3>2, <3>3, <3>4, <4>2
      <3>5. CASE u # url[c]
        <4>1. u \in DOMAIN cache \ cut /\ cache'[u] = cache[u]
          BY <2>2, <3>2, <3>5
        <4>2. PICK d \in Child : pc[d] = "copying" /\ url[d] = u /\ offset[d] < k
          BY <3>1, <4>1 DEF FileInv
        <4>3. d # c
          BY <3>5, <4>2
        <4>4. QED
          BY <3>2, <3>3, <4>2, <4>3
      <3>6. QED
        BY <3>4, <3>5
    <2>3. QED
      BY <1>6, <2>1, <2>2 DEF Open
  <1>7. ASSUME NEW c \in Child, Copy(c) PROVE FileInv'
    <2>1. UNCHANGED <<pc, url, cut>> /\ DOMAIN cache' = DOMAIN cache
      BY <1>7 DEF Copy
    <2>2. /\ offset[c] + 1 \in 1..Pieces /\ offset'[c] = offset[c] + 1
          /\ \A d \in Child : d # c => offset'[d] = offset[d]
      BY <1>7, PiecesAssumption DEF Copy, TypeInv, TypeOK
    <2>3. SUFFICES ASSUME NEW u \in DOMAIN cache \ cut, NEW k \in 1..Pieces,
                          ~(k <= Len(cache'[u]) /\ cache'[u][k] = k)
                   PROVE  \E d \in Child : pc[d] = "copying" /\ url[d] = u /\ offset'[d] < k
      BY <2>1 DEF FileInv
    <2>4. cache[u] \in Seq(0..Pieces) /\ Len(cache[u]) <= Pieces
      BY DEF TypeInv, TypeOK
    <2>5. CASE pc[c] = "copying" /\ url[c] = u
      <3> DEFINE w == Written(cache[u], offset[c] + 1, offset[c] + 1)
      <3>1. cache'[u] = w
        BY <1>7, <2>5 DEF Copy
      <3>2. /\ \A i \in 1..Len(cache[u]) : i # offset[c] + 1 => w[i] = cache[u][i]
            /\ offset[c] + 1 <= Len(w) /\ w[offset[c] + 1] = offset[c] + 1
            /\ Len(cache[u]) <= Len(w) /\ Len(w) \in Nat
        BY <2>2, <2>4, WrittenType
      <3> HIDE DEF w
      <3>3. k # offset[c] + 1
        BY <2>3, <3>1, <3>2
      <3>4. ~(k <= Len(cache[u]) /\ cache[u][k] = k)
        <4>1. SUFFICES ASSUME k <= Len(cache[u]), cache[u][k] = k PROVE FALSE
          OBVIOUS
        <4>2. Len(cache[u]) \in Nat
          BY <2>4
        <4>3. w[k] = k /\ k <= Len(w)
          BY <3>2, <3>3, <4>1, <4>2
        <4>4. QED
          BY <2>3, <3>1, <4>3
      <3>5. PICK d \in Child : pc[d] = "copying" /\ url[d] = u /\ offset[d] < k
        BY <3>4 DEF FileInv
      <3>6. offset'[d] < k
        <4>1. offset[d] \in Nat
          BY DEF TypeInv, TypeOK
        <4>2. QED
          BY <2>2, <3>3, <3>5, <4>1
      <3>7. QED
        BY <3>5, <3>6
    <2>6. CASE ~(pc[c] = "copying" /\ url[c] = u)
      <3>1. cache'[u] = cache[u]
        BY <1>7, <2>6 DEF Copy
      <3>2. PICK d \in Child : pc[d] = "copying" /\ url[d] = u /\ offset[d] < k
        BY <2>3, <3>1 DEF FileInv
      <3>3. d # c
        BY <2>6, <3>2
      <3>4. QED
        BY <2>2, <3>2, <3>3
    <2>7. QED
      BY <2>5, <2>6
  <1>8. CASE UNCHANGED vars
    BY <1>8, FileKept DEF vars, childVars, fileVars
  <1>9. QED
    BY <1>1, <1>2, <1>3, <1>4, <1>5, <1>6, <1>7, <1>8 DEF Next, Work

-----------------------------------------------------------------------------
(* The log. *)

Owes(c) == (pc[c] = "logged" /\ ~found[c]) \/ pc[c] = "fetching"

\* Nothing is logged and no file appears.
LEMMA LogKept ==
    ASSUME LogInv, UNCHANGED <<logfile, url>>,
           \A u \in DOMAIN cache' : u \in DOMAIN cache \/ Missed(u),
           \A c \in Child : Owes(c)' => Owes(c)
    PROVE  LogInv'
  <1>1. \A u : Missed(u)' <=> Missed(u)
    BY DEF Missed
  <1>2. HitAfterMiss'
    BY DEF LogInv, HitAfterMiss
  <1>3. QED
    BY <1>1, <1>2 DEF LogInv, Owes

\* A line is added; if it is a hit, the miss is there.
LEMMA LogGrows ==
    ASSUME TypeInv, LogInv, NEW line, logfile' = Append(logfile, line),
           line.kind = "hit" => Missed(line.url),
           UNCHANGED <<cache, url>>,
           \A c \in Child : Owes(c)' => Owes(c) \/ line = [kind |-> "miss", url |-> url[c]]
    PROVE  LogInv'
  <1>1. /\ Len(logfile) \in Nat /\ Len(logfile') = Len(logfile) + 1
        /\ logfile'[Len(logfile) + 1] = line
        /\ \A j \in 1..Len(logfile) : logfile'[j] = logfile[j]
    BY DEF TypeInv, TypeOK
  <1>2. ASSUME NEW u, Missed(u) PROVE Missed(u)'
    <2>1. PICK j \in 1..Len(logfile) : logfile[j] = [kind |-> "miss", url |-> u]
      BY <1>2 DEF Missed
    <2>2. j \in 1..Len(logfile') /\ logfile'[j] = [kind |-> "miss", url |-> u]
      BY <1>1, <2>1
    <2>3. QED
      BY <2>2 DEF Missed
  <1>3. ASSUME NEW u, line = [kind |-> "miss", url |-> u] PROVE Missed(u)'
    <2>1. Len(logfile) + 1 \in 1..Len(logfile')
      BY <1>1
    <2>2. QED
      BY <1>1, <1>3, <2>1 DEF Missed
  <1>4. HitAfterMiss'
    <2>1. SUFFICES ASSUME NEW i \in 1..Len(logfile'), logfile'[i].kind = "hit"
                   PROVE  \E j \in 1..i - 1 : logfile'[j] = [kind |-> "miss", url |-> logfile'[i].url]
      BY DEF HitAfterMiss
    <2>2. CASE i = Len(logfile) + 1
      <3>1. logfile'[i] = line
        BY <1>1, <2>2
      <3>2. PICK j \in 1..Len(logfile) : logfile[j] = [kind |-> "miss", url |-> line.url]
        BY <2>1, <3>1 DEF Missed
      <3>3. j \in 1..i - 1 /\ logfile'[j] = logfile[j]
        BY <1>1, <2>2
      <3>4. QED
        BY <3>1, <3>2, <3>3
    <2>3. CASE i # Len(logfile) + 1
      <3>1. i \in 1..Len(logfile) /\ logfile'[i] = logfile[i]
        BY <1>1, <2>3
      <3>2. PICK j \in 1..i - 1 : logfile[j] = [kind |-> "miss", url |-> logfile[i].url]
        BY <2>1, <3>1 DEF LogInv, HitAfterMiss
      <3>3. logfile'[j] = logfile[j]
        BY <1>1, <3>1
      <3>4. QED
        BY <3>1, <3>2, <3>3
    <2>4. QED
      BY <2>2, <2>3
  <1>5. QED
    BY <1>2, <1>3, <1>4 DEF LogInv, Owes

LEMMA LogStep ==
    ASSUME TypeInv, LogInv, [Next]_vars
    PROVE  LogInv'
  <1>1. CASE Start \/ SetVal
    BY <1>1, LogKept DEF Start, SetVal, Owes, childVars, fileVars
  <1>2. CASE Reap
    <2>1. UNCHANGED <<cache, logfile, url, found>>
      BY <1>2 DEF Reap, childVars, fileVars
    <2>2. \A c \in Child : Owes(c)' => Owes(c)
      BY <1>2, <2>1 DEF Reap, Owes
    <2>3. QED
      BY <2>1, <2>2, LogKept
  <1>3. ASSUME NEW line, line = [kind |-> "terminated"],
               logfile' = Append(logfile, line) \/ UNCHANGED logfile,
               UNCHANGED <<cache, url>>, \A c \in Child : Owes(c)' => Owes(c)
        PROVE  LogInv'
    <2>1. line.kind # "hit"
      BY <1>3
    <2>2. QED
      BY <1>3, <2>1, LogKept, LogGrows
  <1>4. CASE ServerEnds
    <2>1. UNCHANGED <<cache, url, found>>
      BY <1>4 DEF ServerEnds, childVars
    <2>2. \A c \in Child : Owes(c)' => Owes(c)
      BY <1>4, <2>1 DEF ServerEnds, Owes
    <2>3. QED
      BY <1>3, <1>4, <2>1, <2>2 DEF ServerEnds
  <1>5. ASSUME NEW c \in Child, Ends(c) PROVE \A d \in Child : Owes(d)' => Owes(d)
    BY <1>5 DEF Ends, Owes, TypeInv, TypeOK
  <1>6. ASSUME NEW c \in Child, NoRequest(c) \/ Served(c) \/ Copied(c) \/ OriginFails(c)
        PROVE  LogInv'
    <2>1. Ends(c) /\ UNCHANGED <<cache, logfile, url>>
      BY <1>6 DEF NoRequest, Served, Copied, OriginFails, Ends, fileVars
    <2>2. QED
      BY <1>5, <2>1, LogKept
  <1>7. ASSUME NEW c \in Child, Ended(c) PROVE LogInv'
    <2>1. Ends(c) /\ UNCHANGED <<cache, url>>
      BY <1>7 DEF Ended, Ends
    <2>2. logfile' = Append(logfile, [kind |-> "terminated"]) \/ UNCHANGED logfile
      BY <1>7 DEF Ended
    <2>3. QED
      BY <1>3, <1>5, <2>1, <2>2
  <1>8. ASSUME NEW c \in Child, Accept(c) \/ Request(c) \/ Searches(c) \/ Enter(c) \/ Leave(c)
        PROVE  LogInv'
    <2>1. UNCHANGED <<cache, logfile, url>>
      BY <1>8 DEF Accept, Request, Searches, Lookup, Enter, Leave, childVars, fileVars
    <2>2. \A d \in Child : d # c => pc'[d] = pc[d] /\ found'[d] = found[d]
      BY <1>8 DEF Accept, Request, Searches, Lookup, Enter, Leave, Goes, childVars, TypeInv, TypeOK
    <2>3. Owes(c)' => Owes(c)
      BY <1>8 DEF Accept, Request, Searches, Enter, Leave, Goes, Owes, childVars, TypeInv, TypeOK
    <2>4. QED
      BY <2>1, <2>2, <2>3, LogKept DEF Owes
  <1>9. ASSUME NEW c \in Child, Log(c) PROVE LogInv'
    <2> DEFINE line == [kind |-> IF found[c] THEN "hit" ELSE "miss", url |-> url[c]]
    <2>1. logfile' = Append(logfile, line) /\ UNCHANGED <<cache, url, found>>
      BY <1>9 DEF Log, childVars
    <2>2. line.kind = "hit" => Missed(line.url)
      BY DEF TypeInv, FoundIsThere, LogInv
    <2>3. \A d \in Child : Owes(d)' => Owes(d) \/ line = [kind |-> "miss", url |-> url[d]]
      <3>1. \A d \in Child : d # c => pc'[d] = pc[d]
        BY <1>9 DEF Log, Goes, TypeInv, TypeOK
      <3>2. ~found[c] => line = [kind |-> "miss", url |-> url[c]]
        OBVIOUS
      <3>3. Owes(c)' => ~found[c]
        BY <1>9, <2>1 DEF Log, Goes, Owes, TypeInv, TypeOK
      <3> HIDE DEF line
      <3>4. QED
        BY <2>1, <3>1, <3>2, <3>3 DEF Owes
    <2> HIDE DEF line
    <2>4. QED
      BY <2>1, <2>2, <2>3, LogGrows
  <1>10. ASSUME NEW c \in Child, Serve(c) \/ Copy(c) PROVE LogInv'
    <2>1. UNCHANGED <<logfile, url, pc, found>> /\ DOMAIN cache' = DOMAIN cache
      BY <1>10 DEF Serve, Copy, fileVars
    <2>2. QED
      BY <2>1, LogKept DEF Owes
  <1>11. ASSUME NEW c \in Child, Open(c) PROVE LogInv'
    <2>1. pc[c] = "fetching" /\ UNCHANGED <<logfile, url, found>>
      BY <1>11 DEF Open, Goes, childVars
    <2>2. Missed(url[c])
      BY <2>1 DEF LogInv
    <2>3. \A u \in DOMAIN cache' : u \in DOMAIN cache \/ Missed(u)
      BY <1>11, <2>2 DEF Open
    <2>4. \A d \in Child : Owes(d)' => Owes(d)
      BY <1>11, <2>1 DEF Open, Goes, Owes, TypeInv, TypeOK
    <2>5. QED
      BY <2>1, <2>3, <2>4, LogKept
  <1>12. CASE UNCHANGED vars
    BY <1>12, LogKept DEF vars, childVars, fileVars, Owes
  <1>13. QED
    BY <1>1, <1>2, <1>4, <1>6, <1>7, <1>8, <1>9, <1>10, <1>11, <1>12 DEF Next, Work

-----------------------------------------------------------------------------
(* The theorems. *)

IInv == TypeInv /\ SemInv /\ StartsAtFirst /\ FileInv /\ LogInv

\* The conjunction of all parts holds in every reachable state.
THEOREM SynchronizedInvariant == Spec => []IInv
  <1>1. Init => IInv
    <2>1. SUFFICES ASSUME Init PROVE StartsAtFirst /\ FileInv /\ LogInv
      BY TypeInit, SemInit DEF IInv
    <2>2. DOMAIN cache = {} /\ Len(logfile) = 0
      BY <2>1 DEF Init
    <2>3. \A c \in Child : pc[c] = "none" /\ offset[c] = 0
      BY <2>1 DEF Init
    <2>4. QED
      BY <2>2, <2>3 DEF StartsAtFirst, FileInv, LogInv, HitAfterMiss
  <1>2. IInv /\ [Next]_vars => IInv'
    <2>1. TypeInv => PcType
      BY DEF TypeInv, TypeOK, PcType
    <2>2. QED
      BY <2>1, TypeStep, SemStep, StartsStep, FileStep, LogStep DEF IInv
  <1>3. QED
    BY <1>1, <1>2, PTL DEF Spec

\* Every variable keeps its type, and no cache file outgrows its page.
THEOREM SynchronizedTypes == Spec => []TypeOK
  <1>1. IInv => TypeOK
    BY DEF IInv, TypeInv
  <1>2. QED
    BY <1>1, SynchronizedInvariant, PTL

\* At most one child is between its two calls of semop.
THEOREM Exclusion == Spec => []MutualExclusion
  <1>1. IInv => MutualExclusion
    BY DEF IInv, SemInv
  <1>2. QED
    BY <1>1, SynchronizedInvariant, PTL

\* No end of a child, in the region or out of it, loses the semaphore.
THEOREM NotLost == Spec => []SemaphoreReturned
  <1>1. IInv => SemaphoreReturned
    BY DEF IInv, SemInv
  <1>2. QED
    BY <1>1, SynchronizedInvariant, PTL

\* However many children write a page's file at the same time, it is the page
\* once they are through.
THEOREM WholeInTheEnd == Spec => []WholeWhenQuiet
  <1>1. ASSUME IInv PROVE WholeWhenQuiet
    <2>1. SUFFICES ASSUME NEW u \in DOMAIN cache \ cut,
                          \A c \in Child : ~(pc[c] = "copying" /\ url[c] = u)
                   PROVE  cache[u] = Page
      BY DEF WholeWhenQuiet
    <2>2. cache[u] \in Seq(0..Pieces) /\ Len(cache[u]) <= Pieces
      BY <1>1 DEF IInv, TypeInv, TypeOK
    <2>3. \A k \in 1..Pieces : k <= Len(cache[u]) /\ cache[u][k] = k
      BY <1>1, <2>1 DEF IInv, FileInv
    <2>4. Len(cache[u]) = Pieces
      <3>1. Len(cache[u]) \in Nat
        BY <2>2
      <3>2. CASE Pieces = 0
        BY <2>2, <3>1, <3>2
      <3>3. CASE Pieces # 0
        <4>1. Pieces \in 1..Pieces
          BY <3>3, PiecesAssumption
        <4>2. QED
          BY <2>2, <2>3, <3>1, <4>1, PiecesAssumption
      <3>4. QED
        BY <3>2, <3>3
    <2>5. QED
      BY <2>2, <2>3, <2>4, PiecesAssumption DEF Page
  <1>2. IInv => WholeWhenQuiet
    BY <1>1
  <1>3. QED
    BY <1>2, SynchronizedInvariant, PTL

\* The log never has a hit before its miss.
THEOREM LoggedInOrder == Spec => []HitAfterMiss
  <1>1. IInv => HitAfterMiss
    BY DEF IInv, LogInv
  <1>2. QED
    BY <1>1, SynchronizedInvariant, PTL

-----------------------------------------------------------------------------
(* The thread.                                                                *)

\* A child has no thread before the region, and a running one only in it.
ThreadInv ==
    /\ pc \in [Child -> Working \cup {"none", "zombie", "gone"}]
    /\ thread \in [Child -> {"none", "running", "exited"}]
    /\ ThreadInRegion
    /\ \A c \in Child :
          pc[c] \in {"none", "reading", "lookup", "waiting"} => thread[c] = "none"

LEMMA ThreadInit == ThreadedInit => ThreadInv
  BY DEF ThreadedInit, Init, ThreadInv, ThreadInRegion

\* A step of one child that moves neither into nor out of the critical steps,
\* with its thread as it was.
LEMMA ThreadMoves ==
    ASSUME ThreadInv, NEW c \in Child, NEW p \in Working \cup {"none", "zombie", "gone"},
           pc' = [pc EXCEPT ![c] = p], UNCHANGED thread, thread[c] # "running",
           p \in {"none", "reading", "lookup", "waiting"} => thread[c] = "none"
    PROVE  ThreadInv'
  BY DEF ThreadInv, ThreadInRegion

LEMMA ThreadStep ==
    ASSUME ThreadInv, [ThreadedNext]_threadedVars
    PROVE  ThreadInv'
  <1>1. CASE (Start \/ SetVal) /\ UNCHANGED thread
    BY <1>1 DEF Start, SetVal, ThreadInv, ThreadInRegion
  <1>2. CASE (Reap \/ ServerEnds) /\ UNCHANGED thread
    <2>1. \A c \in Child : pc'[c] = pc[c] \/ (pc[c] = "zombie" /\ pc'[c] = "gone")
      BY <1>2 DEF Reap, Reaped, ServerEnds
    <2>2. pc' \in [Child -> Working \cup {"none", "zombie", "gone"}]
      BY <1>2 DEF Reap, ServerEnds, ThreadInv
    <2>3. QED
      BY <1>2, <2>1, <2>2 DEF ThreadInv, ThreadInRegion
  <1>3. ASSUME NEW c \in Child, Accept(c), UNCHANGED thread PROVE ThreadInv'
    <2>1. PICK p \in {"reading", "gone"} : pc' = [pc EXCEPT ![c] = p]
      BY <1>3 DEF Accept
    <2>2. thread[c] = "none"
      BY <1>3 DEF Accept, ThreadInv
    <2>3. QED
      BY <1>3, <2>1, <2>2, ThreadMoves DEF Working
  <1>4. ASSUME NEW c \in Child, Ends(c), UNCHANGED thread, pc[c] # "critical"
        PROVE  ThreadInv'
    <2>1. PICK p \in {"zombie", "gone"} : pc' = [pc EXCEPT ![c] = p]
      BY <1>4 DEF Ends
    <2>2. thread[c] # "running"
      BY <1>4 DEF ThreadInv, ThreadInRegion
    <2>3. QED
      BY <1>4, <2>1, <2>2, ThreadMoves
  <1>5. ASSUME NEW c \in Child, NoRequest(c) \/ Served(c) \/ Copied(c) \/ OriginFails(c),
               UNCHANGED thread
        PROVE  ThreadInv'
    BY <1>4, <1>5 DEF NoRequest, Served, Copied, OriginFails
  <1>6. ASSUME NEW c \in Child, Request(c) \/ Searches(c) \/ Enter(c), UNCHANGED thread
        PROVE  ThreadInv'
    <2>1. thread[c] = "none"
      BY <1>6 DEF Request, Searches, Enter, Goes, ThreadInv
    <2>2. PICK p \in Working : pc' = [pc EXCEPT ![c] = p]
      BY <1>6 DEF Request, Searches, Enter, Goes, Working
    <2>3. QED
      BY <1>6, <2>1, <2>2, ThreadMoves
  <1>7. ASSUME NEW c \in Child, Leave(c) \/ Open(c), UNCHANGED thread PROVE ThreadInv'
    <2>1. thread[c] # "running"
      BY <1>7 DEF Leave, Open, Goes, ThreadInv, ThreadInRegion
    <2>2. PICK p \in {"serving", "fetching", "copying", "relaying"} : pc' = [pc EXCEPT ![c] = p]
      BY <1>7 DEF Leave, Open, Goes
    <2>3. QED
      BY <1>7, <2>1, <2>2, ThreadMoves DEF Working
  <1>8. ASSUME NEW c \in Child, Serve(c) \/ Copy(c), UNCHANGED thread PROVE ThreadInv'
    BY <1>8 DEF Serve, Copy, ThreadInv, ThreadInRegion
  <1>9. ASSUME NEW c \in Child, CreateThread(c) PROVE ThreadInv'
    BY <1>9 DEF CreateThread, Turns, vars, ThreadInv, ThreadInRegion
  <1>10. ASSUME NEW c \in Child, write_log_thread(c) PROVE ThreadInv'
    BY <1>10 DEF write_log_thread, Turns, ThreadInv, ThreadInRegion
  <1>11. ASSUME NEW c \in Child, Join(c) PROVE ThreadInv'
    BY <1>11, ThreadMoves DEF Join, Joinable, Goes, Working
  <1>12. ASSUME NEW c \in Child, EndedWithThread(c) PROVE ThreadInv'
    <2>1. PICK p \in {"zombie", "gone"} : pc' = [pc EXCEPT ![c] = p]
      BY <1>12 DEF EndedWithThread, Ended, Ends
    <2>2. QED
      BY <1>12, <2>1 DEF EndedWithThread, ThreadInv, ThreadInRegion
  <1>13. CASE UNCHANGED threadedVars
    BY <1>13 DEF threadedVars, vars, ThreadInv, ThreadInRegion
  <1>14. QED
    BY <1>1, <1>2, <1>3, <1>5, <1>6, <1>7, <1>8, <1>9, <1>10, <1>11, <1>12, <1>13
       DEF ThreadedNext, ChildWork

THEOREM ThreadedInvariant == ThreadedSpec => []ThreadInv
  BY ThreadInit, ThreadStep, PTL DEF ThreadedSpec

\* The log thread runs only while its child is in the region, waiting for it.
THEOREM ThreadContained == ThreadedSpec => []ThreadInRegion
  <1>1. ThreadInv => ThreadInRegion
    BY DEF ThreadInv
  <1>2. QED
    BY <1>1, ThreadedInvariant, PTL

-----------------------------------------------------------------------------
(* The proxy without a thread. *)

\* Where SynchronizedProxy has each child.
At == [c \in Child |-> IF pc[c] = "critical" /\ thread[c] = "exited" THEN "logged" ELSE pc[c]]

\* A child that is not waiting for its thread is where it is.
LEMMA AtPc ==
    ASSUME NEW c \in Child, pc[c] # "critical" \/ thread[c] # "exited"
    PROVE  At[c] = pc[c]
  BY DEF At

LEMMA AtMoves ==
    ASSUME ThreadInv, NEW c \in Child, NEW p, pc' = [pc EXCEPT ![c] = p],
           UNCHANGED thread, p = "critical" => thread[c] # "exited"
    PROVE  At' = [At EXCEPT ![c] = p]
  BY DEF At, ThreadInv

LEMMA AtKept ==
    ASSUME UNCHANGED <<pc, thread>>
    PROVE  At' = At
  BY DEF At

LEMMA RefinesInit == ThreadedInit => Synchronized!Init
  BY DEF ThreadedInit, Init, Synchronized!Init, NoSemaphore, Synchronized!NoSemaphore

\* A child outside the critical steps ends alike in both.
LEMMA EndsAlike ==
    ASSUME ThreadInv, NEW c \in Child, Ends(c),
           thread' = thread \/ thread' = [thread EXCEPT ![c] = "none"]
    PROVE  Synchronized!Ends(c)
  <1>1. PICK p \in {"zombie", "gone"} : /\ pc' = [pc EXCEPT ![c] = p]
                                        /\ p = IF HasParent(c) THEN "zombie" ELSE "gone"
    BY DEF Ends
  <1>2. At' = [At EXCEPT ![c] = p]
    BY <1>1 DEF At, ThreadInv
  <1>3. QED
    BY <1>1, <1>2 DEF At, Ends, HasParent, Synchronized!Ends, Synchronized!HasParent,
       serverVars, Synchronized!serverVars

LEMMA RefinesStep ==
    ASSUME ThreadInv, [ThreadedNext]_threadedVars
    PROVE  [Synchronized!Next]_(Synchronized!vars)
  <1> USE DEF serverVars, semVars, childVars, fileVars, Synchronized!serverVars,
              Synchronized!semVars, Synchronized!childVars, Synchronized!fileVars
  <1>1. CASE Start /\ UNCHANGED thread
    <2>1. At' = At
      BY <1>1, AtKept DEF Start
    <2>2. Synchronized!Start
      BY <1>1, <2>1 DEF Start, Semget, At, NoSemaphore,
         Synchronized!Start, Synchronized!Semget, Synchronized!NoSemaphore
    <2>3. QED
      BY <2>2 DEF Synchronized!Next
  <1>2. CASE SetVal /\ UNCHANGED thread
    <2>1. At' = At
      BY <1>2, AtKept DEF SetVal
    <2>2. Synchronized!SetVal
      BY <1>2, <2>1 DEF SetVal, At, Synchronized!SetVal
    <2>3. QED
      BY <2>2 DEF Synchronized!Next
  <1>3. CASE Reap /\ UNCHANGED thread
    <2>1. \A c \in Child : At[c] = "zombie" <=> pc[c] = "zombie"
      BY DEF At
    <2>2. At' = [c \in Child |-> IF c \in {d \in Child : At[d] = "zombie"} THEN "gone" ELSE At[c]]
      BY <1>3, <2>1 DEF Reap, Reaped, At
    <2>3. Synchronized!Reap
      BY <1>3, <2>2 DEF Reap, At, Synchronized!Reap, Synchronized!Reaped
    <2>4. QED
      BY <2>3 DEF Synchronized!Next
  <1>4. CASE ServerEnds /\ UNCHANGED thread
    <2>1. At' = [c \in Child |-> IF At[c] = "zombie" THEN "gone" ELSE At[c]]
      BY <1>4 DEF ServerEnds, At
    <2>2. Synchronized!ServerEnds
      BY <1>4, <2>1 DEF ServerEnds, At, Synchronized!ServerEnds
    <2>3. QED
      BY <2>2 DEF Synchronized!Next
  <1>5. ASSUME NEW c \in Child, Accept(c), UNCHANGED thread PROVE Synchronized!Accept(c)
    <2>1. PICK p \in {"reading", "gone"} : pc' = [pc EXCEPT ![c] = p]
      BY <1>5 DEF Accept
    <2>2. At' = [At EXCEPT ![c] = p] /\ At[c] = pc[c]
      BY <1>5, <2>1, AtMoves, AtPc DEF Accept
    <2>3. QED
      BY <1>5, <2>1, <2>2 DEF Accept, At, Synchronized!Accept
  <1>6. ASSUME NEW c \in Child, NoRequest(c) \/ Served(c) \/ Copied(c) \/ OriginFails(c),
               UNCHANGED thread
        PROVE  Synchronized!NoRequest(c) \/ Synchronized!Served(c)
               \/ Synchronized!Copied(c) \/ Synchronized!OriginFails(c)
    <2>1. At[c] = pc[c]
      BY <1>6, AtPc DEF NoRequest, Served, Copied, OriginFails
    <2>2. Synchronized!Ends(c)
      BY <1>6, EndsAlike DEF NoRequest, Served, Copied, OriginFails
    <2>3. CASE NoRequest(c)
      BY <2>1, <2>2, <2>3 DEF NoRequest, At, Synchronized!NoRequest
    <2>4. CASE Served(c)
      BY <2>1, <2>2, <2>4 DEF Served, At, Synchronized!Served
    <2>5. CASE Copied(c)
      BY <2>1, <2>2, <2>5 DEF Copied, At, Synchronized!Copied
    <2>6. CASE OriginFails(c)
      BY <2>1, <2>2, <2>6 DEF OriginFails, Cut, At, Synchronized!OriginFails, Synchronized!Cut
    <2>7. QED
      BY <1>6, <2>3, <2>4, <2>5, <2>6
  <1>7. ASSUME NEW c \in Child, Request(c), UNCHANGED thread PROVE Synchronized!Request(c)
    <2>1. At[c] = pc[c] /\ At' = [At EXCEPT ![c] = "lookup"]
      BY <1>7, AtPc, AtMoves DEF Request, Goes
    <2>2. QED
      BY <1>7, <2>1 DEF Request, Goes, At, Synchronized!Request, Synchronized!Goes
  <1>8. ASSUME NEW c \in Child, Searches(c), UNCHANGED thread PROVE Synchronized!Searches(c)
    <2>1. At[c] = pc[c] /\ At' = [At EXCEPT ![c] = "waiting"]
      BY <1>8, AtPc, AtMoves DEF Searches, Goes
    <2>2. QED
      BY <1>8, <2>1 DEF Searches, Lookup, Goes, At, Synchronized!Searches, Synchronized!Lookup, Synchronized!Goes
  <1>9. ASSUME NEW c \in Child, Enter(c), UNCHANGED thread PROVE Synchronized!Enter(c)
    <2>1. thread[c] = "none"
      BY <1>9 DEF Enter, Goes, ThreadInv
    <2>2. At[c] = pc[c] /\ At' = [At EXCEPT ![c] = "critical"]
      BY <1>9, <2>1, AtPc, AtMoves DEF Enter, Goes
    <2>3. QED
      BY <1>9, <2>2 DEF Enter, Goes, At, Synchronized!Enter, Synchronized!Goes
  <1>10. ASSUME NEW c \in Child, Leave(c), UNCHANGED thread PROVE Synchronized!Leave(c)
    <2>1. PICK p : pc' = [pc EXCEPT ![c] = p] /\ p = IF found[c] THEN "serving" ELSE "fetching"
      BY <1>10 DEF Leave
    <2>2. At[c] = pc[c] /\ At' = [At EXCEPT ![c] = p]
      BY <1>10, <2>1, AtPc, AtMoves DEF Leave
    <2>3. QED
      BY <1>10, <2>1, <2>2 DEF Leave, At, Synchronized!Leave
  <1>11. ASSUME NEW c \in Child, Serve(c) \/ Copy(c), UNCHANGED thread
         PROVE  Synchronized!Serve(c) \/ Synchronized!Copy(c)
    <2>1. At[c] = pc[c] /\ At' = At
      BY <1>11, AtPc, AtKept DEF Serve, Copy
    <2>2. CASE Serve(c)
      BY <2>1, <2>2 DEF Serve, At, Synchronized!Serve
    <2>3. CASE Copy(c)
      BY <2>1, <2>3 DEF Copy, Written, Hole, At, Synchronized!Copy, Synchronized!Written, Synchronized!Hole
    <2>4. QED
      BY <1>11, <2>2, <2>3
  <1>12. ASSUME NEW c \in Child, Open(c), UNCHANGED thread PROVE Synchronized!Open(c)
    <2>1. PICK p \in {"copying", "relaying"} : pc' = [pc EXCEPT ![c] = p] /\ pc[c] = "fetching"
      BY <1>12 DEF Open, Goes
    <2>2. At[c] = pc[c] /\ At' = [At EXCEPT ![c] = p]
      BY <1>12, <2>1, AtPc, AtMoves
    <2>3. CASE p = "copying"
      <3>1. cache' = [u \in DOMAIN cache \cup {url[c]} |-> IF u = url[c] THEN <<>> ELSE cache[u]]
        BY <1>12, <2>1, <2>3 DEF Open, Goes, ThreadInv
      <3>2. QED
        BY <1>12, <2>1, <2>2, <2>3, <3>1 DEF Open, At, Synchronized!Open, Synchronized!Goes
    <2>4. CASE p = "relaying"
      <3>1. cache' = cache
        BY <1>12, <2>1, <2>4 DEF Open, Goes, ThreadInv
      <3>2. QED
        BY <1>12, <2>1, <2>2, <2>4, <3>1 DEF Open, At, Synchronized!Open, Synchronized!Goes
    <2>5. QED
      BY <2>3, <2>4
  <1>13. ASSUME NEW c \in Child, CreateThread(c) PROVE UNCHANGED Synchronized!vars
    <2>1. At' = At
      BY <1>13 DEF CreateThread, Turns, vars, At, ThreadInv
    <2>2. QED
      BY <1>13, <2>1 DEF CreateThread, vars, At, Synchronized!vars
  <1>14. ASSUME NEW c \in Child, write_log_thread(c) PROVE Synchronized!Log(c)
    <2>1. pc[c] = "critical" /\ thread[c] = "running" /\ UNCHANGED pc
      BY <1>14 DEF write_log_thread, Turns, ThreadInv, ThreadInRegion
    <2>2. At[c] = "critical" /\ At' = [At EXCEPT ![c] = "logged"]
      BY <1>14, <2>1 DEF write_log_thread, Turns, At, ThreadInv
    <2>3. QED
      BY <1>14, <2>2 DEF write_log_thread, At, Synchronized!Log, Synchronized!Goes
  <1>15. ASSUME NEW c \in Child, Join(c) PROVE UNCHANGED Synchronized!vars
    <2>1. At' = At
      BY <1>15 DEF Join, Joinable, Goes, At, ThreadInv
    <2>2. QED
      BY <1>15, <2>1 DEF Join, At, Synchronized!vars
  <1>16. ASSUME NEW c \in Child, EndedWithThread(c) PROVE Synchronized!Ended(c)
    <2>1. Synchronized!Ends(c)
      BY <1>16, EndsAlike DEF EndedWithThread, Ended
    <2>2. At[c] \in Synchronized!Working
      BY <1>16 DEF EndedWithThread, Ended, Working, Synchronized!Working, At
    <2>3. pc[c] \in Region <=> At[c] \in Synchronized!Region
      BY DEF Region, Synchronized!Region, At
    <2>4. pc[c] = "copying" <=> At[c] = "copying"
      BY DEF At
    <2>5. Synchronized!Cut(c)
      BY <1>16, <2>4 DEF EndedWithThread, Ended, Cut, At, Synchronized!Cut
    <2>6. semval' = Synchronized!Undo(c)
      BY <1>16, <2>3 DEF EndedWithThread, Ended, Undo, At, Synchronized!Undo
    <2>7. QED
      BY <1>16, <2>1, <2>2, <2>5, <2>6 DEF EndedWithThread, Ended, At, Synchronized!Ended
  <1>17. CASE UNCHANGED threadedVars
    <2>1. At' = At
      BY <1>17, AtKept DEF threadedVars, vars
    <2>2. QED
      BY <1>17, <2>1 DEF threadedVars, vars, At, Synchronized!vars
  <1>18. QED
    <2>1. ASSUME NEW c \in Child,
                 \/ Synchronized!Accept(c) \/ Synchronized!NoRequest(c) \/ Synchronized!Request(c)
                 \/ Synchronized!Searches(c) \/ Synchronized!Enter(c) \/ Synchronized!Log(c)
                 \/ Synchronized!Leave(c) \/ Synchronized!Serve(c) \/ Synchronized!Served(c)
                 \/ Synchronized!Open(c) \/ Synchronized!Copy(c) \/ Synchronized!Copied(c)
                 \/ Synchronized!OriginFails(c) \/ Synchronized!Ended(c)
          PROVE  Synchronized!Next
      BY <2>1 DEF Synchronized!Next, Synchronized!Work
    <2>2. QED
      BY <1>1, <1>2, <1>3, <1>4, <1>5, <1>6, <1>7, <1>8, <1>9, <1>10, <1>11, <1>12, <1>13,
         <1>14, <1>15, <1>16, <1>17, <2>1 DEF ThreadedNext, ChildWork

\* The proxy with a log thread implements the one without.
THEOREM ThreadImplements == ThreadedSpec => ImplementsSynchronized
  <1>1. ThreadedSpec => Synchronized!Spec
    BY RefinesInit, RefinesStep, ThreadedInvariant, PTL DEF ThreadedSpec, Synchronized!Spec
  <1>2. QED
    BY <1>1 DEF ImplementsSynchronized
=============================================================================
