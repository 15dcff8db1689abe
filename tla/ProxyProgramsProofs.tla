------------------------- MODULE ProxyProgramsProofs -------------------------
(***************************************************************************)
(* What the programs 01 to 07 keep, for any number of sessions, clients    *)
(* and connections and any pages: the logs of the cache programs tell the  *)
(* truth, the clients of the cache server are shown what their children    *)
(* found, and the files the forking proxies share are whole once nobody    *)
(* writes them.                                                            *)
(***************************************************************************)
EXTENDS MCProxyPrograms, FiniteSetTheorems, TLAPS

-----------------------------------------------------------------------------
(* Counting lines. *)

\* Positions in a list that grows by one.
LEMMA OneMore ==
  ASSUME NEW n \in Nat, NEW S \in SUBSET (1..n)
  PROVE  /\ IsFiniteSet(S) /\ Cardinality(S) \in Nat /\ Cardinality(S) <= n
         /\ Cardinality(S \cup {n + 1}) = Cardinality(S) + 1
<1>1. IsFiniteSet(1..n) /\ Cardinality(1..n) = n
  BY FS_Interval
<1>2. IsFiniteSet(S) /\ Cardinality(S) <= n
  BY <1>1, FS_Subset
<1>3. n + 1 \notin S
  OBVIOUS
<1>. QED
  BY <1>2, <1>3, FS_AddElement, FS_CardinalityType

-----------------------------------------------------------------------------
(* 01 to 03: lines of the log and what makes one true. *)

Line ==
    [kind : {"server"}, count : Nat] \cup [kind : {"hit", "miss"}, url : Url]
    \cup [kind : {"bye"}, hit : Nat, miss : Nat]
Entry == [session : Number, child : Nat, line : Line]

\* The lines before the j-th of one kind that child k of session s has written.
LinesBefore(log, j, s, k, kind) ==
    {i \in 1..j - 1 : log[i].line.kind = kind /\ log[i].session = s /\ log[i].child = k}

NoMiss(log, j, s, u) ==
    \A i \in 1..j - 1 :
        log[i].line.kind = "miss" /\ log[i].session = s => log[i].line.url # u

LineTrue(log, j) ==
    LET last == log[j]
        Mine(kind) == Cardinality(LinesBefore(log, j, last.session, last.child, kind))
    IN  /\ last.line.kind = "miss" => NoMiss(log, j, last.session, last.line.url)
        /\ last.line.kind = "bye" => last.line.hit = Mine("hit") /\ last.line.miss = Mine("miss")

LogTrue(log) == \A j \in 1..Len(log) : LineTrue(log, j)

\* The lines of one kind that child k of session s has written so far.
Written(log, s, k, kind) == Cardinality(LinesBefore(log, Len(log) + 1, s, k, kind))

LEMMA CountedAlike == \A S : Caching!Cardinality(S) = Cardinality(S)
  BY DEF Caching!Cardinality, Cardinality

LEMMA LogTrueMeaning == LogTrue(logfile) => Caching!SessionLogTrue
<1>. SUFFICES ASSUME LogTrue(logfile) PROVE Caching!SessionLogTrue
  OBVIOUS
<1>1. ASSUME NEW j \in 1..Len(logfile), NEW kind
      PROVE  {i \in {i \in 1..j - 1 : /\ logfile[i].line.kind = kind
                                      /\ logfile[i].session = logfile[j].session} :
                 logfile[i].child = logfile[j].child}
             = LinesBefore(logfile, j, logfile[j].session, logfile[j].child, kind)
  BY DEF LinesBefore
<1>2. ASSUME NEW j \in 1..Len(logfile)
      PROVE  LET last == logfile[j]
                 Mine(kind) == {i \in 1..j - 1 : /\ logfile[i].line.kind = kind
                                                 /\ logfile[i].session = last.session}
                 Own(kind) ==
                     Caching!Cardinality({i \in Mine(kind) : logfile[i].child = last.child})
             IN  /\ last.line.kind = "miss" =>
                        \A i \in Mine("miss") : logfile[i].line.url # last.line.url
                 /\ last.line.kind = "bye" =>
                        last.line.hit = Own("hit") /\ last.line.miss = Own("miss")
  <2>1. LineTrue(logfile, j)
    BY DEF LogTrue
  <2>2. CASE logfile[j].line.kind = "miss"
    <3>1. NoMiss(logfile, j, logfile[j].session, logfile[j].line.url)
      BY <2>1, <2>2 DEF LineTrue
    <3>. QED
      BY <2>2, <3>1 DEF NoMiss
  <2>3. CASE logfile[j].line.kind = "bye"
    BY <1>1, <2>1, <2>3, CountedAlike DEF LineTrue
  <2>. QED
    BY <2>2, <2>3
<1>. QED
  BY <1>2 DEF Caching!SessionLogTrue

LEMMA AppendedLog ==
  ASSUME NEW S, NEW log \in Seq(S), NEW e \in S
  PROVE  /\ Append(log, e) \in Seq(S) /\ Len(log) \in Nat /\ Len(Append(log, e)) = Len(log) + 1
         /\ \A i \in 1..Len(log) : Append(log, e)[i] = log[i]
         /\ Append(log, e)[Len(log) + 1] = e
  OBVIOUS

\* What a line more changes in the counts of lines.
LEMMA WrittenGrows ==
  ASSUME NEW log \in Seq(Entry), NEW e \in Entry, NEW s, NEW k, NEW kind
  PROVE  /\ Written(log, s, k, kind) \in Nat
         /\ Written(Append(log, e), s, k, kind) =
               IF e.line.kind = kind /\ e.session = s /\ e.child = k
               THEN Written(log, s, k, kind) + 1 ELSE Written(log, s, k, kind)
<1>1. PICK n \in Nat : n = Len(log)
  OBVIOUS
<1>2. PICK new : new = Append(log, e)
  OBVIOUS
<1>3. Len(new) = n + 1 /\ (\A i \in 1..n : new[i] = log[i]) /\ new[n + 1] = e
  BY <1>1, <1>2, AppendedLog
<1>4. PICK P, Q : P = LinesBefore(log, n + 1, s, k, kind) /\ Q = LinesBefore(new, n + 2, s, k, kind)
  OBVIOUS
<1>5. P \in SUBSET (1..n)
  BY <1>4 DEF LinesBefore
<1>6. Q = IF e.line.kind = kind /\ e.session = s /\ e.child = k THEN P \cup {n + 1} ELSE P
  <2>1. 1..(n + 2 - 1) = (1..n) \cup {n + 1} /\ 1..(n + 1 - 1) = 1..n
    OBVIOUS
  <2>. QED
    BY <1>3, <1>4, <2>1 DEF LinesBefore
<1>7. Cardinality(P) \in Nat /\ Cardinality(P \cup {n + 1}) = Cardinality(P) + 1
  BY <1>5, OneMore
<1>8. Written(log, s, k, kind) = Cardinality(P) /\ Written(new, s, k, kind) = Cardinality(Q)
  <2>1. n + 1 + 1 = n + 2
    OBVIOUS
  <2>. QED
    BY <1>1, <1>3, <1>4, <2>1 DEF Written
<1>. QED
  BY <1>2, <1>6, <1>7, <1>8

\* A true line more leaves a true log.
LEMMA LogTrueGrows ==
  ASSUME NEW log \in Seq(Entry), NEW e \in Entry, LogTrue(log),
         e.line.kind = "miss" => NoMiss(log, Len(log) + 1, e.session, e.line.url),
         e.line.kind = "bye" => /\ e.line.hit = Written(log, e.session, e.child, "hit")
                                /\ e.line.miss = Written(log, e.session, e.child, "miss")
  PROVE  LogTrue(Append(log, e))
<1>1. PICK n \in Nat : n = Len(log)
  OBVIOUS
<1>2. PICK new : new = Append(log, e)
  OBVIOUS
<1>3. Len(new) = n + 1 /\ (\A i \in 1..n : new[i] = log[i]) /\ new[n + 1] = e
  BY <1>1, <1>2, AppendedLog
<1>4. ASSUME NEW j \in 1..n + 1
      PROVE  /\ \A s, k, kind : LinesBefore(new, j, s, k, kind) = LinesBefore(log, j, s, k, kind)
             /\ \A s, u : NoMiss(new, j, s, u) <=> NoMiss(log, j, s, u)
  <2>1. \A i \in 1..j - 1 : new[i] = log[i]
    BY <1>3
  <2>. QED
    BY <2>1 DEF LinesBefore, NoMiss
<1>5. ASSUME NEW j \in 1..n PROVE LineTrue(new, j)
  <2>1. LineTrue(log, j) /\ new[j] = log[j] /\ j \in 1..n + 1
    BY <1>1, <1>3 DEF LogTrue
  <2>. QED
    BY <1>4, <2>1 DEF LineTrue
<1>6. LineTrue(new, n + 1)
  <2>1. n + 1 \in 1..n + 1
    OBVIOUS
  <2>. QED
    BY <1>1, <1>3, <1>4, <2>1 DEF LineTrue, Written
<1>. QED
  BY <1>2, <1>3, <1>5, <1>6 DEF LogTrue

-----------------------------------------------------------------------------
(* 01 to 03: what the cache programs keep. *)

\* The session reads pages: itself, or its shell's child.
Reads(s) == pc[s] \in {"input", "search", "create", "log"}

CachingTypes ==
    /\ program \in [Number -> {"01", "02", "03"}]
    /\ pc \in [Number -> {"shell", "input", "search", "create", "log", "ended"}]
    /\ url \in [Number -> Url \cup {CHOOSE u \in Url : TRUE}]
    /\ found \in [Number -> BOOLEAN]
    /\ hit \in [Number -> Nat] /\ miss \in [Number -> Nat]
    /\ sub_process_count \in [Number -> Nat]
    /\ logfile \in Seq(Entry)

\* The counters of a session are those of the lines its present child wrote,
\* and where it is about to make or to log a miss it has not logged one before.
SessionInv(s) ==
    /\ pc[s] \in {"search", "create", "log"} => url[s] \in Url
    /\ pc[s] = "create" => ~found[s]
    /\ pc[s] = "log" => url[s] \in DOMAIN cache
    /\ pc[s] \in {"create", "log"} /\ ~found[s] => NoMiss(logfile, Len(logfile) + 1, s, url[s])
    /\ Reads(s) => /\ hit[s] = Written(logfile, s, sub_process_count[s], "hit")
                   /\ miss[s] = Written(logfile, s, sub_process_count[s], "miss")

\* No line is of a child to come, and a page that was missed has its file.
LinesPast ==
    \A i \in 1..Len(logfile) :
        /\ logfile[i].child <= sub_process_count[logfile[i].session]
        /\ logfile[i].line.kind = "miss" => logfile[i].line.url \in DOMAIN cache

CachingInv == CachingTypes /\ LogTrue(logfile) /\ LinesPast /\ \A s \in Number : SessionInv(s)

LEMMA CachingInit == Caching!Init => CachingInv
<1>. SUFFICES ASSUME Caching!Init PROVE CachingInv
  OBVIOUS
<1>1. logfile = <<>> /\ Len(logfile) = 0 /\ logfile \in Seq(Entry)
  BY DEF Caching!Init
<1>2. \A s, k, kind : Written(logfile, s, k, kind) = 0
  <2>1. \A s, k, kind : LinesBefore(logfile, 0 + 1, s, k, kind) = {}
    BY DEF LinesBefore
  <2>. QED
    BY <1>1, <2>1, FS_EmptySet DEF Written
<1>3. CachingTypes
  BY <1>1 DEF CachingTypes, Caching!Init
<1>4. LogTrue(logfile) /\ LinesPast
  BY <1>1 DEF LogTrue, LinesPast
<1>5. \A s \in Number : SessionInv(s)
  BY <1>2 DEF SessionInv, Caching!Init
<1>. QED
  BY <1>3, <1>4, <1>5 DEF CachingInv

\* A child that is still to come has no lines.
LEMMA FreshChild ==
  ASSUME CachingInv, NEW s \in Number, NEW k \in Nat, sub_process_count[s] < k, NEW kind
  PROVE  Written(logfile, s, k, kind) = 0
<1>1. Len(logfile) \in Nat
  BY DEF CachingInv, CachingTypes
<1>2. \A i \in 1..Len(logfile) + 1 - 1 : ~(logfile[i].session = s /\ logfile[i].child = k)
  <2>1. sub_process_count[s] \in Nat
    BY DEF CachingInv, CachingTypes
  <2>2. \A i \in 1..Len(logfile) : logfile[i].child <= sub_process_count[logfile[i].session]
    BY DEF CachingInv, LinesPast
  <2>. QED
    BY <1>1, <2>1, <2>2
<1>3. LinesBefore(logfile, Len(logfile) + 1, s, k, kind) = {}
  BY <1>2 DEF LinesBefore
<1>. QED
  BY <1>3, FS_EmptySet DEF Written

\* What a step that writes no line leaves true of the log.
LEMMA QuietLog ==
  ASSUME CachingInv, logfile' = logfile, DOMAIN cache \subseteq DOMAIN cache',
         \A s \in Number : /\ sub_process_count'[s] \in Nat
                           /\ sub_process_count[s] <= sub_process_count'[s]
  PROVE  LogTrue(logfile)' /\ LinesPast'
<1>1. ASSUME NEW i \in 1..Len(logfile)
      PROVE  logfile[i].session \in Number /\ logfile[i].child \in Nat
  <2>1. logfile[i] \in Entry
    BY DEF CachingInv, CachingTypes
  <2>. QED
    BY <2>1 DEF Entry
<1>2. ASSUME NEW i \in 1..Len(logfile)
      PROVE  logfile[i].child <= sub_process_count'[logfile[i].session]
  <2>1. PICK t \in Number, k \in Nat : t = logfile[i].session /\ k = logfile[i].child
    BY <1>1
  <2>2. k <= sub_process_count[t] /\ sub_process_count[t] \in Nat
    BY <2>1 DEF CachingInv, LinesPast, CachingTypes
  <2>3. k <= sub_process_count'[t]
    BY <2>2
  <2>. QED
    BY <2>1, <2>3
<1>3. LinesPast'
  BY <1>2 DEF CachingInv, LinesPast
<1>. QED
  BY <1>3 DEF CachingInv

\* What a line of session s leaves true of the log.
LEMMA LineWritten ==
  ASSUME CachingInv, NEW s \in Number, NEW l \in Line, Caching!Writes(s, l),
         cache' = cache, sub_process_count' = sub_process_count,
         l.kind = "miss" => NoMiss(logfile, Len(logfile) + 1, s, l.url) /\ l.url \in DOMAIN cache,
         l.kind = "bye" => /\ l.hit = Written(logfile, s, sub_process_count[s], "hit")
                           /\ l.miss = Written(logfile, s, sub_process_count[s], "miss")
  PROVE  /\ logfile' \in Seq(Entry) /\ LogTrue(logfile)' /\ LinesPast'
         /\ \A t, k, kind : Written(logfile', t, k, kind) =
               IF l.kind = kind /\ t = s /\ k = sub_process_count[s]
               THEN Written(logfile, t, k, kind) + 1 ELSE Written(logfile, t, k, kind)
         /\ \A t, u : t # s /\ NoMiss(logfile, Len(logfile) + 1, t, u)
                         => NoMiss(logfile', Len(logfile') + 1, t, u)
<1>1. PICK e : e = [session |-> s, child |-> sub_process_count[s], line |-> l]
  OBVIOUS
<1>2. e \in Entry /\ e.session = s /\ e.child = sub_process_count[s] /\ e.line = l
  BY <1>1 DEF Entry, CachingInv, CachingTypes
<1>3. logfile' = Append(logfile, e) /\ logfile \in Seq(Entry) /\ LogTrue(logfile)
  BY <1>1 DEF Caching!Writes, CachingInv, CachingTypes
<1>4. /\ logfile' \in Seq(Entry) /\ Len(logfile) \in Nat /\ Len(logfile') = Len(logfile) + 1
      /\ \A i \in 1..Len(logfile) : logfile'[i] = logfile[i]
      /\ logfile'[Len(logfile) + 1] = e
  BY <1>2, <1>3, AppendedLog
<1>5. LogTrue(logfile')
  BY <1>2, <1>3, LogTrueGrows
<1>6. LinesPast'
  <2>1. e.child <= sub_process_count[e.session]
    BY <1>2 DEF CachingInv, CachingTypes
  <2>2. LinesPast
    BY DEF CachingInv
  <2>3. 1..Len(logfile') = 1..Len(logfile) \cup {Len(logfile) + 1}
    BY <1>4
  <2>. QED
    BY <1>2, <1>4, <2>1, <2>2, <2>3 DEF LinesPast
<1>7. ASSUME NEW t, NEW k, NEW kind
      PROVE  Written(logfile', t, k, kind) =
               IF l.kind = kind /\ t = s /\ k = sub_process_count[s]
               THEN Written(logfile, t, k, kind) + 1 ELSE Written(logfile, t, k, kind)
  BY <1>2, <1>3, WrittenGrows
<1>8. ASSUME NEW t, NEW u, t # s, NoMiss(logfile, Len(logfile) + 1, t, u)
      PROVE  NoMiss(logfile', Len(logfile') + 1, t, u)
  <2>1. /\ 1..Len(logfile) + 1 - 1 = 1..Len(logfile)
        /\ 1..Len(logfile') + 1 - 1 = 1..Len(logfile) \cup {Len(logfile) + 1}
    BY <1>4
  <2>. QED
    BY <1>2, <1>4, <1>8, <2>1 DEF NoMiss
<1>. QED
  BY <1>4, <1>5, <1>6, <1>7, <1>8

\* A session that a step of another leaves alone.
LEMMA OtherSession ==
  ASSUME NEW t \in Number, SessionInv(t), DOMAIN cache \subseteq DOMAIN cache',
         pc'[t] = pc[t], url'[t] = url[t], found'[t] = found[t],
         hit'[t] = hit[t], miss'[t] = miss[t],
         \A kind : Written(logfile', t, sub_process_count'[t], kind) =
                   Written(logfile, t, sub_process_count[t], kind),
         \A u : NoMiss(logfile, Len(logfile) + 1, t, u)
                   => NoMiss(logfile', Len(logfile') + 1, t, u)
  PROVE  SessionInv(t)'
  BY DEF SessionInv, Reads

LEMMA CachingStep ==
  ASSUME CachingInv, Caching!Next \/ UNCHANGED Caching!vars
  PROVE  CachingInv'
<1>. USE DEF Caching!counterVars
<1>1. CachingTypes /\ LogTrue(logfile) /\ LinesPast /\ \A s \in Number : SessionInv(s)
  BY DEF CachingInv
<1>2. ASSUME CachingTypes', LogTrue(logfile)', LinesPast', \A t \in Number : SessionInv(t)'
      PROVE  CachingInv'
  BY <1>2 DEF CachingInv
<1>3. ASSUME NEW s \in Number, Caching!connect(s) PROVE CachingInv'
  <2>1. /\ pc' = [pc EXCEPT ![s] = "input"] /\ pc[s] = "shell"
        /\ hit' = [hit EXCEPT ![s] = 0] /\ miss' = [miss EXCEPT ![s] = 0]
        /\ sub_process_count' = [sub_process_count EXCEPT ![s] = @ + 1]
        /\ UNCHANGED <<program, url, found, cache, logfile>>
    BY <1>3 DEF Caching!connect, Caching!CountersFresh
  <2>2. CachingTypes'
    BY <1>1, <2>1 DEF CachingTypes
  <2>3. LogTrue(logfile)' /\ LinesPast'
    <3>1. \A t \in Number : /\ sub_process_count'[t] \in Nat
                            /\ sub_process_count[t] <= sub_process_count'[t]
      BY <1>1, <2>1 DEF CachingTypes
    <3>. QED
      BY <2>1, <3>1, QuietLog
  <2>4. ASSUME NEW t \in Number, t # s PROVE SessionInv(t)'
    BY <1>1, <2>1, <2>4, OtherSession DEF CachingTypes
  <2>5. SessionInv(s)'
    <3>1. sub_process_count[s] < sub_process_count'[s] /\ sub_process_count'[s] \in Nat
      BY <1>1, <2>1 DEF CachingTypes
    <3>2. \A kind : Written(logfile, s, sub_process_count'[s], kind) = 0
      BY <3>1, FreshChild
    <3>3. hit'[s] = 0 /\ miss'[s] = 0 /\ pc'[s] = "input" /\ logfile' = logfile
      BY <1>1, <2>1 DEF CachingTypes
    <3>. QED
      BY <3>2, <3>3 DEF SessionInv, Reads
  <2>. QED
    BY <1>2, <2>2, <2>3, <2>4, <2>5
<1>4. ASSUME NEW s \in Number, NEW l \in Line, Caching!Writes(s, l), NEW p, NEW from,
             p \in {"ended", "shell"}, Caching!Goes(s, from, p),
             UNCHANGED <<program, url, found, Caching!counterVars, cache>>,
             l.kind # "miss", l.kind = "hit" => FALSE,
             l.kind = "bye" => /\ l.hit = Written(logfile, s, sub_process_count[s], "hit")
                               /\ l.miss = Written(logfile, s, sub_process_count[s], "miss")
      PROVE  CachingInv'
  <2>1. /\ logfile' \in Seq(Entry) /\ LogTrue(logfile)' /\ LinesPast'
        /\ \A t, k, kind : Written(logfile', t, k, kind) =
               IF l.kind = kind /\ t = s /\ k = sub_process_count[s]
               THEN Written(logfile, t, k, kind) + 1 ELSE Written(logfile, t, k, kind)
        /\ \A t, u : t # s /\ NoMiss(logfile, Len(logfile) + 1, t, u)
                         => NoMiss(logfile', Len(logfile') + 1, t, u)
    BY <1>4, LineWritten
  <2>2. CachingTypes'
    BY <1>1, <1>4, <2>1 DEF CachingTypes, Caching!Goes
  <2>3. ASSUME NEW t \in Number, t # s PROVE SessionInv(t)'
    <3>1. /\ pc'[t] = pc[t] /\ url'[t] = url[t] /\ found'[t] = found[t] /\ hit'[t] = hit[t]
          /\ miss'[t] = miss[t] /\ sub_process_count'[t] = sub_process_count[t]
          /\ DOMAIN cache \subseteq DOMAIN cache'
      BY <1>1, <1>4, <2>3 DEF CachingTypes, Caching!Goes
    <3>. QED
      BY <1>1, <2>1, <2>3, <3>1, OtherSession
  <2>4. SessionInv(s)'
    BY <1>1, <1>4 DEF SessionInv, Reads, CachingTypes, Caching!Goes
  <2>. QED
    BY <1>2, <2>1, <2>2, <2>3, <2>4
<1>5. ASSUME NEW s \in Number, Caching!quit(s) PROVE CachingInv'
  <2>1. PICK l : l = [kind |-> "server", count |-> sub_process_count[s]]
    OBVIOUS
  <2>2. l \in Line /\ l.kind = "server"
    BY <1>1, <2>1 DEF Line, CachingTypes
  <2>. QED
    BY <1>4, <1>5, <2>1, <2>2 DEF Caching!quit
\* Steps of a session that leave the log and the counters alone.
<1>6. ASSUME NEW s \in Number, NEW p, pc' = [pc EXCEPT ![s] = p], CachingTypes',
             UNCHANGED <<hit, miss, sub_process_count, logfile>>,
             DOMAIN cache \subseteq DOMAIN cache',
             \A t \in Number : t # s => url'[t] = url[t] /\ found'[t] = found[t],
             SessionInv(s)'
      PROVE  CachingInv'
  <2>1. LogTrue(logfile)' /\ LinesPast'
    <3>1. \A t \in Number : /\ sub_process_count'[t] \in Nat
                            /\ sub_process_count[t] <= sub_process_count'[t]
      BY <1>1, <1>6 DEF CachingTypes
    <3>. QED
      BY <1>6, <3>1, QuietLog
  <2>2. ASSUME NEW t \in Number, t # s PROVE SessionInv(t)'
    BY <1>1, <1>6, <2>2, OtherSession DEF CachingTypes
  <2>. QED
    BY <1>2, <1>6, <2>1, <2>2
<1>7. ASSUME NEW s \in Number, NEW u \in Url, Caching!TypesUrl(s, u) PROVE CachingInv'
  <2>1. /\ pc[s] = "input" /\ pc' = [pc EXCEPT ![s] = "search"] /\ url' = [url EXCEPT ![s] = u]
        /\ UNCHANGED <<program, found, hit, miss, sub_process_count, cache, logfile>>
    BY <1>7 DEF Caching!TypesUrl, Caching!Goes
  <2>2. CachingTypes'
    BY <1>1, <2>1 DEF CachingTypes
  <2>3. pc'[s] = "search" /\ url'[s] = u
    BY <1>1, <2>1 DEF CachingTypes
  <2>4. SessionInv(s)'
    BY <1>1, <2>1, <2>3 DEF SessionInv, Reads
  <2>5. \A t \in Number : t # s => url'[t] = url[t] /\ found'[t] = found[t]
    BY <1>1, <2>1 DEF CachingTypes
  <2>. QED
    BY <1>6, <2>1, <2>2, <2>4, <2>5
<1>8. ASSUME NEW s \in Number, Caching!Search(s) PROVE CachingInv'
  <2>1. PICK p \in {"create", "input", "log"} :
            /\ pc[s] = "search" /\ pc' = [pc EXCEPT ![s] = p]
            /\ p = "create" <=> url[s] \notin DOMAIN cache
            /\ found' = [found EXCEPT ![s] = url[s] \in DOMAIN cache]
            /\ UNCHANGED <<program, url, hit, miss, sub_process_count, cache, logfile>>
    BY <1>8 DEF Caching!Search, Caching!Goes
  <2>2. CachingTypes'
    BY <1>1, <2>1 DEF CachingTypes
  <2>3. pc'[s] = p /\ (found'[s] <=> url[s] \in DOMAIN cache)
    BY <1>1, <2>1 DEF CachingTypes
  <2>4. url[s] \notin DOMAIN cache => NoMiss(logfile, Len(logfile) + 1, s, url[s])
    <3>1. Len(logfile) + 1 - 1 = Len(logfile)
      BY <1>1 DEF CachingTypes
    <3>. QED
      BY <1>1, <3>1 DEF NoMiss, LinesPast
  <2>5. SessionInv(s)'
    BY <1>1, <2>1, <2>3, <2>4 DEF SessionInv, Reads
  <2>6. \A t \in Number : t # s => url'[t] = url[t] /\ found'[t] = found[t]
    BY <1>1, <2>1 DEF CachingTypes
  <2>. QED
    BY <1>6, <2>1, <2>2, <2>5, <2>6
<1>9. ASSUME NEW s \in Number, Caching!Create(s) PROVE CachingInv'
  <2>1. PICK p \in {"input", "log"} :
            /\ pc[s] = "create" /\ pc' = [pc EXCEPT ![s] = p]
            /\ UNCHANGED <<program, url, found, hit, miss, sub_process_count, logfile>>
            /\ DOMAIN cache' = DOMAIN cache \cup {url[s]}
    BY <1>9 DEF Caching!Create, Caching!Goes, Caching!Created
  <2>2. CachingTypes'
    BY <1>1, <2>1 DEF CachingTypes
  <2>3. pc'[s] = p
    BY <1>1, <2>1 DEF CachingTypes
  <2>4. SessionInv(s)'
    BY <1>1, <2>1, <2>3 DEF SessionInv, Reads
  <2>. QED
    BY <1>6, <2>1, <2>2, <2>4
<1>10. ASSUME NEW s \in Number, Caching!Log(s) PROVE CachingInv'
  <2>1. PICK l : l = [kind |-> IF found[s] THEN "hit" ELSE "miss", url |-> url[s]]
    OBVIOUS
  <2>2. /\ pc[s] = "log" /\ pc' = [pc EXCEPT ![s] = "input"]
        /\ Caching!Writes(s, l)
        /\ hit' = [hit EXCEPT ![s] = IF found[s] THEN @ + 1 ELSE @]
        /\ miss' = [miss EXCEPT ![s] = IF found[s] THEN @ ELSE @ + 1]
        /\ UNCHANGED <<program, url, found, sub_process_count, cache>>
    BY <1>10, <2>1 DEF Caching!Log, Caching!Goes
  <2>3. /\ l \in Line /\ l.url = url[s] /\ l.kind = (IF found[s] THEN "hit" ELSE "miss")
        /\ l.url \in DOMAIN cache
    BY <1>1, <2>1, <2>2 DEF Line, SessionInv
  <2>4. l.kind = "miss" => NoMiss(logfile, Len(logfile) + 1, s, l.url) /\ l.url \in DOMAIN cache
    BY <1>1, <2>2, <2>3 DEF SessionInv
  <2>5. /\ logfile' \in Seq(Entry) /\ LogTrue(logfile)' /\ LinesPast'
        /\ \A t, k, kind : Written(logfile', t, k, kind) =
               IF l.kind = kind /\ t = s /\ k = sub_process_count[s]
               THEN Written(logfile, t, k, kind) + 1 ELSE Written(logfile, t, k, kind)
        /\ \A t, u : t # s /\ NoMiss(logfile, Len(logfile) + 1, t, u)
                         => NoMiss(logfile', Len(logfile') + 1, t, u)
    BY <2>2, <2>3, <2>4, LineWritten
  <2>6. CachingTypes'
    BY <1>1, <2>2, <2>5 DEF CachingTypes
  <2>7. ASSUME NEW t \in Number, t # s PROVE SessionInv(t)'
    BY <1>1, <2>2, <2>5, <2>7, OtherSession DEF CachingTypes
  <2>8. SessionInv(s)'
    <3>1. /\ hit'[s] = (IF found[s] THEN hit[s] + 1 ELSE hit[s])
          /\ miss'[s] = (IF found[s] THEN miss[s] ELSE miss[s] + 1)
          /\ pc'[s] = "input"
      BY <1>1, <2>2 DEF CachingTypes
    <3>2. /\ hit[s] = Written(logfile, s, sub_process_count[s], "hit")
          /\ miss[s] = Written(logfile, s, sub_process_count[s], "miss")
      BY <1>1, <2>2 DEF SessionInv, Reads
    <3>3. /\ hit'[s] = Written(logfile', s, sub_process_count[s], "hit")
          /\ miss'[s] = Written(logfile', s, sub_process_count[s], "miss")
      BY <2>3, <2>5, <3>1, <3>2
    <3>. QED
      BY <2>2, <3>1, <3>3 DEF SessionInv, Reads
  <2>. QED
    BY <1>2, <2>5, <2>6, <2>7, <2>8
\* The session's page is left, by "bye" or by a signal.
<1>11. ASSUME NEW s \in Number, Caching!Returns(s), pc[s] # "shell",
              UNCHANGED <<program, url, found, hit, miss, sub_process_count, cache, logfile>>
       PROVE  CachingInv'
  <2>1. PICK p \in {"shell", "ended"} : pc' = [pc EXCEPT ![s] = p]
    BY <1>11 DEF Caching!Returns, Caching!Goes
  <2>2. CachingTypes'
    BY <1>1, <1>11, <2>1 DEF CachingTypes
  <2>3. SessionInv(s)'
    BY <1>1, <2>1 DEF SessionInv, Reads, CachingTypes
  <2>. QED
    BY <1>6, <1>11, <2>1, <2>2, <2>3
<1>12. ASSUME NEW s \in Number, Caching!bye(s) PROVE CachingInv'
  <2>1. CASE logfile' = logfile
    BY <1>11, <1>12, <2>1 DEF Caching!bye
  <2>2. CASE Caching!Writes(s, [kind |-> "bye", hit |-> hit[s], miss |-> miss[s]])
    <3>1. PICK l : l = [kind |-> "bye", hit |-> hit[s], miss |-> miss[s]]
      OBVIOUS
    <3>2. l \in Line /\ l.kind = "bye" /\ l.hit = hit[s] /\ l.miss = miss[s]
      BY <1>1, <3>1 DEF Line, CachingTypes
    <3>3. /\ l.hit = Written(logfile, s, sub_process_count[s], "hit")
          /\ l.miss = Written(logfile, s, sub_process_count[s], "miss")
      BY <1>1, <1>12, <3>2 DEF SessionInv, Reads, Caching!bye
    <3>4. PICK p \in {"shell", "ended"} : Caching!Goes(s, pc[s], p)
      BY <1>12 DEF Caching!bye, Caching!Returns
    <3>5. Caching!Writes(s, l)
      BY <2>2, <3>1
    <3>. QED
      BY <1>4, <1>12, <3>2, <3>3, <3>4, <3>5 DEF Caching!bye
  <2>. QED
    BY <1>12, <2>1, <2>2 DEF Caching!bye
<1>13. ASSUME NEW s \in Number, Caching!Killed(s) PROVE CachingInv'
  BY <1>11, <1>13 DEF Caching!Killed
<1>14. CASE UNCHANGED <<program, pc, url, found, Caching!counterVars, cache, logfile>>
  <2>1. CachingTypes' /\ \A t \in Number : SessionInv(t)'
    BY <1>1, <1>14 DEF CachingTypes, SessionInv, Reads
  <2>2. LogTrue(logfile)' /\ LinesPast'
    BY <1>1, <1>14 DEF LinesPast
  <2>. QED
    BY <1>2, <2>1, <2>2
<1>15. ASSUME NEW s \in Number, Caching!NoConnect(s) PROVE CachingInv'
  BY <1>14, <1>15 DEF Caching!NoConnect
<1>16. CASE UNCHANGED Caching!vars
  BY <1>14, <1>16 DEF Caching!vars
<1>. QED
  BY <1>3, <1>5, <1>7, <1>8, <1>9, <1>10, <1>12, <1>13, <1>15, <1>16 DEF Caching!Next

-----------------------------------------------------------------------------
(* 04: what the cache server and its clients keep. *)

Answer == [url : Url, verdict : Verdict]

SocketTypes ==
    /\ listening \in BOOLEAN
    /\ client \in [Client -> {"new", "connected", "asking", "ended"}]
    /\ lines \in [Client -> 0..MaxLines]
    /\ upstream \in [Client -> {<<>>, <<Bye, Runtime>>, <<Runtime>>} \cup {<<u>> : u \in Url}]
    /\ downstream \in [Client -> {<<>>} \cup {<<v>> : v \in Verdict}]
    /\ result \in [Client -> Verdict \cup {Uninitialised}]
    /\ shown \in [Client -> Seq(Verdict \cup {Uninitialised})]
    /\ child \in [Client -> {"none", "reading", "lookup", "missed", "runtime", "ended"}]
    /\ url \in [Client -> Url]
    /\ openLogs \in [Client -> 0..FdLimit]
    /\ hit \in [Client -> Nat] /\ miss \in [Client -> Nat]
    /\ runtime \in [Client -> {Runtime, Uninitialised}]
    /\ cache \in SUBSET Url
    /\ answered \in [Client -> Seq(Answer)]

Serving(c) == child[c] \notin {"none", "ended"}

\* One line is under way at a time, in one direction, and its sender waits.
OneUnderWay(c) ==
    /\ client[c] = "new" => child[c] = "none" /\ upstream[c] = <<>>
    /\ downstream[c] # <<>> => client[c] = "asking" /\ upstream[c] = <<>>
    /\ child[c] \in {"lookup", "missed"} =>
           client[c] = "asking" /\ upstream[c] = <<>> /\ downstream[c] = <<>>
    /\ (\E u \in Url : upstream[c] = <<u>>) /\ ~Gone(c) => client[c] = "asking"
    /\ upstream[c] \in {<<Bye, Runtime>>, <<Runtime>>} => client[c] = "ended"
    /\ child[c] = "runtime" => client[c] = "ended"
    /\ child[c] = "none" /\ SocketOpen => shown[c] = <<>>

Found(log, verdict) == Cardinality({k \in 1..Len(log) : log[k].verdict = verdict})

\* What a client has shown, with what is under way to it, is what its child has
\* found; the counters are those of the verdicts.
Agree(c) ==
    /\ \A v \in Verdict : downstream[c] = <<v>> =>
           Len(answered[c]) = Len(shown[c]) + 1 /\ answered[c][Len(answered[c])].verdict = v
    /\ downstream[c] = <<>> =>
           /\ Len(answered[c]) <= Len(shown[c])
           /\ Serving(c) => Len(answered[c]) = Len(shown[c])
    /\ \A k \in 1..Len(shown[c]) : k <= Len(answered[c]) => shown[c][k] = answered[c][k].verdict
    /\ hit[c] = Found(answered[c], "HIT") /\ miss[c] = Found(answered[c], "MISS")

\* A child's answers leave one log file open each, and have a cache file as long
\* as a descriptor was left for it.
FilesMade(c) ==
    /\ child[c] = "none" => answered[c] = <<>> /\ downstream[c] = <<>> /\ openLogs[c] = 0
    /\ Serving(c) => openLogs[c] = Len(answered[c]) + (IF child[c] = "missed" THEN 1 ELSE 0)
    /\ \A i \in 1..Len(answered[c]) : i < FdLimit => answered[c][i].url \in cache
    /\ child[c] = "missed" =>
           \A i \in 1..Len(answered[c]) : i < FdLimit => answered[c][i].url # url[c]
    /\ \A j \in 1..Len(answered[c]) : \A i \in 1..j - 1 :
           answered[c][i].url = answered[c][j].url /\ i < FdLimit
               => answered[c][j].verdict = "HIT"

SocketInv == SocketTypes /\ \A c \in Client : OneUnderWay(c) /\ Agree(c) /\ FilesMade(c)

LEMMA SocketTyped == SocketInv => TypeOK
  BY DEF SocketInv, SocketTypes, TypeOK

LEMMA FoundGrows ==
  ASSUME NEW log \in Seq(Answer), NEW a \in Answer, NEW v
  PROVE  /\ Found(log, v) \in Nat
         /\ Found(Append(log, a), v) = IF a.verdict = v THEN Found(log, v) + 1 ELSE Found(log, v)
<1>1. PICK n \in Nat : n = Len(log)
  OBVIOUS
<1>2. PICK new : new = Append(log, a)
  OBVIOUS
<1>3. Len(new) = n + 1 /\ (\A i \in 1..n : new[i] = log[i]) /\ new[n + 1] = a
  BY <1>1, <1>2, AppendedLog
<1>4. PICK P, Q : /\ P = {k \in 1..n : log[k].verdict = v}
                  /\ Q = {k \in 1..n + 1 : new[k].verdict = v}
  OBVIOUS
<1>5. P \in SUBSET (1..n)
  BY <1>4
<1>6. Q = IF a.verdict = v THEN P \cup {n + 1} ELSE P
  <2>1. 1..n + 1 = (1..n) \cup {n + 1}
    OBVIOUS
  <2>. QED
    BY <1>3, <1>4, <2>1
<1>7. Cardinality(P) \in Nat /\ Cardinality(P \cup {n + 1}) = Cardinality(P) + 1
  BY <1>5, OneMore
<1>8. Found(log, v) = Cardinality(P) /\ Found(new, v) = Cardinality(Q)
  BY <1>1, <1>3, <1>4 DEF Found
<1>. QED
  BY <1>2, <1>6, <1>7, <1>8

LEMMA SocketInit == Init => SocketInv
<1>. SUFFICES ASSUME Init PROVE SocketInv
  OBVIOUS
<1>1. SocketTypes
  BY LinesAssumption, FdAssumption DEF Init, SocketTypes
<1>2. ASSUME NEW c \in Client PROVE OneUnderWay(c) /\ Agree(c) /\ FilesMade(c)
  <2>1. /\ client[c] = "new" /\ upstream[c] = <<>> /\ downstream[c] = <<>>
        /\ shown[c] = <<>> /\ child[c] = "none" /\ answered[c] = <<>>
        /\ openLogs[c] = 0 /\ hit[c] = 0 /\ miss[c] = 0
    BY DEF Init
  <2>2. \A v : Found(<<>>, v) = 0
    <3>1. \A v : {k \in 1..Len(<<>>) : <<>>[k].verdict = v} = {}
      OBVIOUS
    <3>. QED
      BY <3>1, FS_EmptySet DEF Found
  <2>. QED
    BY <2>1, <2>2 DEF OneUnderWay, Agree, FilesMade, Serving, Verdict, Bye, Runtime
<1>. QED
  BY <1>1, <1>2 DEF SocketInv

\* Once nobody listens and no child lives, nobody will.
LEMMA ClosedStays ==
  ASSUME SocketTypes, NEW c \in Client, NEW p, child' = [child EXCEPT ![c] = p],
         listening \/ Serving(c) \/ p \in {"none", "ended"}, listening' => listening
  PROVE  SocketOpen' => SocketOpen
  BY DEF SocketTypes, SocketOpen, Serving

\* A step of one client or its child.
LEMMA OtherClient ==
  ASSUME SocketInv, NEW d \in Client, SocketOpen' => SocketOpen, cache \subseteq cache',
         client'[d] = client[d], upstream'[d] = upstream[d], downstream'[d] = downstream[d],
         shown'[d] = shown[d], child'[d] = child[d], url'[d] = url[d],
         openLogs'[d] = openLogs[d], hit'[d] = hit[d], miss'[d] = miss[d],
         answered'[d] = answered[d]
  PROVE  OneUnderWay(d)' /\ Agree(d)' /\ FilesMade(d)'
<1>1. OneUnderWay(d) /\ Agree(d) /\ FilesMade(d)
  BY DEF SocketInv
<1>2. (Gone(d) => Gone(d)') /\ (Serving(d)' <=> Serving(d))
  BY DEF Gone, Serving
<1>3. OneUnderWay(d)'
  BY <1>1, <1>2 DEF OneUnderWay
<1>4. Agree(d)'
  BY <1>1, <1>2 DEF Agree
<1>5. FilesMade(d)'
  BY <1>1, <1>2 DEF FilesMade
<1>. QED
  BY <1>3, <1>4, <1>5

LEMMA ClientMoves ==
  ASSUME SocketInv, NEW c \in Client, SocketTypes', SocketOpen' => SocketOpen,
         cache \subseteq cache',
         \A d \in Client : d # c =>
             /\ client'[d] = client[d] /\ upstream'[d] = upstream[d]
             /\ downstream'[d] = downstream[d]
             /\ shown'[d] = shown[d] /\ child'[d] = child[d] /\ url'[d] = url[d]
             /\ openLogs'[d] = openLogs[d] /\ hit'[d] = hit[d] /\ miss'[d] = miss[d]
             /\ answered'[d] = answered[d],
         OneUnderWay(c)' /\ Agree(c)' /\ FilesMade(c)'
  PROVE  SocketInv'
<1>1. ASSUME NEW d \in Client PROVE OneUnderWay(d)' /\ Agree(d)' /\ FilesMade(d)'
  BY OtherClient
<1>. QED
  BY <1>1 DEF SocketInv

\* What the values of one client and its child can be.
LEMMA OneClient ==
  ASSUME SocketInv, NEW c \in Client
  PROVE  /\ upstream[c] \in {<<>>, <<Bye, Runtime>>, <<Runtime>>} \cup {<<u>> : u \in Url}
         /\ downstream[c] \in {<<>>} \cup {<<v>> : v \in Verdict}
         /\ OneUnderWay(c) /\ Agree(c) /\ FilesMade(c)
         /\ client[c] = "connected" => downstream[c] = <<>>
         /\ client[c] = "connected" /\ ~Gone(c) => upstream[c] = <<>>
         /\ Gone(c) => ~Serving(c)
<1>1. /\ upstream[c] \in {<<>>, <<Bye, Runtime>>, <<Runtime>>} \cup {<<u>> : u \in Url}
      /\ downstream[c] \in {<<>>} \cup {<<v>> : v \in Verdict}
      /\ OneUnderWay(c) /\ Agree(c) /\ FilesMade(c)
  BY DEF SocketInv, SocketTypes
<1>2. client[c] = "connected" => downstream[c] = <<>>
  BY <1>1 DEF OneUnderWay
<1>3. client[c] = "connected" /\ ~Gone(c) => upstream[c] = <<>>
  BY <1>1 DEF OneUnderWay
<1>4. Gone(c) => ~Serving(c)
  BY DEF Gone, Serving
<1>. QED
  BY <1>1, <1>2, <1>3, <1>4

LEMMA ClientStep ==
  ASSUME SocketInv, NEW c \in Client, ClientSteps(c)
  PROVE  SocketInv'
<1>1. SocketTypes
  BY DEF SocketInv
<1>2. /\ upstream[c] \in {<<>>, <<Bye, Runtime>>, <<Runtime>>} \cup {<<u>> : u \in Url}
      /\ downstream[c] \in {<<>>} \cup {<<v>> : v \in Verdict}
      /\ OneUnderWay(c) /\ Agree(c) /\ FilesMade(c)
      /\ client[c] = "connected" => downstream[c] = <<>>
      /\ client[c] = "connected" /\ ~Gone(c) => upstream[c] = <<>>
      /\ Gone(c) => ~Serving(c)
  BY OneClient
\* Of its side of the connection the step changes what the client is doing,
\* what it has shown and what is under way, the child nothing.
<1>3. ASSUME SocketTypes', UNCHANGED <<listening, child, childVars, cache>>,
             \A d \in Client : d # c =>
                 /\ client'[d] = client[d] /\ upstream'[d] = upstream[d]
                 /\ downstream'[d] = downstream[d] /\ shown'[d] = shown[d],
             OneUnderWay(c)', Agree(c)', FilesMade(c)'
      PROVE  SocketInv'
  <2>1. SocketOpen' => SocketOpen
    BY <1>3 DEF SocketOpen
  <2>. QED
    BY <1>3, <2>1, ClientMoves DEF childVars
<1>4. CASE Connect(c)
  <2>1. client[c] = "new" /\ client'[c] = "connected" /\ child[c] = "none"
    BY <1>1, <1>2, <1>4 DEF Connect, SocketTypes, OneUnderWay
  <2>2. SocketTypes'
    BY <1>1, <1>4 DEF Connect, SocketTypes, childVars
  <2>3. OneUnderWay(c)' /\ Agree(c)' /\ FilesMade(c)'
    BY <1>2, <1>4, <2>1 DEF Connect, OneUnderWay, Agree, FilesMade, Serving, Gone, SocketOpen, childVars, Bye, Runtime
  <2>. QED
    BY <1>1, <1>3, <1>4, <2>2, <2>3 DEF Connect, SocketTypes
<1>5. ASSUME NEW to, NEW w, Types(c, to, w),
             \/ to = "asking" /\ w = <<>>
             \/ to = "asking" /\ \E u \in Url : w = <<u>>
             \/ to = "ended" /\ w = <<Bye, Runtime>>
      PROVE  SocketInv'
  <2>1. PICK next : /\ next \in {to} \cup IF Gone(c) THEN {"ended"} ELSE {}
                    /\ client' = [client EXCEPT ![c] = next]
    BY <1>5 DEF Types
  <2>2. /\ client[c] = "connected" /\ downstream[c] = <<>> /\ next \in {"asking", "ended"}
        /\ UNCHANGED <<listening, result, shown, downstream, child, childVars, cache>>
    BY <1>2, <1>5, <2>1 DEF Types
  <2>3. /\ upstream' \in [Client -> {<<>>, <<Bye, Runtime>>, <<Runtime>>} \cup {<<u>> : u \in Url}]
        /\ upstream'[c] = IF Gone(c) THEN upstream[c] ELSE w
        /\ \A d \in Client : d # c => upstream'[d] = upstream[d]
    <3>1. CASE Gone(c)
      BY <1>1, <1>5, <3>1 DEF Types, SocketTypes
    <3>2. CASE ~Gone(c)
      <4>1. upstream' = [upstream EXCEPT ![c] = w]
        BY <1>1, <1>2, <1>5, <2>2, <3>2 DEF Types, SocketTypes
      <4>2. w \in {<<>>, <<Bye, Runtime>>, <<Runtime>>} \cup {<<u>> : u \in Url}
        BY <1>5
      <4>. QED
        BY <1>1, <3>2, <4>1, <4>2 DEF SocketTypes
    <3>. QED
      BY <3>1, <3>2
  <2>4. SocketTypes'
    <3>1. lines' \in [Client -> 0..MaxLines]
      BY <1>1, <1>5, LinesAssumption DEF Types, SocketTypes
    <3>. QED
      BY <1>1, <2>1, <2>2, <2>3, <3>1 DEF SocketTypes, childVars
  <2>5. client'[c] = next /\ \A d \in Client : d # c => client'[d] = client[d]
    BY <1>1, <2>1 DEF SocketTypes
  <2>6. (Gone(c)' <=> Gone(c)) /\ (SocketOpen' <=> SocketOpen)
    BY <2>2 DEF Gone, SocketOpen
  <2>7. OneUnderWay(c)'
    <3>1. child[c] \notin {"lookup", "missed", "runtime"}
      BY <1>2, <2>2 DEF OneUnderWay
    <3>2. child[c] = "none" /\ SocketOpen => shown[c] = <<>>
      BY <1>2 DEF OneUnderWay
    <3>3. CASE Gone(c)
      <4>1. upstream[c] \notin {<<Bye, Runtime>>, <<Runtime>>}
        BY <1>2, <2>2 DEF OneUnderWay
      <4>. QED
        BY <2>2, <2>3, <2>5, <2>6, <3>1, <3>2, <3>3, <4>1 DEF OneUnderWay
    <3>4. CASE ~Gone(c)
      <4>1. next = to /\ upstream'[c] = w
        BY <2>1, <2>3, <3>4
      <4>2. to = "ended" \/ w \notin {<<Bye, Runtime>>, <<Runtime>>}
        BY <1>5, UrlAssumption DEF Bye, Runtime
      <4>3. to = "asking" \/ \A u \in Url : w # <<u>>
        BY <1>5, UrlAssumption DEF Bye, Runtime
      <4>. QED
        BY <1>5, <2>2, <2>5, <2>6, <3>1, <3>2, <4>1, <4>2, <4>3 DEF OneUnderWay
    <3>. QED
      BY <3>3, <3>4
  <2>8. Agree(c)' /\ FilesMade(c)'
    BY <1>2, <2>2 DEF Agree, FilesMade, Serving, childVars
  <2>. QED
    BY <1>3, <2>2, <2>3, <2>4, <2>5, <2>7, <2>8
<1>6. CASE TypesUrl(c) \/ TypesNothing(c) \/ TypesBye(c)
  BY <1>5, <1>6 DEF TypesUrl, TypesNothing, TypesBye
<1>7. CASE InputEnds(c)
  <2>1. /\ client[c] = "connected" /\ client'[c] = "ended"
        /\ UNCHANGED <<listening, lines, result, shown, upstream, downstream, child, childVars, cache>>
    BY <1>1, <1>7 DEF InputEnds, SocketTypes
  <2>2. SocketTypes'
    BY <1>1, <1>7 DEF InputEnds, SocketTypes, childVars
  <2>3. OneUnderWay(c)'
    <3>1. (Gone(c)' <=> Gone(c)) /\ (SocketOpen' <=> SocketOpen)
      BY <2>1 DEF Gone, SocketOpen
    <3>. QED
      BY <1>2, <2>1, <3>1 DEF OneUnderWay
  <2>4. Agree(c)' /\ FilesMade(c)'
    BY <1>2, <2>1 DEF Agree, FilesMade, Serving, childVars
  <2>. QED
    BY <1>1, <1>3, <1>7, <2>1, <2>2, <2>3, <2>4 DEF InputEnds, SocketTypes
<1>8. CASE ReadFails(c)
  <2>1. /\ client[c] = "asking" /\ client'[c] = "connected" /\ Gone(c) /\ downstream[c] = <<>>
        /\ UNCHANGED <<listening, lines, result, shown, upstream, downstream, child, childVars, cache>>
    BY <1>1, <1>8 DEF ReadFails, SocketTypes
  <2>2. SocketTypes'
    BY <1>1, <1>8 DEF ReadFails, SocketTypes, childVars
  <2>3. OneUnderWay(c)'
    <3>1. (Gone(c)' <=> Gone(c)) /\ (SocketOpen' <=> SocketOpen) /\ ~Serving(c)
      BY <1>2, <2>1 DEF Gone, SocketOpen
    <3>. QED
      BY <1>2, <2>1, <3>1 DEF OneUnderWay, Serving
  <2>4. Agree(c)' /\ FilesMade(c)'
    BY <1>2, <2>1 DEF Agree, FilesMade, Serving, childVars
  <2>. QED
    BY <1>1, <1>3, <1>8, <2>1, <2>2, <2>3, <2>4 DEF ReadFails, SocketTypes
\* A verdict more is shown: the one under way, or any when the child is gone.
<1>9. ASSUME NEW v \in Verdict \cup {Uninitialised}, Shows(c, v),
             downstream' \in [Client -> {<<>>} \cup {<<w>> : w \in Verdict}],
             downstream'[c] = <<>>, \A d \in Client : d # c => downstream'[d] = downstream[d],
             \/ downstream[c] = <<v>> /\ v \in Verdict
             \/ downstream[c] = <<>> /\ Gone(c)
      PROVE  SocketInv'
  <2>1. /\ client[c] = "asking" /\ client' = [client EXCEPT ![c] = "connected"]
        /\ result' = [result EXCEPT ![c] = v]
        /\ shown' = [shown EXCEPT ![c] = Append(@, v)]
        /\ UNCHANGED <<listening, lines, upstream, child, childVars, cache>>
    BY <1>9 DEF Shows
  <2>2. shown[c] \in Seq(Verdict \cup {Uninitialised}) /\ answered[c] \in Seq(Answer)
    BY <1>1 DEF SocketTypes
  <2>3. /\ shown'[c] = Append(shown[c], v) /\ client'[c] = "connected"
        /\ \A d \in Client : d # c => shown'[d] = shown[d] /\ client'[d] = client[d]
    BY <1>1, <2>1 DEF SocketTypes
  <2>4. SocketTypes'
    <3>1. shown' \in [Client -> Seq(Verdict \cup {Uninitialised})]
      <4>1. Append(shown[c], v) \in Seq(Verdict \cup {Uninitialised})
        BY <1>9, <2>2, AppendedLog
      <4>. QED
        BY <1>1, <2>1, <4>1 DEF SocketTypes
    <3>. QED
      BY <1>1, <1>9, <2>1, <3>1 DEF SocketTypes, childVars
  <2>5. PICK n \in Nat, a \in Nat : n = Len(shown[c]) /\ a = Len(answered[c])
    BY <2>2
  <2>6. /\ Len(shown'[c]) = n + 1 /\ shown'[c][n + 1] = v
        /\ \A k \in 1..n : shown'[c][k] = shown[c][k]
    BY <1>9, <2>2, <2>3, <2>5, AppendedLog
  <2>7. /\ a <= n + 1 /\ (Serving(c) => a = n + 1)
        /\ n + 1 <= a => answered[c][n + 1].verdict = v
    <3>1. CASE downstream[c] = <<v>> /\ v \in Verdict
      BY <1>2, <2>5, <3>1 DEF Agree
    <3>2. CASE downstream[c] = <<>> /\ Gone(c)
      BY <1>2, <2>5, <3>2 DEF Agree
    <3>. QED
      BY <1>9, <3>1, <3>2
  <2>8. Agree(c)'
    <3>1. answered' = answered /\ hit' = hit /\ miss' = miss /\ child' = child
      BY <2>1 DEF childVars
    <3>2. \A k \in 1..n + 1 : k <= a => shown'[c][k] = answered[c][k].verdict
      <4>1. \A k \in 1..n : k <= a => shown[c][k] = answered[c][k].verdict
        BY <1>2, <2>5 DEF Agree
      <4>. QED
        BY <2>6, <2>7, <4>1
    <3>3. hit[c] = Found(answered[c], "HIT") /\ miss[c] = Found(answered[c], "MISS")
      BY <1>2 DEF Agree
    <3>4. \A w : <<w>> # <<>>
      OBVIOUS
    <3>. QED
      BY <1>9, <2>5, <2>6, <2>7, <3>1, <3>2, <3>3, <3>4 DEF Agree, Serving
  <2>9. FilesMade(c)'
    BY <1>2, <1>9, <2>1 DEF FilesMade, Serving, childVars
  <2>10. OneUnderWay(c)'
    <3>1. (Gone(c)' <=> Gone(c)) /\ (SocketOpen' <=> SocketOpen)
      BY <2>1 DEF Gone, SocketOpen
    <3>2. child[c] \notin {"lookup", "missed", "runtime"}
      <4>1. \A w : <<w>> # <<>>
        OBVIOUS
      <4>. QED
        BY <1>2, <1>9, <2>1, <4>1 DEF OneUnderWay, Serving
    <3>3. ~(child[c] = "none" /\ SocketOpen)
      <4>1. \A w : <<w>> # <<>>
        OBVIOUS
      <4>. QED
        BY <1>2, <1>9, <4>1 DEF FilesMade, Gone
    <3>4. \A u \in Url : upstream[c] = <<u>> => Gone(c)
      <4>1. \A w : <<w>> # <<>>
        OBVIOUS
      <4>. QED
        BY <1>2, <1>9, <4>1 DEF OneUnderWay
    <3>5. upstream[c] \notin {<<Bye, Runtime>>, <<Runtime>>}
      BY <1>2, <2>1 DEF OneUnderWay
    <3>. QED
      BY <1>9, <2>1, <2>3, <3>1, <3>2, <3>3, <3>4, <3>5 DEF OneUnderWay
  <2>. QED
    BY <1>3, <1>9, <2>1, <2>3, <2>4, <2>8, <2>9, <2>10
<1>10. CASE ReadsResult(c)
  <2>1. PICK v \in Verdict : downstream[c] = <<v>>
    BY <1>2, <1>10 DEF ReadsResult
  <2>2. Head(downstream[c]) = v /\ Tail(downstream[c]) = <<>>
    BY <2>1
  <2>3. downstream' = [downstream EXCEPT ![c] = <<>>] /\ Shows(c, v)
    BY <1>10, <2>2 DEF ReadsResult
  <2>4. /\ downstream' \in [Client -> {<<>>} \cup {<<w>> : w \in Verdict}]
        /\ downstream'[c] = <<>> /\ \A d \in Client : d # c => downstream'[d] = downstream[d]
    BY <1>1, <2>3 DEF SocketTypes
  <2>. QED
    BY <1>9, <2>1, <2>3, <2>4
<1>11. CASE ReadsNothing(c)
  <2>1. result[c] \in Verdict \cup {Uninitialised}
    BY <1>1 DEF SocketTypes
  <2>2. /\ downstream' \in [Client -> {<<>>} \cup {<<w>> : w \in Verdict}]
        /\ downstream' = downstream /\ downstream[c] = <<>> /\ Gone(c) /\ Shows(c, result[c])
    BY <1>1, <1>11 DEF ReadsNothing, SocketTypes
  <2>. QED
    BY <1>9, <2>1, <2>2
<1>. QED
  BY <1>4, <1>6, <1>7, <1>8, <1>10, <1>11 DEF ClientSteps

\* An answer more in the list of a child that holds n of them.
LEMMA AnswerAdded ==
  ASSUME NEW log \in Seq(Answer), NEW a \in Answer, NEW pages, NEW new, new = Append(log, a),
         \A i \in 1..Len(log) : i < FdLimit => log[i].url \in pages,
         Len(log) + 1 < FdLimit => a.url \in pages,
         \A j \in 1..Len(log) : \A i \in 1..j - 1 :
             log[i].url = log[j].url /\ i < FdLimit => log[j].verdict = "HIT",
         a.verdict # "HIT" => \A i \in 1..Len(log) : i < FdLimit => log[i].url # a.url
  PROVE  /\ new \in Seq(Answer)
         /\ Len(log) \in Nat /\ Len(new) = Len(log) + 1 /\ new[Len(log) + 1] = a
         /\ \A i \in 1..Len(log) : new[i] = log[i]
         /\ \A i \in 1..Len(new) : i < FdLimit => new[i].url \in pages
         /\ \A j \in 1..Len(new) : \A i \in 1..j - 1 :
                new[i].url = new[j].url /\ i < FdLimit => new[j].verdict = "HIT"
<1>1. PICK n \in Nat : n = Len(log)
  OBVIOUS
<1>2. /\ new \in Seq(Answer) /\ Len(new) = n + 1 /\ new[n + 1] = a
      /\ \A i \in 1..n : new[i] = log[i]
  BY <1>1, AppendedLog
<1>3. 1..n + 1 = (1..n) \cup {n + 1}
  OBVIOUS
<1>4. \A i \in 1..n + 1 : i < FdLimit => new[i].url \in pages
  BY <1>1, <1>2, <1>3
<1>5. ASSUME NEW j \in 1..n + 1, NEW i \in 1..j - 1, new[i].url = new[j].url, i < FdLimit
      PROVE  new[j].verdict = "HIT"
  <2>1. CASE j \in 1..n
    <3>1. i \in 1..n /\ new[i] = log[i] /\ new[j] = log[j]
      BY <1>2, <2>1
    <3>. QED
      BY <1>1, <1>5, <2>1, <3>1
  <2>2. CASE j = n + 1
    <3>1. i \in 1..n /\ new[i] = log[i] /\ new[j] = a
      BY <1>2, <2>2
    <3>. QED
      BY <1>1, <1>5, <3>1
  <2>. QED
    BY <1>3, <2>1, <2>2
<1>. QED
  BY <1>1, <1>2, <1>4, <1>5

LEMMA EndOfTwo ==
  ASSUME NEW a, NEW b
  PROVE  SubSeq(<<a, b>>, 2, 2) = <<b>> /\ SubSeq(<<a, b>>, 3, 2) = <<>>
<1>1. PICK s : s = SubSeq(<<a, b>>, 2, 2)
  OBVIOUS
<1>2. s \in Seq({a, b}) /\ Len(s) = 1 /\ s[1] = b
  <2>1. <<a, b>> \in Seq({a, b}) /\ Len(<<a, b>>) = 2
    OBVIOUS
  <2>. QED
    BY <1>1, <2>1
<1>3. s = <<b>>
  BY <1>2
<1>4. SubSeq(<<a, b>>, 3, 2) = <<>>
  OBVIOUS
<1>. QED
  BY <1>1, <1>3, <1>4

LEMMA ChildStep ==
  ASSUME SocketInv, NEW c \in Client, Accept(c) \/ ChildSteps(c)
  PROVE  SocketInv'
<1>1. SocketTypes
  BY DEF SocketInv
<1>2. /\ upstream[c] \in {<<>>, <<Bye, Runtime>>, <<Runtime>>} \cup {<<u>> : u \in Url}
      /\ downstream[c] \in {<<>>} \cup {<<v>> : v \in Verdict}
      /\ OneUnderWay(c) /\ Agree(c) /\ FilesMade(c)
  BY OneClient
<1>3. ASSUME NEW p, child' = [child EXCEPT ![c] = p], UNCHANGED clientVars,
             listening' = listening \/ (child[c] = "none" /\ listening),
             child[c] \notin {"none", "ended"} \/ listening, cache \subseteq cache', SocketTypes',
             \A d \in Client : d # c =>
                 /\ upstream'[d] = upstream[d] /\ downstream'[d] = downstream[d]
                 /\ url'[d] = url[d] /\ openLogs'[d] = openLogs[d]
                 /\ hit'[d] = hit[d] /\ miss'[d] = miss[d] /\ answered'[d] = answered[d],
             OneUnderWay(c)', Agree(c)', FilesMade(c)'
      PROVE  SocketInv'
  <2>1. listening' => listening
    BY <1>1, <1>3 DEF SocketTypes
  <2>2. SocketOpen' => SocketOpen
    BY <1>1, <1>3, <2>1, ClosedStays DEF Serving
  <2>3. \A d \in Client : d # c => child'[d] = child[d]
    BY <1>1, <1>3 DEF SocketTypes
  <2>. QED
    BY <1>3, <2>2, <2>3, ClientMoves DEF clientVars
\* An open connection to a child: the client waits for what is under way.
<1>4. ASSUME Serving(c) PROVE ~Gone(c) /\ SocketOpen
  BY <1>4 DEF Serving, Gone, SocketOpen
<1>5. CASE Accept(c)
  <2>1. PICK p \in {"reading", "ended"} :
            /\ child' = [child EXCEPT ![c] = p] /\ child[c] = "none" /\ client[c] # "new"
            /\ listening /\ UNCHANGED <<clientVars, upstream, downstream, childVars, cache>>
            /\ listening' \in BOOLEAN
    BY <1>1, <1>5 DEF Accept, SocketTypes
  <2>2. SocketTypes'
    BY <1>1, <2>1 DEF SocketTypes, clientVars, childVars
  <2>3. /\ child'[c] = p /\ SocketOpen /\ ~Gone(c)
        /\ shown[c] = <<>> /\ answered[c] = <<>> /\ downstream[c] = <<>> /\ openLogs[c] = 0
    BY <1>1, <1>2, <2>1 DEF SocketTypes, SocketOpen, Gone, OneUnderWay, FilesMade
  <2>4. OneUnderWay(c)'
    BY <1>2, <2>1, <2>3 DEF OneUnderWay, clientVars
  <2>5. Agree(c)'
    BY <1>2, <2>1, <2>3 DEF Agree, clientVars, childVars
  <2>6. FilesMade(c)'
    BY <1>2, <2>1, <2>3 DEF FilesMade, Serving, childVars
  <2>7. SocketOpen' => SocketOpen
    BY <2>3
  <2>8. \A d \in Client : d # c => child'[d] = child[d]
    BY <1>1, <2>1 DEF SocketTypes
  <2>. QED
    BY <2>1, <2>2, <2>4, <2>5, <2>6, <2>7, <2>8, ClientMoves DEF clientVars, childVars
\* The child reads or ends: its answers and what is under way from it stay.
<1>6. ASSUME NEW p \in {"lookup", "runtime", "ended"}, child' = [child EXCEPT ![c] = p],
             Serving(c), child[c] # "missed", NEW q, upstream' = [upstream EXCEPT ![c] = q],
             q \in {<<>>, upstream[c]} \/ (q = <<Runtime>> /\ client[c] = "ended"),
             p = "lookup" => /\ client[c] = "asking" /\ q = <<>> /\ downstream[c] = <<>>
                             /\ url'[c] \in Url,
             p = "runtime" => client[c] = "ended",
             \A d \in Client : d # c => url'[d] = url[d], url' \in [Client -> Url],
             runtime' \in [Client -> {Runtime, Uninitialised}],
             UNCHANGED <<listening, clientVars, downstream, openLogs, hit, miss, answered, cache>>
      PROVE  SocketInv'
  <2>1. /\ child'[c] = p /\ upstream'[c] = q
        /\ \A d \in Client : d # c => upstream'[d] = upstream[d]
    BY <1>1, <1>6 DEF SocketTypes
  <2>2. SocketTypes'
    <3>1. q \in {<<>>, <<Bye, Runtime>>, <<Runtime>>} \cup {<<u>> : u \in Url}
      BY <1>2, <1>6
    <3>2. upstream' \in [Client -> {<<>>, <<Bye, Runtime>>, <<Runtime>>} \cup {<<u>> : u \in Url}]
      BY <1>1, <1>6, <3>1 DEF SocketTypes
    <3>3. child' \in [Client -> {"none", "reading", "lookup", "missed", "runtime", "ended"}]
      BY <1>1, <1>6 DEF SocketTypes
    <3>. QED
      BY <1>1, <1>6, <3>2, <3>3 DEF SocketTypes, clientVars
  <2>3. OneUnderWay(c)'
    <3>1. ~Gone(c) /\ child[c] # "none"
      BY <1>4, <1>6 DEF Serving
    <3>2. UNCHANGED <<client, downstream, shown>>
      BY <1>6 DEF clientVars
    <3>3. (\E u \in Url : q = <<u>>) => client[c] = "asking"
      <4>1. q \in {<<>>, <<Runtime>>} => ~\E u \in Url : q = <<u>>
        BY UrlAssumption DEF Runtime
      <4>. QED
        BY <1>2, <1>6, <3>1, <4>1 DEF OneUnderWay
    <3>4. q \in {<<Bye, Runtime>>, <<Runtime>>} => client[c] = "ended"
      BY <1>2, <1>6 DEF OneUnderWay, Bye, Runtime
    <3>5. downstream[c] # <<>> => client[c] = "asking" /\ q = <<>>
      BY <1>2, <1>6 DEF OneUnderWay
    <3>6. client[c] # "new"
      BY <1>2, <3>1 DEF OneUnderWay
    <3>. QED
      BY <1>6, <2>1, <3>2, <3>3, <3>4, <3>5, <3>6 DEF OneUnderWay
  <2>4. Agree(c)'
    <3>1. UNCHANGED <<downstream, shown, answered, hit, miss>>
      BY <1>6 DEF clientVars
    <3>. QED
      BY <1>2, <1>6, <3>1 DEF Agree, Serving
  <2>5. FilesMade(c)'
    BY <1>2, <1>6, <2>1 DEF FilesMade, Serving
  <2>. QED
    BY <1>3, <1>6, <2>1, <2>2, <2>3, <2>4, <2>5 DEF Serving
<1>7. CASE ReadsUrl(c)
  <2>1. PICK u \in Url : upstream[c] = <<u>>
    <3>1. Head(<<Bye, Runtime>>) \notin Url /\ Head(<<Runtime>>) \notin Url
      BY UrlAssumption DEF Bye, Runtime
    <3>. QED
      BY <1>2, <1>7, <3>1 DEF ReadsUrl
  <2>2. Head(upstream[c]) = u /\ SubSeq(upstream[c], 1 + 1, Len(upstream[c])) = <<>>
    BY <2>1
  <2>3. /\ child[c] = "reading" /\ child' = [child EXCEPT ![c] = "lookup"]
        /\ upstream' = [upstream EXCEPT ![c] = <<>>] /\ url' = [url EXCEPT ![c] = u]
        /\ UNCHANGED <<listening, clientVars, downstream, openLogs, hit, miss, runtime, answered, cache>>
    BY <1>1, <1>7, <2>2 DEF ReadsUrl, Goes, Drops, SocketTypes
  <2>4. Serving(c) /\ client[c] = "asking" /\ downstream[c] = <<>>
    <3>1. Serving(c)
      BY <2>3 DEF Serving
    <3>2. upstream[c] # <<>>
      BY <2>1
    <3>. QED
      BY <1>2, <1>4, <2>1, <3>1, <3>2 DEF OneUnderWay
  <2>5. url' \in [Client -> Url] /\ url'[c] = u /\ \A d \in Client : d # c => url'[d] = url[d]
    BY <1>1, <2>3 DEF SocketTypes
  <2>6. runtime' \in [Client -> {Runtime, Uninitialised}]
    BY <1>1, <2>3 DEF SocketTypes
  <2>. QED
    BY <1>6, <2>3, <2>4, <2>5, <2>6
<1>8. CASE ReadsBye(c)
  <2>1. upstream[c] = <<Bye, Runtime>>
    <3>1. \A u \in Url : Head(<<u>>) # Bye
      BY UrlAssumption DEF Bye
    <3>2. Head(<<Runtime>>) # Bye
      BY DEF Bye, Runtime
    <3>. QED
      BY <1>2, <1>8, <3>1, <3>2 DEF ReadsBye
  <2>2. PICK n \in {2, 3} : upstream' = [upstream EXCEPT ![c] = SubSeq(@, n, Len(@))]
    <3>1. PICK k \in 1..2 : upstream' = [upstream EXCEPT ![c] = SubSeq(@, k + 1, Len(@))]
      BY <1>8, <2>1 DEF ReadsBye, Drops, Readable
    <3>2. k + 1 \in {2, 3}
      OBVIOUS
    <3>. QED
      BY <3>1, <3>2
  <2>3. PICK q \in {<<>>, <<Runtime>>} : upstream' = [upstream EXCEPT ![c] = q]
    <3>1. SubSeq(<<Bye, Runtime>>, n, 2) \in {<<>>, <<Runtime>>}
      BY EndOfTwo
    <3>2. upstream' = [upstream EXCEPT ![c] = SubSeq(<<Bye, Runtime>>, n, 2)]
      BY <1>1, <2>1, <2>2 DEF SocketTypes
    <3>. QED
      BY <3>1, <3>2
  <2>4. /\ child[c] = "reading" /\ child' = [child EXCEPT ![c] = "runtime"]
        /\ UNCHANGED <<listening, clientVars, downstream, childVars, cache>>
    BY <1>8 DEF ReadsBye, Goes
  <2>5. client[c] = "ended" /\ Serving(c)
    BY <1>2, <2>1, <2>4 DEF OneUnderWay, Serving
  <2>. QED
    BY <1>1, <1>6, <2>3, <2>4, <2>5 DEF childVars, SocketTypes
<1>9. CASE ReadsEnd(c)
  <2>1. /\ child[c] = "reading" /\ child' = [child EXCEPT ![c] = "ended"]
        /\ upstream' = [upstream EXCEPT ![c] = upstream[c]]
        /\ UNCHANGED <<listening, clientVars, downstream, childVars, cache>>
    BY <1>1, <1>9 DEF ReadsEnd, Goes, SocketTypes
  <2>. QED
    BY <1>1, <1>6, <2>1 DEF childVars, SocketTypes, Serving
<1>10. CASE OutOfDescriptors(c)
  <2>1. /\ child[c] = "lookup" /\ child' = [child EXCEPT ![c] = "ended"]
        /\ upstream' = [upstream EXCEPT ![c] = upstream[c]]
        /\ UNCHANGED <<listening, clientVars, downstream, childVars, cache>>
    BY <1>1, <1>10 DEF OutOfDescriptors, Goes, SocketTypes
  <2>. QED
    BY <1>1, <1>6, <2>1 DEF childVars, SocketTypes, Serving
<1>11. CASE ReadsRuntime(c)
  <2>1. /\ child[c] = "runtime" /\ child' = [child EXCEPT ![c] = "ended"]
        /\ upstream' = [upstream EXCEPT ![c] = <<>>]
        /\ UNCHANGED <<listening, clientVars, downstream, url, openLogs, hit, miss, answered, cache>>
        /\ runtime' \in [Client -> {Runtime, Uninitialised}]
    BY <1>1, <1>11 DEF ReadsRuntime, Goes, SocketTypes
  <2>. QED
    BY <1>1, <1>6, <2>1 DEF SocketTypes, Serving
\* An answer: the child goes back to read, with a verdict under way.
<1>12. ASSUME NEW v \in Verdict, child[c] \in {"lookup", "missed"},
              child' = [child EXCEPT ![c] = "reading"], Answers(c, v),
              UNCHANGED <<listening, clientVars, upstream, url, runtime>>,
              openLogs' \in [Client -> 0..FdLimit], openLogs'[c] = Len(answered[c]) + 1,
              \A d \in Client : d # c => openLogs'[d] = openLogs[d],
              cache \subseteq cache', cache' \in SUBSET Url,
              Len(answered[c]) + 1 < FdLimit => url[c] \in cache',
              v # "HIT" => \A i \in 1..Len(answered[c]) :
                               i < FdLimit => answered[c][i].url # url[c]
       PROVE  SocketInv'
  <2>1. PICK a \in Answer : a = [url |-> url[c], verdict |-> v]
    BY <1>1 DEF SocketTypes, Answer
  <2>2. a.url = url[c] /\ a.verdict = v
    BY <2>1
  <2>3. answered[c] \in Seq(Answer) /\ downstream[c] = <<>> /\ client[c] = "asking" /\ upstream[c] = <<>>
    BY <1>1, <1>2, <1>12 DEF SocketTypes, OneUnderWay
  <2>4. /\ downstream' = [downstream EXCEPT ![c] = <<v>>]
        /\ answered' = [answered EXCEPT ![c] = Append(@, a)]
        /\ hit' = [hit EXCEPT ![c] = IF v = "HIT" THEN @ + 1 ELSE @]
        /\ miss' = [miss EXCEPT ![c] = IF v = "MISS" THEN @ + 1 ELSE @]
    <3>1. Append(<<>>, v) = <<v>>
      OBVIOUS
    <3>2. downstream' = [downstream EXCEPT ![c] = Append(<<>>, v)]
      BY <1>1, <1>12, <2>3 DEF Answers, SocketTypes
    <3>. QED
      BY <1>12, <2>1, <3>1, <3>2 DEF Answers
  <2>5. /\ downstream'[c] = <<v>> /\ answered'[c] = Append(answered[c], a)
        /\ child'[c] = "reading"
        /\ hit'[c] = (IF v = "HIT" THEN hit[c] + 1 ELSE hit[c])
        /\ miss'[c] = (IF v = "MISS" THEN miss[c] + 1 ELSE miss[c])
        /\ \A d \in Client : d # c =>
              /\ downstream'[d] = downstream[d] /\ answered'[d] = answered[d]
              /\ hit'[d] = hit[d] /\ miss'[d] = miss[d]
    BY <1>1, <1>12, <2>4 DEF SocketTypes
  <2>6. /\ \A i \in 1..Len(answered[c]) : i < FdLimit => answered[c][i].url \in cache'
        /\ \A j \in 1..Len(answered[c]) : \A i \in 1..j - 1 :
              answered[c][i].url = answered[c][j].url /\ i < FdLimit
                  => answered[c][j].verdict = "HIT"
    BY <1>2, <1>12 DEF FilesMade
  <2>7. /\ answered'[c] \in Seq(Answer) /\ Len(answered[c]) \in Nat
        /\ Len(answered'[c]) = Len(answered[c]) + 1 /\ answered'[c][Len(answered[c]) + 1] = a
        /\ \A i \in 1..Len(answered[c]) : answered'[c][i] = answered[c][i]
        /\ \A i \in 1..Len(answered'[c]) : i < FdLimit => answered'[c][i].url \in cache'
        /\ \A j \in 1..Len(answered'[c]) : \A i \in 1..j - 1 :
              answered'[c][i].url = answered'[c][j].url /\ i < FdLimit
                  => answered'[c][j].verdict = "HIT"
    <3>1. PICK log, new, pages : log = answered[c] /\ new = answered'[c] /\ pages = cache'
      OBVIOUS
    <3>2. /\ log \in Seq(Answer) /\ new = Append(log, a)
          /\ \A i \in 1..Len(log) : i < FdLimit => log[i].url \in pages
          /\ Len(log) + 1 < FdLimit => a.url \in pages
          /\ \A j \in 1..Len(log) : \A i \in 1..j - 1 :
                log[i].url = log[j].url /\ i < FdLimit => log[j].verdict = "HIT"
          /\ a.verdict # "HIT" => \A i \in 1..Len(log) : i < FdLimit => log[i].url # a.url
      BY <1>12, <2>2, <2>3, <2>5, <2>6, <3>1
    <3>3. /\ new \in Seq(Answer)
          /\ Len(log) \in Nat /\ Len(new) = Len(log) + 1 /\ new[Len(log) + 1] = a
          /\ \A i \in 1..Len(log) : new[i] = log[i]
          /\ \A i \in 1..Len(new) : i < FdLimit => new[i].url \in pages
          /\ \A j \in 1..Len(new) : \A i \in 1..j - 1 :
                new[i].url = new[j].url /\ i < FdLimit => new[j].verdict = "HIT"
      BY <3>2, AnswerAdded
    <3>. QED
      BY <3>1, <3>3
  <2>8. SocketTypes'
    <3>1. answered' \in [Client -> Seq(Answer)]
      BY <1>1, <2>4, <2>5, <2>7 DEF SocketTypes
    <3>2. /\ downstream' \in [Client -> {<<>>} \cup {<<w>> : w \in Verdict}]
          /\ hit' \in [Client -> Nat] /\ miss' \in [Client -> Nat]
          /\ child' \in [Client -> {"none", "reading", "lookup", "missed", "runtime", "ended"}]
      BY <1>1, <1>12, <2>4 DEF SocketTypes
    <3>. QED
      BY <1>1, <1>12, <3>1, <3>2 DEF SocketTypes, clientVars
  <2>9. OneUnderWay(c)'
    <3>1. UNCHANGED <<client, upstream>>
      BY <1>12 DEF clientVars
    <3>2. <<>> \notin {<<Bye, Runtime>>, <<Runtime>>}
      OBVIOUS
    <3>. QED
      BY <2>3, <2>5, <3>1, <3>2 DEF OneUnderWay
  <2>10. Agree(c)'
    <3>1. shown' = shown
      BY <1>12 DEF clientVars
    <3>2. Len(answered[c]) = Len(shown[c])
      BY <1>2, <1>12, <2>3 DEF Agree, Serving
    <3>3. /\ hit'[c] = Found(answered'[c], "HIT") /\ miss'[c] = Found(answered'[c], "MISS")
      <4>1. hit[c] = Found(answered[c], "HIT") /\ miss[c] = Found(answered[c], "MISS")
        BY <1>2 DEF Agree
      <4>. QED
        BY <2>2, <2>3, <2>5, <4>1, FoundGrows
    <3>4. \A k \in 1..Len(shown[c]) :
              k <= Len(answered'[c]) => shown[c][k] = answered'[c][k].verdict
      <4>1. \A k \in 1..Len(answered[c]) : shown[c][k] = answered[c][k].verdict
        BY <1>2, <2>7, <3>2 DEF Agree
      <4>. QED
        BY <2>7, <3>2, <4>1
    <3>5. /\ \A w : <<w>> # <<>>
          /\ \A w : <<w>> = <<v>> => w = v
      OBVIOUS
    <3>. QED
      BY <2>2, <2>5, <2>7, <3>1, <3>2, <3>3, <3>4, <3>5 DEF Agree
  <2>11. FilesMade(c)'
    <3>1. openLogs'[c] = Len(answered'[c]) + 0
      BY <1>12, <2>7
    <3>. QED
      BY <2>5, <2>7, <3>1 DEF FilesMade
  <2>. QED
    BY <1>3, <1>12, <2>5, <2>8, <2>9, <2>10, <2>11
<1>13. CASE Hit(c)
  <2>1. /\ child[c] = "lookup" /\ child' = [child EXCEPT ![c] = "reading"]
        /\ url[c] \in cache /\ Answers(c, "HIT") /\ openLogs[c] < FdLimit
        /\ openLogs' = [openLogs EXCEPT ![c] = @ + 1]
        /\ UNCHANGED <<listening, clientVars, upstream, url, runtime, cache>>
    BY <1>13 DEF Hit, Goes, OpensLog
  <2>2. openLogs[c] = Len(answered[c])
    <3>1. Len(answered[c]) \in Nat
      BY <1>1 DEF SocketTypes
    <3>2. openLogs[c] = Len(answered[c]) + 0
      BY <1>2, <2>1 DEF FilesMade, Serving
    <3>. QED
      BY <3>1, <3>2
  <2>3. /\ openLogs' \in [Client -> 0..FdLimit] /\ openLogs'[c] = openLogs[c] + 1
        /\ \A d \in Client : d # c => openLogs'[d] = openLogs[d]
        /\ cache' = cache /\ cache \in SUBSET Url
    BY <1>1, <2>1, FdAssumption DEF SocketTypes
  <2>. QED
    BY <1>12, <2>1, <2>2, <2>3 DEF Verdict
<1>14. CASE Creates(c)
  <2>1. /\ child[c] = "missed" /\ child' = [child EXCEPT ![c] = "reading"]
        /\ Answers(c, "MISS")
        /\ cache' = IF openLogs[c] < FdLimit THEN cache \cup {url[c]} ELSE cache
        /\ UNCHANGED <<listening, clientVars, upstream, url, openLogs, runtime>>
    BY <1>14 DEF Creates, Goes, Created
  <2>2. openLogs[c] = Len(answered[c]) + 1
    BY <1>2, <2>1 DEF FilesMade, Serving
  <2>3. /\ openLogs' \in [Client -> 0..FdLimit] /\ openLogs' = openLogs
        /\ cache \subseteq cache' /\ cache' \in SUBSET Url
    BY <1>1, <2>1 DEF SocketTypes
  <2>4. \A i \in 1..Len(answered[c]) : i < FdLimit => answered[c][i].url # url[c]
    BY <1>2, <2>1 DEF FilesMade
  <2>. QED
    BY <1>12, <2>1, <2>2, <2>3, <2>4 DEF Verdict
<1>15. CASE Misses(c)
  <2>1. /\ child[c] = "lookup" /\ child' = [child EXCEPT ![c] = "missed"]
        /\ url[c] \notin cache /\ openLogs[c] < FdLimit
        /\ openLogs' = [openLogs EXCEPT ![c] = @ + 1]
        /\ UNCHANGED <<listening, clientVars, upstream, downstream, url, hit, miss, runtime, answered, cache>>
    BY <1>15 DEF Misses, Goes, OpensLog
  <2>2. /\ openLogs' \in [Client -> 0..FdLimit] /\ openLogs'[c] = openLogs[c] + 1
        /\ \A d \in Client : d # c => openLogs'[d] = openLogs[d]
        /\ child'[c] = "missed"
        /\ child' \in [Client -> {"none", "reading", "lookup", "missed", "runtime", "ended"}]
    BY <1>1, <2>1, FdAssumption DEF SocketTypes
  <2>3. openLogs[c] = Len(answered[c])
    <3>1. Len(answered[c]) \in Nat
      BY <1>1 DEF SocketTypes
    <3>2. openLogs[c] = Len(answered[c]) + 0
      BY <1>2, <2>1 DEF FilesMade, Serving
    <3>. QED
      BY <3>1, <3>2
  <2>4. SocketTypes'
    BY <1>1, <2>1, <2>2 DEF SocketTypes, clientVars
  <2>5. OneUnderWay(c)'
    <3>1. client[c] = "asking" /\ upstream[c] = <<>> /\ downstream[c] = <<>>
      BY <1>2, <2>1 DEF OneUnderWay
    <3>2. UNCHANGED <<client, upstream, downstream>>
      BY <2>1 DEF clientVars
    <3>3. <<>> \notin {<<Bye, Runtime>>, <<Runtime>>}
      OBVIOUS
    <3>. QED
      BY <2>2, <3>1, <3>2, <3>3 DEF OneUnderWay
  <2>6. Agree(c)'
    BY <1>2, <2>1, <2>2 DEF Agree, Serving, clientVars
  <2>7. FilesMade(c)'
    BY <1>2, <2>1, <2>2, <2>3 DEF FilesMade, Serving
  <2>. QED
    BY <1>3, <2>1, <2>2, <2>4, <2>5, <2>6, <2>7
<1>. QED
  BY <1>5, <1>7, <1>8, <1>9, <1>10, <1>11, <1>13, <1>14, <1>15 DEF ChildSteps

-----------------------------------------------------------------------------
(* 05 to 07: what the forking proxies keep. *)

Page == Asked \cup {Forking!Garbage}
Logged == [kind : {"terminated"}] \cup [kind : {"hit", "miss"}, url : Page, child : Number]
Through == {"zombie", "gone"}
Held == (0..Pieces) \cup Number

ForkingTypes ==
    /\ program \in {"05", "06", "07"} /\ listening \in BOOLEAN /\ sigchld \in BOOLEAN
    /\ pc \in [Number -> Forking!Working \cup {"none"} \cup Through]
    /\ url \in [Number -> Page] /\ found \in [Number -> BOOLEAN]
    /\ offset \in [Number -> 0..Pieces]
    /\ DOMAIN cache \in SUBSET Page
    /\ \A u \in DOMAIN cache : cache[u] \in Seq(Held)
    /\ answered \in SUBSET Number /\ before \in [Number -> SUBSET Number]
    /\ cut \in SUBSET Page /\ logfile \in Seq(Logged)

Unserved == {"none", "reading", "paused", "lookup"}

\* Where a child is tells which program it runs and what it found.
Places(c) ==
    /\ pc[c] \in Forking!Fetching => program = "07" /\ ~found[c]
    /\ pc[c] = "serving" => program = "07" /\ found[c]
    /\ pc[c] = "create" => program # "07" /\ ~found[c]
    /\ pc[c] \in {"respond", "unmade"} => program # "07"
    /\ pc[c] = "unmade" => ~found[c]
    /\ pc[c] = "append" => program = "06" /\ ~found[c]
    /\ pc[c] \in Unserved \cup {"log", "fetching"} => offset[c] = 0

\* Who has been answered, or is about to be, finds the page's file there; who
\* missed a page did so before any of those it was asked of had an answer.
Searches(c) ==
    /\ pc[c] \in Unserved => before[c] = {} /\ c \notin answered /\ ~found[c]
    /\ found[c] \/ c \in answered \/ pc[c] \in {"respond", "copying"}
           => url[c] \in DOMAIN cache
    /\ before[c] \subseteq answered
    /\ ~found[c] => \A d \in before[c] : url[d] # url[c]

OfChild(i) == logfile[i].kind \in {"hit", "miss"}

\* A line says what its child found.
LineOf(i, c) ==
    OfChild(i) /\ logfile[i].child = c
        => /\ pc[c] \notin Unserved \cup {"log"} /\ logfile[i].url = url[c]
           /\ logfile[i].kind = "hit" <=> found[c]
LinesTrue == \A c \in Number : \A i \in 1..Len(logfile) : LineOf(i, c)

Appends(c, u) == pc[c] \in {"respond", "append"} /\ ~found[c] /\ url[c] = u

\* Whatever the file of a page lacks, some writer is still to write.
PageKept(u) ==
    /\ Len(cache[u]) <= Pieces
    /\ u \notin cut =>
          \A k \in 1..Pieces :
              \/ k <= Len(cache[u]) /\ cache[u][k] = k
              \/ \E c \in Number : pc[c] = "copying" /\ url[c] = u /\ offset[c] < k

\* A file's answer is of a child that is through.
FromThrough(u) ==
    \A k \in 1..Len(cache[u]) : cache[u][k] \in Number /\ pc[cache[u][k]] \in Through
AnswerKept(u) ==
    /\ FromThrough(u) /\ Forking!OnceEach(u)
    /\ u \notin cut => Len(cache[u]) > 0 \/ \E c \in Number : Appends(c, u)

FilesKept ==
    \A u \in DOMAIN cache :
        (program = "07" => PageKept(u)) /\ (program = "06" => AnswerKept(u))

ForkingInv ==
    /\ ForkingTypes /\ LinesTrue /\ FilesKept
    /\ \A c \in Number : Places(c) /\ Searches(c)

LEMMA ForkingInit == Forking!Init => ForkingInv
<1>. SUFFICES ASSUME Forking!Init PROVE ForkingInv
  OBVIOUS
<1>1. logfile = <<>> /\ Len(logfile) = 0 /\ logfile \in Seq(Logged) /\ DOMAIN cache = {}
  BY DEF Forking!Init
<1>2. ForkingTypes
  <2>1. offset \in [Number -> 0..Pieces] /\ url \in [Number -> Page]
    BY PiecesAssumption DEF Forking!Init, Page
  <2>2. pc \in [Number -> Forking!Working \cup {"none"} \cup Through]
    BY DEF Forking!Init
  <2>. QED
    BY <1>1, <2>1, <2>2 DEF Forking!Init, ForkingTypes
<1>3. LinesTrue
  BY <1>1 DEF Forking!Init, LinesTrue
<1>4. FilesKept
  BY <1>1 DEF FilesKept
<1>5. ASSUME NEW c \in Number PROVE Places(c) /\ Searches(c)
  BY <1>5 DEF Forking!Init, Places, Searches, Forking!Fetching, Unserved
<1>. QED
  BY <1>2, <1>3, <1>4, <1>5 DEF ForkingInv

\* The log is as it was or has the line of an ended server or child more.
LogQuiet == logfile' = logfile \/ logfile' = Append(logfile, Forking!Terminated)

LEMMA LogQuietly ==
  ASSUME logfile \in Seq(Logged), LogQuiet
  PROVE  /\ logfile' \in Seq(Logged) /\ Len(logfile) \in Nat /\ Len(logfile') \in Nat
         /\ Len(logfile') >= Len(logfile)
         /\ \A i \in 1..Len(logfile) : logfile'[i] = logfile[i]
         /\ \A i \in 1..Len(logfile') : OfChild(i)' => i \in 1..Len(logfile)
<1>1. Forking!Terminated \in Logged /\ Forking!Terminated.kind = "terminated"
  BY DEF Logged, Forking!Terminated
<1>2. CASE logfile' = logfile
  BY <1>2
<1>3. CASE logfile' = Append(logfile, Forking!Terminated)
  <2>1. PICK n \in Nat : n = Len(logfile)
    OBVIOUS
  <2>2. /\ logfile' \in Seq(Logged) /\ Len(logfile') = n + 1
        /\ \A i \in 1..n : logfile'[i] = logfile[i]
        /\ logfile'[n + 1] = Forking!Terminated
    BY <1>1, <1>3, <2>1, AppendedLog
  <2>3. \A i \in 1..n + 1 : i \in 1..n \/ i = n + 1
    OBVIOUS
  <2>4. \A i \in 1..Len(logfile') : OfChild(i)' => i \in 1..n
    BY <1>1, <2>2, <2>3 DEF OfChild
  <2>. QED
    BY <2>1, <2>2, <2>4
<1>. QED
  BY <1>2, <1>3 DEF LogQuiet

\* A file that stays, of children that stay as they are once they are through.
LEMMA AnswersStay ==
  ASSUME NEW u, FromThrough(u), Forking!OnceEach(u), cache'[u] = cache[u],
         \A d \in Number : pc[d] \in Through =>
             pc'[d] \in Through /\ url'[d] = url[d] /\ found'[d] = found[d]
  PROVE  FromThrough(u)' /\ Forking!OnceEach(u)'
  BY DEF FromThrough, Forking!OnceEach

\* What a step leaves of the child d that neither writes a file nor a line of
\* its own: it ends, waits on, or goes on to write.
Quietly(d) ==
    /\ \/ pc'[d] \in {pc[d]} \cup Through /\ url'[d] = url[d]
       \/ pc[d] \in Unserved /\ pc'[d] \in Unserved \cup {"spinning"}
       \/ /\ pc[d] \in {"respond", "unmade"} /\ pc'[d] = "append"
          /\ program = "06" /\ ~found[d] /\ url'[d] = url[d]
       \/ pc[d] = "create" /\ pc'[d] = "unmade" /\ url'[d] = url[d]
       \/ pc[d] = "fetching" /\ pc'[d] = "relaying" /\ url'[d] = url[d]
    /\ pc[d] \in Through => pc'[d] \in Through
    /\ d \in answered' => d \in answered \/ (url'[d] \in DOMAIN cache /\ pc'[d] \notin Unserved)
    /\ pc[d] = "copying" => pc'[d] = "copying" \/ url[d] \in cut' \/ offset[d] = Pieces
    /\ program = "06" /\ pc[d] \in {"respond", "append"} /\ ~found[d]
          => pc'[d] \in {"respond", "append"} \/ url[d] \in cut'

Quiet ==
    /\ UNCHANGED <<program, found, offset, before, cache>> /\ LogQuiet
    /\ listening' \in BOOLEAN /\ sigchld' \in BOOLEAN
    /\ pc' \in [Number -> Forking!Working \cup {"none"} \cup Through]
    /\ url' \in [Number -> Page]
    /\ answered \subseteq answered' /\ answered' \subseteq Number
    /\ cut \subseteq cut' /\ cut' \subseteq Page
    /\ \A d \in Number : Quietly(d)

LEMMA QuietStep ==
  ASSUME ForkingInv, Quiet
  PROVE  ForkingInv'
<1>0. ForkingTypes /\ LinesTrue /\ FilesKept
  BY DEF ForkingInv
<1>1. /\ logfile \in Seq(Logged) /\ logfile' \in Seq(Logged)
      /\ Len(logfile) \in Nat /\ Len(logfile') \in Nat /\ Len(logfile') >= Len(logfile)
      /\ \A i \in 1..Len(logfile) : logfile'[i] = logfile[i]
      /\ \A i \in 1..Len(logfile') : OfChild(i)' => i \in 1..Len(logfile)
      /\ \A i \in 1..Len(logfile) : i \in 1..Len(logfile')
  <2>1. logfile \in Seq(Logged)
    BY <1>0 DEF ForkingTypes
  <2>2. LogQuiet
    BY DEF Quiet
  <2>3. /\ logfile' \in Seq(Logged)
        /\ Len(logfile) \in Nat /\ Len(logfile') \in Nat /\ Len(logfile') >= Len(logfile)
        /\ \A i \in 1..Len(logfile) : logfile'[i] = logfile[i]
        /\ \A i \in 1..Len(logfile') : OfChild(i)' => i \in 1..Len(logfile)
    BY <2>1, <2>2, LogQuietly
  <2>4. \A i \in 1..Len(logfile) : i \in 1..Len(logfile')
    BY <2>3
  <2>. QED
    BY <2>1, <2>3, <2>4
<1>2. ForkingTypes'
  BY <1>0, <1>1 DEF Quiet, ForkingTypes
<1>3. ASSUME NEW c \in Number PROVE Places(c)' /\ Searches(c)'
  <2>1. Places(c) /\ Searches(c) /\ Quietly(c)
    BY DEF ForkingInv, Quiet
  <2>2. UNCHANGED <<program, found, offset, before, cache>> /\ answered \subseteq answered'
    BY DEF Quiet
  <2>3. Places(c)'
    BY <2>1, <2>2 DEF Quietly, Places, Unserved, Through, Forking!Fetching
  <2>4. \A d \in answered : url'[d] = url[d]
    <3>1. \A d \in answered : d \in Number /\ Searches(d) /\ Quietly(d)
      BY <1>0 DEF ForkingInv, ForkingTypes, Quiet
    <3>2. \A d \in answered : pc[d] \notin Unserved
      BY <3>1 DEF Searches
    <3>. QED
      BY <3>1, <3>2 DEF Quietly
  <2>5. pc'[c] \in Unserved => before[c] = {} /\ c \notin answered' /\ ~found[c]
    BY <2>1, <2>2 DEF Quietly, Searches, Unserved, Through
  <2>6. found[c] \/ c \in answered' \/ pc'[c] \in {"respond", "copying"}
           => url'[c] \in DOMAIN cache
    <3>1. pc[c] \notin Unserved => url'[c] = url[c]
      BY <2>1 DEF Quietly
    <3>2. pc[c] \in Unserved => ~found[c] /\ c \notin answered /\ pc'[c] \notin {"respond", "copying"}
      BY <2>1 DEF Quietly, Searches, Unserved, Through
    <3>3. pc'[c] \in {"respond", "copying"} => pc[c] = pc'[c]
      BY <2>1 DEF Quietly, Unserved, Through
    <3>4. c \in answered' => c \in answered \/ url'[c] \in DOMAIN cache
      BY <2>1 DEF Quietly
    <3>. QED
      BY <2>1, <3>1, <3>2, <3>3, <3>4 DEF Searches
  <2>7. ~found[c] => \A d \in before[c] : url'[d] # url'[c]
    BY <2>1, <2>2, <2>4 DEF Quietly, Searches
  <2>. QED
    BY <2>1, <2>2, <2>3, <2>5, <2>6, <2>7 DEF Searches
<1>4. LinesTrue'
  <2>2. ASSUME NEW c \in Number, NEW i \in 1..Len(logfile') PROVE LineOf(i, c)'
    <3>. SUFFICES ASSUME OfChild(i)', logfile'[i].child = c
                  PROVE  /\ pc'[c] \notin Unserved \cup {"log"} /\ logfile'[i].url = url'[c]
                         /\ logfile'[i].kind = "hit" <=> found'[c]
      BY DEF LineOf
    <3>1. i \in 1..Len(logfile) /\ logfile'[i] = logfile[i]
      BY <1>1
    <3>2. OfChild(i) /\ LineOf(i, c) /\ Quietly(c) /\ found' = found
      BY <1>0, <3>1 DEF OfChild, LinesTrue, Quiet
    <3>. QED
      BY <3>1, <3>2 DEF LineOf, Quietly, Unserved, Through
  <2>. QED
    BY <2>2 DEF LinesTrue
<1>5. FilesKept'
  <2>1. \A d \in Number : pc[d] \in Through =>
           pc'[d] \in Through /\ url'[d] = url[d] /\ found'[d] = found[d]
    BY DEF Quiet, Quietly, Unserved, Through
  <2>2. ASSUME NEW u \in DOMAIN cache
        PROVE  (program = "07" => PageKept(u)') /\ (program = "06" => AnswerKept(u)')
    <3>1. cache' = cache /\ cut \subseteq cut' /\ UNCHANGED <<found, offset>>
      BY DEF Quiet
    <3>2. CASE program = "07"
      <4>1. PageKept(u)
        BY <1>0, <3>2 DEF FilesKept
      <4>2. ASSUME NEW k \in 1..Pieces, u \notin cut',
                   NEW c \in Number, pc[c] = "copying", url[c] = u, offset[c] < k
            PROVE  pc'[c] = "copying" /\ url'[c] = u /\ offset'[c] < k
        <5>1. Quietly(c) /\ offset[c] # Pieces
          BY <4>2, PiecesAssumption DEF Quiet
        <5>. QED
          BY <3>1, <4>2, <5>1 DEF Quietly, Unserved, Through
      <4>. QED
        BY <3>1, <3>2, <4>1, <4>2 DEF PageKept
    <3>3. CASE program = "06"
      <4>1. AnswerKept(u)
        BY <1>0, <3>3 DEF FilesKept
      <4>2. ASSUME NEW c \in Number, Appends(c, u), u \notin cut'
            PROVE  Appends(c, u)'
        <5>1. Quietly(c)
          BY DEF Quiet
        <5>. QED
          BY <3>1, <3>3, <4>2, <5>1 DEF Quietly, Appends, Unserved, Through
      <4>3. FromThrough(u)' /\ Forking!OnceEach(u)'
        BY <2>1, <3>1, <4>1, AnswersStay DEF AnswerKept
      <4>. QED
        BY <3>1, <3>3, <4>1, <4>2, <4>3 DEF AnswerKept
    <3>. QED
      BY <3>2, <3>3
  <2>3. cache' = cache /\ program' = program
    BY DEF Quiet
  <2>. QED
    BY <2>2, <2>3 DEF FilesKept
<1>. QED
  BY <1>2, <1>3, <1>4, <1>5 DEF ForkingInv

LEMMA MovesQuietly ==
  ASSUME ForkingInv, NEW c \in Number, NEW p \in Forking!Working \cup Through,
         pc' = [pc EXCEPT ![c] = p], pc[c] \notin Through,
         UNCHANGED <<program, found, offset, before, cache>>, LogQuiet,
         listening' \in BOOLEAN, sigchld' \in BOOLEAN,
         url' \in [Number -> Page], \A d \in Number : d # c => url'[d] = url[d],
         answered' \in {answered, answered \cup {c}},
         cut \subseteq cut', cut' \subseteq Page, Quietly(c)
  PROVE  ForkingInv'
<1>1. ForkingTypes
  BY DEF ForkingInv
<1>2. pc' \in [Number -> Forking!Working \cup {"none"} \cup Through]
  BY <1>1 DEF ForkingTypes
<1>3. ASSUME NEW d \in Number, d # c PROVE Quietly(d)
  BY <1>1, <1>3 DEF ForkingTypes, Quietly
<1>4. Quiet
  BY <1>1, <1>2, <1>3 DEF Quiet, ForkingTypes
<1>. QED
  BY <1>4, QuietStep

LEMMA EndsQuietly ==
  ASSUME ForkingInv, NEW c \in Number, pc[c] \in Forking!Working, Forking!Ends(c),
         UNCHANGED <<url, found, offset, before, cache>>, LogQuiet,
         \/ answered' = answered
         \/ answered' = answered \cup {c} /\ url[c] \in DOMAIN cache,
         cut \subseteq cut', cut' \subseteq Page,
         pc[c] = "copying" => url[c] \in cut' \/ offset[c] = Pieces,
         program = "06" /\ pc[c] \in {"respond", "append"} /\ ~found[c] => url[c] \in cut'
  PROVE  ForkingInv'
<1>1. ForkingTypes
  BY DEF ForkingInv
<1>2. PICK p \in Through : pc' = [pc EXCEPT ![c] = p]
  BY DEF Forking!Ends, Through
<1>3. pc'[c] = p /\ pc[c] \notin Through
  BY <1>1, <1>2 DEF ForkingTypes, Forking!Working, Forking!Fetching, Through
<1>4. Quietly(c)
  BY <1>3 DEF Quietly, Through, Unserved
<1>5. listening' \in BOOLEAN /\ sigchld' \in BOOLEAN /\ program' = program
  BY <1>1 DEF Forking!Ends, ForkingTypes
<1>6. url' \in [Number -> Page]
  BY <1>1 DEF ForkingTypes
<1>. QED
  BY <1>2, <1>3, <1>4, <1>5, <1>6, MovesQuietly

LEMMA CutQuietly ==
  ASSUME ForkingInv, NEW c \in Number, Forking!Cut(c)
  PROVE  /\ cut \subseteq cut' /\ cut' \subseteq Page
         /\ pc[c] = "copying" => url[c] \in cut'
         /\ pc[c] \in {"respond", "append"} /\ ~found[c] => url[c] \in cut'
<1>1. url[c] \in Page /\ cut \subseteq Page /\ Places(c)
  BY DEF ForkingInv, ForkingTypes
<1>. QED
  BY <1>1 DEF Forking!Cut, Places

\* The server's steps, and what ends a child or lets it go on without a file.
LEMMA ServerStep ==
  ASSUME ForkingInv, Forking!Reap \/ Forking!ServerEnds \/ UNCHANGED Forking!vars
  PROVE  ForkingInv'
<1>1. ForkingTypes
  BY DEF ForkingInv
<1>2. \/ pc' = pc
      \/ pc' = [c \in Number |-> IF pc[c] = "zombie" THEN "gone" ELSE pc[c]]
  <2>1. CASE Forking!Reap
    <3>1. pc' = [c \in Number |-> IF c \in {d \in Number : pc[d] = "zombie"} THEN "gone" ELSE pc[c]]
      BY <2>1 DEF Forking!Reap, Forking!Reaped
    <3>2. \A c \in Number : c \in {d \in Number : pc[d] = "zombie"} <=> pc[c] = "zombie"
      OBVIOUS
    <3>. QED
      BY <3>1, <3>2, Zenon
  <2>2. CASE Forking!ServerEnds \/ UNCHANGED Forking!vars
    BY <2>2 DEF Forking!ServerEnds, Forking!vars
  <2>. QED
    BY <2>1, <2>2
<1>3. pc' \in [Number -> Forking!Working \cup {"none"} \cup Through]
  BY <1>1, <1>2 DEF ForkingTypes, Through
<1>a. \A c \in Number : pc'[c] = pc[c] \/ (pc[c] = "zombie" /\ pc'[c] = "gone")
  BY <1>1, <1>2 DEF ForkingTypes
<1>4. UNCHANGED <<program, url, found, offset, before, cache, answered, cut>>
  BY DEF Forking!Reap, Forking!ServerEnds, Forking!vars, Forking!childVars, Forking!fileVars
<1>5. LogQuiet
  BY DEF Forking!Reap, Forking!ServerEnds, Forking!vars, Forking!fileVars, Forking!Logs, LogQuiet
<1>6. listening' \in BOOLEAN /\ sigchld' \in BOOLEAN
  BY <1>1 DEF ForkingTypes, Forking!Reap, Forking!ServerEnds, Forking!vars
<1>7. ASSUME NEW d \in Number PROVE Quietly(d)
  BY <1>a, <1>4 DEF Quietly, Through
<1>. QED
  BY <1>1, <1>3, <1>4, <1>5, <1>6, <1>7, QuietStep DEF Quiet, ForkingTypes

LEMMA QuietChild ==
  ASSUME ForkingInv, NEW c \in Number,
         \/ Forking!Accept(c) \/ Forking!NoRequest(c) \/ Forking!Request(c)
         \/ Forking!Respond(c) \/ Forking!Served(c) \/ Forking!Copied(c)
         \/ Forking!OriginFails(c) \/ Forking!SigAlrm(c) \/ Forking!Ended(c)
  PROVE  ForkingInv'
<1>1. ForkingTypes /\ Places(c) /\ Searches(c)
  BY DEF ForkingInv
<1>. USE DEF Forking!childVars, Forking!fileVars, Forking!Goes
<1>2. CASE Forking!Accept(c)
  <2>1. PICK p \in {"reading", "gone"} : pc' = [pc EXCEPT ![c] = p]
    BY <1>2 DEF Forking!Accept
  <2>2. pc[c] = "none" /\ pc'[c] = p /\ p \in Forking!Working \cup Through
    BY <1>1, <1>2, <2>1 DEF Forking!Accept, ForkingTypes, Forking!Working, Through
  <2>3. UNCHANGED <<program, listening, sigchld, url, found, offset, before, cache, logfile,
                    answered, cut>>
    BY <1>2 DEF Forking!Accept
  <2>4. Quietly(c)
    BY <2>2, <2>3 DEF Quietly, Unserved, Through
  <2>. QED
    BY <1>1, <2>1, <2>2, <2>3, <2>4, MovesQuietly DEF ForkingTypes, LogQuiet, Through
<1>3. ASSUME pc[c] = "reading", NEW p \in Unserved \cup {"spinning"}, p # "none",
             pc' = [pc EXCEPT ![c] = p], url' \in [Number -> Page],
             p = "spinning" => url'[c] = url[c],
             \A d \in Number : d # c => url'[d] = url[d],
             UNCHANGED <<program, listening, sigchld, found, offset, before, cache, logfile,
                         answered, cut>>
      PROVE  ForkingInv'
  <2>1. pc'[c] = p /\ p \in Forking!Working \cup Through
    BY <1>1, <1>3 DEF ForkingTypes, Forking!Working, Unserved
  <2>2. Quietly(c)
    BY <1>1, <1>3, <2>1 DEF Quietly, Unserved, Through
  <2>. QED
    BY <1>1, <1>3, <2>1, <2>2, MovesQuietly DEF ForkingTypes, LogQuiet, Through
<1>4. CASE Forking!NoRequest(c)
  <2>1. CASE Forking!Ends(c) /\ UNCHANGED url
    <3>1. pc[c] = "reading" /\ UNCHANGED <<found, offset, before, cache, logfile, answered, cut>>
      BY <1>4 DEF Forking!NoRequest
    <3>. QED
      BY <1>1, <2>1, <3>1, EndsQuietly DEF ForkingTypes, LogQuiet, Forking!Working
  <2>2. ASSUME NEW p \in {"lookup", "spinning"}, Forking!Goes(c, "reading", p),
               url' = url \/ (p = "lookup" /\ url' = [url EXCEPT ![c] = Forking!Garbage])
        PROVE  ForkingInv'
    <3>1. UNCHANGED <<program, listening, sigchld, found, offset, before, cache, logfile,
                      answered, cut>>
      BY <1>4, <2>2 DEF Forking!NoRequest
    <3>2. url' \in [Number -> Page] /\ (\A d \in Number : d # c => url'[d] = url[d])
          /\ (p = "spinning" => url'[c] = url[c])
      BY <1>1, <2>2 DEF ForkingTypes, Page
    <3>. QED
      BY <1>3, <2>2, <3>1, <3>2 DEF Unserved
  <2>. QED
    BY <1>4, <2>1, <2>2 DEF Forking!NoRequest
<1>5. CASE Forking!Request(c)
  <2>1. pc[c] = "reading" /\ UNCHANGED <<url, found, offset, before, cache, logfile, answered, cut>>
    BY <1>5 DEF Forking!Request
  <2>2. CASE Forking!Ends(c)
    BY <1>1, <2>1, <2>2, EndsQuietly DEF ForkingTypes, LogQuiet, Forking!Working
  <2>3. ASSUME NEW p \in {"paused", "lookup"}, Forking!Goes(c, "reading", p)
        PROVE  ForkingInv'
    <3>1. UNCHANGED <<program, listening, sigchld>> /\ pc' = [pc EXCEPT ![c] = p]
      BY <2>3
    <3>2. url' \in [Number -> Page]
      BY <1>1, <2>1 DEF ForkingTypes
    <3>. QED
      BY <1>3, <2>1, <2>3, <3>1, <3>2 DEF Unserved
  <2>. QED
    BY <1>5, <2>2, <2>3 DEF Forking!Request
<1>6. CASE Forking!Respond(c)
  <2>1. /\ pc[c] \in {"respond", "unmade"}
        /\ answered' = answered \/ (answered' = answered \cup {c} /\ url[c] \in DOMAIN cache)
        /\ UNCHANGED <<url, found, offset, before, cache, logfile, cut>>
    BY <1>1, <1>6 DEF Forking!Respond, Forking!Answers, Searches
  <2>2. CASE Forking!Ends(c) /\ ~(program = "06" /\ ~found[c])
    BY <1>1, <2>1, <2>2, EndsQuietly DEF ForkingTypes, LogQuiet, Forking!Working
  <2>3. CASE Forking!Goes(c, pc[c], "append") /\ program = "06" /\ ~found[c]
    <3>1. UNCHANGED <<program, listening, sigchld>> /\ pc' = [pc EXCEPT ![c] = "append"]
      BY <2>3
    <3>2. pc'[c] = "append" /\ "append" \in Forking!Working
      BY <1>1, <3>1 DEF ForkingTypes, Forking!Working
    <3>3. Quietly(c)
      BY <2>1, <2>3, <3>1, <3>2 DEF Quietly, Unserved, Through
    <3>. QED
      BY <1>1, <2>1, <3>1, <3>2, <3>3, MovesQuietly DEF ForkingTypes, LogQuiet, Through
  <2>. QED
    BY <1>6, <2>1, <2>2, <2>3 DEF Forking!Respond
<1>7. CASE Forking!Served(c)
  <2>1. /\ pc[c] = "serving" /\ answered' = answered \cup {c} /\ url[c] \in DOMAIN cache
        /\ UNCHANGED <<url, found, offset, before, cache, logfile, cut>> /\ Forking!Ends(c)
    BY <1>1, <1>7 DEF Forking!Served, Forking!Answers, Places, Searches
  <2>. QED
    BY <1>1, <2>1, EndsQuietly DEF ForkingTypes, LogQuiet, Forking!Working
<1>8. CASE Forking!Copied(c)
  <2>1. /\ pc[c] \in {"copying", "relaying"} /\ offset[c] = Pieces
        /\ UNCHANGED <<url, found, offset, before, cache, logfile, cut>> /\ Forking!Ends(c)
    BY <1>8 DEF Forking!Copied
  <2>2. answered' = answered \/ (answered' = answered \cup {c} /\ url[c] \in DOMAIN cache)
    BY <1>1, <1>8 DEF Forking!Copied, Searches
  <2>. QED
    BY <1>1, <2>1, <2>2, EndsQuietly
       DEF ForkingTypes, LogQuiet, Forking!Working, Forking!Fetching
<1>9. CASE Forking!OriginFails(c) \/ Forking!SigAlrm(c) \/ Forking!Ended(c)
  <2>1. pc[c] \in Forking!Working /\ Forking!Ends(c) /\ Forking!Cut(c)
    BY <1>9 DEF Forking!OriginFails, Forking!SigAlrm, Forking!Ended, Forking!Working
  <2>2. UNCHANGED <<url, found, offset, before, cache, answered>>
    BY <1>9 DEF Forking!OriginFails, Forking!SigAlrm, Forking!Ended
  <2>3. LogQuiet
    BY <1>9 DEF Forking!OriginFails, Forking!SigAlrm, Forking!Ended, Forking!Logs, LogQuiet
  <2>4. /\ cut \subseteq cut' /\ cut' \subseteq Page
        /\ pc[c] = "copying" => url[c] \in cut'
        /\ pc[c] \in {"respond", "append"} /\ ~found[c] => url[c] \in cut'
    BY <2>1, CutQuietly
  <2>. QED
    BY <2>1, <2>2, <2>3, <2>4, EndsQuietly
<1>. QED
  BY <1>2, <1>4, <1>5, <1>6, <1>7, <1>8, <1>9

\* The steps of a child that change what it found or the files: the other
\* children, the lines of an unchanged log, and unchanged files.
LEMMA OthersKept ==
  ASSUME ForkingInv, NEW d \in Number,
         UNCHANGED <<program, url, answered>>, DOMAIN cache \subseteq DOMAIN cache',
         pc'[d] = pc[d], found'[d] = found[d], offset'[d] = offset[d], before'[d] = before[d]
  PROVE  Places(d)' /\ Searches(d)'
<1>1. Places(d) /\ Searches(d)
  BY DEF ForkingInv
<1>. QED
  BY <1>1 DEF Places, Searches

LEMMA LinesStay ==
  ASSUME ForkingInv, UNCHANGED <<url, logfile>>,
         \A d \in Number : pc[d] \notin Unserved \cup {"log"} =>
                                 pc'[d] \notin Unserved \cup {"log"} /\ found'[d] = found[d]
  PROVE  LinesTrue'
<1>1. LinesTrue
  BY DEF ForkingInv
<1>3. ASSUME NEW c \in Number, NEW i \in 1..Len(logfile) PROVE LineOf(i, c)'
  BY <1>1 DEF LinesTrue, LineOf, OfChild
<1>. QED
  BY <1>3 DEF LinesTrue

LEMMA FilesStay ==
  ASSUME ForkingInv, UNCHANGED <<program, url, cache, cut>>,
         \A d \in Number : /\ pc[d] \in Through => pc'[d] \in Through /\ found'[d] = found[d]
                           /\ pc[d] = "copying" => pc'[d] = "copying" /\ offset'[d] = offset[d]
                           /\ pc[d] \in {"respond", "append"} =>
                                 pc'[d] \in {"respond", "append"} /\ found'[d] = found[d]
  PROVE  FilesKept'
<1>1. ASSUME NEW u \in DOMAIN cache, PageKept(u) PROVE PageKept(u)'
  BY <1>1 DEF PageKept
<1>2. ASSUME NEW u \in DOMAIN cache, AnswerKept(u) PROVE AnswerKept(u)'
  <2>1. FromThrough(u)' /\ Forking!OnceEach(u)'
    BY <1>2, AnswersStay DEF AnswerKept
  <2>2. \A c \in Number : Appends(c, u) => Appends(c, u)'
    BY DEF Appends
  <2>. QED
    BY <1>2, <2>1, <2>2 DEF AnswerKept
<1>3. FilesKept
  BY DEF ForkingInv
<1>. QED
  BY <1>1, <1>2, <1>3 DEF FilesKept

\* Where a child goes on.
LEMMA GoesOn ==
  ASSUME ForkingInv, NEW c \in Number, NEW from \in Forking!Working, NEW to \in Forking!Working,
         Forking!Goes(c, from, to)
  PROVE  /\ pc[c] = from /\ pc'[c] = to /\ \A d \in Number : d # c => pc'[d] = pc[d]
         /\ pc' \in [Number -> Forking!Working \cup {"none"} \cup Through]
         /\ UNCHANGED <<program, listening, sigchld>>
         /\ \A d \in Number : pc[d] \in Through => pc'[d] \in Through
<1>1. pc \in [Number -> Forking!Working \cup {"none"} \cup Through]
  BY DEF ForkingInv, ForkingTypes
<1>2. pc[c] = from /\ pc' = [pc EXCEPT ![c] = to] /\ UNCHANGED <<program, listening, sigchld>>
  BY DEF Forking!Goes
<1>3. from \notin Through
  BY DEF Forking!Working, Forking!Fetching, Through
<1>. QED
  BY <1>1, <1>2, <1>3

LEMMA LookupStep ==
  ASSUME ForkingInv, NEW c \in Number, Forking!Lookup(c)
  PROVE  ForkingInv'
<1>1. ForkingTypes /\ Places(c) /\ Searches(c)
  BY DEF ForkingInv
<1>2. /\ pc[c] = "lookup" /\ pc'[c] = "log" /\ \A d \in Number : d # c => pc'[d] = pc[d]
      /\ pc' \in [Number -> Forking!Working \cup {"none"} \cup Through]
      /\ UNCHANGED <<program, listening, sigchld>>
      /\ \A d \in Number : pc[d] \in Through => pc'[d] \in Through
  <2>1. Forking!Goes(c, "lookup", "log") /\ {"lookup", "log"} \subseteq Forking!Working
    BY DEF Forking!Lookup, Forking!Working
  <2>. QED
    BY <2>1, GoesOn
<1>3. UNCHANGED <<url, offset, cache, logfile, answered, cut>>
  BY DEF Forking!Lookup, Forking!fileVars
<1>4. /\ \/ found'[c] = (url[c] \in DOMAIN cache) /\ before'[c] = answered
         \/ found'[c] = found[c] /\ before'[c] = before[c]
      /\ found' \in [Number -> BOOLEAN] /\ before' \in [Number -> SUBSET Number]
      /\ \A d \in Number : d # c => found'[d] = found[d] /\ before'[d] = before[d]
  <2>1. \/ /\ found' = [found EXCEPT ![c] = url[c] \in DOMAIN cache]
           /\ before' = [before EXCEPT ![c] = answered]
        \/ found' = found /\ before' = before
    BY DEF Forking!Lookup
  <2>2. /\ found \in [Number -> BOOLEAN] /\ before \in [Number -> SUBSET Number]
        /\ answered \in SUBSET Number
    BY <1>1 DEF ForkingTypes
  <2>3. CASE found' = found /\ before' = before
    BY <2>2, <2>3
  <2>4. CASE /\ found' = [found EXCEPT ![c] = url[c] \in DOMAIN cache]
             /\ before' = [before EXCEPT ![c] = answered]
    BY <2>2, <2>4
  <2>. QED
    BY <2>1, <2>3, <2>4
<1>5. ForkingTypes'
  BY <1>1, <1>2, <1>3, <1>4 DEF ForkingTypes
<1>6. LinesTrue'
  BY <1>2, <1>3, <1>4, LinesStay DEF Unserved
<1>7. FilesKept'
  BY <1>2, <1>3, <1>4, FilesStay DEF Through
<1>8. Places(c)'
  BY <1>1, <1>2, <1>3 DEF Places, Unserved, Forking!Fetching
<1>9. Searches(c)'
  <2>1. c \notin answered
    BY <1>1, <1>2 DEF Searches, Unserved
  <2>2. \A d \in answered : url[d] \in DOMAIN cache
    BY <1>1 DEF ForkingInv, ForkingTypes, Searches
  <2>3. before[c] = {} /\ ~found[c]
    BY <1>1, <1>2 DEF Searches, Unserved
  <2>. QED
    BY <1>2, <1>3, <1>4, <2>1, <2>2, <2>3 DEF Searches, Unserved
<1>10. ASSUME NEW d \in Number, d # c PROVE Places(d)' /\ Searches(d)'
  BY <1>2, <1>3, <1>4, <1>10, OthersKept
<1>. QED
  BY <1>5, <1>6, <1>7, <1>8, <1>9, <1>10 DEF ForkingInv

LEMMA LogStep ==
  ASSUME ForkingInv, NEW c \in Number, Forking!Log(c)
  PROVE  ForkingInv'
<1>1. ForkingTypes /\ LinesTrue /\ Places(c) /\ Searches(c)
  BY DEF ForkingInv
<1>2. PICK to \in {"serving", "fetching", "respond", "create"} : to = Forking!AfterLog(c)
  BY DEF Forking!AfterLog
<1>3. /\ pc[c] = "log" /\ pc'[c] = to /\ \A d \in Number : d # c => pc'[d] = pc[d]
      /\ pc' \in [Number -> Forking!Working \cup {"none"} \cup Through]
      /\ UNCHANGED <<program, listening, sigchld>>
      /\ \A d \in Number : pc[d] \in Through => pc'[d] \in Through
  <2>1. Forking!Goes(c, "log", to) /\ {"log", to} \subseteq Forking!Working
    BY <1>2 DEF Forking!Log, Forking!Working, Forking!Fetching
  <2>. QED
    BY <2>1, GoesOn
<1>4. UNCHANGED <<url, found, offset, before, cache, answered, cut>>
  BY DEF Forking!Log, Forking!childVars
<1>5. PICK e \in Logged : /\ logfile' \in {logfile, Append(logfile, e)} /\ e.kind \in {"hit", "miss"}
                          /\ e.child = c /\ e.url = url[c] /\ (e.kind = "hit" <=> found[c])
  <2>1. PICK e : e = [kind |-> IF found[c] THEN "hit" ELSE "miss", url |-> url[c], child |-> c]
    OBVIOUS
  <2>2. logfile' \in {logfile, Append(logfile, e)}
    BY <2>1, Zenon DEF Forking!Log, Forking!Logs
  <2>3. e \in Logged
    BY <1>1, <2>1 DEF Logged, ForkingTypes
  <2>. QED
    BY <1>1, <2>1, <2>2, <2>3 DEF ForkingTypes
<1>6. PICK n \in Nat : n = Len(logfile)
  BY <1>1 DEF ForkingTypes
<1>7. /\ logfile' \in Seq(Logged)
      /\ \A i \in 1..n : logfile'[i] = logfile[i]
      /\ \A i \in 1..Len(logfile') : i \in 1..n \/ logfile'[i] = e
  <2>1. logfile \in Seq(Logged)
    BY <1>1 DEF ForkingTypes
  <2>2. CASE logfile' = logfile
    BY <1>6, <2>1, <2>2
  <2>3. CASE logfile' = Append(logfile, e)
    <3>1. /\ logfile' \in Seq(Logged) /\ Len(logfile') = n + 1
          /\ \A i \in 1..n : logfile'[i] = logfile[i]
          /\ logfile'[n + 1] = e
      BY <1>6, <2>1, <2>3, AppendedLog
    <3>2. \A i \in 1..n + 1 : i \in 1..n \/ i = n + 1
      OBVIOUS
    <3>. QED
      BY <3>1, <3>2
  <2>. QED
    BY <1>5, <2>2, <2>3
<1>8. ForkingTypes'
  BY <1>1, <1>3, <1>4, <1>7 DEF ForkingTypes
<1>9. LinesTrue'
  <2>2. ASSUME NEW d \in Number, NEW i \in 1..n PROVE LineOf(i, d)'
    <3>1. LineOf(i, d)
      BY <1>1, <1>6 DEF LinesTrue
    <3>2. CASE d = c
      BY <1>3, <1>7, <3>1, <3>2 DEF LineOf, OfChild
    <3>3. CASE d # c
      BY <1>3, <1>4, <1>7, <3>1, <3>3 DEF LineOf, OfChild
    <3>. QED
      BY <3>2, <3>3
  <2>3. ASSUME NEW d \in Number, NEW i \in 1..Len(logfile'), logfile'[i] = e
        PROVE  LineOf(i, d)'
    BY <1>2, <1>3, <1>4, <1>5, <2>3 DEF LineOf, Unserved
  <2>. QED
    BY <1>7, <2>2, <2>3 DEF LinesTrue
<1>10. FilesKept'
  BY <1>3, <1>4, FilesStay DEF Through
<1>11. Places(c)'
  BY <1>1, <1>2, <1>3, <1>4
     DEF Places, Unserved, Forking!Fetching, Forking!AfterLog, ForkingTypes
<1>12. Searches(c)'
  <2>1. to = "respond" => found[c]
    BY <1>1, <1>2 DEF Forking!AfterLog
  <2>. QED
    BY <1>1, <1>2, <1>3, <1>4, <2>1 DEF Searches, Unserved
<1>13. ASSUME NEW d \in Number, d # c PROVE Places(d)' /\ Searches(d)'
  BY <1>3, <1>4, <1>13, OthersKept
<1>. QED
  BY <1>8, <1>9, <1>10, <1>11, <1>12, <1>13 DEF ForkingInv

\* A file made or emptied.
LEMMA EmptiedFile ==
  ASSUME ForkingInv, NEW u \in Page, cache' = Forking!Emptied(u)
  PROVE  /\ DOMAIN cache' = DOMAIN cache \cup {u} /\ DOMAIN cache' \in SUBSET Page
         /\ cache'[u] = <<>> /\ \A v \in DOMAIN cache : v # u => cache'[v] = cache[v]
         /\ \A v \in DOMAIN cache' : cache'[v] \in Seq(Held)
<1>1. ForkingTypes
  BY DEF ForkingInv
<1>2. /\ DOMAIN cache' = DOMAIN cache \cup {u}
      /\ \A v \in DOMAIN cache' : cache'[v] = IF v = u THEN <<>> ELSE cache[v]
  BY DEF Forking!Emptied
<1>3. <<>> \in Seq(Held)
  OBVIOUS
<1>4. ASSUME NEW v \in DOMAIN cache' PROVE cache'[v] \in Seq(Held)
  BY <1>1, <1>2, <1>3 DEF ForkingTypes
<1>5. DOMAIN cache' \in SUBSET Page
  BY <1>1, <1>2 DEF ForkingTypes
<1>. QED
  BY <1>2, <1>4, <1>5

LEMMA CreateStep ==
  ASSUME ForkingInv, NEW c \in Number, Forking!Create(c)
  PROVE  ForkingInv'
<1>1. ForkingTypes /\ LinesTrue /\ FilesKept /\ Places(c) /\ Searches(c)
  BY DEF ForkingInv
<1>2. ASSUME NEW to \in {"respond", "unmade"}, Forking!Goes(c, "create", to)
      PROVE  /\ pc[c] = "create" /\ pc'[c] = to /\ \A d \in Number : d # c => pc'[d] = pc[d]
             /\ pc' \in [Number -> Forking!Working \cup {"none"} \cup Through]
             /\ UNCHANGED <<program, listening, sigchld>>
             /\ pc' = [pc EXCEPT ![c] = to]
  <2>1. {"create", to} \subseteq Forking!Working
    BY DEF Forking!Working
  <2>2. pc' = [pc EXCEPT ![c] = to]
    BY <1>2 DEF Forking!Goes
  <2>. QED
    BY <1>2, <2>1, <2>2, GoesOn
<1>3. UNCHANGED <<url, found, offset, before, logfile, answered, cut>>
  BY DEF Forking!Create, Forking!childVars
<1>4. CASE Forking!Goes(c, "create", "unmade") /\ UNCHANGED cache
  <2>1. /\ pc[c] = "create" /\ pc'[c] = "unmade" /\ pc' = [pc EXCEPT ![c] = "unmade"]
        /\ UNCHANGED <<program, listening, sigchld>>
    BY <1>2, <1>4
  <2>2. Quietly(c)
    BY <1>3, <2>1 DEF Quietly, Unserved, Through
  <2>3. "unmade" \in Forking!Working /\ pc[c] \notin Through
    BY <2>1 DEF Forking!Working, Through
  <2>. QED
    BY <1>1, <1>3, <1>4, <2>1, <2>2, <2>3, MovesQuietly DEF ForkingTypes, LogQuiet
<1>5. CASE Forking!Goes(c, "create", "respond") /\ cache' = Forking!Emptied(url[c])
  <2>1. /\ pc[c] = "create" /\ pc'[c] = "respond" /\ \A d \in Number : d # c => pc'[d] = pc[d]
        /\ pc' \in [Number -> Forking!Working \cup {"none"} \cup Through]
        /\ UNCHANGED <<program, listening, sigchld>>
    BY <1>2, <1>5
  <2>2. PICK u \in Page : u = url[c]
    BY <1>1 DEF ForkingTypes
  <2>3. /\ DOMAIN cache' = DOMAIN cache \cup {u} /\ DOMAIN cache' \in SUBSET Page
        /\ cache'[u] = <<>> /\ \A v \in DOMAIN cache : v # u => cache'[v] = cache[v]
        /\ \A v \in DOMAIN cache' : cache'[v] \in Seq(Held)
    BY <1>5, <2>2, EmptiedFile
  <2>4. ForkingTypes'
    BY <1>1, <1>3, <2>1, <2>3 DEF ForkingTypes
  <2>5. LinesTrue'
    BY <1>3, <2>1, LinesStay DEF Unserved
  <2>6. FilesKept'
    <3>1. program # "07" /\ ~found[c]
      BY <1>1, <2>1 DEF Places
    <3>2. AnswerKept(u)'
      <4>1. Appends(c, u)' /\ Len(cache'[u]) = 0
        BY <1>3, <2>1, <2>2, <2>3, <3>1 DEF Appends
      <4>2. FromThrough(u)' /\ Forking!OnceEach(u)'
        BY <2>3 DEF FromThrough, Forking!OnceEach
      <4>. QED
        BY <4>1, <4>2 DEF AnswerKept
    <3>3. ASSUME program = "06", NEW v \in DOMAIN cache, v # u PROVE AnswerKept(v)'
      <4>1. AnswerKept(v) /\ cache'[v] = cache[v]
        BY <1>1, <2>3, <3>3 DEF FilesKept
      <4>2. \A d \in Number : Appends(d, v) => Appends(d, v)'
        BY <1>3, <2>1 DEF Appends
      <4>3. FromThrough(v)' /\ Forking!OnceEach(v)'
        BY <1>3, <2>1, <4>1, AnswersStay DEF AnswerKept, Through
      <4>. QED
        BY <1>3, <4>1, <4>2, <4>3 DEF AnswerKept
    <3>. QED
      BY <2>1, <2>3, <3>1, <3>2, <3>3 DEF FilesKept
  <2>7. Places(c)' /\ Searches(c)'
    <3>1. Places(c)'
      BY <1>1, <1>3, <2>1 DEF Places, Unserved, Forking!Fetching
    <3>2. Searches(c)'
      BY <1>1, <1>3, <2>1, <2>2, <2>3 DEF Searches, Unserved
    <3>. QED
      BY <3>1, <3>2
  <2>8. ASSUME NEW d \in Number, d # c PROVE Places(d)' /\ Searches(d)'
    BY <1>3, <2>1, <2>3, <2>8, OthersKept
  <2>. QED
    BY <2>4, <2>5, <2>6, <2>7, <2>8 DEF ForkingInv
<1>. QED
  BY <1>4, <1>5 DEF Forking!Create

\* What a file is after an answer of c is put to its end.
LEMMA AnswerPut ==
  ASSUME NEW data \in Seq(Held), NEW c \in Number, NEW new, new = Append(data, c)
  PROVE  /\ new \in Seq(Held) /\ Len(new) = Len(data) + 1 /\ Len(data) \in Nat
         /\ \A k \in 1..Len(data) : new[k] = data[k]
         /\ \A k \in 1..Len(new) : k \in 1..Len(data) \/ (k = Len(new) /\ new[k] = c)
<1>1. c \in Held
  BY DEF Held
<1>2. PICK n \in Nat : n = Len(data)
  OBVIOUS
<1>3. /\ new \in Seq(Held) /\ Len(new) = n + 1
      /\ \A k \in 1..n : new[k] = data[k]
      /\ new[n + 1] = c
  BY <1>1, <1>2, AppendedLog
<1>4. \A k \in 1..n + 1 : k \in 1..n \/ k = n + 1
  OBVIOUS
<1>. QED
  BY <1>2, <1>3, <1>4

LEMMA AppendStep ==
  ASSUME ForkingInv, NEW c \in Number, Forking!AppendAnswer(c)
  PROVE  ForkingInv'
<1>1. ForkingTypes /\ LinesTrue /\ FilesKept /\ Places(c) /\ Searches(c)
  BY DEF ForkingInv
<1>2. UNCHANGED <<program, url, found, offset, before, logfile, answered>>
  BY DEF Forking!AppendAnswer, Forking!childVars, Forking!Ends
<1>3. /\ pc[c] = "append" /\ pc'[c] \in Through /\ \A d \in Number : d # c => pc'[d] = pc[d]
      /\ pc' \in [Number -> Forking!Working \cup {"none"} \cup Through]
      /\ listening' \in BOOLEAN /\ sigchld' \in BOOLEAN
  BY <1>1 DEF Forking!AppendAnswer, Forking!Ends, ForkingTypes, Through
<1>4. program = "06" /\ ~found[c]
  BY <1>1, <1>3 DEF Places
<1>5. PICK u \in Page : u = url[c]
  BY <1>1 DEF ForkingTypes
<1>6. CASE cut' = cut \cup {url[c]} /\ UNCHANGED cache
  <2>1. cut \subseteq cut' /\ cut' \subseteq Page /\ url[c] \in cut'
    BY <1>1, <1>5, <1>6 DEF ForkingTypes
  <2>2. Forking!Ends(c) /\ "append" \in Forking!Working
    BY DEF Forking!AppendAnswer, Forking!Working
  <2>. QED
    BY <1>2, <1>3, <1>6, <2>1, <2>2, EndsQuietly DEF LogQuiet
<1>7. CASE /\ UNCHANGED cut
           /\ cache' = [v \in DOMAIN cache \cup {url[c]} |->
                  IF v = url[c] THEN Forking!Appended(Forking!FileOf(v), c) ELSE cache[v]]
  <2>1. PICK data \in Seq(Held) : data = Forking!FileOf(u)
    <3>1. <<>> \in Seq(Held)
      OBVIOUS
    <3>2. \A v \in DOMAIN cache : cache[v] \in Seq(Held)
      BY <1>1 DEF ForkingTypes
    <3>3. Forking!FileOf(u) \in Seq(Held)
      BY <3>1, <3>2 DEF Forking!FileOf
    <3>. QED
      BY <3>3
  <2>2. PICK new : new = Append(data, c)
    OBVIOUS
  <2>3. /\ DOMAIN cache' = DOMAIN cache \cup {u} /\ cache'[u] = new
        /\ \A v \in DOMAIN cache : v # u => cache'[v] = cache[v]
    BY <1>5, <1>7, <2>1, <2>2 DEF Forking!Appended
  <2>4. /\ new \in Seq(Held) /\ Len(new) = Len(data) + 1 /\ Len(data) \in Nat
        /\ \A k \in 1..Len(data) : new[k] = data[k]
        /\ \A k \in 1..Len(new) : k \in 1..Len(data) \/ (k = Len(new) /\ new[k] = c)
    BY <2>2, AnswerPut
  <2>5. ForkingTypes'
    <3>1. ASSUME NEW v \in DOMAIN cache' PROVE cache'[v] \in Seq(Held)
      BY <1>1, <2>3, <2>4 DEF ForkingTypes
    <3>2. DOMAIN cache' \in SUBSET Page
      BY <1>1, <2>3 DEF ForkingTypes
    <3>. QED
      BY <1>1, <1>2, <1>3, <1>7, <3>1, <3>2 DEF ForkingTypes
  <2>6. LinesTrue'
    BY <1>2, <1>3, LinesStay DEF Unserved, Through
  <2>7. FilesKept'
    <3>1. \A k \in 1..Len(data) :
              /\ data[k] \in Number /\ pc[data[k]] \in Through /\ data[k] # c
              /\ url[data[k]] = u /\ ~found[data[k]]
              /\ \A j \in 1..Len(data) : data[j] = data[k] => j = k
      <4>1. CASE u \in DOMAIN cache
        <5>1. AnswerKept(u) /\ data = cache[u]
          BY <1>1, <1>4, <2>1, <4>1 DEF FilesKept, Forking!FileOf
        <5>. QED
          BY <1>3, <5>1 DEF AnswerKept, FromThrough, Forking!OnceEach, Through
      <4>2. CASE u \notin DOMAIN cache
        BY <2>1, <4>2 DEF Forking!FileOf
      <4>. QED
        BY <4>1, <4>2
    <3>2. FromThrough(u)'
      <4>1. \A k \in 1..Len(new) : new[k] \in Number /\ pc'[new[k]] \in Through
        BY <1>3, <2>4, <3>1
      <4>. QED
        BY <2>3, <4>1 DEF FromThrough
    <3>3. Forking!OnceEach(u)'
      <4>1. \A k \in 1..Len(new) : new[k] \in Number /\ url[new[k]] = u /\ ~found[new[k]]
        BY <1>4, <1>5, <2>4, <3>1
      <4>2. \A k, j \in 1..Len(new) : new[j] = new[k] => j = k
        BY <2>4, <3>1
      <4>. QED
        BY <1>2, <2>3, <4>1, <4>2 DEF Forking!OnceEach
    <3>4. AnswerKept(u)'
      <4>1. Len(cache'[u]) > 0
        BY <2>3, <2>4
      <4>. QED
        BY <3>2, <3>3, <4>1 DEF AnswerKept
    <3>5. ASSUME NEW v \in DOMAIN cache, v # u PROVE AnswerKept(v)'
      <4>1. AnswerKept(v) /\ cache'[v] = cache[v]
        BY <1>1, <1>4, <2>3, <3>5 DEF FilesKept
      <4>2. \A d \in Number : Appends(d, v) => Appends(d, v)'
        BY <1>2, <1>3, <1>5, <3>5 DEF Appends
      <4>3. FromThrough(v)' /\ Forking!OnceEach(v)'
        BY <1>2, <1>3, <4>1, AnswersStay DEF AnswerKept
      <4>. QED
        BY <1>7, <4>1, <4>2, <4>3 DEF AnswerKept
    <3>. QED
      BY <1>2, <1>4, <2>3, <3>4, <3>5 DEF FilesKept
  <2>8. Places(c)' /\ Searches(c)'
    <3>1. Places(c)'
      BY <1>3 DEF Places, Unserved, Forking!Fetching, Through
    <3>2. Searches(c)'
      BY <1>1, <1>2, <1>3, <2>3 DEF Searches, Unserved, Through
    <3>. QED
      BY <3>1, <3>2
  <2>9. ASSUME NEW d \in Number, d # c PROVE Places(d)' /\ Searches(d)'
    BY <1>2, <1>3, <2>3, <2>9, OthersKept
  <2>. QED
    BY <2>5, <2>6, <2>7, <2>8, <2>9 DEF ForkingInv
<1>. QED
  BY <1>6, <1>7 DEF Forking!AppendAnswer

LEMMA OpenStep ==
  ASSUME ForkingInv, NEW c \in Number, Forking!Open(c)
  PROVE  ForkingInv'
<1>1. ForkingTypes /\ LinesTrue /\ FilesKept /\ Places(c) /\ Searches(c)
  BY DEF ForkingInv
<1>2. UNCHANGED <<url, found, offset, before, logfile, answered, cut>>
  BY DEF Forking!Open, Forking!childVars
<1>3. ASSUME NEW to \in {"copying", "relaying"}, Forking!Goes(c, "fetching", to)
      PROVE  /\ pc[c] = "fetching" /\ pc'[c] = to /\ \A d \in Number : d # c => pc'[d] = pc[d]
             /\ pc' \in [Number -> Forking!Working \cup {"none"} \cup Through]
             /\ UNCHANGED <<program, listening, sigchld>>
             /\ \A d \in Number : pc[d] \in Through => pc'[d] \in Through
             /\ pc' = [pc EXCEPT ![c] = to]
  <2>1. {"fetching", to} \subseteq Forking!Working
    BY DEF Forking!Working, Forking!Fetching
  <2>2. pc' = [pc EXCEPT ![c] = to]
    BY <1>3 DEF Forking!Goes
  <2>. QED
    BY <1>3, <2>1, <2>2, GoesOn
<1>4. program = "07" /\ ~found[c] /\ offset[c] = 0
  <2>1. pc[c] = "fetching"
    BY DEF Forking!Open, Forking!Goes
  <2>. QED
    BY <1>1, <2>1 DEF Places, Forking!Fetching
<1>5. CASE Forking!Goes(c, "fetching", "relaying") /\ UNCHANGED cache
  <2>1. /\ pc[c] = "fetching" /\ pc'[c] = "relaying" /\ pc' = [pc EXCEPT ![c] = "relaying"]
        /\ UNCHANGED <<program, listening, sigchld>>
    BY <1>3, <1>5
  <2>2. Quietly(c)
    BY <1>2, <2>1 DEF Quietly, Unserved, Through
  <2>3. "relaying" \in Forking!Working /\ pc[c] \notin Through
    BY <2>1 DEF Forking!Working, Forking!Fetching, Through
  <2>. QED
    BY <1>1, <1>2, <1>5, <2>1, <2>2, <2>3, MovesQuietly DEF ForkingTypes, LogQuiet
<1>6. CASE Forking!Goes(c, "fetching", "copying") /\ cache' = Forking!Emptied(url[c])
  <2>1. /\ pc[c] = "fetching" /\ pc'[c] = "copying" /\ \A d \in Number : d # c => pc'[d] = pc[d]
        /\ pc' \in [Number -> Forking!Working \cup {"none"} \cup Through]
        /\ UNCHANGED <<program, listening, sigchld>>
    BY <1>3, <1>6
  <2>2. PICK u \in Page : u = url[c]
    BY <1>1 DEF ForkingTypes
  <2>3. /\ DOMAIN cache' = DOMAIN cache \cup {u} /\ DOMAIN cache' \in SUBSET Page
        /\ cache'[u] = <<>> /\ \A v \in DOMAIN cache : v # u => cache'[v] = cache[v]
        /\ \A v \in DOMAIN cache' : cache'[v] \in Seq(Held)
    BY <1>6, <2>2, EmptiedFile
  <2>4. ForkingTypes'
    BY <1>1, <1>2, <2>1, <2>3 DEF ForkingTypes
  <2>5. LinesTrue'
    BY <1>2, <2>1, LinesStay DEF Unserved
  <2>6. FilesKept'
    <3>1. PageKept(u)'
      <4>1. Len(cache'[u]) = 0
        BY <2>3
      <4>2. \A k \in 1..Pieces : pc'[c] = "copying" /\ url'[c] = u /\ offset'[c] < k
        BY <1>2, <1>4, <2>1, <2>2, PiecesAssumption
      <4>. QED
        BY <4>1, <4>2, PiecesAssumption DEF PageKept
    <3>2. ASSUME NEW v \in DOMAIN cache, v # u PROVE PageKept(v)'
      <4>1. PageKept(v) /\ cache'[v] = cache[v]
        BY <1>1, <1>4, <2>3, <3>2 DEF FilesKept
      <4>2. \A d \in Number : pc[d] = "copying" => pc'[d] = "copying"
        BY <2>1
      <4>. QED
        BY <1>2, <4>1, <4>2 DEF PageKept
    <3>. QED
      BY <1>4, <2>1, <2>3, <3>1, <3>2 DEF FilesKept
  <2>7. Places(c)' /\ Searches(c)'
    <3>1. Places(c)'
      BY <1>2, <1>4, <2>1 DEF Places, Unserved, Forking!Fetching
    <3>2. Searches(c)'
      BY <1>1, <1>2, <2>1, <2>2, <2>3 DEF Searches, Unserved
    <3>. QED
      BY <3>1, <3>2
  <2>8. ASSUME NEW d \in Number, d # c PROVE Places(d)' /\ Searches(d)'
    BY <1>2, <2>1, <2>3, <2>8, OthersKept
  <2>. QED
    BY <2>4, <2>5, <2>6, <2>7, <2>8 DEF ForkingInv
<1>. QED
  BY <1>5, <1>6 DEF Forking!Open

\* A piece is served, or passed on without a file.
LEMMA ServeStep ==
  ASSUME ForkingInv, NEW c \in Number, pc[c] \in {"serving", "relaying"}, offset[c] + 1 <= Pieces,
         offset' = [offset EXCEPT ![c] = offset[c] + 1],
         UNCHANGED <<program, listening, sigchld, pc, url, found, before, cache, logfile,
                     answered, cut>>
  PROVE  ForkingInv'
<1>1. ForkingTypes /\ Places(c) /\ Searches(c)
  BY DEF ForkingInv
<1>2. offset[c] + 1 \in 0..Pieces
  BY <1>1, PiecesAssumption DEF ForkingTypes
<1>3. ForkingTypes' /\ \A d \in Number : d # c => offset'[d] = offset[d]
  BY <1>1, <1>2 DEF ForkingTypes
<1>4. LinesTrue'
  BY LinesStay
<1>5. FilesKept'
  BY <1>3, FilesStay
<1>6. Places(c)' /\ Searches(c)'
  <2>1. Places(c)'
    BY <1>1 DEF Places, Unserved
  <2>2. Searches(c)'
    BY <1>1 DEF Searches
  <2>. QED
    BY <2>1, <2>2
<1>7. ASSUME NEW d \in Number, d # c PROVE Places(d)' /\ Searches(d)'
  BY <1>3, <1>7, OthersKept
<1>. QED
  BY <1>3, <1>4, <1>5, <1>6, <1>7 DEF ForkingInv

\* What a file is after a piece is written into it.
LEMMA PieceWritten ==
  ASSUME NEW data \in Seq(Held), NEW at \in 1..Pieces, Len(data) <= Pieces
  PROVE  LET new == Forking!Written(data, at, at)
         IN  /\ new \in Seq(Held) /\ Len(new) <= Pieces
             /\ \A k \in 1..Len(data) : k # at => new[k] = data[k]
             /\ at <= Len(new) /\ new[at] = at /\ Len(data) <= Len(new)
<1>1. PICK n \in Nat : n = IF at > Len(data) THEN at ELSE Len(data)
  OBVIOUS
<1>2. PICK f : f = [k \in 1..n |-> IF k = at THEN at ELSE IF k <= Len(data) THEN data[k] ELSE 0]
  OBVIOUS
<1>3. Forking!Written(data, at, at) = f
  BY <1>1, <1>2 DEF Forking!Written, Forking!Hole
<1>4. n <= Pieces /\ at <= n /\ Len(data) <= n
  BY <1>1, PiecesAssumption
<1>5. f \in [1..n -> Held]
  <2>1. at \in Held /\ 0 \in Held
    BY PiecesAssumption DEF Held
  <2>2. ASSUME NEW k \in 1..n, k <= Len(data) PROVE data[k] \in Held
    BY <2>2
  <2>. QED
    BY <1>2, <2>1, <2>2
<1>6. f \in Seq(Held) /\ Len(f) = n
  BY <1>2, <1>5
<1>7. \A k \in 1..Len(data) : k \in 1..n /\ k <= Len(data)
  BY <1>4
<1>8. at \in 1..n
  BY <1>4
<1>9. f[at] = at /\ \A k \in 1..Len(data) : k # at => f[k] = data[k]
  BY <1>2, <1>7, <1>8
<1>. QED
  BY <1>3, <1>4, <1>6, <1>9

LEMMA CopyStep ==
  ASSUME ForkingInv, NEW c \in Number, Forking!Copy(c), pc[c] = "copying"
  PROVE  ForkingInv'
<1>1. ForkingTypes /\ FilesKept /\ Places(c) /\ Searches(c)
  BY DEF ForkingInv
<1>2. UNCHANGED <<program, listening, sigchld, pc, url, found, before, logfile, answered, cut>>
  BY DEF Forking!Copy
<1>3. program = "07" /\ ~found[c]
  BY <1>1 DEF Places, Forking!Fetching
<1>4. PICK k \in 1..Pieces : k = offset[c] + 1
  <2>1. offset[c] + 1 \in 1..Pieces
    BY <1>1, PiecesAssumption DEF ForkingTypes, Forking!Copy
  <2>. QED
    BY <2>1
<1>5. offset'[c] = k /\ offset' \in [Number -> 0..Pieces]
      /\ \A d \in Number : d # c => offset'[d] = offset[d]
  <2>1. offset' = [offset EXCEPT ![c] = k] /\ k \in 0..Pieces
    BY <1>4, PiecesAssumption DEF Forking!Copy
  <2>. QED
    BY <1>1, <2>1 DEF ForkingTypes
<1>6. PICK u \in Page, data \in Seq(Held) :
          u = url[c] /\ data = cache[u] /\ u \in DOMAIN cache
  BY <1>1 DEF ForkingTypes, Searches
<1>7. PageKept(u) /\ Len(data) <= Pieces
  BY <1>1, <1>3, <1>6 DEF FilesKept, PageKept
<1>8. PICK new : new = Forking!Written(data, k, k)
  OBVIOUS
<1>9. /\ new \in Seq(Held) /\ Len(new) <= Pieces
      /\ \A j \in 1..Len(data) : j # k => new[j] = data[j]
      /\ k <= Len(new) /\ new[k] = k /\ Len(data) <= Len(new)
  BY <1>7, <1>8, PieceWritten
<1>10. /\ DOMAIN cache' = DOMAIN cache /\ cache'[u] = new
       /\ \A v \in DOMAIN cache : v # u => cache'[v] = cache[v]
  BY <1>4, <1>6, <1>8 DEF Forking!Copy
<1>11. ForkingTypes'
  <2>1. ASSUME NEW v \in DOMAIN cache' PROVE cache'[v] \in Seq(Held)
    BY <1>1, <1>9, <1>10 DEF ForkingTypes
  <2>. QED
    BY <1>1, <1>2, <1>5, <1>10, <2>1 DEF ForkingTypes
<1>12. LinesTrue'
  BY <1>2, LinesStay
<1>13. FilesKept'
  <2>1. PageKept(u)'
    <3>1. ASSUME NEW j \in 1..Pieces, u \notin cut
          PROVE  \/ j <= Len(new) /\ new[j] = j
                 \/ \E d \in Number : pc[d] = "copying" /\ url[d] = u /\ offset'[d] < j
      <4>1. CASE j = k
        BY <1>9, <4>1
      <4>2. CASE j # k /\ j <= Len(data) /\ data[j] = j
        <5>1. j \in 1..Len(data) /\ j <= Len(new)
          BY <1>9, <4>2
        <5>. QED
          BY <1>9, <4>2, <5>1
      <4>3. ASSUME j # k, NEW d \in Number, pc[d] = "copying", url[d] = u, offset[d] < j
            PROVE  offset'[d] < j
        <5>1. offset[c] \in 0..Pieces
          BY <1>1 DEF ForkingTypes
        <5>. QED
          BY <1>4, <1>5, <4>3, <5>1
      <4>. QED
        BY <1>6, <1>7, <3>1, <4>1, <4>2, <4>3 DEF PageKept
    <3>. QED
      BY <1>2, <1>9, <1>10, <3>1 DEF PageKept
  <2>2. ASSUME NEW v \in DOMAIN cache, v # u PROVE PageKept(v)'
    <3>1. PageKept(v) /\ cache'[v] = cache[v]
      BY <1>1, <1>3, <1>10, <2>2 DEF FilesKept
    <3>2. \A d \in Number : url[d] = v => offset'[d] = offset[d]
      BY <1>5, <1>6, <2>2
    <3>. QED
      BY <1>2, <3>1, <3>2 DEF PageKept
  <2>. QED
    BY <1>2, <1>3, <1>10, <2>1, <2>2 DEF FilesKept
<1>14. Places(c)' /\ Searches(c)'
  <2>1. Places(c)'
    BY <1>1, <1>2 DEF Places, Unserved
  <2>2. Searches(c)'
    BY <1>1, <1>2, <1>10 DEF Searches
  <2>. QED
    BY <2>1, <2>2
<1>15. ASSUME NEW d \in Number, d # c PROVE Places(d)' /\ Searches(d)'
  BY <1>2, <1>5, <1>10, <1>15, OthersKept
<1>. QED
  BY <1>11, <1>12, <1>13, <1>14, <1>15 DEF ForkingInv

LEMMA ForkingStep ==
  ASSUME ForkingInv, Forking!Next \/ UNCHANGED Forking!vars
  PROVE  ForkingInv'
<1>1. CASE Forking!Reap \/ Forking!ServerEnds \/ UNCHANGED Forking!vars
  BY <1>1, ServerStep
<1>2. ASSUME NEW c \in Number, Forking!Serve(c) PROVE ForkingInv'
  <2>1. pc[c] = "serving" /\ offset[c] < Len(cache[url[c]])
        /\ UNCHANGED <<program, listening, sigchld, pc>>
    <3>1. pc' = [pc EXCEPT ![c] = "serving"] /\ pc[c] = "serving"
          /\ UNCHANGED <<program, listening, sigchld>> /\ offset[c] < Len(cache[url[c]])
      BY <1>2 DEF Forking!Serve, Forking!Goes
    <3>2. pc \in [Number -> Forking!Working \cup {"none"} \cup Through]
      BY DEF ForkingInv, ForkingTypes
    <3>. QED
      BY <3>1, <3>2
  <2>2. UNCHANGED <<url, found, before, cache, logfile, answered, cut>>
        /\ offset' = [offset EXCEPT ![c] = offset[c] + 1]
    BY <1>2 DEF Forking!Serve, Forking!fileVars
  <2>3. offset[c] + 1 <= Pieces
    <3>1. program = "07" /\ url[c] \in DOMAIN cache
      BY <2>1 DEF ForkingInv, Places, Searches
    <3>2. Len(cache[url[c]]) <= Pieces /\ Len(cache[url[c]]) \in Nat
      BY <3>1 DEF ForkingInv, FilesKept, PageKept, ForkingTypes
    <3>3. offset[c] \in Nat
      BY PiecesAssumption DEF ForkingInv, ForkingTypes
    <3>. QED
      BY <2>1, <3>2, <3>3, PiecesAssumption
  <2>. QED
    BY <2>1, <2>2, <2>3, ServeStep
<1>3. ASSUME NEW c \in Number, Forking!Copy(c) PROVE ForkingInv'
  <2>1. CASE pc[c] = "relaying"
    <3>1. /\ offset[c] + 1 <= Pieces /\ offset' = [offset EXCEPT ![c] = offset[c] + 1]
          /\ UNCHANGED <<program, listening, sigchld, pc, url, found, before, cache, logfile,
                         answered, cut>>
      BY <1>3, <2>1 DEF Forking!Copy
    <3>. QED
      BY <2>1, <3>1, ServeStep
  <2>. QED
    BY <1>3, <2>1, CopyStep DEF Forking!Copy
<1>. QED
  BY <1>1, <1>2, <1>3, LookupStep, LogStep, CreateStep, QuietChild, AppendStep, OpenStep
     DEF Forking!Next, Forking!Work

LEMMA ForkingMeans == ForkingInv => Forking!TypeOK /\ Forking!MissesOverlap /\ Forking!WholeWhenQuiet
<1>. SUFFICES ASSUME ForkingInv
              PROVE  Forking!TypeOK /\ Forking!MissesOverlap /\ Forking!WholeWhenQuiet
  OBVIOUS
<1>1. ForkingTypes /\ LinesTrue /\ FilesKept
  BY DEF ForkingInv
<1>2. Forking!TypeOK
  BY <1>1 DEF ForkingTypes, Forking!TypeOK, Page, Through, Held
<1>3. Forking!MissesOverlap
  <2>1. ASSUME NEW i \in 1..Len(logfile), NEW j \in 1..Len(logfile),
               logfile[i].kind = "miss", logfile[j].kind = "miss",
               logfile[i].url = logfile[j].url, logfile[i].child \in before[logfile[j].child]
        PROVE  FALSE
    <3>1. OfChild(i) /\ OfChild(j) /\ logfile[i] \in Logged /\ logfile[j] \in Logged
      BY <1>1, <2>1 DEF OfChild, ForkingTypes
    <3>2. PICK c \in Number, d \in Number : c = logfile[i].child /\ d = logfile[j].child
      BY <3>1 DEF OfChild, Logged
    <3>3. LineOf(i, c) /\ LineOf(j, d) /\ Searches(d)
      BY <1>1 DEF LinesTrue, ForkingInv
    <3>4. logfile[i].url = url[c] /\ logfile[j].url = url[d] /\ ~found[d]
      BY <1>1, <2>1, <3>1, <3>2, <3>3 DEF LineOf, ForkingTypes
    <3>. QED
      BY <2>1, <3>2, <3>3, <3>4 DEF Searches
  <2>. QED
    BY <2>1 DEF Forking!MissesOverlap
<1>4. Forking!WholeWhenQuiet
  <2>1. ASSUME NEW u \in DOMAIN cache \ cut,
               \A c \in Number : ~(Forking!Writing(c) /\ url[c] = u), program = "07"
        PROVE  cache[u] = [k \in 1..Pieces |-> k]
    <3>1. PageKept(u)
      BY <1>1, <2>1 DEF FilesKept
    <3>2. ASSUME NEW c \in Number, pc[c] = "copying", url[c] = u PROVE FALSE
      <4>1. ~found[c]
        BY <3>2 DEF ForkingInv, Places, Forking!Fetching
      <4>. QED
        BY <2>1, <3>2, <4>1 DEF Forking!Writing
    <3>3. \A k \in 1..Pieces : k <= Len(cache[u]) /\ cache[u][k] = k
      BY <3>1, <3>2 DEF PageKept
    <3>4. PICK data \in Seq(Held) : data = cache[u]
      BY <1>1 DEF ForkingTypes
    <3>5. Len(data) = Pieces
      <4>1. Pieces \in 1..Pieces
        BY PiecesAssumption
      <4>. QED
        BY <3>1, <3>3, <3>4, <4>1, PiecesAssumption DEF PageKept
    <3>6. data = [k \in 1..Pieces |-> data[k]]
      BY <3>4, <3>5
    <3>. QED
      BY <3>3, <3>4, <3>6
  <2>2. ASSUME NEW u \in DOMAIN cache \ cut,
               \A c \in Number : ~(Forking!Writing(c) /\ url[c] = u), program = "06"
        PROVE  cache[u] # <<>> /\ Forking!OnceEach(u)
    <3>1. AnswerKept(u)
      BY <1>1, <2>2 DEF FilesKept
    <3>2. Len(cache[u]) > 0
      BY <2>2, <3>1 DEF AnswerKept, Appends, Forking!Writing
    <3>3. cache[u] # <<>>
      BY <3>2
    <3>. QED
      BY <3>1, <3>3 DEF AnswerKept
  <2>. QED
    BY <2>1, <2>2 DEF Forking!WholeWhenQuiet
<1>. QED
  BY <1>2, <1>3, <1>4

LEMMA SocketStep ==
  ASSUME SocketInv, Next \/ UNCHANGED vars
  PROVE  SocketInv'
<1>1. CASE UNCHANGED vars
  <2>. USE DEF vars, clientVars, childVars
  <2>1. SocketTypes'
    BY <1>1 DEF SocketInv, SocketTypes
  <2>2. SocketOpen' = SocketOpen
    BY <1>1 DEF SocketOpen
  <2>3. ASSUME NEW c \in Client PROVE OneUnderWay(c)' /\ Agree(c)' /\ FilesMade(c)'
    BY <1>1, <2>2, OtherClient
  <2>. QED
    BY <2>1, <2>3 DEF SocketInv
<1>2. CASE Next
  BY <1>2, ClientStep, ChildStep DEF Next
<1>. QED
  BY <1>1, <1>2

LEMMA SocketMeans == SocketInv => ShownInOrder /\ CountersAreShown /\ MissedOnce
<1>. SUFFICES ASSUME SocketInv, NEW c \in Client
              PROVE  /\ \A k \in 1..Len(shown[c]) :
                            k <= Len(answered[c]) => shown[c][k] = answered[c][k].verdict
                     /\ Len(shown[c]) > Len(answered[c]) => child[c] \in {"none", "ended"}
                     /\ child[c] = "runtime" => /\ hit[c] = Count(shown[c], "HIT")
                                                /\ miss[c] = Count(shown[c], "MISS")
                     /\ \A j \in 1..Len(answered[c]) : \A i \in 1..j - 1 :
                            answered[c][i].url = answered[c][j].url /\ i < FdLimit
                                => answered[c][j].verdict = "HIT"
  BY DEF ShownInOrder, CountersAreShown, MissedOnce
<1>1. OneUnderWay(c) /\ Agree(c) /\ FilesMade(c)
  BY DEF SocketInv
<1>2. /\ downstream[c] \in {<<>>} \cup {<<v>> : v \in Verdict}
      /\ Len(shown[c]) \in Nat /\ Len(answered[c]) \in Nat
  BY DEF SocketInv, SocketTypes
<1>3. Serving(c) => Len(shown[c]) <= Len(answered[c])
  BY <1>1, <1>2 DEF Agree
<1>4. ASSUME child[c] = "runtime", NEW v
      PROVE  Found(answered[c], v) = Count(shown[c], v)
  <2>1. downstream[c] = <<>> /\ Serving(c)
    BY <1>1, <1>4 DEF OneUnderWay, Serving
  <2>2. Len(answered[c]) = Len(shown[c])
    BY <1>1, <2>1 DEF Agree
  <2>3. \A k \in 1..Len(shown[c]) : shown[c][k] = answered[c][k].verdict
    BY <1>1, <1>2, <2>2 DEF Agree
  <2>4. {k \in 1..Len(answered[c]) : answered[c][k].verdict = v}
        = {k \in 1..Len(shown[c]) : shown[c][k] = v}
    BY <2>2, <2>3
  <2>. QED
    BY <2>4 DEF Found, Count
<1>5. child[c] = "runtime" => /\ hit[c] = Count(shown[c], "HIT")
                              /\ miss[c] = Count(shown[c], "MISS")
  BY <1>1, <1>4 DEF Agree
<1>6. Len(shown[c]) > Len(answered[c]) => child[c] \in {"none", "ended"}
  BY <1>2, <1>3 DEF Serving
<1>. QED
  BY <1>1, <1>5, <1>6 DEF Agree, FilesMade

-----------------------------------------------------------------------------
(* The programs together: one family runs, the others' variables stand still. *)

ProgramsInv ==
    /\ family \in {"caching", "socket", "forking"}
    /\ family = "caching" => CachingInv
    /\ family = "socket" => SocketInv
    /\ family = "forking" => ForkingInv

LEMMA ProgramsInitially == ProgramsInit => ProgramsInv
  BY CachingInit, SocketInit, ForkingInit DEF ProgramsInit, ProgramsInv

LEMMA ProgramsStep ==
  ASSUME ProgramsInv, [ProgramsNext]_programsVars
  PROVE  ProgramsInv'
<1>1. family' = family
  BY DEF ProgramsNext, programsVars, Caches, Serves, Forks
<1>2. CASE family = "caching"
  <2>1. CASE UNCHANGED programsVars
    <3>1. UNCHANGED Caching!vars
      BY <2>1 DEF programsVars, vars, childVars, programVars, cachingOnly, Caching!vars,
                  Caching!counterVars
    <3>. QED
      BY <1>1, <1>2, <3>1, CachingStep DEF ProgramsInv
  <2>2. CASE ProgramsNext
    <3>1. PICK s \in Number :
             \/ Caching!connect(s) \/ Caching!NoConnect(s) \/ Caching!quit(s)
             \/ (\E u \in Url : Caching!TypesUrl(s, u)) \/ Caching!Search(s)
             \/ Caching!Create(s) \/ Caching!Log(s) \/ Caching!bye(s) \/ Caching!Killed(s)
      BY <1>2, <2>2 DEF ProgramsNext, Caches, Serves, Forks
    <3>2. Caching!Next
      BY <3>1 DEF Caching!Next
    <3>. QED
      BY <1>1, <1>2, <3>2, CachingStep DEF ProgramsInv
  <2>. QED
    BY <2>1, <2>2
<1>3. CASE family = "socket"
  <2>1. CASE UNCHANGED programsVars
    <3>1. UNCHANGED vars
      BY <2>1 DEF programsVars
    <3>. QED
      BY <1>1, <1>3, <3>1, SocketStep DEF ProgramsInv
  <2>2. CASE ProgramsNext
    <3>1. Next
      BY <1>3, <2>2 DEF ProgramsNext, Caches, Serves, Forks, Next
    <3>. QED
      BY <1>1, <1>3, <3>1, SocketStep DEF ProgramsInv
  <2>. QED
    BY <2>1, <2>2
<1>4. CASE family = "forking"
  <2>1. CASE UNCHANGED programsVars
    <3>1. UNCHANGED Forking!vars
      BY <2>1 DEF programsVars, vars, childVars, programVars, forkingOnly, Forking!vars,
                  Forking!childVars, Forking!fileVars
    <3>. QED
      BY <1>1, <1>4, <3>1, ForkingStep DEF ProgramsInv
  <2>2. CASE ProgramsNext
    <3>1. Forking!Next
      BY <1>4, <2>2 DEF ProgramsNext, Caches, Serves, Forks, Forking!Next
    <3>. QED
      BY <1>1, <1>4, <3>1, ForkingStep DEF ProgramsInv
  <2>. QED
    BY <2>1, <2>2
<1>. QED
  BY <1>2, <1>3, <1>4 DEF ProgramsInv

-----------------------------------------------------------------------------
(* The theorems. *)

\* Whatever programs run and however their processes are interleaved, each
\* family keeps its invariant.
THEOREM ProgramsKeep == ProgramsSpec => []ProgramsInv
<1>. QED
  BY ProgramsInitially, ProgramsStep, PTL DEF ProgramsSpec

\* 01 to 03: the "bye" of a session counts the lines of its own child, and no
\* page is missed twice in a session, for any number of sessions at the one log.
THEOREM LogsTellTheTruth == ProgramsSpec => []SessionLogTrue
<1>1. ProgramsInv => SessionLogTrue
  BY LogTrueMeaning DEF ProgramsInv, SessionLogTrue, CachingInv
<1>. QED
  BY <1>1, ProgramsKeep, PTL

\* 04: a client shows its child's verdicts in the order of its questions, and
\* the counters of its child are those of the verdicts shown.
THEOREM VerdictsAreShown == ProgramsSpec => []VerdictsInOrder
<1>1. ProgramsInv => VerdictsInOrder
  BY SocketMeans, SocketTyped DEF ProgramsInv, VerdictsInOrder
<1>. QED
  BY <1>1, ProgramsKeep, PTL

\* 04: a page that was answered is a hit when the same client asks again, as
\* long as its child had a descriptor left to make the file.
THEOREM AnsweredIsHit == ProgramsSpec => []SocketMissedOnce
<1>1. ProgramsInv => SocketMissedOnce
  BY SocketMeans DEF ProgramsInv, SocketMissedOnce
<1>. QED
  BY <1>1, ProgramsKeep, PTL

\* 05 to 07: who could search the cache and missed a page searched for it before
\* any other child that was asked for it and had its file had given its answer.
THEOREM MissesAreConcurrent == ProgramsSpec => []MissesOverlap
<1>1. ProgramsInv => MissesOverlap
  BY ForkingMeans DEF ProgramsInv, MissesOverlap
<1>. QED
  BY <1>1, ProgramsKeep, PTL

\* 06 and 07: a file that nobody writes any more, that no writer left early and
\* that each could open is whole, however many opened, emptied and wrote it at
\* once, and in 06 it holds no child's answer twice.
THEOREM FilesBecomeWhole == ProgramsSpec => []FilesWholeWhenQuiet
<1>1. ProgramsInv => FilesWholeWhenQuiet
  BY ForkingMeans DEF ProgramsInv, FilesWholeWhenQuiet
<1>. QED
  BY <1>1, ProgramsKeep, PTL
=============================================================================
