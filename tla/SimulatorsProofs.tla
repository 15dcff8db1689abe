-------------------------- MODULE SimulatorsProofs --------------------------
(***************************************************************************)
(* What the hooks of the system call table and the fork path of the kernel *)
(* keep, for any processes, calls, tasks and flags, that the parallel sums *)
(* print what their workers add up to, for any number of workers, and that *)
(* the outputs of the circuits mean what they should, at any width.        *)
(***************************************************************************)
EXTENDS MCSimulators, FiniteSetTheorems, TLAPS

-----------------------------------------------------------------------------
(* Lists without repetition, one element of which is taken out. *)

Has(s, a) == \E k \in DOMAIN s : s[k] = a
Ahead(s, a, b) == \E j, k \in DOMAIN s : j < k /\ s[j] = a /\ s[k] = b
Distinct(s) == \A j, k \in DOMAIN s : s[j] = s[k] => j = k

\* In such a list everybody is ahead of, behind or the same as anybody else.
LEMMA Ordered ==
  ASSUME NEW S, NEW s \in Seq(S), Distinct(s), NEW a, Has(s, a), NEW b, Has(s, b)
  PROVE  /\ a = b \/ Ahead(s, a, b) \/ Ahead(s, b, a)
         /\ ~Ahead(s, a, a) /\ ~(Ahead(s, a, b) /\ Ahead(s, b, a))
<1>1. PICK n \in Nat : DOMAIN s = 1..n
  BY Z3
<1>2. PICK j \in 1..n : s[j] = a
  BY <1>1 DEF Has
<1>3. PICK k \in 1..n : s[k] = b
  BY <1>1 DEF Has
<1>4. \A h \in 1..n : (s[h] = a => h = j) /\ (s[h] = b => h = k)
  BY <1>1, <1>2, <1>3 DEF Distinct
<1>5. j < k \/ j = k \/ k < j
  OBVIOUS
<1>6. a = b \/ Ahead(s, a, b) \/ Ahead(s, b, a)
  BY <1>1, <1>2, <1>3, <1>5 DEF Ahead
<1>7. Ahead(s, a, a) => j < j
  BY <1>1, <1>4 DEF Ahead
<1>8. (Ahead(s, a, b) => j < k) /\ (Ahead(s, b, a) => k < j)
  BY <1>1, <1>4 DEF Ahead
<1>. QED
  BY <1>6, <1>7, <1>8

\* In w, v comes after m elements.
Follows(w, m, v) == \A k \in 1..Len(v) : w[m + k] = v[k]

LEMMA Joined ==
  ASSUME NEW S, NEW u \in Seq(S), NEW v \in Seq(S)
  PROVE  /\ u \o v \in Seq(S) /\ Len(u \o v) = Len(u) + Len(v)
         /\ DOMAIN (u \o v) = 1..Len(u) + Len(v)
         /\ \A k \in 1..Len(u) : (u \o v)[k] = u[k]
         /\ Follows(u \o v, Len(u), v)
<1>. PICK w, m, n : w = u \o v /\ m = Len(u) /\ n = Len(v)
  OBVIOUS
<1>1. w \in Seq(S) /\ Len(w) = m + n /\ m \in Nat /\ n \in Nat
  OBVIOUS
<1>2. \A k \in 1..Len(u) + Len(v) : (u \o v)[k] = IF k <= Len(u) THEN u[k] ELSE v[k - Len(u)]
  OBVIOUS
<1>3. DOMAIN w = 1..m + n
  BY <1>1
<1>4. \A k \in 1..m : k \in 1..m + n /\ k <= m
  BY <1>1
<1>5. \A k \in 1..n : m + k \in 1..m + n /\ ~(m + k <= m) /\ (m + k) - m = k
  BY <1>1
<1>6. \A k \in 1..m : w[k] = u[k]
  BY <1>2, <1>4
<1>7. ASSUME NEW k \in 1..n PROVE w[m + k] = v[k]
  <2>. PICK x : x = m + k
    OBVIOUS
  <2>1. x \in 1..m + n /\ ~(x <= m) /\ x - m = k
    BY <1>5
  <2>2. w[x] = v[x - m]
    BY <1>2, <2>1
  <2>. QED
    BY <2>1, <2>2
<1>. QED
  BY <1>1, <1>3, <1>6, <1>7 DEF Follows

LEMMA TakenOut ==
  ASSUME NEW S, NEW s \in Seq(S), Distinct(s), NEW p \in Nat, p \in DOMAIN s,
         NEW t, t = SubSeq(s, 1, p - 1) \o SubSeq(s, p + 1, Len(s))
  PROVE  /\ t \in Seq(S) /\ Distinct(t) /\ Len(t) = Len(s) - 1
         /\ \A a : Has(t, a) <=> (Has(s, a) /\ a # s[p])
         /\ \A a, b : Ahead(t, a, b) <=> (Ahead(s, a, b) /\ a # s[p] /\ b # s[p])
<1>1. PICK n \in Nat : n = Len(s) /\ DOMAIN s = 1..n
  OBVIOUS
<1>2. 1 <= p /\ p <= n /\ p \in 1..n
  BY <1>1
<1>3. PICK u, v : u = SubSeq(s, 1, p - 1) /\ v = SubSeq(s, p + 1, n)
  OBVIOUS
<1>4. /\ u \in Seq(S) /\ Len(u) = p - 1 /\ \A h \in 1..p - 1 : u[h] = s[h]
      /\ v \in Seq(S) /\ Len(v) = n - p /\ \A h \in 1..n - p : v[h] = s[p + h]
  <2>1. u \in Seq(S) /\ Len(u) = p - 1 /\ \A h \in 1..p - 1 : u[h] = s[h]
    BY <1>1, <1>2, <1>3
  <2>2. v \in Seq(S) /\ Len(v) = n - p /\ \A h \in 1..n - p : v[h] = s[p + 1 + h - 1]
    BY <1>1, <1>2, <1>3
  <2>3. \A h \in 1..n - p : p + 1 + h - 1 = p + h
    BY <1>2
  <2>. QED
    BY <2>1, <2>2, <2>3
<1>5. /\ t \in Seq(S) /\ Len(t) = n - 1 /\ DOMAIN t = 1..n - 1
      /\ (\A k \in 1..p - 1 : t[k] = u[k]) /\ \A k \in 1..n - p : t[(p - 1) + k] = v[k]
  <2>1. PICK a, b : a = p - 1 /\ b = n - p
    OBVIOUS
  <2>2. t = u \o v /\ a = Len(u) /\ b = Len(v)
    BY <1>1, <1>3, <1>4, <2>1
  <2>3. /\ t \in Seq(S) /\ Len(t) = a + b /\ DOMAIN t = 1..a + b
        /\ (\A k \in 1..a : t[k] = u[k]) /\ \A k \in 1..b : t[a + k] = v[k]
    <3>1. /\ u \o v \in Seq(S) /\ Len(u \o v) = Len(u) + Len(v)
          /\ DOMAIN (u \o v) = 1..Len(u) + Len(v)
          /\ \A k \in 1..Len(u) : (u \o v)[k] = u[k]
          /\ Follows(u \o v, Len(u), v)
      BY <1>4, Joined, Zenon
    <3>. QED
      BY <2>2, <3>1 DEF Follows
  <2>4. a + b = n - 1
    BY <1>2, <2>1
  <2>. QED
    BY <2>1, <2>3, <2>4
<1>6. \A k \in 1..n - 1 : t[k] = IF k < p THEN s[k] ELSE s[k + 1]
  <2>1. ASSUME NEW k \in 1..n - 1, k < p PROVE t[k] = s[k]
    <3>1. k \in 1..p - 1
      BY <1>2, <2>1
    <3>. QED
      BY <1>4, <1>5, <3>1
  <2>2. ASSUME NEW k \in 1..n - 1, ~(k < p) PROVE t[k] = s[k + 1]
    <3>. PICK d : d = k - (p - 1)
      OBVIOUS
    <3>1. d \in 1..n - p /\ p + d = k + 1 /\ (p - 1) + d = k
      BY <1>2, <2>2
    <3>2. v[d] = s[p + d]
      BY <1>4, <3>1
    <3>3. t[(p - 1) + d] = v[d]
      BY <1>5, <3>1
    <3>. QED
      BY <3>1, <3>2, <3>3
  <2>. QED
    BY <2>1, <2>2
\* Where an element of the one list is in the other.
<1>7. PICK f : f = [h \in 1..n - 1 |-> IF h < p THEN h ELSE h + 1]
  OBVIOUS
<1>8. /\ \A h \in 1..n - 1 : f[h] \in 1..n /\ f[h] # p /\ t[h] = s[f[h]]
      /\ \A h, j \in 1..n - 1 : h < j <=> f[h] < f[j]
      /\ \A h, j \in 1..n - 1 : f[h] = f[j] => h = j
  <2>1. ASSUME NEW k \in 1..n - 1
        PROVE  f[k] \in 1..n /\ f[k] # p /\ t[k] = s[f[k]] /\ (f[k] = k \/ f[k] = k + 1)
    <3>1. f[k] = IF k < p THEN k ELSE k + 1
      BY <1>7
    <3>2. t[k] = IF k < p THEN s[k] ELSE s[k + 1]
      BY <1>6
    <3>3. t[k] = s[f[k]]
      BY <3>1, <3>2
    <3>4. f[k] = k \/ f[k] = k + 1
      BY <3>1
    <3>5. f[k] \in 1..n /\ f[k] # p
      <4>. PICK x : x = f[k]
        OBVIOUS
      <4>1. x = IF k < p THEN k ELSE k + 1
        BY <3>1
      <4>2. x \in 1..n /\ x # p
        BY <1>2, <4>1
      <4>. QED
        BY <4>2
    <3>. QED
      BY <3>3, <3>4, <3>5
  <2>2. ASSUME NEW j \in 1..n - 1, NEW k \in 1..n - 1
        PROVE  (j < k <=> f[j] < f[k]) /\ (f[j] = f[k] => j = k)
    <3>1. f[k] = (IF k < p THEN k ELSE k + 1) /\ f[j] = (IF j < p THEN j ELSE j + 1)
      BY <1>7
    <3>. QED
      BY <1>2, <3>1
  <2>. QED
    BY <2>1, <2>2
<1>9. ASSUME NEW k \in 1..n, k # p PROVE \E h \in 1..n - 1 : f[h] = k
  <2>1. CASE k < p
    <3>1. k \in 1..n - 1
      BY <1>2, <2>1
    <3>. QED
      BY <1>7, <2>1, <3>1
  <2>2. CASE ~(k < p)
    <3>1. k - 1 \in 1..n - 1 /\ ~(k - 1 < p) /\ k - 1 + 1 = k
      BY <1>2, <1>9, <2>2
    <3>. QED
      BY <1>7, <3>1
  <2>. QED
    BY <2>1, <2>2
<1>10. \A k \in 1..n : s[k] = s[p] <=> k = p
  BY <1>1, <1>2 DEF Distinct
<1>11. Distinct(t)
  <2>1. ASSUME NEW j \in 1..n - 1, NEW k \in 1..n - 1, t[j] = t[k] PROVE j = k
    <3>1. f[j] \in 1..n /\ f[k] \in 1..n /\ s[f[j]] = s[f[k]]
      BY <1>8, <2>1
    <3>2. f[j] = f[k]
      BY <1>1, <3>1 DEF Distinct
    <3>. QED
      BY <1>8, <3>2
  <2>. QED
    BY <1>5, <2>1 DEF Distinct
<1>12. ASSUME NEW a PROVE Has(t, a) <=> (Has(s, a) /\ a # s[p])
  <2>1. ASSUME Has(t, a) PROVE Has(s, a) /\ a # s[p]
    <3>1. PICK k \in 1..n - 1 : t[k] = a
      BY <1>5, <2>1 DEF Has
    <3>2. f[k] \in 1..n /\ f[k] # p /\ a = s[f[k]]
      BY <1>8, <3>1
    <3>3. a # s[p]
      BY <1>10, <3>2
    <3>. QED
      BY <1>1, <3>2, <3>3 DEF Has
  <2>2. ASSUME Has(s, a), a # s[p] PROVE Has(t, a)
    <3>1. PICK k \in 1..n : s[k] = a /\ k # p
      BY <1>1, <2>2 DEF Has
    <3>2. PICK x \in 1..n - 1 : f[x] = k
      BY <1>9, <3>1
    <3>3. t[x] = a
      BY <1>8, <3>1, <3>2
    <3>. QED
      BY <1>5, <3>3 DEF Has
  <2>. QED
    BY <2>1, <2>2
<1>13. ASSUME NEW a, NEW b PROVE Ahead(t, a, b) <=> (Ahead(s, a, b) /\ a # s[p] /\ b # s[p])
  <2>1. ASSUME Ahead(t, a, b) PROVE Ahead(s, a, b) /\ a # s[p] /\ b # s[p]
    <3>1. PICK j \in 1..n - 1, k \in 1..n - 1 : j < k /\ t[j] = a /\ t[k] = b
      BY <1>5, <2>1 DEF Ahead
    <3>2. /\ f[j] \in 1..n /\ f[j] # p /\ a = s[f[j]]
          /\ f[k] \in 1..n /\ f[k] # p /\ b = s[f[k]] /\ f[j] < f[k]
      BY <1>8, <3>1
    <3>3. a # s[p] /\ b # s[p]
      BY <1>10, <3>2
    <3>. QED
      BY <1>1, <3>2, <3>3 DEF Ahead
  <2>2. ASSUME Ahead(s, a, b), a # s[p], b # s[p] PROVE Ahead(t, a, b)
    <3>1. PICK j \in 1..n, k \in 1..n : j < k /\ s[j] = a /\ s[k] = b /\ j # p /\ k # p
      BY <1>1, <2>2 DEF Ahead
    <3>2. PICK x \in 1..n - 1, y \in 1..n - 1 : f[x] = j /\ f[y] = k
      BY <1>9, <3>1
    <3>3. x < y /\ t[x] = a /\ t[y] = b
      BY <1>8, <3>1, <3>2
    <3>. QED
      BY <1>5, <3>3 DEF Ahead
  <2>. QED
    BY <2>1, <2>2
<1>. QED
  BY <1>1, <1>5, <1>11, <1>12, <1>13

LEMMA PutLast ==
  ASSUME NEW S, NEW s \in Seq(S), Distinct(s), NEW t, NEW m \in S, ~Has(s, m), t = Append(s, m)
  PROVE  /\ t \in Seq(S) /\ Distinct(t)
         /\ Has(t, m) /\ \A a : a # m => (Has(t, a) <=> Has(s, a))
         /\ \A a : Ahead(t, a, m) <=> Has(s, a)
         /\ \A a, b : b # m => (Ahead(t, a, b) <=> Ahead(s, a, b))
<1>1. PICK n \in Nat : n = Len(s) /\ DOMAIN s = 1..n
  OBVIOUS
<1>2. /\ t \in Seq(S) /\ DOMAIN t = 1..n + 1
      /\ (\A h \in 1..n : t[h] = s[h]) /\ t[n + 1] = m
  BY <1>1
<1>3. /\ \A h \in 1..n + 1 : h \in 1..n \/ h = n + 1
      /\ \A h \in 1..n : h \in 1..n + 1 /\ h < n + 1
      /\ n + 1 \in 1..n + 1 /\ n + 1 \notin 1..n
      /\ \A h \in 1..n + 1 : ~(n + 1 < h)
  OBVIOUS
<1>4. \A h \in 1..n : t[h] # m
  BY <1>1, <1>2 DEF Has
<1>5. Distinct(t)
  BY <1>1, <1>2, <1>3, <1>4 DEF Distinct
<1>6. ASSUME NEW a PROVE Has(t, a) <=> (Has(s, a) \/ a = m)
  BY <1>1, <1>2, <1>3 DEF Has
<1>7. ASSUME NEW a, NEW b PROVE Ahead(t, a, b) <=> (Ahead(s, a, b) \/ (Has(s, a) /\ b = m))
  <2>1. ASSUME Ahead(t, a, b) PROVE Ahead(s, a, b) \/ (Has(s, a) /\ b = m)
    <3>1. PICK j \in 1..n + 1, k \in 1..n + 1 : j < k /\ t[j] = a /\ t[k] = b
      BY <1>2, <2>1 DEF Ahead
    <3>2. j \in 1..n /\ s[j] = a
      BY <1>2, <1>3, <3>1
    <3>. QED
      BY <1>1, <1>2, <1>3, <3>1, <3>2 DEF Ahead, Has
  <2>2. Ahead(s, a, b) => Ahead(t, a, b)
    BY <1>1, <1>2, <1>3 DEF Ahead
  <2>3. Has(s, a) /\ b = m => Ahead(t, a, b)
    BY <1>1, <1>2, <1>3 DEF Ahead, Has
  <2>. QED
    BY <2>1, <2>2, <2>3
<1>8. \A a : ~Ahead(s, a, m)
  BY DEF Ahead, Has
<1>. QED
  BY <1>2, <1>5, <1>6, <1>7, <1>8

\* Who is ahead of or behind somebody is there.
LEMMA AheadHas ==
  ASSUME NEW s, NEW a, NEW b, Ahead(s, a, b)
  PROVE  Has(s, a) /\ Has(s, b)
BY DEF Ahead, Has

-----------------------------------------------------------------------------
(* One program of MCSimulators runs: a step is its step or leaves it alone. *)

LEMMA OneRuns ==
  ASSUME [SimulatorsNext]_allVars
  PROVE  /\ family' = family
         /\ family = "hooks" => Hooks!Next \/ UNCHANGED <<hookVars, pc>>
         /\ family = "tracer" => Next \/ UNCHANGED vars
         /\ family = "detector" => Detector!Next \/ UNCHANGED detectorVars
         /\ family = "sums" => Sums!Next \/ UNCHANGED <<sumVars, total, i>>
         /\ family = "cpu" => Cpu!Next \/ UNCHANGED <<cpuVars, pc, total>>
         /\ family = "paging" => Paging!Next \/ UNCHANGED <<pageVars, i>>
         /\ family = "circuits" => Circuits!Next \/ UNCHANGED circuitVars
<1>1. CASE UNCHANGED allVars
  BY <1>1 DEF allVars
<1>2. \/ /\ family = "cpu" /\ family' = family /\ Cpu!Next
      \/ /\ family = "paging" /\ family' = family /\ Paging!Next
      \/ /\ family = "circuits" /\ family' = family /\ Circuits!Next
      \/ /\ family = "sums" /\ family' = family /\ Sums!Next
      \/ /\ family = "hooks" /\ family' = family /\ Hooks!Next
      \/ /\ family = "tracer" /\ family' = family /\ Next
      \/ /\ family = "detector" /\ family' = family /\ Detector!Next
      \/ UNCHANGED allVars
  <2>1. CASE \/ Schedules(Cpu!Pick) \/ Schedules(Cpu!PickRR) \/ Schedules(Cpu!Tick)
             \/ Schedules(Cpu!Finish) \/ Schedules(Cpu!Preempt) \/ Schedules(Cpu!Stop)
    BY <2>1 DEF Schedules, Cpu!Next
  <2>2. CASE \/ Replaces(Paging!simulate_optimal) \/ Replaces(Paging!simulate_fifo)
             \/ Replaces(Paging!simulate_lru) \/ Replaces(Paging!simulate_clock)
             \/ Replaces(Paging!main)
    BY <2>2 DEF Replaces, Paging!Next
  <2>3. CASE Clocks(Detector!Reset) \/ \E x \in {0, 1} : Clocks(Detector!Clock(x))
    BY <2>3 DEF Clocks, Detector!Next, Detector!Bit
  <2>4. CASE Switches(Circuits!Next)
    BY <2>4 DEF Switches
  <2>5. CASE \/ Calls(Hooks!hook_init) \/ Calls(Hooks!ftrace_init) \/ Calls(Hooks!pt_init)
             \/ Calls(Hooks!file_varea_init) \/ Calls(Hooks!hook_exit)
             \/ Calls(Hooks!ftrace_exit) \/ Calls(Hooks!pt_exit)
             \/ Calls(Hooks!file_varea_exit) \/ Calls(Hooks!init_mod) \/ Calls(Hooks!exit_mod)
    BY <2>5 DEF Calls, Hooks!Next
  <2>6. ASSUME NEW p \in Process,
               \/ Calls(Hooks!ftrace(p)) \/ Calls(\E c \in Call : Hooks!Enter(p, c))
               \/ Calls(Hooks!Look(p)) \/ Calls(Hooks!Count(p))
        PROVE  family = "hooks" /\ family' = family /\ Hooks!Next
    BY <2>6 DEF Calls, Hooks!Next
  <2>7. ASSUME NEW t \in Task,
               \/ Traces(Begin(t)) \/ Traces(BeginFails(t)) \/ Traces(Copy(t))
               \/ Traces(TooManyThreads(t)) \/ Traces(CopyFails(t))
               \/ Traces(Publish(t)) \/ Traces(PublishFails(t))
               \/ Traces(Count(t)) \/ Traces(Exit(t))
               \/ Traces(Release_task(t)) \/ Traces(TraceTask(t))
        PROVE  family = "tracer" /\ family' = family /\ Next
    BY <2>7 DEF Traces, Next
  <2>8. CASE Traces(TraceFamily)
    BY <2>8 DEF Traces, Next
  <2>9. CASE \/ Adds(Sums!Fork) \/ Adds(Sums!ForkFails) \/ Adds(Sums!WaitFails)
             \/ Adds(Sums!ThreadCreate) \/ Adds(Sums!CreateFails) \/ Adds(Sums!AllStarted)
             \/ Adds(Sums!Join) \/ Adds(Sums!JoinsUnset) \/ Adds(Sums!Prints)
             \/ \E w \in Sums!Index :
                   \/ Adds(Sums!Child(w)) \/ Adds(Sums!Killed(w))
                   \/ Adds(Sums!Thread(w)) \/ Adds(Sums!Wait(w))
    BY <2>9 DEF Adds, Sums!Next
  <2>. QED
    BY <2>1, <2>2, <2>3, <2>4, <2>5, <2>6, <2>7, <2>8, <2>9, Zenon DEF SimulatorsNext
<1>. QED
  BY <1>1, <1>2

-----------------------------------------------------------------------------
(* The hooks of the system call table. What is in the table depends on the *)
(* order in which the modules are loaded, the counters on what a process   *)
(* that is in a hook can rely on: its module is there, and so is the one   *)
(* whose variables it counts in.                                           *)

HooksKept ==
    /\ Hooks!TypeOK /\ Distinct(loaded)
    /\ \A m \in Hooks!Hooker : Has(loaded, m) => orig[m] # "none"
    /\ hooked => Has(loaded, "iotracehooking")
    /\ Has(loaded, "iotracehooking") => Has(loaded, "ftracehooking")
    /\ \A p \in Process :
          pc[p].at \in {"original", "counting"} =>
             hooked /\ pc[p].call \in Call

\* While processes trace themselves only, the counters are the traced one's,
\* whatever it is doing, and who is about to count is the one traced.
CountsKept ==
    ~disturbed =>
       \A p \in Process :
          /\ pc[p].at = "counting" => tracing_pid = p
          /\ tracing_pid = p =>
                /\ cnt = made[p]
                /\ \A c \in Call : bytes[c] <= cnt[c]
                /\ "openat" \in Call => (traced_file # "" => cnt["openat"] > 0)

\* In the list s, a is the last hooker of all and the last one before b.
LastHooker(s, a) == Has(s, a) /\ \A h \in Hooks!Hooker : ~Ahead(s, a, h)
JustBefore(s, a, b) ==
    Ahead(s, a, b) /\ \A h \in Hooks!Hooker : ~(Ahead(s, a, h) /\ Ahead(s, h, b))

\* Unloaded tidily, the table has the last hooker's hook and each hooker found
\* the one before it there, or the kernel's own call if there was none.
ChainKept ==
    tidy =>
       /\ \A p \in Process : pc[p] # Hooks!Lost
       /\ \/ os_ftrace = "kernel" /\ \A m \in Hooks!Hooker : ~Has(loaded, m)
          \/ os_ftrace \in Hooks!Hooker /\ LastHooker(loaded, os_ftrace)
       /\ \A m \in Hooks!Hooker :
             Has(loaded, m) =>
                \/ orig[m] = "kernel" /\ \A h \in Hooks!Hooker : ~Ahead(loaded, h, m)
                \/ orig[m] \in Hooks!Hooker /\ JustBefore(loaded, orig[m], m)

HooksInv == HooksKept /\ CountsKept /\ ChainKept

LEMMA Loads ==
  ASSUME HooksKept, NEW m \in Hooks!Module, ~Hooks!Loaded(m), loaded' = Append(loaded, m)
  PROVE  /\ loaded' \in Seq(Hooks!Module) /\ Distinct(loaded') /\ ~Has(loaded, m)
         /\ Has(loaded', m) /\ \A a : a # m => (Has(loaded', a) <=> Has(loaded, a))
         /\ \A a : Ahead(loaded', a, m) <=> Has(loaded, a)
         /\ \A a, b : b # m => (Ahead(loaded', a, b) <=> Ahead(loaded, a, b))
<1>1. loaded \in Seq(Hooks!Module) /\ Distinct(loaded) /\ ~Has(loaded, m)
  BY DEF HooksKept, Hooks!TypeOK, Hooks!Loaded, Has
<1>. QED
  BY <1>1, PutLast, Zenon

LEMMA Unloads ==
  ASSUME HooksKept, NEW m \in Hooks!Module, Hooks!Loaded(m), loaded' = Hooks!Without(m)
  PROVE  /\ loaded' \in Seq(Hooks!Module) /\ Distinct(loaded') /\ Has(loaded, m)
         /\ \A a : Has(loaded', a) <=> (Has(loaded, a) /\ a # m)
         /\ \A a, b : Ahead(loaded', a, b) <=> (Ahead(loaded, a, b) /\ a # m /\ b # m)
<1>1. loaded \in Seq(Hooks!Module) /\ Distinct(loaded) /\ Has(loaded, m)
  BY DEF HooksKept, Hooks!TypeOK, Hooks!Loaded, Has
<1>2. PICK k : k = CHOOSE j \in DOMAIN loaded : loaded[j] = m
  OBVIOUS
<1>3. k \in DOMAIN loaded /\ loaded[k] = m
  BY <1>1, <1>2, Zenon DEF Has
<1>4. k \in Nat
  BY <1>1, <1>3
<1>5. loaded' = SubSeq(loaded, 1, k - 1) \o SubSeq(loaded, k + 1, Len(loaded))
  BY <1>2, Zenon DEF Hooks!Without
<1>6. /\ loaded' \in Seq(Hooks!Module) /\ Distinct(loaded')
      /\ \A a : Has(loaded', a) <=> (Has(loaded, a) /\ a # loaded[k])
      /\ \A a, b : Ahead(loaded', a, b) <=> (Ahead(loaded, a, b) /\ a # loaded[k] /\ b # loaded[k])
  BY <1>1, <1>3, <1>4, <1>5, TakenOut, Zenon
<1>. QED
  BY <1>1, <1>3, <1>6

LEMMA HookSteps ==
  ASSUME Hooks!Next
  PROVE  \/ \E m \in Hooks!Hooker : Hooks!init_hook(m)
         \/ \E m \in Hooks!Hooker : Hooks!exit_hook(m)
         \/ Hooks!init_mod \/ Hooks!exit_mod
         \/ \E p \in Process : \/ Hooks!ftrace(p) \/ Hooks!Look(p) \/ Hooks!Count(p)
                               \/ \E c \in Call : Hooks!Enter(p, c)
<1>1. /\ "os_ftracehooking" \in Hooks!Hooker /\ "ftracehooking" \in Hooks!Hooker
      /\ "process_tracer" \in Hooks!Hooker /\ "file_varea" \in Hooks!Hooker
  BY DEF Hooks!Hooker
<1>. QED
  BY <1>1, Zenon DEF Hooks!Next, Hooks!hook_init, Hooks!ftrace_init, Hooks!pt_init,
     Hooks!file_varea_init, Hooks!hook_exit, Hooks!ftrace_exit, Hooks!pt_exit,
     Hooks!file_varea_exit

LEMMA HookerNames ==
  /\ "iotracehooking" \notin Hooks!Hooker /\ "kernel" \notin Hooks!Hooker
  /\ "none" \notin Hooks!Hooker /\ "ftracehooking" \in Hooks!Hooker
  /\ Hooks!Hooker \subseteq Hooks!Module /\ "iotracehooking" \in Hooks!Module
BY DEF Hooks!Hooker, Hooks!Module

LEMMA TracesCleared ==
  /\ Hooks!Zero \in [Call -> Nat] /\ \A c \in Call : Hooks!Zero[c] = 0
  /\ \A p \in Process : p # 0
  /\ Hooks!NoTrace =>
        /\ tracing_pid' = 0 /\ cnt' \in [Call -> Nat] /\ bytes' \in [Call -> Nat]
        /\ traced_file' = ""
<1>1. Hooks!Zero \in [Call -> Nat] /\ \A c \in Call : Hooks!Zero[c] = 0
  BY DEF Hooks!Zero
<1>2. \A p \in Process : p # 0
  BY ProcessAssumption
<1>. QED
  BY <1>1, <1>2 DEF Hooks!NoTrace

\* Nobody is in a hook while iotracehooking or ftracehooking is not there.
LEMMA NobodyInHooks ==
  ASSUME HooksKept, ~Has(loaded, "iotracehooking") \/ ~Has(loaded, "ftracehooking")
  PROVE  \A p \in Process : pc[p].at \notin {"original", "counting"}
BY DEF HooksKept

LEMMA HooksKeepLoading ==
  ASSUME HooksKept,
         \/ \E m \in Hooks!Hooker : Hooks!init_hook(m) \/ Hooks!exit_hook(m)
         \/ Hooks!init_mod \/ Hooks!exit_mod
  PROVE  HooksKept'
<1>1. ASSUME NEW m \in Hooks!Hooker, Hooks!init_hook(m) PROVE HooksKept'
  <2>1. /\ ~Hooks!Loaded(m) /\ loaded' = Append(loaded, m) /\ m \in Hooks!Module
        /\ orig' = [orig EXCEPT ![m] = os_ftrace] /\ os_ftrace' = m
        /\ UNCHANGED <<hooked, pc, made, disturbed, tidy>>
    BY <1>1, HookerNames DEF Hooks!init_hook
  <2>2. /\ loaded' \in Seq(Hooks!Module) /\ Distinct(loaded')
        /\ Has(loaded', m) /\ \A a : a # m => (Has(loaded', a) <=> Has(loaded, a))
    BY <2>1, Loads
  <2>3. /\ tracing_pid' \in Process \cup {0} /\ cnt' \in [Call -> Nat]
        /\ bytes' \in [Call -> Nat] /\ traced_file' \in File \cup {"", Hooks!Torn}
    BY <1>1, TracesCleared DEF Hooks!init_hook, Hooks!traceVars, HooksKept, Hooks!TypeOK
  <2>4. Hooks!TypeOK'
    BY <2>1, <2>2, <2>3 DEF HooksKept, Hooks!TypeOK
  <2>5. \A h \in Hooks!Hooker : Has(loaded', h) => orig'[h] # "none"
    <3>1. orig'[m] = os_ftrace /\ os_ftrace # "none"
      BY <2>1, HookerNames DEF HooksKept, Hooks!TypeOK
    <3>2. \A h \in Hooks!Hooker : h # m => orig'[h] = orig[h]
      BY <2>1 DEF HooksKept, Hooks!TypeOK
    <3>. QED
      BY <2>2, <3>1, <3>2 DEF HooksKept
  <2>6. Has(loaded', "iotracehooking") <=> Has(loaded, "iotracehooking")
    BY <2>2, HookerNames
  <2>7. Has(loaded, "ftracehooking") => Has(loaded', "ftracehooking")
    BY <2>2
  <2>. QED
    BY <2>1, <2>2, <2>4, <2>5, <2>6, <2>7 DEF HooksKept
<1>2. ASSUME NEW m \in Hooks!Hooker, Hooks!exit_hook(m) PROVE HooksKept'
  <2>1. /\ Hooks!Loaded(m) /\ loaded' = Hooks!Without(m) /\ m \in Hooks!Module
        /\ m = "ftracehooking" => ~Hooks!Loaded("iotracehooking")
        /\ orig' = [orig EXCEPT ![m] = "none"] /\ os_ftrace' = orig[m]
        /\ tidy' \in BOOLEAN
        /\ UNCHANGED <<hooked, pc, made, disturbed>>
    BY <1>2, HookerNames DEF Hooks!exit_hook, Hooks!Restored, HooksKept, Hooks!TypeOK
  <2>2. /\ loaded' \in Seq(Hooks!Module) /\ Distinct(loaded') /\ Has(loaded, m)
        /\ \A a : Has(loaded', a) <=> (Has(loaded, a) /\ a # m)
    BY <2>1, Unloads
  <2>3. /\ tracing_pid' \in Process \cup {0} /\ cnt' \in [Call -> Nat]
        /\ bytes' \in [Call -> Nat] /\ traced_file' \in File \cup {"", Hooks!Torn}
    BY <1>2, TracesCleared DEF Hooks!exit_hook, Hooks!traceVars, HooksKept, Hooks!TypeOK
  <2>4. os_ftrace' \in Hooks!Hooker \cup {"kernel"}
    BY <2>1, <2>2 DEF HooksKept, Hooks!TypeOK
  <2>5. Hooks!TypeOK'
    BY <2>1, <2>2, <2>3, <2>4 DEF HooksKept, Hooks!TypeOK
  <2>6. \A h \in Hooks!Hooker : Has(loaded', h) => orig'[h] # "none"
    BY <2>1, <2>2 DEF HooksKept, Hooks!TypeOK
  <2>7. Has(loaded', "iotracehooking") <=> Has(loaded, "iotracehooking")
    BY <2>2, HookerNames
  <2>8. Has(loaded', "iotracehooking") => Has(loaded', "ftracehooking")
    BY <2>1, <2>2 DEF HooksKept, Has, Hooks!Loaded
  <2>. QED
    BY <2>1, <2>2, <2>5, <2>6, <2>7, <2>8 DEF HooksKept
<1>3. ASSUME Hooks!init_mod PROVE HooksKept'
  <2>1. /\ Has(loaded, "ftracehooking") /\ ~Hooks!Loaded("iotracehooking")
        /\ loaded' = Append(loaded, "iotracehooking") /\ hooked' = TRUE
        /\ UNCHANGED <<os_ftrace, orig, tracing_pid, cnt, bytes, traced_file, pc, made,
                       disturbed, tidy>>
    BY <1>3 DEF Hooks!init_mod, Hooks!traceVars, Hooks!Loaded, Has
  <2>2. /\ loaded' \in Seq(Hooks!Module) /\ Distinct(loaded')
        /\ Has(loaded', "iotracehooking")
        /\ \A a : a # "iotracehooking" => (Has(loaded', a) <=> Has(loaded, a))
    BY <2>1, Loads, HookerNames
  <2>3. Hooks!TypeOK'
    BY <2>1, <2>2 DEF HooksKept, Hooks!TypeOK
  <2>4. \A h \in Hooks!Hooker : h # "iotracehooking"
    BY HookerNames
  <2>5. Has(loaded', "ftracehooking")
    BY <2>1, <2>2
  <2>. QED
    BY <2>1, <2>2, <2>3, <2>4, <2>5 DEF HooksKept
<1>4. ASSUME Hooks!exit_mod PROVE HooksKept'
  <2>1. /\ Hooks!Loaded("iotracehooking") /\ loaded' = Hooks!Without("iotracehooking")
        /\ hooked' = FALSE /\ tidy' \in BOOLEAN
        /\ pc' = [p \in Process |-> IF pc[p] = Hooks!User THEN Hooks!User ELSE Hooks!Lost]
        /\ UNCHANGED <<os_ftrace, orig, tracing_pid, cnt, bytes, traced_file, made, disturbed>>
    BY <1>4 DEF Hooks!exit_mod, Hooks!traceVars, HooksKept, Hooks!TypeOK
  <2>2. /\ loaded' \in Seq(Hooks!Module) /\ Distinct(loaded')
        /\ \A a : Has(loaded', a) <=> (Has(loaded, a) /\ a # "iotracehooking")
    BY <2>1, Unloads, HookerNames
  <2>3. Hooks!User.at = "user" /\ Hooks!Lost.at = "lost"
    BY DEF Hooks!User, Hooks!Lost
  <2>4. pc' \in [Process -> [at : {"user", "original", "counting", "lost"},
                             call : Call \cup {"none"}, file : File \cup {""}]]
    BY <2>1 DEF Hooks!User, Hooks!Lost
  <2>5. Hooks!TypeOK'
    BY <2>1, <2>2, <2>4 DEF HooksKept, Hooks!TypeOK
  <2>6. \A p \in Process : pc'[p].at \notin {"original", "counting"}
    BY <2>1, <2>3
  <2>. QED
    BY <2>1, <2>2, <2>5, <2>6 DEF HooksKept
<1>. QED
  BY <1>1, <1>2, <1>3, <1>4

LEMMA CountsUp ==
  ASSUME NEW f \in [Call -> Nat], NEW c \in Call, NEW n \in {0, 1}
  PROVE  /\ [f EXCEPT ![c] = f[c] + n] \in [Call -> Nat]
         /\ [f EXCEPT ![c] = f[c] + n][c] = f[c] + n
         /\ \A d \in Call : d # c => [f EXCEPT ![c] = f[c] + n][d] = f[d]
<1>1. f[c] + n \in Nat
  OBVIOUS
<1>. QED
  BY <1>1

LEMMA HooksKeepTracing ==
  ASSUME HooksKept,
         \E p \in Process : \/ Hooks!ftrace(p) \/ Hooks!Look(p) \/ Hooks!Count(p)
                            \/ \E c \in Call : Hooks!Enter(p, c)
  PROVE  HooksKept' /\ UNCHANGED <<loaded, os_ftrace, orig, hooked, tidy>>
<1>1. PICK Where : Where = [at : {"user", "original", "counting", "lost"},
                            call : Call \cup {"none"}, file : File \cup {""}]
  OBVIOUS
<1>2. /\ pc \in [Process -> Where] /\ made \in [Process -> [Call -> Nat]]
      /\ cnt \in [Call -> Nat] /\ bytes \in [Call -> Nat] /\ disturbed \in BOOLEAN
      /\ tracing_pid \in Process \cup {0} /\ traced_file \in File \cup {"", Hooks!Torn}
  BY <1>1 DEF HooksKept, Hooks!TypeOK
<1>3. Hooks!User \in Where /\ Hooks!User.at = "user"
  BY <1>1 DEF Hooks!User
<1>4. ASSUME /\ UNCHANGED <<loaded, os_ftrace, orig, hooked, tidy>>
             /\ pc' \in [Process -> Where] /\ made' \in [Process -> [Call -> Nat]]
             /\ cnt' \in [Call -> Nat] /\ bytes' \in [Call -> Nat] /\ disturbed' \in BOOLEAN
             /\ tracing_pid' \in Process \cup {0} /\ traced_file' \in File \cup {"", Hooks!Torn}
             /\ \A p \in Process :
                   pc'[p].at \in {"original", "counting"} =>
                      hooked /\ pc'[p].call \in Call
      PROVE  HooksKept'
  BY <1>1, <1>4 DEF HooksKept, Hooks!TypeOK
<1>5. ASSUME NEW p \in Process, Hooks!Leaves(p), pc[p].at \in {"original", "counting"}
      PROVE  /\ pc' \in [Process -> Where] /\ made' \in [Process -> [Call -> Nat]]
             /\ \A q \in Process : q # p => pc'[q] = pc[q]
             /\ pc'[p] = Hooks!User
  <2>1. pc[p].call \in Call
    BY <1>5 DEF HooksKept
  <2>2. pc' = [pc EXCEPT ![p] = Hooks!User]
        /\ made' = [made EXCEPT ![p][pc[p].call] = @ + 1]
    BY <1>5 DEF Hooks!Leaves
  <2>3. made' \in [Process -> [Call -> Nat]]
    <3>1. PICK c \in Call : c = pc[p].call
      BY <2>1
    <3>2. made' = [made EXCEPT ![p] = [made[p] EXCEPT ![c] = made[p][c] + 1]]
      BY <2>2, <3>1, <1>2
    <3>3. [made[p] EXCEPT ![c] = made[p][c] + 1] \in [Call -> Nat]
      BY <1>2, CountsUp
    <3>. QED
      BY <1>2, <3>2, <3>3
  <2>. QED
    BY <1>2, <1>3, <2>2, <2>3
<1>6. ASSUME NEW p \in Process, Hooks!ftrace(p)
      PROVE  /\ UNCHANGED <<loaded, os_ftrace, orig, hooked, tidy, pc>>
             /\ made' \in [Process -> [Call -> Nat]]
             /\ cnt' \in [Call -> Nat] /\ bytes' \in [Call -> Nat] /\ disturbed' \in BOOLEAN
             /\ tracing_pid' \in Process \cup {0} /\ traced_file' \in File \cup {"", Hooks!Torn}
  <2>1. UNCHANGED <<loaded, os_ftrace, orig, hooked, tidy, pc>>
    BY <1>6 DEF Hooks!ftrace, Hooks!hookVars
  <2>2. CASE \E pid \in Process : Hooks!BeginTrace(p, pid)
    BY <1>2, <2>1, <2>2, TracesCleared DEF Hooks!BeginTrace, Hooks!CountFrom
  <2>3. CASE Hooks!EndTrace(p)
    BY <1>2, <2>1, <2>3 DEF Hooks!EndTrace
  <2>. QED
    BY <1>6, <2>1, <2>2, <2>3 DEF Hooks!ftrace
<1>7. ASSUME NEW p \in Process, NEW c \in Call, Hooks!Enter(p, c)
      PROVE  /\ UNCHANGED <<loaded, os_ftrace, orig, hooked, tidy, tracing_pid, cnt, bytes,
                            traced_file, made, disturbed>>
             /\ hooked
             /\ \E f \in File \cup {""} :
                  pc' = [pc EXCEPT ![p] = [at |-> "original", call |-> c, file |-> f]]
  BY <1>7 DEF Hooks!Enter, Hooks!hookVars, Hooks!traceVars
<1>8. ASSUME NEW p \in Process, Hooks!Look(p), Hooks!Traced(p)
      PROVE  /\ UNCHANGED <<loaded, os_ftrace, orig, hooked, tidy, tracing_pid, cnt, bytes,
                            traced_file, made, disturbed>>
             /\ pc[p].at = "original" /\ pc' = [pc EXCEPT ![p].at = "counting"]
  BY <1>8 DEF Hooks!Look, Hooks!hookVars, Hooks!traceVars
<1>9. ASSUME NEW p \in Process, Hooks!Look(p), ~Hooks!Traced(p)
      PROVE  /\ UNCHANGED <<loaded, os_ftrace, orig, hooked, tidy, tracing_pid, cnt, bytes,
                            traced_file, disturbed>>
             /\ pc[p].at = "original" /\ Hooks!Leaves(p)
  BY <1>9 DEF Hooks!Look, Hooks!hookVars, Hooks!traceVars
<1>10. \A q \in Process : pc[q].at \in {"original", "counting"} =>
          hooked /\ pc[q].call \in Call
  BY DEF HooksKept
<1>11. ASSUME NEW p \in Process, Hooks!Count(p)
       PROVE  /\ UNCHANGED <<loaded, os_ftrace, orig, hooked, tidy, tracing_pid, disturbed>>
              /\ pc[p].at = "counting" /\ Hooks!Leaves(p)
              /\ cnt' \in [Call -> Nat] /\ bytes' \in [Call -> Nat]
              /\ traced_file' \in File \cup {"", Hooks!Torn}
  <2>1. /\ UNCHANGED <<loaded, os_ftrace, orig, hooked, tidy, tracing_pid, disturbed>>
        /\ pc[p].at = "counting" /\ Hooks!Leaves(p)
    BY <1>11 DEF Hooks!Count, Hooks!hookVars
  <2>2. pc[p].file \in File \cup {""}
    BY <1>1, <1>2
  <2>3. cnt' \in [Call -> Nat] /\ bytes' \in [Call -> Nat]
    <3>1. PICK c \in Call : c = pc[p].call
      BY <1>10, <2>1
    <3>2. PICK moved \in {0, 1} : bytes' = [bytes EXCEPT ![c] = bytes[c] + moved]
      BY <1>11, <3>1 DEF Hooks!Count
    <3>3. cnt' = [cnt EXCEPT ![c] = cnt[c] + 1]
      BY <1>11, <3>1 DEF Hooks!Count
    <3>. QED
      BY <1>2, <3>2, <3>3, CountsUp
  <2>4. traced_file' \in File \cup {"", Hooks!Torn}
    BY <1>2, <1>11, <2>2 DEF Hooks!Count, Hooks!FirstFile
  <2>. QED
    BY <2>1, <2>3, <2>4
<1>12. ASSUME NEW p \in Process, Hooks!ftrace(p)
       PROVE  HooksKept' /\ UNCHANGED <<loaded, os_ftrace, orig, hooked, tidy>>
  BY <1>2, <1>4, <1>6, <1>10, <1>12
<1>13. ASSUME NEW p \in Process, NEW c \in Call, Hooks!Enter(p, c)
       PROVE  HooksKept' /\ UNCHANGED <<loaded, os_ftrace, orig, hooked, tidy>>
  <2>1. PICK f \in File \cup {""} :
              pc' = [pc EXCEPT ![p] = [at |-> "original", call |-> c, file |-> f]]
    BY <1>7, <1>13
  <2>2. [at |-> "original", call |-> c, file |-> f] \in Where
    BY <1>1
  <2>3. pc' \in [Process -> Where]
    BY <1>2, <2>1, <2>2
  <2>4. \A q \in Process :
           pc'[q].at \in {"original", "counting"} =>
              hooked /\ pc'[q].call \in Call
    BY <1>2, <1>7, <1>10, <1>13, <2>1
  <2>. QED
    BY <1>2, <1>4, <1>7, <1>13, <2>3, <2>4
<1>14. ASSUME NEW p \in Process, Hooks!Look(p), Hooks!Traced(p)
       PROVE  HooksKept' /\ UNCHANGED <<loaded, os_ftrace, orig, hooked, tidy>>
  <2>1. pc[p].at = "original" /\ pc' = [pc EXCEPT ![p].at = "counting"]
    BY <1>8, <1>14
  <2>2. [pc[p] EXCEPT !.at = "counting"] \in Where
    BY <1>1, <1>2
  <2>3. pc' \in [Process -> Where]
    BY <1>2, <2>1, <2>2
  <2>4. \A q \in Process :
           pc'[q].at \in {"original", "counting"} =>
              hooked /\ pc'[q].call \in Call
    BY <1>1, <1>2, <1>10, <2>1
  <2>. QED
    BY <1>2, <1>4, <1>8, <1>14, <2>3, <2>4
<1>15. ASSUME NEW p \in Process, Hooks!Look(p), ~Hooks!Traced(p)
       PROVE  HooksKept' /\ UNCHANGED <<loaded, os_ftrace, orig, hooked, tidy>>
  BY <1>2, <1>3, <1>4, <1>5, <1>9, <1>10, <1>15
<1>16. ASSUME NEW p \in Process, Hooks!Count(p)
       PROVE  HooksKept' /\ UNCHANGED <<loaded, os_ftrace, orig, hooked, tidy>>
  BY <1>2, <1>3, <1>4, <1>5, <1>11, <1>10, <1>16
<1>. QED
  BY <1>12, <1>13, <1>14, <1>15, <1>16

LEMMA CountsKeep ==
  ASSUME HooksKept, CountsKept, Hooks!Next
  PROVE  CountsKept'
<1>. SUFFICES ASSUME ~disturbed' PROVE CountsKept'
  BY DEF CountsKept
<1>1. /\ pc \in [Process -> [at : {"user", "original", "counting", "lost"},
                             call : Call \cup {"none"}, file : File \cup {""}]]
      /\ made \in [Process -> [Call -> Nat]]
      /\ cnt \in [Call -> Nat] /\ bytes \in [Call -> Nat] /\ disturbed \in BOOLEAN
  BY DEF HooksKept, Hooks!TypeOK
<1>2. Hooks!User.at = "user" /\ Hooks!Lost.at = "lost"
  BY DEF Hooks!User, Hooks!Lost
<1>3. ASSUME ~disturbed, UNCHANGED <<pc, made>>, UNCHANGED Hooks!traceVars
      PROVE  CountsKept'
  BY <1>3 DEF CountsKept, Hooks!traceVars
<1>4. ASSUME Hooks!NoTrace, \A p \in Process : pc'[p].at # "counting"
      PROVE  CountsKept'
  <2>1. tracing_pid' = 0
    BY <1>4 DEF Hooks!NoTrace
  <2>2. \A p \in Process : p # 0
    BY TracesCleared
  <2>. QED
    BY <1>4, <2>1, <2>2 DEF CountsKept
<1>5. CASE \E m \in Hooks!Hooker : Hooks!init_hook(m) \/ Hooks!exit_hook(m)
  <2>1. PICK m \in Hooks!Hooker : Hooks!init_hook(m) \/ Hooks!exit_hook(m)
    BY <1>5
  <2>2. UNCHANGED <<pc, made, disturbed>>
    BY <2>1 DEF Hooks!init_hook, Hooks!exit_hook
  <2>3. CASE m # "ftracehooking"
    BY <1>3, <2>1, <2>2, <2>3 DEF Hooks!init_hook, Hooks!exit_hook
  <2>4. CASE m = "ftracehooking"
    <3>1. Hooks!NoTrace
      BY <2>1, <2>4 DEF Hooks!init_hook, Hooks!exit_hook
    <3>2. ~Has(loaded, "iotracehooking") \/ ~Has(loaded, "ftracehooking")
      BY <2>1, <2>4 DEF Hooks!init_hook, Hooks!exit_hook, Hooks!Loaded, Has
    <3>. QED
      BY <1>4, <2>2, <3>1, <3>2, NobodyInHooks
  <2>. QED
    BY <2>3, <2>4
<1>6. CASE Hooks!init_mod
  BY <1>3, <1>6 DEF Hooks!init_mod
<1>7. CASE Hooks!exit_mod
  <2>1. \A p \in Process : pc'[p].at # "counting"
    BY <1>2, <1>7 DEF Hooks!exit_mod
  <2>2. UNCHANGED <<tracing_pid, cnt, bytes, traced_file, made, disturbed>>
    BY <1>7 DEF Hooks!exit_mod, Hooks!traceVars
  <2>. QED
    BY <2>1, <2>2 DEF CountsKept
<1>8. ASSUME NEW p \in Process, Hooks!ftrace(p) PROVE CountsKept'
  <2>1. pc[p] = Hooks!User /\ pc' = pc
    BY <1>8 DEF Hooks!ftrace
  <2>2. CASE \E pid \in Process : Hooks!BeginTrace(p, pid)
    <3>1. PICK pid \in Process : Hooks!BeginTrace(p, pid)
      BY <2>2
    <3>2. ~disturbed /\ pid = p /\ tracing_pid \in {0, p}
      BY <3>1 DEF Hooks!BeginTrace
    <3>3. \A q \in Process : pc'[q].at # "counting"
      BY <1>2, <2>1, <3>2, TracesCleared DEF CountsKept
    <3>4. /\ tracing_pid' = p /\ cnt' = Hooks!Zero /\ bytes' = Hooks!Zero /\ traced_file' = ""
          /\ made'[p] = Hooks!Zero
      BY <1>1, <3>1, <3>2 DEF Hooks!BeginTrace, Hooks!CountFrom
    <3>5. \A c \in Call : bytes'[c] = 0 /\ cnt'[c] = 0 /\ bytes'[c] <= cnt'[c]
      <4>1. \A c \in Call : bytes'[c] = 0 /\ cnt'[c] = 0
        BY <3>4, TracesCleared
      <4>2. 0 <= 0
        OBVIOUS
      <4>. QED
        BY <4>1, <4>2
    <3>. QED
      BY <3>3, <3>4, <3>5 DEF CountsKept
  <2>3. CASE Hooks!EndTrace(p)
    <3>1. ~disturbed /\ tracing_pid' = 0 /\ tracing_pid \in {0, p}
      BY <2>3 DEF Hooks!EndTrace
    <3>2. \A q \in Process : pc'[q].at # "counting"
      BY <1>2, <2>1, <3>1, TracesCleared DEF CountsKept
    <3>. QED
      BY <3>1, <3>2, TracesCleared DEF CountsKept
  <2>. QED
    BY <1>8, <2>2, <2>3 DEF Hooks!ftrace
<1>9. ASSUME NEW p \in Process, NEW c \in Call, Hooks!Enter(p, c) PROVE CountsKept'
  <2>1. UNCHANGED <<tracing_pid, cnt, bytes, traced_file, made, disturbed>>
    BY <1>9 DEF Hooks!Enter, Hooks!traceVars
  <2>2. \A q \in Process : pc'[q].at = "counting" => pc[q].at = "counting"
    <3>1. PICK f : pc' = [pc EXCEPT ![p] = [at |-> "original", call |-> c, file |-> f]]
      BY <1>9 DEF Hooks!Enter
    <3>. QED
      BY <1>1, <3>1
  <2>. QED
    BY <2>1, <2>2 DEF CountsKept
<1>10. ASSUME NEW p \in Process, Hooks!Look(p), Hooks!Traced(p) PROVE CountsKept'
  <2>1. /\ UNCHANGED <<tracing_pid, cnt, bytes, traced_file, made, disturbed>>
        /\ tracing_pid = p /\ pc' = [pc EXCEPT ![p].at = "counting"]
    BY <1>10 DEF Hooks!Look, Hooks!traceVars, Hooks!Traced
  <2>2. \A q \in Process : q # p => pc'[q] = pc[q]
    BY <1>1, <2>1
  <2>. QED
    BY <2>1, <2>2 DEF CountsKept
\* A process leaves its hook: only its own calls are one more.
<1>11. ASSUME NEW p \in Process, Hooks!Leaves(p), pc[p].at \in {"original", "counting"}
       PROVE  /\ \A q \in Process : q # p => pc'[q] = pc[q] /\ made'[q] = made[q]
              /\ pc'[p].at = "user"
              /\ made'[p] = [made[p] EXCEPT ![pc[p].call] = made[p][pc[p].call] + 1]
  <2>1. pc' = [pc EXCEPT ![p] = Hooks!User]
        /\ made' = [made EXCEPT ![p] = [made[p] EXCEPT ![pc[p].call] = made[p][pc[p].call] + 1]]
    BY <1>11 DEF Hooks!Leaves
  <2>. QED
    BY <1>1, <1>2, <2>1
<1>12. ASSUME NEW p \in Process, Hooks!Look(p), ~Hooks!Traced(p) PROVE CountsKept'
  <2>1. /\ UNCHANGED <<tracing_pid, cnt, bytes, traced_file, disturbed>>
        /\ tracing_pid # p /\ pc[p].at = "original" /\ Hooks!Leaves(p)
    BY <1>12 DEF Hooks!Look, Hooks!traceVars, Hooks!Traced
  <2>. QED
    BY <1>11, <2>1 DEF CountsKept
<1>13. ASSUME NEW p \in Process, Hooks!Count(p) PROVE CountsKept'
  <2>1. /\ UNCHANGED <<tracing_pid, disturbed>>
        /\ pc[p].at = "counting" /\ Hooks!Leaves(p) /\ tracing_pid = p
    BY <1>13 DEF Hooks!Count, CountsKept
  <2>2. PICK c \in Call : c = pc[p].call
    BY <2>1 DEF HooksKept
  <2>3. cnt = made[p] /\ (\A d \in Call : bytes[d] <= cnt[d])
        /\ ("openat" \in Call => (traced_file # "" => cnt["openat"] > 0))
    BY <2>1 DEF CountsKept
  <2>4. cnt' = [cnt EXCEPT ![c] = cnt[c] + 1]
    BY <1>13, <2>2 DEF Hooks!Count
  <2>5. PICK moved \in {0, 1} : bytes' = [bytes EXCEPT ![c] = bytes[c] + moved]
    BY <1>13, <2>2 DEF Hooks!Count
  <2>6. /\ cnt'[c] = cnt[c] + 1 /\ bytes'[c] = bytes[c] + moved
        /\ \A d \in Call : d # c => cnt'[d] = cnt[d] /\ bytes'[d] = bytes[d]
    BY <1>1, <2>4, <2>5, CountsUp
  <2>7. cnt' = made'[p]
    BY <1>11, <2>1, <2>2, <2>3, <2>4
  <2>8. \A d \in Call : bytes'[d] <= cnt'[d]
    <3>1. ASSUME NEW d \in Call, d # c PROVE bytes'[d] <= cnt'[d]
      BY <2>3, <2>6, <3>1
    <3>2. bytes[c] <= cnt[c] /\ cnt[c] \in Nat /\ bytes[c] \in Nat
      BY <1>1, <2>3
    <3>3. bytes'[c] <= cnt'[c]
      BY <2>6, <3>2
    <3>. QED
      BY <3>1, <3>3
  <2>9. "openat" \in Call => (traced_file' # "" => cnt'["openat"] > 0)
    <3>1. CASE c = "openat"
      <4>1. cnt[c] \in Nat
        BY <1>1
      <4>2. cnt'[c] > 0
        BY <2>6, <4>1
      <4>. QED
        BY <3>1, <4>2
    <3>2. CASE c # "openat"
      <4>1. traced_file' = traced_file
        BY <1>13, <2>2, <3>2 DEF Hooks!Count
      <4>. QED
        BY <2>3, <2>6, <3>2, <4>1
    <3>. QED
      BY <3>1, <3>2
  <2>10. \A q \in Process : pc'[q].at = "counting" => pc[q].at = "counting"
    BY <1>11, <2>1
  <2>. QED
    BY <2>1, <2>7, <2>8, <2>9, <2>10 DEF CountsKept
<1>. QED
  BY <1>5, <1>6, <1>7, <1>8, <1>9, <1>10, <1>12, <1>13, HookSteps

LEMMA ChainKeepsInitHook ==
  ASSUME HooksKept, ChainKept, NEW m \in Hooks!Hooker, Hooks!init_hook(m)
  PROVE  ChainKept'
<1>1. /\ ~Hooks!Loaded(m) /\ loaded' = Append(loaded, m) /\ m \in Hooks!Module
      /\ orig' = [orig EXCEPT ![m] = os_ftrace] /\ os_ftrace' = m
      /\ pc' = pc /\ tidy' = tidy
  BY HookerNames DEF Hooks!init_hook
<1>2. /\ ~Has(loaded, m)
      /\ Has(loaded', m) /\ \A a : a # m => (Has(loaded', a) <=> Has(loaded, a))
      /\ \A a : Ahead(loaded', a, m) <=> Has(loaded, a)
      /\ \A a, b : b # m => (Ahead(loaded', a, b) <=> Ahead(loaded, a, b))
  BY <1>1, Loads
<1>3. \A a, b : Ahead(loaded, a, b) => Has(loaded, a) /\ Has(loaded, b)
  BY AheadHas
<1>4. orig'[m] = os_ftrace /\ \A h \in Hooks!Hooker : h # m => orig'[h] = orig[h]
  BY <1>1 DEF HooksKept, Hooks!TypeOK
<1>. SUFFICES ASSUME tidy PROVE ChainKept'
  BY <1>1 DEF ChainKept
<1>5. \A p \in Process : pc'[p] # Hooks!Lost
  BY <1>1 DEF ChainKept
<1>6. LastHooker(loaded', m)
  BY <1>1, <1>2, <1>3 DEF LastHooker
<1>7. \/ os_ftrace = "kernel" /\ \A h \in Hooks!Hooker : ~Ahead(loaded', h, m)
      \/ os_ftrace \in Hooks!Hooker /\ JustBefore(loaded', os_ftrace, m)
  <2>1. CASE os_ftrace = "kernel" /\ \A h \in Hooks!Hooker : ~Has(loaded, h)
    BY <1>2, <2>1
  <2>2. CASE os_ftrace \in Hooks!Hooker /\ LastHooker(loaded, os_ftrace)
    <3>1. Ahead(loaded', os_ftrace, m)
      BY <1>2, <2>2 DEF LastHooker
    <3>2. ASSUME NEW h \in Hooks!Hooker, Ahead(loaded', os_ftrace, h), Ahead(loaded', h, m)
          PROVE  FALSE
      BY <1>2, <2>2, <3>2 DEF LastHooker
    <3>. QED
      BY <2>2, <3>1, <3>2 DEF JustBefore
  <2>. QED
    BY <2>1, <2>2 DEF ChainKept
<1>8. ASSUME NEW b \in Hooks!Hooker, b # m, Has(loaded', b)
      PROVE  \/ orig[b] = "kernel" /\ \A h \in Hooks!Hooker : ~Ahead(loaded', h, b)
             \/ orig[b] \in Hooks!Hooker /\ JustBefore(loaded', orig[b], b)
  <2>1. CASE orig[b] = "kernel" /\ \A h \in Hooks!Hooker : ~Ahead(loaded, h, b)
    BY <1>2, <1>8, <2>1
  <2>2. CASE orig[b] \in Hooks!Hooker /\ JustBefore(loaded, orig[b], b)
    <3>1. Ahead(loaded', orig[b], b)
      BY <1>2, <1>8, <2>2 DEF JustBefore
    <3>2. ASSUME NEW h \in Hooks!Hooker, Ahead(loaded', orig[b], h), Ahead(loaded', h, b)
          PROVE  FALSE
      BY <1>2, <1>3, <1>8, <2>2, <3>2 DEF JustBefore
    <3>. QED
      BY <2>2, <3>1, <3>2 DEF JustBefore
  <2>. QED
    BY <1>2, <1>8, <2>1, <2>2 DEF ChainKept
<1>. QED
  BY <1>1, <1>4, <1>5, <1>6, <1>7, <1>8 DEF ChainKept

\* The tidy unloading of a hooker is that of the last one.
LEMMA ChainKeepsExitHook ==
  ASSUME HooksKept, ChainKept, NEW m \in Hooks!Hooker, Hooks!exit_hook(m)
  PROVE  ChainKept'
<1>1. /\ Hooks!Loaded(m) /\ loaded' = Hooks!Without(m) /\ m \in Hooks!Module
      /\ orig' = [orig EXCEPT ![m] = "none"] /\ os_ftrace' = orig[m]
      /\ pc' = pc /\ tidy' = (tidy /\ ~Hooks!Above(m))
  BY HookerNames DEF Hooks!exit_hook, Hooks!Restored
<1>2. /\ Has(loaded, m)
      /\ \A a : Has(loaded', a) <=> (Has(loaded, a) /\ a # m)
      /\ \A a, b : Ahead(loaded', a, b) <=> (Ahead(loaded, a, b) /\ a # m /\ b # m)
  BY <1>1, Unloads
<1>3. \A a, b : Ahead(loaded, a, b) => Has(loaded, a) /\ Has(loaded, b)
  BY AheadHas
<1>4. /\ \A a, b : Has(loaded, a) /\ Has(loaded, b) =>
                      a = b \/ Ahead(loaded, a, b) \/ Ahead(loaded, b, a)
      /\ \A a, b : Has(loaded, a) /\ Has(loaded, b) =>
                      ~Ahead(loaded, a, a) /\ ~(Ahead(loaded, a, b) /\ Ahead(loaded, b, a))
  BY Ordered DEF HooksKept, Hooks!TypeOK
<1>5. \A h \in Hooks!Hooker : h # m => orig'[h] = orig[h]
  BY <1>1 DEF HooksKept, Hooks!TypeOK
<1>. SUFFICES ASSUME tidy, ~Hooks!Above(m) PROVE ChainKept'
  BY <1>1 DEF ChainKept
<1>6. \A p \in Process : pc'[p] # Hooks!Lost
  BY <1>1 DEF ChainKept
<1>7. \A h \in Hooks!Hooker : ~Ahead(loaded, m, h)
  BY DEF Hooks!Above, Ahead
<1>8. \/ orig[m] = "kernel" /\ \A h \in Hooks!Hooker : ~Has(loaded', h)
      \/ orig[m] \in Hooks!Hooker /\ LastHooker(loaded', orig[m])
  <2>1. CASE orig[m] = "kernel" /\ \A h \in Hooks!Hooker : ~Ahead(loaded, h, m)
    BY <1>2, <1>4, <1>7, <2>1
  <2>2. CASE orig[m] \in Hooks!Hooker /\ JustBefore(loaded, orig[m], m)
    <3>1. Ahead(loaded, orig[m], m) /\ Has(loaded, orig[m])
      BY <1>3, <2>2 DEF JustBefore
    <3>2. Has(loaded', orig[m])
      BY <1>2, <1>4, <3>1
    <3>3. ASSUME NEW h \in Hooks!Hooker, Ahead(loaded', orig[m], h) PROVE FALSE
      <4>1. Ahead(loaded, orig[m], h) /\ h # m /\ Has(loaded, h)
        BY <1>2, <1>3, <3>3
      <4>2. Ahead(loaded, h, m)
        BY <1>2, <1>4, <1>7, <4>1
      <4>. QED
        BY <2>2, <4>1, <4>2 DEF JustBefore
    <3>. QED
      BY <2>2, <3>2, <3>3 DEF LastHooker
  <2>. QED
    BY <1>2, <2>1, <2>2 DEF ChainKept
<1>9. ASSUME NEW b \in Hooks!Hooker, Has(loaded', b)
      PROVE  \/ orig[b] = "kernel" /\ \A h \in Hooks!Hooker : ~Ahead(loaded', h, b)
             \/ orig[b] \in Hooks!Hooker /\ JustBefore(loaded', orig[b], b)
  <2>1. CASE orig[b] = "kernel" /\ \A h \in Hooks!Hooker : ~Ahead(loaded, h, b)
    BY <1>2, <2>1
  <2>2. CASE orig[b] \in Hooks!Hooker /\ JustBefore(loaded, orig[b], b)
    <3>1. Ahead(loaded', orig[b], b)
      BY <1>2, <1>7, <1>9, <2>2 DEF JustBefore
    <3>2. ASSUME NEW h \in Hooks!Hooker, Ahead(loaded', orig[b], h), Ahead(loaded', h, b)
          PROVE  FALSE
      BY <1>2, <2>2, <3>2 DEF JustBefore
    <3>. QED
      BY <2>2, <3>1, <3>2 DEF JustBefore
  <2>. QED
    BY <1>2, <1>9, <2>1, <2>2 DEF ChainKept
<1>10. \A b \in Hooks!Hooker : Has(loaded', b) => orig'[b] = orig[b]
  BY <1>2, <1>5
<1>. QED
  BY <1>1, <1>6, <1>8, <1>9, <1>10 DEF ChainKept

\* iotracehooking comes and goes between the hookers.
LEMMA ChainKeepsOthers ==
  ASSUME HooksKept, ChainKept,
         Hooks!init_mod \/ Hooks!exit_mod
  PROVE  ChainKept'
<1>1. UNCHANGED <<os_ftrace, orig>> /\ (tidy' => tidy)
  <2>1. CASE Hooks!init_mod
    BY <2>1 DEF Hooks!init_mod
  <2>2. CASE Hooks!exit_mod
    BY <2>2 DEF Hooks!exit_mod
  <2>. QED
    BY <2>1, <2>2
<1>2. /\ \A a \in Hooks!Hooker : Has(loaded', a) <=> Has(loaded, a)
      /\ \A a, b \in Hooks!Hooker : Ahead(loaded', a, b) <=> Ahead(loaded, a, b)
  <2>1. CASE Hooks!init_mod
    <3>1. ~Hooks!Loaded("iotracehooking") /\ loaded' = Append(loaded, "iotracehooking")
      BY <2>1 DEF Hooks!init_mod
    <3>. QED
      BY <3>1, Loads, HookerNames
  <2>2. CASE Hooks!exit_mod
    <3>1. Hooks!Loaded("iotracehooking") /\ loaded' = Hooks!Without("iotracehooking")
      BY <2>2 DEF Hooks!exit_mod
    <3>. QED
      BY <3>1, Unloads, HookerNames
  <2>. QED
    BY <2>1, <2>2
<1>3. tidy' => \A p \in Process : pc'[p] # Hooks!Lost
  <2>1. CASE Hooks!init_mod
    BY <1>1, <2>1 DEF Hooks!init_mod, ChainKept
  <2>2. CASE Hooks!exit_mod
    <3>1. Hooks!User # Hooks!Lost
      BY DEF Hooks!User, Hooks!Lost
    <3>2. pc' = [p \in Process |-> IF pc[p] = Hooks!User THEN Hooks!User ELSE Hooks!Lost]
      BY <2>2 DEF Hooks!exit_mod
    <3>3. tidy' => \A p \in Process : pc[p] = Hooks!User
      BY <2>2 DEF Hooks!exit_mod
    <3>. QED
      BY <3>1, <3>2, <3>3
  <2>. QED
    BY <2>1, <2>2
<1>. SUFFICES ASSUME tidy' PROVE ChainKept'
  BY DEF ChainKept
<1>4. \/ os_ftrace = "kernel" /\ \A h \in Hooks!Hooker : ~Has(loaded', h)
      \/ os_ftrace \in Hooks!Hooker /\ LastHooker(loaded', os_ftrace)
  BY <1>1, <1>2 DEF ChainKept, LastHooker
<1>5. ASSUME NEW b \in Hooks!Hooker, Has(loaded', b)
      PROVE  \/ orig[b] = "kernel" /\ \A h \in Hooks!Hooker : ~Ahead(loaded', h, b)
             \/ orig[b] \in Hooks!Hooker /\ JustBefore(loaded', orig[b], b)
  BY <1>1, <1>2, <1>5 DEF ChainKept, JustBefore
<1>. QED
  BY <1>1, <1>3, <1>4, <1>5 DEF ChainKept

LEMMA ChainKeepsTracing ==
  ASSUME HooksKept, ChainKept,
         \E p \in Process : \/ Hooks!ftrace(p) \/ Hooks!Look(p) \/ Hooks!Count(p)
                            \/ \E c \in Call : Hooks!Enter(p, c)
  PROVE  ChainKept'
<1>1. UNCHANGED <<loaded, os_ftrace, orig, tidy>>
  BY HooksKeepTracing
<1>2. /\ pc \in [Process -> [at : {"user", "original", "counting", "lost"},
                             call : Call \cup {"none"}, file : File \cup {""}]]
      /\ Hooks!User.at = "user" /\ Hooks!Lost.at = "lost"
  BY DEF HooksKept, Hooks!TypeOK, Hooks!User, Hooks!Lost
<1>3. \A q \in Process : pc'[q].at = "lost" => pc'[q] = pc[q]
  <2>1. ASSUME NEW p \in Process, Hooks!ftrace(p)
        PROVE  \A q \in Process : pc'[q].at = "lost" => pc'[q] = pc[q]
    BY <2>1 DEF Hooks!ftrace
  <2>2. ASSUME NEW p \in Process, Hooks!Leaves(p)
        PROVE  \A q \in Process : pc'[q].at = "lost" => pc'[q] = pc[q]
    BY <1>2, <2>2 DEF Hooks!Leaves
  <2>3. ASSUME NEW p \in Process, Hooks!Look(p)
        PROVE  \A q \in Process : pc'[q].at = "lost" => pc'[q] = pc[q]
    BY <1>2, <2>2, <2>3 DEF Hooks!Look
  <2>4. ASSUME NEW p \in Process, Hooks!Count(p)
        PROVE  \A q \in Process : pc'[q].at = "lost" => pc'[q] = pc[q]
    BY <2>2, <2>4 DEF Hooks!Count
  <2>5. ASSUME NEW p \in Process, NEW c \in Call, Hooks!Enter(p, c)
        PROVE  \A q \in Process : pc'[q].at = "lost" => pc'[q] = pc[q]
    <3>1. PICK f : pc' = [pc EXCEPT ![p] = [at |-> "original", call |-> c, file |-> f]]
      BY <2>5 DEF Hooks!Enter
    <3>. QED
      BY <1>2, <3>1
  <2>. QED
    BY <2>1, <2>3, <2>4, <2>5
<1>4. (\A q \in Process : pc[q] # Hooks!Lost) => \A q \in Process : pc'[q] # Hooks!Lost
  BY <1>2, <1>3
<1>. QED
  BY <1>1, <1>4 DEF ChainKept

LEMMA HooksKeep ==
  ASSUME HooksInv, Hooks!Next \/ UNCHANGED <<hookVars, pc>>
  PROVE  HooksInv'
<1>1. CASE UNCHANGED <<hookVars, pc>>
  BY <1>1 DEF HooksInv, HooksKept, CountsKept, ChainKept, hookVars, Hooks!TypeOK
<1>2. CASE Hooks!Next
  <2>1. HooksKept'
    BY <1>2, HookSteps, HooksKeepLoading, HooksKeepTracing DEF HooksInv
  <2>2. CountsKept'
    BY <1>2, CountsKeep DEF HooksInv
  <2>3. ChainKept'
    BY <1>2, HookSteps, ChainKeepsInitHook, ChainKeepsExitHook, ChainKeepsOthers,
       ChainKeepsTracing DEF HooksInv
  <2>. QED
    BY <2>1, <2>2, <2>3 DEF HooksInv
<1>. QED
  BY <1>1, <1>2

LEMMA HooksBegin ==
  ASSUME Hooks!Init
  PROVE  HooksInv
<1>1. /\ loaded = <<>> /\ os_ftrace = "kernel" /\ hooked = FALSE
      /\ orig = [m \in Hooks!Hooker |-> "none"]
      /\ tracing_pid = 0 /\ cnt = Hooks!Zero /\ bytes = Hooks!Zero /\ traced_file = ""
      /\ pc = [p \in Process |-> Hooks!User] /\ made = [p \in Process |-> Hooks!Zero]
      /\ disturbed = FALSE /\ tidy = TRUE
  BY DEF Hooks!Init
<1>2. loaded \in Seq(Hooks!Module) /\ \A k : k \notin DOMAIN loaded
  <2>1. <<>> \in Seq(Hooks!Module) /\ Len(<<>>) = 0 /\ 1..0 = {}
    OBVIOUS
  <2>2. DOMAIN <<>> = 1..Len(<<>>)
    BY <2>1
  <2>. QED
    BY <1>1, <2>1, <2>2
<1>3. (\A a : ~Has(loaded, a)) /\ Distinct(loaded)
  BY <1>2, Zenon DEF Has, Distinct
<1>4. Hooks!Zero \in [Call -> Nat] /\ \A p \in Process : p # 0
  BY TracesCleared
<1>5. /\ Hooks!User.at = "user" /\ Hooks!User # Hooks!Lost
      /\ Hooks!User \in [at : {"user", "original", "counting", "lost"},
                         call : Call \cup {"none"}, file : File \cup {""}]
  BY DEF Hooks!User, Hooks!Lost
<1>6. pc \in [Process -> [at : {"user", "original", "counting", "lost"},
                          call : Call \cup {"none"}, file : File \cup {""}]]
  BY <1>1, <1>5
<1>7. Hooks!TypeOK
  BY <1>1, <1>2, <1>4, <1>6 DEF Hooks!TypeOK
<1>8. HooksKept
  BY <1>1, <1>3, <1>5, <1>7 DEF HooksKept
<1>9. CountsKept
  BY <1>1, <1>4, <1>5 DEF CountsKept
<1>10. ChainKept
  BY <1>1, <1>3, <1>5 DEF ChainKept
<1>. QED
  BY <1>8, <1>9, <1>10 DEF HooksInv

LEMMA SimulatorsBegin ==
  ASSUME SimulatorsInit
  PROVE  /\ family = "hooks" => Hooks!Init
         /\ family = "tracer" => Init
         /\ family = "detector" => Detector!Init
         /\ family = "sums" => Sums!Init
         /\ family = "cpu" => Cpu!Init
         /\ family = "paging" => Paging!Init
         /\ family = "circuits" => Circuits!Init
BY Zenon DEF SimulatorsInit

LEMMA HooksAlways == SimulatorsSpec => [](family = "hooks" => HooksInv)
<1>1. SimulatorsInit => (family = "hooks" => HooksInv)
  BY SimulatorsBegin, HooksBegin
<1>2. (family = "hooks" => HooksInv) /\ [SimulatorsNext]_allVars => (family = "hooks" => HooksInv)'
  BY OneRuns, HooksKeep
<1>. QED
  BY <1>1, <1>2, PTL DEF SimulatorsSpec

\* Hooks: while the processes that call number 336 begin and end traces of
\* their own only, the counts of a trace are those of the traced process's own
\* calls since it began, the bytes no more than its calls moved, and a file is
\* named only if one was opened, however the copying of names went.
THEOREM CountsAreExact == SimulatorsSpec => []CountsExact
<1>1. (family = "hooks" => HooksInv) => CountsExact
  <2>1. HooksKept => Hooks!TypeOK
    BY DEF HooksKept
  <2>2. CountsKept => Hooks!CountsExact
    BY DEF CountsKept, Hooks!CountsExact
  <2>. QED
    BY <2>1, <2>2 DEF HooksInv, CountsExact
<1>. QED
  BY <1>1, HooksAlways, PTL

\* Hooks: however modules were loaded, unloading them in reverse order and out
\* of use leaves no pointer in the table to code that is gone, nobody in such
\* code and, when all are gone, the kernel's own call.
THEOREM UnloadIsTidy == SimulatorsSpec => []TidyUnload
<1>1. (family = "hooks" => HooksInv) => TidyUnload
  <2>1. loaded = <<>> => \A a : ~Has(loaded, a)
    <3>1. 1..0 = {} /\ DOMAIN <<>> = 1..0
      OBVIOUS
    <3>. QED
      BY <3>1, Zenon DEF Has
  <2>2. \A a : Has(loaded, a) => Hooks!Loaded(a)
    BY DEF Has, Hooks!Loaded
  <2>3. ChainKept => Hooks!TidyUnload
    BY <2>1, <2>2, HookerNames DEF ChainKept, LastHooker, Hooks!TidyUnload, Hooks!CodePresent
  <2>. QED
    BY <2>3 DEF HooksInv, TidyUnload
<1>. QED
  BY <1>1, HooksAlways, PTL

-----------------------------------------------------------------------------
(* The fork path: what has been taken when a step fails is what the text   *)
(* from that step's label on releases.                                     *)

Name == {"threadgroup_lock", "policy", "free_pid", "put_pidfd", "threadgroup_change_end",
         "delays", "mempolicy", "perf", "audit", "security", "semundo", "files", "fs",
         "sighand", "signal", "mm", "namespaces", "io", "thread", "pid", "pidfd", "change",
         "cgroup"}
AStep == [sure : SUBSET Name, takes : SUBSET Name, label : Name]

LEMMA FourLong ==
  ASSUME NEW S, NEW a \in S, NEW b \in S, NEW c \in S, NEW d \in S
  PROVE  <<a, b, c, d>> \in Seq(S) /\ Len(<<a, b, c, d>>) = 4
OBVIOUS

LEMMA TenLong ==
  ASSUME NEW S, NEW a \in S, NEW b \in S, NEW c \in S, NEW d \in S, NEW e \in S,
         NEW f \in S, NEW g \in S, NEW h \in S, NEW j \in S, NEW k \in S
  PROVE  /\ <<a, b, c, d, e, f, g, h, j, k>> \in Seq(S)
         /\ Len(<<a, b, c, d, e, f, g, h, j, k>>) = 10
OBVIOUS

LEMMA AnyStep ==
  \A a, b, c \in Name :
     /\ Step({}, {}, a) \in AStep /\ Step({}, {a}, b) \in AStep /\ Step({a}, {b}, c) \in AStep
<1>1. {} \in SUBSET Name /\ \A a \in Name : {a} \in SUBSET Name
  OBVIOUS
<1>. QED
  BY <1>1 DEF Step, AStep

LEMMA NamesAre ==
  /\ "threadgroup_lock" \in Name /\ "policy" \in Name /\ "free_pid" \in Name
  /\ "put_pidfd" \in Name /\ "threadgroup_change_end" \in Name /\ "delays" \in Name
  /\ "mempolicy" \in Name /\ "perf" \in Name /\ "audit" \in Name
  /\ "security" \in Name /\ "semundo" \in Name /\ "files" \in Name
  /\ "fs" \in Name /\ "sighand" \in Name /\ "signal" \in Name
  /\ "mm" \in Name /\ "namespaces" \in Name /\ "io" \in Name
  /\ "thread" \in Name /\ "pid" \in Name /\ "pidfd" \in Name
  /\ "change" \in Name /\ "cgroup" \in Name
BY DEF Name

LEMMA StepsAre ==
  /\ Len(Steps) = 18 /\ DOMAIN Steps = 1..18
  /\ Steps[1] = Step({"delays"}, {"mempolicy"}, "threadgroup_lock")
  /\ Steps[2] = Step({}, {}, "policy") /\ Steps[3] = Step({}, {"perf"}, "policy")
  /\ Steps[4] = Step({}, {"audit"}, "perf")
  /\ Steps[5] = Step({}, {"security"}, "audit")
  /\ Steps[6] = Step({}, {"semundo"}, "security")
  /\ Steps[7] = Step({}, {"files"}, "semundo")
  /\ Steps[8] = Step({}, {"fs"}, "files")
  /\ Steps[9] = Step({}, {"sighand"}, "fs")
  /\ Steps[10] = Step({}, {"signal"}, "sighand")
  /\ Steps[11] = Step({}, {"mm"}, "signal")
  /\ Steps[12] = Step({}, {"namespaces"}, "mm")
  /\ Steps[13] = Step({}, {"io"}, "namespaces")
  /\ Steps[14] = Step({}, {"thread"}, "io")
  /\ Steps[15] = Step({}, {"pid"}, "thread") /\ Steps[16] = Step({}, {"pidfd"}, "free_pid")
  /\ Steps[17] = Step({}, {}, "put_pidfd")
  /\ Steps[18] = Step({"change"}, {"cgroup"}, "threadgroup_change_end")
<1>1. /\ Step({"delays"}, {"mempolicy"}, "threadgroup_lock") \in AStep
      /\ Step({}, {}, "policy") \in AStep /\ Step({}, {"perf"}, "policy") \in AStep
      /\ Step({}, {"audit"}, "perf") \in AStep
      /\ Step({}, {"pid"}, "thread") \in AStep /\ Step({}, {"pidfd"}, "free_pid") \in AStep
      /\ Step({}, {}, "put_pidfd") \in AStep
      /\ Step({"change"}, {"cgroup"}, "threadgroup_change_end") \in AStep
  BY AnyStep, NamesAre, Zenon
<1>2. /\ SetUp \in Seq(AStep) /\ Len(SetUp) = 4
      /\ Identity \in Seq(AStep) /\ Len(Identity) = 4
  BY <1>1, FourLong, Zenon DEF SetUp, Identity
<1>3. Copies \in Seq(AStep) /\ Len(Copies) = 10
  <2>1. /\ Step({}, {"security"}, "audit") \in AStep
        /\ Step({}, {"semundo"}, "security") \in AStep
        /\ Step({}, {"files"}, "semundo") \in AStep
        /\ Step({}, {"fs"}, "files") \in AStep
        /\ Step({}, {"sighand"}, "fs") \in AStep
        /\ Step({}, {"signal"}, "sighand") \in AStep
        /\ Step({}, {"mm"}, "signal") \in AStep
        /\ Step({}, {"namespaces"}, "mm") \in AStep
        /\ Step({}, {"io"}, "namespaces") \in AStep
        /\ Step({}, {"thread"}, "io") \in AStep
    BY AnyStep, NamesAre, Zenon
  <2>. QED
    BY <2>1, TenLong, Zenon DEF Copies
<1>4. PICK u : u = SetUp \o Copies
  OBVIOUS
<1>5. /\ u \in Seq(AStep) /\ Len(u) = 14
      /\ \A k \in 1..4 : u[k] = SetUp[k]
      /\ \A k \in 1..10 : u[4 + k] = Copies[k]
  <2>1. /\ SetUp \o Copies \in Seq(AStep) /\ Len(SetUp \o Copies) = Len(SetUp) + Len(Copies)
        /\ \A k \in 1..Len(SetUp) : (SetUp \o Copies)[k] = SetUp[k]
        /\ Follows(SetUp \o Copies, Len(SetUp), Copies)
    BY <1>2, <1>3, Joined, Zenon
  <2>2. u \in Seq(AStep) /\ Len(u) = 4 + 10
    BY <1>2, <1>3, <1>4, <2>1
  <2>3. /\ \A k \in 1..4 : u[k] = SetUp[k]
        /\ \A k \in 1..10 : u[4 + k] = Copies[k]
    BY <1>2, <1>3, <1>4, <2>1 DEF Follows
  <2>. QED
    BY <2>2, <2>3
<1>6. /\ Len(Steps) = 18 /\ DOMAIN Steps = 1..18
      /\ \A k \in 1..14 : Steps[k] = u[k]
      /\ \A k \in 1..4 : Steps[14 + k] = Identity[k]
  <2>. u \in Seq(AStep) /\ Identity \in Seq(AStep)
    BY <1>2, <1>5
  <2>1. /\ u \o Identity \in Seq(AStep) /\ Len(u \o Identity) = Len(u) + Len(Identity)
        /\ DOMAIN (u \o Identity) = 1..Len(u) + Len(Identity)
        /\ \A k \in 1..Len(u) : (u \o Identity)[k] = u[k]
        /\ Follows(u \o Identity, Len(u), Identity)
    BY Joined, Zenon
  <2>2. Steps = u \o Identity /\ 14 + 4 = 18
    BY <1>4 DEF Steps
  <2>3. Len(Steps) = 18 /\ DOMAIN Steps = 1..18
    BY <1>2, <1>5, <2>1, <2>2
  <2>4. /\ \A k \in 1..14 : Steps[k] = u[k]
        /\ \A k \in 1..4 : Steps[14 + k] = Identity[k]
    BY <1>2, <1>5, <2>1, <2>2 DEF Follows
  <2>. QED
    BY <2>3, <2>4
<1>7. /\ Steps[1] = SetUp[1] /\ Steps[2] = SetUp[2] /\ Steps[3] = SetUp[3] /\ Steps[4] = SetUp[4]
       /\ Steps[15] = Identity[1] /\ Steps[16] = Identity[2]
       /\ Steps[17] = Identity[3] /\ Steps[18] = Identity[4]
  BY <1>5, <1>6
<1>8. /\ Steps[5] = Copies[1] /\ Steps[6] = Copies[2] /\ Steps[7] = Copies[3]
       /\ Steps[8] = Copies[4] /\ Steps[9] = Copies[5] /\ Steps[10] = Copies[6]
       /\ Steps[11] = Copies[7] /\ Steps[12] = Copies[8] /\ Steps[13] = Copies[9]
       /\ Steps[14] = Copies[10]
  BY <1>5, <1>6
<1>. QED
  BY <1>6, <1>7, <1>8 DEF SetUp, Copies, Identity

LEMMA LadderIs ==
  /\ Len(Ladder) = 20 /\ DOMAIN Ladder = 1..20
  /\ Ladder[1] = Release("cancel_cgroup", {"cgroup"}) /\ Ladder[2] = Release("threadgroup_change_end", {"change"})
  /\ Ladder[3] = Release("put_pidfd", {"pidfd"}) /\ Ladder[4] = Release("free_pid", {"pid"})
  /\ Ladder[5] = Release("thread", {"thread"}) /\ Ladder[6] = Release("io", {"io"})
  /\ Ladder[7] = Release("namespaces", {"namespaces"}) /\ Ladder[8] = Release("mm", {"mm"})
  /\ Ladder[9] = Release("signal", {"signal"}) /\ Ladder[10] = Release("sighand", {"sighand"})
  /\ Ladder[11] = Release("fs", {"fs"}) /\ Ladder[12] = Release("files", {"files"})
  /\ Ladder[13] = Release("semundo", {"semundo"}) /\ Ladder[14] = Release("security", {"security"})
  /\ Ladder[15] = Release("audit", {"audit"}) /\ Ladder[16] = Release("perf", {"perf"})
  /\ Ladder[17] = Release("policy", {"mempolicy"}) /\ Ladder[18] = Release("threadgroup_lock", {"delays"})
  /\ Ladder[19] = Release("count", {"creds"}) /\ Ladder[20] = Release("free", {"task"})
BY DEF Ladder

LEMMA Fields ==
  /\ \A a, b, c : Step(a, b, c).sure = a /\ Step(a, b, c).takes = b /\ Step(a, b, c).label = c
  /\ \A a, b : Release(a, b).label = a /\ Release(a, b).what = b
BY DEF Step, Release

\* A label is in one line only.
LEMMA OneLabel ==
  ASSUME NEW d \in 1..20
  PROVE  (CHOOSE k \in DOMAIN Ladder : Ladder[k].label = Ladder[d].label) = d
<1>1. \A k \in 1..20 : \/ k = 1 \/ k = 2 \/ k = 3 \/ k = 4 \/ k = 5 \/ k = 6 \/ k = 7 \/ k = 8
                       \/ k = 9 \/ k = 10 \/ k = 11 \/ k = 12 \/ k = 13 \/ k = 14 \/ k = 15
                       \/ k = 16 \/ k = 17 \/ k = 18 \/ k = 19 \/ k = 20
  OBVIOUS
<1>2. \A k \in 1..20 : Ladder[k].label = Ladder[d].label => k = d
  BY <1>1, LadderIs, SMTT(60) DEF Release
<1>. QED
  BY <1>2, LadderIs

\* What the lines from d on release, and what k steps have taken.
Freed(d) == UNION {Ladder[k].what : k \in d..20}
Taken(k) == UNION {Steps[j].sure \cup Steps[j].takes : j \in 1..k}

LEMMA FreedOne ==
  /\ Freed(20) = Ladder[20].what
  /\ \A d \in 1..19 : Freed(d) = Ladder[d].what \cup Freed(d + 1)
<1>1. 20..20 = {20}
  OBVIOUS
<1>2. ASSUME NEW d \in 1..19 PROVE d..20 = {d} \cup (d + 1)..20
  OBVIOUS
<1>3. ASSUME NEW d \in 1..19 PROVE Freed(d) = Ladder[d].what \cup Freed(d + 1)
  BY <1>2 DEF Freed
<1>. QED
  BY <1>1, <1>3 DEF Freed

LEMMA TakenOne ==
  /\ Taken(0) = {}
  /\ \A k \in 1..18 : Taken(k) = Taken(k - 1) \cup Steps[k].sure \cup Steps[k].takes
<1>1. 1..0 = {}
  OBVIOUS
<1>2. ASSUME NEW k \in 1..18 PROVE 1..k = 1..(k - 1) \cup {k}
  OBVIOUS
<1>3. ASSUME NEW k \in 1..18
      PROVE  Taken(k) = Taken(k - 1) \cup Steps[k].sure \cup Steps[k].takes
  BY <1>2 DEF Taken
<1>. QED
  BY <1>1, <1>3 DEF Taken

\* From copy_creds on a fork has these two, and the steps' on top of them.
Base == {"task", "creds"}

\* The steps from the third to the sixteenth take what the lines release, the
\* other way round.
LEMMA Mirrored ==
  \A k \in 3..16 :
     /\ Steps[k].sure = {} /\ Steps[k].takes = Ladder[19 - k].what
     /\ Steps[k].label = Ladder[20 - k].label
<1>1. \A k \in 3..16 : \/ k = 3 \/ k = 4 \/ k = 5 \/ k = 6 \/ k = 7 \/ k = 8 \/ k = 9 \/ k = 10
                       \/ k = 11 \/ k = 12 \/ k = 13 \/ k = 14 \/ k = 15 \/ k = 16
  OBVIOUS
<1>2. ASSUME NEW k \in 3..16, NEW d, d = 19 - k, NEW e, e = 20 - k
      PROVE  /\ Steps[k].sure = {} /\ Steps[k].takes = Ladder[d].what
             /\ Steps[k].label = Ladder[e].label
  <2>1. Steps[k].sure = {}
    BY <1>1, StepsAre, Fields
  <2>2. Steps[k].takes = Ladder[d].what
    BY <1>1, <1>2, StepsAre, LadderIs, Fields
  <2>3. Steps[k].label = Ladder[e].label
    BY <1>1, <1>2, StepsAre, LadderIs, Fields
  <2>. QED
    BY <2>1, <2>2, <2>3
<1>. QED
  BY <1>2

LEMMA HeldIsFreed ==
  /\ Freed(20) = {"task"} /\ Freed(19) = Base /\ Base \cup Taken(18) = Freed(1)
  /\ \A k \in 1..18 : \E d \in 1..20 :
        Ladder[d].label = Steps[k].label /\ Base \cup Taken(k - 1) \cup Steps[k].sure = Freed(d)
<1>1. Freed(20) = {"task"}
  BY FreedOne, LadderIs DEF Release
<1>2. Freed(19) = Base
  <2>1. Freed(19) = Ladder[19].what \cup Freed(20)
    BY FreedOne
  <2>. QED
    BY <1>1, <2>1, LadderIs DEF Release, Base
<1>3. Freed(18) = Base \cup {"delays"}
  <2>1. Freed(18) = Ladder[18].what \cup Freed(19)
    BY FreedOne
  <2>. QED
    BY <1>2, <2>1, LadderIs DEF Release
<1>4. Freed(17) = Base \cup {"delays", "mempolicy"}
  <2>1. Freed(17) = Ladder[17].what \cup Freed(18)
    BY FreedOne
  <2>. QED
    BY <1>3, <2>1, LadderIs DEF Release
<1>5. Taken(0) = {} /\ Taken(1) = {"delays", "mempolicy"} /\ Taken(2) = Taken(1)
  <2>1. Taken(0) = {}
    BY TakenOne
  <2>2. Taken(1) = Taken(0) \cup Steps[1].sure \cup Steps[1].takes
    BY TakenOne
  <2>3. Taken(2) = Taken(1) \cup Steps[2].sure \cup Steps[2].takes
    BY TakenOne
  <2>4. /\ Steps[1].sure = {"delays"} /\ Steps[1].takes = {"mempolicy"}
        /\ Steps[2].sure = {} /\ Steps[2].takes = {}
    BY StepsAre, Fields
  <2>. QED
    BY <2>1, <2>2, <2>3, <2>4
<1>6. ASSUME NEW k \in 3..16, Base \cup Taken(k - 1) = Freed(20 - k)
      PROVE  Base \cup Taken(k) = Freed(19 - k)
  <2>. PICK d, j : d = 19 - k /\ j = k - 1
    OBVIOUS
  <2>1. d \in 1..19 /\ d + 1 = 20 - k /\ k \in 1..18
    OBVIOUS
  <2>2. Taken(k) = Taken(j) \cup Steps[k].sure \cup Steps[k].takes
    BY <2>1, TakenOne
  <2>3. Freed(d) = Ladder[d].what \cup Freed(d + 1)
    BY <2>1, FreedOne
  <2>4. Steps[k].sure = {} /\ Steps[k].takes = Ladder[d].what
    BY Mirrored
  <2>5. Base \cup Taken(j) = Freed(d + 1)
    BY <1>6, <2>1
  <2>. QED
    BY <2>2, <2>3, <2>4, <2>5
<1>7. Base \cup Taken(2) = Freed(17)
  BY <1>4, <1>5
<1>8. Base \cup Taken(3) = Freed(16)
  BY <1>6, <1>7
<1>9. Base \cup Taken(4) = Freed(15)
  BY <1>6, <1>8
<1>10. Base \cup Taken(5) = Freed(14)
  BY <1>6, <1>9
<1>11. Base \cup Taken(6) = Freed(13)
  BY <1>6, <1>10
<1>12. Base \cup Taken(7) = Freed(12)
  BY <1>6, <1>11
<1>13. Base \cup Taken(8) = Freed(11)
  BY <1>6, <1>12
<1>14. Base \cup Taken(9) = Freed(10)
  BY <1>6, <1>13
<1>15. Base \cup Taken(10) = Freed(9)
  BY <1>6, <1>14
<1>16. Base \cup Taken(11) = Freed(8)
  BY <1>6, <1>15
<1>17. Base \cup Taken(12) = Freed(7)
  BY <1>6, <1>16
<1>18. Base \cup Taken(13) = Freed(6)
  BY <1>6, <1>17
<1>19. Base \cup Taken(14) = Freed(5)
  BY <1>6, <1>18
<1>20. Base \cup Taken(15) = Freed(4)
  BY <1>6, <1>19
<1>21. Base \cup Taken(16) = Freed(3)
  BY <1>6, <1>20
<1>22. \A k \in 3..16 : Base \cup Taken(k - 1) = Freed(20 - k)
  <2>1. \A k \in 3..16 : \/ k = 3 \/ k = 4 \/ k = 5 \/ k = 6 \/ k = 7 \/ k = 8 \/ k = 9 \/ k = 10
                         \/ k = 11 \/ k = 12 \/ k = 13 \/ k = 14 \/ k = 15 \/ k = 16
    OBVIOUS
  <2>2. ASSUME NEW k \in 3..16, NEW j, j = k - 1, NEW d, d = 20 - k
        PROVE  Base \cup Taken(j) = Freed(d)
    BY <1>7, <1>8, <1>9, <1>10, <1>11, <1>12, <1>13, <1>14, <1>15, <1>16, <1>17, <1>18, <1>19,
       <1>20, <2>1, <2>2, SMTT(60)
  <2>. QED
    BY <2>2
<1>23. Taken(17) = Taken(16) /\ Taken(18) = Taken(17) \cup {"change", "cgroup"}
  <2>1. Taken(17) = Taken(16) \cup Steps[17].sure \cup Steps[17].takes
    BY TakenOne
  <2>2. Taken(18) = Taken(17) \cup Steps[18].sure \cup Steps[18].takes
    BY TakenOne
  <2>3. /\ Steps[17].sure = {} /\ Steps[17].takes = {}
        /\ Steps[18].sure = {"change"} /\ Steps[18].takes = {"cgroup"}
    BY StepsAre, Fields
  <2>. QED
    BY <2>1, <2>2, <2>3
<1>24. Freed(2) = {"change"} \cup Freed(3) /\ Freed(1) = {"cgroup"} \cup Freed(2)
  <2>1. Freed(2) = Ladder[2].what \cup Freed(3)
    BY FreedOne
  <2>2. Freed(1) = Ladder[1].what \cup Freed(2)
    BY FreedOne
  <2>. QED
    BY <2>1, <2>2, LadderIs DEF Release
<1>25. Base \cup Taken(18) = Freed(1)
  BY <1>21, <1>23, <1>24
<1>26. ASSUME NEW k \in 1..18
       PROVE  \E d \in 1..20 : /\ Ladder[d].label = Steps[k].label
                               /\ Base \cup Taken(k - 1) \cup Steps[k].sure = Freed(d)
  <2>1. CASE k = 1
    <3>1. Ladder[18].label = Steps[1].label /\ Base \cup Taken(0) \cup Steps[1].sure = Freed(18)
      BY <1>3, <1>5, StepsAre, LadderIs DEF Step, Release
    <3>. QED
      BY <2>1, <3>1
  <2>2. CASE k = 2
    <3>1. Ladder[17].label = Steps[2].label /\ Base \cup Taken(1) \cup Steps[2].sure = Freed(17)
      BY <1>4, <1>5, StepsAre, LadderIs DEF Step, Release
    <3>. QED
      BY <2>2, <3>1
  <2>3. CASE k \in 3..16
    <3>. PICK d, j : d = 20 - k /\ j = k - 1
      OBVIOUS
    <3>1. d \in 1..20 /\ Ladder[d].label = Steps[k].label
      BY <2>3, Mirrored
    <3>2. Base \cup Taken(j) \cup Steps[k].sure = Freed(d)
      BY <1>22, <2>3, Mirrored
    <3>. QED
      BY <3>1, <3>2
  <2>4. CASE k = 17
    <3>1. Ladder[3].label = Steps[17].label /\ Base \cup Taken(16) \cup Steps[17].sure = Freed(3)
      BY <1>21, StepsAre, LadderIs DEF Step, Release
    <3>. QED
      BY <2>4, <3>1
  <2>5. CASE k = 18
    <3>1. Ladder[2].label = Steps[18].label /\ Base \cup Taken(17) \cup Steps[18].sure = Freed(2)
      BY <1>21, <1>23, <1>24, StepsAre, LadderIs DEF Step, Release
    <3>. QED
      BY <2>5, <3>1
  <2>. QED
    BY <2>1, <2>2, <2>3, <2>4, <2>5
<1>. QED
  BY <1>1, <1>2, <1>25, <1>26

LEMMA BelowIs ==
  ASSUME NEW d \in 1..20, NEW f
  PROVE  Below(Ladder[d].label, f) = Concerns(f, Freed(d))
<1>1. PICK from : from = CHOOSE k \in DOMAIN Ladder : Ladder[k].label = Ladder[d].label
  OBVIOUS
<1>2. from = d /\ Len(Ladder) = 20
  BY <1>1, OneLabel, LadderIs
<1>3. Below(Ladder[d].label, f) = Concerns(f, UNION {Ladder[k].what : k \in from..Len(Ladder)})
  BY <1>1 DEF Below
<1>. QED
  BY <1>2, <1>3 DEF Freed

\* Threads share their signals, most forks have no pidfd; the rest concerns all.
LEMMA ConcernsIs ==
  ASSUME NEW f
  PROVE  \E not : /\ \A x \in {"task", "creds", "delays", "change"} : x \notin not
                  /\ \A what : Concerns(f, what) = what \ not
<1>1. PICK not : not = (IF "THREAD" \in f THEN {"signal"} ELSE {})
                       \cup (IF "PIDFD" \in f THEN {} ELSE {"pidfd"})
  OBVIOUS
<1>2. \A x \in {"task", "creds", "delays", "change"} : x \notin not
  BY <1>1
<1>3. \A what : Concerns(f, what) = what \ not
  BY <1>1, Zenon DEF Concerns
<1>. QED
  BY <1>2, <1>3

LEMMA GivesBack ==
  ASSUME NEW f
  PROVE  /\ Below("free", f) = {"task"} /\ Below("count", f) = Base
         /\ Below("cancel_cgroup", f) = Held(f, Len(Steps))
         /\ Held(f, Len(Steps)) \subseteq Freed(1) /\ Base \subseteq Freed(1)
         /\ \A k \in DOMAIN Steps :
               Below(Steps[k].label, f) = Held(f, k - 1) \cup Steps[k].sure
<1>1. \A k : Held(f, k) = Base \cup Concerns(f, Taken(k))
  BY Zenon DEF Held, Taken, Base
<1>2. Ladder[20].label = "free" /\ Ladder[19].label = "count" /\ Ladder[1].label = "cancel_cgroup"
  BY LadderIs, Fields
<1>3. /\ Below("free", f) = Concerns(f, Freed(20)) /\ Below("count", f) = Concerns(f, Freed(19))
      /\ Below("cancel_cgroup", f) = Concerns(f, Freed(1))
  BY <1>2, BelowIs
<1>4. PICK not : /\ \A x \in {"task", "creds", "delays", "change"} : x \notin not
                 /\ \A what : Concerns(f, what) = what \ not
  BY ConcernsIs
<1>5. Base \ not = Base /\ {"task"} \ not = {"task"}
  BY <1>4 DEF Base
<1>6. Below("free", f) = {"task"} /\ Below("count", f) = Base
  <2>1. Below("free", f) = Freed(20) \ not /\ Below("count", f) = Freed(19) \ not
    BY <1>3, <1>4
  <2>. QED
    BY <1>5, <2>1, HeldIsFreed
<1>7. Below("cancel_cgroup", f) = Held(f, Len(Steps)) /\ Held(f, Len(Steps)) \subseteq Freed(1)
  <2>1. Freed(1) = Base \cup Taken(18) /\ Len(Steps) = 18
    BY HeldIsFreed, StepsAre
  <2>2. Below("cancel_cgroup", f) = Freed(1) \ not
    BY <1>3, <1>4
  <2>3. Held(f, Len(Steps)) = Base \cup (Taken(18) \ not)
    BY <1>1, <1>4, <2>1
  <2>. QED
    BY <1>5, <2>1, <2>2, <2>3
<1>8. ASSUME NEW k \in DOMAIN Steps
      PROVE  Below(Steps[k].label, f) = Held(f, k - 1) \cup Steps[k].sure
  <2>1. k \in 1..18
    BY StepsAre
  <2>2. PICK d \in 1..20 : /\ Ladder[d].label = Steps[k].label
                           /\ Base \cup Taken(k - 1) \cup Steps[k].sure = Freed(d)
    BY <2>1, HeldIsFreed
  <2>3. Below(Steps[k].label, f) = Freed(d) \ not
    BY <1>4, <2>2, BelowIs
  <2>4. Steps[k].sure \ not = Steps[k].sure
    <3>1. k = 1 \/ k = 2 \/ k \in 3..16 \/ k = 17 \/ k = 18
      BY <2>1
    <3>2. k \in 3..16 => Steps[k].sure = {}
      BY Mirrored
    <3>3. {} \ not = {} /\ {"delays"} \ not = {"delays"} /\ {"change"} \ not = {"change"}
      BY <1>4
    <3>. QED
      BY <3>1, <3>2, <3>3, StepsAre, Fields
  <2>5. Held(f, k - 1) = Base \cup (Taken(k - 1) \ not)
    BY <1>1, <1>4
  <2>6. PICK a, c : a = Taken(k - 1) /\ c = Steps[k].sure
    OBVIOUS
  <2>7. Below(Steps[k].label, f) = (Base \cup a \cup c) \ not
    BY <2>2, <2>3, <2>6
  <2>8. (Base \cup a \cup c) \ not = (Base \cup (a \ not)) \cup c
    BY <1>5, <2>4, <2>6
  <2>. QED
    BY <2>5, <2>6, <2>7, <2>8
<1>. QED
  BY <1>6, <1>7, <1>8, HeldIsFreed

-----------------------------------------------------------------------------
(* The tasks and their counts. The tasks are finitely many (TaskAssumption) *)
(* and nr_threads and processes count them.                                 *)

Making == [at : {"idle", "begun", "copied", "published"}, flags : Flags \cup {{}},
           held : SUBSET Freed(1), count : Nat]

Busy == {t \in Task : making[t].at \in {"begun", "copied"}}

ForkTypes ==
    /\ life \in [Task -> {"none", "alive", "zombie"}]
    /\ fork_count \in [Task -> Nat] /\ forks \in [Task -> Nat]
    /\ making \in [Task -> Making]

\* Only a task that is alive forks; it holds what its steps have taken, its
\* child's count starts at nothing, and its own is late only in between.
TaskFine(t) ==
    /\ making[t].at # "idle" => life[t] = "alive"
    /\ making[t].at = "begun" => making[t].held = Base
    /\ making[t].at = "copied" =>
          making[t].held = Held(making[t].flags, Len(Steps)) /\ making[t].count = 0
    /\ life[t] # "none" =>
          fork_count[t] + (IF making[t].at = "published" THEN 1 ELSE 0) = forks[t]

ForksInv ==
    /\ ForkTypes /\ \A t \in Task : TaskFine(t)
    /\ unbalanced = {} /\ nr_threads = Cardinality(Exists)
    /\ processes = Cardinality(Exists) + Cardinality(Busy)

LEMMA CountsOfTasks ==
  ASSUME NEW S \in SUBSET Task, NEW t \in Task
  PROVE  /\ Cardinality(S) \in Nat
         /\ t \notin S => Cardinality(S \cup {t}) = Cardinality(S) + 1
         /\ t \in S => Cardinality(S \ {t}) = Cardinality(S) - 1
<1>1. IsFiniteSet(S)
  BY TaskAssumption, FS_Subset
<1>. QED
  BY <1>1, FS_CardinalityType, FS_AddElement, FS_RemoveElement

\* The counters after a step that adds or takes away one of either.
LEMMA OneMore ==
  ASSUME ForksInv, NEW t \in Task
  PROVE  /\ Exists \in SUBSET Task /\ Busy \in SUBSET Task
         /\ Cardinality(Exists) \in Nat /\ Cardinality(Busy) \in Nat
         /\ nr_threads \in Nat /\ processes \in Nat
<1>1. Exists \in SUBSET Task /\ Busy \in SUBSET Task
  BY DEF Exists, Busy
<1>2. Cardinality(Exists) \in Nat /\ Cardinality(Busy) \in Nat
  BY <1>1, CountsOfTasks
<1>. QED
  BY <1>1, <1>2 DEF ForksInv

LEMMA ForksKeepBegin ==
  ASSUME ForksInv, NEW t \in Task, Begin(t)
  PROVE  ForksInv'
<1>1. PICK f \in Flags :
         /\ life[t] = "alive" /\ making[t].at = "idle"
         /\ making' = [making EXCEPT ![t] = [at |-> "begun", flags |-> f,
                                             held |-> {"task", "creds"},
                                             count |-> fork_count[t]]]
         /\ processes' = processes + 1
         /\ UNCHANGED <<life, fork_count, nr_threads, unbalanced, forks>>
  BY DEF Begin, tasks
<1>2. [at |-> "begun", flags |-> f, held |-> {"task", "creds"}, count |-> fork_count[t]] \in Making
  <2>1. Base \subseteq Freed(1)
    BY GivesBack
  <2>. QED
    BY <2>1 DEF Making, Base, ForksInv, ForkTypes
<1>3. /\ making' \in [Task -> Making] /\ making'[t].at = "begun" /\ making'[t].held = Base
      /\ \A u \in Task : u # t => making'[u] = making[u]
  BY <1>1, <1>2 DEF ForksInv, ForkTypes, Base
<1>4. Exists' = Exists /\ Busy' = Busy \cup {t} /\ t \notin Busy
  BY <1>1, <1>3 DEF Exists, Busy
<1>5. TaskFine(t)'
  BY <1>1, <1>3 DEF ForksInv, TaskFine
<1>6. \A u \in Task : TaskFine(u)'
  BY <1>1, <1>3, <1>5 DEF ForksInv, TaskFine
<1>7. processes' = Cardinality(Exists') + Cardinality(Busy')
  <2>1. Cardinality(Busy') = Cardinality(Busy) + 1
    BY <1>4, OneMore, CountsOfTasks
  <2>. QED
    BY <1>1, <1>4, <2>1, OneMore DEF ForksInv
<1>. QED
  BY <1>1, <1>3, <1>4, <1>6, <1>7 DEF ForksInv, ForkTypes

\* A fork that gives up what it holds, to the last.
LEMMA ForksKeepGivesUp ==
  ASSUME ForksInv, NEW t \in Task, making[t].at \in {"begun", "copied"},
         NEW held, NEW label, Below(label, making[t].flags) = held, GivesUp(t, held, label)
  PROVE  ForksInv'
<1>1. /\ making' = [making EXCEPT ![t] = Nothing] /\ processes' = processes - 1
      /\ UNCHANGED <<life, fork_count, nr_threads, forks>>
      /\ unbalanced' = {}
  BY DEF GivesUp, Fails, tasks
<1>2. Nothing \in Making /\ Nothing.at = "idle"
  BY DEF Nothing, Making
<1>3. /\ making' \in [Task -> Making] /\ making'[t].at = "idle"
      /\ \A u \in Task : u # t => making'[u] = making[u]
  BY <1>1, <1>2 DEF ForksInv, ForkTypes
<1>4. Exists' = Exists /\ Busy' = Busy \ {t} /\ t \in Busy
  BY <1>1, <1>3 DEF Exists, Busy
<1>5. \A u \in Task : TaskFine(u)'
  BY <1>1, <1>3 DEF ForksInv, TaskFine
<1>6. processes' = Cardinality(Exists') + Cardinality(Busy')
  <2>1. Cardinality(Busy') = Cardinality(Busy) - 1
    BY <1>4, OneMore, CountsOfTasks
  <2>. QED
    BY <1>1, <1>4, <2>1, OneMore DEF ForksInv
<1>. QED
  BY <1>1, <1>3, <1>4, <1>5, <1>6 DEF ForksInv, ForkTypes

LEMMA ForksKeepFailures ==
  ASSUME ForksInv, NEW t \in Task,
         BeginFails(t) \/ TooManyThreads(t) \/ CopyFails(t) \/ PublishFails(t)
  PROVE  ForksInv'
<1>1. CASE BeginFails(t)
  <2>1. PICK f \in Flags, held \in {{}, {"task"}} :
           /\ IF held = {} THEN unbalanced' = {} ELSE Fails(f, held, "free")
           /\ UNCHANGED <<life, fork_count, making, nr_threads, processes, forks>>
    BY <1>1 DEF BeginFails, tasks
  <2>2. Fails(f, {"task"}, "free") => unbalanced' = {}
    BY GivesBack DEF Fails
  <2>3. unbalanced' = {}
    BY <2>1, <2>2
  <2>. QED
    BY <2>1, <2>3 DEF ForksInv, ForkTypes, TaskFine, Exists, Busy
<1>2. CASE TooManyThreads(t)
  <2>1. making[t].at = "begun" /\ GivesUp(t, making[t].held, "count")
    BY <1>2 DEF TooManyThreads
  <2>2. Below("count", making[t].flags) = making[t].held
    BY <2>1, GivesBack DEF ForksInv, TaskFine
  <2>. QED
    BY <2>1, <2>2, ForksKeepGivesUp
<1>3. CASE CopyFails(t)
  <2>1. PICK k \in DOMAIN Steps :
           /\ making[t].at = "begun"
           /\ GivesUp(t, Held(making[t].flags, k - 1) \cup Steps[k].sure, Steps[k].label)
    BY <1>3 DEF CopyFails
  <2>2. Below(Steps[k].label, making[t].flags) = Held(making[t].flags, k - 1) \cup Steps[k].sure
    BY GivesBack
  <2>. QED
    BY <2>1, <2>2, ForksKeepGivesUp
<1>4. CASE PublishFails(t)
  <2>1. making[t].at = "copied" /\ GivesUp(t, making[t].held, "cancel_cgroup")
    BY <1>4 DEF PublishFails
  <2>2. Below("cancel_cgroup", making[t].flags) = making[t].held
    BY <2>1, GivesBack DEF ForksInv, TaskFine
  <2>. QED
    BY <2>1, <2>2, ForksKeepGivesUp
<1>. QED
  BY <1>1, <1>2, <1>3, <1>4

LEMMA ForksKeepCopy ==
  ASSUME ForksInv, NEW t \in Task, Copy(t)
  PROVE  ForksInv'
<1>1. PICK what : what = Held(making[t].flags, Len(Steps))
  OBVIOUS
<1>2. /\ making[t].at = "begun"
      /\ making' = [making EXCEPT ![t].at = "copied", ![t].count = 0, ![t].held = what]
      /\ UNCHANGED <<life, fork_count, nr_threads, processes, unbalanced, forks>>
  BY <1>1 DEF Copy, ChildCount, tasks
<1>3. making[t] \in Making /\ what \in SUBSET Freed(1)
  BY <1>1, GivesBack DEF ForksInv, ForkTypes
<1>4. /\ making'[t] = [at |-> "copied", flags |-> making[t].flags, held |-> what, count |-> 0]
      /\ \A u \in Task : u # t => making'[u] = making[u]
      /\ making' \in [Task -> Making]
  <2>1. PICK it : it = [[[making[t] EXCEPT !.at = "copied"] EXCEPT !.count = 0] EXCEPT !.held = what]
    OBVIOUS
  <2>2. it = [at |-> "copied", flags |-> making[t].flags, held |-> what, count |-> 0]
    BY <1>3, <2>1 DEF Making
  <2>3. it \in Making
    BY <1>3, <2>2 DEF Making
  <2>4. making' = [making EXCEPT ![t] = it]
    BY <1>2, <2>1 DEF ForksInv, ForkTypes
  <2>. QED
    BY <2>2, <2>3, <2>4 DEF ForksInv, ForkTypes
<1>5. Exists' = Exists /\ Busy' = Busy
  BY <1>2, <1>4 DEF Exists, Busy
<1>6. \A u \in Task : TaskFine(u)'
  BY <1>1, <1>2, <1>4 DEF ForksInv, TaskFine
<1>. QED
  BY <1>2, <1>4, <1>5, <1>6 DEF ForksInv, ForkTypes

LEMMA ForksKeepPublish ==
  ASSUME ForksInv, NEW t \in Task, Publish(t)
  PROVE  ForksInv'
<1>1. PICK c \in Task \ Exists :
         /\ making[t].at = "copied"
         /\ life' = [life EXCEPT ![c] = "alive"]
         /\ fork_count' = [fork_count EXCEPT ![c] = making[t].count]
         /\ forks' = [forks EXCEPT ![t] = @ + 1, ![c] = 0]
         /\ nr_threads' = nr_threads + 1
         /\ making' = [making EXCEPT ![t].at = "published", ![t].held = {}]
         /\ UNCHANGED <<processes, unbalanced>>
  BY DEF Publish
<1>2. /\ life[t] = "alive" /\ making[t].count = 0 /\ making[t] \in Making
      /\ life[c] = "none" /\ c # t /\ making[c].at = "idle"
      /\ fork_count[t] = forks[t] /\ forks[t] \in Nat
  <2>1. TaskFine(t) /\ TaskFine(c)
    BY DEF ForksInv
  <2>2. life[c] = "none"
    BY DEF Exists
  <2>3. life[t] = "alive" /\ making[t].count = 0
    BY <1>1, <2>1 DEF TaskFine
  <2>4. making[c].at = "idle"
    BY <2>1, <2>2 DEF TaskFine
  <2>5. fork_count[t] \in Nat /\ forks[t] \in Nat /\ making[t] \in Making
    BY DEF ForksInv, ForkTypes
  <2>6. fork_count[t] + 0 = forks[t]
    BY <1>1, <2>1, <2>3 DEF TaskFine
  <2>. QED
    BY <2>2, <2>3, <2>4, <2>5, <2>6
<1>3. /\ making'[t].at = "published" /\ making' \in [Task -> Making]
      /\ \A u \in Task : u # t => making'[u] = making[u]
  <2>1. PICK it : it = [[making[t] EXCEPT !.at = "published"] EXCEPT !.held = {}]
    OBVIOUS
  <2>2. it \in Making /\ it.at = "published"
    BY <1>2, <2>1 DEF Making
  <2>3. making' = [making EXCEPT ![t] = it]
    BY <1>1, <2>1 DEF ForksInv, ForkTypes
  <2>. QED
    BY <2>2, <2>3 DEF ForksInv, ForkTypes
<1>4. /\ life'[c] = "alive" /\ fork_count'[c] = 0 /\ forks'[c] = 0 /\ forks'[t] = forks[t] + 1
      /\ \A u \in Task : u # c => life'[u] = life[u] /\ fork_count'[u] = fork_count[u]
      /\ \A u \in Task : u # c /\ u # t => forks'[u] = forks[u]
      /\ life' \in [Task -> {"none", "alive", "zombie"}]
      /\ fork_count' \in [Task -> Nat] /\ forks' \in [Task -> Nat]
  BY <1>1, <1>2 DEF ForksInv, ForkTypes
<1>5. Exists' = Exists \cup {c} /\ c \notin Exists /\ Busy' = Busy \ {t} /\ t \in Busy
  BY <1>1, <1>2, <1>3, <1>4 DEF Exists, Busy
<1>6. TaskFine(t)' /\ TaskFine(c)'
  BY <1>2, <1>3, <1>4 DEF TaskFine
<1>7. \A u \in Task : TaskFine(u)'
  BY <1>3, <1>4, <1>6 DEF ForksInv, TaskFine
<1>8. /\ Cardinality(Exists') = Cardinality(Exists) + 1
      /\ Cardinality(Busy') = Cardinality(Busy) - 1
  BY <1>5, OneMore, CountsOfTasks
<1>9. nr_threads' = Cardinality(Exists') /\ processes' = Cardinality(Exists') + Cardinality(Busy')
  BY <1>1, <1>8, OneMore DEF ForksInv
<1>. QED
  BY <1>1, <1>3, <1>4, <1>7, <1>9 DEF ForksInv, ForkTypes

LEMMA ForksKeepCount ==
  ASSUME ForksInv, NEW t \in Task, Count(t)
  PROVE  ForksInv'
<1>1. /\ making[t].at = "published"
      /\ fork_count' = [fork_count EXCEPT ![t] = fork_count[t] + 1]
      /\ making' = [making EXCEPT ![t] = Nothing]
      /\ UNCHANGED <<life, nr_threads, processes, unbalanced, forks>>
  BY DEF Count, tasks
<1>2. Nothing \in Making /\ Nothing.at = "idle"
  BY DEF Nothing, Making
<1>3. /\ making' \in [Task -> Making] /\ making'[t].at = "idle"
      /\ \A u \in Task : u # t => making'[u] = making[u]
  BY <1>1, <1>2 DEF ForksInv, ForkTypes
<1>4. fork_count[t] \in Nat /\ fork_count'[t] = fork_count[t] + 1
      /\ fork_count' \in [Task -> Nat]
      /\ \A u \in Task : u # t => fork_count'[u] = fork_count[u]
  BY <1>1 DEF ForksInv, ForkTypes
<1>5. Exists' = Exists /\ Busy' = Busy
  BY <1>1, <1>3 DEF Exists, Busy
<1>6. \A u \in Task : TaskFine(u)'
  BY <1>1, <1>3, <1>4 DEF ForksInv, TaskFine
<1>. QED
  BY <1>1, <1>3, <1>4, <1>5, <1>6 DEF ForksInv, ForkTypes

LEMMA ForksKeepOthers ==
  ASSUME ForksInv, NEW t \in Task,
         Exit(t) \/ Release_task(t) \/ TraceTask(t) \/ TraceFamily \/ UNCHANGED vars
  PROVE  ForksInv'
<1>1. CASE Exit(t)
  <2>1. /\ life[t] = "alive" /\ making[t].at = "idle" /\ life' = [life EXCEPT ![t] = "zombie"]
        /\ UNCHANGED <<fork_count, making, nr_threads, processes, unbalanced, forks>>
    BY <1>1 DEF Exit
  <2>2. /\ life'[t] = "zombie" /\ life' \in [Task -> {"none", "alive", "zombie"}]
        /\ \A u \in Task : u # t => life'[u] = life[u]
    BY <2>1 DEF ForksInv, ForkTypes
  <2>3. Exists' = Exists /\ Busy' = Busy
    BY <2>1, <2>2 DEF Exists, Busy
  <2>4. \A u \in Task : TaskFine(u)'
    BY <2>1, <2>2 DEF ForksInv, TaskFine
  <2>. QED
    BY <2>1, <2>2, <2>3, <2>4 DEF ForksInv, ForkTypes
<1>2. CASE Release_task(t)
  <2>1. /\ making[t].at = "idle" /\ life[t] # "none" /\ life' = [life EXCEPT ![t] = "none"]
        /\ nr_threads' = nr_threads - 1 /\ processes' = processes - 1
        /\ UNCHANGED <<fork_count, making, unbalanced, forks>>
    BY <1>2 DEF Release_task
  <2>2. /\ life'[t] = "none" /\ life' \in [Task -> {"none", "alive", "zombie"}]
        /\ \A u \in Task : u # t => life'[u] = life[u]
    BY <2>1 DEF ForksInv, ForkTypes
  <2>3. Exists' = Exists \ {t} /\ t \in Exists /\ Busy' = Busy
    BY <2>1, <2>2 DEF Exists, Busy
  <2>4. \A u \in Task : TaskFine(u)'
    BY <2>1, <2>2 DEF ForksInv, TaskFine
  <2>5. Cardinality(Exists') = Cardinality(Exists) - 1
    BY <2>3, OneMore, CountsOfTasks
  <2>6. nr_threads' = Cardinality(Exists') /\ processes' = Cardinality(Exists') + Cardinality(Busy')
    BY <2>1, <2>3, <2>5, OneMore DEF ForksInv
  <2>. QED
    BY <2>1, <2>2, <2>4, <2>6 DEF ForksInv, ForkTypes
<1>3. CASE TraceTask(t) \/ TraceFamily \/ UNCHANGED vars
  <2>1. UNCHANGED <<life, fork_count, making, nr_threads, processes, unbalanced, forks>>
    BY <1>3 DEF TraceTask, TraceFamily, vars, tasks
  <2>. QED
    BY <2>1 DEF ForksInv, ForkTypes, TaskFine, Exists, Busy
<1>. QED
  BY <1>1, <1>2, <1>3

LEMMA ForksBegin ==
  ASSUME Init
  PROVE  ForksInv
<1>1. /\ life = [t \in Task |-> IF t = 1 THEN "alive" ELSE "none"]
      /\ fork_count = [t \in Task |-> 0] /\ making = [t \in Task |-> Nothing]
      /\ nr_threads = 1 /\ processes = 1 /\ unbalanced = {} /\ forks = [t \in Task |-> 0]
  BY DEF Init
<1>2. Nothing \in Making /\ Nothing.at = "idle"
  BY DEF Nothing, Making
<1>3. Exists = {1} /\ Busy = {}
  BY <1>1, <1>2, TaskAssumption DEF Exists, Busy
<1>4. Cardinality(Exists) = 1 /\ Cardinality(Busy) = 0
  BY <1>3, FS_Singleton, FS_EmptySet
<1>5. ForkTypes /\ \A t \in Task : TaskFine(t)
  BY <1>1, <1>2 DEF ForkTypes, TaskFine
<1>. QED
  BY <1>1, <1>4, <1>5 DEF ForksInv

LEMMA ForksAlways == SimulatorsSpec => [](family = "tracer" => ForksInv)
<1>1. SimulatorsInit => (family = "tracer" => ForksInv)
  BY SimulatorsBegin, ForksBegin
<1>2. (family = "tracer" => ForksInv) /\ [SimulatorsNext]_allVars => (family = "tracer" => ForksInv)'
  <2>1. ASSUME ForksInv, Next \/ UNCHANGED vars PROVE ForksInv'
    BY <2>1, TaskAssumption, ForksKeepBegin, ForksKeepFailures, ForksKeepCopy, ForksKeepPublish,
       ForksKeepCount, ForksKeepOthers DEF Next
  <2>. QED
    BY <2>1, OneRuns
<1>. QED
  BY <1>1, <1>2, PTL DEF SimulatorsSpec

\* Kernel: whatever step a fork fails in and whatever its flags, it releases
\* what it had acquired and nothing else, and nr_threads and the count of
\* processes are those of the tasks there are.
THEOREM FailedForksGiveBack == SimulatorsSpec => []ForksGiveBack
<1>1. (family = "tracer" => ForksInv) => ForksGiveBack
  BY DEF ForksGiveBack, ForksInv, ForksBalanced, Busy
<1>. QED
  BY <1>1, ForksAlways, PTL

\* Kernel: the project's fork_count of a task is the number of tasks it made,
\* its copy of its parent's count, failed forks and pids used again
\* notwithstanding, and one behind only between Publish and Count.
THEOREM MadeTasksAreCounted == SimulatorsSpec => []ForksAreCounted
<1>1. (family = "tracer" => ForksInv) => ForksAreCounted
  BY DEF ForksAreCounted, ForksInv, ForksCounted, TaskFine, Exists
<1>. QED
  BY <1>1, ForksAlways, PTL

-----------------------------------------------------------------------------
(* The parallel sums. What a set of workers adds is the number of cells of a  *)
(* diagram with a column for each of them, as high as what its pair adds up   *)
(* to; a fold over the set, which picks one worker after the other, counts    *)
(* the same cells.                                                            *)

Part(w) == IF Len(file) < 2 * w + 2 THEN 0 ELSE 4 * w + 3
Cells(S) == {cell \in S \X (1..4 * MAX_PROCESSES) : cell[2] <= Part(cell[1])}
Earned(S) == Cardinality(Cells(S))

Gone == {w \in Sums!Index : worker[w] = "gone"}

LEMMA IndexIs ==
  /\ Sums!Index = 0..MAX_PROCESSES - 1 /\ MAX_PROCESSES \in Nat /\ StatusMax \in Nat
  /\ IsFiniteSet(Sums!Index) /\ Cardinality(Sums!Index) = MAX_PROCESSES
  /\ \A w \in Sums!Index : w \in Nat /\ w < MAX_PROCESSES
<1>1. Sums!Index = 0..MAX_PROCESSES - 1 /\ MAX_PROCESSES \in Nat /\ StatusMax \in Nat
  BY StatusAssumption DEF Sums!Index
<1>2. MAX_PROCESSES - 1 \in Int
  BY <1>1
<1>3. IsFiniteSet(0..MAX_PROCESSES - 1)
      /\ Cardinality(0..MAX_PROCESSES - 1) = IF 0 > MAX_PROCESSES - 1 THEN 0 ELSE MAX_PROCESSES - 1 - 0 + 1
  BY <1>2, FS_Interval
<1>. QED
  BY <1>1, <1>3

LEMMA PartIs ==
  ASSUME NEW w \in Sums!Index
  PROVE  Part(w) \in Nat /\ Part(w) <= 4 * MAX_PROCESSES /\ Part(w) <= StatusMax
<1>1. w \in Nat /\ w < MAX_PROCESSES /\ MAX_PROCESSES \in Nat /\ StatusMax \in Nat
  BY IndexIs
<1>. QED
  BY <1>1, StatusAssumption DEF Part

\* One more worker adds its column.
LEMMA EarnedMore ==
  ASSUME NEW S \in SUBSET Sums!Index
  PROVE  /\ Earned(S) \in Nat
         /\ \A w \in Sums!Index \ S : Earned(S \cup {w}) = Earned(S) + Part(w)
<1>1. PICK K : K = 1..4 * MAX_PROCESSES
  OBVIOUS
<1>2. IsFiniteSet(K)
  BY <1>1, IndexIs, FS_Interval
<1>3. ASSUME NEW T \in SUBSET Sums!Index PROVE IsFiniteSet(Cells(T))
  <2>1. IsFiniteSet(T)
    BY IndexIs, FS_Subset
  <2>2. IsFiniteSet(T \X K)
    BY <1>2, <2>1, FS_Product
  <2>3. Cells(T) \in SUBSET (T \X K)
    BY <1>1 DEF Cells
  <2>. QED
    BY <2>2, <2>3, FS_Subset
<1>4. ASSUME NEW w \in Sums!Index \ S PROVE Earned(S \cup {w}) = Earned(S) + Part(w)
  <2>1. PICK column : column = {w} \X (1..Part(w))
    OBVIOUS
  <2>2. IsFiniteSet(column) /\ Cardinality(column) = Part(w)
    <3>1. Part(w) \in Nat
      BY PartIs
    <3>2. IsFiniteSet(1..Part(w)) /\ Cardinality(1..Part(w)) = Part(w)
      BY <3>1, FS_Interval
    <3>3. IsFiniteSet({w}) /\ Cardinality({w}) = 1
      BY FS_Singleton
    <3>4. IsFiniteSet(column) /\ Cardinality(column) = Cardinality({w}) * Cardinality(1..Part(w))
      BY <2>1, <3>2, <3>3, FS_Product
    <3>. QED
      BY <3>1, <3>2, <3>3, <3>4
  <2>3. Cells(S \cup {w}) = Cells(S) \cup column
    <3>1. \A n \in 1..4 * MAX_PROCESSES : n <= Part(w) <=> n \in 1..Part(w)
      BY PartIs
    <3>2. \A n \in 1..Part(w) : n \in 1..4 * MAX_PROCESSES
      BY PartIs, IndexIs
    <3>. QED
      BY <2>1, <3>1, <3>2 DEF Cells
  <2>4. Cells(S) \cap column = {}
    BY <2>1 DEF Cells
  <2>5. Cardinality(Cells(S) \cup column)
        = Cardinality(Cells(S)) + Cardinality(column) - Cardinality(Cells(S) \cap column)
    BY <1>3, <2>2, FS_Union
  <2>6. Cardinality(Cells(S) \cap column) = 0
    BY <2>4, FS_EmptySet
  <2>7. Cardinality(Cells(S)) \in Nat /\ Part(w) \in Nat
    BY <1>3, PartIs, FS_CardinalityType
  <2>8. Cardinality(Cells(S) \cup column) = Cardinality(Cells(S)) + Part(w)
    BY <2>2, <2>5, <2>6, <2>7
  <2>. QED
    BY <2>3, <2>8 DEF Earned
<1>5. Earned(S) \in Nat
  BY <1>3, FS_CardinalityType DEF Earned
<1>. QED
  BY <1>4, <1>5

\* The fold: a function of sets that takes one worker away at a time.
Picked(S) == CHOOSE w \in S : TRUE
Folds(g, S) ==
    g = [s \in SUBSET S |-> IF s = {} THEN 0 ELSE Part(Picked(s)) + g[s \ {Picked(s)}]]

LEMMA FoldDefined ==
  ASSUME NEW S
  PROVE  Sums!MapThenSumSet(LAMBDA w : IF Len(file) < 2 * w + 2 THEN 0 ELSE 4 * w + 3, S)
         = (CHOOSE g : Folds(g, S))[S]
  BY Zenon DEF Sums!MapThenSumSet, Sums!MapThenFoldSet, Folds, Picked, Part

LEMMA EarnedLess ==
  ASSUME NEW S \in SUBSET Sums!Index, S # {}
  PROVE  Picked(S) \in S /\ Earned(S) = Part(Picked(S)) + Earned(S \ {Picked(S)})
<1>1. PICK w : w = Picked(S)
  OBVIOUS
<1>2. w \in S
  BY <1>1 DEF Picked
<1>3. (S \ {w}) \cup {w} = S /\ w \in Sums!Index \ (S \ {w}) /\ S \ {w} \in SUBSET Sums!Index
  BY <1>2
<1>4. Earned(S) = Earned(S \ {w}) + Part(w) /\ Earned(S \ {w}) \in Nat /\ Part(w) \in Nat
  BY <1>3, EarnedMore, PartIs
<1>. QED
  BY <1>1, <1>2, <1>4

LEMMA NothingEarned == Earned({}) = 0
<1>1. Cells({}) = {}
  BY DEF Cells
<1>. QED
  BY <1>1, FS_EmptySet DEF Earned

LEMMA FoldIsEarned ==
  ASSUME NEW S \in SUBSET Sums!Index
  PROVE  Sums!MapThenSumSet(LAMBDA w : IF Len(file) < 2 * w + 2 THEN 0 ELSE 4 * w + 3, S)
         = Earned(S)
<1>1. Folds([s \in SUBSET S |-> Earned(s)], S)
  <2>1. PICK g : g = [s \in SUBSET S |-> Earned(s)]
    OBVIOUS
  <2>2. ASSUME NEW s \in SUBSET S
        PROVE  g[s] = IF s = {} THEN 0 ELSE Part(Picked(s)) + g[s \ {Picked(s)}]
    <3>1. s \ {Picked(s)} \in SUBSET S /\ s \in SUBSET Sums!Index
      OBVIOUS
    <3>2. g[s] = Earned(s) /\ g[s \ {Picked(s)}] = Earned(s \ {Picked(s)})
      BY <2>1, <3>1
    <3>. QED
      BY <3>1, <3>2, EarnedLess, NothingEarned
  <2>3. g = [s \in SUBSET S |-> IF s = {} THEN 0 ELSE Part(Picked(s)) + g[s \ {Picked(s)}]]
    BY <2>1, <2>2
  <2>. QED
    BY <2>1, <2>3 DEF Folds
<1>2. PICK g : g = CHOOSE h : Folds(h, S)
  OBVIOUS
<1>3. Folds(g, S)
  BY <1>1, <1>2, Zenon
<1>4. \A s \in SUBSET S : g[s] = IF s = {} THEN 0 ELSE Part(Picked(s)) + g[s \ {Picked(s)}]
  BY <1>3, Zenon DEF Folds
<1>. DEFINE Wrong == {s \in SUBSET S : g[s] # Earned(s)}
<1>6. Wrong = {}
  <2>1. SUFFICES ASSUME Wrong # {} PROVE FALSE
    OBVIOUS
  <2>2. PICK R : R = StrictSubsetOrdering(S)
    OBVIOUS
  <2>3. IsFiniteSet(S)
    BY IndexIs, FS_Subset
  <2>4. IsWellFoundedOn(R, SUBSET S)
    BY <2>2, <2>3, FS_StrictSubsetOrderingWellFounded, FS_FiniteSubsetsOfFinite
  <2>5. Wrong \subseteq SUBSET S
    OBVIOUS
  <2>6. PICK s \in Wrong : \A t \in Wrong : ~(<<t, s>> \in R)
    <3>. HIDE DEF Wrong
    <3>. QED
      BY <2>1, <2>4, <2>5, WFMin
  <2>7. s \in SUBSET S /\ g[s] # Earned(s)
    OBVIOUS
  <2>8. s # {}
    BY <1>4, <2>7, NothingEarned
  <2>9. s \in SUBSET Sums!Index
    BY <2>7
  <2>10. Picked(s) \in s /\ Earned(s) = Part(Picked(s)) + Earned(s \ {Picked(s)})
    BY <2>8, <2>9, EarnedLess
  <2>11. PICK t : t = s \ {Picked(s)}
    OBVIOUS
  <2>12. t \in SUBSET S /\ t # s /\ t \subseteq s
    BY <2>7, <2>10, <2>11
  <2>13. t \notin Wrong
    BY <2>2, <2>6, <2>7, <2>12 DEF StrictSubsetOrdering
  <2>14. g[s] = Part(Picked(s)) + g[t] /\ g[t] = Earned(t)
    BY <1>4, <2>7, <2>8, <2>11, <2>12, <2>13
  <2>. QED
    BY <2>7, <2>10, <2>11, <2>14
<1>7. g[S] = Earned(S)
  BY <1>6
<1>. QED
  BY <1>2, <1>7, FoldDefined

\* Workers: who has ended by itself and could open the file has added up its
\* pair, and the others nothing.
WorkerState == {"none", "runs", "ended", "failed", "killed", "gone", "lost"}

SumTypes ==
    /\ program \in {"fork", "thread"}
    /\ \E n \in Nat : file = [k \in 1..n |-> k]
    /\ i \in 0..MAX_PROCESSES
    /\ worker \in [Sums!Index -> WorkerState]
    /\ result \in [Sums!Index -> Nat]
    /\ total \in Nat
    /\ phase \in {"create", "collect", "printed", "undefined"}

Busies == {w \in Sums!Index : worker[w] \in {"runs", "ended", "failed", "killed"}}
Out == {w \in Sums!Index : worker[w] \in {"gone", "lost"}}

\* A wait that fails comes when no child is left, and a join that returns
\* leaves none running below i.
SumsInv ==
    /\ SumTypes
    /\ \A w \in Sums!Index :
          result[w] = IF worker[w] \in {"ended", "gone"} THEN Part(w) ELSE 0
    /\ total = Earned(Gone)
    /\ phase = "create" =>
          \A w \in Sums!Index : worker[w] \notin {"gone", "lost"} /\ (w >= i => worker[w] = "none")
    /\ phase = "printed" => i = MAX_PROCESSES
    /\ phase \in {"collect", "printed"} /\ program = "fork" /\ Busies # {} => i = Cardinality(Out)
    /\ phase \in {"collect", "printed"} /\ program = "thread" =>
          \A w \in Sums!Index :
             /\ w < i => worker[w] \in {"none", "gone", "lost"}
             /\ w >= i => worker[w] \notin {"gone", "lost"}

LEMMA SumsBegin ==
  ASSUME Sums!Init
  PROVE  SumsInv
<1>1. /\ program \in {"fork", "thread"} /\ i = 0 /\ total = 0 /\ phase = "create"
      /\ worker = [w \in Sums!Index |-> "none"] /\ result = [w \in Sums!Index |-> 0]
  BY DEF Sums!Init
<1>2. \E n \in Nat : file = [k \in 1..n |-> k]
  <2>1. PICK n \in 0..2 * MAX_PROCESSES : file = Sums!numgen(n)
    BY DEF Sums!Init
  <2>. QED
    BY <2>1, IndexIs DEF Sums!numgen
<1>3. SumTypes
  BY <1>1, <1>2, IndexIs DEF SumTypes, WorkerState
<1>4. total = Earned(Gone)
  <2>1. Gone = {}
    BY <1>1 DEF Gone
  <2>. QED
    BY <1>1, <2>1, NothingEarned
<1>. QED
  BY <1>1, <1>3, <1>4 DEF SumsInv

\* What a worker reads is its part, and an exit status holds it.
LEMMA ReadsPart ==
  ASSUME SumTypes, NEW w \in Sums!Index
  PROVE  /\ Sums!read_pair_sum_by_index(w) = Part(w)
         /\ Sums!ExitStatus(Sums!read_pair_sum_by_index(w)) = Part(w)
<1>1. PICK n \in Nat : file = [k \in 1..n |-> k]
  BY DEF SumTypes
<1>2. Len(file) = n
  <2>1. [k \in 1..n |-> k] \in Seq(Nat) /\ DOMAIN [k \in 1..n |-> k] = 1..n
    BY Z3
  <2>2. file \in Seq(Nat) /\ DOMAIN file = 1..n
    BY <1>1, <2>1
  <2>. QED
    BY <2>2
<1>3. w \in Nat
  BY IndexIs
<1>4. 2 * w + 2 <= n => file[2 * w + 1] + file[2 * w + 2] = 4 * w + 3
  <2>1. \A k \in 1..n : file[k] = k
    BY <1>1
  <2>. QED
    BY <1>3, <2>1
<1>5. Sums!read_pair_sum_by_index(w) = Part(w)
  BY <1>2, <1>3, <1>4 DEF Sums!read_pair_sum_by_index, Part
<1>. QED
  BY <1>5, PartIs, IndexIs DEF Sums!ExitStatus

LEMMA SameFile ==
  ASSUME file' = file
  PROVE  /\ \A w : Part(w)' = Part(w)
         /\ Earned(Gone)' = Earned(Gone')
<1>1. \A w : Part(w)' = Part(w)
  BY DEF Part
<1>. QED
  BY <1>1 DEF Earned, Cells

\* The loop that starts the workers.
LEMMA SumsStart ==
  ASSUME SumsInv,
         \/ Sums!Fork \/ Sums!ForkFails \/ Sums!ThreadCreate \/ Sums!CreateFails \/ Sums!AllStarted
  PROVE  SumsInv'
<1>1. /\ phase = "create" /\ i \in 0..MAX_PROCESSES
      /\ UNCHANGED <<program, file, result, total>>
      /\ \/ /\ i < MAX_PROCESSES /\ i' = i + 1 /\ phase' = "create"
            /\ worker' = worker \/ worker' = [worker EXCEPT ![i] = "runs"]
         \/ i' = 0 /\ phase' = "collect" /\ worker' = worker
  BY DEF Sums!Fork, Sums!ForkFails, Sums!ThreadCreate, Sums!CreateFails, Sums!AllStarted,
     Sums!StartsNext, SumsInv, SumTypes
<1>2. /\ \A w \in Sums!Index : worker[w] \notin {"gone", "lost"} /\ (w >= i => worker[w] = "none")
      /\ \A w \in Sums!Index : result[w] = IF worker[w] \in {"ended", "gone"} THEN Part(w) ELSE 0
  BY <1>1 DEF SumsInv
<1>3. SumTypes'
  <2>1. SumTypes /\ MAX_PROCESSES \in Nat
    BY IndexIs DEF SumsInv
  <2>2. i' \in 0..MAX_PROCESSES
    BY <1>1, <2>1
  <2>3. worker' \in [Sums!Index -> WorkerState]
    BY <1>1, <2>1 DEF SumTypes, WorkerState
  <2>. QED
    BY <1>1, <2>1, <2>2, <2>3 DEF SumTypes
<1>4. /\ \A w \in Sums!Index : worker'[w] \notin {"gone", "lost"}
      /\ \A w \in Sums!Index : worker'[w] # worker[w] => w = i /\ worker'[w] = "runs"
  BY <1>1, <1>2 DEF SumsInv, SumTypes
<1>5. Gone' = Gone /\ Gone' = {} /\ Out' = {}
  BY <1>2, <1>4 DEF Gone, Out
<1>6. Cardinality(Out') = 0
  BY <1>5, FS_EmptySet
<1>7. \A w \in Sums!Index : result'[w] = IF worker'[w] \in {"ended", "gone"} THEN Part(w)' ELSE 0
  <2>1. \A w \in Sums!Index : Part(w)' = Part(w)
    BY <1>1, SameFile
  <2>2. i \in Sums!Index => worker[i] = "none"
    BY <1>2, IndexIs
  <2>. QED
    BY <1>1, <1>2, <1>4, <2>1, <2>2
<1>8. total' = Earned(Gone)'
  BY <1>1, <1>5, SameFile DEF SumsInv
<1>9. /\ phase' = "create" => \A w \in Sums!Index : w >= i' => worker'[w] = "none"
      /\ phase' = "collect" => i' = 0
  <2>1. \A w \in Sums!Index : w \in Nat
    BY IndexIs
  <2>2. ASSUME phase' = "create", NEW w \in Sums!Index, w >= i' PROVE worker'[w] = "none"
    <3>1. w >= i /\ w # i
      BY <1>1, <2>1, <2>2
    <3>. QED
      BY <1>2, <1>4, <3>1
  <2>. QED
    BY <1>1, <2>2
<1>10. phase' \in {"create", "collect"} /\ \A w \in Sums!Index : ~(w < 0)
  BY <1>1, IndexIs
<1>. QED
  BY <1>3, <1>4, <1>6, <1>7, <1>8, <1>9, <1>10 DEF SumsInv

\* A worker that ends has added up its pair, or could not, or was ended.
LEMMA SumsWork ==
  ASSUME SumsInv, NEW w \in Sums!Index, Sums!Child(w) \/ Sums!Killed(w) \/ Sums!Thread(w)
  PROVE  SumsInv'
<1>1. /\ worker[w] = "runs"
      /\ \/ /\ worker' = [worker EXCEPT ![w] = "ended"]
            /\ result' = [result EXCEPT ![w] = Part(w)]
         \/ /\ worker' = [worker EXCEPT ![w] = "failed"]
            /\ result' = [result EXCEPT ![w] = 0]
         \/ /\ worker' = [worker EXCEPT ![w] = "killed"]
            /\ result' = result
      /\ UNCHANGED <<program, file, i, total, phase>>
  BY ReadsPart DEF Sums!Child, Sums!Killed, Sums!Thread, Sums!EndsAs, SumsInv
<1>2. SumTypes'
  <2>1. worker \in [Sums!Index -> WorkerState] /\ result \in [Sums!Index -> Nat]
    BY DEF SumsInv, SumTypes
  <2>2. worker' \in [Sums!Index -> WorkerState]
    BY <1>1, <2>1 DEF WorkerState
  <2>3. result' \in [Sums!Index -> Nat]
    BY <1>1, <2>1, PartIs
  <2>. QED
    BY <1>1, <2>2, <2>3 DEF SumsInv, SumTypes
<1>3. /\ \A v \in Sums!Index \ {w} : worker'[v] = worker[v] /\ result'[v] = result[v]
      /\ \/ worker'[w] = "ended" /\ result'[w] = Part(w)
         \/ worker'[w] \in {"failed", "killed"} /\ result'[w] = 0
  BY <1>1 DEF SumsInv, SumTypes
<1>4. Gone' = Gone /\ Busies' = Busies /\ Out' = Out
  BY <1>1, <1>3 DEF Gone, Busies, Out
<1>5. \A v \in Sums!Index : result'[v] = IF worker'[v] \in {"ended", "gone"} THEN Part(v)' ELSE 0
  <2>1. \A v \in Sums!Index : Part(v)' = Part(v)
    BY <1>1, SameFile
  <2>. QED
    BY <1>3, <2>1 DEF SumsInv
<1>6. total' = Earned(Gone)'
  BY <1>1, <1>4, SameFile DEF SumsInv
<1>7. phase = "create" => \A v \in Sums!Index : worker'[v] \notin {"gone", "lost"} /\ (v >= i => worker'[v] = "none")
  BY <1>1, <1>3 DEF SumsInv
<1>8. phase \in {"collect", "printed"} /\ program = "thread" =>
         \A v \in Sums!Index :
            /\ v < i => worker'[v] \in {"none", "gone", "lost"}
            /\ v >= i => worker'[v] \notin {"gone", "lost"}
  BY <1>1, <1>3 DEF SumsInv
<1>9. phase \in {"collect", "printed"} /\ program = "fork" /\ Busies' # {} => i = Cardinality(Out')
  BY <1>4 DEF SumsInv
<1>10. phase = "printed" => i = MAX_PROCESSES
  BY DEF SumsInv
<1>. QED
  BY <1>1, <1>2, <1>5, <1>6, <1>7, <1>8, <1>9, <1>10 DEF SumsInv

\* One worker is collected, and its result added.
LEMMA SumsCollect ==
  ASSUME SumsInv, NEW w \in Sums!Index, Sums!Wait(w) \/ (w = i /\ Sums!Join)
  PROVE  SumsInv'
<1>1. /\ phase = "collect" /\ i < MAX_PROCESSES /\ i' = i + 1 /\ i \in Nat
      /\ worker[w] \in {"ended", "failed", "killed"}
      /\ worker' = [worker EXCEPT ![w] = IF worker[w] = "ended" THEN "gone" ELSE "lost"]
      /\ total' = total + (IF worker[w] = "killed" THEN 0 ELSE result[w]) \/ total' = total + result[w]
      /\ UNCHANGED <<program, file, result, phase>>
      /\ program = "thread" => w = i
  BY DEF Sums!Wait, Sums!Join, Sums!Joins, Sums!Over, Sums!Collected, SumsInv, SumTypes
<1>2. /\ total \in Nat /\ total = Earned(Gone) /\ Part(w) \in Nat
      /\ worker[w] = "ended" => total' = total + Part(w)
      /\ worker[w] # "ended" => total' = total
  <2>1. total \in Nat /\ total = Earned(Gone) /\ Part(w) \in Nat
    BY PartIs DEF SumsInv, SumTypes
  <2>2. result[w] = IF worker[w] = "ended" THEN Part(w) ELSE 0
    BY <1>1 DEF SumsInv
  <2>. QED
    BY <1>1, <2>1, <2>2
<1>3. SumTypes'
  <2>1. SumTypes /\ MAX_PROCESSES \in Nat
    BY IndexIs DEF SumsInv
  <2>2. i' \in 0..MAX_PROCESSES /\ total' \in Nat
    BY <1>1, <1>2, <2>1
  <2>3. worker' \in [Sums!Index -> WorkerState]
    BY <1>1, <2>1 DEF SumTypes, WorkerState
  <2>. QED
    BY <1>1, <2>1, <2>2, <2>3 DEF SumTypes
<1>4. /\ \A v \in Sums!Index \ {w} : worker'[v] = worker[v]
      /\ worker'[w] = IF worker[w] = "ended" THEN "gone" ELSE "lost"
  BY <1>1 DEF SumsInv, SumTypes
<1>5. /\ worker[w] = "ended" => Gone' = Gone \cup {w}
      /\ worker[w] # "ended" => Gone' = Gone
      /\ Out' = Out \cup {w} /\ w \in Sums!Index \ Gone /\ Gone \in SUBSET Sums!Index
      /\ w \in Busies \ Out /\ Out \in SUBSET Sums!Index
  BY <1>1, <1>4 DEF Gone, Busies, Out
<1>6. total' = Earned(Gone)'
  <2>1. Earned(Gone \cup {w}) = Earned(Gone) + Part(w)
    BY <1>5, EarnedMore
  <2>. QED
    BY <1>1, <1>2, <1>5, <2>1, SameFile
<1>7. \A v \in Sums!Index : result'[v] = IF worker'[v] \in {"ended", "gone"} THEN Part(v)' ELSE 0
  <2>1. \A v \in Sums!Index : Part(v)' = Part(v)
    BY <1>1, SameFile
  <2>. QED
    BY <1>1, <1>2, <1>4, <2>1 DEF SumsInv
<1>8. program = "fork" => i' = Cardinality(Out')
  <2>1. program = "fork" => i = Cardinality(Out)
    BY <1>1, <1>5 DEF SumsInv
  <2>2. IsFiniteSet(Out)
    BY <1>5, IndexIs, FS_Subset
  <2>3. Cardinality(Out \cup {w}) = Cardinality(Out) + 1
    BY <1>5, <2>2, FS_AddElement
  <2>. QED
    BY <1>1, <1>5, <2>1, <2>3
<1>9. program = "thread" =>
         \A v \in Sums!Index :
            /\ v < i' => worker'[v] \in {"none", "gone", "lost"}
            /\ v >= i' => worker'[v] \notin {"gone", "lost"}
  <2>. SUFFICES ASSUME program = "thread", NEW v \in Sums!Index
                PROVE  /\ v < i' => worker'[v] \in {"none", "gone", "lost"}
                       /\ v >= i' => worker'[v] \notin {"gone", "lost"}
    OBVIOUS
  <2>1. v \in Nat
    BY IndexIs
  <2>2. v < i' => v < i \/ v = w
    BY <1>1, <2>1
  <2>3. v >= i' => v >= i /\ v # w
    BY <1>1, <2>1
  <2>. QED
    BY <1>1, <1>4, <2>2, <2>3 DEF SumsInv
<1>. QED
  BY <1>1, <1>3, <1>6, <1>7, <1>8, <1>9 DEF SumsInv

\* A collecting step that finds nobody, and the end.
LEMMA SumsPass ==
  ASSUME SumsInv, Sums!WaitFails \/ Sums!JoinsUnset \/ Sums!Prints
  PROVE  SumsInv'
<1>1. /\ phase = "collect" /\ i \in 0..MAX_PROCESSES
      /\ UNCHANGED <<program, file, worker, result>>
  BY DEF Sums!WaitFails, Sums!JoinsUnset, Sums!Prints, SumsInv, SumTypes
<1>2. total' = total
  <2>1. CASE Sums!JoinsUnset
    <3>1. worker[i] = "none" /\ i \in Sums!Index
      BY <1>1, <2>1, IndexIs DEF Sums!JoinsUnset
    <3>2. result[i] = 0 /\ total \in Nat
      BY <3>1 DEF SumsInv, SumTypes
    <3>. QED
      BY <2>1, <3>2 DEF Sums!JoinsUnset
  <2>. QED
    BY <2>1 DEF Sums!WaitFails, Sums!Prints
<1>3. /\ i' \in 0..MAX_PROCESSES /\ phase' \in {"collect", "printed", "undefined"}
      /\ phase' = "printed" => i' = MAX_PROCESSES /\ i' = i
      /\ phase' = "collect" => i' = i + 1
  BY <1>1, IndexIs DEF Sums!WaitFails, Sums!JoinsUnset, Sums!Prints
<1>4. SumTypes'
  BY <1>1, <1>2, <1>3 DEF SumsInv, SumTypes
<1>5. Gone' = Gone /\ Busies' = Busies /\ Out' = Out
  BY <1>1 DEF Gone, Busies, Out
<1>6. total' = Earned(Gone)'
  BY <1>1, <1>2, <1>5, SameFile DEF SumsInv
<1>7. \A w \in Sums!Index : result'[w] = IF worker'[w] \in {"ended", "gone"} THEN Part(w)' ELSE 0
  <2>1. \A w \in Sums!Index : Part(w)' = Part(w)
    BY <1>1, SameFile
  <2>. QED
    BY <1>1, <2>1 DEF SumsInv
<1>8. phase' \in {"collect", "printed"} /\ program = "fork" /\ Busies # {} => i' = Cardinality(Out)
  <2>1. CASE Sums!WaitFails
    BY <2>1 DEF Sums!WaitFails, Busies
  <2>2. CASE Sums!JoinsUnset
    BY <2>2 DEF Sums!JoinsUnset
  <2>3. CASE Sums!Prints
    BY <1>1, <2>3 DEF Sums!Prints, SumsInv
  <2>. QED
    BY <2>1, <2>2, <2>3
<1>9. phase' \in {"collect", "printed"} /\ program = "thread" =>
         \A w \in Sums!Index :
            /\ w < i' => worker[w] \in {"none", "gone", "lost"}
            /\ w >= i' => worker[w] \notin {"gone", "lost"}
  <2>. SUFFICES ASSUME phase' \in {"collect", "printed"}, program = "thread", NEW w \in Sums!Index
                PROVE  /\ w < i' => worker[w] \in {"none", "gone", "lost"}
                       /\ w >= i' => worker[w] \notin {"gone", "lost"}
    OBVIOUS
  <2>1. /\ w < i => worker[w] \in {"none", "gone", "lost"}
        /\ w >= i => worker[w] \notin {"gone", "lost"}
    BY <1>1 DEF SumsInv
  <2>2. w \in Nat /\ i \in Nat /\ (i' = i \/ (i' = i + 1 /\ worker[i] = "none"))
    BY <1>1, IndexIs DEF Sums!WaitFails, Sums!JoinsUnset, Sums!Prints
  <2>3. w < i' => w < i \/ (w = i /\ i' = i + 1)
    BY <2>2
  <2>. QED
    BY <2>1, <2>2, <2>3
<1>. QED
  BY <1>1, <1>3, <1>4, <1>5, <1>6, <1>7, <1>8, <1>9 DEF SumsInv

LEMMA SumsKeep ==
  ASSUME SumsInv, Sums!Next \/ UNCHANGED <<sumVars, total, i>>
  PROVE  SumsInv'
<1>1. CASE UNCHANGED <<sumVars, total, i>>
  <2>1. UNCHANGED <<program, file, worker, result, phase, total, i>>
    BY <1>1 DEF sumVars
  <2>2. Gone' = Gone /\ Busies' = Busies /\ Out' = Out
    BY <2>1 DEF Gone, Busies, Out
  <2>. QED
    BY <2>1, <2>2, SameFile DEF SumsInv, SumTypes
<1>2. CASE Sums!Join
  <2>1. i \in Sums!Index
    BY <1>2, IndexIs DEF Sums!Join, SumsInv, SumTypes
  <2>. QED
    BY <1>2, <2>1, SumsCollect
<1>. QED
  BY <1>1, <1>2, SumsStart, SumsWork, SumsCollect, SumsPass DEF Sums!Next

LEMMA SumsAlways == SimulatorsSpec => [](family = "sums" => SumsInv)
<1>1. SimulatorsInit => (family = "sums" => SumsInv)
  BY SimulatorsBegin, SumsBegin
<1>2. (family = "sums" => SumsInv) /\ [SimulatorsNext]_allVars => (family = "sums" => SumsInv)'
  BY OneRuns, SumsKeep
<1>. QED
  BY <1>1, <1>2, PTL DEF SimulatorsSpec

\* Sums: whichever of the two programs printed it, the total is the sum of the
\* pairs of the workers that started, could open the file and were not killed,
\* each counted once, and none is left over.
THEOREM PrintedSumIsRight == SimulatorsSpec => []SumsAgree
<1>1. ASSUME SumsInv, phase = "printed" PROVE Busies = {}
  <2>1. i = MAX_PROCESSES /\ Out \in SUBSET Sums!Index
    BY <1>1 DEF SumsInv, Out
  <2>2. CASE program = "fork"
    <3>1. SUFFICES ASSUME Busies # {} PROVE FALSE
      OBVIOUS
    <3>2. Cardinality(Out) = Cardinality(Sums!Index)
      BY <1>1, <2>1, <2>2, <3>1, IndexIs DEF SumsInv
    <3>3. Out = Sums!Index
      BY <2>1, <3>2, IndexIs, FS_Subset
    <3>. QED
      BY <3>1, <3>3 DEF Out, Busies
  <2>3. CASE program = "thread"
    BY <1>1, <2>1, <2>3, IndexIs DEF SumsInv, Busies
  <2>. QED
    BY <1>1, <2>2, <2>3 DEF SumsInv, SumTypes
<1>2. ASSUME SumsInv, phase = "printed" PROVE Sums!SumsAgree
  <2>1. \A w \in Sums!Index : worker[w] \in {"none", "gone", "lost"}
    BY <1>1, <1>2 DEF SumsInv, SumTypes, Busies, WorkerState
  <2>2. Gone \in SUBSET Sums!Index /\ Gone = {w \in Sums!Index : worker[w] = "gone"}
    BY DEF Gone
  <2>3. total = Earned(Gone)
    BY <1>2 DEF SumsInv
  <2>4. Sums!MapThenSumSet(LAMBDA w : IF Len(file) < 2 * w + 2 THEN 0 ELSE 4 * w + 3, Gone)
        = Earned(Gone)
    BY <2>2, FoldIsEarned
  <2>. QED
    BY <2>1, <2>2, <2>3, <2>4, Zenon DEF Sums!SumsAgree
<1>3. (family = "sums" => SumsInv) => SumsAgree
  <2>1. phase # "printed" => Sums!SumsAgree
    BY DEF Sums!SumsAgree
  <2>. QED
    BY <1>2, <2>1 DEF SumsAgree
<1>. QED
  BY <1>3, SumsAlways, PTL

-----------------------------------------------------------------------------
(* Numbers, and functions of the subsets of a finite set.                     *)

LEMMA LeastNatural ==
  ASSUME NEW S \in SUBSET Nat, S # {}
  PROVE  \E m \in S : \A n \in S : m <= n
<1>. DEFINE R == {ss \in Nat \X Nat : ss[1] < ss[2]}
<1>1. IsWellFoundedOn(R, Nat)
  BY NatLessThanWellFounded DEF OpToRel
<1>2. PICK m \in S : \A n \in S : ~(<<n, m>> \in R)
  <2>. HIDE DEF R
  <2>. QED
    BY <1>1, WFMin
<1>3. \A n \in S : ~(n < m)
  BY <1>2
<1>. QED
  BY <1>3

\* A set with 0 and with the successor of each of its elements below n has all
\* numbers up to n.
LEMMA Climb ==
  ASSUME NEW n \in Nat, NEW S, 0 \in S, \A k \in 0..n - 1 : k \in S => k + 1 \in S
  PROVE  \A k \in 0..n : k \in S
<1>. DEFINE T == {k \in 0..n : k \notin S}
<1>1. SUFFICES ASSUME T # {} PROVE FALSE
  OBVIOUS
<1>2. PICK m \in T : \A k \in T : m <= k
  <2>1. T \in SUBSET Nat
    OBVIOUS
  <2>. HIDE DEF T
  <2>. QED
    BY <1>1, <2>1, LeastNatural
<1>3. m # 0 /\ m - 1 \in 0..n - 1 /\ m - 1 \notin T /\ (m - 1) + 1 = m
  BY <1>2
<1>. QED
  BY <1>2, <1>3

LEMMA UpToIs ==
  ASSUME NEW n \in Nat
  PROVE  IsFiniteSet(1..n) /\ Cardinality(1..n) = n
BY FS_Interval

\* One element more, twice as many subsets.
LEMMA TwiceAsMany ==
  ASSUME NEW K, IsFiniteSet(K), NEW x, x \notin K
  PROVE  Cardinality(SUBSET (K \cup {x})) = 2 * Cardinality(SUBSET K)
<1>1. PICK S, Q : S = SUBSET K /\ Q = {s \cup {x} : s \in S}
  OBVIOUS
<1>2. SUBSET (K \cup {x}) = S \cup Q
  <2>1. ASSUME NEW t \in SUBSET (K \cup {x}) PROVE t \in S \cup Q
    <3>1. CASE x \notin t
      BY <1>1, <3>1
    <3>2. CASE x \in t
      <4>1. PICK s : s = t \ {x}
        OBVIOUS
      <4>2. s \in S /\ t = s \cup {x}
        BY <1>1, <3>2, <4>1
      <4>. QED
        BY <1>1, <4>2
    <3>. QED
      BY <3>1, <3>2
  <2>2. \A s \in S \cup Q : s \in SUBSET (K \cup {x})
    BY <1>1
  <2>. QED
    BY <2>1, <2>2
<1>3. \A s \in S : x \notin s
  BY <1>1
<1>4. ExistsBijection(S, Q)
  <2>1. PICK f : f = [s \in S |-> s \cup {x}]
    OBVIOUS
  <2>2. f \in [S -> Q] /\ \A q \in Q : \E s \in S : f[s] = q
    BY <1>1, <2>1
  <2>3. ASSUME NEW s \in S, NEW t \in S, f[s] = f[t] PROVE s = t
    <3>1. s \cup {x} = t \cup {x}
      BY <2>1, <2>3
    <3>2. x \notin s /\ x \notin t
      BY <1>3
    <3>3. \A y : y \in s <=> y \in t
      BY <3>1, <3>2
    <3>. QED
      BY <3>3, Zenon
  <2>4. \A s, t \in S : f[s] = f[t] => s = t
    BY <2>3
  <2>5. f \in Bijection(S, Q)
    BY <2>2, <2>4 DEF Bijection, Injection, IsInjective, Surjection
  <2>. QED
    BY <2>5 DEF ExistsBijection
<1>5. IsFiniteSet(S)
  BY <1>1, FS_SUBSET
<1>6. IsFiniteSet(Q) /\ Cardinality(Q) = Cardinality(S)
  BY <1>4, <1>5, FS_Bijection
<1>7. S \cap Q = {}
  BY <1>1, <1>3
<1>8. PICK U, V : U = S \cup Q /\ V = S \cap Q
  OBVIOUS
<1>9. Cardinality(U) = Cardinality(S) + Cardinality(Q) - Cardinality(V)
  BY <1>5, <1>6, <1>8, FS_Union
<1>10. Cardinality(V) = 0 /\ Cardinality(S) \in Nat
  BY <1>5, <1>7, <1>8, FS_EmptySet, FS_CardinalityType
<1>11. Cardinality(U) = 2 * Cardinality(S)
  BY <1>6, <1>9, <1>10
<1>. QED
  BY <1>1, <1>2, <1>8, <1>11, Zenon

\* The powers of two, as the numbers of subsets.
LEMMA Powers ==
  /\ 2^0 = 1
  /\ \A k \in Nat : 2^k \in Nat \ {0} /\ 2^(k + 1) = 2 * 2^k
  /\ \A k, n \in Nat : k <= n => 2^k <= 2^n
<1>. DEFINE Two(k) == 2^k
<1>1. ASSUME NEW k \in Nat
      PROVE  /\ IsFiniteSet(SUBSET (1..k)) /\ Cardinality(SUBSET (1..k)) = Two(k)
             /\ Two(k) \in Nat
  <2>1. IsFiniteSet(1..k) /\ Cardinality(1..k) = k
    BY UpToIs
  <2>2. IsFiniteSet(SUBSET (1..k)) /\ Cardinality(SUBSET (1..k)) = 2^k
    BY <2>1, FS_SUBSET
  <2>. QED
    BY <2>2, FS_CardinalityType
<1>2. Two(0) = 1
  OBVIOUS
<1>3. 2^0 = Two(0) /\ \A k : 2^k = Two(k)
  OBVIOUS
<1>. HIDE DEF Two
<1>4. ASSUME NEW k \in Nat, NEW n \in Nat, k <= n PROVE Two(k) <= Two(n)
  <2>1. PICK S, T : S = SUBSET (1..k) /\ T = SUBSET (1..n)
    OBVIOUS
  <2>2. S \in SUBSET T
    <3>1. \A j \in 1..k : j \in 1..n
      BY <1>4
    <3>. QED
      BY <2>1, <3>1
  <2>3. IsFiniteSet(T) /\ Cardinality(S) = Two(k) /\ Cardinality(T) = Two(n)
    BY <1>1, <2>1
  <2>4. Cardinality(S) <= Cardinality(T)
    BY <2>2, <2>3, FS_Subset
  <2>. QED
    BY <2>3, <2>4
<1>5. ASSUME NEW k \in Nat PROVE Two(k + 1) = 2 * Two(k)
  <2>1. PICK K, m : K = 1..k /\ m = k + 1
    OBVIOUS
  <2>2. m \in Nat /\ m \notin K /\ K \cup {m} = 1..m
    BY <2>1
  <2>3. IsFiniteSet(K) /\ Cardinality(SUBSET K) = Two(k)
    BY <1>1, <2>1, UpToIs
  <2>4. Cardinality(SUBSET (K \cup {m})) = 2 * Cardinality(SUBSET K)
    BY <2>2, <2>3, TwiceAsMany
  <2>5. Cardinality(SUBSET (1..m)) = Two(m)
    BY <1>1, <2>2
  <2>. QED
    BY <2>1, <2>2, <2>3, <2>4, <2>5
<1>6. \A k \in Nat : Two(k) # 0
  <2>1. ASSUME NEW k \in Nat PROVE Two(k) # 0
    <3>1. Two(0) <= Two(k)
      BY <1>4
    <3>. QED
      BY <1>1, <1>2, <3>1
  <2>. QED
    BY <2>1
<1>7. /\ Two(0) = 1
      /\ \A k \in Nat : Two(k) \in Nat \ {0} /\ Two(k + 1) = 2 * Two(k)
      /\ \A k, n \in Nat : k <= n => Two(k) <= Two(n)
  BY <1>1, <1>2, <1>4, <1>5, <1>6
<1>. QED
  BY <1>7, Zenon DEF Two

\* Two functions of the subsets of a finite set that agree whenever they agree
\* on one element less, agree.
StepAlike(g, h, S) ==
    /\ g[{}] = h[{}]
    /\ \A s \in SUBSET S :
          s # {} /\ g[s \ {Picked(s)}] = h[s \ {Picked(s)}] => g[s] = h[s]

LEMMA SameOnSets ==
  ASSUME NEW S, IsFiniteSet(S), NEW g, NEW h, StepAlike(g, h, S)
  PROVE  \A s \in SUBSET S : g[s] = h[s]
<1>. DEFINE Wrong == {s \in SUBSET S : g[s] # h[s]}
<1>1. SUFFICES ASSUME Wrong # {} PROVE FALSE
  OBVIOUS
<1>2. PICK R : R = StrictSubsetOrdering(S)
  OBVIOUS
<1>3. IsWellFoundedOn(R, SUBSET S)
  BY <1>2, FS_StrictSubsetOrderingWellFounded, FS_FiniteSubsetsOfFinite
<1>4. PICK s \in Wrong : \A t \in Wrong : ~(<<t, s>> \in R)
  <2>1. Wrong \subseteq SUBSET S
    OBVIOUS
  <2>. HIDE DEF Wrong
  <2>. QED
    BY <1>1, <1>3, <2>1, WFMin
<1>5. s \in SUBSET S /\ g[s] # h[s] /\ s # {}
  BY DEF StepAlike
<1>6. PICK t : t = s \ {Picked(s)}
  OBVIOUS
<1>7. Picked(s) \in s
  BY <1>5 DEF Picked
<1>8. t \in SUBSET S /\ t # s /\ t \subseteq s
  BY <1>5, <1>6, <1>7
<1>9. t \notin Wrong
  BY <1>2, <1>4, <1>5, <1>8 DEF StrictSubsetOrdering
<1>. QED
  BY <1>5, <1>6, <1>8, <1>9 DEF StepAlike

\* The sum of f over T, as a diagram with a column for each element.
Heap(f, T, M) == {cell \in T \X (1..M) : cell[2] <= f[cell[1]]}
Total(f, T, M) == Cardinality(Heap(f, T, M))

LEMMA TotalMore ==
  ASSUME NEW S, IsFiniteSet(S), NEW M \in Nat, NEW f \in [S -> Nat],
         \A s \in S : f[s] <= M, NEW T \in SUBSET S
  PROVE  /\ Total(f, T, M) \in Nat
         /\ \A w \in S \ T : Total(f, T \cup {w}, M) = Total(f, T, M) + f[w]
<1>1. IsFiniteSet(1..M)
  BY UpToIs
<1>2. IsFiniteSet(Heap(f, T, M))
  <2>1. PICK K : K = T \X (1..M)
    OBVIOUS
  <2>2. IsFiniteSet(K)
    BY <1>1, <2>1, FS_Subset, FS_Product
  <2>3. Heap(f, T, M) \in SUBSET K
    BY <2>1 DEF Heap
  <2>. QED
    BY <2>2, <2>3, FS_Subset
<1>3. ASSUME NEW w \in S \ T PROVE Total(f, T \cup {w}, M) = Total(f, T, M) + f[w]
  <2>1. PICK column, x : column = {w} \X (1..x) /\ x = f[w]
    OBVIOUS
  <2>2. x \in Nat /\ x \in Int /\ x <= M
    BY <2>1
  <2>3. IsFiniteSet(column) /\ Cardinality(column) = x
    <3>1. IsFiniteSet(1..x) /\ Cardinality(1..x) = x
      BY <2>2, UpToIs
    <3>2. IsFiniteSet({w}) /\ Cardinality({w}) = 1
      BY FS_Singleton
    <3>3. IsFiniteSet(column) /\ Cardinality(column) = Cardinality({w}) * Cardinality(1..x)
      BY <2>1, <3>1, <3>2, FS_Product
    <3>. QED
      BY <2>2, <3>1, <3>2, <3>3
  <2>4. PICK H : H = Heap(f, T, M)
    OBVIOUS
  <2>5. Heap(f, T \cup {w}, M) = H \cup column
    <3>1. \A k \in 1..M : k <= f[w] <=> k \in 1..x
      BY <2>1, <2>2
    <3>2. \A k \in 1..x : k \in 1..M
      BY <2>2
    <3>. QED
      BY <2>1, <2>4, <3>1, <3>2 DEF Heap
  <2>6. PICK U, V : U = H \cup column /\ V = H \cap column
    OBVIOUS
  <2>7. V = {}
    BY <2>1, <2>4, <2>6 DEF Heap
  <2>8. Cardinality(U) = Cardinality(H) + Cardinality(column) - Cardinality(V)
    BY <1>2, <2>3, <2>4, <2>6, FS_Union
  <2>9. Cardinality(V) = 0 /\ Cardinality(H) \in Nat
    BY <1>2, <2>4, <2>7, FS_EmptySet, FS_CardinalityType
  <2>10. Cardinality(U) = Cardinality(H) + x
    BY <2>2, <2>3, <2>8, <2>9
  <2>. QED
    BY <2>1, <2>4, <2>5, <2>6, <2>10, Zenon DEF Total
<1>. QED
  BY <1>2, <1>3, FS_CardinalityType DEF Total

LEMMA TotalOfNone == \A f, M : Total(f, {}, M) = 0
<1>1. \A f, M : Heap(f, {}, M) = {}
  BY DEF Heap
<1>. QED
  BY <1>1, FS_EmptySet DEF Total

\* A fold that adds up f over S comes to that sum, in whatever order.
SumsUp(g, f, S) ==
    g = [s \in SUBSET S |-> IF s = {} THEN 0 ELSE f[Picked(s)] + g[s \ {Picked(s)}]]

LEMMA FoldIsTotal ==
  ASSUME NEW S, IsFiniteSet(S), NEW M \in Nat, NEW f \in [S -> Nat],
         \A s \in S : f[s] <= M
  PROVE  (CHOOSE g : SumsUp(g, f, S))[S] = Total(f, S, M)
<1>1. PICK h : h = [s \in SUBSET S |-> Total(f, s, M)]
  OBVIOUS
<1>2. ASSUME NEW s \in SUBSET S
      PROVE  h[s] = IF s = {} THEN 0 ELSE f[Picked(s)] + h[s \ {Picked(s)}]
  <2>1. CASE s = {}
    BY <1>1, <2>1, TotalOfNone
  <2>2. CASE s # {}
    <3>1. PICK w : w = Picked(s)
      OBVIOUS
    <3>2. w \in s
      BY <2>2, <3>1 DEF Picked
    <3>3. PICK t : t = s \ {w}
      OBVIOUS
    <3>4. t \in SUBSET S /\ w \in S \ t /\ s = t \cup {w}
      BY <3>2, <3>3
    <3>5. Total(f, s, M) = Total(f, t, M) + f[w] /\ Total(f, t, M) \in Nat
      BY <3>4, TotalMore
    <3>6. h[s] = Total(f, s, M) /\ h[t] = Total(f, t, M) /\ f[w] \in Nat
      BY <1>1, <3>4
    <3>. QED
      BY <2>2, <3>1, <3>3, <3>5, <3>6
  <2>. QED
    BY <2>1, <2>2
<1>3. SumsUp(h, f, S)
  <2>1. h = [s \in SUBSET S |-> IF s = {} THEN 0 ELSE f[Picked(s)] + h[s \ {Picked(s)}]]
    BY <1>1, <1>2
  <2>. QED
    BY <2>1 DEF SumsUp
<1>4. PICK g : g = CHOOSE x : SumsUp(x, f, S)
  OBVIOUS
<1>5. SumsUp(g, f, S)
  BY <1>3, <1>4, Zenon
<1>6. \A s \in SUBSET S : g[s] = IF s = {} THEN 0 ELSE f[Picked(s)] + g[s \ {Picked(s)}]
  BY <1>5, Zenon DEF SumsUp
<1>7. g[{}] = h[{}]
  BY <1>2, <1>6
<1>8. \A s \in SUBSET S : g[s] = h[s]
  <2>1. \A s \in SUBSET S : s # {} /\ g[s \ {Picked(s)}] = h[s \ {Picked(s)}] => g[s] = h[s]
    BY <1>2, <1>6
  <2>2. StepAlike(g, h, S)
    BY <1>7, <2>1 DEF StepAlike
  <2>. QED
    BY <2>2, SameOnSets
<1>. QED
  BY <1>1, <1>4, <1>8

-----------------------------------------------------------------------------
(* The circuits of Digital_Logic.                                             *)

Bits == {0, 1}
Weights(bits) == [k \in Circuits!Column |-> bits[k] * 2^k]

\* The number that the first k bits stand for.
Upto(bits, k) == Total(Weights(bits), 0..k - 1, 2^Width)

LEMMA ColumnIs ==
  /\ Circuits!Column = 0..Width - 1 /\ Width \in Nat /\ Width # 0 /\ Votes \in Nat
  /\ IsFiniteSet(Circuits!Column) /\ Circuits!Bit = Bits
<1>1. Width \in Nat /\ Width # 0 /\ Votes \in Nat
  BY WidthAssumption
<1>2. IsFiniteSet(0..Width - 1)
  <2>1. Width - 1 \in Int
    BY <1>1
  <2>. QED
    BY <2>1, FS_Interval
<1>. QED
  BY <1>1, <1>2 DEF Circuits!Column, Circuits!Bit, Bits

LEMMA WeightIs ==
  ASSUME NEW bits \in [Circuits!Column -> Bits]
  PROVE  /\ Weights(bits) \in [Circuits!Column -> Nat]
         /\ \A k \in Circuits!Column :
               Weights(bits)[k] = bits[k] * 2^k /\ Weights(bits)[k] <= 2^Width
<1>1. ASSUME NEW k \in Circuits!Column
      PROVE  bits[k] * 2^k \in Nat /\ bits[k] * 2^k <= 2^Width
  <2>1. k \in Nat /\ k <= Width /\ Width \in Nat
    BY ColumnIs
  <2>2. PICK x, y : x = 2^k /\ y = 2^Width
    OBVIOUS
  <2>3. x \in Nat /\ y \in Nat /\ x <= y
    BY <2>1, <2>2, Powers, Zenon
  <2>4. bits[k] = 0 \/ bits[k] = 1
    BY DEF Bits
  <2>5. bits[k] * x \in Nat /\ bits[k] * x <= y
    BY <2>3, <2>4
  <2>. QED
    BY <2>2, <2>5
<1>. QED
  BY <1>1, Zenon DEF Weights

LEMMA UptoMore ==
  ASSUME NEW bits \in [Circuits!Column -> Bits]
  PROVE  /\ Upto(bits, 0) = 0
         /\ \A k \in Circuits!Column : Upto(bits, k + 1) = Upto(bits, k) + bits[k] * 2^k
         /\ \A k \in 0..Width : Upto(bits, k) \in Nat
         /\ Circuits!Value(bits) = Upto(bits, Width)
<1>1. PICK f, M, S : f = Weights(bits) /\ M = 2^Width /\ S = Circuits!Column
  OBVIOUS
<1>2. IsFiniteSet(S) /\ M \in Nat /\ f \in [S -> Nat] /\ \A s \in S : f[s] <= M
  BY <1>1, ColumnIs, WeightIs, Powers, Zenon
<1>3. Upto(bits, 0) = 0
  <2>1. 0..0 - 1 = {}
    OBVIOUS
  <2>. QED
    BY <2>1, TotalOfNone DEF Upto
<1>4. ASSUME NEW k \in Circuits!Column PROVE Upto(bits, k + 1) = Upto(bits, k) + bits[k] * 2^k
  <2>1. k \in 0..Width - 1 /\ Width \in Nat
    BY ColumnIs
  <2>2. PICK T : T = 0..k - 1
    OBVIOUS
  <2>3. T \in SUBSET S /\ k \in S \ T /\ T \cup {k} = 0..(k + 1) - 1
    BY <1>1, <2>1, <2>2, ColumnIs
  <2>4. Total(f, T \cup {k}, M) = Total(f, T, M) + f[k]
    BY <1>2, <2>3, TotalMore
  <2>5. f[k] = bits[k] * 2^k
    BY <1>1, WeightIs
  <2>. QED
    BY <1>1, <2>2, <2>3, <2>4, <2>5, Zenon DEF Upto
<1>5. ASSUME NEW k \in 0..Width PROVE Upto(bits, k) \in Nat
  <2>1. PICK T : T = 0..k - 1
    OBVIOUS
  <2>2. T \in SUBSET S
    BY <1>1, <2>1, ColumnIs
  <2>3. Total(f, T, M) \in Nat
    BY <1>2, <2>2, TotalMore
  <2>. QED
    BY <1>1, <2>1, <2>3, Zenon DEF Upto
<1>6. Circuits!Value(bits) = (CHOOSE g : SumsUp(g, f, S))[S]
  BY <1>1, Zenon DEF Circuits!Value, Circuits!FoldFunctionOnSet, Circuits!MapThenFoldSet,
    SumsUp, Picked, Weights
<1>7. (CHOOSE g : SumsUp(g, f, S))[S] = Total(f, S, M)
  BY <1>2, FoldIsTotal
<1>8. Total(f, S, M) = Upto(bits, Width)
  BY <1>1, ColumnIs, Zenon DEF Upto
<1>. QED
  BY <1>3, <1>4, <1>5, <1>6, <1>7, <1>8

LEMMA UptoLess ==
  ASSUME NEW bits \in [Circuits!Column -> Bits]
  PROVE  \A k \in 0..Width : Upto(bits, k) < 2^k
<1>. DEFINE Small == {k \in 0..Width : Upto(bits, k) < 2^k}
<1>1. 0 \in Small
  <2>1. 0 \in 0..Width /\ 2^0 = 1 /\ Upto(bits, 0) = 0
    BY ColumnIs, UptoMore
  <2>. QED
    BY <2>1
<1>2. ASSUME NEW k \in 0..Width - 1, k \in Small PROVE k + 1 \in Small
  <2>1. k \in Circuits!Column /\ k \in Nat /\ k + 1 \in 0..Width /\ k \in 0..Width
    BY ColumnIs
  <2>2. PICK x, y, u, v : x = 2^k /\ y = 2^(k + 1) /\ u = Upto(bits, k) /\ v = Upto(bits, k + 1)
    OBVIOUS
  <2>3. x \in Nat /\ y = 2 * x
    BY <2>1, <2>2, Powers, Zenon
  <2>4. u \in Nat /\ v \in Nat /\ v = u + bits[k] * x
    BY <2>1, <2>2, UptoMore, Zenon
  <2>5. u < x
    BY <1>2, <2>2
  <2>6. bits[k] = 0 \/ bits[k] = 1
    BY <2>1 DEF Bits
  <2>7. v < y
    BY <2>3, <2>4, <2>5, <2>6
  <2>. QED
    BY <2>1, <2>2, <2>7
<1>3. Width \in Nat
  BY ColumnIs
<1>4. \A k \in 0..Width : k \in Small
  <2>. HIDE DEF Small
  <2>. QED
    BY <1>1, <1>2, <1>3, Climb
<1>. QED
  BY <1>4

LEMMA FullAdder ==
  ASSUME NEW a \in Bits, NEW b \in Bits, NEW cin \in Bits
  PROVE  /\ Circuits!full_adder(a, b, cin).sum \in Bits
         /\ Circuits!full_adder(a, b, cin).cout \in Bits
         /\ Circuits!full_adder(a, b, cin).sum + 2 * Circuits!full_adder(a, b, cin).cout
            = a + b + cin
<1>1. (a = 0 \/ a = 1) /\ (b = 0 \/ b = 1) /\ (cin = 0 \/ cin = 1)
  BY DEF Bits
<1>. QED
  BY <1>1 DEF Bits, Circuits!full_adder, Circuits!half_adder, Circuits!xor, Circuits!and, Circuits!or

\* The wires: a function that goes on from one column to the next.
Wires(w, m) ==
    w = [k \in 0..m |-> IF k = 0 THEN Cin
                        ELSE Circuits!full_adder(A[k - 1], B[k - 1], w[k - 1]).cout]

LEMMA WiresGoOn ==
  ASSUME NEW m \in Nat
  PROVE  \E w : Wires(w, m)
<1>. DEFINE I == {k \in 0..m : \E w : Wires(w, k)}
<1>1. 0 \in I
  <2>1. PICK w : w = [k \in 0..0 |-> Cin]
    OBVIOUS
  <2>2. w = [k \in 0..0 |-> IF k = 0 THEN Cin
                            ELSE Circuits!full_adder(A[k - 1], B[k - 1], w[k - 1]).cout]
    BY <2>1
  <2>3. Wires(w, 0)
    BY <2>2, Zenon DEF Wires
  <2>. QED
    BY <2>3
<1>2. ASSUME NEW p \in 0..m - 1, p \in I PROVE p + 1 \in I
  <2>1. PICK w : Wires(w, p)
    BY <1>2
  <2>2. PICK q : q = p + 1
    OBVIOUS
  <2>3. \A k \in 0..p : w[k] = IF k = 0 THEN Cin
                               ELSE Circuits!full_adder(A[k - 1], B[k - 1], w[k - 1]).cout
    BY <2>1, Zenon DEF Wires
  <2>4. PICK x : x = [k \in 0..q |-> IF k = q THEN Circuits!full_adder(A[p], B[p], w[p]).cout
                                     ELSE w[k]]
    OBVIOUS
  <2>5. (\A k \in 0..p : x[k] = w[k]) /\ x[q] = Circuits!full_adder(A[p], B[p], w[p]).cout
    BY <2>2, <2>4
  <2>6. ASSUME NEW k \in 0..q
        PROVE  x[k] = IF k = 0 THEN Cin
                      ELSE Circuits!full_adder(A[k - 1], B[k - 1], x[k - 1]).cout
    <3>1. CASE k = q
      <4>1. k # 0 /\ k - 1 = p /\ p \in 0..p
        BY <2>2, <3>1
      <4>. QED
        BY <2>5, <3>1, <4>1
    <3>2. CASE k # q
      <4>1. k \in 0..p /\ (k # 0 => k - 1 \in 0..p)
        BY <2>2, <3>2
      <4>. QED
        BY <2>3, <2>5, <4>1
    <3>. QED
      BY <3>1, <3>2
  <2>7. x = [k \in 0..q |-> IF k = 0 THEN Cin
                            ELSE Circuits!full_adder(A[k - 1], B[k - 1], x[k - 1]).cout]
    BY <2>4, <2>6
  <2>8. Wires(x, q)
    BY <2>7, Zenon DEF Wires
  <2>. QED
    BY <2>2, <2>8
<1>3. \A k \in 0..m : k \in I
  <2>. HIDE DEF I
  <2>. QED
    BY <1>1, <1>2, Climb
<1>. QED
  BY <1>3

CircuitsInv ==
    /\ A \in [Circuits!Column -> Bits] /\ B \in [Circuits!Column -> Bits] /\ Cin \in Bits
    /\ ballot \in [Circuits!Voter -> Bits]

\* Column by column the chain keeps the sum of what it has read.
LEMMA ChainAdds ==
  ASSUME CircuitsInv
  PROVE  /\ Circuits!Sum \in [Circuits!Column -> Bits]
         /\ \A k \in 0..Width :
               /\ Circuits!c[k] \in Bits
               /\ Upto(Circuits!Sum, k) + Circuits!c[k] * 2^k = Upto(A, k) + Upto(B, k) + Cin
         /\ \A k \in Circuits!Column :
               Circuits!Sum[k] + 2 * Circuits!c[k + 1] = A[k] + B[k] + Circuits!c[k]
<1>1. PICK c : c = Circuits!c
  OBVIOUS
<1>2. c = CHOOSE w : Wires(w, Width)
  BY <1>1, Zenon DEF Circuits!c, Wires
<1>3. Wires(c, Width)
  BY <1>2, ColumnIs, WiresGoOn, Zenon
<1>4. \A k \in 0..Width : c[k] = IF k = 0 THEN Cin
                                 ELSE Circuits!full_adder(A[k - 1], B[k - 1], c[k - 1]).cout
  BY <1>3, Zenon DEF Wires
<1>5. \A k \in Circuits!Column :
         /\ k \in 0..Width - 1 /\ k \in 0..Width /\ k + 1 \in 0..Width /\ k + 1 # 0
         /\ (k + 1) - 1 = k /\ k \in Nat
  BY ColumnIs
<1>6. \A k \in Circuits!Column : c[k + 1] = Circuits!full_adder(A[k], B[k], c[k]).cout
  BY <1>4, <1>5
<1>7. c[0] = Cin
  BY <1>4, ColumnIs
<1>8. \A k \in 0..Width : c[k] \in Bits
  <2>. DEFINE I == {k \in 0..Width : c[k] \in Bits}
  <2>1. 0 \in I
    BY <1>7, ColumnIs DEF CircuitsInv
  <2>2. ASSUME NEW k \in 0..Width - 1, k \in I PROVE k + 1 \in I
    <3>1. k \in Circuits!Column /\ c[k] \in Bits
      BY <2>2, ColumnIs
    <3>2. A[k] \in Bits /\ B[k] \in Bits
      BY <3>1 DEF CircuitsInv
    <3>3. c[k + 1] \in Bits
      BY <1>6, <3>1, <3>2, FullAdder, Zenon
    <3>. QED
      BY <1>5, <3>1, <3>3
  <2>3. Width \in Nat
    BY ColumnIs
  <2>4. \A k \in 0..Width : k \in I
    <3>. HIDE DEF I
    <3>. QED
      BY <2>1, <2>2, <2>3, Climb
  <2>. QED
    BY <2>4
<1>9. PICK s : s = Circuits!Sum
  OBVIOUS
<1>10. \A k \in Circuits!Column : s[k] = Circuits!full_adder(A[k], B[k], c[k]).sum
  BY <1>1, <1>9, Zenon DEF Circuits!Sum
<1>11. ASSUME NEW k \in Circuits!Column
       PROVE  s[k] \in Bits /\ s[k] + 2 * c[k + 1] = A[k] + B[k] + c[k]
  <2>1. A[k] \in Bits /\ B[k] \in Bits /\ c[k] \in Bits
    BY <1>5, <1>8 DEF CircuitsInv
  <2>. QED
    BY <1>6, <1>10, <2>1, FullAdder
<1>12. s \in [Circuits!Column -> Bits]
  <2>1. s = [k \in Circuits!Column |-> s[k]]
    BY <1>9, Zenon DEF Circuits!Sum
  <2>. QED
    BY <1>11, <2>1
<1>13. \A k \in 0..Width : Upto(s, k) + c[k] * 2^k = Upto(A, k) + Upto(B, k) + Cin
  <2>. DEFINE I == {k \in 0..Width : Upto(s, k) + c[k] * 2^k = Upto(A, k) + Upto(B, k) + Cin}
  <2>1. 0 \in I
    <3>1. Upto(s, 0) = 0 /\ Upto(A, 0) = 0 /\ Upto(B, 0) = 0
      BY <1>12, UptoMore DEF CircuitsInv
    <3>2. 2^0 = 1 /\ 0 \in 0..Width
      BY ColumnIs
    <3>3. Cin = 0 \/ Cin = 1
      BY DEF CircuitsInv, Bits
    <3>. QED
      BY <1>7, <3>1, <3>2, <3>3
  <2>2. ASSUME NEW k \in 0..Width - 1, k \in I PROVE k + 1 \in I
    <3>1. k \in Circuits!Column /\ k \in 0..Width
      BY ColumnIs
    <3>2. PICK x, y : x = 2^k /\ y = 2^(k + 1)
      OBVIOUS
    <3>3. x \in Nat /\ y = 2 * x
      BY <1>5, <3>1, <3>2, Powers, Zenon
    <3>4. PICK s0, s1, a0, a1, b0, b1 :
             /\ s0 = Upto(s, k) /\ a0 = Upto(A, k) /\ b0 = Upto(B, k)
             /\ s1 = Upto(s, k + 1) /\ a1 = Upto(A, k + 1) /\ b1 = Upto(B, k + 1)
      OBVIOUS
    <3>5. s0 \in Nat /\ a0 \in Nat /\ b0 \in Nat
      BY <1>12, <3>1, <3>4, UptoMore, Zenon DEF CircuitsInv
    <3>6. s1 = s0 + s[k] * x /\ a1 = a0 + A[k] * x /\ b1 = b0 + B[k] * x
      BY <1>12, <3>1, <3>2, <3>4, UptoMore, Zenon DEF CircuitsInv
    <3>7. PICK sb, ab, bb, cb, db : sb = s[k] /\ ab = A[k] /\ bb = B[k] /\ cb = c[k] /\ db = c[k + 1]
      OBVIOUS
    <3>8. sb + 2 * db = ab + bb + cb
      BY <1>11, <3>1, <3>7
    <3>9. /\ (sb = 0 \/ sb = 1) /\ (ab = 0 \/ ab = 1) /\ (bb = 0 \/ bb = 1)
          /\ (cb = 0 \/ cb = 1) /\ (db = 0 \/ db = 1) /\ (Cin = 0 \/ Cin = 1)
      <4>1. sb \in Bits /\ ab \in Bits /\ bb \in Bits /\ cb \in Bits /\ db \in Bits /\ Cin \in Bits
        BY <1>5, <1>8, <1>11, <3>1, <3>7 DEF CircuitsInv
      <4>. QED
        BY <4>1 DEF Bits
    <3>10. s0 + cb * x = a0 + b0 + Cin
      BY <2>2, <3>2, <3>4, <3>7
    <3>11. s1 = s0 + sb * x /\ a1 = a0 + ab * x /\ b1 = b0 + bb * x
      BY <3>6, <3>7
    <3>12. s1 + db * y = a1 + b1 + Cin
      BY <3>3, <3>5, <3>8, <3>9, <3>10, <3>11
    <3>. QED
      BY <1>5, <3>1, <3>2, <3>4, <3>7, <3>12
  <2>3. Width \in Nat
    BY ColumnIs
  <2>4. \A k \in 0..Width : k \in I
    <3>. HIDE DEF I
    <3>. QED
      BY <2>1, <2>2, <2>3, Climb
  <2>. QED
    BY <2>4
<1>. QED
  BY <1>1, <1>8, <1>9, <1>11, <1>12, <1>13, Zenon

\* With the carry out the sum is that of the inputs; the carries into and out
\* of the last column differ just if the signed sum does not fit.
LEMMA AdderIsRight ==
  ASSUME CircuitsInv
  PROVE  LET signed == Circuits!Signed(A) + Circuits!Signed(B) + Cin
         IN  /\ Circuits!Value(Circuits!Sum) + Circuits!Cout * 2^Width
                = Circuits!Value(A) + Circuits!Value(B) + Cin
             /\ Circuits!Overflow = 1 <=> signed \notin -(2^(Width - 1))..2^(Width - 1) - 1
             /\ Circuits!Overflow = 0 => Circuits!Signed(Circuits!Sum) = signed
<1>1. PICK k : k = Width - 1
  OBVIOUS
<1>2. /\ k \in Nat /\ k + 1 = Width /\ k \in 0..Width /\ Width \in 0..Width
      /\ k \in Circuits!Column
  BY <1>1, ColumnIs
<1>3. PICK P, Q : P = 2^k /\ Q = 2^Width
  OBVIOUS
<1>4. P \in Nat /\ Q = 2 * P
  BY <1>2, <1>3, Powers, Zenon
<1>5. PICK s, c : s = Circuits!Sum /\ c = Circuits!c
  OBVIOUS
<1>6. /\ s \in [Circuits!Column -> Bits] /\ A \in [Circuits!Column -> Bits]
      /\ B \in [Circuits!Column -> Bits]
  BY <1>5, ChainAdds DEF CircuitsInv
<1>7. PICK s0, s1, a0, a1, b0, b1 :
         /\ s0 = Upto(s, k) /\ a0 = Upto(A, k) /\ b0 = Upto(B, k)
         /\ s1 = Circuits!Value(s) /\ a1 = Circuits!Value(A) /\ b1 = Circuits!Value(B)
  OBVIOUS
<1>8. PICK sb, ab, bb, cb, db : sb = s[k] /\ ab = A[k] /\ bb = B[k] /\ cb = c[k] /\ db = c[Width]
  OBVIOUS
<1>9. s1 = s0 + sb * P /\ a1 = a0 + ab * P /\ b1 = b0 + bb * P
  <2>1. Upto(s, k + 1) = s0 + sb * P
    BY <1>2, <1>3, <1>6, <1>7, <1>8, UptoMore, Zenon
  <2>2. Upto(A, k + 1) = a0 + ab * P
    BY <1>2, <1>3, <1>6, <1>7, <1>8, UptoMore, Zenon
  <2>3. Upto(B, k + 1) = b0 + bb * P
    BY <1>2, <1>3, <1>6, <1>7, <1>8, UptoMore, Zenon
  <2>4. s1 = Upto(s, Width) /\ a1 = Upto(A, Width) /\ b1 = Upto(B, Width)
    BY <1>6, <1>7, UptoMore, Zenon
  <2>. QED
    BY <1>2, <2>1, <2>2, <2>3, <2>4
<1>10. s0 \in Nat /\ a0 \in Nat /\ b0 \in Nat
  BY <1>2, <1>6, <1>7, UptoMore, Zenon
<1>11. s0 < P /\ a0 < P /\ b0 < P
  BY <1>2, <1>3, <1>6, <1>7, UptoLess, Zenon
<1>12. /\ (sb = 0 \/ sb = 1) /\ (ab = 0 \/ ab = 1) /\ (bb = 0 \/ bb = 1)
       /\ (cb = 0 \/ cb = 1) /\ (db = 0 \/ db = 1) /\ (Cin = 0 \/ Cin = 1)
  <2>1. sb \in Bits /\ ab \in Bits /\ bb \in Bits
    BY <1>2, <1>6, <1>8
  <2>2. cb \in Bits /\ db \in Bits
    BY <1>2, <1>5, <1>8, ChainAdds, Zenon
  <2>. QED
    BY <2>1, <2>2 DEF Bits, CircuitsInv
<1>13. s0 + cb * P = a0 + b0 + Cin
  BY <1>2, <1>3, <1>5, <1>7, <1>8, ChainAdds, Zenon
<1>14. sb + 2 * db = ab + bb + cb
  <2>1. s[k] + 2 * c[k + 1] = A[k] + B[k] + c[k]
    BY <1>2, <1>5, ChainAdds, Zenon
  <2>. QED
    BY <1>2, <1>8, <2>1
<1>15. s1 + db * Q = a1 + b1 + Cin
  BY <1>4, <1>9, <1>10, <1>12, <1>13, <1>14
<1>16. PICK signed : signed = (a1 - ab * Q) + (b1 - bb * Q) + Cin
  OBVIOUS
<1>17. PICK ov : ov = (db + cb) % 2
  OBVIOUS
<1>18. (ov = 1 <=> db # cb) /\ (ov = 0 <=> db = cb)
  BY <1>12, <1>17
<1>19. signed \in Int /\ (ov = 1 <=> ~(-P <= signed /\ signed <= P - 1))
  BY <1>4, <1>9, <1>10, <1>11, <1>12, <1>13, <1>14, <1>16, <1>18
<1>20. ov = 0 => s1 - sb * Q = signed
  BY <1>4, <1>9, <1>10, <1>12, <1>13, <1>14, <1>16, <1>18
<1>21. /\ Circuits!Signed(A) = a1 - ab * Q /\ Circuits!Signed(B) = b1 - bb * Q
       /\ Circuits!Signed(s) = s1 - sb * Q
  BY <1>1, <1>3, <1>7, <1>8, Zenon DEF Circuits!Signed
<1>22. Circuits!Overflow = ov
  BY <1>1, <1>5, <1>8, <1>17, Zenon DEF Circuits!Overflow, Circuits!xor
<1>23. Circuits!Cout = db
  BY <1>5, <1>8, Zenon DEF Circuits!Cout
<1>24. signed \in -P..P - 1 <=> (-P <= signed /\ signed <= P - 1)
  BY <1>4, <1>19
<1>25. PICK given : given = Circuits!Signed(A) + Circuits!Signed(B) + Cin
  OBVIOUS
<1>26. given = signed
  BY <1>16, <1>21, <1>25
<1>27. ov = 1 <=> given \notin -P..P - 1
  BY <1>19, <1>24, <1>26
<1>28. -P..P - 1 = -(2^(Width - 1))..2^(Width - 1) - 1
  BY <1>1, <1>3
<1>29. Circuits!Overflow = 1 <=> given \notin -(2^(Width - 1))..2^(Width - 1) - 1
  BY <1>22, <1>27, <1>28, Zenon
<1>30. Circuits!Value(Circuits!Sum) + Circuits!Cout * 2^Width
       = Circuits!Value(A) + Circuits!Value(B) + Cin
  BY <1>3, <1>5, <1>7, <1>15, <1>23
<1>31. Circuits!Overflow = 0 => Circuits!Signed(Circuits!Sum) = given
  BY <1>5, <1>20, <1>21, <1>22, <1>26
<1>. QED
  BY <1>25, <1>29, <1>30, <1>31, Zenon

\* The voter counts: a pass over the bits of S that counts those in T.
Counted(g, S, T) ==
    g = [s \in SUBSET S |-> IF s = {} THEN 0
                            ELSE IF Picked(s) \in T THEN g[s \ {Picked(s)}] + 1
                            ELSE g[s \ {Picked(s)}]]

LEMMA CountIsCardinality ==
  ASSUME NEW S, IsFiniteSet(S), NEW T
  PROVE  (CHOOSE g : Counted(g, S, T))[S] = Cardinality(S \cap T)
<1>1. PICK h : h = [s \in SUBSET S |-> Cardinality(s \cap T)]
  OBVIOUS
<1>2. ASSUME NEW s \in SUBSET S
      PROVE  h[s] = IF s = {} THEN 0
                    ELSE IF Picked(s) \in T THEN h[s \ {Picked(s)}] + 1
                    ELSE h[s \ {Picked(s)}]
  <2>1. CASE s = {}
    <3>1. s \cap T = {}
      BY <2>1
    <3>2. h[s] = Cardinality({})
      BY <1>1, <3>1
    <3>. QED
      BY <2>1, <3>2, FS_EmptySet
  <2>2. CASE s # {}
    <3>1. PICK w, t : w = Picked(s) /\ t = s \ {w}
      OBVIOUS
    <3>2. w \in s
      BY <2>2, <3>1 DEF Picked
    <3>3. t \in SUBSET S /\ h[s] = Cardinality(s \cap T) /\ h[t] = Cardinality(t \cap T)
      BY <1>1, <3>1
    <3>4. CASE w \in T
      <4>1. PICK u : u = t \cap T
        OBVIOUS
      <4>2. s \cap T = u \cup {w} /\ w \notin u /\ u \in SUBSET S
        BY <3>1, <3>2, <3>4, <4>1
      <4>3. IsFiniteSet(u)
        BY <4>2, FS_Subset
      <4>4. Cardinality(u \cup {w}) = Cardinality(u) + 1
        BY <4>2, <4>3, FS_AddElement
      <4>5. h[s] = h[t] + 1
        BY <3>3, <4>1, <4>2, <4>4
      <4>. QED
        BY <2>2, <3>1, <3>4, <4>5
    <3>5. CASE w \notin T
      <4>1. s \cap T = t \cap T
        BY <3>1, <3>5
      <4>. QED
        BY <2>2, <3>1, <3>3, <3>5, <4>1
    <3>. QED
      BY <3>4, <3>5
  <2>. QED
    BY <2>1, <2>2
<1>3. Counted(h, S, T)
  <2>1. h = [s \in SUBSET S |-> IF s = {} THEN 0
                                ELSE IF Picked(s) \in T THEN h[s \ {Picked(s)}] + 1
                                ELSE h[s \ {Picked(s)}]]
    BY <1>1, <1>2
  <2>. QED
    BY <2>1, Zenon DEF Counted
<1>4. PICK g : g = CHOOSE x : Counted(x, S, T)
  OBVIOUS
<1>5. Counted(g, S, T)
  BY <1>3, <1>4, Zenon
<1>6. \A s \in SUBSET S :
         g[s] = IF s = {} THEN 0
                ELSE IF Picked(s) \in T THEN g[s \ {Picked(s)}] + 1
                ELSE g[s \ {Picked(s)}]
  BY <1>5, Zenon DEF Counted
<1>7. g[{}] = h[{}]
  BY <1>2, <1>6
<1>8. \A s \in SUBSET S : g[s] = h[s]
  <2>1. \A s \in SUBSET S : s # {} /\ g[s \ {Picked(s)}] = h[s \ {Picked(s)}] => g[s] = h[s]
    BY <1>2, <1>6
  <2>2. StepAlike(g, h, S)
    BY <1>7, <2>1 DEF StepAlike
  <2>. QED
    BY <2>2, SameOnSets
<1>9. g[S] = Cardinality(S \cap T)
  BY <1>1, <1>8
<1>. QED
  BY <1>4, <1>9

LEMMA VoterIsRight ==
  ASSUME CircuitsInv
  PROVE  /\ Circuits!Y = "100" <=> 2 * Cardinality(Circuits!Ones) < Votes
         /\ Circuits!Y = "001" <=> 2 * Cardinality(Circuits!Ones) > Votes
<1>1. PICK S, T, R : S = Circuits!Voter /\ T = {v \in S : ballot[v] = 1} /\ R = S \ T
  OBVIOUS
<1>2. IsFiniteSet(S) /\ Cardinality(S) = Votes /\ Votes \in Nat
  <2>1. Votes \in Nat /\ Votes - 1 \in Int
    BY ColumnIs
  <2>2. IsFiniteSet(0..Votes - 1)
        /\ Cardinality(0..Votes - 1) = IF 0 > Votes - 1 THEN 0 ELSE Votes - 1 - 0 + 1
    BY <2>1, FS_Interval
  <2>. QED
    BY <1>1, <2>1, <2>2 DEF Circuits!Voter
<1>3. DOMAIN ballot = S
  BY <1>1 DEF CircuitsInv
<1>4. Circuits!count1 = (CHOOSE g : Counted(g, S, T))[S]
  <2>1. PICK g : g = CHOOSE x : Counted(x, S, T)
    OBVIOUS
  <2>2. PICK h : h = CHOOSE z : z = [s \in SUBSET S |->
                       IF s = {} THEN 0
                       ELSE IF ballot[Picked(s)] = 1 THEN z[s \ {Picked(s)}] + 1
                       ELSE z[s \ {Picked(s)}]]
    OBVIOUS
  <2>3. Circuits!count1 = h[S]
    BY <1>3, <2>2, Zenon DEF Circuits!count1, Circuits!FoldFunction,
       Circuits!FoldFunctionOnSet, Circuits!MapThenFoldSet, Picked
  <2>4. \A s \in SUBSET S : s # {} => (ballot[Picked(s)] = 1 <=> Picked(s) \in T)
    BY <1>1 DEF Picked
  <2>5. ASSUME NEW x
        PROVE  Counted(x, S, T) <=> x = [s \in SUBSET S |->
                  IF s = {} THEN 0
                  ELSE IF ballot[Picked(s)] = 1 THEN x[s \ {Picked(s)}] + 1
                  ELSE x[s \ {Picked(s)}]]
    BY <2>4 DEF Counted
  <2>6. g = h
    BY <2>1, <2>2, <2>5, Zenon
  <2>. QED
    BY <2>1, <2>3, <2>6
<1>5. Circuits!count0 = (CHOOSE g : Counted(g, S, R))[S]
  <2>1. PICK g : g = CHOOSE x : Counted(x, S, R)
    OBVIOUS
  <2>2. PICK h : h = CHOOSE z : z = [s \in SUBSET S |->
                       IF s = {} THEN 0
                       ELSE IF ballot[Picked(s)] = 1 THEN z[s \ {Picked(s)}]
                       ELSE z[s \ {Picked(s)}] + 1]
    OBVIOUS
  <2>3. Circuits!count0 = h[S]
    BY <1>3, <2>2, Zenon DEF Circuits!count0, Circuits!FoldFunction,
       Circuits!FoldFunctionOnSet, Circuits!MapThenFoldSet, Picked
  <2>4. \A s \in SUBSET S : s # {} => (ballot[Picked(s)] = 1 <=> Picked(s) \notin R)
    BY <1>1 DEF Picked
  <2>5. ASSUME NEW x
        PROVE  Counted(x, S, R) <=> x = [s \in SUBSET S |->
                  IF s = {} THEN 0
                  ELSE IF ballot[Picked(s)] = 1 THEN x[s \ {Picked(s)}]
                  ELSE x[s \ {Picked(s)}] + 1]
    BY <2>4 DEF Counted
  <2>6. g = h
    BY <2>1, <2>2, <2>5, Zenon
  <2>. QED
    BY <2>1, <2>3, <2>6
<1>6. S \cap T = T /\ S \cap R = R /\ T \in SUBSET S /\ R \in SUBSET S
  BY <1>1
<1>7. Circuits!count1 = Cardinality(T) /\ Circuits!count0 = Cardinality(R)
  BY <1>2, <1>4, <1>5, <1>6, CountIsCardinality
<1>8. IsFiniteSet(T) /\ Cardinality(T) \in Nat /\ Cardinality(R) \in Nat
  BY <1>2, <1>6, FS_Subset, FS_CardinalityType
<1>9. Cardinality(S \ T) = Cardinality(S) - Cardinality(S \cap T)
  BY <1>2, FS_Difference
<1>10. Cardinality(R) = Votes - Cardinality(T)
  BY <1>1, <1>2, <1>6, <1>9
<1>11. Circuits!Ones = T
  BY <1>1 DEF Circuits!Ones
<1>12. PICK p, q : p = Circuits!count1 /\ q = Circuits!count0
  OBVIOUS
<1>13. p \in Nat /\ q \in Nat /\ p = Cardinality(Circuits!Ones) /\ q = Votes - p
  BY <1>7, <1>8, <1>10, <1>11, <1>12
<1>14. Circuits!Y = IF q > p THEN "100" ELSE IF q = p THEN "010" ELSE "001"
  BY <1>12 DEF Circuits!Y
<1>15. Circuits!Y = "100" <=> q > p
  BY <1>14
<1>16. Circuits!Y = "001" <=> q < p
  BY <1>13, <1>14
<1>17. (q > p <=> 2 * p < Votes) /\ (q < p <=> 2 * p > Votes)
  BY <1>2, <1>13
<1>. QED
  BY <1>13, <1>15, <1>16, <1>17

LEMMA CircuitsBegin ==
  ASSUME Circuits!Init
  PROVE  CircuitsInv
BY DEF Circuits!Init, CircuitsInv, Bits

LEMMA CircuitsKeep ==
  ASSUME CircuitsInv, Circuits!Next \/ UNCHANGED circuitVars
  PROVE  CircuitsInv'
<1>1. \A b \in Bits : 1 - b \in Bits
  BY DEF Bits
<1>2. ASSUME NEW S, NEW f \in [S -> Bits], NEW k \in S PROVE Circuits!Flip(f, k) \in [S -> Bits]
  BY <1>1, <1>2 DEF Circuits!Flip
<1>3. CASE UNCHANGED circuitVars
  BY <1>3 DEF circuitVars, CircuitsInv
<1>4. CASE Circuits!Next
  <2>1. ASSUME NEW k \in Circuits!Column, A' = Circuits!Flip(A, k), UNCHANGED <<B, Cin, ballot>>
        PROVE  CircuitsInv'
    BY <1>2, <2>1 DEF CircuitsInv
  <2>2. ASSUME NEW k \in Circuits!Column, B' = Circuits!Flip(B, k), UNCHANGED <<A, Cin, ballot>>
        PROVE  CircuitsInv'
    BY <1>2, <2>2 DEF CircuitsInv
  <2>3. CASE Cin' = 1 - Cin /\ UNCHANGED <<A, B, ballot>>
    BY <1>1, <2>3 DEF CircuitsInv
  <2>4. ASSUME NEW v \in Circuits!Voter, ballot' = Circuits!Flip(ballot, v), UNCHANGED <<A, B, Cin>>
        PROVE  CircuitsInv'
    BY <1>2, <2>4 DEF CircuitsInv
  <2>. QED
    BY <1>4, <2>1, <2>2, <2>3, <2>4 DEF Circuits!Next
<1>. QED
  BY <1>3, <1>4

LEMMA CircuitsAlways == SimulatorsSpec => [](family = "circuits" => CircuitsInv)
<1>1. SimulatorsInit => (family = "circuits" => CircuitsInv)
  BY SimulatorsBegin, CircuitsBegin
<1>2. (family = "circuits" => CircuitsInv) /\ [SimulatorsNext]_allVars
      => (family = "circuits" => CircuitsInv)'
  BY OneRuns, CircuitsKeep
<1>. QED
  BY <1>1, <1>2, PTL DEF SimulatorsSpec

-----------------------------------------------------------------------------
(* The Moore machine: what its states stand for.                              *)

\* The last bits taken, counted from the end.
Back(k) == taken[Len(taken) - k]

DetectorInv ==
    /\ current_state \in 0..6
    /\ taken \in Seq(Bits) /\ Len(taken) <= 6
    /\ current_state \in {1, 3, 4, 5} => Len(taken) >= 1 /\ Back(0) = 1
    /\ current_state \in {2, 6} => Len(taken) >= 2 /\ Back(1) = 1 /\ Back(0) = 0
    /\ current_state = 3 => Len(taken) >= 3 /\ Back(2) = 1 /\ Back(1) = 0
    /\ current_state = 4 => Len(taken) >= 4 /\ Back(3) = 1 /\ Back(2) = 0 /\ Back(1) = 1
    /\ current_state = 5 =>
          Len(taken) >= 5 /\ Back(4) = 1 /\ Back(3) = 0 /\ Back(2) = 1 /\ Back(1) = 1
    /\ current_state = 6 =>
          Len(taken) = 6 /\ Back(5) = 1 /\ Back(4) = 0 /\ Back(3) = 1 /\ Back(2) = 1

LEMMA DetectorBegin ==
  ASSUME Detector!Init
  PROVE  DetectorInv
BY DEF Detector!Init, DetectorInv

LEMMA TailIs ==
  ASSUME NEW S, NEW s \in Seq(S), NEW n \in Nat, Len(s) = n, n # 0
  PROVE  /\ Tail(s) \in Seq(S) /\ Len(Tail(s)) = n - 1
         /\ \A k \in 1..n - 1 : Tail(s)[k] = s[k + 1]
OBVIOUS

LEMMA LastIs ==
  ASSUME NEW S, NEW s \in Seq(S), NEW x \in S, NEW n \in Nat, Len(s) = n
  PROVE  /\ Append(s, x) \in Seq(S) /\ Len(Append(s, x)) = n + 1 /\ Append(s, x)[n + 1] = x
         /\ \A k \in 1..n : Append(s, x)[k] = s[k]
OBVIOUS

\* One bit more, and with six before it the first of them forgotten.
LEMMA BitTaken ==
  ASSUME taken \in Seq(Bits), Len(taken) <= 6, NEW x \in Bits,
         taken' = IF Len(taken) < 6 THEN Append(taken, x) ELSE Append(Tail(taken), x)
  PROVE  /\ taken' \in Seq(Bits)
         /\ Len(taken') = IF Len(taken) < 6 THEN Len(taken) + 1 ELSE 6
         /\ Back(0)' = x
         /\ \A k \in 0..4 : k < Len(taken) => Back(k + 1)' = Back(k)
<1>1. PICK n : n = Len(taken)
  OBVIOUS
<1>2. n \in Nat /\ n <= 6
  BY <1>1
<1>3. CASE n < 6
  <2>1. taken' = Append(taken, x)
    BY <1>1, <1>3
  <2>2. taken' \in Seq(Bits) /\ Len(taken') = n + 1 /\ taken'[n + 1] = x
    BY <1>1, <2>1
  <2>3. \A j \in 1..n : taken'[j] = taken[j]
    BY <1>1, <2>1, SMTT(30)
  <2>4. \A k \in 0..4 : k < n => n - k \in 1..n /\ (n + 1) - (k + 1) = n - k
    BY <1>2
  <2>5. \A k \in 0..4 : k < n => taken'[(n + 1) - (k + 1)] = taken[n - k]
    BY <2>3, <2>4
  <2>. QED
    BY <1>1, <1>2, <1>3, <2>2, <2>5 DEF Back
<1>4. CASE n = 6
  <2>1. taken' = Append(Tail(taken), x)
    BY <1>1, <1>4
  <2>2. PICK t : t = Tail(taken)
    OBVIOUS
  <2>3. t \in Seq(Bits) /\ Len(t) = 5 /\ \A j \in 1..5 : t[j] = taken[j + 1]
    <3>1. 6 # 0 /\ 6 - 1 = 5 /\ Len(taken) = 6
      BY <1>1, <1>4
    <3>2. Len(Tail(taken)) = 6 - 1 /\ Tail(taken) \in Seq(Bits)
          /\ \A k \in 1..6 - 1 : Tail(taken)[k] = taken[k + 1]
      BY <3>1, TailIs
    <3>. QED
      BY <2>2, <3>1, <3>2
  <2>4. PICK u : u = Append(t, x)
    OBVIOUS
  <2>5. /\ u \in Seq(Bits) /\ Len(u) = 6 /\ u[6] = x
        /\ \A j \in 1..5 : u[j] = t[j]
    <3>1. PICK m : m = 5
      OBVIOUS
    <3>2. t \in Seq(Bits) /\ m \in Nat /\ Len(t) = m
      BY <2>3, <3>1
    <3>3. /\ Append(t, x) \in Seq(Bits) /\ Len(Append(t, x)) = m + 1 /\ Append(t, x)[m + 1] = x
          /\ \A k \in 1..m : Append(t, x)[k] = t[k]
      BY <3>2, LastIs
    <3>. QED
      BY <2>4, <3>1, <3>3
  <2>6. taken' = u
    BY <2>1, <2>2, <2>4
  <2>7. \A k \in 0..4 : 5 - k \in 1..5 /\ 6 - (k + 1) = 5 - k /\ (5 - k) + 1 = 6 - k
    OBVIOUS
  <2>8. \A k \in 0..4 : u[6 - (k + 1)] = taken[6 - k]
    BY <2>3, <2>5, <2>7
  <2>9. /\ Len(taken) = 6 /\ ~(Len(taken) < 6) /\ Len(u) - 0 = 6
    BY <1>1, <1>4, <2>5
  <2>10. Back(0)' = u[6] /\ \A k \in 0..4 : Back(k + 1)' = u[6 - (k + 1)] /\ Back(k) = taken[6 - k]
    BY <2>5, <2>6, <2>9, Zenon DEF Back
  <2>. QED
    BY <2>5, <2>6, <2>8, <2>9, <2>10
<1>. QED
  BY <1>2, <1>3, <1>4

LEMMA NextState ==
  ASSUME NEW s \in 0..6
  PROVE  /\ Detector!next_state(s, 1) =
              IF s \in {0, 1} THEN 1 ELSE IF s = 2 \/ s = 6 THEN 3
              ELSE IF s = 3 THEN 4 ELSE IF s = 4 THEN 5 ELSE 1
         /\ Detector!next_state(s, 0) =
              IF s = 1 \/ s = 3 THEN 2 ELSE IF s = 5 THEN 6 ELSE 0
<1>1. s = 0 \/ s = 1 \/ s = 2 \/ s = 3 \/ s = 4 \/ s = 5 \/ s = 6
  OBVIOUS
<1>. QED
  BY <1>1 DEF Detector!next_state

LEMMA DetectorKeep ==
  ASSUME DetectorInv, Detector!Next \/ UNCHANGED detectorVars
  PROVE  DetectorInv'
<1>1. CASE UNCHANGED detectorVars
  BY <1>1 DEF detectorVars, DetectorInv, Back
<1>2. CASE Detector!Reset
  BY <1>2 DEF Detector!Reset, DetectorInv
<1>3. ASSUME NEW x \in Detector!Bit, Detector!Clock(x) PROVE DetectorInv'
  <2>1. /\ taken \in Seq(Bits) /\ Len(taken) <= 6 /\ x \in Bits /\ Len(taken) \in Nat
        /\ taken' = IF Len(taken) < 6 THEN Append(taken, x) ELSE Append(Tail(taken), x)
    BY <1>3 DEF DetectorInv, Detector!Clock, Detector!Bit, Bits
  <2>2. /\ taken' \in Seq(Bits)
        /\ Len(taken') = IF Len(taken) < 6 THEN Len(taken) + 1 ELSE 6
        /\ Back(0)' = x
        /\ \A k \in 0..4 : k < Len(taken) => Back(k + 1)' = Back(k)
    BY <2>1, BitTaken, Zenon
  <2>3. /\ Len(taken) > 0 => Back(1)' = Back(0)
        /\ Len(taken) > 1 => Back(2)' = Back(1)
        /\ Len(taken) > 2 => Back(3)' = Back(2)
        /\ Len(taken) > 3 => Back(4)' = Back(3)
        /\ Len(taken) > 4 => Back(5)' = Back(4)
    <3>1. /\ 0 \in 0..4 /\ 1 \in 0..4 /\ 2 \in 0..4 /\ 3 \in 0..4 /\ 4 \in 0..4
          /\ 0 + 1 = 1 /\ 1 + 1 = 2 /\ 2 + 1 = 3 /\ 3 + 1 = 4 /\ 4 + 1 = 5
      OBVIOUS
    <3>. QED
      BY <2>1, <2>2, <3>1
  <2>4. PICK s : s = current_state
    OBVIOUS
  <2>5. s \in 0..6 /\ current_state' = Detector!next_state(s, x)
    BY <1>3, <2>4 DEF DetectorInv, Detector!Clock
  <2>6. PICK n, b0, b1, b2, b3, b4 :
           /\ n = Len(taken) /\ b0 = Back(0) /\ b1 = Back(1) /\ b2 = Back(2)
           /\ b3 = Back(3) /\ b4 = Back(4)
    OBVIOUS
  <2>7. PICK m, c0, c1, c2, c3, c4, c5 :
           /\ m = Len(taken') /\ c0 = Back(0)' /\ c1 = Back(1)' /\ c2 = Back(2)'
           /\ c3 = Back(3)' /\ c4 = Back(4)' /\ c5 = Back(5)'
    OBVIOUS
  <2>8. /\ n \in Nat /\ n <= 6
        /\ m = IF n < 6 THEN n + 1 ELSE 6
        /\ c0 = x /\ (n > 0 => c1 = b0) /\ (n > 1 => c2 = b1) /\ (n > 2 => c3 = b2)
        /\ (n > 3 => c4 = b3) /\ (n > 4 => c5 = b4)
    BY <2>1, <2>2, <2>3, <2>6, <2>7
  <2>9. /\ s \in {1, 3, 4, 5} => n >= 1 /\ b0 = 1
        /\ s \in {2, 6} => n >= 2 /\ b1 = 1 /\ b0 = 0
        /\ s = 3 => n >= 3 /\ b2 = 1 /\ b1 = 0
        /\ s = 4 => n >= 4 /\ b3 = 1 /\ b2 = 0 /\ b1 = 1
        /\ s = 5 => n >= 5 /\ b4 = 1 /\ b3 = 0 /\ b2 = 1 /\ b1 = 1
    BY <2>4, <2>6 DEF DetectorInv
  <2>10. PICK t : t = current_state'
    OBVIOUS
  <2>11. /\ t \in 0..6 /\ m <= 6
         /\ t \in {1, 3, 4, 5} => m >= 1 /\ c0 = 1
         /\ t \in {2, 6} => m >= 2 /\ c1 = 1 /\ c0 = 0
         /\ t = 3 => m >= 3 /\ c2 = 1 /\ c1 = 0
         /\ t = 4 => m >= 4 /\ c3 = 1 /\ c2 = 0 /\ c1 = 1
         /\ t = 5 => m >= 5 /\ c4 = 1 /\ c3 = 0 /\ c2 = 1 /\ c1 = 1
         /\ t = 6 => m = 6 /\ c5 = 1 /\ c4 = 0 /\ c3 = 1 /\ c2 = 1
    <3>1. CASE x = 1
      <4>1. t = IF s \in {0, 1} THEN 1 ELSE IF s = 2 \/ s = 6 THEN 3
                ELSE IF s = 3 THEN 4 ELSE IF s = 4 THEN 5 ELSE 1
        BY <2>5, <2>10, <3>1, NextState
      <4>. QED
        BY <2>5, <2>8, <2>9, <3>1, <4>1
    <3>2. CASE x = 0
      <4>1. t = IF s = 1 \/ s = 3 THEN 2 ELSE IF s = 5 THEN 6 ELSE 0
        BY <2>5, <2>10, <3>2, NextState
      <4>. QED
        BY <2>5, <2>8, <2>9, <3>2, <4>1
    <3>. QED
      BY <2>1, <3>1, <3>2 DEF Bits
  <2>. QED
    BY <2>2, <2>7, <2>10, <2>11 DEF DetectorInv
<1>. QED
  BY <1>1, <1>2, <1>3 DEF Detector!Next

LEMMA DetectorAlways == SimulatorsSpec => [](family = "detector" => DetectorInv)
<1>1. SimulatorsInit => (family = "detector" => DetectorInv)
  BY SimulatorsBegin, DetectorBegin
<1>2. (family = "detector" => DetectorInv) /\ [SimulatorsNext]_allVars
      => (family = "detector" => DetectorInv)'
  BY OneRuns, DetectorKeep
<1>. QED
  BY <1>1, <1>2, PTL DEF SimulatorsSpec

LEMMA CutIs ==
  ASSUME NEW S, NEW s \in Seq(S), NEW j \in Nat \ {0}, NEW n \in Nat, j + n - 1 <= Len(s)
  PROVE  /\ SubSeq(s, j, j + n - 1) \in Seq(S) /\ Len(SubSeq(s, j, j + n - 1)) = n
         /\ \A k \in 1..n : SubSeq(s, j, j + n - 1)[k] = s[j + k - 1]
OBVIOUS

LEMMA EndsWith ==
  ASSUME taken \in Seq(Bits), NEW n \in Nat, NEW pattern \in Seq(Bits), Len(pattern) = n,
         n <= Len(taken), \A k \in 0..n - 1 : Back(k) = pattern[n - k]
  PROVE  Detector!Ends(pattern)
<1>1. PICK m : m = Len(taken)
  OBVIOUS
<1>2. m \in Nat /\ n <= m
  BY <1>1
<1>3. PICK s : s = SubSeq(taken, m - n + 1, m)
  OBVIOUS
<1>4. s \in Seq(Bits) /\ Len(s) = n /\ \A k \in 1..n : s[k] = taken[m - n + k]
  <2>1. PICK j : j = m - n + 1
    OBVIOUS
  <2>2. /\ j \in Nat \ {0} /\ j + n - 1 = m
        /\ \A k \in 1..n : j + k - 1 = m - n + k
    BY <1>2, <2>1
  <2>3. s = SubSeq(taken, j, j + n - 1) /\ j + n - 1 <= Len(taken)
    BY <1>1, <1>2, <1>3, <2>1, <2>2
  <2>. QED
    BY <2>2, <2>3, CutIs
<1>5. ASSUME NEW k \in 1..n PROVE s[k] = pattern[k]
  <2>1. n - k \in 0..n - 1 /\ n - (n - k) = k /\ m - (n - k) = m - n + k
    BY <1>2
  <2>2. Back(n - k) = pattern[n - (n - k)]
    BY <2>1
  <2>. QED
    BY <1>1, <1>4, <2>1, <2>2 DEF Back
<1>6. s = pattern
  BY <1>4, <1>5
<1>. QED
  BY <1>1, <1>2, <1>3, <1>6 DEF Detector!Ends

LEMMA OutputsStandFor ==
  ASSUME DetectorInv
  PROVE  Detector!OutputsMean
<1>1. taken \in Seq(Bits)
  BY DEF DetectorInv
<1>2. CASE current_state = 6
  <2>1. PICK p : p = <<1, 0, 1, 1, 1, 0>>
    OBVIOUS
  <2>2. p \in Seq(Bits) /\ Len(p) = 6
    BY <2>1 DEF Bits
  <2>3. p[1] = 1 /\ p[2] = 0 /\ p[3] = 1 /\ p[4] = 1 /\ p[5] = 1 /\ p[6] = 0
    BY <2>1
  <2>4. 6 <= Len(taken) /\ Back(5) = 1 /\ Back(4) = 0 /\ Back(3) = 1 /\ Back(2) = 1
        /\ Back(1) = 1 /\ Back(0) = 0
    BY <1>2 DEF DetectorInv
  <2>5. \A k \in 0..6 - 1 : Back(k) = p[6 - k]
    <3>1. ASSUME NEW k \in 0..6 - 1 PROVE Back(k) = p[6 - k]
      <4>1. k = 0 \/ k = 1 \/ k = 2 \/ k = 3 \/ k = 4 \/ k = 5
        OBVIOUS
      <4>. QED
        BY <2>3, <2>4, <4>1
    <3>. QED
      BY <3>1
  <2>6. Detector!Ends(p)
    BY <1>1, <2>2, <2>4, <2>5, EndsWith
  <2>7. Detector!Y1 = 1
    BY <1>2 DEF Detector!Y1
  <2>. QED
    BY <2>1, <2>6, <2>7 DEF Detector!OutputsMean
<1>3. CASE current_state = 3
  <2>1. PICK p : p = <<1, 0, 1>>
    OBVIOUS
  <2>2. p \in Seq(Bits) /\ Len(p) = 3
    BY <2>1 DEF Bits
  <2>3. p[1] = 1 /\ p[2] = 0 /\ p[3] = 1
    BY <2>1
  <2>4. 3 <= Len(taken) /\ Back(2) = 1 /\ Back(1) = 0 /\ Back(0) = 1
    BY <1>3 DEF DetectorInv
  <2>5. \A k \in 0..3 - 1 : Back(k) = p[3 - k]
    <3>1. ASSUME NEW k \in 0..3 - 1 PROVE Back(k) = p[3 - k]
      <4>1. k = 0 \/ k = 1 \/ k = 2
        OBVIOUS
      <4>. QED
        BY <2>3, <2>4, <4>1
    <3>. QED
      BY <3>1
  <2>6. Detector!Ends(p)
    BY <1>1, <2>2, <2>4, <2>5, EndsWith
  <2>7. Detector!Y1 = 0
    BY <1>3 DEF Detector!Y1
  <2>. QED
    BY <2>1, <2>6, <2>7 DEF Detector!OutputsMean
<1>4. CASE current_state \notin {3, 6}
  <2>1. Detector!Y = 0 /\ Detector!Y1 = 0
    BY <1>4 DEF Detector!Y, Detector!Y1
  <2>. QED
    BY <2>1 DEF Detector!OutputsMean
<1>. QED
  BY <1>2, <1>3, <1>4

\* Circuits: Y1 comes at the end of a 101110 and Y without it at the end of a
\* 101; the chain of full adders adds, its overflow tells when the signed sum
\* does not fit, and the voter says what more than half of the bits are, for
\* any number of columns and of votes.
THEOREM OutputsAreRight == SimulatorsSpec => []OutputsMean
<1>1. ASSUME CircuitsInv PROVE Circuits!CircuitsCorrect
  <2>1. PICK given : given = Circuits!Signed(A) + Circuits!Signed(B) + Cin
    OBVIOUS
  <2>2. /\ Circuits!Value(Circuits!Sum) + Circuits!Cout * 2^Width
           = Circuits!Value(A) + Circuits!Value(B) + Cin
        /\ Circuits!Overflow = 1 <=> given \notin -(2^(Width - 1))..2^(Width - 1) - 1
        /\ Circuits!Overflow = 0 => Circuits!Signed(Circuits!Sum) = given
    BY <1>1, <2>1, AdderIsRight, Zenon
  <2>3. /\ Circuits!Y = "100" <=> 2 * Cardinality(Circuits!Ones) < Votes
        /\ Circuits!Y = "001" <=> 2 * Cardinality(Circuits!Ones) > Votes
    BY <1>1, VoterIsRight
  <2>4. \A S : Circuits!Cardinality(S) = Cardinality(S)
    BY Zenon DEF Circuits!Cardinality, Cardinality
  <2>. QED
    BY <2>1, <2>2, <2>3, <2>4, Zenon DEF Circuits!CircuitsCorrect
<1>2. (family = "detector" => DetectorInv) /\ (family = "circuits" => CircuitsInv) => OutputsMean
  BY <1>1, OutputsStandFor DEF OutputsMean
<1>. QED
  BY <1>2, DetectorAlways, CircuitsAlways, PTL
=============================================================================
