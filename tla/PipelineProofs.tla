----------------------------- MODULE PipelineProofs ----------------------------
(***************************************************************************)
(* For any workloads, any files to begin with and any invocations of the   *)
(* script: the processes make the files that the steps would make one      *)
(* after the other, although they run at the same time, but for those      *)
(* whose inputs or outputs another process of the invocation may write     *)
(* meanwhile, and for what is made of these.                               *)
(***************************************************************************)
EXTENDS Pipeline, SumTheorems

--------------------------------------------------------------------------------
(* One step after the other *)

\* now is what the jobs make of the files in start, one after the other, up to the n-th.
IsRun(now, start, jobs, n) ==
  now = [m \in 0 .. n |-> IF m = 0 THEN start ELSE Alone(now[m - 1], jobs, m)]

LEMMA RunExists ==
  ASSUME NEW start, NEW jobs, NEW len \in Nat
  PROVE  \E now : IsRun(now, start, jobs, len)
<1> DEFINE T == {n \in Nat : ~ \E now : IsRun(now, start, jobs, n)}
<1> SUFFICES ASSUME T # {} PROVE FALSE
  OBVIOUS
<1>1. PICK n \in T : \A m \in T : n <= m
  <2>1. T \subseteq Nat
    OBVIOUS
  <2> HIDE DEF T
  <2> QED  BY <2>1, LeastNatural
<1>2. n # 0
  <2>1. IsRun([m \in 0 .. 0 |-> start], start, jobs, 0)
    BY DEF IsRun
  <2> QED  BY <1>1, <2>1
<1>3. n - 1 \in Nat /\ n - 1 \notin T
  BY <1>1, <1>2
<1>4. PICK now : IsRun(now, start, jobs, n - 1)
  BY <1>3
<1>5. PICK next : next = [m \in 0 .. n |-> IF m = n THEN Alone(now[n - 1], jobs, n) ELSE now[m]]
  OBVIOUS
<1>6. \A m \in 0 .. n - 1 : next[m] = now[m] /\ now[m] = IF m = 0 THEN start ELSE Alone(now[m - 1], jobs, m)
  <2>1. \A m \in 0 .. n - 1 : m \in 0 .. n /\ m # n
    BY <1>3
  <2>2. \A m \in 0 .. n - 1 : next[m] = now[m]
    BY <1>5, <2>1
  <2>3. \A m \in 0 .. n - 1 : now[m] = IF m = 0 THEN start ELSE Alone(now[m - 1], jobs, m)
    BY <1>4 DEF IsRun
  <2> QED  BY <2>2, <2>3
<1>7. \A m \in 0 .. n : next[m] = IF m = 0 THEN start ELSE Alone(next[m - 1], jobs, m)
  <2> SUFFICES ASSUME NEW m \in 0 .. n PROVE next[m] = IF m = 0 THEN start ELSE Alone(next[m - 1], jobs, m)
    OBVIOUS
  <2>1. CASE m = n
    <3>1. next[n] = Alone(now[n - 1], jobs, n) /\ n - 1 \in 0 .. n - 1
      BY <1>1, <1>3, <1>5
    <3> QED  BY <1>2, <1>6, <2>1, <3>1
  <2>2. CASE m # n
    <3>1. m \in 0 .. n - 1 /\ (m # 0 => m - 1 \in 0 .. n - 1)
      BY <1>3, <2>2
    <3> QED  BY <1>6, <3>1
  <2> QED  BY <2>1, <2>2
<1>8. IsRun(next, start, jobs, n)
  <2>1. next = [m \in 0 .. n |-> next[m]]
    BY <1>5
  <2> QED  BY <1>7, <2>1 DEF IsRun
<1> QED  BY <1>1, <1>8

\* After defines the files after every job.
LEMMA AfterSteps ==
  ASSUME NEW start, NEW jobs, Len(jobs) \in Nat
  PROVE  /\ After(start, jobs)[0] = start
         /\ \A k \in 1 .. Len(jobs) : After(start, jobs)[k] = Alone(After(start, jobs)[k - 1], jobs, k)
<1>1. After(start, jobs) = CHOOSE now : IsRun(now, start, jobs, Len(jobs))
  BY DEF After, IsRun
<1>2. PICK now : now = After(start, jobs) /\ IsRun(now, start, jobs, Len(jobs))
  <2>1. \E now : IsRun(now, start, jobs, Len(jobs))
    BY RunExists
  <2> QED  BY <1>1, <2>1
<1>3. \A m \in 0 .. Len(jobs) : now[m] = IF m = 0 THEN start ELSE Alone(now[m - 1], jobs, m)
  BY <1>2 DEF IsRun
<1>4. 0 \in 0 .. Len(jobs) /\ \A k \in 1 .. Len(jobs) : k \in 0 .. Len(jobs) /\ k # 0
  OBVIOUS
<1> QED  BY <1>2, <1>3, <1>4

\* w is what the invocations up to the n-th make.
IsWaited(w, n) ==
  w = [i \in 0 .. n |-> IF i = 0 THEN InitialFiles ELSE After(w[i - 1], Invocations[i])[Len(Invocations[i])]]

LEMMA WaitedExists == ASSUME NEW len \in Nat PROVE \E w : IsWaited(w, len)
<1> DEFINE T == {n \in Nat : ~ \E w : IsWaited(w, n)}
           LastOf(now, i) == After(now, Invocations[i])[Len(Invocations[i])]
<1> SUFFICES ASSUME T # {} PROVE FALSE
  OBVIOUS
<1>0. \A w, n : IsWaited(w, n) <=> w = [i \in 0 .. n |-> IF i = 0 THEN InitialFiles ELSE LastOf(w[i - 1], i)]
  BY DEF IsWaited
<1> HIDE DEF LastOf
<1>1. PICK n \in T : \A m \in T : n <= m
  <2>1. T \subseteq Nat
    OBVIOUS
  <2> HIDE DEF T
  <2> QED  BY <2>1, LeastNatural
<1>2. n # 0
  <2>1. PICK w : w = [i \in 0 .. 0 |-> InitialFiles]
    OBVIOUS
  <2>2. IsWaited(w, 0)
    <3>1. \A i \in 0 .. 0 : i = 0
      OBVIOUS
    <3>2. w = [i \in 0 .. 0 |-> IF i = 0 THEN InitialFiles ELSE LastOf(w[i - 1], i)]
      BY <2>1, <3>1
    <3> QED  BY <1>0, <3>2
  <2> QED  BY <1>1, <2>2
<1>3. n - 1 \in Nat /\ n - 1 \notin T
  BY <1>1, <1>2
<1>4. PICK w : IsWaited(w, n - 1)
  BY <1>3
<1>5. PICK v : v = [i \in 0 .. n |-> IF i = n THEN LastOf(w[n - 1], n) ELSE w[i]]
  OBVIOUS
<1>6. \A i \in 0 .. n - 1 : v[i] = w[i] /\ w[i] = IF i = 0 THEN InitialFiles ELSE LastOf(w[i - 1], i)
  <2>1. \A i \in 0 .. n - 1 : i \in 0 .. n /\ i # n
    BY <1>3
  <2>2. \A i \in 0 .. n - 1 : v[i] = w[i]
    BY <1>5, <2>1
  <2>3. \A i \in 0 .. n - 1 : w[i] = IF i = 0 THEN InitialFiles ELSE LastOf(w[i - 1], i)
    BY <1>0, <1>4
  <2> QED  BY <2>2, <2>3
<1>7. \A i \in 0 .. n : v[i] = IF i = 0 THEN InitialFiles ELSE LastOf(v[i - 1], i)
  <2> SUFFICES ASSUME NEW i \in 0 .. n PROVE v[i] = IF i = 0 THEN InitialFiles ELSE LastOf(v[i - 1], i)
    OBVIOUS
  <2>1. CASE i = n
    <3>1. v[n] = LastOf(w[n - 1], n) /\ n - 1 \in 0 .. n - 1
      BY <1>1, <1>3, <1>5
    <3> QED  BY <1>2, <1>6, <2>1, <3>1
  <2>2. CASE i # n
    <3>1. i \in 0 .. n - 1 /\ (i # 0 => i - 1 \in 0 .. n - 1)
      BY <1>3, <2>2
    <3> QED  BY <1>6, <3>1
  <2> QED  BY <2>1, <2>2
<1>8. IsWaited(v, n)
  <2>1. v = [i \in 0 .. n |-> v[i]]
    BY <1>5
  <2> QED  BY <1>0, <1>7, <2>1
<1> QED  BY <1>1, <1>8

LEMMA WaitedSteps ==
  /\ Waited[0] = InitialFiles
  /\ \A i \in 1 .. Len(Invocations) : Waited[i] = After(Waited[i - 1], Invocations[i])[Len(Invocations[i])]
<1>0. Len(Invocations) \in Nat
  BY PipelineAssumption
<1>1. Waited = CHOOSE w : IsWaited(w, Len(Invocations))
  BY DEF Waited, IsWaited
<1>2. IsWaited(Waited, Len(Invocations))
  BY <1>0, <1>1, WaitedExists
<1> HIDE DEF Waited
<1>3. \A i \in 0 .. Len(Invocations) :
        Waited[i] = IF i = 0 THEN InitialFiles ELSE After(Waited[i - 1], Invocations[i])[Len(Invocations[i])]
  BY <1>2 DEF IsWaited
<1>4. 0 \in 0 .. Len(Invocations) /\ \A i \in 1 .. Len(Invocations) : i \in 0 .. Len(Invocations) /\ i # 0
  BY <1>0
<1> QED  BY <1>3, <1>4

--------------------------------------------------------------------------------
(* A step by itself *)

FileTable == [Names -> [Files -> Contents]]

\* What may be expected of the files: they are whole, or they may be anything.
Foreseen == (Contents \ {"cut"}) \cup {"any"}
SerialTable == [Names -> [Files -> Foreseen]]

\* A step reads and writes files, and does not write what it reads.
LEMMA StepFiles ==
  ASSUME NEW step \in Steps
  PROVE  Reads(step) \subseteq Files /\ Writes(step) \in Files /\ Writes(step) \notin Reads(step)
BY DEF Steps, Reads, Writes, Files

LEMMA MadeIsContents == ASSUME NEW inputs PROVE Made(inputs) \in Contents \ {"cut"}
<1>1. CASE "absent" \in inputs
  BY <1>1 DEF Made, Contents
<1>2. CASE "absent" \notin inputs /\ "poor" \in inputs
  BY <1>2 DEF Made, Contents
<1>3. CASE inputs \cap {"absent", "poor"} = {}
  BY <1>3 DEF Made, Contents
<1> QED  BY <1>1, <1>2, <1>3

LEMMA ResultsAreContents == ASSUME NEW inputs PROVE Results(inputs) \subseteq Contents
BY MadeIsContents DEF Results, Contents

\* A step that is not disturbed, and whose inputs are known.
Known(now, jobs, k) == ~Disturbed(jobs, k) /\ "any" \notin Inputs(now, jobs[k][1], jobs[k][2])

LEMMA ExpectedIs ==
  ASSUME NEW now, NEW jobs, NEW k
  PROVE  /\ Expected(now, jobs, k) \in Foreseen
         /\ Known(now, jobs, k) => Expected(now, jobs, k) = Made(Inputs(now, jobs[k][1], jobs[k][2]))
         /\ ~Known(now, jobs, k) => Expected(now, jobs, k) = "any"
BY MadeIsContents DEF Expected, Known, Foreseen

\* A step that does not fail makes its output; nothing else changes.
LEMMA AloneMakes ==
  ASSUME NEW now \in SerialTable, NEW jobs, NEW k, NEW p \in Jobs, p = jobs[k]
  PROVE  /\ Alone(now, jobs, k) \in SerialTable
         /\ Alone(now, jobs, k)[p[1]][Writes(p[2])] =
              IF Expected(now, jobs, k) = "absent" THEN now[p[1]][Writes(p[2])]
              ELSE Expected(now, jobs, k)
         /\ \A name \in Names, f \in Files :
              ~ (p[1] = name /\ Writes(p[2]) = f) => Alone(now, jobs, k)[name][f] = now[name][f]
<1>1. PICK made : made = Expected(now, jobs, k)
  OBVIOUS
<1>2. made \in Foreseen /\ p[1] \in Names /\ p[2] \in Steps
  BY <1>1, ExpectedIs DEF Jobs
<1>3. PICK w : w = Writes(p[2])
  OBVIOUS
<1>4. w \in Files
  BY <1>2, <1>3, StepFiles
<1>5. PICK after : after = IF made = "absent" THEN now ELSE [now EXCEPT ![p[1]][w] = made]
  OBVIOUS
<1>6. Alone(now, jobs, k) = after
  BY <1>1, <1>3, <1>5 DEF Alone
<1>7. CASE made = "absent"
  BY <1>1, <1>3, <1>5, <1>6, <1>7
<1>8. CASE made # "absent"
  <2>1. now \in [Names -> [Files -> Foreseen]]
    BY DEF SerialTable
  <2>2. after = [now EXCEPT ![p[1]] = [now[p[1]] EXCEPT ![w] = made]]
    BY <1>5, <1>8
  <2>3. /\ after \in [Names -> [Files -> Foreseen]] /\ after[p[1]][w] = made
        /\ \A name \in Names, f \in Files : ~ (p[1] = name /\ w = f) => after[name][f] = now[name][f]
    BY <1>2, <1>4, <2>1, <2>2
  <2> QED  BY <1>1, <1>3, <1>6, <1>8, <2>3 DEF SerialTable
<1> QED  BY <1>7, <1>8
--------------------------------------------------------------------------------
(* The jobs of an invocation, one after the other *)

\* Before the first invocation there was none.
JobsOf(i) == IF i = 0 THEN << >> ELSE Invocations[i]
StartOf(i) == IF i = 0 THEN InitialFiles ELSE Waited[i - 1]

\* The files after each of its jobs.
Serial(i) == After(StartOf(i), JobsOf(i))

LEMMA JobsAreJobs ==
  ASSUME NEW i \in 0 .. Len(Invocations)
  PROVE  /\ Len(JobsOf(i)) \in Nat /\ (i # 0 => Len(JobsOf(i)) # 0)
         /\ \A k \in 1 .. Len(JobsOf(i)) : JobsOf(i)[k] \in Jobs
         /\ \A k, l \in 1 .. Len(JobsOf(i)) : JobsOf(i)[k] = JobsOf(i)[l] => k = l
<1>1. CASE i = 0
  BY <1>1 DEF JobsOf
<1>2. CASE i # 0
  <2>1. Invocations \in Seq(Seq(Jobs) \ {<< >>}) /\ i \in 1 .. Len(Invocations)
    BY <1>2, PipelineAssumption DEF Jobs
  <2>2. Invocations[i] \in Seq(Jobs) /\ Invocations[i] # << >>
    BY <2>1
  <2>3. JobsOf(i) = Invocations[i]
    BY <1>2 DEF JobsOf
  <2>4. JobsOf(i) \in Seq(Jobs) /\ JobsOf(i) # << >>
    BY <2>2, <2>3
  <2>5. \A k, l \in DOMAIN JobsOf(i) : JobsOf(i)[k] = JobsOf(i)[l] => k = l
    BY <2>1, <2>3, PipelineAssumption DEF IsInjective
  <2>6. DOMAIN JobsOf(i) = 1 .. Len(JobsOf(i))
    BY <2>4
  <2> QED  BY <2>4, <2>5, <2>6
<1> QED  BY <1>1, <1>2

\* From files in a table, every job makes files in a table.
LEMMA AfterType ==
  ASSUME NEW start \in SerialTable, NEW jobs, Len(jobs) \in Nat, \A k \in 1 .. Len(jobs) : jobs[k] \in Jobs
  PROVE  \A k \in 0 .. Len(jobs) : After(start, jobs)[k] \in SerialTable
<1> DEFINE T == {k \in Nat : k <= Len(jobs) /\ After(start, jobs)[k] \notin SerialTable}
<1>0. ASSUME T # {} PROVE FALSE
  <2>1. PICK k \in T : \A m \in T : k <= m
    <3>1. T \subseteq Nat /\ T # {}
      BY <1>0
    <3> HIDE DEF T
    <3> QED  BY <3>1, LeastNatural
  <2>2. k # 0
    BY <2>1, AfterSteps
  <2>3. k - 1 \in Nat /\ k - 1 \notin T /\ k - 1 <= Len(jobs) /\ k \in 1 .. Len(jobs)
    BY <2>1, <2>2
  <2>4. After(start, jobs)[k - 1] \in SerialTable
    BY <2>3
  <2>5. After(start, jobs)[k] = Alone(After(start, jobs)[k - 1], jobs, k)
    BY <2>3, AfterSteps
  <2> QED  BY <2>1, <2>3, <2>4, <2>5, AloneMakes
<1> QED  BY <1>0

\* The files between two invocations are in a table.
LEMMA WaitedType == \A i \in 0 .. Len(Invocations) : Waited[i] \in SerialTable
<1> DEFINE T == {i \in Nat : i <= Len(Invocations) /\ Waited[i] \notin SerialTable}
<1>0. ASSUME T # {} PROVE FALSE
  <2>0. Len(Invocations) \in Nat /\ InitialFiles \in SerialTable
    BY PipelineAssumption DEF SerialTable, Foreseen
  <2>1. PICK i \in T : \A m \in T : i <= m
    <3>1. T \subseteq Nat /\ T # {}
      BY <1>0
    <3> HIDE DEF T
    <3> QED  BY <3>1, LeastNatural
  <2>2. i # 0
    BY <2>0, <2>1, WaitedSteps
  <2>3. i - 1 \in Nat /\ i - 1 \notin T /\ i - 1 <= Len(Invocations) /\ i \in 1 .. Len(Invocations)
    BY <2>0, <2>1, <2>2
  <2>4. Waited[i - 1] \in SerialTable
    BY <2>3
  <2>5. Waited[i] = After(Waited[i - 1], Invocations[i])[Len(Invocations[i])]
    BY <2>3, WaitedSteps
  <2>6. /\ Len(Invocations[i]) \in Nat /\ \A k \in 1 .. Len(Invocations[i]) : Invocations[i][k] \in Jobs
    <3>1. i \in 0 .. Len(Invocations) /\ JobsOf(i) = Invocations[i]
      BY <2>2, <2>3 DEF JobsOf
    <3> QED  BY <3>1, JobsAreJobs
  <2>7. \A k \in 0 .. Len(Invocations[i]) : After(Waited[i - 1], Invocations[i])[k] \in SerialTable
    BY <2>4, <2>6, AfterType
  <2> QED  BY <2>1, <2>5, <2>6, <2>7
<1>1. Len(Invocations) \in Nat
  BY PipelineAssumption
<1> QED  BY <1>0, <1>1

\* The files after each job, from those before the invocation to those after it.
LEMMA SerialSteps ==
  ASSUME NEW i \in 0 .. Len(Invocations)
  PROVE  /\ Serial(i)[0] = StartOf(i) /\ Serial(i)[Len(JobsOf(i))] = Waited[i]
         /\ \A k \in 1 .. Len(JobsOf(i)) : Serial(i)[k] = Alone(Serial(i)[k - 1], JobsOf(i), k)
         /\ \A k \in 0 .. Len(JobsOf(i)) : Serial(i)[k] \in SerialTable
<1>0. Len(Invocations) \in Nat
  BY PipelineAssumption
<1>1. StartOf(i) \in SerialTable
  <2>1. CASE i = 0
    BY <2>1, PipelineAssumption DEF StartOf, SerialTable, Foreseen
  <2>2. CASE i # 0
    <3>1. i - 1 \in 0 .. Len(Invocations)
      BY <1>0, <2>2
    <3> QED  BY <2>2, <3>1, WaitedType DEF StartOf
  <2> QED  BY <2>1, <2>2
<1>2. Len(JobsOf(i)) \in Nat /\ \A k \in 1 .. Len(JobsOf(i)) : JobsOf(i)[k] \in Jobs
  BY JobsAreJobs
<1>3. /\ Serial(i)[0] = StartOf(i)
      /\ \A k \in 1 .. Len(JobsOf(i)) : Serial(i)[k] = Alone(Serial(i)[k - 1], JobsOf(i), k)
  BY <1>2, AfterSteps DEF Serial
<1>4. \A k \in 0 .. Len(JobsOf(i)) : Serial(i)[k] \in SerialTable
  BY <1>1, <1>2, AfterType DEF Serial
<1>5. Serial(i)[Len(JobsOf(i))] = Waited[i]
  <2>1. CASE i = 0
    BY <1>3, <2>1, WaitedSteps DEF JobsOf, StartOf
  <2>2. CASE i # 0
    <3>1. i \in 1 .. Len(Invocations) /\ JobsOf(i) = Invocations[i] /\ StartOf(i) = Waited[i - 1]
      BY <1>0, <2>2 DEF JobsOf, StartOf
    <3> QED  BY <3>1, WaitedSteps DEF Serial
  <2> QED  BY <2>1, <2>2
<1> QED  BY <1>3, <1>4, <1>5

\* What no job writes stays as it is.
LEMMA SerialFrame ==
  ASSUME NEW i \in 0 .. Len(Invocations), NEW n \in 0 .. Len(JobsOf(i)), NEW k \in 0 .. n,
         NEW name \in Names, NEW f \in Files,
         \A l \in k + 1 .. n : ~ (JobsOf(i)[l][1] = name /\ Writes(JobsOf(i)[l][2]) = f)
  PROVE  Serial(i)[n][name][f] = Serial(i)[k][name][f]
<1>0. Len(JobsOf(i)) \in Nat
  BY JobsAreJobs
<1> DEFINE T == {m \in Nat : k <= m /\ m <= n /\ Serial(i)[m][name][f] # Serial(i)[k][name][f]}
<1>1. ASSUME T # {} PROVE FALSE
  <2>1. PICK m \in T : \A l \in T : m <= l
    <3>1. T \subseteq Nat /\ T # {}
      BY <1>1
    <3> HIDE DEF T
    <3> QED  BY <3>1, LeastNatural
  <2>2. m # k
    BY <2>1
  <2>3. m - 1 \in Nat /\ m - 1 \notin T /\ k <= m - 1 /\ m - 1 <= n /\ m \in k + 1 .. n
          /\ m \in 1 .. Len(JobsOf(i))
        /\ m - 1 \in 0 .. Len(JobsOf(i))
    BY <1>0, <2>1, <2>2
  <2>4. Serial(i)[m - 1][name][f] = Serial(i)[k][name][f]
    BY <2>3
  <2>5. Serial(i)[m] = Alone(Serial(i)[m - 1], JobsOf(i), m) /\ Serial(i)[m - 1] \in SerialTable
          /\ JobsOf(i)[m] \in Jobs
    BY <2>3, SerialSteps, JobsAreJobs
  <2>6. Serial(i)[m][name][f] = Serial(i)[m - 1][name][f]
    <3>1. PICK p \in Jobs : p = JobsOf(i)[m]
      BY <2>5
    <3>2. ~ (p[1] = name /\ Writes(p[2]) = f)
      BY <2>3, <3>1
    <3> QED  BY <2>5, <3>1, <3>2, AloneMakes
  <2> QED  BY <2>1, <2>4, <2>6
<1>2. n \in Nat /\ k \in Nat /\ k <= n
  BY <1>0
<1> QED  BY <1>1, <1>2

\* What only disturbed jobs write stays as it is, or may be anything.
LEMMA SerialLater ==
  ASSUME NEW i \in 0 .. Len(Invocations), NEW n \in 0 .. Len(JobsOf(i)), NEW k \in 0 .. n,
         NEW name \in Names, NEW f \in Files,
         \A l \in k + 1 .. n : JobsOf(i)[l][1] = name /\ Writes(JobsOf(i)[l][2]) = f => Disturbed(JobsOf(i), l)
  PROVE  Serial(i)[n][name][f] \in {"any", Serial(i)[k][name][f]}
<1>0. Len(JobsOf(i)) \in Nat
  BY JobsAreJobs
<1> DEFINE T == {m \in Nat : k <= m /\ m <= n /\ Serial(i)[m][name][f] \notin {"any", Serial(i)[k][name][f]}}
<1>1. ASSUME T # {} PROVE FALSE
  <2>1. PICK m \in T : \A l \in T : m <= l
    <3>1. T \subseteq Nat /\ T # {}
      BY <1>1
    <3> HIDE DEF T
    <3> QED  BY <3>1, LeastNatural
  <2>2. m # k
    BY <2>1
  <2>3. m - 1 \in Nat /\ m - 1 \notin T /\ k <= m - 1 /\ m - 1 <= n /\ m \in k + 1 .. n
          /\ m \in 1 .. Len(JobsOf(i))
        /\ m - 1 \in 0 .. Len(JobsOf(i))
    BY <1>0, <2>1, <2>2
  <2>4. Serial(i)[m - 1][name][f] \in {"any", Serial(i)[k][name][f]}
    BY <2>3
  <2>5. Serial(i)[m] = Alone(Serial(i)[m - 1], JobsOf(i), m) /\ Serial(i)[m - 1] \in SerialTable
          /\ JobsOf(i)[m] \in Jobs
    BY <2>3, SerialSteps, JobsAreJobs
  <2>6. Serial(i)[m][name][f] \in {"any", Serial(i)[m - 1][name][f]}
    <3>1. CASE JobsOf(i)[m][1] = name /\ Writes(JobsOf(i)[m][2]) = f
      <4>1. Expected(Serial(i)[m - 1], JobsOf(i), m) = "any"
        BY <2>3, <3>1, ExpectedIs DEF Known
      <4> QED  BY <2>5, <3>1, <4>1, AloneMakes
    <3>2. CASE ~ (JobsOf(i)[m][1] = name /\ Writes(JobsOf(i)[m][2]) = f)
      BY <2>5, <3>2, AloneMakes
    <3> QED  BY <3>1, <3>2
  <2> QED  BY <2>1, <2>4, <2>6
<1>2. n \in Nat /\ k \in Nat /\ k <= n
  BY <1>0
<1> QED  BY <1>1, <1>2
--------------------------------------------------------------------------------
(* The invariant *)

\* The invocation whose processes may be running, and how many jobs of it were started.
Current == IF job = 1 THEN invocation - 1 ELSE invocation
Started == IF job = 1 THEN Len(JobsOf(Current)) ELSE job - 1

States == {"none", "started", "profiled", "hung", "read", "writing", "ended"}

PlaceInv ==
  /\ invocation \in 1 .. Len(Invocations) + 1
  /\ job \in Nat \ {0}
  /\ job # 1 => invocation <= Len(Invocations) /\ job <= Len(Invocations[invocation]) + 1
  /\ files \in FileTable
  /\ process \in [Jobs -> States]
  /\ result \in [Jobs -> Contents]

\* p is the k-th job of the i-th invocation, of which n were started; if it is not the last
\* of them, it was left behind.
IsJob(p, i, n, k) == k \in 1 .. n /\ JobsOf(i)[k] = p /\ (k < n => ~Waits(p[2]))

\* Nobody disturbs the k-th job, and what it reads is known.
Sure(i, k) == Known(Serial(i)[k - 1], JobsOf(i), k)

\* What a running process has done of its job: it has made what it makes of the files that
\* the jobs before it make, and its output is as they leave it, or cut: then it succeeds.
PartDone(p, before) ==
  /\ process[p] \in {"read", "writing"} => result[p] = Made(Inputs(before, p[1], p[2]))
  /\ process[p] = "writing" \/ (process[p] = "read" /\ ByStdout(p[2])) => result[p] # "absent"
  /\ process[p] = "writing" \/ ByStdout(p[2]) => files[p[1]][Writes(p[2])] = "cut"
  /\ ~ (process[p] = "writing" \/ ByStdout(p[2])) =>
       before[p[1]][Writes(p[2])] \in {"any", files[p[1]][Writes(p[2])]}
  /\ process[p] = "profiled" =>
       sde_mix_out = IF files[p[1]]["pinball"] = "absent" THEN {} ELSE {p[1]}

\* A running process is one of the current invocation; what it does is known if it is sure.
RunInv == \A p \in Jobs : Running(p) =>
  \E k : IsJob(p, Current, Started, k) /\ (Sure(Current, k) => PartDone(p, Serial(Current)[k - 1]))

\* No process that runs writes this file.
Untouched(name, f) == \A p \in Jobs : Running(p) => ~ (p[1] = name /\ Writes(p[2]) = f)

\* Every other file is as all jobs so far leave it.
RestInv == \A name \in Names, f \in Files :
  Untouched(name, f) => Serial(Current)[Started][name][f] \in {"any", files[name][f]}

\* sde's file is there only for a process that has profiled and has not fetched it yet.
SdeInv ==
  /\ \A p \in Jobs : process[p] = "profiled" => p[2] = "make_JSON"
  /\ sde_mix_out # {} => \E p \in Jobs : process[p] = "profiled"

PipelineInv == PlaceInv /\ RunInv /\ RestInv /\ SdeInv

\* The jobs started so far are jobs of an invocation.
LEMMA CurrentJobs ==
  ASSUME PlaceInv
  PROVE  /\ Current \in 0 .. Len(Invocations) /\ Started \in 0 .. Len(JobsOf(Current))
         /\ Len(JobsOf(Current)) \in Nat /\ Len(Invocations) \in Nat
<1>0. Len(Invocations) \in Nat
  BY PipelineAssumption
<1>1. Current \in 0 .. Len(Invocations)
  BY <1>0 DEF PlaceInv, Current
<1>2. Len(JobsOf(Current)) \in Nat
  BY <1>1, JobsAreJobs
<1>3. CASE job = 1
  BY <1>0, <1>1, <1>2, <1>3 DEF Started
<1>4. CASE job # 1
  <2>1. Current = invocation /\ invocation # 0 /\ Started = job - 1
    BY <1>4 DEF Current, Started, PlaceInv
  <2>2. JobsOf(Current) = Invocations[invocation]
    BY <2>1 DEF JobsOf
  <2>3. job \in Nat \ {0} /\ job <= Len(JobsOf(Current)) + 1
    BY <1>4, <2>2 DEF PlaceInv
  <2> QED  BY <1>0, <1>1, <1>2, <2>1, <2>3
<1> QED  BY <1>3, <1>4

\* The first of two jobs is left behind, and one of them disturbs the other.
LEMMA DisturbedJob ==
  ASSUME NEW i \in 0 .. Len(Invocations), NEW k \in 1 .. Len(JobsOf(i)), NEW l \in 1 .. Len(JobsOf(i)),
         k # l, ~Waits(JobsOf(i)[IF k < l THEN k ELSE l][2]), Disturbs(JobsOf(i)[k], JobsOf(i)[l])
  PROVE  Disturbed(JobsOf(i), l) /\ ~Sure(i, l)
<1>1. k \in Nat /\ l \in Nat
  BY JobsAreJobs
<1>2. (IF k < l THEN k ELSE l) = (IF l < k THEN l ELSE k)
  BY <1>1
<1>3. MayOverlap(JobsOf(i), l, k)
  BY <1>2 DEF MayOverlap
<1> QED  BY <1>3 DEF Disturbed, Sure, Known

\* Of two jobs that run at the same time, what one disturbs of the other is not sure.
LEMMA RunningDisturb ==
  ASSUME NEW i \in 0 .. Len(Invocations), NEW n \in 0 .. Len(JobsOf(i)),
         NEW p, NEW q, p # q, NEW k, IsJob(p, i, n, k), NEW l, IsJob(q, i, n, l), Disturbs(p, q)
  PROVE  ~Sure(i, l)
<1>0. Len(JobsOf(i)) \in Nat
  BY JobsAreJobs
<1>1. /\ k \in 1 .. Len(JobsOf(i)) /\ l \in 1 .. Len(JobsOf(i)) /\ JobsOf(i)[k] = p /\ JobsOf(i)[l] = q
      /\ k \in Int /\ l \in Int /\ (k < n => ~Waits(p[2])) /\ (l < n => ~Waits(q[2]))
      /\ k <= n /\ l <= n /\ n \in Int
  BY <1>0 DEF IsJob
<1>2. k # l
  BY <1>1
<1>3. ~Waits(JobsOf(i)[IF k < l THEN k ELSE l][2])
  BY <1>1, <1>2
<1> QED  BY <1>1, <1>2, <1>3, DisturbedJob

\* Later jobs do not write what a job that is sure, and still running, reads; if they write
\* its output too, that may be anything.
LEMMA SerialFiles ==
  ASSUME NEW i \in 0 .. Len(Invocations), NEW n \in 0 .. Len(JobsOf(i)),
         NEW p \in Jobs, NEW k, IsJob(p, i, n, k)
  PROVE  /\ Sure(i, k) => \A f \in Reads(p[2]) : Serial(i)[n][p[1]][f] = Serial(i)[k - 1][p[1]][f]
         /\ Serial(i)[n][p[1]][Writes(p[2])] \in {"any", Serial(i)[k][p[1]][Writes(p[2])]}
         /\ Serial(i)[k] = Alone(Serial(i)[k - 1], JobsOf(i), k) /\ Serial(i)[k - 1] \in SerialTable
         /\ JobsOf(i)[k] = p
<1>0. Len(JobsOf(i)) \in Nat
  BY JobsAreJobs
<1>1. /\ k \in 1 .. Len(JobsOf(i)) /\ JobsOf(i)[k] = p /\ k \in Int /\ k <= n /\ n \in Int
      /\ (k < n => ~Waits(p[2]))
      /\ k \in 0 .. n /\ k - 1 \in 0 .. n /\ k - 1 \in 0 .. Len(JobsOf(i)) /\ k - 1 + 1 = k
  BY <1>0 DEF IsJob
<1>2. ASSUME NEW l \in k + 1 .. n
      PROVE  /\ l \in 1 .. Len(JobsOf(i)) /\ k # l /\ ~Waits(JobsOf(i)[IF k < l THEN k ELSE l][2])
             /\ ~Waits(JobsOf(i)[IF l < k THEN l ELSE k][2])
  <2>1. l \in 1 .. Len(JobsOf(i)) /\ k < l /\ k < n /\ ~ (l < k)
    BY <1>0, <1>1
  <2> QED  BY <1>1, <2>1
<1>3. p[1] \in Names /\ p[2] \in Steps
  BY DEF Jobs
<1>4. Reads(p[2]) \subseteq Files /\ Writes(p[2]) \in Files /\ Writes(p[2]) \notin Reads(p[2])
  BY <1>3, StepFiles
<1>5. ASSUME Sure(i, k), NEW f \in Reads(p[2]) PROVE Serial(i)[n][p[1]][f] = Serial(i)[k - 1][p[1]][f]
  <2>1. ASSUME NEW l \in k .. n, JobsOf(i)[l][1] = p[1], Writes(JobsOf(i)[l][2]) = f PROVE FALSE
    <3>1. CASE l = k
      BY <1>1, <1>4, <2>1, <3>1
    <3>2. CASE l # k
      <4>1. l \in k + 1 .. n
        BY <1>1, <3>2
      <4>2. Disturbs(JobsOf(i)[l], JobsOf(i)[k])
        BY <1>1, <2>1 DEF Disturbs
      <4> QED  BY <1>1, <1>2, <1>5, <4>1, <4>2, DisturbedJob
    <3> QED  BY <3>1, <3>2
  <2>2. \A l \in k - 1 + 1 .. n : ~ (JobsOf(i)[l][1] = p[1] /\ Writes(JobsOf(i)[l][2]) = f)
    BY <1>1, <2>1
  <2>3. f \in Files
    BY <1>4
  <2> QED  BY <1>1, <1>3, <2>2, <2>3, SerialFrame
<1>6. Serial(i)[n][p[1]][Writes(p[2])] \in {"any", Serial(i)[k][p[1]][Writes(p[2])]}
  <2>1. ASSUME NEW l \in k + 1 .. n, JobsOf(i)[l][1] = p[1], Writes(JobsOf(i)[l][2]) = Writes(p[2])
        PROVE  Disturbed(JobsOf(i), l)
    <3>1. Disturbs(JobsOf(i)[k], JobsOf(i)[l])
      BY <1>1, <2>1 DEF Disturbs
    <3> QED  BY <1>1, <1>2, <3>1, DisturbedJob
  <2> QED  BY <1>1, <1>3, <1>4, <2>1, SerialLater
<1>7. Serial(i)[k] = Alone(Serial(i)[k - 1], JobsOf(i), k) /\ Serial(i)[k - 1] \in SerialTable
  BY <1>1, SerialSteps
<1> QED  BY <1>1, <1>5, <1>6, <1>7

\* Whatever other processes do, a running one that is sure finds its inputs as the jobs
\* before it leave them, and none of them cut.
LEMMA ReadsSerial ==
  ASSUME PipelineInv, NEW p \in Jobs, Running(p), NEW k, IsJob(p, Current, Started, k), Sure(Current, k)
  PROVE  /\ Inputs(files, p[1], p[2]) = Inputs(Serial(Current)[k - 1], p[1], p[2])
         /\ "cut" \notin Inputs(files, p[1], p[2])
<1>0. PlaceInv /\ RunInv /\ RestInv
  BY DEF PipelineInv
<1>1. Current \in 0 .. Len(Invocations) /\ Started \in 0 .. Len(JobsOf(Current))
  BY <1>0, CurrentJobs
<1>2. p[1] \in Names /\ p[2] \in Steps /\ Reads(p[2]) \subseteq Files /\ Writes(p[2]) \notin Reads(p[2])
  BY StepFiles DEF Jobs
<1>3. /\ \A f \in Reads(p[2]) : Serial(Current)[Started][p[1]][f] = Serial(Current)[k - 1][p[1]][f]
      /\ Serial(Current)[k - 1] \in SerialTable /\ JobsOf(Current)[k] = p
  BY <1>1, SerialFiles
<1>4. ASSUME NEW f \in Reads(p[2])
      PROVE  files[p[1]][f] = Serial(Current)[k - 1][p[1]][f] /\ files[p[1]][f] # "cut"
  <2>1. Untouched(p[1], f)
    <3> SUFFICES ASSUME NEW q \in Jobs, Running(q), q[1] = p[1], Writes(q[2]) = f PROVE FALSE
      BY DEF Untouched
    <3>1. CASE q = p
      BY <1>2, <3>1
    <3>2. CASE q # p
      <4>1. PICK l : IsJob(q, Current, Started, l)
        BY <1>0 DEF RunInv
      <4>2. Disturbs(q, p)
        BY DEF Disturbs
      <4> QED  BY <1>1, <3>2, <4>1, <4>2, RunningDisturb
    <3> QED  BY <3>1, <3>2
  <2>2. Serial(Current)[Started][p[1]][f] \in {"any", files[p[1]][f]}
    BY <1>0, <1>2, <2>1 DEF RestInv
  <2>3. Serial(Current)[k - 1][p[1]][f] # "any"
    BY <1>3 DEF Sure, Known, Inputs
  <2>4. Serial(Current)[k - 1][p[1]][f] # "cut"
    <3>1. Serial(Current)[k - 1][p[1]][f] \in Foreseen
      BY <1>2, <1>3 DEF SerialTable
    <3> QED  BY <3>1 DEF Foreseen
  <2> QED  BY <1>3, <2>2, <2>3, <2>4
<1> QED  BY <1>4 DEF Inputs

LEMMA InitPipeline == Init => PipelineInv
<1> SUFFICES ASSUME Init PROVE PipelineInv
  OBVIOUS
<1>1. \A p \in Jobs : process[p] = "none" /\ ~Running(p)
  BY DEF Init, Running
<1>2. PlaceInv
  <2>1. Len(Invocations) \in Nat /\ InitialFiles \in FileTable
    BY PipelineAssumption DEF FileTable
  <2>2. process \in [Jobs -> States] /\ result \in [Jobs -> Contents]
    BY DEF Init, States, Contents
  <2> QED  BY <2>1, <2>2 DEF Init, PlaceInv
<1>3. Current = 0 /\ Started = 0 /\ files = InitialFiles
  BY DEF Init, Current, Started, JobsOf
<1>4. Serial(0)[0] = InitialFiles
  <2>1. 0 \in 0 .. Len(Invocations)
    BY PipelineAssumption
  <2> QED  BY <2>1, SerialSteps DEF StartOf
<1>5. RestInv
  BY <1>3, <1>4 DEF RestInv
<1>6. RunInv
  BY <1>1 DEF RunInv
<1>7. SdeInv
  BY <1>1 DEF SdeInv, Init
<1> QED  BY <1>2, <1>5, <1>6, <1>7 DEF PipelineInv

--------------------------------------------------------------------------------
(* The steps preserve it *)

\* A step of one process, which may write its output and nothing else but sde's file.
OneMoves(p, state) ==
  /\ Running(p) /\ state \in States
  /\ process' = [process EXCEPT ![p] = state]
  /\ files' \in FileTable /\ result' \in [Jobs -> Contents]
  /\ \A q \in Jobs : q # p => result'[q] = result[q]
  /\ \A name \in Names, f \in Files : ~ (p[1] = name /\ Writes(p[2]) = f) => files'[name][f] = files[name][f]
  /\ sde_mix_out' = sde_mix_out \/ p[2] = "make_JSON"
  /\ UNCHANGED <<invocation, job>>

\* The pinball is what sde reads, and no step makes it.
LEMMA PinballStays == \A step \in Steps : Writes(step) # "pinball"
  /\ ("pinball" \in Reads(step) <=> step = "make_JSON")
BY DEF Steps, Writes, Reads

\* Processes that are sure, and the other files, do not notice it.
LEMMA OneMovesKeeps ==
  ASSUME PipelineInv, NEW p \in Jobs, NEW state, OneMoves(p, state), NEW k, IsJob(p, Current, Started, k),
         Running(p)' /\ Sure(Current, k) => PartDone(p, Serial(Current)[k - 1])',
         ~Running(p)' => Serial(Current)[Started][p[1]][Writes(p[2])] \in {"any", files'[p[1]][Writes(p[2])]}
  PROVE  PlaceInv' /\ RunInv' /\ RestInv'
<1>0. PlaceInv /\ RunInv /\ RestInv /\ SdeInv
  BY DEF PipelineInv
<1>1. /\ Current' = Current /\ Started' = Started /\ Serial(Current)' = Serial(Current)
      /\ \A l : Sure(Current, l)' <=> Sure(Current, l)
  <2>1. Current' = Current
    BY DEF OneMoves, Current
  <2>2. Started' = Started
    BY <2>1 DEF OneMoves, Started
  <2>3. Serial(Current)' = Serial(Current)
    BY <2>1 DEF Serial
  <2>4. \A l : Sure(Current, l)' <=> Sure(Current, l)
    BY <2>1 DEF Sure
  <2> QED  BY <2>1, <2>2, <2>3, <2>4
<1>2. /\ Current \in 0 .. Len(Invocations) /\ Started \in 0 .. Len(JobsOf(Current))
      /\ p[1] \in Names /\ Writes(p[2]) \in Files /\ Writes(p[2]) # "pinball"
  BY <1>0, CurrentJobs, StepFiles, PinballStays DEF Jobs
<1>3. PlaceInv'
  <2>1. process' \in [Jobs -> States]
    BY <1>0 DEF OneMoves, PlaceInv
  <2> QED  BY <1>0, <2>1 DEF OneMoves, PlaceInv
<1>4. \A q \in Jobs : q # p => process'[q] = process[q] /\ (Running(q)' <=> Running(q))
  BY <1>0 DEF OneMoves, PlaceInv, Running
<1>5. RunInv'
  <2> SUFFICES ASSUME NEW q \in Jobs, Running(q)'
               PROVE  \E l : /\ IsJob(q, Current, Started, l)
                             /\ Sure(Current, l) => PartDone(q, Serial(Current)[l - 1])'
    BY <1>1 DEF RunInv, IsJob
  <2>1. CASE q = p
    BY <2>1
  <2>2. CASE q # p
    <3>1. PICK l : IsJob(q, Current, Started, l) /\ (Sure(Current, l) => PartDone(q, Serial(Current)[l - 1]))
      BY <1>0, <1>4, <2>2 DEF RunInv
    <3>2. ASSUME Sure(Current, l) PROVE PartDone(q, Serial(Current)[l - 1])'
      <4>1. ~Disturbs(p, q)
        BY <1>2, <2>2, <3>1, <3>2, RunningDisturb
      <4>2. q[1] \in Names /\ Writes(q[2]) \in Files /\ "pinball" \in Files
        BY StepFiles DEF Jobs, Files
      <4>3. files'[q[1]][Writes(q[2])] = files[q[1]][Writes(q[2])]
        BY <4>1, <4>2 DEF OneMoves, Disturbs
      <4>4. files'[q[1]]["pinball"] = files[q[1]]["pinball"]
        BY <1>2, <4>2 DEF OneMoves
      <4>5. result'[q] = result[q] /\ process'[q] = process[q]
        BY <1>4, <2>2 DEF OneMoves
      <4>6. process[q] = "profiled" => sde_mix_out' = sde_mix_out
        BY <1>0, <4>1 DEF OneMoves, Disturbs, SdeInv
      <4> QED  BY <1>1, <3>1, <3>2, <4>3, <4>4, <4>5, <4>6 DEF PartDone
    <3> QED  BY <3>1, <3>2
  <2> QED  BY <2>1, <2>2
<1>6. RestInv'
  <2> SUFFICES ASSUME NEW name \in Names, NEW f \in Files, Untouched(name, f)'
               PROVE  Serial(Current)[Started][name][f] \in {"any", files'[name][f]}
    BY <1>1 DEF RestInv
  <2>1. \A q \in Jobs : Running(q)' => ~ (q[1] = name /\ Writes(q[2]) = f)
    BY DEF Untouched
  <2>2. CASE p[1] = name /\ Writes(p[2]) = f
    BY <2>1, <2>2
  <2>3. CASE ~ (p[1] = name /\ Writes(p[2]) = f)
    <3>1. Untouched(name, f)
      BY <1>4, <2>1, <2>3 DEF Untouched
    <3> QED  BY <1>0, <2>3, <3>1 DEF OneMoves, RestInv
  <2> QED  BY <2>2, <2>3
<1> QED  BY <1>3, <1>5, <1>6

\* A running process is a job of the current invocation, with part of it done if it is sure.
LEMMA RunningJob ==
  ASSUME PipelineInv, NEW p \in Jobs, Running(p)
  PROVE  \E k : IsJob(p, Current, Started, k) /\ (Sure(Current, k) => PartDone(p, Serial(Current)[k - 1]))
BY DEF PipelineInv, RunInv

\* A process that ends leaves what it is expected to leave.
LEMMA EndsAsExpected ==
  ASSUME PipelineInv, NEW p \in Jobs, NEW k, IsJob(p, Current, Started, k), NEW content,
         NEW before, before = Serial(Current)[k - 1],
         Sure(Current, k) =>
           LET made == Made(Inputs(before, p[1], p[2]))
           IN IF made = "absent" THEN before[p[1]][Writes(p[2])] \in {"any", content} ELSE content = made
  PROVE  Serial(Current)[Started][p[1]][Writes(p[2])] \in {"any", content}
<1>1. Current \in 0 .. Len(Invocations) /\ Started \in 0 .. Len(JobsOf(Current))
  BY CurrentJobs DEF PipelineInv
<1>2. /\ Serial(Current)[Started][p[1]][Writes(p[2])] \in {"any", Serial(Current)[k][p[1]][Writes(p[2])]}
      /\ Serial(Current)[k] = Alone(before, JobsOf(Current), k) /\ before \in SerialTable
      /\ JobsOf(Current)[k] = p
  BY <1>1, SerialFiles
<1>3. PICK made : made = Expected(before, JobsOf(Current), k)
  OBVIOUS
<1>4. Serial(Current)[k][p[1]][Writes(p[2])] = IF made = "absent" THEN before[p[1]][Writes(p[2])] ELSE made
  BY <1>2, <1>3, AloneMakes
<1>5. Sure(Current, k) => made = Made(Inputs(before, p[1], p[2]))
  BY <1>2, <1>3, ExpectedIs DEF Sure
<1>6. ~Sure(Current, k) => made = "any"
  BY <1>3, ExpectedIs DEF Sure
<1> QED  BY <1>2, <1>4, <1>5, <1>6

\* Processes that do not come from sde, or go to it, leave its file alone.
LEMMA SdeKeeps ==
  ASSUME PipelineInv, NEW p \in Jobs, NEW state, OneMoves(p, state), state # "profiled",
         process[p] # "profiled", sde_mix_out' = sde_mix_out
  PROVE  SdeInv'
<1>1. \A q \in Jobs : process'[q] = "profiled" <=> process[q] = "profiled"
  BY DEF OneMoves, PipelineInv, PlaceInv
<1> QED  BY <1>1 DEF PipelineInv, SdeInv

\* sde has run: it leaves its file, unless there is no pinball.
LEMMA RunSdeKeeps == ASSUME PipelineInv, NEW p \in Jobs, RunSde(p) PROVE PipelineInv'
<1>0. PlaceInv /\ SdeInv
  BY DEF PipelineInv
<1>1. /\ process[p] = "started" /\ p[2] = "make_JSON" /\ process' = [process EXCEPT ![p] = "profiled"]
      /\ UNCHANGED <<files, result, invocation, job>>
      /\ sde_mix_out' = IF files[p[1]]["pinball"] = "absent" THEN sde_mix_out ELSE {p[1]}
  BY DEF RunSde
<1>2. Running(p) /\ OneMoves(p, "profiled") /\ process'[p] = "profiled" /\ Running(p)'
  BY <1>0, <1>1 DEF OneMoves, Running, States, PlaceInv
<1>3. PICK k : IsJob(p, Current, Started, k) /\ (Sure(Current, k) => PartDone(p, Serial(Current)[k - 1]))
  BY <1>2, RunningJob
<1>4. Serial(Current)' = Serial(Current)
  BY <1>1 DEF Serial, Current
<1>5. ASSUME Sure(Current, k) PROVE PartDone(p, Serial(Current)[k - 1])'
  <2>1. \A q \in Jobs : process[q] # "profiled"
    <3> SUFFICES ASSUME NEW q \in Jobs, process[q] = "profiled" PROVE FALSE
      OBVIOUS
    <3>1. Running(q) /\ q[2] = "make_JSON" /\ q # p
      BY <1>0, <1>1 DEF Running, SdeInv
    <3>2. PICK l : IsJob(q, Current, Started, l)
      BY <3>1, RunningJob
    <3>3. Disturbs(q, p)
      BY <1>1, <3>1 DEF Disturbs
    <3>4. Current \in 0 .. Len(Invocations) /\ Started \in 0 .. Len(JobsOf(Current))
      BY <1>0, CurrentJobs
    <3> QED  BY <1>3, <1>5, <3>1, <3>2, <3>3, <3>4, RunningDisturb
  <2>2. sde_mix_out = {}
    BY <1>0, <2>1 DEF SdeInv
  <2> QED  BY <1>1, <1>2, <1>3, <1>4, <1>5, <2>2 DEF PartDone
<1>6. PlaceInv' /\ RunInv' /\ RestInv'
  BY <1>2, <1>3, <1>5, OneMovesKeeps
<1>7. SdeInv'
  BY <1>0, <1>1, <1>2 DEF SdeInv, PlaceInv
<1> QED  BY <1>6, <1>7 DEF PipelineInv

\* The script has fetched sde's file, and made of it what it makes of the pinball.
LEMMA MoveSdeMixKeeps == ASSUME PipelineInv, NEW p \in Jobs, MoveSdeMix(p) PROVE PipelineInv'
<1>0. PlaceInv /\ SdeInv
  BY DEF PipelineInv
<1>1. PICK r : r = CASE sde_mix_out = {}     -> "absent"
                     [] sde_mix_out = {p[1]} -> Made(Inputs(files, p[1], p[2]))
                     [] OTHER                -> "poor"
  OBVIOUS
<1>2. /\ process[p] = "profiled" /\ process' = [process EXCEPT ![p] = "read"]
      /\ result' = [result EXCEPT ![p] = r] /\ sde_mix_out' = {}
      /\ UNCHANGED <<files, invocation, job>> /\ p[2] = "make_JSON"
  BY <1>0, <1>1 DEF MoveSdeMix, SdeInv
<1>3. r \in Contents
  <2>1. Made(Inputs(files, p[1], p[2])) \in Contents
    BY MadeIsContents
  <2>2. "absent" \in Contents /\ "poor" \in Contents
    BY DEF Contents
  <2> QED  BY <1>1, <2>1, <2>2
<1>4. /\ Running(p) /\ OneMoves(p, "read") /\ process'[p] = "read" /\ Running(p)' /\ result'[p] = r
  BY <1>0, <1>2, <1>3 DEF OneMoves, Running, States, PlaceInv
<1>5. PICK k : IsJob(p, Current, Started, k) /\ (Sure(Current, k) => PartDone(p, Serial(Current)[k - 1]))
  BY <1>4, RunningJob
<1>6. Serial(Current)' = Serial(Current)
  BY <1>2 DEF Serial, Current
<1>7. ASSUME Sure(Current, k) PROVE PartDone(p, Serial(Current)[k - 1])'
  <2>1. sde_mix_out = IF files[p[1]]["pinball"] = "absent" THEN {} ELSE {p[1]}
    BY <1>2, <1>5, <1>7 DEF PartDone
  <2>2. r = Made(Inputs(files, p[1], p[2]))
    <3>1. CASE files[p[1]]["pinball"] = "absent"
      <4>1. "absent" \in Inputs(files, p[1], p[2])
        BY <1>2, <3>1 DEF Inputs, Reads
      <4>2. Made(Inputs(files, p[1], p[2])) = "absent"
        BY <4>1 DEF Made
      <4> QED  BY <1>1, <2>1, <3>1, <4>2
    <3>2. CASE files[p[1]]["pinball"] # "absent"
      BY <1>1, <2>1, <3>2
    <3> QED  BY <3>1, <3>2
  <2>3. Inputs(files, p[1], p[2]) = Inputs(Serial(Current)[k - 1], p[1], p[2])
    BY <1>4, <1>5, <1>7, ReadsSerial
  <2>4. ~ByStdout(p[2])
    BY <1>2 DEF ByStdout
  <2>5. Serial(Current)[k - 1][p[1]][Writes(p[2])] \in {"any", files[p[1]][Writes(p[2])]}
    BY <1>2, <1>5, <1>7, <2>4 DEF PartDone
  <2> QED  BY <1>2, <1>4, <1>6, <2>2, <2>3, <2>4, <2>5 DEF PartDone
<1>8. PlaceInv' /\ RunInv' /\ RestInv'
  BY <1>4, <1>5, <1>7, OneMovesKeeps
<1>9. SdeInv'
  BY <1>0, <1>2, <1>4 DEF SdeInv, PlaceInv
<1> QED  BY <1>8, <1>9 DEF PipelineInv

\* A process has read its inputs, or waits for one for ever.
LEMMA ReadKeeps == ASSUME PipelineInv, NEW p \in Jobs, Read(p) PROVE PipelineInv'
<1>0. PlaceInv
  BY DEF PipelineInv
<1>1. /\ process[p] = "started" /\ UNCHANGED <<files, sde_mix_out, invocation, job>>
  BY DEF Read
<1>2. Running(p)
  BY <1>1 DEF Running
<1>3. PICK k : IsJob(p, Current, Started, k) /\ (Sure(Current, k) => PartDone(p, Serial(Current)[k - 1]))
  BY <1>2, RunningJob
<1>4. Serial(Current)' = Serial(Current)
  BY <1>1 DEF Serial, Current
<1>5. PICK inputs : inputs = Inputs(files, p[1], p[2])
  OBVIOUS
<1>6. CASE process' = [process EXCEPT ![p] = "hung"] /\ UNCHANGED result
  <2>1. OneMoves(p, "hung") /\ process'[p] = "hung" /\ Running(p)'
    BY <1>0, <1>1, <1>2, <1>6 DEF OneMoves, Running, States, PlaceInv
  <2>2. Sure(Current, k) => PartDone(p, Serial(Current)[k - 1])'
    BY <1>1, <1>3, <1>4, <2>1 DEF PartDone
  <2>3. PlaceInv' /\ RunInv' /\ RestInv'
    BY <1>3, <2>1, <2>2, OneMovesKeeps
  <2>4. SdeInv'
    BY <1>1, <2>1, SdeKeeps
  <2> QED  BY <2>3, <2>4 DEF PipelineInv
<1>7. CASE /\ process' = [process EXCEPT ![p] = "read"]
           /\ \E made \in Results(inputs) : result' = [result EXCEPT ![p] = made]
           /\ ~ ("absent" \in inputs /\ HangsWithout(p[2]))
  <2>1. PICK made \in Results(inputs) : result' = [result EXCEPT ![p] = made]
    BY <1>7
  <2>2. made \in Contents
    BY ResultsAreContents
  <2>3. OneMoves(p, "read") /\ process'[p] = "read" /\ Running(p)' /\ result'[p] = made
    BY <1>0, <1>1, <1>2, <1>7, <2>1, <2>2 DEF OneMoves, Running, States, PlaceInv
  <2>4. ASSUME Sure(Current, k) PROVE PartDone(p, Serial(Current)[k - 1])'
    <3>1. inputs = Inputs(Serial(Current)[k - 1], p[1], p[2]) /\ "cut" \notin inputs
      BY <1>2, <1>3, <1>5, <2>4, ReadsSerial
    <3>2. made = Made(inputs)
      BY <3>1 DEF Results
    <3>3. ByStdout(p[2]) => made # "absent"
      BY <1>7, <3>2 DEF ByStdout, HangsWithout, Made
    <3> QED  BY <1>1, <1>3, <1>4, <2>3, <2>4, <3>1, <3>2, <3>3 DEF PartDone
  <2>5. PlaceInv' /\ RunInv' /\ RestInv'
    BY <1>3, <2>3, <2>4, OneMovesKeeps
  <2>6. SdeInv'
    BY <1>1, <2>3, SdeKeeps
  <2> QED  BY <2>5, <2>6 DEF PipelineInv
<1> QED  BY <1>5, <1>6, <1>7 DEF Read

\* A process has failed, and leaves its output as it was.
LEMMA FailKeeps == ASSUME PipelineInv, NEW p \in Jobs, Fail(p) PROVE PipelineInv'
<1>0. PlaceInv
  BY DEF PipelineInv
<1>1. /\ process[p] = "read" /\ result[p] = "absent" /\ process' = [process EXCEPT ![p] = "ended"]
      /\ UNCHANGED <<files, result, sde_mix_out, invocation, job>>
  BY DEF Fail
<1>2. Running(p) /\ OneMoves(p, "ended") /\ ~Running(p)'
  BY <1>0, <1>1 DEF OneMoves, Running, States, PlaceInv
<1>3. PICK k : IsJob(p, Current, Started, k) /\ (Sure(Current, k) => PartDone(p, Serial(Current)[k - 1]))
  BY <1>2, RunningJob
<1>4. PICK before : before = Serial(Current)[k - 1]
  OBVIOUS
<1>5. Sure(Current, k) => /\ Made(Inputs(before, p[1], p[2])) = "absent"
                          /\ before[p[1]][Writes(p[2])] \in {"any", files[p[1]][Writes(p[2])]}
  BY <1>1, <1>3, <1>4 DEF PartDone
<1>6. Serial(Current)[Started][p[1]][Writes(p[2])] \in {"any", files[p[1]][Writes(p[2])]}
  BY <1>3, <1>4, <1>5, EndsAsExpected
<1>7. PlaceInv' /\ RunInv' /\ RestInv'
  BY <1>1, <1>2, <1>3, <1>6, OneMovesKeeps
<1>8. SdeInv'
  BY <1>1, <1>2, SdeKeeps
<1> QED  BY <1>7, <1>8 DEF PipelineInv

\* A write to the output of a process changes nothing else.
LEMMA OneWrites ==
  ASSUME PlaceInv, NEW p \in Jobs, NEW content \in Contents,
         files' = [files EXCEPT ![p[1]][Writes(p[2])] = content]
  PROVE  /\ files' \in FileTable /\ files'[p[1]][Writes(p[2])] = content
         /\ \A name \in Names, f \in Files : ~ (p[1] = name /\ Writes(p[2]) = f) =>
              files'[name][f] = files[name][f]
<1>1. PICK w : w = Writes(p[2])
  OBVIOUS
<1>2. p[1] \in Names /\ w \in Files /\ files \in [Names -> [Files -> Contents]]
  BY <1>1, StepFiles DEF Jobs, PlaceInv, FileTable
<1>3. PICK name, old, new : name = p[1] /\ old = files /\ new = files'
  OBVIOUS
<1>4. new = [old EXCEPT ![name] = [old[name] EXCEPT ![w] = content]]
  BY <1>1, <1>3
<1>5. /\ new \in [Names -> [Files -> Contents]] /\ new[name][w] = content
      /\ \A other \in Names, f \in Files : ~ (name = other /\ w = f) => new[other][f] = old[other][f]
  <2>1. name \in Names /\ w \in Files /\ old \in [Names -> [Files -> Contents]]
    BY <1>2, <1>3
  <2> QED  BY <1>4, <2>1
<1> QED  BY <1>1, <1>3, <1>5 DEF FileTable

\* A process has begun to write.
LEMMA BeginOutputKeeps == ASSUME PipelineInv, NEW p \in Jobs, BeginOutput(p) PROVE PipelineInv'
<1>0. PlaceInv
  BY DEF PipelineInv
<1>1. /\ process[p] = "read" /\ result[p] # "absent" /\ process' = [process EXCEPT ![p] = "writing"]
      /\ files' = [files EXCEPT ![p[1]][Writes(p[2])] = "cut"]
      /\ UNCHANGED <<result, sde_mix_out, invocation, job>>
  BY DEF BeginOutput
<1>2. /\ files' \in FileTable /\ files'[p[1]][Writes(p[2])] = "cut"
      /\ \A name \in Names, f \in Files : ~ (p[1] = name /\ Writes(p[2]) = f) =>
           files'[name][f] = files[name][f]
  <2>1. "cut" \in Contents
    BY DEF Contents
  <2> QED  BY <1>0, <1>1, <2>1, OneWrites
<1>3. Running(p) /\ OneMoves(p, "writing") /\ process'[p] = "writing" /\ Running(p)'
  BY <1>0, <1>1, <1>2 DEF OneMoves, Running, States, PlaceInv
<1>4. PICK k : IsJob(p, Current, Started, k) /\ (Sure(Current, k) => PartDone(p, Serial(Current)[k - 1]))
  BY <1>3, RunningJob
<1>5. Serial(Current)' = Serial(Current)
  BY <1>1 DEF Serial, Current
<1>6. Sure(Current, k) => PartDone(p, Serial(Current)[k - 1])'
  BY <1>1, <1>2, <1>3, <1>4, <1>5 DEF PartDone
<1>7. PlaceInv' /\ RunInv' /\ RestInv'
  BY <1>3, <1>4, <1>6, OneMovesKeeps
<1>8. SdeInv'
  BY <1>1, <1>3, SdeKeeps
<1> QED  BY <1>7, <1>8 DEF PipelineInv

\* A process has written all of its output.
LEMMA EndOutputKeeps == ASSUME PipelineInv, NEW p \in Jobs, EndOutput(p) PROVE PipelineInv'
<1>0. PlaceInv
  BY DEF PipelineInv
<1>1. /\ process[p] = "writing" /\ process' = [process EXCEPT ![p] = "ended"]
      /\ files' = [files EXCEPT ![p[1]][Writes(p[2])] = result[p]]
      /\ UNCHANGED <<result, sde_mix_out, invocation, job>>
  BY DEF EndOutput
<1>2. /\ files' \in FileTable /\ files'[p[1]][Writes(p[2])] = result[p]
      /\ \A name \in Names, f \in Files : ~ (p[1] = name /\ Writes(p[2]) = f) =>
           files'[name][f] = files[name][f]
  <2>1. result[p] \in Contents
    BY <1>0 DEF PlaceInv
  <2> QED  BY <1>0, <1>1, <2>1, OneWrites
<1>3. Running(p) /\ OneMoves(p, "ended") /\ ~Running(p)'
  BY <1>0, <1>1, <1>2 DEF OneMoves, Running, States, PlaceInv
<1>4. PICK k : IsJob(p, Current, Started, k) /\ (Sure(Current, k) => PartDone(p, Serial(Current)[k - 1]))
  BY <1>3, RunningJob
<1>5. PICK before : before = Serial(Current)[k - 1]
  OBVIOUS
<1>6. Sure(Current, k) => result[p] = Made(Inputs(before, p[1], p[2])) /\ result[p] # "absent"
  BY <1>1, <1>4, <1>5 DEF PartDone
<1>7. Serial(Current)[Started][p[1]][Writes(p[2])] \in {"any", files'[p[1]][Writes(p[2])]}
  BY <1>2, <1>4, <1>5, <1>6, EndsAsExpected
<1>8. PlaceInv' /\ RunInv' /\ RestInv'
  BY <1>3, <1>4, <1>7, OneMovesKeeps
<1>9. SdeInv'
  BY <1>1, <1>3, SdeKeeps
<1> QED  BY <1>8, <1>9 DEF PipelineInv

\* When the script comes to a job, what it has left behind of this invocation runs on, and
\* all else is as the jobs before leave it.
LEMMA BeforeJob ==
  ASSUME PipelineInv, MayGoOn
  PROVE  /\ invocation \in 1 .. Len(Invocations) /\ job \in 1 .. Len(JobsOf(invocation))
         /\ Invocations[invocation] = JobsOf(invocation)
         /\ \A q \in Jobs : Running(q) =>
              \E k \in 1 .. job - 1 :
                /\ JobsOf(invocation)[k] = q /\ ~Waits(q[2])
                /\ Sure(invocation, k) => PartDone(q, Serial(invocation)[k - 1])
         /\ \A name \in Names, f \in Files :
              Untouched(name, f) => Serial(invocation)[job - 1][name][f] \in {"any", files[name][f]}
<1>0. PlaceInv /\ RunInv /\ RestInv /\ Len(Invocations) \in Nat
  BY PipelineAssumption DEF PipelineInv
<1>1. /\ invocation \in 1 .. Len(Invocations) /\ job \in 1 .. Len(JobsOf(invocation))
      /\ Invocations[invocation] = JobsOf(invocation) /\ invocation \in 0 .. Len(Invocations) /\ invocation # 0
  <2>1. invocation \in 1 .. Len(Invocations) /\ invocation # 0
    BY <1>0 DEF MayGoOn, Invoked, PlaceInv
  <2>2. Invocations[invocation] = JobsOf(invocation)
    BY <2>1 DEF JobsOf
  <2>3. job \in 1 .. Len(JobsOf(invocation))
    BY <1>0, <2>2 DEF MayGoOn, Invoked, PlaceInv
  <2> QED  BY <1>0, <2>1, <2>2, <2>3
<1>2. CASE job = 1
  <2>1. \A q \in Jobs : ~Running(q)
    BY <1>2 DEF MayGoOn, Invoked
  <2>2. Current = invocation - 1 /\ Started = Len(JobsOf(Current)) /\ Current \in 0 .. Len(Invocations)
    BY <1>0, <1>1, <1>2 DEF Current, Started
  <2>3. Serial(Current)[Started] = Waited[invocation - 1]
    BY <2>2, SerialSteps
  <2>4. Serial(invocation)[0] = Waited[invocation - 1]
    BY <1>1, SerialSteps DEF StartOf
  <2>5. job - 1 = 0
    BY <1>2
  <2> QED  BY <1>0, <1>1, <2>1, <2>3, <2>4, <2>5 DEF RestInv
<1>3. CASE job # 1
  <2>1. Current = invocation /\ Started = job - 1 /\ job > 1 /\ job \in Nat
    BY <1>0, <1>3 DEF Current, Started, PlaceInv
  <2>2. Waits(JobsOf(invocation)[job - 1][2]) => ~Running(JobsOf(invocation)[job - 1])
    BY <1>1, <2>1 DEF MayGoOn
  <2>3. ASSUME NEW q \in Jobs, Running(q)
        PROVE  \E k \in 1 .. job - 1 :
                 /\ JobsOf(invocation)[k] = q /\ ~Waits(q[2])
                 /\ Sure(invocation, k) => PartDone(q, Serial(invocation)[k - 1])
    <3>1. PICK k : IsJob(q, Current, Started, k) /\ (Sure(Current, k) => PartDone(q, Serial(Current)[k - 1]))
      BY <2>3, RunningJob
    <3>2. k \in 1 .. job - 1 /\ JobsOf(invocation)[k] = q /\ (k < job - 1 => ~Waits(q[2]))
      BY <2>1, <3>1 DEF IsJob
    <3>3. k = job - 1 => ~Waits(q[2])
      BY <2>2, <2>3, <3>2
    <3>4. ~Waits(q[2])
      BY <2>1, <3>2, <3>3
    <3> QED  BY <2>1, <3>1, <3>2, <3>4
  <2>4. \A name \in Names, f \in Files :
          Untouched(name, f) => Serial(invocation)[job - 1][name][f] \in {"any", files[name][f]}
    BY <1>0, <2>1 DEF RestInv
  <2> QED  BY <1>1, <2>3, <2>4
<1> QED  BY <1>2, <1>3

\* The script has started the next job.
LEMMA StartJobKeeps == ASSUME PipelineInv, StartJob PROVE PipelineInv'
<1>0. PlaceInv /\ SdeInv /\ MayGoOn /\ Len(Invocations) \in Nat
  BY PipelineAssumption DEF PipelineInv, StartJob
<1>1. /\ invocation \in 1 .. Len(Invocations) /\ job \in 1 .. Len(JobsOf(invocation))
      /\ Invocations[invocation] = JobsOf(invocation)
      /\ \A q \in Jobs : Running(q) =>
           \E k \in 1 .. job - 1 :
             /\ JobsOf(invocation)[k] = q /\ ~Waits(q[2])
             /\ Sure(invocation, k) => PartDone(q, Serial(invocation)[k - 1])
      /\ \A name \in Names, f \in Files :
           Untouched(name, f) => Serial(invocation)[job - 1][name][f] \in {"any", files[name][f]}
  BY <1>0, BeforeJob
<1>2. PICK p : p = JobsOf(invocation)[job]
  OBVIOUS
<1>3. /\ invocation \in 0 .. Len(Invocations) /\ p \in Jobs /\ Len(JobsOf(invocation)) \in Nat
      /\ job \in Nat \ {0}
      /\ \A k, l \in 1 .. Len(JobsOf(invocation)) : JobsOf(invocation)[k] = JobsOf(invocation)[l] => k = l
  BY <1>0, <1>1, <1>2, JobsAreJobs DEF PlaceInv
<1>4. /\ process' = [process EXCEPT ![p] = "started"] /\ job' = job + 1
      /\ files' = IF ByStdout(p[2]) THEN [files EXCEPT ![p[1]][Writes(p[2])] = "cut"] ELSE files
      /\ UNCHANGED <<result, sde_mix_out, invocation>>
  BY <1>1, <1>2 DEF StartJob
<1>5. PICK n, J : n \in Nat /\ n = job /\ J = JobsOf(invocation)
  BY <1>3
<1>6. /\ Current' = invocation /\ Started' = n /\ n \in 1 .. Len(J) /\ J[n] = p /\ job' # 1
      /\ Serial(Current)' = Serial(invocation)
      /\ \A l : Sure(Current, l)' <=> Sure(invocation, l)
  <2>1. Current' = invocation /\ Started' = n /\ n \in 1 .. Len(J) /\ J[n] = p /\ job' # 1
    BY <1>1, <1>2, <1>3, <1>4, <1>5 DEF Current, Started
  <2> QED  BY <2>1 DEF Serial, Sure, Known, JobsOf, StartOf
<1>7. ASSUME NEW q \in Jobs, Running(q)
      PROVE  /\ q # p
             /\ Disturbs(q, p) => ~Sure(invocation, n)
             /\ \A k \in 1 .. job - 1 : J[k] = q /\ Disturbs(p, q) => ~Sure(invocation, k)
  <2>1. PICK k \in 1 .. job - 1 : J[k] = q /\ ~Waits(q[2])
    BY <1>1, <1>5, <1>7
  <2>2. k \in 1 .. Len(J) /\ k # n /\ (IF k < n THEN k ELSE n) = k /\ (IF n < k THEN n ELSE k) = k
    BY <1>5, <1>6
  <2>3. q # p
    BY <1>3, <1>5, <1>6, <2>1, <2>2
  <2>4. Disturbs(q, p) => ~Sure(invocation, n)
    BY <1>3, <1>5, <1>6, <2>1, <2>2, DisturbedJob
  <2>5. Disturbs(p, q) => ~Sure(invocation, k)
    BY <1>3, <1>5, <1>6, <2>1, <2>2, DisturbedJob
  <2>6. \A l \in 1 .. job - 1 : J[l] = q => l = k
    BY <1>3, <1>5, <1>6, <2>1, <2>2
  <2> QED  BY <2>3, <2>4, <2>5, <2>6
<1>8. /\ files' \in FileTable
      /\ files'[p[1]][Writes(p[2])] = IF ByStdout(p[2]) THEN "cut" ELSE files[p[1]][Writes(p[2])]
      /\ \A name \in Names, f \in Files : ~ (p[1] = name /\ Writes(p[2]) = f) =>
           files'[name][f] = files[name][f]
  <2>1. CASE ByStdout(p[2])
    <3>1. "cut" \in Contents
      BY DEF Contents
    <3>2. files' = [files EXCEPT ![p[1]][Writes(p[2])] = "cut"]
      BY <1>4, <2>1
    <3>3. /\ files' \in FileTable /\ files'[p[1]][Writes(p[2])] = "cut"
          /\ \A name \in Names, f \in Files : ~ (p[1] = name /\ Writes(p[2]) = f) =>
               files'[name][f] = files[name][f]
      BY <1>0, <1>3, <3>1, <3>2, OneWrites
    <3> QED  BY <2>1, <3>3
  <2>2. CASE ~ByStdout(p[2])
    BY <1>0, <1>4, <2>2 DEF PlaceInv
  <2> QED  BY <2>1, <2>2
<1>9. /\ process' \in [Jobs -> States] /\ process'[p] = "started" /\ Running(p)'
      /\ \A q \in Jobs : q # p => process'[q] = process[q] /\ (Running(q)' <=> Running(q))
  BY <1>0, <1>3, <1>4 DEF PlaceInv, States, Running
<1>10. PlaceInv'
  <2>1. job' \in Nat \ {0} /\ invocation' \in 1 .. Len(Invocations) /\ job' <= Len(Invocations[invocation']) + 1
    BY <1>1, <1>3, <1>4
  <2> QED  BY <1>0, <1>4, <1>8, <1>9, <2>1 DEF PlaceInv
<1>11. RunInv'
  <2> SUFFICES ASSUME NEW q \in Jobs, Running(q)'
               PROVE  \E k : /\ IsJob(q, invocation, n, k)
                             /\ Sure(invocation, k) => PartDone(q, Serial(invocation)[k - 1])'
    BY <1>4, <1>6 DEF RunInv, IsJob
  <2>0. q[1] \in Names /\ Writes(q[2]) \in Files /\ "pinball" \in Files /\ Writes(p[2]) # "pinball"
    BY <1>3, StepFiles, PinballStays DEF Jobs, Files
  <2>1. CASE q = p
    <3>1. IsJob(p, invocation, n, n)
      BY <1>5, <1>6 DEF IsJob
    <3>2. ASSUME Sure(invocation, n) PROVE PartDone(p, Serial(invocation)[n - 1])'
      <4>1. Untouched(p[1], Writes(p[2]))
        BY <1>7, <3>2 DEF Untouched, Disturbs
      <4>2. Serial(invocation)[n - 1][p[1]][Writes(p[2])] \in {"any", files[p[1]][Writes(p[2])]}
        BY <1>1, <1>5, <2>0, <2>1, <4>1
      <4> QED  BY <1>4, <1>8, <1>9, <4>2 DEF PartDone, Serial
    <3> QED  BY <2>1, <3>1, <3>2
  <2>2. CASE q # p
    <3>1. Running(q) /\ process'[q] = process[q]
      BY <1>9, <2>2
    <3>2. PICK k \in 1 .. job - 1 : /\ J[k] = q /\ ~Waits(q[2])
                                    /\ Sure(invocation, k) => PartDone(q, Serial(invocation)[k - 1])
      BY <1>1, <1>5, <3>1
    <3>3. IsJob(q, invocation, n, k)
      BY <1>5, <3>2 DEF IsJob
    <3>4. ASSUME Sure(invocation, k) PROVE PartDone(q, Serial(invocation)[k - 1])'
      <4>1. ~Disturbs(p, q)
        BY <1>7, <3>1, <3>2, <3>4
      <4>2. files'[q[1]][Writes(q[2])] = files[q[1]][Writes(q[2])]
        BY <1>8, <2>0, <4>1 DEF Disturbs
      <4>3. files'[q[1]]["pinball"] = files[q[1]]["pinball"]
        BY <1>8, <2>0
      <4> QED  BY <1>4, <3>1, <3>2, <3>4, <4>2, <4>3 DEF PartDone, Serial
    <3> QED  BY <3>3, <3>4
  <2> QED  BY <2>1, <2>2
<1>12. RestInv'
  <2> SUFFICES ASSUME NEW name \in Names, NEW f \in Files, Untouched(name, f)'
               PROVE  Serial(invocation)[n][name][f] \in {"any", files'[name][f]}
    BY <1>6 DEF RestInv
  <2>1. \A q \in Jobs : Running(q)' => ~ (q[1] = name /\ Writes(q[2]) = f)
    BY DEF Untouched
  <2>2. ~ (p[1] = name /\ Writes(p[2]) = f)
    BY <1>3, <1>9, <2>1
  <2>3. Untouched(name, f)
    BY <1>7, <1>9, <2>1 DEF Untouched
  <2>4. Serial(invocation)[n - 1][name][f] \in {"any", files'[name][f]}
    BY <1>1, <1>5, <1>8, <2>2, <2>3
  <2>5. Serial(invocation)[n] = Alone(Serial(invocation)[n - 1], J, n) /\ Serial(invocation)[n - 1] \in SerialTable
    <3>1. n - 1 \in 0 .. Len(J)
      BY <1>6
    <3> QED  BY <1>3, <1>5, <1>6, <3>1, SerialSteps
  <2> QED  BY <1>3, <1>6, <2>2, <2>4, <2>5, AloneMakes
<1>13. SdeInv'
  <2>1. process[p] # "profiled"
    BY <1>3, <1>7 DEF Running
  <2>2. \A q \in Jobs : process'[q] = "profiled" <=> process[q] = "profiled"
    BY <1>9, <2>1
  <2> QED  BY <1>0, <1>4, <2>2 DEF SdeInv
<1> QED  BY <1>10, <1>11, <1>12, <1>13 DEF PipelineInv

\* What runs and what was made stays as it is when nothing but the script moves on.
LEMMA NothingMoves ==
  ASSUME PipelineInv, UNCHANGED <<files, process, result, sde_mix_out>>, Current' = Current, Started' = Started
  PROVE  RunInv' /\ RestInv' /\ SdeInv'
<1>0. /\ RunInv /\ RestInv /\ SdeInv /\ Serial(Current)' = Serial(Current)
      /\ \A l : Sure(Current, l)' <=> Sure(Current, l)
  BY DEF PipelineInv, Serial, Sure, Known, JobsOf, StartOf
<1>1. RunInv'
  <2> SUFFICES ASSUME NEW p \in Jobs, Running(p)
               PROVE  \E k : /\ IsJob(p, Current, Started, k)
                             /\ Sure(Current, k) => PartDone(p, Serial(Current)[k - 1])'
    BY <1>0 DEF RunInv, IsJob, Running
  <2>1. PICK k : IsJob(p, Current, Started, k) /\ (Sure(Current, k) => PartDone(p, Serial(Current)[k - 1]))
    BY RunningJob
  <2>2. Sure(Current, k) => PartDone(p, Serial(Current)[k - 1])'
    BY <1>0, <2>1 DEF PartDone
  <2> QED  BY <2>1, <2>2
<1>2. RestInv'
  BY <1>0 DEF RestInv, Untouched, Running
<1>3. SdeInv'
  BY <1>0 DEF SdeInv
<1> QED  BY <1>1, <1>2, <1>3

\* The invocation has come to its end; what it has left behind runs on.
LEMMA EndOfInvocationKeeps == ASSUME PipelineInv, EndOfInvocation PROVE PipelineInv'
<1>0. PlaceInv /\ Len(Invocations) \in Nat
  BY PipelineAssumption DEF PipelineInv
<1>1. /\ invocation <= Len(Invocations) /\ job > Len(Invocations[invocation])
      /\ invocation' = invocation + 1 /\ job' = 1 /\ UNCHANGED <<files, process, result, sde_mix_out>>
  BY DEF EndOfInvocation
<1>2. /\ invocation \in 0 .. Len(Invocations) /\ invocation # 0 /\ invocation \in Nat
      /\ JobsOf(invocation) = Invocations[invocation]
      /\ Len(JobsOf(invocation)) \in Nat \ {0} /\ job \in Nat \ {0}
  <2>1. invocation \in 0 .. Len(Invocations) /\ invocation # 0 /\ invocation \in Nat /\ job \in Nat \ {0}
    BY <1>0, <1>1 DEF PlaceInv
  <2> QED  BY <2>1, JobsAreJobs DEF JobsOf
<1>3. job = Len(JobsOf(invocation)) + 1
  BY <1>0, <1>1, <1>2 DEF PlaceInv
<1>4. Current = invocation /\ Started = Len(JobsOf(invocation)) /\ Current' = invocation
        /\ Started' = Len(JobsOf(invocation))
  <2>1. Current = invocation /\ Started = job - 1
    BY <1>2, <1>3 DEF Current, Started
  <2>2. Current' = invocation
    BY <1>1, <1>2 DEF Current
  <2>3. Started' = Len(JobsOf(invocation))
    BY <1>1, <2>2 DEF Started, JobsOf
  <2> QED  BY <1>2, <1>3, <2>1, <2>2, <2>3
<1>5. PlaceInv'
  BY <1>0, <1>1, <1>2 DEF PlaceInv
<1> QED  BY <1>1, <1>4, <1>5, NothingMoves DEF PipelineInv

LEMMA NextPipeline == ASSUME PipelineInv, [Next]_vars PROVE PipelineInv'
<1>1. CASE StartJob
  BY <1>1, StartJobKeeps
<1>2. CASE EndOfInvocation
  BY <1>2, EndOfInvocationKeeps
<1>3. ASSUME NEW p \in Jobs, Process(p) PROVE PipelineInv'
  BY <1>3, RunSdeKeeps, MoveSdeMixKeeps, ReadKeeps, FailKeeps, BeginOutputKeeps, EndOutputKeeps DEF Process
<1>4. CASE UNCHANGED vars
  <2>1. PlaceInv'
    BY <1>4 DEF vars, PipelineInv, PlaceInv
  <2>2. Current' = Current /\ Started' = Started /\ UNCHANGED <<files, process, result, sde_mix_out>>
    BY <1>4 DEF vars, Current, Started
  <2> QED  BY <2>1, <2>2, NothingMoves DEF PipelineInv
<1> QED  BY <1>1, <1>2, <1>3, <1>4 DEF Next, Script, Terminated

\* A running process is a job of the current invocation, and what nobody writes is made.
LEMMA PipelineInvariant == Spec => []PipelineInv
<1>1. Init => PipelineInv
  BY InitPipeline
<1>2. PipelineInv /\ [Next]_vars => PipelineInv'
  BY NextPipeline
<1> QED  BY <1>1, <1>2, PTL DEF Spec
--------------------------------------------------------------------------------
(* The properties *)

\* Between two invocations the files are those of Waited, where these are known.
LEMMA IdleIsWaited ==
  ASSUME PipelineInv, job = 1, \A p \in Jobs : ~Running(p)
  PROVE  /\ Waited[invocation - 1] \in SerialTable /\ invocation - 1 \in 0 .. Len(Invocations)
         /\ \A name \in Names, f \in Files : Waited[invocation - 1][name][f] \in {"any", files[name][f]}
<1>1. PlaceInv /\ RestInv /\ Current \in 0 .. Len(Invocations)
  BY CurrentJobs DEF PipelineInv
<1>2. Current = invocation - 1 /\ Started = Len(JobsOf(Current))
  BY DEF Current, Started
<1>3. Serial(Current)[Started] = Waited[invocation - 1] /\ Waited[invocation - 1] \in SerialTable
  BY <1>1, <1>2, SerialSteps, WaitedType
<1> QED  BY <1>1, <1>2, <1>3 DEF RestInv, Untouched

\* Theorem: whatever steps a user lets MindProx.py run, in whatever invocations, each file is,
\* when the processes of an invocation have ended, what the steps would have made of it one
\* after the other; only of what a step makes that writes, or reads, a file which one that
\* runs at the same time may write, and of what later steps make of that, nothing is said.
THEOREM StepsAsIfWaited == Spec => []AsIfWaited
<1>1. PipelineInv => AsIfWaited
  BY IdleIsWaited DEF AsIfWaited
<1> QED  BY <1>1, PipelineInvariant, PTL

\* When no job is disturbed, all that is expected is known.
LEMMA IndependentIsKnown ==
  ASSUME Independent, NEW i \in 0 .. Len(Invocations)
  PROVE  \A name \in Names, f \in Files : Waited[i][name][f] # "any"
<1> DEFINE IsKnown(now) == \A name \in Names, f \in Files : now[name][f] # "any"
<1>0. Len(Invocations) \in Nat
  BY PipelineAssumption
<1>1. IsKnown(InitialFiles)
  BY PipelineAssumption DEF Contents
<1>2. ASSUME NEW j \in 0 .. Len(Invocations), IsKnown(StartOf(j)) PROVE IsKnown(Waited[j])
  <2>0. Len(JobsOf(j)) \in Nat
    BY JobsAreJobs
  <2> DEFINE T == {k \in Nat : k <= Len(JobsOf(j)) /\ ~IsKnown(Serial(j)[k])}
  <2>1. ASSUME T # {} PROVE FALSE
    <3>1. PICK k \in T : \A m \in T : k <= m
      <4>1. T \subseteq Nat /\ T # {}
        BY <2>1
      <4> HIDE DEF T
      <4> QED  BY <4>1, LeastNatural
    <3>2. k # 0
      BY <1>2, <3>1, SerialSteps
    <3>3. k - 1 \in Nat /\ k - 1 \notin T /\ k - 1 <= Len(JobsOf(j)) /\ k \in 1 .. Len(JobsOf(j))
          /\ k - 1 \in 0 .. Len(JobsOf(j))
      BY <2>0, <3>1, <3>2
    <3>4. IsKnown(Serial(j)[k - 1])
      BY <3>3
    <3>5. PICK p \in Jobs : p = JobsOf(j)[k]
      BY <3>3, JobsAreJobs
    <3>6. ~Disturbed(JobsOf(j), k)
      <4>1. j # 0
        BY <3>3 DEF JobsOf
      <4> QED  BY <1>0, <3>3, <4>1 DEF Independent, JobsOf
    <3>7. "any" \notin Inputs(Serial(j)[k - 1], p[1], p[2])
      <4>1. p[1] \in Names /\ Reads(p[2]) \subseteq Files
        BY StepFiles DEF Jobs
      <4> QED  BY <3>4, <4>1 DEF Inputs
    <3>8. Expected(Serial(j)[k - 1], JobsOf(j), k) = Made(Inputs(Serial(j)[k - 1], p[1], p[2]))
      BY <3>5, <3>6, <3>7, ExpectedIs DEF Known
    <3>9. Expected(Serial(j)[k - 1], JobsOf(j), k) # "any"
      BY <3>8, MadeIsContents DEF Contents
    <3>10. Serial(j)[k] = Alone(Serial(j)[k - 1], JobsOf(j), k) /\ Serial(j)[k - 1] \in SerialTable
      BY <3>3, SerialSteps
    <3>11. IsKnown(Serial(j)[k])
      BY <3>4, <3>5, <3>9, <3>10, AloneMakes
    <3> QED  BY <3>1, <3>11
  <2> QED  BY <2>0, <2>1, SerialSteps
<1> DEFINE U == {j \in Nat : j <= Len(Invocations) /\ ~IsKnown(Waited[j])}
<1>3. ASSUME U # {} PROVE FALSE
  <2>1. PICK j \in U : \A m \in U : j <= m
    <3>1. U \subseteq Nat /\ U # {}
      BY <1>3
    <3> HIDE DEF U
    <3> QED  BY <3>1, LeastNatural
  <2>2. j # 0
    BY <1>1, <2>1, WaitedSteps
  <2>3. j - 1 \in Nat /\ j - 1 \notin U /\ j - 1 <= Len(Invocations) /\ j \in 0 .. Len(Invocations)
    BY <1>0, <2>1, <2>2
  <2>4. IsKnown(StartOf(j))
    BY <2>2, <2>3 DEF StartOf
  <2> QED  BY <1>2, <2>1, <2>3, <2>4
<1> QED  BY <1>0, <1>3

\* Theorem: if the user sees to it that a step which is left behind has nothing to do with
\* those that come after it in the same invocation, that holds of every file: when the
\* processes have ended, the files are just those that the steps make one after the other.
THEOREM IndependentStepsAreExact ==
  Independent =>
    (Spec => [](job = 1 /\ (\A p \in Jobs : ~Running(p)) => files = Waited[invocation - 1]))
<1> SUFFICES ASSUME Independent
             PROVE  Spec => [](job = 1 /\ (\A p \in Jobs : ~Running(p)) => files = Waited[invocation - 1])
  OBVIOUS
<1>1. ASSUME PipelineInv, job = 1, \A p \in Jobs : ~Running(p) PROVE files = Waited[invocation - 1]
  <2>1. PICK w : w = Waited[invocation - 1]
    OBVIOUS
  <2>2. /\ files \in [Names -> [Files -> Contents]] /\ w \in [Names -> [Files -> Foreseen]]
        /\ \A name \in Names, f \in Files : w[name][f] \in {"any", files[name][f]} /\ w[name][f] # "any"
    BY <1>1, <2>1, IdleIsWaited, IndependentIsKnown DEF PipelineInv, PlaceInv, FileTable, SerialTable
  <2>3. \A name \in Names : files[name] = w[name]
    <3> SUFFICES ASSUME NEW name \in Names PROVE files[name] = w[name]
      OBVIOUS
    <3>1. files[name] \in [Files -> Contents] /\ w[name] \in [Files -> Foreseen]
      BY <2>2
    <3>2. \A f \in Files : files[name][f] = w[name][f]
      BY <2>2
    <3> QED  BY <3>1, <3>2
  <2> QED  BY <2>1, <2>2, <2>3
<1>2. PipelineInv => (job = 1 /\ (\A p \in Jobs : ~Running(p)) => files = Waited[invocation - 1])
  BY <1>1
<1> QED  BY <1>2, PipelineInvariant, PTL
================================================================================
