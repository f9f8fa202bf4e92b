----------------------- MODULE ConsistencyCheckProofs -----------------------
(***************************************************************************)
(* ConsistencyCheck for any users, features, feature values, sample size and    *)
(* number of retries: the arithmetic of the thresholds, the type invariant, that  *)
(* the DAG never comes to its alarm, whatever the offline store has, and that only *)
(* dying tries fail a run.  CheckInv is inductive.                               *)
(***************************************************************************)
EXTENDS ConsistencyCheck, FiniteSetTheorems, TLAPS

\* A value that differs from itself by less than 1 % does not deviate, whatever it is.
LEMMA SmallNoiseIsFine ==
    ASSUME NEW v \in Int, NEW p \in -9..9
    PROVE  ~Deviates(v * (1000 + p), 1000 * v)
  <1>1. v * (1000 + p) \in Int /\ v * p \in Int
    OBVIOUS
  <1>2. v * (1000 + p) = 1000 * v + v * p
    OBVIOUS
  <1>3. CASE v >= 0
    <2>1. v * p <= 9 * v /\ v * p >= -9 * v
      <3>1. v * (9 - p) >= 0 /\ v * (9 + p) >= 0
        BY <1>3
      <3>2. v * (9 - p) = 9 * v - v * p /\ v * (9 + p) = 9 * v + v * p
        OBVIOUS
      <3> QED  BY <3>1, <3>2, <1>1
    <2> QED  BY <1>1, <1>2, <1>3, <2>1 DEF Deviates, Magnitude
  <1>4. CASE v < 0
    <2>1. v * p >= 9 * v /\ v * p <= -9 * v
      <3>1. v * (9 - p) <= 0 /\ v * (9 + p) <= 0
        BY <1>4
      <3>2. v * (9 - p) = 9 * v - v * p /\ v * (9 + p) = 9 * v + v * p
        OBVIOUS
      <3> QED  BY <3>1, <3>2, <1>1
    <2> QED  BY <1>1, <1>2, <1>4, <2>1 DEF Deviates, Magnitude
  <1> QED  BY <1>3, <1>4

\* The three thresholds over the same rate agree: the DAG alarms exactly when a skew would
\* be high or critical, the severity is none exactly when no user is inconsistent, and
\* what is medium or worse is not healthy
\* (consistency_validator.py:40, consistency_validation_dag.py:92, skew_detector.py:12-25).
THEOREM ThresholdsAgree ==
    \A n \in Nat, bad \in Nat :
        /\ Alarming(bad, n) <=> SkewSeverity(bad, n) \in {"high", "critical"}
        /\ SkewSeverity(bad, n) = "none" <=> bad = 0
        /\ SkewSeverity(bad, n) \in {"medium", "high", "critical"} => ~Healthy(bad, n)
  <1> SUFFICES ASSUME NEW n \in Nat, NEW bad \in Nat
               PROVE  /\ Alarming(bad, n) <=> SkewSeverity(bad, n) \in {"high", "critical"}
                      /\ SkewSeverity(bad, n) = "none" <=> bad = 0
                      /\ SkewSeverity(bad, n) \in {"medium", "high", "critical"}
                            => ~Healthy(bad, n)
    OBVIOUS
  <1>1. CASE 10 * bad > n
    <2>1. SkewSeverity(bad, n) = "critical"
      BY <1>1 DEF SkewSeverity
    <2> QED  BY <1>1, <2>1 DEF Alarming, Healthy
  <1>2. CASE 10 * bad <= n /\ 20 * bad > n
    <2>1. SkewSeverity(bad, n) = "high"
      BY <1>2 DEF SkewSeverity
    <2> QED  BY <1>2, <2>1 DEF Alarming, Healthy
  <1>3. CASE 20 * bad <= n /\ 50 * bad > n
    <2>1. SkewSeverity(bad, n) = "medium"
      BY <1>3 DEF SkewSeverity
    <2> QED  BY <1>3, <2>1 DEF Alarming, Healthy
  <1>4. CASE 50 * bad <= n /\ bad > 0
    <2>1. SkewSeverity(bad, n) = "low"
      BY <1>4 DEF SkewSeverity
    <2> QED  BY <1>4, <2>1 DEF Alarming, Healthy
  <1>5. CASE bad = 0
    <2>1. SkewSeverity(bad, n) = "none"
      BY <1>5 DEF SkewSeverity
    <2> QED  BY <1>5, <2>1 DEF Alarming, Healthy
  <1> QED  BY <1>1, <1>2, <1>3, <1>4, <1>5

-----------------------------------------------------------------------------
(* The invariant *)

Both == {"dag", "page"}
Entry == [phase : {"rest", "due", "read", "metric", "branch"},
          todo : SUBSET Users, read : [Users -> Hashes]]
HaveHash(entry) == {u \in Users : entry.read[u] # Absent}

\* Sets of users are finite, and the smaller has no more of them.
LEMMA UsersAreFew ==
    ASSUME NEW S \in SUBSET Users, NEW T \in SUBSET S
    PROVE  Cardinality(S) \in Nat /\ Cardinality(T) \in Nat
           /\ Cardinality(T) <= Cardinality(S)
  BY CheckAssumption, FS_Subset, FS_CardinalityType

\* A step that gives one check a new entry and leaves the reports alone.
LEMMA EntryKeeps ==
    ASSUME CheckInv, NEW c \in Both, NEW entry \in Entry,
           check' = [check EXCEPT ![c] = entry],
           Cardinality(entry.todo \cup HaveHash(entry)) <= SampleSize,
           UNCHANGED <<store, report, deaths, outcome>>,
           tries' \in 0..(Attempts - 1), tries' <= tries
    PROVE  CheckInv'
  <1>1. TypeOK'
    BY DEF CheckInv, TypeOK, Both, Entry
  <1>2. NothingFound' /\ OnlyDeathsFail'
    BY DEF CheckInv, NothingFound, OnlyDeathsFail
  <1>3. tries' <= deaths'
    BY CheckAssumption DEF CheckInv, TypeOK
  <1>4. ReadsAreSampled'
    <2>1. check'[c] = entry /\ \A d \in Both \ {c} : check'[d] = check[d]
      BY DEF CheckInv, TypeOK, Both
    <2>2. Found(c)' = HaveHash(entry) /\ \A d \in Both \ {c} : Found(d)' = Found(d)
      BY <2>1 DEF Found, HaveHash
    <2> QED  BY <2>1, <2>2 DEF CheckInv, ReadsAreSampled, Both
  <1> QED  BY <1>1, <1>2, <1>3, <1>4 DEF CheckInv

\* Nothing is read yet.
LEMMA Fresh ==
    ASSUME NEW phase \in {"rest", "due", "read", "metric", "branch"},
           NEW S \in SUBSET Users
    PROVE  /\ [phase |-> phase, todo |-> S, read |-> NothingRead] \in Entry
           /\ HaveHash([phase |-> phase, todo |-> S, read |-> NothingRead]) = {}
           /\ Cardinality({}) <= SampleSize
  <1>1. NothingRead \in [Users -> Hashes]
    BY DEF NothingRead, Hashes
  <1>2. \A u \in Users : NothingRead[u] = Absent
    BY DEF NothingRead
  <1>3. Cardinality({}) <= SampleSize
    BY FS_EmptySet, CheckAssumption
  <1> HIDE DEF NothingRead
  <1> QED  BY <1>1, <1>2, <1>3 DEF Entry, HaveHash

\* A check that starts over, with its report untouched or withdrawn.
LEMMA EntersKeeps ==
    ASSUME CheckInv, NEW c \in Both,
           NEW phase \in {"rest", "due", "read", "metric", "branch"}, Enters(c, phase),
           UNCHANGED store,
           NEW bad \in Nat, NEW n \in Nat, bad <= n, n <= SampleSize,
           c = "dag" => bad = 0,
           report' = [report EXCEPT ![c] = [bad |-> bad, n |-> n]] \/ UNCHANGED report,
           tries' \in 0..(Attempts - 1), deaths' \in 0..MaxDeaths, tries' <= deaths',
           deaths' >= deaths,
           outcome' \in {"none", "consistency_ok", "failed"},
           outcome' = "failed" => deaths' >= Attempts
    PROVE  CheckInv'
  <1> DEFINE entry == [phase |-> phase, todo |-> {}, read |-> NothingRead]
  <1>1. entry \in Entry /\ HaveHash(entry) = {} /\ Cardinality({}) <= SampleSize
    BY Fresh
  <1>2. check' = [check EXCEPT ![c] = entry]
    BY DEF Enters, Goes
  <1>3. entry.todo = {}
    OBVIOUS
  <1> HIDE DEF entry
  <1>4. /\ report' \in [Both -> [bad : 0..SampleSize, n : 0..SampleSize]]
        /\ \A d \in Both : report'[d].bad <= report'[d].n
        /\ \A d \in Both : report'[d] = report[d] \/ (d = c /\ report'[d].bad = bad)
    <2>0. /\ report \in [Both -> [bad : 0..SampleSize, n : 0..SampleSize]]
          /\ \A d \in Both : report[d].bad <= report[d].n
      BY DEF CheckInv, TypeOK, Both
    <2>1. CASE UNCHANGED report
      BY <2>0, <2>1
    <2>2. CASE report' = [report EXCEPT ![c] = [bad |-> bad, n |-> n]]
      <3> DEFINE r == [bad |-> bad, n |-> n]
      <3>1. r \in [bad : 0..SampleSize, n : 0..SampleSize] /\ r.bad = bad /\ r.n = n
        BY CheckAssumption
      <3>2. report' = [report EXCEPT ![c] = r]
        BY <2>2
      <3> HIDE DEF r
      <3>3. report'[c] = r /\ \A d \in Both \ {c} : report'[d] = report[d]
        BY <2>0, <3>2
      <3>4. report' \in [Both -> [bad : 0..SampleSize, n : 0..SampleSize]]
        BY <2>0, <3>1, <3>2
      <3> QED  BY <2>0, <3>1, <3>3, <3>4
    <2> QED  BY <2>1, <2>2
  <1>5. TypeOK'
    BY <1>1, <1>2, <1>4 DEF CheckInv, TypeOK, Both, Entry
  <1>6. NothingFound' /\ OnlyDeathsFail'
    BY <1>4 DEF CheckInv, NothingFound, OnlyDeathsFail, Both
  <1>7. ReadsAreSampled'
    <2>1. check'[c] = entry /\ \A d \in Both \ {c} : check'[d] = check[d]
      BY <1>2 DEF CheckInv, TypeOK, Both
    <2>2. Found(c)' = HaveHash(entry) /\ \A d \in Both \ {c} : Found(d)' = Found(d)
      BY <2>1 DEF Found, HaveHash
    <2> QED  BY <1>1, <1>3, <2>1, <2>2 DEF CheckInv, ReadsAreSampled, Both
  <1> QED  BY <1>5, <1>6, <1>7 DEF CheckInv

\* No comparison finds a user inconsistent when no perturbation reaches 1 %.
LEMMA ComparesFairly ==
    ASSUME CheckInv, NEW c \in Both, NEW noise \in [Users -> [Features -> Noise(c)]],
           \A p \in Noise(c) : Magnitude(p) <= 9
    PROVE  Inconsistent(c, noise) = {}
  <1> SUFFICES ASSUME NEW u \in Found(c), NEW f \in Features
               PROVE  ~Deviates(Offline(c, u, f, noise), 1000 * check[c].read[u][f])
    BY DEF Inconsistent
  <1>1. u \in Users /\ check[c].read[u] \in [Features -> Values]
    BY DEF Found, CheckInv, TypeOK, Hashes, Both
  <1>2. check[c].read[u][f] \in Int
    BY <1>1, CheckAssumption
  <1>3. noise[u][f] \in Noise(c) /\ Noise(c) \subseteq Int
    <2>1. Noise(c) \subseteq Int
      <3>1. DagNoise \subseteq Int
        BY CheckAssumption
      <3> QED  BY <3>1, CheckAssumption DEF Noise
    <2> QED  BY <1>1, <2>1
  <1>4. noise[u][f] \in -9..9
    BY <1>3 DEF Magnitude
  <1> QED  BY <1>2, <1>4, SmallNoiseIsFine DEF Offline

\* The steps both checks have.
LEMMA ProceedsKeeps ==
    ASSUME CheckInv, NEW c \in Both,
           Begin(c) \/ Sample(c) \/ Compare(c) \/ \E u \in Users : Read(c, u)
    PROVE  CheckInv'
  <1>0. /\ check[c] \in Entry /\ check \in [Both -> Entry]
        /\ tries \in 0..(Attempts - 1) /\ deaths \in 0..MaxDeaths /\ tries <= deaths
        /\ outcome \in {"none", "consistency_ok", "failed"}
        /\ outcome = "failed" => deaths >= Attempts
        /\ deaths \in Nat /\ deaths >= deaths /\ 0 \in 0..(Attempts - 1) /\ 0 <= deaths
        /\ 0 <= 0 /\ 0 <= SampleSize
    BY CheckAssumption DEF CheckInv, TypeOK, NothingFound, OnlyDeathsFail, Both, Entry
  <1>1. CASE Begin(c)
    BY <1>0, <1>1, EntersKeeps DEF Begin, NoRate
  <1>2. CASE Sample(c)
    <2>1. PICK S \in SUBSET Users :
            /\ Cardinality(S) <= SampleSize
            /\ \/ Enters(c, "branch") /\ tries' = 0
               \/ /\ Goes(c, "read", S, NothingRead)
                  /\ UNCHANGED tries
      BY <1>2 DEF Sample
    <2>2. CASE Enters(c, "branch") /\ tries' = 0
      BY <1>0, <1>2, <2>2, EntersKeeps DEF Sample
    <2>3. CASE /\ Goes(c, "read", S, NothingRead)
               /\ UNCHANGED tries
      <3> DEFINE entry == [phase |-> "read", todo |-> S, read |-> NothingRead]
      <3>1. check' = [check EXCEPT ![c] = entry]
        BY <2>3 DEF Goes
      <3>2. entry \in Entry /\ entry.todo = S /\ HaveHash(entry) = {}
        BY Fresh
      <3>3. Cardinality(entry.todo \cup HaveHash(entry)) <= SampleSize
        <4>1. entry.todo \cup HaveHash(entry) = S
          BY <3>2
        <4> QED  BY <2>1, <4>1
      <3> HIDE DEF entry
      <3>4. /\ UNCHANGED <<store, report, deaths, outcome>>
            /\ tries' \in 0..(Attempts - 1) /\ tries' <= tries
        BY <1>0, <1>2, <2>3 DEF Sample
      <3> QED  BY <3>1, <3>2, <3>3, <3>4, EntryKeeps
    <2> QED  BY <2>1, <2>2, <2>3
  <1>3. CASE Compare(c)
    <2>1. PICK noise \in [Users -> [Features -> Noise(c)]] :
            report' = [report EXCEPT ![c] = [bad |-> Cardinality(Inconsistent(c, noise)),
                                             n |-> Cardinality(Found(c))]]
      BY <1>3 DEF Compare
    <2> DEFINE bad == Cardinality(Inconsistent(c, noise))
               n == Cardinality(Found(c))
    <2>2. bad \in Nat /\ n \in Nat /\ bad <= n
      BY UsersAreFew DEF Inconsistent, Found
    <2>3. n <= SampleSize
      <3>1. /\ check[c].todo \cup Found(c) \in SUBSET Users
            /\ Found(c) \subseteq check[c].todo \cup Found(c)
        BY <1>0 DEF Entry, Found
      <3>2. Cardinality(check[c].todo \cup Found(c)) <= SampleSize
        BY DEF CheckInv, ReadsAreSampled, Both
      <3>3. n <= Cardinality(check[c].todo \cup Found(c))
        BY <3>1, UsersAreFew
      <3> QED  BY <2>2, <3>1, <3>2, <3>3, UsersAreFew, CheckAssumption
    <2>4. c = "dag" => bad = 0
      <3>1. \A p \in -5..5 : Magnitude(p) <= 9
        BY DEF Magnitude
      <3> QED  BY <3>1, ComparesFairly, FS_EmptySet, CheckAssumption DEF Noise
    <2>5. PICK phase \in {"metric", "rest"} : Enters(c, phase)
      BY <1>3 DEF Compare
    <2> HIDE DEF bad, n
    <2>6. report' = [report EXCEPT ![c] = [bad |-> bad, n |-> n]]
      BY <2>1 DEF bad, n
    <2> QED  BY <1>0, <1>3, <2>2, <2>3, <2>4, <2>5, <2>6, EntersKeeps DEF Compare
  <1>4. ASSUME NEW u \in Users, Read(c, u)
        PROVE  CheckInv'
    <2> DEFINE entry == [phase |-> "read", todo |-> check[c].todo \ {u},
                         read |-> [check[c].read EXCEPT ![u] = store[u]]]
    <2>1. store[u] \in Hashes
      BY DEF CheckInv, TypeOK
    <2>2. check' = [check EXCEPT ![c] = entry] /\ entry \in Entry
      BY <1>0, <1>4, <2>1 DEF Read, Goes, Entry
    <2>3. entry.todo \cup HaveHash(entry) \subseteq check[c].todo \cup Found(c)
      BY <1>0, <1>4 DEF Read, HaveHash, Found, Entry
    <2>4. check[c].todo \cup Found(c) \in SUBSET Users
      BY <1>0 DEF Entry, Found
    <2> HIDE DEF entry
    <2>5. Cardinality(entry.todo \cup HaveHash(entry)) <= SampleSize
      <3>1. Cardinality(check[c].todo \cup Found(c)) <= SampleSize
        BY DEF CheckInv, ReadsAreSampled, Both
      <3> QED  BY <2>3, <2>4, <3>1, UsersAreFew, CheckAssumption
    <2>6. /\ UNCHANGED <<store, report, deaths, outcome>>
          /\ tries' \in 0..(Attempts - 1) /\ tries' <= tries
      BY <1>0, <1>4 DEF Read
    <2> QED  BY <2>2, <2>5, <2>6, EntryKeeps
  <1> QED  BY <1>1, <1>2, <1>3, <1>4

\* No step breaks CheckInv.
LEMMA NextKeeps ==
    ASSUME CheckInv, [Next]_vars
    PROVE  CheckInv'
  <1>0. /\ "dag" \in Both /\ "page" \in Both
        /\ tries \in 0..(Attempts - 1) /\ deaths \in 0..MaxDeaths /\ tries <= deaths
        /\ outcome \in {"none", "consistency_ok", "failed"}
        /\ outcome = "failed" => deaths >= Attempts
        /\ deaths \in Nat /\ deaths >= deaths /\ 0 \in 0..(Attempts - 1) /\ 0 <= deaths
        /\ 0 <= 0 /\ 0 <= SampleSize /\ 0 \in Nat
    BY CheckAssumption DEF CheckInv, TypeOK, NothingFound, OnlyDeathsFail, Both
  <1>1. ASSUME NEW u \in Users, Change(u)
        PROVE  CheckInv'
    <2>1. PICK h \in Hashes : store' = [store EXCEPT ![u] = h]
      BY <1>1 DEF Change
    <2>2. UNCHANGED <<check, report, tries, deaths, outcome>>
      BY <1>1 DEF Change
    <2>3. TypeOK'
      BY <2>1, <2>2 DEF CheckInv, TypeOK
    <2> QED  BY <2>2, <2>3
             DEF CheckInv, NothingFound, OnlyDeathsFail, ReadsAreSampled, Found, Noise
  <1>2. ASSUME NEW c \in Both, Begin(c) \/ Proceeds(c), ~WriteMetric, ~Branch
        PROVE  CheckInv'
    BY <1>2, ProceedsKeeps DEF Proceeds
  <1>3. CASE WriteMetric
    BY <1>0, <1>3, EntersKeeps DEF WriteMetric
  <1>4. CASE Branch
    <2>1. report["dag"].bad = 0
      BY DEF CheckInv, NothingFound
    <2>2. report["dag"].n \in Nat
      BY <1>0, CheckAssumption DEF CheckInv, TypeOK, Both
    <2>3. ~Alarming(report["dag"].bad, report["dag"].n)
      BY <2>1, <2>2 DEF Alarming
    <2>4. /\ Enters("dag", "rest") /\ tries' = 0 /\ outcome' = "consistency_ok"
          /\ UNCHANGED <<store, report, deaths>>
      BY <1>4, <2>3 DEF Branch, Ends
    <2> QED  BY <1>0, <2>4, EntersKeeps
  <1>5. CASE Dies
    <2>1. deaths' = deaths + 1 /\ deaths' \in 0..MaxDeaths /\ deaths' >= deaths
          /\ 0 <= deaths' /\ tries + 1 <= deaths'
      BY <1>0, <1>5, CheckAssumption DEF Dies
    <2>2. CASE IsLast /\ Ends("failed")
      <3>1. /\ Enters("dag", "rest") /\ tries' = 0 /\ outcome' = "failed"
            /\ UNCHANGED <<store, report>> /\ deaths' >= Attempts
        BY <1>0, <2>1, <2>2, CheckAssumption DEF Ends, IsLast
      <3> QED  BY <1>0, <2>1, <3>1, EntersKeeps
    <2>3. CASE /\ ~IsLast /\ tries' = tries + 1
               /\ UNCHANGED <<store, check, report, outcome>>
      <3>1. tries' \in 0..(Attempts - 1) /\ tries' <= deaths'
        BY <1>0, <2>1, <2>3, CheckAssumption DEF IsLast
      <3>2. TypeOK'
        BY <2>1, <2>3, <3>1 DEF CheckInv, TypeOK
      <3>3. OnlyDeathsFail'
        BY <1>0, <2>1, <2>3, CheckAssumption DEF OnlyDeathsFail
      <3>4. NothingFound' /\ ReadsAreSampled'
        BY <2>3 DEF CheckInv, NothingFound, ReadsAreSampled, Found, Noise
      <3> QED  BY <3>1, <3>2, <3>3, <3>4 DEF CheckInv
    <2>4. CASE /\ ~IsLast /\ Enters("dag", "due") /\ tries' = tries + 1
               /\ report' = [report EXCEPT !["dag"] = NoRate]
               /\ UNCHANGED <<store, outcome>>
      <3>1. tries' \in 0..(Attempts - 1) /\ tries' <= deaths'
        BY <1>0, <2>1, <2>4, CheckAssumption DEF IsLast
      <3>2. outcome' = "failed" => deaths' >= Attempts
        BY <1>0, <2>1, <2>4, CheckAssumption
      <3> QED  BY <1>0, <2>1, <2>4, <3>1, <3>2, EntersKeeps DEF NoRate
    <2> QED  BY <1>5, <2>2, <2>3, <2>4 DEF Dies
  <1>6. CASE Breaks
    BY <1>0, <1>6, EntersKeeps DEF Breaks
  <1>7. CASE UNCHANGED vars
    BY <1>7 DEF vars, CheckInv, TypeOK, NothingFound, OnlyDeathsFail, ReadsAreSampled, Found,
           Noise
  <1> QED  BY <1>1, <1>2, <1>3, <1>4, <1>5, <1>6, <1>7 DEF Next, Both

\* At the start no check has read anything.
LEMMA InitHolds ==
    ASSUME Init
    PROVE  CheckInv
  <1>1. TypeOK
    BY CheckAssumption DEF Init, TypeOK, Hashes, NothingRead, NoRate
  <1>2. NothingFound /\ OnlyDeathsFail /\ tries <= deaths
    BY DEF Init, NothingFound, OnlyDeathsFail, NoRate
  <1>3. ReadsAreSampled
    <2>1. ASSUME NEW c \in Both
          PROVE  check[c].todo \cup Found(c) = {}
      BY DEF Init, Found, NothingRead, Both
    <2>2. Cardinality({}) <= SampleSize
      BY FS_EmptySet, CheckAssumption
    <2> QED  BY <2>1, <2>2 DEF ReadsAreSampled, Both
  <1> QED  BY <1>1, <1>2, <1>3 DEF CheckInv

\* Both checks keep their invariant, for every choice of the constants.
THEOREM CheckSafe == Spec => []CheckInv
  <1>1. Init => CheckInv
    BY InitHolds
  <1>2. CheckInv /\ [Next]_vars => CheckInv'
    BY NextKeeps
  <1> QED  BY <1>1, <1>2, PTL DEF Spec

\* Type correctness; with it, no report counts more users than were sampled.
THEOREM CheckTypeCorrect == Spec => []TypeOK
  <1>1. CheckInv => TypeOK
    BY DEF CheckInv
  <1>2. Spec => []CheckInv
    BY CheckSafe
  <1> QED  BY <1>1, <1>2, PTL

\* The DAG never alarms, whatever the two stores hold: its offline side is what it has
\* read, within 0.5 % (consistency_validation_dag.py:48-55, 92).
THEOREM AlarmIsUnreachable == Spec => [](outcome # "trigger_rca")
  <1>1. CheckInv => outcome # "trigger_rca"
    BY DEF CheckInv, NothingFound
  <1>2. Spec => []CheckInv
    BY CheckSafe
  <1> QED  BY <1>1, <1>2, PTL

\* A refused metric fails no run (consistency_validation_dag.py:65-87).
THEOREM OnlyDeathsFailRuns == Spec => []OnlyDeathsFail
  <1>1. CheckInv => OnlyDeathsFail
    BY DEF CheckInv
  <1>2. Spec => []CheckInv
    BY CheckSafe
  <1> QED  BY <1>1, <1>2, PTL

=============================================================================
