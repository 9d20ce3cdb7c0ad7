--------------------------- MODULE CgroupRateProofs ---------------------------
(***************************************************************************)
(* Proofs about CgroupRate, for every set of cgroups and cpus, every limit *)
(* and every interval, inactivity time and clock skew: the estimate of the *)
(* rate is in range, and no cpu stays paused with nobody to resume it; and *)
(* about CgroupIdMap, at the end.                                          *)
(***************************************************************************)
EXTENDS CgroupRate, CgroupIdMap, FiniteSetTheorems, SequenceTheorems,
        WellFoundedInduction, TLAPS

(***************************************************************************)
(* The inductive invariant.                                                *)
(***************************************************************************)

\* A value whose counts are those of one window and whose rate is in range.
Sound ==
  {v \in Value : /\ v.curr <= MaxCount /\ v.prev <= MaxCount
                 /\ v.rate # 0 => v.rate >= v.curr
                 /\ v.rate <= v.curr + v.prev}

SoundEntries == [Cpus -> Sound] \cup {Absent}

\* The map, and the values that the goroutine has looked up, are sound; a
\* decision to put values back was taken on an entry of the map.
AllSound ==
  /\ rateMap \in [Cgroups -> SoundEntries]
  /\ \A c \in DOMAIN loop.values : loop.values[c] \in SoundEntries
  /\ At("put") => \A c \in DOMAIN loop.values : loop.values[c] \in [Cpus -> Sound]

\* The inductive invariant: the types, sound values, and whoever is paused is
\* looked after.
IInv == TypeOK /\ AllSound /\ Monitored

(***************************************************************************)
(* Ages.                                                                   *)
(***************************************************************************)

\* Max of three integers.
LEMMA MaxOfThree ==
  ASSUME NEW i \in Int, NEW j \in Int, NEW k \in Int
  PROVE  /\ Max({i, j, k}) \in {i, j, k}
         /\ Max({i, j, k}) >= i /\ Max({i, j, k}) >= j /\ Max({i, j, k}) >= k
<1>1. \E m \in {i, j, k} : \A n \in {i, j, k} : m >= n
  <2>1. CASE i >= j /\ i >= k
    BY <2>1
  <2>2. CASE j >= i /\ j >= k
    BY <2>2
  <2>3. CASE k >= i /\ k >= j
    BY <2>3
  <2> QED
    BY <2>1, <2>2, <2>3
<1> DEFINE Greatest(m) == m \in {i, j, k} /\ \A n \in {i, j, k} : m >= n
<1>2. Greatest(CHOOSE m : Greatest(m))
  BY <1>1
<1>3. Max({i, j, k}) = CHOOSE m : Greatest(m)
  BY DEF Max
<1> QED
  BY <1>2, <1>3

\* Min of two integers.
LEMMA MinOfTwo ==
  ASSUME NEW i \in Int, NEW j \in Int
  PROVE  Min({i, j}) \in {i, j} /\ Min({i, j}) <= i /\ Min({i, j}) <= j
<1>1. \E m \in {i, j} : \A n \in {i, j} : m <= n
  OBVIOUS
<1> DEFINE Least(m) == m \in {i, j} /\ \A n \in {i, j} : m <= n
<1>2. Least(CHOOSE m : Least(m))
  BY <1>1
<1>3. Min({i, j}) = CHOOSE m : Least(m)
  BY DEF Min
<1> QED
  BY <1>2, <1>3

\* The greatest age is beyond two windows.
LEMMA AgeCapType ==
  /\ AgeCap \in Nat
  /\ AgeCap > 2 * Interval
  /\ AgeCap > MaxLag
<1>1. /\ 2 * Interval \in Nat /\ Alive + Skew \in Nat /\ Inactive + Skew \in Nat
      /\ MaxLag \in Nat
  BY LimitAssumption, TimeAssumption
<1> DEFINE i == 2 * Interval
           j == Alive + Skew
           k == Inactive + Skew
           top == Max({i, j, k})
<1>2. top \in {i, j, k} /\ top >= i
  <2>1. i \in Int /\ j \in Int /\ k \in Int
    BY <1>1
  <2> HIDE DEF i, j, k
  <2> QED
    BY <2>1, MaxOfThree
<1>3. AgeCap = top + MaxLag + 1
  BY DEF AgeCap
<1> HIDE DEF top
<1> QED
  BY <1>1, <1>2, <1>3

\* A time that is set stays set as it ages, one that is not set stays so.
LEMMA OlderType ==
  /\ \A age \in Ages : Older(age) \in Ages /\ Older(age) # Off
  /\ Older(Off) = Off
  /\ Off \notin Ages
<1>1. ASSUME NEW age \in Ages PROVE Older(age) \in Ages /\ Older(age) # Off
  <2>1. age \in Nat /\ age + 1 \in Nat /\ AgeCap \in Nat /\ age # Off
    BY AgeCapType DEF Ages, Off
  <2>2. /\ Min({age + 1, AgeCap}) \in {age + 1, AgeCap}
        /\ Min({age + 1, AgeCap}) <= AgeCap
    BY <2>1, MinOfTwo
  <2>3. Older(age) = Min({age + 1, AgeCap})
    BY <2>1 DEF Older
  <2> QED
    BY <2>1, <2>2, <2>3 DEF Ages, Off
<1> QED
  BY <1>1 DEF Older, Off, Ages

(***************************************************************************)
(* Values: what cgroup_rate and the clock make of a sound value is sound.  *)
(***************************************************************************)

\* A product grows with its factors.
LEMMA ProductGrows ==
  ASSUME NEW a \in Nat, NEW b \in Nat, NEW c \in Nat, a <= b
  PROVE  a * c \in Nat /\ b * c \in Nat /\ a * c <= b * c
<1>1. PICK d \in Nat : b = a + d
  <2>1. b - a \in Nat /\ b = a + (b - a)
    OBVIOUS
  <2> QED
    BY <2>1
<1>2. b * c = a * c + d * c
  BY <1>1
<1>3. a * c \in Nat /\ d * c \in Nat
  BY <1>1
<1>4. PICK x \in Nat : x = a * c
  BY <1>3
<1>5. PICK y \in Nat : y = d * c
  BY <1>3
<1>6. b * c = x + y
  BY <1>2, <1>4, <1>5
<1> QED
  BY <1>4, <1>5, <1>6

\* The share s / i of the previous count p is a number between 0 and p.
LEMMA ShareInRange ==
  ASSUME NEW i \in Nat \ {0}, NEW s \in 0 .. i, NEW p \in Nat
  PROVE  (s * p) \div i \in 0 .. p
<1>1. s * p \in Nat /\ i * p \in Nat /\ s * p <= i * p
  BY ProductGrows
<1> DEFINE n == s * p
           q == n \div i
<1>2. n \in Nat
  BY <1>1
<1> HIDE DEF n
<1>3. q \in Int /\ i * q <= n /\ n < i * q + i
  BY <1>2
<1>4. n <= i * p
  BY <1>1 DEF n
<1> HIDE DEF q
<1>5. q >= 0
  <2>1. SUFFICES ASSUME q <= -1 PROVE FALSE
    BY <1>3
  <2>2. i * (q + 1) <= 0
    BY <1>3, <2>1
  <2>3. i * (q + 1) = i * q + i
    BY <1>3
  <2> QED
    BY <1>2, <1>3, <2>2, <2>3
<1>6. q <= p
  <2>1. SUFFICES ASSUME q >= p + 1 PROVE FALSE
    BY <1>3
  <2>2. i * (q - p) >= i
    BY <1>3, <2>1
  <2>3. i * (q - p) = i * q - i * p
    BY <1>3
  <2>4. i * q >= i * p + i
    BY <1>3, <2>2, <2>3
  <2> QED
    BY <1>1, <1>2, <1>3, <1>4, <2>4
<1>7. q \in 0 .. p
  BY <1>3, <1>5, <1>6
<1> QED
  BY <1>7 DEF q, n

\* The estimate of a value whose window is open is in range.
LEMMA RateInWindow ==
  ASSUME NEW v \in Value, v.age <= Interval,
         v.curr <= MaxCount, v.prev <= MaxCount
  PROVE  Rate(v) \in Nat /\ v.curr <= Rate(v) /\ Rate(v) <= v.curr + v.prev
<1>1. /\ Interval \in Nat \ {0} /\ Word \in Nat \ {0} /\ MaxCount \in Nat
      /\ Interval < Word /\ Interval * MaxCount < Word /\ 2 * MaxCount < Word
  BY LimitAssumption, SizeAssumption, WordAssumption
<1>2. v.age \in Nat /\ v.curr \in Nat /\ v.prev \in Nat
  BY AgeCapType DEF Value, Ages
<1> DEFINE s == Interval - v.age
           share == (s * v.prev) \div Interval
<1>3. s \in 0 .. Interval
  BY <1>1, <1>2
<1> HIDE DEF s
<1>4. s % Word = s
  BY <1>1, <1>3
<1>5. s * v.prev \in Nat /\ s * v.prev < Word
  <2>1. /\ s * v.prev \in Nat /\ Interval * v.prev \in Nat
        /\ s * v.prev <= Interval * v.prev
    BY <1>1, <1>2, <1>3, ProductGrows
  <2>2. /\ v.prev * Interval \in Nat /\ MaxCount * Interval \in Nat
        /\ v.prev * Interval <= MaxCount * Interval
    BY <1>1, <1>2, ProductGrows
  <2>3. v.prev * Interval = Interval * v.prev /\ MaxCount * Interval = Interval * MaxCount
    BY <1>1, <1>2
  <2> QED
    BY <1>1, <2>1, <2>2, <2>3
<1>6. (s * v.prev) % Word = s * v.prev
  BY <1>1, <1>5
<1>7. share \in 0 .. v.prev
  BY <1>1, <1>2, <1>3, ShareInRange
<1>8. Rate(v) = (share + v.curr) % Word
  BY <1>4, <1>6 DEF Rate, s
<1> HIDE DEF share
<1>9. (share + v.curr) % Word = share + v.curr
  <2>1. share + v.curr \in Nat /\ share + v.curr < Word
    BY <1>1, <1>2, <1>7
  <2> QED
    BY <1>1, <2>1
<1> QED
  BY <1>2, <1>7, <1>8, <1>9

\* The window that cgroup_rate leaves is open, and has the counts of one.
LEMMA WindowOpen ==
  ASSUME NEW v \in Sound, phase \in 0 .. Interval - 1
  PROVE  /\ Window(v) \in Value
         /\ Window(v).age <= Interval
         /\ Window(v).prev <= MaxCount
         /\ Window(v).held = v.held
<1>1. Interval \in Nat \ {0} /\ MaxCount \in Nat /\ AgeCap \in Nat /\ AgeCap > 2 * Interval
  BY LimitAssumption, SizeAssumption, AgeCapType
<1>2. /\ v \in Value /\ v.age \in 0 .. AgeCap /\ v.curr \in Nat /\ v.prev \in Nat
      /\ v.curr <= MaxCount /\ v.prev <= MaxCount
  BY DEF Sound, Value, Ages
<1>3. CASE v.age > 2 * Interval
  <2>1. Window(v) = [v EXCEPT !.prev = 0, !.age = phase, !.curr = 0]
    BY <1>1, <1>2, <1>3 DEF Window
  <2>2. phase \in Ages /\ phase <= Interval
    BY <1>1 DEF Ages
  <2> QED
    <3>1. PICK w : w = [v EXCEPT !.prev = 0, !.age = phase, !.curr = 0]
      OBVIOUS
    <3>2. w \in Value /\ w.age = phase /\ w.prev = 0 /\ w.held = v.held
      BY <1>2, <2>2, <3>1 DEF Value
    <3> QED
      BY <1>1, <2>1, <2>2, <3>1, <3>2
<1>4. CASE v.age > Interval /\ v.age <= 2 * Interval
  <2>1. Window(v) = [v EXCEPT !.prev = v.curr, !.age = v.age - Interval, !.curr = 0]
    BY <1>1, <1>2, <1>4 DEF Window, Value
  <2>2. v.age - Interval \in Ages /\ v.age - Interval <= Interval
    BY <1>1, <1>2, <1>4 DEF Ages
  <2> QED
    <3>1. PICK w : w = [v EXCEPT !.prev = v.curr, !.age = v.age - Interval, !.curr = 0]
      OBVIOUS
    <3>2. PICK a \in Ages : a = v.age - Interval
      BY <2>2
    <3>3. w \in Value /\ w.age = a /\ w.prev = v.curr /\ w.held = v.held
      BY <1>2, <3>1, <3>2 DEF Value
    <3> QED
      BY <1>2, <2>1, <2>2, <3>1, <3>2, <3>3
<1>5. CASE v.age <= Interval
  <2>1. Window(v) = v
    BY <1>1, <1>2, <1>5 DEF Window
  <2> QED
    BY <1>2, <1>5, <2>1
<1> QED
  BY <1>1, <1>2, <1>3, <1>4, <1>5

\* One more event makes a sound value of a sound value, while it is counted.
LEMMA CountedSound ==
  ASSUME NEW v \in Sound, phase \in 0 .. Interval - 1,
         Counted(v).curr <= MaxCount,
         NEW held \in Ages \cup {Off}
  PROVE  /\ [Counted(v) EXCEPT !.held = held] \in Sound
         /\ Counted(v).held = v.held
<1> DEFINE w == [Window(v) EXCEPT !.curr = Window(v).curr + 1]
<1>1. /\ Window(v) \in Value /\ Window(v).age <= Interval
      /\ Window(v).prev <= MaxCount /\ Window(v).held = v.held
  BY WindowOpen
<1>2. /\ w \in Value /\ w.age <= Interval /\ w.prev <= MaxCount
      /\ w.held = v.held
  BY <1>1 DEF Value
<1>3. Counted(v) = [w EXCEPT !.rate = Rate(w)]
  BY <1>1 DEF Counted
<1> HIDE DEF w
<1>4. w.curr <= MaxCount
  BY <1>2, <1>3 DEF Value
<1>5. Rate(w) \in Nat /\ w.curr <= Rate(w) /\ Rate(w) <= w.curr + w.prev
  BY <1>2, <1>4, RateInWindow
<1>6. PICK r : r = Rate(w)
  OBVIOUS
<1>7. Counted(v) = [w EXCEPT !.rate = r]
  BY <1>3, <1>6
<1>8. PICK n : n = [Counted(v) EXCEPT !.held = held]
  OBVIOUS
<1>9. /\ n \in Value /\ n.curr = w.curr /\ n.prev = w.prev /\ n.rate = r
      /\ Counted(v).held = v.held
  BY <1>2, <1>5, <1>6, <1>7, <1>8 DEF Value
<1> QED
  BY <1>2, <1>4, <1>5, <1>6, <1>8, <1>9 DEF Sound

\* A zeroed value is sound, also with its first event.
LEMMA ZeroSound ==
  ASSUME phase \in 0 .. Interval - 1
  PROVE  /\ Zero \in Sound /\ [Zero EXCEPT !.curr = 1, !.age = phase] \in Sound
         /\ Zero.held = Off
         /\ [Zero EXCEPT !.curr = 1, !.age = phase].held = Off
<1>1. /\ Interval \in Nat \ {0} /\ MaxCount \in Nat \ {0}
      /\ AgeCap \in Nat /\ AgeCap > 2 * Interval
  BY LimitAssumption, SizeAssumption, AgeCapType
<1>2. AgeCap \in Ages /\ phase \in Ages
  BY <1>1 DEF Ages
<1>3. Zero \in Sound /\ Zero.held = Off
  BY <1>1, <1>2 DEF Zero, Sound, Value
<1>4. PICK first : first = [Zero EXCEPT !.curr = 1, !.age = phase]
  OBVIOUS
<1>5. first = [curr |-> 1, prev |-> 0, age |-> phase, rate |-> 0, held |-> Off]
  BY <1>4 DEF Zero
<1>6. first \in Sound /\ first.held = Off
  BY <1>1, <1>2, <1>5 DEF Sound, Value
<1> QED
  BY <1>3, <1>4, <1>6

\* Time, and the goroutine, only change the times of a value.
LEMMA OlderSound ==
  ASSUME NEW v \in Sound
  PROVE  /\ OlderValue(v) \in Sound /\ [v EXCEPT !.held = Off] \in Sound
         /\ OlderValue(v).held # Off => v.held # Off
         /\ [v EXCEPT !.held = Off].held = Off
<1>1. /\ v \in Value /\ v.age \in Ages /\ v.held \in Ages \cup {Off}
  BY DEF Sound, Value
<1>2. PICK a : a = Older(v.age)
  OBVIOUS
<1>3. PICK h : h = Older(v.held)
  OBVIOUS
<1>4. a \in Ages /\ h \in Ages \cup {Off} /\ (h # Off => v.held # Off)
  BY <1>1, <1>2, <1>3, OlderType
<1>5. OlderValue(v) = [v EXCEPT !.age = a, !.held = h]
  BY <1>1, <1>2, <1>3 DEF OlderValue, Value
<1>6. [v EXCEPT !.age = a, !.held = h] \in Sound
  BY <1>1, <1>4 DEF Sound, Value
<1>7. [v EXCEPT !.held = Off] \in Sound
  BY <1>1 DEF Sound, Value
<1> QED
  BY <1>1, <1>4, <1>5, <1>6, <1>7 DEF Value

(***************************************************************************)
(* Entries.                                                                *)
(***************************************************************************)

\* Some cpu of the entry e is paused.
HeldIn(e) == e # Absent /\ \E cpu \in Cpus : e[cpu].held # Off

\* Monitored, by entries.
LEMMA MonitoredByEntry ==
  Monitored <=>
    \A c \in Cgroups : HeldIn(rateMap[c]) => c \in watched \cup lost \/ msgs[c] > 0
BY DEF Monitored, Held, Present, HeldIn

\* The same in the next state.
LEMMA MonitoredNext ==
  Monitored' <=>
    \A c \in Cgroups :
      HeldIn(rateMap'[c]) => c \in watched' \cup lost' \/ msgs'[c] > 0
BY DEF Monitored, Held, Present, HeldIn

\* An entry ages cpu by cpu.
LEMMA OlderEntrySound ==
  ASSUME NEW e \in SoundEntries
  PROVE  /\ OlderEntry(e) \in SoundEntries
         /\ e \in [Cpus -> Sound] => OlderEntry(e) \in [Cpus -> Sound]
         /\ HeldIn(OlderEntry(e)) => HeldIn(e)
<1>1. CASE e = Absent
  <2>1. OlderEntry(e) = Absent
    BY <1>1 DEF OlderEntry, Absent
  <2> QED
    BY <1>1, <2>1 DEF SoundEntries, HeldIn
<1>2. CASE e \in [Cpus -> Sound] /\ e # Absent
  <2>1. OlderEntry(e) = [cpu \in Cpus |-> OlderValue(e[cpu])]
    BY <1>2 DEF OlderEntry
  <2>2. \A cpu \in Cpus : /\ OlderValue(e[cpu]) \in Sound
                          /\ OlderValue(e[cpu]).held # Off => e[cpu].held # Off
    BY <1>2, OlderSound
  <2>3. OlderEntry(e) \in [Cpus -> Sound]
    BY <2>1, <2>2
  <2>4. HeldIn(OlderEntry(e)) => HeldIn(e)
    BY <1>2, <2>1, <2>2 DEF HeldIn
  <2> QED
    BY <2>3, <2>4 DEF SoundEntries
<1> QED
  BY <1>1, <1>2 DEF SoundEntries

\* The entry that is put back has no cpu paused.
LEMMA ResumedSound ==
  ASSUME NEW e \in [Cpus -> Sound]
  PROVE  Resumed(e) \in SoundEntries /\ ~HeldIn(Resumed(e))
<1>1. Resumed(e) = [cpu \in Cpus |-> [e[cpu] EXCEPT !.held = Off]]
  BY DEF Resumed
<1>2. \A cpu \in Cpus : /\ [e[cpu] EXCEPT !.held = Off] \in Sound
                        /\ [e[cpu] EXCEPT !.held = Off].held = Off
  BY OlderSound
<1> QED
  BY <1>1, <1>2 DEF SoundEntries, HeldIn

\* A new entry has none paused either.
LEMMA NewSound ==
  ASSUME phase \in 0 .. Interval - 1, NEW cpu \in Cpus, NEW e,
         e = [k \in Cpus |-> IF k = cpu THEN [Zero EXCEPT !.curr = 1, !.age = phase]
                                        ELSE Zero]
  PROVE  e \in SoundEntries /\ ~HeldIn(e)
<1>1. PICK first : first = [Zero EXCEPT !.curr = 1, !.age = phase]
  OBVIOUS
<1>2. first \in Sound /\ first.held = Off /\ Zero \in Sound /\ Zero.held = Off
  BY <1>1, ZeroSound
<1>3. e = [k \in Cpus |-> IF k = cpu THEN first ELSE Zero]
  BY <1>1
<1> QED
  BY <1>2, <1>3 DEF SoundEntries, HeldIn

\* Sound values are values.
LEMMA SoundIsTyped ==
  SoundEntries \subseteq Entries
<1>1. Sound \subseteq Value
  BY DEF Sound
<1>2. [Cpus -> Sound] \subseteq [Cpus -> Value]
  BY <1>1
<1> QED
  BY <1>2 DEF SoundEntries, Entries

\* What is left of TypeOK once the map and the values looked up are sound.
Others ==
  /\ removed \subseteq Cgroups /\ lost \subseteq Cgroups
  /\ phase \in 0 .. Interval - 1
  /\ msgs \in [Cgroups -> 0 .. MaxMsgs]
  /\ watched \subseteq Cgroups
  /\ DOMAIN loop = {"at", "todo", "values", "lag"}
  /\ loop.at \in {"select", "lookup", "put", "iterate", "delete"}
  /\ loop.todo \subseteq Cgroups /\ loop.lag \in 0 .. MaxLag
  /\ DOMAIN loop.values \subseteq Cgroups
  /\ cleanup \in Ages \cup {Off}

\* The invariant by its three parts.
LEMMA Parts ==
  /\ IInv => Others /\ AllSound /\ Monitored
  /\ Others /\ AllSound /\ Monitored => IInv
  /\ Others' /\ AllSound' /\ Monitored' => IInv'
<1>1. ASSUME AllSound, Others PROVE TypeOK
  BY <1>1, SoundIsTyped DEF AllSound, Others, TypeOK
<1>2. ASSUME AllSound', Others' PROVE TypeOK'
  BY <1>2, SoundIsTyped DEF AllSound, Others, TypeOK
<1>3. TypeOK => Others
  BY DEF TypeOK, Others
<1> QED
  BY <1>1, <1>2, <1>3 DEF IInv

-----------------------------------------------------------------------------
(***************************************************************************)
(* The initial states, and one lemma per action.                           *)
(***************************************************************************)

LEMMA RestingSound ==
  /\ DOMAIN Resting = {"at", "todo", "values", "lag"}
  /\ Resting.at = "select" /\ Resting.todo = {} /\ Resting.lag = 0
  /\ DOMAIN Resting.values = {}
BY DEF Resting, Absent

LEMMA InitIInv == Init => IInv
<1> SUFFICES ASSUME Init PROVE Others /\ AllSound /\ Monitored
  BY Parts
<1>1. Others
  BY RestingSound, LimitAssumption, TimeAssumption, SizeAssumption DEF Init, Others
<1>2. AllSound
  BY RestingSound DEF Init, AllSound, SoundEntries, At
<1>3. Monitored
  BY MonitoredByEntry DEF Init, HeldIn
<1> QED
  BY <1>1, <1>2, <1>3

\* The first event of a cgroup.
LEMMA NewStep ==
  ASSUME IInv, NEW c \in Cgroups, NEW cpu \in Cpus, cgroup_rate_new(c, cpu)
  PROVE  IInv'
<1>1. Others /\ AllSound /\ Monitored
  BY Parts
<1>2. Others'
  BY <1>1 DEF Others, cgroup_rate_new
<1>3. PICK e : e = [k \in Cpus |-> IF k = cpu THEN [Zero EXCEPT !.curr = 1, !.age = phase]
                                              ELSE Zero]
  OBVIOUS
<1>4. e \in SoundEntries /\ ~HeldIn(e)
  BY <1>1, <1>3, NewSound DEF Others
<1>5. rateMap' = rateMap \/ rateMap' = [rateMap EXCEPT ![c] = e]
  BY <1>3 DEF cgroup_rate_new
<1>6. UNCHANGED <<loop, watched, lost, msgs>>
  BY DEF cgroup_rate_new
<1>7. AllSound'
  BY <1>1, <1>4, <1>5, <1>6 DEF AllSound, At
<1>8. Monitored'
  BY <1>1, <1>4, <1>5, <1>6, MonitoredByEntry, MonitoredNext DEF AllSound
<1> QED
  BY <1>2, <1>7, <1>8, Parts

\* An event: only a cpu that crosses the limit is newly paused, and it sends a
\* message or loses it.
LEMMA EventStep ==
  ASSUME IInv, NEW c \in Cgroups, NEW cpu \in Cpus, cgroup_rate(c, cpu)
  PROVE  IInv'
<1>1. Others /\ AllSound /\ Monitored
  BY Parts
<1>2. rateMap[c] \in [Cpus -> Sound] /\ rateMap[c] # Absent
  BY <1>1 DEF cgroup_rate, Present, AllSound, SoundEntries
<1>3. PICK v : v = Counted(rateMap[c][cpu])
  OBVIOUS
<1>4. PICK held : held = IF Crosses(v) THEN 0 ELSE v.held
  OBVIOUS
<1>5. PICK n : n = [v EXCEPT !.held = held]
  OBVIOUS
<1>6. /\ v.curr <= MaxCount
      /\ rateMap' = [rateMap EXCEPT ![c][cpu] = n]
      /\ IF Crosses(v) THEN send_throttle(c) ELSE UNCHANGED <<msgs, lost>>
      /\ UNCHANGED <<removed, phase, watched, loop, cleanup>>
  BY <1>3, <1>4, <1>5 DEF cgroup_rate
<1>7. rateMap[c][cpu] \in Sound
  BY <1>2
<1>8. v.held = rateMap[c][cpu].held
  <2>1. 0 \in Ages \cup {Off}
    BY AgeCapType DEF Ages
  <2> QED
    BY <1>1, <1>3, <1>6, <1>7, <2>1, CountedSound DEF Others
<1>9. held \in Ages \cup {Off}
  <2>1. 0 \in Ages
    BY AgeCapType DEF Ages
  <2>2. rateMap[c][cpu].held \in Ages \cup {Off}
    BY <1>7 DEF Sound, Value
  <2> QED
    BY <1>4, <1>8, <2>1, <2>2
<1>10. n \in Sound
  BY <1>1, <1>3, <1>5, <1>6, <1>7, <1>9, CountedSound DEF Others
<1>11. n.held = held
  <2>1. "held" \in DOMAIN v
    BY <1>5, <1>10 DEF Sound, Value
  <2> QED
    BY <1>5, <2>1
<1>12. PICK e : e = [rateMap[c] EXCEPT ![cpu] = n]
  OBVIOUS
<1>13. rateMap' = [rateMap EXCEPT ![c] = e]
  BY <1>6, <1>12
<1>14. e \in SoundEntries
  BY <1>2, <1>10, <1>12 DEF SoundEntries
<1>15. AllSound'
  BY <1>1, <1>6, <1>13, <1>14 DEF AllSound, At
<1>16. /\ msgs' \in [Cgroups -> 0 .. MaxMsgs] /\ lost' \subseteq Cgroups
       /\ lost \subseteq lost'
       /\ \A k \in Cgroups : msgs[k] > 0 => msgs'[k] > 0
       /\ Crosses(v) => c \in lost' \/ msgs'[c] > 0
  <2>1. CASE ~Crosses(v)
    BY <1>1, <1>6, <2>1 DEF Others
  <2>2. CASE Crosses(v) /\ msgs[c] < MaxMsgs /\ msgs' = [msgs EXCEPT ![c] = @ + 1]
             /\ UNCHANGED lost
    BY <1>1, <2>2, SizeAssumption DEF Others
  <2>3. CASE Crosses(v) /\ lost' = lost \cup {c} /\ UNCHANGED msgs
    BY <1>1, <2>3 DEF Others
  <2> QED
    BY <1>6, <2>1, <2>2, <2>3 DEF send_throttle
<1>17. Others'
  BY <1>1, <1>6, <1>16 DEF Others
<1>18. HeldIn(e) => HeldIn(rateMap[c]) \/ Crosses(v)
  <2>1. SUFFICES ASSUME HeldIn(e), ~Crosses(v) PROVE HeldIn(rateMap[c])
    OBVIOUS
  <2>2. n.held = rateMap[c][cpu].held
    BY <1>4, <1>8, <1>11, <2>1
  <2> QED
    BY <1>2, <1>12, <2>1, <2>2 DEF HeldIn
<1>19. Monitored'
  <2>1. SUFFICES ASSUME NEW k \in Cgroups, HeldIn(rateMap'[k])
                 PROVE  k \in watched' \cup lost' \/ msgs'[k] > 0
    BY MonitoredNext
  <2>2. CASE k = c /\ Crosses(v)
    BY <1>16, <2>2
  <2>3. CASE ~(k = c /\ Crosses(v))
    <3>1. HeldIn(rateMap[k])
      BY <1>1, <1>13, <1>18, <2>1, <2>3 DEF AllSound
    <3>2. k \in watched \cup lost \/ msgs[k] > 0
      BY <1>1, <3>1, MonitoredByEntry
    <3> QED
      BY <1>6, <1>16, <3>2
  <2> QED
    BY <2>2, <2>3
<1> QED
  BY <1>15, <1>17, <1>19, Parts

\* An entry is taken away, by the kernel or by the cleanup, and with it what
\* was paused; a cgroup that is not in the map needs nobody.
LEMMA EntryGone ==
  ASSUME AllSound, Monitored, NEW c \in Cgroups,
         rateMap' = [rateMap EXCEPT ![c] = Absent],
         lost' = lost \ {c}, UNCHANGED <<msgs, watched>>
  PROVE  rateMap' \in [Cgroups -> SoundEntries] /\ Monitored'
<1>1. rateMap' \in [Cgroups -> SoundEntries]
  BY DEF AllSound, SoundEntries
<1>2. ~HeldIn(Absent)
  BY DEF HeldIn
<1> QED
  BY <1>1, <1>2, MonitoredByEntry, MonitoredNext DEF AllSound

LEMMA DelStep ==
  ASSUME IInv, NEW c \in Cgroups, cgroup_rate_del(c)
  PROVE  IInv'
<1>1. Others /\ AllSound /\ Monitored
  BY Parts
<1>2. Others'
  BY <1>1 DEF Others, cgroup_rate_del
<1>3. rateMap' \in [Cgroups -> SoundEntries] /\ Monitored'
  BY <1>1, EntryGone DEF cgroup_rate_del
<1>4. AllSound'
  BY <1>1, <1>3 DEF AllSound, At, cgroup_rate_del
<1> QED
  BY <1>2, <1>3, <1>4, Parts

\* A message is handed over: its cgroup is watched from then on.
LEMMA ReceiveStep ==
  ASSUME IInv, NEW c \in Cgroups, updateCgroups(c)
  PROVE  IInv'
<1>1. Others /\ AllSound /\ Monitored
  BY Parts
<1>2. Others'
  BY <1>1, SizeAssumption DEF Others, updateCgroups
<1>3. AllSound'
  BY <1>1 DEF AllSound, At, updateCgroups
<1>4. Monitored'
  BY <1>1, MonitoredByEntry, MonitoredNext DEF Others, updateCgroups
<1> QED
  BY <1>2, <1>3, <1>4, Parts

\* Steps of the goroutine that leave the map and the watched cgroups alone.
LEMMA LoopFrame ==
  ASSUME Others, AllSound, Monitored,
         UNCHANGED <<rateMap, removed, phase, msgs, watched, lost>>,
         DOMAIN loop' = {"at", "todo", "values", "lag"},
         loop'.at \in {"select", "lookup", "put", "iterate", "delete"},
         loop'.todo \subseteq Cgroups, loop'.lag \in 0 .. MaxLag,
         DOMAIN loop'.values \subseteq Cgroups,
         \A c \in DOMAIN loop'.values : loop'.values[c] \in SoundEntries,
         loop'.at = "put" =>
           \A c \in DOMAIN loop'.values : loop'.values[c] \in [Cpus -> Sound],
         cleanup' \in Ages \cup {Off}
  PROVE  IInv'
<1>1. Others'
  BY DEF Others
<1>2. AllSound'
  BY DEF AllSound, At
<1>3. Monitored'
  BY MonitoredByEntry, MonitoredNext
<1> QED
  BY <1>1, <1>2, <1>3, Parts

LEMMA TimerStep ==
  ASSUME IInv, processCgroups
  PROVE  IInv'
<1>1. Others /\ AllSound /\ Monitored
  BY Parts
<1>2. /\ loop'.at = "lookup" /\ loop'.todo = watched /\ loop'.lag = 0
      /\ loop'.values = Absent /\ DOMAIN loop' = {"at", "todo", "values", "lag"}
  <2>1. loop' = [Resting EXCEPT !.at = "lookup", !.todo = watched]
    BY DEF processCgroups
  <2>2. Resting.values = Absent
    BY DEF Resting
  <2> QED
    BY <2>1, <2>2, RestingSound
<1>3. DOMAIN loop'.values = {}
  BY <1>2 DEF Absent
<1>4. /\ DOMAIN loop' = {"at", "todo", "values", "lag"} /\ loop'.at = "lookup"
      /\ loop'.todo \subseteq Cgroups /\ loop'.lag \in 0 .. MaxLag
      /\ cleanup' \in Ages \cup {Off}
  BY <1>1, <1>2, TimeAssumption DEF Others, processCgroups
<1>5. UNCHANGED <<rateMap, removed, phase, msgs, watched, lost>>
  BY DEF processCgroups
<1> QED
  BY <1>1, <1>3, <1>4, <1>5, LoopFrame

LEMMA LookupStep ==
  ASSUME IInv, NEW c \in Cgroups, processCgroup(c)
  PROVE  IInv'
<1>1. Others /\ AllSound /\ Monitored
  BY Parts
<1> DEFINE stop == Present(c) /\ \A cpu \in Cpus : Calm(rateMap[c][cpu])
<1>2. /\ loop.at = "lookup"
      /\ IF stop
         THEN loop' = [loop EXCEPT !.at = "put", !.values = [k \in {c} |-> rateMap[c]]]
         ELSE loop' = [loop EXCEPT !.todo = @ \ {c}]
      /\ watched' = IF Present(c) THEN watched ELSE watched \ {c}
      /\ UNCHANGED <<rateMap, removed, phase, msgs, cleanup, lost>>
  BY DEF processCgroup, At
<1>3. stop => rateMap[c] \in [Cpus -> Sound]
  BY <1>1 DEF AllSound, SoundEntries, Present
<1> HIDE DEF stop
<1>4. /\ DOMAIN loop' = {"at", "todo", "values", "lag"}
      /\ loop'.at \in {"lookup", "put"}
      /\ loop'.todo \subseteq Cgroups /\ loop'.lag \in 0 .. MaxLag
      /\ DOMAIN loop'.values \subseteq Cgroups
      /\ loop'.at = "put" =>
           \A k \in DOMAIN loop'.values : loop'.values[k] \in [Cpus -> Sound]
      /\ loop'.at = "lookup" => loop'.values = loop.values
  <2>1. CASE stop
    <3>1. loop' = [loop EXCEPT !.at = "put", !.values = [k \in {c} |-> rateMap[c]]]
      BY <1>2, <2>1
    <3> QED
      BY <1>1, <1>3, <2>1, <3>1 DEF Others
  <2>2. CASE ~stop
    <3>1. loop' = [loop EXCEPT !.todo = @ \ {c}]
      BY <1>2, <2>2
    <3> QED
      BY <1>1, <1>2, <3>1 DEF Others
  <2> QED
    BY <2>1, <2>2
<1>5. Others'
  BY <1>1, <1>2, <1>4 DEF Others
<1>6. AllSound'
  BY <1>1, <1>2, <1>4 DEF AllSound, At, SoundEntries
<1>7. Monitored'
  <2>1. Present(c) \/ ~HeldIn(rateMap[c])
    BY DEF Present, HeldIn
  <2> QED
    BY <1>1, <1>2, <2>1, MonitoredByEntry, MonitoredNext
<1> QED
  BY <1>5, <1>6, <1>7, Parts

\* The values are put back: nothing of the cgroup is paused any more.
LEMMA PutStep ==
  ASSUME IInv, NEW c \in Cgroups, putValues(c)
  PROVE  IInv'
<1>1. Others /\ AllSound /\ Monitored
  BY Parts
<1>2. PICK e : e = Resumed(loop.values[c])
  OBVIOUS
<1>3. e \in SoundEntries /\ ~HeldIn(e)
  BY <1>1, <1>2, ResumedSound DEF putValues, AllSound
<1>4. /\ \/ rateMap' = rateMap /\ ~HeldIn(rateMap[c])
         \/ rateMap' = [rateMap EXCEPT ![c] = e]
      /\ watched' = watched \ {c}
      /\ loop' = [loop EXCEPT !.at = "lookup", !.todo = @ \ {c}, !.values = Absent]
      /\ lost' = lost \ {c}
      /\ UNCHANGED <<removed, phase, msgs, cleanup>>
  BY <1>2 DEF putValues, Present, HeldIn
<1>5. /\ DOMAIN loop' = {"at", "todo", "values", "lag"} /\ loop'.at = "lookup"
      /\ loop'.todo \subseteq Cgroups /\ loop'.lag = loop.lag
      /\ loop'.values = Absent
  BY <1>1, <1>4 DEF Others
<1>6. DOMAIN loop'.values = {}
  BY <1>5 DEF Absent
<1>7. Others'
  BY <1>1, <1>4, <1>5, <1>6 DEF Others
<1>8. rateMap' \in [Cgroups -> SoundEntries] /\ ~HeldIn(rateMap'[c])
      /\ \A k \in Cgroups \ {c} : rateMap'[k] = rateMap[k]
  BY <1>1, <1>3, <1>4 DEF AllSound
<1>9. AllSound'
  BY <1>5, <1>6, <1>8 DEF AllSound, At
<1>10. Monitored'
  BY <1>1, <1>4, <1>8, MonitoredByEntry, MonitoredNext
<1> QED
  BY <1>7, <1>9, <1>10, Parts

LEMMA CleanupStep ==
  ASSUME IInv, cleanupCgroups
  PROVE  IInv'
<1>1. Others /\ AllSound /\ Monitored
  BY Parts
<1>2. UNCHANGED <<rateMap, removed, phase, msgs, watched, lost>>
  BY DEF cleanupCgroups
<1>3. loop.lag \in Ages
  BY <1>1, AgeCapType, TimeAssumption DEF Others, Ages
<1>4. cleanup' \in Ages \cup {Off}
  BY <1>1, <1>3 DEF cleanupCgroups, Others
<1>5. CASE loop' = Resting
  <2>1. 0 \in 0 .. MaxLag
    BY TimeAssumption
  <2> QED
    BY <1>1, <1>2, <1>4, <1>5, <2>1, RestingSound, LoopFrame
<1>6. CASE loop' = [loop EXCEPT !.at = "iterate", !.todo = {c \in Cgroups : Present(c)}]
  <2>1. /\ DOMAIN loop' = {"at", "todo", "values", "lag"} /\ loop'.at = "iterate"
        /\ loop'.todo \subseteq Cgroups /\ loop'.lag = loop.lag
        /\ loop'.values = loop.values
    BY <1>1, <1>6 DEF Others
  <2>2. /\ loop'.lag \in 0 .. MaxLag /\ DOMAIN loop'.values \subseteq Cgroups
        /\ \A c \in DOMAIN loop'.values : loop'.values[c] \in SoundEntries
    BY <1>1, <2>1 DEF Others, AllSound
  <2> QED
    BY <1>1, <1>2, <1>4, <2>1, <2>2, LoopFrame
<1> QED
  BY <1>5, <1>6 DEF cleanupCgroups

LEMMA IterateStep ==
  ASSUME IInv, NEW c \in Cgroups, iterate(c)
  PROVE  IInv'
<1>1. Others /\ AllSound /\ Monitored
  BY Parts
<1>2. /\ UNCHANGED <<rateMap, removed, phase, msgs, watched, lost>>
      /\ cleanup' \in Ages \cup {Off} /\ loop.at = "iterate"
  BY <1>1 DEF iterate, Others, At
<1>3. CASE loop' = [loop EXCEPT !.at = "delete", !.values = [k \in {c} |-> Absent]]
  <2>1. /\ DOMAIN loop' = {"at", "todo", "values", "lag"} /\ loop'.at = "delete"
        /\ loop'.todo = loop.todo /\ loop'.lag = loop.lag
        /\ loop'.values = [k \in {c} |-> Absent]
    BY <1>1, <1>3 DEF Others
  <2>2. /\ loop'.lag \in 0 .. MaxLag /\ DOMAIN loop'.values \subseteq Cgroups
        /\ loop'.todo \subseteq Cgroups
        /\ \A k \in DOMAIN loop'.values : loop'.values[k] \in SoundEntries
    BY <1>1, <2>1 DEF Others, SoundEntries
  <2> QED
    BY <1>1, <1>2, <2>1, <2>2, LoopFrame
<1>4. CASE loop' = [loop EXCEPT !.todo = @ \ {c}]
  <2>1. /\ DOMAIN loop' = {"at", "todo", "values", "lag"} /\ loop'.at = "iterate"
        /\ loop'.todo \subseteq Cgroups /\ loop'.lag = loop.lag
        /\ loop'.values = loop.values
    BY <1>1, <1>2, <1>4 DEF Others
  <2>2. /\ loop'.lag \in 0 .. MaxLag /\ DOMAIN loop'.values \subseteq Cgroups
        /\ \A k \in DOMAIN loop'.values : loop'.values[k] \in SoundEntries
    BY <1>1, <2>1 DEF Others, AllSound
  <2> QED
    BY <1>1, <1>2, <2>1, <2>2, LoopFrame
<1> QED
  BY <1>3, <1>4 DEF iterate

LEMMA DeleteStep ==
  ASSUME IInv, NEW c \in Cgroups, deleteEntry(c)
  PROVE  IInv'
<1>1. Others /\ AllSound /\ Monitored
  BY Parts
<1>2. rateMap' \in [Cgroups -> SoundEntries] /\ Monitored'
  BY <1>1, EntryGone DEF deleteEntry
<1>3. /\ DOMAIN loop' = {"at", "todo", "values", "lag"} /\ loop'.at = "iterate"
      /\ loop'.todo \subseteq Cgroups /\ loop'.lag = loop.lag
      /\ loop'.values = Absent
  BY <1>1 DEF Others, deleteEntry
<1>4. DOMAIN loop'.values = {}
  BY <1>3 DEF Absent
<1>5. Others'
  BY <1>1, <1>3, <1>4 DEF Others, deleteEntry
<1>6. AllSound'
  BY <1>2, <1>3, <1>4 DEF AllSound, At
<1> QED
  BY <1>2, <1>5, <1>6, Parts

LEMMA EndStep ==
  ASSUME IInv, endCleanup
  PROVE  IInv'
<1>1. Others /\ AllSound /\ Monitored
  BY Parts
<1>2. /\ UNCHANGED <<rateMap, removed, phase, msgs, watched, lost>>
      /\ cleanup' \in Ages \cup {Off} /\ loop' = Resting /\ 0 \in 0 .. MaxLag
  BY <1>1, TimeAssumption DEF endCleanup, Others
<1> QED
  BY <1>1, <1>2, RestingSound, LoopFrame

\* Time goes on, for the map and for the values looked up alike.
LEMMA ClockStep ==
  ASSUME IInv, Clock
  PROVE  IInv'
<1>1. Others /\ AllSound /\ Monitored
  BY Parts
<1>2. /\ rateMap' = [c \in Cgroups |-> OlderEntry(rateMap[c])]
      /\ phase' = (phase + 1) % Interval
      /\ cleanup' = Older(cleanup)
      /\ UNCHANGED <<removed, msgs, watched, lost>>
  BY DEF Clock
<1>3. \A c \in Cgroups : /\ OlderEntry(rateMap[c]) \in SoundEntries
                         /\ HeldIn(OlderEntry(rateMap[c])) => HeldIn(rateMap[c])
  BY <1>1, OlderEntrySound DEF AllSound
<1>4. rateMap' \in [Cgroups -> SoundEntries]
  BY <1>2, <1>3
<1>5. Monitored'
  BY <1>1, <1>2, <1>3, MonitoredByEntry, MonitoredNext
<1>6. phase' \in 0 .. Interval - 1 /\ cleanup' \in Ages \cup {Off}
  <2>1. phase' \in 0 .. Interval - 1
    BY <1>1, <1>2, LimitAssumption DEF Others
  <2>2. cleanup' \in Ages \cup {Off}
    BY <1>1, <1>2, OlderType DEF Others
  <2> QED
    BY <2>1, <2>2
<1>7. CASE loop.at = "select"
  <2>1. loop' = loop
    BY <1>7 DEF Clock, At
  <2>2. Others'
    BY <1>1, <1>2, <1>6, <2>1 DEF Others
  <2>3. AllSound'
    BY <1>1, <1>4, <2>1 DEF AllSound, At
  <2> QED
    BY <1>5, <2>2, <2>3, Parts
<1>8. CASE loop.at # "select"
  <2>1. PICK older : older = [c \in DOMAIN loop.values |-> OlderEntry(loop.values[c])]
    OBVIOUS
  <2>2. loop' = [loop EXCEPT !.lag = @ + 1, !.values = older] /\ loop.lag < MaxLag
    BY <1>1, <1>8, <2>1 DEF Clock, At, Others
  <2>3. /\ DOMAIN loop' = {"at", "todo", "values", "lag"} /\ loop'.at = loop.at
        /\ loop'.todo = loop.todo /\ loop'.lag = loop.lag + 1
        /\ loop'.values = older /\ DOMAIN older = DOMAIN loop.values
    BY <1>1, <2>1, <2>2 DEF Others
  <2>4. loop'.lag \in 0 .. MaxLag
    BY <1>1, <2>2, <2>3, TimeAssumption DEF Others
  <2>5. Others'
    BY <1>1, <1>2, <1>6, <2>3, <2>4 DEF Others
  <2>6. \A c \in DOMAIN loop.values :
          /\ older[c] \in SoundEntries
          /\ loop.values[c] \in [Cpus -> Sound] => older[c] \in [Cpus -> Sound]
    BY <1>1, <2>1, OlderEntrySound DEF AllSound
  <2>7. AllSound'
    BY <1>1, <1>4, <2>3, <2>6 DEF AllSound, At
  <2> QED
    BY <1>5, <2>5, <2>7, Parts
<1> QED
  BY <1>7, <1>8

-----------------------------------------------------------------------------
LEMMA StepIInv == IInv /\ [Next]_vars => IInv'
<1> SUFFICES ASSUME IInv, [Next]_vars PROVE IInv'
  OBVIOUS
<1>1. CASE Kernel
  BY <1>1, NewStep, EventStep, DelStep DEF Kernel
<1>2. CASE Receive
  BY <1>2, ReceiveStep DEF Receive
<1>3. CASE processCgroups
  BY <1>3, TimerStep
<1>4. CASE Loop
  BY <1>4, LookupStep, PutStep, IterateStep, DeleteStep, CleanupStep, EndStep DEF Loop
<1>5. CASE Clock
  BY <1>5, ClockStep
<1>6. CASE UNCHANGED vars
  BY <1>6 DEF vars, IInv, TypeOK, AllSound, Monitored, Held, Present, At
<1> QED
  BY <1>1, <1>2, <1>3, <1>4, <1>5, <1>6 DEF Next

LEMMA InvariantHolds == Spec => []IInv
BY InitIInv, StepIInv, PTL DEF Spec

\* Every variable keeps its type.
THEOREM RateTypeCorrect == Spec => []TypeOK
BY InvariantHolds, PTL DEF IInv

\* The estimate that cgroup_rate computes lies between the count of the present
\* window and that of both, whatever the goroutine puts back in between.
THEOREM RateInRangeCorrect == Spec => []RateInRange
<1>1. IInv => RateInRange
  <2> SUFFICES ASSUME IInv, NEW c \in Cgroups, Present(c), NEW cpu \in Cpus
               PROVE  LET v == rateMap[c][cpu]
                      IN (v.rate # 0 => v.rate >= v.curr) /\ v.rate <= v.curr + v.prev
    BY DEF RateInRange
  <2>1. rateMap[c][cpu] \in Sound
    BY DEF IInv, AllSound, SoundEntries, Present
  <2> QED
    BY <2>1 DEF Sound
<1> QED
  BY <1>1, InvariantHolds, PTL

\* A paused cpu is known to the goroutine, or about to be, or its throttle
\* message was lost.
THEOREM MonitoredCorrect == Spec => []Monitored
BY InvariantHolds, PTL DEF IInv


(***************************************************************************)
(* CgroupIdMap, the other module about cgroups, for every set of pods and  *)
(* finite set of containers and every size of the resolver's list.         *)
(***************************************************************************)
Entry == [cg : CgIds, cont : Conts, pod : Pods, invalid : BOOLEAN]

\* Every container has a cgroup id of its own and no other.
OwnId == \A c, d \in Conts : \A x \in IdsOf[c], y \in IdsOf[d] : x = y <=> c = d

\* The variables that the map depends on have their types.
MapType ==
  /\ entries \in Seq(Entry) /\ invalidCnt \in Nat
  /\ unresolvedIDs \in Seq(Conts) /\ resolving \in Conts \cup {None}

\* The valid entries are those that the indices lead to, each to its own.
IndexOK ==
  /\ \A i \in Valid : /\ entries[i].cont \in DOMAIN contMap
                      /\ contMap[entries[i].cont] = i
                      /\ entries[i].cg \in DOMAIN cgMap
                      /\ cgMap[entries[i].cg] = i
                      /\ entries[i].cg \in IdsOf[entries[i].cont]
  /\ \A k \in DOMAIN contMap : contMap[k] \in Valid /\ entries[contMap[k]].cont = k
  /\ \A k \in DOMAIN cgMap : cgMap[k] \in Valid /\ entries[cgMap[k]].cg = k
  /\ invalidCnt = Cardinality(Indices \ Valid)

MInv == MapType /\ IndexOK

\* A set of numbers has a least element.
LEMMA MinOfNats ==
  ASSUME NEW S \in SUBSET Nat, S # {}
  PROVE  Min(S) \in S /\ \A x \in S : Min(S) <= x
<1> DEFINE R == OpToRel(<, Nat)
<1>1. IsWellFoundedOn(R, Nat)
  BY NatLessThanWellFounded
<1> HIDE DEF R
<1>2. PICK m \in S : \A y \in S : ~(<<y, m>> \in R)
  BY <1>1, WFMin
<1>3. ASSUME NEW y \in S
      PROVE  m <= y
  <2>1. ~(y < m)
    <3>1. y < m => <<y, m>> \in R
      BY DEF R, OpToRel
    <3> QED BY <3>1, <1>2
  <2> QED BY <2>1
<1> DEFINE Least(x) == x \in S /\ \A y \in S : x <= y
<1>4. Least(m)
  BY <1>3
<1>5. Least(CHOOSE x : Least(x))
  BY <1>4
<1>6. Min(S) = CHOOSE x : Least(x)
  BY DEF Min
<1> QED BY <1>5, <1>6

\* The slice has finitely many entries.
LEMMA FiniteIndices ==
  ASSUME MapType
  PROVE  /\ Indices = 1 .. Len(entries) /\ Len(entries) \in Nat
         /\ IsFiniteSet(Indices)
         /\ \A S \in SUBSET Indices : IsFiniteSet(S) /\ Cardinality(S) \in Nat
<1>1. Indices = 1 .. Len(entries) /\ Len(entries) \in Nat
  BY DEF MapType, Indices
<1>2. IsFiniteSet(Indices)
  BY <1>1, FS_Interval
<1> QED BY <1>1, <1>2, FS_Subset, FS_CardinalityType

\* Add keeps the indices: an entry that is written again keeps its cgroup id,
\* a new one goes where no index leads.
LEMMA AddKeeps ==
  ASSUME OwnId, MInv, NEW c \in Conts, NEW cg \in IdsOf[c], Add(c, cg),
         unresolvedIDs' \in Seq(Conts), resolving' \in Conts \cup {None}
  PROVE  MInv'
<1> USE DEF Indices
<1>0. PICK e : e = [cg |-> cg, cont |-> c, pod |-> Home[c], invalid |-> FALSE]
  OBVIOUS
<1>1. /\ e \in Entry /\ e.cg = cg /\ e.cont = c /\ e.invalid = FALSE /\ e.pod = Home[c]
      /\ Home[c] \in Pods /\ cg \in CgIds
  BY <1>0, CgroupIdMapAssumption DEF Entry
<1>2. /\ Indices = 1 .. Len(entries) /\ Len(entries) \in Nat /\ entries \in Seq(Entry)
      /\ invalidCnt \in Nat /\ \A i \in Indices : entries[i] \in Entry
  BY FiniteIndices DEF MInv, MapType
<1>3. CASE c \in DOMAIN contMap
  <2>1. PICK idx : idx = contMap[c]
    OBVIOUS
  <2>2. /\ idx \in Valid /\ idx \in Indices /\ entries[idx].cont = c
        /\ entries[idx].cg \in IdsOf[c] /\ entries[idx].invalid = FALSE
    BY <1>3, <2>1, <1>2 DEF MInv, IndexOK, Valid, Entry
  <2>3. entries[idx].cg = cg
    BY <2>2 DEF OwnId
  <2>4. /\ entries' = [entries EXCEPT ![idx].pod = e.pod, ![idx].cg = e.cg]
        /\ UNCHANGED <<cgMap, contMap, invalidCnt>>
    BY <1>0, <1>3, <2>1 DEF Add, updateEntry
  <2>5. /\ entries' \in Seq(Entry) /\ DOMAIN entries' = DOMAIN entries
        /\ \A i \in Indices : /\ entries'[i].cont = entries[i].cont
                              /\ entries'[i].cg = entries[i].cg
                              /\ entries'[i].invalid = entries[i].invalid
    <3>1. PICK f : f = [[entries[idx] EXCEPT !.pod = e.pod] EXCEPT !.cg = e.cg]
      OBVIOUS
    <3>2. f \in Entry /\ f.cont = entries[idx].cont /\ f.cg = entries[idx].cg
          /\ f.invalid = entries[idx].invalid
      BY <3>1, <1>1, <1>2, <2>2, <2>3 DEF Entry
    <3>3. entries' = [entries EXCEPT ![idx] = f]
      BY <2>4, <3>1, <2>2
    <3> QED BY <3>2, <3>3, <2>2, <1>2, ExceptSeq
  <2>6. Valid' = Valid
    BY <2>5 DEF Valid
  <2>7. IndexOK'
    <3>1. \A i \in Valid : /\ entries'[i].cont = entries[i].cont
                           /\ entries'[i].cg = entries[i].cg
      BY <2>5 DEF Valid
    <3>2. Indices' = Indices
      BY <2>5
    <3> HIDE DEF Indices
    <3>3. /\ \A i \in Valid : /\ entries'[i].cont \in DOMAIN contMap
                              /\ contMap[entries'[i].cont] = i
                              /\ entries'[i].cg \in DOMAIN cgMap
                              /\ cgMap[entries'[i].cg] = i
                              /\ entries'[i].cg \in IdsOf[entries'[i].cont]
      BY <3>1 DEF MInv, IndexOK
    <3>4. /\ \A k \in DOMAIN contMap : contMap[k] \in Valid /\ entries'[contMap[k]].cont = k
          /\ \A k \in DOMAIN cgMap : cgMap[k] \in Valid /\ entries'[cgMap[k]].cg = k
          /\ invalidCnt = Cardinality(Indices \ Valid)
      BY <3>1 DEF MInv, IndexOK
    <3> QED BY <3>2, <3>3, <3>4, <2>4, <2>6 DEF IndexOK
  <2> QED BY <2>4, <2>5, <2>7 DEF MInv, MapType
<1>4. CASE c \notin DOMAIN contMap
  <2> DEFINE free == {i \in Indices : entries[i].invalid}
             append == cap > Len(entries) \/ invalidCnt = 0 \/ free = {}
  <2>1. PICK idx : idx = IF append THEN Len(entries) + 1 ELSE Min(free)
    OBVIOUS
  <2>2. /\ entries' = IF append THEN Append(entries, e) ELSE [entries EXCEPT ![idx] = e]
        /\ invalidCnt' = IF append THEN invalidCnt ELSE invalidCnt - 1
        /\ contMap' = Put(contMap, e.cont, idx) /\ cgMap' = Put(cgMap, e.cg, idx)
    BY <1>0, <1>4, <2>1 DEF Add, addEntry
  <2>3. free = Indices \ Valid
    BY DEF Valid
  <2>4. ~append => idx \in free
    <3>1. free \in SUBSET Nat
      BY <1>2
    <3> QED BY <3>1, <2>1, MinOfNats
  <2>5. append => idx = Len(entries) + 1
    BY <2>1
  <2>6. /\ entries' \in Seq(Entry) /\ idx \in DOMAIN entries' /\ entries'[idx] = e /\ idx \notin Valid
        /\ DOMAIN entries' = DOMAIN entries \cup {idx}
        /\ \A i \in Indices : i # idx => entries'[i] = entries[i]
    <3>1. CASE append
      <4>1. entries' = Append(entries, e) /\ idx = Len(entries) + 1
        BY <3>1, <2>2, <2>5
      <4>2. /\ entries' \in Seq(Entry) /\ Len(entries') = Len(entries) + 1
            /\ entries'[Len(entries) + 1] = e
            /\ \A i \in 1 .. Len(entries) : entries'[i] = entries[i]
        BY <4>1, <1>1, <1>2, AppendProperties
      <4>3. DOMAIN entries' = 1 .. Len(entries) + 1
        BY <4>2
      <4> QED BY <4>1, <4>2, <4>3, <1>2 DEF Valid
    <3>2. CASE ~append
      <4>1. entries' = [entries EXCEPT ![idx] = e] /\ idx \in free
        BY <3>2, <2>2, <2>4
      <4> QED BY <4>1, <1>1, <1>2, ExceptSeq DEF Valid
    <3> QED BY <3>1, <3>2
  <2>7. Valid' = Valid \cup {idx}
    BY <2>6, <1>1 DEF Valid
  <2>8. cg \notin DOMAIN cgMap
    <3> SUFFICES ASSUME cg \in DOMAIN cgMap
                 PROVE  FALSE
      OBVIOUS
    <3>1. PICK j : j = cgMap[cg]
      OBVIOUS
    <3>2. j \in Valid /\ entries[j].cg = cg
      BY <3>1 DEF MInv, IndexOK
    <3>3. cg \in IdsOf[entries[j].cont] /\ entries[j].cont \in DOMAIN contMap
          /\ entries[j].cont \in Conts
      BY <3>2, <1>2 DEF MInv, IndexOK, Valid, Entry
    <3>4. entries[j].cont = c
      BY <3>3 DEF OwnId
    <3> QED BY <3>3, <3>4, <1>4
  <2>9. /\ DOMAIN contMap' = DOMAIN contMap \cup {c} /\ DOMAIN cgMap' = DOMAIN cgMap \cup {cg}
        /\ contMap'[c] = idx /\ cgMap'[cg] = idx
        /\ \A k \in DOMAIN contMap : contMap'[k] = contMap[k]
        /\ \A k \in DOMAIN cgMap : cgMap'[k] = cgMap[k]
    BY <2>2, <2>8, <1>1, <1>4 DEF Put
  <2>10. \A i \in Valid : entries'[i] = entries[i] /\ i # idx
    BY <2>6 DEF Valid
  <2>11. invalidCnt' = Cardinality(Indices' \ Valid') /\ invalidCnt' \in Nat
    <3>0. /\ invalidCnt = Cardinality(Indices \ Valid) /\ IsFiniteSet(free)
      BY <2>3, FiniteIndices DEF MInv, IndexOK
    <3>1. CASE append
      <4>1. Indices' \ Valid' = Indices \ Valid
        <5>1. idx \notin Indices
          BY <3>1, <2>5, <1>2
        <5> QED BY <5>1, <2>6, <2>7
      <4> QED BY <4>1, <3>0, <3>1, <2>2, <1>2
    <3>2. CASE ~append
      <4>1. Indices' \ Valid' = free \ {idx} /\ idx \in free
        BY <3>2, <2>3, <2>4, <2>6, <2>7
      <4>2. Cardinality(free \ {idx}) = Cardinality(free) - 1 /\ Cardinality(free) \in Nat
            /\ Cardinality(free \ {idx}) \in Nat
        BY <4>1, <3>0, FS_RemoveElement, FS_CardinalityType
      <4> QED BY <4>1, <4>2, <3>0, <3>2, <2>2, <2>3
    <3> QED BY <3>1, <3>2
  <2>12. IndexOK'
    <3>1. /\ \A i \in Valid' : /\ entries'[i].cont \in DOMAIN contMap'
                               /\ contMap'[entries'[i].cont] = i
                               /\ entries'[i].cg \in DOMAIN cgMap'
                               /\ cgMap'[entries'[i].cg] = i
                               /\ entries'[i].cg \in IdsOf[entries'[i].cont]
      BY <2>6, <2>7, <2>9, <2>10, <1>1 DEF MInv, IndexOK
    <3>2. \A k \in DOMAIN contMap' : contMap'[k] \in Valid' /\ entries'[contMap'[k]].cont = k
      BY <2>6, <2>7, <2>9, <2>10, <1>1 DEF MInv, IndexOK
    <3>3. \A k \in DOMAIN cgMap' : cgMap'[k] \in Valid' /\ entries'[cgMap'[k]].cg = k
      BY <2>6, <2>7, <2>9, <2>10, <1>1 DEF MInv, IndexOK
    <3> QED BY <3>1, <3>2, <3>3, <2>11 DEF IndexOK
  <2> QED BY <2>6, <2>11, <2>12 DEF MInv, MapType
<1> QED BY <1>3, <1>4

\* Update takes what it frees out of both indices and counts it.
LEMMA RemovedKeeps ==
  ASSUME MInv, NEW p, NEW conts, Removed(p, conts),
         unresolvedIDs' \in Seq(Conts), resolving' \in Conts \cup {None}
  PROVE  MInv'
<1> USE DEF Indices
<1>1. PICK gone : gone = {i \in Valid : entries[i].pod = p /\ entries[i].cont \notin conts}
  OBVIOUS
<1>2. /\ Indices = 1 .. Len(entries) /\ Len(entries) \in Nat /\ entries \in Seq(Entry)
      /\ invalidCnt \in Nat /\ \A i \in Indices : entries[i] \in Entry
  BY FiniteIndices DEF MInv, MapType
<1>3. /\ entries' = [i \in Indices |-> [entries[i] EXCEPT !.invalid = @ \/ i \in gone]]
      /\ cgMap' = Drop(cgMap, {entries[i].cg : i \in gone})
      /\ contMap' = Drop(contMap, {entries[i].cont : i \in gone})
      /\ invalidCnt' = invalidCnt + Cardinality(gone)
      /\ gone \subseteq Valid /\ Valid \subseteq Indices
  BY <1>1 DEF Removed, Valid
<1>4. /\ DOMAIN entries' = DOMAIN entries /\ entries' \in Seq(Entry)
      /\ \A i \in Indices : /\ entries'[i].cont = entries[i].cont
                            /\ entries'[i].cg = entries[i].cg
                            /\ entries'[i].invalid = (entries[i].invalid \/ i \in gone)
  <2>1. \A i \in Indices : [entries[i] EXCEPT !.invalid = @ \/ i \in gone] \in Entry
    BY <1>2 DEF Entry
  <2>2. entries' \in [1 .. Len(entries) -> Entry]
    BY <2>1, <1>2, <1>3
  <2>3. entries' \in Seq(Entry)
    BY <2>2, <1>2
  <2> QED BY <2>3, <1>2, <1>3 DEF Entry
<1>5. Valid' = Valid \ gone
  BY <1>4 DEF Valid
<1>6. /\ DOMAIN contMap' = DOMAIN contMap \ {entries[i].cont : i \in gone}
      /\ DOMAIN cgMap' = DOMAIN cgMap \ {entries[i].cg : i \in gone}
      /\ \A k \in DOMAIN contMap' : contMap'[k] = contMap[k]
      /\ \A k \in DOMAIN cgMap' : cgMap'[k] = cgMap[k]
  BY <1>3 DEF Drop
<1>7. \A i \in Valid' : /\ entries'[i].cont \in DOMAIN contMap'
                        /\ contMap'[entries'[i].cont] = i
                        /\ entries'[i].cg \in DOMAIN cgMap'
                        /\ cgMap'[entries'[i].cg] = i
                        /\ entries'[i].cg \in IdsOf[entries'[i].cont]
  <2> SUFFICES ASSUME NEW i \in Valid, i \notin gone
               PROVE  /\ entries[i].cont \in DOMAIN contMap'
                      /\ contMap'[entries[i].cont] = i
                      /\ entries[i].cg \in DOMAIN cgMap'
                      /\ cgMap'[entries[i].cg] = i
                      /\ entries[i].cg \in IdsOf[entries[i].cont]
    <3>1. Valid' = Valid \ gone /\ Valid \subseteq Indices
      BY <1>3, <1>5
    <3>2. \A i \in Valid' : entries'[i].cont = entries[i].cont /\ entries'[i].cg = entries[i].cg
      BY <3>1, <1>4
    <3> QED BY <3>1, <3>2
  <2>1. \A j \in gone : entries[j].cont # entries[i].cont /\ entries[j].cg # entries[i].cg
    BY <1>3 DEF MInv, IndexOK
  <2> QED BY <2>1, <1>6 DEF MInv, IndexOK
<1>8. \A k \in DOMAIN contMap' : contMap'[k] \in Valid' /\ entries'[contMap'[k]].cont = k
  <2> SUFFICES ASSUME NEW k \in DOMAIN contMap'
               PROVE  contMap'[k] \in Valid' /\ entries'[contMap'[k]].cont = k
    OBVIOUS
  <2>1. k \in DOMAIN contMap /\ contMap'[k] = contMap[k] /\ \A i \in gone : entries[i].cont # k
    BY <1>6
  <2>2. contMap[k] \in Valid /\ entries[contMap[k]].cont = k
    BY <2>1 DEF MInv, IndexOK
  <2>3. contMap[k] \in Valid' /\ contMap[k] \in Indices
    BY <2>1, <2>2, <1>3, <1>5
  <2> QED BY <2>1, <2>2, <2>3, <1>4
<1>9. \A k \in DOMAIN cgMap' : cgMap'[k] \in Valid' /\ entries'[cgMap'[k]].cg = k
  <2> SUFFICES ASSUME NEW k \in DOMAIN cgMap'
               PROVE  cgMap'[k] \in Valid' /\ entries'[cgMap'[k]].cg = k
    OBVIOUS
  <2>1. k \in DOMAIN cgMap /\ cgMap'[k] = cgMap[k] /\ \A i \in gone : entries[i].cg # k
    BY <1>6
  <2>2. cgMap[k] \in Valid /\ entries[cgMap[k]].cg = k
    BY <2>1 DEF MInv, IndexOK
  <2>3. cgMap[k] \in Valid' /\ cgMap[k] \in Indices
    BY <2>1, <2>2, <1>3, <1>5
  <2> QED BY <2>1, <2>2, <2>3, <1>4
<1>10. invalidCnt' = Cardinality(Indices' \ Valid') /\ invalidCnt' \in Nat
  <2>1. Indices' \ Valid' = (Indices \ Valid) \cup gone /\ (Indices \ Valid) \cap gone = {}
    BY <1>3, <1>4, <1>5
  <2>2. /\ IsFiniteSet(Indices \ Valid) /\ IsFiniteSet(gone) /\ Cardinality(gone) \in Nat
        /\ Cardinality(Indices \ Valid) \in Nat
    BY <1>3, FiniteIndices DEF MInv
  <2>3. Cardinality((Indices \ Valid) \cup gone) =
          Cardinality(Indices \ Valid) + Cardinality(gone) - Cardinality((Indices \ Valid) \cap gone)
    BY <2>2, FS_Union
  <2>4. Cardinality((Indices \ Valid) \cap gone) = 0
    BY <2>1, FS_EmptySet
  <2>5. Cardinality((Indices \ Valid) \cup gone) = Cardinality(Indices \ Valid) + Cardinality(gone)
    BY <2>2, <2>3, <2>4
  <2>6. invalidCnt = Cardinality(Indices \ Valid)
    BY DEF MInv, IndexOK
  <2>7. invalidCnt' = Cardinality(Indices \ Valid) + Cardinality(gone)
    BY <2>6, <1>3
  <2>8. invalidCnt' \in Nat
    BY <2>2, <2>7
  <2> QED BY <2>1, <2>5, <2>7, <2>8
<1>11. IndexOK'
  BY <1>7, <1>8, <1>9, <1>10 DEF IndexOK
<1> QED BY <1>4, <1>10, <1>11 DEF MInv, MapType

\* The resolver's list holds containers, and no more than it may.
LEMMA EnqueueType ==
  ASSUME unresolvedIDs \in Seq(Conts), NEW ids \in Seq(Conts)
  PROVE  enqeue(ids) \in Seq(Conts) /\ Len(enqeue(ids)) <= MaxUnmapped
<1>1. PICK n : n = IF Len(ids) < MaxUnmapped THEN Len(ids) ELSE MaxUnmapped
  OBVIOUS
<1>2. n \in Nat /\ n <= Len(ids) /\ Len(ids) \in Nat /\ MaxUnmapped \in Nat
  BY <1>1, CgroupIdMapAssumption
<1>3. PICK kept : kept = SubSeq(ids, 1, n)
  OBVIOUS
<1>4. kept \in Seq(Conts)
  <2>1. \A i \in 1 .. n : ids[i] \in Conts
    BY <1>2
  <2> QED BY <2>1, <1>2, <1>3, SubSeqProperties
<1>5. Reverse(kept) \in Seq(Conts)
  <2>1. Len(kept) \in Nat /\ \A i \in 1 .. Len(kept) : kept[(Len(kept) - i) + 1] \in Conts
    BY <1>4
  <2>2. Reverse(kept) \in [1 .. Len(kept) -> Conts]
    BY <2>1 DEF Reverse
  <2> QED BY <2>1, <2>2
<1>6. PICK s : s = Reverse(kept) \o unresolvedIDs
  OBVIOUS
<1>7. PICK r : r = Reverse(kept)
  OBVIOUS
<1>8. s \in Seq(Conts) /\ Len(s) = Len(r) + Len(unresolvedIDs) /\ Len(r) = Len(kept)
  <2>1. unresolvedIDs \in Seq(Conts)
    OBVIOUS
  <2>2. s \in Seq(Conts) /\ Len(s) = Len(r) + Len(unresolvedIDs)
    BY <2>1, <1>5, <1>6, <1>7, ConcatProperties
  <2>3. DOMAIN r = 1 .. Len(kept) /\ r \in Seq(Conts) /\ Len(kept) \in Nat
    BY <1>4, <1>5, <1>7 DEF Reverse
  <2> QED BY <2>2, <2>3
<1>9. PICK m : m = IF Len(kept) + Len(unresolvedIDs) < MaxUnmapped
                   THEN Len(kept) + Len(unresolvedIDs) ELSE MaxUnmapped
  OBVIOUS
<1>10. m \in Nat /\ m <= Len(s) /\ Len(s) \in Nat /\ m <= MaxUnmapped
  <2>1. Len(kept) \in Nat /\ Len(unresolvedIDs) \in Nat
    BY <1>4
  <2> QED BY <2>1, <1>2, <1>8, <1>9
<1>11. SubSeq(s, 1, m) \in Seq(Conts) /\ Len(SubSeq(s, 1, m)) = m
  <2>1. \A i \in 1 .. m : s[i] \in Conts
    BY <1>8, <1>10
  <2> QED BY <2>1, <1>10, SubSeqProperties
<1> QED BY <1>1, <1>3, <1>6, <1>9, <1>10, <1>11 DEF enqeue

\* So it is after Update.
LEMMA UpdateList ==
  ASSUME unresolvedIDs \in Seq(Conts), NEW p \in Pods, podHandler(p)
  PROVE  /\ unresolvedIDs' \in Seq(Conts)
         /\ Len(unresolvedIDs) <= MaxUnmapped => Len(unresolvedIDs') <= MaxUnmapped
<1>1. PICK have : have = {entries[i].cont : i \in {j \in Valid : entries[j].pod = p}}
  OBVIOUS
<1>2. CASE UNCHANGED unresolvedIDs
  BY <1>2
<1>3. CASE \E ids \in Orders(Listed(p) \ have) : unresolvedIDs' = enqeue(ids)
  <2>1. PICK ids \in Orders(Listed(p) \ have) : unresolvedIDs' = enqeue(ids)
    BY <1>3
  <2>2. ids \in [1 .. Cardinality(Listed(p) \ have) -> Listed(p) \ have]
    BY DEF Orders
  <2>3. Listed(p) \ have \subseteq Conts
    BY DEF Listed
  <2>4. ids \in Seq(Conts)
    <3>1. IsFiniteSet(Listed(p) \ have)
      BY <2>3, FS_Subset, CgroupIdMapAssumption
    <3>2. Cardinality(Listed(p) \ have) \in Nat
      BY <3>1, FS_CardinalityType
    <3>3. PICK n : n = Cardinality(Listed(p) \ have)
      OBVIOUS
    <3>4. ids \in [1 .. n -> Conts] /\ n \in Nat
      BY <3>2, <3>3, <2>2, <2>3
    <3> QED BY <3>4
  <2> QED BY <2>1, <2>4, EnqueueType
<1> QED BY <1>1, <1>2, <1>3 DEF podHandler, Update

\* The empty map.
LEMMA MapInit == ASSUME IdMapInit PROVE MInv
<1>1. entries = << >> /\ Indices = {} /\ Valid = {}
  BY DEF IdMapInit, Indices, Valid
<1>2. MapType
  BY <1>1, EmptySeq DEF IdMapInit, MapType
<1>3. Cardinality(Indices \ Valid) = 0
  BY <1>1, FS_EmptySet
<1> QED BY <1>1, <1>2, <1>3 DEF IdMapInit, MInv, IndexOK

\* What leaves the map alone.
LEMMA MapSame ==
  ASSUME MInv, UNCHANGED map, unresolvedIDs' \in Seq(Conts), resolving' \in Conts \cup {None}
  PROVE  MInv'
BY DEF MInv, MapType, IndexOK, map, Valid, Indices

\* Every step keeps the invariant.
LEMMA MapStep ==
  ASSUME OwnId, MInv, [IdMapNext]_IdMapVars
  PROVE  MInv'
<1>0. unresolvedIDs \in Seq(Conts) /\ resolving \in Conts \cup {None}
  BY DEF MInv, MapType
<1>1. ASSUME NEW c \in Conts, createContainerHook(c)
      PROVE  MInv'
  BY <1>0, <1>1, AddKeeps, MapSame DEF createContainerHook
<1>2. ASSUME NEW c \in Conts, ContainerStatus(c)
      PROVE  MInv'
  BY <1>0, <1>2, MapSame DEF ContainerStatus
<1>3. ASSUME NEW p \in Pods, DeletePod(p)
      PROVE  MInv'
  BY <1>0, <1>3, MapSame DEF DeletePod
<1>4. ASSUME NEW p \in Pods, podHandler(p)
      PROVE  MInv'
  <2>1. Removed(p, Listed(p)) /\ resolving' = resolving
    BY <1>4 DEF podHandler, Update
  <2>2. unresolvedIDs' \in Seq(Conts)
    BY <1>0, <1>4, UpdateList
  <2> QED BY <1>0, <2>1, <2>2, RemovedKeeps
<1>5. CASE ResolveNext
  BY <1>0, <1>5, MapSame, HeadTailProperties DEF ResolveNext
<1>6. CASE criResolve
  <2>1. PICK cg \in IdsOf[resolving] : Add(resolving, cg)
    BY <1>6 DEF criResolve
  <2> QED BY <2>1, <1>0, <1>6, AddKeeps DEF criResolve
<1>7. CASE criFails
  BY <1>0, <1>7, MapSame DEF criFails
<1>8. CASE UNCHANGED IdMapVars
  BY <1>0, <1>8, MapSame DEF IdMapVars, map
<1> QED BY <1>1, <1>2, <1>3, <1>4, <1>5, <1>6, <1>7, <1>8 DEF IdMapNext

\* Indexed: whatever the hook, the informer and the resolver do, and in whatever
\* order, cgMap and contMap lead to the entries that are not free and only there,
\* a container has one entry, and invalidCnt is the number of the free ones.
THEOREM IndexedCorrect ==
  ASSUME OwnId
  PROVE  IdMapSpec => []Indexed
<1>1. IdMapInit => MInv
  BY MapInit
<1>2. MInv /\ [IdMapNext]_IdMapVars => MInv'
  BY MapStep
<1>3. MInv => Indexed
  BY DEF MInv, IndexOK, Indexed
<1> QED BY <1>1, <1>2, <1>3, PTL DEF IdMapSpec

\* RightContainer: where every container has a cgroup id of its own and no other,
\* Get gives an event of a cgroup to the container whose cgroup it is.
THEOREM RightContainerCorrect ==
  ASSUME OwnId
  PROVE  IdMapSpec => []RightContainer
<1>1. IdMapInit => MInv
  BY MapInit
<1>2. MInv /\ [IdMapNext]_IdMapVars => MInv'
  BY MapStep
<1>3. MInv => RightContainer
  BY DEF MInv, IndexOK, RightContainer, Get
<1> QED BY <1>1, <1>2, <1>3, PTL DEF IdMapSpec

(***************************************************************************)
(* The types, without a condition on the cgroup ids.                       *)
(***************************************************************************)

\* What IdMapTypeOK says of the map, with what it needs of the capacity.
MapTyped ==
  /\ entries \in Seq(Entry) /\ cap \in Nat \ {0} /\ Len(entries) <= cap
  /\ DOMAIN cgMap \subseteq CgIds /\ DOMAIN contMap \subseteq Conts
  /\ \A k \in DOMAIN cgMap : cgMap[k] \in Indices
  /\ \A k \in DOMAIN contMap : contMap[k] \in Indices

\* What it says of the rest.
ListTyped ==
  /\ unresolvedIDs \in Seq(Conts) /\ Len(unresolvedIDs) <= MaxUnmapped
  /\ resolving \in Conts \cup {None}
  /\ life \in [Conts -> {"no", "made", "listed", "over"}]

\* Add: the slice grows before it is longer than its capacity.
LEMMA AddTyped ==
  ASSUME MapTyped, NEW c \in Conts, NEW cg \in IdsOf[c], Add(c, cg)
  PROVE  MapTyped'
<1> USE DEF Indices
<1>0. PICK e : e = [cg |-> cg, cont |-> c, pod |-> Home[c], invalid |-> FALSE]
  OBVIOUS
<1>1. e \in Entry /\ e.cg = cg /\ e.cont = c /\ e.pod \in Pods /\ cg \in CgIds
  BY <1>0, CgroupIdMapAssumption DEF Entry
<1>2. /\ Indices = 1 .. Len(entries) /\ Len(entries) \in Nat /\ entries \in Seq(Entry)
      /\ \A i \in Indices : entries[i] \in Entry
  BY DEF MapTyped
<1>3. CASE c \in DOMAIN contMap
  <2>1. PICK idx : idx = contMap[c]
    OBVIOUS
  <2>2. idx \in Indices
    BY <1>3, <2>1 DEF MapTyped
  <2>3. PICK f : f = [[entries[idx] EXCEPT !.pod = e.pod] EXCEPT !.cg = e.cg]
    OBVIOUS
  <2>4. f \in Entry
    BY <2>2, <2>3, <1>1, <1>2 DEF Entry
  <2>5. entries' = [entries EXCEPT ![idx] = f] /\ UNCHANGED <<cgMap, contMap, cap>>
    BY <1>0, <1>3, <2>1, <2>2, <2>3 DEF Add, updateEntry
  <2>6. entries' \in Seq(Entry) /\ Len(entries') = Len(entries) /\ DOMAIN entries' = DOMAIN entries
    BY <2>2, <2>4, <2>5, <1>2, ExceptSeq
  <2> QED BY <2>5, <2>6 DEF MapTyped
<1>4. CASE c \notin DOMAIN contMap
  <2> DEFINE free == {i \in Indices : entries[i].invalid}
             append == cap > Len(entries) \/ invalidCnt = 0 \/ free = {}
  <2>1. PICK idx : idx = IF append THEN Len(entries) + 1 ELSE Min(free)
    OBVIOUS
  <2>2. /\ entries' = IF append THEN Append(entries, e) ELSE [entries EXCEPT ![idx] = e]
        /\ cap' = IF append /\ cap = Len(entries) THEN 2 * cap ELSE cap
        /\ contMap' = Put(contMap, e.cont, idx) /\ cgMap' = Put(cgMap, e.cg, idx)
    BY <1>0, <1>4, <2>1 DEF Add, addEntry
  <2>3. /\ entries' \in Seq(Entry) /\ DOMAIN entries \subseteq DOMAIN entries'
        /\ idx \in DOMAIN entries' /\ cap' \in Nat \ {0} /\ Len(entries') <= cap'
    <3>1. CASE append
      <4>1. entries' = Append(entries, e) /\ idx = Len(entries) + 1
        BY <3>1, <2>1, <2>2
      <4>2. entries' \in Seq(Entry) /\ Len(entries') = Len(entries) + 1
        BY <4>1, <1>1, <1>2, AppendProperties
      <4>3. DOMAIN entries' = 1 .. Len(entries) + 1
        BY <4>2
      <4>4. cap' = IF cap = Len(entries) THEN 2 * cap ELSE cap
        BY <3>1, <2>2
      <4>5. PICK n : n = Len(entries)
        OBVIOUS
      <4>6. cap' \in Nat \ {0} /\ n + 1 <= cap'
        <5>1. n \in Nat /\ cap \in Nat /\ cap # 0 /\ n <= cap
          BY <4>5, <1>2 DEF MapTyped
        <5>2. CASE cap = n
          <6>1. cap' = cap + cap
            BY <5>1, <5>2, <4>4, <4>5
          <6> QED BY <5>1, <5>2, <6>1
        <5>3. CASE cap # n
          BY <5>1, <5>3, <4>4, <4>5
        <5> QED BY <5>2, <5>3
      <4>7. DOMAIN entries \subseteq DOMAIN entries' /\ idx \in DOMAIN entries'
        BY <4>1, <4>3, <1>2
      <4> QED BY <4>2, <4>5, <4>6, <4>7
    <3>2. CASE ~append
      <4>1. entries' = [entries EXCEPT ![idx] = e] /\ cap' = cap
        BY <3>2, <2>2
      <4>2. idx \in free
        <5>1. free \in SUBSET Nat
          BY <1>2
        <5> QED BY <5>1, <3>2, <2>1, MinOfNats
      <4>3. entries' \in Seq(Entry) /\ Len(entries') = Len(entries) /\ DOMAIN entries' = DOMAIN entries
        BY <4>1, <4>2, <1>1, <1>2, ExceptSeq
      <4> QED BY <4>1, <4>2, <4>3 DEF MapTyped
    <3> QED BY <3>1, <3>2
  <2> QED BY <2>2, <2>3, <1>1 DEF MapTyped, Put
<1> QED BY <1>3, <1>4

\* Update takes indices out and leaves the slice as long as it is.
LEMMA RemovedTyped ==
  ASSUME MapTyped, NEW p, NEW conts, Removed(p, conts)
  PROVE  MapTyped'
<1> USE DEF Indices
<1>1. PICK gone : gone = {i \in Valid : entries[i].pod = p /\ entries[i].cont \notin conts}
  OBVIOUS
<1>2. /\ entries' = [i \in Indices |-> [entries[i] EXCEPT !.invalid = @ \/ i \in gone]]
      /\ cgMap' = Drop(cgMap, {entries[i].cg : i \in gone}) /\ cap' = cap
      /\ contMap' = Drop(contMap, {entries[i].cont : i \in gone})
  BY <1>1 DEF Removed
<1>3. Indices = 1 .. Len(entries) /\ Len(entries) \in Nat /\ \A i \in Indices : entries[i] \in Entry
  BY DEF MapTyped
<1>4. \A i \in Indices : [entries[i] EXCEPT !.invalid = @ \/ i \in gone] \in Entry
  BY <1>3, Zenon DEF Entry
<1>5. PICK n : n = Len(entries)
  OBVIOUS
<1>6. entries' \in [1 .. n -> Entry] /\ n \in Nat
  BY <1>2, <1>3, <1>4, <1>5
<1>7. entries' \in Seq(Entry) /\ Len(entries') = Len(entries) /\ DOMAIN entries' = DOMAIN entries
  BY <1>3, <1>5, <1>6
<1> QED BY <1>2, <1>7 DEF MapTyped, Drop

\* Every step keeps the types.
LEMMA TypedStep ==
  ASSUME MapTyped, ListTyped, [IdMapNext]_IdMapVars
  PROVE  MapTyped' /\ ListTyped'
<1>0. /\ unresolvedIDs \in Seq(Conts) /\ Len(unresolvedIDs) <= MaxUnmapped
      /\ resolving \in Conts \cup {None}
      /\ life \in [Conts -> {"no", "made", "listed", "over"}]
  BY DEF ListTyped
<1>1. UNCHANGED map => MapTyped'
  BY DEF MapTyped, map, Indices
<1>2. ASSUME NEW c \in Conts, createContainerHook(c)
      PROVE  MapTyped' /\ ListTyped'
  BY <1>0, <1>1, <1>2, AddTyped DEF createContainerHook, ListTyped
<1>3. ASSUME NEW c \in Conts, ContainerStatus(c)
      PROVE  MapTyped' /\ ListTyped'
  BY <1>0, <1>1, <1>3 DEF ContainerStatus, ListTyped
<1>4. ASSUME NEW p \in Pods, DeletePod(p)
      PROVE  MapTyped' /\ ListTyped'
  BY <1>0, <1>1, <1>4 DEF DeletePod, ListTyped
<1>5. ASSUME NEW p \in Pods, podHandler(p)
      PROVE  MapTyped' /\ ListTyped'
  <2>1. Removed(p, Listed(p)) /\ resolving' = resolving /\ life' = life
    BY <1>5 DEF podHandler, Update
  <2> QED BY <1>0, <1>5, <2>1, RemovedTyped, UpdateList DEF ListTyped
<1>6. CASE ResolveNext
  <2>1. /\ Head(unresolvedIDs) \in Conts /\ Tail(unresolvedIDs) \in Seq(Conts)
        /\ Len(Tail(unresolvedIDs)) = Len(unresolvedIDs) - 1 /\ Len(unresolvedIDs) \in Nat
    BY <1>0, <1>6, HeadTailProperties DEF ResolveNext
  <2>2. MaxUnmapped \in Nat
    BY CgroupIdMapAssumption
  <2> QED BY <1>0, <1>1, <1>6, <2>1, <2>2 DEF ResolveNext, ListTyped
<1>7. CASE criResolve
  <2>1. PICK cg \in IdsOf[resolving] : Add(resolving, cg)
    BY <1>7 DEF criResolve
  <2> QED BY <2>1, <1>0, <1>7, AddTyped DEF criResolve, ListTyped
<1>8. CASE criFails
  BY <1>0, <1>1, <1>8 DEF criFails, ListTyped
<1>9. CASE UNCHANGED IdMapVars
  BY <1>0, <1>1, <1>9 DEF IdMapVars, map, ListTyped
<1> QED BY <1>2, <1>3, <1>4, <1>5, <1>6, <1>7, <1>8, <1>9 DEF IdMapNext

\* The types, whatever cgroup ids the containers have: no index leads out of
\* the slice, the slice is never longer than its capacity and the resolver's list
\* never longer than maxUnmappedIDs.
THEOREM IdMapTypeCorrect == IdMapSpec => []IdMapTypeOK
<1>1. IdMapInit => MapTyped /\ ListTyped
  <2> SUFFICES ASSUME IdMapInit
               PROVE  MapTyped /\ ListTyped
    OBVIOUS
  <2>1. entries \in Seq(Entry) /\ unresolvedIDs \in Seq(Conts)
        /\ Len(entries) = 0 /\ Len(unresolvedIDs) = 0
    BY EmptySeq DEF IdMapInit
  <2> QED BY <2>1, CgroupIdMapAssumption DEF IdMapInit, MapTyped, ListTyped
<1>2. MapTyped /\ ListTyped /\ [IdMapNext]_IdMapVars => (MapTyped /\ ListTyped)'
  BY TypedStep
<1>3. MapTyped /\ ListTyped => IdMapTypeOK
  BY DEF MapTyped, ListTyped, IdMapTypeOK, Entry
<1> QED BY <1>1, <1>2, <1>3, PTL DEF IdMapSpec
==============================================================================
