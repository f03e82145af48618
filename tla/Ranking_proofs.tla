---------------------------- MODULE Ranking_proofs ----------------------------
(***************************************************************************)
(* Theorems about Ranking: how old the bars of a ranking can be, for any   *)
(* universe, refresh interval, and history of answers, midnights, crashes; *)
(* and which symbols it puts forward, for any scores.                      *)
(***************************************************************************)
EXTENDS Ranking, FiniteSetTheorems, TLAPS

\* Cache files: none for a day to come, and each from a cycle of its own day.
FilesOfTheirDay ==
  \A s \in Symbols, d \in Days : Hit(s, d) => d <= day /\ file[s][d] > dawn[d]

\* A file of today that no refresh or restart left behind is younger than the last
\* forced refresh.
FilesWithinRefresh ==
  \A s \in Symbols : Hit(s, day) => cycle - file[s][day] <= count \/ <<s, day>> \in behind

\* What the cycle in hand has gathered.
Gathered ==
  \A s \in Symbols :
    /\ s \in unsaved => bars[s] = cycle /\ cycle > 0 /\ pc = "store"
    /\ bars[s] # None =>
         /\ bars[s] > dawn[key]
         /\ cycle - bars[s] <= count \/ <<s, key>> \in behind
         /\ count = 0 => bars[s] = cycle

Clock == key <= day /\ latest.day <= day /\ \A d \in Days : dawn[d] <= cycle

IInv ==
  /\ TypeOK /\ Clock /\ FilesOfTheirDay /\ FilesWithinRefresh /\ Gathered
  /\ BarsWithinRefresh /\ BarsOfTheirDay

Safe == BarsWithinRefresh /\ BarsOfTheirDay

\* The bounds are numbers, one by one.
LEMMA Numbers ==
  /\ Universe \in Nat /\ MaxCycles \in Nat /\ MaxDays \in Nat /\ MaxCrashes \in Nat
  /\ RefreshEvery \in Nat \ {0}
  BY RankingAssumption

LEMMA InitIInv == Init => IInv
<1> SUFFICES ASSUME Init PROVE IInv
  OBVIOUS
<1> USE RankingAssumption DEF Init, None, Torn, Nothing, NoRanking, Days
<1>1. TypeOK
  BY DEF TypeOK, Bars
<1>2. Clock /\ FilesOfTheirDay /\ FilesWithinRefresh /\ Gathered
  BY DEF Clock, FilesOfTheirDay, FilesWithinRefresh, Gathered, Hit
<1>3. BarsWithinRefresh /\ BarsOfTheirDay
  BY DEF BarsWithinRefresh, BarsOfTheirDay, Ranked
<1> QED BY <1>1, <1>2, <1>3 DEF IInv

\* A ranking that is not touched stays as good as it was, whatever later midnights do.
LEMMA RankingUntouched ==
  ASSUME IInv, UNCHANGED latest,
         UNCHANGED dawn \/ dawn' = [dawn EXCEPT ![day + 1] = cycle]
  PROVE  Safe'
<1> USE DEF IInv, Safe, Ranked
<1>1. BarsWithinRefresh'
  BY DEF BarsWithinRefresh
<1>2. dawn'[latest.day] = dawn[latest.day]
  <2>1. day \in Int /\ latest.day \in Int /\ latest.day # day + 1
    BY Numbers DEF TypeOK, Clock, Days
  <2>2. dawn \in [Days -> 0..MaxCycles] /\ latest.day \in Days
    BY DEF TypeOK
  <2> QED BY <2>1, <2>2
<1>3. BarsOfTheirDay'
  BY <1>2 DEF BarsOfTheirDay
<1> QED BY <1>1, <1>3

\* The cycle begins: what it reads is of today, and a refresh reads nothing.
LEMMA GatherKeeps == IInv /\ Gather => IInv'
<1> SUFFICES ASSUME IInv, Gather PROVE IInv'
  OBVIOUS
<1> USE RankingAssumption DEF None, Torn
<1> DEFINE found == {s \in Symbols : Hit(s, day)}
           hits  == IF Forced THEN {} ELSE found
<1>t. TypeOK /\ Clock
  BY DEF IInv
<1>g. /\ pc = "idle" /\ cycle < MaxCycles /\ cycle' = cycle + 1 /\ key' = day
      /\ count' = (IF count = RefreshEvery - 1 THEN 0 ELSE count + 1)
      /\ pc' = "store" /\ UNCHANGED <<day, dawn, file, crashes, latest>>
      /\ behind' = IF Forced THEN behind \cup (found \X {day}) ELSE behind
  BY DEF Gather
<1>a. PICK answered \in SUBSET (Symbols \ hits) :
        /\ bars' = [s \in Symbols |-> IF s \in answered THEN cycle + 1
                                      ELSE IF s \in hits THEN file[s][day] ELSE None]
        /\ unsaved' = answered
  BY DEF Gather
<1>b. ASSUME NEW s \in Symbols
      PROVE  /\ s \in answered => bars'[s] = cycle + 1
             /\ s \notin answered => bars'[s] = None \/ (~Forced /\ Hit(s, day) /\ bars'[s] = file[s][day])
  BY <1>a
<1>c. file \in [Symbols -> [Days -> Bars]] /\ day \in Days
  BY <1>t DEF TypeOK
<1>d. cycle \in Nat /\ cycle + 1 \in 1..MaxCycles /\ count' \in 0..(RefreshEvery - 1)
  <2>1. cycle \in 0..MaxCycles /\ count \in 0..(RefreshEvery - 1)
    BY <1>t DEF TypeOK
  <2>2. cycle \in Nat /\ cycle + 1 \in 1..MaxCycles
    BY <1>g, <2>1, Numbers
  <2>3. count' \in 0..(RefreshEvery - 1)
    BY <1>g, <2>1, Numbers
  <2> QED BY <2>2, <2>3
<1>e. \A s \in Symbols : bars'[s] \in Bars
  BY <1>b, <1>c, <1>d DEF Bars
<1>1. TypeOK'
  <2>1. bars' \in [Symbols -> Bars] /\ unsaved' \subseteq Symbols
    BY <1>a, <1>e
  <2>2. behind' \subseteq Symbols \X Days
    BY <1>t, <1>g, <1>c DEF TypeOK
  <2> QED BY <1>t, <1>g, <1>d, <2>1, <2>2 DEF TypeOK
<1>2. Clock'
  <2>1. \A d \in Days : dawn[d] \in Int /\ dawn[d] <= cycle
    BY <1>t, Numbers DEF Clock, TypeOK
  <2>2. day <= day
    BY <1>c, Numbers DEF Days
  <2>3. latest.day <= day
    BY <1>t DEF Clock
  <2> QED BY <1>g, <1>d, <2>1, <2>2, <2>3 DEF Clock
<1>3. FilesOfTheirDay'
  BY <1>g DEF IInv, FilesOfTheirDay, Hit
<1>4. FilesWithinRefresh'
  <2> SUFFICES ASSUME NEW s \in Symbols, Hit(s, day)
               PROVE  cycle' - file[s][day] <= count' \/ <<s, day>> \in behind'
    BY <1>g DEF FilesWithinRefresh, Hit
  <2>1. cycle - file[s][day] <= count \/ <<s, day>> \in behind
    BY DEF IInv, FilesWithinRefresh
  <2>2. CASE Forced
    BY <1>g, <2>2
  <2>3. CASE ~Forced
    <3>1. file[s][day] \in Int /\ count \in Nat
      BY <1>c, <1>t DEF Bars, TypeOK
    <3> QED BY <1>g, <1>d, <2>1, <2>3, <3>1 DEF Forced
  <2> QED BY <2>2, <2>3
<1>5. Gathered'
  <2> SUFFICES ASSUME NEW s \in Symbols
               PROVE  /\ s \in unsaved' => bars'[s] = cycle' /\ cycle' > 0 /\ pc' = "store"
                      /\ bars'[s] # None =>
                           /\ bars'[s] > dawn'[key']
                           /\ cycle' - bars'[s] <= count' \/ <<s, key'>> \in behind'
                           /\ count' = 0 => bars'[s] = cycle'
    BY DEF Gathered
  <2>1. CASE s \in answered
    <3>1. bars'[s] = cycle'
      BY <1>b, <1>g, <2>1
    <3>2. dawn[day] <= cycle /\ dawn[day] \in Nat
      BY <1>t, <1>c DEF Clock, TypeOK
    <3> QED BY <1>d, <1>g, <3>1, <3>2
  <2>2. CASE s \notin answered /\ bars'[s] # None
    <3>1. ~Forced /\ Hit(s, day) /\ bars'[s] = file[s][day]
      BY <1>b, <2>2
    <3>2. bars'[s] > dawn[day]
      BY <1>c, <3>1 DEF IInv, FilesOfTheirDay
    <3>3. cycle' - bars'[s] <= count' \/ <<s, day>> \in behind'
      BY <1>4, <1>g, <3>1 DEF FilesWithinRefresh, Hit
    <3>4. count' # 0
      BY <1>g, <1>t, <3>1 DEF Forced, TypeOK
    <3> QED BY <1>a, <1>g, <2>2, <3>2, <3>3, <3>4
  <2> QED BY <1>a, <2>1, <2>2
<1>6. Safe'
  BY <1>g, RankingUntouched
<1> QED BY <1>1, <1>2, <1>3, <1>4, <1>5, <1>6 DEF IInv, Safe

\* A file is written under the day its cycle began, whatever the day is now.
LEMMA StoreKeeps == ASSUME IInv, NEW s \in Symbols, Store(s) PROVE IInv'
<1> USE RankingAssumption DEF None, Torn
<1>t. TypeOK /\ Clock
  BY DEF IInv
<1>g. /\ s \in unsaved /\ unsaved' = unsaved \ {s}
      /\ UNCHANGED <<pc, cycle, count, day, dawn, key, bars, raw, crashes, latest>>
  BY DEF Store
<1>b. bars[s] = cycle /\ cycle \in 1..MaxCycles /\ cycle > dawn[key] /\ key \in Days
  <2>1. bars[s] = cycle /\ cycle > 0
    BY <1>g DEF IInv, Gathered
  <2>2. cycle \in 0..MaxCycles /\ key \in Days
    BY <1>t DEF TypeOK
  <2>3. cycle \in 1..MaxCycles /\ bars[s] # 0
    BY <2>1, <2>2, Numbers
  <2>4. bars[s] > dawn[key]
    BY <2>3 DEF IInv, Gathered
  <2> QED BY <2>1, <2>2, <2>3, <2>4
<1>f. \/ file' = [file EXCEPT ![s][key] = cycle] /\ behind' = behind \ {<<s, key>>}
      \/ file' = [file EXCEPT ![s][key] = Torn] /\ behind' = behind
      \/ UNCHANGED <<file, behind>>
  BY <1>b DEF Store, cacheVars
<1>e. ASSUME NEW q \in Symbols, NEW d \in Days
      PROVE  \/ file'[q][d] = file[q][d] /\ (q # s \/ d # key \/ behind' = behind)
             \/ q = s /\ d = key /\ (file'[q][d] = cycle \/ file'[q][d] = Torn)
  BY <1>t, <1>f DEF TypeOK
<1>1. TypeOK'
  <2>1. file' \in [Symbols -> [Days -> Bars]]
    BY <1>t, <1>b, <1>f DEF TypeOK, Bars
  <2> QED BY <1>t, <1>g, <1>f, <2>1 DEF TypeOK
<1>2. Clock'
  BY <1>t, <1>g DEF Clock
<1>3. FilesOfTheirDay'
  BY <1>t, <1>g, <1>b, <1>e DEF IInv, FilesOfTheirDay, Hit, Clock
<1>4. FilesWithinRefresh'
  <2> SUFFICES ASSUME NEW q \in Symbols, Hit(q, day)'
               PROVE  cycle - file'[q][day] <= count \/ <<q, day>> \in behind'
    BY <1>g DEF FilesWithinRefresh, Hit
  <2>1. CASE q = s /\ day = key /\ file'[q][day] = cycle
    BY <1>t, <1>b, <2>1 DEF TypeOK
  <2>2. CASE file'[q][day] = file[q][day] /\ (q # s \/ day # key \/ behind' = behind)
    BY <1>f, <1>g, <2>2 DEF IInv, FilesWithinRefresh, Hit
  <2> QED BY <1>t, <1>g, <1>e, <2>1, <2>2 DEF Hit, TypeOK
<1>5. Gathered'
  <2> SUFFICES ASSUME NEW q \in Symbols, bars[q] # None
               PROVE  cycle - bars[q] <= count \/ <<q, key>> \in behind'
    BY <1>g DEF IInv, Gathered
  <2>1. CASE q = s
    BY <1>t, <1>b, <2>1 DEF TypeOK
  <2>2. CASE q # s
    BY <1>f, <2>2 DEF IInv, Gathered
  <2> QED BY <2>1, <2>2
<1>6. Safe'
  BY <1>g, RankingUntouched
<1> QED BY <1>1, <1>2, <1>3, <1>4, <1>5, <1>6 DEF IInv, Safe

\* A ranking is made of what was gathered, or of nothing.
LEMMA PublishKeeps == IInv /\ (Publish \/ PublishNothing) => IInv'
<1> SUFFICES ASSUME IInv, Publish \/ PublishNothing PROVE IInv'
  OBVIOUS
<1> USE RankingAssumption DEF None, Torn
<1>t. TypeOK /\ Clock
  BY DEF IInv
<1>g. /\ pc' = "idle" /\ bars' = Nothing /\ unsaved' = {}
      /\ UNCHANGED <<cycle, count, day, dawn, key, file, behind, crashes>>
  BY DEF Publish, PublishNothing, cacheVars
<1>r. PICK scores : latest' = RankingOf(scores, bars) \/ latest' = RankingOf(scores, Nothing)
  BY DEF Publish, PublishNothing
<1>l. /\ latest'.at = cycle /\ latest'.day = key /\ latest'.refreshed = (count = 0)
      /\ latest'.bars = bars \/ latest'.bars = Nothing
      /\ latest'.behind = {s \in Symbols : <<s, key>> \in behind}
  BY <1>r DEF RankingOf
<1>n. \A s \in Symbols : Nothing[s] = None
  BY DEF Nothing
<1>1. TypeOK'
  BY <1>t, <1>g, <1>l DEF TypeOK, Nothing, Bars
<1>2. Clock'
  BY <1>t, <1>g, <1>l DEF Clock
<1>3. FilesOfTheirDay' /\ FilesWithinRefresh'
  BY <1>g DEF IInv, FilesOfTheirDay, FilesWithinRefresh, Hit
<1>4. Gathered'
  BY <1>g, <1>n DEF Gathered
<1>5. BarsWithinRefresh'
  <2> SUFFICES ASSUME NEW s \in Symbols, latest'.bars[s] # None
               PROVE  /\ cycle - latest'.bars[s] < RefreshEvery \/ <<s, key>> \in behind
                      /\ count = 0 => latest'.bars[s] = cycle
    BY <1>l DEF BarsWithinRefresh, Ranked
  <2>1. bars[s] # None /\ latest'.bars[s] = bars[s]
    BY <1>l, <1>n
  <2>2. /\ cycle - bars[s] <= count \/ <<s, key>> \in behind
        /\ count = 0 => bars[s] = cycle
    BY <2>1 DEF IInv, Gathered
  <2> QED BY <1>t, <2>1, <2>2 DEF TypeOK, Bars
<1>6. BarsOfTheirDay'
  BY <1>g, <1>l, <1>n DEF IInv, Gathered, BarsOfTheirDay, Ranked
<1> QED BY <1>1, <1>2, <1>3, <1>4, <1>5, <1>6 DEF IInv

\* Tomorrow's keys have no files yet.
LEMMA MidnightKeeps == IInv /\ Midnight => IInv'
<1> SUFFICES ASSUME IInv, Midnight PROVE IInv'
  OBVIOUS
<1> USE RankingAssumption DEF None, Torn
<1>t. TypeOK /\ Clock
  BY DEF IInv
<1>g. /\ day' = day + 1 /\ day + 1 \in Days /\ dawn' = [dawn EXCEPT ![day + 1] = cycle]
      /\ UNCHANGED <<pc, cycle, count, key, file, behind, bars, raw, unsaved, crashes, latest>>
  BY <1>t DEF Midnight, cacheVars, TypeOK, Days
<1>d. \A d \in Days : d <= day => dawn'[d] = dawn[d]
  BY <1>t, <1>g DEF TypeOK, Days
<1>n. day \in Nat /\ cycle \in 0..MaxCycles
  BY <1>t, Numbers DEF TypeOK, Days
<1>1. TypeOK' /\ Clock'
  <2>1. dawn' \in [Days -> 0..MaxCycles] /\ day' \in Days
    BY <1>t, <1>g DEF TypeOK
  <2>2. \A d \in Days : dawn'[d] <= cycle
    BY <1>t, <1>g, <1>n, Numbers DEF TypeOK, Clock
  <2>3. key \in Int /\ latest.day \in Int /\ key <= day + 1 /\ latest.day <= day + 1
    BY <1>t, <1>n, Numbers DEF TypeOK, Clock, Days
  <2> QED BY <1>t, <1>g, <2>1, <2>2, <2>3 DEF TypeOK, Clock
<1>2. FilesOfTheirDay' /\ FilesWithinRefresh'
  <2>1. ASSUME NEW s \in Symbols, NEW d \in Days, Hit(s, d)
        PROVE  d <= day /\ file[s][d] > dawn[d] /\ dawn'[d] = dawn[d]
    BY <1>d, <2>1 DEF IInv, FilesOfTheirDay
  <2>2. ASSUME NEW s \in Symbols
        PROVE  ~Hit(s, day + 1)
    BY <1>g, <1>n, <2>1, <2>2
  <2>3. \A d \in Days : d \in Int
    BY Numbers DEF Days
  <2>4. FilesOfTheirDay'
    BY <1>g, <1>n, <2>1, <2>3 DEF FilesOfTheirDay, Hit
  <2>5. FilesWithinRefresh'
    BY <1>g, <2>2 DEF FilesWithinRefresh, Hit
  <2> QED BY <2>4, <2>5
<1>3. Gathered'
  BY <1>t, <1>g, <1>d DEF IInv, Gathered, TypeOK, Clock
<1>4. Safe'
  BY <1>g, RankingUntouched
<1> QED BY <1>1, <1>2, <1>3, <1>4 DEF IInv, Safe

\* After a crash the count is gone, so every file counts as left behind.
LEMMA CrashKeeps == IInv /\ Crash => IInv'
<1> SUFFICES ASSUME IInv, Crash PROVE IInv'
  OBVIOUS
<1> USE RankingAssumption DEF None, Torn
<1>t. TypeOK /\ Clock
  BY DEF IInv
<1>g. /\ pc' = "idle" /\ count' = 0 /\ bars' = Nothing /\ unsaved' = {}
      /\ latest' = NoRanking /\ behind' = Symbols \X Days
      /\ UNCHANGED <<cycle, day, dawn, key>>
      /\ crashes < MaxCrashes /\ crashes' = crashes + 1
  BY DEF Crash
<1>f. UNCHANGED file \/ \E s \in unsaved : file' = [file EXCEPT ![s][key] = Torn]
  BY DEF Crash
<1>e. ASSUME NEW q \in Symbols, NEW d \in Days
      PROVE  file'[q][d] = file[q][d] \/ file'[q][d] = Torn
  BY <1>t, <1>f DEF TypeOK
<1>1. TypeOK'
  <2>1. file' \in [Symbols -> [Days -> Bars]]
    BY <1>t, <1>f DEF TypeOK, Bars
  <2>2. crashes' \in 0..MaxCrashes
    BY <1>t, <1>g DEF TypeOK
  <2>3. /\ latest'.at \in 0..MaxCycles /\ latest'.day \in Days
        /\ latest'.bars \in [Symbols -> Bars]
    BY <1>g, Numbers DEF NoRanking, Nothing, Bars, Days
  <2>4. bars' \in [Symbols -> Bars] /\ unsaved' \subseteq Symbols /\ behind' \subseteq Symbols \X Days
    BY <1>g DEF Nothing, Bars
  <2>5. pc' = "idle" /\ count' \in 0..RefreshEvery - 1
    BY <1>g, Numbers
  <2>6. cycle' \in 0..MaxCycles /\ day' \in Days /\ dawn' \in [Days -> 0..MaxCycles] /\ key' \in Days
    BY <1>t, <1>g DEF TypeOK
  <2> QED BY <2>1, <2>2, <2>3, <2>4, <2>5, <2>6 DEF TypeOK
<1>2. Clock'
  BY <1>t, <1>g DEF Clock, NoRanking, TypeOK, Days
<1>3. FilesOfTheirDay'
  BY <1>g, <1>e DEF IInv, FilesOfTheirDay, Hit
<1>4. FilesWithinRefresh'
  BY <1>t, <1>g DEF FilesWithinRefresh, TypeOK
<1>5. Gathered'
  BY <1>g DEF Gathered, Nothing
<1>6. BarsWithinRefresh' /\ BarsOfTheirDay'
  BY <1>g DEF BarsWithinRefresh, BarsOfTheirDay, Ranked, NoRanking, Nothing
<1> QED BY <1>1, <1>2, <1>3, <1>4, <1>5, <1>6 DEF IInv

LEMMA NextIInv == IInv /\ [Next]_vars => IInv'
<1>1. IInv /\ UNCHANGED vars => IInv'
  BY DEF IInv, vars, TypeOK, Clock, FilesOfTheirDay, FilesWithinRefresh, Gathered, Hit,
     BarsWithinRefresh, BarsOfTheirDay, Ranked
<1> QED BY <1>1, GatherKeeps, StoreKeeps, PublishKeeps, MidnightKeeps, CrashKeeps DEF Next

\* The two facts together.
LEMMA Inductive == Spec => []IInv
  BY InitIInv, NextIInv, PTL DEF Spec

\* Cycle, cache and ranking keep their types.
THEOREM TypeCorrect == Spec => []TypeOK
<1>1. IInv => TypeOK
  BY DEF IInv
<1> QED BY <1>1, Inductive, PTL

\* Bars in a ranking are younger than the refresh interval, for any interval, except
\* where a refresh or the process failed, and a refresh never falls back on the cache.
THEOREM BarsAreYoung == Spec => []BarsWithinRefresh
<1>1. IInv => BarsWithinRefresh
  BY DEF IInv
<1> QED BY <1>1, Inductive, PTL

\* No ranking mixes in bars of an earlier day or of a torn file.
THEOREM DaysStayApart == Spec => []BarsOfTheirDay
<1>1. IInv => BarsOfTheirDay
  BY DEF IInv
<1> QED BY <1>1, Inductive, PTL

--------------------------------------------------------------------------------
\* Scores attained by finitely many symbols have a lowest and a highest.
LEMMA FiniteHasLowest ==
  ASSUME NEW S, IsFiniteSet(S), S # {}, NEW f \in [S -> Int]
  PROVE  \E m \in S : \A x \in S : f[m] <= f[x]
<1> DEFINE Below(t) == {x \in S : f[x] <= f[t]}
           Family == {Below(t) : t \in S}
<1>1. IsWellFoundedOn(StrictSubsetOrdering(S), FiniteSubsetsOf(S))
  BY FS_StrictSubsetOrderingWellFounded
<1>2. Family \subseteq FiniteSubsetsOf(S) /\ Family # {}
  <2>1. \A t \in S : Below(t) \in SUBSET S
    OBVIOUS
  <2>2. \A t \in S : IsFiniteSet(Below(t))
    <3> HIDE DEF Below
    <3> QED BY <2>1, FS_Subset
  <2>3. \A t \in S : Below(t) \in FiniteSubsetsOf(S)
    <3> HIDE DEF Below
    <3> QED BY <2>1, <2>2 DEF FiniteSubsetsOf
  <2> HIDE DEF Below
  <2> QED BY <2>3
<1>3. PICK B \in Family : \A C \in Family : ~ (<<C, B>> \in StrictSubsetOrdering(S))
  <2> HIDE DEF Family
  <2> QED BY <1>1, <1>2, WFMin
<1>4. PICK m \in S : B = Below(m)
  OBVIOUS
<1>5. ASSUME NEW x \in S, f[x] < f[m] PROVE FALSE
  <2>1. Below(x) \subseteq B /\ m \in B /\ m \notin Below(x)
    BY <1>4, <1>5
  <2>2. <<Below(x), B>> \in StrictSubsetOrdering(S)
    BY <1>4, <2>1 DEF StrictSubsetOrdering
  <2> QED BY <1>3, <2>2
<1> QED BY <1>5
LEMMA FiniteHasHighest ==
  ASSUME NEW S, IsFiniteSet(S), S # {}, NEW f \in [S -> Int]
  PROVE  \E m \in S : \A x \in S : f[x] <= f[m]
<1> DEFINE g == [s \in S |-> -f[s]]
<1>1. PICK m \in S : \A x \in S : g[m] <= g[x]
  <2>1. g \in [S -> Int]
    OBVIOUS
  <2> HIDE DEF g
  <2> QED BY <2>1, FiniteHasLowest
<1> QED BY <1>1

\* The range of the scores, in full percents of itself, is met by the highest and the
\* lowest score, and by no score twice.
LEMMA Percents ==
  ASSUME NEW r \in Int, r > 0, NEW x \in Int
  PROVE  /\ r * 100 >= LongThreshold * r
         /\ 0 * 100 <= ShortThreshold * r
         /\ ~ (x * 100 >= LongThreshold * r /\ x * 100 <= ShortThreshold * r)
<1> USE RankingAssumption
<1>1. LongThreshold \in Int /\ ShortThreshold \in Int /\ LongThreshold <= 100
      /\ 0 <= ShortThreshold /\ ShortThreshold + 1 <= LongThreshold
  OBVIOUS
<1>2. \A a, b \in Int : a >= 0 /\ b >= 0 => a * b >= 0
  OBVIOUS
<1>3. (100 - LongThreshold) * r >= 0 /\ ShortThreshold * r >= 0
      /\ (LongThreshold - ShortThreshold - 1) * r >= 0
  BY <1>1, <1>2
<1> QED BY <1>1, <1>3

\* There are finitely many symbols.
LEMMA SymbolsFinite == IsFiniteSet(Symbols) /\ Symbols \subseteq Nat
<1>1. Universe \in Int
  BY Numbers
<1>2. IsFiniteSet(1..Universe)
  BY <1>1, FS_Interval
<1> QED BY <1>1, <1>2 DEF Symbols

\* Among finitely many scored symbols none is ahead of the first in the stable sort.
LEMMA Strongest ==
  ASSUME NEW C \in SUBSET Symbols, C # {}, NEW scores, \A x \in C : scores[x] \in Int
  PROVE  \E s \in C : \A t \in C : ~Stronger(scores, t, s)
<1> DEFINE f == [s \in C |-> scores[s]]
<1>1. IsFiniteSet(C) /\ C \subseteq Nat
  BY SymbolsFinite, FS_Subset
<1>2. PICK m \in C : \A x \in C : f[x] <= f[m]
  <2>1. f \in [C -> Int]
    OBVIOUS
  <2> HIDE DEF f
  <2> QED BY <1>1, <2>1, FiniteHasHighest
<1> DEFINE E == {s \in C : scores[s] = scores[m]}
           i == [s \in E |-> s]
<1>3. PICK s \in E : \A x \in E : i[s] <= i[x]
  <2>1. IsFiniteSet(E)
    BY <1>1, FS_Subset
  <2>2. m \in E
    OBVIOUS
  <2>4. \A x \in E : x \in Int
    <3>1. \A x \in C : x \in Int
      BY <1>1
    <3> QED BY <3>1
  <2>3. i \in [E -> Int]
    BY <2>4
  <2> HIDE DEF i, E
  <2> QED BY <2>1, <2>2, <2>3, FiniteHasLowest
<1>4. \A x \in E : s <= x
  BY <1>3
<1>5. ASSUME NEW t \in C, Stronger(scores, t, s) PROVE FALSE
  <2>1. scores[t] \in Int /\ scores[s] \in Int /\ t \in Nat /\ s \in Nat
    BY <1>1
  <2>2. scores[t] <= scores[s]
    BY <1>2
  <2>3. scores[t] = scores[s] /\ t < s
    BY <1>5, <2>1, <2>2 DEF Stronger
  <2>4. t \in E
    BY <2>3
  <2> QED BY <1>4, <2>1, <2>3, <2>4
<1> QED BY <1>5

\* A side with a candidate has a first one.
LEMMA LongsFilled ==
  ASSUME NEW D \in SUBSET Symbols, NEW scores \in [D -> Int]
  PROVE  DOMAIN Longs(scores) # {} <=> \E s \in D : AtLeast(scores, s, LongThreshold)
<1> DEFINE Cands == {s \in D : AtLeast(scores, s, LongThreshold)}
           Ahead(s) == {t \in Cands : Stronger(scores, t, s)}
<1>1. DOMAIN Longs(scores) = {s \in Cands : 1 + Cardinality(Ahead(s)) <= MaxCandidates}
  BY DEF Longs, Top
<1>2. ASSUME Cands # {} PROVE \E s \in Cands : Ahead(s) = {}
  <2>1. Cands \in SUBSET Symbols /\ \A x \in Cands : scores[x] \in Int
    OBVIOUS
  <2>2. PICK s \in Cands : \A t \in Cands : ~Stronger(scores, t, s)
    <3> HIDE DEF Cands
    <3> QED BY <1>2, <2>1, Strongest
  <2> QED BY <2>2
<1>3. ASSUME NEW s \in Cands, Ahead(s) = {} PROVE s \in DOMAIN Longs(scores)
  <2>1. Cardinality(Ahead(s)) = 0
    BY <1>3, FS_EmptySet
  <2> HIDE DEF Ahead, Cands
  <2> QED BY <1>1, <2>1, RankingAssumption
<1> HIDE DEF Ahead
<1> QED BY <1>1, <1>2, <1>3

LEMMA ShortsFilled ==
  ASSUME NEW D \in SUBSET Symbols, NEW scores \in [D -> Int]
  PROVE  DOMAIN ShortsOf(scores) # {} <=> \E s \in D : AtMost(scores, s, ShortThreshold)
<1> DEFINE Cands == {s \in D : AtMost(scores, s, ShortThreshold)}
           Ahead(s) == {t \in Cands : Weaker(scores, t, s)}
<1>1. DOMAIN ShortsOf(scores) = {s \in Cands : 1 + Cardinality(Ahead(s)) <= MaxCandidates}
  BY DEF ShortsOf, Top
<1>2. ASSUME Cands # {} PROVE \E s \in Cands : Ahead(s) = {}
  <2>1. Cands \in SUBSET Symbols /\ \A x \in Cands : [q \in Cands |-> -scores[q]][x] \in Int
    OBVIOUS
  <2>2. PICK s \in Cands : \A t \in Cands : ~Stronger([q \in Cands |-> -scores[q]], t, s)
    <3> HIDE DEF Cands
    <3> QED BY <1>2, <2>1, Strongest
  <2> QED BY <2>2 DEF Stronger, Weaker
<1>3. ASSUME NEW s \in Cands, Ahead(s) = {} PROVE s \in DOMAIN ShortsOf(scores)
  <2>1. Cardinality(Ahead(s)) = 0
    BY <1>3, FS_EmptySet
  <2> HIDE DEF Ahead, Cands
  <2> QED BY <1>1, <2>1, RankingAssumption
<1> HIDE DEF Ahead
<1> QED BY <1>1, <1>2, <1>3

\* Two values make more than one.
LEMMA MoreThanOne ==
  ASSUME NEW S, IsFiniteSet(S)
  PROVE  Cardinality(S) > 1 <=> \E x, y \in S : x # y
<1>1. Cardinality(S) \in Nat
  BY FS_CardinalityType
<1>2. CASE S = {}
  BY <1>2, FS_EmptySet
<1>3. ASSUME NEW x \in S, S = {x} PROVE Cardinality(S) = 1
  BY <1>3, FS_Singleton
<1>4. ASSUME NEW x \in S, NEW y \in S, x # y PROVE Cardinality(S) > 1
  <2>1. Cardinality(S) # 0 /\ Cardinality(S) # 1
    BY <1>4, FS_EmptySet, FS_Singleton
  <2> QED BY <1>1, <2>1
<1> QED BY <1>2, <1>3, <1>4

\* One direction of the ranking without the other, or a symbol on both sides, cannot be.
LEMMA SelectionBalances ==
  ASSUME NEW D \in SUBSET Symbols, NEW scores \in [D -> Int]
  PROVE  /\ DOMAIN Longs(scores) # {} <=> Cardinality({scores[s] : s \in DOMAIN scores}) > 1
         /\ DOMAIN ShortsOf(scores) # {} <=> Cardinality({scores[s] : s \in DOMAIN scores}) > 1
         /\ DOMAIN Longs(scores) \cap DOMAIN ShortsOf(scores) = {}
<1> DEFINE values == {scores[s] : s \in DOMAIN scores}
           lo == Lowest(scores)
           hi == Highest(scores)
<1>1. IsFiniteSet(D)
  BY SymbolsFinite, FS_Subset
<1>2. IsFiniteSet(values)
  <2>1. scores \in Surjection(D, values)
    BY DEF Surjection
  <2> HIDE DEF values
  <2> QED BY <1>1, <2>1, FS_Surjection
<1>3. Cardinality(values) > 1 <=> \E s, t \in D : scores[s] # scores[t]
  <2>1. (\E x, y \in values : x # y) <=> \E s, t \in D : scores[s] # scores[t]
    OBVIOUS
  <2> HIDE DEF values
  <2> QED BY <1>2, <2>1, MoreThanOne
<1>4. CASE D = {}
  BY <1>3, <1>4, LongsFilled, ShortsFilled
<1>5. CASE D # {}
  <2>1. PICK m \in D : \A x \in D : scores[m] <= scores[x]
    BY <1>1, <1>5, FiniteHasLowest
  <2>2. PICK h \in D : \A x \in D : scores[x] <= scores[h]
    BY <1>1, <1>5, FiniteHasHighest
  <2>3. lo = scores[m]
    <3>1. lo \in values /\ \A v \in values : lo <= v
      <4>1. \E v \in values : \A w \in values : v <= w
        BY <2>1
      <4> QED BY <4>1 DEF Lowest, Min
    <3> QED BY <2>1, <3>1
  <2>4. hi = scores[h]
    <3>1. hi \in values /\ \A v \in values : hi >= v
      <4>1. \E v \in values : \A w \in values : v >= w
        BY <2>2
      <4> QED BY <4>1 DEF Highest, Max
    <3> QED BY <2>2, <3>1
  <2>5. lo \in Int /\ hi \in Int /\ lo <= hi /\ \A s \in D : lo <= scores[s] /\ scores[s] <= hi
    BY <2>1, <2>2, <2>3, <2>4
  <2>6. Cardinality(values) > 1 <=> lo # hi
    BY <1>3, <2>3, <2>4, <2>5
  <2>7. CASE lo = hi
    BY <2>6, <2>7, LongsFilled, ShortsFilled, RankingAssumption DEF AtLeast, AtMost
  <2>8. CASE lo # hi
    <3>1. hi - lo \in Int /\ hi - lo > 0
      BY <2>5, <2>8
    <3>2. AtLeast(scores, h, LongThreshold)
      BY <2>4, <2>8, <3>1, Percents DEF AtLeast
    <3>3. AtMost(scores, m, ShortThreshold)
      BY <2>3, <2>8, <3>1, Percents DEF AtMost
    <3>4. ASSUME NEW s \in D, AtLeast(scores, s, LongThreshold),
                 AtMost(scores, s, ShortThreshold)
          PROVE  FALSE
      <4>1. scores[s] - lo \in Int
        BY <2>5
      <4> QED BY <2>8, <3>1, <3>4, <4>1, Percents DEF AtLeast, AtMost
    <3>5. DOMAIN Longs(scores) \subseteq {s \in D : AtLeast(scores, s, LongThreshold)}
          /\ DOMAIN ShortsOf(scores) \subseteq {s \in D : AtMost(scores, s, ShortThreshold)}
      BY DEF Longs, ShortsOf, Top
    <3> QED BY <2>6, <2>8, <3>2, <3>3, <3>4, <3>5, LongsFilled, ShortsFilled
  <2> QED BY <2>7, <2>8
<1> QED BY <1>4, <1>5

\* RankingIsBalanced is about one publication at a time: nothing is carried over.
LEMMA BalancedKept == RankingIsBalanced /\ [Next]_vars => RankingIsBalanced'
<1> SUFFICES ASSUME RankingIsBalanced, [Next]_vars, pc' = "idle" PROVE RankingIsBalanced'
  BY DEF RankingIsBalanced
<1>1. ASSUME NEW D \in SUBSET Symbols, NEW scores \in [D -> Int], raw' = scores,
             latest'.longs = Longs(scores), latest'.shorts = ShortsOf(scores)
      PROVE  RankingIsBalanced'
  BY <1>1, SelectionBalances DEF RankingIsBalanced
<1>2. NoRaw \in [{} -> Int] /\ DOMAIN NoRaw = {}
  BY DEF NoRaw
<1>3. CASE Publish
  <2>4. PICK scored \in SUBSET {s \in Symbols : bars[s] # None} : \E scores \in [scored -> Scores] :
          raw' = scores /\ latest' = RankingOf(scores, bars)
    BY <1>3 DEF Publish
  <2>1. PICK scores \in [scored -> Scores] : raw' = scores /\ latest' = RankingOf(scores, bars)
    BY <2>4
  <2>2. scored \in SUBSET Symbols /\ scores \in [scored -> Int]
    BY RankingAssumption
  <2>3. latest'.longs = Longs(scores) /\ latest'.shorts = ShortsOf(scores)
    BY <2>1 DEF RankingOf
  <2> QED BY <1>1, <2>1, <2>2, <2>3
<1>4. CASE PublishNothing
  <2>1. latest'.longs = Longs(NoRaw) /\ latest'.shorts = ShortsOf(NoRaw) /\ raw' = NoRaw
    BY <1>4 DEF PublishNothing, RankingOf
  <2> QED BY <1>1, <1>2, <2>1
<1>5. CASE Crash
  <2>1. latest'.longs = NoRaw /\ latest'.shorts = NoRaw /\ raw' = NoRaw
    BY <1>5 DEF Crash, NoRanking
  <2> QED BY <1>2, <2>1, FS_EmptySet DEF RankingIsBalanced
<1>6. CASE Midnight \/ UNCHANGED vars
  BY <1>6 DEF Midnight, vars, RankingIsBalanced
<1>7. ASSUME NEW s \in Symbols PROVE ~Store(s)
  BY DEF Store
<1>8. ~Gather
  BY DEF Gather
<1> QED BY <1>3, <1>4, <1>5, <1>6, <1>7, <1>8 DEF Next

\* classify_direction puts forward both sides or neither, both exactly when two scores
\* differ, and no symbol on both: for any universe, any scores and any two thresholds on
\* either side of the middle.
THEOREM RankingsAreBalanced == Spec => []RankingIsBalanced
<1>1. Init => RankingIsBalanced
  <2>1. Init => latest.longs = NoRaw /\ latest.shorts = NoRaw /\ raw = NoRaw
    BY DEF Init, NoRanking
  <2>2. DOMAIN NoRaw = {} /\ {NoRaw[s] : s \in DOMAIN NoRaw} = {}
    BY DEF NoRaw
  <2>3. ~(Cardinality({NoRaw[s] : s \in DOMAIN NoRaw}) > 1)
    BY <2>2, FS_EmptySet
  <2> QED BY <2>1, <2>2, <2>3 DEF RankingIsBalanced
<1> QED BY <1>1, BalancedKept, PTL DEF Spec
===============================================================================
