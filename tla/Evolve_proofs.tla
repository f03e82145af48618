---------------------------- MODULE Evolve_proofs ----------------------------
(***************************************************************************)
(* Theorems about Evolve: what vault_state.json can say, for any number of *)
(* launches and entries, any overlap, death and failure.                   *)
(***************************************************************************)
EXTENDS Evolve, WellFoundedInduction, TLAPS

\* What any copy of the state calls processed had its file.
Extracted ==
  /\ \A p \in Launches : state[p].processed \ Short \subseteq once /\ fresh[p] \ Short \subseteq once
  /\ file.content.processed \ Short \subseteq once /\ tmp.content.processed \ Short \subseteq once

\* What is being written is in the batch.
Writing == \A p \in Launches : pc[p] = "raw" => batch[p] # {} /\ First(p) \notin Short

\* Without overlap there is one launch inside, and the temporary file is its own.
Alone == ~overlap => \A p, q \in Inside : p = q
Mine ==
  ~overlap =>
    /\ ~Torn(file)
    /\ \A p \in Launches : /\ pc[p] = "write" => tmp.writer = p
                           /\ pc[p] \in {"git", "replace"} => tmp = File(state[p], Nobody)

\* A launch that loaded the last save knows at least what it says.
Ahead ==
  /\ \A p \in Launches : base[p] <= saves
  /\ ~overlap =>
       \A p \in Launches :
         pc[p] \notin {"new", "ended"} /\ base[p] = saves =>
           /\ file.content.processed \subseteq state[p].processed
           /\ file.content.cycle <= state[p].cycle

\* Without overlap and stale states, no launch opens the file of an entry that it or
\* the saved state counts.
Whole ==
  ~overlap /\ ~stale =>
    /\ file.content.processed \ Short \subseteq raw
    /\ \A p \in Launches :
         /\ pc[p] \in {"check", "lock"} /\ base[p] = saves
              => state[p].processed = file.content.processed
         /\ p \in Inside => state[p].processed \ Short \subseteq raw
         /\ pc[p] \in {"extract", "raw"} =>
              /\ file.content.processed \subseteq state[p].processed
              /\ fresh[p] \ Short \subseteq raw
              /\ batch[p] \cap (state[p].processed \cup fresh[p]) = {}

IInv == TypeOK /\ Extracted /\ Writing /\ Alone /\ Mine /\ Ahead /\ Whole

\* The batch is worked off from its earliest entry, which it has.
LEMMA FirstIsIn ==
  ASSUME TypeOK, NEW p \in Launches, batch[p] # {} PROVE First(p) \in batch[p]
<1>1. batch[p] \in SUBSET Nat
  BY EvolveAssumption DEF TypeOK
<1> DEFINE Less == {pair \in Nat \X Nat : pair[1] < pair[2]}
<1>w. IsWellFoundedOn(Less, Nat)
  BY NatLessThanWellFounded DEF OpToRel
<1>2. PICK e \in batch[p] : \A d \in batch[p] : ~ (<<d, e>> \in Less)
  <2> HIDE DEF Less
  <2> QED BY <1>1, <1>w, WFMin
<1>3. ASSUME NEW d \in batch[p] PROVE e <= d
  <2>1. d \in Nat /\ e \in Nat
    BY <1>1
  <2>2. ~ (d < e)
    BY <1>2, <2>1
  <2> QED BY <2>1, <2>2
<1> QED BY <1>3 DEF First

\* Every action of a launch moves its own program counter and no other.
Moves(p) == \E to \in Steps : pc' = [pc EXCEPT ![p] = to]

LEMMA InitIInv == Init => IInv
<1> SUFFICES ASSUME Init PROVE IInv
  OBVIOUS
<1> USE EvolveAssumption DEF Init, File, Nobody, Absent
<1>0. Fresh \in States
  BY DEF States, Fresh
<1>1. TypeOK
  <2>1. /\ state \in [Launches -> States] /\ pc \in [Launches -> Steps]
        /\ {file, tmp} \subseteq [content : States, writer : Launches \cup {Nobody, "absent"}]
    BY <1>0 DEF Steps
  <2> QED BY <2>1 DEF TypeOK
<1>2. Extracted /\ Writing /\ Alone /\ Mine /\ Ahead /\ Whole
  BY DEF Fresh, Extracted, Writing, Alone, Mine, Ahead, Whole, Inside, Torn
<1> QED BY <1>1, <1>2 DEF IInv

--------------------------------------------------------------------------------
\* A launch's own state grows.
LEMMA StateMoves ==
  ASSUME TypeOK, NEW p \in Launches, Push(p) \/ ExtractDone(p), NEW q \in Launches
  PROVE  /\ state' \in [Launches -> States]
         /\ state[q].processed \subseteq state'[q].processed
         /\ state[q].cycle <= state'[q].cycle
         /\ {state[q].cycle, state'[q].cycle} \subseteq Nat
<1> USE DEF TypeOK, States
<1>1. CASE Push(p)
  BY <1>1 DEF Push
<1>2. CASE ExtractDone(p)
  BY <1>2 DEF ExtractDone, Processed
<1> QED BY <1>1, <1>2

\* Types, action by action.
LEMMA TypeKept == ASSUME TypeOK, Writing, Next PROVE TypeOK'
<1> USE DEF TypeOK, Go, own, disk, hist, Steps, States, File, Fresh, Absent, Nobody
<1>1. CASE ForceUnlock \/ \E e \in Entries : Arrive(e)
  BY <1>1 DEF ForceUnlock, Arrive
<1>2. ASSUME NEW p \in Launches,
             Refused(p) \/ FindsNoLock(p) \/ ReadCache(p) \/ WriteCache(p)
             \/ Raise(p) \/ GitCommit(p) \/ Release(p) \/ Die(p)
      PROVE  TypeOK'
  BY <1>2 DEF Refused, FindsNoLock, ReadCache, WriteCache, Raise, GitCommit, Release, Die
<1>3. ASSUME NEW p \in Launches, Load(p) \/ Push(p) \/ ExtractDone(p) PROVE TypeOK'
  <2>1. state' \in [Launches -> States]
    <3>1. CASE Load(p)
      BY <3>1 DEF Load
    <3>2. CASE Push(p) \/ ExtractDone(p)
      BY <3>2, StateMoves
    <3> QED BY <1>3, <3>1, <3>2
  <2>2. pc' \in [Launches -> Steps] /\ base' \in [Launches -> Nat]
    BY <1>3 DEF Load, Push, ExtractDone
  <2>3. UNCHANGED <<batch, fresh, lock, journal, raw, once, file, tmp, cache, saves, overlap, stale>>
    BY <1>3 DEF Load, Push, ExtractDone
  <2> QED BY <2>1, <2>2, <2>3
<1>4. ASSUME NEW p \in Launches, WriteLock(p) PROVE TypeOK'
  BY <1>4 DEF WriteLock
<1>5. ASSUME NEW p \in Launches, SkipShort(p) \/ OpenRaw(p) \/ WriteRaw(p) PROVE TypeOK'
  <2>1. batch[p] # {}
    BY <1>5 DEF SkipShort, OpenRaw, WriteRaw, Writing
  <2>2. First(p) \in Entries
    BY <2>1, FirstIsIn
  <2>3. CASE SkipShort(p)
    BY <2>2, <2>3 DEF SkipShort, Mark
  <2>4. CASE OpenRaw(p)
    BY <2>4 DEF OpenRaw
  <2>5. CASE WriteRaw(p)
    BY <2>2, <2>5 DEF WriteRaw, Mark
  <2> QED BY <1>5, <2>3, <2>4, <2>5
<1>6. ASSUME NEW p \in Launches, OpenTmp(p) \/ WriteTmp(p) \/ Replace(p) \/ Unlink(p)
      PROVE  TypeOK'
  BY <1>6 DEF OpenTmp, WriteTmp, Replace, Unlink
<1> QED BY <1>1, <1>2, <1>3, <1>4, <1>5, <1>6 DEF Next

\* raw/ only grows, and an entry is marked once it has its file.
LEMMA ExtractedKept == ASSUME IInv, Next PROVE Extracted'
<1> USE DEF IInv, TypeOK, Extracted, Go, own, disk, hist, States, File, Fresh, Absent
<1>1. CASE ForceUnlock \/ \E e \in Entries : Arrive(e)
  BY <1>1 DEF ForceUnlock, Arrive
<1>2. ASSUME NEW p \in Launches,
             Refused(p) \/ FindsNoLock(p) \/ ReadCache(p) \/ WriteCache(p)
             \/ Raise(p) \/ GitCommit(p) \/ Release(p) \/ Die(p)
      PROVE  Extracted'
  BY <1>2 DEF Refused, FindsNoLock, ReadCache, WriteCache, Raise, GitCommit, Release, Die
<1>3. ASSUME NEW p \in Launches, Load(p) \/ Push(p) \/ ExtractDone(p) PROVE Extracted'
  BY <1>3 DEF Load, Push, ExtractDone, Processed
<1>4. ASSUME NEW p \in Launches, WriteLock(p) PROVE Extracted'
  BY <1>4 DEF WriteLock
<1>5. ASSUME NEW p \in Launches, SkipShort(p) \/ OpenRaw(p) \/ WriteRaw(p)
      PROVE  Extracted'
  <2>1. First(p) \in batch[p] /\ (pc[p] = "raw" => First(p) \notin Short)
    BY <1>5, FirstIsIn DEF SkipShort, OpenRaw, WriteRaw, Writing
  <2>2. /\ \A q \in Launches : state'[q] = state[q] /\ fresh'[q] \ Short \subseteq once'
        /\ once \subseteq once'
    BY <1>5, <2>1 DEF SkipShort, OpenRaw, WriteRaw, Mark
  <2>3. file' = file /\ tmp' = tmp
    BY <1>5 DEF SkipShort, OpenRaw, WriteRaw
  <2> QED BY <2>2, <2>3
<1>6. ASSUME NEW p \in Launches, OpenTmp(p) \/ WriteTmp(p) \/ Replace(p) \/ Unlink(p)
      PROVE  Extracted'
  BY <1>6 DEF OpenTmp, WriteTmp, Replace, Unlink
<1> QED BY <1>1, <1>2, <1>3, <1>4, <1>5, <1>6 DEF Next

\* The batch of a launch that writes a file is its own.
LEMMA WritingKept == ASSUME IInv, Next PROVE Writing'
<1> USE DEF IInv, TypeOK, Go, own, disk, hist, Steps
<1>0. ASSUME NEW p \in Launches, pc'[p] = "raw",
             batch'[p] = batch[p] /\ (pc[p] = "raw" \/ OpenRaw(p))
      PROVE  batch'[p] # {} /\ First(p)' \notin Short
  <2>1. First(p)' = First(p)
    BY <1>0 DEF First
  <2> QED BY <1>0, <2>1 DEF Writing, OpenRaw
<1>1. ASSUME ForceUnlock \/ \E e \in Entries : Arrive(e), NEW q \in Launches, pc'[q] = "raw"
      PROVE  batch'[q] = batch[q] /\ pc[q] = "raw"
  BY <1>1 DEF ForceUnlock, Arrive
<1>2. ASSUME NEW p \in Launches,
             \/ Load(p) \/ Refused(p) \/ FindsNoLock(p) \/ ExtractDone(p) \/ ReadCache(p)
             \/ WriteCache(p) \/ Push(p) \/ Raise(p) \/ OpenTmp(p) \/ WriteTmp(p)
             \/ GitCommit(p) \/ Replace(p) \/ Unlink(p) \/ Release(p) \/ Die(p),
             NEW q \in Launches, pc'[q] = "raw"
      PROVE  batch'[q] = batch[q] /\ pc[q] = "raw"
  BY <1>2 DEF Load, Refused, FindsNoLock, ExtractDone, ReadCache, WriteCache, Push, Raise,
     OpenTmp, WriteTmp, GitCommit, Replace, Unlink, Release, Die
<1>3. ASSUME NEW p \in Launches, WriteLock(p) \/ SkipShort(p) \/ OpenRaw(p) \/ WriteRaw(p),
             NEW q \in Launches, pc'[q] = "raw"
      PROVE  batch'[q] = batch[q] /\ (pc[q] = "raw" \/ OpenRaw(q))
  BY <1>3 DEF WriteLock, SkipShort, OpenRaw, WriteRaw, Mark
<1>4. ASSUME NEW q \in Launches, pc'[q] = "raw"
      PROVE  batch'[q] = batch[q] /\ (pc[q] = "raw" \/ OpenRaw(q))
  BY <1>1, <1>2, <1>3, <1>4 DEF Next
<1> QED BY <1>0, <1>4 DEF Writing

\* Only WriteLock brings a launch inside, and it notes whether it is alone.
LEMMA AloneKept == ASSUME IInv, Next PROVE Alone'
<1> USE DEF IInv, TypeOK, Alone, Inside, Go, own, disk, hist, Steps
<1>1. CASE ForceUnlock \/ \E e \in Entries : Arrive(e)
  BY <1>1 DEF ForceUnlock, Arrive
<1>2. ASSUME NEW p \in Launches, NEW to \in Steps, pc' = [pc EXCEPT ![p] = to],
             overlap' = overlap, p \in Inside \/ to \in {"check", "lock", "ended"}
      PROVE  Alone'
  BY <1>2
<1>3. ASSUME NEW p \in Launches,
             Load(p) \/ Refused(p) \/ FindsNoLock(p) \/ Release(p) \/ Die(p)
      PROVE  Alone'
  BY <1>2, <1>3 DEF Load, Refused, FindsNoLock, Release, Die
<1>4. ASSUME NEW p \in Launches,
             \/ ExtractDone(p) \/ ReadCache(p) \/ WriteCache(p) \/ Push(p) \/ Raise(p)
             \/ OpenTmp(p) \/ WriteTmp(p) \/ GitCommit(p) \/ Replace(p) \/ Unlink(p)
      PROVE  Alone'
  BY <1>2, <1>4 DEF ExtractDone, ReadCache, WriteCache, Push, Raise, OpenTmp, WriteTmp,
     GitCommit, Replace, Unlink
<1>5. ASSUME NEW p \in Launches, SkipShort(p) \/ OpenRaw(p) \/ WriteRaw(p) PROVE Alone'
  BY <1>5 DEF SkipShort, OpenRaw, WriteRaw
<1>6. ASSUME NEW p \in Launches, WriteLock(p) PROVE Alone'
  BY <1>6 DEF WriteLock
<1> QED BY <1>1, <1>3, <1>4, <1>5, <1>6 DEF Next

\* The temporary file of the only launch inside is written and renamed by it alone.
LEMMA MineKept == ASSUME IInv, Next PROVE Mine'
<1> USE EvolveAssumption DEF IInv, TypeOK, Mine, Go, own, disk, hist, Torn
<1>1. CASE ForceUnlock \/ \E e \in Entries : Arrive(e)
  BY <1>1 DEF ForceUnlock, Arrive
<1>2. ASSUME NEW p \in Launches,
             Refused(p) \/ FindsNoLock(p) \/ ReadCache(p) \/ WriteCache(p)
             \/ Raise(p) \/ GitCommit(p) \/ Release(p) \/ Die(p)
      PROVE  Mine'
  BY <1>2 DEF Refused, FindsNoLock, ReadCache, WriteCache, Raise, GitCommit, Release, Die
<1>3. ASSUME NEW p \in Launches, Load(p) \/ Push(p) \/ ExtractDone(p) PROVE Mine'
  BY <1>3 DEF Load, Push, ExtractDone
<1>4. ASSUME NEW p \in Launches, WriteLock(p) PROVE Mine'
  BY <1>4 DEF WriteLock
<1>5. ASSUME NEW p \in Launches, SkipShort(p) \/ OpenRaw(p) \/ WriteRaw(p) PROVE Mine'
  BY <1>5 DEF SkipShort, OpenRaw, WriteRaw
<1>6. ASSUME NEW p \in Launches, OpenTmp(p) \/ WriteTmp(p) \/ Replace(p) \/ Unlink(p)
      PROVE  Mine'
  <2>1. p \in Inside
    BY <1>6 DEF Inside, OpenTmp, WriteTmp, Replace, Unlink
  <2>2. overlap' = overlap /\ state' = state
    BY <1>6 DEF OpenTmp, WriteTmp, Replace, Unlink
  <2>3. ASSUME ~overlap, NEW q \in Launches, q # p
        PROVE  pc'[q] = pc[q] /\ pc[q] \notin {"write", "git", "replace"}
    <3>1. q \notin Inside
      BY <2>1, <2>3 DEF Alone
    <3> QED BY <1>6, <2>3, <3>1 DEF Inside, OpenTmp, WriteTmp, Replace, Unlink
  <2>4. CASE OpenTmp(p)
    BY <2>2, <2>3, <2>4 DEF OpenTmp, File
  <2>5. CASE WriteTmp(p)
    BY <2>2, <2>3, <2>5 DEF WriteTmp, File, Nobody
  <2>6. CASE Replace(p)
    BY <2>2, <2>3, <2>6 DEF Replace, File, Nobody, Absent
  <2>7. CASE Unlink(p)
    BY <2>2, <2>3, <2>7 DEF Unlink
  <2> QED BY <1>6, <2>4, <2>5, <2>6, <2>7
<1> QED BY <1>1, <1>2, <1>3, <1>4, <1>5, <1>6 DEF Next

\* A state only gains entries and cycles between its load and its save.
LEMMA AheadKept == ASSUME IInv, Next PROVE Ahead'
<1> USE DEF IInv, TypeOK, Ahead, Go, own, disk, hist, States
<1>1. CASE ForceUnlock \/ \E e \in Entries : Arrive(e)
  BY <1>1 DEF ForceUnlock, Arrive
<1>2. ASSUME NEW p \in Launches,
             Refused(p) \/ FindsNoLock(p) \/ ReadCache(p) \/ WriteCache(p)
             \/ Raise(p) \/ GitCommit(p) \/ Release(p) \/ Die(p)
      PROVE  Ahead'
  BY <1>2 DEF Refused, FindsNoLock, ReadCache, WriteCache, Raise, GitCommit, Release, Die
<1>3. ASSUME NEW p \in Launches, Load(p) PROVE Ahead'
  BY <1>3 DEF Load
<1>4. ASSUME NEW p \in Launches, Push(p) \/ ExtractDone(p) PROVE Ahead'
  <2>1. ASSUME NEW q \in Launches
        PROVE  /\ state[q].processed \subseteq state'[q].processed
               /\ state[q].cycle <= state'[q].cycle
               /\ {state[q].cycle, state'[q].cycle, file.content.cycle} \subseteq Nat
               /\ pc'[q] \notin {"new", "ended"} => pc[q] \notin {"new", "ended"}
    <3>1. pc'[q] \notin {"new", "ended"} => pc[q] \notin {"new", "ended"}
      BY <1>4 DEF Push, ExtractDone
    <3>2. file.content.cycle \in Nat
      OBVIOUS
    <3> QED BY <1>4, <3>1, <3>2, StateMoves
  <2>2. UNCHANGED <<base, saves, overlap, file>>
    BY <1>4 DEF Push, ExtractDone
  <2> QED BY <2>1, <2>2
<1>5. ASSUME NEW p \in Launches, WriteLock(p) \/ SkipShort(p) \/ OpenRaw(p) \/ WriteRaw(p)
             \/ OpenTmp(p) \/ Unlink(p)
      PROVE  Ahead'
  BY <1>5 DEF WriteLock, SkipShort, OpenRaw, WriteRaw, OpenTmp, Unlink
<1>6. ASSUME NEW p \in Launches, WriteTmp(p) PROVE Ahead'
  BY <1>6 DEF WriteTmp, Mine, Torn
<1>7. ASSUME NEW p \in Launches, Replace(p) PROVE Ahead'
  BY <1>7 DEF Replace
<1> QED BY <1>1, <1>2, <1>3, <1>4, <1>5, <1>6, <1>7 DEF Next

\* The launch that comes back from replace has renamed, or has failed to.
LEMMA OnlyReplaceSaves ==
  ASSUME IInv, [Next]_vars, NEW p \in Launches, pc[p] = "replace", pc'[p] = "release"
  PROVE  file' = file \/ file' = tmp
<1> USE DEF IInv, TypeOK, Go, own, disk, hist
<1>1. CASE UNCHANGED vars
  BY <1>1 DEF vars
<1>2. CASE ForceUnlock \/ \E e \in Entries : Arrive(e)
  BY <1>2 DEF ForceUnlock, Arrive
<1>3. ASSUME NEW q \in Launches, WriteTmp(q)
      PROVE  file' = file \/ file' = tmp
  BY <1>3 DEF WriteTmp
<1>4. ASSUME NEW q \in Launches,
             \/ Load(q) \/ Refused(q) \/ FindsNoLock(q) \/ WriteLock(q) \/ SkipShort(q)
             \/ OpenRaw(q) \/ WriteRaw(q) \/ ExtractDone(q) \/ ReadCache(q) \/ WriteCache(q) \/ Push(q) \/ Raise(q)
             \/ OpenTmp(q) \/ GitCommit(q) \/ Replace(q) \/ Unlink(q) \/ Release(q) \/ Die(q)
      PROVE  file' = file \/ file' = tmp
  BY <1>4 DEF Load, Refused, FindsNoLock, WriteLock, SkipShort, OpenRaw, WriteRaw,
     ExtractDone, ReadCache, WriteCache, Push, Raise, OpenTmp, GitCommit, Replace, Unlink, Release, Die
<1> QED BY <1>1, <1>2, <1>3, <1>4 DEF Next

\* A raw file is only opened for an entry that nobody counts yet.
LEMMA WholeKept == ASSUME IInv, Next, ~overlap', ~stale' PROVE Whole'
<1> USE DEF IInv, TypeOK, Go, own, disk, hist
<1>a. ASSUME NEW p \in Inside, ~overlap, NEW q \in Launches, q # p
      PROVE  q \notin Inside /\ pc[q] \in {"new", "check", "lock", "ended"}
  BY <1>a DEF Alone, Inside
<1>1. CASE ForceUnlock \/ \E e \in Entries : Arrive(e)
  BY <1>1 DEF ForceUnlock, Arrive, Whole, Inside
<1>2. ASSUME NEW p \in Launches,
             Refused(p) \/ FindsNoLock(p) \/ ReadCache(p) \/ WriteCache(p)
             \/ Raise(p) \/ GitCommit(p) \/ Release(p) \/ Die(p)
      PROVE  Whole'
  BY <1>2 DEF Refused, FindsNoLock, ReadCache, WriteCache, Raise, GitCommit, Release, Die,
     Whole, Inside
<1>3. ASSUME NEW p \in Launches, Load(p) PROVE Whole'
  BY <1>3 DEF Load, Whole, Inside
<1>4. ASSUME NEW p \in Launches, Push(p) \/ ExtractDone(p) PROVE Whole'
  <2>1. /\ ~overlap /\ ~stale /\ UNCHANGED <<file, fresh, batch, base, saves, raw>>
        /\ p \in Inside /\ pc'[p] \in {"wiki", "tmp"}
        /\ \A q \in Launches : q # p => pc'[q] = pc[q] /\ state'[q] = state[q]
    BY <1>4 DEF Push, ExtractDone, Inside
  <2>2. state'[p].processed \ Short \subseteq raw
    <3>1. CASE Push(p)
      BY <2>1, <3>1 DEF Push, Whole, States
    <3>2. CASE ExtractDone(p)
      BY <2>1, <3>2 DEF ExtractDone, Processed, Whole, States
    <3> QED BY <1>4, <3>1, <3>2
  <2> QED BY <2>1, <2>2 DEF Whole, Inside
<1>5. ASSUME NEW p \in Launches, WriteLock(p) PROVE Whole'
  BY <1>5 DEF WriteLock, Whole, Inside
<1>6. ASSUME NEW p \in Launches, SkipShort(p) \/ WriteRaw(p) PROVE Whole'
  BY <1>6, FirstIsIn DEF SkipShort, WriteRaw, Mark, Whole, Inside, Writing
<1>7. ASSUME NEW p \in Launches, OpenRaw(p) PROVE Whole'
  <2>1. First(p) \in batch[p] /\ p \in Inside
    BY <1>7, FirstIsIn DEF OpenRaw, Inside
  <2>2. ~overlap /\ ~stale /\ UNCHANGED <<file, state, fresh, batch, base, saves>>
    BY <1>7 DEF OpenRaw
  <2>3. First(p) \notin state[p].processed \cup fresh[p] \cup file.content.processed
    BY <1>7, <2>1, <2>2 DEF OpenRaw, Whole
  <2>4. \A q \in Launches : q # p => q \notin Inside /\ pc'[q] = pc[q]
    BY <1>a, <1>7, <2>1, <2>2 DEF OpenRaw
  <2> QED BY <1>7, <2>1, <2>2, <2>3, <2>4 DEF OpenRaw, Whole, Inside
<1>8. ASSUME NEW p \in Launches, OpenTmp(p) \/ Unlink(p) \/ WriteTmp(p) PROVE Whole'
  BY <1>8 DEF OpenTmp, Unlink, WriteTmp, Whole, Inside, Mine, Torn
<1>9. ASSUME NEW p \in Launches, Replace(p) PROVE Whole'
  <2>1. p \in Inside /\ ~overlap /\ ~stale /\ UNCHANGED <<state, fresh, batch, base, raw>>
    BY <1>9 DEF Replace, Inside
  <2>2. \/ UNCHANGED <<file, saves>>
        \/ saves' = saves + 1 /\ file'.content.processed = state[p].processed
    BY <1>9, <2>1 DEF Replace, Mine, File
  <2>3. \A q \in Launches : q # p => q \notin Inside /\ pc'[q] = pc[q]
    BY <1>a, <1>9, <2>1 DEF Replace
  <2>4. \A q \in Launches : base[q] < saves + 1
    BY DEF Ahead
  <2> QED BY <1>9, <2>1, <2>2, <2>3, <2>4 DEF Replace, Whole, Inside
<1> QED BY <1>1, <1>2, <1>3, <1>4, <1>5, <1>6, <1>7, <1>8, <1>9 DEF Next

--------------------------------------------------------------------------------
LEMMA NextIInv == IInv /\ [Next]_vars => IInv'
<1>1. IInv /\ UNCHANGED vars => IInv'
  BY DEF IInv, vars, TypeOK, Extracted, Writing, First, Alone, Inside, Mine, Torn, Ahead, Whole
<1>2. IInv /\ Next => IInv'
  BY TypeKept, ExtractedKept, WritingKept, AloneKept, MineKept, AheadKept, WholeKept DEF IInv, Whole
<1> QED BY <1>1, <1>2

\* The two facts together.
LEMMA Inductive == Spec => []IInv
  BY InitIInv, NextIInv, PTL DEF Spec

\* Launches, files and journal keep their types.
THEOREM TypeCorrect == Spec => []TypeOK
<1>1. IInv => TypeOK
  BY DEF IInv
<1> QED BY <1>1, Inductive, PTL

\* No entry is skipped for ever: what the saved state calls processed was extracted once,
\* and its file is whole unless launches overlapped or one worked on a stale state.
THEOREM NothingIsSkipped == Spec => []ProcessedIsExtracted
<1>1. IInv => ProcessedIsExtracted
  BY DEF IInv, Extracted, Whole, ProcessedIsExtracted
<1> QED BY <1>1, Inductive, PTL

\* The state file is torn only after launches overlapped, however many died.
THEOREM StateStaysReadable == Spec => []StateReadable
<1>1. IInv => StateReadable
  BY DEF IInv, Mine, StateReadable
<1> QED BY <1>1, Inductive, PTL

\* A save that missed no other one forgets nothing.
THEOREM SavesOnlyAdd == Spec => StateGrows
<1>1. ASSUME IInv, [Next]_vars, NEW p \in Launches,
             pc[p] = "replace", pc'[p] = "release", base[p] = saves, ~overlap
      PROVE  /\ file.content.processed \subseteq file'.content.processed
             /\ file.content.cycle <= file'.content.cycle
  <2>1. file' = file \/ file' = tmp
    BY <1>1, OnlyReplaceSaves
  <2>2. /\ tmp.content = state[p]
        /\ file.content.processed \subseteq state[p].processed
        /\ file.content.cycle <= state[p].cycle
    BY <1>1 DEF IInv, Mine, Ahead, File
  <2>3. file.content.cycle \in Nat
    BY <1>1 DEF IInv, TypeOK, States
  <2> QED BY <2>1, <2>2, <2>3
<1>2. IInv /\ [Next]_vars
        => [\A p \in Launches :
              pc[p] = "replace" /\ pc'[p] = "release" /\ base[p] = saves /\ ~overlap
                => /\ file.content.processed \subseteq file'.content.processed
                   /\ file.content.cycle <= file'.content.cycle]_vars
  BY <1>1
<1> QED BY <1>2, Inductive, PTL DEF Spec, StateGrows
===============================================================================
