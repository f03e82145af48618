------------------------------- MODULE Ranking -------------------------------
(***************************************************************************)
(* RankingEngine (core/ranking/engine.py) with its bar cache               *)
(* (core/data/cache.py) and its scorer (core/ranking/scorer.py): where the *)
(* bars of a ranking come from, across cache hits, forced refreshes,       *)
(* degraded answers of the data API, midnights and crashes, and which      *)
(* symbols the ranking then puts forward.                                  *)
(***************************************************************************)
EXTENDS Integers, FiniteSets, FiniteSetsExt

CONSTANTS
  Universe,       \* number of symbols, in the order of get_all_symbols
  RefreshEvery,   \* _FULL_REFRESH_EVERY
  LongThreshold,  \* _LONG_THRESHOLD, in percent of the range of scores
  ShortThreshold, \* _SHORT_THRESHOLD
  MaxCandidates,  \* _MAX_CANDIDATES
  Scores,         \* raw scores, as integers
  MaxCycles,      \* bound: ranking cycles, over all restarts
  MaxDays,        \* bound: UTC days
  MaxCrashes      \* bound: crashes

ASSUME RankingAssumption ==
  /\ {Universe, MaxCycles, MaxDays, MaxCrashes} \subseteq Nat
  /\ {RefreshEvery, MaxCandidates} \subseteq Nat \ {0}
  /\ {LongThreshold, ShortThreshold} \subseteq 0..100
  /\ ShortThreshold < 50 /\ 50 < LongThreshold  \* 50: everybody's score without a range
  /\ Scores \subseteq Int

Symbols == 1..Universe
Days    == 0..MaxDays

\* Bars are the number of the cycle that fetched them. A cache file, or what a cycle
\* has of a symbol:
None == 0
Torn == -1

VARIABLES
  pc,       \* idle, or storing what the cycle fetched
  cycle,    \* number of the cycle, over all restarts
  count,    \* _cycle_count of the process, as it is used: modulo RefreshEvery
  day,      \* UTC day of now - 15 minutes
  dawn,     \* [Days -> last cycle begun before that day]
  key,      \* the day of the cycle's start_dt and end_dt
  file,     \* [Symbols -> [Days -> bars]]: the cache
  bars,     \* [Symbols -> bars]: bars_by_symbol of the cycle
  raw,      \* raw scores of the symbols the last cycle scored
  unsaved,  \* symbols fetched whose cache file is not written yet
  behind,   \* files, by symbol and day, that survived a refresh or a restart
  crashes,
  latest    \* the last ranking, with the bars it was made of

cacheVars == <<file, behind>>
vars == <<pc, cycle, count, day, dawn, key, file, bars, raw, unsaved, behind, crashes, latest>>

--------------------------------------------------------------------------------
\* Scorer. scores is the raw_score of each symbol that has features.

Lowest(scores)  == Min({scores[s] : s \in DOMAIN scores})
Highest(scores) == Max({scores[s] : s \in DOMAIN scores})

\* normalize_scores: percent of the range, everybody in the middle when there is none.
AtLeast(scores, s, pct) ==
  IF Lowest(scores) = Highest(scores) THEN 50 >= pct
  ELSE (scores[s] - Lowest(scores)) * 100 >= pct * (Highest(scores) - Lowest(scores))
AtMost(scores, s, pct) ==
  IF Lowest(scores) = Highest(scores) THEN 50 <= pct
  ELSE (scores[s] - Lowest(scores)) * 100 <= pct * (Highest(scores) - Lowest(scores))

\* The stable sorts of classify_direction.
Stronger(scores, s, t) == scores[s] > scores[t] \/ (scores[s] = scores[t] /\ s < t)
Weaker(scores, s, t)   == scores[s] < scores[t] \/ (scores[s] = scores[t] /\ s < t)

\* One-based ranks of the first MaxCandidates.
Top(cands, Before(_, _)) ==
  LET rank(s) == 1 + Cardinality({t \in cands : Before(t, s)})
  IN  [s \in {c \in cands : rank(c) <= MaxCandidates} |-> rank(s)]

\* Mutant: the short side is scored against zero instead of the lowest.
ShortsOfAbsolute(scores) ==
  Top({s \in DOMAIN scores : scores[s] * 100 <= ShortThreshold * Highest(scores)},
      LAMBDA s, t : Weaker(scores, s, t))

Longs(scores) ==
  Top({s \in DOMAIN scores : AtLeast(scores, s, LongThreshold)},
      LAMBDA s, t : Stronger(scores, s, t))
ShortsOf(scores) ==
  Top({s \in DOMAIN scores : AtMost(scores, s, ShortThreshold)},
      LAMBDA s, t : Weaker(scores, s, t))

RankingOf(scores, used) ==
  [at |-> cycle, day |-> key, refreshed |-> count = 0, bars |-> used,
   behind |-> {s \in Symbols : <<s, key>> \in behind},
   longs |-> Longs(scores), shorts |-> ShortsOf(scores)]

NoRaw == [s \in {} |-> 0]

--------------------------------------------------------------------------------
Nothing == [s \in Symbols |-> None]

\* _latest is None.
NoRanking == [at |-> 0, day |-> 0, refreshed |-> FALSE, bars |-> Nothing, behind |-> {},
              longs |-> NoRaw, shorts |-> NoRaw]

Init ==
  /\ pc = "idle" /\ cycle = 0 /\ count = 0 /\ day = 0 /\ dawn = [d \in Days |-> 0] /\ key = 0
  /\ file = [s \in Symbols |-> [d \in Days |-> None]]
  /\ bars = Nothing /\ unsaved = {} /\ behind = {} /\ crashes = 0 /\ raw = NoRaw
  /\ latest = NoRanking

\* DataCache.get: a file that cannot be read is a miss.
Hit(s, d) == file[s][d] \notin {None, Torn}

\* _cycle_count % _FULL_REFRESH_EVERY (mutant: a remainder it never has).
ForcedNever == count = RefreshEvery
Forced == count = RefreshEvery - 1

\* A cycle begins, reads the cache unless it is forced to refresh, and asks the API once
\* for all misses; the API answers for some of them, or fails.
Gather ==
  /\ pc = "idle" /\ cycle < MaxCycles
  /\ cycle' = cycle + 1 /\ count' = (IF count = RefreshEvery - 1 THEN 0 ELSE count + 1)
  /\ key' = day
  /\ LET hits   == IF Forced THEN {} ELSE {s \in Symbols : Hit(s, day)}
     IN  /\ \E answered \in SUBSET (Symbols \ hits) :
              /\ bars' = [s \in Symbols |-> IF s \in answered THEN cycle + 1
                                            ELSE IF s \in hits THEN file[s][day] ELSE None]
              /\ unsaved' = answered
         /\ behind' = IF Forced THEN behind \cup ({s \in Symbols : Hit(s, day)} \X {day}) ELSE behind
  /\ pc' = "store" /\ raw' = NoRaw
  /\ UNCHANGED <<day, dawn, file, crashes, latest>>

\* DataCache.set under the key of the cycle; a failure is swallowed, and may leave a
\* file cut off (mutant: under the day it has become).
StoreToday(s) ==
  /\ pc = "store" /\ s \in unsaved
  /\ unsaved' = unsaved \ {s}
  /\ \/ file' = [file EXCEPT ![s][day] = bars[s]] /\ behind' = behind \ {<<s, day>>}
     \/ file' = [file EXCEPT ![s][day] = Torn] /\ UNCHANGED behind
     \/ UNCHANGED cacheVars
  /\ UNCHANGED <<pc, cycle, count, day, dawn, key, bars, raw, crashes, latest>>
Store(s) ==
  /\ pc = "store" /\ s \in unsaved
  /\ unsaved' = unsaved \ {s}
  /\ \/ file' = [file EXCEPT ![s][key] = bars[s]] /\ behind' = behind \ {<<s, key>>}
     \/ file' = [file EXCEPT ![s][key] = Torn] /\ UNCHANGED behind
     \/ UNCHANGED cacheVars
  /\ UNCHANGED <<pc, cycle, count, day, dawn, key, bars, raw, crashes, latest>>

\* Features, scores, the RankedUniverse: compute_features gives a symbol up whose bars
\* are too few or say nothing.
Publish ==
  /\ pc = "store" /\ unsaved = {}
  /\ \E scored \in SUBSET {s \in Symbols : bars[s] # None} : \E scores \in [scored -> Scores] :
       raw' = scores /\ latest' = RankingOf(scores, bars)
  /\ pc' = "idle" /\ bars' = Nothing
  /\ UNCHANGED <<cycle, count, day, dawn, key, unsaved, cacheVars, crashes>>

\* Anything else raises: an empty ranking takes the place of the last one.
PublishNothing ==
  /\ pc = "store"
  /\ latest' = RankingOf(NoRaw, Nothing)
  /\ pc' = "idle" /\ bars' = Nothing /\ unsaved' = {} /\ raw' = NoRaw
  /\ UNCHANGED <<cycle, count, day, dawn, key, cacheVars, crashes>>

\* Yesterday's files are under other keys from now on.
Midnight ==
  /\ day < MaxDays
  /\ day' = day + 1 /\ dawn' = [dawn EXCEPT ![day + 1] = cycle]
  /\ UNCHANGED <<pc, cycle, count, key, cacheVars, bars, raw, unsaved, crashes, latest>>

\* The process dies, perhaps while a file is written, and starts again with no count.
Crash ==
  /\ crashes < MaxCrashes
  /\ crashes' = crashes + 1
  /\ \/ UNCHANGED file
     \/ \E s \in unsaved : file' = [file EXCEPT ![s][key] = Torn]
  /\ pc' = "idle" /\ count' = 0 /\ bars' = Nothing /\ unsaved' = {} /\ raw' = NoRaw
  /\ latest' = NoRanking
  /\ behind' = Symbols \X Days
  /\ UNCHANGED <<cycle, day, dawn, key>>

Next ==
  \/ Gather \/ Publish \/ PublishNothing \/ Midnight \/ Crash
  \/ \E s \in Symbols : Store(s)

Spec == Init /\ [][Next]_vars

--------------------------------------------------------------------------------
Bars == {None, Torn} \cup 1..MaxCycles

\* Cycle, cache and ranking keep their types.
TypeOK ==
  /\ pc \in {"idle", "store"} /\ cycle \in 0..MaxCycles /\ count \in 0..(RefreshEvery - 1)
  /\ day \in Days /\ dawn \in [Days -> 0..MaxCycles] /\ key \in Days
  /\ file \in [Symbols -> [Days -> Bars]] /\ bars \in [Symbols -> Bars]
  /\ unsaved \subseteq Symbols /\ behind \subseteq Symbols \X Days /\ crashes \in 0..MaxCrashes
  /\ latest.at \in 0..MaxCycles /\ latest.day \in Days /\ latest.bars \in [Symbols -> Bars]

Ranked == {s \in Symbols : latest.bars[s] # None}

\* The bars a ranking is made of are fewer than RefreshEvery cycles old, cache or not,
\* except those of a symbol the last refresh got no answer for, could not store, or
\* that a restart found in the cache; and a refresh ranks what it fetched and nothing
\* else: an outage shows as missing symbols, never as old bars.
BarsWithinRefresh ==
  \A s \in Ranked :
    /\ latest.at - latest.bars[s] < RefreshEvery \/ s \in latest.behind
    /\ latest.refreshed => latest.bars[s] = latest.at

\* No ranking is made of bars of a cycle that began on an earlier day, wherever midnight
\* passes and whichever cycle stored them, and none of a file cut off by a crash.
BarsOfTheirDay == \A s \in Ranked : latest.bars[s] > dawn[latest.day]

\* A ranking has a long side exactly when it has a short side, and both exactly when
\* two scores differ, however few symbols were scored; no symbol is on both sides.
RankingIsBalanced ==
  LET values == {raw[s] : s \in DOMAIN raw}
  IN  pc = "idle" =>
      /\ DOMAIN latest.longs # {} <=> Cardinality(values) > 1
      /\ DOMAIN latest.shorts # {} <=> Cardinality(values) > 1
      /\ DOMAIN latest.longs \cap DOMAIN latest.shorts = {}
===============================================================================
