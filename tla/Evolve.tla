------------------------------- MODULE Evolve -------------------------------
(***************************************************************************)
(* Maridian's evolution cycle (active/Maridian/evolve.py with              *)
(* agents/journal_extractor.py): the journal's entries become raw files,   *)
(* and vault_state.json remembers which. Launches can overlap (the lock is *)
(* checked and then written, and the operator may delete it), each can die *)
(* anywhere, and all of them save through one temporary file.              *)
(***************************************************************************)
EXTENDS Naturals, FiniteSets

CONSTANTS
  Launches,   \* runs of "evolve.py evolve"
  Entries,    \* rows of journal_entries, in the order of their entry_date
  Short,      \* entries of under 30 characters
  MaxEntries  \* max_entries of extract

ASSUME EvolveAssumption ==
  /\ Entries \subseteq Nat /\ Short \subseteq Entries /\ MaxEntries \in Nat
  /\ {"nobody", "absent"} \cap Launches = {}

VARIABLES
  pc,       \* [Launches -> where run_evolve stands]
  state,    \* [Launches -> its state dictionary, [cycle, processed]]
  batch,    \* [Launches -> entries extract still has to look at]
  fresh,    \* [Launches -> newly_processed]
  lock,     \* whether .evolve.lock is there
  journal,  \* entries written so far
  raw,      \* entries with a whole file in raw/
  once,     \* history: entries that ever had one
  file,     \* vault_state.json: its content, and the launch that is still writing it
  tmp,      \* vault_state.tmp, likewise, Absent if it is not there
  cache,    \* whether .classifications.json is readable
  saves,    \* cycles saved
  base,     \* [Launches -> saves when load_state ran]
  overlap,  \* history: whether two launches were ever past the lock at once
  stale     \* history: whether one ever got past it with a state that another had
            \* saved over since it was loaded

own  == <<state, batch, fresh>>
disk == <<lock, raw, once, file, tmp, cache>>
hist == <<base, overlap, stale>>
vars == <<pc, state, batch, fresh, lock, journal, raw, once, file, tmp, cache, saves,
          base, overlap, stale>>

Steps == {"new", "check", "lock", "extract", "raw", "wiki", "cache", "push", "tmp", "write",
          "git", "replace", "unlink", "release", "ended"}

States  == [cycle : Nat, processed : SUBSET Entries]
Fresh   == [cycle |-> 0, processed |-> {}]
Nobody  == "nobody"
File(s, by) == [content |-> s, writer |-> by]
Absent  == File(Fresh, "absent")
Torn(f) == f.writer \in Launches

Init ==
  /\ pc = [p \in Launches |-> "new"] /\ state = [p \in Launches |-> Fresh]
  /\ batch = [p \in Launches |-> {}] /\ fresh = [p \in Launches |-> {}]
  /\ lock = FALSE /\ journal = {} /\ raw = {} /\ once = {}
  /\ file = File(Fresh, Nobody) /\ tmp = Absent
  /\ cache = TRUE /\ saves = 0 /\ base = [p \in Launches |-> 0]
  /\ overlap = FALSE /\ stale = FALSE

Go(p, from, to) == pc[p] = from /\ pc' = [pc EXCEPT ![p] = to]

\* Past acquire_lock, and not over.
Inside == {p \in Launches : pc[p] \notin {"new", "check", "lock", "ended"}}

--------------------------------------------------------------------------------
\* load_state, before the lock: a torn file ends the launch.
Load(p) ==
  /\ Go(p, "new", IF Torn(file) THEN "ended" ELSE "check")
  /\ state' = [state EXCEPT ![p] = file.content]
  /\ base' = [base EXCEPT ![p] = saves]
  /\ UNCHANGED <<batch, fresh, disk, journal, saves, overlap, stale>>

\* acquire_lock: the file exists, and RuntimeError is raised outside the try ...
Refused(p) ==
  /\ lock /\ Go(p, "check", "ended")
  /\ UNCHANGED <<own, disk, journal, saves, hist>>

FindsNoLock(p) ==
  /\ ~lock /\ Go(p, "check", "lock")
  /\ UNCHANGED <<own, disk, journal, saves, hist>>

\* ... or it does not, and is written in a second step.
WriteLock(p) ==
  /\ Go(p, "lock", "extract")
  /\ lock' = TRUE
  /\ overlap' = (overlap \/ Inside # {}) /\ stale' = (stale \/ base[p] # saves)
  \* entries pulled: those whose id is not processed, the earliest max_entries; none
  \* when the pull fails
  /\ LET pulled == journal \ state[p].processed
         first  == {e \in pulled : Cardinality({d \in pulled : d < e}) < MaxEntries}
     IN  batch' = [batch EXCEPT ![p] = first] \/ batch' = [batch EXCEPT ![p] = {}]
  /\ fresh' = [fresh EXCEPT ![p] = {}]
  /\ UNCHANGED <<state, journal, raw, once, file, tmp, cache, saves, base>>

\* extract's loop, by entry_date.
First(p) == CHOOSE e \in batch[p] : \A d \in batch[p] : e <= d

Mark(p, e) ==
  /\ batch' = [batch EXCEPT ![p] = @ \ {e}]
  /\ fresh' = [fresh EXCEPT ![p] = @ \cup {e}]

SkipShort(p) ==
  /\ batch[p] # {} /\ First(p) \in Short
  /\ pc[p] = "extract" /\ Mark(p, First(p))
  /\ UNCHANGED <<pc, state, disk, journal, saves, hist>>

\* path.write_text: the entry's file, whether or not it is there, is truncated ...
OpenRaw(p) ==
  /\ batch[p] # {} /\ First(p) \notin Short
  /\ Go(p, "extract", "raw")
  /\ raw' = raw \ {First(p)}
  /\ UNCHANGED <<own, lock, journal, once, file, tmp, cache, saves, hist>>

\* ... and written.
WriteRaw(p) ==
  /\ Go(p, "raw", "extract")
  /\ raw' = raw \cup {First(p)} /\ once' = once \cup {First(p)}
  /\ Mark(p, First(p))
  /\ UNCHANGED <<state, lock, journal, file, tmp, cache, saves, hist>>

\* processed_ids + newly_processed (mutants: newly_processed; all that was pulled,
\* beyond max_entries too).
ProcessedNow(p) == fresh[p]
ProcessedPulled(p) == state[p].processed \cup journal
Processed(p) == state[p].processed \cup fresh[p]

ExtractDone(p) ==
  /\ batch[p] = {} /\ Go(p, "extract", "wiki")
  /\ state' = [state EXCEPT ![p].processed = Processed(p)]
  /\ UNCHANGED <<batch, fresh, disk, journal, saves, hist>>

\* build_wiki: the cache of classifications has to be readable, is written in place ...
ReadCache(p) ==
  /\ Go(p, "wiki", IF cache THEN "cache" ELSE "release")
  /\ cache' = FALSE \/ UNCHANGED cache
  /\ UNCHANGED <<own, lock, journal, raw, once, file, tmp, saves, hist>>

WriteCache(p) ==
  /\ Go(p, "cache", "push")
  /\ cache' = TRUE
  /\ UNCHANGED <<own, lock, journal, raw, once, file, tmp, saves, hist>>

\* ... and the pages and questions go to the vault and the BlackBook database, which
\* swallow their failures.
Push(p) ==
  /\ Go(p, "push", "tmp")
  /\ state' = [state EXCEPT ![p].cycle = @ + 1]
  /\ UNCHANGED <<batch, fresh, disk, journal, saves, hist>>

\* A step raises: complete_job, traceback, and the finally.
Raise(p) ==
  /\ pc[p] \in {"extract", "raw", "wiki", "cache", "push", "write", "replace"}
  /\ pc' = [pc EXCEPT ![p] = "release"]
  /\ UNCHANGED <<own, disk, journal, saves, hist>>

\* STATE_TMP.write_text: truncated, then written through the handle, wherever the
\* file has been renamed to by then (mutant: STATE_FILE in place).
OpenStateFile(p) ==
  /\ Go(p, "tmp", "write")
  /\ file' = File(file.content, p)
  /\ UNCHANGED <<own, lock, journal, raw, once, tmp, cache, saves, hist>>
OpenTmp(p) ==
  /\ Go(p, "tmp", "write")
  /\ tmp' = File(Fresh, p)
  /\ UNCHANGED <<own, lock, journal, raw, once, file, cache, saves, hist>>

WriteTmp(p) ==
  /\ Go(p, "write", "git")
  /\ tmp'  = IF tmp.writer = p THEN File(state[p], Nobody) ELSE tmp
  /\ file' = IF file.writer = p THEN File(state[p], Nobody) ELSE file
  /\ UNCHANGED <<own, lock, journal, raw, once, cache, saves, hist>>

\* git_commit: success or not.
GitCommit(p) ==
  /\ Go(p, "git", "replace") \/ Go(p, "git", "unlink")
  /\ UNCHANGED <<own, disk, journal, saves, hist>>

\* STATE_TMP.replace(STATE_FILE); it raises when the other launch moved the file.
Replace(p) ==
  /\ Go(p, "replace", "release")
  /\ IF tmp = Absent THEN UNCHANGED <<file, tmp, saves>>
     ELSE file' = tmp /\ tmp' = Absent /\ saves' = saves + 1
  /\ UNCHANGED <<own, lock, journal, raw, once, cache, hist>>

\* Git failed: unlink(missing_ok=True). Previous state preserved.
Unlink(p) ==
  /\ Go(p, "unlink", "release")
  /\ tmp' = Absent
  /\ UNCHANGED <<own, lock, journal, raw, once, file, cache, saves, hist>>

\* release_lock in the finally.
Release(p) ==
  /\ Go(p, "release", "ended")
  /\ lock' = FALSE
  /\ UNCHANGED <<own, journal, raw, once, file, tmp, cache, saves, hist>>

\* The process dies; what it was writing stays torn, the lock stays.
Die(p) ==
  /\ pc[p] \notin {"new", "ended"}
  /\ pc' = [pc EXCEPT ![p] = "ended"]
  /\ UNCHANGED <<own, disk, journal, saves, hist>>

\* Force Unlock of control.py, or by hand as the error message says.
ForceUnlock ==
  /\ lock /\ lock' = FALSE
  /\ UNCHANGED <<pc, own, journal, raw, once, file, tmp, cache, saves, hist>>

\* An entry is written to the journal, its date after the others or before.
Arrive(e) ==
  /\ e \notin journal /\ journal' = journal \cup {e}
  /\ UNCHANGED <<pc, own, disk, saves, hist>>

Next ==
  \/ ForceUnlock \/ \E e \in Entries : Arrive(e)
  \/ \E p \in Launches :
       \/ Load(p) \/ Refused(p) \/ FindsNoLock(p) \/ WriteLock(p)
       \/ SkipShort(p) \/ OpenRaw(p) \/ WriteRaw(p) \/ ExtractDone(p)
       \/ ReadCache(p) \/ WriteCache(p) \/ Push(p) \/ Raise(p)
       \/ OpenTmp(p) \/ WriteTmp(p) \/ GitCommit(p) \/ Replace(p) \/ Unlink(p)
       \/ Release(p) \/ Die(p)

Spec == Init /\ [][Next]_vars

--------------------------------------------------------------------------------
\* Launches, files and journal keep their types.
TypeOK ==
  /\ pc \in [Launches -> Steps] /\ state \in [Launches -> States]
  /\ batch \in [Launches -> SUBSET Entries] /\ fresh \in [Launches -> SUBSET Entries]
  /\ lock \in BOOLEAN /\ journal \subseteq Entries
  /\ raw \subseteq once /\ once \subseteq Entries
  /\ {file, tmp} \subseteq [content : States, writer : Launches \cup {Nobody, "absent"}]
  /\ cache \in BOOLEAN /\ saves \in Nat /\ base \in [Launches -> Nat]
  /\ {overlap, stale} \subseteq BOOLEAN

\* An entry the saved state calls processed was written to raw/ once, unless it was too
\* short, whatever launches overlapped, died or failed: none is skipped for ever. And
\* its file is still whole, unless launches overlapped or one extracted again with a
\* state it had loaded before another one saved: dying, that one leaves it truncated.
ProcessedIsExtracted ==
  ~Torn(file) =>
    file.content.processed \ Short \subseteq (IF overlap \/ stale THEN once ELSE raw)

\* vault_state.json can be read whenever the last launch died, unless launches
\* overlapped and shared the temporary file.
StateReadable == Torn(file) => overlap

\* A save forgets no processed entry and no cycle, unless its launch had loaded
\* the state before another one saved, or launches overlapped.
StateGrows ==
  [][\A p \in Launches :
       pc[p] = "replace" /\ pc'[p] = "release" /\ base[p] = saves /\ ~overlap
         => /\ file.content.processed \subseteq file'.content.processed
            /\ file.content.cycle <= file'.content.cycle]_vars
===============================================================================
