----------------------------- MODULE Healthcheck -----------------------------
(***************************************************************************)
(* AlpacaClient.healthcheck (core/broker/alpaca.py): the account is read   *)
(* by a one-thread pool, awaited under a timeout, inside a with statement  *)
(* whose exit shuts the pool down and waits for the thread.                *)
(***************************************************************************)
EXTENDS Naturals

VARIABLES
  pc,      \* the trading thread: idle, waiting for the future, leaving the with
  probe,   \* the pool's thread: none, running, ok, blocked (account), raised
  result   \* what the wait ended with

TypeOK ==
  /\ pc \in {"idle", "waiting", "leaving"}
  /\ probe \in {"none", "running", "ok", "blocked", "raised"}
  /\ result \in {"none", "ok", "blocked", "raised", "timeout"}

Init == pc = "idle" /\ probe = "none" /\ result = "none"

\* ex.submit(_probe)
Begin ==
  /\ pc = "idle"
  /\ pc' = "waiting" /\ probe' = "running" /\ result' = "none"

\* get_account answers, with an account that may trade or one that may not, or
\* raises; or it never comes back.
Answer ==
  /\ probe = "running"
  /\ probe' \in {"ok", "blocked", "raised"}
  /\ UNCHANGED <<pc, result>>

\* future.result(timeout) (mutants: an exception is lost; the future is not awaited)
ReceiveAnswers ==
  /\ pc = "waiting" /\ probe \in {"ok", "blocked"}
  /\ pc' = "leaving" /\ result' = probe
  /\ UNCHANGED probe
ReceiveNow ==
  /\ pc = "waiting"
  /\ pc' = "leaving" /\ result' = probe
  /\ UNCHANGED probe
Receive ==
  /\ pc = "waiting" /\ probe # "running"
  /\ pc' = "leaving" /\ result' = probe
  /\ UNCHANGED probe

TimeOut ==
  /\ pc = "waiting" /\ probe = "running"
  /\ pc' = "leaving" /\ result' = "timeout"
  /\ UNCHANGED probe

\* The verdict is built from what the wait ended with.
Healthy == result = "ok"

\* ThreadPoolExecutor.__exit__ is shutdown(wait=True); then the branches. The time
\* of the last successful check is only reported in an event.
Leave ==
  /\ pc = "leaving" /\ probe # "running"
  /\ pc' = "idle" /\ probe' = "none" /\ result' = "none"
===============================================================================
