-------------------------------- MODULE Waiter --------------------------------
(***************************************************************************)
(* Engine::Time::Waiter on a condition variable (the portable branch of    *)
(* Waiter.cpp): a latch that any thread sets and one owner waits for.      *)
(*                                                                         *)
(* Notify is three steps of its thread: store the latch, lock and unlock   *)
(* the mutex, notify_one.  Wait, without a deadline, is a loop of its      *)
(* owner: exchange the latch, else lock, load it again, sleep.  The mutex  *)
(* is held exactly while the owner is "armed", between that load and the   *)
(* sleep: a notifier locks and unlocks it in one step.  A wake nobody      *)
(* asked for would only repeat the loop, and is left out.                  *)
(***************************************************************************)
CONSTANT Threads        \* the threads that may notify

VARIABLES
  notified,             \* the latch
  owner,                \* where the owner is in Wait, or "out"
  signal                \* where each thread is in Notify, or "none"

waiterVars == <<notified, owner, signal>>

WaiterTypeOK ==
  /\ notified \in BOOLEAN
  /\ owner \in {"out", "exchange", "block", "armed", "asleep"}
  /\ signal \in [Threads -> {"none", "store", "lock", "notify"}]

WaiterInit ==
  /\ notified = FALSE
  /\ owner = "out"
  /\ signal = [t \in Threads |-> "none"]

MutexHeld == owner = "armed"

\* A thread calls Notify: `signal' for its next steps.
Notifying(threads) == [t \in Threads |-> IF t \in threads THEN "store" ELSE signal[t]]

Store(t) ==
  /\ signal[t] = "store"
  /\ notified' = TRUE
  /\ signal' = [signal EXCEPT ![t] = "lock"]
  /\ UNCHANGED owner

\* Mutant of LockUnlock: Signal without its lock_guard.
LockUnlockMutant(t) ==
  /\ signal[t] = "lock"
  /\ signal' = [signal EXCEPT ![t] = "notify"]
  /\ UNCHANGED <<notified, owner>>

LockUnlock(t) ==
  /\ signal[t] = "lock" /\ ~MutexHeld
  /\ signal' = [signal EXCEPT ![t] = "notify"]
  /\ UNCHANGED <<notified, owner>>

NotifyOne(t) ==
  /\ signal[t] = "notify"
  /\ signal' = [signal EXCEPT ![t] = "none"]
  /\ owner' = IF owner = "asleep" THEN "exchange" ELSE owner
  /\ UNCHANGED notified

NotifyStep(t) == Store(t) \/ LockUnlock(t) \/ NotifyOne(t)

Enter == owner = "out" /\ owner' = "exchange"

\* The latch is taken and Wait returns, or the owner is about to block.
Exchange ==
  /\ owner = "exchange"
  /\ owner' = IF notified THEN "out" ELSE "block"
  /\ notified' = FALSE
  /\ UNCHANGED signal

\* Lock the mutex and load the latch once more.
LockAndLoad ==
  /\ owner = "block"
  /\ owner' = IF notified THEN "exchange" ELSE "armed"
  /\ UNCHANGED <<notified, signal>>

\* condition.wait releases the mutex and sleeps in one step.
Sleep == owner = "armed" /\ owner' = "asleep" /\ UNCHANGED <<notified, signal>>

WaitStep == Exchange \/ LockAndLoad \/ Sleep

=============================================================================
