------------------------------- MODULE Throttle -------------------------------
(***************************************************************************)
(* The attempt throttle (admin/throttle.rs): one count of failures and one    *)
(* closing window per key, which is an address or an account name.  An attempt  *)
(* is checked against its keys, hashes its password on a thread of its own,      *)
(* and records the outcome; others are checked meanwhile.                        *)
(*                                                                           *)
(* A window is kept as the time left until it closes, in seconds; check and    *)
(* record_failure are given the time of the attempt, so a failure recorded     *)
(* late opens a window that is already part gone.  The jitter of a fifth each  *)
(* way, the line in the log and the sweep of keys unused for an hour are left  *)
(* out.                                                                       *)
(***************************************************************************)
EXTENDS Integers

CONSTANTS
  Keys,          \* addresses and account names
  Attempts,      \* attempts that can be under way together
  NoAttempt,     \* none is
  FreeAttempts,  \* FREE_ATTEMPTS
  MaxDelay,      \* MAX_DELAY_SECS
  FailuresMax    \* bound: where the count of failures stops telling any more apart

ASSUME ThrottleAssumption ==
  FreeAttempts \in Nat /\ MaxDelay \in Nat \ {0} /\ FailuresMax \in Nat /\ FailuresMax > FreeAttempts

VARIABLES
  failures,  \* consecutive_failures, 0 for a key without an entry
  wait,      \* open_until, less the time it is now; 0 when no window is open
  attempts   \* those whose password is being hashed, since when

throttleVars == <<failures, wait, attempts>>

Attempt == [keys : SUBSET Keys, right : BOOLEAN, age : 0 .. MaxDelay]

ThrottleTypeOK ==
  /\ failures \in [Keys -> 0 .. FailuresMax]
  /\ wait \in [Keys -> 0 .. MaxDelay]
  /\ attempts \in [Attempts -> Attempt \cup {NoAttempt}]

AtMost(n, limit)  == IF n > limit THEN limit ELSE n
AtLeast(n, limit) == IF n < limit THEN limit ELSE n

(* base_delay *)
BaseDelay(n) == IF n <= FreeAttempts THEN 0 ELSE AtMost(2 ^ (n - FreeAttempts - 1), MaxDelay)

(* record_failure, for an attempt that was checked age seconds ago. *)
RecordFailure(ks, age) ==
  /\ failures' = [k \in Keys |-> IF k \in ks THEN AtMost(failures[k] + 1, FailuresMax) ELSE failures[k]]
  /\ wait' = [k \in Keys |-> IF k \in ks THEN AtLeast(BaseDelay(failures'[k]) - age, 0) ELSE wait[k]]

(* record_success *)
RecordSuccess(ks) ==
  /\ failures' = [k \in Keys |-> IF k \in ks THEN 0 ELSE failures[k]]
  /\ wait' = [k \in Keys |-> IF k \in ks THEN 0 ELSE wait[k]]

(* check: some window is open, and to be refused is not to have failed. *)
Refused_Counts(ks) == (\E k \in ks : wait[k] > 0) /\ RecordFailure(ks, 0)
Refused(ks) == (\E k \in ks : wait[k] > 0) /\ UNCHANGED <<failures, wait>>

Begins(a, ks, right) ==
  /\ attempts[a] = NoAttempt
  /\ \/ Refused(ks) /\ UNCHANGED attempts
     \/ /\ \A k \in ks : wait[k] = 0
        /\ attempts' = [attempts EXCEPT ![a] = [keys |-> ks, right |-> right, age |-> 0]]
        /\ UNCHANGED <<failures, wait>>

Concludes(a) ==
  /\ attempts[a] # NoAttempt
  /\ attempts' = [attempts EXCEPT ![a] = NoAttempt]
  /\ IF attempts[a].right THEN RecordSuccess(attempts[a].keys)
                          ELSE RecordFailure(attempts[a].keys, attempts[a].age)

(* A second goes by. *)
Elapse ==
  /\ wait' = [k \in Keys |-> AtLeast(wait[k] - 1, 0)]
  /\ attempts' = [a \in Attempts |-> IF attempts[a] = NoAttempt THEN NoAttempt
                                     ELSE [attempts[a] EXCEPT !.age = AtMost(@ + 1, MaxDelay)]]
  /\ UNCHANGED failures

ThrottleInit ==
  /\ failures = [k \in Keys |-> 0] /\ wait = [k \in Keys |-> 0]
  /\ attempts = [a \in Attempts |-> NoAttempt]
=============================================================================
