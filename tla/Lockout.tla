------------------------------- MODULE Lockout -------------------------------
(***************************************************************************)
(* The backoff lock of a vault file (vault_store/src/lockout.rs) and the   *)
(* three operations under it: unlock, verify_master_password and           *)
(* unlock_second_factor (vault.rs).  Each of them reads the lock, spends   *)
(* its time in the key derivation, and only then writes: a success resets  *)
(* the counter, a wrong password reads it again and writes it back in      *)
(* another statement.  There is no transaction, and every actor has its    *)
(* own connection.                                                         *)
(*                                                                         *)
(* Time is kept relative: lock_left is what is left of locked_until, and   *)
(* an attempt carries the time since it took its now_ms, from which the    *)
(* end of a lock is computed.  A unit of time is the shortest lock.        *)
(***************************************************************************)
EXTENDS Naturals

CONSTANTS
  Actors,         \* connections to the vault file
  LockThreshold,  \* LOCK_THRESHOLD: failures before the first lock
  BaseLock,       \* BASE_LOCK_MINUTES, in units of time
  MaxLock,        \* MAX_LOCK_MINUTES, in units of time
  MaxCount,       \* u32::MAX, where the counter saturates
  MaxAge          \* bound: the longest an attempt takes, in units of time

ASSUME LockoutAssumption ==
  /\ LockThreshold \in Nat \ {0}
  /\ BaseLock \in Nat \ {0} /\ MaxLock \in Nat /\ BaseLock <= MaxLock
  /\ MaxCount \in Nat /\ MaxCount >= LockThreshold + 3
  /\ MaxAge \in Nat

VARIABLES
  failed_attempts,  \* meta.failed_attempts
  lock_left,        \* meta.locked_until - now; 0 when it is past or NULL
  attempt,          \* per actor, the attempt in flight
  answered,         \* wrong passwords answered since the last reset
  gap,              \* time since the last of those attempts began
  alone             \* no attempt or reset has overlapped another's attempt

vars == <<failed_attempts, lock_left, attempt, answered, gap, alone>>

Idle == [pc |-> "idle", age |-> 0, read |-> 0]
AttemptType == [pc : {"idle", "derive", "write"}, age : 0 .. MaxAge,
                read : 0 .. MaxCount]
MaxGap == MaxLock + MaxAge

\* Mutant of Locked: the counter is looked at, not the clock.
LockedByCount == failed_attempts >= LockThreshold

Locked == lock_left > 0
\* What is done for a comes while nobody else has an attempt in flight.
NoteOverlap(a) ==
  alone' = (alone /\ \A b \in Actors \ {a} : attempt[b].pc = "idle")
AtMost(n, bound) == IF n < bound THEN n ELSE bound
Monus(m, n) == IF m > n THEN m - n ELSE 0

Increment(n) == AtMost(n + 1, MaxCount)

\* Mutant of LockTime: the cap is dropped.
LockTimeUncapped(n) ==
  CASE n = LockThreshold     -> BaseLock
    [] n = LockThreshold + 1 -> 2 * BaseLock
    [] n = LockThreshold + 2 -> 4 * BaseLock
    [] OTHER                 -> 8 * BaseLock

\* The length of the lock that the n-th failure starts.
LockTime(n) ==
  AtMost(CASE n = LockThreshold     -> BaseLock
           [] n = LockThreshold + 1 -> 2 * BaseLock
           [] n = LockThreshold + 2 -> 4 * BaseLock
           [] OTHER                 -> 8 * BaseLock, MaxLock)

-----------------------------------------------------------------------------
\* Mutant of Begin: the lock is not looked at.
BeginUnchecked(a) ==
  /\ attempt[a].pc = "idle"
  /\ attempt' = [attempt EXCEPT ![a] = [Idle EXCEPT !.pc = "derive"]]
  /\ NoteOverlap(a)
  /\ UNCHANGED <<failed_attempts, lock_left, answered, gap>>

\* now_ms is taken, and the lock is read once.
Begin(a) ==
  /\ attempt[a].pc = "idle"
  /\ ~Locked
  /\ attempt' = [attempt EXCEPT ![a] = [Idle EXCEPT !.pc = "derive"]]
  /\ NoteOverlap(a)
  /\ UNCHANGED <<failed_attempts, lock_left, answered, gap>>

Reset == failed_attempts' = 0 /\ lock_left' = 0 /\ answered' = 0 /\ gap' = 0
Finish(a) == attempt' = [attempt EXCEPT ![a] = Idle]

\* The password was right.
Succeed(a) ==
  /\ attempt[a].pc = "derive"
  /\ Reset
  /\ Finish(a)
  /\ UNCHANGED alone

\* The password was wrong: register_failure reads the counter ...
ReadCounter(a) ==
  /\ attempt[a].pc = "derive"
  /\ attempt' = [attempt EXCEPT ![a] = [pc |-> "write", age |-> attempt[a].age,
                                        read |-> failed_attempts]]
  /\ UNCHANGED <<failed_attempts, lock_left, answered, gap, alone>>

\* Mutant of WriteCounter: a failure that locks forgets to store the counter.
WriteCounterOnlyLock(a) ==
  /\ attempt[a].pc = "write"
  /\ LET n == Increment(attempt[a].read)
     IN  IF n < LockThreshold
           THEN failed_attempts' = n /\ UNCHANGED lock_left
           ELSE /\ lock_left' = Monus(LockTime(n), attempt[a].age)
                /\ UNCHANGED failed_attempts
  /\ answered' = Increment(answered) /\ gap' = attempt[a].age
  /\ Finish(a)
  /\ UNCHANGED alone

\* ... and writes it back, from the threshold on with the end of a lock that
\* is counted from the time the attempt began.
WriteCounter(a) ==
  /\ attempt[a].pc = "write"
  /\ LET n == Increment(attempt[a].read)
     IN  /\ failed_attempts' = n
         /\ lock_left' = IF n < LockThreshold THEN lock_left
                         ELSE Monus(LockTime(n), attempt[a].age)
  /\ answered' = Increment(answered) /\ gap' = attempt[a].age
  /\ Finish(a)
  /\ UNCHANGED alone

\* A crash, or an error of a statement: what was committed stays.
Abort(a) ==
  /\ attempt[a].pc # "idle"
  /\ Finish(a)
  /\ UNCHANGED <<failed_attempts, lock_left, answered, gap, alone>>

\* recover and recover_with_kit do not look at the lock, and reset it last.
RecoverReset(a) ==
  /\ attempt[a].pc = "idle"
  /\ Reset
  /\ NoteOverlap(a)
  /\ UNCHANGED attempt

Tick ==
  /\ \A a \in Actors : attempt[a].pc # "idle" => attempt[a].age < MaxAge
  /\ lock_left' = Monus(lock_left, 1)
  /\ gap' = AtMost(gap + 1, MaxGap)
  /\ attempt' = [a \in Actors |->
                   IF attempt[a].pc = "idle" THEN attempt[a]
                   ELSE [attempt[a] EXCEPT !.age = attempt[a].age + 1]]
  /\ UNCHANGED <<failed_attempts, answered, alone>>

-----------------------------------------------------------------------------
Init ==
  /\ failed_attempts = 0 /\ lock_left = 0 /\ answered = 0 /\ gap = 0
  /\ attempt = [a \in Actors |-> Idle] /\ alone = TRUE

\* What an attempt that has begun does.
Proceed(a) == Succeed(a) \/ ReadCounter(a) \/ WriteCounter(a) \/ Abort(a)

Next ==
  \/ \E a \in Actors : Begin(a) \/ Proceed(a) \/ RecoverReset(a)
  \/ Tick

Spec == Init /\ [][Next]_vars

\* Time passes, and an attempt that has begun comes to an end: it is one
\* bounded computation and two statements.
FairSpec == Spec /\ WF_vars(Tick) /\ \A a \in Actors : WF_vars(Proceed(a))

-----------------------------------------------------------------------------
(* Properties.                                                             *)

TypeOK ==
  /\ failed_attempts \in 0 .. MaxCount
  /\ lock_left \in Nat
  /\ attempt \in [Actors -> AttemptType]
  /\ answered \in 0 .. MaxCount /\ gap \in 0 .. MaxGap
  /\ alone \in BOOLEAN

\* However attempts interleave, no lock outlasts the maximum: a user is never
\* shut out for longer than MAX_LOCK_MINUTES by one failure (lockout.rs:75-81).
LockBounded == lock_left <= MaxLock

\* A locked vault opens again by itself: whatever attempts were in flight
\* when the lock began, and however often it was begun before, the waiting
\* ends (lockout.rs:54-62, 65-87).
LockEnds == Locked ~> ~Locked

\* As long as no two attempts overlap, the counter is the number of wrong
\* passwords answered since the last success or reset: none is free and none
\* is kept, across crashes, saturation and resets (lockout.rs:65-96).
CounterExact == alone => failed_attempts = answered

\* As long as no two attempts overlap, none begins inside the lock that the
\* last wrong password started, of the length its number calls for: the n-th
\* guess costs the backoff of the n failures before it (lockout.rs:54-87).
BackoffServed ==
  alone =>
    \A a \in Actors :
      attempt[a].pc # "idle" /\ answered >= LockThreshold =>
        gap >= attempt[a].age + LockTime(answered)

=============================================================================
