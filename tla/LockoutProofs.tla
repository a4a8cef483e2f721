---------------------------- MODULE LockoutProofs ----------------------------
(***************************************************************************)
(* Proofs about Lockout, for any number of connections: types, the bound   *)
(* of the lock, and the exact counter and backoff of attempts that do not  *)
(* overlap.  And about Handles, for any threads and passwords: its calls   *)
(* are attempts of Lockout, so that all of this holds of them, and those   *)
(* that reveal a field were given the password.                            *)
(***************************************************************************)
EXTENDS Handles, TLAPS

USE LockoutAssumption DEF AtMost, Monus

\* Every lock has a length between nothing and the maximum.
LEMMA LockTimeBounded ==
  ASSUME NEW n \in Nat
  PROVE  LockTime(n) \in Nat /\ LockTime(n) <= MaxLock
<1>1. CASE n = LockThreshold
  BY <1>1 DEF LockTime
<1>2. CASE n = LockThreshold + 1
  BY <1>2 DEF LockTime
<1>3. CASE n = LockThreshold + 2
  BY <1>3 DEF LockTime
<1>4. CASE n \notin {LockThreshold, LockThreshold + 1, LockThreshold + 2}
  <2>1. LockTime(n) = AtMost(8 * BaseLock, MaxLock)
    BY <1>4 DEF LockTime
  <2> QED
    BY <2>1
<1> QED
  BY <1>1, <1>2, <1>3, <1>4

\* The saturating counter stays within its width.
LEMMA IncrementBounded ==
  ASSUME NEW n \in 0 .. MaxCount
  PROVE  Increment(n) \in 0 .. MaxCount /\ Increment(n) \in Nat
BY DEF Increment

\* An attempt that has ended is an attempt.
LEMMA IdleTyped == Idle \in AttemptType
BY DEF Idle, AttemptType

\* Types and the bound together: each new lock is a LockTime less the age of
\* its attempt, and the others only shrink.
Bounded == TypeOK /\ LockBounded

\* No step makes a lock longer than the maximum, or breaks a type.
LEMMA BoundedStep == Bounded /\ [Next]_vars => Bounded'
<1> SUFFICES ASSUME Bounded, [Next]_vars PROVE Bounded'
  OBVIOUS
<1> USE DEF Bounded, TypeOK, LockBounded
<1>1. ASSUME NEW a \in Actors, Begin(a) PROVE Bounded'
  <2>1. [Idle EXCEPT !.pc = "derive"] \in AttemptType
    BY DEF Idle, AttemptType
  <2> QED
    BY <1>1, <2>1 DEF Begin, NoteOverlap
<1>2. ASSUME NEW a \in Actors, Succeed(a) PROVE Bounded'
  BY <1>2, IdleTyped DEF Succeed, Reset, Finish, MaxGap
<1>3. ASSUME NEW a \in Actors, ReadCounter(a) PROVE Bounded'
  <2>1. [pc |-> "write", age |-> attempt[a].age, read |-> failed_attempts]
          \in AttemptType
    BY DEF AttemptType
  <2> QED
    BY <1>3, <2>1 DEF ReadCounter
<1>4. ASSUME NEW a \in Actors, WriteCounter(a) PROVE Bounded'
  <2> DEFINE n == Increment(attempt[a].read)
  <2>1. attempt[a].read \in 0 .. MaxCount /\ attempt[a].age \in 0 .. MaxAge
    BY DEF AttemptType
  <2>2. n \in 0 .. MaxCount /\ n \in Nat
    BY <2>1, IncrementBounded
  <2>3. LockTime(n) \in Nat /\ LockTime(n) <= MaxLock
    BY <2>2, LockTimeBounded
  <2>4. /\ failed_attempts' = n
        /\ lock_left' = IF n < LockThreshold THEN lock_left
                        ELSE Monus(LockTime(n), attempt[a].age)
        /\ answered' = Increment(answered) /\ gap' = attempt[a].age
        /\ UNCHANGED alone
        /\ attempt' = [attempt EXCEPT ![a] = Idle]
    BY <1>4 DEF WriteCounter, Finish
  <2>5. answered' \in 0 .. MaxCount
    BY <2>4, IncrementBounded
  <2> HIDE DEF n
  <2> QED
    BY <2>1, <2>2, <2>3, <2>4, <2>5, IdleTyped DEF MaxGap
<1>5. ASSUME NEW a \in Actors, Abort(a) PROVE Bounded'
  BY <1>5, IdleTyped DEF Abort, Finish
<1>6. ASSUME NEW a \in Actors, RecoverReset(a) PROVE Bounded'
  BY <1>6 DEF RecoverReset, Reset, NoteOverlap, MaxGap
<1>7. CASE Tick
  <2>1. ASSUME NEW a \in Actors PROVE attempt'[a] \in AttemptType
    <3>1. CASE attempt[a].pc = "idle"
      BY <1>7, <3>1 DEF Tick
    <3>2. CASE attempt[a].pc # "idle"
      <4>1. attempt[a].age + 1 \in 0 .. MaxAge
        BY <1>7, <3>2 DEF Tick, AttemptType
      <4>2. attempt'[a] = [attempt[a] EXCEPT !.age = attempt[a].age + 1]
        BY <1>7, <3>2 DEF Tick
      <4> QED
        BY <4>1, <4>2 DEF AttemptType
    <3> QED
      BY <3>1, <3>2
  <2>2. attempt' \in [Actors -> AttemptType]
    BY <1>7, <2>1 DEF Tick
  <2> QED
    BY <1>7, <2>2 DEF Tick, MaxGap
<1>8. CASE UNCHANGED vars
  BY <1>8 DEF vars
<1> QED
  BY <1>1, <1>2, <1>3, <1>4, <1>5, <1>6, <1>7, <1>8 DEF Next, Proceed

\* Nothing is locked to begin with.
LEMMA BoundedInit == Init => Bounded
BY IdleTyped DEF Init, Bounded, TypeOK, LockBounded, MaxGap

\* So the strengthened invariant holds throughout.
LEMMA AlwaysBounded == Spec => []Bounded
BY BoundedInit, BoundedStep, PTL DEF Spec

\* The counter, the lock and the attempts always have their types.
THEOREM LockoutTypeCorrect == Spec => []TypeOK
<1>1. Bounded => TypeOK
  BY DEF Bounded
<1> QED
  BY <1>1, AlwaysBounded, PTL

\* However many connections race, no lock outlasts the maximum.
THEOREM LockAlwaysBounded == Spec => []LockBounded
<1>1. Bounded => LockBounded
  BY DEF Bounded
<1> QED
  BY <1>1, AlwaysBounded, PTL

-----------------------------------------------------------------------------
(* Attempts that do not overlap.                                           *)

\* While attempts have not overlapped: at most one is in flight, the counter
\* it has read is the one it writes back, and what is left of the last lock
\* covers what is missing of its length.
Serial ==
  /\ \A a, b \in Actors :
       attempt[a].pc # "idle" /\ attempt[b].pc # "idle" => a = b
  /\ failed_attempts = answered
  /\ \A a \in Actors :
       attempt[a].pc = "write" => attempt[a].read = failed_attempts
  /\ answered >= LockThreshold => gap + lock_left >= LockTime(answered)
  /\ \A a \in Actors :
       attempt[a].pc # "idle" /\ answered >= LockThreshold =>
         gap >= attempt[a].age + LockTime(answered)

SerialInv == Bounded /\ (alone => Serial)

\* An attempt that ends leaves none in flight.
LEMMA NoneLeft ==
  ASSUME TypeOK, Serial, NEW a \in Actors, attempt[a].pc # "idle", Finish(a)
  PROVE  \A b \in Actors : attempt'[b].pc = "idle"
BY DEF TypeOK, Serial, Finish, Idle

\* Every step that overlaps no other attempt keeps the counter exact and the
\* lock served.
LEMMA SerialStep ==
  ASSUME Bounded, Serial, alone', [Next]_vars
  PROVE  Serial'
<1>1. Bounded'
  BY BoundedStep
<1>2. TypeOK /\ TypeOK'
  BY <1>1 DEF Bounded
<1>3. /\ failed_attempts \in Nat /\ answered \in Nat /\ answered \in 0 .. MaxCount
      /\ gap \in Nat /\ lock_left \in Nat /\ gap <= MaxGap
  BY <1>2 DEF TypeOK, MaxGap
<1>4. ASSUME NEW a \in Actors
      PROVE  /\ attempt[a].age \in 0 .. MaxAge
             /\ attempt[a].read \in 0 .. MaxCount
  BY <1>2 DEF TypeOK, AttemptType
<1>5. LockTime(answered) \in Nat /\ LockTime(answered) <= MaxLock
  BY <1>3, LockTimeBounded
<1>6. ASSUME NEW a \in Actors, Begin(a) PROVE Serial'
  <2>1. /\ attempt'[a].pc = "derive" /\ attempt'[a].age = 0
        /\ \A b \in Actors \ {a} : attempt'[b].pc = "idle"
    BY <1>2, <1>6 DEF Begin, NoteOverlap, Idle, TypeOK
  <2>2. /\ UNCHANGED <<failed_attempts, lock_left, answered, gap>>
        /\ lock_left = 0
    BY <1>3, <1>6 DEF Begin, Locked
  <2> QED
    BY <1>3, <1>5, <2>1, <2>2 DEF Serial
<1>7. ASSUME NEW a \in Actors, Succeed(a) PROVE Serial'
  <2>1. \A b \in Actors : attempt'[b].pc = "idle"
    BY <1>2, <1>7, NoneLeft DEF Succeed
  <2> QED
    BY <1>7, <2>1 DEF Succeed, Reset, Serial
<1>8. ASSUME NEW a \in Actors, RecoverReset(a) PROVE Serial'
  <2>1. \A b \in Actors : attempt'[b].pc = "idle"
    BY <1>8 DEF RecoverReset, NoteOverlap
  <2> QED
    BY <1>8, <2>1 DEF RecoverReset, Reset, Serial
<1>9. ASSUME NEW a \in Actors, ReadCounter(a) PROVE Serial'
  <2>1. /\ attempt'[a].pc = "write" /\ attempt[a].pc = "derive"
        /\ attempt'[a].age = attempt[a].age
        /\ attempt'[a].read = failed_attempts
        /\ \A b \in Actors \ {a} : attempt'[b] = attempt[b]
        /\ UNCHANGED <<failed_attempts, lock_left, answered, gap>>
    BY <1>2, <1>9 DEF ReadCounter, TypeOK
  <2>2. \A b \in Actors : /\ attempt'[b].pc # "idle" => attempt[b].pc # "idle"
                          /\ attempt'[b].age = attempt[b].age
    BY <2>1
  <2>3. \A b \in Actors : attempt'[b].pc = "write" =>
                            attempt'[b].read = failed_attempts
    BY <2>1 DEF Serial
  <2> QED
    BY <2>1, <2>2, <2>3 DEF Serial
<1>10. ASSUME NEW a \in Actors, WriteCounter(a) PROVE Serial'
  <2> DEFINE n == Increment(attempt[a].read)
  <2>1. attempt[a].pc = "write" /\ Finish(a)
    BY <1>10 DEF WriteCounter
  <2>2. \A b \in Actors : attempt'[b].pc = "idle"
    BY <1>2, <2>1, NoneLeft
  <2>3. n \in 0 .. MaxCount /\ n = Increment(answered)
    BY <1>4, <2>1, IncrementBounded DEF Serial
  <2>4. LockTime(n) \in Nat
    BY <2>3, LockTimeBounded
  <2>5. /\ failed_attempts' = n /\ answered' = n
        /\ lock_left' = IF n < LockThreshold THEN lock_left
                        ELSE Monus(LockTime(n), attempt[a].age)
        /\ gap' = attempt[a].age
    BY <1>10, <2>3 DEF WriteCounter
  <2> HIDE DEF n
  <2>6. n >= LockThreshold => gap' + lock_left' >= LockTime(n)
    BY <1>4, <2>3, <2>4, <2>5
  <2> QED
    BY <2>2, <2>5, <2>6 DEF Serial
<1>11. ASSUME NEW a \in Actors, Abort(a) PROVE Serial'
  <2>1. \A b \in Actors : attempt'[b].pc = "idle"
    BY <1>2, <1>11, NoneLeft DEF Abort
  <2> QED
    BY <1>11, <2>1 DEF Abort, Serial
<1>12. CASE Tick
  <2>1. ASSUME NEW b \in Actors
        PROVE  /\ attempt'[b].pc = attempt[b].pc
               /\ attempt'[b].read = attempt[b].read
               /\ attempt[b].pc # "idle" =>
                    attempt'[b].age = attempt[b].age + 1
    BY <1>2, <1>12 DEF Tick, TypeOK, AttemptType
  <2>2. /\ lock_left' = Monus(lock_left, 1)
        /\ gap' = AtMost(gap + 1, MaxGap)
        /\ UNCHANGED <<failed_attempts, answered>>
    BY <1>12 DEF Tick
  <2>3. answered >= LockThreshold => gap' + lock_left' >= LockTime(answered)
    BY <1>3, <1>5, <2>2 DEF Serial, MaxGap
  <2>4. ASSUME NEW b \in Actors, attempt'[b].pc # "idle",
               answered >= LockThreshold
        PROVE  gap' >= attempt'[b].age + LockTime(answered)
    <3>1. gap >= attempt[b].age + LockTime(answered)
      BY <2>1, <2>4 DEF Serial
    <3>2. attempt'[b].age = attempt[b].age + 1 /\ attempt'[b].age \in 0 .. MaxAge
      BY <1>2, <2>1, <2>4 DEF TypeOK, AttemptType
    <3> QED
      BY <1>3, <1>4, <1>5, <2>2, <3>1, <3>2 DEF MaxGap
  <2>5. UNCHANGED <<failed_attempts, answered>>
    BY <2>2
  <2> QED
    BY <2>1, <2>3, <2>4, <2>5 DEF Serial
<1>13. CASE UNCHANGED vars
  BY <1>13 DEF vars, Serial
<1> QED
  BY <1>6, <1>7, <1>8, <1>9, <1>10, <1>11, <1>12, <1>13 DEF Next, Proceed

\* Once attempts have overlapped, they have.
LEMMA AloneShrinks == [Next]_vars /\ alone' => alone
BY DEF Next, Proceed, Begin, Succeed, ReadCounter, WriteCounter, Abort,
       RecoverReset, Tick, NoteOverlap, vars

\* Nothing is in flight to begin with.
LEMMA SerialInit == Init => SerialInv
BY BoundedInit DEF Init, SerialInv, Serial, Idle, Bounded

\* So attempts that have not overlapped are serial throughout.
LEMMA AlwaysSerial == Spec => []SerialInv
<1>1. SerialInv /\ [Next]_vars => SerialInv'
  BY BoundedStep, SerialStep, AloneShrinks DEF SerialInv
<1> QED
  BY <1>1, SerialInit, PTL DEF Spec

\* As long as attempts do not overlap, the counter never misses a wrong
\* password and never keeps one from before a success.
THEOREM CounterAlwaysExact == Spec => []CounterExact
<1>1. SerialInv => CounterExact
  BY DEF SerialInv, Serial, CounterExact
<1> QED
  BY <1>1, AlwaysSerial, PTL

\* As long as attempts do not overlap, every guess past the threshold waits
\* out the backoff of the guesses before it.
THEOREM BackoffAlwaysServed == Spec => []BackoffServed
<1>1. SerialInv => BackoffServed
  BY DEF SerialInv, Serial, BackoffServed
<1> QED
  BY <1>1, AlwaysSerial, PTL

-----------------------------------------------------------------------------
(* The C interface and the bridge.                                         *)

hall == <<vars, hvars>>

\* A call that takes a password is an attempt, and every other leaves the lock
\* alone.
LEMMA AttemptStep == [HandlesNext]_hall => [Next]_vars
<1>1. ASSUME NEW t \in Threads, Answers(t) PROVE [Next]_vars
  BY <1>1
     DEF Answers, ReadWrap, Accepted, Rejected, Counted, Fails, Next, Proceed,
         Threads, vars
<1>2. ASSUME NEW t \in Threads, Calls(t) PROVE [Next]_vars
  BY <1>2
     DEF Calls, Unlock, UnlockSecondFactor, RevealSecret, Enter, TurnedAway,
         Misused, Lookup, ReadAccounts, WriteAccount, LockStatus, Outcome, Lock,
         Next, Threads
<1>3. ASSUME NEW t \in Threads, BridgeCalls(t) PROVE [Next]_vars
  BY <1>3
     DEF BridgeCalls, BridgeUnlock, Enter, BridgeReveal, BridgeLock, BridgeWork,
         Outcome, Next, Threads
<1>4. ASSUME OtherProcess PROVE [Next]_vars
  BY <1>4 DEF OtherProcess, Rewrap
<1>5. ASSUME Tick PROVE [Next]_vars
  BY <1>5 DEF Next
<1>6. ASSUME UNCHANGED hall PROVE [Next]_vars
  BY <1>6 DEF hall
<1> QED
  BY <1>1, <1>2, <1>3, <1>4, <1>5, <1>6 DEF HandlesNext

\* Whatever threads of the C interface and of the bridge call, and in whatever
\* order, the lock is that of Lockout (vault_ffi/src/lib.rs:130-300,
\* vault_jni/src/lib.rs).
THEOREM HandlesImplementLockout == HandlesSpec => Spec
<1>1. Init /\ HandlesInit => Init
  OBVIOUS
<1> QED
  BY <1>1, AttemptStep, PTL DEF HandlesSpec, Spec, hall

-----------------------------------------------------------------------------

\* The records of a thread.
LEMMA HandleRecords ==
  /\ Closed \in HandleType /\ ~Closed.second
  /\ Opened \in HandleType /\ ~Opened.second
  /\ \A h \in HandleType : Verified(h) \in HandleType /\ Verified(h).has = h.has
  /\ NoCall \in CallType /\ NoCall.read = "unread" /\ NoCall.op = "none"
  /\ \A c \in CallType : c.op # "none" => c # NoCall
  /\ \A code \in Codes, fair \in BOOLEAN :
       /\ Returned(code, fair) \in [code : Codes, fair : BOOLEAN]
       /\ Returned(code, fair).code = code /\ Returned(code, fair).fair = fair
<1>1. /\ Closed \in HandleType /\ ~Closed.second
      /\ NoCall \in CallType /\ NoCall.read = "unread" /\ NoCall.op = "none"
  BY DEF Closed, HandleType, NoCall, CallType, Fields
<1>2. Opened \in HandleType /\ ~Opened.second
  <2> DEFINE has == fdek_under # None
  <2>1. has \in BOOLEAN
    OBVIOUS
  <2>2. Opened = [open |-> TRUE, has |-> has, second |-> FALSE]
    BY DEF Opened
  <2> HIDE DEF has
  <2> QED
    BY <2>1, <2>2 DEF HandleType
<1>3. ASSUME NEW h \in HandleType
      PROVE  Verified(h) \in HandleType /\ Verified(h).has = h.has
  BY DEF Verified, HandleType
<1>4. \A c \in CallType : c.op # "none" => c # NoCall
  BY <1>1
<1>5. ASSUME NEW code \in Codes, NEW fair \in BOOLEAN
      PROVE  /\ Returned(code, fair) \in [code : Codes, fair : BOOLEAN]
             /\ Returned(code, fair).code = code /\ Returned(code, fair).fair = fair
  BY DEF Returned
<1> QED
  BY <1>1, <1>2, <1>3, <1>4, <1>5

\* What is returned is the answer of the thread, and of no other.
LEMMA ReturnEffect ==
  ASSUME HandlesTypeOK, NEW t \in Threads, NEW code \in Codes,
         NEW fair \in BOOLEAN, Return(t, code, fair)
  PROVE  /\ answer' \in [Threads -> [code : Codes, fair : BOOLEAN]]
         /\ answer'[t].code = code /\ answer'[t].fair = fair
         /\ \A u \in Threads \ {t} : answer'[u] = answer[u]
<1>1. answer' = [answer EXCEPT ![t] = Returned(code, fair)]
  BY DEF Return
<1> QED
  BY <1>1, HandleRecords DEF HandlesTypeOK

\* A call that is done is forgotten.
LEMMA DoneEffect ==
  ASSUME HandlesTypeOK, NEW t \in Threads, Done(t)
  PROVE  /\ call' \in [Threads -> CallType]
         /\ call'[t] = NoCall
         /\ \A u \in Threads \ {t} : call'[u] = call[u]
BY HandleRecords DEF HandlesTypeOK, Done

\* A call that begins is fair if its password is right then.
LEMMA EnterEffect ==
  ASSUME HandlesTypeOK, NEW t \in Threads,
         NEW op \in {"unlock", "second_factor", "reveal", "bridge"},
         NEW pw \in Passwords, NEW field \in Fields, Enter(t, op, pw, field)
  PROVE  /\ call' \in [Threads -> CallType]
         /\ call'[t] # NoCall /\ call'[t].read = "unread"
         /\ call'[t].op = op /\ call'[t].pw = pw
         /\ pw = Against(t, op, dek_under, fdek_under) => call'[t].fair
         /\ \A u \in Threads \ {t} : call'[u] = call[u]
         /\ answer' \in [Threads -> [code : Codes, fair : BOOLEAN]]
         /\ answer'[t].code = "none"
         /\ \A u \in Threads \ {t} : answer'[u] = answer[u]
<1> DEFINE right == pw = Against(t, op, dek_under, fdek_under)
           c == [op |-> op, pw |-> pw, field |-> field, read |-> "unread",
                 fair |-> right]
<1>1. /\ call' = [call EXCEPT ![t] = c]
      /\ answer' = [answer EXCEPT ![t] = Returned("none", FALSE)]
  BY DEF Enter
<1>2. /\ right \in BOOLEAN
      /\ right <=> pw = Against(t, op, dek_under, fdek_under)
  OBVIOUS
<1> HIDE DEF right
<1>3. /\ c \in CallType /\ c.op = op /\ c.pw = pw /\ c.read = "unread"
      /\ c.fair = right
  BY <1>2 DEF CallType
<1> HIDE DEF c
<1>4. c # NoCall
  BY <1>3, HandleRecords
<1>5. /\ call' \in [Threads -> CallType] /\ call'[t] = c
      /\ \A u \in Threads \ {t} : call'[u] = call[u]
  BY <1>1, <1>3 DEF HandlesTypeOK
<1>6. /\ answer' \in [Threads -> [code : Codes, fair : BOOLEAN]]
      /\ answer'[t].code = "none"
      /\ \A u \in Threads \ {t} : answer'[u] = answer[u]
  <2>1. "none" \in Codes /\ FALSE \in BOOLEAN
    BY DEF Codes
  <2>2. /\ Returned("none", FALSE) \in [code : Codes, fair : BOOLEAN]
        /\ Returned("none", FALSE).code = "none"
    BY <2>1, HandleRecords
  <2> QED
    BY <1>1, <2>2 DEF HandlesTypeOK
<1> QED
  BY <1>2, <1>3, <1>4, <1>5, <1>6

\* What a call finds when it reads the wrap.
LEMMA ReadWrapEffect ==
  ASSUME HandlesTypeOK, NEW t \in Threads, ReadWrap(t)
  PROVE  /\ call' \in [Threads -> CallType]
         /\ call'[t].op = call[t].op /\ call'[t].pw = call[t].pw
         /\ call'[t].fair = call[t].fair
         /\ \/ call'[t].read = "wrong"
            \/ /\ call'[t].read = "right"
               /\ call[t].pw = Against(t, call[t].op, dek_under, fdek_under)
         /\ \A u \in Threads \ {t} : call'[u] = call[u]
<1>1. PICK read \in {"right", "wrong"} :
        /\ call' = [call EXCEPT ![t].read = read]
        /\ read = "right" =>
             call[t].pw = Against(t, call[t].op, dek_under, fdek_under)
  BY DEF ReadWrap
<1>2. call[t] \in CallType
  BY DEF HandlesTypeOK
<1>3. /\ [call[t] EXCEPT !.read = read] \in CallType
      /\ [call[t] EXCEPT !.read = read].op = call[t].op
      /\ [call[t] EXCEPT !.read = read].pw = call[t].pw
      /\ [call[t] EXCEPT !.read = read].fair = call[t].fair
      /\ [call[t] EXCEPT !.read = read].read = read
  BY <1>2 DEF CallType
<1>4. call' = [call EXCEPT ![t] = [call[t] EXCEPT !.read = read]]
  BY <1>1
<1> QED
  BY <1>1, <1>3, <1>4 DEF HandlesTypeOK

\* What every call keeps, its thread's part and the rest of it.
FairAt(t) ==
  /\ answer[t].code = "value" => answer[t].fair
  /\ attempt[t].pc # "idle" => ~Free(t) /\ call[t].read # "verified"
  /\ ~Free(t) /\ call[t].pw = Against(t, call[t].op, dek_under, fdek_under)
       => call[t].fair
  /\ call[t].read \in {"right", "verified"} => call[t].fair

HandlesInv == HandlesTypeOK /\ FairInv

\* A thread that nothing of is touched keeps its part.
LEMMA Untouched ==
  ASSUME NEW t \in Threads, FairAt(t), answer'[t] = answer[t],
         attempt'[t].pc = attempt[t].pc, call'[t] = call[t],
         handle'[t] = handle[t], UNCHANGED files
  PROVE  FairAt(t)'
BY DEF FairAt, Free, Against, files

\* The end of an attempt.
LEMMA FinishAttempt ==
  ASSUME TypeOK, NEW t \in Threads, Finish(t)
  PROVE  attempt'[t].pc = "idle" /\ \A u \in Threads \ {t} : attempt'[u] = attempt[u]
BY DEF TypeOK, Finish, Idle, Threads

\* An idle thread whose call is done, and whose answer is no value.
LEMMA NothingLeft ==
  ASSUME NEW t \in Threads, attempt'[t].pc = "idle", call'[t] = NoCall,
         answer'[t].code = "value" => answer'[t].fair
  PROVE  FairAt(t)'
BY HandleRecords DEF FairAt, Free

\* A step of one thread that keeps its own part keeps the invariant.
LEMMA OneThread ==
  ASSUME HandlesInv, NEW t \in Threads, FairAt(t)', HandlesTypeOK',
         ~bridge'.second, UNCHANGED files,
         \A u \in Threads \ {t} : /\ answer'[u] = answer[u]
                                  /\ attempt'[u].pc = attempt[u].pc
                                  /\ call'[u] = call[u]
                                  /\ handle'[u] = handle[u]
  PROVE  HandlesInv'
<1>1. \A u \in Threads : FairAt(u)
  BY DEF HandlesInv, FairInv, FairAt, RevealedForPassword
<1>2. \A u \in Threads : FairAt(u)'
  BY <1>1, Untouched
<1> QED
  BY <1>2 DEF HandlesInv, FairInv, FairAt, RevealedForPassword

\* The calls that take a password, up to its check.
LEMMA EnterKeeps ==
  ASSUME TypeOK, HandlesInv, NEW t \in Threads,
         NEW op \in {"unlock", "second_factor", "reveal", "bridge"},
         NEW pw \in Passwords, NEW field \in Fields, Enter(t, op, pw, field)
  PROVE  HandlesInv'
<1>1. /\ UNCHANGED <<files, handle, bridge>>
      /\ \A u \in Threads \ {t} : attempt'[u] = attempt[u]
  BY DEF Enter, Begin, TypeOK, Threads
<1>2. HandlesTypeOK'
  BY <1>1, EnterEffect DEF HandlesInv, HandlesTypeOK, files
<1>3. FairAt(t)'
  <2>1. /\ call'[t] # NoCall /\ call'[t].read = "unread"
        /\ call'[t].op = op /\ call'[t].pw = pw /\ answer'[t].code = "none"
        /\ pw = Against(t, op, dek_under, fdek_under) => call'[t].fair
    BY EnterEffect DEF HandlesInv
  <2> QED
    BY <1>1, <2>1 DEF FairAt, Free, Against, files
<1>4. \A u \in Threads \ {t} : call'[u] = call[u] /\ answer'[u] = answer[u]
  BY EnterEffect DEF HandlesInv
<1> QED
  BY <1>1, <1>2, <1>3, <1>4, OneThread DEF HandlesInv, FairInv

\* A call that only answers.
LEMMA OutcomeKeeps ==
  ASSUME HandlesInv, NEW t \in Threads, NEW code \in Codes \ {"value"},
         Return(t, code, FALSE), UNCHANGED <<vars, files, handle, bridge, call>>
  PROVE  HandlesInv'
<1>1. HandlesTypeOK /\ ~bridge.second /\ FairAt(t)
  BY DEF HandlesInv, FairInv, FairAt, RevealedForPassword
<1>2. /\ answer' \in [Threads -> [code : Codes, fair : BOOLEAN]]
      /\ answer'[t].code = code
      /\ \A u \in Threads \ {t} : answer'[u] = answer[u]
  BY <1>1, ReturnEffect
<1>3. HandlesTypeOK'
  BY <1>1, <1>2 DEF HandlesTypeOK, files
<1>4. FairAt(t)'
  BY <1>1, <1>2 DEF FairAt, Free, Against, files, vars
<1> QED
  BY <1>1, <1>2, <1>3, <1>4, OneThread DEF vars

\* The other calls of the C interface.
LEMMA CallsKeep ==
  ASSUME TypeOK, HandlesInv, NEW t \in Threads, Calls(t)
  PROVE  HandlesInv'
<1>1. HandlesTypeOK /\ ~bridge.second /\ FairAt(t)
  BY DEF HandlesInv, FairInv, FairAt, RevealedForPassword
<1>2. ASSUME NEW pw \in Passwords, Unlock(t, pw) \/ UnlockSecondFactor(t, pw)
      PROVE  HandlesInv'
  BY <1>2, EnterKeeps DEF Unlock, UnlockSecondFactor, Fields
<1>3. ASSUME NEW pw \in Passwords, NEW field \in Fields, RevealSecret(t, pw, field)
      PROVE  HandlesInv'
  BY <1>3, EnterKeeps DEF RevealSecret
<1>5. ASSUME NEW codes \in SUBSET (Codes \ {"value"}), Outcome(t, codes)
      PROVE  HandlesInv'
  BY <1>5, OutcomeKeeps DEF Outcome
<1>6. ASSUME TurnedAway(t) \/ Misused(t) PROVE HandlesInv'
  BY <1>6, OutcomeKeeps DEF TurnedAway, Misused, Codes
<1>7. ASSUME ReadAccounts(t) \/ WriteAccount(t) \/ LockStatus(t)
      PROVE  HandlesInv'
  <2>1. \E codes \in SUBSET (Codes \ {"value"}) : Outcome(t, codes)
    BY <1>7 DEF ReadAccounts, WriteAccount, LockStatus, Codes
  <2> QED
    BY <1>5, <2>1
<1>8. ASSUME Lookup(t) PROVE HandlesInv'
  <2>1. PICK code \in Codes, fair \in BOOLEAN :
          Return(t, code, fair) /\ (code = "value" => fair)
    BY <1>1, <1>8 DEF Lookup, FairAt, Codes, HandlesTypeOK, CallType
  <2>2. /\ UNCHANGED <<vars, files, handle, bridge>> /\ Done(t)
        /\ call[t].read = "verified"
    BY <1>8 DEF Lookup
  <2>3. /\ answer' \in [Threads -> [code : Codes, fair : BOOLEAN]]
        /\ answer'[t].code = "value" => answer'[t].fair
        /\ \A u \in Threads \ {t} : answer'[u] = answer[u]
    BY <1>1, <2>1, ReturnEffect
  <2>4. /\ call' \in [Threads -> CallType] /\ call'[t] = NoCall
        /\ \A u \in Threads \ {t} : call'[u] = call[u]
    BY <1>1, <2>2, DoneEffect
  <2>5. HandlesTypeOK'
    BY <1>1, <2>2, <2>3, <2>4 DEF HandlesTypeOK, files
  <2>6. attempt'[t].pc = "idle"
    BY <1>1, <2>2 DEF FairAt, vars
  <2>7. FairAt(t)'
    BY <2>3, <2>4, <2>6, NothingLeft
  <2> QED
    BY <1>1, <2>2, <2>3, <2>4, <2>5, <2>7, OneThread DEF vars
<1>9. ASSUME Lock(t) PROVE HandlesInv'
  <2>1. /\ handle' \in [Threads -> HandleType]
        /\ \A u \in Threads \ {t} : handle'[u] = handle[u]
        /\ UNCHANGED <<vars, files, bridge, call, answer>> /\ Free(t)
    BY <1>1, <1>9, HandleRecords DEF Lock, HandlesTypeOK
  <2>2. HandlesTypeOK'
    BY <1>1, <2>1 DEF HandlesTypeOK, files
  <2>3. FairAt(t)'
    BY <1>1, <2>1, HandleRecords DEF FairAt, Free, vars
  <2> QED
    BY <1>1, <2>1, <2>2, <2>3, OneThread DEF vars
<1> QED
  BY <1>2, <1>3, <1>6, <1>7, <1>8, <1>9 DEF Calls

\* An attempt goes on to its answer.
LEMMA AnswersKeep ==
  ASSUME TypeOK, HandlesInv, NEW t \in Threads, Answers(t)
  PROVE  HandlesInv'
<1>1. HandlesTypeOK /\ ~bridge.second /\ FairAt(t) /\ call[t] \in CallType
  BY DEF HandlesInv, FairInv, FairAt, RevealedForPassword, HandlesTypeOK
<1>2. CASE ReadWrap(t)
  <2>1. UNCHANGED <<vars, files, handle, bridge, answer>> /\ attempt[t].pc = "derive"
    BY <1>2 DEF ReadWrap
  <2>2. HandlesTypeOK'
    BY <1>1, <1>2, <2>1, ReadWrapEffect DEF HandlesTypeOK, files
  <2>3. /\ call'[t].op = call[t].op /\ call'[t].pw = call[t].pw
        /\ call'[t].fair = call[t].fair /\ call'[t] # NoCall
        /\ \/ call'[t].read = "wrong"
           \/ /\ call'[t].read = "right"
              /\ call[t].pw = Against(t, call[t].op, dek_under, fdek_under)
    BY <1>1, <1>2, ReadWrapEffect, HandleRecords
  <2>4. FairAt(t)'
    BY <1>1, <2>1, <2>3 DEF FairAt, Free, Against, files, vars
  <2> QED
    BY <1>1, <1>2, <2>1, <2>2, <2>4, ReadWrapEffect, OneThread DEF vars
<1>3. CASE Accepted(t)
  <2>1. /\ call[t].read = "right" /\ call[t].fair /\ UNCHANGED files
        /\ attempt'[t].pc = "idle"
        /\ \A u \in Threads \ {t} : attempt'[u] = attempt[u]
    BY <1>1, <1>3, FinishAttempt DEF Accepted, Succeed, FairAt
  <2>2. ASSUME NEW h \in HandleType, handle' = [handle EXCEPT ![t] = h],
               Done(t), Return(t, "ok", FALSE), UNCHANGED bridge
        PROVE  HandlesInv'
    <3>1. /\ answer' \in [Threads -> [code : Codes, fair : BOOLEAN]]
          /\ answer'[t].code = "ok"
          /\ \A u \in Threads \ {t} : answer'[u] = answer[u]
      <4>1. "ok" \in Codes
        BY DEF Codes
      <4> QED
        BY <1>1, <2>2, <4>1, ReturnEffect
    <3>2. HandlesTypeOK'
      BY <1>1, <2>1, <2>2, <3>1, DoneEffect DEF HandlesTypeOK, files
    <3>3. FairAt(t)'
      BY <1>1, <2>1, <2>2, <3>1, DoneEffect, NothingLeft
    <3>4. \A u \in Threads \ {t} : handle'[u] = handle[u]
      BY <1>1, <2>2 DEF HandlesTypeOK
    <3> QED
      BY <1>1, <2>1, <2>2, <3>1, <3>2, <3>3, <3>4, DoneEffect, OneThread
  <2>3. Verified(handle[t]) \in HandleType
    BY <1>1, HandleRecords DEF HandlesTypeOK
  <2>4. CASE call[t].op = "unlock"
    BY <1>3, <2>2, <2>4, HandleRecords DEF Accepted
  <2>5. CASE call[t].op = "second_factor"
    BY <1>3, <2>2, <2>3, <2>5 DEF Accepted
  <2>6. CASE call[t].op = "bridge"
    <3>1. bridge' = Opened /\ Done(t) /\ UNCHANGED <<handle, answer>>
      BY <1>3, <2>6 DEF Accepted
    <3>2. HandlesTypeOK'
      BY <1>1, <2>1, <3>1, DoneEffect, HandleRecords DEF HandlesTypeOK, files
    <3>3. FairAt(t)'
      BY <1>1, <2>1, <3>1, DoneEffect, NothingLeft DEF FairAt
    <3> QED
      BY <1>1, <2>1, <3>1, <3>2, <3>3, DoneEffect, HandleRecords, OneThread
  <2>7. CASE call[t].op \notin {"unlock", "second_factor", "bridge"}
    <3>1. /\ handle' = [handle EXCEPT ![t] = Verified(handle[t])]
          /\ call' = [call EXCEPT ![t].read = "verified"]
          /\ UNCHANGED <<bridge, answer>>
      BY <1>3, <2>7 DEF Accepted
    <3>2. /\ [call[t] EXCEPT !.read = "verified"] \in CallType
          /\ [call[t] EXCEPT !.read = "verified"].fair = call[t].fair
      BY <1>1 DEF CallType
    <3>3. /\ call' \in [Threads -> CallType] /\ call'[t].fair = call[t].fair
          /\ \A u \in Threads \ {t} : call'[u] = call[u]
      BY <1>1, <3>1, <3>2 DEF HandlesTypeOK
    <3>4. HandlesTypeOK'
      BY <1>1, <2>1, <2>3, <3>1, <3>3 DEF HandlesTypeOK, files
    <3>5. FairAt(t)'
      BY <1>1, <2>1, <3>1, <3>3 DEF FairAt
    <3>6. \A u \in Threads \ {t} : handle'[u] = handle[u]
      BY <1>1, <3>1 DEF HandlesTypeOK
    <3> QED
      BY <1>1, <2>1, <3>1, <3>3, <3>4, <3>5, <3>6, OneThread
  <2> QED
    BY <2>4, <2>5, <2>6, <2>7
<1>4. CASE Rejected(t)
  <2>1. /\ UNCHANGED hvars /\ call[t].read = "wrong" /\ attempt[t].pc = "derive"
        /\ \A u \in Threads \ {t} : attempt'[u] = attempt[u]
    BY <1>4 DEF Rejected, ReadCounter, TypeOK, Threads
  <2>2. HandlesTypeOK' /\ FairAt(t)'
    BY <1>1, <2>1 DEF HandlesTypeOK, FairAt, Free, Against, hvars
  <2> QED
    BY <1>1, <2>1, <2>2, OneThread DEF hvars, files
<1>5. CASE Counted(t) \/ Fails(t)
  <2>1. /\ Finish(t) /\ Done(t) /\ UNCHANGED <<files, bridge>>
        /\ handle' = handle \/ handle' = [handle EXCEPT ![t] = Verified(handle[t])]
        /\ \/ UNCHANGED answer
           \/ \E code \in Codes \ {"value"} : Return(t, code, FALSE)
    BY <1>5 DEF Counted, Fails, WriteCounter, Abort, WrongCode, Codes
  <2>2. /\ answer' \in [Threads -> [code : Codes, fair : BOOLEAN]]
        /\ answer'[t].code = "value" => answer'[t].fair
        /\ \A u \in Threads \ {t} : answer'[u] = answer[u]
    <3>1. CASE UNCHANGED answer
      BY <1>1, <3>1 DEF HandlesTypeOK, FairAt
    <3>2. ASSUME NEW code \in Codes \ {"value"}, Return(t, code, FALSE)
          PROVE  /\ answer' \in [Threads -> [code : Codes, fair : BOOLEAN]]
                 /\ answer'[t].code = code
                 /\ \A u \in Threads \ {t} : answer'[u] = answer[u]
      BY <1>1, <3>2, ReturnEffect
    <3> QED
      BY <2>1, <3>1, <3>2
  <2>3. /\ handle' \in [Threads -> HandleType]
        /\ \A u \in Threads \ {t} : handle'[u] = handle[u]
    <3>1. handle \in [Threads -> HandleType] /\ Verified(handle[t]) \in HandleType
      BY <1>1, HandleRecords DEF HandlesTypeOK
    <3> QED
      BY <2>1, <3>1
  <2>4. HandlesTypeOK'
    BY <1>1, <2>1, <2>2, <2>3, DoneEffect DEF HandlesTypeOK, files
  <2>5. FairAt(t)'
    BY <1>1, <2>1, <2>2, DoneEffect, FinishAttempt, NothingLeft
  <2> QED
    BY <1>1, <2>1, <2>2, <2>3, <2>4, <2>5, DoneEffect, FinishAttempt, OneThread
<1> QED
  BY <1>2, <1>3, <1>4, <1>5 DEF Answers

\* The calls of the bridge.
LEMMA BridgeCallsKeep ==
  ASSUME TypeOK, HandlesInv, NEW t \in Threads, BridgeCalls(t)
  PROVE  HandlesInv'
<1>1. HandlesTypeOK /\ ~bridge.second /\ FairAt(t)
  BY DEF HandlesInv, FairInv, FairAt, RevealedForPassword
<1>2. ASSUME NEW pw \in Passwords, BridgeUnlock(t, pw) PROVE HandlesInv'
  BY <1>2, EnterKeeps DEF BridgeUnlock, Fields
<1>3. ASSUME NEW field \in Fields, BridgeReveal(t, field) PROVE HandlesInv'
  <2> DEFINE fair == field = "plain" \/ ~bridge.has
  <2>1. /\ UNCHANGED <<vars, files, handle, bridge, call>>
        /\ Return(t, "value", fair)
    BY <1>3 DEF BridgeReveal, Return
  <2>2. fair
    BY <1>1, <1>3 DEF BridgeReveal, Opens
  <2>3. fair \in BOOLEAN
    OBVIOUS
  <2> HIDE DEF fair
  <2>4. /\ answer' \in [Threads -> [code : Codes, fair : BOOLEAN]]
        /\ answer'[t].fair
        /\ \A u \in Threads \ {t} : answer'[u] = answer[u]
    <3>1. "value" \in Codes
      BY DEF Codes
    <3> QED
      BY <1>1, <2>1, <2>2, <2>3, <3>1, ReturnEffect
  <2>5. HandlesTypeOK'
    BY <1>1, <2>1, <2>4 DEF HandlesTypeOK, files
  <2>6. FairAt(t)'
    BY <1>1, <2>1, <2>4 DEF FairAt, Free, Against, files, vars
  <2> QED
    BY <1>1, <2>1, <2>4, <2>5, <2>6, OneThread DEF vars
<1>4. ASSUME BridgeLock PROVE HandlesInv'
  <2>1. bridge' = Closed /\ UNCHANGED <<vars, files, handle, call, answer>>
    BY <1>4 DEF BridgeLock
  <2>2. HandlesTypeOK' /\ ~bridge'.second
    BY <1>1, <2>1, HandleRecords DEF HandlesTypeOK, files
  <2>3. FairAt(t)'
    BY <1>1, <2>1, Untouched DEF vars
  <2> QED
    BY <2>1, <2>2, <2>3, OneThread DEF vars
<1>5. ASSUME BridgeWork(t) PROVE HandlesInv'
  BY <1>5, OutcomeKeeps DEF BridgeWork, Outcome, Codes
<1> QED
  BY <1>2, <1>3, <1>4, <1>5 DEF BridgeCalls

\* Only what a call was given has changed when it has become fair.
LEMMA FairCall ==
  ASSUME NEW c \in CallType, NEW b \in BOOLEAN, c.fair => b,
         NEW d, d = [c EXCEPT !.fair = b]
  PROVE  /\ d \in CallType /\ d.op = c.op /\ d.pw = c.pw
         /\ d.read = c.read /\ d.fair = b
         /\ d = NoCall => c = NoCall
         /\ c = NoCall /\ ~b => d = NoCall
         /\ c = NoCall => ~c.fair
<1>1. /\ d.op = c.op /\ d.pw = c.pw /\ d.field = c.field /\ d.read = c.read
      /\ d.fair = b
  BY DEF CallType
<1>2. d \in CallType
  BY DEF CallType
<1>3. ASSUME d = NoCall PROVE c = NoCall
  <2>1. b = FALSE
    BY <1>1, <1>3 DEF NoCall
  <2>2. c.fair = FALSE
    BY <2>1 DEF CallType
  <2>3. /\ c.op = "none" /\ c.pw = None /\ c.field = "plain"
        /\ c.read = "unread"
    BY <1>1, <1>3 DEF NoCall
  <2> QED
    BY <2>2, <2>3 DEF CallType, NoCall
<1>4. ASSUME c = NoCall, ~b PROVE d = NoCall
  <2>1. ~c.fair
    BY <1>4 DEF NoCall
  <2>2. b = c.fair
    BY <1>4, <2>1 DEF CallType
  <2>3. [c EXCEPT !.fair = c.fair] = c
    BY DEF CallType
  <2> QED
    BY <1>4, <2>2, <2>3
<1>5. ASSUME c = NoCall PROVE ~c.fair
  <2>1. ~NoCall.fair
    BY DEF NoCall
  <2> QED
    BY <1>5, <2>1
<1> QED
  BY <1>1, <1>2, <1>3, <1>4, <1>5

\* Another process rewraps a key: what a call was given may be right now.
LEMMA OtherProcessKeeps ==
  ASSUME HandlesInv, OtherProcess
  PROVE  HandlesInv'
<1>1. PICK dek \in Passwords, fdek \in Passwords \cup {None} : Rewrap(dek, fdek)
  BY DEF OtherProcess, HandlesInv, HandlesTypeOK
<1>2. HandlesTypeOK /\ ~bridge.second /\ \A t \in Threads : FairAt(t)
  BY DEF HandlesInv, FairInv, FairAt, RevealedForPassword
<1>3. /\ dek_under' = dek /\ fdek_under' = fdek
      /\ UNCHANGED <<vars, handle, bridge, answer>>
  BY <1>1 DEF Rewrap
<1>4. ASSUME NEW t \in Threads PROVE call'[t] \in CallType /\ FairAt(t)'
  <2> DEFINE matches == call[t].pw = Against(t, call[t].op, dek, fdek)
  <2>1. PICK fair \in BOOLEAN :
          /\ call'[t] = [call[t] EXCEPT !.fair = fair]
          /\ fair <=> (call[t].fair \/ (~Free(t) /\ matches))
    BY <1>1 DEF Rewrap
  <2>2. call[t] \in CallType /\ FairAt(t)
    BY <1>2 DEF HandlesTypeOK
  <2>3. /\ call'[t] \in CallType /\ call'[t].fair = fair
        /\ call'[t].op = call[t].op /\ call'[t].pw = call[t].pw
        /\ call'[t].read = call[t].read
        /\ call'[t] = NoCall => call[t] = NoCall
        /\ call[t] = NoCall /\ ~fair => call'[t] = NoCall
        /\ call[t] = NoCall => ~call[t].fair
    BY <2>1, <2>2, FairCall
  <2>4. /\ Free(t)' <=> Free(t)
        /\ answer'[t] = answer[t] /\ attempt'[t] = attempt[t]
    BY <1>3, <2>1, <2>3 DEF Free, vars
  <2>5. (call[t].pw = Against(t, call[t].op, dek_under, fdek_under))' => matches
    BY <1>3, <2>3 DEF Against
  <2> HIDE DEF matches
  <2>6. FairAt(t)'
    BY <2>1, <2>2, <2>3, <2>4, <2>5 DEF FairAt
  <2> QED
    BY <2>3, <2>6
<1>5. call' \in [Threads -> CallType]
  <2>1. call' = [t \in Threads |-> call'[t]]
    BY <1>1 DEF Rewrap
  <2> QED
    BY <1>4, <2>1
<1>6. HandlesTypeOK'
  BY <1>2, <1>3, <1>5 DEF HandlesTypeOK
<1> QED
  BY <1>2, <1>3, <1>4, <1>6 DEF HandlesInv, FairInv, FairAt, RevealedForPassword

\* A step of the clock, or of nobody.
LEMMA ClockKeeps ==
  ASSUME TypeOK, HandlesInv, Tick \/ UNCHANGED vars, UNCHANGED hvars
  PROVE  HandlesInv'
<1>1. \A t \in Threads : attempt'[t].pc = attempt[t].pc
  BY DEF Tick, vars, TypeOK, AttemptType, Threads
<1>2. \A t \in Threads : FairAt(t)
  BY DEF HandlesInv, FairInv, FairAt, RevealedForPassword
<1>3. \A t \in Threads : FairAt(t)'
  BY <1>1, <1>2, Untouched DEF hvars, files
<1> QED
  BY <1>3 DEF HandlesInv, HandlesTypeOK, FairInv, FairAt, RevealedForPassword, hvars

\* At the beginning no call is under way and nothing was answered.
LEMMA HandlesInvInit == Init /\ HandlesInit => HandlesInv
<1> SUFFICES ASSUME Init, HandlesInit PROVE HandlesInv
  OBVIOUS
<1>1. Returned("none", FALSE) \in [code : Codes, fair : BOOLEAN]
  BY DEF Returned, Codes
<1>2. Verified(Opened) \in HandleType
  BY HandleRecords
<1>3. HandlesTypeOK
  <2>1. handle \in [Threads -> HandleType] /\ bridge \in HandleType
    BY <1>2, HandleRecords DEF HandlesInit
  <2>2. /\ dek_under \in Passwords /\ fdek_under \in Passwords \cup {None}
        /\ call \in [Threads -> CallType]
    BY HandleRecords DEF HandlesInit
  <2>3. answer \in [Threads -> [code : Codes, fair : BOOLEAN]]
    BY <1>1 DEF HandlesInit
  <2> QED
    BY <2>1, <2>2, <2>3 DEF HandlesTypeOK
<1>4. FairInv
  BY HandleRecords DEF Init, HandlesInit, FairInv, RevealedForPassword, Idle,
                       Returned, Free, Threads
<1> QED
  BY <1>3, <1>4 DEF HandlesInv

\* The invariant of the two interfaces.
LEMMA HandlesInvariant == HandlesSpec => []HandlesInv
<1>1. TypeOK /\ HandlesInv /\ [HandlesNext]_<<vars, hvars>> => HandlesInv'
  <2> SUFFICES ASSUME TypeOK, HandlesInv, [HandlesNext]_<<vars, hvars>>
               PROVE  HandlesInv'
    OBVIOUS
  <2>1. CASE UNCHANGED <<vars, hvars>>
    BY <2>1, ClockKeeps
  <2>2. CASE HandlesNext
    BY <2>2, CallsKeep, AnswersKeep, BridgeCallsKeep, OtherProcessKeeps,
       ClockKeeps DEF HandlesNext
  <2> QED
    BY <2>1, <2>2
<1>2. HandlesSpec => []TypeOK
  BY HandlesImplementLockout, LockoutTypeCorrect, PTL
<1> QED
  BY <1>1, <1>2, HandlesInvInit, PTL DEF HandlesSpec

\* No call of the C interface answers with a value unless it was itself given
\* the password that the second factor was under at some instant of that
\* call, and the bridge gives out no field under the FDEK, for any number of
\* threads and whoever rewraps the keys (vault_ffi/src/lib.rs:281-297).
THEOREM AlwaysRevealedForPassword == HandlesSpec => []RevealedForPassword
<1>1. HandlesInv => RevealedForPassword
  BY DEF HandlesInv, FairInv
<1> QED
  BY <1>1, HandlesInvariant, PTL

\* What holds of the lock holds behind the two interfaces: its length, the
\* counter and the backoff (lockout.rs:54-96).
THEOREM HandlesKeepTheLock ==
  HandlesSpec => [](LockBounded /\ CounterExact /\ BackoffServed)
BY HandlesImplementLockout, LockAlwaysBounded, CounterAlwaysExact,
   BackoffAlwaysServed, PTL

=============================================================================
