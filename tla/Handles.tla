------------------------------- MODULE Handles -------------------------------
(***************************************************************************)
(* The vault behind a mobile application: the C interface (vault_ffi),     *)
(* with a handle per thread, and the JNI bridge (mobile/vault_jni), with   *)
(* one vault for the process behind a mutex.                               *)
(* Every call that takes a master password is an attempt of module         *)
(* Lockout, which this module extends: a thread is an actor there, and     *)
(* what the call checks the password against is read between the lock's    *)
(* check and its answer.  Other processes change the two wraps, one        *)
(* statement at a time (module VaultKeys).  What a handle is used for      *)
(* besides is in Accounts and Reads: here its calls only have an outcome.  *)
(***************************************************************************)
EXTENDS Lockout

CONSTANTS Passwords, None

ASSUME HandlesAssumption == None \notin Passwords

VARIABLES
  dek_under,   \* the password the wrap of the DEK opens with
  fdek_under,  \* the one the wrap of the FDEK opens with; None: no FDEK
  handle,      \* per thread, the FuxiHandle
  bridge,      \* VAULT of the JNI bridge
  call,        \* per thread, the call under way that takes a password
  answer       \* per thread, what its last call returned

hvars == <<dek_under, fdek_under, handle, bridge, call, answer>>
files == <<dek_under, fdek_under>>

Threads == Actors
Fields == {"plain", "sensitive"}
\* A FuxiHandle: has_fdek as read at unlock, and whether the FDEK is cached.
Closed == [open |-> FALSE, has |-> FALSE, second |-> FALSE]
NoCall == [op |-> "none", pw |-> None, field |-> "plain", read |-> "unread",
           fair |-> FALSE]
\* fair: the password given was right at some instant of the call.
Returned(code, fair) == [code |-> code, fair |-> fair]

\* The password a call of t is checked against: that of the wrap of the FDEK
\* for the second factor of a handle that has one, that of the DEK otherwise.
Against(t, op, dek, fdek) ==
  IF op \notin {"unlock", "bridge"} /\ handle[t].has THEN fdek ELSE dek

\* open_secret: sensitive fields are under the FDEK as soon as there is one.
Opens(h, field) ==
  \/ field = "plain"
  \/ IF h.has THEN h.second ELSE fdek_under = None

-----------------------------------------------------------------------------
Return(t, code, fair) ==
  answer' = [answer EXCEPT ![t] = Returned(code, fair)]

Done(t) == call' = [call EXCEPT ![t] = NoCall]
Free(t) == call[t] = NoCall

Enter(t, op, pw, field) ==
  /\ Free(t)
  /\ Begin(t)
  /\ call' = [call EXCEPT ![t] =
                [op |-> op, pw |-> pw, field |-> field, read |-> "unread",
                 fair |-> pw = Against(t, op, dek_under, fdek_under)]]
  /\ answer' = [answer EXCEPT ![t] = Returned("none", FALSE)]
  /\ UNCHANGED <<files, handle, bridge>>

\* fuxipass_unlock, with the thread's handle not in use.
Unlock(t, pw) == ~handle[t].open /\ Enter(t, "unlock", pw, "plain")

UnlockSecondFactor(t, pw) ==
  handle[t].open /\ Enter(t, "second_factor", pw, "plain")

RevealSecret(t, pw, field) == handle[t].open /\ Enter(t, "reveal", pw, field)

BridgeUnlock(t, pw) == Enter(t, "bridge", pw, "plain")

\* A call with a password, inside a lock.
TurnedAway(t) ==
  /\ Free(t) /\ Locked
  /\ Return(t, "TOO_MANY_ATTEMPTS", FALSE)
  /\ UNCHANGED <<vars, files, handle, bridge, call>>

\* A NULL pointer, no UTF-8, JSON that does not parse, a field type unknown:
\* refused before the vault is looked at.
Misused(t) ==
  /\ Free(t)
  /\ Return(t, "BAD_REQUEST", FALSE)
  /\ UNCHANGED <<vars, files, handle, bridge, call>>

\* The row with the wrap is read, before the derivation.
ReadWrap(t) ==
  /\ attempt[t].pc = "derive" /\ call[t].read = "unread"
  /\ call' = [call EXCEPT ![t].read =
                IF call[t].pw = Against(t, call[t].op, dek_under, fdek_under)
                  THEN "right" ELSE "wrong"]
  /\ UNCHANGED <<vars, files, handle, bridge, answer>>

Opened == [open |-> TRUE, has |-> fdek_under # None, second |-> FALSE]
\* What unlock_second_factor leaves in the handle: compatible mode, none.
Verified(h) == [h EXCEPT !.second = h.has]

\* The password was right.  The bridge puts its new vault in place of
\* whatever is there by now.
Accepted(t) ==
  /\ call[t].read = "right"
  /\ Succeed(t)
  /\ CASE call[t].op = "unlock" ->
            /\ handle' = [handle EXCEPT ![t] = Opened]
            /\ Done(t) /\ Return(t, "ok", FALSE) /\ UNCHANGED bridge
       [] call[t].op = "bridge" ->
            /\ bridge' = Opened
            /\ Done(t) /\ UNCHANGED <<handle, answer>>
       [] call[t].op = "second_factor" ->
            /\ handle' = [handle EXCEPT ![t] = Verified(handle[t])]
            /\ Done(t) /\ Return(t, "ok", FALSE) /\ UNCHANGED bridge
       [] OTHER ->
            /\ handle' = [handle EXCEPT ![t] = Verified(handle[t])]
            /\ call' = [call EXCEPT ![t].read = "verified"]
            /\ UNCHANGED <<bridge, answer>>
  /\ UNCHANGED files

Rejected(t) ==
  /\ call[t].read = "wrong"
  /\ ReadCounter(t)
  /\ UNCHANGED hvars

\* What a wrong password is answered with, unless it started a lock.
WrongCode(op) ==
  CASE op = "unlock" -> "BAD_REQUEST"
    [] op = "second_factor" -> "WRONG"
    [] OTHER -> "UNAUTHORIZED"

\* Mutant of Counted: reveal does not look at what the second factor said.
CountedUnverified(t) ==
  /\ WriteCounter(t)
  /\ IF call[t].op = "bridge" THEN UNCHANGED answer /\ Done(t)
     ELSE IF failed_attempts' >= LockThreshold
       THEN Return(t, "TOO_MANY_ATTEMPTS", FALSE) /\ Done(t)
     ELSE IF call[t].op = "reveal"
       THEN /\ call' = [call EXCEPT ![t].read = "verified"]
            /\ UNCHANGED answer
     ELSE Return(t, WrongCode(call[t].op), FALSE) /\ Done(t)
  /\ UNCHANGED <<files, handle, bridge>>

Counted(t) ==
  /\ WriteCounter(t)
  /\ Done(t)
  /\ IF call[t].op = "bridge" THEN UNCHANGED answer
     ELSE Return(t, IF failed_attempts' >= LockThreshold
                      THEN "TOO_MANY_ATTEMPTS" ELSE WrongCode(call[t].op), FALSE)
  /\ UNCHANGED <<files, handle, bridge>>

\* A statement fails, or the call panics: guard turns both into INTERNAL.  The
\* FDEK stays cached if it is the reset of the counter that fails.
Fails(t) ==
  /\ Abort(t)
  /\ Done(t)
  /\ IF call[t].op = "bridge" THEN UNCHANGED answer
     ELSE Return(t, "INTERNAL", FALSE)
  /\ \/ UNCHANGED handle
     \/ /\ call[t].read = "right" /\ call[t].op \in {"second_factor", "reveal"}
        /\ handle' = [handle EXCEPT ![t] = Verified(handle[t])]
  /\ UNCHANGED <<files, bridge>>

\* The rest of fuxipass_reveal_secret: the account or the field may be gone.
Lookup(t) ==
  /\ call[t].read = "verified"
  /\ \/ Return(t, "NOT_FOUND", FALSE)
     \/ Return(t, IF Opens(handle[t], call[t].field) THEN "value" ELSE "INTERNAL",
               call[t].fair)
  /\ Done(t)
  /\ UNCHANGED <<vars, files, handle, bridge>>

Outcome(t, codes) ==
  /\ Free(t)
  /\ \E code \in codes : Return(t, code, FALSE)
  /\ UNCHANGED <<vars, files, handle, bridge, call>>

\* The calls without a password: list and get, ...
ReadAccounts(t) == handle[t].open /\ Outcome(t, {"ok", "NOT_FOUND", "INTERNAL"})
\* ... create, update and delete, and lock_status, which needs no handle.
WriteAccount(t) == handle[t].open /\ Outcome(t, {"ok", "NOT_FOUND", "INTERNAL"})
LockStatus(t) == Outcome(t, {"ok", "INTERNAL"})

\* fuxipass_lock drops the vault, and with it the cached FDEK.
Lock(t) ==
  /\ Free(t) /\ handle[t].open
  /\ handle' = [handle EXCEPT ![t] = Closed]
  /\ UNCHANGED <<vars, files, bridge, call, answer>>

BridgeLock ==
  /\ bridge' = Closed
  /\ UNCHANGED <<vars, files, handle, call, answer>>

\* Its list, create and delete.
BridgeWork(t) == Outcome(t, IF bridge.open THEN {"ok", "error"} ELSE {"error"})

\* The bridge's reveal asks for no password, and no call of it caches the FDEK.
BridgeReveal(t, field) ==
  /\ Free(t) /\ bridge.open
  /\ Opens(bridge, field)
  /\ answer' = [answer EXCEPT ![t] =
                  Returned("value", field = "plain" \/ ~bridge.has)]
  /\ UNCHANGED <<vars, files, handle, bridge, call>>

\* Another process rewraps the DEK, rewraps the FDEK, or enables one.
Rewrap(dek, fdek) ==
  /\ dek_under' = dek /\ fdek_under' = fdek
  /\ call' = [t \in Threads |-> [call[t] EXCEPT !.fair =
                @ \/ (~Free(t) /\ call[t].pw = Against(t, call[t].op, dek, fdek))]]
  /\ UNCHANGED <<vars, handle, bridge, answer>>

-----------------------------------------------------------------------------
\* Of a thread that has a handle, it was opened before.
HandlesInit ==
  /\ dek_under \in Passwords /\ fdek_under \in {dek_under, None}
  /\ handle \in [Threads -> {Closed, Opened, Verified(Opened)}]
  /\ bridge = Closed
  /\ call = [t \in Threads |-> NoCall]
  /\ answer = [t \in Threads |-> Returned("none", FALSE)]

\* A call that has begun ends: see FairSpec of Lockout.
Answers(t) == ReadWrap(t) \/ Accepted(t) \/ Rejected(t) \/ Counted(t) \/ Fails(t)

Calls(t) ==
  \/ \E pw \in Passwords : Unlock(t, pw) \/ UnlockSecondFactor(t, pw)
  \/ \E pw \in Passwords, field \in Fields : RevealSecret(t, pw, field)
  \/ TurnedAway(t) \/ Misused(t) \/ Lookup(t)
  \/ ReadAccounts(t) \/ WriteAccount(t) \/ LockStatus(t) \/ Lock(t)

BridgeCalls(t) ==
  \/ \E pw \in Passwords : BridgeUnlock(t, pw)
  \/ \E field \in Fields : BridgeReveal(t, field)
  \/ BridgeLock \/ BridgeWork(t)

OtherProcess ==
  \E pw \in Passwords :
    \/ Rewrap(pw, fdek_under)
    \/ fdek_under # pw /\ Rewrap(dek_under, pw)

HandlesNext ==
  \/ \E t \in Threads : Calls(t) \/ Answers(t) \/ BridgeCalls(t)
  \/ OtherProcess
  \/ Tick /\ UNCHANGED hvars

HandlesSpec == Init /\ HandlesInit /\ [][HandlesNext]_<<vars, hvars>>

-----------------------------------------------------------------------------
(* Properties.                                                             *)

\* A C call that answers with a field's value was given the password that the
\* second factor was under at some instant of that very call, whatever had
\* been verified before on the handle, and whoever rewrapped the keys
\* meanwhile; the bridge, which asks for none, gives out no field under the
\* FDEK (vault_ffi/src/lib.rs:281-297, vault.rs:65-102).
RevealedForPassword ==
  \A t \in Threads : answer[t].code = "value" => answer[t].fair

-----------------------------------------------------------------------------
(* Inductive strengthenings, proved in LockoutProofs.                      *)

HandleType == [open : BOOLEAN, has : BOOLEAN, second : BOOLEAN]
CallType == [op : {"none", "unlock", "second_factor", "reveal", "bridge"},
             pw : Passwords \cup {None}, field : Fields,
             read : {"unread", "right", "wrong", "verified"}, fair : BOOLEAN]
Codes == {"none", "ok", "error", "value", "TOO_MANY_ATTEMPTS", "BAD_REQUEST",
          "UNAUTHORIZED", "WRONG", "INTERNAL", "NOT_FOUND"}

HandlesTypeOK ==
  /\ dek_under \in Passwords /\ fdek_under \in Passwords \cup {None}
  /\ handle \in [Threads -> HandleType] /\ bridge \in HandleType
  /\ call \in [Threads -> CallType]
  /\ answer \in [Threads -> [code : Codes, fair : BOOLEAN]]

\* A call whose password is right now, was when it read the wrap, or was
\* verified, is fair; every attempt is of a call, and is over once the password
\* is verified; and the bridge never holds the FDEK.
FairInv ==
  /\ RevealedForPassword
  /\ ~bridge.second
  /\ \A t \in Threads :
       /\ attempt[t].pc # "idle" => ~Free(t) /\ call[t].read # "verified"
       /\ ~Free(t) /\ call[t].pw = Against(t, call[t].op, dek_under, fdek_under)
            => call[t].fair
       /\ call[t].read \in {"right", "verified"} => call[t].fair
=============================================================================
