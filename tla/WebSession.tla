------------------------------ MODULE WebSession ------------------------------
(***************************************************************************)
(* The state that the handlers of the web server share (vault_web/src):    *)
(* the one session, with the vault that is open in it (state.rs), and the  *)
(* one email reset under way (api_reset.rs), each under a mutex of its own.*)
(*                                                                         *)
(* A handler takes a mutex several times and lets go in between: an        *)
(* authenticated request is checked by the middleware, checked again by    *)
(* with_vault, and then takes the session for its work.  unlock derives    *)
(* its key before it takes the mutex; recover and reset rewrite the file   *)
(* without it and drop the session afterwards.                             *)
(*                                                                         *)
(* Requests that are turned away without a change are left out.  Time is   *)
(* the age of the session, of the email reset and of each request.         *)
(***************************************************************************)
EXTENDS Naturals

CONSTANTS
  Requests,     \* bound: requests handled at a time
  Tokens,       \* session tokens
  ResetTokens,  \* tokens of email resets
  None,         \* no session, no reset, no token
  IdleTimeout,  \* idle_timeout_secs, in units of time; not 0
  ResetTtl,     \* RECOVERY_TOKEN_TTL_MS, in units of time
  MaxAge        \* bound: the longest a request takes, in units of time

ASSUME WebAssumption ==
  /\ None \notin Tokens \cup ResetTokens
  /\ IdleTimeout \in Nat \ {0} /\ ResetTtl \in Nat /\ MaxAge \in Nat

VARIABLES
  session,  \* AppState.session: token, time since the last activity, and
            \* whether the password it was opened with was reset since
  slot,     \* AppState.recovery: token and age of the email reset
  request,  \* per request, the step it is at
  spent,    \* per reset token, the resets done with it
  alone     \* no request has begun while another was handled

vars == <<session, slot, request, spent, alone>>

NoSession == [token |-> None, idle |-> 0, stale |-> FALSE]
NoReset   == [token |-> None, age |-> 0]
Done      == [pc |-> "done", token |-> None, age |-> 0, stale |-> FALSE]

SessionType == [token : Tokens \cup {None}, idle : 0 .. IdleTimeout + MaxAge + 1,
                stale : BOOLEAN]
SlotType    == [token : ResetTokens \cup {None}, age : 0 .. ResetTtl + 1]
RequestType == [pc : {"done", "enter", "use", "unlocked", "rewrapped", "taken",
                      "applied", "cleared"},
                token : Tokens \cup ResetTokens \cup {None},
                age : 0 .. MaxAge, stale : BOOLEAN]

AtMost(n, bound) == IF n < bound THEN n ELSE bound
Expired == session.idle > IdleTimeout

\* Tokens are random: a new one is not in use.
Fresh(tokens, current) ==
  {t \in tokens \ {current} : \A a \in Requests : request[a].token # t}

NoteOverlap(a) ==
  alone' = (alone /\ \A b \in Requests \ {a} : request[b].pc = "done")

Start(a, pc, t) ==
  /\ request[a].pc = "done"
  /\ NoteOverlap(a)
  /\ request' = [request EXCEPT ![a] = [pc |-> pc, token |-> t, age |-> 0,
                                        stale |-> FALSE]]
Step(a, from, to) ==
  /\ request[a].pc = from
  /\ request' = [request EXCEPT ![a].pc = to]
End(a, from) ==
  /\ request[a].pc = from
  /\ request' = [request EXCEPT ![a] = Done]

Touched == [token |-> session.token, idle |-> 0, stale |-> session.stale]

-----------------------------------------------------------------------------
(* Authenticated requests.                                                 *)

\* Mutant of Enter: an idle session is let in.
EnterUnchecked(a) ==
  /\ session.token # None
  /\ Start(a, "enter", session.token)
  /\ session' = Touched
  /\ UNCHANGED <<slot, spent>>

\* require_session lets in a request with the token of the session, and
\* notes the activity ...
Enter(a) ==
  /\ session.token # None /\ ~Expired
  /\ Start(a, "enter", session.token)
  /\ session' = Touched
  /\ UNCHANGED <<slot, spent>>

\* Mutant of EnterExpired: the token is dropped, and nothing else.
EnterExpiredHalf(a) ==
  /\ request[a].pc = "done"
  /\ session.token # None /\ Expired
  /\ session' = [session EXCEPT !.token = None]
  /\ UNCHANGED <<slot, request, spent, alone>>

\* ... and drops a session that was idle for too long.
EnterExpired(a) ==
  /\ request[a].pc = "done"
  /\ session.token # None /\ Expired
  /\ session' = NoSession
  /\ UNCHANGED <<slot, request, spent, alone>>

\* Mutant of Check: the activity is not noted.
CheckUntouched(a) ==
  /\ request[a].pc = "enter"
  /\ session.token = request[a].token /\ ~Expired
  /\ request' = [request EXCEPT ![a] = [pc |-> "use", token |-> session.token,
                                        age |-> 0, stale |-> FALSE]]
  /\ UNCHANGED <<session, slot, spent, alone>>

\* check_and_touch once more, in with_vault and with_second_factor.  (The age
\* of the request counts from here on.)
Check(a) ==
  /\ request[a].pc = "enter"
  /\ session.token = request[a].token /\ ~Expired
  /\ session' = Touched
  /\ request' = [request EXCEPT ![a] = [pc |-> "use", token |-> session.token,
                                        age |-> 0, stale |-> FALSE]]
  /\ UNCHANGED <<slot, spent, alone>>

CheckFails(a) ==
  /\ End(a, "enter")
  /\ session.token # request[a].token \/ Expired
  /\ session' = IF session.token = request[a].token THEN NoSession ELSE session
  /\ UNCHANGED <<slot, spent, alone>>

\* The work is done on whatever session there is by now, under its mutex; no
\* session is an error.
Use(a) ==
  /\ End(a, "use")
  /\ UNCHANGED <<session, slot, spent, alone>>

\* lock compares the token again.
Lock(a) ==
  /\ End(a, "enter")
  /\ session' = IF session.token = request[a].token THEN NoSession ELSE session
  /\ UNCHANGED <<slot, spent, alone>>

-----------------------------------------------------------------------------
(* unlock and recover.                                                     *)

\* The password is right and the vault open.
UnlockVerify(a) ==
  /\ Start(a, "unlocked", None)
  /\ UNCHANGED <<session, slot, spent>>

\* The session is replaced, whatever it was.
UnlockInstall(a) ==
  /\ End(a, "unlocked")
  /\ \E t \in Fresh(Tokens, session.token) :
       session' = [token |-> t, idle |-> 0, stale |-> request[a].stale]
  /\ UNCHANGED <<slot, spent, alone>>

\* What a reset of the password makes of the vaults that are open.
Rewrapped(a, pc, t) ==
  /\ request' = [b \in Requests |->
       IF b = a THEN [pc |-> pc, token |-> t, age |-> request[a].age,
                      stale |-> FALSE]
       ELSE [request[b] EXCEPT !.stale = request[b].pc = "unlocked"]]
  /\ session' = [session EXCEPT !.stale = session.token # None]

RecoverRewrap(a) ==
  /\ request[a].pc = "done"
  /\ NoteOverlap(a)
  /\ Rewrapped(a, "rewrapped", None)
  /\ UNCHANGED <<slot, spent>>

RecoverClear(a) ==
  /\ End(a, "rewrapped")
  /\ session' = NoSession
  /\ UNCHANGED <<slot, spent, alone>>

-----------------------------------------------------------------------------
(* The email reset.                                                        *)

\* verify_code got a kit for the code: it replaces the reset under way.
VerifyCode ==
  /\ \E t \in Fresh(ResetTokens, slot.token) :
       /\ slot' = [token |-> t, age |-> 0]
       /\ spent' = [spent EXCEPT ![t] = 0]
  /\ UNCHANGED <<session, request, alone>>

\* reset checks the token and copies the kit.
ResetTake(a) ==
  /\ slot.token # None /\ slot.age <= ResetTtl
  /\ Start(a, "taken", slot.token)
  /\ UNCHANGED <<session, slot, spent>>

ResetExpired ==
  /\ slot.token # None /\ slot.age > ResetTtl
  /\ slot' = NoReset
  /\ UNCHANGED <<session, request, spent, alone>>

\* A wrong recovery key, or an error of the file: the token stays good.  (What a
\* rewrap that stops half way leaves in the file is in module VaultKeys.)
ResetFails(a) ==
  /\ End(a, "taken")
  /\ UNCHANGED <<session, slot, spent, alone>>

ResetApply(a) ==
  /\ request[a].pc = "taken"
  /\ Rewrapped(a, "applied", request[a].token)
  /\ spent' = [spent EXCEPT ![request[a].token] = AtMost(@ + 1, 2)]
  /\ UNCHANGED <<slot, alone>>

\* Mutant of ResetClearSlot: the token stays.
ResetKeepsSlot(a) ==
  /\ Step(a, "applied", "cleared")
  /\ UNCHANGED <<session, slot, spent, alone>>

\* The reset under way is dropped, whichever it is by now ...
ResetClearSlot(a) ==
  /\ Step(a, "applied", "cleared")
  /\ slot' = NoReset
  /\ UNCHANGED <<session, spent, alone>>

\* Mutant of ResetClearSession: the session is kept.
ResetKeepsSession(a) ==
  /\ End(a, "cleared")
  /\ UNCHANGED <<session, slot, spent, alone>>

\* ... and then the session.
ResetClearSession(a) ==
  /\ End(a, "cleared")
  /\ session' = NoSession
  /\ UNCHANGED <<slot, spent, alone>>

-----------------------------------------------------------------------------
\* A new process knows no session and no reset.
Restart ==
  /\ session' = NoSession /\ slot' = NoReset
  /\ request' = [a \in Requests |-> Done]
  /\ UNCHANGED <<spent, alone>>

Tick ==
  /\ \A a \in Requests : request[a].pc # "done" => request[a].age < MaxAge
  /\ session' = IF session.token = None THEN session
                ELSE [session EXCEPT !.idle =
                        AtMost(session.idle + 1, IdleTimeout + MaxAge + 1)]
  /\ slot' = IF slot.token = None THEN slot
             ELSE [slot EXCEPT !.age = AtMost(slot.age + 1, ResetTtl + 1)]
  /\ request' = [a \in Requests |->
                   IF request[a].pc = "done" THEN request[a]
                   ELSE [request[a] EXCEPT !.age = request[a].age + 1]]
  /\ UNCHANGED <<spent, alone>>

Init ==
  /\ session = NoSession /\ slot = NoReset
  /\ request = [a \in Requests |-> Done]
  /\ spent = [t \in ResetTokens |-> 0]
  /\ alone = TRUE

Authenticated(a) ==
  Enter(a) \/ EnterExpired(a) \/ Check(a) \/ CheckFails(a) \/ Use(a) \/ Lock(a)

Password(a) ==
  UnlockVerify(a) \/ UnlockInstall(a) \/ RecoverRewrap(a) \/ RecoverClear(a)

Reset(a) ==
  \/ ResetTake(a) \/ ResetFails(a) \/ ResetApply(a)
  \/ ResetClearSlot(a) \/ ResetClearSession(a)

Next ==
  \/ \E a \in Requests : Authenticated(a) \/ Password(a) \/ Reset(a)
  \/ VerifyCode \/ ResetExpired
  \/ Restart
  \/ Tick

Spec == Init /\ [][Next]_vars

-----------------------------------------------------------------------------
(* Properties.                                                             *)

TypeOK ==
  /\ session \in SessionType /\ slot \in SlotType
  /\ session.token = None => session = NoSession
  /\ slot.token = None => slot = NoReset
  /\ request \in [Requests -> RequestType]
  /\ \A a \in Requests :
       /\ request[a].pc = "enter" => request[a].token \in Tokens
       /\ request[a].pc = "taken" => request[a].token \in ResetTokens
  /\ spent \in [ResetTokens -> 0 .. 2]
  /\ alone \in BOOLEAN

\* Work is never done in a session that was idle for longer than the request
\* that does it has been at it: who gets through both checks has touched the
\* session, whatever the others did in between (state.rs:212-253).
UseIsActive ==
  \A a \in Requests :
    request[a].pc = "use" /\ session.token # None =>
      session.idle <= request[a].age

\* A session that was idle for too long is not taken up again: no race
\* between requests revives it (state.rs:219-235).
ExpiredStaysExpired ==
  [][Expired => \/ session'.token # session.token
                \/ session'.idle >= session.idle]_vars

\* When no reset is under way, no session is open that was opened with a
\* password from before the last one (api.rs:232-243, api_reset.rs:211-236).
SessionsEnd ==
  (\A a \in Requests : request[a].pc \notin {"rewrapped", "applied", "cleared"})
    => ~session.stale

\* However requests overlap, one thing alone puts a session with a password from
\* before a reset in place, or leaves it there when the last reset under way
\* ends: an unlock that had verified the password before the reset installs its
\* session (api.rs:203-209, 232-243, api_reset.rs:211-236).
LateUnlock == \E a \in Requests : UnlockInstall(a) /\ request[a].stale
ResetEndsSessions == [][SessionsEnd /\ ~LateUnlock => SessionsEnd']_vars

\* The token of an email reset resets once, as long as no two requests
\* overlap, whatever fails, expires or is verified anew in between
\* (api_reset.rs:181-236).
TokenOnce == alone => \A t \in ResetTokens : spent[t] <= 1

=============================================================================
