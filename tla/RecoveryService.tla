--------------------------- MODULE RecoveryService ---------------------------
(***************************************************************************)
(* The recovery service (recovery_service/src/lib.rs, store.rs): it keeps  *)
(* a recovery kit per contact, mails a code to the contact on demand and   *)
(* hands the kit out for the code, and once more for the token that comes  *)
(* with it.                                                                *)
(*                                                                         *)
(* Bindings are in a database; codes, tokens and the log of the rate limit *)
(* are in memory under one mutex, and go with the process.  challenge      *)
(* takes that mutex twice, and mails in between, so it is three steps;     *)
(* verify and redeem hold it throughout.                                   *)
(*                                                                         *)
(* A request id stands for one run of challenge, its code and its token.   *)
(* Ids are random and new in the code; here an id of which nothing is left *)
(* but entries that no call can use any more (the code never drops them)   *)
(* is taken again.  Time is kept as the age of each request and token, up  *)
(* to the first age at which nothing depends on it.                        *)
(***************************************************************************)
EXTENDS Naturals, FiniteSets

CONSTANTS
  Contacts,      \* hashes of contacts
  Kits,          \* recovery kits (ciphertext)
  Requests,      \* bound: request ids in use at once
  None,          \* no binding
  CodeTtl,       \* CODE_TTL_SECS, in units of time
  TokenTtl,      \* TOKEN_TTL_SECS, in units of time
  Window,        \* CHALLENGE_WINDOW_SECS, in units of time
  MaxChallenges, \* MAX_CHALLENGES_PER_WINDOW
  MaxAttempts    \* MAX_VERIFY_ATTEMPTS

ASSUME ServiceAssumption ==
  /\ None \notin Kits /\ IsFiniteSet(Requests)
  /\ CodeTtl \in Nat /\ TokenTtl \in Nat /\ Window \in Nat
  /\ CodeTtl <= Window
  /\ MaxChallenges \in Nat /\ MaxAttempts \in Nat

VARIABLES
  binding,   \* the bindings table
  req,       \* per request, its challenge run and its code
  token,     \* per request, the token issued for its code
  log,       \* challenge_log: per contact, the requests counted
  mailbox,   \* requests whose code was delivered to the contact
  handed     \* per request, wrong answers and kits handed out for its code
             \* and its token, and whether one was after its time

vars == <<binding, req, token, log, mailbox, handed>>

NoReq   == [stage |-> "free", contact |-> None, age |-> 0, attempts |-> 0]
NoToken == [state |-> "none", age |-> 0]
NoHandout == [wrong |-> 0, verify |-> 0, redeem |-> 0, late |-> FALSE]

Stages == {"free", "counted", "mailed", "open", "gone"}
ReqType == [stage : Stages, contact : Contacts \cup {None},
            age : 0 .. Window + 1, attempts : 0 .. MaxAttempts]
TokenType == [state : {"none", "live", "used"}, age : 0 .. TokenTtl + 1]
HandoutType == [wrong : 0 .. MaxAttempts + 1, verify : 0 .. 2, redeem : 0 .. 2,
                late : BOOLEAN]

AtMost(n, bound) == IF n < bound THEN n ELSE bound
Put(r, stage) == req' = [req EXCEPT ![r].stage = stage]

\* Bookkeeping of the answers to a request.
WrongAnswer(r) ==
  handed' = [handed EXCEPT
               ![r].wrong = AtMost(handed[r].wrong + 1, MaxAttempts + 1)]

HandOut(r, verify, redeem, late) ==
  handed' = [handed EXCEPT ![r] =
    [wrong  |-> handed[r].wrong,
     verify |-> AtMost(handed[r].verify + verify, 2),
     redeem |-> AtMost(handed[r].redeem + redeem, 2),
     late   |-> handed[r].late \/ late]]

CodeExpired(r) == req[r].age > CodeTtl
TokenValid(r) == token[r].state = "live" /\ token[r].age <= TokenTtl

\* Nothing depends on the request any more.
Dead(r) ==
  \/ req[r].stage = "free"
  \/ /\ req[r].age > Window
     /\ req[r].stage \in {"open", "gone"}
     /\ ~TokenValid(r)

-----------------------------------------------------------------------------
(* bind: an upsert.  One that fails leaves the table as it was.            *)

\* Mutant of Bind: a contact that is bound keeps the kit it has.
BindFirst(c, k) ==
  /\ binding' = [binding EXCEPT ![c] = IF @ = None THEN k ELSE @]
  /\ UNCHANGED <<req, token, log, mailbox, handed>>

Bind(c, k) ==
  /\ binding' = [binding EXCEPT ![c] = k]
  /\ UNCHANGED <<req, token, log, mailbox, handed>>

-----------------------------------------------------------------------------
(* challenge.                                                              *)

\* Mutants of InWindow: a request as old as the window does not count; the
\* log is never pruned.
InWindowStrict(r) == req[r].age < Window
InWindowAlways(r) == TRUE

\* What log.retain keeps.
InWindow(r) == req[r].age <= Window
Counted(c) == {r \in log[c] : InWindow(r)}

Count(r, c) ==
  /\ Dead(r)
  /\ Cardinality(Counted(c)) < MaxChallenges
  /\ log' = [d \in Contacts |-> IF d = c THEN Counted(c) \cup {r}
                                         ELSE log[d] \ {r}]
  /\ req' = [req EXCEPT ![r] = [stage |-> "counted", contact |-> c,
                                age |-> 0, attempts |-> 0]]
  /\ token' = [token EXCEPT ![r] = NoToken]
  /\ handed' = [handed EXCEPT ![r] = NoHandout]
  /\ mailbox' = mailbox \ {r}
  /\ UNCHANGED binding

\* RateLimited: the log is pruned, and the refused request does not count.
Refuse(c) ==
  /\ Cardinality(Counted(c)) >= MaxChallenges
  /\ log' = [log EXCEPT ![c] = Counted(c)]
  /\ UNCHANGED <<binding, req, token, mailbox, handed>>

\* Only a bound contact is sent its code.
Mail(r) ==
  /\ req[r].stage = "counted"
  /\ Put(r, "mailed")
  /\ mailbox' = IF binding[req[r].contact] = None THEN mailbox
                                                  ELSE mailbox \cup {r}
  /\ UNCHANGED <<binding, token, log, handed>>

\* The store or the mail server fails: the request ends, but has counted.
MailFails(r) ==
  /\ req[r].stage = "counted"
  /\ Put(r, "gone")
  /\ UNCHANGED <<binding, token, log, mailbox, handed>>

Register(r) ==
  /\ req[r].stage = "mailed"
  /\ Put(r, "open")
  /\ UNCHANGED <<binding, token, log, mailbox, handed>>

-----------------------------------------------------------------------------
(* verify.  Calls that find no challenge change nothing.                   *)

VerifyRefused(r) ==
  /\ req[r].stage = "open"
  /\ CodeExpired(r) \/ req[r].attempts >= MaxAttempts
  /\ Put(r, "gone")
  /\ UNCHANGED <<binding, token, log, mailbox, handed>>

\* Mutant of MayAnswer: the wrong answers are not limited.
MayAnswerUnlimited(r) == req[r].stage = "open" /\ ~CodeExpired(r)

MayAnswer(r) ==
  /\ req[r].stage = "open"
  /\ ~CodeExpired(r)
  /\ req[r].attempts < MaxAttempts

VerifyWrong(r) ==
  /\ MayAnswer(r)
  /\ req' = [req EXCEPT ![r].attempts = req[r].attempts + 1]
  /\ WrongAnswer(r)
  /\ UNCHANGED <<binding, token, log, mailbox>>

\* Mutant of Verify: the code is not used up.
VerifyKeepsCode(r) ==
  /\ MayAnswer(r)
  /\ r \in mailbox
  /\ binding[req[r].contact] # None
  /\ token' = [token EXCEPT ![r] = [state |-> "live", age |-> 0]]
  /\ HandOut(r, 1, 0, req[r].age > CodeTtl)
  /\ UNCHANGED <<binding, req, log, mailbox>>

\* The code is used up before the binding is read.  Who answers right has
\* read the mail.
Verify(r) ==
  /\ MayAnswer(r)
  /\ r \in mailbox
  /\ binding[req[r].contact] # None
  /\ Put(r, "gone")
  /\ token' = [token EXCEPT ![r] = [state |-> "live", age |-> 0]]
  /\ HandOut(r, 1, 0, req[r].age > CodeTtl)
  /\ UNCHANGED <<binding, log, mailbox>>

\* The store fails: the code is gone and nothing was handed out.
VerifyFails(r) ==
  /\ MayAnswer(r)
  /\ r \in mailbox
  /\ Put(r, "gone")
  /\ UNCHANGED <<binding, token, log, mailbox, handed>>

-----------------------------------------------------------------------------
(* redeem.                                                                 *)

Redeem(r) ==
  /\ TokenValid(r)
  /\ token' = [token EXCEPT ![r].state = "used"]
  /\ HandOut(r, 0, 1, req[r].age > CodeTtl + TokenTtl)
  /\ UNCHANGED <<binding, req, log, mailbox>>

\* The store fails: the token is used all the same.
RedeemFails(r) ==
  /\ TokenValid(r)
  /\ token' = [token EXCEPT ![r].state = "used"]
  /\ UNCHANGED <<binding, req, log, mailbox, handed>>

-----------------------------------------------------------------------------
\* A new process: the bindings are there, everything else is gone.
Restart ==
  /\ req' = [r \in Requests |-> NoReq]
  /\ token' = [r \in Requests |-> NoToken]
  /\ log' = [c \in Contacts |-> {}]
  /\ handed' = [r \in Requests |-> NoHandout]
  /\ mailbox' = {}
  /\ UNCHANGED binding

Tick ==
  /\ req' = [r \in Requests |->
               IF req[r].stage = "free" THEN req[r]
               ELSE [req[r] EXCEPT !.age = AtMost(req[r].age + 1, Window + 1)]]
  /\ token' = [r \in Requests |->
                 IF token[r].state = "none" THEN token[r]
                 ELSE [token[r] EXCEPT
                         !.age = AtMost(token[r].age + 1, TokenTtl + 1)]]
  /\ UNCHANGED <<binding, log, mailbox, handed>>

-----------------------------------------------------------------------------
Init ==
  /\ binding = [c \in Contacts |-> None]
  /\ req = [r \in Requests |-> NoReq]
  /\ token = [r \in Requests |-> NoToken]
  /\ log = [c \in Contacts |-> {}]
  /\ mailbox = {}
  /\ handed = [r \in Requests |-> NoHandout]

Challenge ==
  \/ \E c \in Contacts : Refuse(c) \/ \E r \in Requests : Count(r, c)
  \/ \E r \in Requests : Mail(r) \/ MailFails(r) \/ Register(r)

Answer(r) ==
  \/ VerifyRefused(r) \/ VerifyWrong(r) \/ Verify(r) \/ VerifyFails(r)
  \/ Redeem(r) \/ RedeemFails(r)

Next ==
  \/ \E c \in Contacts, k \in Kits : Bind(c, k)
  \/ Challenge
  \/ \E r \in Requests : Answer(r)
  \/ Restart
  \/ Tick

Spec == Init /\ [][Next]_vars

\* Time passes; nothing else is assumed of clients or of the process.
FairSpec == Spec /\ WF_vars(Tick)

-----------------------------------------------------------------------------
(* Properties.                                                             *)

TypeOK ==
  /\ binding \in [Contacts -> Kits \cup {None}]
  /\ req \in [Requests -> ReqType]
  /\ token \in [Requests -> TokenType]
  /\ log \in [Contacts -> SUBSET Requests]
  /\ mailbox \in SUBSET Requests
  /\ handed \in [Requests -> HandoutType]

\* In no window of time does one process start more than MaxChallenges codes
\* for a contact, however its requests interleave and fail (lib.rs:212-226).
Recent(c) == {r \in Requests : /\ req[r].stage # "free"
                               /\ req[r].contact = c
                               /\ req[r].age <= Window}
QuotaHolds == \A c \in Contacts : Cardinality(Recent(c)) <= MaxChallenges

\* A kit leaves the service only for a code that was mailed to the contact,
\* was answered in its time within the allowed number of tries, and at most
\* once for the code and once for its token, whatever fails or expires in
\* between (lib.rs:262-325).
KitOnlyForCode ==
  \A r \in Requests :
    /\ handed[r].verify <= 1 /\ handed[r].redeem <= handed[r].verify
    /\ handed[r].verify = 1 => r \in mailbox
    /\ handed[r].wrong <= MaxAttempts
    /\ ~handed[r].late

\* A contact at its limit is served again, however often it is asked for in
\* the meantime: refused requests do not count (lib.rs:216-225).
Limited(c) == Cardinality(Counted(c)) >= MaxChallenges
LimitLifts == \A c \in Contacts : Limited(c) ~> ~Limited(c)

=============================================================================
