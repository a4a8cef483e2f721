------------------------ MODULE RecoveryServiceProofs ------------------------
(***************************************************************************)
(* Proofs about RecoveryService, for any contacts, kits, lifetimes and     *)
(* limits: types, the quota of codes per window, and that a kit leaves     *)
(* only for a code.                                                        *)
(***************************************************************************)
EXTENDS RecoveryService, FiniteSetTheorems, TLAPS

USE ServiceAssumption

\* The record updates of the module, typed once.
LEMMA RecordsTyped ==
  /\ NoReq \in ReqType /\ NoToken \in TokenType /\ NoHandout \in HandoutType
  /\ \A c \in Contacts : [stage |-> "counted", contact |-> c, age |-> 0,
                          attempts |-> 0] \in ReqType
  /\ [state |-> "live", age |-> 0] \in TokenType
BY DEF NoReq, NoToken, NoHandout, ReqType, TokenType, HandoutType, Stages

\* Moving a request to another stage changes nothing else of it.
LEMMA PutEffect ==
  ASSUME req \in [Requests -> ReqType], NEW r \in Requests,
         NEW s \in Stages, Put(r, s)
  PROVE  /\ req' \in [Requests -> ReqType]
         /\ \A q \in Requests \ {r} : req'[q] = req[q]
         /\ req'[r].stage = s /\ req'[r].contact = req[r].contact
         /\ req'[r].age = req[r].age /\ req'[r].attempts = req[r].attempts
<1>1. req' = [req EXCEPT ![r].stage = s]
  BY DEF Put
<1> QED
  BY <1>1 DEF ReqType

\* A wrong answer counts one up on the request, and on no other.
LEMMA WrongAnswerEffect ==
  ASSUME handed \in [Requests -> HandoutType], NEW r \in Requests,
         WrongAnswer(r)
  PROVE  /\ handed' \in [Requests -> HandoutType]
         /\ \A q \in Requests \ {r} : handed'[q] = handed[q]
         /\ handed'[r].wrong = AtMost(handed[r].wrong + 1, MaxAttempts + 1)
         /\ handed'[r].verify = handed[r].verify
         /\ handed'[r].redeem = handed[r].redeem
         /\ handed'[r].late = handed[r].late
<1> DEFINE n == AtMost(handed[r].wrong + 1, MaxAttempts + 1)
<1>1. n \in 0 .. MaxAttempts + 1
  BY DEF HandoutType, AtMost
<1>2. handed' = [handed EXCEPT ![r].wrong = n]
  BY DEF WrongAnswer
<1>3. n = AtMost(handed[r].wrong + 1, MaxAttempts + 1)
  OBVIOUS
<1> HIDE DEF n
<1> QED
  BY <1>1, <1>2, <1>3 DEF HandoutType

\* A kit that leaves is counted on its request, and on no other.
LEMMA HandOutEffect ==
  ASSUME handed \in [Requests -> HandoutType], NEW r \in Requests,
         NEW v \in 0 .. 1, NEW d \in 0 .. 1, NEW late \in BOOLEAN,
         HandOut(r, v, d, late)
  PROVE  /\ handed' \in [Requests -> HandoutType]
         /\ \A q \in Requests \ {r} : handed'[q] = handed[q]
         /\ handed'[r].wrong = handed[r].wrong
         /\ handed'[r].verify = AtMost(handed[r].verify + v, 2)
         /\ handed'[r].redeem = AtMost(handed[r].redeem + d, 2)
         /\ handed'[r].late = (handed[r].late \/ late)
<1> DEFINE vv == AtMost(handed[r].verify + v, 2)
           dd == AtMost(handed[r].redeem + d, 2)
           l  == handed[r].late \/ late
<1>1. vv \in 0 .. 2 /\ dd \in 0 .. 2 /\ l \in BOOLEAN
  BY DEF HandoutType, AtMost
<1>2. handed' = [handed EXCEPT ![r] =
                   [wrong |-> handed[r].wrong, verify |-> vv,
                    redeem |-> dd, late |-> l]]
  BY DEF HandOut
<1>3. /\ vv = AtMost(handed[r].verify + v, 2)
      /\ dd = AtMost(handed[r].redeem + d, 2)
      /\ l = (handed[r].late \/ late)
  OBVIOUS
<1> HIDE DEF vv, dd, l
<1> QED
  BY <1>1, <1>2, <1>3 DEF HandoutType

\* Time passing: a request that is not free, and a token that was issued,
\* grow older by one, up to their last age.
LEMMA TickEffect ==
  ASSUME req \in [Requests -> ReqType], token \in [Requests -> TokenType],
         Tick, NEW r \in Requests
  PROVE  /\ req'[r] \in ReqType /\ token'[r] \in TokenType
         /\ req'[r].stage = req[r].stage /\ req'[r].contact = req[r].contact
         /\ req'[r].attempts = req[r].attempts
         /\ req'[r].age = IF req[r].stage = "free" THEN req[r].age
                          ELSE AtMost(req[r].age + 1, Window + 1)
         /\ token'[r].state = token[r].state
         /\ token'[r].age = IF token[r].state = "none" THEN token[r].age
                            ELSE AtMost(token[r].age + 1, TokenTtl + 1)
<1> DEFINE a == AtMost(req[r].age + 1, Window + 1)
           t == AtMost(token[r].age + 1, TokenTtl + 1)
<1>1. a \in 0 .. Window + 1 /\ t \in 0 .. TokenTtl + 1
  BY DEF ReqType, TokenType, AtMost
<1>2. /\ req'[r] = IF req[r].stage = "free" THEN req[r]
                   ELSE [req[r] EXCEPT !.age = a]
      /\ token'[r] = IF token[r].state = "none" THEN token[r]
                     ELSE [token[r] EXCEPT !.age = t]
  BY DEF Tick
<1>3. a = AtMost(req[r].age + 1, Window + 1)
      /\ t = AtMost(token[r].age + 1, TokenTtl + 1)
  OBVIOUS
<1>4. req[r] \in ReqType /\ token[r] \in TokenType
  OBVIOUS
<1> HIDE DEF a, t
<1>5. /\ req'[r] \in ReqType
      /\ req'[r].stage = req[r].stage /\ req'[r].contact = req[r].contact
      /\ req'[r].attempts = req[r].attempts
      /\ req'[r].age = IF req[r].stage = "free" THEN req[r].age ELSE a
  BY <1>1, <1>2, <1>4 DEF ReqType
<1>6. /\ token'[r] \in TokenType
      /\ token'[r].state = token[r].state
      /\ token'[r].age = IF token[r].state = "none" THEN token[r].age ELSE t
  BY <1>1, <1>2, <1>4 DEF TokenType
<1> QED
  BY <1>3, <1>5, <1>6

-----------------------------------------------------------------------------
(* Types.                                                                  *)

\* The state has its types to begin with.
LEMMA TypeInit == Init => TypeOK
BY RecordsTyped DEF Init, TypeOK

\* No step of the service breaks them.
LEMMA TypeStep == TypeOK /\ [Next]_vars => TypeOK'
<1> SUFFICES ASSUME TypeOK, [Next]_vars PROVE TypeOK'
  OBVIOUS
<1> USE DEF TypeOK
<1>1. ASSUME NEW c \in Contacts, NEW k \in Kits, Bind(c, k) PROVE TypeOK'
  BY <1>1 DEF Bind
<1>2. ASSUME NEW c \in Contacts, Refuse(c) PROVE TypeOK'
  BY <1>2 DEF Refuse, Counted
<1>3. ASSUME NEW c \in Contacts, NEW r \in Requests, Count(r, c)
      PROVE TypeOK'
  BY <1>3, RecordsTyped DEF Count, Counted
<1>4. ASSUME NEW r \in Requests, Mail(r) \/ MailFails(r) \/ Register(r)
      PROVE TypeOK'
  BY <1>4, PutEffect DEF Mail, MailFails, Register, Stages
<1>5. ASSUME NEW r \in Requests, VerifyRefused(r) \/ VerifyFails(r)
      PROVE TypeOK'
  BY <1>5, PutEffect DEF VerifyRefused, VerifyFails, Stages
<1>6. ASSUME NEW r \in Requests, VerifyWrong(r) PROVE TypeOK'
  <2>1. req' \in [Requests -> ReqType]
    <3>1. req[r].attempts + 1 \in 0 .. MaxAttempts
      BY <1>6 DEF VerifyWrong, MayAnswer, ReqType
    <3> QED
      BY <1>6, <3>1 DEF VerifyWrong, ReqType
  <2> QED
    BY <1>6, <2>1, WrongAnswerEffect DEF VerifyWrong
<1>7. ASSUME NEW r \in Requests, Verify(r) PROVE TypeOK'
  <2>1. PICK late \in BOOLEAN : HandOut(r, 1, 0, late)
    BY <1>7 DEF Verify, HandOut
  <2>2. handed' \in [Requests -> HandoutType]
    BY <2>1, HandOutEffect
  <2> QED
    BY <1>7, <2>2, PutEffect, RecordsTyped DEF Verify, Stages
<1>8. ASSUME NEW r \in Requests, Redeem(r) PROVE TypeOK'
  <2>1. PICK late \in BOOLEAN : HandOut(r, 0, 1, late)
    BY <1>8 DEF Redeem, HandOut
  <2>2. handed' \in [Requests -> HandoutType]
    BY <2>1, HandOutEffect
  <2> QED
    BY <1>8, <2>2 DEF Redeem, TokenType
<1>9. ASSUME NEW r \in Requests, RedeemFails(r) PROVE TypeOK'
  BY <1>9 DEF RedeemFails, TokenType
<1>10. CASE Restart
  BY <1>10, RecordsTyped DEF Restart
<1>11. CASE Tick
  <2>1. /\ req' = [r \in Requests |-> req'[r]]
        /\ token' = [r \in Requests |-> token'[r]]
    BY <1>11 DEF Tick
  <2> QED
    BY <1>11, <2>1, TickEffect DEF Tick
<1>12. CASE UNCHANGED vars
  BY <1>12 DEF vars
<1> QED
  BY <1>1, <1>2, <1>3, <1>4, <1>5, <1>6, <1>7, <1>8, <1>9, <1>10, <1>11,
     <1>12 DEF Next, Challenge, Answer

\* The service's state always has its types (lib.rs:111-145).
THEOREM ServiceTypeCorrect == Spec => []TypeOK
BY TypeInit, TypeStep, PTL DEF Spec

-----------------------------------------------------------------------------
(* Kits leave only for codes.  What was handed out for a request follows   *)
(* the stage of its code and of its token.                                 *)

Accounted(r) ==
  /\ handed[r].wrong = req[r].attempts
  /\ req[r].stage \in {"free", "counted", "mailed", "open"} =>
       handed[r].verify = 0 /\ token[r].state = "none"
  /\ token[r].state = "none" => handed[r].redeem = 0
  /\ token[r].state = "live" => handed[r].verify = 1 /\ handed[r].redeem = 0
  /\ handed[r].redeem <= handed[r].verify
  /\ handed[r].verify <= 1
  /\ handed[r].verify = 1 => r \in mailbox
  /\ TokenValid(r) => req[r].age <= CodeTtl + token[r].age
  /\ ~handed[r].late

KitInv == TypeOK /\ \A r \in Requests : Accounted(r)

\* The invariant says what is promised of kits.
LEMMA KitInvImplies == KitInv => KitOnlyForCode
BY DEF KitInv, KitOnlyForCode, Accounted, TypeOK, ReqType

\* What is not touched stays accounted for.
LEMMA Bystander ==
  ASSUME NEW r \in Requests, Accounted(r),
         req'[r] = req[r], token'[r] = token[r], handed'[r] = handed[r],
         r \in mailbox => r \in mailbox'
  PROVE  Accounted(r)'
BY DEF Accounted, TokenValid

\* The invariant holds to begin with.
LEMMA KitInit == Init => KitInv
<1> SUFFICES ASSUME Init PROVE KitInv
  OBVIOUS
<1>1. TypeOK
  BY TypeInit
<1>2. ASSUME NEW r \in Requests PROVE Accounted(r)
  <2>1. req[r] = NoReq /\ token[r] = NoToken /\ handed[r] = NoHandout
    BY DEF Init
  <2> QED
    BY <2>1 DEF Accounted, TokenValid, NoReq, NoToken, NoHandout
<1> QED
  BY <1>1, <1>2 DEF KitInv

\* Every step keeps it: an action on one request accounts for its own
\* handouts and leaves the others alone.
LEMMA KitStep == KitInv /\ [Next]_vars => KitInv'
<1> SUFFICES ASSUME KitInv, [Next]_vars PROVE KitInv'
  OBVIOUS
<1>1. TypeOK /\ TypeOK'
  BY TypeStep DEF KitInv
<1> SUFFICES ASSUME NEW q \in Requests PROVE Accounted(q)'
  BY <1>1 DEF KitInv
<1>2. /\ Accounted(q) /\ req[q] \in ReqType /\ token[q] \in TokenType
      /\ handed[q] \in HandoutType
      /\ req \in [Requests -> ReqType]
      /\ handed \in [Requests -> HandoutType]
      /\ token \in [Requests -> TokenType]
  BY <1>1 DEF KitInv, TypeOK
<1>3. CASE UNCHANGED <<req, token, mailbox, handed>>
  BY <1>2, <1>3, Bystander
<1>4. ASSUME NEW c \in Contacts, NEW r \in Requests, Count(r, c)
      PROVE Accounted(q)'
  <2>1. CASE q = r
    <3>1. /\ req'[q] = [stage |-> "counted", contact |-> c, age |-> 0,
                        attempts |-> 0]
          /\ token'[q] = NoToken /\ handed'[q] = NoHandout
      BY <1>2, <1>4, <2>1 DEF Count
    <3> QED
      BY <3>1 DEF Accounted, TokenValid, NoToken, NoHandout
  <2>2. CASE q # r
    BY <1>2, <1>4, <2>2, Bystander DEF Count
  <2> QED
    BY <2>1, <2>2
<1>5. ASSUME NEW r \in Requests,
             Mail(r) \/ MailFails(r) \/ Register(r)
               \/ VerifyRefused(r) \/ VerifyFails(r)
      PROVE Accounted(q)'
  <2>1. /\ UNCHANGED <<token, handed>>
        /\ q \in mailbox => q \in mailbox'
    BY <1>5 DEF Mail, MailFails, Register, VerifyRefused, VerifyFails
  <2>2. /\ req[r].stage \in {"counted", "mailed", "open"}
        /\ \E s \in Stages : Put(r, s)
    BY <1>5 DEF Mail, MailFails, Register, VerifyRefused, VerifyFails,
                MayAnswer, Stages
  <2>3. CASE q = r
    <3>1. /\ handed[q].verify = 0 /\ token[q].state = "none"
          /\ handed'[q] = handed[q] /\ token'[q] = token[q]
      BY <1>2, <2>1, <2>2, <2>3 DEF Accounted
    <3>2. req'[q].attempts = req[q].attempts
      BY <1>2, <2>2, <2>3, PutEffect
    <3> QED
      BY <1>2, <3>1, <3>2 DEF Accounted, TokenValid
  <2>4. CASE q # r
    <3>1. req'[q] = req[q]
      BY <1>2, <2>2, <2>4, PutEffect
    <3> QED
      BY <1>2, <2>1, <3>1, Bystander
  <2> QED
    BY <2>3, <2>4
<1>6. ASSUME NEW r \in Requests, VerifyWrong(r) PROVE Accounted(q)'
  <2>1. /\ UNCHANGED <<token, mailbox>> /\ WrongAnswer(r)
        /\ req[r].stage = "open" /\ req[r].attempts < MaxAttempts
        /\ req' = [req EXCEPT ![r].attempts = req[r].attempts + 1]
    BY <1>6 DEF VerifyWrong, MayAnswer
  <2>2. CASE q = r
    <3>1. /\ req'[q].attempts = req[q].attempts + 1
          /\ req'[q].stage = req[q].stage
          /\ req'[q].age = req[q].age
      BY <1>2, <2>1, <2>2 DEF ReqType
    <3>2. /\ handed'[q].wrong = AtMost(handed[q].wrong + 1, MaxAttempts + 1)
          /\ handed'[q].verify = handed[q].verify
          /\ handed'[q].redeem = handed[q].redeem
          /\ handed'[q].late = handed[q].late
      BY <1>2, <2>1, <2>2, WrongAnswerEffect
    <3>3. handed'[q].wrong = req'[q].attempts
      BY <1>2, <2>1, <2>2, <3>1, <3>2 DEF AtMost, Accounted, ReqType
    <3> QED
      BY <1>2, <2>1, <3>1, <3>2, <3>3 DEF Accounted, TokenValid
  <2>3. CASE q # r
    <3>1. req'[q] = req[q] /\ handed'[q] = handed[q]
      BY <1>2, <2>1, <2>3, WrongAnswerEffect
    <3> QED
      BY <1>2, <2>1, <3>1, Bystander
  <2> QED
    BY <2>2, <2>3
<1>7. ASSUME NEW r \in Requests, Verify(r) PROVE Accounted(q)'
  <2>1. /\ UNCHANGED mailbox /\ r \in mailbox /\ Put(r, "gone")
        /\ req[r].stage = "open" /\ ~(req[r].age > CodeTtl)
        /\ token' = [token EXCEPT ![r] = [state |-> "live", age |-> 0]]
    BY <1>7 DEF Verify, MayAnswer, CodeExpired
  <2>2. PICK late \in BOOLEAN : ~late /\ HandOut(r, 1, 0, late)
    BY <1>7, <2>1 DEF Verify, HandOut
  <2>3. CASE q = r
    <3>1. /\ req'[q].stage = "gone" /\ req'[q].age = req[q].age
          /\ req'[q].attempts = req[q].attempts
      BY <1>2, <2>1, <2>3, PutEffect DEF Stages
    <3>2. token'[q] = [state |-> "live", age |-> 0]
      BY <1>2, <2>1, <2>3
    <3>3. /\ handed'[q].wrong = handed[q].wrong
          /\ handed'[q].verify = AtMost(handed[q].verify + 1, 2)
          /\ handed'[q].redeem = AtMost(handed[q].redeem + 0, 2)
          /\ handed'[q].late = (handed[q].late \/ late)
      BY <1>2, <2>2, <2>3, HandOutEffect
    <3>4. handed'[q].verify = 1 /\ handed'[q].redeem = 0
          /\ ~handed'[q].late
      BY <1>2, <2>1, <2>2, <2>3, <3>3 DEF AtMost, Accounted, HandoutType
    <3>5. req'[q].age <= CodeTtl + token'[q].age
      BY <1>2, <2>1, <2>3, <3>1, <3>2 DEF ReqType
    <3> QED
      BY <1>2, <2>1, <2>3, <3>1, <3>2, <3>3, <3>4, <3>5
         DEF Accounted, TokenValid
  <2>4. CASE q # r
    <3>1. req'[q] = req[q] /\ token'[q] = token[q]
      BY <1>2, <2>1, <2>4, PutEffect DEF Stages
    <3>2. handed'[q] = handed[q]
      BY <1>2, <2>2, <2>4, HandOutEffect
    <3> QED
      BY <1>2, <2>1, <3>1, <3>2, Bystander
  <2> QED
    BY <2>3, <2>4
<1>8. ASSUME NEW r \in Requests, Redeem(r) PROVE Accounted(q)'
  <2>1. /\ UNCHANGED <<req, mailbox>> /\ TokenValid(r)
        /\ token' = [token EXCEPT ![r].state = "used"]
    BY <1>8 DEF Redeem
  <2>2. ~(req[r].age > CodeTtl + TokenTtl)
    <3>1. Accounted(r) /\ req[r] \in ReqType /\ token[r] \in TokenType
      BY <1>1 DEF KitInv, TypeOK
    <3> QED
      BY <2>1, <3>1 DEF Accounted, TokenValid, ReqType, TokenType
  <2>3. PICK late \in BOOLEAN : ~late /\ HandOut(r, 0, 1, late)
    BY <1>8, <2>2 DEF Redeem, HandOut
  <2>4. CASE q = r
    <3>1. token'[q].state = "used"
      BY <1>2, <2>1, <2>4 DEF TokenType
    <3>2. /\ handed'[q].wrong = handed[q].wrong
          /\ handed'[q].verify = AtMost(handed[q].verify + 0, 2)
          /\ handed'[q].redeem = AtMost(handed[q].redeem + 1, 2)
          /\ handed'[q].late = (handed[q].late \/ late)
      BY <1>2, <2>3, <2>4, HandOutEffect
    <3>3. /\ handed[q].verify = 1 /\ handed[q].redeem = 0
          /\ req[q].stage \notin {"free", "counted", "mailed", "open"}
          /\ ~handed[q].late
      BY <1>2, <2>1, <2>4 DEF Accounted, TokenValid
    <3>4. handed'[q].verify = 1 /\ handed'[q].redeem = 1 /\ ~handed'[q].late
      BY <2>3, <3>2, <3>3 DEF AtMost
    <3> QED
      BY <1>2, <2>1, <3>1, <3>2, <3>3, <3>4 DEF Accounted, TokenValid
  <2>5. CASE q # r
    <3>1. token'[q] = token[q]
      BY <1>2, <2>1, <2>5
    <3>2. handed'[q] = handed[q]
      BY <1>2, <2>3, <2>5, HandOutEffect
    <3> QED
      BY <1>2, <2>1, <3>1, <3>2, Bystander
  <2> QED
    BY <2>4, <2>5
<1>9. ASSUME NEW r \in Requests, RedeemFails(r) PROVE Accounted(q)'
  <2>1. /\ UNCHANGED <<req, mailbox, handed>> /\ TokenValid(r)
        /\ token' = [token EXCEPT ![r].state = "used"]
    BY <1>9 DEF RedeemFails
  <2>2. CASE q = r
    <3>1. token'[q].state = "used"
      BY <1>2, <2>1, <2>2 DEF TokenType
    <3>2. req[q].stage \notin {"free", "counted", "mailed", "open"}
      BY <1>2, <2>1, <2>2 DEF Accounted, TokenValid
    <3> QED
      BY <1>2, <2>1, <3>1, <3>2 DEF Accounted, TokenValid
  <2>3. CASE q # r
    <3>1. token'[q] = token[q]
      BY <1>2, <2>1, <2>3
    <3> QED
      BY <1>2, <2>1, <3>1, Bystander
  <2> QED
    BY <2>2, <2>3
<1>10. CASE Restart
  <2>1. req'[q] = NoReq /\ token'[q] = NoToken /\ handed'[q] = NoHandout
    BY <1>10 DEF Restart
  <2> QED
    BY <2>1 DEF Accounted, TokenValid, NoReq, NoToken, NoHandout
<1>11. CASE Tick
  <2>1. UNCHANGED <<mailbox, handed>>
    BY <1>11 DEF Tick
  <2>2. /\ req'[q].stage = req[q].stage
        /\ req'[q].attempts = req[q].attempts
        /\ req'[q].age = IF req[q].stage = "free" THEN req[q].age
                         ELSE AtMost(req[q].age + 1, Window + 1)
        /\ token'[q].state = token[q].state
        /\ token'[q].age = IF token[q].state = "none" THEN token[q].age
                           ELSE AtMost(token[q].age + 1, TokenTtl + 1)
    BY <1>2, <1>11, TickEffect
  <2>3. ASSUME TokenValid(q)' PROVE req'[q].age <= CodeTtl + token'[q].age
    <3>1. token[q].state = "live" /\ token[q].age <= TokenTtl
          /\ token'[q].age = token[q].age + 1
      BY <1>2, <2>2, <2>3 DEF TokenValid, AtMost, TokenType
    <3>2. req'[q].age <= req[q].age + 1 /\ req'[q].age \in Nat
      BY <1>2, <2>2 DEF AtMost, ReqType
    <3>3. req[q].age <= CodeTtl + token[q].age
      BY <1>2, <3>1 DEF Accounted, TokenValid
    <3> QED
      BY <1>2, <3>1, <3>2, <3>3 DEF ReqType, TokenType
  <2> QED
    BY <1>2, <2>1, <2>2, <2>3 DEF Accounted
<1>12. ASSUME NEW c \in Contacts, (\E k \in Kits : Bind(c, k)) \/ Refuse(c)
       PROVE Accounted(q)'
  BY <1>3, <1>12 DEF Bind, Refuse
<1>13. CASE UNCHANGED vars
  BY <1>3, <1>13 DEF vars
<1> QED
  BY <1>4, <1>5, <1>6, <1>7, <1>8, <1>9, <1>10, <1>11, <1>12, <1>13
     DEF Next, Challenge, Answer

\* For any lifetimes and limits, a kit leaves the service only for a mailed
\* code answered in time, once for the code and once for its token
\* (lib.rs:262-325).
THEOREM KitNeedsCode == Spec => []KitOnlyForCode
BY KitInit, KitStep, KitInvImplies, PTL DEF Spec

-----------------------------------------------------------------------------
(* The quota.  The log of a contact holds every request of it that is      *)
(* still within the window, and what it counts stays under the limit.      *)

QuotaInv ==
  /\ TypeOK
  /\ \A c \in Contacts : /\ Recent(c) \subseteq Counted(c)
                         /\ Cardinality(Counted(c)) <= MaxChallenges

\* What is counted is a finite set of requests.
LEMMA CountedFinite ==
  ASSUME TypeOK, NEW c \in Contacts
  PROVE  IsFiniteSet(Counted(c)) /\ Cardinality(Counted(c)) \in Nat
<1>1. Counted(c) \subseteq Requests
  BY DEF Counted, TypeOK
<1> QED
  BY <1>1, FS_Subset, FS_CardinalityType

\* The invariant bounds the requests in the window.
LEMMA QuotaInvImplies == QuotaInv => QuotaHolds
<1> SUFFICES ASSUME QuotaInv, NEW c \in Contacts
             PROVE  Cardinality(Recent(c)) <= MaxChallenges
  BY DEF QuotaHolds
<1>1. /\ Recent(c) \subseteq Counted(c) /\ IsFiniteSet(Counted(c))
      /\ Cardinality(Counted(c)) \in Nat
      /\ Cardinality(Counted(c)) <= MaxChallenges
  BY CountedFinite DEF QuotaInv
<1>2. /\ Cardinality(Recent(c)) <= Cardinality(Counted(c))
      /\ Cardinality(Recent(c)) \in Nat
  BY <1>1, FS_Subset, FS_CardinalityType
<1> QED
  BY <1>1, <1>2

\* A step that counts no more, and makes nothing recent that is not counted,
\* keeps the quota.
LEMMA NoNewCount ==
  ASSUME QuotaInv, TypeOK',
         \A c \in Contacts : Recent(c)' \subseteq Counted(c)',
         \A c \in Contacts : Counted(c)' \subseteq Counted(c)
  PROVE  QuotaInv'
<1> SUFFICES ASSUME NEW c \in Contacts
             PROVE  Cardinality(Counted(c)') <= MaxChallenges
  BY DEF QuotaInv
<1>1. /\ Counted(c)' \subseteq Counted(c) /\ IsFiniteSet(Counted(c))
      /\ Cardinality(Counted(c)) \in Nat
      /\ Cardinality(Counted(c)) <= MaxChallenges
  BY CountedFinite DEF QuotaInv
<1>2. /\ Cardinality(Counted(c)') <= Cardinality(Counted(c))
      /\ Cardinality(Counted(c)') \in Nat
  BY <1>1, FS_Subset, FS_CardinalityType
<1> QED
  BY <1>1, <1>2

\* A step that leaves the log, and the contact, age and being free of every
\* request alone keeps the quota.
LEMMA SameCount ==
  ASSUME QuotaInv, TypeOK', UNCHANGED log,
         \A q \in Requests : /\ req'[q].contact = req[q].contact
                             /\ req'[q].age = req[q].age
                             /\ req'[q].stage = "free" <=> req[q].stage = "free"
  PROVE  QuotaInv'
<1>1. ASSUME NEW c \in Contacts
      PROVE  Recent(c)' = Recent(c) /\ Counted(c)' = Counted(c)
  <2>1. log[c] \subseteq Requests
    BY DEF QuotaInv, TypeOK
  <2> QED
    BY <2>1 DEF Recent, Counted, InWindow
<1> QED
  BY <1>1, NoNewCount DEF QuotaInv

\* A new process counts nothing, and neither does the first.
LEMMA QuotaInit == Init => QuotaInv
<1> SUFFICES ASSUME Init, NEW c \in Contacts
             PROVE  /\ Recent(c) \subseteq Counted(c)
                    /\ Cardinality(Counted(c)) <= MaxChallenges
  BY TypeInit DEF QuotaInv
<1>1. Recent(c) = {} /\ Counted(c) = {}
  BY DEF Init, Recent, Counted, NoReq
<1> QED
  BY <1>1, FS_EmptySet

\* A request is counted before anything else happens to it, and only while
\* there is room.
LEMMA CountKeepsQuota ==
  ASSUME QuotaInv, TypeOK', NEW d \in Contacts, NEW r \in Requests,
         Count(r, d)
  PROVE  QuotaInv'
<1> SUFFICES ASSUME NEW c \in Contacts
             PROVE  /\ Recent(c)' \subseteq Counted(c)'
                    /\ Cardinality(Counted(c)') <= MaxChallenges
  BY DEF QuotaInv
<1>1. /\ Recent(c) \subseteq Counted(c) /\ log[c] \subseteq Requests
      /\ IsFiniteSet(Counted(c)) /\ Cardinality(Counted(c)) \in Nat
      /\ Cardinality(Counted(c)) <= MaxChallenges
      /\ req \in [Requests -> ReqType]
  BY CountedFinite DEF QuotaInv, TypeOK
<1>2. /\ req'[r].contact = d /\ req'[r].age = 0
      /\ \A q \in Requests \ {r} : req'[q] = req[q]
  BY <1>1 DEF Count
<1>3. CASE c = d
  <2>1. log'[c] = Counted(c) \cup {r} /\ Cardinality(Counted(c)) < MaxChallenges
    BY <1>3 DEF Count
  <2>2. Counted(c)' = Counted(c) \cup {r}
    BY <1>1, <1>2, <2>1 DEF Counted, InWindow
  <2>3. Recent(c)' \subseteq Recent(c) \cup {r}
    BY <1>2 DEF Recent
  <2>4. Cardinality(Counted(c) \cup {r}) <= Cardinality(Counted(c)) + 1
    <3>1. Cardinality(Counted(c) \cup {r}) =
            IF r \in Counted(c) THEN Cardinality(Counted(c))
                                ELSE Cardinality(Counted(c)) + 1
      BY <1>1, FS_AddElement
    <3> QED
      BY <1>1, <3>1
  <2>5. Cardinality(Counted(c) \cup {r}) \in Nat
    BY <1>1, FS_AddElement, FS_CardinalityType
  <2> QED
    BY <1>1, <2>1, <2>2, <2>3, <2>4, <2>5
<1>4. CASE c # d
  <2>1. log'[c] = log[c] \ {r}
    BY <1>4 DEF Count
  <2>2. Recent(c)' \subseteq Counted(c)' /\ Counted(c)' \subseteq Counted(c)
    BY <1>1, <1>2, <1>4, <2>1 DEF Recent, Counted, InWindow
  <2>3. /\ Cardinality(Counted(c)') <= Cardinality(Counted(c))
        /\ Cardinality(Counted(c)') \in Nat
    BY <1>1, <2>2, FS_Subset, FS_CardinalityType
  <2> QED
    BY <1>1, <2>2, <2>3
<1> QED
  BY <1>3, <1>4

\* Every step keeps the quota.
LEMMA QuotaStep == QuotaInv /\ [Next]_vars => QuotaInv'
<1> SUFFICES ASSUME QuotaInv, [Next]_vars PROVE QuotaInv'
  OBVIOUS
<1>1. TypeOK /\ TypeOK'
  BY TypeStep DEF QuotaInv
<1>2. req \in [Requests -> ReqType] /\ log \in [Contacts -> SUBSET Requests]
  BY <1>1 DEF TypeOK
<1>3. CASE UNCHANGED <<req, log>>
  BY <1>1, <1>3, SameCount
<1>4. ASSUME NEW r \in Requests, NEW s \in Stages, Put(r, s), s # "free",
             req[r].stage # "free", UNCHANGED log
      PROVE  QuotaInv'
  BY <1>1, <1>2, <1>4, PutEffect, SameCount
<1>5. ASSUME NEW r \in Requests,
             Mail(r) \/ MailFails(r) \/ Register(r)
               \/ VerifyRefused(r) \/ VerifyFails(r) \/ Verify(r)
      PROVE  QuotaInv'
  <2>1. \E s \in Stages \ {"free"} : Put(r, s)
    BY <1>5 DEF Mail, MailFails, Register, VerifyRefused, VerifyFails, Verify,
                Stages
  <2>2. req[r].stage # "free" /\ UNCHANGED log
    BY <1>5 DEF Mail, MailFails, Register, VerifyRefused, VerifyFails, Verify,
                MayAnswer
  <2> QED
    BY <1>4, <2>1, <2>2
<1>6. ASSUME NEW r \in Requests, VerifyWrong(r) PROVE QuotaInv'
  <2>1. /\ UNCHANGED log
        /\ req' = [req EXCEPT ![r].attempts = req[r].attempts + 1]
    BY <1>6 DEF VerifyWrong
  <2>2. \A q \in Requests : /\ req'[q].contact = req[q].contact
                            /\ req'[q].age = req[q].age
                            /\ req'[q].stage = req[q].stage
    BY <1>2, <2>1 DEF ReqType
  <2> QED
    BY <1>1, <2>1, <2>2, SameCount
<1>7. ASSUME NEW c \in Contacts, Refuse(c) PROVE QuotaInv'
  <2>1. /\ UNCHANGED req /\ log' = [log EXCEPT ![c] = Counted(c)]
    BY <1>7 DEF Refuse
  <2>2. ASSUME NEW d \in Contacts
        PROVE  Counted(d)' = Counted(d) /\ Recent(d)' = Recent(d)
    BY <1>2, <2>1 DEF Counted, Recent, InWindow
  <2> QED
    BY <1>1, <2>2, NoNewCount DEF QuotaInv
<1>8. ASSUME NEW c \in Contacts, NEW r \in Requests, Count(r, c)
      PROVE  QuotaInv'
  BY <1>1, <1>8, CountKeepsQuota
<1>9. CASE Restart
  <2>1. ASSUME NEW c \in Contacts
        PROVE  Recent(c)' = {} /\ Counted(c)' = {}
    BY <1>9 DEF Restart, Recent, Counted, NoReq
  <2> QED
    BY <1>1, <2>1, NoNewCount
<1>10. CASE Tick
  <2>1. UNCHANGED log
    BY <1>10 DEF Tick
  <2>2. ASSUME NEW q \in Requests
        PROVE  /\ req'[q].stage = req[q].stage
               /\ req'[q].contact = req[q].contact
               /\ req[q].age \in Nat /\ req'[q].age \in Nat
               /\ req[q].age <= req'[q].age
    <3>1. req[q] \in ReqType /\ token \in [Requests -> TokenType]
      BY <1>1 DEF TypeOK
    <3> QED
      BY <1>2, <1>10, <3>1, TickEffect DEF ReqType, AtMost
  <2>3. ASSUME NEW c \in Contacts
        PROVE  Recent(c)' \subseteq Counted(c)' /\ Counted(c)' \subseteq Counted(c)
    <3>1. Recent(c) \subseteq Counted(c) /\ log[c] \subseteq Requests
      BY <1>2 DEF QuotaInv
    <3>2. Recent(c)' \subseteq Recent(c)
      BY <2>2 DEF Recent
    <3>3. Counted(c)' \subseteq Counted(c)
      BY <2>1, <2>2, <3>1 DEF Counted, InWindow
    <3>4. ASSUME NEW q \in Recent(c)' PROVE q \in Counted(c)'
      BY <2>1, <3>1, <3>2, <3>4 DEF Recent, Counted, InWindow
    <3> QED
      BY <3>3, <3>4
  <2> QED
    BY <1>1, <2>3, NoNewCount
<1>11. ASSUME NEW c \in Contacts, NEW k \in Kits, Bind(c, k) PROVE QuotaInv'
  BY <1>3, <1>11 DEF Bind
<1>12. ASSUME NEW r \in Requests, Redeem(r) \/ RedeemFails(r) PROVE QuotaInv'
  BY <1>3, <1>12 DEF Redeem, RedeemFails
<1>13. CASE UNCHANGED vars
  BY <1>3, <1>13 DEF vars
<1> QED
  BY <1>5, <1>6, <1>7, <1>8, <1>9, <1>10, <1>11, <1>12, <1>13
     DEF Next, Challenge, Answer

\* For any window and limit, no process starts more codes for a contact
\* within a window than the limit (lib.rs:212-226).
THEOREM QuotaAlwaysHolds == Spec => []QuotaHolds
BY QuotaInit, QuotaStep, QuotaInvImplies, PTL DEF Spec

-----------------------------------------------------------------------------
(* Whose a request is.                                                     *)

\* A request under way is of a contact.
Addressed == \A r \in Requests : req[r].stage # "free" => req[r].contact \in Contacts

\* It is from the beginning, when there is none, and every step keeps it.
LEMMA AddressedInit == Init => Addressed
BY DEF Init, Addressed, NoReq

LEMMA AddressedStep == TypeOK /\ Addressed /\ [Next]_vars => Addressed'
<1> SUFFICES ASSUME TypeOK, Addressed, [Next]_vars PROVE Addressed'
  OBVIOUS
<1> USE DEF TypeOK, Addressed
<1>1. ASSUME NEW r \in Requests,
             \/ Mail(r) \/ MailFails(r) \/ Register(r)
             \/ VerifyRefused(r) \/ VerifyFails(r) \/ Verify(r)
      PROVE  Addressed'
  <2>1. req[r].stage # "free"
    BY <1>1 DEF Mail, MailFails, Register, VerifyRefused, VerifyFails, Verify,
                MayAnswer
  <2>2. \E s \in Stages : Put(r, s)
    BY <1>1 DEF Mail, MailFails, Register, VerifyRefused, VerifyFails, Verify,
                Stages
  <2>3. /\ \A q \in Requests \ {r} : req'[q] = req[q]
        /\ req'[r].contact = req[r].contact
    BY <2>2, PutEffect
  <2> QED
    BY <2>1, <2>3
<1>2. ASSUME NEW r \in Requests, VerifyWrong(r) PROVE Addressed'
  BY <1>2 DEF VerifyWrong, ReqType
<1>3. ASSUME NEW c \in Contacts, NEW r \in Requests, Count(r, c)
      PROVE  Addressed'
  BY <1>3 DEF Count
<1>4. CASE Restart
  BY <1>4 DEF Restart, NoReq
<1>5. CASE Tick
  BY <1>5, TickEffect
<1>6. ASSUME \/ \E c \in Contacts : Refuse(c) \/ \E k \in Kits : Bind(c, k)
             \/ \E r \in Requests : Redeem(r) \/ RedeemFails(r)
             \/ UNCHANGED vars
      PROVE  Addressed'
  BY <1>6 DEF Refuse, Bind, Redeem, RedeemFails, vars
<1> QED
  BY <1>1, <1>2, <1>3, <1>4, <1>5, <1>6 DEF Next, Challenge, Answer

=============================================================================
