--------------------------- MODULE WebSessionProofs ---------------------------
(***************************************************************************)
(* Proofs about WebSession, for any number of concurrent requests, tokens  *)
(* and timeouts: type correctness, that no work is done in an idle session *)
(* and none is revived, that a reset ends the sessions but for an unlock   *)
(* verified before it, and that its token is spent once if requests do not *)
(* overlap.                                                                *)
(***************************************************************************)
EXTENDS WebSession, TLAPS

-----------------------------------------------------------------------------
(* What the steps change of the requests.                                  *)

Others(a) == \A b \in Requests \ {a} : request'[b] = request[b]

\* What is at rest is well typed.
LEMMA RestTyped ==
  /\ NoSession \in SessionType /\ NoSession.token = None
  /\ NoSession.idle = 0 /\ NoSession.stale = FALSE
  /\ NoReset \in SlotType /\ NoReset.token = None
  /\ Done \in RequestType /\ Done.pc = "done" /\ Done.stale = FALSE
  BY WebAssumption DEF NoSession, NoReset, Done, SessionType, SlotType,
                       RequestType

\* The fields of the state.
LEMMA FieldsTyped ==
  ASSUME TypeOK
  PROVE  /\ session.token \in Tokens \cup {None} /\ session.stale \in BOOLEAN
         /\ session.idle \in 0 .. IdleTimeout + MaxAge + 1
         /\ slot.token \in ResetTokens \cup {None}
         /\ slot.age \in 0 .. ResetTtl + 1
         /\ \A a \in Requests : /\ request[a] \in RequestType
                                /\ request[a].age \in 0 .. MaxAge
  BY DEF TypeOK, SessionType, SlotType, RequestType

\* A request begins.
LEMMA StartEffect ==
  ASSUME TypeOK, NEW a \in Requests,
         NEW pc \in {"enter", "unlocked", "taken"},
         NEW t \in Tokens \cup ResetTokens \cup {None}, Start(a, pc, t)
  PROVE  /\ request' \in [Requests -> RequestType] /\ Others(a)
         /\ request[a].pc = "done" /\ request'[a].pc = pc
         /\ request'[a].token = t /\ request'[a].stale = FALSE
         /\ alone' \in BOOLEAN
         /\ alone' => alone /\ \A b \in Requests \ {a} : request[b].pc = "done"
<1> DEFINE new == [pc |-> pc, token |-> t, age |-> 0, stale |-> FALSE]
<1>1. new \in RequestType
  BY WebAssumption DEF RequestType
<1>2. request' = [request EXCEPT ![a] = new] /\ request[a].pc = "done"
  BY DEF Start
<1>3. new.pc = pc /\ new.token = t /\ new.stale = FALSE
  OBVIOUS
<1>4. /\ alone' \in BOOLEAN
      /\ alone' => alone /\ \A b \in Requests \ {a} : request[b].pc = "done"
  BY DEF Start, NoteOverlap, TypeOK
<1> HIDE DEF new
<1> QED
  BY <1>1, <1>2, <1>3, <1>4 DEF TypeOK, Others

\* A request goes on, with its token.
LEMMA StepEffect ==
  ASSUME TypeOK, NEW a \in Requests, NEW from, NEW to \in {"cleared"},
         Step(a, from, to)
  PROVE  /\ request' \in [Requests -> RequestType] /\ Others(a)
         /\ request[a].pc = from /\ request'[a].pc = to
  BY DEF Step, TypeOK, RequestType, Others

\* A request ends.
LEMMA EndEffect ==
  ASSUME TypeOK, NEW a \in Requests, NEW from, End(a, from)
  PROVE  /\ request' \in [Requests -> RequestType] /\ Others(a)
         /\ request[a].pc = from /\ request'[a].pc = "done"
         /\ request'[a] = Done
  BY RestTyped DEF End, TypeOK, Others

\* A session that was just used.
LEMMA TouchedTyped ==
  ASSUME TypeOK
  PROVE  /\ Touched \in SessionType /\ Touched.token = session.token
         /\ Touched.idle = 0 /\ Touched.stale = session.stale
  BY WebAssumption, FieldsTyped DEF Touched, SessionType

\* The work begins.
LEMMA CheckEffect ==
  ASSUME TypeOK, NEW a \in Requests, Check(a)
  PROVE  /\ request' \in [Requests -> RequestType] /\ Others(a)
         /\ request[a].pc = "enter" /\ request'[a].pc = "use"
         /\ request'[a].age = 0 /\ request'[a].stale = FALSE
         /\ ~Expired /\ session' = Touched
         /\ UNCHANGED <<slot, spent, alone>>
<1> DEFINE new == [pc |-> "use", token |-> session.token, age |-> 0,
                   stale |-> FALSE]
<1>1. new \in RequestType
  BY WebAssumption, FieldsTyped DEF RequestType
<1>2. new.pc = "use" /\ new.age = 0 /\ new.stale = FALSE
  OBVIOUS
<1>3. request' = [request EXCEPT ![a] = new]
  BY DEF Check
<1> HIDE DEF new
<1> QED
  BY <1>1, <1>2, <1>3 DEF Check, TypeOK, Others

\* A rewrap makes the vaults that are open stale, and begins what comes after.
LEMMA RewrappedEffect ==
  ASSUME TypeOK, NEW a \in Requests, NEW pc \in {"rewrapped", "applied"},
         NEW t \in Tokens \cup ResetTokens \cup {None}, Rewrapped(a, pc, t)
  PROVE  /\ request' \in [Requests -> RequestType]
         /\ request'[a].pc = pc /\ request'[a].token = t
         /\ \A b \in Requests \ {a} :
              /\ request'[b].pc = request[b].pc /\ request'[b].age = request[b].age
              /\ request'[b].token = request[b].token
              /\ request'[b].stale => request[b].pc = "unlocked"
         /\ session' \in SessionType /\ session'.token = session.token
         /\ session'.idle = session.idle
         /\ session.token = None => session'.stale = FALSE
<1> DEFINE mine == [pc |-> pc, token |-> t, age |-> request[a].age,
                    stale |-> FALSE]
           theirs(b) == [request[b] EXCEPT !.stale = request[b].pc = "unlocked"]
<1>1. request' = [b \in Requests |-> IF b = a THEN mine ELSE theirs(b)]
  BY DEF Rewrapped
<1>2. mine \in RequestType /\ mine.pc = pc /\ mine.token = t
  BY FieldsTyped DEF RequestType
<1>3. ASSUME NEW b \in Requests
      PROVE  /\ theirs(b) \in RequestType
             /\ theirs(b).pc = request[b].pc /\ theirs(b).age = request[b].age
             /\ theirs(b).token = request[b].token
             /\ theirs(b).stale = (request[b].pc = "unlocked")
  BY FieldsTyped DEF RequestType
<1>4. request'[a] = mine /\ \A b \in Requests \ {a} : request'[b] = theirs(b)
  BY <1>1
<1>5. request' \in [Requests -> RequestType]
  BY <1>1, <1>2, <1>3
<1>6. /\ session' \in SessionType /\ session'.token = session.token
      /\ session'.idle = session.idle
      /\ session'.stale = (session.token # None)
  BY DEF Rewrapped, TypeOK, SessionType
<1> HIDE DEF mine, theirs
<1> QED
  BY <1>2, <1>3, <1>4, <1>5, <1>6

\* Time passes for the session, the reset and the requests.
LEMMA TickEffect ==
  ASSUME TypeOK, Tick
  PROVE  /\ request' \in [Requests -> RequestType]
         /\ \A a \in Requests :
              /\ request'[a].pc = request[a].pc
              /\ request'[a].token = request[a].token
              /\ request'[a].stale = request[a].stale
              /\ request[a].pc # "done" => request'[a].age = request[a].age + 1
         /\ session' \in SessionType /\ session'.token = session.token
         /\ session.token = None => session' = session
         /\ session'.stale = session.stale
         /\ session'.idle >= session.idle /\ session'.idle <= session.idle + 1
         /\ slot' \in SlotType /\ slot'.token = slot.token
         /\ slot.token = None => slot' = slot
         /\ UNCHANGED <<spent, alone>>
<1> DEFINE older(a) == [request[a] EXCEPT !.age = request[a].age + 1]
<1>1. \A a \in Requests : request[a].pc # "done" => request[a].age < MaxAge
  BY DEF Tick
<1>2. ASSUME NEW a \in Requests, request[a].pc # "done"
      PROVE  /\ older(a) \in RequestType /\ older(a).pc = request[a].pc
             /\ older(a).token = request[a].token
             /\ older(a).stale = request[a].stale
             /\ older(a).age = request[a].age + 1
  <2>1. request[a].age + 1 \in 0 .. MaxAge
    BY <1>1, <1>2, FieldsTyped, WebAssumption
  <2> QED
    BY <2>1, FieldsTyped DEF RequestType
<1>3. request' = [a \in Requests |-> IF request[a].pc = "done" THEN request[a]
                                     ELSE older(a)]
  BY DEF Tick
<1> HIDE DEF older
<1>4. /\ request' \in [Requests -> RequestType]
      /\ \A a \in Requests :
           /\ request'[a].pc = request[a].pc
           /\ request'[a].token = request[a].token
           /\ request'[a].stale = request[a].stale
           /\ request[a].pc # "done" => request'[a].age = request[a].age + 1
  BY <1>2, <1>3, FieldsTyped
<1>5. /\ session' \in SessionType /\ session'.token = session.token
      /\ session.token = None => session' = session
      /\ session'.stale = session.stale
      /\ session'.idle >= session.idle /\ session'.idle <= session.idle + 1
  <2> DEFINE idle == AtMost(session.idle + 1, IdleTimeout + MaxAge + 1)
  <2>1. /\ idle \in 0 .. IdleTimeout + MaxAge + 1
        /\ idle >= session.idle /\ idle <= session.idle + 1
    BY FieldsTyped, WebAssumption DEF AtMost
  <2>2. CASE session.token = None
    <3>1. session' = session
      BY <2>2 DEF Tick
    <3> QED
      BY <3>1, FieldsTyped, WebAssumption DEF TypeOK
  <2>3. CASE session.token # None
    <3>1. session' = [session EXCEPT !.idle = idle]
      BY <2>3 DEF Tick
    <3> HIDE DEF idle
    <3> QED
      BY <2>1, <2>3, <3>1 DEF TypeOK, SessionType
  <2> QED
    BY <2>2, <2>3
<1>6. /\ slot' \in SlotType /\ slot'.token = slot.token
      /\ slot.token = None => slot' = slot
  <2> DEFINE age == AtMost(slot.age + 1, ResetTtl + 1)
  <2>1. age \in 0 .. ResetTtl + 1
    BY FieldsTyped, WebAssumption DEF AtMost
  <2>2. CASE slot.token = None
    BY <2>2 DEF Tick, TypeOK
  <2>3. CASE slot.token # None
    <3>1. slot' = [slot EXCEPT !.age = age]
      BY <2>3 DEF Tick
    <3> HIDE DEF age
    <3> QED
      BY <2>1, <2>3, <3>1 DEF TypeOK, SlotType
  <2> QED
    BY <2>2, <2>3
<1>7. UNCHANGED <<spent, alone>>
  BY DEF Tick
<1> QED
  BY <1>4, <1>5, <1>6, <1>7

-----------------------------------------------------------------------------
(* Type correctness, and the idle timeout.                                 *)

\* Types, and that nobody works in a session that is idle.
ActiveInv == TypeOK /\ UseIsActive

\* Nobody works to begin with.
LEMMA ActiveInit == Init => ActiveInv
<1> SUFFICES ASSUME Init PROVE ActiveInv
  OBVIOUS
<1>1. request \in [Requests -> RequestType] /\ \A a \in Requests : request[a].pc = "done"
  BY RestTyped DEF Init
<1>2. spent \in [ResetTokens -> 0 .. 2]
  BY DEF Init
<1> QED
  BY <1>1, <1>2, RestTyped DEF Init, ActiveInv, TypeOK, UseIsActive

\* A session that is gone, or that was just touched or opened, is active; one
\* that stays is as active as it was.
SessionActs == \/ session'.token = None \/ session'.idle = 0
               \/ session'.token = session.token /\ session'.idle = session.idle

\* A request that goes to work on a session just touched.
LEMMA ActiveKept ==
  ASSUME ActiveInv, request' \in [Requests -> RequestType], SessionActs,
         \A a \in Requests :
           request'[a].pc = "use" =>
             \/ request[a].pc = "use" /\ request'[a].age = request[a].age
             \/ session'.idle = 0
  PROVE  UseIsActive'
<1> SUFFICES ASSUME NEW a \in Requests, request'[a].pc = "use", session'.token # None
             PROVE  session'.idle <= request'[a].age
  BY DEF UseIsActive
<1>1. request'[a].age \in Nat
  BY WebAssumption DEF RequestType
<1>2. CASE session'.idle = 0
  BY <1>1, <1>2
<1>3. CASE session'.idle # 0
  BY <1>3 DEF ActiveInv, UseIsActive, SessionActs
<1> QED
  BY <1>2, <1>3

\* A request that does no work.
LEMMA OneRequest ==
  ASSUME ActiveInv, request' \in [Requests -> RequestType], SessionActs,
         NEW a \in Requests, Others(a), request'[a].pc # "use"
  PROVE  UseIsActive'
<1>1. \A b \in Requests : request'[b].pc = "use" =>
        request[b].pc = "use" /\ request'[b].age = request[b].age
  BY DEF Others
<1> QED
  BY <1>1, ActiveKept

\* Of the requests of a session.
LEMMA AuthenticatedActive ==
  ASSUME ActiveInv, NEW a \in Requests, Authenticated(a)
  PROVE  ActiveInv'
<1>1. TypeOK
  BY DEF ActiveInv
<1>2. CASE Enter(a)
  <2>1. /\ Start(a, "enter", session.token) /\ session' = Touched
        /\ UNCHANGED <<slot, spent>>
    BY <1>2 DEF Enter
  <2>2. /\ request' \in [Requests -> RequestType] /\ Others(a)
        /\ request'[a].pc = "enter" /\ request'[a].token = session.token
        /\ alone' \in BOOLEAN
    BY <1>1, <2>1, StartEffect, FieldsTyped
  <2>3. TypeOK'
    <3>1. session.token \in Tokens
      BY <1>1, <1>2, FieldsTyped DEF Enter
    <3>2. session' \in SessionType /\ session'.token # None
      BY <1>1, <2>1, <3>1, TouchedTyped, WebAssumption
    <3> QED
      BY <1>1, <2>1, <2>2, <3>1, <3>2 DEF TypeOK, Others
  <2>4. UseIsActive'
    <3>1. SessionActs
      BY <1>1, <2>1, TouchedTyped DEF SessionActs
    <3> QED
      BY <2>2, <3>1, OneRequest
  <2> QED
    BY <2>3, <2>4 DEF ActiveInv
<1>3. CASE EnterExpired(a)
  BY <1>1, <1>3, RestTyped DEF EnterExpired, ActiveInv, TypeOK, UseIsActive
<1>4. CASE Check(a)
  <2>1. /\ request' \in [Requests -> RequestType] /\ session' = Touched
        /\ request[a].pc = "enter" /\ request'[a].pc = "use" /\ Others(a)
        /\ UNCHANGED <<slot, spent, alone>>
    BY <1>1, <1>4, CheckEffect
  <2>2. session.token = request[a].token /\ ~Expired
    BY <1>4 DEF Check
  <2>3. TypeOK'
    <3>1. session.token # None
      BY <1>1, <2>1, <2>2, WebAssumption DEF TypeOK
    <3> QED
      BY <1>1, <2>1, <3>1, TouchedTyped DEF TypeOK, Others
  <2>4. UseIsActive'
    <3>1. session'.idle = 0 /\ SessionActs
      BY <1>1, <2>1, TouchedTyped DEF SessionActs
    <3>2. \A b \in Requests \ {a} : request'[b] = request[b]
      BY <2>1 DEF Others
    <3> QED
      BY <2>1, <3>1, <3>2, ActiveKept
  <2> QED
    BY <2>3, <2>4 DEF ActiveInv
<1>5. CASE CheckFails(a) \/ Use(a) \/ Lock(a)
  <2>1. /\ End(a, "enter") \/ End(a, "use")
        /\ session' \in {NoSession, session} /\ UNCHANGED <<slot, spent, alone>>
    BY <1>5 DEF CheckFails, Use, Lock
  <2>2. /\ request' \in [Requests -> RequestType] /\ Others(a)
        /\ request'[a].pc = "done"
    BY <1>1, <2>1, EndEffect
  <2>3. TypeOK'
    BY <1>1, <2>1, <2>2, RestTyped DEF TypeOK, Others
  <2>4. UseIsActive'
    <3>1. SessionActs
      BY <2>1, RestTyped DEF SessionActs
    <3> QED
      BY <2>2, <3>1, OneRequest
  <2> QED
    BY <2>3, <2>4 DEF ActiveInv
<1> QED
  BY <1>2, <1>3, <1>4, <1>5 DEF Authenticated

\* Of unlock and recover.
LEMMA PasswordActive ==
  ASSUME ActiveInv, NEW a \in Requests, Password(a)
  PROVE  ActiveInv'
<1>1. TypeOK
  BY DEF ActiveInv
<1>2. CASE UnlockVerify(a)
  <2>1. Start(a, "unlocked", None) /\ UNCHANGED <<session, slot, spent>>
    BY <1>2 DEF UnlockVerify
  <2>2. /\ request' \in [Requests -> RequestType] /\ Others(a)
        /\ request'[a].pc = "unlocked" /\ alone' \in BOOLEAN
    BY <1>1, <2>1, StartEffect
  <2>3. TypeOK'
    BY <1>1, <2>1, <2>2 DEF TypeOK, Others
  <2>4. UseIsActive'
    <3>1. SessionActs
      BY <2>1 DEF SessionActs
    <3> QED
      BY <2>2, <3>1, OneRequest
  <2> QED
    BY <2>3, <2>4 DEF ActiveInv
<1>3. CASE UnlockInstall(a)
  <2>1. PICK t \in Tokens :
          session' = [token |-> t, idle |-> 0, stale |-> request[a].stale]
    BY <1>3 DEF UnlockInstall, Fresh
  <2>2. End(a, "unlocked") /\ UNCHANGED <<slot, spent, alone>>
    BY <1>3 DEF UnlockInstall
  <2>3. /\ request' \in [Requests -> RequestType] /\ Others(a)
        /\ request'[a].pc = "done"
    BY <1>1, <2>2, EndEffect
  <2>4. session' \in SessionType /\ session'.token # None /\ session'.idle = 0
    BY <1>1, <2>1, WebAssumption DEF TypeOK, RequestType, SessionType
  <2>5. TypeOK'
    BY <1>1, <2>2, <2>3, <2>4 DEF TypeOK, Others
  <2>6. UseIsActive'
    <3>1. SessionActs
      BY <2>4 DEF SessionActs
    <3> QED
      BY <2>3, <3>1, OneRequest
  <2> QED
    BY <2>5, <2>6 DEF ActiveInv
<1>4. CASE RecoverRewrap(a)
  <2>1. /\ Rewrapped(a, "rewrapped", None) /\ UNCHANGED <<slot, spent>>
        /\ alone' \in BOOLEAN
    BY <1>1, <1>4 DEF RecoverRewrap, NoteOverlap, TypeOK
  <2>2. /\ request' \in [Requests -> RequestType]
        /\ request'[a].pc = "rewrapped" /\ request'[a].token = None
        /\ \A b \in Requests \ {a} :
             /\ request'[b].pc = request[b].pc /\ request'[b].age = request[b].age
             /\ request'[b].token = request[b].token
             /\ request'[b].stale => request[b].pc = "unlocked"
        /\ session' \in SessionType /\ session'.token = session.token
        /\ session'.idle = session.idle
        /\ session.token = None => session'.stale = FALSE
    BY <1>1, <2>1, RewrappedEffect
  <2>3. session'.token = None => session' = NoSession
    <3> SUFFICES ASSUME session'.token = None PROVE session' = NoSession
      OBVIOUS
    <3>1. session.token = None /\ session'.stale = FALSE
      BY <2>2
    <3>2. session = NoSession
      BY <1>1, <3>1 DEF TypeOK
    <3>3. session'.idle = 0
      BY <2>2, <3>2, RestTyped
    <3> QED
      BY <2>2, <3>1, <3>3 DEF SessionType, NoSession
  <2>4. TypeOK'
    BY <1>1, <2>1, <2>2, <2>3 DEF TypeOK, Others
  <2>5. UseIsActive'
    <3>1. SessionActs
      BY <2>2 DEF SessionActs
    <3> QED
      BY <2>2, <3>1, ActiveKept
  <2> QED
    BY <2>4, <2>5 DEF ActiveInv
<1>5. CASE RecoverClear(a)
  <2>1. /\ End(a, "rewrapped") /\ session' = NoSession
        /\ UNCHANGED <<slot, spent, alone>>
    BY <1>5 DEF RecoverClear
  <2>2. /\ request' \in [Requests -> RequestType] /\ Others(a)
        /\ request'[a].pc = "done"
    BY <1>1, <2>1, EndEffect
  <2>3. TypeOK'
    BY <1>1, <2>1, <2>2, RestTyped DEF TypeOK, Others
  <2>4. UseIsActive'
    <3>1. SessionActs
      BY <2>1, RestTyped DEF SessionActs
    <3> QED
      BY <2>2, <3>1, OneRequest
  <2> QED
    BY <2>3, <2>4 DEF ActiveInv
<1> QED
  BY <1>2, <1>3, <1>4, <1>5 DEF Password

\* Counting what a token was spent on keeps the count in its range.
LEMMA SpentTyped ==
  ASSUME spent \in [ResetTokens -> 0 .. 2], NEW t \in ResetTokens,
         spent' = [spent EXCEPT ![t] = AtMost(spent[t] + 1, 2)]
  PROVE  /\ spent' \in [ResetTokens -> 0 .. 2]
         /\ spent[t] = 0 => spent'[t] = 1
         /\ \A u \in ResetTokens \ {t} : spent'[u] = spent[u]
<1>1. AtMost(spent[t] + 1, 2) \in 0 .. 2
      /\ (spent[t] = 0 => AtMost(spent[t] + 1, 2) = 1)
  BY DEF AtMost
<1> QED
  BY <1>1

\* Of the email reset.
LEMMA ResetActive ==
  ASSUME ActiveInv, NEW a \in Requests, Reset(a)
  PROVE  ActiveInv'
<1>1. TypeOK
  BY DEF ActiveInv
<1>2. CASE ResetTake(a)
  <2>1. Start(a, "taken", slot.token) /\ UNCHANGED <<session, slot, spent>>
    BY <1>2 DEF ResetTake
  <2>2. /\ request' \in [Requests -> RequestType] /\ Others(a)
        /\ request'[a].pc = "taken" /\ request'[a].token = slot.token
        /\ alone' \in BOOLEAN
    BY <1>1, <2>1, StartEffect, FieldsTyped
  <2>3. TypeOK'
    <3>1. slot.token \in ResetTokens
      BY <1>1, <1>2, FieldsTyped DEF ResetTake
    <3> QED
      BY <1>1, <3>1, <2>1, <2>2 DEF TypeOK, Others
  <2>4. UseIsActive'
    <3>1. SessionActs
      BY <2>1 DEF SessionActs
    <3> QED
      BY <2>2, <3>1, OneRequest
  <2> QED
    BY <2>3, <2>4 DEF ActiveInv
<1>3. CASE ResetFails(a) \/ ResetClearSession(a)
  <2>1. /\ End(a, "taken") \/ End(a, "cleared")
        /\ session' \in {NoSession, session} /\ UNCHANGED <<slot, spent, alone>>
    BY <1>3 DEF ResetFails, ResetClearSession
  <2>2. /\ request' \in [Requests -> RequestType] /\ Others(a)
        /\ request'[a].pc = "done"
    BY <1>1, <2>1, EndEffect
  <2>3. TypeOK'
    BY <1>1, <2>1, <2>2, RestTyped DEF TypeOK, Others
  <2>4. UseIsActive'
    <3>1. SessionActs
      BY <2>1, RestTyped DEF SessionActs
    <3> QED
      BY <2>2, <3>1, OneRequest
  <2> QED
    BY <2>3, <2>4 DEF ActiveInv
<1>4. CASE ResetApply(a)
  <2> DEFINE t == request[a].token
  <2>1. /\ Rewrapped(a, "applied", t) /\ UNCHANGED <<slot, alone>>
        /\ spent' = [spent EXCEPT ![t] = AtMost(spent[t] + 1, 2)]
        /\ t \in ResetTokens
    BY <1>1, <1>4 DEF ResetApply, TypeOK
  <2>2. /\ request' \in [Requests -> RequestType]
        /\ request'[a].pc = "applied" /\ request'[a].token = t
        /\ \A b \in Requests \ {a} :
             /\ request'[b].pc = request[b].pc /\ request'[b].age = request[b].age
             /\ request'[b].token = request[b].token
             /\ request'[b].stale => request[b].pc = "unlocked"
        /\ session' \in SessionType /\ session'.token = session.token
        /\ session'.idle = session.idle
        /\ session.token = None => session'.stale = FALSE
    BY <1>1, <2>1, RewrappedEffect
  <2>3. session'.token = None => session' = NoSession
    <3> SUFFICES ASSUME session'.token = None PROVE session' = NoSession
      OBVIOUS
    <3>1. session.token = None /\ session'.stale = FALSE
      BY <2>2
    <3>2. session = NoSession
      BY <1>1, <3>1 DEF TypeOK
    <3>3. session'.idle = 0
      BY <2>2, <3>2, RestTyped
    <3> QED
      BY <2>2, <3>1, <3>3 DEF SessionType, NoSession
  <2>4. spent' \in [ResetTokens -> 0 .. 2]
    BY <1>1, <2>1, SpentTyped DEF TypeOK
  <2>5. TypeOK'
    BY <1>1, <2>1, <2>2, <2>3, <2>4 DEF TypeOK, Others
  <2>6. UseIsActive'
    <3>1. SessionActs
      BY <2>2 DEF SessionActs
    <3> QED
      BY <2>2, <3>1, ActiveKept
  <2> QED
    BY <2>5, <2>6 DEF ActiveInv
<1>5. CASE ResetClearSlot(a)
  <2>1. /\ Step(a, "applied", "cleared") /\ slot' = NoReset
        /\ UNCHANGED <<session, spent, alone>>
    BY <1>5 DEF ResetClearSlot
  <2>2. /\ request' \in [Requests -> RequestType] /\ Others(a)
        /\ request'[a].pc = "cleared"
    BY <1>1, <2>1, StepEffect
  <2>3. TypeOK'
    BY <1>1, <2>1, <2>2, RestTyped DEF TypeOK, Others
  <2>4. UseIsActive'
    <3>1. SessionActs
      BY <2>1 DEF SessionActs
    <3> QED
      BY <2>2, <3>1, OneRequest
  <2> QED
    BY <2>3, <2>4 DEF ActiveInv
<1> QED
  BY <1>2, <1>3, <1>4, <1>5 DEF Reset

\* The kit of a new code takes the place of the reset under way.
LEMMA VerifyCodeEffect ==
  ASSUME TypeOK, VerifyCode
  PROVE  /\ \E t \in ResetTokens :
              /\ slot' \in SlotType /\ slot'.token = t /\ t # slot.token
              /\ \A a \in Requests : request[a].token # t
              /\ spent' \in [ResetTokens -> 0 .. 2] /\ spent'[t] = 0
              /\ \A u \in ResetTokens \ {t} : spent'[u] = spent[u]
         /\ UNCHANGED <<session, request, alone>>
<1>1. PICK t \in Fresh(ResetTokens, slot.token) :
        slot' = [token |-> t, age |-> 0] /\ spent' = [spent EXCEPT ![t] = 0]
  BY DEF VerifyCode
<1>2. t \in ResetTokens /\ t # slot.token /\ \A a \in Requests : request[a].token # t
  BY DEF Fresh
<1>3. slot' \in SlotType /\ slot'.token = t
  BY <1>1, <1>2, WebAssumption DEF SlotType
<1>4. /\ spent' \in [ResetTokens -> 0 .. 2] /\ spent'[t] = 0
      /\ \A u \in ResetTokens \ {t} : spent'[u] = spent[u]
  BY <1>1, <1>2 DEF TypeOK
<1>5. UNCHANGED <<session, request, alone>>
  BY DEF VerifyCode
<1> QED
  BY <1>2, <1>3, <1>4, <1>5

\* A new process has no requests.
LEMMA RestartEffect ==
  ASSUME Restart
  PROVE  /\ request' \in [Requests -> RequestType]
         /\ \A a \in Requests : request'[a].pc = "done" /\ request'[a].stale = FALSE
         /\ session' = NoSession /\ slot' = NoReset /\ UNCHANGED <<spent, alone>>
  BY RestTyped DEF Restart

\* Every step keeps the types and the sessions active.
LEMMA ActiveStep == ActiveInv /\ [Next]_vars => ActiveInv'
<1> SUFFICES ASSUME ActiveInv, [Next]_vars PROVE ActiveInv'
  OBVIOUS
<1>1. TypeOK
  BY DEF ActiveInv
<1>2. CASE VerifyCode
  <2>1. /\ slot' \in SlotType /\ slot'.token \in ResetTokens
        /\ spent' \in [ResetTokens -> 0 .. 2] /\ UNCHANGED <<session, request, alone>>
    BY <1>1, <1>2, VerifyCodeEffect
  <2> QED
    BY <2>1, WebAssumption DEF ActiveInv, TypeOK, UseIsActive
<1>3. CASE ResetExpired
  BY <1>3, RestTyped DEF ResetExpired, ActiveInv, TypeOK, UseIsActive
<1>4. CASE Restart
  BY <1>1, <1>4, RestartEffect, RestTyped DEF ActiveInv, TypeOK, UseIsActive
<1>5. CASE Tick
  <2>1. /\ request' \in [Requests -> RequestType]
        /\ \A a \in Requests :
             /\ request'[a].pc = request[a].pc /\ request'[a].token = request[a].token
             /\ request[a].pc # "done" => request'[a].age = request[a].age + 1
        /\ session' \in SessionType /\ session'.token = session.token
        /\ session.token = None => session' = session
        /\ session'.idle <= session.idle + 1
        /\ slot' \in SlotType /\ slot'.token = slot.token
        /\ slot.token = None => slot' = slot
        /\ UNCHANGED <<spent, alone>>
    BY <1>1, <1>5, TickEffect
  <2>2. TypeOK'
    BY <1>1, <2>1 DEF TypeOK
  <2>3. UseIsActive'
    <3> SUFFICES ASSUME NEW a \in Requests, request[a].pc = "use", session.token # None
                 PROVE  session'.idle <= request'[a].age
      BY <2>1 DEF UseIsActive
    <3>1. session.idle <= request[a].age
      BY DEF ActiveInv, UseIsActive
    <3>2. session.idle \in Nat /\ session'.idle \in Nat /\ request[a].age \in Nat
      BY <1>1, <2>1, FieldsTyped, WebAssumption DEF SessionType
    <3>3. session'.idle <= session.idle + 1 /\ request'[a].age = request[a].age + 1
      BY <2>1
    <3> QED
      BY <3>1, <3>2, <3>3
  <2> QED
    BY <2>2, <2>3 DEF ActiveInv
<1>6. CASE UNCHANGED vars
  BY <1>6 DEF vars, ActiveInv, TypeOK, UseIsActive
<1> QED
  BY <1>2, <1>3, <1>4, <1>5, <1>6, AuthenticatedActive, PasswordActive, ResetActive
     DEF Next

\* So it is at all times.
LEMMA AlwaysActive == Spec => []ActiveInv
  BY ActiveInit, ActiveStep, PTL DEF Spec

\* Type correctness, for every instance.
THEOREM WebTypeCorrect == Spec => []TypeOK
<1>1. ActiveInv => TypeOK
  BY DEF ActiveInv
<1> QED
  BY <1>1, AlwaysActive, PTL

\* Whatever the others do between the two checks of a request and its work, and
\* however they overlap, the session there is when it works, its own or one of a
\* later unlock, was idle for no longer than the request has been at it.
THEOREM UseAlwaysActive == Spec => []UseIsActive
<1>1. ActiveInv => UseIsActive
  BY DEF ActiveInv
<1> QED
  BY <1>1, AlwaysActive, PTL

\* A session that expired is not taken up again, by any interleaving.
THEOREM ExpiredForever == Spec => ExpiredStaysExpired
<1> DEFINE Stays == Expired => \/ session'.token # session.token
                               \/ session'.idle >= session.idle
<1>1. ASSUME TypeOK, [Next]_vars PROVE [Stays]_vars
  <2> SUFFICES ASSUME Expired, Next PROVE Stays
    BY <1>1
  <2>1. /\ session.token # None /\ session.idle \in Nat
    BY <1>1, FieldsTyped, RestTyped, WebAssumption DEF TypeOK, Expired
  <2>2. session' = session => Stays
    BY <2>1
  <2>3. session' = NoSession => Stays
    BY <2>1, RestTyped
  <2> HIDE DEF Stays
  <2>4. ASSUME NEW a \in Requests, Authenticated(a) PROVE Stays
    <3>1. ~Enter(a) /\ ~Check(a)
      BY DEF Enter, Check
    <3>2. session' = session \/ session' = NoSession
      BY <2>4, <3>1 DEF Authenticated, EnterExpired, CheckFails, Use, Lock
    <3> QED
      BY <2>2, <2>3, <3>2
  <2>5. ASSUME NEW a \in Requests, Password(a) PROVE Stays
    <3>1. CASE UnlockInstall(a)
      BY <3>1 DEF UnlockInstall, Fresh, Stays
    <3>2. CASE RecoverRewrap(a)
      <4>1. Rewrapped(a, "rewrapped", None)
        BY <3>2 DEF RecoverRewrap
      <4>2. session'.idle = session.idle
        BY <1>1, <4>1, RewrappedEffect
      <4> QED
        BY <2>1, <4>2 DEF Stays
    <3>3. CASE UnlockVerify(a) \/ RecoverClear(a)
      BY <2>2, <2>3, <3>3 DEF UnlockVerify, RecoverClear
    <3> QED
      BY <2>5, <3>1, <3>2, <3>3 DEF Password
  <2>6. ASSUME NEW a \in Requests, Reset(a) PROVE Stays
    <3>1. CASE ResetApply(a)
      <4>1. Rewrapped(a, "applied", request[a].token)
            /\ request[a].token \in ResetTokens
        BY <1>1, <3>1 DEF ResetApply, TypeOK
      <4>2. session'.idle = session.idle
        BY <1>1, <4>1, RewrappedEffect
      <4> QED
        BY <2>1, <4>2 DEF Stays
    <3>2. CASE ~ResetApply(a)
      BY <2>2, <2>3, <2>6, <3>2
         DEF Reset, ResetTake, ResetFails, ResetClearSlot, ResetClearSession
    <3> QED
      BY <3>1, <3>2
  <2>7. CASE VerifyCode \/ ResetExpired \/ Restart
    BY <2>2, <2>3, <2>7 DEF VerifyCode, ResetExpired, Restart
  <2>8. CASE Tick
    BY <1>1, <2>8, TickEffect DEF Stays
  <2> QED
    BY <2>4, <2>5, <2>6, <2>7, <2>8 DEF Next
<1>2. Spec => [][Stays]_vars
  BY <1>1, WebTypeCorrect, PTL DEF Spec
<1> QED
  BY <1>2 DEF ExpiredStaysExpired

-----------------------------------------------------------------------------
(* Sessions and resets.                                                    *)

After == {"rewrapped", "applied", "cleared"}

\* A step that neither makes a session stale nor ends a reset.
LEMMA EndedStays ==
  ASSUME SessionsEnd, session'.stale = session.stale,
         \A b \in Requests : request[b].pc \in After => request'[b].pc = request[b].pc
  PROVE  SessionsEnd'
BY DEF SessionsEnd, After

\* Any number of requests may overlap: only the installation of a session whose
\* password was verified before a reset gets it past the end of the reset.
THEOREM ResetsEndSessions == Spec => ResetEndsSessions
<1> DEFINE Ends == SessionsEnd /\ ~LateUnlock => SessionsEnd'
<1>1. ASSUME TypeOK, [Next]_vars PROVE [Ends]_vars
  <2> SUFFICES ASSUME SessionsEnd, ~LateUnlock, Next PROVE SessionsEnd'
    BY <1>1
  <2>1. session' = NoSession => SessionsEnd'
    BY RestTyped DEF SessionsEnd
  <2>2. (\E b \in Requests : request'[b].pc \in After) => SessionsEnd'
    BY DEF SessionsEnd, After
  <2>3. ASSUME NEW a \in Requests, Authenticated(a) PROVE SessionsEnd'
    <3>1. CASE Enter(a)
      <4>1. Start(a, "enter", session.token) /\ session' = Touched
        BY <3>1 DEF Enter
      <4>2. Others(a) /\ request[a].pc = "done"
        BY <1>1, <4>1, StartEffect, FieldsTyped
      <4> QED
        BY <1>1, <4>1, <4>2, TouchedTyped, EndedStays DEF Others, After
    <3>2. CASE Check(a)
      BY <1>1, <3>2, CheckEffect, TouchedTyped, EndedStays DEF Others, After
    <3>3. CASE EnterExpired(a)
      BY <2>1, <3>3 DEF EnterExpired
    <3>4. CASE CheckFails(a) \/ Use(a) \/ Lock(a)
      <4>1. (End(a, "enter") \/ End(a, "use")) /\ session' \in {NoSession, session}
        BY <3>4 DEF CheckFails, Use, Lock
      <4>2. Others(a) /\ request[a].pc \in {"enter", "use"}
        BY <1>1, <4>1, EndEffect
      <4> QED
        BY <2>1, <4>1, <4>2, EndedStays DEF Others, After
    <3> QED
      BY <2>3, <3>1, <3>2, <3>3, <3>4 DEF Authenticated
  <2>4. ASSUME NEW a \in Requests, Password(a) PROVE SessionsEnd'
    <3>1. CASE UnlockVerify(a)
      <4>1. Others(a) /\ request[a].pc = "done" /\ session' = session
        BY <1>1, <3>1, StartEffect DEF UnlockVerify
      <4> QED
        BY <4>1, EndedStays DEF Others, After
    <3>2. CASE UnlockInstall(a)
      <4>1. request[a].stale = FALSE
        BY <1>1, <3>2, FieldsTyped DEF LateUnlock, RequestType
      <4>2. session'.stale = FALSE
        BY <3>2, <4>1 DEF UnlockInstall
      <4> QED
        BY <4>2 DEF SessionsEnd
    <3>3. CASE RecoverRewrap(a)
      <4>1. Rewrapped(a, "rewrapped", None)
        BY <3>3 DEF RecoverRewrap
      <4>2. request'[a].pc = "rewrapped"
        BY <1>1, <4>1, RewrappedEffect
      <4> QED
        BY <2>2, <4>2 DEF After
    <3>4. CASE RecoverClear(a)
      BY <2>1, <3>4 DEF RecoverClear
    <3> QED
      BY <2>4, <3>1, <3>2, <3>3, <3>4 DEF Password
  <2>5. ASSUME NEW a \in Requests, Reset(a) PROVE SessionsEnd'
    <3>1. CASE ResetTake(a)
      <4>1. Others(a) /\ request[a].pc = "done" /\ session' = session
        BY <1>1, <3>1, StartEffect, FieldsTyped DEF ResetTake
      <4> QED
        BY <4>1, EndedStays DEF Others, After
    <3>2. CASE ResetFails(a)
      <4>1. Others(a) /\ request[a].pc = "taken" /\ session' = session
        BY <1>1, <3>2, EndEffect DEF ResetFails
      <4> QED
        BY <4>1, EndedStays DEF Others, After
    <3>3. CASE ResetApply(a)
      <4>1. Rewrapped(a, "applied", request[a].token)
            /\ request[a].token \in ResetTokens
        BY <1>1, <3>3 DEF ResetApply, TypeOK
      <4>2. request'[a].pc = "applied"
        BY <1>1, <4>1, RewrappedEffect
      <4> QED
        BY <2>2, <4>2 DEF After
    <3>4. CASE ResetClearSlot(a)
      <4>1. request'[a].pc = "cleared"
        BY <1>1, <3>4, StepEffect DEF ResetClearSlot
      <4> QED
        BY <2>2, <4>1 DEF After
    <3>5. CASE ResetClearSession(a)
      BY <2>1, <3>5 DEF ResetClearSession
    <3> QED
      BY <2>5, <3>1, <3>2, <3>3, <3>4, <3>5 DEF Reset
  <2>6. CASE VerifyCode \/ ResetExpired
    BY <2>6, EndedStays DEF VerifyCode, ResetExpired
  <2>7. CASE Restart
    BY <2>1, <2>7 DEF Restart
  <2>8. CASE Tick
    BY <1>1, <2>8, TickEffect, EndedStays
  <2> QED
    BY <2>3, <2>4, <2>5, <2>6, <2>7, <2>8 DEF Next
<1>2. Spec => [][Ends]_vars
  BY <1>1, WebTypeCorrect, PTL DEF Spec
<1> QED
  BY <1>2 DEF ResetEndsSessions

-----------------------------------------------------------------------------
(* Requests that do not overlap.                                           *)

\* One request is handled at a time: a token that was spent is only in use till
\* the reset that spent it is done.
Serial ==
  /\ \A a, b \in Requests : a # b => request[a].pc = "done" \/ request[b].pc = "done"
  /\ \A a \in Requests : request[a].pc = "taken" => spent[request[a].token] = 0
  /\ \A t \in ResetTokens : spent[t] <= 1
  /\ slot.token # None /\ spent[slot.token] # 0 =>
       \E a \in Requests : request[a].pc = "applied"

\* What this says of one request when the others are over ...
OnlyOne(a) ==
  /\ \A b \in Requests \ {a} : request[b].pc = "done"
  /\ request[a].pc = "taken" => spent[request[a].token] = 0
  /\ \A t \in ResetTokens : spent[t] <= 1
  /\ slot.token # None /\ spent[slot.token] # 0 => request[a].pc = "applied"

\* ... which it does of a request that is handled, or begins while none is.
LEMMA SerialOnlyOne ==
  ASSUME NEW a \in Requests
  PROVE  /\ Serial /\ (\A b \in Requests \ {a} : request[b].pc = "done") => OnlyOne(a)
         /\ Serial /\ request[a].pc # "done" => OnlyOne(a)
  BY DEF Serial, OnlyOne

\* ... and the other way round.
LEMMA OnlyOneSerial ==
  ASSUME NEW a \in Requests, OnlyOne(a)
  PROVE  Serial
  BY DEF Serial, OnlyOne

\* Of the requests of a session.
LEMMA AuthenticatedSerial ==
  ASSUME TypeOK, Serial, NEW a \in Requests, Authenticated(a), alone'
  PROVE  Serial'
<1>1. CASE Enter(a)
  <2>1. Start(a, "enter", session.token) /\ session' = Touched /\ UNCHANGED <<slot, spent>>
    BY <1>1 DEF Enter
  <2>2. /\ Others(a) /\ request[a].pc = "done" /\ request'[a].pc = "enter"
        /\ \A b \in Requests \ {a} : request[b].pc = "done"
    BY <2>1, StartEffect, FieldsTyped
  <2>3. OnlyOne(a)
    BY <2>2, SerialOnlyOne
  <2>4. OnlyOne(a)'
    BY <2>1, <2>2, <2>3 DEF OnlyOne, Others
  <2> QED
    BY <2>4, OnlyOneSerial, PTL
<1>2. CASE EnterExpired(a)
  BY <1>2, RestTyped DEF EnterExpired, Serial
<1>3. CASE Check(a)
  <2>1. /\ Others(a) /\ request[a].pc = "enter" /\ request'[a].pc = "use"
        /\ UNCHANGED <<slot, spent, alone>>
    BY <1>3, CheckEffect
  <2>2. OnlyOne(a)
    BY <2>1, SerialOnlyOne
  <2>3. OnlyOne(a)'
    BY <2>1, <2>2 DEF OnlyOne, Others
  <2> QED
    BY <2>3, OnlyOneSerial, PTL
<1>4. CASE CheckFails(a) \/ Use(a) \/ Lock(a)
  <2>1. /\ End(a, "enter") \/ End(a, "use")
        /\ UNCHANGED <<slot, spent, alone>>
    BY <1>4 DEF CheckFails, Use, Lock
  <2>2. Others(a) /\ request[a].pc \in {"enter", "use"} /\ request'[a].pc = "done"
    BY <2>1, EndEffect
  <2>3. OnlyOne(a)
    BY <2>2, SerialOnlyOne
  <2>4. OnlyOne(a)'
    BY <2>1, <2>2, <2>3 DEF OnlyOne, Others
  <2> QED
    BY <2>4, OnlyOneSerial, PTL
<1> QED
  BY <1>1, <1>2, <1>3, <1>4 DEF Authenticated

\* Of unlock and recover.
LEMMA PasswordSerial ==
  ASSUME TypeOK, Serial, NEW a \in Requests, Password(a), alone'
  PROVE  Serial'
<1>1. CASE UnlockVerify(a)
  <2>1. Start(a, "unlocked", None) /\ UNCHANGED <<session, slot, spent>>
    BY <1>1 DEF UnlockVerify
  <2>2. /\ Others(a) /\ request[a].pc = "done" /\ request'[a].pc = "unlocked"
        /\ \A b \in Requests \ {a} : request[b].pc = "done"
    BY <2>1, StartEffect
  <2>3. OnlyOne(a)
    BY <2>2, SerialOnlyOne
  <2>4. OnlyOne(a)'
    BY <2>1, <2>2, <2>3 DEF OnlyOne, Others
  <2> QED
    BY <2>4, OnlyOneSerial, PTL
<1>2. CASE UnlockInstall(a)
  <2>1. End(a, "unlocked") /\ UNCHANGED <<slot, spent, alone>>
    BY <1>2 DEF UnlockInstall
  <2>2. Others(a) /\ request[a].pc = "unlocked" /\ request'[a].pc = "done"
    BY <2>1, EndEffect
  <2>3. OnlyOne(a)
    BY <2>2, SerialOnlyOne
  <2>4. OnlyOne(a)'
    BY <2>1, <2>2, <2>3 DEF OnlyOne, Others
  <2> QED
    BY <2>4, OnlyOneSerial, PTL
<1>3. CASE RecoverRewrap(a)
  <2>1. /\ Rewrapped(a, "rewrapped", None) /\ UNCHANGED <<slot, spent>>
        /\ request[a].pc = "done"
        /\ \A b \in Requests \ {a} : request[b].pc = "done"
    BY <1>3 DEF RecoverRewrap, NoteOverlap
  <2>2. /\ request'[a].pc = "rewrapped"
        /\ \A b \in Requests \ {a} : request'[b].pc = request[b].pc
    BY <2>1, RewrappedEffect
  <2>3. OnlyOne(a)
    BY <2>1, SerialOnlyOne
  <2>4. OnlyOne(a)'
    BY <2>1, <2>2, <2>3 DEF OnlyOne
  <2> QED
    BY <2>4, OnlyOneSerial, PTL
<1>4. CASE RecoverClear(a)
  <2>1. End(a, "rewrapped") /\ UNCHANGED <<slot, spent, alone>>
    BY <1>4 DEF RecoverClear
  <2>2. Others(a) /\ request[a].pc = "rewrapped" /\ request'[a].pc = "done"
    BY <2>1, EndEffect
  <2>3. OnlyOne(a)
    BY <2>2, SerialOnlyOne
  <2>4. OnlyOne(a)'
    BY <2>1, <2>2, <2>3 DEF OnlyOne, Others
  <2> QED
    BY <2>4, OnlyOneSerial, PTL
<1> QED
  BY <1>1, <1>2, <1>3, <1>4 DEF Password

\* Of the email reset.
LEMMA ResetSerial ==
  ASSUME TypeOK, Serial, NEW a \in Requests, Reset(a), alone'
  PROVE  Serial'
<1>1. CASE ResetTake(a)
  <2>1. /\ Start(a, "taken", slot.token) /\ UNCHANGED <<session, slot, spent>>
        /\ slot.token # None
    BY <1>1 DEF ResetTake
  <2>2. /\ Others(a) /\ request[a].pc = "done" /\ request'[a].pc = "taken"
        /\ request'[a].token = slot.token
        /\ \A b \in Requests \ {a} : request[b].pc = "done"
    BY <2>1, StartEffect, FieldsTyped
  <2>3. OnlyOne(a)
    BY <2>2, SerialOnlyOne
  <2>4. OnlyOne(a)'
    BY <2>1, <2>2, <2>3 DEF OnlyOne, Others
  <2> QED
    BY <2>4, OnlyOneSerial, PTL
<1>2. CASE ResetFails(a)
  <2>1. End(a, "taken") /\ UNCHANGED <<session, slot, spent, alone>>
    BY <1>2 DEF ResetFails
  <2>2. Others(a) /\ request[a].pc = "taken" /\ request'[a].pc = "done"
    BY <2>1, EndEffect
  <2>3. OnlyOne(a)
    BY <2>2, SerialOnlyOne
  <2>4. OnlyOne(a)'
    BY <2>1, <2>2, <2>3 DEF OnlyOne, Others
  <2> QED
    BY <2>4, OnlyOneSerial, PTL
<1>3. CASE ResetApply(a)
  <2> DEFINE t == request[a].token
  <2>1. /\ Rewrapped(a, "applied", t) /\ UNCHANGED <<slot, alone>>
        /\ spent' = [spent EXCEPT ![t] = AtMost(spent[t] + 1, 2)]
        /\ t \in ResetTokens /\ request[a].pc = "taken"
    BY <1>3 DEF ResetApply, TypeOK
  <2>2. /\ request'[a].pc = "applied"
        /\ \A b \in Requests \ {a} : request'[b].pc = request[b].pc
    BY <2>1, RewrappedEffect
  <2>3. OnlyOne(a)
    BY <2>1, SerialOnlyOne
  <2>4. spent[t] = 0
    BY <2>1, <2>3 DEF OnlyOne
  <2>5. spent'[t] = 1 /\ \A u \in ResetTokens \ {t} : spent'[u] = spent[u]
    BY <2>1, <2>4, SpentTyped DEF TypeOK
  <2>6. \A u \in ResetTokens : spent'[u] <= 1
    BY <2>3, <2>5 DEF OnlyOne
  <2>7. OnlyOne(a)'
    BY <2>1, <2>2, <2>3, <2>6 DEF OnlyOne
  <2> QED
    BY <2>7, OnlyOneSerial, PTL
<1>4. CASE ResetClearSlot(a)
  <2>1. /\ Step(a, "applied", "cleared") /\ slot' = NoReset
        /\ UNCHANGED <<session, spent, alone>>
    BY <1>4 DEF ResetClearSlot
  <2>2. Others(a) /\ request[a].pc = "applied" /\ request'[a].pc = "cleared"
    BY <2>1, StepEffect
  <2>3. OnlyOne(a) /\ slot'.token = None
    BY <2>1, <2>2, SerialOnlyOne, RestTyped
  <2>4. OnlyOne(a)'
    BY <2>1, <2>2, <2>3 DEF OnlyOne, Others
  <2> QED
    BY <2>4, OnlyOneSerial, PTL
<1>5. CASE ResetClearSession(a)
  <2>1. End(a, "cleared") /\ UNCHANGED <<slot, spent, alone>>
    BY <1>5 DEF ResetClearSession
  <2>2. Others(a) /\ request[a].pc = "cleared" /\ request'[a].pc = "done"
    BY <2>1, EndEffect
  <2>3. OnlyOne(a)
    BY <2>2, SerialOnlyOne
  <2>4. OnlyOne(a)'
    BY <2>1, <2>2, <2>3 DEF OnlyOne, Others
  <2> QED
    BY <2>4, OnlyOneSerial, PTL
<1> QED
  BY <1>1, <1>2, <1>3, <1>4, <1>5 DEF Reset

\* As long as requests do not overlap, each step keeps them serial.
LEMMA SerialStep ==
  TypeOK /\ (alone => Serial) /\ [Next]_vars => (alone' => Serial')
<1> SUFFICES ASSUME TypeOK, alone => Serial, [Next]_vars, alone' PROVE Serial'
  OBVIOUS
<1>1. alone
  BY DEF Next, Authenticated, Password, Reset, VerifyCode, ResetExpired, Restart,
         Tick, vars, Enter, EnterExpired, Check, CheckFails, Use, Lock,
         UnlockVerify, UnlockInstall, RecoverRewrap, RecoverClear, ResetTake,
         ResetFails, ResetApply, ResetClearSlot, ResetClearSession, Start,
         NoteOverlap
<1>2. Serial
  BY <1>1
<1>3. CASE VerifyCode
  <2>1. PICK t \in ResetTokens :
          /\ slot'.token = t /\ spent'[t] = 0
          /\ \A a \in Requests : request[a].token # t
          /\ \A u \in ResetTokens \ {t} : spent'[u] = spent[u]
          /\ UNCHANGED <<session, request, alone>>
    BY <1>3, VerifyCodeEffect
  <2>2. \A u \in ResetTokens : spent'[u] <= 1
    BY <1>2, <2>1 DEF Serial
  <2>3. \A a \in Requests : request[a].pc = "taken" => spent'[request[a].token] = 0
    BY <1>2, <2>1 DEF Serial, TypeOK
  <2> QED
    BY <1>2, <2>1, <2>2, <2>3 DEF Serial
<1>4. CASE ResetExpired
  BY <1>2, <1>4, RestTyped DEF ResetExpired, Serial
<1>5. CASE Restart
  <2>1. /\ \A a \in Requests : request'[a].pc = "done"
        /\ slot'.token = None /\ UNCHANGED spent
    BY <1>5, RestartEffect, RestTyped
  <2> QED
    BY <1>2, <2>1 DEF Serial
<1>6. CASE Tick
  <2>1. /\ \A a \in Requests : /\ request'[a].pc = request[a].pc
                               /\ request'[a].token = request[a].token
        /\ slot'.token = slot.token
        /\ UNCHANGED spent
    BY <1>6, TickEffect
  <2> QED
    BY <1>2, <2>1 DEF Serial
<1>7. CASE UNCHANGED vars
  BY <1>2, <1>7 DEF vars, Serial
<1> QED
  BY <1>2, <1>3, <1>4, <1>5, <1>6, <1>7, AuthenticatedSerial, PasswordSerial,
     ResetSerial DEF Next

\* So requests that have not overlapped are serial throughout.
LEMMA AlwaysSerial == Spec => [](alone => Serial)
<1>1. Init => Serial
  BY RestTyped DEF Init, Serial
<1> QED
  BY <1>1, SerialStep, WebTypeCorrect, PTL DEF Spec

\* As long as requests do not overlap, a reset token resets once.
THEOREM TokenSpentOnce == Spec => []TokenOnce
<1>1. (alone => Serial) => TokenOnce
  BY DEF TokenOnce, Serial
<1> QED
  BY <1>1, AlwaysSerial, PTL

=============================================================================
