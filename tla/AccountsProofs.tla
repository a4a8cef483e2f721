---------------------------- MODULE AccountsProofs ----------------------------
(***************************************************************************)
(* Proofs about Accounts, for every set of connections, ids, values and    *)
(* fields: type correctness, that no secret outlives its account, and that *)
(* a write nobody overlapped leaves exactly its input; then about the two  *)
(* modules over it: that what Reads hands over is accounted for in the     *)
(* log, and that all this holds of Backup, whose imports restore what was  *)
(* saved and create what was written down.                                 *)
(***************************************************************************)
EXTENDS Backup, Reads, FiniteSetTheorems, TLAPS

-----------------------------------------------------------------------------
(* The operators the actions are built from.                               *)

\* What the user enters is an input.
LEMMA UserInputsAreInputs == UserInputs \subseteq Inputs
  BY DEF UserInputs, Inputs

\* The input without secrets is one.
LEMMA EmptyIsInput == Empty \in Inputs
  BY DEF Empty, Inputs

\* Only the empty input gives nothing.
LEMMA EmptyGivesNothing ==
  ASSUME NEW input \in Inputs
  PROVE  input = Empty <=> Given(input) = {}
  BY DEF Empty, Inputs, Given

\* The next field to be stored is one that is to be stored.
LEMMA NextIsGiven ==
  ASSUME NEW todo \in Inputs, todo # Empty
  PROVE  NextField(todo) \in Given(todo)
<1>1. Given(todo) # {} /\ Given(todo) \subseteq FieldTypes
  BY EmptyGivesNothing, AccountsAssumption DEF Given
<1>2. /\ Order["login_password"] = 1 /\ Order["secondary_password"] = 2
      /\ Order["payment_password"] = 3 /\ Order["api_key"] = 4
  BY DEF Order
<1>3. \E f \in Given(todo) : \A g \in Given(todo) : Order[f] <= Order[g]
  <2>1. CASE "login_password" \in Given(todo)
    BY <1>1, <1>2, <2>1 DEF FieldTypes
  <2>2. CASE "login_password" \notin Given(todo)
             /\ "secondary_password" \in Given(todo)
    BY <1>1, <1>2, <2>2 DEF FieldTypes
  <2>3. CASE "login_password" \notin Given(todo)
             /\ "secondary_password" \notin Given(todo)
             /\ "payment_password" \in Given(todo)
    BY <1>1, <1>2, <2>3 DEF FieldTypes
  <2>4. CASE "login_password" \notin Given(todo)
             /\ "secondary_password" \notin Given(todo)
             /\ "payment_password" \notin Given(todo)
    BY <1>1, <1>2, <2>4 DEF FieldTypes
  <2> QED
    BY <2>1, <2>2, <2>3, <2>4
<1> QED
  BY <1>3 DEF NextField

\* An input of which one field was stored is an input that gives the others.
LEMMA StoredInput ==
  ASSUME NEW todo \in Inputs, NEW f \in Fields
  PROVE  /\ [todo EXCEPT ![f] = None] \in Inputs
         /\ Given([todo EXCEPT ![f] = None]) = Given(todo) \ {f}
         /\ \A g \in Given(todo) \ {f} : [todo EXCEPT ![f] = None][g] = todo[g]
  BY DEF Inputs, Given

\* A field that is given has a value.
LEMMA GivenValue ==
  ASSUME NEW input \in Inputs, NEW f \in Given(input)
  PROVE  f \in Fields /\ input[f] \in Values
  BY DEF Inputs, Given

-----------------------------------------------------------------------------
(* What the steps leave of the operations in flight.                       *)

Others(c) == \A d \in Conns \ {c} : op'[d] = op[d]

\* The rest is well typed, and idle, or about an id.
OpSound(c) == IF Begun(c) THEN op[c].id \in Ids ELSE op[c] = Idle

\* An operation at rest is well typed.
LEMMA IdleTyped == Idle \in OpType /\ Idle.pc = "idle" /\ Idle.id = None /\ Idle.sole = FALSE
  BY EmptyIsInput DEF Idle, OpType

\* To begin a write changes, of the others, whether they are alone.
LEMMA BeginEffect ==
  ASSUME op \in [Conns -> OpType], NEW c \in Conns, NEW id \in Ids,
         NEW input \in Inputs, BeginWrite(c, id, input)
  PROVE  /\ op' \in [Conns -> OpType]
         /\ op'[c].pc = "clear" /\ op'[c].id = id /\ op'[c].todo = input
         /\ op'[c].sole <=> \A d \in Conns \ {c} : ~Writing(d, id)
         /\ \A d \in Conns \ {c} :
              /\ op'[d].pc = op[d].pc /\ op'[d].id = op[d].id
              /\ op'[d].todo = op[d].todo
              /\ op'[d].sole => op[d].sole /\ ~Writing(d, id)
              /\ op[d] = Idle => op'[d] = Idle
<1> DEFINE alone == \A e \in Conns \ {c} : ~Writing(e, id)
           mine == [pc |-> "clear", id |-> id, todo |-> input, sole |-> alone]
           theirs(d) == [op[d] EXCEPT !.sole = op[d].sole /\ ~Writing(d, id)]
<1>1. op' = [d \in Conns |-> IF d = c THEN mine ELSE theirs(d)]
  BY DEF BeginWrite
<1>2. mine \in OpType
  BY DEF OpType
<1>3. ASSUME NEW d \in Conns PROVE theirs(d) \in OpType
  BY DEF OpType
<1>4. op'[c] = mine /\ \A d \in Conns \ {c} : op'[d] = theirs(d)
  BY <1>1
<1>5. op' \in [Conns -> OpType]
  BY <1>1, <1>2, <1>3
<1>6. ASSUME NEW d \in Conns \ {c}
      PROVE  /\ theirs(d).pc = op[d].pc /\ theirs(d).id = op[d].id
             /\ theirs(d).todo = op[d].todo
             /\ theirs(d).sole = (op[d].sole /\ ~Writing(d, id))
  BY DEF OpType
<1>7. ASSUME NEW d \in Conns \ {c}, op[d] = Idle
      PROVE  op'[d] = Idle
  <2>1. theirs(d) = [Idle EXCEPT !.sole = FALSE]
    BY <1>7, IdleTyped
  <2> QED
    BY <2>1, <1>4 DEF Idle
<1>8. mine.pc = "clear" /\ mine.id = id /\ mine.todo = input /\ (mine.sole <=> alone)
  OBVIOUS
<1> QED
  BY <1>4, <1>5, <1>6, <1>7, <1>8

\* The DELETE done.
LEMMA ClearEffect ==
  ASSUME op \in [Conns -> OpType], NEW c \in Conns,
         op' = [op EXCEPT ![c].pc = "insert"]
  PROVE  /\ op' \in [Conns -> OpType] /\ Others(c)
         /\ op'[c].pc = "insert" /\ op'[c].id = op[c].id
         /\ op'[c].todo = op[c].todo /\ op'[c].sole = op[c].sole
  BY DEF OpType, Others

\* An INSERT done.
LEMMA InsertEffect ==
  ASSUME op \in [Conns -> OpType], NEW c \in Conns, NEW todo \in Inputs,
         op' = [op EXCEPT ![c].todo = todo]
  PROVE  /\ op' \in [Conns -> OpType] /\ Others(c)
         /\ op'[c].pc = op[c].pc /\ op'[c].id = op[c].id
         /\ op'[c].todo = todo /\ op'[c].sole = op[c].sole
  BY DEF OpType, Others

\* An operation at its end.
LEMMA FinishEffect ==
  ASSUME op \in [Conns -> OpType], NEW c \in Conns, Finish(c)
  PROVE  op' \in [Conns -> OpType] /\ Others(c) /\ op'[c] = Idle
  BY IdleTyped DEF Finish, Others

-----------------------------------------------------------------------------
(* Type correctness.                                                       *)

Typed == TypeOK /\ \A c \in Conns : OpSound(c)

\* An account that is not there is well typed.
LEMMA NoAccountTyped == NoAccount \in AccountType /\ NoAccount.state = "none"
                          /\ NoAccount.intact = FALSE
  BY EmptyIsInput DEF NoAccount, AccountType

\* It is so to begin with.
LEMMA TypedInit == Init => Typed
<1> SUFFICES ASSUME Init PROVE Typed
  OBVIOUS
<1>1. account \in [Ids -> AccountType] /\ op \in [Conns -> OpType]
  BY NoAccountTyped, IdleTyped DEF Init
<1>2. \A c \in Conns : op[c] = Idle
  BY DEF Init
<1> QED
  BY <1>1, <1>2, NoAccountTyped, IdleTyped
     DEF Init, Typed, TypeOK, OpSound, Begun, Exists
\* Purges leave accounts well typed.
LEMMA RemoveTyped ==
  ASSUME TypeOK, NEW c \in Conns, NEW ids \in SUBSET Ids, Remove(c, ids)
  PROVE  /\ account' \in [Ids -> AccountType]
         /\ \A id \in Ids : account'[id] = IF id \in ids THEN NoAccount
                                                       ELSE account[id]
         /\ secrets' \subseteq secrets
         /\ UNCHANGED <<second, op>>
  BY NoAccountTyped DEF Remove, Cascade, TypeOK

\* The bulk deletions are purges.
LEMMA DiscardCases ==
  ASSUME NEW c \in Conns, Discard(c)
  PROVE  \/ \E id \in Ids, from, to \in {"live", "trash"} : SetState(c, id, from, to)
         \/ \E ids \in SUBSET Ids : Remove(c, ids)
  BY DEF Discard, Delete, Restore, Purge, EmptyTrash, PurgeAll

\* The steps of a connection, with what is common to some of them, and any input
\* written: those of imports and of reads are such steps too.
AnyStep ==
  \/ \E c \in Conns, id \in Ids, input \in Inputs :
       Create(c, id, input) \/ Update(c, id, input)
  \/ \E c \in Conns, id \in Ids, from, to \in {"live", "trash"} :
       SetState(c, id, from, to)
  \/ \E c \in Conns, ids \in SUBSET Ids : Remove(c, ids)
  \/ \E c \in Conns : SecondFactor(c) \/ ClearSecrets(c) \/ InsertSecret(c)
  \/ \E c \in Conns : WriteEnds(c)
  \/ \E c \in Conns : InsertRefused(c) \/ StatementFails(c) \/ Crash(c)
  \/ UNCHANGED vars

\* A connection begins with inputs of the user, discards, or goes on.
LEMMA ConnectionCases ==
  ASSUME NEW c \in Conns, Begins(c) \/ Proceeds(c) \/ Fails(c) \/ Crash(c)
  PROVE  AnyStep
<1>1. CASE Discard(c)
  BY <1>1, DiscardCases DEF AnyStep
<1> QED
  BY <1>1, UserInputsAreInputs DEF Begins, Proceeds, Fails, AnyStep

\* So is every step of the accounts alone.
LEMMA StepCases == [Next]_vars => AnyStep
  BY ConnectionCases DEF Next, AnyStep

\* One account is rewritten.
LEMMA AccountEffect ==
  ASSUME account \in [Ids -> AccountType], NEW id \in Ids, NEW row \in AccountType,
         account' = [account EXCEPT ![id] = row]
  PROVE  /\ account' \in [Ids -> AccountType] /\ account'[id] = row
         /\ \A i \in Ids \ {id} : account'[i] = account[i]
  OBVIOUS

\* The row is written.
LEMMA WriteRowEffect ==
  ASSUME TypeOK, NEW c \in Conns, NEW id \in Ids, NEW input \in Inputs,
         Create(c, id, input) \/ Update(c, id, input)
  PROVE  /\ account' \in [Ids -> AccountType]
         /\ account'[id].state # "none" /\ account'[id].asked = input
         /\ account'[id].intact = FALSE
         /\ \A i \in Ids \ {id} : account'[i] = account[i]
         /\ BeginWrite(c, id, input) /\ UNCHANGED <<secrets, second>>
         /\ Create(c, id, input) => ~Exists(id)
         /\ ~Begun(c)
<1>1. PICK state \in {"live", "trash"} : WriteRow(id, state, input)
  <2>1. CASE Create(c, id, input)
    BY <2>1 DEF Create
  <2>2. CASE Update(c, id, input)
    BY <2>2 DEF Update, Exists, TypeOK, AccountType
  <2> QED
    BY <2>1, <2>2
<1> DEFINE row == [state |-> state, asked |-> input, intact |-> FALSE]
<1>2. row \in AccountType
  BY DEF AccountType
<1>3. account' = [account EXCEPT ![id] = row]
  BY <1>1 DEF WriteRow
<1>4. row.state # "none" /\ row.asked = input /\ row.intact = FALSE
  OBVIOUS
<1> HIDE DEF row
<1>5. /\ account' \in [Ids -> AccountType] /\ account'[id] = row
      /\ \A i \in Ids \ {id} : account'[i] = account[i]
  BY <1>2, <1>3, AccountEffect DEF TypeOK
<1>6. ~Begun(c) /\ BeginWrite(c, id, input) /\ UNCHANGED <<secrets, second>>
  BY DEF Create, Update
<1>7. Create(c, id, input) => ~Exists(id)
  BY DEF Create, FreshIds
<1> QED
  BY <1>4, <1>5, <1>6, <1>7

\* An account is moved to the trash or back.
LEMMA SetStateEffect ==
  ASSUME TypeOK, NEW c \in Conns, NEW id \in Ids, NEW from \in {"live", "trash"},
         NEW to \in {"live", "trash"}, SetState(c, id, from, to)
  PROVE  /\ account' \in [Ids -> AccountType]
         /\ Exists(id) /\ account'[id].state # "none"
         /\ account'[id].asked = account[id].asked
         /\ account'[id].intact = account[id].intact
         /\ \A i \in Ids \ {id} : account'[i] = account[i]
         /\ UNCHANGED <<secrets, second, op>>
  BY DEF SetState, TypeOK, AccountType, Exists

\* A write is at its end.
LEMMA WriteEndsEffect ==
  ASSUME Typed, NEW c \in Conns, WriteEnds(c)
  PROVE  /\ account' \in [Ids -> AccountType]
         /\ \A i \in Ids : /\ account'[i].state = account[i].state
                           /\ account'[i].asked = account[i].asked
                           /\ i # op[c].id \/ ~Exists(i) => account'[i] = account[i]
         /\ op[c].id \in Ids /\ Exists(op[c].id) => account'[op[c].id].intact = op[c].sole
         /\ Finish(c) /\ UNCHANGED <<secrets, second>>
<1>1. op[c].id \in Ids /\ op[c].sole \in BOOLEAN
  BY DEF WriteEnds, Typed, TypeOK, OpSound, Begun, OpType
<1>2. CASE Exists(op[c].id)
  BY <1>1, <1>2 DEF WriteEnds, Typed, TypeOK, AccountType
<1>3. CASE ~Exists(op[c].id)
  BY <1>1, <1>3 DEF WriteEnds, Typed, TypeOK
<1> QED
  BY <1>2, <1>3

\* A secret is stored.
LEMMA InsertSecretEffect ==
  ASSUME Typed, NEW c \in Conns, InsertSecret(c),
         NEW f, f = NextField(op[c].todo)
  PROVE  /\ op[c].id \in Ids /\ f \in Given(op[c].todo)
         /\ op[c].pc = "insert" /\ Exists(op[c].id)
         /\ op' \in [Conns -> OpType] /\ Others(c)
         /\ op'[c].pc = "insert" /\ op'[c].id = op[c].id
         /\ op'[c].sole = op[c].sole
         /\ Given(op'[c].todo) = Given(op[c].todo) \ {f}
         /\ \A g \in Given(op'[c].todo) : op'[c].todo[g] = op[c].todo[g]
         /\ \E r \in SecretType :
              /\ r.account = op[c].id /\ r.field = f /\ r.value = op[c].todo[f]
              /\ secrets' = secrets \cup {r}
         /\ UNCHANGED <<account, second>>
<1> DEFINE todo == op[c].todo
           r == [account |-> op[c].id, field |-> f, value |-> todo[f], by |-> c]
<1>1. op \in [Conns -> OpType] /\ op[c].id \in Ids /\ todo \in Inputs
  BY DEF InsertSecret, Typed, TypeOK, OpSound, Begun, OpType
<1>2. f \in Given(todo)
  BY <1>1, NextIsGiven DEF InsertSecret
<1>3. f \in Fields /\ todo[f] \in Values
  BY <1>1, <1>2, GivenValue
<1>4. /\ [todo EXCEPT ![f] = None] \in Inputs
      /\ Given([todo EXCEPT ![f] = None]) = Given(todo) \ {f}
      /\ \A g \in Given(todo) \ {f} : [todo EXCEPT ![f] = None][g] = todo[g]
  BY <1>1, <1>3, StoredInput
<1>5. op' = [op EXCEPT ![c].todo = [todo EXCEPT ![f] = None]]
  BY DEF InsertSecret
<1>6. /\ op' \in [Conns -> OpType] /\ Others(c)
      /\ op'[c].pc = op[c].pc /\ op'[c].id = op[c].id
      /\ op'[c].todo = [todo EXCEPT ![f] = None] /\ op'[c].sole = op[c].sole
  <2> DEFINE rest == [todo EXCEPT ![f] = None]
  <2>1. rest \in Inputs /\ op' = [op EXCEPT ![c].todo = rest]
    BY <1>4, <1>5
  <2> HIDE DEF rest, todo
  <2>2. /\ op' \in [Conns -> OpType] /\ Others(c)
        /\ op'[c].pc = op[c].pc /\ op'[c].id = op[c].id
        /\ op'[c].todo = rest /\ op'[c].sole = op[c].sole
    BY <1>1, <2>1, InsertEffect
  <2> QED
    BY <2>2 DEF rest
<1>7. secrets' = secrets \cup {r}
  BY DEF InsertSecret
<1>8. r \in SecretType /\ r.account = op[c].id /\ r.field = f /\ r.value = todo[f]
  BY <1>1, <1>3 DEF SecretType
<1>9. op[c].pc = "insert" /\ Exists(op[c].id) /\ UNCHANGED <<account, second>>
  BY DEF InsertSecret, ForeignKey
<1> QED
  BY <1>1, <1>2, <1>4, <1>6, <1>7, <1>8, <1>9

\* What one connection does leaves the operations of the others sound.
LEMMA OthersSound ==
  ASSUME NEW c \in Conns, Others(c), OpSound(c)', \A d \in Conns : OpSound(d)
  PROVE  \A d \in Conns : OpSound(d)'
  BY DEF Others, OpSound, Begun

\* Every step keeps the types.
LEMMA TypedStep == Typed /\ AnyStep => Typed'
<1> SUFFICES ASSUME Typed, AnyStep PROVE Typed'
  OBVIOUS
<1>1. TypeOK /\ op \in [Conns -> OpType] /\ \A d \in Conns : OpSound(d)
  BY DEF Typed, TypeOK
<1>2. ASSUME NEW c \in Conns, NEW id \in Ids, NEW input \in Inputs,
             Create(c, id, input) \/ Update(c, id, input)
      PROVE  Typed'
  <2>1. /\ account' \in [Ids -> AccountType] /\ account'[id].state # "none"
        /\ \A i \in Ids \ {id} : account'[i] = account[i]
        /\ BeginWrite(c, id, input) /\ UNCHANGED <<secrets, second>>
    BY <1>1, <1>2, WriteRowEffect
  <2>2. /\ op' \in [Conns -> OpType] /\ op'[c].pc = "clear" /\ op'[c].id = id
        /\ \A d \in Conns \ {c} : /\ op'[d].pc = op[d].pc /\ op'[d].id = op[d].id
                                  /\ op[d] = Idle => op'[d] = Idle
    BY <1>1, <2>1, BeginEffect
  <2>3. \A d \in Conns : OpSound(d)'
    BY <1>1, <2>2 DEF OpSound, Begun
  <2>4. TypeOK'
    BY <1>1, <2>1, <2>2 DEF TypeOK, Exists
  <2> QED
    BY <2>3, <2>4 DEF Typed
<1>3. ASSUME NEW c \in Conns, NEW id \in Ids, NEW from \in {"live", "trash"},
             NEW to \in {"live", "trash"}, SetState(c, id, from, to)
      PROVE  Typed'
  <2>1. /\ account' \in [Ids -> AccountType] /\ account'[id].state # "none"
        /\ \A i \in Ids \ {id} : account'[i] = account[i]
        /\ UNCHANGED <<secrets, second, op>>
    BY <1>1, <1>3, SetStateEffect
  <2> QED
    BY <1>1, <2>1 DEF Typed, TypeOK, Exists, OpSound, Begun
<1>4. ASSUME NEW c \in Conns, NEW ids \in SUBSET Ids, Remove(c, ids)
      PROVE  Typed'
  <2>1. /\ account' \in [Ids -> AccountType]
        /\ \A id \in Ids : account'[id] = IF id \in ids THEN NoAccount
                                                     ELSE account[id]
        /\ secrets' \subseteq secrets /\ UNCHANGED <<second, op>>
    BY <1>1, <1>4, RemoveTyped
  <2> QED
    BY <1>1, <2>1 DEF Typed, TypeOK, Exists, OpSound, Begun
<1>5. ASSUME NEW c \in Conns, SecondFactor(c) PROVE Typed'
  BY <1>1, <1>5 DEF SecondFactor, Typed, TypeOK, Exists, OpSound, Begun
<1>6. ASSUME NEW c \in Conns, ClearSecrets(c) PROVE Typed'
  <2>1. op' = [op EXCEPT ![c].pc = "insert"] /\ op[c].pc = "clear"
    BY <1>6 DEF ClearSecrets
  <2>2. /\ op' \in [Conns -> OpType] /\ Others(c)
        /\ op'[c].pc = "insert" /\ op'[c].id = op[c].id
    BY <1>1, <2>1, ClearEffect
  <2>3. OpSound(c)'
    BY <1>1, <2>1, <2>2 DEF OpSound, Begun
  <2>4. \A d \in Conns : OpSound(d)'
    BY <1>1, <2>2, <2>3, OthersSound
  <2>5. TypeOK'
    BY <1>1, <1>6, <2>2 DEF ClearSecrets, TypeOK, Exists
  <2> QED
    BY <2>4, <2>5 DEF Typed
<1>7. ASSUME NEW c \in Conns, InsertSecret(c) PROVE Typed'
  <2>1. /\ op[c].id \in Ids /\ op[c].pc = "insert"
        /\ op' \in [Conns -> OpType] /\ Others(c)
        /\ op'[c].pc = "insert" /\ op'[c].id = op[c].id
        /\ \E r \in SecretType : secrets' = secrets \cup {r}
        /\ UNCHANGED <<account, second>>
    BY <1>7, InsertSecretEffect
  <2>2. OpSound(c)'
    BY <2>1 DEF OpSound, Begun
  <2>3. \A d \in Conns : OpSound(d)'
    BY <1>1, <2>1, <2>2, OthersSound
  <2>4. TypeOK'
    BY <1>1, <2>1 DEF TypeOK, Exists
  <2> QED
    BY <2>3, <2>4 DEF Typed
<1>8. ASSUME NEW c \in Conns, Finish(c) PROVE op' \in [Conns -> OpType] /\ \A d \in Conns : OpSound(d)'
  <2>1. op' \in [Conns -> OpType] /\ Others(c) /\ op'[c] = Idle
    BY <1>1, <1>8, FinishEffect
  <2>2. OpSound(c)'
    BY <2>1, IdleTyped DEF OpSound, Begun
  <2> QED
    BY <1>1, <2>1, <2>2, OthersSound
<1>9. ASSUME NEW c \in Conns, WriteEnds(c) PROVE Typed'
  <2>1. /\ account' \in [Ids -> AccountType]
        /\ \A i \in Ids : /\ account'[i].state = account[i].state
                          /\ ~Exists(i) => account'[i] = account[i]
        /\ Finish(c) /\ UNCHANGED <<secrets, second>>
    BY <1>9, WriteEndsEffect
  <2> QED
    BY <1>1, <1>8, <2>1 DEF Typed, TypeOK, Exists
<1>10. ASSUME NEW c \in Conns, InsertRefused(c) \/ StatementFails(c) \/ Crash(c)
       PROVE  Typed'
  <2>1. /\ Finish(c) /\ UNCHANGED <<account, secrets>>
        /\ second' = second \/ second' = [second EXCEPT ![c] = FALSE]
    BY <1>10 DEF InsertRefused, StatementFails, Crash
  <2> QED
    BY <1>1, <1>8, <2>1 DEF Typed, TypeOK, Exists
<1>11. CASE UNCHANGED vars
  BY <1>1, <1>11 DEF vars, Typed, TypeOK, Exists, OpSound, Begun
<1> QED
  BY <1>2, <1>3, <1>4, <1>5, <1>6, <1>7, <1>9, <1>10, <1>11 DEF AnyStep

\* The state is typed at all times.
LEMMA AlwaysTyped == Spec => []Typed
  BY TypedInit, TypedStep, StepCases, PTL DEF Spec

\* Type correctness, for every instance.
THEOREM AccountsTypeCorrect == Spec => []TypeOK
<1>1. Typed => TypeOK
  BY DEF Typed
<1> QED
  BY <1>1, AlwaysTyped, PTL

-----------------------------------------------------------------------------
(* No secret outlives its account.                                         *)

\* A secret is stored under the foreign key, and a purge takes those of its
\* accounts along.
LEMMA NoOrphansStep == Typed /\ NoOrphans /\ AnyStep => NoOrphans'
<1> SUFFICES ASSUME Typed, NoOrphans, AnyStep PROVE NoOrphans'
  OBVIOUS
<1>1. TypeOK /\ \A r \in secrets : r.account \in Ids
  BY DEF Typed, TypeOK, SecretType
<1>2. ASSUME NEW c \in Conns, NEW id \in Ids, NEW input \in Inputs,
             Create(c, id, input) \/ Update(c, id, input)
      PROVE  NoOrphans'
  <2>1. /\ account'[id].state # "none" /\ UNCHANGED secrets
        /\ \A i \in Ids \ {id} : account'[i] = account[i]
    BY <1>1, <1>2, WriteRowEffect
  <2> QED
    BY <1>1, <2>1 DEF NoOrphans, Exists
<1>3. ASSUME NEW c \in Conns, NEW id \in Ids, NEW from \in {"live", "trash"},
             NEW to \in {"live", "trash"}, SetState(c, id, from, to)
      PROVE  NoOrphans'
  <2>1. /\ account'[id].state # "none" /\ UNCHANGED secrets
        /\ \A i \in Ids \ {id} : account'[i] = account[i]
    BY <1>1, <1>3, SetStateEffect
  <2> QED
    BY <1>1, <2>1 DEF NoOrphans, Exists
<1>4. ASSUME NEW c \in Conns, NEW ids \in SUBSET Ids, Remove(c, ids)
      PROVE  NoOrphans'
  <2>1. \A id \in Ids : account'[id] = IF id \in ids THEN NoAccount ELSE account[id]
    BY <1>1, <1>4, RemoveTyped
  <2>2. \A r \in secrets' : r \in secrets /\ r.account \notin ids
    BY <1>4 DEF Remove, Cascade
  <2> QED
    BY <1>1, <2>1, <2>2 DEF NoOrphans, Exists
<1>5. ASSUME NEW c \in Conns, SecondFactor(c) \/ ClearSecrets(c)
      PROVE  NoOrphans'
  BY <1>5 DEF SecondFactor, ClearSecrets, NoOrphans, Exists
<1>6. ASSUME NEW c \in Conns, InsertSecret(c) PROVE NoOrphans'
  <2>1. /\ Exists(op[c].id) /\ UNCHANGED account
        /\ \E r \in SecretType : r.account = op[c].id /\ secrets' = secrets \cup {r}
    BY <1>6, InsertSecretEffect
  <2> QED
    BY <2>1 DEF NoOrphans, Exists
<1>7. ASSUME NEW c \in Conns, WriteEnds(c) PROVE NoOrphans'
  <2>1. UNCHANGED secrets /\ \A i \in Ids : account'[i].state = account[i].state
    BY <1>7, WriteEndsEffect
  <2> QED
    BY <1>1, <2>1 DEF NoOrphans, Exists
<1>8. ASSUME NEW c \in Conns, InsertRefused(c) \/ StatementFails(c) \/ Crash(c)
      PROVE  NoOrphans'
  BY <1>8 DEF InsertRefused, StatementFails, Crash, NoOrphans, Exists
<1>9. CASE UNCHANGED vars
  BY <1>9 DEF vars, NoOrphans, Exists
<1> QED
  BY <1>2, <1>3, <1>4, <1>5, <1>6, <1>7, <1>8, <1>9 DEF AnyStep

\* However many connections create, update and purge, and wherever they stop,
\* every secret belongs to an account.
THEOREM NeverOrphans == Spec => []NoOrphans
<1>1. Init => NoOrphans
  BY DEF Init, NoOrphans
<1> QED
  BY <1>1, NoOrphansStep, StepCases, AlwaysTyped, PTL DEF Spec

-----------------------------------------------------------------------------
(* A write that nobody overlapped leaves exactly its input.                *)

WriteInv == SoleInv /\ WrittenInv /\ IntactInv

\* Who is alone in a write is in one.
LEMMA SoleWrites ==
  ASSUME Typed, NEW c \in Conns, op[c].sole
  PROVE  op[c].id \in Ids /\ op[c].pc \in {"clear", "insert"}
  BY IdleTyped DEF Typed, TypeOK, OpType, OpSound, Begun

\* No rows store no fields.
LEMMA HoldsNothing == \A input : Holds({}, input, {})
  BY DEF Holds

\* A row more stores a field more.
LEMMA HoldsMore ==
  ASSUME NEW rows, NEW input, NEW fields, Holds(rows, input, fields),
         NEW r, r.field \notin fields, r.value = input[r.field]
  PROVE  Holds(rows \cup {r}, input, fields \cup {r.field})
  BY DEF Holds

\* What is stored whole is as written.
LEMMA HoldsAsWritten ==
  ASSUME NEW id \in Ids,
         Holds(RowsOf(id), account[id].asked, Given(account[id].asked))
  PROVE  AsWritten(id)
  BY DEF Holds, AsWritten, Content

\* A step that leaves a write, its account's input and its rows alone leaves
\* what it has written.
LEMMA WrittenKept ==
  ASSUME NEW c \in Conns, Written(c),
         op'[c].pc = op[c].pc, op'[c].id = op[c].id, op'[c].todo = op[c].todo,
         account'[op[c].id].asked = account[op[c].id].asked,
         RowsOf(op[c].id)' = RowsOf(op[c].id)
  PROVE  Written(c)'
  BY DEF Written, Given

\* The same of an account that is intact.
LEMMA IntactKept ==
  ASSUME NEW id \in Ids, IntactInv, account'[id].intact => account[id].intact,
         account'[id].intact => account'[id].state # "none",
         account'[id].asked = account[id].asked, RowsOf(id)' = RowsOf(id),
         \A c \in Conns : op'[c].id = op[c].id \/ op'[c].id = None
  PROVE  (account[id].intact =>
           /\ Exists(id) /\ Holds(RowsOf(id), account[id].asked, Given(account[id].asked))
           /\ \A c \in Conns : ~Writing(c, id))'
<1> SUFFICES ASSUME account'[id].intact
             PROVE  /\ Exists(id)'
                    /\ Holds(RowsOf(id)', account'[id].asked, Given(account'[id].asked))
                    /\ \A c \in Conns : ~Writing(c, id)'
  BY DEF Given
<1>1. id # None
  BY AccountsAssumption
<1>2. /\ Holds(RowsOf(id), account[id].asked, Given(account[id].asked))
      /\ \A c \in Conns : op[c].id # id
  BY DEF IntactInv, Writing
<1>3. Exists(id)'
  BY DEF Exists
<1>4. Holds(RowsOf(id)', account'[id].asked, Given(account'[id].asked))
  BY <1>2
<1>5. \A c \in Conns : ~Writing(c, id)'
  BY <1>1, <1>2 DEF Writing
<1> QED
  BY <1>3, <1>4, <1>5

\* Nothing is stored to begin with.
LEMMA WriteInit == Init => WriteInv
<1> SUFFICES ASSUME Init PROVE WriteInv
  OBVIOUS
<1>1. \A c \in Conns : op[c] = Idle /\ op[c].sole = FALSE
  BY IdleTyped DEF Init
<1>2. \A id \in Ids : account[id].intact = FALSE
  BY NoAccountTyped DEF Init
<1> QED
  BY <1>1, <1>2 DEF WriteInv, SoleInv, WrittenInv, IntactInv

\* An operation that ends leaves the writes of the others as they were.
LEMMA FinishKeeps ==
  ASSUME Typed, WriteInv, NEW c \in Conns, Finish(c), UNCHANGED secrets,
         \A i \in Ids : /\ account'[i].state = account[i].state
                       /\ account'[i].asked = account[i].asked
  PROVE  /\ SoleInv' /\ WrittenInv'
         /\ \A d \in Conns : op'[d].id = op[d].id \/ op'[d].id = None
<1>1. Others(c) /\ op'[c] = Idle /\ op'[c].id = None /\ op'[c].sole = FALSE
  BY FinishEffect, IdleTyped DEF Typed, TypeOK
<1>2. SoleInv'
  <2> SUFFICES ASSUME NEW d \in Conns, NEW e \in Conns, op'[d].sole, d # e
               PROVE  op'[e].id # op'[d].id
    BY DEF SoleInv
  <2>1. d # c /\ op'[d] = op[d] /\ op[d].id # None
    BY <1>1, SoleWrites, AccountsAssumption DEF Others
  <2>2. CASE e = c
    BY <1>1, <2>1, <2>2
  <2>3. CASE e # c
    BY <1>1, <2>1, <2>3 DEF Others, WriteInv, SoleInv
  <2> QED
    BY <2>2, <2>3
<1>3. WrittenInv'
  <2> SUFFICES ASSUME NEW d \in Conns, op'[d].sole, Exists(op[d].id)'
               PROVE  Written(d)'
    BY DEF WrittenInv
  <2>1. d # c /\ op'[d] = op[d] /\ op[d].id \in Ids
    BY <1>1, SoleWrites DEF Others
  <2>2. Exists(op[d].id) /\ account'[op[d].id].asked = account[op[d].id].asked
    BY <2>1 DEF Exists
  <2>3. RowsOf(op[d].id)' = RowsOf(op[d].id)
    BY <2>1 DEF RowsOf
  <2> QED
    BY <2>1, <2>2, <2>3, WrittenKept DEF WriteInv, WrittenInv
<1> QED
  BY <1>1, <1>2, <1>3 DEF Others

\* Of the steps that begin a write.
LEMMA BeginsWriteInv ==
  ASSUME Typed, WriteInv, NEW c \in Conns, NEW id \in Ids, NEW input \in Inputs,
         Create(c, id, input) \/ Update(c, id, input)
  PROVE  WriteInv'
<1>1. /\ account'[id].asked = input /\ account'[id].intact = FALSE
      /\ \A i \in Ids \ {id} : account'[i] = account[i]
      /\ BeginWrite(c, id, input) /\ UNCHANGED <<secrets, second>>
  BY WriteRowEffect DEF Typed
<1>2. /\ op'[c].pc = "clear" /\ op'[c].id = id /\ op'[c].todo = input
      /\ op'[c].sole => \A d \in Conns \ {c} : ~Writing(d, id)
      /\ \A d \in Conns \ {c} :
           /\ op'[d].pc = op[d].pc /\ op'[d].id = op[d].id
           /\ op'[d].todo = op[d].todo
           /\ op'[d].sole => op[d].sole /\ ~Writing(d, id)
  BY <1>1, BeginEffect DEF Typed, TypeOK
<1>3. SoleInv'
  <2> SUFFICES ASSUME NEW d \in Conns, NEW e \in Conns, op'[d].sole, d # e
               PROVE  op'[e].id # op'[d].id
    BY DEF SoleInv
  <2>1. CASE d = c
    BY <1>2, <2>1 DEF Writing
  <2>2. CASE d # c /\ e = c
    BY <1>2, <2>2 DEF Writing
  <2>3. CASE d # c /\ e # c
    BY <1>2, <2>3 DEF WriteInv, SoleInv
  <2> QED
    BY <2>1, <2>2, <2>3
<1>4. WrittenInv'
  <2> SUFFICES ASSUME NEW d \in Conns, op'[d].sole, Exists(op[d].id)'
               PROVE  Written(d)'
    BY DEF WrittenInv
  <2>1. CASE d = c
    BY <1>1, <1>2, <2>1 DEF Written
  <2>2. CASE d # c
    <3>1. op[d].sole /\ op[d].id \in Ids /\ op[d].id # id
      BY <1>2, <2>2, SoleWrites DEF Writing
    <3>2. /\ op'[d].pc = op[d].pc /\ op'[d].id = op[d].id /\ op'[d].todo = op[d].todo
          /\ account'[op[d].id] = account[op[d].id] /\ Exists(op[d].id)
      BY <1>1, <1>2, <2>2, <3>1 DEF Exists
    <3>3. RowsOf(op[d].id)' = RowsOf(op[d].id)
      BY <1>1, <3>2 DEF RowsOf
    <3> QED
      BY <3>1, <3>2, <3>3, WrittenKept DEF WriteInv, WrittenInv
  <2> QED
    BY <2>1, <2>2
<1>5. IntactInv'
  <2> SUFFICES ASSUME NEW i \in Ids, account'[i].intact
               PROVE  /\ Exists(i)'
                      /\ Holds(RowsOf(i), account[i].asked, Given(account[i].asked))'
                      /\ \A d \in Conns : ~Writing(d, i)'
    BY DEF IntactInv
  <2>1. i # id /\ account'[i] = account[i]
    BY <1>1
  <2>2. RowsOf(i)' = RowsOf(i)
    BY <1>1 DEF RowsOf
  <2>3. /\ Exists(i) /\ Holds(RowsOf(i), account[i].asked, Given(account[i].asked))
        /\ \A d \in Conns : op[d].id # i
    BY <2>1 DEF WriteInv, IntactInv, Writing
  <2>4. \A d \in Conns : op'[d].id # i
    BY <1>2, <2>1, <2>3
  <2> QED
    BY <2>1, <2>2, <2>3, <2>4 DEF Exists, Writing, Given
<1> QED
  BY <1>3, <1>4, <1>5 DEF WriteInv

\* Of the steps that leave the writes alone.
LEMMA OutsideWriteInv ==
  ASSUME Typed, WriteInv, UNCHANGED op,
         \A i \in Ids :
           \/ /\ account'[i].state = "none"
              /\ account'[i].intact = FALSE
           \/ /\ account'[i].asked = account[i].asked
              /\ account'[i].intact = account[i].intact
              /\ Exists(i) <=> account'[i].state # "none"
              /\ RowsOf(i)' = RowsOf(i)
  PROVE  WriteInv'
<1>1. SoleInv'
  BY DEF WriteInv, SoleInv
<1>2. WrittenInv'
  <2> SUFFICES ASSUME NEW d \in Conns, op[d].sole, Exists(op[d].id)'
               PROVE  Written(d)'
    BY DEF WrittenInv
  <2>1. op[d].id \in Ids
    BY SoleWrites
  <2>2. /\ Exists(op[d].id) /\ account'[op[d].id].asked = account[op[d].id].asked
        /\ RowsOf(op[d].id)' = RowsOf(op[d].id)
    BY <2>1 DEF Exists
  <2> QED
    BY <2>1, <2>2, WrittenKept DEF WriteInv, WrittenInv
<1>3. IntactInv'
  <2>1. ASSUME NEW i \in Ids, account'[i].intact
        PROVE  /\ account'[i].asked = account[i].asked /\ account[i].intact
               /\ account'[i].state # "none" /\ RowsOf(i)' = RowsOf(i)
    BY <2>1 DEF WriteInv, IntactInv
  <2> SUFFICES ASSUME NEW i \in Ids, account'[i].intact
               PROVE  (account[i].intact =>
                        /\ Exists(i)
                        /\ Holds(RowsOf(i), account[i].asked, Given(account[i].asked))
                        /\ \A c \in Conns : ~Writing(c, i))'
    BY DEF IntactInv
  <2> QED
    BY <2>1, IntactKept DEF WriteInv
<1> QED
  BY <1>1, <1>2, <1>3 DEF WriteInv

\* Of the DELETE.
LEMMA ClearWriteInv ==
  ASSUME Typed, WriteInv, NEW c \in Conns, ClearSecrets(c)
  PROVE  WriteInv'
<1> DEFINE id == op[c].id
<1>1. /\ op'[c].pc = "insert" /\ op'[c].id = id /\ op'[c].todo = op[c].todo
      /\ op'[c].sole = op[c].sole /\ Others(c)
      /\ op[c].pc = "clear" /\ id \in Ids
  <2>1. op' = [op EXCEPT ![c].pc = "insert"] /\ op[c].pc = "clear"
    BY DEF ClearSecrets
  <2> QED
    BY <2>1, ClearEffect DEF Typed, TypeOK, OpSound, Begun
<1>2. UNCHANGED account /\ secrets' = secrets \ RowsOf(id)
  BY DEF ClearSecrets
<1>3. RowsOf(id)' = {}
  BY <1>1, <1>2 DEF RowsOf
<1>4. ASSUME NEW i \in Ids, i # id PROVE RowsOf(i)' = RowsOf(i)
  BY <1>2, <1>4 DEF RowsOf
<1>5. \A d \in Conns : op'[d].id = op[d].id /\ op'[d].sole = op[d].sole
  BY <1>1 DEF Others
<1>6. SoleInv'
  BY <1>5 DEF WriteInv, SoleInv
<1>7. WrittenInv'
  <2> SUFFICES ASSUME NEW d \in Conns, op[d].sole, Exists(op[d].id)
               PROVE  Written(d)'
    BY <1>2, <1>5 DEF WrittenInv, Exists
  <2>1. CASE d = c
    <3>1. op[c].todo = account[id].asked
      BY <1>1, <2>1 DEF WriteInv, WrittenInv, Written
    <3>2. Holds({}, account[id].asked, Given(account[id].asked) \ Given(op[c].todo))
      BY <3>1, HoldsNothing
    <3> QED
      BY <1>1, <1>2, <1>3, <2>1, <3>1, <3>2 DEF Written, Given
  <2>2. CASE d # c
    <3>1. op[d].id \in Ids /\ op[d].id # id /\ op'[d] = op[d]
      BY <1>1, <2>2, SoleWrites DEF WriteInv, SoleInv, Others
    <3>2. RowsOf(op[d].id)' = RowsOf(op[d].id)
      BY <1>2, <3>1 DEF RowsOf
    <3> QED
      BY <1>2, <3>1, <3>2, WrittenKept DEF WriteInv, WrittenInv
  <2> QED
    BY <2>1, <2>2
<1>8. IntactInv'
  <2> SUFFICES ASSUME NEW i \in Ids, account[i].intact
               PROVE  (account[i].intact =>
                        /\ Exists(i)
                        /\ Holds(RowsOf(i), account[i].asked, Given(account[i].asked))
                        /\ \A d \in Conns : ~Writing(d, i))'
    BY <1>2 DEF IntactInv
  <2>1. i # id /\ Exists(i)
    BY <1>1 DEF WriteInv, IntactInv, Writing
  <2> QED
    BY <1>2, <1>4, <1>5, <2>1, IntactKept DEF WriteInv, Exists
<1> QED
  BY <1>6, <1>7, <1>8 DEF WriteInv

\* Of an INSERT.
LEMMA InsertWriteInv ==
  ASSUME Typed, WriteInv, NEW c \in Conns, InsertSecret(c)
  PROVE  WriteInv'
<1> DEFINE id == op[c].id
           asked == account[id].asked
           f == NextField(op[c].todo)
<1>1. /\ id \in Ids /\ f \in Given(op[c].todo)
      /\ op[c].pc = "insert" /\ Exists(id) /\ Others(c)
      /\ op'[c].pc = "insert" /\ op'[c].id = id /\ op'[c].sole = op[c].sole
      /\ Given(op'[c].todo) = Given(op[c].todo) \ {f}
      /\ \A g \in Given(op'[c].todo) : op'[c].todo[g] = op[c].todo[g]
      /\ UNCHANGED <<account, second>>
  BY InsertSecretEffect
<1>2. PICK r \in SecretType :
        /\ r.account = id /\ r.field = f /\ r.value = op[c].todo[f]
        /\ secrets' = secrets \cup {r}
  BY InsertSecretEffect
<1> HIDE DEF f
<1>3. RowsOf(id)' = RowsOf(id) \cup {r}
  BY <1>1, <1>2 DEF RowsOf
<1>4. ASSUME NEW i \in Ids, i # id PROVE RowsOf(i)' = RowsOf(i)
  BY <1>2, <1>4 DEF RowsOf
<1>5. \A d \in Conns : op'[d].id = op[d].id /\ op'[d].sole = op[d].sole
  BY <1>1 DEF Others
<1>6. SoleInv'
  BY <1>5 DEF WriteInv, SoleInv
<1>7. WrittenInv'
  <2> SUFFICES ASSUME NEW d \in Conns, op[d].sole, Exists(op[d].id)
               PROVE  Written(d)'
    BY <1>1, <1>5 DEF WrittenInv, Exists
  <2>1. CASE d = c
    <3>1. /\ \A g \in Given(op[c].todo) : op[c].todo[g] = asked[g]
          /\ Holds(RowsOf(id), asked, Given(asked) \ Given(op[c].todo))
      BY <1>1, <2>1 DEF WriteInv, WrittenInv, Written
    <3>2. f \in Given(asked) /\ r.value = asked[r.field]
      BY <1>1, <1>2, <3>1 DEF Given
    <3>3. Holds(RowsOf(id) \cup {r}, asked,
                (Given(asked) \ Given(op[c].todo)) \cup {r.field})
      BY <1>1, <1>2, <3>1, <3>2, HoldsMore
    <3>4. (Given(asked) \ Given(op[c].todo)) \cup {r.field}
            = Given(asked) \ Given(op'[c].todo)
      BY <1>1, <1>2, <3>2
    <3>5. Holds(RowsOf(id)', asked, Given(asked) \ Given(op'[c].todo))
      BY <1>3, <3>3, <3>4
    <3>6. \A g \in Given(op'[c].todo) : op'[c].todo[g] = asked[g]
      BY <1>1, <3>1
    <3> QED
      BY <1>1, <2>1, <3>5, <3>6 DEF Written, Given
  <2>2. CASE d # c
    <3>1. op[d].id \in Ids /\ op[d].id # id /\ op'[d] = op[d]
      BY <1>1, <2>2, SoleWrites DEF WriteInv, SoleInv, Others
    <3>2. RowsOf(op[d].id)' = RowsOf(op[d].id)
      BY <1>2, <3>1 DEF RowsOf
    <3> QED
      BY <1>1, <3>1, <3>2, WrittenKept DEF WriteInv, WrittenInv
  <2> QED
    BY <2>1, <2>2
<1>8. IntactInv'
  <2> SUFFICES ASSUME NEW i \in Ids, account[i].intact
               PROVE  (account[i].intact =>
                        /\ Exists(i)
                        /\ Holds(RowsOf(i), account[i].asked, Given(account[i].asked))
                        /\ \A d \in Conns : ~Writing(d, i))'
    BY <1>1 DEF IntactInv
  <2>1. i # id /\ Exists(i)
    BY <1>1 DEF WriteInv, IntactInv, Writing
  <2> QED
    BY <1>1, <1>4, <1>5, <2>1, IntactKept DEF WriteInv, Exists
<1> QED
  BY <1>6, <1>7, <1>8 DEF WriteInv

\* Of the end of a write.
LEMMA EndsWriteInv ==
  ASSUME Typed, WriteInv, NEW c \in Conns, WriteEnds(c)
  PROVE  WriteInv'
<1> DEFINE id == op[c].id
<1>1. /\ \A i \in Ids : /\ account'[i].state = account[i].state
                        /\ account'[i].asked = account[i].asked
                        /\ i # id \/ ~Exists(i) => account'[i] = account[i]
      /\ id \in Ids /\ Exists(id) => account'[id].intact = op[c].sole
      /\ Finish(c) /\ UNCHANGED <<secrets, second>>
  BY WriteEndsEffect
<1>2. id \in Ids /\ op[c].pc = "insert" /\ op[c].todo = Empty /\ op[c].todo \in Inputs
  BY DEF WriteEnds, Typed, TypeOK, OpSound, Begun, OpType
<1>3. /\ SoleInv' /\ WrittenInv'
      /\ \A d \in Conns : op'[d].id = op[d].id \/ op'[d].id = None
  BY <1>1, FinishKeeps
<1>4. op'[c].id = None
  BY <1>1, FinishEffect, IdleTyped DEF Typed, TypeOK
<1>5. IntactInv'
  <2> SUFFICES ASSUME NEW i \in Ids, account'[i].intact
               PROVE  (account[i].intact =>
                        /\ Exists(i)
                        /\ Holds(RowsOf(i), account[i].asked, Given(account[i].asked))
                        /\ \A d \in Conns : ~Writing(d, i))'
    BY DEF IntactInv
  <2>1. RowsOf(i)' = RowsOf(i)
    BY <1>1 DEF RowsOf
  <2>2. CASE i = id /\ Exists(i)
    <3>1. op[c].sole
      BY <1>1, <1>2, <2>2
    <3>2. Given(op[c].todo) = {}
      BY <1>2, EmptyGivesNothing
    <3>3. Holds(RowsOf(i), account[i].asked, Given(account[i].asked) \ Given(op[c].todo))
      BY <1>2, <2>2, <3>1 DEF WriteInv, WrittenInv, Written
    <3>4. Given(account[i].asked) \ Given(op[c].todo) = Given(account[i].asked)
      BY <3>2
    <3>5. Holds(RowsOf(i)', account'[i].asked, Given(account'[i].asked))
      BY <1>1, <2>1, <3>3, <3>4
    <3>6. \A d \in Conns \ {c} : op[d].id # i
      BY <2>2, <3>1 DEF WriteInv, SoleInv
    <3>7. \A d \in Conns : op'[d].id # i
      BY <1>3, <1>4, <3>6, AccountsAssumption
    <3> QED
      BY <1>1, <2>2, <3>5, <3>7 DEF Exists, Writing, Given
  <2>3. CASE i # id \/ ~Exists(i)
    <3>1. account'[i] = account[i] /\ Exists(i)
      BY <1>1, <2>3 DEF WriteInv, IntactInv
    <3> QED
      BY <1>3, <2>1, <3>1, IntactKept DEF WriteInv, Exists
  <2> QED
    BY <2>2, <2>3
<1> QED
  BY <1>3, <1>5 DEF WriteInv

\* Every step keeps what the writes have stored.
LEMMA WriteStep == Typed /\ WriteInv /\ AnyStep => WriteInv'
<1> SUFFICES ASSUME Typed, WriteInv, AnyStep PROVE WriteInv'
  OBVIOUS
<1>1. TypeOK
  BY DEF Typed
<1>2. ASSUME NEW c \in Conns, NEW id \in Ids, NEW input \in Inputs,
             Create(c, id, input) \/ Update(c, id, input)
      PROVE  WriteInv'
  BY <1>2, BeginsWriteInv
<1>3. ASSUME NEW c \in Conns, NEW id \in Ids, NEW from \in {"live", "trash"},
             NEW to \in {"live", "trash"}, SetState(c, id, from, to)
      PROVE  WriteInv'
  <2>1. /\ Exists(id) /\ account'[id].state # "none"
        /\ account'[id].asked = account[id].asked
        /\ account'[id].intact = account[id].intact
        /\ \A i \in Ids \ {id} : account'[i] = account[i]
        /\ UNCHANGED <<secrets, second, op>>
    BY <1>1, <1>3, SetStateEffect
  <2> QED
    BY <2>1, OutsideWriteInv DEF Exists, RowsOf
<1>4. ASSUME NEW c \in Conns, NEW ids \in SUBSET Ids, Remove(c, ids)
      PROVE  WriteInv'
  <2>1. /\ \A i \in Ids : account'[i] = IF i \in ids THEN NoAccount ELSE account[i]
        /\ UNCHANGED <<second, op>>
    BY <1>1, <1>4, RemoveTyped
  <2>2. ASSUME NEW i \in Ids \ ids PROVE RowsOf(i)' = RowsOf(i)
    BY <1>4, <2>2 DEF Remove, Cascade, RowsOf
  <2>3. ASSUME NEW i \in Ids, i \in ids
        PROVE  account'[i].state = "none" /\ account'[i].intact = FALSE
    BY <2>1, <2>3, NoAccountTyped
  <2> QED
    BY <2>1, <2>2, <2>3, OutsideWriteInv DEF Exists
<1>5. ASSUME NEW c \in Conns, SecondFactor(c) PROVE WriteInv'
  BY <1>5, OutsideWriteInv DEF SecondFactor, Exists, RowsOf
<1>6. ASSUME NEW c \in Conns, InsertRefused(c) \/ StatementFails(c) \/ Crash(c)
      PROVE  WriteInv'
  <2>1. Finish(c) /\ UNCHANGED <<account, secrets>>
    BY <1>6 DEF InsertRefused, StatementFails, Crash
  <2>2. /\ SoleInv' /\ WrittenInv'
        /\ \A d \in Conns : op'[d].id = op[d].id \/ op'[d].id = None
    BY <2>1, FinishKeeps
  <2>3. IntactInv'
    <3> SUFFICES ASSUME NEW i \in Ids, account[i].intact
                 PROVE  (account[i].intact =>
                          /\ Exists(i)
                          /\ Holds(RowsOf(i), account[i].asked, Given(account[i].asked))
                          /\ \A d \in Conns : ~Writing(d, i))'
      BY <2>1 DEF IntactInv
    <3> QED
      BY <2>1, <2>2, IntactKept DEF WriteInv, IntactInv, Exists, RowsOf
  <2> QED
    BY <2>2, <2>3 DEF WriteInv
<1>7. CASE UNCHANGED vars
  BY <1>7, OutsideWriteInv DEF vars, Exists, RowsOf
<1> QED
  BY <1>2, <1>3, <1>4, <1>5, <1>6, <1>7, ClearWriteInv, InsertWriteInv,
     EndsWriteInv DEF AnyStep

\* Whatever other writes failed, overlapped or were purged before, a write that
\* ran to its end alone is the account.
THEOREM AlwaysStoredAsWritten == Spec => []StoredAsWritten
<1>1. Init => Typed /\ WriteInv
  BY TypedInit, WriteInit
<1>2. Typed /\ WriteInv /\ [Next]_vars => (Typed /\ WriteInv)'
  BY TypedStep, WriteStep, StepCases
<1>3. WriteInv => StoredAsWritten
  BY HoldsAsWritten DEF WriteInv, IntactInv, StoredAsWritten
<1> QED
  BY <1>1, <1>2, <1>3, PTL DEF Spec

-----------------------------------------------------------------------------
(* Reads.                                                                  *)

\* The inductive invariant: whatever was handed over, or is about to be, is
\* accounted for.
ReadsInv == ReadsTypeOK /\ RecordedInv /\ ShownIsAudited

\* A record of the log is of the types it is made from.
LEMMA RecordTyped ==
  ASSUME NEW id \in Ids \cup {None}, NEW f \in Shows, NEW row \in Nat
  PROVE  /\ RecordOf(id, f, row) \in RecordType
         /\ RecordOf(id, f, row).row = row /\ RecordOf(id, f, row).id = id
BY DEF RecordOf, RecordType

\* The fields of what a connection is at.
LEMMA LookFieldsTyped ==
  ASSUME ReadsTypeOK, NEW c \in Conns
  PROVE  /\ look[c].id \in Ids \cup {None} /\ look[c].field \in Shows
         /\ look[c].row \in Nat /\ look[c].row <= last /\ last \in Nat
BY DEF ReadsTypeOK, LookType

\* A connection that begins or goes on with something has made no record of it.
LEMMA SeeEffect ==
  ASSUME ReadsTypeOK, NEW c \in Conns, NEW pc \in {"row", "read", "erase"},
         NEW id \in Ids \cup {None}, NEW f \in Shows, See(c, pc, id, f)
  PROVE  /\ look' \in [Conns -> LookType] /\ look'[c].pc = pc /\ look'[c].row = 0
         /\ \A d \in Conns \ {c} : look'[d] = look[d]
<1> DEFINE l == [pc |-> pc, id |-> id, field |-> f, row |-> 0]
<1>1. l \in LookType /\ l.pc = pc /\ l.row = 0
  BY DEF LookType
<1>2. look' = [look EXCEPT ![c] = l]
  BY DEF See
<1> HIDE DEF l
<1> QED
  BY <1>1, <1>2 DEF ReadsTypeOK

\* A connection that is done is at nothing.
LEMMA LeaveEffect ==
  ASSUME ReadsTypeOK, NEW c \in Conns, Leave(c)
  PROVE  /\ look' \in [Conns -> LookType] /\ look'[c].pc = "idle" /\ look'[c].row = 0
         /\ \A d \in Conns \ {c} : look'[d] = look[d]
<1>1. NoLook \in LookType /\ NoLook.pc = "idle" /\ NoLook.row = 0
  BY DEF NoLook, LookType, Shows
<1> QED
  BY <1>1 DEF ReadsTypeOK, Leave

\* What is accounted for stays so when records with later rows are added and no
\* emptying is forgotten.
LEMMA AccountedStays ==
  ASSUME NEW s, Accounted(s), s.row \in Nat, s.row <= last, last \in Nat,
         log \subseteq log', \A r \in log' \ log : r.row = last + 1,
         silent \/ (\E c \in Conns : Erasing(c)) =>
           \/ silent' \/ (\E c \in Conns : Erasing(c)')
           \/ (\E r \in log' : r.id = None)
  PROVE  Accounted(s)'
<1>1. CASE s \in log
  BY <1>1 DEF Accounted
<1>2. CASE Emptied(s.row)
  <2>1. \A r \in log' : r.row > s.row
    <3> SUFFICES ASSUME NEW r \in log' PROVE r.row > s.row
      OBVIOUS
    <3>1. CASE r \in log
      BY <1>2, <3>1 DEF Emptied
    <3>2. CASE r \notin log
      <4>1. r.row = last + 1
        BY <3>2
      <4> QED
        BY <4>1
    <3> QED
      BY <3>1, <3>2
  <2>2. \/ silent' \/ (\E c \in Conns : Erasing(c)')
        \/ (\E r \in log' : r.id = None)
    BY <1>2 DEF Emptied
  <2> QED
    BY <2>1, <2>2 DEF Accounted, Emptied
<1> QED
  BY <1>1, <1>2 DEF Accounted

\* A record is added after all others.
LEMMA RecordAuditEffect ==
  ASSUME ReadsTypeOK, NEW id \in Ids \cup {None}, NEW f \in Shows, RecordAudit(id, f)
  PROVE  /\ last' = last + 1 /\ last' \in Nat
         /\ log \subseteq log' /\ RecordOf(id, f, last') \in log'
         /\ \A r \in log' \ log : r.row = last + 1
         /\ log' \subseteq RecordType /\ \A r \in log' : r.row <= last'
<1> DEFINE new == RecordOf(id, f, last')
<1>1. last \in Nat /\ last' = last + 1 /\ last' \in Nat /\ log' = log \cup {new}
  BY DEF ReadsTypeOK, RecordAudit
<1>2. new \in RecordType /\ new.row = last'
  BY <1>1, RecordTyped
<1> HIDE DEF new
<1>3. log' \subseteq RecordType
  BY <1>1, <1>2 DEF ReadsTypeOK
<1>4. ASSUME NEW r \in log' PROVE r.row <= last'
  <2>1. CASE r = new
    BY <1>1, <1>2, <2>1
  <2>2. CASE r \in log
    <3>1. r.row \in Nat /\ r.row <= last
      BY <2>2 DEF ReadsTypeOK, RecordType
    <3> QED
      BY <1>1, <3>1
  <2> QED
    BY <1>1, <2>1, <2>2
<1> QED
  BY <1>1, <1>2, <1>3, <1>4 DEF new

\* It is enough that a step keeps the types and what is accounted for, and that
\* what it hands over, or is about to, is accounted for.
LEMMA ReadsInvKept ==
  ASSUME ReadsInv, ReadsTypeOK',
         \A s : Accounted(s) /\ s.row \in Nat /\ s.row <= last => Accounted(s)',
         \A s \in shown' \ shown : Accounted(s)',
         \A c \in Conns : look'[c].pc = "recorded" =>
           \/ look'[c] = look[c]
           \/ Accounted(RecordOf(look[c].id, look[c].field, look[c].row))'
  PROVE  ReadsInv'
<1>1. ShownIsAudited'
  <2> SUFFICES ASSUME NEW s \in shown' PROVE Accounted(s)'
    BY DEF ShownIsAudited
  <2>1. CASE s \in shown
    BY <2>1 DEF ReadsInv, ReadsTypeOK, ShownIsAudited, RecordType
  <2> QED
    BY <2>1
<1>2. RecordedInv'
  <2> SUFFICES ASSUME NEW c \in Conns, look'[c].pc = "recorded"
               PROVE  Accounted(RecordOf(look[c].id, look[c].field, look[c].row))'
    BY DEF RecordedInv
  <2>1. CASE look'[c] = look[c]
    <3> DEFINE s == RecordOf(look[c].id, look[c].field, look[c].row)
    <3>1. Accounted(s)
      BY <2>1 DEF ReadsInv, RecordedInv
    <3>2. s.row \in Nat /\ s.row <= last
      BY LookFieldsTyped, RecordTyped DEF ReadsInv
    <3>3. PICK t : t = s
      OBVIOUS
    <3>4. Accounted(t)'
      BY <3>1, <3>2, <3>3
    <3>5. RecordOf(look'[c].id, look'[c].field, look'[c].row) = t
      BY <2>1, <3>3
    <3> QED
      BY <3>4, <3>5 DEF Accounted, Emptied
  <2> QED
    BY <2>1
<1> QED
  BY <1>1, <1>2 DEF ReadsInv

\* A step that adds no record and ends no emptying without a word.
LEMMA UnrecordedKeeps ==
  ASSUME ReadsInv, UNCHANGED <<log, last>>, silent' \in BOOLEAN,
         look' \in [Conns -> LookType],
         shown' \subseteq RecordType, \A s \in shown' \ shown : Accounted(s) /\ s.row <= last,
         \A c \in Conns : look'[c].row \in {0, look[c].row},
         \A c \in Conns : look'[c].pc = "recorded" => look'[c] = look[c],
         silent \/ (\E c \in Conns : Erasing(c)) =>
           silent' \/ (\E c \in Conns : Erasing(c)')
  PROVE  ReadsInv'
<1>1. ReadsTypeOK'
  <2>1. \A c \in Conns : look'[c].row <= last
    BY LookFieldsTyped DEF ReadsInv
  <2>2. \A r \in shown' : r.row <= last
    BY DEF ReadsInv, ReadsTypeOK
  <2> QED
    BY <2>1, <2>2 DEF ReadsInv, ReadsTypeOK
<1>2. last \in Nat
  BY DEF ReadsInv, ReadsTypeOK
<1>3. \A s : Accounted(s) /\ s.row \in Nat /\ s.row <= last => Accounted(s)'
  BY <1>2, AccountedStays
<1>4. \A s \in shown' \ shown : Accounted(s)'
  BY <1>3 DEF RecordType
<1> QED
  BY <1>1, <1>3, <1>4, ReadsInvKept

\* An operation that ends before its end: if it was an emptying, that is silent.
LEMMA StopsKeeps ==
  ASSUME ReadsInv, NEW c \in Conns, Stops(c)
  PROVE  ReadsInv'
<1>1. ReadsTypeOK
  BY DEF ReadsInv
<1>2. /\ silent' = (silent \/ Erasing(c)) /\ Leave(c)
      /\ UNCHANGED <<log, last, shown>>
  BY DEF Stops
<1>3. /\ look' \in [Conns -> LookType] /\ look'[c].pc = "idle" /\ look'[c].row = 0
      /\ \A d \in Conns \ {c} : look'[d] = look[d]
  BY <1>1, <1>2, LeaveEffect
<1>4. silent' \in BOOLEAN
  BY <1>1, <1>2 DEF ReadsTypeOK, Erasing
<1>5. silent \/ (\E d \in Conns : Erasing(d)) => silent' \/ (\E d \in Conns : Erasing(d)')
  BY <1>2, <1>3 DEF Erasing
<1> QED
  BY <1>1, <1>2, <1>3, <1>4, <1>5, UnrecordedKeeps DEF ReadsTypeOK

\* What is handed over, and what is about to be, is accounted for after each step
\* of a read or of an emptying.
LEMMA ReadingKeeps ==
  ASSUME ReadsInv, NEW c \in Conns, Reading(c)
  PROVE  ReadsInv'
<1>1. ReadsTypeOK
  BY DEF ReadsInv
<1>2. CASE (\E id \in Ids : DetailRow(c, id) \/ \E f \in Fields : Reveal(c, id, f))
           \/ DetailFields(c)
  <2>1. PICK id \in Ids \cup {None}, f \in Shows, pc \in {"row", "read"} :
          /\ See(c, pc, id, f) /\ UNCHANGED <<log, last, shown, silent>>
          /\ ~Erasing(c)
    <3>1. CASE \E id \in Ids : DetailRow(c, id) \/ \E f \in Fields : Reveal(c, id, f)
      BY <3>1 DEF DetailRow, Reveal, Shows, Erasing, Free, Looking, NoLook
    <3>2. CASE DetailFields(c)
      BY <1>1, <3>2, LookFieldsTyped DEF DetailFields, Shows, Erasing
    <3> QED
      BY <1>2, <3>1, <3>2
  <2>2. /\ look' \in [Conns -> LookType] /\ look'[c].pc = pc /\ look'[c].row = 0
        /\ \A d \in Conns \ {c} : look'[d] = look[d]
    BY <1>1, <2>1, SeeEffect
  <2>3. silent \/ (\E d \in Conns : Erasing(d)) => silent' \/ (\E d \in Conns : Erasing(d)')
    BY <2>1, <2>2 DEF Erasing
  <2> QED
    BY <1>1, <2>1, <2>2, <2>3, UnrecordedKeeps DEF ReadsTypeOK
<1>3. CASE Record(c)
  <2>1. /\ RecordAudit(look[c].id, look[c].field) /\ UNCHANGED <<shown, silent>>
        /\ look' = [look EXCEPT ![c].pc = "recorded", ![c].row = last']
        /\ look[c].pc = "read"
    BY <1>3 DEF Record, Recorded
  <2>2. look[c].id \in Ids \cup {None} /\ look[c].field \in Shows /\ last \in Nat
    BY <1>1, LookFieldsTyped
  <2>3. /\ last' = last + 1 /\ last' \in Nat /\ log \subseteq log'
        /\ RecordOf(look[c].id, look[c].field, last') \in log'
        /\ \A r \in log' \ log : r.row = last + 1
        /\ log' \subseteq RecordType /\ \A r \in log' : r.row <= last'
    BY <1>1, <2>1, <2>2, RecordAuditEffect
  <2>4. /\ look' \in [Conns -> LookType] /\ look'[c].pc = "recorded"
        /\ look'[c].row = last' /\ look'[c].id = look[c].id
        /\ look'[c].field = look[c].field
        /\ \A d \in Conns \ {c} : look'[d] = look[d]
    BY <1>1, <2>1, <2>3 DEF ReadsTypeOK, LookType
  <2>5. ReadsTypeOK'
    <3>1. \A r \in shown : r.row \in Nat /\ r.row <= last
      BY <1>1 DEF ReadsTypeOK, RecordType
    <3>2. \A r \in shown : r.row <= last'
      BY <2>2, <2>3, <3>1
    <3>3. \A d \in Conns : look'[d].row <= last'
      BY <1>1, <2>2, <2>3, <2>4, LookFieldsTyped
    <3> QED
      BY <1>1, <2>1, <2>3, <2>4, <3>2, <3>3 DEF ReadsTypeOK
  <2>6. \A s : Accounted(s) /\ s.row \in Nat /\ s.row <= last => Accounted(s)'
    <3>1. \A d \in Conns : Erasing(d) => Erasing(d)'
      BY <2>1, <2>4 DEF Erasing
    <3> QED
      BY <2>1, <2>2, <2>3, <3>1, AccountedStays
  <2>7. Accounted(RecordOf(look[c].id, look[c].field, look[c].row))'
    BY <2>3, <2>4 DEF Accounted
  <2>8. \A d \in Conns : look'[d].pc = "recorded" =>
          \/ look'[d] = look[d]
          \/ Accounted(RecordOf(look[d].id, look[d].field, look[d].row))'
    BY <2>4, <2>7
  <2> QED
    BY <2>1, <2>5, <2>6, <2>8, ReadsInvKept
<1>4. CASE HandOver(c)
  <2> DEFINE s == RecordOf(look[c].id, look[c].field, look[c].row)
  <2>1. /\ look[c].pc = "recorded" /\ shown' = shown \cup {s} /\ Leave(c)
        /\ UNCHANGED <<log, last, silent>>
    BY <1>4 DEF HandOver
  <2>2. s \in RecordType /\ s.row <= last /\ Accounted(s)
    <3>1. /\ look[c].id \in Ids \cup {None} /\ look[c].field \in Shows
          /\ look[c].row \in Nat /\ look[c].row <= last
      BY <1>1, LookFieldsTyped
    <3>2. s \in RecordType /\ s.row = look[c].row
      BY <3>1, RecordTyped
    <3>3. Accounted(s)
      BY <2>1 DEF ReadsInv, RecordedInv
    <3> QED
      BY <3>1, <3>2, <3>3
  <2>3. /\ look' \in [Conns -> LookType] /\ look'[c].pc = "idle" /\ look'[c].row = 0
        /\ \A d \in Conns \ {c} : look'[d] = look[d]
    BY <1>1, <2>1, LeaveEffect
  <2> HIDE DEF s
  <2>4. silent \/ (\E d \in Conns : Erasing(d)) => silent' \/ (\E d \in Conns : Erasing(d)')
    BY <2>1, <2>3 DEF Erasing
  <2>5. shown' \subseteq RecordType /\ \A t \in shown' \ shown : Accounted(t) /\ t.row <= last
    BY <1>1, <2>1, <2>2 DEF ReadsTypeOK
  <2> QED
    BY <1>1, <2>1, <2>3, <2>4, <2>5, UnrecordedKeeps DEF ReadsTypeOK
<1>5. CASE PurgeLog(c)
  <2>1. log' = {} /\ See(c, "erase", None, None) /\ UNCHANGED <<last, shown, silent>>
    BY <1>5 DEF PurgeLog
  <2>2. /\ look' \in [Conns -> LookType] /\ look'[c].pc = "erase" /\ look'[c].row = 0
        /\ \A d \in Conns \ {c} : look'[d] = look[d]
    BY <1>1, <2>1, SeeEffect DEF Shows
  <2>3. \A s : Accounted(s)'
    BY <2>1, <2>2 DEF Accounted, Emptied, Erasing
  <2>4. ReadsTypeOK'
    <3>1. \A d \in Conns : look'[d].row <= last'
      BY <1>1, <2>1, <2>2, LookFieldsTyped
    <3> QED
      BY <1>1, <2>1, <2>2, <3>1 DEF ReadsTypeOK
  <2> QED
    BY <2>1, <2>2, <2>3, <2>4, ReadsInvKept
<1>6. CASE PurgeRecorded(c)
  <2>1. RecordAudit(None, None) /\ silent' = FALSE /\ Leave(c) /\ UNCHANGED shown
    BY <1>6 DEF PurgeRecorded
  <2>2. last \in Nat /\ None \in Shows
    BY <1>1, LookFieldsTyped DEF Shows
  <2>3. /\ last' = last + 1 /\ last' \in Nat /\ log \subseteq log'
        /\ RecordOf(None, None, last') \in log'
        /\ \A r \in log' \ log : r.row = last + 1
        /\ log' \subseteq RecordType /\ \A r \in log' : r.row <= last'
    BY <1>1, <2>1, <2>2, RecordAuditEffect
  <2>4. /\ look' \in [Conns -> LookType] /\ look'[c].pc = "idle" /\ look'[c].row = 0
        /\ \A d \in Conns \ {c} : look'[d] = look[d]
    BY <1>1, <2>1, LeaveEffect
  <2>5. ReadsTypeOK'
    <3>1. \A r \in shown : r.row \in Nat /\ r.row <= last
      BY <1>1 DEF ReadsTypeOK, RecordType
    <3>2. \A r \in shown : r.row <= last'
      BY <2>2, <2>3, <3>1
    <3>3. \A d \in Conns : look'[d].row <= last'
      BY <1>1, <2>2, <2>3, <2>4, LookFieldsTyped
    <3> QED
      BY <1>1, <2>1, <2>3, <2>4, <3>2, <3>3 DEF ReadsTypeOK
  <2>6. \E r \in log' : r.id = None
    BY <2>2, <2>3, RecordTyped
  <2>7. \A s : Accounted(s) /\ s.row \in Nat /\ s.row <= last => Accounted(s)'
    BY <2>2, <2>3, <2>6, AccountedStays
  <2> QED
    BY <2>1, <2>4, <2>5, <2>7, ReadsInvKept
<1>7. CASE LookFails(c)
  BY <1>7, StopsKeeps DEF LookFails
<1> QED
  BY <1>2, <1>3, <1>4, <1>5, <1>6, <1>7 DEF Reading

\* A read changes nothing of the accounts, so that what holds of them holds
\* with reads in between (accounts_read.rs).
THEOREM ReadsImplementAccounts == ReadsSpec => Spec
<1>1. ReadsInit => Init
  BY DEF ReadsInit
<1>2. [ReadsNext]_readvars => [Next]_vars
  <2>1. ASSUME NEW c \in Conns, Reading(c) PROVE UNCHANGED vars
    BY <2>1 DEF Reading, DetailRow, Reveal, DetailFields, Record, HandOver,
                PurgeLog, PurgeRecorded, LookFails
  <2>2. ASSUME NEW c \in Conns, Besides(c) PROVE Next
    BY <2>2 DEF Besides, Next
  <2> QED
    BY <2>1, <2>2 DEF ReadsNext, readvars
<1> QED
  BY <1>1, <1>2, PTL DEF ReadsSpec, Spec

\* Whatever was handed over is accounted for in the log, by its own record or by
\* one of a later emptying, for any connections, accounts and fields, however the
\* statements of reads and emptyings interleave and wherever they stop; an
\* emptying that stopped between its two statements is excepted until the next
\* one (accounts_read.rs:19-58, 89-113, compliance.rs:59-63).
THEOREM ShownAlwaysAudited == ReadsSpec => []ShownIsAudited
<1>1. ReadsInit => ReadsInv
  <2> SUFFICES ASSUME ReadsInit PROVE ReadsInv
    OBVIOUS
  <2>1. NoLook \in LookType /\ NoLook.pc = "idle" /\ NoLook.row = 0
    BY DEF NoLook, LookType, Shows
  <2>2. look \in [Conns -> LookType] /\ \A c \in Conns : look[c] = NoLook
    BY <2>1 DEF ReadsInit
  <2>3. \A c \in Conns : look[c].row <= 0 /\ look[c].pc # "recorded"
    BY <2>1, <2>2
  <2>4. log = {} /\ shown = {} /\ last = 0 /\ silent = FALSE
    BY DEF ReadsInit
  <2> QED
    BY <2>2, <2>3, <2>4 DEF ReadsInv, ReadsTypeOK, RecordedInv, ShownIsAudited
<1>2. ReadsInv /\ [ReadsNext]_readvars => ReadsInv'
  <2> SUFFICES ASSUME ReadsInv, [ReadsNext]_readvars PROVE ReadsInv'
    OBVIOUS
  <2>1. CASE UNCHANGED reading
    BY <2>1 DEF reading, ReadsInv, ReadsTypeOK, RecordedInv, ShownIsAudited,
                Accounted, Emptied, Erasing
  <2>2. ASSUME NEW c \in Conns, Besides(c) PROVE ReadsInv'
    BY <2>1, <2>2, StopsKeeps DEF Besides
  <2> QED
    BY <2>1, <2>2, ReadingKeeps DEF ReadsNext, readvars
<1>3. ReadsInv => ShownIsAudited
  BY DEF ReadsInv
<1> QED
  BY <1>1, <1>2, <1>3, PTL DEF ReadsSpec

-----------------------------------------------------------------------------
(* Backup.                                                                 *)

\* What the imports are of, as the type says it of each.
ImportOK(c) ==
  /\ import[c].queue \subseteq Entries
  /\ ~import[c].active => import[c].queue = {} /\ import[c].notes = <<>>
  /\ import[c].notes # <<>> => import[c].asked # <<>>

\* No import is under way to begin with.
LEMMA NoImportTyped ==
  /\ NoImport \in ImportType /\ ~NoImport.active /\ NoImport.queue = {}
  /\ NoImport.notes = <<>> /\ ~NoImport.whole
  /\ \A i \in ImportType : i.active => i # NoImport
<1>1. /\ NoImport \in ImportType /\ ~NoImport.active /\ NoImport.queue = {}
      /\ NoImport.notes = <<>> /\ ~NoImport.whole
  BY DEF NoImport, ImportType
<1> QED
  BY <1>1

\* An import that is disturbed keeps all but its being whole.
LEMMA Disturbed ==
  ASSUME NEW i \in ImportType, NEW whole \in BOOLEAN, NEW j,
         j = [i EXCEPT !.whole = whole]
  PROVE  /\ j \in ImportType /\ j.active = i.active /\ j.queue = i.queue
         /\ j.whole = whole /\ j.notes = i.notes /\ j.made = i.made
         /\ j.asked = i.asked
BY DEF ImportType

\* Steps that disturb no import.
Quiet(c) == Proceeds(c) \/ Crash(c) \/ UNCHANGED vars

\* A step of c, by its effect on the imports of the others.
Advances(c) ==
  /\ import' \in [Conns -> ImportType] /\ ImportOK(c)'
  /\ \A d \in Conns \ {c} :
       \/ import'[d] = import[d] /\ Quiet(c)
       \/ /\ import'[d].active = import[d].active
          /\ import'[d].queue = import[d].queue /\ import'[d].notes = import[d].notes
          /\ import'[d].asked = import[d].asked /\ ~import'[d].whole

\* c changes its own import.
LEMMA OwnImport ==
  ASSUME BackupTypeOK, NEW c \in Conns, NEW i \in ImportType, Quiet(c),
         import' = [import EXCEPT ![c] = i], UNCHANGED backup,
         i.queue \subseteq Entries,
         ~i.active => i.queue = {} /\ i.notes = <<>>,
         i.notes # <<>> => i.asked # <<>>
  PROVE  Advances(c) /\ import'[c] = i
<1>1. /\ import'[c] = i /\ \A d \in Conns \ {c} : import'[d] = import[d]
      /\ import' \in [Conns -> ImportType]
  BY DEF BackupTypeOK
<1>2. Entries' = Entries
  BY DEF Entries, backup
<1> QED
  BY <1>1, <1>2 DEF Advances, ImportOK

\* c changes its own import, and disturbs the others.
LEMMA OtherImports ==
  ASSUME BackupTypeOK, NEW c \in Conns, NEW i \in ImportType, UNCHANGED backup,
         import' = [d \in Conns |->
                      IF d = c THEN i ELSE [import[d] EXCEPT !.whole = FALSE]],
         i.queue \subseteq Entries,
         ~i.active => i.queue = {} /\ i.notes = <<>>,
         i.notes # <<>> => i.asked # <<>>
  PROVE  Advances(c) /\ import'[c] = i
<1>1. ASSUME NEW d \in Conns \ {c}
      PROVE  /\ import'[d] \in ImportType /\ import'[d].active = import[d].active
             /\ import'[d].queue = import[d].queue
             /\ import'[d].notes = import[d].notes
             /\ import'[d].asked = import[d].asked /\ ~import'[d].whole
  <2>1. PICK whole \in BOOLEAN : whole = FALSE
    OBVIOUS
  <2>2. import[d] \in ImportType /\ import'[d] = [import[d] EXCEPT !.whole = whole]
    BY <2>1 DEF BackupTypeOK
  <2>3. import'[d].whole = whole
    BY <2>2, Disturbed
  <2> QED
    BY <2>1, <2>2, <2>3, Disturbed
<1>2. import'[c] = i
  OBVIOUS
<1>3. import' \in [Conns -> ImportType]
  BY <1>1, <1>2
<1>4. Entries' = Entries
  BY DEF Entries, backup
<1> QED
  BY <1>1, <1>2, <1>3, <1>4 DEF Advances, ImportOK

\* c disturbs the imports of the others, and keeps its own or fails.
LEMMA DisturbEffect ==
  ASSUME BackupTypeOK, NEW c \in Conns, NEW fails \in BOOLEAN, UNCHANGED backup,
         Disturb(c, fails)
  PROVE  /\ Advances(c) /\ import'[c].active = import[c].active
         /\ import'[c].queue = import[c].queue /\ import'[c].asked = import[c].asked
         /\ fails => ~import'[c].whole
<1>1. ASSUME NEW d \in Conns
      PROVE  /\ import'[d] \in ImportType /\ import'[d].active = import[d].active
             /\ import'[d].queue = import[d].queue
             /\ import'[d].notes = import[d].notes
             /\ import'[d].asked = import[d].asked
             /\ import'[d].whole => d = c /\ ~fails
  <2>1. PICK whole \in BOOLEAN : whole <=> import[d].whole /\ d = c /\ ~fails
    OBVIOUS
  <2>2. import'[d] = [import[d] EXCEPT !.whole = whole] /\ import[d] \in ImportType
    <3>1. import'[d] = [import[d] EXCEPT !.whole = import[d].whole /\ d = c /\ ~fails]
      BY DEF Disturb
    <3>2. import[d] \in ImportType
      BY DEF BackupTypeOK
    <3>3. (import[d].whole /\ d = c /\ ~fails) = whole
      BY <2>1
    <3> QED
      BY <3>1, <3>2, <3>3
  <2>3. /\ import'[d] \in ImportType /\ import'[d].active = import[d].active
        /\ import'[d].queue = import[d].queue
        /\ import'[d].notes = import[d].notes
        /\ import'[d].asked = import[d].asked /\ import'[d].whole = whole
    BY <2>2, Disturbed
  <2>4. whole => d = c /\ ~fails
    BY <2>1
  <2> QED
    BY <2>3, <2>4
<1>2. import' \in [Conns -> ImportType]
  BY <1>1 DEF Disturb
<1>3. Entries' = Entries
  BY DEF Entries, backup
<1>4. ImportOK(c)
  BY DEF BackupTypeOK, ImportOK
<1> QED
  BY <1>1, <1>2, <1>3, <1>4 DEF Advances, ImportOK

\* A step of c, by its effect on its own import: an entry is taken from its
\* queue, or it has only begun, or goes on, or is none that restores.
Own(c) ==
  \/ \E e \in import[c].queue, id \in Ids :
       /\ Create(c, id, file[e]) /\ import[c].active = import'[c].active
       /\ import[c].whole = import'[c].whole /\ import[c].asked = import'[c].asked
       /\ import'[c].queue = import[c].queue \ {e}
  \/ import'[c].queue = Entries
  \/ import'[c] = import[c] /\ Proceeds(c)
  \/ ~import'[c].active \/ ~import'[c].whole \/ import'[c].asked # <<>>

ImportStep(c) ==
  \/ ImportBegin(c) \/ ImportEntry(c) \/ ImportEnd(c)
  \/ NotesBegin(c) \/ NotesEntry(c) \/ NotesRefused(c)
  \/ Starts(c) \/ Goes(c)

\* The effects of each step but the export on the imports.
LEMMA ImportCases ==
  ASSUME BackupTypeOK, NEW c \in Conns, ImportStep(c)
  PROVE  Advances(c) /\ Own(c) /\ UNCHANGED backup
<1>1. import[c] \in ImportType /\ ImportOK(c)
  BY DEF BackupTypeOK, ImportOK
<1>2. /\ page.notes \in Seq(Inputs \cup {None})
      /\ page.asked \in Seq(Inputs) /\ page.asked # <<>>
  BY DEF BackupTypeOK
<1>3. CASE ImportBegin(c)
  <2>0. PICK yes \in BOOLEAN : yes = TRUE
    OBVIOUS
  <2> DEFINE i == [NoImport EXCEPT !.active = yes, !.queue = Entries, !.whole = yes]
  <2>1. /\ i \in ImportType /\ i.queue = Entries /\ i.active /\ i.notes = <<>>
    BY <2>0, NoImportTyped DEF ImportType, Entries
  <2>2. import' = [import EXCEPT ![c] = i] /\ Quiet(c) /\ UNCHANGED backup
    BY <1>3, <2>0 DEF ImportBegin, Quiet
  <2> HIDE DEF i
  <2>3. Advances(c) /\ import'[c] = i
    BY <2>1, <2>2, OwnImport
  <2> QED
    BY <2>1, <2>2, <2>3 DEF Own
<1>4. CASE NotesBegin(c)
  <2>0. PICK yes \in BOOLEAN : yes = TRUE
    OBVIOUS
  <2> DEFINE i == [NoImport EXCEPT !.active = yes, !.whole = yes,
                                   !.notes = page.notes, !.asked = page.asked]
  <2>1. i \in ImportType /\ i.queue = {} /\ i.active /\ i.asked # <<>>
    BY <1>2, <2>0, NoImportTyped DEF ImportType
  <2>2. import' = [import EXCEPT ![c] = i] /\ Quiet(c) /\ UNCHANGED backup
    BY <1>4, <2>0 DEF NotesBegin, Quiet
  <2> HIDE DEF i
  <2>3. Advances(c) /\ import'[c] = i
    BY <2>1, <2>2, OwnImport
  <2> QED
    BY <2>1, <2>2, <2>3 DEF Own
<1>5. CASE NotesRefused(c)
  <2> DEFINE i == [import[c] EXCEPT !.notes = Tail(import[c].notes)]
  <2>1. Tail(import[c].notes) \in Seq(Inputs \cup {None}) /\ import[c].asked # <<>>
    BY <1>1, <1>5 DEF NotesRefused, ImportOK, ImportType
  <2>2. /\ i \in ImportType /\ i.queue = import[c].queue /\ i.active = import[c].active
        /\ i.asked = import[c].asked /\ i.notes = Tail(import[c].notes)
    BY <1>1, <2>1 DEF ImportType
  <2>3. import[c].active
    BY <1>1, <1>5 DEF NotesRefused, ImportOK
  <2>4. import' = [import EXCEPT ![c] = i] /\ Quiet(c) /\ UNCHANGED backup
    BY <1>5 DEF NotesRefused, Quiet
  <2> HIDE DEF i
  <2>5. Advances(c) /\ import'[c] = i
    BY <1>1, <2>1, <2>2, <2>3, <2>4, OwnImport DEF ImportOK
  <2> QED
    BY <2>1, <2>2, <2>4, <2>5 DEF Own
<1>6. CASE ImportEnd(c) \/ (Crash(c) /\ import' = [import EXCEPT ![c] = NoImport] /\ UNCHANGED backup)
  <2>1. import' = [import EXCEPT ![c] = NoImport] /\ Quiet(c) /\ UNCHANGED backup
    BY <1>6 DEF ImportEnd, Quiet
  <2>2. Advances(c) /\ import'[c] = NoImport
    BY <2>1, NoImportTyped, OwnImport
  <2> QED
    BY <2>1, <2>2, NoImportTyped DEF Own
<1>7. CASE ImportEntry(c)
  <2>1. PICK e \in import[c].queue, id \in Ids :
          /\ Create(c, id, file[e])
          /\ import' = [d \in Conns |->
               IF d = c THEN [import[c] EXCEPT !.queue = import[c].queue \ {e}]
                        ELSE [import[d] EXCEPT !.whole = FALSE]]
    BY <1>7 DEF ImportEntry
  <2> DEFINE i == [import[c] EXCEPT !.queue = import[c].queue \ {e}]
  <2>2. /\ i \in ImportType /\ i.queue = import[c].queue \ {e}
        /\ i.active = import[c].active /\ i.whole = import[c].whole
        /\ i.asked = import[c].asked /\ i.notes = import[c].notes
    BY <1>1 DEF ImportType
  <2>3. /\ import' = [d \in Conns |->
               IF d = c THEN i ELSE [import[d] EXCEPT !.whole = FALSE]]
        /\ UNCHANGED backup
    BY <1>7, <2>1 DEF ImportEntry
  <2> HIDE DEF i
  <2>4. Advances(c) /\ import'[c] = i
    BY <1>1, <2>2, <2>3, OtherImports DEF ImportOK
  <2> QED
    BY <2>1, <2>2, <2>3, <2>4 DEF Own
<1>8. CASE NotesEntry(c)
  <2>1. PICK id \in Ids :
          import' = [d \in Conns |->
            IF d = c THEN [import[c] EXCEPT !.notes = Tail(import[c].notes),
                                            !.made = Append(import[c].made, id)]
                     ELSE [import[d] EXCEPT !.whole = FALSE]]
    BY <1>8 DEF NotesEntry
  <2> DEFINE i == [import[c] EXCEPT !.notes = Tail(import[c].notes),
                                    !.made = Append(import[c].made, id)]
  <2>2. Tail(import[c].notes) \in Seq(Inputs \cup {None}) /\ import[c].asked # <<>>
        /\ Append(import[c].made, id) \in Seq(Ids) /\ import[c].active
    BY <1>1, <1>8 DEF NotesEntry, ImportOK, ImportType
  <2>3. /\ i \in ImportType /\ i.queue = import[c].queue
        /\ i.active = import[c].active /\ i.asked = import[c].asked
    BY <1>1, <2>2 DEF ImportType
  <2>4. /\ import' = [d \in Conns |->
               IF d = c THEN i ELSE [import[d] EXCEPT !.whole = FALSE]]
        /\ UNCHANGED backup
    BY <1>8, <2>1 DEF NotesEntry
  <2> HIDE DEF i
  <2>5. Advances(c) /\ import'[c] = i
    BY <1>1, <2>2, <2>3, <2>4, OtherImports DEF ImportOK
  <2> QED
    BY <2>2, <2>3, <2>4, <2>5 DEF Own
<1>9. CASE Starts(c)
  <2>1. PICK fails \in BOOLEAN : fails = FALSE
    OBVIOUS
  <2>2. Disturb(c, fails) /\ ~import[c].active /\ UNCHANGED backup
    BY <1>9, <2>1 DEF Starts
  <2> QED
    BY <2>2, DisturbEffect DEF Own
<1>10. CASE Fails(c) /\ Disturb(c, TRUE) /\ UNCHANGED backup
  <2>1. PICK fails \in BOOLEAN : fails = TRUE
    OBVIOUS
  <2>2. Disturb(c, fails) /\ UNCHANGED backup
    BY <1>10, <2>1
  <2> QED
    BY <2>1, <2>2, DisturbEffect DEF Own
<1>11. CASE Proceeds(c) /\ UNCHANGED <<import, backup>>
  <2>1. Entries' = Entries
    BY <1>11 DEF Entries, backup
  <2> QED
    BY <1>1, <1>11, <2>1 DEF Advances, Quiet, Own, ImportOK, BackupTypeOK
<1> QED
  BY <1>3, <1>4, <1>5, <1>6, <1>7, <1>8, <1>9, <1>10, <1>11 DEF ImportStep, Goes

\* An export finds of each account the secrets that it saves.
LEMMA ExportEffect ==
  ASSUME TypeOK, BackupTypeOK, NEW c \in Conns, Export(c)
  PROVE  BackupTypeOK' /\ SavedInv' /\ UNCHANGED <<vars, import>>
         /\ \A d \in Conns : ~import[d].active
<1>1. /\ file' \in [Ids -> Inputs \cup {None}]
      /\ \A e \in Ids : file'[e] # None => Collects(file'[e], e)
      /\ saved' = [id \in Ids |-> Content(id)]
      /\ UNCHANGED <<vars, page, import>> /\ \A d \in Conns : ~import[d].active
  BY DEF Export
<1>2. ASSUME NEW e \in Ids
      PROVE  Content(e) \subseteq Fields \X Values
  BY DEF TypeOK, SecretType, Content, RowsOf
<1>3. \A d \in Conns : import[d].queue = {} /\ import[d].notes = <<>>
  BY <1>1 DEF BackupTypeOK
<1>4. BackupTypeOK'
  BY <1>1, <1>2, <1>3 DEF BackupTypeOK
<1>5. SavedInv'
  <2> SUFFICES ASSUME NEW e \in Ids, NEW f \in Fields, file'[e] # None
               PROVE  IF \E p \in saved'[e] : p[1] = f
                        THEN <<f, file'[e][f]>> \in saved'[e] ELSE file'[e][f] = None
    BY DEF SavedInv, Entries
  <2>1. saved'[e] = Content(e)
    BY <1>1
  <2>2. (\E p \in Content(e) : p[1] = f) <=> \E r \in RowsOf(e) : r.field = f
    <3>1. ASSUME NEW p \in Content(e), p[1] = f PROVE \E r \in RowsOf(e) : r.field = f
      BY <3>1 DEF Content
    <3>2. ASSUME NEW r \in RowsOf(e), r.field = f PROVE \E p \in Content(e) : p[1] = f
      <4>1. <<r.field, r.value>> \in Content(e) /\ <<r.field, r.value>>[1] = f
        BY <3>2 DEF Content
      <4> QED
        BY <4>1
    <3> QED
      BY <3>1, <3>2
  <2>3. IF \E r \in RowsOf(e) : r.field = f
          THEN <<f, file'[e][f]>> \in Content(e) ELSE file'[e][f] = None
    BY <1>1 DEF Collects
  <2> QED
    BY <2>1, <2>2, <2>3
<1> QED
  BY <1>1, <1>4, <1>5

\* Every step keeps the types of a backup, and what is saved.
LEMMA BackupStep ==
  ASSUME TypeOK, BackupTypeOK, SavedInv, [BackupNext]_allvars
  PROVE  BackupTypeOK' /\ SavedInv'
<1>1. CASE UNCHANGED <<backup, import>>
  BY <1>1 DEF backup, BackupTypeOK, SavedInv, Entries
<1>2. ASSUME NEW c \in Conns, ImportStep(c) PROVE BackupTypeOK' /\ SavedInv'
  <2>1. Advances(c) /\ UNCHANGED backup
    BY <1>2, ImportCases
  <2>2. UNCHANGED <<file, saved, page>> /\ Entries' = Entries
    BY <2>1 DEF backup, Entries
  <2>3. import' \in [Conns -> ImportType] /\ \A d \in Conns : ImportOK(d)'
    BY <2>1, <2>2 DEF Advances, BackupTypeOK, ImportOK
  <2> QED
    BY <2>2, <2>3 DEF BackupTypeOK, SavedInv, ImportOK
<1>3. ASSUME NEW c \in Conns, Export(c) PROVE BackupTypeOK' /\ SavedInv'
  BY <1>3, ExportEffect
<1> QED
  BY <1>1, <1>2, <1>3 DEF BackupNext, ImportStep, allvars

\* What an import writes are inputs, and so all it does to the accounts are
\* steps like those of the user.
LEMMA BackupCases ==
  ASSUME BackupTypeOK, [BackupNext]_allvars
  PROVE  AnyStep
<1>1. ASSUME NEW c \in Conns, ImportEntry(c) PROVE AnyStep
  <2>1. PICK e \in import[c].queue, id \in Ids : Create(c, id, file[e])
    BY <1>1 DEF ImportEntry
  <2>2. e \in Entries
    BY DEF BackupTypeOK
  <2>3. file[e] \in Inputs
    BY <2>2 DEF BackupTypeOK, Entries
  <2> QED
    BY <2>1, <2>3 DEF AnyStep
<1>2. ASSUME NEW c \in Conns, NotesEntry(c) PROVE AnyStep
  <2>1. PICK id \in Ids : Create(c, id, Head(import[c].notes))
    BY <1>2 DEF NotesEntry
  <2>2. import[c].notes \in Seq(Inputs \cup {None})
    BY DEF BackupTypeOK, ImportType
  <2>3. Head(import[c].notes) \in Inputs
    BY <1>2, <2>2 DEF NotesEntry
  <2> QED
    BY <2>1, <2>3 DEF AnyStep
<1>3. ASSUME NEW c \in Conns, Starts(c) \/ Goes(c) PROVE AnyStep
  BY <1>3, ConnectionCases DEF Starts, Goes
<1>4. ASSUME NEW c \in Conns,
             Export(c) \/ ImportBegin(c) \/ ImportEnd(c) \/ NotesBegin(c) \/ NotesRefused(c)
      PROVE  UNCHANGED vars
  BY <1>4 DEF Export, ImportBegin, ImportEnd, NotesBegin, NotesRefused
<1>5. CASE UNCHANGED allvars
  BY <1>5 DEF allvars, AnyStep
<1> QED
  BY <1>1, <1>2, <1>3, <1>4, <1>5 DEF BackupNext, AnyStep

\* It is so to begin with.
LEMMA BackupInitTyped ==
  BackupInit => Typed /\ WriteInv /\ BackupTypeOK /\ SavedInv /\ RestoredInv
<1> SUFFICES ASSUME BackupInit
             PROVE  Typed /\ WriteInv /\ BackupTypeOK /\ SavedInv /\ RestoredInv
  OBVIOUS
<1>1. Init /\ page \in Batches
  BY DEF BackupInit
<1>2. page.notes \in Seq(Inputs \cup {None}) /\ page.asked \in Seq(Inputs) \ {<<>>}
  <2>1. PICK d \in Documents :
          page = [notes |-> Recognized(d.text), asked |-> d.inputs]
    BY <1>1 DEF Batches
  <2> QED
    BY <2>1, BackupAssumption
<1>3. /\ \A c \in Conns : import[c] = NoImport
      /\ import \in [Conns -> ImportType]
      /\ file \in [Ids -> Inputs \cup {None}] /\ Entries = {}
      /\ saved \in [Ids -> SUBSET (Fields \X Values)]
  BY NoImportTyped DEF BackupInit, Entries
<1>4. BackupTypeOK /\ SavedInv /\ RestoredInv
  BY <1>2, <1>3, NoImportTyped DEF BackupTypeOK, SavedInv, RestoredInv
<1> QED
  BY <1>1, <1>4, TypedInit, WriteInit

\* What an import restored, its own steps and those of the others leave, but
\* for those that disturb it.
LEMMA RestoredQuiet ==
  ASSUME Typed, WriteInv, NEW c \in Conns, NEW d \in Conns,
         Proceeds(c) \/ (Crash(c) /\ c # d) \/ UNCHANGED vars,
         NEW id \in Ids, NEW input, Restored(d, id, input)
  PROVE  Restored(d, id, input)'
<1>1. id # None /\ Exists(id) /\ op \in [Conns -> OpType]
  BY AccountsAssumption DEF Restored, Exists, Typed, TypeOK
<1>2. ASSUME account'[id] = account[id],
             \A e \in Conns : op'[e].id = op[e].id \/ op'[e].id = None,
             ~account[id].intact => /\ op'[d].id = op[d].id /\ op'[d].sole = op[d].sole
                                    /\ op'[d].pc # "idle"
      PROVE  Restored(d, id, input)'
  BY <1>1, <1>2 DEF Restored, Writing, Begun
<1>3. CASE ClearSecrets(c)
  <2>1. op' = [op EXCEPT ![c].pc = "insert"] /\ UNCHANGED account
    BY <1>3 DEF ClearSecrets
  <2>2. /\ op'[c].pc = "insert" /\ op'[c].id = op[c].id /\ op'[c].sole = op[c].sole
        /\ Others(c)
    BY <1>1, <2>1, ClearEffect
  <2> QED
    BY <1>2, <2>1, <2>2 DEF Others, Restored, Begun
<1>4. CASE InsertSecret(c)
  <2>1. /\ op'[c].pc = "insert" /\ op'[c].id = op[c].id /\ op'[c].sole = op[c].sole
        /\ Others(c) /\ UNCHANGED account
    BY <1>4, InsertSecretEffect
  <2> QED
    BY <1>2, <2>1 DEF Others, Restored, Begun
<1>5. CASE WriteEnds(c)
  <2>1. /\ account'[id].state = account[id].state /\ account'[id].asked = account[id].asked
        /\ id # op[c].id => account'[id] = account[id]
        /\ id = op[c].id => account'[id].intact = op[c].sole
        /\ Finish(c)
    BY <1>1, <1>5, WriteEndsEffect
  <2>2. Others(c) /\ op'[c] = Idle /\ op'[c].id = None
    BY <1>1, <2>1, FinishEffect, IdleTyped
  <2>3. CASE account[id].intact
    <3>1. id # op[c].id
      BY <2>3 DEF WriteInv, IntactInv, Writing
    <3> QED
      BY <1>2, <2>1, <2>2, <2>3, <3>1 DEF Others
  <2>4. CASE ~account[id].intact /\ c # d
    <3>1. id # op[c].id
      BY <2>4 DEF Restored, Writing
    <3> QED
      BY <1>2, <2>1, <2>2, <2>4, <3>1 DEF Others, Restored, Begun
  <2>5. CASE ~account[id].intact /\ c = d
    <3>1. id = op[c].id /\ op[c].sole
      BY <2>5 DEF Restored, Writing
    <3>2. account'[id].intact
      BY <2>1, <3>1
    <3>3. \A e \in Conns \ {d} : op'[e].id # id
      BY <2>2, <2>5 DEF Others, Restored, Writing
    <3> QED
      BY <2>1, <3>2, <3>3 DEF Restored, Writing
  <2> QED
    BY <2>3, <2>4, <2>5
<1>6. CASE Crash(c) /\ c # d
  <2>1. Finish(c) /\ UNCHANGED account /\ c # d
    BY <1>6 DEF Crash
  <2>2. Others(c) /\ op'[c] = Idle /\ op'[c].id = None
    BY <1>1, <2>1, FinishEffect, IdleTyped
  <2> QED
    BY <1>2, <2>1, <2>2 DEF Others, Restored, Begun
<1>7. CASE UNCHANGED vars
  BY <1>2, <1>7 DEF vars, Restored, Begun
<1> QED
  BY <1>3, <1>4, <1>5, <1>6, <1>7 DEF Proceeds

\* So does its next creation, before which its write is done.
LEMMA RestoredCreate ==
  ASSUME Typed, NEW c \in Conns, NEW new \in Ids, NEW asked \in Inputs,
         Create(c, new, asked), NEW id \in Ids, NEW input, Restored(c, id, input)
  PROVE  Restored(c, id, input)'
<1>1. ~Begun(c) /\ account[id].intact /\ Exists(id)
  BY DEF Create, Restored, Exists
<1>2. /\ ~Exists(new) /\ \A i \in Ids \ {new} : account'[i] = account[i]
      /\ BeginWrite(c, new, asked)
  BY WriteRowEffect DEF Typed
<1>3. \A e \in Conns \ {c} : op'[e].id = op[e].id
  BY <1>2, BeginEffect DEF Typed, TypeOK
<1> QED
  BY <1>1, <1>2, <1>3 DEF Restored, Writing

\* What is being created is written by nobody else.
LEMMA CreateRestores ==
  ASSUME Typed, NEW c \in Conns, NEW id \in Ids, NEW input \in Inputs,
         Create(c, id, input)
  PROVE  Restored(c, id, input)'
<1>1. account'[id].state = "live" /\ account'[id].asked = input
  BY DEF Create, WriteRow, Typed, TypeOK
<1>2. BeginWrite(c, id, input) /\ \A d \in Conns : op[d].id # id
  BY DEF Create, FreshIds
<1>3. /\ op'[c].pc = "clear" /\ op'[c].id = id /\ op'[c].sole
      /\ \A d \in Conns \ {c} : op'[d].id = op[d].id
  BY <1>2, BeginEffect DEF Typed, TypeOK, Writing
<1> QED
  BY <1>1, <1>2, <1>3 DEF Restored, Writing, Begun

\* Every step keeps what the imports have restored.
LEMMA RestoredStep ==
  ASSUME Typed, WriteInv, BackupTypeOK, RestoredInv, [BackupNext]_allvars
  PROVE  RestoredInv'
<1>1. ASSUME NEW c \in Conns, ImportStep(c) PROVE RestoredInv'
  <2>1. Advances(c) /\ Own(c) /\ UNCHANGED backup
    BY <1>1, ImportCases
  <2>2. UNCHANGED file /\ Entries' = Entries
    BY <2>1 DEF backup, Entries
  <2> SUFFICES ASSUME NEW d \in Conns, import'[d].active, import'[d].whole,
                      import'[d].asked = <<>>, NEW e \in Entries \ import'[d].queue
               PROVE  \E id \in Ids : Restored(d, id, file[e])'
    BY <2>2 DEF RestoredInv
  <2>3. PICK input \in Inputs : input = file[e]
    BY DEF BackupTypeOK, Entries
  <2> SUFFICES \E id \in Ids : Restored(d, id, input)'
    BY <2>2, <2>3 DEF Restored, Writing, Begun
  <2>4. CASE d # c
    <3>1. import'[d] = import[d] /\ Quiet(c)
      BY <2>1, <2>4 DEF Advances
    <3>2. PICK id \in Ids : Restored(d, id, input)
      BY <2>3, <3>1 DEF RestoredInv
    <3> QED
      BY <2>4, <3>1, <3>2, RestoredQuiet DEF Quiet
  <2>5. CASE d = c /\ import'[c] = import[c] /\ Proceeds(c)
    <3>1. PICK id \in Ids : Restored(c, id, input)
      BY <2>3, <2>5 DEF RestoredInv
    <3> QED
      BY <2>5, <3>1, RestoredQuiet
  <2>6. ASSUME NEW f \in import[c].queue, NEW new \in Ids, d = c,
               Create(c, new, file[f]), import[c].active = import'[c].active,
               import[c].whole = import'[c].whole,
               import[c].asked = import'[c].asked,
               import'[c].queue = import[c].queue \ {f}
        PROVE  \E id \in Ids : Restored(d, id, input)'
    <3>1. CASE e = f
      BY <2>3, <2>6, <3>1, CreateRestores
    <3>2. CASE e # f
      <4>1. PICK id \in Ids : Restored(c, id, input)
        BY <2>3, <2>6, <3>2 DEF RestoredInv
      <4>2. f \in Entries
        BY DEF BackupTypeOK
      <4>3. file[f] \in Inputs
        BY <4>2 DEF BackupTypeOK, Entries
      <4> QED
        BY <2>6, <4>1, <4>3, RestoredCreate
    <3> QED
      BY <3>1, <3>2
  <2> QED
    BY <2>1, <2>4, <2>5, <2>6 DEF Own
<1>2. ASSUME NEW c \in Conns, Export(c) PROVE RestoredInv'
  <2>1. UNCHANGED import /\ \A d \in Conns : ~import[d].active
    BY <1>2 DEF Export
  <2> QED
    BY <2>1 DEF RestoredInv
<1>3. CASE UNCHANGED allvars
  BY <1>3 DEF allvars, vars, backup, RestoredInv, Restored, Entries, Writing, Begun
<1> QED
  BY <1>1, <1>2, <1>3 DEF BackupNext, ImportStep

\* An account that holds all of an entry has the secrets that were saved, if
\* there was one of each field.
LEMMA HoldsSaved ==
  ASSUME BackupTypeOK, SavedInv, NEW e \in Entries, NEW id \in Ids,
         Holds(RowsOf(id), file[e], Given(file[e])), OnePerField(saved[e])
  PROVE  Content(id) = saved[e]
<1>1. file[e] \in Inputs /\ saved[e] \subseteq Fields \X Values /\ e \in Ids
  BY DEF BackupTypeOK, Entries
<1>2. ASSUME NEW f \in Given(file[e]) PROVE <<f, file[e][f]>> \in saved[e]
  BY DEF SavedInv, Given
<1>3. ASSUME NEW p \in saved[e]
      PROVE  p[1] \in Given(file[e]) /\ p = <<p[1], file[e][p[1]]>>
  <2>1. p[1] \in Fields
    BY <1>1
  <2>2. <<p[1], file[e][p[1]]>> \in saved[e]
    BY <2>1 DEF SavedInv
  <2>3. p = <<p[1], file[e][p[1]]>>
    BY <2>2 DEF OnePerField
  <2>4. file[e][p[1]] \in Values
    BY <1>1, <2>2
  <2> QED
    BY <2>1, <2>3, <2>4, AccountsAssumption DEF Given
<1>4. ASSUME NEW p \in Content(id) PROVE p \in saved[e]
  <2>1. PICK r \in RowsOf(id) : p = <<r.field, r.value>>
    BY DEF Content
  <2>2. r.field \in Given(file[e]) /\ r.value = file[e][r.field]
    BY DEF Holds
  <2> QED
    BY <1>2, <2>1, <2>2
<1>5. ASSUME NEW p \in saved[e] PROVE p \in Content(id)
  <2>1. p[1] \in Given(file[e]) /\ p = <<p[1], file[e][p[1]]>>
    BY <1>3
  <2>2. PICK r \in RowsOf(id) : r.field = p[1]
    BY <2>1 DEF Holds
  <2>3. r.value = file[e][p[1]]
    BY <2>2 DEF Holds
  <2> QED
    BY <2>1, <2>2, <2>3 DEF Content
<1> QED
  BY <1>4, <1>5

\* All of it together.
BackupInv == Typed /\ WriteInv /\ BackupTypeOK /\ SavedInv /\ RestoredInv

\* It holds in every state of a vault with backups.
LEMMA AlwaysBackupInv == BackupSpec => []BackupInv
<1>1. BackupInit => BackupInv
  BY BackupInitTyped DEF BackupInv
<1>2. BackupInv /\ [BackupNext]_allvars => BackupInv'
  BY BackupCases, TypedStep, WriteStep, BackupStep, RestoredStep
     DEF BackupInv, Typed
<1> QED
  BY <1>1, <1>2, PTL DEF BackupSpec

\* What an import writes is subject to the same statements as what the user
\* enters: with imports of files and of notes among the operations, no secret
\* outlives its account, and a write nobody overlapped leaves exactly its input
\* (backup.rs:103-139, import.rs:173-200).
THEOREM ImportsKeepAccounts == BackupSpec => [](NoOrphans /\ StoredAsWritten)
<1>1. BackupInit => NoOrphans
  BY DEF BackupInit, Init, NoOrphans
<1>2. BackupInv /\ NoOrphans /\ [BackupNext]_allvars => NoOrphans'
  BY BackupCases, NoOrphansStep DEF BackupInv
<1>3. BackupInv => StoredAsWritten
  BY HoldsAsWritten DEF BackupInv, WriteInv, IntactInv, StoredAsWritten
<1> QED
  BY <1>1, <1>2, <1>3, AlwaysBackupInv, PTL DEF BackupSpec

\* An import of a backup that nobody disturbs and of which no entry fails has,
\* at its end, given back every account of the file with all the secrets it had
\* when it was saved, for any number of accounts, fields and connections
\* (backup.rs:9, 86-142).
THEOREM ImportAlwaysRestores == BackupSpec => ImportRestores
<1> DEFINE Gives ==
      \A c \in Conns : EndsWhole(c) /\ import[c].asked = <<>> =>
        \A e \in Entries : OnePerField(saved[e]) =>
          \E id \in Ids : /\ account[id].state = "live"
                          /\ Content(id) = saved[e]
<1>1. BackupInv => Gives
  <2> SUFFICES ASSUME BackupInv, NEW c \in Conns, EndsWhole(c),
                      import[c].asked = <<>>, NEW e \in Entries,
                      OnePerField(saved[e])
               PROVE  \E id \in Ids : /\ account[id].state = "live"
                                      /\ Content(id) = saved[e]
    OBVIOUS
  <2>1. PICK id \in Ids : Restored(c, id, file[e])
    BY DEF EndsWhole, BackupInv, RestoredInv
  <2>2. account[id].intact /\ account[id].asked = file[e]
    BY <2>1 DEF Restored, EndsWhole
  <2>3. Holds(RowsOf(id), file[e], Given(file[e]))
    BY <2>2 DEF BackupInv, WriteInv, IntactInv
  <2> QED
    BY <2>1, <2>3, HoldsSaved DEF BackupInv, Restored
<1>2. BackupSpec => [][Gives]_allvars
  <2> HIDE DEF Gives
  <2>1. BackupInv => [Gives]_allvars
    BY <1>1
  <2> QED
    BY <2>1, AlwaysBackupInv, PTL
<1> QED
  BY <1>2 DEF ImportRestores

-----------------------------------------------------------------------------
(* Imports of notes.                                                       *)

\* A candidate more counts if it has a name.
LEMMA CountNext ==
  ASSUME NEW notes, NEW n \in Nat
  PROVE  /\ Count(notes, n) \in Nat /\ Count(notes, 0) = 0
         /\ notes[n + 1] = None => Count(notes, n + 1) = Count(notes, n)
         /\ notes[n + 1] # None => Count(notes, n + 1) = Count(notes, n) + 1
<1>1. IsFiniteSet(Named(notes, n))
  <2>1. IsFiniteSet(1 .. n)
    BY FS_Interval
  <2>2. Named(notes, n) \in SUBSET (1 .. n)
    BY DEF Named
  <2> QED
    BY <2>1, <2>2, FS_Subset
<1>2. Named(notes, 0) = {}
  BY DEF Named
<1>3. Named(notes, n + 1) = IF notes[n + 1] = None THEN Named(notes, n)
                                                  ELSE Named(notes, n) \cup {n + 1}
  BY DEF Named
<1>4. n + 1 \notin Named(notes, n)
  BY DEF Named
<1>5. /\ Cardinality(Named(notes, n)) \in Nat
      /\ Cardinality(Named(notes, n) \cup {n + 1}) =
           Cardinality(Named(notes, n)) + 1
  BY <1>1, <1>4, FS_CardinalityType, FS_AddElement
<1> QED
  BY <1>2, <1>3, <1>5, FS_EmptySet DEF Count

\* The text at hand stays, and is one of the texts.
LEMMA PageStays ==
  ASSUME [BackupNext]_allvars
  PROVE  UNCHANGED page
<1>1. ASSUME NEW c \in Conns,
             Export(c) \/ ImportBegin(c) \/ ImportEntry(c) \/ ImportEnd(c)
               \/ NotesBegin(c) \/ NotesEntry(c) \/ NotesRefused(c)
      PROVE  UNCHANGED page
  BY <1>1 DEF Export, ImportBegin, ImportEntry, ImportEnd, NotesBegin, NotesEntry,
              NotesRefused, backup
<1>2. ASSUME NEW c \in Conns, Starts(c) \/ Goes(c) PROVE UNCHANGED page
  BY <1>2 DEF Starts, Goes, backup
<1> QED
  BY <1>1, <1>2 DEF BackupNext, allvars, backup

\* What the invariant says of one import.
NotesOK(c) ==
  /\ import[c].asked # <<>> => import[c].queue = {}
  /\ import[c].active /\ import[c].whole /\ import[c].asked # <<>> =>
       /\ import[c].asked = page.asked /\ Passed(c) \in Nat
       /\ \A i \in DOMAIN import[c].notes :
            import[c].notes[i] = page.notes[Passed(c) + i]
       /\ Len(import[c].made) = Count(page.notes, Passed(c))
       /\ \A i \in DOMAIN import[c].made :
            Restored(c, import[c].made[i], page.asked[i])

\* An import of a text begins with none of its candidates passed.
LEMMA NotesBeginKeeps ==
  ASSUME BackupTypeOK, NEW c \in Conns, NotesBegin(c)
  PROVE  NotesOK(c)'
<1> DEFINE i == [NoImport EXCEPT !.active = TRUE, !.whole = TRUE,
                                 !.notes = page.notes, !.asked = page.asked]
<1>1. import' = [import EXCEPT ![c] = i] /\ UNCHANGED page
  BY DEF NotesBegin, backup
<1>2. /\ i.queue = {} /\ i.made = <<>> /\ i.notes = page.notes
      /\ i.asked = page.asked
  BY DEF NoImport
<1>3. import'[c] = i
  BY <1>1 DEF BackupTypeOK
<1> HIDE DEF i
<1>4. Len(page.notes) \in Nat
  BY DEF BackupTypeOK
<1>5. Passed(c)' = 0
  BY <1>1, <1>2, <1>3, <1>4 DEF Passed
<1>6. \A j \in DOMAIN page.notes : page.notes[j] = page.notes[0 + j]
  BY DEF BackupTypeOK
<1>7. Count(page.notes, 0) = 0
  BY CountNext
<1> QED
  BY <1>1, <1>2, <1>3, <1>5, <1>6, <1>7 DEF NotesOK

\* What has been made of the first candidates is kept.
MadeKept(c) ==
  /\ UNCHANGED page
  /\ import'[c].active = import[c].active /\ import'[c].whole = import[c].whole
  /\ import'[c].queue = import[c].queue /\ import'[c].asked = import[c].asked
  /\ \A id \in Ids : \A input :
       Restored(c, id, input) => Restored(c, id, input)'

\* What an import is typed to be.
LEMMA NotesTyped ==
  ASSUME BackupTypeOK, NEW c \in Conns, NotesOK(c), import[c].active,
         import[c].whole, import[c].asked # <<>>
  PROVE  /\ import[c].notes \in Seq(Inputs \cup {None})
         /\ page.notes \in Seq(Inputs \cup {None}) /\ page.asked \in Seq(Inputs)
         /\ import[c].made \in Seq(Ids)
  BY DEF BackupTypeOK, ImportType

\* The import goes on with the same candidates.
LEMMA SameNotes ==
  ASSUME BackupTypeOK, NEW c \in Conns, NotesOK(c), MadeKept(c),
         import'[c].notes = import[c].notes, import'[c].made = import[c].made
  PROVE  NotesOK(c)'
<1>1. Passed(c)' = Passed(c) /\ page' = page
  BY DEF Passed, MadeKept
<1>2. ASSUME import[c].active, import[c].whole, import[c].asked # <<>>,
             NEW i \in DOMAIN import[c].made
      PROVE  Restored(c, import[c].made[i], page.asked[i])'
  <2>1. PICK id \in Ids : id = import[c].made[i]
    BY <1>2, NotesTyped
  <2>2. PICK input : input = page.asked[i]
    OBVIOUS
  <2>3. Restored(c, id, input)
    BY <1>2, <2>1, <2>2 DEF NotesOK
  <2>4. Restored(c, id, input)'
    BY <2>3 DEF MadeKept
  <2> QED
    BY <1>1, <2>1, <2>2, <2>4 DEF Restored, Writing, Begun
<1> QED
  BY <1>1, <1>2 DEF NotesOK, MadeKept

\* The candidate that is next, and those after it.
LEMMA NextNote ==
  ASSUME BackupTypeOK, NEW c \in Conns, NotesOK(c), import[c].active,
         import[c].whole, import[c].asked # <<>>, import[c].notes # <<>>,
         import'[c].notes = Tail(import[c].notes), UNCHANGED page
  PROVE  /\ Passed(c) \in Nat /\ Passed(c)' = Passed(c) + 1
         /\ Passed(c) + 1 \in DOMAIN page.notes
         /\ Head(import[c].notes) = page.notes[Passed(c) + 1]
         /\ \A i \in DOMAIN import'[c].notes :
              import'[c].notes[i] = page.notes[Passed(c)' + i]
<1> DEFINE notes == import[c].notes
           all == page.notes
           n == Passed(c)
<1>1. /\ notes \in Seq(Inputs \cup {None}) /\ all \in Seq(Inputs \cup {None})
      /\ notes # <<>>
  BY NotesTyped
<1>2. /\ n \in Nat /\ n = Len(all) - Len(notes)
      /\ \A i \in DOMAIN notes : notes[i] = all[n + i]
  BY DEF NotesOK, Passed
<1>3. Passed(c)' = Len(all) - Len(Tail(notes))
  BY DEF Passed
<1>4. import'[c].notes = Tail(notes)
  OBVIOUS
<1> HIDE DEF notes, all, n
<1>5. /\ Len(Tail(notes)) = Len(notes) - 1 /\ Len(notes) >= 1
      /\ Len(notes) \in Nat /\ Len(all) \in Nat
      /\ DOMAIN notes = 1 .. Len(notes) /\ DOMAIN all = 1 .. Len(all)
      /\ DOMAIN Tail(notes) = 1 .. Len(Tail(notes))
      /\ Head(notes) = notes[1]
      /\ \A i \in 1 .. Len(Tail(notes)) : Tail(notes)[i] = notes[i + 1]
  BY <1>1
<1>6. Passed(c)' = n + 1 /\ n + 1 \in DOMAIN all /\ Head(notes) = all[n + 1]
  <2>1. ASSUME NEW l \in Nat, NEW m \in Nat, NEW t, l >= 1, t = l - 1,
               n = m - l, n \in Nat, Passed(c)' = m - t
        PROVE  Passed(c)' = n + 1 /\ n + 1 \in 1 .. m /\ 1 \in 1 .. l
    BY <2>1
  <2>2. Passed(c)' = n + 1 /\ n + 1 \in DOMAIN all /\ 1 \in DOMAIN notes
    BY <1>2, <1>3, <1>5, <2>1
  <2> QED
    BY <1>2, <1>5, <2>2
<1>7. ASSUME NEW i \in DOMAIN Tail(notes)
      PROVE  Tail(notes)[i] = all[(n + 1) + i]
  <2>1. i \in 1 .. Len(Tail(notes)) /\ i + 1 \in DOMAIN notes /\ i \in Nat
    BY <1>5
  <2>2. Tail(notes)[i] = all[n + (i + 1)]
    BY <1>2, <1>5, <2>1
  <2>3. n + (i + 1) = (n + 1) + i
    BY <1>2, <2>1
  <2> QED
    BY <2>2, <2>3
<1> QED
  BY <1>2, <1>4, <1>6, <1>7 DEF notes, all, n

\* A candidate without a name makes no account.
LEMMA RefusedKeeps ==
  ASSUME BackupTypeOK, NEW c \in Conns, NotesOK(c), NotesRefused(c)
  PROVE  NotesOK(c)'
<1> DEFINE i == [import[c] EXCEPT !.notes = Tail(import[c].notes)]
<1>1. /\ i.queue = import[c].queue /\ i.active = import[c].active
      /\ i.asked = import[c].asked /\ i.notes = Tail(import[c].notes)
      /\ i.whole = import[c].whole /\ i.made = import[c].made
  BY DEF BackupTypeOK, ImportType
<1>2. /\ import'[c] = i /\ UNCHANGED <<page, account, op>>
      /\ import[c].notes # <<>> /\ Head(import[c].notes) = None
  BY DEF NotesRefused, BackupTypeOK, backup, vars
<1> HIDE DEF i
<1> SUFFICES ASSUME import[c].active, import[c].whole, import[c].asked # <<>>
             PROVE  NotesOK(c)'
  BY <1>1, <1>2 DEF NotesOK
<1>3. /\ Passed(c) \in Nat /\ Passed(c)' = Passed(c) + 1
      /\ Head(import[c].notes) = page.notes[Passed(c) + 1]
      /\ \A j \in DOMAIN i.notes : i.notes[j] = page.notes[Passed(c)' + j]
  BY <1>1, <1>2, NextNote
<1>4. Count(page.notes, Passed(c) + 1) = Count(page.notes, Passed(c))
  BY <1>2, <1>3, CountNext
<1>5. import'[c].made = import[c].made /\ page' = page
  BY <1>1, <1>2
<1>6. ASSUME NEW j \in DOMAIN import[c].made
      PROVE  Restored(c, import[c].made[j], page.asked[j])'
  <2>1. Restored(c, import[c].made[j], page.asked[j])
    BY DEF NotesOK
  <2> QED
    BY <1>2, <1>5, <2>1 DEF Restored, Writing, Begun
<1>7. /\ import'[c].asked # <<>> => import'[c].queue = {}
      /\ import'[c].asked = page'.asked /\ Passed(c)' \in Nat
  BY <1>1, <1>2, <1>3 DEF NotesOK
<1>8. \A j \in DOMAIN import'[c].notes :
        import'[c].notes[j] = page'.notes[Passed(c)' + j]
  BY <1>1, <1>2, <1>3
<1>9. Len(import'[c].made) = Count(page'.notes, Passed(c)')
  <2>1. Len(import[c].made) = Count(page.notes, Passed(c))
    BY DEF NotesOK
  <2>2. Count(page.notes, Passed(c)') = Count(page.notes, Passed(c) + 1)
    BY <1>3
  <2> QED
    BY <1>4, <1>5, <2>1, <2>2
<1> QED
  BY <1>5, <1>6, <1>7, <1>8, <1>9 DEF NotesOK

\* A candidate with a name is the next account its author wrote down, and it is
\* made of its secrets.
LEMMA NotesEntryKeeps ==
  ASSUME Understood, page \in Batches, Typed, BackupTypeOK, NEW c \in Conns,
         NotesOK(c), NotesEntry(c)
  PROVE  NotesOK(c)'
<1>1. PICK id \in Ids :
        /\ Create(c, id, Head(import[c].notes))
        /\ import' = [d \in Conns |->
             IF d = c THEN [import[c] EXCEPT !.notes = Tail(import[c].notes),
                                             !.made = Append(import[c].made, id)]
                      ELSE [import[d] EXCEPT !.whole = FALSE]]
  BY DEF NotesEntry
<1> DEFINE i == [import[c] EXCEPT !.notes = Tail(import[c].notes),
                                  !.made = Append(import[c].made, id)]
<1>2. /\ i.queue = import[c].queue /\ i.active = import[c].active
      /\ i.asked = import[c].asked /\ i.notes = Tail(import[c].notes)
      /\ i.whole = import[c].whole /\ i.made = Append(import[c].made, id)
  BY DEF BackupTypeOK, ImportType
<1>3. /\ import'[c] = i /\ page' = page
      /\ import[c].notes # <<>> /\ Head(import[c].notes) # None
  BY <1>1 DEF NotesEntry, backup
<1> HIDE DEF i
<1> SUFFICES ASSUME import[c].active, import[c].whole, import[c].asked # <<>>
             PROVE  NotesOK(c)'
  BY <1>2, <1>3 DEF NotesOK
<1>4. /\ Passed(c) \in Nat /\ Passed(c)' = Passed(c) + 1
      /\ Passed(c) + 1 \in DOMAIN page.notes
      /\ Head(import[c].notes) = page.notes[Passed(c) + 1]
      /\ \A j \in DOMAIN i.notes : i.notes[j] = page.notes[Passed(c)' + j]
  BY <1>2, <1>3, NextNote
<1>5. /\ Count(page.notes, Passed(c)) \in Nat
      /\ Count(page.notes, Passed(c) + 1) = Count(page.notes, Passed(c)) + 1
  BY <1>3, <1>4, CountNext
<1>6. page.asked[Count(page.notes, Passed(c) + 1)] = Head(import[c].notes)
  <2>1. Passed(c) + 1 \in Named(page.notes, Len(page.notes))
    BY <1>3, <1>4, NotesTyped DEF Named
  <2> QED
    BY <1>4, <2>1 DEF Understood
<1> DEFINE made == import[c].made
           k == Count(page.notes, Passed(c))
<1>7. made \in Seq(Ids) /\ Len(made) = k /\ k \in Nat
  BY <1>5, NotesTyped DEF NotesOK
<1>8. Head(import[c].notes) \in Inputs
  BY <1>3, NotesTyped
<1>9. \A j \in DOMAIN made : Restored(c, made[j], page.asked[j])
  BY DEF NotesOK
<1>10. import'[c].made = Append(made, id) /\ page.asked[k + 1] = Head(import[c].notes)
  BY <1>2, <1>3, <1>5, <1>6
<1>11. Count(page'.notes, Passed(c)') = k + 1
  BY <1>3, <1>4, <1>5
<1> HIDE DEF made, k
<1>12. /\ Len(Append(made, id)) = k + 1 /\ Append(made, id)[k + 1] = id
       /\ DOMAIN Append(made, id) = 1 .. (k + 1) /\ DOMAIN made = 1 .. k
       /\ \A j \in 1 .. k : Append(made, id)[j] = made[j]
  BY <1>7
<1>13. ASSUME NEW j \in DOMAIN import'[c].made
       PROVE  Restored(c, import[c].made[j], page.asked[j])'
  <2>1. j \in 1 .. k \/ j = k + 1
    BY <1>7, <1>10, <1>12
  <2>2. CASE j = k + 1
    <3>1. PICK input \in Inputs : input = Head(import[c].notes)
      BY <1>8
    <3>2. Restored(c, id, input)'
      BY <1>1, <3>1, CreateRestores
    <3>3. import'[c].made[j] = id /\ page'.asked[j] = input
      BY <1>3, <1>10, <1>12, <2>2, <3>1
    <3> QED
      BY <3>2, <3>3 DEF Restored, Writing, Begun
  <2>3. CASE j \in 1 .. k
    <3>1. PICK old \in Ids : old = made[j]
      BY <1>7, <1>12, <2>3
    <3>2. PICK input : input = page.asked[j]
      OBVIOUS
    <3>3. Restored(c, old, input)
      BY <1>9, <1>12, <2>3, <3>1, <3>2
    <3>4. PICK asked \in Inputs : asked = Head(import[c].notes)
      BY <1>8
    <3>5. Restored(c, old, input)'
      BY <1>1, <3>3, <3>4, RestoredCreate
    <3>6. import'[c].made[j] = old /\ page'.asked[j] = input
      BY <1>3, <1>10, <1>12, <2>3, <3>1, <3>2
    <3> QED
      BY <3>5, <3>6 DEF Restored, Writing, Begun
  <2> QED
    BY <2>1, <2>2, <2>3
<1>14. /\ import'[c].asked # <<>> => import'[c].queue = {}
       /\ import'[c].asked = page'.asked /\ Passed(c)' \in Nat
  BY <1>2, <1>3, <1>4 DEF NotesOK
<1>15. \A j \in DOMAIN import'[c].notes :
         import'[c].notes[j] = page'.notes[Passed(c)' + j]
  BY <1>3, <1>4
<1>16. Len(import'[c].made) = Count(page'.notes, Passed(c)')
  BY <1>10, <1>11, <1>12
<1> QED
  BY <1>13, <1>14, <1>15, <1>16 DEF NotesOK

\* What an import has made, the steps of a write leave, and those of others
\* that do not disturb it.
LEMMA QuietKeeps ==
  ASSUME Typed, WriteInv, BackupTypeOK, UNCHANGED page,
         NEW c \in Conns, NEW d \in Conns, import'[d] = import[d], NotesOK(d),
         Proceeds(c) \/ (Crash(c) /\ c # d) \/ UNCHANGED vars
  PROVE  NotesOK(d)'
<1>1. MadeKept(d)
  BY RestoredQuiet DEF MadeKept
<1> QED
  BY <1>1, SameNotes

\* What an import does itself keeps what is said of it.
LEMMA OwnNotes ==
  ASSUME Understood, page \in Batches, Typed, WriteInv, BackupTypeOK, NEW c \in Conns,
         NotesOK(c), ImportStep(c), UNCHANGED page
  PROVE  NotesOK(c)'
<1>1. import[c] \in ImportType /\ NoImport.asked = <<>>
  BY DEF BackupTypeOK, NoImport
<1>2. ASSUME import'[c].asked = <<>> PROVE NotesOK(c)'
  BY <1>2 DEF NotesOK
<1>3. ASSUME import'[c].queue = import[c].queue, import'[c].asked = import[c].asked,
             ~import'[c].active \/ ~import'[c].whole
      PROVE  NotesOK(c)'
  BY <1>3 DEF NotesOK
<1>4. CASE ImportBegin(c)
  <2>1. import'[c] = [NoImport EXCEPT !.active = TRUE, !.queue = Entries, !.whole = TRUE]
    BY <1>4 DEF ImportBegin, BackupTypeOK
  <2>2. import'[c].asked = NoImport.asked
    BY <2>1 DEF NoImport
  <2> QED
    BY <1>1, <1>2, <2>2
<1>5. CASE ImportEntry(c)
  <2>1. PICK e \in import[c].queue :
          import'[c] = [import[c] EXCEPT !.queue = import[c].queue \ {e}]
    BY <1>5 DEF ImportEntry
  <2>2. import'[c].asked = import[c].asked
    BY <1>1, <2>1 DEF ImportType
  <2>3. import[c].asked = <<>>
    BY DEF NotesOK
  <2> QED
    BY <1>2, <2>2, <2>3
<1>6. CASE ImportEnd(c) \/ (Crash(c) /\ import' = [import EXCEPT ![c] = NoImport])
  <2>1. import'[c] = NoImport
    BY <1>6 DEF ImportEnd, BackupTypeOK
  <2> QED
    BY <1>1, <1>2, <2>1
<1>7. CASE NotesBegin(c)
  BY <1>7, NotesBeginKeeps
<1>8. CASE NotesEntry(c)
  BY <1>8, NotesEntryKeeps
<1>9. CASE NotesRefused(c)
  BY <1>9, RefusedKeeps
<1>10. CASE Starts(c)
  <2>1. PICK fails \in BOOLEAN : fails = FALSE
    OBVIOUS
  <2>2. Disturb(c, fails) /\ ~import[c].active /\ UNCHANGED backup
    BY <1>10, <2>1 DEF Starts
  <2> QED
    BY <1>3, <2>2, DisturbEffect
<1>11. CASE Fails(c) /\ Disturb(c, TRUE) /\ UNCHANGED backup
  <2>1. PICK fails \in BOOLEAN : fails = TRUE
    OBVIOUS
  <2>2. Disturb(c, fails) /\ UNCHANGED backup
    BY <1>11, <2>1
  <2> QED
    BY <1>3, <2>1, <2>2, DisturbEffect
<1>12. CASE Proceeds(c) /\ UNCHANGED import
  BY <1>12, QuietKeeps
<1> QED
  BY <1>4, <1>5, <1>6, <1>7, <1>8, <1>9, <1>10, <1>11, <1>12 DEF ImportStep, Goes

\* Every step keeps what is said of the imports of a text.
LEMMA NotesStep ==
  ASSUME Understood, page \in Batches, Typed, WriteInv, BackupTypeOK, NotesInv,
         [BackupNext]_allvars
  PROVE  NotesInv'
<1>1. UNCHANGED page /\ \A d \in Conns : NotesOK(d)
  BY PageStays DEF NotesInv, NotesOK
<1> SUFFICES ASSUME NEW d \in Conns PROVE NotesOK(d)'
  BY DEF NotesInv, NotesOK
<1>2. ASSUME NEW c \in Conns, ImportStep(c) PROVE NotesOK(d)'
  <2>1. CASE d = c
    BY <1>1, <1>2, <2>1, OwnNotes
  <2>2. CASE d # c /\ import'[d] = import[d] /\ Quiet(c)
    BY <1>1, <2>2, QuietKeeps DEF Quiet
  <2>3. CASE /\ import'[d].queue = import[d].queue
             /\ import'[d].asked = import[d].asked /\ ~import'[d].whole
    <3>1. NotesOK(d)
      BY <1>1
    <3> QED
      BY <2>3, <3>1 DEF NotesOK
  <2> QED
    BY <1>2, <2>1, <2>2, <2>3, ImportCases DEF Advances
<1>3. ASSUME NEW c \in Conns, Export(c) PROVE NotesOK(d)'
  BY <1>1, <1>3, QuietKeeps DEF Export
<1>4. CASE UNCHANGED allvars
  BY <1>1, <1>4, QuietKeeps DEF allvars
<1> QED
  BY <1>2, <1>3, <1>4 DEF BackupNext, ImportStep

\* All of it together, with a text at hand that is understood.
TextInv == Understood /\ page \in Batches /\ BackupInv /\ NotesInv

\* It holds in every state, if it is so of all texts.
LEMMA AlwaysTextInv == Understood => (BackupSpec => []TextInv)
<1>1. Understood /\ BackupInit => page \in Batches /\ NotesInv
  <2> SUFFICES ASSUME BackupInit PROVE page \in Batches /\ NotesInv
    OBVIOUS
  <2>1. \A c \in Conns : import[c] = NoImport
    BY DEF BackupInit
  <2>2. NoImport.asked = <<>>
    BY DEF NoImport
  <2> QED
    BY <2>1, <2>2 DEF BackupInit, NotesInv
<1>2. BackupInv /\ TextInv /\ [BackupNext]_allvars => (page \in Batches)' /\ NotesInv'
  <2> SUFFICES ASSUME BackupInv, TextInv, [BackupNext]_allvars
               PROVE  (page \in Batches)' /\ NotesInv'
    OBVIOUS
  <2>1. UNCHANGED page
    BY PageStays
  <2>2. (page \in Batches)'
    BY <2>1 DEF TextInv
  <2> QED
    BY <2>2, NotesStep DEF TextInv, BackupInv
<1>3. Understood /\ BackupInv /\ page \in Batches /\ NotesInv => TextInv
  BY DEF TextInv
<1>4. TextInv => BackupInv
  BY DEF TextInv
<1>5. SUFFICES ASSUME Understood PROVE BackupSpec => []TextInv
  OBVIOUS
<1>6. BackupInit => page \in Batches /\ NotesInv
  BY <1>1, <1>5
<1>7. BackupInv /\ page \in Batches /\ NotesInv => TextInv
  BY <1>3, <1>5
<1> QED
  BY <1>2, <1>6, <1>7, AlwaysBackupInv, PTL DEF BackupSpec

\* An import of a text that nobody disturbs and of which no entry fails has, at
\* its end, made an account of each one that its author wrote down with a name,
\* in their order and with exactly their secrets, for any number of candidates,
\* fields and connections, and with candidates that it refuses in between.  The
\* hypothesis is about the texts alone: that what is recognized in them is what
\* was written down (import.rs:161-219).
THEOREM NotesAlwaysImported == Understood => (BackupSpec => NotesImported)
<1> DEFINE Gives ==
      \A c \in Conns : EndsWhole(c) /\ import[c].asked # <<>> =>
        /\ Len(import[c].made) = Len(import[c].asked)
        /\ \A i \in DOMAIN import[c].asked :
             Content(import[c].made[i]) = SecretsOf(import[c].asked[i])
<1>1. TextInv => Gives
  <2> SUFFICES ASSUME TextInv, NEW c \in Conns, EndsWhole(c), import[c].asked # <<>>
               PROVE  /\ Len(import[c].made) = Len(import[c].asked)
                      /\ \A i \in DOMAIN import[c].asked :
                           Content(import[c].made[i]) = SecretsOf(import[c].asked[i])
    OBVIOUS
  <2>1. /\ import[c].active /\ import[c].whole /\ import[c].notes = <<>> /\ ~Begun(c)
        /\ BackupInv /\ NotesOK(c) /\ page \in Batches
    BY DEF EndsWhole, TextInv, NotesInv, NotesOK
  <2>2. /\ import[c].asked = page.asked
        /\ Len(import[c].made) = Count(page.notes, Passed(c))
        /\ \A i \in DOMAIN import[c].made :
             Restored(c, import[c].made[i], page.asked[i])
    BY <2>1 DEF NotesOK
  <2>3. /\ page.notes \in Seq(Inputs \cup {None}) /\ page.asked \in Seq(Inputs)
        /\ import[c].made \in Seq(Ids)
    BY <2>1, NotesTyped DEF BackupInv
  <2>4. Passed(c) = Len(page.notes)
    BY <2>1, <2>3 DEF Passed
  <2>5. Len(import[c].made) = Len(page.asked)
    BY <2>1, <2>2, <2>4 DEF TextInv, Understood
  <2>6. ASSUME NEW i \in DOMAIN import[c].asked
        PROVE  Content(import[c].made[i]) = SecretsOf(page.asked[i])
    <3>1. i \in DOMAIN import[c].made
      BY <2>2, <2>3, <2>5
    <3>2. PICK id \in Ids : id = import[c].made[i]
      BY <2>3, <3>1
    <3>3. account[id].intact /\ account[id].asked = page.asked[i]
      BY <2>1, <2>2, <3>1, <3>2 DEF Restored
    <3>4. Holds(RowsOf(id), account[id].asked, Given(account[id].asked))
      BY <2>1, <3>3 DEF BackupInv, WriteInv, IntactInv
    <3>5. Content(id) = SecretsOf(account[id].asked)
      BY <3>4, HoldsAsWritten DEF AsWritten, SecretsOf
    <3> QED
      BY <3>2, <3>3, <3>5
  <2> QED
    BY <2>2, <2>5, <2>6
<1>2. Understood => (BackupSpec => [][Gives]_allvars)
  <2> HIDE DEF Gives
  <2>1. TextInv => [Gives]_allvars
    BY <1>1
  <2>2. SUFFICES ASSUME Understood PROVE BackupSpec => [][Gives]_allvars
    OBVIOUS
  <2>3. BackupSpec => []TextInv
    BY <2>2, AlwaysTextInv
  <2> QED
    BY <2>1, <2>3, PTL
<1> QED
  BY <1>2 DEF NotesImported

=============================================================================
