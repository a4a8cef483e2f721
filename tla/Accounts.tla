------------------------------- MODULE Accounts -------------------------------
(***************************************************************************)
(* The account cards of a vault and their secret fields                    *)
(* (vault_store/src/accounts.rs), with the bulk deletion of compliance.rs. *)
(*                                                                         *)
(* A write of an account is a sequence of autocommitted statements: its    *)
(* row, a DELETE of all its secrets, an INSERT for each secret of the      *)
(* input, and the audit record.  It may stop at any of them, and another   *)
(* connection may come between two.  A secret that requires the second     *)
(* factor is sealed just before its INSERT, when the old secrets are gone. *)
(*                                                                         *)
(* An input is reduced to its secrets; the other columns of the card are   *)
(* replaced by the one statement that writes its row.  The audit record of *)
(* an operation is its last statement; nothing here reads it.  The vault   *)
(* has an FDEK (which key a secret is under is in VaultKeys).              *)
(***************************************************************************)
EXTENDS Naturals, FiniteSets

CONSTANTS
  Conns,   \* connections to the vault file
  Ids,     \* bound: account ids in use at once
  Values,  \* plaintext secrets
  Fields,  \* bound: the fields an input may give
  None     \* a field not given

FieldTypes ==
  {"login_password", "secondary_password", "payment_password", "api_key"}

ASSUME AccountsAssumption ==
  Fields \subseteq FieldTypes /\ None \notin Ids \cup Values

VARIABLES
  account,  \* per id, its row, the input it was last written with, and
            \* whether that write came to its end with no other in between
  secrets,  \* rows of secret_fields
  second,   \* per connection, whether the FDEK is cached
  op        \* per connection, the operation in flight

vars == <<account, secrets, second, op>>

Inputs == [Fields -> Values \cup {None}]
Empty == [f \in Fields |-> None]
Given(input) == {f \in Fields : input[f] # None}
\* Bound: an input of the user gives the same value to all its fields.
UserInputs == {[f \in Fields |-> IF f \in given THEN v ELSE None] :
                 given \in SUBSET Fields, v \in Values}

NoAccount == [state |-> "none", asked |-> Empty, intact |-> FALSE]
\* todo is what of the input is not stored yet.
Idle == [pc |-> "idle", id |-> None, todo |-> Empty, sole |-> FALSE]

AccountType == [state : {"none", "live", "trash"}, asked : Inputs,
                intact : BOOLEAN]
SecretType == [account : Ids, field : Fields, value : Values, by : Conns]
OpType == [pc : {"idle", "clear", "insert"}, id : Ids \cup {None},
           todo : Inputs, sole : BOOLEAN]

Exists(id) == account[id].state # "none"
RowsOf(id) == {r \in secrets : r.account = id}
Content(id) == {<<r.field, r.value>> : r \in RowsOf(id)}
Writing(c, id) == op[c].id = id
Begun(c) == op[c].pc # "idle"

\* A new id is random: nothing refers to it.
FreshIds == {id \in Ids : ~Exists(id) /\ \A c \in Conns : op[c].id # id}

RequiresSecondFactor(f) == f # "login_password"

\* The order of secret_pairs.
Order == [login_password |-> 1, secondary_password |-> 2,
          payment_password |-> 3, api_key |-> 4]
\* Mutant of NextField: a field is stored whether it is given or not.
NextFieldAny(todo) == CHOOSE f \in Fields : \A g \in Fields : Order[f] <= Order[g]
NextField(todo) ==
  CHOOSE f \in Given(todo) : \A g \in Given(todo) : Order[f] <= Order[g]

-----------------------------------------------------------------------------
(* create_account and update_account.                                      *)

\* c begins to write id, and another write of id is no longer the only one.
BeginWrite(c, id, input) ==
  op' = [d \in Conns |->
    IF d = c
      THEN [pc |-> "clear", id |-> id, todo |-> input,
            sole |-> \A e \in Conns \ {c} : ~Writing(e, id)]
      ELSE [op[d] EXCEPT !.sole = op[d].sole /\ ~Writing(d, id)]]

WriteRow(id, state, input) ==
  account' = [account EXCEPT ![id] =
                [state |-> state, asked |-> input, intact |-> FALSE]]

Create(c, id, input) ==
  /\ ~Begun(c) /\ id \in FreshIds
  /\ WriteRow(id, "live", input)
  /\ BeginWrite(c, id, input)
  /\ UNCHANGED <<secrets, second>>

\* An account in the trash is updated too.
Update(c, id, input) ==
  /\ ~Begun(c) /\ Exists(id)
  /\ WriteRow(id, account[id].state, input)
  /\ BeginWrite(c, id, input)
  /\ UNCHANGED <<secrets, second>>

\* Mutant of ClearSecrets: secrets that the input does not give are kept.
ClearSecretsGiven(c) ==
  /\ op[c].pc = "clear"
  /\ secrets' = {r \in secrets :
                   r.account # op[c].id \/ op[c].todo[r.field] = None}
  /\ op' = [op EXCEPT ![c].pc = "insert"]
  /\ UNCHANGED <<account, second>>

ClearSecrets(c) ==
  /\ op[c].pc = "clear"
  /\ secrets' = secrets \ RowsOf(op[c].id)
  /\ op' = [op EXCEPT ![c].pc = "insert"]
  /\ UNCHANGED <<account, second>>

\* seal_secret succeeds: the field needs no second factor, or it was given.
CanSeal(c, f) == RequiresSecondFactor(f) => second[c]

\* Mutant of ForeignKey: the constraint is not enforced.
ForeignKeyOff(id) == TRUE
ForeignKey(id) == Exists(id)

InsertSecret(c) ==
  /\ op[c].pc = "insert" /\ op[c].todo # Empty
  /\ ForeignKey(op[c].id)
  /\ LET f == NextField(op[c].todo)
     IN  /\ CanSeal(c, f)
         /\ secrets' = secrets \cup {[account |-> op[c].id, field |-> f,
                                      value |-> op[c].todo[f], by |-> c]}
         /\ op' = [op EXCEPT ![c].todo = [op[c].todo EXCEPT ![f] = None]]
  /\ UNCHANGED <<account, second>>

Finish(c) == op' = [op EXCEPT ![c] = Idle]

\* The secret cannot be sealed, or its account was purged meanwhile.
InsertRefused(c) ==
  /\ op[c].pc = "insert" /\ op[c].todo # Empty
  /\ ~CanSeal(c, NextField(op[c].todo)) \/ ~ForeignKey(op[c].id)
  /\ Finish(c)
  /\ UNCHANGED <<account, secrets, second>>

\* The audit record, and the end.
WriteEnds(c) ==
  /\ op[c].pc = "insert" /\ op[c].todo = Empty
  /\ account' = IF Exists(op[c].id)
                  THEN [account EXCEPT ![op[c].id].intact = op[c].sole]
                  ELSE account
  /\ Finish(c)
  /\ UNCHANGED <<secrets, second>>

-----------------------------------------------------------------------------
(* The trash and the deletions: one statement each.                        *)

SetState(c, id, from, to) ==
  /\ ~Begun(c) /\ account[id].state = from
  /\ account' = [account EXCEPT ![id].state = to]
  /\ UNCHANGED <<secrets, second, op>>

Delete(c, id)  == SetState(c, id, "live", "trash")
Restore(c, id) == SetState(c, id, "trash", "live")

\* Mutant of Cascade: the secrets stay.
CascadeOff(ids) == secrets
\* What ON DELETE CASCADE leaves.
Cascade(ids) == {r \in secrets : r.account \notin ids}

Remove(c, ids) ==
  /\ ~Begun(c)
  /\ account' = [id \in Ids |-> IF id \in ids THEN NoAccount ELSE account[id]]
  /\ secrets' = Cascade(ids)
  /\ UNCHANGED <<second, op>>

Purge(c, id) == Exists(id) /\ Remove(c, {id})

EmptyTrash(c) ==
  LET trash == {id \in Ids : account[id].state = "trash"}
  IN  trash # {} /\ Remove(c, trash)

PurgeAll(c) ==
  LET all == {id \in Ids : Exists(id)}
  IN  all # {} /\ Remove(c, all)

-----------------------------------------------------------------------------
(* The second factor, and faults.                                          *)

SecondFactor(c) ==
  /\ ~Begun(c)
  /\ second' = [second EXCEPT ![c] = ~second[c]]
  /\ UNCHANGED <<account, secrets, op>>

StatementFails(c) ==
  /\ Begun(c)
  /\ Finish(c)
  /\ UNCHANGED <<account, secrets, second>>

Crash(c) ==
  /\ Finish(c)
  /\ second' = [second EXCEPT ![c] = FALSE]
  /\ UNCHANGED <<account, secrets>>

-----------------------------------------------------------------------------
Init ==
  /\ account = [id \in Ids |-> NoAccount]
  /\ secrets = {}
  /\ second = [c \in Conns |-> FALSE]
  /\ op = [c \in Conns |-> Idle]

Discard(c) ==
  \/ \E id \in Ids : Delete(c, id) \/ Restore(c, id) \/ Purge(c, id)
  \/ EmptyTrash(c) \/ PurgeAll(c)

\* What a connection may begin, and how a write goes on.
Begins(c) ==
  \/ \E id \in Ids, input \in UserInputs :
       Create(c, id, input) \/ Update(c, id, input)
  \/ Discard(c) \/ SecondFactor(c)
Proceeds(c) == ClearSecrets(c) \/ InsertSecret(c) \/ WriteEnds(c)
Fails(c) == InsertRefused(c) \/ StatementFails(c)

Next == \E c \in Conns : Begins(c) \/ Proceeds(c) \/ Fails(c) \/ Crash(c)

Spec == Init /\ [][Next]_vars

-----------------------------------------------------------------------------
(* Properties.                                                             *)

TypeOK ==
  /\ account \in [Ids -> AccountType]
  /\ \A id \in Ids : ~Exists(id) => account[id] = NoAccount
  /\ secrets \subseteq SecretType
  /\ second \in [Conns -> BOOLEAN]
  /\ op \in [Conns -> OpType]

\* However creations, updates and deletions of several connections interleave
\* and wherever they stop, no secret outlives its account (vault.rs:230-238,
\* accounts.rs:117-136, compliance.rs:49-56).
NoOrphans == \A r \in secrets : Exists(r.account)

\* Nothing writes the account now.
Settled(id) == Exists(id) /\ \A c \in Conns : ~Writing(c, id)

\* The account has exactly the secrets of the input it was last written with.
AsWritten(id) ==
  /\ Content(id) = {<<f, account[id].asked[f]>> : f \in Given(account[id].asked)}
  /\ \A r, s \in RowsOf(id) : r.field = s.field => r = s

\* An account whose last write ran to its end, with no other write of it in
\* between, has exactly the secrets of that write's input, each once: whatever
\* writes that failed or overlapped had left behind before, and whatever was
\* done to other accounts (accounts.rs:36-87, 138-170).
StoredAsWritten ==
  \A id \in Ids : Settled(id) /\ account[id].intact => AsWritten(id)

-----------------------------------------------------------------------------
(* The inductive strengthening, proved in AccountsProofs.                  *)

\* The rows store the given fields of the input, and no others.
Holds(rows, input, fields) ==
  /\ \A r \in rows : r.field \in fields /\ r.value = input[r.field]
  /\ \A f \in fields : \E r \in rows : r.field = f
  /\ \A r, s \in rows : r.field = s.field => r = s

\* A write has deleted what was there, and stored what it no longer has to.
Written(c) ==
  LET asked == account[op[c].id].asked
  IN  /\ op[c].pc = "clear" => op[c].todo = asked
      /\ op[c].pc = "insert" =>
           /\ \A f \in Given(op[c].todo) : op[c].todo[f] = asked[f]
           /\ Holds(RowsOf(op[c].id), asked, Given(asked) \ Given(op[c].todo))

SoleInv ==
  \A c, d \in Conns : op[c].sole /\ c # d => op[d].id # op[c].id

WrittenInv ==
  \A c \in Conns : op[c].sole /\ Exists(op[c].id) => Written(c)

IntactInv ==
  \A id \in Ids : account[id].intact =>
    /\ Exists(id) /\ Holds(RowsOf(id), account[id].asked, Given(account[id].asked))
    /\ \A c \in Conns : ~Writing(c, id)

=============================================================================
