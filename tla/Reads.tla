-------------------------------- MODULE Reads --------------------------------
(***************************************************************************)
(* Details and values of accounts, and the audit log                       *)
(* (vault_store/src/accounts_read.rs, audit.rs, compliance.rs).            *)
(*                                                                         *)
(* A detail and a revealed value take several autocommitted statements,    *)
(* the last of which is the audit record, and are handed over after it;    *)
(* the log is emptied by a DELETE, and then that is recorded.  Another     *)
(* connection may write, delete or empty the log between any two of these. *)
(* Of the log, the records of what was read and of its being emptied are   *)
(* modelled; lists leave none, and those of writes nothing here reads.     *)
(***************************************************************************)
EXTENDS Accounts

CONSTANT MaxRows  \* bound: records made of reads and of emptyings

ASSUME ReadsAssumption == MaxRows \in Nat

VARIABLES
  log,     \* audit_logs: per record its row number, account and field; the field
           \* of a detail is None, and so are both of an emptying
  last,    \* the last row number given, which is never given again
  look,    \* per connection, the read or the emptying in flight
  shown,   \* observed, read by no action: what was handed over, by its record
  silent   \* observed: the log was emptied without a record, and not since with one

reading == <<log, last, look, shown, silent>>
readvars == <<vars, reading>>

Shows == Fields \cup {None}
NoLook == [pc |-> "idle", id |-> None, field |-> None, row |-> 0]

Looking(c) == look[c] # NoLook
Free(c) == ~Begun(c) /\ ~Looking(c)
See(c, pc, id, f) ==
  look' = [look EXCEPT ![c] = [pc |-> pc, id |-> id, field |-> f, row |-> 0]]
Leave(c) == look' = [look EXCEPT ![c] = NoLook]
Erasing(c) == look[c].pc = "erase"

RecordOf(id, f, row) == [row |-> row, id |-> id, field |-> f]
RecordAudit(id, f) ==
  /\ last < MaxRows
  /\ last' = last + 1
  /\ log' = log \cup {RecordOf(id, f, last')}

-----------------------------------------------------------------------------
\* get_account: the row of an account that is not in the trash, ...
DetailRow(c, id) ==
  /\ Free(c) /\ account[id].state = "live"
  /\ See(c, "row", id, None)
  /\ UNCHANGED <<vars, log, last, shown, silent>>

\* ... and its fields, with what is shown in place of the values; the account
\* may be in the trash by now, or gone.
DetailFields(c) ==
  /\ look[c].pc = "row"
  /\ See(c, "read", look[c].id, None)
  /\ UNCHANGED <<vars, log, last, shown, silent>>

\* reveal_secret: a row of the field, of an account in the trash too, is read
\* and opened.
Reveal(c, id, f) ==
  /\ Free(c)
  /\ \E r \in RowsOf(id) : r.field = f
  /\ CanSeal(c, f)
  /\ See(c, "read", id, f)
  /\ UNCHANGED <<vars, log, last, shown, silent>>

Recorded(c) ==
  look' = [look EXCEPT ![c].pc = "recorded", ![c].row = last']

\* Mutant of Record: an error of the record is passed over.
RecordAny(c) ==
  /\ look[c].pc = "read"
  /\ RecordAudit(look[c].id, look[c].field) \/ UNCHANGED <<log, last>>
  /\ Recorded(c)
  /\ UNCHANGED <<vars, shown, silent>>

\* The audit record of the read.
Record(c) ==
  /\ look[c].pc = "read"
  /\ RecordAudit(look[c].id, look[c].field)
  /\ Recorded(c)
  /\ UNCHANGED <<vars, shown, silent>>

\* What was read leaves the vault.
HandOver(c) ==
  /\ look[c].pc = "recorded"
  /\ shown' = shown \cup {RecordOf(look[c].id, look[c].field, look[c].row)}
  /\ Leave(c)
  /\ UNCHANGED <<vars, log, last, silent>>

\* purge_audit_logs: all records go, ...
PurgeLog(c) ==
  /\ Free(c)
  /\ log' = {}
  /\ See(c, "erase", None, None)
  /\ UNCHANGED <<vars, last, shown, silent>>

\* ... and one says so.
PurgeRecorded(c) ==
  /\ Erasing(c)
  /\ RecordAudit(None, None)
  /\ silent' = FALSE
  /\ Leave(c)
  /\ UNCHANGED <<vars, shown>>

\* What c was at ends here; an emptied log stays empty.
Stops(c) ==
  /\ Leave(c)
  /\ silent' = (silent \/ Erasing(c))
  /\ UNCHANGED <<log, last, shown>>

\* The next statement fails: what was read is dropped.
LookFails(c) ==
  /\ look[c].pc \in {"row", "read", "erase"}
  /\ Stops(c)
  /\ UNCHANGED vars

Reading(c) ==
  \/ \E id \in Ids : DetailRow(c, id) \/ \E f \in Fields : Reveal(c, id, f)
  \/ DetailFields(c) \/ Record(c) \/ HandOver(c)
  \/ PurgeLog(c) \/ PurgeRecorded(c) \/ LookFails(c)

ReadsInit ==
  /\ Init
  /\ log = {} /\ last = 0 /\ shown = {} /\ silent = FALSE
  /\ look = [c \in Conns |-> NoLook]

\* What module Accounts does; a connection that reads begins nothing else.
Besides(c) ==
  \/ Free(c) /\ Begins(c) /\ UNCHANGED reading
  \/ (Proceeds(c) \/ Fails(c)) /\ UNCHANGED reading
  \/ Crash(c) /\ Stops(c)

ReadsNext == \E c \in Conns : Reading(c) \/ Besides(c)

ReadsSpec == ReadsInit /\ [][ReadsNext]_readvars

-----------------------------------------------------------------------------
\* The log was emptied of everything up to a row, and says so as soon as the
\* emptying is over, unless it stopped between its two statements.
Emptied(row) ==
  /\ \A r \in log : r.row > row
  /\ silent \/ (\E c \in Conns : Erasing(c)) \/ (\E r \in log : r.id = None)

Accounted(s) == s \in log \/ Emptied(s.row)

\* Every detail and every value that was handed over is accounted for in the log:
\* its record is there, with its account and its field, or the log was emptied of
\* all records up to it and has one of that.  It is so whatever statement failed
\* or process stopped, whoever deleted the account meanwhile, and however the
\* log is emptied between a read, its record and its handing over, by several
\* at once too (accounts_read.rs:19-58, 89-113, compliance.rs:59-63).
ShownIsAudited == \A s \in shown : Accounted(s)

-----------------------------------------------------------------------------
(* Inductive strengthening, proved in AccountsProofs.                      *)

LookType == [pc : {"idle", "row", "read", "recorded", "erase"},
             id : Ids \cup {None}, field : Shows, row : Nat]
RecordType == [row : Nat, id : Ids \cup {None}, field : Shows]

ReadsTypeOK ==
  /\ log \subseteq RecordType /\ shown \subseteq RecordType
  /\ last \in Nat /\ look \in [Conns -> LookType] /\ silent \in BOOLEAN
  /\ \A r \in log \cup shown : r.row <= last
  /\ \A c \in Conns : look[c].row <= last

\* What is about to be handed over is accounted for too.
RecordedInv ==
  \A c \in Conns : look[c].pc = "recorded" =>
    Accounted(RecordOf(look[c].id, look[c].field, look[c].row))
=============================================================================
