-------------------------------- MODULE Schema --------------------------------
(***************************************************************************)
(* The vault file and its schema (vault_store/src/schema.rs, and           *)
(* open_connection and initialize of vault.rs).  Every operation opens the *)
(* file through open_connection, which migrates it first: it reads the     *)
(* version once and then runs the statements of every later version, each  *)
(* of them in a transaction of its own.  Nothing excludes two connections  *)
(* from doing so at a time: the status request of the web server opens the *)
(* file too.                                                               *)
(*                                                                         *)
(* Only the columns that some migration adds are kept, by name.            *)
(***************************************************************************)
EXTENDS Naturals, Sequences

CONSTANTS
  Conns,        \* connections
  FirstFiles    \* versions the file may have at first, 0 for no file

\* SCHEMA_VERSION
Current == 5

ASSUME SchemaAssumption == FirstFiles \subseteq 0 .. Current

VARIABLES
  file,      \* "absent", "empty", "meta" (that table alone) or "tables"
  version,   \* meta.schema_version; 0 while there is no row
  columns,   \* columns of the file, of those a migration adds
  conn,      \* per connection, the step it is at and the version it read
  made,      \* the version the file had at first
  calm       \* nothing has failed, and no two openings have overlapped

vars == <<file, version, columns, conn, made, calm>>

LockColumns == {"failed_attempts", "locked_until"}
FdekColumns == {"fdek_kdf", "fdek_wrap", "fdek_wrap_recovery"}
MetaColumns == LockColumns \cup FdekColumns \cup {"recovery_contact_hash"}
AllColumns  == MetaColumns \cup {"deleted_at"}

\* The columns that a release of version v made its files with.
Made(v) == (IF v >= 2 THEN LockColumns ELSE {})
      \cup (IF v >= 3 THEN FdekColumns ELSE {})
      \cup (IF v >= 4 THEN {"recovery_contact_hash"} ELSE {})
      \cup (IF v >= 5 THEN {"deleted_at"} ELSE {})

Idle == [pc |-> "idle", op |-> "open", next |-> 1, read |-> 0]

-----------------------------------------------------------------------------
(* migrate.  Its statements in order: below is the version under which the *)
(* statement is run, adds the column it adds, sets the version it stores.  *)

Add(below, column) == [below |-> below, adds |-> column, sets |-> 0]
Set(below, to)     == [below |-> below, adds |-> "none", sets |-> to]

\* Mutant of Statements: version 4 is stored before its column is there.
StatementsSetFirst ==
  << Add(2, "failed_attempts"), Add(2, "locked_until"), Set(2, 2),
     Set(4, 4), Add(4, "recovery_contact_hash"),
     Add(3, "fdek_kdf"), Add(3, "fdek_wrap"), Add(3, "fdek_wrap_recovery"),
     Set(3, 3), Add(5, "deleted_at"), Set(5, 5) >>

\* Mutant of Statements: the recovery wrap of the FDEK is forgotten.
StatementsForget ==
  << Add(2, "failed_attempts"), Add(2, "locked_until"), Set(2, 2),
     Add(4, "recovery_contact_hash"), Set(4, 4),
     Add(3, "fdek_kdf"), Add(3, "fdek_wrap"), Set(3, 3),
     Add(5, "deleted_at"), Set(5, 5) >>

Statements ==
  << Add(2, "failed_attempts"), Add(2, "locked_until"), Set(2, 2),
     Add(4, "recovery_contact_hash"), Set(4, 4),
     Add(3, "fdek_kdf"), Add(3, "fdek_wrap"), Add(3, "fdek_wrap_recovery"),
     Set(3, 3), Add(5, "deleted_at"), Set(5, 5) >>

\* Mutant of Due: the version itself is migrated again.
DueInclusive(i, v) == i <= Len(Statements) /\ v <= Statements[i].below

Due(i, v) == i <= Len(Statements) /\ v < Statements[i].below

Skipped(i, v) == i <= Len(Statements) /\ ~Due(i, v)

Opening(a) == conn[a].pc \in {"path", "check", "migrate", "create", "insert"}
Goto(a, pc) == conn' = [conn EXCEPT ![a].pc = pc]
Fail(a) == conn' = [conn EXCEPT ![a] = Idle]

\* initialize refuses a file that exists ...
CheckPath(a) ==
  /\ conn[a].pc = "idle"
  /\ file = "absent"
  /\ conn' = [conn EXCEPT ![a] = [pc |-> "path", op |-> "initialize",
                                 next |-> 1, read |-> 0]]
  /\ UNCHANGED <<file, version, columns>>

\* ... the other operations do not look.  Opening a missing file makes an
\* empty one.
Open(a) ==
  /\ \/ conn[a].pc = "path"
     \/ conn[a].pc = "idle"
  /\ file' = IF file = "absent" THEN "empty" ELSE file
  /\ conn' = [conn EXCEPT ![a] = [pc |-> "check", op |-> conn[a].op,
                                 next |-> 1, read |-> 0]]
  /\ UNCHANGED <<version, columns>>

\* No meta table: there is nothing to migrate.  initialize goes on to create
\* the tables; the others answer NotInitialized.
NoTables(a) ==
  /\ conn[a].pc = "check"
  /\ file = "empty"
  /\ IF conn[a].op = "initialize" THEN Goto(a, "create") ELSE Fail(a)
  /\ UNCHANGED <<file, version, columns>>

\* A meta table without its row is an error.
NoRow(a) ==
  /\ conn[a].pc = "check"
  /\ file \in {"meta", "tables"} /\ version = 0
  /\ Fail(a)
  /\ UNCHANGED <<file, version, columns>>

ReadVersion(a) ==
  /\ conn[a].pc = "check"
  /\ version > 0
  /\ conn' = [conn EXCEPT ![a] = [pc |-> "migrate", op |-> conn[a].op,
                                 next |-> 1, read |-> version]]
  /\ UNCHANGED <<file, version, columns>>

\* The version read needs no such statement.
Skip(a) ==
  /\ conn[a].pc = "migrate"
  /\ Skipped(conn[a].next, conn[a].read)
  /\ conn' = [conn EXCEPT ![a].next = conn[a].next + 1]
  /\ UNCHANGED <<file, version, columns>>

AddColumn(a) ==
  LET s == Statements[conn[a].next]
  IN  /\ conn[a].pc = "migrate" /\ Due(conn[a].next, conn[a].read)
      /\ s.adds # "none" /\ s.adds \notin columns
      /\ columns' = columns \cup {s.adds}
      /\ conn' = [conn EXCEPT ![a].next = conn[a].next + 1]
      /\ UNCHANGED <<file, version>>

\* ALTER TABLE fails on a column that is there.
DuplicateColumn(a) ==
  /\ conn[a].pc = "migrate" /\ Due(conn[a].next, conn[a].read)
  /\ Statements[conn[a].next].adds \in columns
  /\ Fail(a)
  /\ UNCHANGED <<file, version, columns>>

SetVersion(a) ==
  LET s == Statements[conn[a].next]
  IN  /\ conn[a].pc = "migrate" /\ Due(conn[a].next, conn[a].read)
      /\ s.adds = "none"
      /\ version' = s.sets
      /\ conn' = [conn EXCEPT ![a].next = conn[a].next + 1]
      /\ UNCHANGED <<file, columns>>

\* The connection is ready.  One of initialize that has met a file which is
\* initialized by now goes on all the same.
Opened(a) ==
  /\ conn[a].pc = "migrate" /\ conn[a].next > Len(Statements)
  /\ Goto(a, IF conn[a].op = "initialize" THEN "create" ELSE "open")
  /\ UNCHANGED <<file, version, columns>>

-----------------------------------------------------------------------------
(* initialize.  CREATE TABLE IF NOT EXISTS leaves a table that is there.   *)

CreateMeta(a) ==
  /\ conn[a].pc = "create" /\ file = "empty"
  /\ file' = "meta"
  /\ columns' = MetaColumns
  /\ UNCHANGED <<version, conn>>

CreateTables(a) ==
  /\ conn[a].pc = "create" /\ file \in {"meta", "tables"}
  /\ file' = "tables"
  /\ columns' = IF file = "meta" THEN columns \cup {"deleted_at"} ELSE columns
  /\ Goto(a, "insert")
  /\ UNCHANGED version

InsertRow(a) ==
  /\ conn[a].pc = "insert" /\ version = 0
  /\ version' = Current
  /\ Fail(a)
  /\ UNCHANGED <<file, columns>>

\* The meta row is there already: a constraint error.
InsertConflict(a) ==
  /\ conn[a].pc = "insert" /\ version > 0
  /\ Fail(a)
  /\ UNCHANGED <<file, version, columns>>

-----------------------------------------------------------------------------
\* A crash, a busy database or a full disk: what was committed stays.
Stop(a) ==
  /\ Opening(a)
  /\ Fail(a)
  /\ UNCHANGED <<file, version, columns>>

Close(a) ==
  /\ conn[a].pc = "open"
  /\ Fail(a)
  /\ UNCHANGED <<file, version, columns>>

Init ==
  /\ version \in FirstFiles
  /\ file = IF version = 0 THEN "absent" ELSE "tables"
  /\ columns = Made(version)
  /\ conn = [a \in Conns |-> Idle]
  /\ made = version /\ calm = TRUE

Migrate(a) ==
  \/ NoTables(a) \/ NoRow(a) \/ ReadVersion(a) \/ Skip(a) \/ AddColumn(a)
  \/ DuplicateColumn(a) \/ SetVersion(a) \/ Opened(a)

Initialize(a) ==
  CreateMeta(a) \/ CreateTables(a) \/ InsertRow(a) \/ InsertConflict(a)

\* Who begins or opens while another does so is no longer calm.
NoteOverlap(a) == calm' = (calm /\ \A b \in Conns \ {a} : ~Opening(b))

Next ==
  /\ \E a \in Conns :
       \/ (CheckPath(a) \/ Open(a)) /\ NoteOverlap(a)
       \/ (Migrate(a) \/ Initialize(a) \/ Close(a)) /\ UNCHANGED calm
       \/ Stop(a) /\ calm' = FALSE
  /\ UNCHANGED made

Spec == Init /\ [][Next]_vars

\* An operation that has begun runs to its end.
Proceed(a) == \/ Open(a) /\ Opening(a)
              \/ Migrate(a) \/ Initialize(a)
FairSpec == Spec /\ \A a \in Conns : WF_<<file, version, columns, conn>>(Proceed(a))

-----------------------------------------------------------------------------
(* Properties.                                                             *)

ConnType == [pc : {"idle", "path", "check", "migrate", "create", "insert",
                   "open"},
             op : {"open", "initialize"},
             next : 1 .. Len(Statements) + 1, read : 0 .. Current]

StateOK ==
  /\ file \in {"absent", "empty", "meta", "tables"}
  /\ version \in 0 .. Current
  /\ columns \subseteq AllColumns
  /\ conn \in [Conns -> ConnType]

TypeOK == StateOK /\ made \in FirstFiles /\ calm \in BOOLEAN

\* A stored version vouches for the columns of the versions whose statements
\* come before it, whoever migrates, crashes or fails meanwhile.  It does not
\* vouch for those of version 3, which are added last (schema.rs:94-122).
VersionVouches ==
  /\ version >= 2 => LockColumns \subseteq columns
  /\ version >= 4 => "recovery_contact_hash" \in columns
  /\ version = 5 => "deleted_at" \in columns

\* An operation only ever works on a file of the current schema: always on a
\* new file and on one of version 3 or later, whoever migrates it at the same
\* time, crashes or fails; on an older one as long as nothing does so
\* (schema.rs:90-125).
OpenIsCurrent ==
  calm \/ made \notin {1, 2} =>
    \A a \in Conns :
      conn[a].pc = "open" => version = Current /\ columns = AllColumns

\* An operation on an initialized file gets to open it, whatever release made
\* the file, as long as nothing fails and no two openings overlap
\* (schema.rs:90-125, vault.rs:233-238).
OpenSucceeds ==
  \A a \in Conns :
    (conn[a].pc = "check" /\ conn[a].op = "open" /\ version > 0)
      ~> (conn[a].pc = "open" \/ ~calm)

\* A file that nobody is opening can be migrated from where it is.
Reopenable ==
  (version > 0 /\ \A a \in Conns : ~Opening(a)) =>
    \A i \in 1 .. Len(Statements) :
      Due(i, version) => Statements[i].adds \notin columns

=============================================================================
