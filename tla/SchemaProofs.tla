----------------------------- MODULE SchemaProofs -----------------------------
(***************************************************************************)
(* Proofs about Schema, for any number of connections that migrate at the  *)
(* same time, crash and fail: the types, what a stored version vouches     *)
(* for, and when an operation works on a file of the current schema.       *)
(***************************************************************************)
EXTENDS Schema, TLAPS

USE SchemaAssumption

\* The statements of the migration, one by one.
LEMMA StatementList ==
  /\ Len(Statements) = 11
  /\ Statements[1] = [below |-> 2, adds |-> "failed_attempts", sets |-> 0]
  /\ Statements[2] = [below |-> 2, adds |-> "locked_until", sets |-> 0]
  /\ Statements[3] = [below |-> 2, adds |-> "none", sets |-> 2]
  /\ Statements[4] = [below |-> 4, adds |-> "recovery_contact_hash", sets |-> 0]
  /\ Statements[5] = [below |-> 4, adds |-> "none", sets |-> 4]
  /\ Statements[6] = [below |-> 3, adds |-> "fdek_kdf", sets |-> 0]
  /\ Statements[7] = [below |-> 3, adds |-> "fdek_wrap", sets |-> 0]
  /\ Statements[8] = [below |-> 3, adds |-> "fdek_wrap_recovery", sets |-> 0]
  /\ Statements[9] = [below |-> 3, adds |-> "none", sets |-> 3]
  /\ Statements[10] = [below |-> 5, adds |-> "deleted_at", sets |-> 0]
  /\ Statements[11] = [below |-> 5, adds |-> "none", sets |-> 5]
BY DEF Statements, Add, Set

\* What a statement adds or stores, by its place.
LEMMA StatementEffect ==
  ASSUME NEW i \in 1 .. 11
  PROVE  /\ Statements[i].adds # "none" => Statements[i].adds \in AllColumns
         /\ Statements[i].adds = "none" =>
              \/ i = 3 /\ Statements[i].sets = 2
              \/ i = 5 /\ Statements[i].sets = 4
              \/ i = 9 /\ Statements[i].sets = 3
              \/ i = 11 /\ Statements[i].sets = 5
         /\ Statements[i].adds = "failed_attempts" <=> i = 1
         /\ Statements[i].adds = "locked_until" <=> i = 2
         /\ Statements[i].adds = "recovery_contact_hash" <=> i = 4
         /\ Statements[i].adds = "deleted_at" <=> i = 10
         /\ i \in {1, 2} => Statements[i].below = 2
         /\ i = 4 => Statements[i].below = 4
         /\ i = 10 => Statements[i].below = 5
<1>1. i \in {1, 2, 3, 4, 5, 6, 7, 8, 9, 10, 11}
  OBVIOUS
<1> QED
  BY <1>1, StatementList
     DEF AllColumns, MetaColumns, LockColumns, FdekColumns

-----------------------------------------------------------------------------
(* The invariant: a connection that has passed a statement, or has read a  *)
(* version that needs no such statement, can count on its column.          *)

Passed(a) ==
  conn[a].pc = "migrate" =>
    /\ version > 0
    /\ conn[a].next > 1 \/ conn[a].read >= 2 => "failed_attempts" \in columns
    /\ conn[a].next > 2 \/ conn[a].read >= 2 => "locked_until" \in columns
    /\ conn[a].next > 4 \/ conn[a].read >= 4 => "recovery_contact_hash" \in columns
    /\ conn[a].next > 10 \/ conn[a].read >= 5 => "deleted_at" \in columns

\* Tables that initialize makes have every column before the row is there.
Created ==
  /\ version > 0 => file = "tables"
  /\ file = "meta" => MetaColumns \subseteq columns
  /\ file = "tables" /\ version = 0 => AllColumns \subseteq columns
  /\ \A a \in Conns : conn[a].pc = "insert" => file = "tables"

VouchInv ==
  /\ StateOK /\ VersionVouches /\ Created
  /\ \A a \in Conns : Passed(a)

\* The invariant holds of every file that a release made.
LEMMA VouchInit == Init => VouchInv
<1> SUFFICES ASSUME Init PROVE VouchInv
  OBVIOUS
<1>1. version \in 0 .. 5
  BY DEF Init, Current
<1>2. \A a \in Conns : conn[a] = Idle
  BY DEF Init
<1>3. conn \in [Conns -> ConnType]
  BY StatementList DEF Init, Idle, ConnType, Current
<1>4. columns \subseteq AllColumns
  BY DEF Init, Made, AllColumns, MetaColumns
<1>5. StateOK
  BY <1>1, <1>3, <1>4 DEF Init, StateOK, Current
<1>6. VersionVouches
  BY <1>1 DEF Init, VersionVouches, Made
<1>7. Created
  BY <1>1, <1>2 DEF Init, Created, Idle
<1>8. \A a \in Conns : Passed(a)
  BY <1>2 DEF Passed, Idle
<1> QED
  BY <1>5, <1>6, <1>7, <1>8 DEF VouchInv

\* Columns are never dropped, so what is passed stays passed.
LEMMA StillPassed ==
  ASSUME NEW a \in Conns, Passed(a), conn'[a] = conn[a],
         columns \subseteq columns', version > 0 => version' > 0
  PROVE  Passed(a)'
BY DEF Passed

\* A connection that changes its step, and no statement.
LEMMA Elsewhere ==
  ASSUME VouchInv, NEW a \in Conns, NEW c \in ConnType,
         UNCHANGED <<file, version, columns>>,
         conn' = [conn EXCEPT ![a] = c],
         c.pc = "insert" => file = "tables", Passed(a)'
  PROVE  VouchInv'
<1>1. StateOK'
  BY DEF VouchInv, StateOK
<1>2. \A b \in Conns \ {a} : conn'[b] = conn[b]
  BY DEF VouchInv, StateOK
<1>3. conn'[a] = c
  BY DEF VouchInv, StateOK
<1>4. Created'
  BY <1>2, <1>3 DEF VouchInv, Created
<1>5. \A b \in Conns : Passed(b)'
  BY <1>2, StillPassed DEF VouchInv
<1> QED
  BY <1>1, <1>4, <1>5 DEF VouchInv, VersionVouches

\* The steps of a connection are steps.
LEMMA ConnTyped ==
  ASSUME StateOK, NEW a \in Conns
  PROVE  /\ Idle \in ConnType
         /\ \A pc \in {"idle", "path", "check", "migrate", "create", "insert",
                       "open"} : [conn[a] EXCEPT !.pc = pc] \in ConnType
         /\ [pc |-> "path", op |-> "initialize", next |-> 1, read |-> 0]
              \in ConnType
         /\ [pc |-> "check", op |-> conn[a].op, next |-> 1, read |-> 0]
              \in ConnType
         /\ [pc |-> "migrate", op |-> conn[a].op, next |-> 1,
             read |-> version] \in ConnType
<1>1. conn[a] \in ConnType /\ version \in 0 .. Current
  BY DEF StateOK
<1>2. 1 \in 1 .. Len(Statements) + 1 /\ 0 \in 0 .. Current
  BY StatementList DEF Current
<1> QED
  BY <1>1, <1>2 DEF ConnType, Idle

\* A connection that gives up, or is done, keeps the invariant.
LEMMA FailKeeps ==
  ASSUME VouchInv, NEW a \in Conns, Fail(a), UNCHANGED <<file, version, columns>>
  PROVE  VouchInv'
<1>1. Idle \in ConnType /\ Idle.pc = "idle"
  BY ConnTyped DEF VouchInv, Idle
<1>2. conn'[a] = Idle
  BY DEF Fail, VouchInv, StateOK
<1>3. Passed(a)'
  BY <1>1, <1>2 DEF Passed
<1> QED
  BY <1>1, <1>3, Elsewhere DEF Fail

\* So does one that moves on to a step outside the migration.
LEMMA GotoKeeps ==
  ASSUME VouchInv, NEW a \in Conns, NEW pc \in {"create", "open"},
         Goto(a, pc), UNCHANGED <<file, version, columns>>
  PROVE  VouchInv'
<1> DEFINE c == [conn[a] EXCEPT !.pc = pc]
<1>0. conn[a] \in ConnType
  BY DEF VouchInv, StateOK
<1>1. c \in ConnType /\ c.pc = pc
  BY <1>0 DEF ConnType
<1>2. conn' = [conn EXCEPT ![a] = c] /\ conn'[a] = c
  BY DEF Goto, VouchInv, StateOK
<1> HIDE DEF c
<1>3. Passed(a)'
  BY <1>1, <1>2 DEF Passed
<1> QED
  BY <1>1, <1>2, <1>3, Elsewhere

\* Reading the version, a connection counts on what the version vouches for.
LEMMA ReadKeeps ==
  ASSUME VouchInv, NEW a \in Conns, ReadVersion(a)
  PROVE  VouchInv'
<1> DEFINE c == [pc |-> "migrate", op |-> conn[a].op, next |-> 1,
                 read |-> version]
<1>1. c \in ConnType /\ c.pc = "migrate" /\ c.next = 1 /\ c.read = version
  BY ConnTyped DEF VouchInv
<1>2. conn' = [conn EXCEPT ![a] = c] /\ conn'[a] = c
      /\ UNCHANGED <<file, version, columns>> /\ version > 0
  BY DEF ReadVersion, VouchInv, StateOK
<1> HIDE DEF c
<1>3. version \in 0 .. 5 /\ VersionVouches
  BY DEF VouchInv, StateOK, Current
<1>4. Passed(a)'
  BY <1>1, <1>2, <1>3 DEF Passed, VersionVouches, LockColumns
<1> QED
  BY <1>1, <1>2, <1>4, Elsewhere

\* A statement that is passed, run or not, leaves its column behind.
LEMMA AdvanceKeeps ==
  ASSUME VouchInv, NEW a \in Conns,
         conn[a].pc = "migrate", conn[a].next \in 1 .. 11,
         conn' = [conn EXCEPT ![a].next = conn[a].next + 1],
         UNCHANGED file, columns \subseteq columns', columns' \subseteq AllColumns,
         version' \in 1 .. Current,
         VersionVouches',
         conn[a].next = 1 /\ conn[a].read < 2 => "failed_attempts" \in columns',
         conn[a].next = 2 /\ conn[a].read < 2 => "locked_until" \in columns',
         conn[a].next = 4 /\ conn[a].read < 4 =>
           "recovery_contact_hash" \in columns',
         conn[a].next = 10 /\ conn[a].read < 5 => "deleted_at" \in columns'
  PROVE  VouchInv'
<1>1. /\ conn \in [Conns -> ConnType] /\ Passed(a) /\ conn[a].read \in 0 .. 5
      /\ version > 0 /\ version' > 0
  BY DEF VouchInv, StateOK, ConnType, Current, Passed
<1>2. /\ conn' \in [Conns -> ConnType]
      /\ conn'[a].pc = "migrate" /\ conn'[a].next = conn[a].next + 1
      /\ conn'[a].read = conn[a].read
      /\ \A b \in Conns \ {a} : conn'[b] = conn[b]
  BY <1>1, StatementList DEF ConnType
<1>3. Passed(a)'
  BY <1>1, <1>2 DEF Passed
<1>4. \A b \in Conns : Passed(b)'
  BY <1>1, <1>2, <1>3, StillPassed DEF VouchInv
<1>5. StateOK'
  BY <1>2 DEF VouchInv, StateOK
<1>6. Created'
  <2>1. version # 0 /\ version' # 0
    BY <1>1
  <2> QED
    BY <1>1, <1>2, <2>1 DEF VouchInv, Created
<1> QED
  BY <1>4, <1>5, <1>6 DEF VouchInv

\* The three ways to pass a statement.
LEMMA StatementKeeps ==
  ASSUME VouchInv, NEW a \in Conns, Skip(a) \/ AddColumn(a) \/ SetVersion(a)
  PROVE  VouchInv'
<1>1. /\ conn \in [Conns -> ConnType] /\ Passed(a) /\ VersionVouches
      /\ conn[a].read \in 0 .. 5 /\ columns \subseteq AllColumns
      /\ version \in 0 .. Current
  BY DEF VouchInv, StateOK, ConnType, Current
<1>2. /\ conn[a].next \in 1 .. 11 /\ conn[a].pc = "migrate"
      /\ conn' = [conn EXCEPT ![a].next = conn[a].next + 1] /\ UNCHANGED file
  BY <1>1, StatementList
     DEF Skip, AddColumn, SetVersion, Skipped, Due, ConnType
<1>v. version > 0 /\ version \in 1 .. Current
  BY <1>1, <1>2 DEF Passed, Current
<1> DEFINE s == Statements[conn[a].next]
<1>3. CASE Skip(a)
  <2>1. UNCHANGED <<version, columns>> /\ ~(conn[a].read < s.below)
    BY <1>2, <1>3, StatementList DEF Skip, Skipped, Due
  <2>2. VersionVouches'
    BY <1>1, <2>1 DEF VersionVouches
  <2>3. /\ conn[a].next \in {1, 2} => conn[a].read >= 2
        /\ conn[a].next = 4 => conn[a].read >= 4
        /\ conn[a].next = 10 => conn[a].read >= 5
    BY <1>1, <1>2, <2>1, StatementEffect
  <2>4. columns' = columns /\ version' = version
    BY <2>1
  <2>5. /\ ~(conn[a].next \in {1, 2} /\ conn[a].read < 2)
        /\ ~(conn[a].next = 4 /\ conn[a].read < 4)
        /\ ~(conn[a].next = 10 /\ conn[a].read < 5)
    BY <1>1, <2>3
  <2> HIDE DEF s
  <2> QED
    BY <1>1, <1>2, <1>v, <2>2, <2>4, <2>5, AdvanceKeeps
<1>4. CASE AddColumn(a)
  <2>1. /\ columns' = columns \cup {s.adds} /\ s.adds # "none"
        /\ UNCHANGED version
    BY <1>4 DEF AddColumn
  <2>2. VersionVouches'
    BY <1>1, <2>1 DEF VersionVouches
  <2>3. s.adds \in AllColumns
    BY <1>2, <2>1, StatementEffect
  <2> HIDE DEF s
  <2>4. columns \subseteq columns' /\ columns' \subseteq AllColumns
        /\ s.adds \in columns'
    BY <1>1, <2>1, <2>3
  <2>5. /\ conn[a].next = 1 => s.adds = "failed_attempts"
        /\ conn[a].next = 2 => s.adds = "locked_until"
        /\ conn[a].next = 4 => s.adds = "recovery_contact_hash"
        /\ conn[a].next = 10 => s.adds = "deleted_at"
    BY <1>2, StatementEffect DEF s
  <2> QED
    BY <1>1, <1>2, <1>v, <2>1, <2>2, <2>4, <2>5, AdvanceKeeps
<1>5. CASE SetVersion(a)
  <2>1. /\ version' = s.sets /\ s.adds = "none" /\ UNCHANGED columns
        /\ conn[a].read < s.below
    BY <1>5 DEF SetVersion, Due
  <2>2. \/ conn[a].next = 3 /\ version' = 2
        \/ conn[a].next = 5 /\ version' = 4
        \/ conn[a].next = 9 /\ version' = 3
        \/ conn[a].next = 11 /\ version' = 5
    BY <1>2, <2>1, StatementEffect
  <2>3. VersionVouches'
    BY <1>1, <1>2, <2>1, <2>2 DEF Passed, VersionVouches, LockColumns
  <2>4. version' \in 1 .. Current
    BY <2>2 DEF Current
  <2>5. conn[a].next \notin {1, 2, 4, 10}
    BY <2>2
  <2> HIDE DEF s
  <2> QED
    BY <1>1, <1>2, <2>1, <2>3, <2>4, <2>5, AdvanceKeeps
<1> QED
  BY <1>3, <1>4, <1>5

\* initialize has every column in place before it stores the row.
LEMMA InitializeKeeps ==
  ASSUME VouchInv, NEW a \in Conns, CreateMeta(a) \/ CreateTables(a)
                                    \/ InsertRow(a) \/ InsertConflict(a)
  PROVE  VouchInv'
<1>1. /\ StateOK /\ VersionVouches /\ Created /\ \A b \in Conns : Passed(b)
      /\ conn \in [Conns -> ConnType] /\ version \in 0 .. 5
  BY DEF VouchInv, StateOK, Current
<1>2. CASE CreateMeta(a)
  <2>1. /\ file = "empty" /\ file' = "meta" /\ columns' = MetaColumns
        /\ UNCHANGED <<version, conn>>
    BY <1>2 DEF CreateMeta
  <2>2. version = 0 /\ \A b \in Conns : conn[b].pc \notin {"migrate", "insert"}
    BY <1>1, <2>1 DEF Created, Passed
  <2>3. StateOK'
    BY <1>1, <2>1 DEF StateOK, AllColumns, MetaColumns
  <2> QED
    BY <1>1, <2>1, <2>2, <2>3 DEF VouchInv, VersionVouches, Created, Passed
<1>3. CASE CreateTables(a)
  <2> DEFINE c == [conn[a] EXCEPT !.pc = "insert"]
  <2>1. /\ file \in {"meta", "tables"} /\ file' = "tables" /\ UNCHANGED version
        /\ columns' = IF file = "meta" THEN columns \cup {"deleted_at"}
                                       ELSE columns
        /\ conn' = [conn EXCEPT ![a] = c]
    BY <1>1, <1>3 DEF CreateTables, Goto
  <2>2. c \in ConnType /\ c.pc = "insert"
    BY <1>1 DEF ConnType
  <2>3. /\ conn' \in [Conns -> ConnType] /\ conn'[a].pc = "insert"
        /\ \A b \in Conns \ {a} : conn'[b] = conn[b]
    BY <1>1, <2>1, <2>2
  <2> HIDE DEF c
  <2>4. columns \subseteq columns' /\ columns' \subseteq AllColumns
    BY <1>1, <2>1 DEF StateOK, AllColumns
  <2>5. StateOK'
    BY <1>1, <2>1, <2>3, <2>4 DEF StateOK
  <2>6. Created'
    <3>1. version = 0 => AllColumns \subseteq columns'
      BY <1>1, <2>1 DEF Created, AllColumns
    <3> QED
      BY <2>1, <3>1 DEF Created
  <2>7. VersionVouches'
    BY <1>1, <2>1, <2>4 DEF VersionVouches
  <2>8. \A b \in Conns : Passed(b)'
    <3>1. Passed(a)'
      BY <2>3 DEF Passed
    <3>2. \A b \in Conns \ {a} : Passed(b)'
      BY <1>1, <2>1, <2>3, <2>4, StillPassed
    <3> QED
      BY <3>1, <3>2
  <2> QED
    BY <2>5, <2>6, <2>7, <2>8 DEF VouchInv
<1>4. CASE InsertRow(a)
  <2>1. /\ conn[a].pc = "insert" /\ version = 0 /\ version' = 5
        /\ UNCHANGED <<file, columns>> /\ conn' = [conn EXCEPT ![a] = Idle]
    BY <1>4 DEF InsertRow, Fail, Current
  <2>2. AllColumns \subseteq columns /\ file = "tables"
    BY <1>1, <2>1 DEF Created
  <2>3. Idle \in ConnType /\ Idle.pc = "idle"
    BY <1>1, ConnTyped DEF Idle
  <2>4. /\ conn' \in [Conns -> ConnType] /\ conn'[a] = Idle
        /\ \A b \in Conns \ {a} : conn'[b] = conn[b]
    BY <1>1, <2>1, <2>3
  <2>5. StateOK'
    BY <1>1, <2>1, <2>4 DEF StateOK, Current
  <2>6. VersionVouches' /\ Created'
    BY <2>1, <2>2 DEF VersionVouches, Created, AllColumns, MetaColumns
  <2>7. \A b \in Conns : Passed(b)'
    <3>1. Passed(a)'
      BY <2>3, <2>4 DEF Passed
    <3>2. \A b \in Conns \ {a} : Passed(b)'
      BY <1>1, <2>1, <2>4, StillPassed
    <3> QED
      BY <3>1, <3>2
  <2> QED
    BY <2>5, <2>6, <2>7 DEF VouchInv
<1>5. CASE InsertConflict(a)
  BY <1>5, FailKeeps DEF InsertConflict
<1> QED
  BY <1>2, <1>3, <1>4, <1>5

\* A connection that looks for the file, opens it or makes an empty one,
\* changes nothing that is vouched for.
LEMMA OpenKeeps ==
  ASSUME VouchInv, NEW a \in Conns, CheckPath(a) \/ Open(a)
  PROVE  VouchInv'
<1>1. CASE CheckPath(a)
  <2> DEFINE c == [pc |-> "path", op |-> "initialize", next |-> 1, read |-> 0]
  <2>1. c \in ConnType /\ c.pc = "path"
    BY ConnTyped DEF VouchInv
  <2>2. conn' = [conn EXCEPT ![a] = c] /\ UNCHANGED <<file, version, columns>>
    BY <1>1 DEF CheckPath
  <2> HIDE DEF c
  <2>3. Passed(a)'
    BY <2>1, <2>2 DEF Passed, VouchInv, StateOK
  <2> QED
    BY <2>1, <2>2, <2>3, Elsewhere
<1>2. CASE Open(a)
  <2> DEFINE c == [pc |-> "check", op |-> conn[a].op, next |-> 1, read |-> 0]
  <2>1. c \in ConnType /\ c.pc = "check"
    BY ConnTyped DEF VouchInv
  <2>2. /\ conn' = [conn EXCEPT ![a] = c] /\ UNCHANGED <<version, columns>>
        /\ file' = IF file = "absent" THEN "empty" ELSE file
    BY <1>2 DEF Open
  <2> HIDE DEF c
  <2>3. /\ conn' \in [Conns -> ConnType] /\ conn'[a].pc = "check"
        /\ \A b \in Conns \ {a} : conn'[b] = conn[b]
    BY <2>1, <2>2 DEF VouchInv, StateOK
  <2>4. StateOK' /\ VersionVouches'
    BY <2>2, <2>3 DEF VouchInv, StateOK, VersionVouches
  <2>5. Created'
    BY <2>2, <2>3 DEF VouchInv, Created
  <2>6. \A b \in Conns : Passed(b)'
    BY <2>2, <2>3 DEF VouchInv, Passed
  <2> QED
    BY <2>4, <2>5, <2>6 DEF VouchInv
<1> QED
  BY <1>1, <1>2

\* Every step keeps the invariant.
LEMMA VouchStep == VouchInv /\ [Next]_vars => VouchInv'
<1> SUFFICES ASSUME VouchInv, [Next]_vars PROVE VouchInv'
  OBVIOUS
<1>1. CASE UNCHANGED vars
  BY <1>1 DEF vars, VouchInv, StateOK, VersionVouches, Created, Passed
<1>2. ASSUME NEW a \in Conns, CheckPath(a) \/ Open(a) PROVE VouchInv'
  BY <1>2, OpenKeeps
<1>3. ASSUME NEW a \in Conns, Initialize(a) PROVE VouchInv'
  BY <1>3, InitializeKeeps DEF Initialize
<1>4. ASSUME NEW a \in Conns, NoRow(a) \/ DuplicateColumn(a) \/ Stop(a) \/ Close(a)
      PROVE  VouchInv'
  BY <1>4, FailKeeps DEF NoRow, DuplicateColumn, Stop, Close
<1>5. ASSUME NEW a \in Conns, NoTables(a) \/ Opened(a) PROVE VouchInv'
  BY <1>5, FailKeeps, GotoKeeps DEF NoTables, Opened
<1>6. ASSUME NEW a \in Conns, ReadVersion(a) PROVE VouchInv'
  BY <1>6, ReadKeeps
<1>7. ASSUME NEW a \in Conns, Skip(a) \/ AddColumn(a) \/ SetVersion(a)
      PROVE  VouchInv'
  BY <1>7, StatementKeeps
<1> QED
  BY <1>1, <1>2, <1>3, <1>4, <1>5, <1>6, <1>7 DEF Next, Migrate

\* The file, its version and the connections always have their types.
THEOREM SchemaTypeCorrect == Spec => []TypeOK
<1> DEFINE HistoryOK == made \in FirstFiles /\ calm \in BOOLEAN
<1>1. Init => HistoryOK
  BY DEF Init
<1>2. HistoryOK /\ [Next]_vars => HistoryOK'
  BY DEF Next, NoteOverlap, vars
<1>3. VouchInv => StateOK
  BY DEF VouchInv
<1>4. StateOK /\ HistoryOK => TypeOK
  BY DEF TypeOK
<1> HIDE DEF HistoryOK
<1> QED
  BY <1>1, <1>2, <1>3, <1>4, VouchInit, VouchStep, PTL DEF Spec

\* However many connections migrate the file at a time, and wherever they
\* stop, a stored version has the columns it vouches for (schema.rs:94-122).
THEOREM VersionAlwaysVouches == Spec => []VersionVouches
<1>1. VouchInv => VersionVouches
  BY DEF VouchInv
<1> QED
  BY <1>1, VouchInit, VouchStep, PTL DEF Spec

-----------------------------------------------------------------------------
(* An operation only works on a file of the current schema.  What each     *)
(* step does to the version, the columns and its own connection:           *)

Migrating(a) == conn[a].pc = "migrate"

\* It is neither in the migration afterwards nor open; and it leaves the
\* migration only at its end, or at a column that is there.
Rests(a) ==
  /\ conn'[a].pc \notin {"migrate", "open"} /\ version' = version
  /\ columns' = columns \/ version = 0
  /\ Migrating(a) => \/ conn[a].next = 12
                     \/ /\ conn[a].next \in 1 .. 11
                        /\ conn[a].read < Statements[conn[a].next].below
                        /\ Statements[conn[a].next].adds \in columns

Inserts(a) ==
  /\ conn'[a].pc = "idle" /\ version = 0 /\ version' = 5
  /\ columns' = columns /\ AllColumns \subseteq columns

Reads(a) ==
  /\ conn'[a].pc = "migrate" /\ conn'[a].next = 1 /\ conn'[a].read = version
  /\ version > 0 /\ UNCHANGED <<version, columns>> /\ ~Migrating(a)

\* It goes on to the next statement.
Advance(a) ==
  /\ Migrating(a) /\ conn[a].next \in 1 .. 11 /\ conn'[a].pc = "migrate"
  /\ conn'[a].next = conn[a].next + 1 /\ conn'[a].read = conn[a].read

Skips(a) ==
  /\ Advance(a) /\ ~(conn[a].read < Statements[conn[a].next].below)
  /\ UNCHANGED <<version, columns>>

Adds(a) ==
  LET s == Statements[conn[a].next]
  IN  /\ Advance(a) /\ conn[a].read < s.below /\ s.adds # "none"
      /\ s.adds \notin columns /\ columns' = columns \cup {s.adds}
      /\ UNCHANGED version

Sets(a) ==
  LET s == Statements[conn[a].next]
  IN  /\ Advance(a) /\ conn[a].read < s.below /\ s.adds = "none"
      /\ version' = s.sets /\ UNCHANGED columns

Opens(a) ==
  /\ Migrating(a) /\ conn[a].next = 12 /\ conn'[a].pc = "open"
  /\ UNCHANGED <<version, columns>>

Effect(a) ==
  /\ \A b \in Conns \ {a} : conn'[b] = conn[b]
  /\ \/ Rests(a) \/ Inserts(a) \/ Reads(a) \/ Skips(a) \/ Adds(a) \/ Sets(a)
     \/ Opens(a)

\* A connection takes its next step, and the others stay where they are.
LEMMA MoveEffect ==
  ASSUME conn \in [Conns -> ConnType], NEW a \in Conns
  PROVE  /\ \A c : conn' = [conn EXCEPT ![a] = c] =>
              conn'[a] = c /\ \A b \in Conns \ {a} : conn'[b] = conn[b]
         /\ \A pc : Goto(a, pc) =>
              /\ conn'[a].pc = pc /\ conn'[a].next = conn[a].next
              /\ conn'[a].read = conn[a].read
              /\ \A b \in Conns \ {a} : conn'[b] = conn[b]
         /\ \A n : conn' = [conn EXCEPT ![a].next = n] =>
              /\ conn'[a].pc = conn[a].pc /\ conn'[a].next = n
              /\ conn'[a].read = conn[a].read
              /\ \A b \in Conns \ {a} : conn'[b] = conn[b]
         /\ Fail(a) => conn'[a].pc = "idle"
                       /\ \A b \in Conns \ {a} : conn'[b] = conn[b]
BY DEF ConnType, Goto, Fail, Idle

\* The steps of the migration have one of these effects.
LEMMA MigrateEffect ==
  ASSUME VouchInv, NEW a \in Conns, Migrate(a)
  PROVE  Effect(a)
<1>1. /\ conn \in [Conns -> ConnType] /\ conn[a].next \in 1 .. 12
      /\ \A b \in Conns : Passed(b)
  BY StatementList DEF VouchInv, StateOK, ConnType
<1>2. CASE NoTables(a)
  <2>1. /\ conn'[a].pc \in {"create", "idle"} /\ UNCHANGED <<version, columns>>
        /\ \A b \in Conns \ {a} : conn'[b] = conn[b]
    BY <1>1, <1>2, MoveEffect DEF NoTables
  <2> QED
    BY <1>2, <2>1 DEF Effect, Rests, Migrating, NoTables
<1>3. CASE NoRow(a)
  <2>1. /\ conn'[a].pc = "idle" /\ UNCHANGED <<version, columns>>
        /\ \A b \in Conns \ {a} : conn'[b] = conn[b]
    BY <1>1, <1>3, MoveEffect DEF NoRow
  <2> QED
    BY <1>3, <2>1 DEF Effect, Rests, Migrating, NoRow
<1>4. CASE ReadVersion(a)
  BY <1>1, <1>4 DEF ReadVersion, Effect, Reads, Migrating
<1>5. CASE Skip(a)
  <2>1. /\ conn[a].next \in 1 .. 11 /\ ~(conn[a].read < Statements[conn[a].next].below)
    BY <1>1, <1>5, StatementList DEF Skip, Skipped, Due
  <2>2. Advance(a) /\ \A b \in Conns \ {a} : conn'[b] = conn[b]
    BY <1>1, <1>5, <2>1, MoveEffect DEF Skip, Advance, Migrating
  <2> QED
    BY <1>5, <2>1, <2>2 DEF Skip, Effect, Skips
<1>6. CASE AddColumn(a)
  <2>1. conn[a].next \in 1 .. 11 /\ conn[a].read < Statements[conn[a].next].below
    BY <1>1, <1>6, StatementList DEF AddColumn, Due
  <2>2. Advance(a) /\ \A b \in Conns \ {a} : conn'[b] = conn[b]
    BY <1>1, <1>6, <2>1, MoveEffect DEF AddColumn, Advance, Migrating
  <2> QED
    BY <1>6, <2>1, <2>2 DEF AddColumn, Effect, Adds
<1>7. CASE DuplicateColumn(a)
  <2>1. conn[a].next \in 1 .. 11 /\ conn[a].read < Statements[conn[a].next].below
    BY <1>1, <1>7, StatementList DEF DuplicateColumn, Due
  <2>2. conn'[a].pc = "idle" /\ \A b \in Conns \ {a} : conn'[b] = conn[b]
    BY <1>1, <1>7, MoveEffect DEF DuplicateColumn
  <2> QED
    BY <1>7, <2>1, <2>2 DEF DuplicateColumn, Effect, Rests
<1>8. CASE SetVersion(a)
  <2>1. conn[a].next \in 1 .. 11 /\ conn[a].read < Statements[conn[a].next].below
    BY <1>1, <1>8, StatementList DEF SetVersion, Due
  <2>2. Advance(a) /\ \A b \in Conns \ {a} : conn'[b] = conn[b]
    BY <1>1, <1>8, <2>1, MoveEffect DEF SetVersion, Advance, Migrating
  <2> QED
    BY <1>8, <2>1, <2>2 DEF SetVersion, Effect, Sets
<1>9. CASE Opened(a)
  <2>1. conn[a].next = 12 /\ Migrating(a) /\ UNCHANGED <<version, columns>>
    BY <1>1, <1>9, StatementList DEF Opened, Migrating
  <2>2. /\ conn'[a].pc \in {"create", "open"}
        /\ \A b \in Conns \ {a} : conn'[b] = conn[b]
    BY <1>1, <1>9, MoveEffect DEF Opened
  <2> QED
    BY <2>1, <2>2 DEF Effect, Rests, Opens
<1> QED
  BY <1>2, <1>3, <1>4, <1>5, <1>6, <1>7, <1>8, <1>9 DEF Migrate

\* So have the others.
LEMMA OtherEffect ==
  ASSUME VouchInv, NEW a \in Conns,
         CheckPath(a) \/ Open(a) \/ Initialize(a) \/ Close(a)
  PROVE  Effect(a)
<1>1. conn \in [Conns -> ConnType] /\ Created
  BY DEF VouchInv, StateOK
<1>2. CASE CheckPath(a) \/ Open(a)
  BY <1>1, <1>2 DEF CheckPath, Open, Effect, Rests, Migrating
<1>3. CASE Close(a)
  <2>1. conn'[a].pc = "idle" /\ \A b \in Conns \ {a} : conn'[b] = conn[b]
    BY <1>1, <1>3, MoveEffect DEF Close
  <2> QED
    BY <1>3, <2>1 DEF Close, Effect, Rests, Migrating
<1>4. CASE CreateMeta(a)
  <2>1. version = 0 /\ conn[a].pc = "create"
    BY <1>1, <1>4 DEF CreateMeta, Created, VouchInv, StateOK
  <2> QED
    BY <1>4, <2>1 DEF CreateMeta, Effect, Rests, Migrating
<1>5. CASE CreateTables(a)
  <2>1. file = "meta" => version = 0
    BY <1>1 DEF Created, VouchInv, StateOK
  <2>2. conn'[a].pc = "insert" /\ \A b \in Conns \ {a} : conn'[b] = conn[b]
    BY <1>1, <1>5, MoveEffect DEF CreateTables
  <2> QED
    BY <1>5, <2>1, <2>2 DEF CreateTables, Effect, Rests, Migrating
<1>6. CASE InsertRow(a)
  <2>1. conn'[a].pc = "idle" /\ \A b \in Conns \ {a} : conn'[b] = conn[b]
    BY <1>1, <1>6, MoveEffect DEF InsertRow
  <2> QED
    BY <1>1, <1>6, <2>1 DEF InsertRow, Effect, Inserts, Created, Current
<1>7. CASE InsertConflict(a)
  <2>1. conn'[a].pc = "idle" /\ \A b \in Conns \ {a} : conn'[b] = conn[b]
    BY <1>1, <1>7, MoveEffect DEF InsertConflict
  <2> QED
    BY <1>7, <2>1 DEF InsertConflict, Effect, Rests, Migrating
<1> QED
  BY <1>2, <1>3, <1>4, <1>5, <1>6, <1>7 DEF Initialize

\* What a statement adds, stores and is run for, by its place.
LEMMA StatementPlaces ==
  ASSUME NEW i \in 1 .. 11
  PROVE  /\ i <= 3 => Statements[i].below = 2
         /\ i \in {4, 5} => Statements[i].below = 4
         /\ 6 <= i /\ i <= 9 => Statements[i].below = 3
         /\ 10 <= i => Statements[i].below = 5
         /\ Statements[i].below \in 2 .. 5
         /\ Statements[i].adds = "none" <=> i \in {3, 5, 9, 11}
         /\ Statements[i].adds = "fdek_kdf" <=> i = 6
         /\ Statements[i].adds = "fdek_wrap" <=> i = 7
         /\ Statements[i].adds = "fdek_wrap_recovery" <=> i = 8
<1>1. i \in {1, 2, 3, 4, 5, 6, 7, 8, 9, 10, 11}
  OBVIOUS
<1> QED
  BY <1>1, StatementList

\* No two statements add the same column.
LEMMA AddsOnce ==
  ASSUME NEW i \in 1 .. 11, NEW j \in 1 .. 11,
         Statements[i].adds = Statements[j].adds, Statements[i].adds # "none"
  PROVE  i = j
<1>1. i \in {1, 2, 4, 6, 7, 8, 10} /\ j \in {1, 2, 4, 6, 7, 8, 10}
  BY StatementPlaces
<1> QED
  BY <1>1, StatementList

-----------------------------------------------------------------------------
(* A file made by no release older than version 3: whoever migrates it     *)
(* meanwhile, crashes or fails.                                            *)

\* Only one connection at a time has added the column of version 4, and it
\* stores that version over the one that it has read.
Adding(a) == Migrating(a) /\ conn[a].read = 3 /\ conn[a].next > 4

Modern ==
  /\ version \in {0, 3, 4, 5}
  /\ version > 0 => FdekColumns \subseteq columns
  /\ \A a \in Conns : Migrating(a) =>
       /\ 3 <= conn[a].read /\ conn[a].read <= version
       /\ conn[a].read = 3 /\ conn[a].next = 5 => version = 3
       /\ conn[a].next = 12 => version = 5
  /\ \A a, b \in Conns : Adding(a) /\ Adding(b) => a = b
  /\ \A a \in Conns : conn[a].pc = "open" => version = 5

\* Whoever sets version 4 read version 3, which still is there; nobody but the
\* last sets version 5.
LEMMA ModernSets ==
  ASSUME VouchInv, Modern, NEW a \in Conns, Sets(a)
  PROVE  \/ /\ conn[a].next = 5 /\ conn[a].read = 3 /\ version = 3 /\ version' = 4
         \/ /\ conn[a].next = 11 /\ version' = 5
            /\ \A b \in Conns : ~(Migrating(b) /\ conn[b].read = 3 /\ conn[b].next = 5)
<1>1. /\ Migrating(a) /\ conn[a].next \in 1 .. 11 /\ conn[a].read \in 0 .. 5
      /\ 3 <= conn[a].read /\ conn[a].read <= version
      /\ conn[a].read < Statements[conn[a].next].below
      /\ Statements[conn[a].next].adds = "none"
      /\ version' = Statements[conn[a].next].sets
  BY DEF Sets, Advance, Modern, VouchInv, StateOK, ConnType, Current
<1>2. conn[a].next \in {3, 5, 9, 11}
  BY <1>1, StatementPlaces
<1>3. CASE conn[a].next \in {3, 9}
  BY <1>1, <1>3, StatementPlaces
<1>4. CASE conn[a].next = 5
  <2>1. conn[a].read = 3 /\ version' = 4
    BY <1>1, <1>4, StatementList
  <2> QED
    BY <1>1, <1>4, <2>1 DEF Modern
<1>5. CASE conn[a].next = 11
  <2>1. version' = 5 /\ conn[a].read \in {3, 4}
    BY <1>1, <1>5, StatementList
  <2>2. ASSUME NEW b \in Conns, Migrating(b), conn[b].read = 3, conn[b].next = 5
        PROVE  FALSE
    <3>1. version = 3 /\ Adding(b) /\ b # a
      BY <1>5, <2>2 DEF Modern, Adding
    <3>2. Adding(a)
      BY <1>1, <1>5, <2>1, <3>1 DEF Adding
    <3> QED
      BY <3>1, <3>2 DEF Modern
  <2> QED
    BY <1>5, <2>1, <2>2
<1> QED
  BY <1>2, <1>3, <1>4, <1>5

\* Every step keeps it.
LEMMA ModernKept ==
  ASSUME VouchInv, Modern, NEW a \in Conns, Effect(a)
  PROVE  Modern'
<1>1. /\ \A b \in Conns \ {a} : conn'[b] = conn[b]
      /\ \A b \in Conns : conn[b].read \in 0 .. 5 /\ conn[b].next \in 1 .. 12
      /\ version \in 0 .. 5
  BY StatementList DEF Effect, VouchInv, StateOK, ConnType, Current
<1>2. CASE Rests(a)
  BY <1>1, <1>2 DEF Rests, Modern, Migrating, Adding
<1>3. CASE Inserts(a)
  <2>1. \A b \in Conns : ~Migrating(b) /\ conn[b].pc # "open"
    BY <1>1, <1>3 DEF Inserts, Modern
  <2>2. FdekColumns \subseteq columns'
    BY <1>3 DEF Inserts, AllColumns, MetaColumns
  <2> QED
    BY <1>1, <1>3, <2>1, <2>2 DEF Inserts, Modern, Migrating, Adding
<1>4. CASE Reads(a)
  BY <1>1, <1>4 DEF Reads, Modern, Migrating, Adding
<1>5. CASE Skips(a)
  <2>1. /\ Advance(a)
        /\ conn[a].next = 11 => conn[a].read >= 5
        /\ conn[a].next = 4 => conn[a].read >= 4
    BY <1>1, <1>5, StatementPlaces DEF Skips, Advance
  <2>2. /\ conn[a].next = 11 => version = 5
        /\ conn[a].next = 4 => conn[a].read # 3
    BY <1>1, <2>1 DEF Advance, Modern
  <2>3. Adding(a)' => Adding(a)
    BY <1>1, <2>1, <2>2 DEF Adding, Advance
  <2> QED
    BY <1>1, <1>5, <2>1, <2>2, <2>3 DEF Skips, Advance, Modern, Migrating, Adding
<1>6. CASE Adds(a)
  <2>1. /\ Advance(a) /\ conn[a].next # 11 /\ UNCHANGED version
        /\ conn[a].next = 4 => "recovery_contact_hash" \notin columns
        /\ columns \subseteq columns'
    BY <1>1, <1>6, StatementPlaces, StatementEffect DEF Adds, Advance
  <2>2. conn[a].next = 4 => version = 3 /\ \A b \in Conns : ~Adding(b)
    BY <1>1, <2>1 DEF VouchInv, VersionVouches, Passed, Modern, Adding, Migrating,
                      Advance
  <2>3. ASSUME NEW b \in Conns, NEW c \in Conns, Adding(b)', Adding(c)'
        PROVE  b = c
    <3>1. CASE conn[a].next = 4
      BY <1>1, <2>2, <2>3, <3>1 DEF Adding, Migrating
    <3>2. CASE conn[a].next # 4
      <4>1. \A d \in Conns : Adding(d)' => Adding(d)
        BY <1>1, <2>1, <3>2 DEF Adding, Migrating, Advance
      <4> QED
        BY <2>3, <4>1 DEF Modern
    <3> QED
      BY <3>1, <3>2
  <2> QED
    BY <1>1, <2>1, <2>2, <2>3 DEF Advance, Modern, Migrating
<1>7. CASE Sets(a)
  <2>1. Advance(a) /\ UNCHANGED columns
    BY <1>7 DEF Sets
  <2>2. conn[a].next >= 5
    BY <1>7, ModernSets
  <2>3. \A d \in Conns : Adding(d)' => Adding(d)
    BY <1>1, <2>1, <2>2 DEF Adding, Migrating, Advance
  <2>4. CASE conn[a].next = 5 /\ conn[a].read = 3 /\ version = 3 /\ version' = 4
    <3>1. ASSUME NEW b \in Conns, b # a, Migrating(b)
          PROVE  conn[b].next # 12 /\ ~(conn[b].read = 3 /\ conn[b].next = 5)
      BY <2>1, <2>4, <3>1 DEF Modern, Adding, Advance
    <3> QED
      BY <1>1, <2>1, <2>3, <2>4, <3>1 DEF Advance, Modern, Migrating
  <2>5. CASE /\ conn[a].next = 11 /\ version' = 5
             /\ \A b \in Conns : ~(Migrating(b) /\ conn[b].read = 3 /\ conn[b].next = 5)
    BY <1>1, <2>1, <2>3, <2>5 DEF Advance, Modern, Migrating
  <2> QED
    BY <1>7, <2>4, <2>5, ModernSets
<1>8. CASE Opens(a)
  BY <1>1, <1>8 DEF Opens, Modern, Migrating, Adding
<1> QED
  BY <1>2, <1>3, <1>4, <1>5, <1>6, <1>7, <1>8 DEF Effect

-----------------------------------------------------------------------------
(* Any file, while nothing fails and no two openings overlap.              *)

\* The statements still to be run add columns that are not there.
Fresh(from, v) ==
  \A i \in 1 .. 11 : from <= i /\ v < Statements[i].below =>
                       Statements[i].adds \notin columns

\* The connection has nothing to change any more.
Done(a) == conn[a].read = 5 \/ conn[a].next = 12

\* It has passed the columns of version 3, or read a version that has them.
HasFdek(a) ==
  /\ conn[a].next > 6 \/ conn[a].read >= 3 => "fdek_kdf" \in columns
  /\ conn[a].next > 7 \/ conn[a].read >= 3 => "fdek_wrap" \in columns
  /\ conn[a].next > 8 \/ conn[a].read >= 3 => "fdek_wrap_recovery" \in columns

Calm ==
  /\ \A a, b \in Conns : Opening(a) /\ Opening(b) => a = b
  /\ \A a \in Conns : Migrating(a) =>
       /\ Fresh(conn[a].next, conn[a].read) /\ HasFdek(a)
       /\ Done(a) => version = 5
  /\ \A a \in Conns : conn[a].pc = "open" =>
       /\ version = 5
       /\ \A b \in Conns : Migrating(b) => Done(b)
  /\ (\A a \in Conns : ~Migrating(a)) /\ version > 0 =>
       /\ Fresh(1, version)
       /\ version >= 3 => FdekColumns \subseteq columns

\* A calm step opens the file for one connection only.
LEMMA CalmOpening ==
  ASSUME VouchInv, Calm, NEW a \in Conns, \A b \in Conns \ {a} : conn'[b] = conn[b],
         \/ Opening(a)' => Opening(a)
         \/ \A b \in Conns \ {a} : ~Opening(b)
  PROVE  \A b, c \in Conns : Opening(b)' /\ Opening(c)' => b = c
BY DEF Calm, Opening

\* Nobody else migrates while one connection does.
LEMMA MigratesAlone ==
  ASSUME Calm, NEW a \in Conns, Opening(a)
  PROVE  \A b \in Conns \ {a} : ~Migrating(b)
BY DEF Calm, Opening, Migrating

\* A connection at the end of its migration leaves a current file.
LEMMA DoneIsCurrent ==
  ASSUME VouchInv, Calm, NEW a \in Conns, Migrating(a), Done(a)
  PROVE  version = 5 /\ FdekColumns \subseteq columns
BY DEF Calm, HasFdek, FdekColumns, Done

\* Nothing is due after version 5.
LEMMA NothingDue == \A from : Fresh(from, 5)
BY StatementPlaces DEF Fresh

\* Every effect keeps it.
LEMMA CalmKept ==
  ASSUME VouchInv, Calm, NEW a \in Conns, Effect(a),
         \/ Opening(a)' => Opening(a)
         \/ \A b \in Conns \ {a} : ~Opening(b),
         Reads(a) => Opening(a)
  PROVE  Calm'
<1>1. /\ \A b \in Conns \ {a} : conn'[b] = conn[b]
      /\ \A b \in Conns : conn[b].read \in 0 .. 5 /\ conn[b].next \in 1 .. 12
      /\ version \in 0 .. 5 /\ columns \subseteq AllColumns
  BY StatementList DEF Effect, VouchInv, StateOK, ConnType, Current
<1>2. \A b, c \in Conns : Opening(b)' /\ Opening(c)' => b = c
  BY <1>1, CalmOpening
<1>3. Migrating(a) => Opening(a)
  BY DEF Migrating, Opening
<1>4. \A b \in Conns : Migrating(b) => version > 0
  BY DEF VouchInv, Passed, Migrating
<1>5. ASSUME Advance(a), Fresh(conn[a].next, conn[a].read)',
             HasFdek(a)', Done(a)' => version' = 5,
             \/ Done(a)' /\ version' = version
             \/ ~Done(a)
      PROVE  Calm'
  <2>1. /\ Migrating(a) /\ Migrating(a)' /\ conn[a].next \in 1 .. 11
        /\ conn'[a].next = conn[a].next + 1 /\ conn'[a].read = conn[a].read
        /\ \A b \in Conns \ {a} : ~Migrating(b) /\ ~Migrating(b)'
    BY <1>1, <1>3, <1>5, MigratesAlone DEF Advance, Migrating
  <2>2. \A b \in Conns : conn'[b].pc = "open" => version' = 5 /\ Done(a)'
    BY <1>1, <1>5, <2>1 DEF Calm, Migrating
  <2> QED
    BY <1>2, <1>5, <2>1, <2>2 DEF Calm
<1>6. CASE Rests(a)
  <2>1. ~Migrating(a)' /\ conn'[a].pc # "open" /\ UNCHANGED version
        /\ (columns' = columns \/ version = 0)
    BY <1>6 DEF Rests, Migrating
  <2>2. ASSUME NEW b \in Conns, Migrating(b)'
        PROVE  Migrating(b) /\ b # a /\ columns' = columns /\ conn'[b] = conn[b]
    BY <1>1, <1>4, <2>1, <2>2 DEF Migrating
  <2>3. ASSUME \A b \in Conns : ~Migrating(b)', version' > 0
        PROVE  (Fresh(1, version) /\ (version >= 3 => FdekColumns \subseteq columns))'
    <3>1. columns' = columns /\ version' = version
      BY <2>1, <2>3
    <3>2. CASE Migrating(a)
      <4>1. conn[a].next = 12
        BY <1>6, <3>2 DEF Rests, Calm, Fresh
      <4>2. version = 5 /\ FdekColumns \subseteq columns
        BY <3>2, <4>1, DoneIsCurrent DEF Done
      <4> QED
        BY <3>1, <4>2, NothingDue DEF Fresh
    <3>3. CASE ~Migrating(a)
      <4>1. \A b \in Conns : ~Migrating(b)
        BY <1>1, <2>3, <3>3 DEF Migrating
      <4> QED
        BY <2>3, <3>1, <4>1 DEF Calm, Fresh
    <3> QED
      BY <3>2, <3>3
  <2>4. ASSUME NEW b \in Conns, Migrating(b)'
        PROVE  /\ Fresh(conn[b].next, conn[b].read)' /\ HasFdek(b)'
               /\ Done(b)' => version' = 5
    BY <2>1, <2>2, <2>4 DEF Calm, Fresh, HasFdek, Done
  <2>5. ASSUME NEW b \in Conns, conn'[b].pc = "open"
        PROVE  version' = 5 /\ \A d \in Conns : Migrating(d)' => Done(d)'
    <3>1. version = 5 /\ \A d \in Conns : Migrating(d) => Done(d)
      BY <1>1, <2>1, <2>5 DEF Calm
    <3> QED
      BY <2>1, <2>2, <3>1 DEF Done
  <2> QED
    BY <1>2, <2>3, <2>4, <2>5 DEF Calm
<1>7. CASE Inserts(a)
  <2>1. \A b \in Conns : ~Migrating(b) /\ conn[b].pc # "open"
    BY <1>4, <1>7 DEF Inserts, Calm
  <2>2. \A b \in Conns : ~Migrating(b)' /\ conn'[b].pc # "open"
    BY <1>1, <1>7, <2>1 DEF Inserts, Migrating
  <2>3. version' = 5 /\ FdekColumns \subseteq columns'
    BY <1>7 DEF Inserts, AllColumns, MetaColumns
  <2>4. Fresh(1, version)'
    BY <2>3, StatementPlaces DEF Fresh
  <2> QED
    BY <1>2, <2>2, <2>3, <2>4 DEF Calm
<1>8. CASE Reads(a)
  <2>1. \A b \in Conns : ~Migrating(b)
    BY <1>8, MigratesAlone DEF Reads
  <2>2. /\ Fresh(1, version)
        /\ version >= 3 => FdekColumns \subseteq columns
    BY <1>8, <2>1 DEF Reads, Calm
  <2>3. /\ Migrating(a)' /\ conn'[a].next = 1 /\ conn'[a].read = version
        /\ UNCHANGED <<version, columns>>
        /\ \A b \in Conns \ {a} : ~Migrating(b)'
    BY <1>1, <1>8, <2>1 DEF Reads, Migrating
  <2>4. HasFdek(a)' /\ Fresh(conn[a].next, conn[a].read)'
    BY <1>1, <2>2, <2>3 DEF HasFdek, Fresh, FdekColumns
  <2>5. Done(a)' => version' = 5
    BY <2>3 DEF Done
  <2>6. \A b \in Conns : conn'[b].pc = "open" => version' = 5 /\ Done(a)'
    BY <1>1, <2>3 DEF Calm, Done, Migrating
  <2> QED
    BY <1>2, <2>3, <2>4, <2>5, <2>6 DEF Calm
<1>9. CASE Skips(a)
  <2>1. /\ Advance(a) /\ UNCHANGED <<version, columns>> /\ conn[a].next \in 1 .. 11
        /\ Migrating(a) /\ conn'[a].next = conn[a].next + 1
        /\ conn'[a].read = conn[a].read
    BY <1>9 DEF Skips, Advance
  <2>2. /\ conn[a].next \in {6, 7, 8} => conn[a].read >= 3
        /\ conn[a].next = 11 => conn[a].read = 5
    BY <1>1, <1>9, <2>1, StatementPlaces DEF Skips
  <2>3. Fresh(conn[a].next, conn[a].read) /\ HasFdek(a) /\ (Done(a) => version = 5)
    BY <2>1 DEF Calm
  <2>4. Fresh(conn[a].next, conn[a].read)'
    BY <2>1, <2>3 DEF Fresh
  <2>5. HasFdek(a)'
    BY <2>1, <2>2, <2>3 DEF HasFdek
  <2>6. Done(a)' <=> Done(a)
    BY <1>1, <2>1, <2>2 DEF Done
  <2> QED
    BY <1>5, <2>1, <2>3, <2>4, <2>5, <2>6
<1>10. CASE Adds(a)
  <2> DEFINE s == Statements[conn[a].next]
  <2>1. /\ Advance(a) /\ UNCHANGED version /\ conn[a].next \in 1 .. 11
        /\ Migrating(a) /\ conn'[a].next = conn[a].next + 1
        /\ conn'[a].read = conn[a].read
        /\ columns' = columns \cup {s.adds} /\ s.adds # "none"
        /\ conn[a].read < s.below
    BY <1>10 DEF Adds, Advance
  <2>2. conn[a].next # 11 /\ conn[a].read # 5
    BY <1>1, <2>1, StatementPlaces
  <2>3. Fresh(conn[a].next, conn[a].read) /\ HasFdek(a)
    BY <2>1 DEF Calm
  <2>4. Fresh(conn[a].next, conn[a].read)'
    <3> SUFFICES ASSUME NEW i \in 1 .. 11, conn[a].next + 1 <= i,
                        conn[a].read < Statements[i].below
                 PROVE  Statements[i].adds \notin columns'
      BY <2>1 DEF Fresh
    <3>1. i # conn[a].next /\ conn[a].next \in 1 .. 11
      BY <2>1
    <3>2. Statements[i].adds \notin columns
      BY <2>1, <2>3 DEF Fresh
    <3>3. Statements[i].adds # s.adds
      BY <2>1, <3>1, AddsOnce
    <3> QED
      BY <2>1, <3>2, <3>3
  <2>5. HasFdek(a)'
    BY <1>1, <2>1, <2>3, StatementPlaces DEF HasFdek
  <2>6. ~Done(a) /\ ~Done(a)'
    BY <1>1, <2>1, <2>2 DEF Done
  <2> QED
    BY <1>5, <2>1, <2>4, <2>5, <2>6
<1>11. CASE Sets(a)
  <2> DEFINE s == Statements[conn[a].next]
  <2>1. /\ Advance(a) /\ UNCHANGED columns /\ conn[a].next \in 1 .. 11
        /\ Migrating(a) /\ conn'[a].next = conn[a].next + 1
        /\ conn'[a].read = conn[a].read
        /\ version' = s.sets /\ s.adds = "none" /\ conn[a].read < s.below
    BY <1>11 DEF Sets, Advance
  <2>2. conn[a].next \in {3, 5, 9, 11} /\ conn[a].read # 5
    BY <1>1, <2>1, StatementPlaces
  <2>3. Fresh(conn[a].next, conn[a].read) /\ HasFdek(a)
    BY <2>1 DEF Calm
  <2>4. Fresh(conn[a].next, conn[a].read)'
    BY <2>1, <2>3 DEF Fresh
  <2>5. HasFdek(a)'
    BY <2>1, <2>2, <2>3 DEF HasFdek
  <2>6. ~Done(a) /\ (Done(a)' => version' = 5)
    BY <1>1, <2>1, <2>2, StatementList DEF Done
  <2> QED
    BY <1>5, <2>1, <2>4, <2>5, <2>6
<1>12. CASE Opens(a)
  <2>1. version = 5 /\ FdekColumns \subseteq columns
    BY <1>12, DoneIsCurrent DEF Opens, Done
  <2>2. UNCHANGED <<version, columns>> /\ \A b \in Conns : ~Migrating(b)'
    BY <1>1, <1>3, <1>12, MigratesAlone DEF Opens, Migrating
  <2>3. Fresh(1, version)'
    BY <2>1, <2>2, StatementPlaces DEF Fresh
  <2> QED
    BY <1>2, <2>1, <2>2, <2>3 DEF Calm
<1> QED
  BY <1>6, <1>7, <1>8, <1>9, <1>10, <1>11, <1>12 DEF Effect

-----------------------------------------------------------------------------
(* Both, of the files that each is about.                                  *)

CurrentInv == (made \notin {1, 2} => Modern) /\ (calm => Calm)

\* It holds of every file that a release made.
LEMMA CurrentInit == Init => CurrentInv
<1> SUFFICES ASSUME Init PROVE CurrentInv
  OBVIOUS
<1>1. /\ version \in 0 .. 5 /\ made = version /\ columns = Made(version)
      /\ \A a \in Conns : conn[a].pc = "idle"
  BY DEF Init, Current, Idle
<1>2. version >= 3 => FdekColumns \subseteq columns
  BY <1>1 DEF Made
<1>3. Fresh(1, version)
  <2> SUFFICES ASSUME NEW i \in 1 .. 11, version < Statements[i].below
               PROVE  Statements[i].adds \notin Made(version)
    BY <1>1 DEF Fresh
  <2>1. i \in {1, 2, 3, 4, 5, 6, 7, 8, 9, 10, 11}
    OBVIOUS
  <2> QED
    BY <1>1, <2>1, StatementList DEF Made, LockColumns, FdekColumns
<1>4. made \notin {1, 2} => Modern
  BY <1>1, <1>2 DEF Modern, Migrating, Adding
<1>5. Calm
  BY <1>1, <1>2, <1>3 DEF Calm, Opening, Migrating
<1> QED
  BY <1>4, <1>5 DEF CurrentInv

\* Every step keeps it.
LEMMA CurrentStep == VouchInv /\ CurrentInv /\ [Next]_vars => CurrentInv'
<1> SUFFICES ASSUME VouchInv, CurrentInv, [Next]_vars PROVE CurrentInv'
  OBVIOUS
<1>1. CASE UNCHANGED vars
  BY <1>1 DEF vars, CurrentInv, Modern, Calm, Migrating, Adding, Opening, Fresh,
             HasFdek, Done
<1>2. ASSUME Next PROVE UNCHANGED made
  BY <1>2 DEF Next
<1>3. ASSUME NEW a \in Conns, CheckPath(a) \/ Open(a), NoteOverlap(a), UNCHANGED made
      PROVE  CurrentInv'
  <2>1. Effect(a)
    BY <1>3, OtherEffect
  <2>2. calm' => calm /\ \A b \in Conns \ {a} : ~Opening(b)
    BY <1>3 DEF NoteOverlap
  <2>3. ~Reads(a)
    BY <1>3 DEF CheckPath, Open, Reads, VouchInv, StateOK
  <2> QED
    BY <1>3, <2>1, <2>2, <2>3, ModernKept, CalmKept DEF CurrentInv
<1>4. ASSUME NEW a \in Conns, Migrate(a) \/ Initialize(a) \/ Close(a),
             UNCHANGED <<calm, made>>
      PROVE  CurrentInv'
  <2>1. Effect(a)
    BY <1>4, MigrateEffect, OtherEffect
  <2>2. Opening(a) \/ Close(a)
    BY <1>4 DEF Migrate, Initialize, Opening, NoTables, NoRow, ReadVersion, Skip,
                AddColumn, DuplicateColumn, SetVersion, Opened, CreateMeta,
                CreateTables, InsertRow, InsertConflict
  <2>3. Close(a) => conn'[a].pc = "idle"
    BY MoveEffect DEF Close, VouchInv, StateOK
  <2>4. (Opening(a)' => Opening(a)) /\ (Reads(a) => Opening(a))
    BY <2>2, <2>3 DEF Opening, Reads
  <2> QED
    BY <1>4, <2>1, <2>4, ModernKept, CalmKept DEF CurrentInv
<1>5. ASSUME NEW a \in Conns, Stop(a), calm' = FALSE, UNCHANGED made
      PROVE  CurrentInv'
  <2>1. /\ conn'[a].pc = "idle" /\ UNCHANGED <<file, version, columns>>
        /\ \A b \in Conns \ {a} : conn'[b] = conn[b]
    BY <1>5, MoveEffect DEF Stop, VouchInv, StateOK
  <2>2. Modern => Modern'
    BY <2>1 DEF Modern, Migrating, Adding
  <2> QED
    BY <1>5, <2>2 DEF CurrentInv
<1> QED
  BY <1>1, <1>2, <1>3, <1>4, <1>5 DEF Next

\* Every operation works on a file of the current schema: on a new file and on
\* one of version 3 or later whoever else migrates it, crashes or fails, on an
\* older one as long as nothing does so, for any number of connections
\* (schema.rs:90-125).
THEOREM OpenAlwaysCurrent == Spec => []OpenIsCurrent
<1>1. VouchInv /\ CurrentInv => OpenIsCurrent
  <2> SUFFICES ASSUME VouchInv, CurrentInv, calm \/ made \notin {1, 2},
                      NEW a \in Conns, conn[a].pc = "open"
               PROVE  version = Current /\ columns = AllColumns
    BY DEF OpenIsCurrent
  <2>1. version = 5 /\ FdekColumns \subseteq columns
    <3>1. CASE made \notin {1, 2}
      BY <3>1 DEF CurrentInv, Modern
    <3>2. CASE calm
      <4>1. Calm /\ version = 5
        BY <3>2 DEF CurrentInv, Calm
      <4>2. CASE \E b \in Conns : Migrating(b)
        BY <4>1, <4>2, DoneIsCurrent DEF Calm
      <4>3. CASE \A b \in Conns : ~Migrating(b)
        BY <4>1, <4>3 DEF Calm
      <4> QED
        BY <4>1, <4>2, <4>3
    <3> QED
      BY <3>1, <3>2
  <2>2. columns \subseteq AllColumns /\ VersionVouches
    BY DEF VouchInv, StateOK
  <2> QED
    BY <2>1, <2>2 DEF VersionVouches, AllColumns, MetaColumns, Current
<1> QED
  BY <1>1, VouchInit, VouchStep, CurrentInit, CurrentStep, PTL DEF Spec

\* As long as nothing fails and no two openings overlap, a file that nobody is
\* opening can be migrated from where it is, and no migration meets a column
\* that is there (schema.rs:90-125).
THEOREM CalmIsReopenable ==
  Spec => [](calm => /\ Reopenable
                     /\ \A a \in Conns :
                          Migrating(a) /\ Due(conn[a].next, conn[a].read) =>
                            Statements[conn[a].next].adds \notin columns)
<1> DEFINE Goes(a) == Migrating(a) /\ Due(conn[a].next, conn[a].read) =>
                        Statements[conn[a].next].adds \notin columns
<1>1. VouchInv /\ CurrentInv => (calm => Reopenable /\ \A a \in Conns : Goes(a))
  <2> SUFFICES ASSUME VouchInv, Calm PROVE Reopenable /\ \A a \in Conns : Goes(a)
    BY DEF CurrentInv
  <2>1. Reopenable
    BY StatementList DEF Calm, Reopenable, Opening, Migrating, Fresh, Due
  <2>2. ASSUME NEW a \in Conns PROVE Goes(a)
    <3>1. conn[a].next \in 1 .. 12
      BY StatementList DEF VouchInv, StateOK, ConnType
    <3> QED
      BY <3>1, StatementList DEF Calm, Fresh, Due
  <2> QED
    BY <2>1, <2>2
<1> QED
  BY <1>1, VouchInit, VouchStep, CurrentInit, CurrentStep, PTL DEF Spec

=============================================================================
