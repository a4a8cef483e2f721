-------------------------------- MODULE Backup --------------------------------
(***************************************************************************)
(* Backups of the accounts (vault_store/src/backup.rs, import.rs): an      *)
(* export reads all accounts and their secrets, an import creates an       *)
(* account for each entry of the file, with the statements of module       *)
(* Accounts, and goes on with the next one when that fails.                *)
(*                                                                         *)
(* The file is sealed under a passphrase of its own; one that does not     *)
(* open it changes nothing and is left out.                                *)
(*                                                                         *)
(* An import of notes does the same with the candidates that module Notes  *)
(* finds in a text.                                                        *)
(***************************************************************************)
EXTENDS Accounts, Notes

CONSTANT
  Documents  \* bound: the texts at hand, each with the secrets of the accounts
             \* that its author wrote down in it, with a name

VARIABLES
  file,   \* the last backup made: the entry of each account, or None
  saved,  \* the secrets that each of them had then
  page,   \* what was found in the text at hand, and what its author wrote
  import  \* per connection, the import in flight

backup == <<file, saved, page>>
allvars == <<vars, backup, import>>

\* queue and notes are what is still to be imported of a file or of a text, made
\* the accounts created from the text, and asked what its author wrote down.
NoImport == [active |-> FALSE, queue |-> {}, whole |-> FALSE,
             notes |-> <<>>, made |-> <<>>, asked |-> <<>>]

Entries == {id \in Ids : file[id] # None}

\* Mutant of Collects: the secrets of the second factor are left out.
CollectsPlain(entry, id) ==
  \A f \in Fields :
    IF ~RequiresSecondFactor(f) /\ \E r \in RowsOf(id) : r.field = f
      THEN <<f, entry[f]>> \in Content(id)
      ELSE entry[f] = None

\* The entry of an account has a secret for each field with one; of several
\* it is the one read last, in no particular order.
Collects(entry, id) ==
  \A f \in Fields : IF \E r \in RowsOf(id) : r.field = f
                      THEN <<f, entry[f]>> \in Content(id)
                      ELSE entry[f] = None

\* export_backup reads under one open statement, and so one state of the
\* file, the trash included.  A secret that cannot be opened is an error.
\* Bound: the file that is being imported is not replaced.
Export(c) ==
  /\ ~Begun(c) /\ \A d \in Conns : ~import[d].active
  /\ \A r \in secrets : CanSeal(c, r.field)
  /\ \E entries \in [Ids -> Inputs \cup {None}] :
       /\ \A id \in Ids :
            IF Exists(id) THEN entries[id] # None /\ Collects(entries[id], id)
                          ELSE entries[id] = None
       /\ file' = entries
  /\ saved' = [id \in Ids |-> Content(id)]
  /\ UNCHANGED <<vars, page, import>>

\* import_backup: the file is read whole ...
ImportBegin(c) ==
  /\ ~Begun(c) /\ ~import[c].active /\ Entries # {}
  /\ import' = [import EXCEPT ![c] =
       [NoImport EXCEPT !.active = TRUE, !.queue = Entries, !.whole = TRUE]]
  /\ UNCHANGED <<vars, backup>>

\* candidate_to_input: the secrets of a candidate, or None if it has no name.
ToInput(cand) ==
  IF cand["app"] = <<>> THEN None
  ELSE [f \in Fields |->
          IF cand[f] = <<>> THEN None
          ELSE IF Len(cand[f]) = 1 THEN cand[f][1] ELSE cand[f]]

Recognized(text) ==
  LET cands == ParseNotes(text) IN [i \in DOMAIN cands |-> ToInput(cands[i])]

\* Whoever wrote a text wrote down an account, and what is recognized in it is
\* among the values that are told apart.
ASSUME BackupAssumption ==
  \A d \in Documents :
    /\ d.inputs \in Seq(Inputs) \ {<<>>}
    /\ Recognized(d.text) \in Seq(Inputs \cup {None})

Batches ==
  {[notes |-> Recognized(d.text), asked |-> d.inputs] : d \in Documents}

\* An import of notes comes after the second factor.
NotesBegin(c) ==
  /\ ~Begun(c) /\ ~import[c].active /\ second[c]
  /\ import' = [import EXCEPT ![c] =
       [NoImport EXCEPT !.active = TRUE, !.whole = TRUE,
                        !.notes = page.notes, !.asked = page.asked]]
  /\ UNCHANGED <<vars, backup>>

\* What c does disturbs the imports of the others, and its own if it fails.
Disturb(c, fails) ==
  import' = [d \in Conns |->
    [import[d] EXCEPT !.whole = import[d].whole /\ d = c /\ ~fails]]

\* ... and an account is created for each of its entries ...
ImportEntry(c) ==
  /\ import[c].active
  /\ \E e \in import[c].queue, id \in Ids :
       /\ Create(c, id, file[e])
       /\ import' = [d \in Conns |->
            IF d = c THEN [import[c] EXCEPT !.queue = import[c].queue \ {e}]
                     ELSE [import[d] EXCEPT !.whole = FALSE]]
  /\ UNCHANGED backup

\* ... or for each candidate, in their order ...
NotesEntry(c) ==
  /\ import[c].notes # <<>> /\ Head(import[c].notes) # None
  /\ \E id \in Ids :
       /\ Create(c, id, Head(import[c].notes))
       /\ import' = [d \in Conns |->
            IF d = c THEN [import[c] EXCEPT !.notes = Tail(import[c].notes),
                                            !.made = Append(import[c].made, id)]
                     ELSE [import[d] EXCEPT !.whole = FALSE]]
  /\ UNCHANGED backup

\* ... but for one without a name ...
NotesRefused(c) ==
  /\ ~Begun(c)
  /\ import[c].notes # <<>> /\ Head(import[c].notes) = None
  /\ import' = [import EXCEPT ![c].notes = Tail(import[c].notes)]
  /\ UNCHANGED <<vars, backup>>

\* ... till the end.
ImportEnd(c) ==
  /\ ~Begun(c) /\ import[c].active
  /\ import[c].queue = {} /\ import[c].notes = <<>>
  /\ import' = [import EXCEPT ![c] = NoImport]
  /\ UNCHANGED <<vars, backup>>

BackupInit ==
  /\ Init
  /\ file = [id \in Ids |-> None] /\ saved = [id \in Ids |-> {}]
  /\ page \in Batches
  /\ import = [c \in Conns |-> NoImport]

\* What module Accounts does; a connection that imports begins nothing else.
Starts(c) ==
  /\ ~import[c].active
  /\ Begins(c) /\ Disturb(c, FALSE)
  /\ UNCHANGED backup

Goes(c) ==
  /\ \/ Proceeds(c) /\ UNCHANGED import
     \/ Fails(c) /\ Disturb(c, TRUE)
     \/ Crash(c) /\ import' = [import EXCEPT ![c] = NoImport]
  /\ UNCHANGED backup

BackupNext == \E c \in Conns :
  \/ Export(c) \/ ImportBegin(c) \/ ImportEntry(c) \/ ImportEnd(c)
  \/ NotesBegin(c) \/ NotesEntry(c) \/ NotesRefused(c)
  \/ Starts(c) \/ Goes(c)

BackupSpec == BackupInit /\ [][BackupNext]_allvars

-----------------------------------------------------------------------------
(* Properties.                                                             *)

\* An import that nobody disturbs and of which no entry fails comes to its end.
EndsWhole(c) ==
  /\ import[c].active /\ import[c].whole /\ ~Begun(c)
  /\ import[c].queue = {} /\ import[c].notes = <<>>
  /\ ~import'[c].active

\* Such an import gives back, for every account that was saved, a live one
\* with all the secrets it had (backup.rs:9, 86-142; import.rs:183-193).  Of an
\* account that overlapping updates had left with several secrets in a field,
\* it gives back one.
OnePerField(pairs) == \A p, q \in pairs : p[1] = q[1] => p = q
ImportRestores ==
  [][\A c \in Conns : EndsWhole(c) /\ import[c].asked = <<>> =>
       \A e \in Entries : OnePerField(saved[e]) =>
         \E id \in Ids : /\ account[id].state = "live"
                         /\ Content(id) = saved[e]]_allvars

SecretsOf(input) == {<<f, input[f]>> : f \in Given(input)}

\* From a text that was written in one of the layouts the code promises to
\* recognize (import.rs:3-8, import_parse.rs:14-55), such an import creates an
\* account for each one that is written down with a name, in their order, with
\* the secrets that stand after its labels, and no others.
NotesImported ==
  [][\A c \in Conns : EndsWhole(c) /\ import[c].asked # <<>> =>
       /\ Len(import[c].made) = Len(import[c].asked)
       /\ \A i \in DOMAIN import[c].asked :
            Content(import[c].made[i]) = SecretsOf(import[c].asked[i])]_allvars

-----------------------------------------------------------------------------
(* Inductive strengthenings, proved in AccountsProofs.                     *)

ImportType ==
  [active : BOOLEAN, queue : SUBSET Ids, whole : BOOLEAN,
   notes : Seq(Inputs \cup {None}), made : Seq(Ids), asked : Seq(Inputs)]

BackupTypeOK ==
  /\ file \in [Ids -> Inputs \cup {None}]
  /\ saved \in [Ids -> SUBSET (Fields \X Values)]
  /\ page.notes \in Seq(Inputs \cup {None}) /\ page.asked \in Seq(Inputs) \ {<<>>}
  /\ import \in [Conns -> ImportType]
  /\ \A c \in Conns :
       /\ import[c].queue \subseteq Entries
       /\ ~import[c].active => import[c].queue = {} /\ import[c].notes = <<>>
       /\ import[c].notes # <<>> => import[c].asked # <<>>

\* An entry of the file has one of the secrets of each field that had any.
SavedInv ==
  \A e \in Entries, f \in Fields :
    IF \E p \in saved[e] : p[1] = f THEN <<f, file[e][f]>> \in saved[e]
                                   ELSE file[e][f] = None

\* The account was made of the input: its write is done, or c does it alone.
Restored(c, id, input) ==
  /\ account[id].state = "live" /\ account[id].asked = input
  /\ \A d \in Conns \ {c} : ~Writing(d, id)
  /\ account[id].intact \/ (Begun(c) /\ Writing(c, id) /\ op[c].sole)

\* An import of a file that nobody disturbed has restored what it has taken from
\* its queue.
RestoredInv ==
  \A c \in Conns :
    import[c].active /\ import[c].whole /\ import[c].asked = <<>> =>
      \A e \in Entries \ import[c].queue : \E id \in Ids : Restored(c, id, file[e])

\* Of the first n candidates, those with a name.
Named(notes, n) == {i \in 1 .. n : notes[i] # None}
Count(notes, n) == Cardinality(Named(notes, n))

\* Of each text at hand the candidates with a name are, in their order, the
\* accounts that its author wrote down.
Understood ==
  \A b \in Batches :
    /\ Len(b.asked) = Count(b.notes, Len(b.notes))
    /\ \A i \in Named(b.notes, Len(b.notes)) : b.asked[Count(b.notes, i)] = b.notes[i]

\* How many candidates of the text at hand are dealt with.
Passed(c) == Len(page.notes) - Len(import[c].notes)

\* An import of a text that nobody disturbed has made an account of each
\* candidate with a name that it has passed.
NotesInv ==
  \A c \in Conns :
    /\ import[c].asked # <<>> => import[c].queue = {}
    /\ import[c].active /\ import[c].whole /\ import[c].asked # <<>> =>
         /\ import[c].asked = page.asked /\ Passed(c) \in Nat
         /\ \A i \in DOMAIN import[c].notes :
              import[c].notes[i] = page.notes[Passed(c) + i]
         /\ Len(import[c].made) = Count(page.notes, Passed(c))
         /\ \A i \in DOMAIN import[c].made :
              Restored(c, import[c].made[i], page.asked[i])
=============================================================================
