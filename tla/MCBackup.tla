------------------------------ MODULE MCBackup ------------------------------
(* TLC instances of Accounts with its reads and its backups, one part at a  *)
(* time: the statements of two connections, reads among them, backup files, *)
(* and texts.                                                               *)
EXTENDS Backup, Reads, TLC
LOCAL Seqs == INSTANCE SequencesExt

BackupSymmetry == Permutations(Conns) \cup Permutations(Ids)

\* How an author writes a label and its value: with a colon or blanks, and with
\* either label of the login password.
Label(f, long) ==
  CASE f = "username" -> IF long THEN <<"login", "account">> ELSE <<"account">>
    [] f = "login_password" -> IF long THEN <<"login", "password">> ELSE <<"password">>
    [] f = "payment_password" -> <<"payment", "password">>
    [] f = "url" -> <<"site">>
    [] f = "notes" -> <<"remark">>
Pair(f, value, style) ==
  Label(f, style.long) \o (IF style.colon THEN <<" ", ":", " ">> ELSE <<" ">>) \o value

Name == <<"taobao">>
User == <<"zhang">>
Address == <<"https", "://", "taobao", "/", "login">>
Remark == <<"account", "password", "follows">>   \* labels that no value follows

Styles == [long : BOOLEAN, colon : BOOLEAN, later : BOOLEAN]

\* The labelled lines of an account: the payment password first or last.
Lines(input, style) ==
  LET user == <<Pair("username", User, style)>>
      One(f) == IF input[f] = None THEN <<>> ELSE <<Pair(f, <<input[f]>>, style)>>
      login == One("login_password")
      payment == One("payment_password")
  IN  IF style.later THEN user \o login \o payment ELSE payment \o user \o login

Inline(lines, between) ==
  Seqs!FoldLeft(LAMBDA line, next : line \o between \o next, Name, lines)

\* The layouts of an account: labelled lines after its name, plain, in brackets
\* or labelled, before its address or a remark; all in one line; three lines
\* without labels.
Layouts(input, style) ==
  LET lines == Lines(input, style)
  IN  {<<Name>> \o lines,
       <<<<"[">> \o Name \o <<"]">>>> \o lines,
       <<<<"name", ":">> \o Name>> \o lines,
       lines \o <<Pair("url", Address, style)>>,
       <<Name>> \o lines \o <<Pair("notes", Remark, style)>>,
       <<Inline(lines, <<" ">>)>>, <<Inline(lines, <<",", " ">>)>>}
      \cup IF Given(input) = {"login_password"}
             THEN {<<Name, User, <<input["login_password"]>>>>} ELSE {}

Separators == {<<>>, <<"-", "-">>, <<"#", "password", ":", "old">>}
Plain == [long |-> FALSE, colon |-> TRUE, later |-> TRUE]

\* One account in every layout and style; two with a separator between them; one
\* that follows an account without a name.
Only(f) == CHOOSE input \in UserInputs : Given(input) = {f}
Second == <<Name>> \o Lines(Only("login_password"), Plain)
Texts ==
  UNION {{[text |-> t, inputs |-> <<i>>] : t \in Layouts(i, style)} :
           i \in UserInputs, style \in Styles}
  \cup {[text |-> t \o <<s>> \o Second,
         inputs |-> <<Only("payment_password"), Only("login_password")>>] :
          t \in Layouts(Only("payment_password"), Plain), s \in Separators}
  \cup {[text |-> Lines(i, Plain) \o <<<<>>>> \o Second,
         inputs |-> <<Only("login_password")>>] : i \in UserInputs}

-----------------------------------------------------------------------------
CONSTANT Parts  \* the parts checked

VARIABLE part

\* One connection is alone with files and texts.
Acting == IF part \in {"writes", "reads"} THEN Conns ELSE {CHOOSE c \in Conns : TRUE}

\* Bound, with two connections: the accounts that are not as last written ...
Broken == {id \in Ids : Exists(id) /\ ~account[id].intact}
\* ... and, with reads, the accounts there are, and that they are written, with
\* all their fields, before there is a record.
Here == {id \in Ids : Exists(id)}
Partial == {id \in Here : Given(account[id].asked) # Fields}
Writers == {c \in Conns : Begun(c)}

Writes(c) ==
  /\ Begins(c) \/ Proceeds(c) \/ Fails(c) \/ Crash(c)
  /\ Cardinality(Broken') <= 1
  /\ UNCHANGED <<backup, import, reading>>

Reads_(c) ==
  /\ Reading(c) \/ Besides(c)
  /\ Cardinality(Here') <= 1 /\ Cardinality(Writers') <= 1
  /\ Cardinality(log' \cup shown') <= 2
  /\ last' = 0 \/ Writers' \cup Broken' \cup Partial' = {}
  /\ UNCHANGED <<backup, import>>

Files(c) ==
  /\ Export(c) \/ ImportBegin(c) \/ ImportEntry(c) \/ ImportEnd(c)
     \/ Starts(c) \/ Goes(c)
  /\ UNCHANGED reading

Texts_(c) ==
  /\ \/ NotesBegin(c) \/ NotesEntry(c) \/ NotesRefused(c) \/ ImportEnd(c)
     \/ ~import[c].active /\ (SecondFactor(c) \/ PurgeAll(c))
          /\ UNCHANGED <<backup, import>>
     \/ Goes(c)
  /\ UNCHANGED reading

MCInit ==
  /\ BackupInit /\ ReadsInit
  /\ part \in Parts
  /\ part = "texts" \/ page.asked = <<[f \in Fields |-> CHOOSE v \in Values : TRUE]>>

MCNext ==
  /\ \E c \in Acting :
       \/ part = "writes" /\ Writes(c)
       \/ part = "reads" /\ Reads_(c)
       \/ part = "files" /\ Files(c)
       \/ part = "texts" /\ Texts_(c)
  /\ UNCHANGED part

MCSpec == MCInit /\ [][MCNext]_<<allvars, reading, part>>
=============================================================================
