---------------------------- MODULE ServiceFiles -----------------------------
(***************************************************************************)
(* The files the recovery service keeps beside its database: the access    *)
(* token, made by the first start and read by later ones                   *)
(* (recovery_service/src/main.rs) and by the web server                    *)
(* (vault_web/src/main.rs); and the two temporary files of each mail,      *)
(* with the code and with the SMTP password (mailer.rs).                   *)
(***************************************************************************)
EXTENDS Naturals

CONSTANTS
  Services,   \* processes of the recovery service
  Servers,    \* processes of the web server
  NoFile, NoToken

ASSUME ServiceFilesAssumption == NoFile \notin Nat

VARIABLES
  token_file,  \* its contents; "" between create_private_file and write_all
  tokens,      \* how many tokens have been drawn
  process,     \* per process, how far its start is and the token it holds
  mail         \* per service process, the send under way and its files

fvars == <<token_file, tokens, process, mail>>

Empty == 0        \* the contents of a file created and not yet written
Off == [pc |-> "off", token |-> NoToken]
NoMail == [pc |-> "none", msg |-> FALSE, conf |-> FALSE, fault |-> FALSE]

Goes(p, pc, token) == process' = [process EXCEPT ![p] = [pc |-> pc, token |-> token]]

\* load_or_create_token looks for the file; --no-auth is not modelled.
LookForToken(p) ==
  /\ process[p] = Off
  /\ IF token_file = NoFile
       THEN tokens' = tokens + 1 /\ Goes(p, "create", tokens + 1)
       ELSE UNCHANGED tokens /\ Goes(p, "read", NoToken)
  /\ UNCHANGED <<token_file, mail>>

ReadToken(p) ==
  /\ process[p].pc = "read"
  /\ IF token_file = NoFile THEN Goes(p, "off", NoToken)
     ELSE Goes(p, "up", token_file)
  /\ UNCHANGED <<token_file, tokens, mail>>

\* Mutant of CreateToken: a file that came to exist is written over.
CreateTokenOver(p) ==
  /\ process[p].pc = "create"
  /\ token_file' = Empty /\ Goes(p, "write", process[p].token)
  /\ UNCHANGED <<tokens, mail>>

\* create_new: of two first starts, one fails.
CreateToken(p) ==
  /\ process[p].pc = "create"
  /\ IF token_file = NoFile
       THEN token_file' = Empty /\ Goes(p, "write", process[p].token)
       ELSE Goes(p, "off", NoToken) /\ UNCHANGED token_file
  /\ UNCHANGED <<tokens, mail>>

WriteToken(p) ==
  /\ process[p].pc = "write"
  /\ token_file' = process[p].token /\ Goes(p, "up", process[p].token)
  /\ UNCHANGED <<tokens, mail>>

\* The web server reads the file it is pointed to, or does not start.
StartServer(w) ==
  /\ process[w] = Off /\ token_file # NoFile
  /\ Goes(w, "up", token_file)
  /\ UNCHANGED <<token_file, tokens, mail>>

\* guard of the service's API; an empty bearer token is no token.
Admits(p, token) == token = process[p].token /\ token # Empty

\* A process ends or crashes, in the middle of its start or of a mail.
Stop(p) ==
  /\ process[p] # Off /\ Goes(p, "off", NoToken)
  /\ mail' = IF p \in Services /\ mail[p].pc # "none"
             THEN [mail EXCEPT ![p] = [@ EXCEPT !.pc = "none", !.fault = TRUE]]
             ELSE mail
  /\ UNCHANGED <<token_file, tokens>>

-----------------------------------------------------------------------------
Mails(p, m) == mail' = [mail EXCEPT ![p] = m] /\ UNCHANGED <<token_file, tokens, process>>
Sending(p, pc) == process[p].pc = "up" /\ mail[p].pc = pc

\* Both addresses are valid: a send begins.  Each has files of its own; those
\* an earlier send left stay.
Send(p) == Sending(p, "none") /\ Mails(p, [mail[p] EXCEPT !.pc = "msg"])

CreateMessage(p) ==
  Sending(p, "msg") /\ Mails(p, [mail[p] EXCEPT !.pc = "conf", !.msg = TRUE])

CreateConfig(p) ==
  Sending(p, "conf") /\ Mails(p, [mail[p] EXCEPT !.pc = "curl", !.conf = TRUE])

\* A create or a write fails, the write after its file was made: what is
\* there stays.
FileFails(p) ==
  /\ process[p].pc = "up" /\ mail[p].pc \in {"msg", "conf"}
  /\ \E made \in BOOLEAN :
       Mails(p, [pc |-> "none", fault |-> TRUE,
                 msg |-> mail[p].msg \/ (made /\ mail[p].pc = "msg"),
                 conf |-> mail[p].conf \/ (made /\ mail[p].pc = "conf")])

Removed(m) == [m EXCEPT !.pc = "none", !.msg = m.fault /\ @, !.conf = m.fault /\ @]

\* Mutant of Curl: the files are removed when the mail was sent.
CurlOnSuccess(p) ==
  /\ Sending(p, "curl")
  /\ Mails(p, Removed(mail[p])) \/ Mails(p, [mail[p] EXCEPT !.pc = "none"])

\* curl ends, with or without an error, in at most 20 seconds; the files of
\* this send are removed.
Curl(p) == Sending(p, "curl") /\ Mails(p, Removed(mail[p]))

FilesInit ==
  /\ token_file = NoFile /\ tokens = 0
  /\ process = [p \in Services \cup Servers |-> Off]
  /\ mail = [p \in Services |-> NoMail]

FilesNext ==
  \/ \E p \in Services :
       \/ LookForToken(p) \/ ReadToken(p) \/ CreateToken(p) \/ WriteToken(p)
       \/ Send(p) \/ CreateMessage(p) \/ CreateConfig(p) \/ FileFails(p) \/ Curl(p)
  \/ \E w \in Servers : StartServer(w)
  \/ \E p \in Services \cup Servers : Stop(p)

FilesSpec == FilesInit /\ [][FilesNext]_fvars

-----------------------------------------------------------------------------
\* The services and servers that are up and found a token in the file have the
\* same one, and every such service admits every such server, however many start
\* at once, for the first time or again, and wherever one is interrupted.  Who
\* read the file before it was written has none and is excepted (main.rs:24-35,
\* api.rs:57-88, vault_web/src/main.rs:43-51).
TokensAgree ==
  \A p \in Services, q \in Services \cup Servers :
    /\ process[p].pc = "up" /\ process[q].pc = "up"
    /\ process[p].token # Empty /\ process[q].token # Empty
    => Admits(p, process[q].token)

\* A file with a code or with the SMTP password is there when no mail is
\* under way only if a file could not be written, or the process ended, in
\* the middle of an earlier one (mailer.rs:76-107).
CredentialsRemoved ==
  \A p \in Services :
    mail[p].pc = "none" /\ ~mail[p].fault => ~mail[p].msg /\ ~mail[p].conf

-----------------------------------------------------------------------------
(* Inductive strengthenings, proved in PartsProofs.                        *)

ProcessType == [pc : {"off", "read", "create", "write", "up"},
                token : Nat \cup {NoToken}]
MailType == [pc : {"none", "msg", "conf", "curl"}, msg : BOOLEAN,
             conf : BOOLEAN, fault : BOOLEAN]

FilesTypeOK ==
  /\ token_file \in Nat \cup {NoFile} /\ tokens \in Nat
  /\ process \in [Services \cup Servers -> ProcessType]
  /\ mail \in [Services -> MailType]

\* Nobody is up, or writes, before there is a file; one process at most has a
\* token to write, into the file it made; and who is up holds the token in the
\* file, or none.
TokenFileInv ==
  \A p \in Services \cup Servers :
    /\ process[p].pc = "create" => process[p].token \in Nat \ {Empty}
    /\ process[p].pc = "write" =>
         /\ token_file = Empty /\ process[p].token \in Nat \ {Empty}
         /\ \A q \in (Services \cup Servers) \ {p} : process[q].pc # "write"
    /\ process[p].pc = "up" =>
         token_file # NoFile /\ process[p].token \in {Empty, token_file}

\* A mail that nothing has gone wrong with has the files of its step.
MailFilesInv ==
  \A p \in Services :
    mail[p].pc \in {"none", "msg"} /\ ~mail[p].fault
      => ~mail[p].msg /\ ~mail[p].conf
=============================================================================
