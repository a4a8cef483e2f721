------------------------------ MODULE PartsProofs ------------------------------
(***************************************************************************)
(* Proofs about four parts around the vault file that share no state: the  *)
(* files of the recovery service (ServiceFiles), the command line tool's   *)
(* delete (Cli), the secure store of a device (SecureStore) and the        *)
(* command the tool suggests (Suggest).                                    *)
(***************************************************************************)
EXTENDS SecureStore, ServiceFiles, Cli, Suggest, FiniteSetTheorems, SequenceTheorems, TLAPS

-----------------------------------------------------------------------------
(* ServiceFiles.                                                           *)

\* Where a process goes, and what the others do meanwhile.
LEMMA GoesEffect ==
  ASSUME FilesTypeOK, NEW p \in Services \cup Servers,
         NEW pc \in {"off", "read", "create", "write", "up"},
         NEW token \in Nat \cup {NoToken}, Goes(p, pc, token)
  PROVE  /\ process' \in [Services \cup Servers -> ProcessType]
         /\ process'[p].pc = pc /\ process'[p].token = token
         /\ \A q \in (Services \cup Servers) \ {p} : process'[q] = process[q]
BY DEF FilesTypeOK, Goes, ProcessType

FilesInv == FilesTypeOK /\ TokenFileInv /\ MailFilesInv

\* The steps of a start keep the token file and those who hold its token.
LEMMA StartKeeps ==
  ASSUME FilesInv, NEW p \in Services,
         LookForToken(p) \/ ReadToken(p) \/ CreateToken(p) \/ WriteToken(p)
  PROVE  FilesInv'
<1> USE DEF Empty
<1>1. /\ FilesTypeOK /\ TokenFileInv /\ process[p] \in ProcessType
      /\ p \in Services \cup Servers
  BY DEF FilesInv, FilesTypeOK
<1>2. UNCHANGED mail
  BY DEF LookForToken, ReadToken, CreateToken, WriteToken
<1>3. MailFilesInv'
  BY <1>2 DEF FilesInv, MailFilesInv
<1>4. CASE LookForToken(p)
  <2>1. PICK pc \in {"create", "read"}, token \in Nat \cup {NoToken} :
          Goes(p, pc, token) /\ (pc = "create" => token \in Nat \ {Empty})
    <3>1. tokens + 1 \in Nat \ {Empty}
      BY <1>1 DEF FilesTypeOK
    <3>2. CASE token_file = NoFile
      BY <1>4, <3>1, <3>2 DEF LookForToken
    <3>3. CASE token_file # NoFile
      BY <1>4, <3>3 DEF LookForToken
    <3> QED
      BY <3>2, <3>3
  <2>2. UNCHANGED token_file /\ tokens' \in Nat
    BY <1>1, <1>4 DEF LookForToken, FilesTypeOK
  <2>3. FilesTypeOK'
    BY <1>1, <1>2, <2>1, <2>2, GoesEffect DEF FilesTypeOK
  <2>4. TokenFileInv'
    BY <1>1, <2>1, <2>2, GoesEffect DEF TokenFileInv
  <2> QED
    BY <1>3, <2>3, <2>4 DEF FilesInv
<1>5. CASE ReadToken(p)
  <2>1. UNCHANGED <<token_file, tokens>>
    BY <1>5 DEF ReadToken
  <2>2. \/ Goes(p, "off", NoToken)
        \/ token_file # NoFile /\ token_file \in Nat /\ Goes(p, "up", token_file)
    BY <1>1, <1>5 DEF ReadToken, FilesTypeOK
  <2>3. /\ process' \in [Services \cup Servers -> ProcessType]
        /\ \A q \in (Services \cup Servers) \ {p} : process'[q] = process[q]
        /\ \/ process'[p].pc = "off"
           \/ /\ process'[p].pc = "up" /\ process'[p].token = token_file
              /\ token_file # NoFile
    <3>1. CASE Goes(p, "off", NoToken)
      BY <1>1, <3>1, GoesEffect
    <3>2. CASE /\ token_file # NoFile /\ token_file \in Nat
               /\ Goes(p, "up", token_file)
      BY <1>1, <3>2, GoesEffect
    <3> QED
      BY <2>2, <3>1, <3>2
  <2>4. FilesTypeOK' /\ TokenFileInv'
    BY <1>1, <1>2, <2>1, <2>3 DEF FilesTypeOK, TokenFileInv
  <2> QED
    BY <1>3, <2>4 DEF FilesInv
<1>6. CASE CreateToken(p)
  <2>1. process[p].token \in Nat \ {Empty} /\ UNCHANGED tokens
    BY <1>1, <1>6 DEF CreateToken, TokenFileInv
  <2>2. \/ Goes(p, "off", NoToken) /\ UNCHANGED token_file
        \/ /\ token_file = NoFile /\ token_file' = Empty
           /\ Goes(p, "write", process[p].token)
    BY <1>6 DEF CreateToken
  <2>3. CASE Goes(p, "off", NoToken) /\ UNCHANGED token_file
    <3>1. /\ process' \in [Services \cup Servers -> ProcessType]
          /\ process'[p].pc = "off"
          /\ \A q \in (Services \cup Servers) \ {p} : process'[q] = process[q]
      BY <1>1, <2>3, GoesEffect
    <3> QED
      BY <1>1, <1>2, <1>3, <2>1, <2>3, <3>1 DEF FilesInv, FilesTypeOK, TokenFileInv
  <2>4. CASE /\ token_file = NoFile /\ token_file' = Empty
             /\ Goes(p, "write", process[p].token)
    <3>1. /\ process' \in [Services \cup Servers -> ProcessType]
          /\ process'[p].pc = "write" /\ process'[p].token = process[p].token
          /\ \A q \in (Services \cup Servers) \ {p} : process'[q] = process[q]
      BY <1>1, <2>1, <2>4, GoesEffect
    \* without a file nobody wrote and nobody is up
    <3>2. \A q \in Services \cup Servers : process[q].pc \notin {"write", "up"}
      BY <1>1, <2>4, ServiceFilesAssumption DEF TokenFileInv
    <3>3. TokenFileInv'
      BY <1>1, <2>1, <2>4, <3>1, <3>2 DEF TokenFileInv
    <3> QED
      BY <1>1, <1>2, <1>3, <2>1, <2>4, <3>1, <3>3 DEF FilesInv, FilesTypeOK
  <2> QED
    BY <2>2, <2>3, <2>4
<1>7. CASE WriteToken(p)
  <2>1. /\ process[p].pc = "write" /\ token_file = Empty /\ UNCHANGED tokens
        /\ process[p].token \in Nat \ {Empty}
        /\ \A q \in (Services \cup Servers) \ {p} : process[q].pc # "write"
    BY <1>1, <1>7 DEF WriteToken, TokenFileInv
  <2>2. token_file' = process[p].token /\ Goes(p, "up", process[p].token)
    BY <1>7 DEF WriteToken
  <2>3. FilesTypeOK'
    BY <1>1, <1>2, <2>1, <2>2, GoesEffect DEF FilesTypeOK
  <2>4. TokenFileInv'
    BY <1>1, <2>1, <2>2, GoesEffect, ServiceFilesAssumption DEF TokenFileInv
  <2> QED
    BY <1>3, <2>3, <2>4 DEF FilesInv
<1> QED
  BY <1>4, <1>5, <1>6, <1>7

\* The steps of a mail leave the token alone, and its files to a fault.
LEMMA MailKeeps ==
  ASSUME FilesInv, NEW p \in Services,
         \/ Send(p) \/ CreateMessage(p) \/ CreateConfig(p) \/ FileFails(p)
         \/ Curl(p)
  PROVE  FilesInv'
<1>1. FilesTypeOK /\ mail[p] \in MailType /\ MailFilesInv
  BY DEF FilesInv, FilesTypeOK
<1>2. PICK m \in MailType :
        /\ Mails(p, m)
        /\ m.pc \in {"none", "msg"} /\ ~m.fault => ~m.msg /\ ~m.conf
  <2>1. CASE Send(p)
    <3> DEFINE m == [mail[p] EXCEPT !.pc = "msg"]
    <3>1. /\ m \in MailType /\ m.fault = mail[p].fault /\ m.msg = mail[p].msg
          /\ m.conf = mail[p].conf
      BY <1>1 DEF MailType
    <3>2. Mails(p, m) /\ mail[p].pc = "none"
      BY <2>1 DEF Send, Sending
    <3> QED
      BY <1>1, <3>1, <3>2 DEF MailFilesInv
  <2>2. CASE CreateMessage(p)
    <3> DEFINE m == [mail[p] EXCEPT !.pc = "conf", !.msg = TRUE]
    <3>1. m \in MailType /\ m.pc = "conf"
      BY <1>1 DEF MailType
    <3> QED
      BY <2>2, <3>1 DEF CreateMessage
  <2>3. CASE CreateConfig(p)
    <3> DEFINE m == [mail[p] EXCEPT !.pc = "curl", !.conf = TRUE]
    <3>1. m \in MailType /\ m.pc = "curl"
      BY <1>1 DEF MailType
    <3> QED
      BY <2>3, <3>1 DEF CreateConfig
  <2>4. CASE FileFails(p)
    <3>1. PICK made \in BOOLEAN :
            Mails(p, [pc |-> "none", fault |-> TRUE,
                      msg |-> mail[p].msg \/ (made /\ mail[p].pc = "msg"),
                      conf |-> mail[p].conf \/ (made /\ mail[p].pc = "conf")])
      BY <2>4 DEF FileFails
    <3> DEFINE msg == mail[p].msg \/ (made /\ mail[p].pc = "msg")
               conf == mail[p].conf \/ (made /\ mail[p].pc = "conf")
               m == [pc |-> "none", fault |-> TRUE, msg |-> msg, conf |-> conf]
    <3>2. msg \in BOOLEAN /\ conf \in BOOLEAN
      OBVIOUS
    <3>3. Mails(p, m)
      BY <3>1
    <3> HIDE DEF msg, conf
    <3>4. m \in MailType /\ m.fault
      BY <3>2 DEF MailType
    <3> QED
      BY <3>3, <3>4
  <2>5. CASE Curl(p)
    <3> DEFINE msg == mail[p].fault /\ mail[p].msg
               conf == mail[p].fault /\ mail[p].conf
               m == [mail[p] EXCEPT !.pc = "none", !.msg = msg, !.conf = conf]
    <3>1. msg \in BOOLEAN /\ conf \in BOOLEAN
      OBVIOUS
    <3>2. Mails(p, m)
      BY <2>5 DEF Curl, Removed
    <3>3. ~mail[p].fault => ~msg /\ ~conf
      OBVIOUS
    <3> HIDE DEF msg, conf
    <3>4. /\ m \in MailType /\ m.fault = mail[p].fault /\ m.msg = msg
          /\ m.conf = conf
      BY <1>1, <3>1 DEF MailType
    <3> QED
      BY <3>2, <3>3, <3>4
  <2> QED
    BY <2>1, <2>2, <2>3, <2>4, <2>5
<1>3. /\ mail' \in [Services -> MailType] /\ mail'[p] = m
      /\ \A q \in Services \ {p} : mail'[q] = mail[q]
      /\ UNCHANGED <<token_file, tokens, process>>
  BY <1>1, <1>2 DEF Mails, FilesTypeOK
<1>4. MailFilesInv'
  BY <1>1, <1>2, <1>3 DEF MailFilesInv
<1> QED
  BY <1>3, <1>4 DEF FilesInv, FilesTypeOK, TokenFileInv

\* A process that stops gives up its token, and leaves its mail with a fault.
LEMMA StopKeeps ==
  ASSUME FilesInv, NEW p \in Services \cup Servers, Stop(p)
  PROVE  FilesInv'
<1>1. /\ FilesTypeOK /\ TokenFileInv /\ MailFilesInv
      /\ Goes(p, "off", NoToken) /\ UNCHANGED <<token_file, tokens>>
  BY DEF FilesInv, Stop
<1>2. TokenFileInv' /\ process' \in [Services \cup Servers -> ProcessType]
  <2>1. /\ process' \in [Services \cup Servers -> ProcessType]
        /\ process'[p].pc = "off"
        /\ \A q \in (Services \cup Servers) \ {p} : process'[q] = process[q]
    BY <1>1, GoesEffect
  <2> QED
    BY <1>1, <2>1 DEF TokenFileInv
<1>3. mail' \in [Services -> MailType] /\ MailFilesInv'
  <2>1. CASE UNCHANGED mail
    BY <1>1, <2>1 DEF FilesTypeOK, MailFilesInv
  <2>2. CASE /\ p \in Services
             /\ mail' = [mail EXCEPT ![p] =
                           [mail[p] EXCEPT !.pc = "none", !.fault = TRUE]]
    <3> DEFINE m == [mail[p] EXCEPT !.pc = "none", !.fault = TRUE]
    <3>1. m \in MailType /\ m.fault
      BY <1>1, <2>2 DEF FilesTypeOK, MailType
    <3>2. mail' = [mail EXCEPT ![p] = m]
      BY <2>2
    <3> HIDE DEF m
    <3> QED
      BY <1>1, <2>2, <3>1, <3>2 DEF FilesTypeOK, MailFilesInv
  <2> QED
    BY <2>1, <2>2 DEF Stop
<1> QED
  BY <1>1, <1>2, <1>3 DEF FilesInv, FilesTypeOK

\* The invariant of the service's files.
LEMMA FilesInvariant == FilesSpec => []FilesInv
<1>1. FilesInit => FilesInv
  <2> SUFFICES ASSUME FilesInit PROVE FilesInv
    OBVIOUS
  <2>1. Off \in ProcessType /\ Off.pc = "off"
    BY DEF Off, ProcessType
  <2>2. NoMail \in MailType /\ ~NoMail.msg /\ ~NoMail.conf
    BY DEF NoMail, MailType
  <2>3. FilesTypeOK
    BY <2>1, <2>2 DEF FilesInit, FilesTypeOK
  <2> QED
    BY <2>1, <2>2, <2>3 DEF FilesInit, FilesInv, TokenFileInv, MailFilesInv
<1>2. FilesInv /\ [FilesNext]_fvars => FilesInv'
  <2> SUFFICES ASSUME FilesInv, [FilesNext]_fvars PROVE FilesInv'
    OBVIOUS
  <2>1. CASE UNCHANGED fvars
    BY <2>1 DEF fvars, FilesInv, FilesTypeOK, TokenFileInv, MailFilesInv
  <2>2. ASSUME NEW w \in Servers, StartServer(w) PROVE FilesInv'
    <3>1. /\ FilesTypeOK /\ TokenFileInv /\ w \in Services \cup Servers
          /\ Goes(w, "up", token_file) /\ token_file # NoFile
          /\ token_file \in Nat /\ UNCHANGED <<token_file, tokens, mail>>
      BY <2>2 DEF FilesInv, FilesTypeOK, StartServer
    <3>2. FilesTypeOK' /\ TokenFileInv'
      BY <3>1, GoesEffect DEF FilesTypeOK, TokenFileInv
    <3> QED
      BY <3>1, <3>2 DEF FilesInv, MailFilesInv
  <2> QED
    BY <2>1, <2>2, StartKeeps, MailKeeps, StopKeeps DEF FilesNext
<1> QED
  BY <1>1, <1>2, PTL DEF FilesSpec

\* The services and servers that are up and found a token in the file have the
\* same one, and the services admit those servers, for any number of processes
\* that start and stop at any time.  Who read the file before it was written has
\* none and is excepted (main.rs:24-35, api.rs:57-88, vault_web/src/main.rs:43-51).
THEOREM TokensAlwaysAgree == FilesSpec => []TokensAgree
<1>1. FilesInv => TokensAgree
  BY DEF FilesInv, TokenFileInv, TokensAgree, Admits
<1> QED
  BY <1>1, FilesInvariant, PTL

\* No file with a code or with the SMTP password outlasts its mail, unless a
\* write failed or the process ended in the middle of one (mailer.rs:76-107).
THEOREM CredentialsAlwaysRemoved == FilesSpec => []CredentialsRemoved
<1>1. FilesInv => CredentialsRemoved
  BY DEF FilesInv, MailFilesInv, CredentialsRemoved
<1> QED
  BY <1>1, FilesInvariant, PTL

-----------------------------------------------------------------------------
(* Cli.                                                                    *)

Steps == {"start", "make", "show", "unlock", "again", "work", "delete", "ended"}
Unchosen(r) == /\ cli'[r].target = cli[r].target /\ cli'[r].listed = cli[r].listed
               /\ cli'[r].needle = cli[r].needle

\* A run that moves on keeps what it listed and chose.
LEMMA GotoEffect ==
  ASSUME CliTypeOK, NEW r \in Runs, NEW pc \in Steps, Goto(r, pc)
  PROVE  cli' \in [Runs -> RunType] /\ \A q \in Runs : Unchosen(q)
<1>1. cli[r] \in RunType
  BY DEF CliTypeOK
<1>2. cli' = [cli EXCEPT ![r] = [cli[r] EXCEPT !.pc = pc]]
  BY DEF Goto
<1>3. /\ [cli[r] EXCEPT !.pc = pc] \in RunType
      /\ [cli[r] EXCEPT !.pc = pc].target = cli[r].target
      /\ [cli[r] EXCEPT !.pc = pc].listed = cli[r].listed
      /\ [cli[r] EXCEPT !.pc = pc].needle = cli[r].needle
  BY <1>1 DEF RunType, Steps
<1> QED
  BY <1>2, <1>3 DEF CliTypeOK, Unchosen

\* What is typed and what is not: how well an account matches.
LEMMA HowValues ==
  ASSUME NEW cards \in [Accts -> CardType], NEW needle \in Names,
         NEW a \in Accts
  PROVE  /\ a \in Exact(cards, needle) <=> How(cards[a], needle) = 2
         /\ a \in Containing(cards, needle) <=> How(cards[a], needle) > 0
         /\ How(cards[a], needle) \in {0, 1, 2}
BY CliAssumption DEF Exact, Containing, Live, How, CardType

\* A single match is the best of all accounts, and the only one as good.
LEMMA SingleMatchIsBest ==
  ASSUME NEW cards \in [Accts -> CardType], NEW needle \in Names,
         Cardinality(Matched(cards, needle)) = 1,
         NEW a \in Matched(cards, needle)
  PROVE  /\ a \in Accts /\ How(cards[a], needle) > 0
         /\ \A b \in Accts \ {a} : How(cards[b], needle) < How(cards[a], needle)
<1>1. Matched(cards, needle) \subseteq Accts
  BY DEF Matched, Exact, Containing, Live
<1>2. IsFiniteSet(Matched(cards, needle))
  BY <1>1, CliAssumption, FS_Subset
<1>3. Matched(cards, needle) = {a}
  BY <1>2, FS_Singleton
<1>4. \A b \in Accts :
        /\ b \in Exact(cards, needle) <=> How(cards[b], needle) = 2
        /\ b \in Containing(cards, needle) <=> How(cards[b], needle) > 0
        /\ How(cards[b], needle) \in {0, 1, 2}
  BY HowValues
<1>5. CASE Exact(cards, needle) # {}
  <2>1. Exact(cards, needle) = {a}
    BY <1>3, <1>5 DEF Matched
  <2> QED
    BY <1>1, <1>4, <2>1
<1>6. CASE Exact(cards, needle) = {}
  <2>1. Containing(cards, needle) = {a}
    BY <1>3, <1>6 DEF Matched
  <2> QED
    BY <1>1, <1>4, <1>6, <2>1
<1> QED
  BY <1>5, <1>6

\* What the runs have chosen stands while nothing of it changes.
LEMMA UnchosenKeeps ==
  ASSUME DeletesNamed, \A r \in Runs : Unchosen(r)
  PROVE  DeletesNamed'
BY DEF DeletesNamed, Unchosen

\* A run that begins has chosen nothing yet.
LEMMA StartKeepsNamed ==
  ASSUME CliTypeOK, DeletesNamed, NEW r \in Runs, NEW command \in Commands,
         NEW needle \in Names, Start(r, command, needle)
  PROVE  CliTypeOK' /\ DeletesNamed'
<1>1. NotRun \in RunType /\ NotRun.target = {}
  BY CliAssumption DEF NotRun, NoCard, RunType, CardType
<1>2. PICK pc \in Steps :
        cli' = [cli EXCEPT ![r] = [NotRun EXCEPT !.command = command,
                                                 !.needle = needle, !.pc = pc]]
  <2> DEFINE next == CASE command = "recover" -> "work"
                       [] command \in Makes /\ vault_file = "absent" -> "make"
                       [] OTHER -> "unlock"
  <2>1. next \in Steps
    BY DEF Steps
  <2>2. cli' = [cli EXCEPT ![r] = [NotRun EXCEPT !.command = command,
                                                 !.needle = needle, !.pc = next]]
    BY DEF Start
  <2> HIDE DEF next
  <2> QED
    BY <2>1, <2>2
<1> DEFINE run == [NotRun EXCEPT !.command = command, !.needle = needle, !.pc = pc]
<1>3. run \in RunType /\ run.target = {}
  BY <1>1 DEF RunType, Steps
<1> HIDE DEF run
<1>4. /\ cli' \in [Runs -> RunType] /\ cli'[r].target = {}
      /\ \A q \in Runs \ {r} : cli'[q] = cli[q]
  BY <1>2, <1>3 DEF CliTypeOK, run
<1>5. UNCHANGED <<vault_file, card>>
  BY DEF Start, OnlyRun
<1> QED
  BY <1>4, <1>5 DEF CliTypeOK, DeletesNamed

\* A run that lists takes the single match as its target, or none.
LEMMA ListKeepsNamed ==
  ASSUME CliTypeOK, DeletesNamed, NEW r \in Runs, ListForDelete(r)
  PROVE  CliTypeOK' /\ DeletesNamed'
<1> DEFINE found == Matched(card, cli[r].needle)
<1>1. cli[r] \in RunType /\ card \in [Accts -> CardType] /\ cli[r].needle \in Names
  BY DEF CliTypeOK, RunType
<1>2. found \in SUBSET Accts
  BY DEF Matched, Exact, Containing, Live
<1> DEFINE single == Cardinality(found) = 1
           pc == IF single THEN "delete" ELSE "ended"
           target == IF single THEN found ELSE {}
<1>3. /\ pc \in Steps /\ target \in SUBSET Accts
      /\ target # {} => target = found /\ Cardinality(found) = 1
  BY <1>2 DEF Steps
<1> DEFINE run == [cli[r] EXCEPT !.listed = card, !.pc = pc, !.target = target]
<1>4. /\ run \in RunType /\ run.listed = card /\ run.target = target
      /\ run.needle = cli[r].needle
  BY <1>1, <1>3 DEF RunType, Steps
<1>5. cli' = [cli EXCEPT ![r] = run]
  BY DEF ListForDelete
<1> HIDE DEF run, pc, target, single, found
<1>6. /\ cli' \in [Runs -> RunType] /\ cli'[r] = run
      /\ \A q \in Runs \ {r} : cli'[q] = cli[q]
  BY <1>4, <1>5 DEF CliTypeOK
<1>7. ASSUME NEW a \in target
      PROVE  /\ How(card[a], cli[r].needle) > 0
             /\ \A b \in Accts \ {a} :
                  How(card[b], cli[r].needle) < How(card[a], cli[r].needle)
  BY <1>1, <1>3, SingleMatchIsBest DEF found
<1>8. UNCHANGED <<vault_file, card>>
  BY DEF ListForDelete, OnlyRun
<1>9. CliTypeOK'
  BY <1>6, <1>8 DEF CliTypeOK
<1>10. DeletesNamed'
  BY <1>4, <1>6, <1>7 DEF DeletesNamed
<1> QED
  BY <1>9, <1>10

\* The other steps of a run choose nothing.
LEMMA RunKeepsNamed ==
  ASSUME CliTypeOK, DeletesNamed, NEW r \in Runs,
         \/ Initialize(r) \/ ShowKey(r) \/ UnlockVault(r) \/ SecondFactor(r)
         \/ Delete(r) \/ Work(r) \/ Killed(r)
  PROVE  CliTypeOK' /\ DeletesNamed'
<1>1. \E pc \in Steps : Goto(r, pc)
  BY DEF Initialize, ShowKey, UnlockVault, SecondFactor, Delete, Work, Killed,
         End, Steps
<1>2. cli' \in [Runs -> RunType] /\ \A q \in Runs : Unchosen(q)
  BY <1>1, GotoEffect
<1>3. vault_file' \in {"absent", "ready"}
  BY DEF Initialize, ShowKey, UnlockVault, SecondFactor, Delete, Work, Killed,
         OnlyRun, CliTypeOK
<1>4. card' \in [Accts -> CardType]
  <2>1. CASE Delete(r)
    <3>1. \A a \in Accts : [card[a] EXCEPT !.is = "trashed"] \in CardType
      BY DEF CliTypeOK, CardType
    <3> QED
      BY <2>1, <3>1 DEF Delete, CliTypeOK
  <2>2. CASE Work(r)
    BY <2>2 DEF Work, CliTypeOK, CardType
  <2>3. CASE UNCHANGED card
    BY <2>3 DEF CliTypeOK
  <2> QED
    BY <2>1, <2>2, <2>3 DEF Initialize, ShowKey, UnlockVault, SecondFactor,
                            Killed, OnlyRun
<1> QED
  BY <1>2, <1>3, <1>4, UnchosenKeeps DEF CliTypeOK

\* The account a delete goes on to is the one live account of the name typed
\* or, with none of that name, the only one whose name contains it, for any
\* accounts, runs and other processes (commands.rs:181-218).
THEOREM DeleteAlwaysNamed == CliSpec => []DeletesNamed
<1>1. CliInit => CliTypeOK /\ DeletesNamed
  <2> SUFFICES ASSUME CliInit PROVE CliTypeOK /\ DeletesNamed
    OBVIOUS
  <2>1. NotRun \in RunType /\ NotRun.target = {} /\ NoCard \in CardType
    BY CliAssumption DEF NotRun, NoCard, RunType, CardType
  <2>2. CliTypeOK
    BY <2>1 DEF CliInit, CliTypeOK, CardType
  <2> QED
    BY <2>1, <2>2 DEF CliInit, DeletesNamed
<1>2. CliTypeOK /\ DeletesNamed /\ [CliNext]_cvars => CliTypeOK' /\ DeletesNamed'
  <2> SUFFICES ASSUME CliTypeOK, DeletesNamed, [CliNext]_cvars
               PROVE  CliTypeOK' /\ DeletesNamed'
    OBVIOUS
  <2>1. CASE UNCHANGED cvars
    BY <2>1 DEF cvars, CliTypeOK, DeletesNamed
  <2>2. CASE OtherCards
    <3>1. UNCHANGED cli /\ CliTypeOK'
      BY <2>2 DEF OtherCards, CliTypeOK, CardType
    <3> QED
      BY <3>1 DEF DeletesNamed
  <2> QED
    BY <2>1, <2>2, StartKeepsNamed, ListKeepsNamed, RunKeepsNamed DEF CliNext
<1> QED
  BY <1>1, <1>2, PTL DEF CliSpec

-----------------------------------------------------------------------------
(* SecureStore.                                                            *)

StoreInv == StoreTypeOK /\ KeptInv /\ LoadsStored

\* The entry of a call under way.
LEMMA JobFacts ==
  ASSUME StoreTypeOK, NEW c \in Clients
  PROVE  /\ NoJob \in JobType /\ NoJob.op = "none"
         /\ job[c] \in JobType /\ \A id \in Ids : Where(id) \in Ids
         /\ job[c].op # "none" => job[c] # NoJob
         /\ job[c] # NoJob => /\ job[c].id \in Ids /\ Where(job[c].id) \in Ids
                             /\ Kept(c) \in Contents
<1>1. NoJob \in JobType /\ NoJob.op = "none"
  BY DEF NoJob, JobType
<1>2. job[c] \in JobType /\ \A id \in Ids : Where(id) \in Ids
  BY SecureStoreAssumption DEF StoreTypeOK, Where
<1> QED
  BY <1>1, <1>2 DEF StoreTypeOK, Kept

\* A call that ends leaves the others as they are.
LEMMA EndsEffect ==
  ASSUME StoreTypeOK, NEW c \in Clients, Ends(c)
  PROVE  /\ job' \in [Clients -> JobType] /\ job'[c] = NoJob
         /\ \A d \in Clients \ {c} : job'[d] = job[d]
BY JobFacts DEF StoreTypeOK, Ends

\* A call that continues is the same call in its second step.
LEMMA ContinuesEffect ==
  ASSUME StoreTypeOK, NEW c \in Clients, job[c] # NoJob, Continues(c)
  PROVE  /\ job' \in [Clients -> JobType] /\ job'[c] # NoJob
         /\ job'[c].op = job[c].op /\ job'[c].id = job[c].id
         /\ job'[c].solo = job[c].solo
         /\ \A d \in Clients \ {c} : job'[d] = job[d]
<1>1. job[c] \in JobType /\ job[c].op # "none"
  BY DEF StoreTypeOK
<1>2. job' = [job EXCEPT ![c] = [job[c] EXCEPT !.step = 2]]
  BY DEF Continues
<1>3. /\ [job[c] EXCEPT !.step = 2] \in JobType
      /\ [job[c] EXCEPT !.step = 2].op = job[c].op
      /\ [job[c] EXCEPT !.step = 2].id = job[c].id
      /\ [job[c] EXCEPT !.step = 2].solo = job[c].solo
  BY <1>1 DEF JobType
<1>4. [job[c] EXCEPT !.step = 2] # NoJob
  BY <1>1, <1>3, JobFacts
<1> QED
  BY <1>2, <1>3, <1>4 DEF StoreTypeOK

\* What the last call of each name asked for, after one more.
LEMMA VouchEffect ==
  ASSUME StoreTypeOK, NEW c \in Clients, job[c] # NoJob, NEW value \in Contents,
         NEW sure \in BOOLEAN, Vouch(c, value, sure)
  PROVE  /\ stored' \in [Ids -> Contents] /\ certain' \in [Ids -> BOOLEAN]
         /\ stored'[job[c].id] = value
         /\ certain'[job[c].id] => sure
         /\ \A i \in Ids \ {job[c].id} :
              /\ stored'[i] = stored[i]
              /\ certain'[i] => certain[i] /\ Where(i) # Where(job[c].id)
<1>1. job[c].id \in Ids /\ job[c] \in JobType
  BY JobFacts
<1>2. /\ stored' \in [Ids -> Contents] /\ stored'[job[c].id] = value
      /\ \A i \in Ids \ {job[c].id} : stored'[i] = stored[i]
  BY <1>1 DEF Vouch, StoreTypeOK
<1>3. certain' = [i \in Ids |-> IF i = job[c].id THEN sure /\ job[c].solo
                               ELSE certain[i] /\ Where(i) # Where(job[c].id)]
  BY DEF Vouch
<1>4. certain' \in [Ids -> BOOLEAN]
  BY <1>3
<1>5. ASSUME NEW i \in Ids
      PROVE  /\ i = job[c].id /\ certain'[i] => sure
             /\ i # job[c].id /\ certain'[i]
                  => certain[i] /\ Where(i) # Where(job[c].id)
  BY <1>3, Zenon
<1> QED
  BY <1>1, <1>2, <1>4, <1>5

\* The step of a call that leaves something in the entry: what is certain of
\* it afterwards is what was asked for.
LEMMA EntryKeeps ==
  ASSUME StoreInv, NEW c \in Clients, job[c] # NoJob,
         NEW value \in Contents, NEW kept \in Contents, NEW sure \in BOOLEAN,
         entry' = [entry EXCEPT ![Where(job[c].id)] = kept],
         Vouch(c, value, sure), sure => kept = value,
         Ends(c) \/ (Continues(c) /\ job[c].op = "store"),
         UNCHANGED <<backend, loaded>>
  PROVE  StoreInv'
<1> DEFINE w == Where(job[c].id)
<1>1. StoreTypeOK /\ KeptInv /\ LoadsStored /\ w \in Ids /\ job[c].id \in Ids
  BY JobFacts DEF StoreInv
<1>2. /\ stored' \in [Ids -> Contents] /\ certain' \in [Ids -> BOOLEAN]
      /\ stored'[job[c].id] = value
      /\ certain'[job[c].id] => sure
      /\ \A i \in Ids \ {job[c].id} :
           stored'[i] = stored[i] /\ (certain'[i] => certain[i] /\ Where(i) # w)
  BY <1>1, VouchEffect
<1>3. /\ job' \in [Clients -> JobType]
      /\ \A d \in Clients \ {c} : job'[d] = job[d]
      /\ \/ job'[c] = NoJob
         \/ /\ job'[c].op = "store" /\ job'[c].id = job[c].id
            /\ job'[c].solo = job[c].solo
  BY <1>1, EndsEffect, ContinuesEffect
<1>4. /\ entry' \in [Ids -> Contents] /\ entry'[w] = kept
      /\ \A i \in Ids \ {w} : entry'[i] = entry[i]
  BY <1>1 DEF StoreTypeOK
<1>5. \A i \in Ids : Where(i)' = Where(i) /\ Where(i) \in Ids
  BY <1>1, JobFacts DEF Where
<1>6. StoreTypeOK'
  BY <1>1, <1>2, <1>3, <1>4 DEF StoreTypeOK
<1>7. ASSUME NEW i \in Ids, certain'[i] PROVE entry'[Where(i)'] = stored'[i]
  <2>1. Where(i)' = Where(i) /\ Where(i) \in Ids
    BY <1>5
  <2>2. CASE i = job[c].id
    BY <1>2, <1>4, <1>7, <2>1, <2>2
  <2>3. CASE i # job[c].id
    BY <1>1, <1>2, <1>4, <1>7, <2>1, <2>3 DEF KeptInv
  <2> QED
    BY <2>2, <2>3
<1>8. ASSUME NEW d \in Clients, NEW e \in Clients \ {d}, job'[d] # NoJob,
             job'[e] # NoJob, Where(job[e].id)' = Where(job[d].id)'
      PROVE  ~job'[d].solo
  <2>1. /\ job[d] # NoJob /\ job[e] # NoJob
        /\ job'[d].id = job[d].id /\ job'[e].id = job[e].id
        /\ job'[d].solo = job[d].solo
    BY <1>3, <1>8
  <2>2. Where(job[e].id) = Where(job[d].id)
    BY <1>8, <2>1 DEF Where
  <2> QED
    BY <1>1, <2>1, <2>2 DEF KeptInv, Uses
<1>9. ASSUME NEW d \in Clients, job'[d].op = "load", job'[d].step = 2, job'[d].solo
      PROVE  entry'[Where(job[d].id)'] # Absent
  <2>1. d # c /\ job'[d] = job[d] /\ job[d] # NoJob
    BY <1>1, <1>3, <1>9, JobFacts
  <2>2. Where(job[d].id) # w
    BY <1>1, <1>9, <2>1 DEF KeptInv, Uses
  <2>3. Where(job[d].id)' = Where(job[d].id) /\ Where(job[d].id) \in Ids
    BY <1>1, <2>1, JobFacts DEF Where
  <2>4. entry[Where(job[d].id)] # Absent
    BY <1>1, <1>9, <2>1 DEF KeptInv, InCall, Kept
  <2> QED
    BY <1>4, <2>2, <2>3, <2>4
<1>10. KeptInv'
  BY <1>5, <1>7, <1>8, <1>9 DEF KeptInv, Uses, InCall, Kept
<1>11. LoadsStored'
  BY <1>1 DEF LoadsStored
<1> QED
  BY <1>6, <1>10, <1>11 DEF StoreInv

\* A step that only ends a call, or goes on to the second step of one whose
\* file was there.
LEMMA EntryStands ==
  ASSUME StoreInv, NEW c \in Clients, job[c] # NoJob,
         Ends(c) \/ (Continues(c) /\ Kept(c) # Absent),
         UNCHANGED <<backend, entry, stored, certain>>
  PROVE  KeptInv'
<1>1. StoreTypeOK /\ KeptInv
  BY DEF StoreInv
<1>2. /\ \A d \in Clients \ {c} : job'[d] = job[d]
      /\ \/ job'[c] = NoJob
         \/ /\ Kept(c) # Absent /\ job'[c].id = job[c].id
            /\ job'[c].solo = job[c].solo
  BY <1>1, EndsEffect, ContinuesEffect
<1>3. \A i \in Ids : Where(i)' = Where(i)
  BY DEF Where
<1>4. ASSUME NEW d \in Clients, NEW e \in Clients \ {d}, job'[d] # NoJob,
             job'[e] # NoJob, Where(job[e].id)' = Where(job[d].id)'
      PROVE  ~job'[d].solo
  <2>1. /\ job[d] # NoJob /\ job[e] # NoJob
        /\ job'[d].id = job[d].id /\ job'[e].id = job[e].id
        /\ job'[d].solo = job[d].solo
    BY <1>2, <1>4
  <2>2. Where(job[e].id) = Where(job[d].id)
    BY <1>4, <2>1 DEF Where
  <2> QED
    BY <1>1, <2>1, <2>2 DEF KeptInv, Uses
<1>5. ASSUME NEW d \in Clients, job'[d].op = "load", job'[d].step = 2, job'[d].solo
      PROVE  entry'[Where(job[d].id)'] # Absent
  <2>1. job'[d] # NoJob
    BY <1>1, <1>5, JobFacts
  <2>2. job'[d].id = job[d].id
    BY <1>2, <2>1
  <2>3. Where(job[d].id)' = Where(job[d].id)
    BY <2>2 DEF Where
  <2>4. CASE d = c
    BY <1>2, <2>1, <2>3, <2>4 DEF Kept
  <2>5. CASE d # c
    BY <1>1, <1>2, <1>5, <2>3, <2>5 DEF KeptInv, InCall, Kept
  <2> QED
    BY <2>4, <2>5
<1>6. \A i \in Ids : certain'[i] => entry'[Where(i)'] = stored'[i]
  BY <1>1, <1>3 DEF KeptInv
<1> QED
  BY <1>4, <1>5, <1>6 DEF KeptInv, Uses, InCall, Kept

\* A load hands over what is kept, unless a call it overlapped took the file
\* away, or it does not fit the buffer.
LEMMA LoadsKeep ==
  ASSUME StoreInv, NEW c \in Clients, job[c] # NoJob,
         NEW value \in Contents \cup {Failed}, Loads(c, value),
         certain[job[c].id] /\ job[c].solo =>
           \/ value = Kept(c)
           \/ backend = "native" /\ Kept(c) \in Oversize /\ value = Failed
  PROVE  StoreInv'
<1>1. StoreTypeOK /\ KeptInv /\ LoadsStored /\ job[c].id \in Ids
  BY JobFacts DEF StoreInv
<1>2. PICK sure \in BOOLEAN :
        /\ loaded' = [loaded EXCEPT ![c] =
             [value |-> value, want |-> stored[job[c].id], sure |-> sure]]
        /\ sure <=> certain[job[c].id] /\ job[c].solo
  BY DEF Loads
<1> DEFINE what == [value |-> value, want |-> stored[job[c].id], sure |-> sure]
<1>3. /\ what \in LoadedType /\ what.value = value
      /\ what.want = stored[job[c].id] /\ what.sure = sure
  BY <1>1 DEF LoadedType, StoreTypeOK
<1> HIDE DEF what
<1>4. /\ loaded' \in [Clients -> LoadedType] /\ loaded'[c] = what
      /\ \A d \in Clients \ {c} : loaded'[d] = loaded[d]
  BY <1>1, <1>2, <1>3 DEF StoreTypeOK, what
<1>5. Ends(c) /\ UNCHANGED <<backend, entry, stored, certain>>
  BY DEF Loads
<1>6. StoreTypeOK'
  BY <1>1, <1>4, <1>5, EndsEffect DEF StoreTypeOK
<1>7. KeptInv'
  BY <1>5, EntryStands
<1>8. ASSUME sure
      PROVE  \/ value = what.want
             \/ backend = "native" /\ what.want \in Oversize /\ value = Failed
  <2>1. certain[job[c].id] /\ job[c].solo
    BY <1>2, <1>8
  <2>2. Kept(c) = what.want
    BY <1>1, <1>3, <2>1 DEF KeptInv, Kept
  <2> QED
    BY <2>1, <2>2
<1>9. LoadsStored'
  BY <1>1, <1>3, <1>4, <1>5, <1>8 DEF LoadsStored
<1> QED
  BY <1>6, <1>7, <1>9 DEF StoreInv

\* A call that begins marks those on its entry, and itself if there are any.
LEMMA CallKeeps ==
  ASSUME StoreInv, NEW c \in Clients, NEW op \in {"store", "load", "delete"},
         NEW id \in Ids, NEW secret \in Secrets \cup {Absent},
         Call(c, op, id, secret)
  PROVE  StoreInv'
<1> DEFINE crowd == {d \in Clients : Uses(d, id)}
<1>1. /\ StoreTypeOK /\ KeptInv /\ LoadsStored /\ job[c] = NoJob
      /\ loaded' = [loaded EXCEPT ![c] = NotLoaded]
      /\ UNCHANGED <<backend, entry, stored, certain>>
  BY DEF StoreInv, Call
<1>2. /\ NotLoaded \in LoadedType /\ ~NotLoaded.sure
  BY DEF NotLoaded, LoadedType, Contents
<1>3. /\ loaded' \in [Clients -> LoadedType] /\ ~loaded'[c].sure
      /\ \A d \in Clients \ {c} : loaded'[d] = loaded[d]
  BY <1>1, <1>2 DEF StoreTypeOK
<1>4. /\ job'[c] \in JobType /\ job'[c].op = op /\ job'[c].id = id
      /\ job'[c].step = 1 /\ job'[c] # NoJob
      /\ crowd # {} => ~job'[c].solo
  <2>1. PICK solo \in BOOLEAN :
          /\ job'[c] = [op |-> op, step |-> 1, id |-> id, secret |-> secret,
                        solo |-> solo]
          /\ solo <=> crowd = {}
    BY DEF Call
  <2> HIDE DEF crowd
  <2>2. /\ job'[c] \in JobType /\ job'[c].op = op /\ job'[c].id = id
        /\ job'[c].step = 1 /\ job'[c].solo = solo
    BY <2>1 DEF JobType
  <2> QED
    BY <1>1, <2>1, <2>2, JobFacts
<1>5. ASSUME NEW d \in Clients \ {c}
      PROVE  /\ job'[d] \in JobType /\ job'[d].op = job[d].op
             /\ job'[d].id = job[d].id /\ job'[d].step = job[d].step
             /\ job'[d].solo => job[d].solo /\ d \notin crowd
             /\ job'[d] = NoJob <=> job[d] = NoJob
  <2>1. PICK solo \in BOOLEAN :
          /\ job'[d] = [job[d] EXCEPT !.solo = solo]
          /\ solo <=> job[d].solo /\ d \notin crowd
    BY DEF Call
  <2>2. job[d] \in JobType /\ (job[d] = NoJob => d \notin crowd)
    BY <1>1, JobFacts DEF Uses
  <2> HIDE DEF crowd
  <2>3. /\ job'[d] \in JobType /\ job'[d].op = job[d].op
        /\ job'[d].id = job[d].id /\ job'[d].step = job[d].step
        /\ job'[d].secret = job[d].secret /\ job'[d].solo = solo
    BY <2>1, <2>2 DEF JobType
  <2>4. ASSUME job[d] = NoJob PROVE job'[d] = NoJob
    <3>1. job[d].solo = TRUE
      BY <2>4 DEF NoJob
    <3>2. solo = job[d].solo
      BY <2>1, <2>2, <2>4, <3>1
    <3> QED
      BY <2>1, <2>2, <2>4, <3>2 DEF JobType
  <2>5. ASSUME job'[d] = NoJob PROVE job[d] = NoJob
    BY <1>1, <2>3, <2>5, JobFacts DEF StoreTypeOK
  <2>6. job'[d].solo => job[d].solo /\ d \notin crowd
    BY <2>1, <2>3
  <2> QED
    BY <2>3, <2>4, <2>5, <2>6
<1>6. job' \in [Clients -> JobType]
  <2>1. job' = [d \in Clients |-> job'[d]]
    BY DEF Call
  <2> QED
    BY <1>4, <1>5, <2>1
<1>7. StoreTypeOK'
  BY <1>1, <1>3, <1>4, <1>5, <1>6 DEF StoreTypeOK
<1>8. \A i \in Ids : Where(i)' = Where(i)
  BY <1>1 DEF Where
<1>9. ASSUME NEW d \in Clients, NEW e \in Clients \ {d}, job'[d] # NoJob,
             job'[e] # NoJob, Where(job[e].id)' = Where(job[d].id)'
      PROVE  ~job'[d].solo
  <2>1. CASE d = c
    <3>1. job[e] # NoJob /\ job'[e].id = job[e].id
      BY <1>5, <1>9, <2>1
    <3>2. Where(job[e].id) = Where(id)
      BY <1>1, <1>4, <1>9, <2>1, <3>1 DEF Where
    <3> QED
      BY <1>4, <2>1, <3>1, <3>2 DEF Uses
  <2>2. CASE e = c
    <3>1. job[d] # NoJob /\ job'[d].id = job[d].id
      BY <1>5, <1>9, <2>2
    <3>2. Where(job[d].id) = Where(id)
      BY <1>1, <1>4, <1>9, <2>2, <3>1 DEF Where
    <3> QED
      BY <1>5, <2>2, <3>1, <3>2 DEF Uses
  <2>3. CASE d # c /\ e # c
    <3>1. /\ job[d] # NoJob /\ job[e] # NoJob
          /\ job'[d].id = job[d].id /\ job'[e].id = job[e].id
          /\ job'[d].solo => job[d].solo
      BY <1>5, <1>9, <2>3
    <3>2. Where(job[e].id) = Where(job[d].id)
      BY <1>1, <1>9, <3>1 DEF Where
    <3> QED
      BY <1>1, <3>1, <3>2 DEF KeptInv, Uses
  <2> QED
    BY <2>1, <2>2, <2>3
<1>10. ASSUME NEW d \in Clients, job'[d].op = "load", job'[d].step = 2, job'[d].solo
       PROVE  entry'[Where(job[d].id)'] # Absent
  <2>1. d # c
    BY <1>4, <1>10
  <2>2. /\ job[d].op = "load" /\ job[d].step = 2 /\ job'[d].id = job[d].id
        /\ job[d].solo
    BY <1>5, <1>10, <2>1
  <2> QED
    BY <1>1, <2>2 DEF KeptInv, InCall, Kept, Where
<1>11. KeptInv'
  BY <1>1, <1>8, <1>9, <1>10 DEF KeptInv, Uses, InCall, Kept
<1>12. LoadsStored'
  BY <1>1, <1>3 DEF LoadsStored
<1> QED
  BY <1>7, <1>11, <1>12 DEF StoreInv

\* The steps of the three implementations.
LEMMA WorkKeeps ==
  ASSUME StoreInv, NEW c \in Clients,
         \/ StoreAtOnce(c) \/ Truncate(c) \/ WriteFile(c)
         \/ LoadAtOnce(c) \/ LookForFile(c) \/ ReadFile(c)
         \/ RemoveFile(c) \/ DeleteAtOnce(c) \/ Stops(c)
  PROVE  StoreInv'
<1>1. StoreTypeOK /\ KeptInv /\ LoadsStored
  BY DEF StoreInv
<1>2. job[c] # NoJob
  BY <1>1, JobFacts DEF StoreAtOnce, Truncate, WriteFile, LoadAtOnce, LookForFile,
     ReadFile, RemoveFile, DeleteAtOnce, Stops, InCall
<1>3. /\ job[c].id \in Ids /\ Where(job[c].id) \in Ids /\ Kept(c) \in Contents
      /\ job[c].secret \in Contents /\ Absent \in Contents /\ Torn \in Contents
      /\ Kept(c) = entry[Where(job[c].id)]
  BY <1>1, <1>2, JobFacts DEF JobType, Contents, Kept
<1>4. [entry EXCEPT ![Where(job[c].id)] = Kept(c)] = entry
  BY <1>1, <1>3 DEF StoreTypeOK
<1>5. CASE StoreAtOnce(c)
  <2>1. \/ Put(c, job[c].secret) /\ Vouch(c, job[c].secret, TRUE)
        \/ /\ Put(c, job[c].secret) \/ UNCHANGED entry
           /\ Vouch(c, job[c].secret, FALSE)
    BY <1>5 DEF StoreAtOnce
  <2>2. Ends(c) /\ UNCHANGED <<backend, loaded>>
    BY <1>5 DEF StoreAtOnce
  <2> QED
    BY <1>2, <1>3, <1>4, <2>1, <2>2, EntryKeeps DEF Put
<1>6. CASE Truncate(c)
  <2>1. /\ Put(c, Torn) /\ Vouch(c, job[c].secret, FALSE)
        /\ Continues(c) /\ job[c].op = "store" /\ UNCHANGED <<backend, loaded>>
    BY <1>6 DEF Truncate, InCall
  <2> QED
    BY <1>2, <1>3, <2>1, EntryKeeps DEF Put
<1>7. CASE WriteFile(c)
  BY <1>2, <1>3, <1>7, EntryKeeps DEF WriteFile, Put
<1>8. CASE RemoveFile(c)
  BY <1>2, <1>3, <1>8, EntryKeeps DEF RemoveFile, Put
<1>9. CASE DeleteAtOnce(c)
  <2>1. \/ Put(c, Absent) /\ Vouch(c, Absent, TRUE)
        \/ UNCHANGED entry /\ Vouch(c, Absent, FALSE)
    BY <1>9 DEF DeleteAtOnce
  <2>2. Ends(c) /\ UNCHANGED <<backend, loaded>>
    BY <1>9 DEF DeleteAtOnce
  <2> QED
    BY <1>2, <1>3, <1>4, <2>1, <2>2, EntryKeeps DEF Put
<1>10. CASE LoadAtOnce(c)
  <2>1. PICK value :
          /\ Loads(c, value)
          /\ \/ value = Kept(c)
             \/ backend = "native" /\ Kept(c) \in Oversize /\ value = Failed
    BY <1>10 DEF LoadAtOnce, Received
  <2>2. value \in Contents \cup {Failed}
    BY <1>3, <2>1
  <2> QED
    BY <1>2, <2>1, <2>2, LoadsKeep
<1>11. CASE LookForFile(c)
  <2>1. UNCHANGED <<backend, entry>>
    BY <1>11 DEF LookForFile
  <2>2. CASE Kept(c) # Absent /\ Continues(c) /\ UNCHANGED <<loaded, stored, certain>>
    <3>1. KeptInv'
      BY <1>2, <2>1, <2>2, EntryStands
    <3>2. StoreTypeOK'
      BY <1>1, <1>2, <2>1, <2>2, ContinuesEffect DEF StoreTypeOK
    <3> QED
      BY <1>1, <2>1, <2>2, <3>1, <3>2 DEF StoreInv, LoadsStored
  <2>3. CASE Kept(c) = Absent /\ Loads(c, Absent)
    BY <1>2, <1>3, <2>3, LoadsKeep
  <2>4. CASE /\ Kept(c) = Absent /\ Vouch(c, Absent, TRUE) /\ Ends(c)
             /\ UNCHANGED loaded
    BY <1>2, <1>3, <1>4, <2>1, <2>4, EntryKeeps
  <2> QED
    BY <1>11, <2>2, <2>3, <2>4 DEF LookForFile
<1>12. CASE ReadFile(c)
  <2>1. PICK value :
          /\ Loads(c, value)
          /\ \/ value = Kept(c)
             \/ Kept(c) = Absent /\ value = Failed
    BY <1>12 DEF ReadFile
  <2>2. value \in Contents \cup {Failed}
    BY <1>3, <2>1
  <2>3. job[c].solo => Kept(c) # Absent
    BY <1>1, <1>12 DEF ReadFile, KeptInv
  <2> QED
    BY <1>2, <2>1, <2>2, <2>3, LoadsKeep
<1>13. CASE Stops(c)
  <2>1. Ends(c) /\ UNCHANGED <<backend, entry, loaded, stored, certain>>
    BY <1>13 DEF Stops
  <2>2. KeptInv'
    BY <1>2, <2>1, EntryStands
  <2>3. StoreTypeOK'
    BY <1>1, <2>1, EndsEffect DEF StoreTypeOK
  <2> QED
    BY <1>1, <2>1, <2>2, <2>3 DEF StoreInv, LoadsStored
<1> QED
  BY <1>5, <1>6, <1>7, <1>8, <1>9, <1>10, <1>11, <1>12, <1>13

\* After a store or a delete that was done whole and alone, every load that
\* nothing overlaps returns exactly what it asked for, with any of the three
\* implementations, for any clients, names, files they share and contents,
\* and whatever was torn, refused or interrupted before
\* (secure_store.rs:43-50, 115-135, 196-235).
THEOREM AlwaysLoadsStored == StoreSpec => []LoadsStored
<1>1. StoreInit => StoreInv
  <2> SUFFICES ASSUME StoreInit PROVE StoreInv
    OBVIOUS
  <2>1. NoJob \in JobType /\ NoJob.op = "none"
    BY DEF NoJob, JobType
  <2>2. NotLoaded \in LoadedType /\ ~NotLoaded.sure
    BY DEF NotLoaded, LoadedType, Contents
  <2>3. StoreTypeOK
    BY <2>1, <2>2 DEF StoreInit, StoreTypeOK, Contents
  <2>4. \A i \in Ids : Where(i) \in Ids
    BY SecureStoreAssumption DEF Where
  <2> QED
    BY <2>1, <2>2, <2>3, <2>4 DEF StoreInit, StoreInv, KeptInv, LoadsStored, InCall
<1>2. StoreInv /\ [StoreNext]_svars => StoreInv'
  <2> SUFFICES ASSUME StoreInv, [StoreNext]_svars PROVE StoreInv'
    OBVIOUS
  <2>1. CASE UNCHANGED svars
    BY <2>1 DEF svars, StoreInv, StoreTypeOK, KeptInv, LoadsStored, Uses, InCall,
                Kept, Where
  <2> QED
    BY <2>1, CallKeeps, WorkKeeps DEF StoreNext
<1>3. StoreInv => LoadsStored
  BY DEF StoreInv
<1> QED
  BY <1>1, <1>2, <1>3, PTL DEF StoreSpec

-----------------------------------------------------------------------------
(* Suggest.  The library's induction takes an operator as a parameter; the *)
(* one here is about sets, from the least element of a well-founded order. *)

\* A set that has 0, and with a number below n the next one, has all to n.
LEMMA SetInduction ==
  ASSUME NEW n \in Nat, NEW T, 0 \in T,
         \A i \in 1 .. n : i - 1 \in T => i \in T
  PROVE  0 .. n \subseteq T
<1> DEFINE R == OpToRel(<, Nat)
           U == (0 .. n) \ T
<1> SUFFICES ASSUME U # {} PROVE FALSE
  OBVIOUS
<1>1. IsWellFoundedOn(R, Nat)
  BY NatLessThanWellFounded
<1>2. U \subseteq Nat
  OBVIOUS
<1>3. \A x, y \in Nat : y < x => <<y, x>> \in R
  BY DEF OpToRel
<1> HIDE DEF R
<1>4. PICK x \in U : \A y \in U : ~ (<<y, x>> \in R)
  BY <1>1, <1>2, WFMin
<1>5. /\ x \in Nat /\ x - 1 \in Nat /\ x - 1 < x
      /\ x \in 1 .. n /\ x - 1 \in 0 .. n
  OBVIOUS
<1>6. <<x - 1, x>> \in R
  BY <1>3, <1>5
<1>7. x - 1 \notin U
  BY <1>4, <1>6
<1> QED
  BY <1>5, <1>7

\* The least of a set of numbers.
LEMMA LeastIs ==
  ASSUME NEW S, S \subseteq Nat, S # {}
  PROVE  Least(S) \in S /\ \A m \in S : Least(S) <= m
<1> DEFINE R == OpToRel(<, Nat)
<1>1. IsWellFoundedOn(R, Nat)
  BY NatLessThanWellFounded
<1>2. \A x, y \in Nat : y < x => <<y, x>> \in R
  BY DEF OpToRel
<1> HIDE DEF R
<1>3. PICK x \in S : \A y \in S : ~ (<<y, x>> \in R)
  BY <1>1, WFMin
<1>4. \A y \in S : ~ (y < x)
  BY <1>2, <1>3
<1>5. \A y \in S : x <= y
  BY <1>4
<1> QED
  BY <1>5 DEF Least

\* The values of f from 0 to n are each had from the one before.
Follows(f, n, first, next) ==
  f[0] = first /\ \A i \in 1 .. n : f[i] = next[i][f[i - 1]]

\* A value for each of 0 .. n, each from the one before, exists.
LEMMA Computed ==
  ASSUME NEW n \in Nat, NEW V, NEW first \in V, NEW next \in [1 .. n -> [V -> V]]
  PROVE  \E f \in [0 .. n -> V] : Follows(f, n, first, next)
<1> DEFINE Upto(m, f) == Follows(f, m, first, next)
           T == {m \in 0 .. n : \E f \in [0 .. m -> V] : Upto(m, f)}
<1>1. 0 \in T
  <2>1. [i \in 0 .. 0 |-> first] \in [0 .. 0 -> V] /\ Upto(0, [i \in 0 .. 0 |-> first])
    BY DEF Follows
  <2> HIDE DEF Upto
  <2>2. \E f \in [0 .. 0 -> V] : Upto(0, f)
    BY <2>1
  <2> QED
    BY <2>2
<1>2. ASSUME NEW m \in 1 .. n, m - 1 \in T
      PROVE  m \in T
  <2>1. PICK f \in [0 .. m - 1 -> V] : Upto(m - 1, f)
    BY <1>2
  <2> DEFINE g == [i \in 0 .. m |-> IF i < m THEN f[i] ELSE next[m][f[m - 1]]]
  <2>2. next[m] \in [V -> V] /\ f[m - 1] \in V
    OBVIOUS
  <2>3. next[m][f[m - 1]] \in V
    BY <2>2
  <2>4. g \in [0 .. m -> V]
    BY <2>3
  <2>5. g[0] = first
    BY <2>1 DEF Follows
  <2>6. ASSUME NEW i \in 1 .. m PROVE g[i] = next[i][g[i - 1]]
    <3>1. CASE i < m
      <4>1. i \in 1 .. m - 1 /\ g[i] = f[i] /\ g[i - 1] = f[i - 1]
        BY <3>1
      <4> QED
        BY <2>1, <4>1 DEF Follows
    <3>2. CASE i = m
      <4>1. g[i] = next[m][f[m - 1]] /\ g[i - 1] = f[m - 1]
        BY <3>2
      <4> QED
        BY <3>2, <4>1
    <3> QED
      BY <3>1, <3>2
  <2> HIDE DEF g
  <2>7. Upto(m, g)
    BY <2>5, <2>6 DEF Follows
  <2> HIDE DEF Upto
  <2>8. \E h \in [0 .. m -> V] : Upto(m, h)
    BY <2>4, <2>7
  <2> QED
    BY <2>8
<1> HIDE DEF T
<1>3. n \in T
  <2>1. 0 .. n \subseteq T
    BY <1>1, <1>2, SetInduction
  <2> QED
    BY <2>1
<1> QED
  BY <1>3 DEF T

-----------------------------------------------------------------------------
\* x is the least of three.
LeastOf(x, p, q, r) == x \in {p, q, r} /\ x <= p /\ x <= q /\ x <= r

\* One cell is one of three numbers, and none of them is less.
LEMMA CellIs ==
  ASSUME NEW n \in Nat, NEW prev \in [0 .. n -> Nat], NEW left \in Nat,
         NEW j \in 1 .. n, NEW cost \in {0, 1}
  PROVE  /\ Cell(prev, left, j, cost) \in Nat
         /\ LeastOf(Cell(prev, left, j, cost), prev[j - 1] + cost, prev[j] + 1, left + 1)
<1> DEFINE S == {prev[j - 1] + cost, prev[j] + 1, left + 1}
<1>1. prev[j - 1] \in Nat /\ prev[j] \in Nat
  OBVIOUS
<1>2. S \subseteq Nat /\ S # {}
  BY <1>1
<1>3. Least(S) \in S /\ \A m \in S : Least(S) <= m
  BY <1>2, LeastIs
<1>4. Cell(prev, left, j, cost) = Least(S)
  BY DEF Cell
<1> QED
  BY <1>2, <1>3, <1>4 DEF LeastOf

\* What a letter costs in the column of another.
Cost(x, y) == IF x = y THEN 0 ELSE 1

\* The row the code computes letter by letter.
LEMMA RowIs ==
  ASSUME NEW b \in Seq(Letters), NEW prev \in [0 .. Len(b) -> Nat], NEW i \in Nat,
         NEW x
  PROVE  /\ Row(prev, i, x, b) \in [0 .. Len(b) -> Nat]
         /\ Row(prev, i, x, b)[0] = i
         /\ \A j \in 1 .. Len(b) :
              Row(prev, i, x, b)[j]
                = Cell(prev, Row(prev, i, x, b)[j - 1], j, Cost(x, b[j]))
<1> DEFINE n == Len(b)
           next == [j \in 1 .. n |-> [left \in Nat |-> Cell(prev, left, j, Cost(x, b[j]))]]
           Cur(f) == f = [j \in 0 .. n |->
                            IF j = 0 THEN i
                            ELSE Cell(prev, f[j - 1], j, Cost(x, b[j]))]
<1>1. n \in Nat
  OBVIOUS
<1>2. next \in [1 .. n -> [Nat -> Nat]]
  <2>1. \A y : Cost(x, y) \in {0, 1}
    BY DEF Cost
  <2> QED
    BY <1>1, <2>1, CellIs
<1>3. PICK f \in [0 .. n -> Nat] : Follows(f, n, i, next)
  <2> HIDE DEF next, n
  <2> QED
    BY <1>1, <1>2, Computed
<1>4. Cur(f)
  <2>1. ASSUME NEW j \in 1 .. n
        PROVE  f[j] = Cell(prev, f[j - 1], j, Cost(x, b[j]))
    <3>1. j - 1 \in 0 .. n /\ f[j - 1] \in Nat
      BY <1>1
    <3> QED
      BY <1>3, <3>1 DEF Follows
  <2>2. f[0] = i
    BY <1>3 DEF Follows
  <2> QED
    BY <1>1, <2>1, <2>2
<1> DEFINE cur == CHOOSE g : Cur(g)
<1>5. Cur(cur)
  <2> HIDE DEF Cur
  <2> QED
    BY <1>4
<1>6. Row(prev, i, x, b) = cur
  BY DEF Row, Cost
<1> HIDE DEF cur
<1>7. /\ cur[0] = i
      /\ \A j \in 1 .. n : cur[j] = Cell(prev, cur[j - 1], j, Cost(x, b[j]))
      /\ cur = [j \in 0 .. n |-> cur[j]]
  BY <1>1, <1>5
<1>8. 0 .. n \subseteq {j \in 0 .. n : cur[j] \in Nat}
  <2> DEFINE T == {j \in 0 .. n : cur[j] \in Nat}
  <2>1. 0 \in T
    BY <1>1, <1>7
  <2>2. ASSUME NEW j \in 1 .. n, j - 1 \in T
        PROVE  j \in T
    <3>1. cur[j - 1] \in Nat /\ Cost(x, b[j]) \in {0, 1}
      BY <2>2 DEF Cost
    <3>2. Cell(prev, cur[j - 1], j, Cost(x, b[j])) \in Nat
      BY <1>1, <3>1, CellIs
    <3>3. cur[j] \in Nat
      BY <1>7, <3>2
    <3> QED
      BY <1>1, <3>3
  <2> HIDE DEF T
  <2>3. 0 .. n \subseteq T
    BY <1>1, <2>1, <2>2, SetInduction
  <2> QED
    BY <2>3 DEF T
<1>9. cur \in [0 .. n -> Nat]
  BY <1>7, <1>8
<1> QED
  BY <1>6, <1>7, <1>9

-----------------------------------------------------------------------------
\* The rows of the whole computation, the last of which has the distance.
Rows(a, b) ==
  CHOOSE row : row = [i \in 0 .. Len(a) |->
    IF i = 0 THEN [j \in 0 .. Len(b) |-> j] ELSE Row(row[i - 1], i, a[i], b)]

LEMMA RowsAre ==
  ASSUME NEW a \in Seq(Letters), NEW b \in Seq(Letters)
  PROVE  /\ EditDistance(a, b) = Rows(a, b)[Len(a)][Len(b)]
         /\ Rows(a, b) \in [0 .. Len(a) -> [0 .. Len(b) -> Nat]]
         /\ Rows(a, b)[0] = [j \in 0 .. Len(b) |-> j]
         /\ \A i \in 1 .. Len(a) :
              Rows(a, b)[i] = Row(Rows(a, b)[i - 1], i, a[i], b)
<1> DEFINE n == Len(a)
           V == [0 .. Len(b) -> Nat]
           top == [j \in 0 .. Len(b) |-> j]
           next == [i \in 1 .. n |-> [prev \in V |-> Row(prev, i, a[i], b)]]
           Are(f) == f = [i \in 0 .. n |->
                            IF i = 0 THEN top ELSE Row(f[i - 1], i, a[i], b)]
<1>1. n \in Nat /\ top \in V
  OBVIOUS
<1>2. next \in [1 .. n -> [V -> V]]
  BY RowIs
<1>3. PICK f \in [0 .. n -> V] : Follows(f, n, top, next)
  <2> HIDE DEF n, V, top, next
  <2> QED
    BY <1>1, <1>2, Computed
<1>4. Are(f)
  <2>1. ASSUME NEW i \in 1 .. n
        PROVE  f[i] = Row(f[i - 1], i, a[i], b)
    <3>1. i - 1 \in 0 .. n /\ f[i - 1] \in V /\ f[i] = next[i][f[i - 1]]
      <4> HIDE DEF next, V
      <4> QED
        BY <1>1, <1>3 DEF Follows
    <3> QED
      BY <3>1
  <2>2. f[0] = top
    BY <1>3 DEF Follows
  <2> HIDE DEF V, top
  <2> QED
    BY <1>1, <2>1, <2>2
<1> DEFINE row == CHOOSE g : Are(g)
<1>5. Are(row)
  <2> HIDE DEF Are
  <2> QED
    BY <1>4
<1>6. Rows(a, b) = row /\ EditDistance(a, b) = row[n][Len(b)]
  BY DEF Rows, EditDistance
<1> HIDE DEF row
<1>7. /\ row[0] = top
      /\ \A i \in 1 .. n : row[i] = Row(row[i - 1], i, a[i], b)
      /\ row = [i \in 0 .. n |-> row[i]]
  <2> HIDE DEF top
  <2> QED
    BY <1>1, <1>5
<1>8. 0 .. n \subseteq {i \in 0 .. n : row[i] \in V}
  <2> DEFINE T == {i \in 0 .. n : row[i] \in V}
  <2>1. 0 \in T
    BY <1>1, <1>7
  <2>2. ASSUME NEW i \in 1 .. n, i - 1 \in T
        PROVE  i \in T
    <3>1. i \in Nat /\ row[i - 1] \in [0 .. Len(b) -> Nat]
      BY <1>1, <2>2
    <3>2. Row(row[i - 1], i, a[i], b) \in V
      BY <1>1, <3>1, RowIs
    <3>3. row[i] \in V
      <4> HIDE DEF V
      <4> QED
        BY <1>7, <3>2
    <3> QED
      BY <1>1, <3>3
  <2> HIDE DEF T
  <2>3. 0 .. n \subseteq T
    BY <1>1, <2>1, <2>2, SetInduction
  <2> QED
    BY <2>3 DEF T
<1>9. row \in [0 .. n -> V]
  <2> HIDE DEF V
  <2> QED
    BY <1>7, <1>8
<1> QED
  BY <1>6, <1>7, <1>9

\* The table of two words, row by row: the first row and what starts a row.
LEMMA TableRows ==
  ASSUME NEW a \in Seq(Letters), NEW b \in Seq(Letters), NEW i \in 0 .. Len(a)
  PROVE  /\ Rows(a, b)[i] \in [0 .. Len(b) -> Nat]
         /\ Rows(a, b)[i][0] = i
         /\ i = 0 => \A j \in 0 .. Len(b) : Rows(a, b)[i][j] = j
<1> DEFINE t == Rows(a, b)
           V == [0 .. Len(b) -> Nat]
<1>1. Len(a) \in Nat /\ Len(b) \in Nat
  OBVIOUS
<1>2. /\ t \in [0 .. Len(a) -> V] /\ t[0] = [j \in 0 .. Len(b) |-> j]
      /\ \A k \in 1 .. Len(a) : t[k] = Row(t[k - 1], k, a[k], b)
  BY RowsAre
<1> HIDE DEF t
<1>3. t[0] = [j \in 0 .. Len(b) |-> j]
  BY <1>2
<1>4. i \in 1 .. Len(a) => t[i] = Row(t[i - 1], i, a[i], b)
  BY <1>2
<1>5. t[i] \in V
  <2> HIDE DEF V
  <2> QED
    BY <1>2
<1>6. CASE i = 0
  BY <1>1, <1>3, <1>5, <1>6 DEF t
<1>7. CASE i # 0
  <2>1. i \in 1 .. Len(a) /\ i \in Nat /\ i - 1 \in 0 .. Len(a)
    BY <1>1, <1>7
  <2>2. t[i - 1] \in V
    <3> HIDE DEF V
    <3> QED
      BY <1>2, <2>1
  <2>3. Row(t[i - 1], i, a[i], b)[0] = i
    BY <2>1, <2>2, RowIs
  <2> QED
    BY <1>4, <1>5, <1>7, <2>1, <2>3 DEF t
<1> QED
  BY <1>6, <1>7

\* Each cell inside comes from three neighbours.
LEMMA TableCells ==
  ASSUME NEW a \in Seq(Letters), NEW b \in Seq(Letters),
         NEW i \in 1 .. Len(a), NEW j \in 1 .. Len(b)
  PROVE  LET t == Rows(a, b)
         IN  LeastOf(t[i][j], t[i - 1][j - 1] + Cost(a[i], b[j]),
                     t[i - 1][j] + 1, t[i][j - 1] + 1)
<1> DEFINE prev == Rows(a, b)[i - 1]
           row == Rows(a, b)[i]
           left == row[j - 1]
           c == Cost(a[i], b[j])
<1>1. /\ Len(b) \in Nat /\ i \in Nat
      /\ i - 1 \in 0 .. Len(a) /\ i \in 0 .. Len(a) /\ j - 1 \in 0 .. Len(b)
  OBVIOUS
<1>2. prev \in [0 .. Len(b) -> Nat] /\ row \in [0 .. Len(b) -> Nat]
  BY <1>1, TableRows
<1>3. row = Row(prev, i, a[i], b)
  BY RowsAre
<1> HIDE DEF prev, row
<1>4. left \in Nat
  BY <1>1, <1>2
<1>5. c \in {0, 1}
  BY DEF Cost
<1>6. row[j] = Cell(prev, left, j, c)
  BY <1>1, <1>2, <1>3, RowIs
<1> HIDE DEF left, c
<1>7. LeastOf(Cell(prev, left, j, c), prev[j - 1] + c, prev[j] + 1, left + 1)
  BY <1>1, <1>2, <1>4, <1>5, CellIs
<1> QED
  BY <1>6, <1>7 DEF prev, row, left, c

\* A row differs from the next by one at most, cell by cell.
LEMMA NextRow ==
  ASSUME NEW a \in Seq(Letters), NEW b \in Seq(Letters), NEW i \in 1 .. Len(a)
  PROVE  \A j \in 0 .. Len(b) : /\ Rows(a, b)[i][j] <= Rows(a, b)[i - 1][j] + 1
                                /\ Rows(a, b)[i - 1][j] <= Rows(a, b)[i][j] + 1
<1> DEFINE up == Rows(a, b)[i - 1]
           row == Rows(a, b)[i]
           T == {j \in 0 .. Len(b) : row[j] <= up[j] + 1 /\ up[j] <= row[j] + 1}
<1>1. Len(b) \in Nat /\ i - 1 \in 0 .. Len(a) /\ i \in 0 .. Len(a) /\ i \in Nat
  OBVIOUS
<1>2. up \in [0 .. Len(b) -> Nat] /\ up[0] = i - 1
  BY <1>1, TableRows
<1>3. row \in [0 .. Len(b) -> Nat] /\ row[0] = i
  BY <1>1, TableRows
<1>4. \A j \in 1 .. Len(b) :
        LeastOf(row[j], up[j - 1] + Cost(a[i], b[j]), up[j] + 1, row[j - 1] + 1)
  BY TableCells
<1>5. \A j \in 1 .. Len(b) : up[j] <= up[j - 1] + 1
  <2>1. CASE i - 1 = 0
    <3>1. \A j \in 0 .. Len(b) : up[j] = j
      BY <1>1, <2>1, TableRows
    <3> HIDE DEF up
    <3> QED
      BY <1>1, <3>1
  <2>2. CASE i - 1 # 0
    <3>1. i - 1 \in 1 .. Len(a)
      BY <2>2
    <3> QED
      BY <3>1, TableCells DEF LeastOf
  <2> QED
    BY <2>1, <2>2
<1> HIDE DEF up, row
<1>6. 0 \in T
  BY <1>1, <1>2, <1>3
<1>7. ASSUME NEW j \in 1 .. Len(b), j - 1 \in T
      PROVE  j \in T
  <2> DEFINE u == up[j]
             ul == up[j - 1]
             r == row[j]
             l == row[j - 1]
             c == Cost(a[i], b[j])
  <2>1. j \in 0 .. Len(b) /\ j - 1 \in 0 .. Len(b)
    BY <1>1
  <2>2. u \in Nat /\ ul \in Nat /\ r \in Nat /\ l \in Nat /\ ul <= l + 1
    BY <1>2, <1>3, <1>7, <2>1
  <2>3. LeastOf(r, ul + c, u + 1, l + 1) /\ u <= ul + 1
    BY <1>4, <1>5
  <2>4. c \in {0, 1}
    BY DEF Cost
  <2> HIDE DEF u, ul, r, l, c
  <2>5. r <= u + 1 /\ u <= r + 1
    BY <2>2, <2>3, <2>4 DEF LeastOf
  <2> QED
    BY <2>1, <2>5 DEF u, r
<1> HIDE DEF T
<1>8. 0 .. Len(b) \subseteq T
  BY <1>1, <1>6, <1>7, SetInduction
<1> QED
  BY <1>8 DEF T, up, row

\* A row is one more at most than another, if the row above is one more at most
\* and the letter is the same, or the row above is no more.
LEMMA RowBelow ==
  ASSUME NEW a \in Seq(Letters), NEW v \in Seq(Letters), NEW b \in Seq(Letters),
         NEW i \in 1 .. Len(a), NEW k \in 1 .. Len(v), i <= k + 1,
         \/ /\ a[i] = v[k]
            /\ \A j \in 0 .. Len(b) : Rows(a, b)[i - 1][j] <= Rows(v, b)[k - 1][j] + 1
         \/ \A j \in 0 .. Len(b) : Rows(a, b)[i - 1][j] <= Rows(v, b)[k - 1][j]
  PROVE  \A j \in 0 .. Len(b) : Rows(a, b)[i][j] <= Rows(v, b)[k][j] + 1
<1> DEFINE p == Rows(a, b)[i - 1]
           q == Rows(v, b)[k - 1]
           row == Rows(a, b)[i]
           other == Rows(v, b)[k]
           T == {j \in 0 .. Len(b) : row[j] <= other[j] + 1}
<1>1. /\ Len(b) \in Nat /\ i \in Nat /\ k \in Nat
      /\ i - 1 \in 0 .. Len(a) /\ i \in 0 .. Len(a)
      /\ k - 1 \in 0 .. Len(v) /\ k \in 0 .. Len(v)
  OBVIOUS
<1>2. /\ p \in [0 .. Len(b) -> Nat] /\ row \in [0 .. Len(b) -> Nat] /\ row[0] = i
      /\ q \in [0 .. Len(b) -> Nat] /\ other \in [0 .. Len(b) -> Nat] /\ other[0] = k
  <2>1. p \in [0 .. Len(b) -> Nat]
    BY <1>1, TableRows
  <2>2. row \in [0 .. Len(b) -> Nat] /\ row[0] = i
    BY <1>1, TableRows
  <2>3. q \in [0 .. Len(b) -> Nat]
    BY <1>1, TableRows
  <2>4. other \in [0 .. Len(b) -> Nat] /\ other[0] = k
    BY <1>1, TableRows
  <2> HIDE DEF p, q, row, other
  <2> QED
    BY <2>1, <2>2, <2>3, <2>4
<1>4. \A j \in 1 .. Len(b) :
        LeastOf(row[j], p[j - 1] + Cost(a[i], b[j]), p[j] + 1, row[j - 1] + 1)
  BY TableCells
<1>5. \A j \in 1 .. Len(b) :
        LeastOf(other[j], q[j - 1] + Cost(v[k], b[j]), q[j] + 1, other[j - 1] + 1)
  BY TableCells
<1>6. \/ a[i] = v[k] /\ \A j \in 0 .. Len(b) : p[j] <= q[j] + 1
      \/ \A j \in 0 .. Len(b) : p[j] <= q[j]
  OBVIOUS
<1> HIDE DEF p, q, row, other
<1>7. 0 \in T
  BY <1>1, <1>2
<1>8. ASSUME NEW j \in 1 .. Len(b), j - 1 \in T
      PROVE  j \in T
  <2> DEFINE p1 == p[j]
             p0 == p[j - 1]
             r1 == row[j]
             r0 == row[j - 1]
             q1 == q[j]
             q0 == q[j - 1]
             o1 == other[j]
             o0 == other[j - 1]
             c == Cost(a[i], b[j])
             d == Cost(v[k], b[j])
  <2>1. j \in 0 .. Len(b) /\ j - 1 \in 0 .. Len(b)
    BY <1>1
  <2>2. /\ p1 \in Nat /\ p0 \in Nat /\ r1 \in Nat /\ r0 \in Nat
        /\ q1 \in Nat /\ q0 \in Nat /\ o1 \in Nat /\ o0 \in Nat
    BY <1>2, <2>1
  <2>3. r0 <= o0 + 1
    BY <1>8
  <2>4. c \in {0, 1} /\ d \in {0, 1}
    BY DEF Cost
  <2>5. LeastOf(r1, p0 + c, p1 + 1, r0 + 1) /\ LeastOf(o1, q0 + d, q1 + 1, o0 + 1)
    BY <1>4, <1>5
  <2>6. (c = d /\ p1 <= q1 + 1 /\ p0 <= q0 + 1) \/ (p1 <= q1 /\ p0 <= q0)
    BY <1>6, <2>1 DEF Cost
  <2> HIDE DEF p1, p0, r1, r0, q1, q0, o1, o0, c, d
  <2>7. r1 <= o1 + 1
    BY <2>2, <2>3, <2>4, <2>5, <2>6 DEF LeastOf
  <2> QED
    BY <2>1, <2>7 DEF r1, o1
<1> HIDE DEF T
<1>9. 0 .. Len(b) \subseteq T
  BY <1>1, <1>7, <1>8, SetInduction
<1> QED
  BY <1>9 DEF T, row, other

\* The rows of two words are the same as long as their letters are.
LEMMA SameRows ==
  ASSUME NEW a \in Seq(Letters), NEW v \in Seq(Letters), NEW b \in Seq(Letters),
         NEW k \in Nat, k <= Len(a), k <= Len(v), \A i \in 1 .. k : a[i] = v[i]
  PROVE  \A i \in 0 .. k : Rows(a, b)[i] = Rows(v, b)[i]
<1> DEFINE t == Rows(a, b)
           u == Rows(v, b)
           T == {i \in 0 .. k : t[i] = u[i]}
<1>9. 1 .. k \subseteq 1 .. Len(a) /\ 1 .. k \subseteq 1 .. Len(v)
  OBVIOUS
<1>1. t[0] = [j \in 0 .. Len(b) |-> j] /\ u[0] = [j \in 0 .. Len(b) |-> j]
  BY RowsAre
<1>2. \A i \in 1 .. Len(a) : t[i] = Row(t[i - 1], i, a[i], b)
  BY RowsAre
<1>3. \A i \in 1 .. Len(v) : u[i] = Row(u[i - 1], i, v[i], b)
  BY RowsAre
<1> HIDE DEF t, u
<1>4. 0 \in T
  BY <1>1
<1>5. ASSUME NEW i \in 1 .. k, i - 1 \in T
      PROVE  i \in T
  <2>1. t[i - 1] = u[i - 1] /\ a[i] = v[i]
    BY <1>5
  <2>2. t[i] = u[i]
    BY <1>2, <1>3, <1>9, <2>1
  <2> QED
    BY <2>2
<1> HIDE DEF T
<1>6. 0 .. k \subseteq T
  BY <1>4, <1>5, SetInduction
<1> QED
  BY <1>6 DEF T, t, u

\* From row s of a, that is one more at most than row r of v, the rest of the two
\* words is the same: so is the end.
LEMMA Onward ==
  ASSUME NEW a \in Seq(Letters), NEW v \in Seq(Letters), NEW b \in Seq(Letters),
         NEW s \in 0 .. Len(a), NEW r \in 0 .. Len(v),
         Len(a) - s = Len(v) - r, s <= r + 1,
         \A m \in 1 .. Len(a) - s : a[s + m] = v[r + m],
         \A j \in 0 .. Len(b) : Rows(a, b)[s][j] <= Rows(v, b)[r][j] + 1
  PROVE  EditDistance(a, b) <= EditDistance(v, b) + 1
<1> DEFINE Below(m) == \A j \in 0 .. Len(b) :
                         Rows(a, b)[s + m][j] <= Rows(v, b)[r + m][j] + 1
           n == Len(a) - s
           T == {m \in 0 .. n : Below(m)}
<1>1. n \in Nat /\ s + n = Len(a) /\ r + n = Len(v) /\ Len(b) \in Nat
  OBVIOUS
<1>2. 0 \in T
  BY <1>1
<1>3. ASSUME NEW m \in 1 .. n, m - 1 \in T
      PROVE  m \in T
  <2> DEFINE i == s + m
             k == r + m
  <2>1. /\ i \in 1 .. Len(a) /\ k \in 1 .. Len(v) /\ i <= k + 1 /\ a[i] = v[k]
        /\ s + (m - 1) = i - 1 /\ r + (m - 1) = k - 1
    <3>1. Len(a) \in Nat /\ Len(v) \in Nat
      OBVIOUS
    <3>2. a[i] = v[k]
      OBVIOUS
    <3>3. i \in 1 .. Len(a) /\ k \in 1 .. Len(v)
      BY <3>1
    <3> QED
      BY <3>2, <3>3
  <2>2. \A j \in 0 .. Len(b) : Rows(a, b)[i - 1][j] <= Rows(v, b)[k - 1][j] + 1
    BY <1>3, <2>1
  <2> HIDE DEF i, k
  <2>3. \A j \in 0 .. Len(b) : Rows(a, b)[i][j] <= Rows(v, b)[k][j] + 1
    BY <2>1, <2>2, RowBelow
  <2>4. Below(m)
    BY <2>3 DEF i, k
  <2> QED
    BY <1>1, <2>4
<1> HIDE DEF T
<1>4. 0 .. n \subseteq T
  BY <1>1, <1>2, <1>3, SetInduction
<1>5. n \in T
  BY <1>1, <1>4
<1>6. Rows(a, b)[Len(a)][Len(b)] <= Rows(v, b)[Len(v)][Len(b)] + 1
  <2>1. Len(b) \in 0 .. Len(b)
    BY <1>1
  <2>2. Rows(a, b)[s + n][Len(b)] <= Rows(v, b)[r + n][Len(b)] + 1
    <3> HIDE DEF n
    <3> QED
      BY <1>5, <2>1 DEF T
  <2> HIDE DEF n
  <2> QED
    BY <1>1, <2>2
<1> QED
  BY <1>6, RowsAre

-----------------------------------------------------------------------------
\* v is w without its k-th letter, or with another one there.
Dropped(w, v, k) ==
  /\ k \in 1 .. Len(w) /\ Len(v) + 1 = Len(w)
  /\ \A i \in 1 .. Len(v) : v[i] = IF i < k THEN w[i] ELSE w[i + 1]
Changed(w, v, k) ==
  /\ k \in 1 .. Len(w) /\ Len(v) = Len(w)
  /\ \A i \in 1 .. Len(w) : i # k => v[i] = w[i]

\* One edit brings a word closer by one at most.
LEMMA EditNears ==
  ASSUME NEW a \in Seq(Letters), NEW v \in Seq(Letters), NEW b \in Seq(Letters),
         NEW k \in Nat, Dropped(a, v, k) \/ Changed(a, v, k) \/ Dropped(v, a, k)
  PROVE  EditDistance(a, b) <= EditDistance(v, b) + 1
<1>1. Len(a) \in Nat /\ Len(v) \in Nat /\ Len(b) \in Nat
  OBVIOUS
<1>2. CASE Dropped(a, v, k)
  <2>1. /\ k \in 1 .. Len(a) /\ k - 1 \in Nat /\ k - 1 <= Len(a) /\ k - 1 <= Len(v)
        /\ k - 1 \in 0 .. k - 1 /\ k - 1 \in 0 .. Len(v) /\ k \in 0 .. Len(a)
        /\ Len(a) - k = Len(v) - (k - 1) /\ k <= k - 1 + 1
        /\ k - 1 \in 0 .. Len(a)
    <3>1. ASSUME NEW l \in Nat, NEW m \in Nat, k \in 1 .. l, m + 1 = l
          PROVE  /\ k - 1 \in Nat /\ k - 1 <= l /\ k - 1 <= m
                 /\ k - 1 \in 0 .. k - 1 /\ k - 1 \in 0 .. m /\ k \in 0 .. l
                 /\ l - k = m - (k - 1) /\ k <= k - 1 + 1 /\ k - 1 \in 0 .. l
      BY <3>1
    <3>2. k \in 1 .. Len(a) /\ Len(v) + 1 = Len(a)
      BY <1>2 DEF Dropped
    <3> QED
      BY <1>1, <3>1, <3>2
  <2>2. \A i \in 1 .. k - 1 : a[i] = v[i]
    BY <1>1, <1>2, <2>1 DEF Dropped
  <2>3. Rows(a, b)[k - 1] = Rows(v, b)[k - 1]
    <3> DEFINE h == k - 1
    <3>1. h \in Nat /\ h <= Len(a) /\ h <= Len(v) /\ h \in 0 .. h
          /\ \A i \in 1 .. h : a[i] = v[i]
      BY <2>1, <2>2
    <3> HIDE DEF h
    <3>2. \A i \in 0 .. h : Rows(a, b)[i] = Rows(v, b)[i]
      BY <3>1, SameRows
    <3> QED
      BY <3>1, <3>2 DEF h
  <2>4. \A j \in 0 .. Len(b) : Rows(a, b)[k][j] <= Rows(v, b)[k - 1][j] + 1
    BY <2>1, <2>3, NextRow
  <2>5. \A m \in 1 .. Len(a) - k : a[k + m] = v[k - 1 + m]
    <3> SUFFICES ASSUME NEW m \in 1 .. Len(a) - k
                 PROVE  a[k + m] = v[k - 1 + m]
      OBVIOUS
    <3> DEFINE i == k - 1 + m
    <3>1. i \in 1 .. Len(v) /\ ~ (i < k) /\ k + m = i + 1
      BY <1>1, <2>1
    <3> HIDE DEF i
    <3>2. v[i] = a[i + 1]
      BY <1>2, <3>1 DEF Dropped
    <3> QED
      BY <3>1, <3>2 DEF i
  <2> DEFINE r == k - 1
  <2> HIDE DEF r
  <2>6. /\ k \in 0 .. Len(a) /\ r \in 0 .. Len(v) /\ Len(a) - k = Len(v) - r /\ k <= r + 1
        /\ \A m \in 1 .. Len(a) - k : a[k + m] = v[r + m]
        /\ \A j \in 0 .. Len(b) : Rows(a, b)[k][j] <= Rows(v, b)[r][j] + 1
    BY <2>1, <2>4, <2>5 DEF r
  <2> QED
    BY <2>6, Onward
<1>3. CASE Changed(a, v, k)
  <2>1. /\ k \in 1 .. Len(a) /\ k \in 1 .. Len(v) /\ k - 1 \in Nat /\ k - 1 <= Len(a)
        /\ k - 1 <= Len(v) /\ k - 1 \in 0 .. k - 1 /\ k \in 0 .. Len(v)
        /\ k \in 0 .. Len(a) /\ Len(a) - k = Len(v) - k /\ k <= k + 1
        /\ k - 1 \in 0 .. Len(a)
    BY <1>1, <1>3 DEF Changed
  <2>2. \A i \in 1 .. k - 1 : a[i] = v[i]
    BY <1>1, <1>3, <2>1 DEF Changed
  <2>3. Rows(a, b)[k - 1] = Rows(v, b)[k - 1]
    BY <2>1, <2>2, SameRows
  <2>4. \A j \in 0 .. Len(b) : Rows(a, b)[k - 1][j] <= Rows(v, b)[k - 1][j]
    <3>1. Rows(v, b)[k - 1] \in [0 .. Len(b) -> Nat]
      BY <2>1, TableRows
    <3> DEFINE row == Rows(v, b)[k - 1]
    <3>2. Rows(a, b)[k - 1] = row
      BY <2>3
    <3> HIDE DEF row
    <3>3. \A j \in 0 .. Len(b) : row[j] \in Nat
      BY <3>1 DEF row
    <3>4. \A j \in 0 .. Len(b) : row[j] <= row[j]
      BY <3>3
    <3> QED
      BY <3>2, <3>4 DEF row
  <2>5. \A j \in 0 .. Len(b) : Rows(a, b)[k][j] <= Rows(v, b)[k][j] + 1
    BY <2>1, <2>4, RowBelow
  <2>6. \A m \in 1 .. Len(a) - k : a[k + m] = v[k + m]
    <3> SUFFICES ASSUME NEW m \in 1 .. Len(a) - k
                 PROVE  a[k + m] = v[k + m]
      OBVIOUS
    <3>1. k + m \in 1 .. Len(a) /\ k + m # k
      BY <1>1, <2>1
    <3> QED
      BY <1>3, <3>1 DEF Changed
  <2> QED
    BY <2>1, <2>5, <2>6, Onward
<1>4. CASE Dropped(v, a, k)
  <2> DEFINE s == k - 1
  <2>1. /\ k \in 1 .. Len(v) /\ s \in Nat /\ s <= Len(a) /\ s <= Len(v)
        /\ s \in 0 .. s /\ k \in 0 .. Len(v) /\ s \in 0 .. Len(a)
        /\ Len(a) - s = Len(v) - k /\ s <= k + 1 /\ s = k - 1
    BY <1>1, <1>4 DEF Dropped
  <2>2. \A i \in 1 .. s : a[i] = v[i]
    BY <1>1, <1>4, <2>1 DEF Dropped
  <2> HIDE DEF s
  <2>3. Rows(a, b)[s] = Rows(v, b)[s]
    <3>1. s \in Nat /\ s <= Len(a) /\ s <= Len(v) /\ s \in 0 .. s
      BY <2>1
    <3>2. \A i \in 0 .. s : Rows(a, b)[i] = Rows(v, b)[i]
      BY <3>1, <2>2, SameRows
    <3> QED
      BY <3>1, <3>2
  <2>4. \A j \in 0 .. Len(b) : Rows(a, b)[s][j] <= Rows(v, b)[k][j] + 1
    <3>1. \A j \in 0 .. Len(b) : Rows(v, b)[k - 1][j] <= Rows(v, b)[k][j] + 1
      BY <2>1, NextRow
    <3> QED
      BY <2>1, <2>3, <3>1
  <2>5. \A m \in 1 .. Len(a) - s : a[s + m] = v[k + m]
    <3> SUFFICES ASSUME NEW m \in 1 .. Len(a) - s
                 PROVE  a[s + m] = v[k + m]
      OBVIOUS
    <3> DEFINE i == s + m
    <3>1. i \in 1 .. Len(a) /\ ~ (i < k) /\ k + m = i + 1
      BY <1>1, <2>1
    <3> HIDE DEF i
    <3>2. a[i] = v[i + 1]
      BY <1>4, <3>1 DEF Dropped
    <3> QED
      BY <3>1, <3>2 DEF i
  <2> QED
    BY <2>1, <2>4, <2>5, Onward
<1> QED
  BY <1>2, <1>3, <1>4

\* A word is no distance from itself.
LEMMA SelfNear ==
  ASSUME NEW a \in Seq(Letters)
  PROVE  EditDistance(a, a) = 0
<1> DEFINE t == Rows(a, a)
           T == {i \in 0 .. Len(a) : t[i][i] = 0}
<1>1. Len(a) \in Nat
  OBVIOUS
<1>2. 0 \in T
  BY <1>1, TableRows
<1>3. ASSUME NEW i \in 1 .. Len(a), i - 1 \in T
      PROVE  i \in T
  <2> DEFINE x == t[i][i]
             y == t[i - 1][i - 1]
             c == Cost(a[i], a[i])
             u == t[i - 1][i] + 1
             l == t[i][i - 1] + 1
  <2>1. i \in 0 .. Len(a) /\ y = 0 /\ c = 0
    BY <1>1, <1>3 DEF Cost
  <2>2. x \in Nat
    <3>1. t[i] \in [0 .. Len(a) -> Nat]
      BY <2>1, TableRows
    <3> HIDE DEF t
    <3> QED
      BY <2>1, <3>1
  <2>3. LeastOf(x, y + c, u, l)
    BY TableCells
  <2> HIDE DEF x, y, c, u, l
  <2>4. x = 0
    BY <2>1, <2>2, <2>3 DEF LeastOf
  <2> QED
    BY <2>1, <2>4 DEF x
<1> HIDE DEF T
<1>4. 0 .. Len(a) \subseteq T
  BY <1>1, <1>2, <1>3, SetInduction
<1>5. Len(a) \in T
  BY <1>1, <1>4
<1> QED
  BY <1>5, RowsAre DEF T

\* The first k letters of a word, and the others.
LEMMA Pieces ==
  ASSUME NEW w \in Seq(Letters), NEW k \in 0 .. Len(w)
  PROVE  /\ SubSeq(w, 1, k) \in Seq(Letters) /\ Len(SubSeq(w, 1, k)) = k
         /\ \A i \in 1 .. k : SubSeq(w, 1, k)[i] = w[i]
         /\ SubSeq(w, k + 1, Len(w)) \in Seq(Letters)
         /\ Len(SubSeq(w, k + 1, Len(w))) = Len(w) - k
         /\ \A i \in 1 .. Len(w) - k : SubSeq(w, k + 1, Len(w))[i] = w[k + i]
<1>1. Len(w) \in Nat /\ k \in Nat /\ k <= Len(w)
  OBVIOUS
<1>2. \A i \in 1 .. Len(w) : w[i] \in Letters
  BY ElementOfSeq
<1>3. /\ SubSeq(w, 1, k) \in Seq(Letters) /\ Len(SubSeq(w, 1, k)) = k
      /\ \A i \in 1 .. k : SubSeq(w, 1, k)[i] = w[i]
  <2>1. \A i \in 1 .. k : w[i] \in Letters
    BY <1>1, <1>2
  <2>2. /\ SubSeq(w, 1, k) \in Seq(Letters)
        /\ Len(SubSeq(w, 1, k)) = IF 1 <= k THEN k - 1 + 1 ELSE 0
        /\ \A i \in 1 .. k - 1 + 1 : SubSeq(w, 1, k)[i] = w[1 + i - 1]
    BY <1>1, <2>1, SubSeqProperties
  <2> QED
    BY <1>1, <2>2
<1>4. /\ SubSeq(w, k + 1, Len(w)) \in Seq(Letters)
      /\ Len(SubSeq(w, k + 1, Len(w))) = Len(w) - k
      /\ \A i \in 1 .. Len(w) - k : SubSeq(w, k + 1, Len(w))[i] = w[k + i]
  <2> DEFINE m == k + 1
             n == Len(w)
  <2>1. \A i \in m .. n : w[i] \in Letters
    BY <1>1, <1>2
  <2>2. m \in Int /\ n \in Int
    BY <1>1
  <2> HIDE DEF m, n
  <2>3. /\ SubSeq(w, m, n) \in Seq(Letters)
        /\ Len(SubSeq(w, m, n)) = IF m <= n THEN n - m + 1 ELSE 0
        /\ \A i \in 1 .. n - m + 1 : SubSeq(w, m, n)[i] = w[m + i - 1]
    BY <2>1, <2>2, SubSeqProperties
  <2>4. Len(SubSeq(w, m, n)) = n - k
    BY <1>1, <2>3 DEF m, n
  <2>5. ASSUME NEW i \in 1 .. n - k PROVE SubSeq(w, m, n)[i] = w[k + i]
    <3>1. i \in 1 .. n - m + 1 /\ m + i - 1 = k + i
      BY <1>1 DEF m, n
    <3> QED
      BY <2>3, <3>1
  <2> QED
    BY <2>3, <2>4, <2>5 DEF m, n
<1> QED
  BY <1>3, <1>4

\* A word of two pieces, and one of two pieces and a letter between them.
LEMMA Joined ==
  ASSUME NEW p \in Seq(Letters), NEW q \in Seq(Letters), NEW l \in Letters
  PROVE  /\ p \o q \in Seq(Letters) /\ Len(p \o q) = Len(p) + Len(q)
         /\ \A i \in 1 .. Len(p) + Len(q) :
              (p \o q)[i] = IF i <= Len(p) THEN p[i] ELSE q[i - Len(p)]
         /\ p \o <<l>> \o q \in Seq(Letters)
         /\ Len(p \o <<l>> \o q) = Len(p) + Len(q) + 1
         /\ \A i \in 1 .. Len(p) + Len(q) + 1 :
              (p \o <<l>> \o q)[i] = IF i <= Len(p) THEN p[i]
                                     ELSE IF i = Len(p) + 1 THEN l
                                     ELSE q[i - (Len(p) + 1)]
<1> DEFINE one == <<l>>
           pl == p \o one
<1>1. one \in Seq(Letters) /\ Len(one) = 1 /\ one[1] = l
  OBVIOUS
<1>2. Len(p) \in Nat /\ Len(q) \in Nat
  OBVIOUS
<1> HIDE DEF one
<1>3. /\ pl \in Seq(Letters) /\ Len(pl) = Len(p) + 1
      /\ \A i \in 1 .. Len(p) + 1 : pl[i] = IF i <= Len(p) THEN p[i] ELSE one[i - Len(p)]
  BY <1>1, ConcatProperties
<1>4. \A i \in 1 .. Len(p) + 1 : pl[i] = IF i <= Len(p) THEN p[i] ELSE l
  <2> SUFFICES ASSUME NEW i \in 1 .. Len(p) + 1, ~ (i <= Len(p))
               PROVE  pl[i] = l
    BY <1>3
  <2>1. i - Len(p) = 1
    BY <1>2
  <2> QED
    BY <1>1, <1>3, <2>1
<1> HIDE DEF pl
<1>5. /\ pl \o q \in Seq(Letters) /\ Len(pl \o q) = Len(p) + 1 + Len(q)
      /\ \A i \in 1 .. Len(p) + 1 + Len(q) :
           (pl \o q)[i] = IF i <= Len(p) + 1 THEN pl[i] ELSE q[i - (Len(p) + 1)]
  <2>1. /\ pl \o q \in Seq(Letters) /\ Len(pl \o q) = Len(pl) + Len(q)
        /\ \A i \in 1 .. Len(pl) + Len(q) :
             (pl \o q)[i] = IF i <= Len(pl) THEN pl[i] ELSE q[i - Len(pl)]
    <3>1. pl \in Seq(Letters)
      BY <1>3
    <3> QED
      BY <3>1, ConcatProperties
  <2>2. Len(pl) = Len(p) + 1
    BY <1>3
  <2> QED
    BY <2>1, <2>2
<1>6. \A i \in 1 .. Len(p) + Len(q) + 1 :
        (pl \o q)[i] = IF i <= Len(p) THEN p[i]
                       ELSE IF i = Len(p) + 1 THEN l ELSE q[i - (Len(p) + 1)]
  <2> SUFFICES ASSUME NEW i \in 1 .. Len(p) + Len(q) + 1
               PROVE  (pl \o q)[i] = IF i <= Len(p) THEN p[i]
                                     ELSE IF i = Len(p) + 1 THEN l
                                     ELSE q[i - (Len(p) + 1)]
    OBVIOUS
  <2>1. (pl \o q)[i] = IF i <= Len(p) + 1 THEN pl[i] ELSE q[i - (Len(p) + 1)]
    BY <1>2, <1>5
  <2>2. CASE i <= Len(p) + 1
    <3>1. pl[i] = IF i <= Len(p) THEN p[i] ELSE l
      BY <1>2, <1>4, <2>2
    <3> QED
      BY <1>2, <2>1, <2>2, <3>1
  <2>3. CASE ~ (i <= Len(p) + 1)
    <3>1. ~ (i <= Len(p)) /\ i # Len(p) + 1
      BY <1>2, <2>3
    <3> QED
      BY <2>1, <2>3, <3>1
  <2> QED
    BY <2>2, <2>3
<1>7. /\ p \o q \in Seq(Letters) /\ Len(p \o q) = Len(p) + Len(q)
      /\ \A i \in 1 .. Len(p) + Len(q) :
           (p \o q)[i] = IF i <= Len(p) THEN p[i] ELSE q[i - Len(p)]
  BY ConcatProperties
<1>8. Len(pl \o q) = Len(p) + Len(q) + 1
  BY <1>2, <1>5
<1> QED
  BY <1>5, <1>6, <1>7, <1>8 DEF pl, one

\* The words one edit away are those without a letter of the word, with another
\* letter for one, or with one letter more.
LEMMA EditedIs ==
  ASSUME NEW w \in Seq(Letters), NEW v
  PROVE  v \in Edited(w) <=>
           /\ v \in Seq(Letters)
           /\ \E k \in Nat : Dropped(w, v, k) \/ Changed(w, v, k) \/ Dropped(v, w, k)
<1> DEFINE before(k) == SubSeq(w, 1, k)
           after(k) == SubSeq(w, k + 1, Len(w))
           OneLess(k) == before(k - 1) \o after(k)
           Other(k, l) == before(k - 1) \o <<l>> \o after(k)
           OneMore(k, l) == before(k) \o <<l>> \o after(k)
<1>1. v \in Edited(w) <=>
        \/ \E k \in 1 .. Len(w) : v = OneLess(k)
        \/ \E k \in 1 .. Len(w), l \in Letters : v = Other(k, l)
        \/ \E k \in 0 .. Len(w), l \in Letters : v = OneMore(k, l)
  <2>1. Edited(w) = {OneLess(k) : k \in 1 .. Len(w)}
                      \cup {Other(k, l) : k \in 1 .. Len(w), l \in Letters}
                      \cup {OneMore(k, l) : k \in 0 .. Len(w), l \in Letters}
    BY DEF Edited
  <2> HIDE DEF OneLess, Other, OneMore
  <2> QED
    BY <2>1
<1>2. Len(w) \in Nat
  OBVIOUS
<1>3. ASSUME NEW k \in 1 .. Len(w)
      PROVE  OneLess(k) \in Seq(Letters) /\ Dropped(w, OneLess(k), k)
  <2> DEFINE p == before(k - 1)
             q == after(k)
  <2>1. k - 1 \in 0 .. Len(w) /\ k \in 0 .. Len(w)
    BY <1>2
  <2>2. p \in Seq(Letters) /\ Len(p) = k - 1 /\ \A i \in 1 .. k - 1 : p[i] = w[i]
    BY <2>1, Pieces
  <2>3. /\ q \in Seq(Letters) /\ Len(q) = Len(w) - k
        /\ \A i \in 1 .. Len(w) - k : q[i] = w[k + i]
    BY <2>1, Pieces
  <2> HIDE DEF p, q
  <2> DEFINE u == p \o q
  <2>4. /\ u \in Seq(Letters) /\ Len(u) = Len(p) + Len(q)
        /\ \A i \in 1 .. Len(p) + Len(q) :
             u[i] = IF i <= Len(p) THEN p[i] ELSE q[i - Len(p)]
    BY <2>2, <2>3, ConcatProperties
  <2> HIDE DEF u
  <2>8. Len(u) = k - 1 + (Len(w) - k)
    BY <2>2, <2>3, <2>4
  <2>5. u \in Seq(Letters) /\ Len(u) + 1 = Len(w)
    BY <1>2, <2>4, <2>8
  <2>6. ASSUME NEW i \in 1 .. Len(u)
        PROVE  u[i] = IF i < k THEN w[i] ELSE w[i + 1]
    <3>1. i \in 1 .. Len(p) + Len(q)
      BY <2>4
    <3>2. u[i] = IF i <= Len(p) THEN p[i] ELSE q[i - Len(p)]
      BY <2>4, <3>1
    <3>3. CASE i < k
      <4>1. i <= Len(p) /\ i \in 1 .. k - 1
        BY <1>2, <2>2, <3>3
      <4> QED
        BY <2>2, <3>2, <3>3, <4>1
    <3>4. CASE ~ (i < k)
      <4> DEFINE m == i - Len(p)
      <4>1. ~ (i <= Len(p)) /\ m \in 1 .. Len(w) - k /\ k + m = i + 1
        BY <1>2, <2>2, <2>5, <3>4
      <4> HIDE DEF m
      <4>2. q[m] = w[k + m]
        BY <2>3, <4>1
      <4> QED
        BY <3>2, <3>4, <4>1, <4>2 DEF m
    <3> QED
      BY <3>3, <3>4
  <2>7. Dropped(w, u, k)
    BY <2>5, <2>6 DEF Dropped
  <2> QED
    BY <2>5, <2>7 DEF u, p, q
<1>4. ASSUME NEW k \in 1 .. Len(w), NEW l \in Letters
      PROVE  /\ Other(k, l) \in Seq(Letters) /\ Changed(w, Other(k, l), k)
             /\ Other(k, l)[k] = l
  <2> DEFINE p == before(k - 1)
             q == after(k)
  <2>1. k - 1 \in 0 .. Len(w) /\ k \in 0 .. Len(w)
    BY <1>2
  <2>2. p \in Seq(Letters) /\ Len(p) = k - 1 /\ \A i \in 1 .. k - 1 : p[i] = w[i]
    BY <2>1, Pieces
  <2>3. /\ q \in Seq(Letters) /\ Len(q) = Len(w) - k
        /\ \A i \in 1 .. Len(w) - k : q[i] = w[k + i]
    BY <2>1, Pieces
  <2> HIDE DEF p, q
  <2> DEFINE u == p \o <<l>> \o q
  <2>4. /\ u \in Seq(Letters) /\ Len(u) = Len(p) + Len(q) + 1
        /\ \A i \in 1 .. Len(p) + Len(q) + 1 :
             u[i] = IF i <= Len(p) THEN p[i]
                    ELSE IF i = Len(p) + 1 THEN l ELSE q[i - (Len(p) + 1)]
    <3>1. p \in Seq(Letters) /\ q \in Seq(Letters)
      BY <2>2, <2>3
    <3> QED
      BY <3>1, Joined
  <2> HIDE DEF u
  <2>5. u \in Seq(Letters) /\ Len(u) = Len(w) /\ k \in 1 .. Len(u)
    <3>1. Len(w) \in Nat /\ Len(u) = k - 1 + (Len(w) - k) + 1
      BY <1>2, <2>2, <2>3, <2>4
    <3>2. Len(u) = Len(w)
      BY <3>1
    <3> QED
      BY <2>4, <3>2
  <2>6. ASSUME NEW i \in 1 .. Len(u)
        PROVE  (i = k => u[i] = l) /\ (i # k => u[i] = w[i])
    <3>1. i \in 1 .. Len(p) + Len(q) + 1
      BY <2>4
    <3>2. u[i] = IF i <= Len(p) THEN p[i]
                 ELSE IF i = Len(p) + 1 THEN l ELSE q[i - (Len(p) + 1)]
      BY <2>4, <3>1
    <3>3. CASE i < k
      <4>1. i <= Len(p) /\ i \in 1 .. k - 1 /\ i # k
        BY <1>2, <2>2, <3>3
      <4> QED
        BY <2>2, <3>2, <4>1
    <3>4. CASE i = k
      <4>1. ~ (i <= Len(p)) /\ i = Len(p) + 1
        BY <1>2, <2>2, <3>4
      <4> QED
        BY <3>2, <3>4, <4>1
    <3>5. CASE i > k
      <4> DEFINE m == i - (Len(p) + 1)
      <4>1. /\ ~ (i <= Len(p)) /\ i # Len(p) + 1 /\ i # k
            /\ m \in 1 .. Len(w) - k /\ k + m = i
        BY <1>2, <2>2, <2>5, <3>5
      <4> HIDE DEF m
      <4>2. q[m] = w[k + m]
        BY <2>3, <4>1
      <4> QED
        BY <3>2, <4>1, <4>2 DEF m
    <3> QED
      BY <1>2, <2>5, <3>3, <3>4, <3>5
  <2>7. Changed(w, u, k) /\ u[k] = l
    BY <2>5, <2>6 DEF Changed
  <2> QED
    BY <2>5, <2>7 DEF u, p, q
<1>5. ASSUME NEW k \in 0 .. Len(w), NEW l \in Letters
      PROVE  /\ OneMore(k, l) \in Seq(Letters) /\ Dropped(OneMore(k, l), w, k + 1)
             /\ OneMore(k, l)[k + 1] = l
  <2> DEFINE p == before(k)
             q == after(k)
  <2>2. p \in Seq(Letters) /\ Len(p) = k /\ \A i \in 1 .. k : p[i] = w[i]
    BY Pieces
  <2>3. /\ q \in Seq(Letters) /\ Len(q) = Len(w) - k
        /\ \A i \in 1 .. Len(w) - k : q[i] = w[k + i]
    BY Pieces
  <2> HIDE DEF p, q
  <2> DEFINE u == p \o <<l>> \o q
  <2>4. /\ u \in Seq(Letters) /\ Len(u) = Len(p) + Len(q) + 1
        /\ \A i \in 1 .. Len(p) + Len(q) + 1 :
             u[i] = IF i <= Len(p) THEN p[i]
                    ELSE IF i = Len(p) + 1 THEN l ELSE q[i - (Len(p) + 1)]
    <3>1. p \in Seq(Letters) /\ q \in Seq(Letters)
      BY <2>2, <2>3
    <3> QED
      BY <3>1, Joined
  <2> HIDE DEF u
  <2>5. /\ u \in Seq(Letters) /\ Len(w) + 1 = Len(u) /\ k + 1 \in 1 .. Len(u)
        /\ Len(p) + Len(q) + 1 = Len(u) /\ k \in Nat /\ Len(u) \in Nat
    BY <1>2, <2>2, <2>3, <2>4
  <2>6. u[k + 1] = l
    <3> DEFINE i == k + 1
    <3>1. i \in 1 .. Len(p) + Len(q) + 1 /\ ~ (i <= Len(p)) /\ i = Len(p) + 1
      BY <2>2, <2>5
    <3> HIDE DEF i
    <3>2. u[i] = l
      BY <2>4, <3>1
    <3> QED
      BY <3>2 DEF i
  <2>7. ASSUME NEW i \in 1 .. Len(w)
        PROVE  w[i] = IF i < k + 1 THEN u[i] ELSE u[i + 1]
    <3>1. CASE i < k + 1
      <4>1. i <= Len(p) /\ i \in 1 .. k /\ i \in 1 .. Len(p) + Len(q) + 1
        BY <1>2, <2>2, <2>5, <3>1
      <4>2. u[i] = p[i]
        BY <2>4, <4>1
      <4> QED
        BY <2>2, <3>1, <4>1, <4>2
    <3>2. CASE ~ (i < k + 1)
      <4> DEFINE n == i + 1
                 m == n - (Len(p) + 1)
      <4>1. /\ ~ (n <= Len(p)) /\ n # Len(p) + 1 /\ n \in 1 .. Len(p) + Len(q) + 1
            /\ m \in 1 .. Len(w) - k /\ k + m = i
        BY <1>2, <2>2, <2>5, <3>2
      <4> HIDE DEF n, m
      <4>2. u[n] = q[m]
        BY <2>4, <4>1 DEF m
      <4>3. q[m] = w[k + m]
        BY <2>3, <4>1
      <4> QED
        BY <3>2, <4>1, <4>2, <4>3 DEF n
    <3> QED
      BY <3>1, <3>2
  <2>8. Dropped(u, w, k + 1)
    BY <2>5, <2>7 DEF Dropped
  <2> QED
    BY <2>5, <2>6, <2>8 DEF u, p, q
<1> HIDE DEF OneLess, Other, OneMore
<1>6. ASSUME v \in Edited(w)
      PROVE  /\ v \in Seq(Letters)
             /\ \E k \in Nat : Dropped(w, v, k) \/ Changed(w, v, k) \/ Dropped(v, w, k)
  <2>1. CASE \E k \in 1 .. Len(w) : v = OneLess(k)
    BY <1>3, <2>1
  <2>2. CASE \E k \in 1 .. Len(w), l \in Letters : v = Other(k, l)
    BY <1>4, <2>2
  <2>3. CASE \E k \in 0 .. Len(w), l \in Letters : v = OneMore(k, l)
    <3>1. PICK k \in 0 .. Len(w), l \in Letters : v = OneMore(k, l)
      BY <2>3
    <3>2. k + 1 \in Nat /\ v \in Seq(Letters) /\ Dropped(v, w, k + 1)
      BY <1>2, <1>5, <3>1
    <3> QED
      BY <3>2
  <2> QED
    BY <1>1, <1>6, <2>1, <2>2, <2>3
<1>7. ASSUME v \in Seq(Letters), NEW k \in Nat, Dropped(w, v, k)
      PROVE  v \in Edited(w)
  <2>1. k \in 1 .. Len(w)
    BY <1>7 DEF Dropped
  <2> DEFINE u == OneLess(k)
  <2>2. u \in Seq(Letters) /\ Dropped(w, u, k)
    BY <1>3, <2>1
  <2> HIDE DEF u
  <2>3. Len(v) \in Nat /\ Len(u) \in Nat /\ Len(v) = Len(u)
    BY <1>7, <2>2 DEF Dropped
  <2>4. \A i \in 1 .. Len(v) : v[i] = u[i]
    BY <1>7, <2>2, <2>3 DEF Dropped
  <2>5. v = u
    BY <1>7, <2>2, <2>3, <2>4, SeqEqual
  <2> QED
    BY <1>1, <2>1, <2>5 DEF u
<1>8. ASSUME v \in Seq(Letters), NEW k \in Nat, Changed(w, v, k)
      PROVE  v \in Edited(w)
  <2>1. k \in 1 .. Len(w) /\ k \in 1 .. Len(v) /\ v[k] \in Letters
    BY <1>8 DEF Changed
  <2> DEFINE u == Other(k, v[k])
  <2>2. u \in Seq(Letters) /\ Changed(w, u, k) /\ u[k] = v[k]
    BY <1>4, <2>1
  <2> HIDE DEF u
  <2>3. Len(v) = Len(u) /\ Len(v) = Len(w)
    BY <1>8, <2>2 DEF Changed
  <2>4. \A i \in 1 .. Len(v) : v[i] = u[i]
    BY <1>8, <2>2, <2>3 DEF Changed
  <2>5. v = u
    BY <1>8, <2>2, <2>3, <2>4, SeqEqual
  <2> QED
    BY <1>1, <2>1, <2>5 DEF u
<1>9. ASSUME v \in Seq(Letters), NEW k \in Nat, Dropped(v, w, k)
      PROVE  v \in Edited(w)
  <2> DEFINE s == k - 1
  <2>1. /\ k \in 1 .. Len(v) /\ v[k] \in Letters /\ Len(w) + 1 = Len(v) /\ Len(v) \in Nat
        /\ s \in 0 .. Len(w) /\ s + 1 = k
    BY <1>2, <1>9 DEF Dropped
  <2> HIDE DEF s
  <2> DEFINE u == OneMore(s, v[k])
  <2>2. u \in Seq(Letters) /\ Dropped(u, w, k) /\ u[k] = v[k]
    BY <1>5, <2>1
  <2> HIDE DEF u
  <2>3. Len(u) \in Nat /\ Len(v) = Len(u)
    BY <1>2, <2>1, <2>2 DEF Dropped
  <2>4. ASSUME NEW i \in 1 .. Len(v) PROVE v[i] = u[i]
    <3>1. CASE i < k
      <4>1. i \in 1 .. Len(w)
        BY <1>2, <2>1, <3>1
      <4> QED
        BY <1>9, <2>2, <3>1, <4>1 DEF Dropped
    <3>2. CASE i = k
      BY <2>2, <3>2
    <3>3. CASE i > k
      <4> DEFINE m == i - 1
      <4>1. m \in 1 .. Len(w) /\ ~ (m < k) /\ m + 1 = i
        BY <1>2, <2>1, <3>3
      <4> HIDE DEF m
      <4>2. w[m] = v[m + 1] /\ w[m] = u[m + 1]
        BY <1>9, <2>2, <4>1 DEF Dropped
      <4> QED
        BY <4>1, <4>2
    <3> QED
      BY <2>1, <3>1, <3>2, <3>3
  <2>5. v = u
    BY <1>9, <2>2, <2>3, <2>4, SeqEqual
  <2> QED
    BY <1>1, <2>1, <2>5 DEF u
<1> QED
  BY <1>6, <1>7, <1>8, <1>9

-----------------------------------------------------------------------------
\* Each edit leaves the letters after it as they are, so also one more of them.
LEMMA EditedAppend ==
  ASSUME NEW w \in Seq(Letters), NEW v \in Edited(w), NEW x \in Letters
  PROVE  Append(v, x) \in Edited(Append(w, x))
<1>1. v \in Seq(Letters)
  BY EditedIs
<1>2. PICK k \in Nat : Dropped(w, v, k) \/ Changed(w, v, k) \/ Dropped(v, w, k)
  BY EditedIs
<1> DEFINE wx == Append(w, x)
           vx == Append(v, x)
<1>3. /\ wx \in Seq(Letters) /\ Len(wx) = Len(w) + 1 /\ Len(w) \in Nat
      /\ \A i \in 1 .. Len(w) : wx[i] = w[i]
      /\ wx[Len(w) + 1] = x
  BY AppendProperties
<1>4. /\ vx \in Seq(Letters) /\ Len(vx) = Len(v) + 1 /\ Len(v) \in Nat
      /\ \A i \in 1 .. Len(v) : vx[i] = v[i]
      /\ vx[Len(v) + 1] = x
  BY <1>1, AppendProperties
<1> HIDE DEF wx, vx
<1>5. ASSUME NEW p, NEW q, NEW px, NEW qx, Dropped(p, q, k),
             Len(px) = Len(p) + 1, Len(p) \in Nat, Len(qx) = Len(q) + 1, Len(q) \in Nat,
             \A i \in 1 .. Len(p) : px[i] = p[i], px[Len(p) + 1] = x,
             \A i \in 1 .. Len(q) : qx[i] = q[i], qx[Len(q) + 1] = x
      PROVE  Dropped(px, qx, k)
  <2>1. /\ k \in 1 .. Len(p) /\ Len(q) + 1 = Len(p)
        /\ \A i \in 1 .. Len(q) : q[i] = IF i < k THEN p[i] ELSE p[i + 1]
    BY <1>5 DEF Dropped
  <2>2. ASSUME NEW i \in 1 .. Len(qx)
        PROVE  qx[i] = IF i < k THEN px[i] ELSE px[i + 1]
    <3>1. CASE i \in 1 .. Len(q)
      <4> DEFINE m == i + 1
      <4>1. i \in 1 .. Len(p) /\ m \in 1 .. Len(p)
        BY <1>5, <2>1, <3>1
      <4>2. q[i] = IF i < k THEN p[i] ELSE p[m]
        BY <2>1, <3>1
      <4> HIDE DEF m
      <4>3. qx[i] = q[i] /\ px[i] = p[i] /\ px[m] = p[m]
        BY <1>5, <3>1, <4>1
      <4> QED
        BY <4>2, <4>3 DEF m
    <3>2. CASE i = Len(q) + 1
      <4>1. ~ (i < k) /\ i + 1 = Len(p) + 1
        BY <1>5, <2>1, <3>2
      <4> QED
        BY <1>5, <3>2, <4>1
    <3> QED
      BY <1>5, <3>1, <3>2
  <2>3. k \in 1 .. Len(px) /\ Len(qx) + 1 = Len(px)
    BY <1>5, <2>1
  <2> QED
    BY <2>2, <2>3 DEF Dropped
<1>6. Dropped(w, v, k) => Dropped(wx, vx, k)
  BY <1>3, <1>4, <1>5
<1>7. Dropped(v, w, k) => Dropped(vx, wx, k)
  BY <1>3, <1>4, <1>5
<1>8. ASSUME Changed(w, v, k) PROVE Changed(wx, vx, k)
  <2>1. /\ k \in 1 .. Len(w) /\ Len(v) = Len(w)
        /\ \A i \in 1 .. Len(w) : i # k => v[i] = w[i]
    BY <1>8 DEF Changed
  <2>2. ASSUME NEW i \in 1 .. Len(wx), i # k
        PROVE  vx[i] = wx[i]
    <3>1. i \in 1 .. Len(w) \/ i = Len(w) + 1
      BY <1>3
    <3> QED
      BY <1>3, <1>4, <2>1, <2>2, <3>1
  <2>3. Changed(wx, vx, k)
    BY <1>3, <1>4, <2>1, <2>2 DEF Changed
  <2> QED
    BY <2>3
<1>9. Dropped(wx, vx, k) \/ Changed(wx, vx, k) \/ Dropped(vx, wx, k)
  BY <1>2, <1>6, <1>7, <1>8
<1>10. vx \in Edited(wx)
  BY <1>3, <1>4, <1>9, EditedIs
<1> QED
  BY <1>10 DEF wx, vx

\* At the end of a word a letter is dropped, changed or put in by one edit.
LEMMA EditedAtEnd ==
  ASSUME NEW w \in Seq(Letters), NEW x \in Letters, NEW y \in Letters
  PROVE  /\ w \in Edited(Append(w, x))
         /\ Append(w, y) \in Edited(Append(w, x))
         /\ Append(w, x) \in Edited(w)
<1> DEFINE wx == Append(w, x)
           wy == Append(w, y)
           k == Len(w) + 1
<1>1. /\ wx \in Seq(Letters) /\ Len(wx) = Len(w) + 1 /\ Len(w) \in Nat
      /\ \A i \in 1 .. Len(w) : wx[i] = w[i]
  BY AppendProperties
<1>2. /\ wy \in Seq(Letters) /\ Len(wy) = Len(w) + 1
      /\ \A i \in 1 .. Len(w) : wy[i] = w[i]
  BY AppendProperties
<1>3. k \in Nat /\ k \in 1 .. Len(w) + 1 /\ \A i \in 1 .. Len(w) : i < k
  BY <1>1
<1>4. \A i \in 1 .. Len(w) + 1 : i # k => i \in 1 .. Len(w)
  BY <1>1
<1> HIDE DEF wx, wy, k
<1>5. Dropped(wx, w, k)
  BY <1>1, <1>3 DEF Dropped
<1>6. Changed(wx, wy, k)
  BY <1>1, <1>2, <1>3, <1>4 DEF Changed
<1>7. w \in Edited(wx)
  BY <1>1, <1>3, <1>5, EditedIs
<1>8. wy \in Edited(wx)
  BY <1>1, <1>2, <1>3, <1>6, EditedIs
<1>9. wx \in Edited(w)
  BY <1>1, <1>3, <1>5, EditedIs
<1> QED
  BY <1>7, <1>8, <1>9 DEF wx, wy

\* An edit, and then n more.
LEMMA BallStep ==
  ASSUME NEW w, NEW v \in Edited(w), NEW n \in {0, 1}, NEW u \in Ball(v, n)
  PROVE  u \in Ball(w, n + 1)
<1>1. CASE n = 0
  BY <1>1 DEF Ball
<1>2. CASE n = 1
  <2>1. u = v \/ u \in Edited(v)
    BY <1>2 DEF Ball
  <2>2. u \in UNION {Edited(e) : e \in {w} \cup Edited(w)}
    BY <2>1
  <2>3. Ball(w, 2) = {w} \cup UNION {Edited(e) : e \in {w} \cup Edited(w)}
    BY DEF Ball
  <2> QED
    BY <1>2, <2>2, <2>3
<1> QED
  BY <1>1, <1>2

\* The same letter at the end of two words brings them no further apart.
LEMMA BallAppend ==
  ASSUME NEW w \in Seq(Letters), NEW n \in 0 .. 2, NEW u \in Ball(w, n),
         NEW x \in Letters
  PROVE  Append(u, x) \in Ball(Append(w, x), n)
<1>1. CASE n = 0
  BY <1>1 DEF Ball
<1>2. CASE n = 1
  BY <1>2, EditedAppend DEF Ball
<1>3. CASE n = 2
  <2>1. CASE u = w
    BY <1>3, <2>1 DEF Ball
  <2>2. CASE \E v \in {w} \cup Edited(w) : u \in Edited(v)
    <3>1. PICK v \in {w} \cup Edited(w) : u \in Edited(v)
      BY <2>2
    <3>2. v \in Seq(Letters)
      BY <3>1, EditedIs
    <3>3. Append(v, x) \in {Append(w, x)} \cup Edited(Append(w, x))
      BY <3>1, EditedAppend
    <3>4. Append(u, x) \in Edited(Append(v, x))
      BY <3>1, <3>2, EditedAppend
    <3> DEFINE wx == Append(w, x)
    <3> HIDE DEF wx
    <3>5. Append(u, x) \in UNION {Edited(e) : e \in {wx} \cup Edited(wx)}
      BY <3>3, <3>4 DEF wx
    <3>6. Ball(wx, 2) = {wx} \cup UNION {Edited(e) : e \in {wx} \cup Edited(wx)}
      BY DEF Ball
    <3> QED
      BY <1>3, <3>5, <3>6 DEF wx
  <2>3. Ball(w, 2) = {w} \cup UNION {Edited(e) : e \in {w} \cup Edited(w)}
    BY DEF Ball
  <2> QED
    BY <1>3, <2>1, <2>2, <2>3
<1> QED
  BY <1>1, <1>2, <1>3

\* No word is further than the edits that make it.
LEMMA BallNear ==
  ASSUME NEW a \in Seq(Letters), NEW n \in 0 .. 2, NEW b \in Ball(a, n)
  PROVE  b \in Seq(Letters) /\ EditDistance(a, b) <= n
<1>1. \A w \in Seq(Letters) : \A v \in Edited(w) :
        /\ v \in Seq(Letters)
        /\ \A c \in Seq(Letters) : EditDistance(w, c) <= EditDistance(v, c) + 1
  BY EditedIs, EditNears
<1>2. \A w, c \in Seq(Letters) : EditDistance(w, c) \in Nat
  <2> SUFFICES ASSUME NEW w \in Seq(Letters), NEW c \in Seq(Letters)
               PROVE  EditDistance(w, c) \in Nat
    OBVIOUS
  <2>1. Len(w) \in 0 .. Len(w) /\ Len(c) \in 0 .. Len(c)
    OBVIOUS
  <2>2. Rows(w, c)[Len(w)] \in [0 .. Len(c) -> Nat]
    BY <2>1, TableRows
  <2>3. EditDistance(w, c) = Rows(w, c)[Len(w)][Len(c)]
    BY RowsAre
  <2> HIDE DEF Rows
  <2> QED
    BY <2>1, <2>2, <2>3
<1>3. b = a \/ b \in Edited(a) \/ \E v \in Edited(a) : b \in Edited(v)
  <2>1. Ball(a, n) \subseteq {a} \cup UNION {Edited(v) : v \in {a} \cup Edited(a)}
    BY DEF Ball
  <2> QED
    BY <2>1
<1>4. CASE b = a
  BY <1>4, SelfNear
<1>5. CASE b # a /\ b \in Edited(a)
  <2>1. EditDistance(b, b) = 0 /\ EditDistance(a, b) <= EditDistance(b, b) + 1
    BY <1>1, <1>5, SelfNear
  <2>2. n # 0
    BY <1>5 DEF Ball
  <2>3. b \in Seq(Letters) /\ EditDistance(a, b) \in Nat
    BY <1>1, <1>2, <1>5
  <2> QED
    BY <2>1, <2>2, <2>3
<1>6. CASE b # a /\ b \notin Edited(a) /\ \E v \in Edited(a) : b \in Edited(v)
  <2>1. PICK v \in Edited(a) : b \in Edited(v)
    BY <1>6
  <2>2. v \in Seq(Letters) /\ b \in Seq(Letters)
    BY <1>1, <2>1
  <2>3. n = 2
    BY <1>6 DEF Ball
  <2>4. /\ EditDistance(b, b) = 0
        /\ EditDistance(v, b) <= EditDistance(b, b) + 1
        /\ EditDistance(a, b) <= EditDistance(v, b) + 1
    BY <1>1, <2>1, <2>2, SelfNear
  <2>5. EditDistance(a, b) \in Nat /\ EditDistance(v, b) \in Nat
    BY <1>2, <2>2
  <2> QED
    BY <2>2, <2>3, <2>4, <2>5
<1> QED
  BY <1>3, <1>4, <1>5, <1>6

\* The first letters of a word, one by one.
LEMMA PrefixIs ==
  ASSUME NEW w \in Seq(Letters), NEW i \in 1 .. Len(w)
  PROVE  /\ SubSeq(w, 1, i - 1) \in Seq(Letters) /\ w[i] \in Letters
         /\ SubSeq(w, 1, i) = Append(SubSeq(w, 1, i - 1), w[i])
<1> DEFINE p == SubSeq(w, 1, i)
           r == SubSeq(w, 1, i - 1)
           rx == Append(r, w[i])
<1>1. Len(w) \in Nat /\ i \in 0 .. Len(w) /\ i - 1 \in 0 .. Len(w)
  OBVIOUS
<1>2. w[i] \in Letters
  BY ElementOfSeq
<1>3. p \in Seq(Letters) /\ Len(p) = i /\ \A m \in 1 .. i : p[m] = w[m]
  BY <1>1, Pieces
<1>4. r \in Seq(Letters) /\ Len(r) = i - 1 /\ \A m \in 1 .. i - 1 : r[m] = w[m]
  BY <1>1, Pieces
<1> HIDE DEF p, r
<1>5. /\ rx \in Seq(Letters) /\ Len(rx) = Len(r) + 1
      /\ \A m \in 1 .. Len(r) : rx[m] = r[m]
      /\ rx[Len(r) + 1] = w[i]
  BY <1>2, <1>4, AppendProperties
<1> HIDE DEF rx
<1>6. Len(p) = Len(rx)
  BY <1>1, <1>3, <1>4, <1>5
<1>7. ASSUME NEW m \in 1 .. Len(p) PROVE p[m] = rx[m]
  <2>1. CASE m = i
    <3>1. Len(r) + 1 = i
      BY <1>1, <1>4
    <3> QED
      BY <1>3, <1>5, <2>1, <3>1
  <2>2. CASE m # i
    <3>1. m \in 1 .. i - 1 /\ m \in 1 .. Len(r)
      BY <1>1, <1>3, <1>4, <2>2
    <3> QED
      BY <1>3, <1>4, <1>5, <3>1
  <2> QED
    BY <2>1, <2>2
<1>8. p = rx
  BY <1>3, <1>5, <1>6, <1>7, SeqEqual
<1> QED
  BY <1>2, <1>4, <1>8 DEF p, r, rx

\* What the cell of row i and column j says of the first letters of the words:
\* that few edits make the one of the other.
Says(a, b, i, j) ==
  \A n \in 0 .. 2 :
    Rows(a, b)[i][j] <= n => SubSeq(b, 1, j) \in Ball(SubSeq(a, 1, i), n)

\* One more letter of the first word.
LEMMA DropSays ==
  ASSUME NEW a \in Seq(Letters), NEW b \in Seq(Letters),
         NEW i \in 1 .. Len(a), NEW j \in 0 .. Len(b), NEW n \in 0 .. 2,
         Says(a, b, i - 1, j), Rows(a, b)[i - 1][j] + 1 <= n
  PROVE  SubSeq(b, 1, j) \in Ball(SubSeq(a, 1, i), n)
<1> DEFINE A == SubSeq(a, 1, i - 1)
           Ax == SubSeq(a, 1, i)
           B == SubSeq(b, 1, j)
           d == Rows(a, b)[i - 1][j]
           m == n - 1
<1>1. d \in Nat
  <2>1. i - 1 \in 0 .. Len(a)
    OBVIOUS
  <2> QED
    BY <2>1, TableRows
<1>2. d + 1 <= n
  OBVIOUS
<1>3. A \in Seq(Letters) /\ A \in Edited(Ax)
  BY PrefixIs, EditedAtEnd
<1>4. \A e \in 0 .. 2 : d <= e => B \in Ball(A, e)
  BY DEF Says
<1> HIDE DEF A, Ax, B, d
<1>5. m \in {0, 1} /\ m \in 0 .. 2 /\ d <= m /\ m + 1 = n
  BY <1>1, <1>2
<1> HIDE DEF m
<1>6. B \in Ball(A, m)
  BY <1>4, <1>5
<1>7. B \in Ball(Ax, m + 1)
  BY <1>3, <1>5, <1>6, BallStep
<1> QED
  BY <1>5, <1>7 DEF Ax, B

\* One more letter of the second word.
LEMMA AddSays ==
  ASSUME NEW a \in Seq(Letters), NEW b \in Seq(Letters),
         NEW i \in 0 .. Len(a), NEW j \in 1 .. Len(b), NEW n \in 0 .. 2,
         Says(a, b, i, j - 1), Rows(a, b)[i][j - 1] + 1 <= n
  PROVE  SubSeq(b, 1, j) \in Ball(SubSeq(a, 1, i), n)
<1> DEFINE A == SubSeq(a, 1, i)
           B == SubSeq(b, 1, j - 1)
           y == b[j]
           d == Rows(a, b)[i][j - 1]
           m == n - 1
<1>1. d \in Nat
  <2>1. Rows(a, b)[i] \in [0 .. Len(b) -> Nat] /\ j - 1 \in 0 .. Len(b)
    BY TableRows
  <2> QED
    BY <2>1
<1>2. d + 1 <= n
  OBVIOUS
<1>3. y \in Letters /\ B \in Seq(Letters) /\ SubSeq(b, 1, j) = Append(B, y)
  BY PrefixIs
<1>4. A \in Seq(Letters)
  BY Pieces
<1>5. \A e \in 0 .. 2 : d <= e => B \in Ball(A, e)
  BY DEF Says
<1> HIDE DEF A, B, y, d
<1>6. m \in {0, 1} /\ m \in 0 .. 2 /\ d <= m /\ m + 1 = n
  BY <1>1, <1>2
<1> HIDE DEF m
<1>7. Append(B, y) \in Ball(Append(A, y), m)
  BY <1>3, <1>4, <1>5, <1>6, BallAppend
<1>8. Append(A, y) \in Edited(A)
  BY <1>3, <1>4, EditedAtEnd
<1>9. Append(B, y) \in Ball(A, m + 1)
  BY <1>6, <1>7, <1>8, BallStep
<1> QED
  BY <1>3, <1>6, <1>9 DEF A

\* One more letter of both.
LEMMA BothSay ==
  ASSUME NEW a \in Seq(Letters), NEW b \in Seq(Letters),
         NEW i \in 1 .. Len(a), NEW j \in 1 .. Len(b), NEW n \in 0 .. 2,
         Says(a, b, i - 1, j - 1),
         Rows(a, b)[i - 1][j - 1] + Cost(a[i], b[j]) <= n
  PROVE  SubSeq(b, 1, j) \in Ball(SubSeq(a, 1, i), n)
<1> DEFINE A == SubSeq(a, 1, i - 1)
           B == SubSeq(b, 1, j - 1)
           x == a[i]
           y == b[j]
           d == Rows(a, b)[i - 1][j - 1]
           m == n - 1
<1>1. d \in Nat
  <2>1. i - 1 \in 0 .. Len(a) /\ j - 1 \in 0 .. Len(b)
    OBVIOUS
  <2>2. Rows(a, b)[i - 1] \in [0 .. Len(b) -> Nat]
    BY <2>1, TableRows
  <2> QED
    BY <2>1, <2>2
<1>2. d + Cost(x, y) <= n
  OBVIOUS
<1>3. x \in Letters /\ A \in Seq(Letters) /\ SubSeq(a, 1, i) = Append(A, x)
  BY PrefixIs
<1>4. y \in Letters /\ B \in Seq(Letters) /\ SubSeq(b, 1, j) = Append(B, y)
  BY PrefixIs
<1>5. \A e \in 0 .. 2 : d <= e => B \in Ball(A, e)
  BY DEF Says
<1> HIDE DEF A, B, x, y, d
<1>6. CASE x = y
  <2>1. d <= n
    BY <1>1, <1>2, <1>6 DEF Cost
  <2>2. Append(B, y) \in Ball(Append(A, x), n)
    BY <1>3, <1>5, <1>6, <2>1, BallAppend
  <2> QED
    BY <1>3, <1>4, <2>2
<1>7. CASE x # y
  <2>1. m \in {0, 1} /\ m \in 0 .. 2 /\ d <= m /\ m + 1 = n
    BY <1>1, <1>2, <1>7 DEF Cost
  <2> HIDE DEF m
  <2>2. Append(B, y) \in Ball(Append(A, y), m)
    BY <1>3, <1>4, <1>5, <2>1, BallAppend
  <2>3. Append(A, y) \in Edited(Append(A, x))
    BY <1>3, <1>4, EditedAtEnd
  <2>4. Append(B, y) \in Ball(Append(A, x), m + 1)
    BY <2>1, <2>2, <2>3, BallStep
  <2> QED
    BY <1>3, <1>4, <2>1, <2>4
<1> QED
  BY <1>6, <1>7

\* A cell says so when the row above does and the cell on its left.
LEMMA CellSays ==
  ASSUME NEW a \in Seq(Letters), NEW b \in Seq(Letters),
         NEW i \in 0 .. Len(a), NEW j \in 0 .. Len(b),
         i # 0 => \A k \in 0 .. Len(b) : Says(a, b, i - 1, k),
         j # 0 => Says(a, b, i, j - 1)
  PROVE  Says(a, b, i, j)
<1> SUFFICES ASSUME NEW n \in 0 .. 2, Rows(a, b)[i][j] <= n
             PROVE  SubSeq(b, 1, j) \in Ball(SubSeq(a, 1, i), n)
  BY DEF Says
<1>1. Len(a) \in Nat /\ Len(b) \in Nat
  OBVIOUS
<1>2. CASE i = 0 /\ j = 0
  <2>1. SubSeq(a, 1, i) = << >> /\ SubSeq(b, 1, j) = << >>
    BY <1>2, SubSeqEmpty
  <2>2. SubSeq(a, 1, i) \in Ball(SubSeq(a, 1, i), n)
    BY DEF Ball
  <2> QED
    BY <2>1, <2>2
<1>3. CASE i # 0 /\ j = 0
  <2>1. i \in 1 .. Len(a) /\ i - 1 \in 0 .. Len(a) /\ j \in 0 .. Len(b)
    BY <1>1, <1>3
  <2>2. Rows(a, b)[i][0] = i
    BY <2>1, TableRows
  <2>3. Rows(a, b)[i - 1][0] = i - 1
    BY <2>1, TableRows
  <2>4. i <= n
    BY <1>3, <2>2
  <2>5. Rows(a, b)[i - 1][j] + 1 <= n
    BY <1>1, <1>3, <2>3, <2>4
  <2> QED
    BY <1>3, <2>1, <2>5, DropSays
<1>4. CASE i = 0 /\ j # 0
  <2>1. j \in 1 .. Len(b) /\ j - 1 \in 0 .. Len(b)
    BY <1>1, <1>4
  <2>2. Rows(a, b)[i][j] = j /\ Rows(a, b)[i][j - 1] = j - 1
    BY <1>4, <2>1, TableRows
  <2>3. Rows(a, b)[i][j - 1] + 1 <= n
    BY <2>1, <2>2
  <2> QED
    BY <1>4, <2>1, <2>3, AddSays
<1>5. CASE i # 0 /\ j # 0
  <2> DEFINE up == Rows(a, b)[i - 1][j]
             left == Rows(a, b)[i][j - 1]
             over == Rows(a, b)[i - 1][j - 1]
  <2>1. i \in 1 .. Len(a) /\ j \in 1 .. Len(b) /\ j - 1 \in 0 .. Len(b)
    BY <1>1, <1>5
  <2>2. LeastOf(Rows(a, b)[i][j], over + Cost(a[i], b[j]), up + 1, left + 1)
    BY <2>1, TableCells
  <2>3. \/ over + Cost(a[i], b[j]) <= n
        \/ up + 1 <= n
        \/ left + 1 <= n
    <3> HIDE DEF up, left, over
    <3> QED
      BY <2>2 DEF LeastOf
  <2>4. CASE over + Cost(a[i], b[j]) <= n
    BY <1>5, <2>1, <2>4, BothSay
  <2>5. CASE up + 1 <= n
    BY <1>5, <2>1, <2>5, DropSays
  <2>6. CASE left + 1 <= n
    BY <1>5, <2>1, <2>6, AddSays
  <2> QED
    BY <2>3, <2>4, <2>5, <2>6
<1> QED
  BY <1>2, <1>3, <1>4, <1>5

\* So every cell does.
LEMMA EveryCellSays ==
  ASSUME NEW a \in Seq(Letters), NEW b \in Seq(Letters)
  PROVE  \A i \in 0 .. Len(a), j \in 0 .. Len(b) : Says(a, b, i, j)
<1> DEFINE S(i) == \A j \in 0 .. Len(b) : Says(a, b, i, j)
           T == {i \in 0 .. Len(a) : S(i)}
<1>1. Len(a) \in Nat /\ Len(b) \in Nat
  OBVIOUS
<1>2. ASSUME NEW i \in 0 .. Len(a), i # 0 => S(i - 1)
      PROVE  S(i)
  <2> DEFINE U == {j \in 0 .. Len(b) : Says(a, b, i, j)}
  <2>1. 0 \in U
    BY <1>1, <1>2, CellSays
  <2>2. ASSUME NEW j \in 1 .. Len(b), j - 1 \in U
        PROVE  j \in U
    <3>1. j \in 0 .. Len(b) /\ Says(a, b, i, j - 1)
      BY <1>1, <2>2
    <3>2. Says(a, b, i, j)
      BY <1>2, <3>1, CellSays
    <3> QED
      BY <3>1, <3>2
  <2> HIDE DEF U
  <2>3. 0 .. Len(b) \subseteq U
    BY <1>1, <2>1, <2>2, SetInduction
  <2> QED
    BY <2>3 DEF U
<1>3. 0 \in T
  BY <1>1, <1>2
<1>4. ASSUME NEW i \in 1 .. Len(a), i - 1 \in T
      PROVE  i \in T
  <2>1. i \in 0 .. Len(a) /\ S(i - 1)
    BY <1>1, <1>4
  <2> HIDE DEF S
  <2>2. S(i)
    BY <1>2, <2>1
  <2> QED
    BY <2>1, <2>2
<1> HIDE DEF T
<1>5. 0 .. Len(a) \subseteq T
  BY <1>1, <1>3, <1>4, SetInduction
<1> QED
  BY <1>5 DEF T

\* The distance the code computes is the number of edits, as far as two.
THEOREM DistanceIsEdits ==
  ASSUME NEW a \in Seq(Letters), NEW b \in Seq(Letters), NEW n \in 0 .. 2
  PROVE  EditDistance(a, b) <= n <=> b \in Ball(a, n)
<1>1. ASSUME EditDistance(a, b) <= n PROVE b \in Ball(a, n)
  <2>1. Len(a) \in 0 .. Len(a) /\ Len(b) \in 0 .. Len(b)
    OBVIOUS
  <2>2. Rows(a, b)[Len(a)][Len(b)] <= n
    BY <1>1, RowsAre
  <2>3. Says(a, b, Len(a), Len(b))
    BY <2>1, EveryCellSays
  <2>4. SubSeq(a, 1, Len(a)) = a /\ SubSeq(b, 1, Len(b)) = b
    BY SubSeqFull
  <2> QED
    BY <2>2, <2>3, <2>4 DEF Says
<1>2. ASSUME b \in Ball(a, n) PROVE EditDistance(a, b) <= n
  BY <1>2, BallNear
<1> QED
  BY <1>1, <1>2

\* A word that is no known command is answered with a known command that it
\* begins, or if there is none with one that the fewest edits make of it, two at
\* most; and with nothing when there is none of those either.
LEMMA SuggestionIs ==
  ASSUME NEW word \in Seq(Letters), \A i \in DOMAIN Known : word # Known[i]
  PROVE  LET known == {Known[i] : i \in DOMAIN Known}
             begun == {c \in known : Begins(word, c)}
             near(n) == known \cap Ball(word, n)
         IN  SuggestCommand(word) \in
               IF begun # {} THEN begun
               ELSE IF near(1) # {} THEN near(1)
               ELSE IF near(2) # {} THEN near(2) ELSE {NoWord}
<1> DEFINE known == {Known[i] : i \in DOMAIN Known}
           begun == {c \in known : Begins(word, c)}
           near(n) == known \cap Ball(word, n)
           Begun == {i \in DOMAIN Known : Begins(word, Known[i])}
           d == [i \in DOMAIN Known |-> EditDistance(word, Known[i])]
           Near == {i \in DOMAIN Known : d[i] <= 2}
           Nearest == {i \in Near : \A k \in Near : d[i] <= d[k]}
<1>1. Known \in Seq(Seq(Letters))
  BY SuggestAssumption
<1>2. DOMAIN Known \subseteq Nat /\ \A i \in DOMAIN Known : Known[i] \in Seq(Letters)
  BY <1>1
<1>3. SuggestCommand(word) =
        IF Begun # {} THEN Known[Least(Begun)]
        ELSE IF Near = {} THEN NoWord ELSE Known[Least(Nearest)]
  BY DEF SuggestCommand
<1>4. \A i \in DOMAIN Known, n \in 0 .. 2 : d[i] <= n <=> Known[i] \in Ball(word, n)
  BY <1>2, DistanceIsEdits
<1>5. \A i \in DOMAIN Known : d[i] \in Nat
  <2> SUFFICES ASSUME NEW i \in DOMAIN Known PROVE EditDistance(word, Known[i]) \in Nat
    OBVIOUS
  <2> DEFINE w == Known[i]
  <2>1. w \in Seq(Letters)
    BY <1>2
  <2> HIDE DEF w
  <2>2. Len(word) \in 0 .. Len(word) /\ Len(w) \in 0 .. Len(w)
    BY <2>1
  <2>3. Rows(word, w)[Len(word)] \in [0 .. Len(w) -> Nat]
    BY <2>1, <2>2, TableRows
  <2>4. EditDistance(word, w) = Rows(word, w)[Len(word)][Len(w)]
    BY <2>1, RowsAre
  <2>5. EditDistance(word, w) \in Nat
    BY <2>2, <2>3, <2>4
  <2> QED
    BY <2>5 DEF w
<1> HIDE DEF d
<1>6. CASE begun # {}
  <2>1. Begun # {} /\ Begun \subseteq Nat
    BY <1>2, <1>6
  <2>2. Least(Begun) \in Begun
    BY <2>1, LeastIs
  <2>3. SuggestCommand(word) \in begun
    BY <1>3, <2>1, <2>2
  <2> QED
    BY <1>6, <2>3
<1>7. CASE begun = {} /\ Near = {}
  <2>1. Begun = {}
    BY <1>7
  <2>2. near(1) = {} /\ near(2) = {}
    <3>1. \A i \in DOMAIN Known : ~ (d[i] <= 2) /\ ~ (d[i] <= 1)
      BY <1>5, <1>7
    <3> QED
      BY <1>4, <3>1
  <2> QED
    BY <1>3, <1>7, <2>1, <2>2
<1>8. CASE begun = {} /\ Near # {}
  <2>1. Begun = {}
    BY <1>8
  <2> DEFINE D == {d[i] : i \in Near}
  <2>2. D \subseteq Nat /\ D # {}
    BY <1>5, <1>8
  <2>3. Least(D) \in D /\ \A m \in D : Least(D) <= m
    BY <2>2, LeastIs
  <2>4. Nearest # {} /\ Nearest \subseteq Nat
    <3>1. PICK i \in Near : d[i] = Least(D)
      BY <2>3
    <3>2. \A k \in Near : d[k] \in D
      OBVIOUS
    <3>3. i \in Nearest
      BY <2>3, <3>1, <3>2
    <3> QED
      BY <1>2, <3>3
  <2> DEFINE i == Least(Nearest)
  <2>5. i \in Nearest
    BY <2>4, LeastIs
  <2> HIDE DEF i
  <2>6. SuggestCommand(word) = Known[i]
    BY <1>3, <1>8, <2>1 DEF i
  <2>7. i \in DOMAIN Known /\ Known[i] \in known /\ d[i] <= 2
    BY <2>5
  <2>8. CASE near(1) # {}
    <3>1. PICK k \in DOMAIN Known : Known[k] \in Ball(word, 1)
      BY <2>8
    <3>2. d[k] <= 1 /\ k \in Near
      BY <1>4, <1>5, <3>1
    <3>3. d[i] <= 1
      BY <1>5, <2>5, <2>7, <3>2
    <3>4. Known[i] \in near(1)
      BY <1>4, <2>7, <3>3
    <3> QED
      BY <1>8, <2>6, <2>8, <3>4
  <2>9. CASE near(1) = {}
    <3>1. Known[i] \in near(2)
      BY <1>4, <2>7
    <3> QED
      BY <1>8, <2>6, <2>9, <3>1
  <2> QED
    BY <2>8, <2>9
<1> QED
  BY <1>6, <1>7, <1>8

\* What is suggested is as near as any known command (SuggestsNearest), whatever
\* the letters, the commands known and the word typed.
THEOREM AlwaysNearest == SuggestSpec => []SuggestsNearest
<1> DEFINE Inv == /\ typed \in Seq(Letters)
                  /\ suggestion # NotYet =>
                       /\ \A i \in DOMAIN Known : typed # Known[i]
                       /\ suggestion = SuggestCommand(typed)
<1>1. SuggestInit => Inv
  <2>1. ASSUME NEW k \in 0 .. MaxWord, NEW f \in [1 .. k -> Letters]
        PROVE  f \in Seq(Letters)
    BY SuggestAssumption
  <2> QED
    BY <2>1 DEF SuggestInit, Words
<1>2. Inv /\ [Unknown]_<<typed, suggestion>> => Inv'
  BY DEF Unknown
<1>3. Inv => SuggestsNearest
  BY SuggestionIs DEF SuggestsNearest
<1> QED
  BY <1>1, <1>2, <1>3, PTL DEF SuggestSpec
=============================================================================
