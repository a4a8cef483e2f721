--------------------------------- MODULE Cli ---------------------------------
(***************************************************************************)
(* The command line tool (vault_cli): each run is a process that opens the *)
(* vault file, or makes it, passes the second factor where its command     *)
(* asks for it, and works.  What the vault's operations do to the keys is  *)
(* in VaultKeys and Backup; here they are one step with an outcome, but    *)
(* for delete, which lists the accounts, matches a name in its own code    *)
(* and deletes by identifier, while other processes rename, trash and      *)
(* restore accounts.                                                       *)
(***************************************************************************)
EXTENDS Naturals, FiniteSets

CONSTANTS
  Runs,      \* runs of the tool
  Accts,     \* accounts
  Names,     \* names of accounts, and what is typed, up to case
  Within     \* the pairs <<n, m>> of names such that m contains n

ASSUME CliAssumption ==
  /\ IsFiniteSet(Accts) /\ Names # {}
  /\ Within \subseteq Names \X Names /\ \A n \in Names : <<n, n>> \in Within

VARIABLES
  vault_file,  \* "absent" or "ready"
  card,        \* per account, its name and whether it is live
  cli          \* per run, its command, how far it is, and what it listed

cvars == <<vault_file, card, cli>>

Commands == {"import", "list", "export", "import-backup", "change-password",
             "delete", "recover"}
Makes == {"import", "import-backup"}
AsksAgain == {"import", "export", "import-backup", "change-password"}

NoCard == [name |-> CHOOSE n \in Names : TRUE, is |-> "free"]
NotRun == [command |-> "none", pc |-> "start", needle |-> NoCard.name,
           listed |-> [a \in Accts |-> NoCard], target |-> {}]

At(r, pc) == cli[r].pc = pc
Goto(r, pc) == cli' = [cli EXCEPT ![r].pc = pc]
End(r) == Goto(r, "ended")
OnlyRun == UNCHANGED <<vault_file, card>>

\* The arguments are complete and the files they name could be read.
Start(r, command, needle) ==
  /\ cli[r] = NotRun
  /\ cli' = [cli EXCEPT ![r] =
       [NotRun EXCEPT !.command = command, !.needle = needle,
          !.pc = CASE command = "recover" -> "work"
                   [] command \in Makes /\ vault_file = "absent" -> "make"
                   [] OTHER -> "unlock"]]
  /\ OnlyRun

\* initialize refuses a file that has appeared since.
Initialize(r) ==
  /\ At(r, "make")
  /\ IF vault_file = "absent" THEN vault_file' = "ready" /\ Goto(r, "show")
     ELSE UNCHANGED vault_file /\ End(r)
  /\ UNCHANGED card

ShowKey(r) == At(r, "show") /\ Goto(r, "unlock") /\ OnlyRun

\* The vault may be missing, locked, or the password wrong: the run ends.
UnlockVault(r) ==
  /\ At(r, "unlock")
  /\ \/ vault_file = "ready"
        /\ Goto(r, IF cli[r].command \in AsksAgain THEN "again" ELSE "work")
     \/ End(r)
  /\ OnlyRun

SecondFactor(r) == At(r, "again") /\ (Goto(r, "work") \/ End(r)) /\ OnlyRun

Live(cards) == {a \in Accts : cards[a].is = "live"}
\* Live accounts whose name is, or contains, what was typed.
Exact(cards, needle) == {a \in Live(cards) : cards[a].name = needle}
Containing(cards, needle) ==
  {a \in Live(cards) : <<needle, cards[a].name>> \in Within}

\* Mutant of Matched: of several matches, the first is taken.
MatchedFirst(cards, needle) ==
  IF Containing(cards, needle) = {} THEN {}
  ELSE {CHOOSE a \in Containing(cards, needle) : TRUE}
Matched(cards, needle) ==
  IF Exact(cards, needle) = {} THEN Containing(cards, needle)
  ELSE Exact(cards, needle)

\* The list is read in one statement; only a single match goes on.
ListForDelete(r) ==
  /\ At(r, "work") /\ cli[r].command = "delete"
  /\ LET found == Matched(card, cli[r].needle)
     IN  cli' = [cli EXCEPT ![r] =
           [@ EXCEPT !.listed = card,
              !.pc = IF Cardinality(found) = 1 THEN "delete" ELSE "ended",
              !.target = IF Cardinality(found) = 1 THEN found ELSE {}]]
  /\ OnlyRun

\* delete_account: an account no longer live is an error.
Delete(r) ==
  /\ At(r, "delete")
  /\ card' = [a \in Accts |->
       IF a \in cli[r].target /\ card[a].is = "live"
         THEN [card[a] EXCEPT !.is = "trashed"] ELSE card[a]]
  /\ End(r)
  /\ UNCHANGED vault_file

\* An import adds accounts, none of them or all; the others leave the cards.
Work(r) ==
  /\ At(r, "work") /\ cli[r].command # "delete"
  /\ \/ UNCHANGED card
     \/ \E a \in Accts, n \in Names :
          /\ cli[r].command \in Makes /\ card[a].is = "free"
          /\ card' = [card EXCEPT ![a] = [name |-> n, is |-> "live"]]
  /\ End(r)
  /\ UNCHANGED vault_file

Killed(r) == ~At(r, "start") /\ ~At(r, "ended") /\ End(r) /\ OnlyRun

\* Another process updates, trashes or restores an account.
OtherCards ==
  /\ vault_file = "ready"
  /\ \E a \in Accts, n \in Names, is \in {"live", "trashed"} :
       /\ card[a].is # "free"
       /\ card' = [card EXCEPT ![a] = [name |-> n, is |-> is]]
  /\ UNCHANGED <<vault_file, cli>>

CliInit ==
  /\ \/ vault_file = "absent" /\ card = [a \in Accts |-> NoCard]
     \/ /\ vault_file = "ready"
        /\ card \in [Accts -> {NoCard} \cup [name : Names, is : {"live"}]]
  /\ cli = [r \in Runs |-> NotRun]

CliNext ==
  \/ \E r \in Runs :
       \/ \E command \in Commands, needle \in Names : Start(r, command, needle)
       \/ Initialize(r) \/ ShowKey(r) \/ UnlockVault(r) \/ SecondFactor(r)
       \/ ListForDelete(r) \/ Delete(r) \/ Work(r) \/ Killed(r)
  \/ OtherCards

CliSpec == CliInit /\ [][CliNext]_cvars

-----------------------------------------------------------------------------
How(c, needle) ==
  IF c.is # "live" \/ <<needle, c.name>> \notin Within THEN 0
  ELSE IF c.name = needle THEN 2 ELSE 1

\* A run that goes on to delete has listed the one live account that has the
\* name typed; or, with none of that name, the one whose name contains it: an
\* account that matches as well is never passed over in silence, and neither
\* another run nor another process changes the choice once it is made
\* (commands.rs:181-218).
DeletesNamed ==
  \A r \in Runs : \A a \in cli[r].target :
    LET how(b) == How(cli[r].listed[b], cli[r].needle)
    IN  how(a) > 0 /\ \A b \in Accts \ {a} : how(b) < how(a)

-----------------------------------------------------------------------------
(* Inductive strengthening, proved in PartsProofs.                         *)

CardType == [name : Names, is : {"free", "live", "trashed"}]
RunType ==
  [command : Commands \cup {"none"},
   pc : {"start", "make", "show", "unlock", "again", "work", "delete", "ended"},
   needle : Names, listed : [Accts -> CardType], target : SUBSET Accts]

CliTypeOK ==
  /\ vault_file \in {"absent", "ready"} /\ card \in [Accts -> CardType]
  /\ cli \in [Runs -> RunType]
=============================================================================
