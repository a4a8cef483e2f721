# FuxiPass: TLA+ models, model checking and proofs

FuxiPass is a local password vault: a SQLite file whose contents are encrypted
under keys that a master password and a recovery key unwrap, a web server and
other front ends that open it, and a recovery service that keeps an encrypted
recovery kit for users who lose their password. This directory models the parts
of it whose correctness depends on the order of things: which key is under which
credential, what a half-done or overlapping operation leaves behind, when a lock,
a code or a session ends, what a lost or late answer leaves in two places.

Three levels of assurance appear below.

- **Checked**: TLC explores every behaviour of a small instance.
- **Proved**: TLAPS checks a proof for every value of the constants.
- **Refuted**: TLC shows a behaviour of the code that contradicts what a comment,
  document or message of the repository says (`findings` in `PROJECT.json`).

Source paths are relative to `src/`. `PROJECT.json` maps every definition to the
lines it translates and lists the hazards with the properties that cover them.

## 1. Inventory of the system

| Component | Source | State it keeps | Operations | Model |
|---|---|---|---|---|
| vault keys | `vault_store/src/vault.rs`, `fdek.rs` | four wraps in the `meta` row, the key of each sealed field, the open `Vault` (DEK, `has_fdek`, cached FDEK) | initialize, unlock, second factor, seal, change password, rotate recovery key, recover, enable FDEK | `VaultKeys` |
| recovery kit | `vault_store/src/recovery_link.rs` | copies of the two recovery wraps outside the file; the contact in `meta` | make a kit, reset with one, record the contact | `VaultKeys`, `EmailFlow` |
| key wrapping | `security_core/src` | none | wrap, unwrap, seal, derive | abstracted in `VaultKeys` |
| backoff lock | `vault_store/src/lockout.rs` | `failed_attempts`, `locked_until` | look, count a failure, reset | `Lockout` |
| schema | `vault_store/src/schema.rs` | tables, columns, `schema_version` | open, migrate, create | `Schema` |
| accounts | `vault_store/src/accounts.rs`, `accounts_read.rs`, `compliance.rs` | `accounts`, `secret_fields` | create, update, trash, restore, purge, purge all; detail, reveal, list | `Accounts`, `Reads`, `Cli` (the list) |
| audit log | `vault_store/src/audit.rs`, `compliance.rs` | `audit_logs` | record, list, empty | `Reads` (the records of reads and of emptyings) |
| backup, import | `vault_store/src/backup.rs`, `import.rs`, `import_parse.rs` | a file outside the vault | export, import entry by entry; parse a text, import its candidates | `Backup`, `Notes` |
| web session | `vault_web/src/state.rs`, `middleware.rs`, `api.rs` | the one session, its token and last activity; the quota of codes | check, use, lock, unlock, recover | `WebSession`, `EmailFlow` (the quota) |
| email reset | `vault_web/src/api_reset.rs`, `api_recovery.rs`, `recovery_client.rs` | the one reset under way | ask for a code, verify it, reset, bind, unbind | `EmailFlow` (end to end), `WebSession` (token against session), `VaultKeys` (what the kit does) |
| recovery service | `recovery_service/src/lib.rs`, `store.rs`, `api.rs` | bindings on disk; codes, tokens and the quota's log in memory | bind, challenge, verify, redeem | `RecoveryService` |
| service process, mailer | `recovery_service/src/main.rs`, `mailer.rs`, `vault_web/src/main.rs` | the token file; two files for each mail | start, check the bearer, send | `ServiceFiles` |
| secure store | `vault_store/src/secure_store.rs` | an entry per name: in memory, in a file, behind callbacks | store, load, delete | `SecureStore` |
| C interface | `vault_ffi` | a handle with one vault | open, unlock, second factor, reveal, lock, thin calls of the store | `Handles` |
| JNI bridge | `mobile/vault_jni` | one vault for the process | unlock, reveal, lock, ... | `Handles` |
| command line | `vault_cli` | none between runs | one command per run; import, backup, delete, ... | `Cli`, `Suggest`, `Backup` |
| data handlers | `vault_web/src/api_data.rs` | none | one store call each | `Backup`, `Accounts`, under the checks of `WebSession` |
| session policy | `vault_store/src/session.rs` | two times | compare them with the clock | not modelled |
| web page, Dart screens | `vault_web/src/index.html`, `mobile` | input and output | | not modelled |

**How they interact.** Every store operation opens its own connection to the
vault file (`open_connection` migrates it first); the web server keeps one open
in its session. Nothing but SQLite's own locks is between two connections, and
apart from `enable_fdek` and the single statements no operation of the store is
a transaction. The web handlers share an `AppState` under two mutexes which they
take and release several times per request. `bind` reads a kit from the open
vault and uploads it to the recovery service; `verify_code` fetches it for a
mailed code; `reset` applies it to the file. Web server and service talk
over HTTP: the web server gives up after ten seconds, the service may take twenty
to send a mail. The recovery service handles requests concurrently under one
mutex and keeps the bindings in a database. The command line and the C interface
call the store directly, each in its own process, next to a web server that may
have the same file open.

**What is hard.**

- Operations of several statements: a crash, an error or another connection may
  come after each of them (`change_master_password`, `regenerate_recovery_key`,
  `recover`, `recover_with_kit`, `update_account`, `migrate`, `initialize`).
- State read before a slow step and used after it: the lock before the key
  derivation, the counter before it is written back, the session token before
  the work, the reset token before the rewrap, `has_fdek` for the whole life of
  a `Vault`, the kit while its upload is on the way.
- Things outside the file that go stale: kits, backups, open sessions.
- A call whose answer is lost, or that is done after it was given up: what the
  vault, the web server and the service each believe of a binding or a code.
- Time: lock, idle timeout, code, token, quota window, each racing the answer.
- A file of any of five releases, opened by this one.
- Free text, in which a label may be part of another one, of a value or of a
  sentence, and from which accounts with passwords are created.

## 2. Modules

One module per component; an action is one statement, or one stretch of code
under one lock. Constants are parameters with named assumptions.

### VaultKeys (and its abstract specification Keyring)

State: `dekwrap`, `recoverywrap`, `fdek_wrap`, `fdek_wrap_recovery` are the four
columns of `meta`, each the pair *(credential that opens it, key inside)*; `rows`
is the key that each high-sensitivity field is sealed under; `vault[a]` is the
open `Vault` of connection `a`; `op[a]` is the operation in flight with the
locals that it carries from one statement to the next; `kit` and `uploads` are
the kit held by the service and those on their way. An operation of several
UPDATEs has an action for each (`ChangeDek`, `ChangeFdek`; `RegenerateDek`,
`RegenerateFdek`, `RegenerateReturn`; `RecoverReadDek` ... `RecoverFdek`;
`KitDek`, `KitFdek`, `KitRecovery`); `enable_fdek` is one action because its
statements are one transaction. `StatementFails` and `Crash` may come in between.
A random key is taken from the ones not yet minted. The service is reduced to an
upsert; how it guards the kit is in `RecoveryService` and `EmailFlow`.

`past` records three events that some properties except: an operation that did
not reach its end, a reset by kit, an FDEK added to an old vault. `alone` records
that no two operations have been between the statements that rewrite wraps at the
same time. No action reads either.

`Keyring` says what all this is for, in a few lines: a vault has two keys that
are made once and never change, and a field is always under the stronger one.
`Ring == INSTANCE Keyring WITH dek <- dekwrap.payload, ...` is the refinement
mapping; password changes, rotations, resets, kits, crashes and interleavings
all map to stuttering.

### Lockout

The counter and the lock with the three operations under it. Each looks at the
lock (`Begin`), derives a key, and then resets (`Succeed`) or reads the counter
(`ReadCounter`) and writes it back (`WriteCounter`) in another statement; the end
of a lock is counted from the `now_ms` taken at the beginning, so an attempt
carries its age. `recover` resets without looking. `answered`, `gap` and `alone`
only record what happened, and the properties compare the code's counter and lock
with them.

### RecoveryService

`challenge` takes the mutex twice and mails in between, so it is `Count`, `Mail`
and `Register`; `verify` and `redeem` hold it throughout. Failures of the store
and of the mail are actions; a code or token that was used up before the failing
call stays used up. `Restart` keeps the bindings only. A request id whose
entries nothing can use any more is taken again, which stands for the endless
supply of random ids; `Dead` says when. `handed` records the answers and kits
given for a request.

### EmailFlow

The web server's side of the email reset over `RecoveryService`, which it
EXTENDS: an action of the service is here an action of the web server's call too.
A request for a code passes the web server's quota (`Admit`), then reaches the
service or not (`AskLost`, `AskRefused`, `Ask`), and its answer comes back or is
given up (`AskTimeout`), in which case the code may still be mailed. `verify_code`
is `CodeRight`, when the service has used up the code, and `Fill`, when the web
server puts the new token in the place of the reset under way; `LoseAnswer` is
what lies between. `reset` takes the token under the mutex (`ResetTake`), rewraps
without it (`ResetApply`) and clears slot and session (`ResetClear`). `bind` packs
the kit (`BindPack`), uploads it (`BindUpload`, or after it was given up, "stray")
and records the contact (`BindRecord`) if its session is still there. `wraps` are
the recovery keys of the two recovery wraps, numbered in the order in which they
were made, and a kit is a copy of it. Either server restarts (`WebRestart`,
`ServiceRestart`). `stands` and `unbound` only record what happened.

### Schema

The file as the set of columns that some release added, and per connection the
next statement of `migrate`. `Statements` is that function as a table: for each
statement the version below which it runs (read once, at the start), the column
it adds or the version it stores. The table keeps the order of the code, in which
the block of version 4 precedes that of version 3. `initialize` is the path
check, the opening, the creation of the tables and the insertion of the row.

### Accounts, Backup, Notes

A write is its row, a DELETE of all secrets, an INSERT for each one, and the
audit record. A secret that requires the second factor is sealed just before its
INSERT, when the old ones are gone. Deletions cascade, and an INSERT for an
account that has been purged fails on the foreign key. `account[id].asked` is
the input last written, `intact` says that this write came to its end with no
other write of the account in between (`sole` in the operation): the properties
are relative to them.

`Reads` adds the details (`DetailRow`, `DetailFields`) and the revealed values
(`Reveal`), which are read first, recorded then (`Record`) and handed over last
(`HandOver`), and the emptying of the log, a DELETE and then a record of its own
(`PurgeLog`, `PurgeRecorded`). Another connection may come in between any two of
these, and a failure or a crash end them there. `log` is the set of records with
their row numbers, which are never given again; `shown` is what was handed over,
by its record, so that the property can ask for that very record, or for one of a
later emptying. `silent` notes an emptying that stopped between its two statements.

`Backup` extends `Accounts` with `export_backup` (one open SELECT statement, so one state
of the file) and `import_backup` (a creation per entry, going on after errors).
`saved` and `whole` record what was exported and whether an import was disturbed.

`Notes` is the parser of a text as pure definitions: `SplitBlocks` cuts it into
blocks, `Hits` finds the labels of a line, `Pairs` their values, and `ParseBlock`
puts a candidate together, where the first value of a field is kept and a block
without a password is guessed. A text is made of tokens, not of characters: a
label is one or two tokens, so that some are part of others ("password" of
"payment password", "name" and "site" of "site name"), which is what the order of
`Labels` is there for. `Backup` imports what it finds (`NotesBegin`, `NotesEntry`,
`NotesRefused`). The text is chosen at the beginning and never changes; `page` is
what was found in it and what its author wrote down, and `made` the accounts that
the import created. `NotesImported` compares the three. `MCBackup` writes the
texts: an author with some accounts in mind renders them in each layout.

### WebSession

A protected request passes `require_session` (`Enter`), the check in `with_vault`
or `with_second_factor` (`Check`), and uses the session under a third lock of the
mutex (`Use`). `unlock` derives its key outside (`UnlockVerify`) and then replaces
the session (`UnlockInstall`). `recover` and the email reset rewrap the file
without the mutex and drop the session later. `stale` marks a session or an
unlock under way whose password has been reset (`LateUnlock` is the step in which
such an unlock installs its session), `spent` counts the resets done
with a token, `alone` that no two requests have overlapped.

### Handles

The C interface and the JNI bridge, on `Lockout`: `Handles` EXTENDS it, so that a
call that takes a password is an attempt there, with what it checks the password
against read (`ReadWrap`) between the lock's check and its answer. Other processes
rewrap either key at any time (`OtherProcess`). A handle is what `unlock` read: is
there an FDEK, and since the second factor, is it cached. `reveal` is second
factor and value in one call (`RevealSecret`, `ReadWrap`, `Accepted`, `Lookup`);
the bridge's asks for no password. `fair` records that the password of a call was
right at some instant of it.

### SecureStore, ServiceFiles

Files written in several steps by processes that lock nothing and may stop after
any of them: the entries of `FileSecureStore` (`Truncate`, `WriteFile`,
`LookForFile`, `ReadFile`, `RemoveFile`), with the other two implementations
beside it as calls of one step, and the token file (`LookForToken`, `CreateToken`,
`WriteToken`) and mail files (`CreateMessage`, `CreateConfig`, `Curl`) of the
recovery service. `certain` and `fault` record what the properties except.

### Cli, Suggest

A run of the tool goes from command to command step by step; the store's
operations are one step with an outcome, except `delete`, which lists, matches a
name in its own code and deletes by identifier. `Suggest` is the edit distance,
row by row as in the code, and the choice of the suggested command.

## 3. Runs

| Run | Instance | Checked | Shows |
|---|---|---|---|
| `VK_keys` | 2 connections, or 1 with a recovery key more; a new vault or one of version 2, whose FDEK is enabled while no other connection has it open; 2 passwords, 3 recovery keys, 2 FDEKs, 1 field, 1 upload | `TypeOK OneDek NoMixedRows NoDataLost PasswordsAgree RepairPossible RotationRevokesLocally KeepsKeyring` | With every operation, fault and kit in any order there is one DEK and one FDEK, and each stored field opens with a known credential at every instant; enabling the FDEK loses nothing. While no two operations rewrite wraps at a time, those that reach their end leave one master password, a reset repairs an interrupted password change, and a displayed rotation revokes the older keys in the file. |
| `RS_codes` | 1 contact, 3 request ids, quota 2, window 2, 2 tries | `TypeOK QuotaHolds KitOnlyForCode LimitLifts` | No window has more codes than the quota; a kit leaves only for a mailed code, in its time, once for it and once for its token; a contact at its limit is served again. |
| `SC_any` | 2 connections; no file, or one of any release 1 to 5 | `VersionVouches OpenIsCurrent OpenSucceeds` | Which columns a stored version vouches for, on which files an operation may start, and that every file gets to be opened. |
| `WS_requests` | 2 requests at a time, 3 session and 2 reset tokens | `TypeOK UseIsActive ResetEndsSessions TokenOnce ExpiredStaysExpired` | Who gets through both checks works in an active session, an expired one is never revived. However requests overlap, only an unlock that verified the old password before a reset brings a session of that password after it; without overlap a token resets once. |
| `AC_vault` | 2 ids, 2 fields; 2 connections that write or read, or 1 with backups or texts | `TypeOK NoOrphans StoredAsWritten ShownIsAudited ImportRestores NotesImported` | No secret outlives its account; a write that ran to its end alone is the account, whatever was left there before; what is handed over has its own audit record, or the log was emptied since and says so; an import that nothing disturbs gives back every account with the secrets it was saved with, or creates from a text the accounts written down in it, with their secrets and no others. |
| `EF_mail` | 1 contact, 2 request ids, 2 bind requests, 2 recovery keys; one part of the flow at a time | `RecordedIsBound LastBindStands KitOfToken QuotasLetThrough` | Whatever call is lost, late, cut off by a lock or a restart: a vault that says it is bound is bound, an undisturbed bind leaves a kit the last key opens, a reset uses the kit of its own token, and the two quotas in a row let a persistent user through. |
| `DEV_parts` | one of six parts at a time: 2 connections with the backoff lock; 1 thread of the C interface and 1 of the bridge; 2 clients of a key store; 2 services and 1 web server; 2 runs of the tool; a word | `CounterExact BackoffServed LockBounded RevealedForPassword LoadsStored TokensAgree CredentialsRemoved DeletesNamed SuggestsNearest LockEnds` | No lock exceeds the maximum and every lock ends, however attempts overlap; the count is exact and the backoff is served while they do not. A sensitive value leaves only for the right password of that call. A key stored whole and alone is the key loaded. Services and servers agree on the token. Mail files are removed. `delete` hits the one account named. The suggestion is a nearest command. |
| `VK_kit_rollback` | 1 connection, any vault | refutes `RecoveryKeysAgree` | Section 6. |
| `SC_crash` | 1 connection, releases 1 to 4 | refutes `Reopenable` | Section 6. |
| `WS_old_session` | 2 requests | refutes `SessionsEnd` | Section 6. |
| `AC_half_written` | 1 connection, 1 id; no failure, no deletion | refutes `WrittenWhole` | Section 6. |
| `EF_unbind` | that of `EF_mail` | refutes `UnbindEndsMail` | Section 6. |

Run one with `tlc -config VK_keys.cfg MCVaultKeys.tla`. Each takes from a second
to about three minutes. `DEV_parts`, `EF_mail`, `AC_vault` and `VK_keys` join
instances that share constants: the variable `part` (`acting` in `MCVaultKeys`)
is chosen in the initial state and never changes, so that a run is the union of
separate state spaces. For every property, `PROJECT.json` names a mutant of the
code (a dropped guard, a wrong column, a swapped argument) under which TLC finds
it violated; the mutants are the operators whose comment says so, next to the
definition they change.

**Bounds, and why they are enough.**

- *Connections*: the code shares nothing between two connections but the file,
  so the hazards are those of a pair; the proofs cover any number.
- *Keys and passwords*: a reset needs an old and a new one; a rotation after a
  rotation needs the third recovery key, which the instance with one connection
  has and the one with two does not. On a vault of version 2, two connections have
  one recovery key less again once the FDEK is enabled, so that rotation and kits meet
  either the vault without or the vault with an FDEK. Two FDEKs leave one over
  that a wrong operation could install.
- *Fields of `VaultKeys`*: `rows` is written one at a time or all at once, and no
  action relates two of them.
- *`MaxUploads`*: one kit on its way may be delayed past any number of later
  operations; two on their way differ only in which comes last.
- *Lockout*: two connections; the threshold is the code's. 6 units stands for the cap that 8 would
  exceed, so all lengths, the cap and the saturated counter (8 in place of
  2^32 - 1) occur. `MaxAge` 1 lets an attempt outlast the shortest lock.
- *RecoveryService*: contacts are independent keys of the same maps, and the
  proofs cover several. Three ids with a quota of two let the third be refused,
  counted later and taken again. Each lifetime is passed by at least one unit.
- *Schema*: none beyond two connections; all releases are initial states.
- *Accounts*: a user's input gives one value to all its fields, and the two
  fields are one with and one without the second factor. There is a single
  value: rows of two writers are told apart by `by`, and what is left of an older
  input, or comes from another account's, by the fields that are given; the
  proofs cover several. Two connections have at most one account at a time that
  is not as last written. When reads are among the operations there are one account
  and one write in flight at a time, the account is written with both fields before the
  first record is made (it may be trashed, restored or purged later), and of three
  records (`MaxRows`) two are in the log or handed over at a time: so that a read is
  recorded, the log emptied and that recorded before the value is handed over,
  or both connections empty the log at once.
- *Texts*: an account with either or both passwords in each of the layouts of
  `import.rs:3-8` and each style (long or short labels, colon or blank, order of the
  passwords); two accounts with each kind of separating line; one after a block
  without a name. Of the labels, those that share a piece with another one and one
  for each other field. No value contains a label that a value follows.
- *WebSession*: an idle timeout of 1 and requests that last up to 1 let every
  expiry fall inside a request.
- *EmailFlow*: the four parts are the quotas (restarts of both sides, no codes
  typed), the codes (loss, expiry, wrong codes, one bind), the tokens (two codes
  verified across a rotation and a bind) and the kits (two binds that overlap,
  unbind, rotation, restarts, an older kit used; one code). One contact suffices:
  the vault records one. Two codes let one be verified during the reset of
  another, two keys make one kit older than another, and windows of 2 let both
  quotas fill and empty at different instants. `TokenTtl` is 0, since this flow
  never redeems.
- *Handles*: two failures before the first lock, so that lock, wrong and right
  passwords all occur in a call; no wrong password after a success, and time only
  within a lock. Which password is right changes between two.
- *SecureStore*: two names of one file, a secret within and one over the native
  limit, two clients. *ServiceFiles*: two starts that race, a web server, two
  tokens drawn. *Cli*: two accounts of which one name may contain the other; one
  run that deletes, another that does anything else, and a process that renames.
  *Suggest*: every word of up to four of two letters against three commands of
  different lengths.
- Ages stop one past the last bound that any guard compares them
  with, in every module.

Symmetry is used for sets of model values, in runs with safety properties only;
the exception is `EF_mail`, whose symmetry is that of bind requests and whose
temporal property is about a part in which nothing is bound.
`CHECK_DEADLOCK FALSE` is set where the supply of random keys ends (`VaultKeys`)
and where every request id is in use (`RecoveryService`, `EmailFlow`), which are
bounds, and in `DEV_parts`, where a run of the tool and a suggestion come to their
end.

**Fairness.** `Lockout`: time passes, and an attempt that has begun ends, being
one bounded computation and two statements; nobody has to try. `RecoveryService`:
time passes; nothing is assumed of clients, mail or process. `EmailFlow`: time
passes, a user asks whenever the web server's quota admits it, the service
finishes what it began, and of infinitely many requests one reaches the service
(strong fairness, since each of them may be lost); `QuotasLetThrough` is about
such a user. `Schema`: an
operation that has begun to open the file runs on; its statements are a fixed
list. It may still fail, and `OpenSucceeds` is about openings that do not
(`calm`). The other modules need no fairness.

## 4. Proofs

TLAPS checks all of them, for every value of the constants under the modules'
assumptions. Those say that constants of different kinds are distinct (`None`,
`NoFile`, `Absent` and `Torn` are no value, token number or secret), that bounds
are naturals, and where a finite set of ids or accounts is counted, that it is
finite. Beyond that, `EmailFlow` takes kits to be pairs of keys, `Cli` that a name
contains itself, `Suggest` that commands are sequences of letters, and `Backup` that every text has an author with at least one
account and that what is recognized in it is among the inputs that are told apart.

### VaultKeysProofs

`TypeCorrect`, `DekNeverLost`, `PasswordsAlwaysAgree`, `RepairAlwaysPossible`,
`RotationAlwaysRevokes`, `NoDataLostUntilEnabled` (every vault, `Spec`);
`NoMixedRowsEver`, `NoDataEverLost`, `ImplementsKeyring` (vaults made by
`initialize`, `FreshSpec`); `NoMixedRowsOld`, `NoDataEverLostOld`,
`ImplementsKeyringOld` (every vault, `CarefulSpec`).

`DekInv` adds to `OneDek` the DEK that operations in flight and fetched kits carry:
a stale read is harmless because there is nothing else to read. `FreshInv` says
the same of the FDEK: every wrap, kit, cache and operation has the one FDEK, open
vaults know they have it, and its wrap is under a password. Each action preserves
them; refinement follows since an action that writes a wrap writes the key that
was there.

A vault of version 2 has no FDEK to begin with. `OldInv` says what that means:
every field is under the DEK, and no kit, open vault or operation has seen an FDEK,
so that none writes a wrap of one. It holds until `enable_fdek`, with any number of
connections. What comes then is `FreshInv` again, with one difference: kits and
recoveries that began before have no FDEK and leave its wraps alone. But
the step from one to the other needs that no other connection has the vault open
(`EnabledAlone`, the only restriction of `CarefulSpec`): another one keeps
`has_fdek` as it was when it opened, and goes on sealing under the DEK. That is a
behaviour of the code (section 6) and why those three theorems are not about
`Spec`. `EveryInduction` joins the cases: new, old, or enabled late, which the
three properties about credentials except.

`PasswordsAlwaysAgree`, `RepairAlwaysPossible` and `RotationAlwaysRevokes` are
about which *credential* a wrap is under, and need `alone`: two operations that cross can leave any mixture. `MintInv` orders the life of a
recovery key (generated, shown, retired). `AgreeInv`: between the statements of a
rewrap the DEK is already under the password the operation carries and the FDEK
about to follow, and otherwise both are under one. `RotateInv`: the two recovery
wraps differ only over a key that nobody has seen yet. `OldRotateInv` is the same
for the one recovery wrap that a vault without an FDEK has.

### LockoutProofs

`LockoutTypeCorrect`, `LockAlwaysBounded`, `CounterAlwaysExact`,
`BackoffAlwaysServed` of `Lockout`; `HandlesImplementLockout`, `HandlesKeepTheLock`,
`AlwaysRevealedForPassword` of `Handles`.

`Serial`: while `alone` holds at most one attempt is in flight, and what it has
read is what is stored. `BackoffServed` also needs that what is left of a lock and
the time since the guess that began it make up its length. Every step of `Handles`
is a step or a stutter of `Lockout` (the identity is the refinement mapping, since
`Handles` extends it), so what holds of the lock holds behind both interfaces.
`FairInv`: a call whose password is right now, was right when it read the wrap, or
has been verified, is `fair`; an attempt belongs to a call and is over once
that call is verified; the bridge never has the FDEK.

### RecoveryServiceProofs and EmailFlowProofs

`ServiceTypeCorrect`, `KitNeedsCode`, `QuotaAlwaysHolds` of `RecoveryService`. A
request handed out once is no longer open, its token is used or live; every recent
request of a contact is still in its log, and the log was pruned by age only.

`FlowImplementsService`: every action of the web server that contains one of the
service is that one, and every other is a stutter; the step lemmas need the types
of `EmailFlow`, since an upload has to be of a kit. Hence `FlowKitNeedsCode` and
`FlowQuotaHolds`: both carry over to the whole flow. `KitAlwaysOfToken` rests on
`TokenInv`: token and kit in the slot are those of one page, and a page whose code
has not been mailed yet has no token. `RecordedAlwaysBound` and
`LastBindAlwaysStands` rest on `BindInv`: an uploaded bind has a binding at the
service; one that is still `alone` has no other beside it and finds its own kit
there; and while `stands` holds, every bind under way carries the current wraps.

### SchemaProofs

`SchemaTypeCorrect`, `VersionAlwaysVouches`, `OpenAlwaysCurrent`, `CalmIsReopenable`.

`VouchInv`: a connection past a statement of its migration has run it or read a
version that did not need it; columns only grow. `OpenIsCurrent` has two cases with
an invariant each. `Modern`, for files made without version 1 or 2: only version
3 can be seen by who still has a version to store besides the last, and who
stores 4 read 3, which is there until then, so the version never goes back, however many migrate. `Calm`, for any file while openings neither
overlap nor fail: at most one connection opens, and the statements it has
left are the ones whose columns are missing. `CalmIsReopenable` is the positive side of
the run `SC_crash`: what that one refutes takes a fault or an overlap.

### WebSessionProofs

`WebTypeCorrect`, `UseAlwaysActive`, `ExpiredForever`, `ResetsEndSessions`,
`TokenSpentOnce`. The age of a request counts from its second check, which touches
the session, and both age together; `UseIsActive` is therefore about the session
that is there, which may be another one than the request checked.
`ResetsEndSessions` is an action property and needs no `alone`: a step of a reset
either leaves a reset under way or drops the session, and of the other steps only a
`LateUnlock` puts a stale session in place (`EndedStays`). While `alone` holds only
one request is at work (`Serial`), and a spent token is in the slot only until it is
cleared.

### AccountsProofs

`AccountsTypeCorrect`, `NeverOrphans`, `AlwaysStoredAsWritten` of `Accounts`;
`ReadsImplementAccounts`, `ShownAlwaysAudited` of `Reads`; `ImportsKeepAccounts`,
`ImportAlwaysRestores`, `NotesAlwaysImported` of `Backup`.

`SoleInv`: a write marked `sole` is the only one of its account. `WrittenInv`: it
has stored exactly what it no longer has to do. `IntactInv`: an intact account has
just its input, and nobody writes it. `Reads` adds steps that leave the accounts
alone; `ReadsInv`: what is about to be handed over is accounted for as well as what
was, since a record goes only with all of the log, and that leaves one of itself or is
`silent`. `Backup` adds creations, so
that the same invariants hold; `SavedInv` says that an entry of the file has one
secret of each field that had any when it was saved, and `RestoredInv` that what an undisturbed
import has taken from its queue is an account with that input, written whole or
being written by that import alone. Two entries are never confused: each made an
account of its own, and nobody else wrote since.

`NotesAlwaysImported` is the same for texts, where order counts. It has a
hypothesis, `Understood`, which is about the texts and not about the vault: the
candidates with a name are the accounts that the author wrote down, one by one.
`NotesInv`: an undisturbed import has passed some candidates, has made as many
accounts as those of them that have a name, and the *i*-th account is `Restored`
from the *i*-th one written down. A creation takes the next, a refused candidate
makes no account and does not shift those that follow.

### PartsProofs

`TokensAlwaysAgree`, `CredentialsAlwaysRemoved` (`ServiceFiles`), `DeleteAlwaysNamed`
(`Cli`), `AlwaysLoadsStored` (`SecureStore`), `DistanceIsEdits`, `AlwaysNearest`
(`Suggest`): four parts that share nothing.
`TokenFileInv`: only one process is between creating and writing the token file,
since creation is exclusive, and who is up read what is in it or found it empty; those who found it empty have no
token, and `TokensAgree` is about the others.
`MailFilesInv`: the files there are those of the step a mail is at. `DeletesNamed`
is inductive with its types, by the finiteness of the accounts. `KeptInv`: an
entry that is `certain` is what was asked for; a call marked `solo` is the only one
of its file; and a load that saw the file, alone, still sees it.

`DistanceIsEdits` is about data: for words of any length, the table that the tool
fills row by row has at most *n* in its last cell, *n* up to two, exactly if *n*
single edits make one word of the other. One direction is `EditNears`: an edit
changes no row by more than one (`SameRows` before it, `NextRow` or `RowBelow` at
it, `Onward` after it), so that edits cannot fall behind the distance. The other is `EveryCellSays`, cell by cell: what
a cell adds to a neighbour is an edit of the last letter (`DropSays`, `AddSays`,
`BothSay`). The induction is over sets of indices (`SetInduction`, from the least
element of the ones that fail), since the library's own takes an operator as a
parameter. `AlwaysNearest` follows: the command suggested is one of the nearest.

The invariants are defined next to the properties they strengthen (or at the head
of the proof modules) and were checked by TLC before they were proved.

### What stays with TLC

- `LockEnds`, `LimitLifts`, `OpenSucceeds` and `QuotasLetThrough` are liveness under
  fairness, which the prover does not handle.
- `Understood`, the hypothesis of `NotesAlwaysImported`, that `ParseNotes` finds in
  a text what its author wrote down. It depends on the layout of the text, and
  `NotesImported` is checked on each layout, style and separator that the bounds
  describe: there TLC runs the parser as well as the import.
- The properties that the five violation runs refute. Of `Reopenable` the part that
  holds is proved (`CalmIsReopenable`).

## 5. How to read a property with an exception

Several properties hold only while something has not happened: `alone` in
`Lockout`, `WebSession` and `VaultKeys`, `LateUnlock` in `WebSession`, `silent` in
`Reads`, `stands` in `EmailFlow`, `certain` in `SecureStore`,
`fault` in `ServiceFiles`, `calm` in `Schema`, `intact` in `Accounts`, `whole` in
`Backup`, `Never(...)` in `VaultKeys`. In each case the exception was found, not
assumed: without it TLC shows a behaviour of the code. The next section lists them.

## 6. Where the code does something else

Kept as runs, each against a sentence of the repository:

- **Reset with an old kit** (`VK_kit_rollback`, `recovery_link.rs:166`). A kit from
  before a rotation brings back the FDEK's recovery wrap of that time, so the two
  recovery wraps are under different keys and `recover` refuses the key that the
  user was last shown. `vault.rs:194` says they must be updated together.
- **A crash inside a migration** (`SC_crash`, `schema.rs:103`). A column is there and
  the version that needs it is not stored: the next opening adds it again, which
  fails, and so does every later one.
- **A session that outlives a reset** (`WS_old_session`, `api.rs:203`). An unlock
  that verified the old password before a reset installs its session after it.
- **A half-written account** (`AC_half_written`, `accounts.rs:144`). An update
  without the second factor deletes the secrets it found, a login password in the
  trace, and then cannot seal the new ones. No statement fails in this run and
  nobody else writes: a failing statement or a crash between the DELETE and the last
  INSERT has the same effect. `accounts.rs:61` says that the sensitive fields are
  replaced as a whole.
- **Unbinding** (`EF_unbind`, `api_recovery.rs:149`). It changes the local record
  only; the service keeps binding and kit, and a code asked for afterwards still
  resets the password. The page says that it no longer can (`index.html:985`).

Seen while modelling, and excepted in the properties above:

- A password change that is interrupted leaves two master passwords, one for
  each wrap, until the next change or reset (`vault.rs:161`). `enable_fdek` wraps
  the FDEK under whatever password it is given (`fdek.rs:130`).
- A rotation that is interrupted may leave a wrap under a key nobody has seen
  (`vault.rs:204`).
- Two operations that rewrite wraps at the same time, such as a password change in
  the command line during a reset in the web server, may leave each wrap as the
  later one wrote it: two master passwords, or two recovery keys (`vault.rs:161`,
  `vault.rs:204`, `vault.rs:383`). No data is lost by it (`NoDataLost`).
- A kit from before a rotation still resets the password: a rotation revokes the
  old key in the file, not at the service. A kit from before `enable_fdek` resets
  the DEK's password only.
- With two connections to a vault of version 2, the second one does not notice
  that the first enabled the FDEK: it goes on sealing under the DEK, and may
  enable another FDEK of its own (`vault.rs:120`, `fdek.rs:141`).
- Two wrong passwords at a time may count as one, and one that is answered late
  writes the old count over a success (`lockout.rs:66`).
- Two connections that migrate a file of version 1 or 2 at a time may work on it
  half migrated, and one of them fails.
- An `initialize` that stops half way leaves a file that it then refuses, and
  that the web page's status takes for a vault (`vault.rs:249`).
- Two requests with one reset token both reset (`api_reset.rs:208`); the later
  one drops a reset verified in between. A request that was checked may work in
  the session of an unlock that came after it.
- A session ends only when a request finds it expired: without one it stays open
  in memory (`docs/09-使用指南.md:41` says that closing the browser ends it).
- Two overlapping updates of an account may leave a field with two rows
  (`accounts.rs:148`); the next whole update clears them, and an export takes one.
- Accounts in the trash are exported and come back as live ones (`backup.rs:94`).
- In a line of notes a label is found only at its first place (`import_parse.rs:144`):
  where no value follows that one, as in a remark before the password, the label
  further on is not seen. In a block with a labelled user name, no password and two
  more texts, the guess replaces the labelled name (`import.rs:115`).
- A kit used after a rotation, and then a bind: the kit uploaded has its two wraps
  under different keys, and no recovery key opens both.
- A code verified while another reset is being applied is lost when that one
  finishes (`api_reset.rs:229`): the slot is cleared whichever token is in it. A
  code whose answer is lost is used up (`api_reset.rs:150`).
- `lock_second_factor` is called by tests only: web server, C handle and demo seed
  keep the FDEK until the vault is locked, though `fdek.rs:19` calls the cache short.
- The JNI bridge has no second factor: on a vault with an FDEK, creating an account
  with a sensitive field leaves the half-written account of `AC_half_written`, and
  a `lock` during an `unlock` under way is undone by it.
- `FileSecureStore` looks for the file before it reads or removes it, so a racing
  delete makes an error of what the trait calls no entry (`secure_store.rs:126`);
  through the callbacks, deleting a missing entry is an error too.
- A service killed in its first start leaves an empty token file for ever, and one
  that read it empty refuses every request (`recovery_service/src/main.rs:24`).
- A mail file stays where writing it, or the other one, fails (`mailer.rs:76`); they
  are removed after `curl` only, with or without success.
- `get_account` reads the row and the fields in two statements, between which the
  account may change (`accounts_read.rs:19`); `reveal` shows the values of trashed
  accounts; `data_summary` counts at three instants. Audit records are made after
  the change, so a crash leaves a change without one.
- Emptying the audit log is a DELETE and then a record of it: where the second
  statement fails or the process stops between them, the log is empty and nothing says
  why (`compliance.rs:59`).
- The recovery service's count of challenges and tokens includes those that are
  expired or used (`lib.rs:335`).

## 7. What is abstracted or left out

- Ciphers, key derivation and encodings are perfect: a wrap opens with its key and
  nothing else, a seal with its key. A code is answered right only by who has the
  mail. Random keys, ids and tokens do not repeat while in use.
- A single statement is atomic and durable once it returns, as SQLite makes it.
- In notes: upper and lower case, the marks that are treated like those modelled,
  and the synonyms that share no piece with another label.
- Audit records of writes are the last statement of an operation and nothing reads
  them; a failure there is a failure at the end.
- The range of the shift and of the sum in the length of a lock: the code caps the
  exponent at 3 before it shifts and adds with saturation (`lockout.rs:74-80`);
  `LockTime` is the table of the four lengths that come of it.
- `enable_fdek` takes any recovery key of the right form; in `VaultKeys` one that
  some rotation or `initialize` has shown. An FDEK enabled late is excepted wherever that matters.
- `set_hint`, tags, categories, search, the masked preview of a secret, and lists:
  one statement each that nothing modelled depends on.
- Of the web server: the origin check, the mapping of errors to status codes, the
  CSV of the audit log.
- Of the recovery service: the arguments, the text of the mail, the SMTP exchange.
- Of the C interface: the slot of the last error and the ownership of pointers,
  which are the caller's; of the command line: arguments and what is printed.

**Not modelled**: `session.rs` (two deadlines compared with the clock, in an object
that no other code makes or consults), the web page and the Dart screens, which
keep no state that anything modelled depends on.

## 8. Plan

Done, in this order: `VaultKeys` (the core), `Lockout`, `RecoveryService`,
`Schema`, `WebSession`, `Accounts`, `Backup`, `Keyring`, with their proofs;
`Notes`; `EmailFlow`, `Reads`, `Handles`, `SecureStore`, `ServiceFiles`, `Cli` and
`Suggest`, with their proofs. Every part that has a state of its own is in a module,
and every safety property of a passing run is a theorem: `NotesImported` for texts that
are understood, and what `VaultKeys` says of the FDEK of old vaults for one that is
enabled carefully, as section 4 explains. Next:

1. `WebSession` and `EmailFlow`: the reset of one is the reset of the other; state
   the web server's part they share once, and prove that both implement it.
2. `Notes`: for which layouts a text is understood whatever its values are, as
   lemmas about `Hits` and `Pairs`.
