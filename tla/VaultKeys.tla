----------------------------- MODULE VaultKeys -----------------------------
(***************************************************************************)
(* The key hierarchy of a vault file and every operation that rewrites it  *)
(* (vault_store/src/vault.rs, fdek.rs, recovery_link.rs over the wraps of  *)
(* security_core).                                                         *)
(*                                                                         *)
(* The vault file keeps four wraps in its only meta row: the DEK under the *)
(* master password and under the recovery key, and the FDEK (the key of    *)
(* the high-sensitivity fields) under the same two.  An operation that     *)
(* changes a credential rewrites one wrap per autocommitted UPDATE, so     *)
(* each UPDATE is an action here, and a crash, a failing statement or      *)
(* another connection may come between two of them.                        *)
(*                                                                         *)
(* A wrap is abstracted to the credential that opens it and the key inside *)
(* (AES-GCM: any other credential fails to authenticate).  An actor is one *)
(* connection to the file: a web server, a CLI run, an application.        *)
(***************************************************************************)
EXTENDS Naturals, FiniteSets

CONSTANTS
  Actors,        \* connections to the vault file
  Passwords,     \* master passwords a user may type
  RecoveryKeys,  \* the supply of random recovery keys
  Fdeks,         \* the supply of random FDEKs
  Dek,           \* the vault's DEK
  Rows,          \* stored high-sensitivity fields
  None,          \* SQL NULL and Rust's None
  MaxUploads     \* bound: kit uploads in flight at once

ASSUME KeysDistinct ==
  /\ Passwords \cap RecoveryKeys = {}
  /\ Dek \notin Fdeks
  /\ None \notin Passwords \cup RecoveryKeys \cup Fdeks \cup {Dek}

DataKeys == Fdeks \cup {Dek}
Credentials == Passwords \cup RecoveryKeys

NoWrap == [key |-> None, payload |-> None]
NoKit  == [dek |-> NoWrap, fdek |-> NoWrap]
Closed == [dek |-> None, has_fdek |-> FALSE, cache |-> None]

WrapType  == [key : Credentials \cup {None}, payload : DataKeys \cup {None}]
KitType   == [dek : WrapType, fdek : WrapType]
VaultType == [dek : DataKeys \cup {None}, has_fdek : BOOLEAN,
              cache : DataKeys \cup {None}]

VARIABLES
  db,                  \* "none", "empty" (file, no meta row) or "ready"
  dekwrap,             \* meta.kdf_params and meta.dekwrap
  recoverywrap,        \* meta.recoverywrap
  fdek_wrap,           \* meta.fdek_kdf and meta.fdek_wrap
  fdek_wrap_recovery,  \* meta.fdek_wrap_recovery
  rows,                \* the key each stored high-sensitivity field is under
  kit,                 \* the recovery kit the recovery service holds
  uploads,             \* kits on their way to the recovery service
  vault,               \* per actor, its open Vault
  op,                  \* per actor, the operation in flight
  minted,              \* random keys generated so far
  shown,               \* recovery keys displayed to the user
  retired,             \* recovery keys replaced by a displayed one
  past,                \* which events of Events have happened
  alone                \* no two operations have rewritten wraps at a time

meta == <<dekwrap, recoverywrap, fdek_wrap, fdek_wrap_recovery>>
ghosts == <<minted, shown, retired, past>>
remote == <<kit, uploads>>
vars == <<db, meta, rows, remote, vault, op, ghosts, alone>>

\* What some properties except: an operation that did not reach its end, a
\* reset by kit, an FDEK added to an old vault.
Events == {"fault", "kit", "enable"}
Note(event) == past' = past \cup {event}
Never(event) == event \notin past

Stages == {"idle", "init", "init_insert", "unlock", "change_fdek",
           "regen_fdek", "regen_return", "recover_fdek", "recover_dek",
           "recover_rewrap", "kit", "kit_fdek", "kit_recovery"}

\* The locals an operation carries from one statement to the next.
OpType == [pc : Stages, pw : Passwords \cup {None},
           rk : RecoveryKeys \cup {None}, dek : DataKeys \cup {None},
           fdek : DataKeys \cup {None}, kit : KitType]
Idle == [pc |-> "idle", pw |-> None, rk |-> None, dek |-> None,
         fdek |-> None, kit |-> NoKit]

-----------------------------------------------------------------------------
(* Wraps (security_core/src/wrap.rs, vault.rs).                            *)

\* Mutant of WrapWith: the key and the plaintext arguments swapped.
WrapWithSwapped(key, payload) == [key |-> payload, payload |-> key]
WrapWith(key, payload) == [key |-> key, payload |-> payload]
Opens(key, wrap) == wrap # NoWrap /\ wrap.key = key

\* open_connection and is_initialized succeed on a file with its meta row.
CanOpen == db = "ready"
WrapExists == fdek_wrap # NoWrap
Begin(a) == op[a].pc = "idle"
At(a, stage) == op[a].pc = stage
IsOpen(a) == vault[a] # Closed
Goto(a, locals) == op' = [op EXCEPT ![a] = locals]
Advance(a, stage) == op' = [op EXCEPT ![a].pc = stage]
Finish(a) == op' = [op EXCEPT ![a] = Idle]
Fresh(S) == S \ minted

-----------------------------------------------------------------------------
(* initialize: the path check, the creation of the file with its tables,   *)
(* and the single INSERT of the meta row.                                  *)

InitializeCheck(a, pw) ==
  /\ Begin(a)
  /\ db = "none"
  /\ Goto(a, [Idle EXCEPT !.pc = "init", !.pw = pw])
  /\ UNCHANGED <<db, meta, rows, remote, vault, ghosts>>

InitializeCreate(a) ==
  /\ At(a, "init")
  /\ db' = IF db = "none" THEN "empty" ELSE db
  /\ Advance(a, "init_insert")
  /\ UNCHANGED <<meta, rows, remote, vault, ghosts>>

InitializeInsert(a, rk, f) ==
  /\ At(a, "init_insert")
  /\ db = "empty"
  /\ db' = "ready"
  /\ dekwrap' = WrapWith(op[a].pw, Dek)
  /\ recoverywrap' = WrapWith(rk, Dek)
  /\ fdek_wrap' = WrapWith(op[a].pw, f)
  /\ fdek_wrap_recovery' = WrapWith(rk, f)
  /\ minted' = minted \cup {rk, f}
  /\ shown' = shown \cup {rk}
  /\ Finish(a)
  /\ UNCHANGED <<rows, remote, vault, retired, past>>

\* The INSERT of a second initialize hits the primary key of the meta row.
InitializeConflict(a) ==
  /\ At(a, "init_insert")
  /\ db = "ready"
  /\ Finish(a)
  /\ UNCHANGED <<db, meta, rows, remote, vault, ghosts>>

-----------------------------------------------------------------------------
(* Sessions: unlock, the second factor, and the fields it guards.  A wrong *)
(* password or a lockout changes nothing here (module Lockout has them).   *)

UnlockDek(a, pw) ==
  /\ Begin(a)
  /\ CanOpen
  /\ Opens(pw, dekwrap)
  /\ Goto(a, [Idle EXCEPT !.pc = "unlock", !.dek = dekwrap.payload])
  /\ UNCHANGED <<db, meta, rows, remote, vault, ghosts>>

\* The has_fdek flag is read once, here, and kept for the Vault's life.
UnlockOpen(a) ==
  /\ At(a, "unlock")
  /\ vault' = [vault EXCEPT ![a] =
                 [dek |-> op[a].dek, has_fdek |-> WrapExists, cache |-> None]]
  /\ Finish(a)
  /\ UNCHANGED <<db, meta, rows, remote, ghosts>>

Close(a) ==
  /\ Begin(a)
  /\ IsOpen(a)
  /\ vault' = [vault EXCEPT ![a] = Closed]
  /\ UNCHANGED <<db, meta, rows, remote, op, ghosts>>

UnlockSecondFactor(a, pw) ==
  /\ Begin(a)
  /\ IsOpen(a)
  /\ vault[a].has_fdek
  /\ Opens(pw, fdek_wrap)
  /\ vault' = [vault EXCEPT ![a].cache = fdek_wrap.payload]
  /\ UNCHANGED <<db, meta, rows, remote, op, ghosts>>

LockSecondFactor(a) ==
  /\ Begin(a)
  /\ IsOpen(a)
  /\ vault' = [vault EXCEPT ![a].cache = None]
  /\ UNCHANGED <<db, meta, rows, remote, op, ghosts>>

\* Mutant of SealKey: falls back to the DEK when the FDEK is not cached.
SealKeyFallback(v) == IF v.has_fdek /\ v.cache # None THEN v.cache ELSE v.dek

\* The key of a high-sensitivity field; None is SecondFactorRequired.
SealKey(v) == IF v.has_fdek THEN v.cache ELSE v.dek

SealSecret(a, r) ==
  /\ Begin(a)
  /\ IsOpen(a)
  /\ SealKey(vault[a]) # None
  /\ rows' = [rows EXCEPT ![r] = SealKey(vault[a])]
  /\ UNCHANGED <<db, meta, remote, vault, op, ghosts>>

\* enable_fdek on a vault of the version without one: reseal and meta in one
\* transaction.  The password and the recovery key are whatever was typed.
EnableFdek(a, pw, rk, f) ==
  /\ Begin(a)
  /\ IsOpen(a)
  /\ ~vault[a].has_fdek
  /\ rk \in shown
  /\ \A r \in Rows : rows[r] \in {None, vault[a].dek}
  /\ rows' = [r \in Rows |-> IF rows[r] = None THEN None ELSE f]
  /\ fdek_wrap' = WrapWith(pw, f)
  /\ fdek_wrap_recovery' = WrapWith(rk, f)
  /\ vault' = [vault EXCEPT ![a].has_fdek = TRUE]
  /\ minted' = minted \cup {f}
  /\ Note("enable")
  /\ UNCHANGED <<db, dekwrap, recoverywrap, remote, op, shown, retired>>

-----------------------------------------------------------------------------
(* change_master_password: UPDATE of the DEK wrap, then of the FDEK wrap.  *)

\* Mutant of CapturedFdek: the DEK takes the place of the FDEK.
CapturedFdekDek(v) == IF v.has_fdek THEN v.dek ELSE None
\* The FDEK an operation rewraps; a vault with one needs it cached.
CapturedFdek(v) == IF v.has_fdek THEN v.cache ELSE None
\* Mutant of MayRewrap: the second factor is not required.
MayRewrapUnchecked(v) == v.dek # None
MayRewrap(v) == v.has_fdek => v.cache # None

ChangeDek(a, pw) ==
  /\ Begin(a)
  /\ IsOpen(a)
  /\ MayRewrap(vault[a])
  /\ dekwrap' = WrapWith(pw, vault[a].dek)
  /\ IF vault[a].has_fdek
       THEN Goto(a, [Idle EXCEPT !.pc = "change_fdek", !.pw = pw,
                                 !.fdek = CapturedFdek(vault[a])])
       ELSE Finish(a)
  /\ UNCHANGED <<db, recoverywrap, fdek_wrap, fdek_wrap_recovery, rows,
                 remote, vault, ghosts>>

ChangeFdek(a) ==
  /\ At(a, "change_fdek")
  /\ fdek_wrap' = WrapWith(op[a].pw, op[a].fdek)
  /\ Finish(a)
  /\ UNCHANGED <<db, dekwrap, recoverywrap, fdek_wrap_recovery, rows,
                 remote, vault, ghosts>>

-----------------------------------------------------------------------------
(* regenerate_recovery_key: the same two steps for the recovery key, which *)
(* is returned to the user only after the audit record of the last one.    *)

RegenerateDek(a, rk) ==
  /\ Begin(a)
  /\ IsOpen(a)
  /\ MayRewrap(vault[a])
  /\ recoverywrap' = WrapWith(rk, vault[a].dek)
  /\ minted' = minted \cup {rk}
  /\ Goto(a, [Idle EXCEPT !.rk = rk, !.fdek = CapturedFdek(vault[a]),
                !.pc = IF vault[a].has_fdek THEN "regen_fdek"
                                            ELSE "regen_return"])
  /\ UNCHANGED <<db, dekwrap, fdek_wrap, fdek_wrap_recovery, rows, remote,
                 vault, shown, retired, past>>

\* Mutant of RegenerateFdek: the FDEK stays under the old recovery key.
RegenerateFdekSkipped(a) ==
  /\ At(a, "regen_fdek")
  /\ Advance(a, "regen_return")
  /\ UNCHANGED <<db, meta, rows, remote, vault, ghosts>>

RegenerateFdek(a) ==
  /\ At(a, "regen_fdek")
  /\ fdek_wrap_recovery' = WrapWith(op[a].rk, op[a].fdek)
  /\ Advance(a, "regen_return")
  /\ UNCHANGED <<db, dekwrap, recoverywrap, fdek_wrap, rows, remote, vault,
                 ghosts>>

RegenerateReturn(a) ==
  /\ At(a, "regen_return")
  /\ retired' = shown
  /\ shown' = shown \cup {op[a].rk}
  /\ Finish(a)
  /\ UNCHANGED <<db, meta, rows, remote, vault, minted, past>>

-----------------------------------------------------------------------------
(* recover: with the recovery key and the wraps of this file.  The reads   *)
(* and the two UPDATEs are separate statements of one connection.          *)

RecoverReadDek(a, rk, pw) ==
  /\ Begin(a)
  /\ CanOpen
  /\ rk \in shown
  /\ Opens(rk, recoverywrap)
  /\ Goto(a, [Idle EXCEPT !.pc = "recover_fdek", !.rk = rk, !.pw = pw,
                          !.dek = recoverywrap.payload])
  /\ UNCHANGED <<db, meta, rows, remote, vault, ghosts>>

\* Mutant of RecoverReadFdek: the reset goes on without the FDEK.
RecoverReadFdekIgnored(a) ==
  /\ At(a, "recover_fdek")
  /\ Advance(a, "recover_dek")
  /\ UNCHANGED <<db, meta, rows, remote, vault, ghosts>>

\* A vault with an FDEK whose recovery wrap does not open refuses the reset.
RecoverReadFdek(a) ==
  /\ At(a, "recover_fdek")
  /\ \/ ~WrapExists /\ Advance(a, "recover_dek")
     \/ /\ WrapExists /\ Opens(op[a].rk, fdek_wrap_recovery)
        /\ op' = [op EXCEPT ![a].pc = "recover_dek",
                            ![a].fdek = fdek_wrap_recovery.payload]
     \/ /\ WrapExists /\ ~Opens(op[a].rk, fdek_wrap_recovery)
        /\ Finish(a)
  /\ UNCHANGED <<db, meta, rows, remote, vault, ghosts>>

\* Mutant of RecoverDek: the FDEK is wrapped as the DEK.
RecoverDekWrongKey(a) ==
  /\ At(a, "recover_dek")
  /\ op[a].fdek # None
  /\ dekwrap' = WrapWith(op[a].pw, op[a].fdek)
  /\ Advance(a, "recover_rewrap")
  /\ UNCHANGED <<db, recoverywrap, fdek_wrap, fdek_wrap_recovery, rows,
                 remote, vault, ghosts>>

RecoverDek(a) ==
  /\ At(a, "recover_dek")
  /\ dekwrap' = WrapWith(op[a].pw, op[a].dek)
  /\ IF op[a].fdek # None
       THEN Advance(a, "recover_rewrap")
       ELSE Finish(a)
  /\ UNCHANGED <<db, recoverywrap, fdek_wrap, fdek_wrap_recovery, rows,
                 remote, vault, ghosts>>

\* Mutant of RecoverFdek: the new wrap goes to the recovery column.
RecoverFdekWrongColumn(a) ==
  /\ At(a, "recover_rewrap")
  /\ fdek_wrap_recovery' = WrapWith(op[a].pw, op[a].fdek)
  /\ Finish(a)
  /\ UNCHANGED <<db, dekwrap, recoverywrap, fdek_wrap, rows, remote, vault,
                 ghosts>>

RecoverFdek(a) ==
  /\ At(a, "recover_rewrap")
  /\ fdek_wrap' = WrapWith(op[a].pw, op[a].fdek)
  /\ Finish(a)
  /\ UNCHANGED <<db, dekwrap, recoverywrap, fdek_wrap_recovery, rows,
                 remote, vault, ghosts>>

-----------------------------------------------------------------------------
(* The recovery kit: what recovery_kit packs, its upload to the recovery   *)
(* service (an upsert, module RecoveryService) and recover_with_kit.       *)

PackKit == [dek |-> recoverywrap, fdek |-> fdek_wrap_recovery]

\* bind: the kit is read under the session lock and sent after its release.
BindSend(a) ==
  /\ Begin(a)
  /\ IsOpen(a)
  /\ recoverywrap # NoWrap
  /\ Cardinality(uploads) < MaxUploads
  /\ uploads' = uploads \cup {PackKit}
  /\ UNCHANGED <<db, meta, rows, kit, vault, op, ghosts>>

ServiceUpsert(k) ==
  /\ k \in uploads
  /\ kit' = k
  /\ uploads' = uploads \ {k}
  /\ UNCHANGED <<db, meta, rows, vault, op, ghosts>>

UploadLost(k) ==
  /\ k \in uploads
  /\ uploads' = uploads \ {k}
  /\ UNCHANGED <<db, meta, rows, kit, vault, op, ghosts>>

\* verify_code leaves the kit in the pending slot; it may expire there.
KitFetch(a) ==
  /\ Begin(a)
  /\ kit # NoKit
  /\ Goto(a, [Idle EXCEPT !.pc = "kit", !.kit = kit])
  /\ UNCHANGED <<db, meta, rows, remote, vault, ghosts>>

KitExpire(a) ==
  /\ At(a, "kit")
  /\ Finish(a)
  /\ UNCHANGED <<db, meta, rows, remote, vault, ghosts>>

\* Every wrap the kit carries must open with the key typed by the user.
KitOpens(k, rk) == Opens(rk, k.dek) /\ (k.fdek # NoWrap => Opens(rk, k.fdek))

KitDek(a, rk, pw) ==
  /\ At(a, "kit")
  /\ CanOpen
  /\ rk \in shown
  /\ KitOpens(op[a].kit, rk)
  /\ dekwrap' = WrapWith(pw, op[a].kit.dek.payload)
  /\ IF op[a].kit.fdek # NoWrap
       THEN op' = [op EXCEPT ![a].pc = "kit_fdek", ![a].rk = rk,
                             ![a].pw = pw]
       ELSE Finish(a)
  /\ Note("kit")
  /\ UNCHANGED <<db, recoverywrap, fdek_wrap, fdek_wrap_recovery, rows,
                 remote, vault, minted, shown, retired>>

KitFdek(a) ==
  /\ At(a, "kit_fdek")
  /\ fdek_wrap' = WrapWith(op[a].pw, op[a].kit.fdek.payload)
  /\ Advance(a, "kit_recovery")
  /\ UNCHANGED <<db, dekwrap, recoverywrap, fdek_wrap_recovery, rows,
                 remote, vault, ghosts>>

KitRecovery(a) ==
  /\ At(a, "kit_recovery")
  /\ fdek_wrap_recovery' = op[a].kit.fdek
  /\ Finish(a)
  /\ UNCHANGED <<db, dekwrap, recoverywrap, fdek_wrap, rows, remote, vault,
                 ghosts>>

-----------------------------------------------------------------------------
(* Faults.  A failing statement ends the operation with an error and keeps *)
(* what earlier statements committed; a crash also drops the open Vault.   *)

StatementFails(a) ==
  /\ ~Begin(a)
  /\ Finish(a)
  /\ Note("fault")
  /\ UNCHANGED <<db, meta, rows, remote, vault, minted, shown, retired>>

Crash(a) ==
  /\ ~Begin(a) \/ IsOpen(a)
  /\ Finish(a)
  /\ vault' = [vault EXCEPT ![a] = Closed]
  /\ Note("fault")
  /\ UNCHANGED <<db, meta, rows, remote, minted, shown, retired>>

-----------------------------------------------------------------------------
FreshInit ==
  /\ db = "none"
  /\ dekwrap = NoWrap /\ recoverywrap = NoWrap
  /\ fdek_wrap = NoWrap /\ fdek_wrap_recovery = NoWrap
  /\ rows = [r \in Rows |-> None]
  /\ kit = NoKit /\ uploads = {}
  /\ vault = [a \in Actors |-> Closed]
  /\ op = [a \in Actors |-> Idle]
  /\ minted = {} /\ shown = {} /\ retired = {} /\ past = {} /\ alone = TRUE

\* A vault written before the FDEK existed (schema version 2): both DEK
\* wraps, no FDEK, fields sealed under the DEK.
LegacyInit ==
  /\ db = "ready"
  /\ \E pw \in Passwords, rk \in RecoveryKeys :
       /\ dekwrap = WrapWith(pw, Dek)
       /\ recoverywrap = WrapWith(rk, Dek)
       /\ minted = {rk} /\ shown = {rk}
  /\ fdek_wrap = NoWrap /\ fdek_wrap_recovery = NoWrap
  /\ rows \in [Rows -> {None, Dek}]
  /\ kit = NoKit /\ uploads = {}
  /\ vault = [a \in Actors |-> Closed]
  /\ op = [a \in Actors |-> Idle]
  /\ retired = {} /\ past = {} /\ alone = TRUE

Init == FreshInit \/ LegacyInit

Sessions(a) ==
  \/ \E pw \in Passwords : \/ InitializeCheck(a, pw)
                           \/ UnlockDek(a, pw)
                           \/ UnlockSecondFactor(a, pw)
  \/ InitializeCreate(a)
  \/ \E rk \in Fresh(RecoveryKeys), f \in Fresh(Fdeks) :
       InitializeInsert(a, rk, f)
  \/ InitializeConflict(a)
  \/ UnlockOpen(a)
  \/ Close(a)
  \/ LockSecondFactor(a)
  \/ \E r \in Rows : SealSecret(a, r)
  \/ \E pw \in Passwords, rk \in RecoveryKeys, f \in Fresh(Fdeks) :
       EnableFdek(a, pw, rk, f)

Rewraps(a) ==
  \/ \E pw \in Passwords : ChangeDek(a, pw)
  \/ ChangeFdek(a)
  \/ \E rk \in Fresh(RecoveryKeys) : RegenerateDek(a, rk)
  \/ RegenerateFdek(a)
  \/ RegenerateReturn(a)
  \/ \E rk \in RecoveryKeys, pw \in Passwords : RecoverReadDek(a, rk, pw)
  \/ RecoverReadFdek(a)
  \/ RecoverDek(a)
  \/ RecoverFdek(a)

Kits(a) ==
  \/ BindSend(a)
  \/ KitFetch(a)
  \/ KitExpire(a)
  \/ \E rk \in RecoveryKeys, pw \in Passwords : KitDek(a, rk, pw)
  \/ KitFdek(a)
  \/ KitRecovery(a)

Uploads == \E k \in uploads : ServiceUpsert(k) \/ UploadLost(k)

Faults(a) == StatementFails(a) \/ Crash(a)

Local(a) == Sessions(a) \/ Rewraps(a)

\* An operation that rewrites wraps is at work between two of its statements.
Rewriting(a) ==
  op[a].pc \in {"change_fdek", "regen_fdek", "regen_return", "recover_fdek",
               "recover_dek", "recover_rewrap", "kit_fdek", "kit_recovery"}
OneRewrites == \A a, b \in Actors : Rewriting(a) /\ Rewriting(b) => a = b
Watch == alone' = (alone /\ OneRewrites')

Step ==
  \/ \E a \in Actors : Local(a) \/ Kits(a) \/ Faults(a)
  \/ Uploads

Next == Step /\ Watch

\* Everything: new and old vaults, concurrent actors, faults, kits.
Spec == Init /\ [][Next]_vars

\* The same for a vault made by this version of initialize.
FreshSpec == FreshInit /\ [][Next]_vars

\* Everything, as long as an old vault's FDEK is enabled only by a connection
\* that is the only one to have the vault open: the others would go on with
\* the has_fdek flag they read at unlock.
EnabledAlone ==
  \A a \in Actors, pw \in Passwords, rk \in RecoveryKeys, f \in Fresh(Fdeks) :
    EnableFdek(a, pw, rk, f) => \A b \in Actors \ {a} : ~IsOpen(b)
CarefulSpec == Init /\ [][Next /\ EnabledAlone]_vars

-----------------------------------------------------------------------------
(* Properties.                                                             *)

StateOK ==
  /\ db \in {"none", "empty", "ready"}
  /\ dekwrap \in WrapType /\ recoverywrap \in WrapType
  /\ fdek_wrap \in WrapType /\ fdek_wrap_recovery \in WrapType
  /\ rows \in [Rows -> DataKeys \cup {None}]
  /\ kit \in KitType /\ uploads \in SUBSET KitType
  /\ vault \in [Actors -> VaultType]
  /\ op \in [Actors -> OpType]
  /\ \A a \in Actors :
       op[a].pc \in {"regen_fdek", "regen_return"} => op[a].rk \in RecoveryKeys
  /\ minted \in SUBSET (RecoveryKeys \cup Fdeks)
  /\ shown \in SUBSET RecoveryKeys /\ retired \in SUBSET RecoveryKeys
  /\ past \in SUBSET Events

TypeOK == StateOK /\ alone \in BOOLEAN

Holds(wrap, key) == wrap # NoWrap => wrap.payload = key
Quiet == \A a \in Actors : Begin(a)

\* Whatever is rewrapped, by whom and from whatever stale read, the master
\* password wrap, the recovery wrap, the kit at the service and those in
\* flight, and the DEK of every open Vault all hold the one DEK made by
\* initialize: no sequence of resets orphans the data under it
\* (vault.rs:146-213, 341-395; recovery_link.rs:103-174).
OneDek ==
  /\ db = "ready" => dekwrap # NoWrap /\ recoverywrap # NoWrap
  /\ Holds(dekwrap, Dek) /\ Holds(recoverywrap, Dek)
  /\ \A k \in uploads \cup {kit} : Holds(k.dek, Dek)
  /\ \A a \in Actors : IsOpen(a) => vault[a].dek = Dek

\* A vault with an FDEK has no field under any other key, so no field is
\* readable without the second factor and none is lost when the FDEK is
\* rewrapped; both FDEK wraps hold that same key (fdek.rs:130-164, 229-261;
\* vault.rs:115-143).
NoMixedRows ==
  WrapExists =>
    /\ \A r \in Rows : rows[r] \in {None, fdek_wrap.payload}
    /\ fdek_wrap_recovery.payload = fdek_wrap.payload

\* At every instant, between any two statements of any operation and after
\* any crash, each stored field is under a key that some wrap in the file
\* yields to a password the user typed or a recovery key the user was shown.
Openable ==
  {w.payload : w \in {x \in {dekwrap, recoverywrap, fdek_wrap,
                             fdek_wrap_recovery} :
                        x.key \in Passwords \cup shown}}
NoDataLost == \A r \in Rows : rows[r] # None => rows[r] \in Openable

\* The keys behind the wraps and the fields are those of Keyring: no rewrap,
\* reset, kit, fault or interleaving ever replaces the DEK or the FDEK, and
\* every field written or resealed is under the FDEK once there is one
\* (vault.rs:115-127, 146-213, 341-395; fdek.rs:130-164;
\* recovery_link.rs:103-174).
Ring == INSTANCE Keyring WITH
          Keys <- DataKeys,
          dek <- dekwrap.payload, fdek <- fdek_wrap.payload, rows <- rows
KeepsKeyring == Ring!Spec

\* As long as every operation runs to its end, and no two cross, one master
\* password opens both the DEK and the FDEK when none is in flight, resets by
\* kits of any age included: what unlocks the vault also passes the second
\* factor (vault.rs:152-170, 390-392; recovery_link.rs:151-171).  enable_fdek is
\* excepted: it does not verify the password it is given.
PasswordsAgree ==
  /\ alone /\ Never("fault") /\ Never("enable")
  /\ Quiet /\ db = "ready" /\ WrapExists
  => dekwrap.key = fdek_wrap.key

\* As long as every operation runs to its end and none enables an FDEK late, one
\* recovery key opens both recovery wraps when none is in flight, so that
\* recover does not refuse it (vault.rs:369-378, 194-195).
RecoveryKeysAgree ==
  /\ alone /\ Never("fault") /\ Never("enable")
  /\ Quiet /\ db = "ready" /\ WrapExists
  => recoverywrap.key = fdek_wrap_recovery.key

\* Unless a kit was used, the FDEK enabled late or two operations crossed, only
\* a rotation that did not reach its end can leave the two recovery wraps under
\* different keys: as long as recoverywrap is under a key the user has seen,
\* recover works with it, whatever password change or reset was interrupted,
\* and repairs what that left behind (vault.rs:196-213, 341-395).
RepairPossible ==
  /\ alone /\ Never("kit") /\ Never("enable")
  /\ WrapExists /\ recoverywrap.key \in shown
  => fdek_wrap_recovery = WrapWith(recoverywrap.key, fdek_wrap.payload)

\* Once a new recovery key is displayed, no wrap of the vault file opens with
\* an older one, until a reset by kit, or two operations that cross
\* (vault.rs:192-213).
RotationRevokesLocally ==
  alone /\ Never("kit") /\ Never("enable") =>
    recoverywrap.key \notin retired /\ fdek_wrap_recovery.key \notin retired

-----------------------------------------------------------------------------
(* Inductive strengthenings, proved in VaultKeysProofs.                    *)

\* OneDek, with the DEK that operations in flight carry.
DekInv ==
  /\ OneDek
  /\ \A a \in Actors :
       /\ Holds(op[a].kit.dek, Dek)
       /\ op[a].pc \in {"unlock", "recover_fdek", "recover_dek",
                        "recover_rewrap"} => op[a].dek = Dek

\* A kit made from a vault with the FDEK f, or before the vault had one.
KitWith(k, f) ==
  IF k.fdek = NoWrap THEN ~Never("enable") ELSE k.fdek.payload = f

\* In a vault made by initialize, or whose FDEK was enabled by the only
\* connection that had it open: nothing happens before the meta row is there,
\* and from then on everything that is or will be written as the FDEK is one
\* key, under a password.
FreshInv ==
  /\ db = "ready" <=> WrapExists
  /\ db # "ready" =>
       /\ dekwrap = NoWrap /\ rows = [r \in Rows |-> None]
       /\ kit = NoKit /\ uploads = {}
       /\ \A a \in Actors : /\ vault[a] = Closed
                            /\ op[a].pc \in {"idle", "init", "init_insert"}
  /\ WrapExists =>
       /\ fdek_wrap.key \in Passwords
       /\ fdek_wrap.payload \in Fdeks
       /\ fdek_wrap_recovery # NoWrap
       /\ \A k \in uploads \cup {kit} :
            k # NoKit => KitWith(k, fdek_wrap.payload)
       /\ \A a \in Actors :
            /\ IsOpen(a) => /\ vault[a].has_fdek
                            /\ vault[a].cache \in {None, fdek_wrap.payload}
            /\ op[a].pc \in {"change_fdek", "regen_fdek", "recover_dek",
                             "recover_rewrap"} =>
                 \/ op[a].fdek = fdek_wrap.payload
                 \/ /\ op[a].pc = "recover_dek" /\ op[a].fdek = None
                    /\ ~Never("enable")
            /\ op[a].pc \in {"kit", "kit_fdek", "kit_recovery"} =>
                 KitWith(op[a].kit, fdek_wrap.payload)
            /\ op[a].pc \in {"kit_fdek", "kit_recovery"} =>
                 op[a].kit.fdek # NoWrap
  /\ \A a \in Actors : op[a].pc \notin {"idle", "unlock", "regen_fdek",
                                        "regen_return", "kit"} =>
                         op[a].pw \in Passwords
  /\ NoMixedRows

\* In a vault from before the FDEK, until it is enabled: every field is under
\* the DEK, which a password opens, and no kit, open Vault or operation has
\* seen an FDEK.
OldInv ==
  /\ db = "ready" /\ fdek_wrap = NoWrap /\ fdek_wrap_recovery = NoWrap
  /\ dekwrap.key \in Passwords
  /\ \A r \in Rows : rows[r] \in {None, Dek}
  /\ \A k \in uploads \cup {kit} : k.fdek = NoWrap
  /\ \A a \in Actors :
       /\ ~vault[a].has_fdek /\ vault[a].cache = None
       /\ op[a].fdek = None /\ op[a].kit.fdek = NoWrap
       /\ op[a].pc \in {"idle", "unlock", "regen_return", "recover_fdek",
                        "recover_dek", "kit"}
       /\ op[a].pc \in {"recover_fdek", "recover_dek"} =>
            op[a].pw \in Passwords

\* In such a vault, until then: a rotation in flight carries the key of the
\* recovery wrap, which was generated and not shown yet.
OldRotateInv ==
  /\ retired \subseteq shown /\ shown \subseteq minted
  /\ \A a \in Actors : op[a].pc = "regen_return" => op[a].rk \in minted
  /\ alone =>
       /\ OneRewrites
       /\ recoverywrap.key \notin retired
       /\ \A a \in Actors :
            op[a].pc = "regen_return" =>
              op[a].rk = recoverywrap.key /\ op[a].rk \notin shown

\* In a vault made by initialize: a key is generated, shown and retired in this order, one
\* that a rotation in flight carries has been generated, and a reset by kit in
\* flight has been noted.
MintInv ==
  /\ retired \subseteq shown /\ shown \subseteq minted
  /\ ~WrapExists => retired = {}
  /\ \A a \in Actors :
       /\ op[a].pc \in {"regen_fdek", "regen_return"} => op[a].rk \in minted
       /\ op[a].pc \in {"kit_fdek", "kit_recovery"} => ~Never("kit")
  /\ alone => OneRewrites

\* The DEK is under the new password while the FDEK is still to follow, and
\* under the FDEK's otherwise.
Following(a) == op[a].pc \in {"change_fdek", "recover_rewrap", "kit_fdek"}
AgreeInv ==
  alone /\ Never("fault") /\ Never("enable") /\ WrapExists =>
    /\ \A a \in Actors : Following(a) => dekwrap.key = op[a].pw
    /\ (\A a \in Actors : ~Following(a)) => dekwrap.key = fdek_wrap.key

\* A key that was not shown yet is in the file only from a rotation, and the two
\* recovery wraps part only over such a key.
RotateInv ==
  alone /\ Never("kit") /\ Never("enable") =>
    /\ recoverywrap.key \notin retired /\ fdek_wrap_recovery.key \notin retired
    /\ recoverywrap.key \in shown => fdek_wrap_recovery.key = recoverywrap.key
    /\ \A a \in Actors :
         /\ op[a].pc \in {"regen_fdek", "regen_return"} =>
              op[a].rk = recoverywrap.key /\ op[a].rk \notin shown
         /\ op[a].pc = "regen_return" =>
              fdek_wrap_recovery.key = recoverywrap.key

=============================================================================
