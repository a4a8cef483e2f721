--------------------------- MODULE VaultKeysProofs ---------------------------
(***************************************************************************)
(* Proofs about VaultKeys, for every set of actors, passwords, recovery    *)
(* keys and fields: type correctness, that every wrap of the DEK holds the *)
(* DEK, that no field is ever without a known credential that opens it,    *)
(* and which credentials open what, first of vaults made by initialize,    *)
(* then of those from before the FDEK.                                     *)
(***************************************************************************)
EXTENDS VaultKeys, TLAPS

\* An actor at rest is well typed.
LEMMA IdleTyped == Idle \in OpType
  BY DEF Idle, OpType, Stages, KitType, WrapType, NoKit, NoWrap

\* Starting and finishing an operation keep op well typed.
LEMMA OpTyped ==
  ASSUME op \in [Actors -> OpType], NEW a \in Actors, NEW o \in OpType
  PROVE  /\ Goto(a, o) => op' \in [Actors -> OpType]
         /\ Finish(a) => op' \in [Actors -> OpType]
  BY IdleTyped DEF Goto, Finish

\* wrap_with_key returns a wrap.
LEMMA WrapTyped ==
  ASSUME NEW k \in Credentials \cup {None}, NEW p \in DataKeys \cup {None}
  PROVE  WrapWith(k, p) \in WrapType
  BY DEF WrapWith, WrapType

\* The fields of the records of the state.
LEMMA FieldsTyped ==
  /\ \A w \in WrapType : /\ w.key \in Credentials \cup {None}
                         /\ w.payload \in DataKeys \cup {None}
  /\ \A k \in KitType : k.dek \in WrapType /\ k.fdek \in WrapType
  /\ \A v \in VaultType : /\ v.dek \in DataKeys \cup {None}
                          /\ v.has_fdek \in BOOLEAN
                          /\ v.cache \in DataKeys \cup {None}
  /\ \A o \in OpType : /\ o.pc \in Stages
                       /\ o.pw \in Passwords \cup {None}
                       /\ o.rk \in RecoveryKeys \cup {None}
                       /\ o.dek \in DataKeys \cup {None}
                       /\ o.fdek \in DataKeys \cup {None}
                       /\ o.kit \in KitType
  BY DEF WrapType, KitType, VaultType, OpType

-----------------------------------------------------------------------------
(* What the steps that rewrite several fields at once leave behind.        *)

Others(a) == \A b \in Actors \ {a} : op'[b] = op[b]

\* Advance moves the program counter and nothing else.
LEMMA AdvanceEffect ==
  ASSUME op \in [Actors -> OpType], NEW a \in Actors, NEW s \in Stages,
         Advance(a, s)
  PROVE  /\ op' \in [Actors -> OpType] /\ Others(a)
         /\ op'[a].pc = s /\ op'[a].pw = op[a].pw /\ op'[a].rk = op[a].rk
         /\ op'[a].dek = op[a].dek /\ op'[a].fdek = op[a].fdek
         /\ op'[a].kit = op[a].kit
<1>1. op' = [op EXCEPT ![a].pc = s]
  BY DEF Advance
<1> QED
  BY <1>1 DEF OpType, Others

\* Finish forgets the operation.
LEMMA FinishEffect ==
  ASSUME op \in [Actors -> OpType], NEW a \in Actors, Finish(a)
  PROVE  /\ op' \in [Actors -> OpType] /\ Others(a) /\ op'[a] = Idle
  BY IdleTyped DEF Finish, Others

\* The locals change_master_password carries to its second UPDATE.
LEMMA ChangeDekEffect ==
  ASSUME StateOK, NEW a \in Actors, NEW pw \in Passwords, ChangeDek(a, pw)
  PROVE  /\ op' \in [Actors -> OpType] /\ Others(a) /\ op'[a].kit = NoKit
         /\ \/ /\ vault[a].has_fdek
               /\ op'[a].pc = "change_fdek" /\ op'[a].pw = pw
               /\ op'[a].fdek = vault[a].cache
            \/ ~vault[a].has_fdek /\ op'[a] = Idle
<1>1. CASE vault[a].has_fdek
  <2> DEFINE f == vault[a].cache
  <2>1. f \in DataKeys \cup {None}
    BY FieldsTyped DEF StateOK
  <2>2. op' = [op EXCEPT ![a] = [Idle EXCEPT !.pc = "change_fdek",
                                   !.pw = pw, !.fdek = f]]
    BY <1>1 DEF ChangeDek, Goto, CapturedFdek
  <2>3. f = vault[a].cache
    OBVIOUS
  <2> HIDE DEF f
  <2> QED
    BY <1>1, <2>1, <2>2, <2>3, IdleTyped
       DEF StateOK, OpType, Stages, Idle, Others
<1>2. CASE ~vault[a].has_fdek
  BY <1>2, FinishEffect DEF ChangeDek, StateOK, Idle
<1> QED
  BY <1>1, <1>2

\* The locals regenerate_recovery_key carries to its second UPDATE.
LEMMA RegenerateDekEffect ==
  ASSUME StateOK, NEW a \in Actors, NEW rk \in Fresh(RecoveryKeys),
         RegenerateDek(a, rk)
  PROVE  /\ op' \in [Actors -> OpType] /\ Others(a) /\ op'[a].kit = NoKit
         /\ op'[a].rk = rk
         /\ \/ /\ vault[a].has_fdek /\ op'[a].pc = "regen_fdek"
               /\ op'[a].fdek = vault[a].cache
            \/ ~vault[a].has_fdek /\ op'[a].pc = "regen_return"
<1> DEFINE f == CapturedFdek(vault[a])
           s == IF vault[a].has_fdek THEN "regen_fdek" ELSE "regen_return"
<1>1. /\ f \in DataKeys \cup {None} /\ s \in Stages
      /\ vault[a].has_fdek => f = vault[a].cache /\ s = "regen_fdek"
      /\ ~vault[a].has_fdek => s = "regen_return"
  BY FieldsTyped DEF StateOK, CapturedFdek, Stages
<1>2. op' = [op EXCEPT ![a] = [Idle EXCEPT !.rk = rk, !.fdek = f, !.pc = s]]
  BY DEF RegenerateDek, Goto
<1>3. rk \in RecoveryKeys
  BY DEF Fresh
<1> HIDE DEF f, s
<1> QED
  BY <1>1, <1>2, <1>3, IdleTyped DEF StateOK, OpType, Idle, Others

\* What recover goes on with after reading the FDEK's recovery wrap.
LEMMA RecoverReadFdekEffect ==
  ASSUME StateOK, NEW a \in Actors, RecoverReadFdek(a)
  PROVE  /\ op' \in [Actors -> OpType] /\ Others(a)
         /\ \/ /\ op'[a].pc = "recover_dek" /\ op'[a].pw = op[a].pw
               /\ op'[a].dek = op[a].dek /\ op'[a].kit = op[a].kit
               /\ WrapExists => op'[a].fdek = fdek_wrap_recovery.payload
            \/ op'[a] = Idle
<1>1. CASE ~WrapExists /\ Advance(a, "recover_dek")
  BY <1>1, AdvanceEffect DEF StateOK, Stages
<1>2. CASE op' = [op EXCEPT ![a].pc = "recover_dek",
                            ![a].fdek = fdek_wrap_recovery.payload]
  <2> DEFINE o == [op EXCEPT ![a].pc = "recover_dek"]
             p == fdek_wrap_recovery.payload
  <2>1. /\ o \in [Actors -> OpType] /\ o[a].pc = "recover_dek"
        /\ o[a].pw = op[a].pw /\ o[a].dek = op[a].dek
        /\ o[a].kit = op[a].kit
        /\ \A b \in Actors \ {a} : o[b] = op[b]
    BY DEF StateOK, OpType, Stages
  <2>2. op' = [o EXCEPT ![a].fdek = p] /\ p = fdek_wrap_recovery.payload
    BY <1>2
  <2>3. p \in DataKeys \cup {None}
    BY FieldsTyped DEF StateOK
  <2> HIDE DEF o, p
  <2> QED
    BY <2>1, <2>2, <2>3 DEF OpType, Others
<1>3. CASE Finish(a)
  BY <1>3, FinishEffect DEF StateOK
<1> QED
  BY <1>1, <1>2, <1>3 DEF RecoverReadFdek

\* What recover goes on with after its first UPDATE.
LEMMA RecoverDekEffect ==
  ASSUME StateOK, NEW a \in Actors, RecoverDek(a)
  PROVE  /\ op' \in [Actors -> OpType] /\ Others(a)
         /\ \/ /\ op'[a].pc = "recover_rewrap" /\ op'[a].pw = op[a].pw
               /\ op'[a].dek = op[a].dek /\ op'[a].fdek = op[a].fdek
               /\ op'[a].kit = op[a].kit /\ op[a].fdek # None
            \/ op'[a] = Idle /\ op[a].fdek = None
<1>1. CASE Advance(a, "recover_rewrap") /\ op[a].fdek # None
  BY <1>1, AdvanceEffect DEF StateOK, Stages
<1>2. CASE Finish(a) /\ op[a].fdek = None
  BY <1>2, FinishEffect DEF StateOK
<1> QED
  BY <1>1, <1>2 DEF RecoverDek

\* What recover_with_kit goes on with after its first UPDATE.
LEMMA KitDekEffect ==
  ASSUME StateOK, NEW a \in Actors, NEW rk \in RecoveryKeys,
         NEW pw \in Passwords, KitDek(a, rk, pw)
  PROVE  /\ op' \in [Actors -> OpType] /\ Others(a)
         /\ \/ /\ op'[a].pc = "kit_fdek" /\ op'[a].pw = pw
               /\ op'[a].kit = op[a].kit
            \/ op'[a] = Idle
<1>1. CASE op' = [op EXCEPT ![a].pc = "kit_fdek", ![a].rk = rk, ![a].pw = pw]
  <2> DEFINE o == [op EXCEPT ![a].pc = "kit_fdek"]
             q == [o EXCEPT ![a].rk = rk]
  <2>1. /\ o \in [Actors -> OpType] /\ o[a].pc = "kit_fdek"
        /\ o[a].kit = op[a].kit
        /\ \A b \in Actors \ {a} : o[b] = op[b]
    BY DEF StateOK, OpType, Stages
  <2>2. op' = [q EXCEPT ![a].pw = pw]
    BY <1>1
  <2> HIDE DEF o
  <2>3. /\ q \in [Actors -> OpType] /\ q[a].pc = "kit_fdek"
        /\ q[a].kit = op[a].kit
        /\ \A b \in Actors \ {a} : q[b] = op[b]
    BY <2>1 DEF OpType
  <2> HIDE DEF q
  <2> QED
    BY <2>2, <2>3 DEF OpType, Others
<1>2. CASE Finish(a)
  BY <1>2, FinishEffect DEF StateOK
<1> QED
  BY <1>1, <1>2 DEF KitDek

\* The steps that change one field of an open Vault.
LEMMA VaultEffect ==
  ASSUME StateOK, NEW a \in Actors,
         \/ \E pw \in Passwords : UnlockSecondFactor(a, pw)
         \/ LockSecondFactor(a)
         \/ \E pw \in Passwords, rk \in RecoveryKeys, f \in Fresh(Fdeks) :
              EnableFdek(a, pw, rk, f)
  PROVE  /\ vault' \in [Actors -> VaultType]
         /\ \A b \in Actors \ {a} : vault'[b] = vault[b]
         /\ IsOpen(a) /\ vault'[a].dek = vault[a].dek
         /\ vault[a].has_fdek => vault'[a].has_fdek
         /\ vault'[a].cache \in {None, vault[a].cache, fdek_wrap.payload}
<1>1. ASSUME NEW pw \in Passwords, UnlockSecondFactor(a, pw)
      PROVE  /\ vault' = [vault EXCEPT ![a].cache = fdek_wrap.payload]
             /\ IsOpen(a)
  BY <1>1 DEF UnlockSecondFactor
<1>2. CASE vault' = [vault EXCEPT ![a].cache = fdek_wrap.payload] /\ IsOpen(a)
  <2> DEFINE p == fdek_wrap.payload
  <2>1. /\ vault' = [vault EXCEPT ![a].cache = p]
        /\ p \in DataKeys \cup {None} /\ p = fdek_wrap.payload
    BY <1>2, FieldsTyped DEF StateOK
  <2> HIDE DEF p
  <2> QED
    BY <1>2, <2>1 DEF StateOK, VaultType
<1>3. CASE LockSecondFactor(a)
  BY <1>3 DEF LockSecondFactor, StateOK, VaultType
<1>4. ASSUME NEW pw \in Passwords, NEW rk \in RecoveryKeys,
             NEW f \in Fresh(Fdeks), EnableFdek(a, pw, rk, f)
      PROVE  vault' = [vault EXCEPT ![a].has_fdek = TRUE] /\ IsOpen(a)
  BY <1>4 DEF EnableFdek
<1>5. CASE vault' = [vault EXCEPT ![a].has_fdek = TRUE] /\ IsOpen(a)
  <2> DEFINE v == [vault[a] EXCEPT !.has_fdek = TRUE]
  <2>1. /\ v \in VaultType /\ v.has_fdek
        /\ v.dek = vault[a].dek /\ v.cache = vault[a].cache
    BY DEF StateOK, VaultType
  <2>2. vault' = [vault EXCEPT ![a] = v]
    BY <1>5
  <2> HIDE DEF v
  <2> QED
    BY <1>5, <2>1, <2>2 DEF StateOK
<1> QED
  BY <1>1, <1>2, <1>3, <1>4, <1>5

-----------------------------------------------------------------------------

\* Every step preserves the type invariant, action by action.
LEMMA TypeStep == StateOK /\ [Next]_vars => StateOK'
<1> USE FieldsTyped, IdleTyped, WrapTyped
<1>1. ASSUME StateOK, NEW a \in Actors, NEW pw \in Passwords,
             InitializeCheck(a, pw)
      PROVE  StateOK'
  <2>1. op' \in [Actors -> OpType]
    BY <1>1
       DEF InitializeCheck, StateOK, Goto, OpType, Stages, Idle
  <2> QED
    BY <1>1, <2>1
       DEF InitializeCheck, StateOK, meta, remote, ghosts, Goto, Idle,
           OpType
<1>2. ASSUME StateOK, NEW a \in Actors,
             InitializeCreate(a)
      PROVE  StateOK'
  <2>1. op' \in [Actors -> OpType]
    BY <1>2
       DEF InitializeCreate, StateOK, Advance, OpType, Stages
  <2> QED
    BY <1>2, <2>1
       DEF InitializeCreate, StateOK, meta, remote, ghosts, Advance, OpType,
           At
<1>3. ASSUME StateOK, NEW a \in Actors, NEW rk \in Fresh(RecoveryKeys),
             NEW f \in Fresh(Fdeks),
             InitializeInsert(a, rk, f)
      PROVE  StateOK'
  <2>1. op' \in [Actors -> OpType]
    BY <1>3
       DEF InitializeInsert, StateOK, Finish, Fresh
  <2>2. rk \in RecoveryKeys /\ f \in Fdeks
    BY <1>3 DEF Fresh
  <2>3. /\ dekwrap' \in WrapType /\ recoverywrap' \in WrapType
        /\ fdek_wrap' \in WrapType /\ fdek_wrap_recovery' \in WrapType
    BY <1>3, <2>2 DEF InitializeInsert, StateOK, Credentials, DataKeys
  <2> QED
    BY <1>3, <2>1, <2>2, <2>3
       DEF InitializeInsert, StateOK, Finish, Idle, remote
<1>4. ASSUME StateOK, NEW a \in Actors,
             InitializeConflict(a)
      PROVE  StateOK'
  <2>1. op' \in [Actors -> OpType]
    BY <1>4
       DEF InitializeConflict, StateOK, Finish
  <2> QED
    BY <1>4, <2>1
       DEF InitializeConflict, StateOK, meta, remote, ghosts, Finish, Idle,
           OpType, At
<1>5. ASSUME StateOK, NEW a \in Actors, NEW pw \in Passwords,
             UnlockDek(a, pw)
      PROVE  StateOK'
  <2>1. op' \in [Actors -> OpType]
    BY <1>5
       DEF UnlockDek, StateOK, Goto, OpType, Stages, Idle
  <2> QED
    BY <1>5, <2>1
       DEF UnlockDek, StateOK, meta, remote, ghosts, Goto, Idle, OpType
<1>6. ASSUME StateOK, NEW a \in Actors,
             UnlockOpen(a)
      PROVE  StateOK'
  <2>1. op' \in [Actors -> OpType]
    BY <1>6
       DEF UnlockOpen, StateOK, Finish
  <2>2. vault' \in [Actors -> VaultType]
    BY <1>6 DEF UnlockOpen, StateOK, VaultType, WrapExists
  <2> QED
    BY <1>6, <2>1, <2>2
       DEF UnlockOpen, StateOK, Finish, Idle, meta, remote, ghosts
<1>7. ASSUME StateOK, NEW a \in Actors,
             Close(a)
      PROVE  StateOK'
  <2>1. op' \in [Actors -> OpType]
    BY <1>7
       DEF Close, StateOK
  <2> QED
    BY <1>7, <2>1
       DEF Close, StateOK, meta, remote, ghosts, VaultType, Closed
<1>8. ASSUME StateOK, NEW a \in Actors, NEW pw \in Passwords,
             UnlockSecondFactor(a, pw)
      PROVE  StateOK'
  <2>1. op' \in [Actors -> OpType]
    BY <1>8
       DEF UnlockSecondFactor, StateOK
  <2> QED
    BY <1>8, <2>1
       DEF UnlockSecondFactor, StateOK, meta, remote, ghosts, VaultType,
           Closed
<1>9. ASSUME StateOK, NEW a \in Actors,
             LockSecondFactor(a)
      PROVE  StateOK'
  <2>1. op' \in [Actors -> OpType]
    BY <1>9
       DEF LockSecondFactor, StateOK
  <2>2. vault' \in [Actors -> VaultType]
    BY <1>9, VaultEffect
  <2> QED
    BY <1>9, <2>1, <2>2 DEF LockSecondFactor, StateOK, meta, remote, ghosts
<1>10. ASSUME StateOK, NEW a \in Actors, NEW r \in Rows,
             SealSecret(a, r)
      PROVE  StateOK'
  <2>1. op' \in [Actors -> OpType]
    BY <1>10
       DEF SealSecret, StateOK
  <2> QED
    BY <1>10, <2>1
       DEF SealSecret, StateOK, meta, remote, ghosts, SealKey
<1>11. ASSUME StateOK, NEW a \in Actors, NEW pw \in Passwords,
              NEW rk \in RecoveryKeys,
                NEW f \in Fresh(Fdeks),
             EnableFdek(a, pw, rk, f)
      PROVE  StateOK'
  <2>1. op' \in [Actors -> OpType]
    BY <1>11
       DEF EnableFdek, StateOK
  <2>2. vault' \in [Actors -> VaultType]
    BY <1>11, VaultEffect
  <2>3. f \in Fdeks
    BY <1>11 DEF Fresh
  <2>4. rows' \in [Rows -> DataKeys \cup {None}]
    BY <1>11, <2>3 DEF EnableFdek, DataKeys
  <2>5. fdek_wrap' \in WrapType /\ fdek_wrap_recovery' \in WrapType
    BY <1>11, <2>3 DEF EnableFdek, DataKeys, Credentials
  <2> QED
    BY <1>11, <2>1, <2>2, <2>3, <2>4, <2>5
       DEF EnableFdek, StateOK, remote, Note, Events
<1>12. ASSUME StateOK, NEW a \in Actors, NEW pw \in Passwords,
             ChangeDek(a, pw)
      PROVE  StateOK'
  <2>1. /\ op' \in [Actors -> OpType] /\ Others(a)
        /\ op'[a].pc \notin {"regen_fdek", "regen_return"}
    BY <1>12, ChangeDekEffect DEF Idle
  <2> QED
    BY <1>12, <2>1 DEF ChangeDek, StateOK, remote, ghosts, Credentials, Others
<1>13. ASSUME StateOK, NEW a \in Actors,
             ChangeFdek(a)
      PROVE  StateOK'
  <2>1. op' \in [Actors -> OpType]
    BY <1>13
       DEF ChangeFdek, StateOK, Finish
  <2> QED
    BY <1>13, <2>1
       DEF ChangeFdek, StateOK, remote, ghosts, Credentials, DataKeys,
           Finish, Idle, OpType, At
<1>14. ASSUME StateOK, NEW a \in Actors, NEW rk \in Fresh(RecoveryKeys),
             RegenerateDek(a, rk)
      PROVE  StateOK'
  <2>1. op' \in [Actors -> OpType] /\ Others(a) /\ op'[a].rk = rk
    BY <1>14, RegenerateDekEffect
  <2> QED
    BY <1>14, <2>1
       DEF RegenerateDek, StateOK, remote, Fresh, Credentials, Others
<1>15. ASSUME StateOK, NEW a \in Actors,
             RegenerateFdek(a)
      PROVE  StateOK'
  <2>1. op' \in [Actors -> OpType]
    BY <1>15
       DEF RegenerateFdek, StateOK, Advance, OpType, Stages
  <2> QED
    BY <1>15, <2>1
       DEF RegenerateFdek, StateOK, remote, ghosts, Credentials, DataKeys,
           Advance, OpType, At
<1>16. ASSUME StateOK, NEW a \in Actors,
             RegenerateReturn(a)
      PROVE  StateOK'
  <2>1. op' \in [Actors -> OpType]
    BY <1>16
       DEF RegenerateReturn, StateOK, Finish
  <2> QED
    BY <1>16, <2>1
       DEF RegenerateReturn, StateOK, meta, remote, Finish, Idle, OpType, At
<1>17. ASSUME StateOK, NEW a \in Actors, NEW rk \in RecoveryKeys,
              NEW pw \in Passwords,
             RecoverReadDek(a, rk, pw)
      PROVE  StateOK'
  <2>1. op' \in [Actors -> OpType]
    BY <1>17
       DEF RecoverReadDek, StateOK, Goto, OpType, Stages, Idle
  <2> QED
    BY <1>17, <2>1
       DEF RecoverReadDek, StateOK, meta, remote, ghosts, Goto, Idle, OpType
<1>18. ASSUME StateOK, NEW a \in Actors,
             RecoverReadFdek(a)
      PROVE  StateOK'
  <2>1. /\ op' \in [Actors -> OpType] /\ Others(a)
        /\ op'[a].pc \notin {"regen_fdek", "regen_return"}
    BY <1>18, RecoverReadFdekEffect DEF Idle
  <2> QED
    BY <1>18, <2>1 DEF RecoverReadFdek, StateOK, meta, remote, ghosts, Others
<1>19. ASSUME StateOK, NEW a \in Actors,
             RecoverDek(a)
      PROVE  StateOK'
  <2>1. /\ op' \in [Actors -> OpType] /\ Others(a)
        /\ op'[a].pc \notin {"regen_fdek", "regen_return"}
    BY <1>19, RecoverDekEffect DEF Idle
  <2> QED
    BY <1>19, <2>1 DEF RecoverDek, StateOK, remote, ghosts, Credentials, Others
<1>20. ASSUME StateOK, NEW a \in Actors,
             RecoverFdek(a)
      PROVE  StateOK'
  <2>1. op' \in [Actors -> OpType]
    BY <1>20
       DEF RecoverFdek, StateOK, Finish
  <2> QED
    BY <1>20, <2>1
       DEF RecoverFdek, StateOK, remote, ghosts, Credentials, DataKeys,
           Finish, Idle, OpType, At
<1>21. ASSUME StateOK, NEW a \in Actors,
             BindSend(a)
      PROVE  StateOK'
  <2>1. op' \in [Actors -> OpType]
    BY <1>21
       DEF BindSend, StateOK
  <2> QED
    BY <1>21, <2>1
       DEF BindSend, StateOK, meta, ghosts, PackKit, KitType
<1>22. ASSUME StateOK, NEW a \in Actors,
             KitFetch(a)
      PROVE  StateOK'
  <2>1. op' \in [Actors -> OpType]
    BY <1>22
       DEF KitFetch, StateOK, Goto, OpType, Stages, Idle
  <2> QED
    BY <1>22, <2>1
       DEF KitFetch, StateOK, meta, remote, ghosts, Goto, Idle, OpType
<1>23. ASSUME StateOK, NEW a \in Actors,
             KitExpire(a)
      PROVE  StateOK'
  <2>1. op' \in [Actors -> OpType]
    BY <1>23
       DEF KitExpire, StateOK, Finish
  <2> QED
    BY <1>23, <2>1
       DEF KitExpire, StateOK, meta, remote, ghosts, Finish, Idle, OpType,
           At
<1>24. ASSUME StateOK, NEW a \in Actors, NEW rk \in RecoveryKeys,
              NEW pw \in Passwords,
             KitDek(a, rk, pw)
      PROVE  StateOK'
  <2>1. /\ op' \in [Actors -> OpType] /\ Others(a)
        /\ op'[a].pc \notin {"regen_fdek", "regen_return"}
    BY <1>24, KitDekEffect DEF Idle
  <2> QED
    BY <1>24, <2>1
       DEF KitDek, StateOK, remote, Credentials, Others, Note, Events
<1>25. ASSUME StateOK, NEW a \in Actors,
             KitFdek(a)
      PROVE  StateOK'
  <2>1. op' \in [Actors -> OpType]
    BY <1>25
       DEF KitFdek, StateOK, Advance, OpType, Stages
  <2> QED
    BY <1>25, <2>1
       DEF KitFdek, StateOK, remote, ghosts, Credentials, DataKeys, Advance,
           OpType, At
<1>26. ASSUME StateOK, NEW a \in Actors,
             KitRecovery(a)
      PROVE  StateOK'
  <2>1. op' \in [Actors -> OpType]
    BY <1>26
       DEF KitRecovery, StateOK, Finish
  <2> QED
    BY <1>26, <2>1
       DEF KitRecovery, StateOK, remote, ghosts, Finish, Idle, OpType, At
<1>27. ASSUME StateOK, NEW a \in Actors,
             StatementFails(a)
      PROVE  StateOK'
  <2>1. op' \in [Actors -> OpType]
    BY <1>27
       DEF StatementFails, StateOK, Finish
  <2> QED
    BY <1>27, <2>1
       DEF StatementFails, StateOK, meta, remote, Finish, Idle, OpType, Note,
           Events
<1>28. ASSUME StateOK, NEW a \in Actors,
             Crash(a)
      PROVE  StateOK'
  <2>1. op' \in [Actors -> OpType]
    BY <1>28
       DEF Crash, StateOK, Finish
  <2> QED
    BY <1>28, <2>1
       DEF Crash, StateOK, meta, remote, VaultType, Closed, Finish, Idle,
           OpType, Note, Events
<1>29. ASSUME StateOK, NEW k \in uploads,
             ServiceUpsert(k)
      PROVE  StateOK'
  <2>1. op' \in [Actors -> OpType]
    BY <1>29
       DEF ServiceUpsert, StateOK
  <2> QED
    BY <1>29, <2>1
       DEF ServiceUpsert, StateOK, meta, ghosts
<1>30. ASSUME StateOK, NEW k \in uploads,
             UploadLost(k)
      PROVE  StateOK'
  <2>1. op' \in [Actors -> OpType]
    BY <1>30
       DEF UploadLost, StateOK
  <2> QED
    BY <1>30, <2>1
       DEF UploadLost, StateOK, meta, ghosts
<1>31. ASSUME StateOK, UNCHANGED vars PROVE StateOK'
  BY <1>31
     DEF StateOK, vars, meta, remote, ghosts
<1> QED
  BY <1>1, <1>2, <1>3, <1>4, <1>5, <1>6, <1>7, <1>8, <1>9, <1>10, <1>11,
     <1>12, <1>13, <1>14, <1>15, <1>16, <1>17, <1>18, <1>19, <1>20, <1>21,
     <1>22, <1>23, <1>24, <1>25, <1>26, <1>27, <1>28, <1>29, <1>30, <1>31
     DEF Next, Step, Local, Sessions, Rewraps, Kits, Faults, Uploads

\* Everything the two initial states have in common.
LEMMA InitTyped == Init => StateOK
<1>1. NoWrap \in WrapType /\ NoKit \in KitType /\ Closed \in VaultType
  BY DEF NoWrap, NoKit, Closed, WrapType, KitType, VaultType
<1>2. ASSUME FreshInit PROVE StateOK
  BY <1>1, <1>2, IdleTyped DEF FreshInit, StateOK, Idle
<1>3. ASSUME LegacyInit PROVE StateOK
  <2>1. PICK pw \in Passwords, rk \in RecoveryKeys :
          /\ dekwrap = WrapWith(pw, Dek) /\ recoverywrap = WrapWith(rk, Dek)
          /\ minted = {rk} /\ shown = {rk}
    BY <1>3 DEF LegacyInit
  <2>2. dekwrap \in WrapType /\ recoverywrap \in WrapType
    BY <2>1, WrapTyped DEF Credentials, DataKeys
  <2>3. rows \in [Rows -> DataKeys \cup {None}]
    BY <1>3 DEF LegacyInit, DataKeys
  <2> QED
    BY <1>1, <1>3, <2>1, <2>2, <2>3, IdleTyped DEF LegacyInit, StateOK, Idle
<1> QED
  BY <1>2, <1>3 DEF Init

\* The vault file, the kits, the open vaults and the operations in flight
\* always have the shape the code's types and columns give them.
THEOREM TypeCorrect == Spec => []TypeOK
<1>1. Init => TypeOK
  BY InitTyped DEF Init, FreshInit, LegacyInit, TypeOK
<1>2. TypeOK /\ [Next]_vars => TypeOK'
  BY TypeStep DEF TypeOK, Next, Watch, vars
<1> QED
  BY <1>1, <1>2, PTL DEF Spec

-----------------------------------------------------------------------------
(* The DEK.                                                                *)

\* Every step keeps each copy of the DEK, stored or in flight, the same.
LEMMA DekStep == StateOK /\ DekInv /\ [Next]_vars => DekInv'
<1> USE KeysDistinct
<1>1. ASSUME StateOK, DekInv, NEW a \in Actors, NEW pw \in Passwords,
             InitializeCheck(a, pw)
      PROVE  DekInv'
  BY <1>1
     DEF InitializeCheck, DekInv, OneDek, StateOK, OpType, Stages, Holds,
         NoWrap, IsOpen, VaultType, Closed, Goto, Begin, meta, remote,
         ghosts, Idle, NoKit
<1>2. ASSUME StateOK, DekInv, NEW a \in Actors,
             InitializeCreate(a)
      PROVE  DekInv'
  BY <1>2
     DEF InitializeCreate, DekInv, OneDek, StateOK, OpType, Stages, Holds,
         NoWrap, IsOpen, VaultType, Closed, Advance, At, meta, remote,
         ghosts
<1>3. ASSUME StateOK, DekInv, NEW a \in Actors, NEW rk \in Fresh(RecoveryKeys),
             NEW f \in Fresh(Fdeks),
             InitializeInsert(a, rk, f)
      PROVE  DekInv'
  BY <1>3
     DEF InitializeInsert, DekInv, OneDek, StateOK, OpType, Stages, Holds,
         NoWrap, IsOpen, VaultType, Closed, Finish, WrapWith, At, remote,
         Idle, NoKit, Fresh
<1>4. ASSUME StateOK, DekInv, NEW a \in Actors,
             InitializeConflict(a)
      PROVE  DekInv'
  BY <1>4
     DEF InitializeConflict, DekInv, OneDek, StateOK, OpType, Stages, Holds,
         NoWrap, IsOpen, VaultType, Closed, Finish, At, meta, remote,
         ghosts, Idle, NoKit
<1>5. ASSUME StateOK, DekInv, NEW a \in Actors, NEW pw \in Passwords,
             UnlockDek(a, pw)
      PROVE  DekInv'
  BY <1>5
     DEF UnlockDek, DekInv, OneDek, StateOK, OpType, Stages, Holds, NoWrap,
         IsOpen, VaultType, Closed, Goto, Opens, CanOpen, Begin, meta,
         remote, ghosts, Idle, NoKit
<1>6. ASSUME StateOK, DekInv, NEW a \in Actors,
             UnlockOpen(a)
      PROVE  DekInv'
  BY <1>6
     DEF UnlockOpen, DekInv, OneDek, StateOK, OpType, Stages, Holds, NoWrap,
         IsOpen, VaultType, Closed, Finish, WrapExists, At, meta, remote,
         ghosts, Idle, NoKit
<1>7. ASSUME StateOK, DekInv, NEW a \in Actors,
             Close(a)
      PROVE  DekInv'
  BY <1>7
     DEF Close, DekInv, OneDek, StateOK, OpType, Stages, Holds, NoWrap,
         IsOpen, VaultType, Closed, IsOpen, Begin, meta, remote, ghosts
<1>8. ASSUME StateOK, DekInv, NEW a \in Actors, NEW pw \in Passwords,
             UnlockSecondFactor(a, pw)
      PROVE  DekInv'
  <2>1. UNCHANGED <<db, dekwrap, recoverywrap, kit, uploads, op>>
    BY <1>8 DEF UnlockSecondFactor, meta, remote
  <2>2. \A b \in Actors : vault'[b].dek = vault[b].dek /\ (IsOpen(b)' => IsOpen(b))
    BY <1>8, VaultEffect DEF IsOpen
  <2> QED
    BY <1>8, <2>1, <2>2 DEF DekInv, OneDek, Holds
<1>9. ASSUME StateOK, DekInv, NEW a \in Actors,
             LockSecondFactor(a)
      PROVE  DekInv'
  <2>1. UNCHANGED <<db, dekwrap, recoverywrap, kit, uploads, op>>
    BY <1>9 DEF LockSecondFactor, meta, remote
  <2>2. \A b \in Actors : vault'[b].dek = vault[b].dek /\ (IsOpen(b)' => IsOpen(b))
    BY <1>9, VaultEffect DEF IsOpen
  <2> QED
    BY <1>9, <2>1, <2>2 DEF DekInv, OneDek, Holds
<1>10. ASSUME StateOK, DekInv, NEW a \in Actors, NEW r \in Rows,
             SealSecret(a, r)
      PROVE  DekInv'
  BY <1>10
     DEF SealSecret, DekInv, OneDek, StateOK, OpType, Stages, Holds, NoWrap,
         IsOpen, VaultType, Closed, SealKey, IsOpen, Begin, meta, remote,
         ghosts
<1>11. ASSUME StateOK, DekInv, NEW a \in Actors, NEW pw \in Passwords,
              NEW rk \in RecoveryKeys,
                NEW f \in Fresh(Fdeks),
             EnableFdek(a, pw, rk, f)
      PROVE  DekInv'
  <2>1. UNCHANGED <<db, dekwrap, recoverywrap, kit, uploads, op>>
    BY <1>11 DEF EnableFdek, remote
  <2>2. \A b \in Actors : vault'[b].dek = vault[b].dek /\ (IsOpen(b)' => IsOpen(b))
    BY <1>11, VaultEffect DEF IsOpen
  <2> QED
    BY <1>11, <2>1, <2>2 DEF DekInv, OneDek, Holds
<1>12. ASSUME StateOK, DekInv, NEW a \in Actors, NEW pw \in Passwords,
             ChangeDek(a, pw)
      PROVE  DekInv'
  <2>1. /\ dekwrap' = WrapWith(pw, Dek)
        /\ UNCHANGED <<db, recoverywrap, kit, uploads, vault>>
    BY <1>12
       DEF ChangeDek, remote, IsOpen, DekInv, OneDek, KitOpens, Opens, Holds,
              At
  <2>2. WrapWith(pw, Dek).payload = Dek /\ WrapWith(pw, Dek) # NoWrap
    BY DEF WrapWith, NoWrap
  <2> QED
    BY <1>12, <2>1, <2>2, ChangeDekEffect
       DEF DekInv, OneDek, Holds, Others, IsOpen, Idle, NoKit, NoWrap
<1>13. ASSUME StateOK, DekInv, NEW a \in Actors,
             ChangeFdek(a)
      PROVE  DekInv'
  BY <1>13
     DEF ChangeFdek, DekInv, OneDek, StateOK, OpType, Stages, Holds, NoWrap,
         IsOpen, VaultType, Closed, Finish, WrapWith, At, remote, ghosts,
         Idle, NoKit
<1>14. ASSUME StateOK, DekInv, NEW a \in Actors,
              NEW rk \in Fresh(RecoveryKeys),
             RegenerateDek(a, rk)
      PROVE  DekInv'
  <2>1. /\ recoverywrap' = WrapWith(rk, Dek)
        /\ UNCHANGED <<db, dekwrap, kit, uploads, vault>>
    BY <1>14
       DEF RegenerateDek, remote, IsOpen, DekInv, OneDek, KitOpens, Opens,
           Holds,
              At
  <2>2. WrapWith(rk, Dek).payload = Dek /\ WrapWith(rk, Dek) # NoWrap
    BY DEF WrapWith, NoWrap
  <2> QED
    BY <1>14, <2>1, <2>2, RegenerateDekEffect
       DEF DekInv, OneDek, Holds, Others, IsOpen, Idle, NoKit, NoWrap
<1>15. ASSUME StateOK, DekInv, NEW a \in Actors,
             RegenerateFdek(a)
      PROVE  DekInv'
  BY <1>15
     DEF RegenerateFdek, DekInv, OneDek, StateOK, OpType, Stages, Holds,
         NoWrap, IsOpen, VaultType, Closed, Advance, WrapWith, At, remote,
         ghosts
<1>16. ASSUME StateOK, DekInv, NEW a \in Actors,
             RegenerateReturn(a)
      PROVE  DekInv'
  BY <1>16
     DEF RegenerateReturn, DekInv, OneDek, StateOK, OpType, Stages, Holds,
         NoWrap, IsOpen, VaultType, Closed, Finish, At, meta, remote, Idle,
         NoKit
<1>17. ASSUME StateOK, DekInv, NEW a \in Actors, NEW rk \in RecoveryKeys,
              NEW pw \in Passwords,
             RecoverReadDek(a, rk, pw)
      PROVE  DekInv'
  BY <1>17
     DEF RecoverReadDek, DekInv, OneDek, StateOK, OpType, Stages, Holds,
         NoWrap, IsOpen, VaultType, Closed, Goto, Opens, CanOpen, Begin,
         meta, remote, ghosts, Idle, NoKit
<1>18. ASSUME StateOK, DekInv, NEW a \in Actors,
             RecoverReadFdek(a)
      PROVE  DekInv'
  BY <1>18, RecoverReadFdekEffect
     DEF RecoverReadFdek, DekInv, OneDek, Holds, Others, Idle, NoKit, NoWrap,
         At, IsOpen, meta, remote
<1>19. ASSUME StateOK, DekInv, NEW a \in Actors,
             RecoverDek(a)
      PROVE  DekInv'
  <2>1. /\ dekwrap' = WrapWith(op[a].pw, Dek) /\ op[a].dek = Dek
        /\ UNCHANGED <<db, recoverywrap, kit, uploads, vault>>
    BY <1>19
       DEF RecoverDek, remote, IsOpen, DekInv, OneDek, KitOpens, Opens,
           Holds,
              At
  <2>2. WrapWith(op[a].pw, Dek).payload = Dek /\ WrapWith(op[a].pw, Dek) # NoWrap
    BY DEF WrapWith, NoWrap
  <2> QED
    BY <1>19, <2>1, <2>2, RecoverDekEffect
       DEF DekInv, OneDek, Holds, Others, IsOpen, Idle, NoKit, NoWrap
<1>20. ASSUME StateOK, DekInv, NEW a \in Actors,
             RecoverFdek(a)
      PROVE  DekInv'
  BY <1>20
     DEF RecoverFdek, DekInv, OneDek, StateOK, OpType, Stages, Holds,
         NoWrap, IsOpen, VaultType, Closed, Finish, WrapWith, At, remote,
         ghosts, Idle, NoKit
<1>21. ASSUME StateOK, DekInv, NEW a \in Actors,
             BindSend(a)
      PROVE  DekInv'
  BY <1>21
     DEF BindSend, DekInv, OneDek, StateOK, OpType, Stages, Holds, NoWrap,
         IsOpen, VaultType, Closed, PackKit, IsOpen, Begin, PackKit, meta,
         ghosts
<1>22. ASSUME StateOK, DekInv, NEW a \in Actors,
             KitFetch(a)
      PROVE  DekInv'
  BY <1>22
     DEF KitFetch, DekInv, OneDek, StateOK, OpType, Stages, Holds, NoWrap,
         IsOpen, VaultType, Closed, Goto, Begin, meta, remote, ghosts,
         Idle, NoKit
<1>23. ASSUME StateOK, DekInv, NEW a \in Actors,
             KitExpire(a)
      PROVE  DekInv'
  BY <1>23
     DEF KitExpire, DekInv, OneDek, StateOK, OpType, Stages, Holds, NoWrap,
         IsOpen, VaultType, Closed, Finish, At, meta, remote, ghosts, Idle,
         NoKit
<1>24. ASSUME StateOK, DekInv, NEW a \in Actors, NEW rk \in RecoveryKeys,
              NEW pw \in Passwords,
             KitDek(a, rk, pw)
      PROVE  DekInv'
  <2>1. /\ dekwrap' = WrapWith(pw, Dek)
        /\ UNCHANGED <<db, recoverywrap, kit, uploads, vault>>
    BY <1>24
       DEF KitDek, remote, IsOpen, DekInv, OneDek, KitOpens, Opens, Holds,
              At
  <2>2. WrapWith(pw, Dek).payload = Dek /\ WrapWith(pw, Dek) # NoWrap
    BY DEF WrapWith, NoWrap
  <2> QED
    BY <1>24, <2>1, <2>2, KitDekEffect
       DEF DekInv, OneDek, Holds, Others, IsOpen, Idle, NoKit, NoWrap
<1>25. ASSUME StateOK, DekInv, NEW a \in Actors,
             KitFdek(a)
      PROVE  DekInv'
  BY <1>25
     DEF KitFdek, DekInv, OneDek, StateOK, OpType, Stages, Holds, NoWrap,
         IsOpen, VaultType, Closed, Advance, WrapWith, At, remote, ghosts
<1>26. ASSUME StateOK, DekInv, NEW a \in Actors,
             KitRecovery(a)
      PROVE  DekInv'
  BY <1>26
     DEF KitRecovery, DekInv, OneDek, StateOK, OpType, Stages, Holds,
         NoWrap, IsOpen, VaultType, Closed, Finish, At, remote, ghosts,
         Idle, NoKit
<1>27. ASSUME StateOK, DekInv, NEW a \in Actors,
             StatementFails(a)
      PROVE  DekInv'
  BY <1>27
     DEF StatementFails, DekInv, OneDek, StateOK, OpType, Stages, Holds,
         NoWrap, IsOpen, VaultType, Closed, Finish, Begin, meta, remote,
         ghosts, Idle, NoKit
<1>28. ASSUME StateOK, DekInv, NEW a \in Actors,
             Crash(a)
      PROVE  DekInv'
  BY <1>28
     DEF Crash, DekInv, OneDek, StateOK, OpType, Stages, Holds, NoWrap,
         IsOpen, VaultType, Closed, Finish, IsOpen, Begin, meta, remote,
         ghosts, Idle, NoKit
<1>29. ASSUME StateOK, DekInv, NEW k \in uploads,
             ServiceUpsert(k)
      PROVE  DekInv'
  BY <1>29
     DEF ServiceUpsert, DekInv, OneDek, StateOK, OpType, Stages, Holds,
         NoWrap, IsOpen, VaultType, Closed, meta, ghosts
<1>30. ASSUME StateOK, DekInv, NEW k \in uploads,
             UploadLost(k)
      PROVE  DekInv'
  BY <1>30
     DEF UploadLost, DekInv, OneDek, StateOK, OpType, Stages, Holds, NoWrap,
         IsOpen, VaultType, Closed, meta, ghosts
<1>31. ASSUME StateOK, DekInv, UNCHANGED vars PROVE DekInv'
  BY <1>31
     DEF DekInv, OneDek, StateOK, OpType, Stages, Holds, NoWrap, IsOpen,
         VaultType, Closed, vars, meta, remote, ghosts
<1> QED
  BY <1>1, <1>2, <1>3, <1>4, <1>5, <1>6, <1>7, <1>8, <1>9, <1>10, <1>11,
     <1>12, <1>13, <1>14, <1>15, <1>16, <1>17, <1>18, <1>19, <1>20, <1>21,
     <1>22, <1>23, <1>24, <1>25, <1>26, <1>27, <1>28, <1>29, <1>30, <1>31
     DEF Next, Step, Local, Sessions, Rewraps, Kits, Faults, Uploads

\* Before initialize there is no wrap; a version 2 vault has both, of the DEK.
LEMMA InitDek == Init => DekInv
<1>1. ASSUME FreshInit PROVE DekInv
  BY <1>1 DEF FreshInit, DekInv, OneDek, Holds, IsOpen, Idle, NoKit
<1>2. ASSUME LegacyInit PROVE DekInv
  BY <1>2, KeysDistinct
     DEF LegacyInit, DekInv, OneDek, Holds, IsOpen, Idle, NoKit, NoWrap,
         WrapWith
<1> QED
  BY <1>1, <1>2 DEF Init

\* No password change, rotation or reset, however interleaved, interrupted or
\* fed with an old kit, makes a wrap hold anything but the vault's DEK.
THEOREM DekNeverLost == Spec => []OneDek
<1>1. Init => StateOK /\ DekInv
  BY InitTyped, InitDek
<1>2. StateOK /\ DekInv /\ [Next]_vars => (StateOK /\ DekInv)'
  BY TypeStep, DekStep
<1>3. DekInv => OneDek
  BY DEF DekInv
<1> QED
  BY <1>1, <1>2, <1>3, PTL DEF Spec

-----------------------------------------------------------------------------
(* The FDEK of a vault made by initialize.                                 *)

\* Every step keeps the wraps, the kits, the caches and the operations in
\* flight on the one FDEK, and the fields under it.
LEMMA FreshStep == StateOK /\ FreshInv /\ [Next]_vars => FreshInv'
<1> USE KeysDistinct
<1>1. ASSUME StateOK, FreshInv, NEW a \in Actors, NEW pw \in Passwords,
             InitializeCheck(a, pw)
      PROVE  FreshInv'
  BY <1>1
     DEF InitializeCheck, FreshInv, NoMixedRows, WrapExists, KitWith, Never, Note,
         StateOK, OpType, Stages, NoWrap, IsOpen, VaultType, Closed, Goto,
         Begin, meta, remote, ghosts, Idle, NoKit
<1>2. ASSUME StateOK, FreshInv, NEW a \in Actors,
             InitializeCreate(a)
      PROVE  FreshInv'
  BY <1>2
     DEF InitializeCreate, FreshInv, NoMixedRows, WrapExists, KitWith, Never, Note,
         StateOK, OpType, Stages, NoWrap, IsOpen, VaultType, Closed,
         Advance, At, meta, remote, ghosts
<1>3. ASSUME StateOK, FreshInv, NEW a \in Actors,
             NEW rk \in Fresh(RecoveryKeys), NEW f \in Fresh(Fdeks),
             InitializeInsert(a, rk, f)
      PROVE  FreshInv'
  <2>1. /\ UNCHANGED <<rows, kit, uploads, vault>> /\ db = "empty" /\ db' = "ready"
        /\ fdek_wrap' = WrapWith(op[a].pw, f) /\ fdek_wrap_recovery' = WrapWith(rk, f)
        /\ op[a].pc = "init_insert" /\ Finish(a)
    BY <1>3 DEF InitializeInsert, At, remote
  <2>2. /\ rows = [r \in Rows |-> None] /\ kit = NoKit /\ uploads = {}
        /\ \A b \in Actors :
             /\ vault[b] = Closed /\ op[b].pc \in {"idle", "init", "init_insert"}
             /\ op[b].pc # "idle" => op[b].pw \in Passwords
    BY <1>3, <2>1 DEF FreshInv
  <2>3. /\ fdek_wrap'.key = op[a].pw /\ op[a].pw \in Passwords
        /\ fdek_wrap'.payload = f /\ f \in Fdeks /\ fdek_wrap_recovery'.payload = f
        /\ fdek_wrap' # NoWrap /\ fdek_wrap_recovery' # NoWrap
    BY <1>3, <2>1, <2>2 DEF WrapWith, NoWrap, Fresh
  <2>4. Others(a) /\ op'[a] = Idle
    BY <1>3, <2>1, FinishEffect DEF StateOK
  <2>5. \A b \in Actors :
          /\ op'[b].pc \in {"idle", "init", "init_insert"}
          /\ op'[b].pc # "idle" => op'[b].pw \in Passwords
    BY <2>2, <2>4 DEF Others, Idle
  <2>6. NoMixedRows'
    BY <2>1, <2>2, <2>3 DEF NoMixedRows
  <2>7. /\ WrapExists' /\ \A b \in Actors : ~IsOpen(b)'
        /\ \A k \in (uploads \cup {kit})' : k = NoKit
    BY <2>1, <2>2, <2>3 DEF WrapExists, IsOpen
  <2> QED
    BY <2>1, <2>3, <2>5, <2>6, <2>7 DEF FreshInv
<1>4. ASSUME StateOK, FreshInv, NEW a \in Actors,
             InitializeConflict(a)
      PROVE  FreshInv'
  BY <1>4
     DEF InitializeConflict, FreshInv, NoMixedRows, WrapExists, KitWith, Never, Note,
         StateOK, OpType, Stages, NoWrap, IsOpen, VaultType, Closed, Finish,
         At, meta, remote, ghosts, Idle, NoKit
<1>5. ASSUME StateOK, FreshInv, NEW a \in Actors, NEW pw \in Passwords,
             UnlockDek(a, pw)
      PROVE  FreshInv'
  BY <1>5
     DEF UnlockDek, FreshInv, NoMixedRows, WrapExists, KitWith, Never, Note, StateOK,
         OpType, Stages, NoWrap, IsOpen, VaultType, Closed, Goto, Opens,
         CanOpen, Begin, meta, remote, ghosts, Idle, NoKit
<1>6. ASSUME StateOK, FreshInv, NEW a \in Actors,
             UnlockOpen(a)
      PROVE  FreshInv'
  <2>1. /\ UNCHANGED <<db, rows, kit, uploads, fdek_wrap, fdek_wrap_recovery,
                      past>>
        /\ op[a].pc = "unlock" /\ Finish(a)
    BY <1>6 DEF UnlockOpen, At, meta, remote, ghosts
  <2>2. Others(a) /\ op'[a] = Idle
    BY <1>6, <2>1, FinishEffect DEF StateOK
  <2>3. db = "ready" /\ WrapExists
    BY <1>6, <2>1 DEF FreshInv
  <2>4. \A b \in Actors :
          IsOpen(b)' => /\ vault'[b].has_fdek
                        /\ vault'[b].cache \in {None, fdek_wrap.payload}
    BY <1>6, <2>3 DEF UnlockOpen, FreshInv, IsOpen, StateOK
  <2> QED
    BY <1>6, <2>1, <2>2, <2>3, <2>4
       DEF FreshInv, NoMixedRows, WrapExists, KitWith, Never, Note, Others, Idle
<1>7. ASSUME StateOK, FreshInv, NEW a \in Actors,
             Close(a)
      PROVE  FreshInv'
  BY <1>7
     DEF Close, FreshInv, NoMixedRows, WrapExists, KitWith, Never, Note, StateOK, OpType,
         Stages, NoWrap, IsOpen, VaultType, Closed, IsOpen, Begin, meta,
         remote, ghosts
<1>8. ASSUME StateOK, FreshInv, NEW a \in Actors, NEW pw \in Passwords,
             UnlockSecondFactor(a, pw)
      PROVE  FreshInv'
  <2>1. /\ UNCHANGED <<db, rows, kit, uploads, op, past, fdek_wrap,
                      fdek_wrap_recovery>>
        /\ IsOpen(a) /\ WrapExists
    BY <1>8 DEF UnlockSecondFactor, FreshInv, IsOpen, meta, remote, ghosts, WrapExists
  <2>2. \A b \in Actors :
          IsOpen(b)' => /\ vault'[b].has_fdek
                        /\ vault'[b].cache \in {None, fdek_wrap.payload}
    BY <1>8, <2>1, VaultEffect DEF FreshInv, IsOpen, Closed
  <2>3. db = "ready"
    BY <1>8, <2>1 DEF FreshInv
  <2> QED
    BY <1>8, <2>1, <2>2, <2>3 DEF FreshInv, NoMixedRows, WrapExists, KitWith, Never, Note
<1>9. ASSUME StateOK, FreshInv, NEW a \in Actors,
             LockSecondFactor(a)
      PROVE  FreshInv'
  <2>1. /\ UNCHANGED <<db, rows, kit, uploads, op, past, fdek_wrap,
                      fdek_wrap_recovery>>
        /\ IsOpen(a) /\ WrapExists
    BY <1>9 DEF LockSecondFactor, FreshInv, IsOpen, meta, remote, ghosts, WrapExists
  <2>2. \A b \in Actors :
          IsOpen(b)' => /\ vault'[b].has_fdek
                        /\ vault'[b].cache \in {None, fdek_wrap.payload}
    BY <1>9, <2>1, VaultEffect DEF FreshInv, IsOpen, Closed
  <2>3. db = "ready"
    BY <1>9, <2>1 DEF FreshInv
  <2> QED
    BY <1>9, <2>1, <2>2, <2>3 DEF FreshInv, NoMixedRows, WrapExists, KitWith, Never, Note
<1>10. ASSUME StateOK, FreshInv, NEW a \in Actors, NEW r \in Rows,
             SealSecret(a, r)
      PROVE  FreshInv'
  BY <1>10
     DEF SealSecret, FreshInv, NoMixedRows, WrapExists, KitWith, Never, Note, StateOK,
         OpType, Stages, NoWrap, IsOpen, VaultType, Closed, SealKey,
         IsOpen, Begin, meta, remote, ghosts
<1>11. ASSUME StateOK, FreshInv, NEW a \in Actors, NEW pw \in Passwords,
              NEW rk \in RecoveryKeys,
                NEW f \in Fresh(Fdeks),
             EnableFdek(a, pw, rk, f)
      PROVE  FreshInv'
  BY <1>11
     DEF EnableFdek, FreshInv, NoMixedRows, WrapExists, KitWith, Never, Note, StateOK,
         OpType, Stages, NoWrap, IsOpen, VaultType, Closed, WrapWith,
         IsOpen, Begin, remote, Fresh
<1>12. ASSUME StateOK, FreshInv, NEW a \in Actors, NEW pw \in Passwords,
             ChangeDek(a, pw)
      PROVE  FreshInv'
  <2>1. /\ UNCHANGED <<db, rows, kit, uploads, vault, past, fdek_wrap,
                      fdek_wrap_recovery>>
        /\ db = "ready" /\ WrapExists
        /\ vault[a].has_fdek => vault[a].cache = fdek_wrap.payload
    BY <1>12 DEF ChangeDek, FreshInv, WrapExists, IsOpen, MayRewrap, remote,
                 ghosts
  <2>2. /\ op'[a].pc \in {"change_fdek", "idle"}
        /\ op'[a].pc = "change_fdek" => /\ op'[a].pw \in Passwords
                                        /\ op'[a].fdek = fdek_wrap.payload
        /\ \A b \in Actors : b # a => op'[b] = op[b]
    BY <1>12, <2>1, ChangeDekEffect DEF Idle, Others
  <2>3. /\ db' = "ready" /\ WrapExists'
        /\ NoMixedRows'
    BY <1>12, <2>1 DEF FreshInv, NoMixedRows, WrapExists
  <2> QED
    BY <1>12, <2>1, <2>2, <2>3 DEF FreshInv, WrapExists, KitWith, Never, Note, IsOpen
<1>13. ASSUME StateOK, FreshInv, NEW a \in Actors,
             ChangeFdek(a)
      PROVE  FreshInv'
  BY <1>13
     DEF ChangeFdek, FreshInv, NoMixedRows, WrapExists, KitWith, Never, Note, StateOK,
         OpType, Stages, NoWrap, IsOpen, VaultType, Closed, Finish,
         WrapWith, At, remote, ghosts, Idle, NoKit
<1>14. ASSUME StateOK, FreshInv, NEW a \in Actors,
              NEW rk \in Fresh(RecoveryKeys),
             RegenerateDek(a, rk)
      PROVE  FreshInv'
  BY <1>14
     DEF RegenerateDek, FreshInv, NoMixedRows, WrapExists, KitWith, Never, Note, StateOK,
         OpType, Stages, NoWrap, IsOpen, VaultType, Closed, Goto, WrapWith,
         CapturedFdek, IsOpen, Begin, MayRewrap, remote, Idle, NoKit, Fresh
<1>15. ASSUME StateOK, FreshInv, NEW a \in Actors,
             RegenerateFdek(a)
      PROVE  FreshInv'
  BY <1>15
     DEF RegenerateFdek, FreshInv, NoMixedRows, WrapExists, KitWith, Never, Note,
         StateOK, OpType, Stages, NoWrap, IsOpen, VaultType, Closed,
         Advance, WrapWith, At, remote, ghosts
<1>16. ASSUME StateOK, FreshInv, NEW a \in Actors,
             RegenerateReturn(a)
      PROVE  FreshInv'
  BY <1>16
     DEF RegenerateReturn, FreshInv, NoMixedRows, WrapExists, KitWith, Never, Note,
         StateOK, OpType, Stages, NoWrap, IsOpen, VaultType, Closed, Finish,
         At, meta, remote, Idle, NoKit
<1>17. ASSUME StateOK, FreshInv, NEW a \in Actors, NEW rk \in RecoveryKeys,
              NEW pw \in Passwords,
             RecoverReadDek(a, rk, pw)
      PROVE  FreshInv'
  BY <1>17
     DEF RecoverReadDek, FreshInv, NoMixedRows, WrapExists, KitWith, Never, Note,
         StateOK, OpType, Stages, NoWrap, IsOpen, VaultType, Closed, Goto,
         Opens, CanOpen, Begin, meta, remote, ghosts, Idle, NoKit
<1>18. ASSUME StateOK, FreshInv, NEW a \in Actors,
             RecoverReadFdek(a)
      PROVE  FreshInv'
  <2>1. /\ UNCHANGED <<db, rows, kit, uploads, vault, past, fdek_wrap,
                      fdek_wrap_recovery>>
        /\ db = "ready"
        /\ At(a, "recover_fdek")
    BY <1>18
       DEF RecoverReadFdek, FreshInv, WrapExists, IsOpen, At, CanOpen,
           MayRewrap, meta, remote, ghosts
  <2> QED
    BY <1>18, <2>1, RecoverReadFdekEffect
       DEF FreshInv, NoMixedRows, WrapExists, KitWith, Never, Note, Others, IsOpen, Idle,
           NoKit, At
<1>19. ASSUME StateOK, FreshInv, NEW a \in Actors,
             RecoverDek(a)
      PROVE  FreshInv'
  <2>1. /\ UNCHANGED <<db, rows, kit, uploads, vault, past, fdek_wrap,
                      fdek_wrap_recovery>>
        /\ db = "ready"
        /\ At(a, "recover_dek")
    BY <1>19
       DEF RecoverDek, FreshInv, WrapExists, IsOpen, At, CanOpen, MayRewrap,
           meta, remote, ghosts
  <2>2. /\ \A b \in Actors : b # a => op'[b] = op[b]
        /\ \/ /\ op'[a].pc = "recover_rewrap" /\ op'[a].pw = op[a].pw
              /\ op'[a].fdek = op[a].fdek /\ op[a].fdek # None
           \/ op'[a] = Idle
    BY <1>19, RecoverDekEffect DEF Others
  <2>3. \A k : KitWith(k, fdek_wrap.payload) => KitWith(k, fdek_wrap.payload)'
    BY <2>1 DEF KitWith, Never
  <2>4. WrapExists /\ WrapExists' /\ NoMixedRows'
    BY <1>19, <2>1 DEF FreshInv, NoMixedRows, WrapExists
  <2>5. op'[a].pc = "recover_rewrap" =>
          op'[a].fdek = fdek_wrap.payload /\ op'[a].pw \in Passwords
    BY <1>19, <2>1, <2>2, <2>4 DEF FreshInv, At, Idle
  <2> QED
    BY <1>19, <2>1, <2>2, <2>3, <2>4, <2>5
       DEF FreshInv, Never, IsOpen, Idle, At
<1>20. ASSUME StateOK, FreshInv, NEW a \in Actors,
             RecoverFdek(a)
      PROVE  FreshInv'
  BY <1>20
     DEF RecoverFdek, FreshInv, NoMixedRows, WrapExists, KitWith, Never, Note, StateOK,
         OpType, Stages, NoWrap, IsOpen, VaultType, Closed, Finish,
         WrapWith, At, remote, ghosts, Idle, NoKit
<1>21. ASSUME StateOK, FreshInv, NEW a \in Actors,
             BindSend(a)
      PROVE  FreshInv'
  BY <1>21
     DEF BindSend, FreshInv, NoMixedRows, WrapExists, KitWith, Never, Note, StateOK,
         OpType, Stages, NoWrap, IsOpen, VaultType, Closed, PackKit,
         IsOpen, Begin, PackKit, meta, ghosts
<1>22. ASSUME StateOK, FreshInv, NEW a \in Actors,
             KitFetch(a)
      PROVE  FreshInv'
  BY <1>22
     DEF KitFetch, FreshInv, NoMixedRows, WrapExists, KitWith, Never, Note, StateOK,
         OpType, Stages, NoWrap, IsOpen, VaultType, Closed, Goto, Begin,
         meta, remote, ghosts, Idle, NoKit
<1>23. ASSUME StateOK, FreshInv, NEW a \in Actors,
             KitExpire(a)
      PROVE  FreshInv'
  BY <1>23
     DEF KitExpire, FreshInv, NoMixedRows, WrapExists, KitWith, Never, Note, StateOK,
         OpType, Stages, NoWrap, IsOpen, VaultType, Closed, Finish, At,
         meta, remote, ghosts, Idle, NoKit
<1>24. ASSUME StateOK, FreshInv, NEW a \in Actors, NEW rk \in RecoveryKeys,
              NEW pw \in Passwords,
             KitDek(a, rk, pw)
      PROVE  FreshInv'
  <2>1. /\ UNCHANGED <<db, rows, kit, uploads, vault, fdek_wrap,
                      fdek_wrap_recovery>>
        /\ db = "ready" /\ WrapExists /\ past' = past \cup {"kit"}
        /\ op[a].pc = "kit"
    BY <1>24 DEF KitDek, FreshInv, At, CanOpen, remote, Note
  <2>2. op'[a].pc = "kit_fdek" => op[a].kit.fdek # NoWrap
    <3>1. op[a].kit.fdek = NoWrap => Finish(a)
      BY <1>24 DEF KitDek
    <3> QED
      BY <1>24, <3>1, FinishEffect DEF StateOK, Idle
  <2>3. \A k : KitWith(k, fdek_wrap.payload) => KitWith(k, fdek_wrap.payload)'
    BY <2>1 DEF KitWith, Never
  <2>4. \A b \in Actors : b # a => op'[b] = op[b]
    BY <1>24, KitDekEffect DEF Others
  <2>5. \/ /\ op'[a].pc = "kit_fdek" /\ op'[a].pw = pw
           /\ op'[a].kit = op[a].kit /\ op[a].kit.fdek # NoWrap
        \/ op'[a] = Idle
    BY <1>24, <2>2, KitDekEffect
  <2>6. WrapExists' /\ NoMixedRows'
    BY <1>24, <2>1 DEF FreshInv, NoMixedRows, WrapExists
  <2> QED
    BY <1>24, <2>1, <2>3, <2>4, <2>5, <2>6 DEF FreshInv, Never, IsOpen, Idle
<1>25. ASSUME StateOK, FreshInv, NEW a \in Actors,
             KitFdek(a)
      PROVE  FreshInv'
  BY <1>25
     DEF KitFdek, FreshInv, NoMixedRows, WrapExists, KitWith, Never, Note, StateOK,
         OpType, Stages, NoWrap, IsOpen, VaultType, Closed, Advance,
         WrapWith, At, remote, ghosts
<1>26. ASSUME StateOK, FreshInv, NEW a \in Actors,
             KitRecovery(a)
      PROVE  FreshInv'
  BY <1>26
     DEF KitRecovery, FreshInv, NoMixedRows, WrapExists, KitWith, Never, Note, StateOK,
         OpType, Stages, NoWrap, IsOpen, VaultType, Closed, Finish, At,
         remote, ghosts, Idle, NoKit
<1>27. ASSUME StateOK, FreshInv, NEW a \in Actors,
             StatementFails(a)
      PROVE  FreshInv'
  BY <1>27
     DEF StatementFails, FreshInv, NoMixedRows, WrapExists, KitWith, Never, Note,
         StateOK, OpType, Stages, NoWrap, IsOpen, VaultType, Closed, Finish,
         Begin, meta, remote, ghosts, Idle, NoKit
<1>28. ASSUME StateOK, FreshInv, NEW a \in Actors,
             Crash(a)
      PROVE  FreshInv'
  <2>1. /\ UNCHANGED <<db, dekwrap, rows, kit, uploads,
                      fdek_wrap, fdek_wrap_recovery>>
        /\ past' = past \cup {"fault"}
        /\ Finish(a)
        /\ vault' = [vault EXCEPT ![a] = Closed]
    BY <1>28 DEF Crash, meta, remote, Note
  <2> QED
    BY <1>28, <2>1, FinishEffect
       DEF StateOK, FreshInv, NoMixedRows, WrapExists, KitWith, Never, Note, Others, IsOpen,
           Idle
<1>29. ASSUME StateOK, FreshInv, NEW k \in uploads,
             ServiceUpsert(k)
      PROVE  FreshInv'
  BY <1>29
     DEF ServiceUpsert, FreshInv, NoMixedRows, WrapExists, KitWith, Never, Note, StateOK,
         OpType, Stages, NoWrap, IsOpen, VaultType, Closed, meta, ghosts
<1>30. ASSUME StateOK, FreshInv, NEW k \in uploads,
             UploadLost(k)
      PROVE  FreshInv'
  BY <1>30
     DEF UploadLost, FreshInv, NoMixedRows, WrapExists, KitWith, Never, Note, StateOK,
         OpType, Stages, NoWrap, IsOpen, VaultType, Closed, meta, ghosts
<1>31. ASSUME StateOK, FreshInv, UNCHANGED vars PROVE FreshInv'
  BY <1>31
     DEF FreshInv, NoMixedRows, WrapExists, KitWith, Never, Note, StateOK, OpType,
         Stages, NoWrap, IsOpen, VaultType, Closed, vars, meta, remote,
         ghosts
<1> QED
  BY <1>1, <1>2, <1>3, <1>4, <1>5, <1>6, <1>7, <1>8, <1>9, <1>10, <1>11,
     <1>12, <1>13, <1>14, <1>15, <1>16, <1>17, <1>18, <1>19, <1>20, <1>21,
     <1>22, <1>23, <1>24, <1>25, <1>26, <1>27, <1>28, <1>29, <1>30, <1>31
     DEF Next, Step, Local, Sessions, Rewraps, Kits, Faults, Uploads

\* Before initialize nothing exists and nobody has anything to write.
LEMMA InitFresh == FreshInit => FreshInv
  BY DEF FreshInit, FreshInv, NoMixedRows, WrapExists, Idle, NoKit, NoWrap

\* The induction behind both theorems below.
LEMMA FreshInduction == FreshSpec => [](StateOK /\ FreshInv)
<1>1. FreshInit => StateOK /\ FreshInv
  BY InitTyped, InitFresh DEF Init
<1>2. StateOK /\ FreshInv /\ [Next]_vars => (StateOK /\ FreshInv)'
  BY TypeStep, FreshStep
<1> QED
  BY <1>1, <1>2, PTL DEF FreshSpec

\* In a vault made by initialize no field is ever outside the second factor,
\* and both FDEK wraps hold the key of every field.
THEOREM NoMixedRowsEver == FreshSpec => []NoMixedRows
<1>1. FreshInv => NoMixedRows
  BY DEF FreshInv
<1> QED
  BY <1>1, FreshInduction, PTL

\* The fields of such a vault are under the FDEK, which a password opens.
LEMMA OpenableFresh == StateOK /\ FreshInv => NoDataLost
<1> SUFFICES ASSUME StateOK, FreshInv, NEW r \in Rows, rows[r] # None
             PROVE  rows[r] \in Openable
  BY DEF NoDataLost
<1>1. WrapExists
  BY DEF FreshInv, StateOK
<1>2. rows[r] = fdek_wrap.payload
  BY <1>1 DEF FreshInv, NoMixedRows
<1>3. fdek_wrap.key \in Passwords
  BY <1>1 DEF FreshInv
<1> QED
  BY <1>2, <1>3 DEF Openable

\* In a vault made by initialize every stored field opens, between any two
\* statements of any operations and after any crash: the FDEK wrap is always
\* under a password and always holds the key of the fields.
THEOREM NoDataEverLost == FreshSpec => []NoDataLost
  BY OpenableFresh, FreshInduction, PTL

-----------------------------------------------------------------------------
(* A vault made by initialize implements Keyring.                          *)

\* The file keeps its keys and its fields.
SameKeys == /\ dekwrap'.payload = dekwrap.payload
            /\ fdek_wrap'.payload = fdek_wrap.payload
            /\ rows' = rows

\* Initialize comes once, and from then on every wrap is of the keys it made.
LEMMA SessionKeys ==
  ASSUME StateOK, FreshInv, DekInv, NEW a \in Actors, Sessions(a)
  PROVE  \/ SameKeys
         \/ \E rk \in Fresh(RecoveryKeys), f \in Fresh(Fdeks) :
              InitializeInsert(a, rk, f)
         \/ \E r \in Rows : SealSecret(a, r)
<1>1. ASSUME NEW pw \in Passwords, NEW rk \in RecoveryKeys,
             NEW f \in Fresh(Fdeks), EnableFdek(a, pw, rk, f)
      PROVE  FALSE
  <2>1. IsOpen(a) /\ ~vault[a].has_fdek
    BY <1>1 DEF EnableFdek
  <2> QED
    BY <2>1 DEF FreshInv, IsOpen
<1>2. ASSUME NEW pw \in Passwords,
             InitializeCheck(a, pw) \/ UnlockDek(a, pw)
               \/ UnlockSecondFactor(a, pw)
      PROVE  SameKeys
  BY <1>2
     DEF InitializeCheck, UnlockDek, UnlockSecondFactor, SameKeys, meta
<1>3. ASSUME InitializeCreate(a) \/ InitializeConflict(a) \/ UnlockOpen(a)
               \/ Close(a) \/ LockSecondFactor(a)
      PROVE  SameKeys
  BY <1>3 DEF InitializeCreate, InitializeConflict, UnlockOpen, Close,
              LockSecondFactor, SameKeys, meta
<1> QED
  BY <1>1, <1>2, <1>3 DEF Sessions

\* No rewrap replaces a key.
LEMMA RewrapKeys ==
  ASSUME StateOK, FreshInv, DekInv, NEW a \in Actors, Rewraps(a)
  PROVE  SameKeys
<1>1. ASSUME NEW pw \in Passwords, ChangeDek(a, pw) PROVE SameKeys
  BY <1>1 DEF ChangeDek, SameKeys, WrapWith, FreshInv, DekInv, OneDek, Holds,
              IsOpen
<1>2. ASSUME ChangeFdek(a) PROVE SameKeys
  BY <1>2 DEF ChangeFdek, SameKeys, WrapWith, FreshInv, At
<1>3. ASSUME NEW rk \in Fresh(RecoveryKeys), RegenerateDek(a, rk)
      PROVE  SameKeys
  BY <1>3 DEF RegenerateDek, SameKeys
<1>4. ASSUME RegenerateFdek(a) \/ RegenerateReturn(a) \/ RecoverReadFdek(a)
      PROVE  SameKeys
  BY <1>4 DEF RegenerateFdek, RegenerateReturn, RecoverReadFdek, SameKeys,
              meta
<1>5. ASSUME NEW rk \in RecoveryKeys, NEW pw \in Passwords,
             RecoverReadDek(a, rk, pw)
      PROVE  SameKeys
  BY <1>5 DEF RecoverReadDek, SameKeys, meta
<1>6. ASSUME RecoverDek(a) PROVE SameKeys
  BY <1>6 DEF RecoverDek, SameKeys, WrapWith, FreshInv, DekInv, OneDek,
              Holds, At
<1>7. ASSUME RecoverFdek(a) PROVE SameKeys
  BY <1>7 DEF RecoverFdek, SameKeys, WrapWith, FreshInv, At
<1> QED
  BY <1>1, <1>2, <1>3, <1>4, <1>5, <1>6, <1>7 DEF Rewraps

\* Neither does a kit, of any age.
LEMMA KitKeys ==
  ASSUME StateOK, FreshInv, DekInv, NEW a \in Actors, Kits(a)
  PROVE  SameKeys
<1>1. ASSUME BindSend(a) \/ KitFetch(a) \/ KitExpire(a) \/ KitRecovery(a)
      PROVE  SameKeys
  BY <1>1 DEF BindSend, KitFetch, KitExpire, KitRecovery, SameKeys, meta
<1>2. ASSUME NEW rk \in RecoveryKeys, NEW pw \in Passwords,
             KitDek(a, rk, pw)
      PROVE  SameKeys
  BY <1>2 DEF KitDek, SameKeys, WrapWith, FreshInv, DekInv, OneDek, Holds,
              At, CanOpen, KitOpens, Opens
<1>3. ASSUME KitFdek(a) PROVE SameKeys
  BY <1>3 DEF KitFdek, SameKeys, WrapWith, FreshInv, KitWith, At
<1> QED
  BY <1>1, <1>2, <1>3 DEF Kits

\* Every step maps to a step of Keyring or to none.
LEMMA RingStep ==
  StateOK /\ FreshInv /\ DekInv /\ [Next]_vars => [Ring!Next]_(Ring!vars)
<1> SUFFICES ASSUME StateOK, FreshInv, DekInv, [Next]_vars
             PROVE  SameKeys \/ Ring!Next
  BY DEF SameKeys, Ring!vars
<1>1. ASSUME NEW a \in Actors, NEW rk \in Fresh(RecoveryKeys),
             NEW f \in Fresh(Fdeks), InitializeInsert(a, rk, f)
      PROVE  Ring!Create
  <2>1. /\ dekwrap.payload = None
        /\ dekwrap'.payload = Dek /\ fdek_wrap'.payload = f /\ rows' = rows
    BY <1>1 DEF InitializeInsert, FreshInv, WrapWith, NoWrap
  <2>2. Dek \in DataKeys /\ f \in DataKeys /\ Dek # f
    BY KeysDistinct DEF DataKeys, Fresh
  <2> QED
    BY <2>1, <2>2 DEF Ring!Create
<1>2. ASSUME NEW a \in Actors, NEW r \in Rows, SealSecret(a, r)
      PROVE  Ring!Seal(r)
  <2>1. IsOpen(a) /\ SealKey(vault[a]) # None
        /\ rows' = [rows EXCEPT ![r] = SealKey(vault[a])]
        /\ UNCHANGED <<dekwrap, fdek_wrap>>
    BY <1>2 DEF SealSecret, meta
  <2>2. WrapExists /\ dekwrap.payload = Dek
    BY <2>1 DEF FreshInv, DekInv, OneDek, Holds, IsOpen
  <2>3. SealKey(vault[a]) = fdek_wrap.payload
    BY <2>1, <2>2 DEF SealKey, FreshInv
  <2>4. fdek_wrap.payload # None /\ Dek # None
    BY <2>2, KeysDistinct DEF FreshInv
  <2> QED
    BY <2>1, <2>2, <2>3, <2>4 DEF Ring!Seal, Ring!FieldKey
<1>3. ASSUME NEW a \in Actors, Sessions(a) PROVE SameKeys \/ Ring!Next
  BY <1>1, <1>2, <1>3, SessionKeys DEF Ring!Next
<1>4. ASSUME NEW a \in Actors, Faults(a) PROVE SameKeys
  BY <1>4 DEF Faults, StatementFails, Crash, SameKeys, meta
<1>5. ASSUME Uploads PROVE SameKeys
  BY <1>5 DEF Uploads, ServiceUpsert, UploadLost, SameKeys, meta
<1>6. ASSUME UNCHANGED vars PROVE SameKeys
  BY <1>6 DEF vars, meta, SameKeys
<1> QED
  BY <1>3, <1>4, <1>5, <1>6, RewrapKeys, KitKeys DEF Next, Step, Local

\* A vault made by initialize implements Keyring: whatever its operations,
\* faults and connections do, its two keys are made together, never change,
\* and every field is written under the FDEK.
THEOREM ImplementsKeyring == FreshSpec => KeepsKeyring
<1>1. FreshInit => Ring!Init
  BY DEF FreshInit, NoWrap, Ring!Init
<1>2. FreshInit => DekInv
  BY InitDek DEF Init
<1>3. StateOK /\ DekInv /\ [Next]_vars => DekInv'
  BY DekStep
<1>4. FreshSpec => []DekInv
  BY <1>2, <1>3, FreshInduction, PTL DEF FreshSpec
<1> QED
  BY <1>1, <1>4, FreshInduction, RingStep, PTL
     DEF FreshSpec, KeepsKeyring, Ring!Spec

-----------------------------------------------------------------------------
(* Which credentials the wraps of such a vault are under.                  *)

KeysInv == MintInv /\ AgreeInv /\ RotateInv

\* The steps that touch no wrap and no recovery key, and leave nobody between
\* the two wraps of a rewrap, except by a fault.
Harmless ==
  /\ UNCHANGED <<meta, minted, shown, retired>> /\ past \subseteq past'
  /\ \A a \in Actors :
       \/ op'[a] = op[a]
       \/ /\ op'[a].pc \notin {"change_fdek", "recover_rewrap", "kit_fdek",
                               "kit_recovery", "regen_fdek", "regen_return"}
          /\ Following(a) => "fault" \in past'

\* They keep the invariant.
LEMMA HarmlessKeeps ==
  ASSUME KeysInv, Harmless, Watch
  PROVE  KeysInv'
<1>1. alone' => alone /\ OneRewrites'
  BY DEF Watch
<1>2. MintInv'
  BY <1>1 DEF KeysInv, MintInv, Harmless, WrapExists, Never, meta
<1>3. AgreeInv'
  BY <1>1 DEF KeysInv, AgreeInv, Harmless, WrapExists, Never, Following, meta
<1>4. RotateInv'
  BY <1>1 DEF KeysInv, RotateInv, Harmless, Never, meta
<1> QED
  BY <1>2, <1>3, <1>4 DEF KeysInv

\* The sessions, but for initialize and enable_fdek, are among them.
LEMMA SessionHarmless ==
  ASSUME StateOK, NEW a \in Actors, Sessions(a)
  PROVE  \/ Harmless
         \/ \E rk \in Fresh(RecoveryKeys), f \in Fresh(Fdeks) :
              InitializeInsert(a, rk, f)
         \/ \E pw \in Passwords, rk \in RecoveryKeys, f \in Fresh(Fdeks) :
              EnableFdek(a, pw, rk, f)
<1> USE DEF StateOK, Harmless, ghosts, Following
<1>1. ASSUME NEW pw \in Passwords, InitializeCheck(a, pw) PROVE Harmless
  BY <1>1 DEF InitializeCheck, Goto, Begin, Idle
<1>2. ASSUME InitializeCreate(a) PROVE Harmless
  BY <1>2, AdvanceEffect DEF InitializeCreate, At, Others, Stages
<1>3. ASSUME InitializeConflict(a) PROVE Harmless
  BY <1>3, FinishEffect DEF InitializeConflict, At, Others, Idle
<1>4. ASSUME NEW pw \in Passwords, UnlockDek(a, pw) PROVE Harmless
  BY <1>4 DEF UnlockDek, Goto, Begin, Idle
<1>5. ASSUME UnlockOpen(a) PROVE Harmless
  BY <1>5, FinishEffect DEF UnlockOpen, At, Others, Idle
<1>6. ASSUME \/ Close(a) \/ LockSecondFactor(a)
             \/ \E pw \in Passwords : UnlockSecondFactor(a, pw)
             \/ \E r \in Rows : SealSecret(a, r)
      PROVE  Harmless
  BY <1>6 DEF Close, LockSecondFactor, UnlockSecondFactor, SealSecret
<1> QED
  BY <1>1, <1>2, <1>3, <1>4, <1>5, <1>6 DEF Sessions

\* So are the reads of a reset, the fetching of a kit, the service and faults.
LEMMA RestHarmless ==
  ASSUME StateOK, NEW a \in Actors,
         \/ \E rk \in RecoveryKeys, pw \in Passwords : RecoverReadDek(a, rk, pw)
         \/ RecoverReadFdek(a)
         \/ BindSend(a) \/ KitFetch(a) \/ KitExpire(a)
         \/ Faults(a)
  PROVE  Harmless
<1> USE DEF StateOK, Harmless, ghosts, Following
<1>1. ASSUME NEW rk \in RecoveryKeys, NEW pw \in Passwords,
             RecoverReadDek(a, rk, pw)
      PROVE  Harmless
  BY <1>1 DEF RecoverReadDek, Goto, Begin, Idle
<1>2. ASSUME RecoverReadFdek(a) PROVE Harmless
  <2>1. /\ Others(a) /\ op'[a].pc \in {"recover_dek", "idle"}
    BY <1>2, RecoverReadFdekEffect DEF Idle
  <2>2. /\ op[a].pc = "recover_fdek"
        /\ UNCHANGED <<meta, minted, shown, retired, past>>
    BY <1>2 DEF RecoverReadFdek, At
  <2> QED
    BY <2>1, <2>2 DEF Others
<1>3. ASSUME BindSend(a) PROVE Harmless
  BY <1>3 DEF BindSend
<1>4. ASSUME KitFetch(a) PROVE Harmless
  BY <1>4 DEF KitFetch, Goto, Begin, Idle
<1>5. ASSUME KitExpire(a) PROVE Harmless
  BY <1>5, FinishEffect DEF KitExpire, At, Others, Idle
<1>6. ASSUME StatementFails(a) \/ Crash(a) PROVE Harmless
  BY <1>6, FinishEffect DEF StatementFails, Crash, Note, Others, Idle
<1> QED
  BY <1>1, <1>2, <1>3, <1>4, <1>5, <1>6 DEF Faults

\* The actor that has just begun to rewrite is then the only one.
LEMMA OnlyOne ==
  ASSUME OneRewrites, NEW a \in Actors, Rewriting(a)
  PROVE  \A b \in Actors \ {a} :
           op[b].pc \notin {"change_fdek", "regen_fdek", "regen_return",
                            "recover_rewrap", "kit_fdek", "kit_recovery"}
BY DEF OneRewrites, Rewriting

\* initialize makes the wraps under one password and one recovery key.
LEMMA InsertKeys ==
  ASSUME StateOK, FreshInv, KeysInv, Watch, NEW a \in Actors,
         NEW rk \in Fresh(RecoveryKeys), NEW f \in Fresh(Fdeks),
         InitializeInsert(a, rk, f)
  PROVE  KeysInv'
<1> USE DEF StateOK
<1>1. alone' => alone /\ OneRewrites'
  BY DEF Watch
<1>2. Others(a) /\ op'[a] = Idle
  BY FinishEffect DEF InitializeInsert
<1>3. /\ db = "empty" /\ ~WrapExists /\ retired = {} /\ retired' = {}
      /\ \A b \in Actors : op[b].pc \in {"idle", "init", "init_insert"}
  BY DEF InitializeInsert, FreshInv, KeysInv, MintInv
<1>4. \A b \in Actors : op'[b].pc \in {"idle", "init", "init_insert"}
  BY <1>2, <1>3 DEF Others, Idle
<1>5. MintInv'
  BY <1>1, <1>3, <1>4 DEF KeysInv, MintInv, InitializeInsert
<1>6. AgreeInv'
  BY <1>4 DEF AgreeInv, InitializeInsert, WrapWith, Following
<1>7. RotateInv'
  BY <1>3, <1>4 DEF RotateInv, InitializeInsert, WrapWith
<1> QED
  BY <1>5, <1>6, <1>7 DEF KeysInv

\* change_master_password: the DEK's wrap, then the FDEK's.
LEMMA ChangeKeys ==
  ASSUME StateOK, FreshInv, KeysInv, Watch, NEW a \in Actors,
         ChangeFdek(a) \/ \E pw \in Passwords : ChangeDek(a, pw)
  PROVE  KeysInv'
<1> USE DEF StateOK
<1>1. alone' => alone /\ OneRewrites'
  BY DEF Watch
<1>2. ASSUME NEW pw \in Passwords, ChangeDek(a, pw) PROVE KeysInv'
  <2>1. /\ Others(a) /\ op'[a].pc = "change_fdek" /\ op'[a].pw = pw
        /\ WrapExists
    BY <1>2, ChangeDekEffect DEF ChangeDek, FreshInv, IsOpen
  <2>2. /\ dekwrap'.key = pw
        /\ UNCHANGED <<recoverywrap, fdek_wrap, fdek_wrap_recovery, ghosts>>
    BY <1>2 DEF ChangeDek, WrapWith
  <2>3. alone' => \A b \in Actors \ {a} : ~Following(b)'
    BY <1>1, <2>1, OnlyOne DEF OneRewrites, Rewriting, Following
  <2>4. MintInv'
    BY <1>1, <2>1, <2>2
       DEF KeysInv, MintInv, Others, WrapExists, Never, ghosts
  <2>5. AgreeInv'
    BY <2>1, <2>2, <2>3 DEF AgreeInv, Following
  <2>6. RotateInv'
    BY <1>1, <2>1, <2>2 DEF KeysInv, RotateInv, Others, Never, ghosts
  <2> QED
    BY <2>4, <2>5, <2>6 DEF KeysInv
<1>3. ASSUME ChangeFdek(a) PROVE KeysInv'
  <2>1. /\ Others(a) /\ op'[a] = Idle /\ op[a].pc = "change_fdek"
    BY <1>3, FinishEffect DEF ChangeFdek, At
  <2>2. /\ fdek_wrap'.key = op[a].pw /\ WrapExists
        /\ op[a].pw # None
        /\ UNCHANGED <<dekwrap, recoverywrap, fdek_wrap_recovery, ghosts>>
    BY <1>3, <2>1, KeysDistinct DEF ChangeFdek, WrapWith, FreshInv
  <2>3. alone => \A b \in Actors : ~Following(b)'
    BY <2>1, OnlyOne DEF KeysInv, MintInv, Rewriting, Following, Others, Idle
  <2>4. MintInv'
    BY <1>1, <2>1, <2>2
       DEF NoWrap, KeysInv, MintInv, Others, Idle, WrapExists, Never, ghosts
  <2>5. AgreeInv'
    BY <1>1, <2>1, <2>2, <2>3 DEF KeysInv, AgreeInv, Following, Never, ghosts
  <2>6. RotateInv'
    BY <1>1, <2>1, <2>2 DEF KeysInv, RotateInv, Others, Idle, Never, ghosts
  <2> QED
    BY <2>4, <2>5, <2>6 DEF KeysInv
<1> QED
  BY <1>2, <1>3

\* regenerate_recovery_key: a key that nobody has seen, until it is in both wraps.
LEMMA RegenerateKeys ==
  ASSUME StateOK, FreshInv, KeysInv, Watch, NEW a \in Actors,
         \/ \E rk \in Fresh(RecoveryKeys) : RegenerateDek(a, rk)
         \/ RegenerateFdek(a) \/ RegenerateReturn(a)
  PROVE  KeysInv'
<1> USE DEF StateOK
<1>1. alone' => alone /\ OneRewrites'
  BY DEF Watch
<1>2. ASSUME NEW rk \in Fresh(RecoveryKeys), RegenerateDek(a, rk) PROVE KeysInv'
  <2>1. /\ Others(a) /\ op'[a].pc = "regen_fdek" /\ op'[a].rk = rk
        /\ WrapExists /\ op[a].pc = "idle"
    BY <1>2, RegenerateDekEffect DEF RegenerateDek, FreshInv, IsOpen, Begin
  <2>2. /\ recoverywrap'.key = rk /\ minted' = minted \cup {rk}
        /\ UNCHANGED <<dekwrap, fdek_wrap, fdek_wrap_recovery, shown, retired,
                       past>>
    BY <1>2 DEF RegenerateDek, WrapWith
  <2>3. rk \notin shown /\ rk \notin retired
    BY DEF KeysInv, MintInv, Fresh
  <2>4. alone' => \A b \in Actors \ {a} :
                    op'[b].pc \notin {"regen_fdek", "regen_return"}
    BY <1>1, <2>1, OnlyOne DEF OneRewrites, Rewriting
  <2>5. MintInv'
    BY <1>1, <2>1, <2>2 DEF KeysInv, MintInv, Others, WrapExists, Never
  <2>6. AgreeInv'
    BY <1>1, <2>1, <2>2 DEF KeysInv, AgreeInv, Others, Following, WrapExists, Never
  <2>7. RotateInv'
    BY <1>1, <2>1, <2>2, <2>3, <2>4 DEF KeysInv, RotateInv, Never
  <2> QED
    BY <2>5, <2>6, <2>7 DEF KeysInv
<1>3. ASSUME RegenerateFdek(a) PROVE KeysInv'
  <2>1. /\ Others(a) /\ op'[a].pc = "regen_return" /\ op'[a].rk = op[a].rk
        /\ op[a].pc = "regen_fdek"
    BY <1>3, AdvanceEffect DEF RegenerateFdek, At, Stages
  <2>2. /\ fdek_wrap_recovery'.key = op[a].rk
        /\ UNCHANGED <<dekwrap, recoverywrap, fdek_wrap, ghosts>>
    BY <1>3 DEF RegenerateFdek, WrapWith
  <2>3. alone => \A b \in Actors \ {a} :
                   op'[b].pc \notin {"regen_fdek", "regen_return"}
    BY <2>1, OnlyOne DEF KeysInv, MintInv, Rewriting, Others
  <2>4. MintInv'
    BY <1>1, <2>1, <2>2
       DEF KeysInv, MintInv, Others, WrapExists, Never, ghosts
  <2>5. AgreeInv'
    BY <1>1, <2>1, <2>2
       DEF KeysInv, AgreeInv, Others, Following, WrapExists, Never, ghosts
  <2>6. RotateInv'
    BY <1>1, <2>1, <2>2, <2>3 DEF KeysInv, RotateInv, MintInv, Never, ghosts
  <2> QED
    BY <2>4, <2>5, <2>6 DEF KeysInv
<1>4. ASSUME RegenerateReturn(a) PROVE KeysInv'
  <2>1. /\ Others(a) /\ op'[a] = Idle /\ op[a].pc = "regen_return"
    BY <1>4, FinishEffect DEF RegenerateReturn, At
  <2>2. /\ retired' = shown /\ shown' = shown \cup {op[a].rk}
        /\ UNCHANGED <<meta, minted, past>>
    BY <1>4 DEF RegenerateReturn
  <2>3. alone => \A b \in Actors :
                   op'[b].pc \notin {"regen_fdek", "regen_return"}
    BY <2>1, OnlyOne DEF KeysInv, MintInv, Rewriting, Others, Idle
  <2>4. WrapExists
    BY <2>1 DEF FreshInv
  <2>5. MintInv'
    BY <1>1, <2>1, <2>2, <2>4
       DEF KeysInv, MintInv, Others, Idle, WrapExists, Never, meta
  <2>6. AgreeInv'
    BY <1>1, <2>1, <2>2
       DEF KeysInv, AgreeInv, Others, Idle, Following, WrapExists, Never, meta
  <2>7. RotateInv'
    BY <1>1, <2>1, <2>2, <2>3 DEF KeysInv, RotateInv, Never, meta
  <2> QED
    BY <2>5, <2>6, <2>7 DEF KeysInv
<1> QED
  BY <1>2, <1>3, <1>4

\* recover: both wraps under the new password, with the locals it read.
LEMMA RecoverKeys ==
  ASSUME StateOK, FreshInv, KeysInv, Watch, NEW a \in Actors,
         RecoverDek(a) \/ RecoverFdek(a)
  PROVE  KeysInv'
<1> USE DEF StateOK
<1>1. alone' => alone /\ OneRewrites'
  BY DEF Watch
<1>2. ASSUME RecoverDek(a) PROVE KeysInv'
  <2>1. /\ WrapExists /\ op[a].pc = "recover_dek" /\ Others(a)
        /\ \/ op'[a].pc = "recover_rewrap" /\ op'[a].pw = op[a].pw
           \/ op'[a] = Idle /\ op[a].fdek = None
    BY <1>2, RecoverDekEffect DEF RecoverDek, At, FreshInv
  <2>2. /\ dekwrap'.key = op[a].pw
        /\ UNCHANGED <<recoverywrap, fdek_wrap, fdek_wrap_recovery, ghosts>>
    BY <1>2 DEF RecoverDek, WrapWith
  <2>3. op'[a].pc = "recover_rewrap" \/ ~Never("enable")'
    BY <2>1, <2>2, KeysDistinct DEF FreshInv, Never, ghosts
  <2>4. alone => \A b \in Actors \ {a} : ~Following(b)'
    BY <2>1, OnlyOne DEF KeysInv, MintInv, Rewriting, Following, Others
  <2>5. MintInv'
    BY <1>1, <2>1, <2>2
       DEF KeysInv, MintInv, Others, WrapExists, Never, ghosts, Idle
  <2>6. AgreeInv'
    BY <1>1, <2>1, <2>2, <2>3, <2>4 DEF AgreeInv, Following, Idle
  <2>7. RotateInv'
    BY <1>1, <2>1, <2>2 DEF KeysInv, RotateInv, Others, Never, ghosts, Idle
  <2> QED
    BY <2>5, <2>6, <2>7 DEF KeysInv
<1>3. ASSUME RecoverFdek(a) PROVE KeysInv'
  <2>1. Others(a) /\ op'[a] = Idle /\ op[a].pc = "recover_rewrap"
    BY <1>3, FinishEffect DEF RecoverFdek, At
  <2>2. /\ fdek_wrap'.key = op[a].pw /\ WrapExists
        /\ op[a].pw # None
        /\ UNCHANGED <<dekwrap, recoverywrap, fdek_wrap_recovery, ghosts>>
    BY <1>3, <2>1, KeysDistinct DEF RecoverFdek, WrapWith, FreshInv
  <2>3. alone => \A b \in Actors : ~Following(b)'
    BY <2>1, OnlyOne DEF KeysInv, MintInv, Rewriting, Following, Others, Idle
  <2>4. MintInv'
    BY <1>1, <2>1, <2>2
       DEF NoWrap, KeysInv, MintInv, Others, Idle, WrapExists, Never, ghosts
  <2>5. AgreeInv'
    BY <1>1, <2>1, <2>2, <2>3 DEF KeysInv, AgreeInv, Following, Never, ghosts
  <2>6. RotateInv'
    BY <1>1, <2>1, <2>2 DEF KeysInv, RotateInv, Others, Idle, Never, ghosts
  <2> QED
    BY <2>4, <2>5, <2>6 DEF KeysInv
<1> QED
  BY <1>2, <1>3

\* recover_with_kit: the new password and, last, the recovery wrap of the kit,
\* of whatever age.
LEMMA KitKeysStep ==
  ASSUME StateOK, FreshInv, KeysInv, Watch, NEW a \in Actors,
         \/ \E rk \in RecoveryKeys, pw \in Passwords : KitDek(a, rk, pw)
         \/ KitFdek(a) \/ KitRecovery(a)
  PROVE  KeysInv'
<1> USE DEF StateOK
<1>1. alone' => alone /\ OneRewrites'
  BY DEF Watch
<1>2. ASSUME NEW rk \in RecoveryKeys, NEW pw \in Passwords, KitDek(a, rk, pw)
      PROVE  KeysInv'
  <2>1. /\ WrapExists /\ op[a].pc = "kit" /\ Others(a)
        /\ \/ op'[a].pc = "kit_fdek" /\ op'[a].pw = pw
           \/ op'[a] = Idle
    BY <1>2, KitDekEffect DEF KitDek, At, FreshInv
  <2>2. /\ dekwrap'.key = pw /\ past' = past \cup {"kit"}
        /\ UNCHANGED <<recoverywrap, fdek_wrap, fdek_wrap_recovery, minted,
                       shown, retired>>
    BY <1>2 DEF KitDek, WrapWith, Note
  <2>3. op'[a].pc = "kit_fdek" \/ ~Never("enable")'
    <3>1. op[a].kit.fdek # NoWrap \/ ~Never("enable")
      BY <2>1 DEF FreshInv, KitWith
    <3>2. op[a].kit.fdek # NoWrap =>
            op' = [op EXCEPT ![a].pc = "kit_fdek", ![a].rk = rk, ![a].pw = pw]
      BY <1>2 DEF KitDek
    <3>3. op[a].kit.fdek # NoWrap => op'[a].pc = "kit_fdek"
      BY <3>2 DEF OpType
    <3> QED
      BY <2>2, <3>1, <3>3 DEF Never
  <2>4. MintInv'
    BY <1>1, <2>1, <2>2 DEF KeysInv, MintInv, Others, WrapExists, Never, Idle
  <2>5. AgreeInv'
    <3>1. alone' /\ op'[a].pc = "kit_fdek" =>
            \A b \in Actors \ {a} : ~Following(b)'
      BY <1>1, OnlyOne DEF OneRewrites, Rewriting, Following
    <3> QED
      BY <2>1, <2>2, <2>3, <3>1 DEF AgreeInv, Following, Idle
  <2>6. RotateInv'
    BY <2>2 DEF RotateInv, Never
  <2> QED
    BY <2>4, <2>5, <2>6 DEF KeysInv
<1>3. ASSUME KitFdek(a) PROVE KeysInv'
  <2>1. /\ Others(a) /\ op'[a].pc = "kit_recovery" /\ op[a].pc = "kit_fdek"
        /\ ~Never("kit")
    BY <1>3, AdvanceEffect DEF KitFdek, At, Stages, KeysInv, MintInv
  <2>2. /\ fdek_wrap'.key = op[a].pw /\ WrapExists
        /\ op[a].pw # None
        /\ UNCHANGED <<dekwrap, recoverywrap, fdek_wrap_recovery, ghosts>>
    BY <1>3, <2>1, KeysDistinct DEF KitFdek, WrapWith, FreshInv
  <2>3. alone => \A b \in Actors : ~Following(b)'
    BY <2>1, OnlyOne DEF KeysInv, MintInv, Rewriting, Following, Others
  <2>4. MintInv'
    BY <1>1, <2>1, <2>2
       DEF NoWrap, KeysInv, MintInv, Others, WrapExists, Never, ghosts
  <2>5. AgreeInv'
    BY <1>1, <2>1, <2>2, <2>3 DEF KeysInv, AgreeInv, Following, Never, ghosts
  <2>6. RotateInv'
    BY <2>1, <2>2 DEF RotateInv, Never, ghosts
  <2> QED
    BY <2>4, <2>5, <2>6 DEF KeysInv
<1>4. ASSUME KitRecovery(a) PROVE KeysInv'
  <2>1. /\ Others(a) /\ op'[a] = Idle /\ op[a].pc = "kit_recovery"
        /\ ~Never("kit")
    BY <1>4, FinishEffect DEF KitRecovery, At, KeysInv, MintInv
  <2>2. UNCHANGED <<dekwrap, recoverywrap, fdek_wrap, ghosts>>
    BY <1>4 DEF KitRecovery
  <2>3. MintInv'
    BY <1>1, <2>1, <2>2
       DEF KeysInv, MintInv, Others, Idle, WrapExists, Never, ghosts
  <2>4. AgreeInv'
    BY <1>1, <2>1, <2>2
       DEF KeysInv, AgreeInv, Others, Idle, Following, WrapExists, Never, ghosts
  <2>5. RotateInv'
    BY <2>1, <2>2 DEF RotateInv, Never, ghosts
  <2> QED
    BY <2>3, <2>4, <2>5 DEF KeysInv
<1> QED
  BY <1>2, <1>3, <1>4

\* Every step of a vault made by initialize keeps the invariant.
LEMMA KeysStep ==
  StateOK /\ FreshInv /\ KeysInv /\ [Next]_vars => KeysInv'
<1> SUFFICES ASSUME StateOK, FreshInv, KeysInv, [Next]_vars
             PROVE  KeysInv'
  OBVIOUS
<1>1. ASSUME NEW a \in Actors, Sessions(a), Watch PROVE KeysInv'
  <2>1. ASSUME NEW pw \in Passwords, NEW rk \in RecoveryKeys,
               NEW f \in Fresh(Fdeks), EnableFdek(a, pw, rk, f)
        PROVE  FALSE
    BY <2>1 DEF EnableFdek, FreshInv, IsOpen
  <2> QED
    BY <1>1, <2>1, SessionHarmless, HarmlessKeeps, InsertKeys
<1>2. ASSUME NEW a \in Actors, Rewraps(a), Watch PROVE KeysInv'
  BY <1>2, ChangeKeys, RegenerateKeys, RecoverKeys, RestHarmless, HarmlessKeeps
     DEF Rewraps
<1>3. ASSUME NEW a \in Actors, Kits(a), Watch PROVE KeysInv'
  BY <1>3, KitKeysStep, RestHarmless, HarmlessKeeps DEF Kits
<1>4. ASSUME NEW a \in Actors, Faults(a), Watch PROVE KeysInv'
  BY <1>4, RestHarmless, HarmlessKeeps
<1>5. ASSUME Uploads, Watch PROVE KeysInv'
  <2>1. Harmless
    BY <1>5 DEF Uploads, ServiceUpsert, UploadLost, Harmless, ghosts
  <2> QED
    BY <1>5, <2>1, HarmlessKeeps
<1>6. ASSUME UNCHANGED vars PROVE KeysInv'
  BY <1>6
     DEF vars, meta, ghosts, KeysInv, MintInv, AgreeInv, RotateInv, Never,
         WrapExists, Following, OneRewrites, Rewriting
<1> QED
  BY <1>1, <1>2, <1>3, <1>4, <1>5, <1>6 DEF Next, Step, Local

\* Nothing is in flight, generated or wrapped in a vault that does not exist.
LEMMA InitKeys == FreshInit => KeysInv
  BY DEF FreshInit, KeysInv, MintInv, AgreeInv, RotateInv, WrapExists,
         OneRewrites, Rewriting, Idle, NoWrap

\* It is an invariant of every vault made by initialize.
LEMMA KeysInduction == FreshSpec => [](StateOK /\ FreshInv /\ KeysInv)
<1>1. FreshInit => KeysInv
  BY InitKeys
<1> QED
  BY <1>1, FreshInduction, KeysStep, PTL DEF FreshSpec

-----------------------------------------------------------------------------
(* Vaults from before the FDEK (LegacyInit), until it is enabled.          *)

\* The steps that leave the FDEK's columns, the fields, the kits and the open
\* Vaults alone and write the DEK under a typed password, if at all.
Plain ==
  /\ UNCHANGED <<db, fdek_wrap, fdek_wrap_recovery, rows, uploads, kit>>
  /\ dekwrap'.key \in Passwords
  /\ \A a \in Actors :
       /\ ~vault'[a].has_fdek /\ vault'[a].cache = None
       /\ \/ op'[a] = op[a]
          \/ /\ op'[a].fdek = None /\ op'[a].kit.fdek = NoWrap
             /\ op'[a].pc \in {"idle", "unlock", "regen_return",
                               "recover_fdek", "recover_dek", "kit"}
             /\ op'[a].pc \in {"recover_fdek", "recover_dek"} =>
                  op'[a].pw \in Passwords

\* They keep the invariant.
LEMMA PlainKeeps == OldInv /\ Plain => OldInv'
  BY DEF OldInv, Plain

\* Opening and closing the vault, with one key to it.
LEMMA OldSession ==
  ASSUME StateOK, DekInv, OldInv, NEW a \in Actors, Sessions(a)
  PROVE  \/ OldInv'
         \/ \E pw \in Passwords, rk \in RecoveryKeys, f \in Fresh(Fdeks) :
              EnableFdek(a, pw, rk, f)
<1> USE DEF StateOK, Plain, OldInv
<1>1. ASSUME \/ \E pw \in Passwords : \/ InitializeCheck(a, pw)
                                      \/ UnlockSecondFactor(a, pw)
             \/ InitializeCreate(a) \/ InitializeConflict(a)
             \/ \E rk \in Fresh(RecoveryKeys), f \in Fresh(Fdeks) :
                  InitializeInsert(a, rk, f)
      PROVE  FALSE
  BY <1>1 DEF InitializeCheck, UnlockSecondFactor, InitializeCreate,
              InitializeConflict, InitializeInsert, At
<1>2. ASSUME NEW pw \in Passwords, UnlockDek(a, pw) PROVE Plain
  BY <1>2 DEF UnlockDek, Goto, Idle, NoKit, meta, remote
<1>3. ASSUME UnlockOpen(a) PROVE Plain
  <2>1. WrapExists = FALSE
    BY DEF WrapExists
  <2>2. vault' = [vault EXCEPT ![a] =
                    [dek |-> op[a].dek, has_fdek |-> FALSE, cache |-> None]]
    BY <1>3, <2>1 DEF UnlockOpen
  <2> QED
    BY <1>3, <2>2, FinishEffect
       DEF UnlockOpen, Others, Idle, NoKit, meta, remote
<1>4. ASSUME Close(a) \/ LockSecondFactor(a) PROVE Plain
  BY <1>4 DEF Close, LockSecondFactor, VaultType, Closed, meta, remote
<1>5. ASSUME NEW r \in Rows, SealSecret(a, r) PROVE OldInv'
  BY <1>5
     DEF SealSecret, SealKey, DekInv, OneDek, meta, remote
<1> QED
  BY <1>1, <1>2, <1>3, <1>4, <1>5, PlainKeeps DEF Sessions

\* A password change, a rotation and a reset touch the DEK's wraps only.
LEMMA OldRewrap ==
  ASSUME StateOK, OldInv, NEW a \in Actors, Rewraps(a)
  PROVE  Plain
<1> USE DEF StateOK, Plain, OldInv
<1>1. ASSUME ChangeFdek(a) \/ RegenerateFdek(a) \/ RecoverFdek(a)
      PROVE  FALSE
  BY <1>1 DEF ChangeFdek, RegenerateFdek, RecoverFdek, At
<1>2. ASSUME NEW pw \in Passwords, ChangeDek(a, pw) PROVE Plain
  BY <1>2, FinishEffect
     DEF ChangeDek, WrapWith, Others, Idle, NoKit, remote
<1>3. ASSUME NEW rk \in Fresh(RecoveryKeys), RegenerateDek(a, rk)
      PROVE  Plain
  BY <1>3 DEF RegenerateDek, CapturedFdek, Goto, Idle, NoKit, remote
<1>4. ASSUME RegenerateReturn(a) PROVE Plain
  BY <1>4, FinishEffect
     DEF RegenerateReturn, Others, Idle, NoKit, meta, remote
<1>5. ASSUME NEW rk \in RecoveryKeys, NEW pw \in Passwords,
             RecoverReadDek(a, rk, pw)
      PROVE  Plain
  BY <1>5 DEF RecoverReadDek, Goto, Idle, NoKit, meta, remote
<1>6. ASSUME RecoverReadFdek(a) PROVE Plain
  <2>1. /\ At(a, "recover_fdek") /\ Advance(a, "recover_dek")
        /\ UNCHANGED <<db, meta, rows, remote, vault>>
    BY <1>6 DEF RecoverReadFdek, WrapExists
  <2> QED
    BY <2>1, AdvanceEffect DEF At, Others, Stages, meta, remote
<1>7. ASSUME RecoverDek(a) PROVE Plain
  BY <1>7, FinishEffect
     DEF RecoverDek, WrapWith, At, Others, Idle, NoKit, remote
<1> QED
  BY <1>1, <1>2, <1>3, <1>4, <1>5, <1>6, <1>7 DEF Rewraps

\* No kit of such a vault carries an FDEK, so a reset by one writes none.
LEMMA OldKit ==
  ASSUME StateOK, OldInv, NEW a \in Actors, Kits(a)
  PROVE  OldInv'
<1> USE DEF StateOK, Plain, OldInv
<1>1. ASSUME KitFdek(a) \/ KitRecovery(a) PROVE FALSE
  BY <1>1 DEF KitFdek, KitRecovery, At
<1>2. ASSUME BindSend(a) PROVE OldInv'
  BY <1>2 DEF BindSend, PackKit, meta
<1>3. ASSUME KitFetch(a) PROVE Plain
  BY <1>3 DEF KitFetch, Goto, Idle, meta, remote
<1>4. ASSUME KitExpire(a) PROVE Plain
  BY <1>4, FinishEffect DEF KitExpire, Others, Idle, NoKit, meta, remote
<1>5. ASSUME NEW rk \in RecoveryKeys, NEW pw \in Passwords, KitDek(a, rk, pw)
      PROVE  Plain
  BY <1>5, FinishEffect
     DEF KitDek, WrapWith, Others, Idle, NoKit, remote
<1> QED
  BY <1>1, <1>2, <1>3, <1>4, <1>5, PlainKeeps DEF Kits

\* Every step but that of enable_fdek keeps the vault as it was.
LEMMA OldStep ==
  ASSUME StateOK, DekInv, OldInv, [Next]_vars
  PROVE  \/ OldInv'
         \/ \E a \in Actors, pw \in Passwords, rk \in RecoveryKeys,
               f \in Fresh(Fdeks) : EnableFdek(a, pw, rk, f)
<1>1. ASSUME NEW a \in Actors, Faults(a) PROVE OldInv'
  BY <1>1, FinishEffect
     DEF Faults, StatementFails, Crash, StateOK, OldInv, Others, Idle, NoKit,
         Closed, meta, remote
<1>2. ASSUME Uploads PROVE OldInv'
  BY <1>2 DEF Uploads, ServiceUpsert, UploadLost, OldInv, meta
<1>3. ASSUME UNCHANGED vars PROVE OldInv'
  BY <1>3 DEF vars, meta, remote, OldInv
<1> QED
  BY <1>1, <1>2, <1>3, OldSession, OldRewrap, OldKit, PlainKeeps
     DEF Next, Step, Local

\* A vault of schema version 2 is one.
LEMMA InitOld == LegacyInit => OldInv /\ OldRotateInv /\ Never("enable")
<1> SUFFICES ASSUME LegacyInit
             PROVE  OldInv /\ OldRotateInv /\ Never("enable")
  OBVIOUS
<1>1. PICK pw \in Passwords, rk \in RecoveryKeys :
        /\ dekwrap = WrapWith(pw, Dek) /\ recoverywrap = WrapWith(rk, Dek)
        /\ minted = {rk} /\ shown = {rk}
  BY DEF LegacyInit
<1>2. OldInv
  BY <1>1 DEF LegacyInit, OldInv, WrapWith, Idle, NoKit, Closed
<1>3. OldRotateInv
  BY <1>1 DEF LegacyInit, OldRotateInv, OneRewrites, Rewriting, Idle
<1> QED
  BY <1>2, <1>3 DEF LegacyInit, Never

-----------------------------------------------------------------------------
(* Until and after enable_fdek by the only connection to an old vault.     *)

\* Enabling the FDEK while nobody else has the vault open puts it where a vault
\* made by initialize is, but for kits and resets from before.
LEMMA EnableStep ==
  ASSUME StateOK, OldInv, EnabledAlone, NEW a \in Actors,
         NEW pw \in Passwords, NEW rk \in RecoveryKeys,
         NEW f \in Fresh(Fdeks), EnableFdek(a, pw, rk, f)
  PROVE  FreshInv'
<1>1. /\ UNCHANGED <<db, kit, uploads, op>> /\ "enable" \in past'
      /\ rows' = [r \in Rows |-> IF rows[r] = None THEN None ELSE f]
      /\ fdek_wrap' = WrapWith(pw, f) /\ fdek_wrap_recovery' = WrapWith(rk, f)
  BY DEF EnableFdek, Note, remote
<1>2. /\ f \in Fdeks /\ f # None /\ pw # None
      /\ fdek_wrap' # NoWrap /\ fdek_wrap_recovery' # NoWrap
      /\ fdek_wrap'.key = pw /\ fdek_wrap'.payload = f
      /\ fdek_wrap_recovery'.payload = f
  BY <1>1, KeysDistinct DEF Fresh, WrapWith, NoWrap
<1>3. \A b \in Actors \ {a} : vault'[b] = Closed
  BY DEF EnabledAlone, EnableFdek, IsOpen, StateOK
<1>4. vault'[a].has_fdek /\ vault'[a].cache = None
  <2> DEFINE v == [vault[a] EXCEPT !.has_fdek = TRUE]
  <2>1. v.has_fdek /\ v.cache = None
    BY DEF OldInv, StateOK, VaultType
  <2>2. vault' = [vault EXCEPT ![a] = v]
    BY DEF EnableFdek
  <2> HIDE DEF v
  <2> QED
    BY <2>1, <2>2 DEF StateOK
<1>5. \A k : k.fdek = NoWrap => KitWith(k, f)'
  BY <1>1 DEF KitWith, Never
<1>6. NoMixedRows'
  BY <1>1, <1>2 DEF NoMixedRows
<1> QED
  BY <1>1, <1>2, <1>3, <1>4, <1>5, <1>6
     DEF OldInv, FreshInv, WrapExists, IsOpen, Never

\* It is old or as initialize would have made it, whoever else comes and goes.
LEMMA CarefulInduction ==
  CarefulSpec => [](StateOK /\ DekInv /\ (OldInv \/ FreshInv))
<1> DEFINE I == StateOK /\ DekInv /\ (OldInv \/ FreshInv)
<1>1. Init => I
  BY InitTyped, InitDek, InitOld, InitFresh DEF Init
<1>2. I /\ [Next /\ EnabledAlone]_vars => I'
  <2> SUFFICES ASSUME I, [Next /\ EnabledAlone]_vars PROVE I'
    OBVIOUS
  <2>1. [Next]_vars
    OBVIOUS
  <2>2. (StateOK /\ DekInv)'
    BY <2>1, TypeStep, DekStep
  <2>3. FreshInv => FreshInv'
    BY <2>1, FreshStep
  <2>4. ASSUME NEW a \in Actors, NEW pw \in Passwords, NEW rk \in RecoveryKeys,
               NEW f \in Fresh(Fdeks), EnableFdek(a, pw, rk, f), OldInv
        PROVE  (OldInv \/ FreshInv)'
    <3>1. CASE EnabledAlone
      BY <2>4, <3>1, EnableStep
    <3>2. CASE UNCHANGED vars
      BY <2>1, <2>4, <3>2 DEF vars, meta, remote, OldInv
    <3> QED
      BY <3>1, <3>2
  <2> QED
    BY <2>1, <2>2, <2>3, <2>4, OldStep
<1> QED
  BY <1>1, <1>2, PTL DEF CarefulSpec

\* In new and old vaults no field of a vault with an FDEK is ever outside the
\* second factor, as long as no other connection had the vault open when the
\* FDEK was enabled (fdek.rs:130-164, vault.rs:115-143).
THEOREM NoMixedRowsOld == CarefulSpec => []NoMixedRows
<1>1. OldInv \/ FreshInv => NoMixedRows
  BY DEF OldInv, FreshInv, NoMixedRows, WrapExists
<1> QED
  BY <1>1, CarefulInduction, PTL

\* In such vaults every stored field opens with a known credential, before the
\* FDEK is enabled, between any two statements and after any crash.
THEOREM NoDataEverLostOld == CarefulSpec => []NoDataLost
<1>1. ASSUME StateOK, DekInv, OldInv \/ FreshInv PROVE NoDataLost
  <2> SUFFICES ASSUME NEW r \in Rows, rows[r] # None
               PROVE  rows[r] \in Openable
    BY DEF NoDataLost
  <2>1. ASSUME OldInv PROVE rows[r] \in Openable
    BY <1>1, <2>1 DEF OldInv, DekInv, OneDek, Holds, Openable
  <2>2. ASSUME FreshInv PROVE rows[r] \in Openable
    BY <1>1, <2>2, OpenableFresh DEF NoDataLost
  <2> QED
    BY <1>1, <2>1, <2>2
<1> QED
  BY <1>1, CarefulInduction, PTL

\* A stored field changes its key only when it is sealed again or moved.
LEMMA RowsStep ==
  ASSUME [Next]_vars
  PROVE  \/ rows' = rows
         \/ \E a \in Actors, r \in Rows : SealSecret(a, r)
         \/ \E a \in Actors, pw \in Passwords, rk \in RecoveryKeys,
               f \in Fresh(Fdeks) : EnableFdek(a, pw, rk, f)
<1>1. ASSUME NEW a \in Actors, Sessions(a)
      PROVE  \/ rows' = rows
             \/ \E r \in Rows : SealSecret(a, r)
             \/ \E pw \in Passwords, rk \in RecoveryKeys, f \in Fresh(Fdeks) :
                  EnableFdek(a, pw, rk, f)
  BY <1>1
     DEF Sessions, InitializeCheck, UnlockDek, UnlockSecondFactor,
         InitializeCreate, InitializeInsert, InitializeConflict, UnlockOpen,
         Close, LockSecondFactor
<1>2. ASSUME NEW a \in Actors, Rewraps(a) PROVE rows' = rows
  BY <1>2
     DEF Rewraps, ChangeDek, ChangeFdek, RegenerateDek, RegenerateFdek,
         RegenerateReturn, RecoverReadDek, RecoverReadFdek, RecoverDek,
         RecoverFdek
<1>3. ASSUME NEW a \in Actors, Kits(a) \/ Faults(a) PROVE rows' = rows
  BY <1>3
     DEF Kits, BindSend, KitFetch, KitExpire, KitDek, KitFdek, KitRecovery,
         Faults, StatementFails, Crash
<1>4. ASSUME Uploads \/ UNCHANGED vars PROVE rows' = rows
  BY <1>4 DEF Uploads, ServiceUpsert, UploadLost, vars
<1> QED
  BY <1>1, <1>2, <1>3, <1>4 DEF Next, Step, Local

\* Every step in an old vault maps to a step of Keyring or to none.
LEMMA OldRingStep ==
  StateOK /\ DekInv /\ OldInv /\ [Next]_vars => [Ring!Next]_(Ring!vars)
<1> SUFFICES ASSUME StateOK, DekInv, OldInv, [Next]_vars
             PROVE  SameKeys \/ Ring!Next
  BY DEF SameKeys, Ring!vars
<1>1. dekwrap.payload = Dek /\ fdek_wrap.payload = None /\ Dek # None
  BY KeysDistinct DEF DekInv, OneDek, Holds, OldInv, NoWrap
<1>2. ASSUME NEW a \in Actors, NEW r \in Rows, SealSecret(a, r)
      PROVE  Ring!Seal(r)
  <2>1. /\ IsOpen(a) /\ UNCHANGED <<dekwrap, fdek_wrap>>
        /\ rows' = [rows EXCEPT ![r] = SealKey(vault[a])]
    BY <1>2 DEF SealSecret, meta
  <2>2. SealKey(vault[a]) = Dek
    BY <2>1 DEF SealKey, OldInv, DekInv, OneDek
  <2> QED
    BY <1>1, <2>1, <2>2 DEF Ring!Seal, Ring!FieldKey
<1>3. ASSUME NEW a \in Actors, NEW pw \in Passwords, NEW rk \in RecoveryKeys,
             NEW f \in Fresh(Fdeks), EnableFdek(a, pw, rk, f)
      PROVE  Ring!Enable
  <2>1. /\ rows' = [r \in Rows |-> IF rows[r] = None THEN None ELSE f]
        /\ fdek_wrap'.payload = f /\ UNCHANGED dekwrap
    BY <1>3 DEF EnableFdek, WrapWith
  <2>2. f \in DataKeys \ {Dek}
    BY KeysDistinct DEF Fresh, DataKeys
  <2> QED
    BY <1>1, <2>1, <2>2 DEF Ring!Enable
<1>4. ASSUME rows' = rows, OldInv' PROVE SameKeys
  <2>1. DekInv'
    BY DekStep
  <2>2. dekwrap'.payload = Dek /\ fdek_wrap'.payload = None
    BY <1>4, <2>1 DEF DekInv, OneDek, Holds, OldInv, NoWrap
  <2> QED
    BY <1>1, <1>4, <2>2 DEF SameKeys
<1> QED
  BY <1>2, <1>3, <1>4, OldStep, RowsStep DEF Ring!Next

\* New and old vaults implement Keyring, as long as no other connection had the
\* vault open when the FDEK was enabled: the DEK never changes, the FDEK is
\* made once and from then on every field is under it.
THEOREM ImplementsKeyringOld == CarefulSpec => KeepsKeyring
<1>1. Init => Ring!Init
  <2>1. FreshInit => Ring!Init
    BY DEF FreshInit, NoWrap, Ring!Init
  <2>2. LegacyInit => Ring!Init
    BY DEF LegacyInit, NoWrap, WrapWith, DataKeys, Ring!Init
  <2> QED
    BY <2>1, <2>2 DEF Init
<1>2. StateOK /\ DekInv /\ (OldInv \/ FreshInv) /\ [Next]_vars
        => [Ring!Next]_(Ring!vars)
  BY RingStep, OldRingStep
<1>3. [Next /\ EnabledAlone]_vars => [Next]_vars
  OBVIOUS
<1> QED
  BY <1>1, <1>2, <1>3, CarefulInduction, PTL
     DEF CarefulSpec, KeepsKeyring, Ring!Spec

-----------------------------------------------------------------------------
(* What holds for every set of connections, in vaults of both kinds.       *)

\* The steps that leave the recovery wrap and the recovery keys alone and put
\* nobody before the last statement of a rotation.
Mild ==
  /\ UNCHANGED <<recoverywrap, minted, shown, retired>>
  /\ \A a \in Actors : op'[a] = op[a] \/ op'[a].pc # "regen_return"

\* They keep the invariant.
LEMMA MildKeeps == OldRotateInv /\ Mild /\ Watch => OldRotateInv'
  BY DEF OldRotateInv, Mild, Watch

\* A rotation in an old vault: its one statement, and the key's display.
LEMMA OldRotation ==
  ASSUME StateOK, OldInv, OldRotateInv, Watch, NEW a \in Actors,
         RegenerateReturn(a) \/ \E rk \in Fresh(RecoveryKeys) :
                                  RegenerateDek(a, rk)
  PROVE  OldRotateInv'
<1> USE DEF StateOK
<1>1. alone' => alone /\ OneRewrites'
  BY DEF Watch
<1>2. ASSUME NEW rk \in Fresh(RecoveryKeys), RegenerateDek(a, rk)
      PROVE  OldRotateInv'
  <2>1. /\ Others(a) /\ op'[a].pc = "regen_return" /\ op'[a].rk = rk
        /\ rk \notin minted /\ minted' = minted \cup {rk}
        /\ recoverywrap'.key = rk /\ UNCHANGED <<shown, retired>>
    BY <1>2, RegenerateDekEffect DEF OldInv, RegenerateDek, WrapWith, Fresh
  <2>2. alone' => \A b \in Actors \ {a} : op'[b].pc # "regen_return"
    BY <1>1, <2>1 DEF OneRewrites, Rewriting
  <2> QED
    BY <1>1, <2>1, <2>2 DEF OldRotateInv, Others
<1>3. ASSUME RegenerateReturn(a) PROVE OldRotateInv'
  <2>1. /\ Others(a) /\ op'[a] = Idle /\ op[a].pc = "regen_return"
        /\ shown' = shown \cup {op[a].rk} /\ retired' = shown
        /\ UNCHANGED <<recoverywrap, minted>>
    BY <1>3, FinishEffect DEF RegenerateReturn, At, meta
  <2>2. alone => \A b \in Actors : op'[b].pc # "regen_return"
    BY <2>1 DEF OldRotateInv, OneRewrites, Rewriting, Others, Idle
  <2> QED
    BY <1>1, <2>1, <2>2 DEF OldRotateInv, Others, Idle
<1> QED
  BY <1>2, <1>3

\* Every step in an old vault but that of enable_fdek keeps the invariant.
LEMMA OldRotateStep ==
  ASSUME StateOK, OldInv, OldRotateInv, [Next]_vars, Never("enable")'
  PROVE  OldRotateInv'
<1> USE DEF StateOK
<1>1. Harmless => Mild
  BY DEF Harmless, Mild, meta
<1>2. ASSUME NEW a \in Actors, Sessions(a) PROVE Mild
  <2>1. ASSUME NEW rk \in Fresh(RecoveryKeys), NEW f \in Fresh(Fdeks),
               InitializeInsert(a, rk, f)
        PROVE  FALSE
    BY <2>1 DEF InitializeInsert, OldInv
  <2>2. ASSUME NEW pw \in Passwords, NEW rk \in RecoveryKeys,
               NEW f \in Fresh(Fdeks), EnableFdek(a, pw, rk, f)
        PROVE  FALSE
    BY <2>2 DEF EnableFdek, Note, Never
  <2> QED
    BY <1>1, <1>2, <2>1, <2>2, SessionHarmless
<1>3. ASSUME NEW a \in Actors, NEW pw \in Passwords, ChangeDek(a, pw)
      PROVE  Mild
  <2>1. UNCHANGED <<recoverywrap, minted, shown, retired>>
    BY <1>3 DEF ChangeDek, ghosts
  <2>2. Others(a) /\ op'[a].pc \in {"change_fdek", "idle"}
    BY <1>3, ChangeDekEffect DEF Idle
  <2> QED
    BY <2>1, <2>2 DEF Mild, Others
<1>4. ASSUME NEW a \in Actors,
             ChangeFdek(a) \/ RegenerateFdek(a) \/ RecoverFdek(a)
               \/ KitFdek(a) \/ KitRecovery(a)
      PROVE  FALSE
  BY <1>4 DEF ChangeFdek, RegenerateFdek, RecoverFdek, KitFdek, KitRecovery,
              At, OldInv
<1>5. ASSUME NEW a \in Actors, RecoverDek(a) PROVE Mild
  BY <1>5, RecoverDekEffect DEF RecoverDek, Mild, Others, Idle, ghosts
<1>6. ASSUME NEW a \in Actors, NEW rk \in RecoveryKeys, NEW pw \in Passwords,
             KitDek(a, rk, pw)
      PROVE  Mild
  <2>1. UNCHANGED <<recoverywrap, minted, shown, retired>>
    BY <1>6 DEF KitDek
  <2>2. Others(a) /\ op'[a].pc \in {"kit_fdek", "idle"}
    BY <1>6, KitDekEffect DEF Idle
  <2> QED
    BY <2>1, <2>2 DEF Mild, Others
<1>7. ASSUME NEW a \in Actors, Rewraps(a), Watch PROVE OldRotateInv'
  BY <1>1, <1>3, <1>4, <1>5, <1>7, OldRotation, MildKeeps, RestHarmless
     DEF Rewraps
<1>8. ASSUME NEW a \in Actors, Kits(a) \/ Faults(a) PROVE Mild
  BY <1>1, <1>4, <1>6, <1>8, RestHarmless DEF Kits
<1>9. ASSUME Uploads PROVE Mild
  BY <1>9 DEF Uploads, ServiceUpsert, UploadLost, Mild, meta, ghosts
<1>10. ASSUME UNCHANGED vars PROVE OldRotateInv'
  BY <1>10 DEF vars, meta, ghosts, OldRotateInv, OneRewrites, Rewriting
<1> QED
  BY <1>2, <1>7, <1>8, <1>9, <1>10, MildKeeps DEF Next, Step, Local

\* No event is ever forgotten.
LEMMA PastKept == [Next]_vars /\ Never("enable")' => Never("enable")
<1> SUFFICES ASSUME [Next]_vars PROVE past \subseteq past'
  BY DEF Never
<1>1. ASSUME NEW a \in Actors, Sessions(a) PROVE past \subseteq past'
  BY <1>1
     DEF Sessions, InitializeCheck, UnlockDek, UnlockSecondFactor,
         InitializeCreate, InitializeInsert, InitializeConflict, UnlockOpen,
         Close, LockSecondFactor, SealSecret, EnableFdek, Note, ghosts
<1>2. ASSUME NEW a \in Actors, Rewraps(a) PROVE past \subseteq past'
  BY <1>2
     DEF Rewraps, ChangeDek, ChangeFdek, RegenerateDek, RegenerateFdek,
         RegenerateReturn, RecoverReadDek, RecoverReadFdek, RecoverDek,
         RecoverFdek, ghosts
<1>3. ASSUME NEW a \in Actors, Kits(a) \/ Faults(a) PROVE past \subseteq past'
  BY <1>3
     DEF Kits, BindSend, KitFetch, KitExpire, KitDek, KitFdek, KitRecovery,
         Faults, StatementFails, Crash, Note, ghosts
<1>4. ASSUME Uploads \/ UNCHANGED vars PROVE past \subseteq past'
  BY <1>4 DEF Uploads, ServiceUpsert, UploadLost, vars, ghosts
<1> QED
  BY <1>1, <1>2, <1>3, <1>4 DEF Next, Step, Local

\* An old vault, whoever has it open, until its FDEK is enabled.
LEMMA LegacyInduction ==
  LegacyInit /\ [][Next]_vars
    => [](StateOK /\ DekInv /\ (Never("enable") => OldInv /\ OldRotateInv))
<1> DEFINE I == /\ StateOK /\ DekInv
                /\ Never("enable") => OldInv /\ OldRotateInv
<1>1. LegacyInit => I
  BY InitTyped, InitDek, InitOld DEF Init
<1>2. I /\ [Next]_vars => I'
  <2> SUFFICES ASSUME I, [Next]_vars PROVE I'
    OBVIOUS
  <2>1. (StateOK /\ DekInv)'
    BY TypeStep, DekStep
  <2>2. ASSUME Never("enable")' PROVE OldInv' /\ OldRotateInv'
    <3>1. OldInv /\ OldRotateInv
      BY <2>2, PastKept
    <3>2. ASSUME NEW a \in Actors, NEW pw \in Passwords,
                 NEW rk \in RecoveryKeys, NEW f \in Fresh(Fdeks),
                 EnableFdek(a, pw, rk, f)
          PROVE  FALSE
      BY <2>2, <3>2 DEF EnableFdek, Note, Never
    <3> QED
      BY <2>2, <3>1, <3>2, OldStep, OldRotateStep
  <2> QED
    BY <2>1, <2>2
<1> QED
  BY <1>1, <1>2, PTL

\* In every vault, as long as no FDEK was enabled late: it has had its FDEK from
\* the beginning, or it has none.
LEMMA EveryInduction ==
  Spec => [](\/ StateOK /\ FreshInv /\ KeysInv
             \/ StateOK /\ DekInv /\ OldInv /\ OldRotateInv
             \/ ~Never("enable"))
<1>1. Spec => FreshSpec \/ (LegacyInit /\ [][Next]_vars)
  BY DEF Spec, FreshSpec, Init
<1> QED
  BY <1>1, KeysInduction, LegacyInduction, PTL

\* In every vault, whoever has it open and until somebody enables its FDEK, each
\* stored field opens with a known credential.
THEOREM NoDataLostUntilEnabled == Spec => [](Never("enable") => NoDataLost)
<1>1. StateOK /\ DekInv /\ OldInv => NoDataLost
  BY DEF OldInv, DekInv, OneDek, Holds, NoDataLost, Openable
<1>2. StateOK /\ FreshInv => NoDataLost
  BY OpenableFresh
<1> QED
  BY <1>1, <1>2, EveryInduction, PTL

\* In every vault whose operations run to their end and do not cross, one master
\* password opens both layers, after resets by kits of any age too; an FDEK
\* enabled late is excepted (vault.rs:152-170, 390-392;
\* recovery_link.rs:151-171).
THEOREM PasswordsAlwaysAgree == Spec => []PasswordsAgree
<1>1. KeysInv => PasswordsAgree
  BY DEF KeysInv, AgreeInv, PasswordsAgree, Quiet, Begin, Following
<1>2. OldInv \/ ~Never("enable") => PasswordsAgree
  BY DEF OldInv, PasswordsAgree, WrapExists
<1> QED
  BY <1>1, <1>2, EveryInduction, PTL

\* In every vault, without a kit, without an FDEK enabled late and without
\* operations that cross, a displayed recovery key that opens the DEK also opens
\* the FDEK, whatever was interrupted: recover can always be tried again
\* (vault.rs:196-213, 341-395).
THEOREM RepairAlwaysPossible == Spec => []RepairPossible
<1>1. ASSUME StateOK, FreshInv, KeysInv PROVE RepairPossible
  <2> SUFFICES ASSUME alone, Never("kit"), Never("enable"), WrapExists,
                      recoverywrap.key \in shown
               PROVE  fdek_wrap_recovery =
                        WrapWith(recoverywrap.key, fdek_wrap.payload)
    BY DEF RepairPossible
  <2>1. fdek_wrap_recovery.key = recoverywrap.key
    BY <1>1 DEF KeysInv, RotateInv
  <2>2. fdek_wrap_recovery.payload = fdek_wrap.payload
    BY <1>1 DEF FreshInv, NoMixedRows
  <2>3. fdek_wrap_recovery \in WrapType
    BY <1>1 DEF StateOK
  <2> QED
    BY <2>1, <2>2, <2>3 DEF WrapType, WrapWith
<1>2. OldInv \/ ~Never("enable") => RepairPossible
  BY DEF OldInv, RepairPossible, WrapExists
<1> QED
  BY <1>1, <1>2, EveryInduction, PTL

\* In every vault, without a kit, without an FDEK enabled late and without
\* operations that cross, a recovery key replaced by a displayed one opens no
\* wrap of the file any more, whatever was interrupted (vault.rs:192-213).
THEOREM RotationAlwaysRevokes == Spec => []RotationRevokesLocally
<1>1. KeysInv => RotationRevokesLocally
  BY DEF KeysInv, RotateInv, RotationRevokesLocally
<1>2. ASSUME StateOK, OldInv, OldRotateInv PROVE RotationRevokesLocally
  <2>1. fdek_wrap_recovery.key \notin retired
    BY <1>2, KeysDistinct DEF StateOK, OldInv, NoWrap
  <2> QED
    BY <1>2, <2>1 DEF OldRotateInv, RotationRevokesLocally
<1>3. ~Never("enable") => RotationRevokesLocally
  BY DEF RotationRevokesLocally
<1> QED
  BY <1>1, <1>2, <1>3, EveryInduction, PTL

=============================================================================
