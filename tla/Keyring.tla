------------------------------ MODULE Keyring ------------------------------
(***************************************************************************)
(* What a vault file promises about its keys, with no credential, wrap,    *)
(* session or statement in sight: the DEK and the FDEK are made once and   *)
(* never change, and a high-sensitivity field is always under the          *)
(* strongest key there is.  VaultKeys implements it: none of its rewraps,  *)
(* resets, kits, faults and interleavings is a step of this module.        *)
(***************************************************************************)
CONSTANTS
  Keys,  \* data keys
  Rows,  \* stored high-sensitivity fields
  None   \* no key, no field

VARIABLES
  dek,   \* the key of the vault
  fdek,  \* the key of its high-sensitivity fields
  rows   \* the key each stored field is under

vars == <<dek, fdek, rows>>

FieldKey == IF fdek = None THEN dek ELSE fdek

\* A vault to be made, or one from the time before there was an FDEK.
Init ==
  /\ fdek = None
  /\ \/ dek = None /\ rows = [r \in Rows |-> None]
     \/ dek \in Keys /\ rows \in [Rows -> {None, dek}]

Create ==
  /\ dek = None
  /\ \E d, f \in Keys : d # f /\ dek' = d /\ fdek' = f
  /\ UNCHANGED rows

\* Every stored field moves under the FDEK the moment there is one.
Enable ==
  /\ dek # None /\ fdek = None
  /\ \E f \in Keys \ {dek} :
       /\ fdek' = f
       /\ rows' = [r \in Rows |-> IF rows[r] = None THEN None ELSE f]
  /\ UNCHANGED dek

Seal(r) ==
  /\ dek # None
  /\ rows' = [rows EXCEPT ![r] = FieldKey]
  /\ UNCHANGED <<dek, fdek>>

Next == Create \/ Enable \/ \E r \in Rows : Seal(r)

Spec == Init /\ [][Next]_vars

=============================================================================
