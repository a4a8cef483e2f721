---------------------------- MODULE MCVaultKeys ----------------------------
(* TLC instances of VaultKeys: the connections that act are all, with      *)
(* fewer recovery keys and, on an old vault, one of them open when it      *)
(* enables the FDEK, or a single one.                                      *)
EXTENDS VaultKeys, FiniteSets, TLC

KeySymmetry == Permutations(Passwords) \cup Permutations(RecoveryKeys)
                 \cup Permutations(Actors) \cup Permutations(Fdeks)

VARIABLE acting

Alone == Cardinality(acting) = 1

MCInit ==
  /\ acting \in {Actors} \cup {{a} : a \in Actors}
  /\ Init

Steps == Uploads \/ \E a \in acting : Local(a) \/ Kits(a) \/ Faults(a)

\* Bounds: together they make one recovery key less, and two less in a vault
\* whose FDEK they enable.
MCNext ==
  /\ Steps /\ Watch
  /\ Alone \/ Cardinality(RecoveryKeys \ minted') >
                IF "enable" \in past' THEN 1 ELSE 0
  /\ past' # past => EnabledAlone
  /\ UNCHANGED acting

MCSpec == MCInit /\ [][MCNext]_<<vars, acting>>
=============================================================================
