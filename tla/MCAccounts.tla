----------------------------- MODULE MCAccounts -----------------------------
(* A TLC instance of Accounts in which no statement fails, no process stops *)
(* and nothing is deleted: a write ends early only because a secret cannot  *)
(* be sealed.  What an update finds is kept for the property.               *)
EXTENDS Accounts, TLC

VARIABLE before  \* per account, its secrets when an update of it began; None if
                 \* it was not updated

AccountSymmetry ==
  Permutations(Conns) \cup Permutations(Ids) \cup Permutations(Values)

\* What an update of id finds.
Note(id) == before' = [before EXCEPT ![id] = Content(id)]

MCInit == Init /\ before = [id \in Ids |-> None]

Undisturbed(c) ==
  \/ \E id \in Ids, input \in UserInputs : Create(c, id, input)
  \/ SecondFactor(c) \/ Proceeds(c) \/ InsertRefused(c)

MCNext ==
  \E c \in Conns :
    \/ Undisturbed(c) /\ UNCHANGED before
    \/ \E id \in Ids, input \in UserInputs : Update(c, id, input) /\ Note(id)

MCSpec == MCInit /\ [][MCNext]_<<vars, before>>

-----------------------------------------------------------------------------
\* An update replaces the secrets of an account as a whole: when it has ended,
\* they are those of its input, or those it found (accounts.rs:60-87).
WrittenWhole ==
  \A id \in Ids :
    Settled(id) /\ before[id] # None => AsWritten(id) \/ Content(id) = before[id]
=============================================================================
