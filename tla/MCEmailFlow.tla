----------------------------- MODULE MCEmailFlow -----------------------------
(* TLC instances of EmailFlow, one part of the flow at a time: the quotas, *)
(* the codes of a contact, and the kits with one request id, no failing    *)
(* call for a code and no expiry.                                          *)
EXTENDS EmailFlow, TLC

KitsOfKeys == [dek : 1 .. MaxKeys, fdek : 1 .. MaxKeys]

CONSTANT Parts  \* the parts checked

VARIABLE part

\* The property of the quotas is about a part without binds.
BindSymmetry == Permutations(Binds)

First == CHOOSE r \in Requests : TRUE
FirstBind == CHOOSE b \in Binds : TRUE

Quotas == Asking \/ Pass \/ WebRestart \/ ServiceRestart

\* The contact is bound before anything else ...
FirstKit ==
  \/ OpenSession
  \/ \E c \in Contacts : binding[c] # wraps /\ BindPack(FirstBind, c)
  \/ BindUpload(FirstBind) \/ BindRecord(FirstBind)
Bound == contact # None

Codes ==
  IF Bound THEN Asking \/ Verifying \/ Resetting \/ Pass \/ WebRestart
           ELSE FirstKit

\* ... or again, with a new key, between two codes.
Tokens ==
  \/ FirstKit
  \/ /\ Bound
     /\ \/ Rotate \/ Admit
        \/ \E r \in Requests :
             \/ \E c \in Contacts : Ask(r, c)
             \/ MailCode(r) \/ Issue(r) \/ CodeRight(r) \/ Fill(r) \/ ResetTake(r)
        \/ ResetFails

KitsOnly ==
  \/ Admit \/ \E c \in Contacts : Ask(First, c)
  \/ MailCode(First) \/ Issue(First) \/ CodeRight(First) \/ Fill(First)
  \/ Resetting \/ Binding \/ WebRestart \/ ServiceRestart

MCInit == FlowInit /\ part \in Parts

MCNext ==
  /\ \/ part = "quota" /\ Quotas
     \/ part = "codes" /\ Codes
     \/ part = "tokens" /\ Tokens
     \/ part = "kits"  /\ KitsOnly
  /\ UNCHANGED part

MCSpec == MCInit /\ [][MCNext]_<<flow, part>> /\ Persistent

QuotasLetThrough == part = "quota" => AskedAtLast
=============================================================================
