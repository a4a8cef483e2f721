------------------------------ MODULE EmailFlow ------------------------------
(***************************************************************************)
(* The email reset from end to end: the web server's side of it            *)
(* (vault_web/src/api_reset.rs, api_recovery.rs, recovery_client.rs, and   *)
(* the quota of state.rs) over the recovery service of RecoveryService.    *)
(*                                                                         *)
(* The web server calls the service over HTTP and waits ten seconds for an *)
(* answer; the service may mail for twenty.  A call is lost before the     *)
(* service sees it, or its answer is lost after the service has done it; a *)
(* call given up may still be done later.                                  *)
(*                                                                         *)
(* A request id also stands for the token that verify_code makes for it.   *)
(* What a reset does to the wraps in the file is in VaultKeys, the token   *)
(* and the session under their mutexes in WebSession; here are the keys    *)
(* that the two recovery wraps of the file are under, numbered in the      *)
(* order in which they were made, and the kits made of them.               *)
(***************************************************************************)
EXTENDS RecoveryService

CONSTANTS
  Binds,      \* bound: bind requests handled at a time
  MaxKeys,    \* bound: recovery keys the vault has in its life
  WebMax,     \* MAX_REQUESTS of check_recovery_rate_limit
  WebWindow,  \* WINDOW_MS, in units of time
  ResetTtl    \* RECOVERY_TOKEN_TTL_MS, in units of time

ASSUME FlowAssumption ==
  /\ MaxKeys \in Nat \ {0} /\ WebMax \in Nat /\ WebWindow \in Nat
  /\ ResetTtl \in Nat
  /\ Kits = [dek : 1 .. MaxKeys, fdek : 1 .. MaxKeys]
  /\ None \notin Requests \cup Contacts

VARIABLES
  page,     \* per request id, what the browser has of it
  quota,    \* recovery_requests: the places of the quota, by the age of the
            \* request in it
  due,      \* a request the quota let through is on its way to the service
  slot,     \* AppState.recovery: token, kit and age
  reset,    \* the reset being handled
  bind,     \* per bind request, the step it is at
  wraps,    \* the recovery keys the wraps in meta are under
  contact,  \* meta.recovery_contact_hash
  unbound,  \* the contact was unbound, and no bind has begun since
  open,     \* a session is open
  stands    \* the last bind went through alone, and nothing has undone it

service == <<binding, req, token, log, mailbox, handed>>
local   == <<bind, wraps, contact, unbound, open, stands>>
flow    == <<service, page, quota, due, slot, reset, local>>

NoPage  == [at |-> "none", kit |-> None, unbound |-> FALSE]
NoSlot  == [token |-> None, kit |-> None, age |-> 0]
NoBind  == [pc |-> "done", contact |-> None, kit |-> None, live |-> FALSE,
            alone |-> FALSE]
NoSteps == [pc |-> "done", token |-> None, kit |-> None]

At(r, from, to) ==
  /\ page[r].at = from
  /\ page' = [page EXCEPT ![r].at = to]

-----------------------------------------------------------------------------
(* request_code.                                                           *)

\* A place is free when the request in it is as old as the window.
Free(i) == quota[i] >= WebWindow

\* The web server's quota comes before everything else, and counts the
\* request whatever becomes of it.  One that is refused is not counted.
Admit ==
  /\ due = FALSE
  /\ \E i \in 1 .. WebMax :
       /\ Free(i) /\ \A j \in 1 .. i - 1 : ~Free(j)
       /\ quota' = [quota EXCEPT ![i] = 0]
  /\ due' = TRUE
  /\ UNCHANGED <<service, page, slot, reset, local>>

\* No service configured, no contact, a bad address, or no connection.
AskLost ==
  /\ due /\ due' = FALSE
  /\ UNCHANGED <<service, page, quota, slot, reset, local>>

\* The service answers RateLimited.
AskRefused(c) ==
  /\ due /\ due' = FALSE
  /\ Refuse(c)
  /\ UNCHANGED <<page, quota, slot, reset, local>>

\* Ids are new: this one is neither on its way nor in use as a token.
Ask(r, c) ==
  /\ due /\ due' = FALSE
  /\ page[r].at # "answered" /\ r \notin {slot.token, reset.token}
  /\ Count(r, c)
  /\ page' = [page EXCEPT ![r] = [at |-> "asking", kit |-> None,
                                  unbound |-> unbound]]
  /\ UNCHANGED <<quota, slot, reset, local>>

\* The answer took too long: the id never reaches the browser, the code may
\* still reach the contact.
AskTimeout(r) ==
  /\ At(r, "asking", "over")
  /\ UNCHANGED <<service, quota, due, slot, reset, local>>

MailCode(r) ==
  /\ Mail(r)
  /\ UNCHANGED <<page, quota, due, slot, reset, local>>

MailError(r) ==
  /\ MailFails(r)
  /\ page' = [page EXCEPT ![r].at = "over"]
  /\ UNCHANGED <<quota, due, slot, reset, local>>

Issue(r) ==
  /\ Register(r)
  /\ page' = [page EXCEPT ![r].at = IF page[r].at = "asking" THEN "known"
                                                             ELSE "over"]
  /\ UNCHANGED <<quota, due, slot, reset, local>>

-----------------------------------------------------------------------------
(* verify_code.  An id the service does not know, any more, ends at once.  *)

WrongCode(r) ==
  /\ page[r].at = "known"
  /\ VerifyWrong(r)
  /\ UNCHANGED <<page, quota, due, slot, reset, local>>

CodeRefused(r) ==
  /\ At(r, "known", "over")
  /\ VerifyRefused(r) \/ VerifyFails(r)
  /\ UNCHANGED <<quota, due, slot, reset, local>>

\* The code is used up; the answer with the kit is on its way.
CodeRight(r) ==
  /\ page[r].at = "known"
  /\ Verify(r)
  /\ page' = [page EXCEPT ![r].at = "answered", ![r].kit = binding[req[r].contact]]
  /\ UNCHANGED <<quota, due, slot, reset, local>>

\* A new token, with the kit, replaces the reset under way.
Fill(r) ==
  /\ At(r, "answered", "token")
  /\ slot' = [token |-> r, kit |-> page[r].kit, age |-> 0]
  /\ UNCHANGED <<service, quota, due, reset, local>>

LoseAnswer(r) ==
  /\ At(r, "answered", "over")
  /\ UNCHANGED <<service, quota, due, slot, reset, local>>

-----------------------------------------------------------------------------
(* reset, with a token the browser was given.                              *)

\* Mutant of ResetTake: the token is not compared.
ResetTakeAny(r) ==
  /\ page[r].at = "token"
  /\ reset.pc = "done"
  /\ slot.token # None
  /\ slot.age <= ResetTtl
  /\ reset' = [pc |-> "taken", token |-> r, kit |-> slot.kit]
  /\ UNCHANGED <<service, page, quota, due, slot, local>>

ResetTake(r) ==
  /\ page[r].at = "token"
  /\ reset.pc = "done"
  /\ slot.token = r
  /\ slot.age <= ResetTtl
  /\ reset' = [pc |-> "taken", token |-> r, kit |-> slot.kit]
  /\ UNCHANGED <<service, page, quota, due, slot, local>>

ResetLate(r) ==
  /\ page[r].at = "token"
  /\ slot.token = r /\ slot.age > ResetTtl
  /\ slot' = NoSlot
  /\ UNCHANGED <<service, page, quota, due, reset, local>>

\* recover_with_kit, with a key that opens both wraps of the kit: the kit's
\* FDEK wrap becomes the file's.
ResetApply ==
  /\ reset.pc = "taken"
  /\ reset.kit.dek = reset.kit.fdek
  /\ wraps' = [wraps EXCEPT !.fdek = reset.kit.fdek]
  /\ reset' = [reset EXCEPT !.pc = "applied"]
  /\ stands' = (stands /\ reset.kit.dek = wraps.dek)
  /\ UNCHANGED <<service, page, quota, due, slot, bind, contact, unbound, open>>

\* The reset under way, whichever it is by now, and the session are dropped, one
\* mutex after the other; WebSession has what comes between them.
ResetClear ==
  /\ reset.pc = "applied"
  /\ reset' = NoSteps
  /\ slot' = NoSlot
  /\ open' = FALSE
  /\ bind' = [b \in Binds |-> [bind[b] EXCEPT !.live = FALSE]]
  /\ UNCHANGED <<service, page, quota, due, wraps, contact, unbound, stands>>

\* The wrong recovery key.
ResetFails ==
  /\ reset.pc = "taken"
  /\ reset' = NoSteps
  /\ UNCHANGED <<service, page, quota, due, slot, local>>

-----------------------------------------------------------------------------
(* bind and unbind.                                                        *)

\* What a kit is when the recovery key shown last opens it.
Current == [dek |-> wraps.dek, fdek |-> wraps.dek]

\* The kit is packed under the mutex of the session ...
BindPack(b, c) ==
  /\ open /\ bind[b].pc = "done"
  /\ bind' = [d \in Binds |->
       IF d = b THEN [pc |-> "packed", contact |-> c, kit |-> wraps, live |-> TRUE,
                      alone |-> \A e \in Binds : bind[e].pc = "done"]
       ELSE [bind[d] EXCEPT !.alone = FALSE]]
  /\ unbound' = FALSE
  /\ UNCHANGED <<service, page, quota, due, slot, reset, wraps, contact, open,
                 stands>>

\* ... and sent without it.  A call that was given up is done all the same.
BindUpload(b) ==
  /\ bind[b].pc \in {"packed", "stray"}
  /\ Bind(bind[b].contact, bind[b].kit)
  /\ bind' = [bind EXCEPT ![b] = IF bind[b].pc = "stray" THEN NoBind
                                 ELSE [bind[b] EXCEPT !.pc = "uploaded"]]
  /\ UNCHANGED <<page, quota, due, slot, reset, wraps, contact, unbound, open,
                 stands>>

\* No answer in time, or the browser's connection is gone.
BindTimeout(b) ==
  /\ bind[b].pc = "packed"
  /\ bind' = [bind EXCEPT ![b].pc = "stray"]
  /\ UNCHANGED <<service, page, quota, due, slot, reset, wraps, contact,
                 unbound, open, stands>>

\* The call or its answer is lost, the service fails, or, at the end, the
\* session it began in is not there any more.
BindFails(b) ==
  /\ bind[b].pc # "done"
  /\ bind' = [bind EXCEPT ![b] = NoBind]
  /\ UNCHANGED <<service, page, quota, due, slot, reset, wraps, contact,
                 unbound, open, stands>>

\* One UPDATE of the meta row; what fails after it does not undo it.
set_recovery_contact(c) == contact' = c

\* Mutant of BindRecord: the answer of the service is not looked at.
BindRecordAnyway(b) ==
  /\ bind[b].pc \in {"packed", "uploaded"} /\ bind[b].live
  /\ set_recovery_contact(bind[b].contact)
  /\ stands' = (bind[b].alone /\ bind[b].kit = wraps /\ wraps = Current)
  /\ bind' = [bind EXCEPT ![b] = NoBind]
  /\ UNCHANGED <<service, page, quota, due, slot, reset, wraps, unbound, open>>

\* with_vault, in the session the request began in: the contact is recorded.
BindRecord(b) ==
  /\ bind[b].pc = "uploaded" /\ bind[b].live
  /\ set_recovery_contact(bind[b].contact)
  /\ stands' = (bind[b].alone /\ bind[b].kit = wraps /\ wraps = Current)
  /\ bind' = [bind EXCEPT ![b] = NoBind]
  /\ UNCHANGED <<service, page, quota, due, slot, reset, wraps, unbound, open>>

\* Only the local record is dropped; the service is not told.
Unbind ==
  /\ open /\ contact # None
  /\ set_recovery_contact(None) /\ stands' = FALSE
  /\ unbound' = \A b \in Binds : bind[b].pc = "done"
  /\ UNCHANGED <<service, page, quota, due, slot, reset, bind, wraps, open>>

-----------------------------------------------------------------------------
(* The rest of the vault and of the world.                                 *)

\* regenerate_recovery_key rewraps both under a new key.
Rotate ==
  /\ open
  /\ \E k \in {wraps.dek + 1} \cap (1 .. MaxKeys) :
       wraps' = [dek |-> k, fdek |-> k]
  /\ stands' = FALSE
  /\ UNCHANGED <<service, page, quota, due, slot, reset, bind, contact,
                 unbound, open>>

OpenSession ==
  /\ ~open /\ open' = TRUE
  /\ UNCHANGED <<service, page, quota, due, slot, reset, bind, wraps, contact,
                 unbound, stands>>

\* lock, the idle timeout, or a new unlock in between.
LockSession ==
  /\ open /\ open' = FALSE
  /\ bind' = [b \in Binds |-> [bind[b] EXCEPT !.live = FALSE]]
  /\ UNCHANGED <<service, page, quota, due, slot, reset, wraps, contact,
                 unbound, stands>>

Broken(at) == IF at \in {"asking", "answered"} THEN "over" ELSE at

\* A new web server: what it had begun is not answered, but may still be done.
WebRestart ==
  /\ page' = [r \in Requests |-> [page[r] EXCEPT !.at = Broken(page[r].at)]]
  /\ quota' = [i \in 1 .. WebMax |-> WebWindow]
  /\ due' = FALSE
  /\ slot' = NoSlot /\ reset' = NoSteps
  /\ bind' = [b \in Binds |-> IF bind[b].pc \in {"packed", "stray"}
                              THEN [bind[b] EXCEPT !.pc = "stray", !.live = FALSE]
                              ELSE NoBind]
  /\ open' = FALSE
  /\ UNCHANGED <<service, wraps, contact, unbound, stands>>

ServiceRestart ==
  /\ Restart
  /\ page' = [r \in Requests |->
       [page[r] EXCEPT !.at = IF page[r].at = "asking" THEN "over" ELSE page[r].at]]
  /\ UNCHANGED <<quota, due, slot, reset, local>>

\* An answer takes less than a unit of time to come.
Pass ==
  /\ \A r \in Requests : page[r].at # "answered"
  /\ Tick
  /\ quota' = [i \in 1 .. WebMax |-> AtMost(quota[i] + 1, WebWindow)]
  /\ slot' = IF slot.token = None THEN slot
             ELSE [slot EXCEPT !.age = AtMost(slot.age + 1, ResetTtl + 1)]
  /\ UNCHANGED <<page, due, reset, local>>

-----------------------------------------------------------------------------
FlowInit ==
  /\ Init
  /\ page = [r \in Requests |-> NoPage]
  /\ quota = [i \in 1 .. WebMax |-> WebWindow]
  /\ due = FALSE
  /\ slot = NoSlot /\ reset = NoSteps
  /\ bind = [b \in Binds |-> NoBind]
  /\ wraps = [dek |-> 1, fdek |-> 1]
  /\ contact = None /\ unbound = FALSE
  /\ open = FALSE /\ stands = FALSE

Reach == \E c \in Contacts : AskRefused(c) \/ \E r \in Requests : Ask(r, c)

Asking ==
  \/ Admit \/ AskLost \/ Reach
  \/ \E r \in Requests : AskTimeout(r) \/ MailCode(r) \/ MailError(r) \/ Issue(r)

Verifying ==
  \E r \in Requests :
    WrongCode(r) \/ CodeRefused(r) \/ CodeRight(r) \/ Fill(r) \/ LoseAnswer(r)

Resetting ==
  \/ \E r \in Requests : ResetTake(r) \/ ResetLate(r)
  \/ ResetApply \/ ResetClear \/ ResetFails

Binding ==
  \/ \E b \in Binds :
       \/ \E c \in Contacts : BindPack(b, c)
       \/ BindUpload(b) \/ BindTimeout(b) \/ BindFails(b) \/ BindRecord(b)
  \/ Unbind \/ Rotate \/ OpenSession \/ LockSession

FlowNext ==
  Asking \/ Verifying \/ Resetting \/ Binding \/ WebRestart \/ ServiceRestart
    \/ Pass

FlowSpec == FlowInit /\ [][FlowNext]_flow

\* A user who asks whenever the web server lets them; the service is reached
\* now and then, and finishes what it began.
Persistent ==
  /\ WF_flow(Pass) /\ WF_flow(Admit) /\ SF_flow(Reach)
  /\ \A r \in Requests : WF_flow(MailCode(r) \/ MailError(r)) /\ WF_flow(Issue(r))

-----------------------------------------------------------------------------
(* Properties.                                                             *)

\* A vault that says it is bound to a contact can be reset through it: the
\* service has a kit for that contact, whatever call was lost, answered late or
\* cut off by a lock or a restart on the way (api_recovery.rs:107-133).
RecordedIsBound == contact # None => binding[contact] # None

\* A bind that went through while no other was on its way leaves the service
\* a kit that the recovery key shown last opens, until the key is changed, the
\* contact unbound or an older kit used, whatever else is bound or reset, fails
\* or starts anew in between (api_recovery.rs:92-138).
LastBindStands == stands => contact # None /\ binding[contact] = Current

\* A reset uses the kit that its own token was given for, of a code that was
\* used up for it, though a code verified meanwhile has replaced the reset
\* under way (api_reset.rs:134-208).
KitOfToken ==
  reset.pc # "done" =>
    reset.kit = page[reset.token].kit /\ page[reset.token].at = "token"

\* Two quotas in a row do not shut out a user who asks whenever the first lets
\* them, refused ones included in the first and not in the second: one request
\* after another gets through both (state.rs:190-215, api_reset.rs:113-124).
AskedAtLast == []<><<\E r \in Requests, c \in Contacts : Ask(r, c)>>_flow

\* The password is not reset by a code that was asked for after the contact
\* was unbound (api_recovery.rs:141-152).
UnbindEndsMail ==
  reset.pc = "applied" => ~page[reset.token].unbound

-----------------------------------------------------------------------------
(* Inductive strengthenings, proved in EmailFlowProofs.                    *)

Places == {"none", "asking", "known", "answered", "token", "over"}
PageType == [at : Places, kit : Kits \cup {None}, unbound : BOOLEAN]
SlotType == [token : Requests \cup {None}, kit : Kits \cup {None},
             age : 0 .. ResetTtl + 1]
ResetType == [pc : {"done", "taken", "applied"},
              token : Requests \cup {None}, kit : Kits \cup {None}]
BindType == [pc : {"done", "packed", "stray", "uploaded"},
             contact : Contacts \cup {None}, kit : Kits \cup {None},
             live : BOOLEAN, alone : BOOLEAN]

\* What the web server holds, and that a kit is there where one is used.
FlowTypeOK ==
  /\ page \in [Requests -> PageType]
  /\ \A r \in Requests : page[r].at \in {"answered", "token"} => page[r].kit \in Kits
  /\ quota \in [1 .. WebMax -> 0 .. WebWindow] /\ due \in BOOLEAN
  /\ slot \in SlotType /\ (slot.token # None => slot.kit \in Kits)
  /\ reset \in ResetType
  /\ reset.pc # "done" => reset.token \in Requests /\ reset.kit \in Kits
  /\ bind \in [Binds -> BindType]
  /\ \A b \in Binds : bind[b].pc # "done" => /\ bind[b].contact \in Contacts
                                             /\ bind[b].kit \in Kits
  /\ wraps \in Kits /\ contact \in Contacts \cup {None}
  /\ unbound \in BOOLEAN /\ open \in BOOLEAN /\ stands \in BOOLEAN

\* The slot holds the kit of a token the browser has, and a request whose code
\* is still to come has brought it neither a code nor a token.
TokenInv ==
  /\ KitOfToken
  /\ slot.token # None =>
       page[slot.token].at = "token" /\ page[slot.token].kit = slot.kit
  /\ \A r \in Requests :
       req[r].stage \in {"counted", "mailed"} => page[r].at \in {"asking", "over"}

\* What was uploaded is there until another upload; a bind that is alone has no
\* other in flight; and none in flight brings another kit while the last bind
\* stands.
BindInv ==
  /\ RecordedIsBound /\ LastBindStands
  /\ stands => wraps = Current
  /\ \A b \in Binds :
       /\ bind[b].pc = "uploaded" => binding[bind[b].contact] # None
       /\ bind[b].pc # "done" /\ bind[b].alone =>
            /\ \A e \in Binds \ {b} : bind[e].pc = "done"
            /\ bind[b].pc = "uploaded" =>
                 binding[bind[b].contact] = bind[b].kit
       /\ stands /\ bind[b].pc # "done" => bind[b].kit = wraps

=============================================================================
