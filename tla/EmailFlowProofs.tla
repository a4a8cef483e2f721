--------------------------- MODULE EmailFlowProofs ---------------------------
(***************************************************************************)
(* Proofs about EmailFlow, for every set of contacts, request ids and bind *)
(* requests and every limit: the service behind the web server is still    *)
(* the one of RecoveryService, so that what is proved there holds of the   *)
(* email reset too; a reset uses the kit of its own token; and what the    *)
(* vault says of its contact is so at the service.                         *)
(***************************************************************************)
EXTENDS EmailFlow, RecoveryServiceProofs

\* The records of an idle web server.
LEMMA FlowRecords ==
  /\ NoPage \in PageType /\ NoPage.at = "none"
  /\ NoSlot \in SlotType /\ NoSlot.token = None
  /\ NoSteps \in ResetType /\ NoSteps.pc = "done"
  /\ NoBind \in BindType /\ NoBind.pc = "done" /\ ~NoBind.alone
BY FlowAssumption
   DEF NoPage, PageType, Places, NoSlot, SlotType, NoSteps, ResetType, NoBind,
       BindType

\* A counter that stops at its bound stays below it.
LEMMA AtMostBounded ==
  ASSUME NEW b \in Nat, NEW n \in 0 .. b
  PROVE  AtMost(n + 1, b) \in 0 .. b
BY DEF AtMost

\* Moving on changes where the browser is with one request, and nothing else.
LEMMA MoveEffect ==
  ASSUME FlowTypeOK, NEW r \in Requests, NEW to \in Places,
         page' = [page EXCEPT ![r].at = to]
  PROVE  /\ page' \in [Requests -> PageType]
         /\ page'[r].at = to
         /\ \A q \in Requests : page'[q].kit = page[q].kit
         /\ \A q \in Requests \ {r} : page'[q].at = page[q].at
<1> DEFINE p == [page[r] EXCEPT !.at = to]
<1>1. /\ p \in PageType /\ p.at = to /\ p.kit = page[r].kit
  BY DEF FlowTypeOK, PageType
<1>2. page' = [page EXCEPT ![r] = p]
  OBVIOUS
<1> HIDE DEF p
<1> QED
  BY <1>1, <1>2 DEF FlowTypeOK

-----------------------------------------------------------------------------
(* The service.  The web server adds guards to what the service does and   *)
(* state of its own, and does nothing else to it.                          *)

\* Every step of the web server is one of the service, or none.
LEMMA ServiceStep ==
  ASSUME FlowTypeOK, [FlowNext]_flow
  PROVE  [Next]_vars
<1> USE DEF vars, service
<1>1. ASSUME Asking PROVE [Next]_vars
  BY <1>1
     DEF Asking, Admit, AskLost, Reach, AskRefused, Ask, AskTimeout, MailCode,
         MailError, Issue, Next, Challenge
<1>2. ASSUME Verifying PROVE [Next]_vars
  BY <1>2
     DEF Verifying, WrongCode, CodeRefused, CodeRight, Fill, LoseAnswer, Next,
         Answer
<1>3. ASSUME Resetting PROVE [Next]_vars
  BY <1>3
     DEF Resetting, ResetTake, ResetLate, ResetApply, ResetClear, ResetFails
<1>4. ASSUME NEW b \in Binds, BindUpload(b) PROVE [Next]_vars
  BY <1>4 DEF BindUpload, FlowTypeOK, Next
<1>5. ASSUME \/ \E b \in Binds :
                  \/ \E c \in Contacts : BindPack(b, c)
                  \/ BindTimeout(b) \/ BindFails(b) \/ BindRecord(b)
             \/ Unbind \/ Rotate \/ OpenSession \/ LockSession
      PROVE  [Next]_vars
  BY <1>5
     DEF BindPack, BindTimeout, BindFails, BindRecord, Unbind, Rotate,
         OpenSession, LockSession
<1>6. ASSUME WebRestart \/ ServiceRestart \/ Pass PROVE [Next]_vars
  BY <1>6 DEF WebRestart, ServiceRestart, Pass, Next
<1>7. ASSUME UNCHANGED flow PROVE [Next]_vars
  BY <1>7 DEF flow
<1> QED
  BY <1>1, <1>2, <1>3, <1>4, <1>5, <1>6, <1>7 DEF FlowNext, Binding

-----------------------------------------------------------------------------
(* Types.                                                                  *)

\* A code that is answered is of a contact, and its binding is a kit.
LEMMA BoundKit ==
  ASSUME TypeOK, Addressed, NEW r \in Requests, Verify(r)
  PROVE  binding[req[r].contact] \in Kits
BY DEF TypeOK, Addressed, Verify, MayAnswer

\* A web server that has just started is idle, and the vault has its first keys.
LEMMA FlowTypeInit == FlowInit => FlowTypeOK
<1> SUFFICES ASSUME FlowInit PROVE FlowTypeOK
  OBVIOUS
<1>1. /\ page \in [Requests -> PageType]
      /\ \A r \in Requests : page[r].at = "none"
  BY FlowRecords DEF FlowInit
<1>2. quota \in [1 .. WebMax -> 0 .. WebWindow]
  BY FlowAssumption DEF FlowInit
<1>3. /\ bind \in [Binds -> BindType]
      /\ \A b \in Binds : bind[b].pc = "done"
  BY FlowRecords DEF FlowInit
<1>4. wraps \in Kits
  BY FlowAssumption DEF FlowInit
<1> QED
  BY <1>1, <1>2, <1>3, <1>4, FlowRecords DEF FlowInit, FlowTypeOK

\* request_code.
LEMMA AskingTyped ==
  ASSUME TypeOK, FlowTypeOK, Asking
  PROVE  FlowTypeOK'
<1> USE DEF local
<1>1. ASSUME Admit PROVE FlowTypeOK'
  BY <1>1, FlowAssumption DEF Admit, FlowTypeOK
<1>2. ASSUME AskLost \/ \E c \in Contacts : AskRefused(c) PROVE FlowTypeOK'
  BY <1>2 DEF AskLost, AskRefused, FlowTypeOK
<1>3. ASSUME NEW r \in Requests, NEW c \in Contacts, Ask(r, c)
      PROVE  FlowTypeOK'
  BY <1>3 DEF Ask, FlowTypeOK, PageType, Places
<1>4. ASSUME NEW r \in Requests,
             AskTimeout(r) \/ MailError(r) \/ Issue(r)
      PROVE  FlowTypeOK'
  <2>1. PICK to \in {"over", "known"} : page' = [page EXCEPT ![r].at = to]
    BY <1>4 DEF AskTimeout, At, MailError, Issue
  <2>2. UNCHANGED <<quota, slot, reset, local>> /\ due' = due
    BY <1>4 DEF AskTimeout, MailError, Issue
  <2> QED
    BY <2>1, <2>2, MoveEffect DEF FlowTypeOK, Places
<1>5. ASSUME NEW r \in Requests, MailCode(r) PROVE FlowTypeOK'
  BY <1>5 DEF MailCode, FlowTypeOK
<1> QED
  BY <1>1, <1>2, <1>3, <1>4, <1>5 DEF Asking, Reach

\* verify_code.
LEMMA VerifyingTyped ==
  ASSUME TypeOK, Addressed, FlowTypeOK, Verifying
  PROVE  FlowTypeOK'
<1> SUFFICES ASSUME NEW r \in Requests,
                    \/ WrongCode(r) \/ CodeRefused(r) \/ CodeRight(r)
                    \/ Fill(r) \/ LoseAnswer(r)
             PROVE  FlowTypeOK'
  BY DEF Verifying
<1> USE DEF local
<1>1. CASE WrongCode(r)
  BY <1>1 DEF WrongCode, FlowTypeOK
<1>2. CASE CodeRefused(r) \/ LoseAnswer(r)
  <2>1. page' = [page EXCEPT ![r].at = "over"]
    BY <1>2 DEF CodeRefused, LoseAnswer, At
  <2> QED
    BY <1>2, <2>1, MoveEffect DEF CodeRefused, LoseAnswer, FlowTypeOK, Places
<1>3. CASE CodeRight(r)
  <2> DEFINE k == binding[req[r].contact]
             p == [page EXCEPT ![r].at = "answered"]
  <2>1. k \in Kits /\ k = binding[req[r].contact]
    BY <1>3, BoundKit DEF CodeRight
  <2>2. /\ p \in [Requests -> PageType] /\ p[r].at = "answered"
        /\ \A q \in Requests \ {r} : p[q] = page[q]
    BY DEF FlowTypeOK, PageType, Places
  <2>3. page' = [p EXCEPT ![r].kit = k]
    BY <1>3 DEF CodeRight
  <2> HIDE DEF k, p
  <2>4. /\ page' \in [Requests -> PageType] /\ page'[r].kit = k
        /\ \A q \in Requests \ {r} : page'[q] = page[q]
    BY <2>1, <2>2, <2>3 DEF PageType
  <2> QED
    BY <1>3, <2>1, <2>4 DEF CodeRight, FlowTypeOK
<1>4. CASE Fill(r)
  <2>1. page' = [page EXCEPT ![r].at = "token"] /\ page[r].at = "answered"
    BY <1>4 DEF Fill, At
  <2>2. slot' \in SlotType /\ slot'.kit = page[r].kit
    BY <1>4, <2>1, FlowAssumption DEF Fill, FlowTypeOK, SlotType
  <2> QED
    BY <1>4, <2>1, <2>2, MoveEffect DEF Fill, FlowTypeOK, Places
<1> QED
  BY <1>1, <1>2, <1>3, <1>4

\* The end of a session leaves the binds begun in it otherwise as they are.
LEMMA EndLive ==
  ASSUME FlowTypeOK, bind' = [b \in Binds |-> [bind[b] EXCEPT !.live = FALSE]]
  PROVE  /\ bind' \in [Binds -> BindType]
         /\ \A b \in Binds : /\ bind'[b].pc = bind[b].pc
                             /\ bind'[b].contact = bind[b].contact
                             /\ bind'[b].kit = bind[b].kit
                             /\ bind'[b].alone = bind[b].alone
<1>1. ASSUME NEW o \in BindType
      PROVE  /\ [o EXCEPT !.live = FALSE] \in BindType
             /\ [o EXCEPT !.live = FALSE].pc = o.pc
             /\ [o EXCEPT !.live = FALSE].contact = o.contact
             /\ [o EXCEPT !.live = FALSE].kit = o.kit
             /\ [o EXCEPT !.live = FALSE].alone = o.alone
  BY DEF BindType
<1>2. bind \in [Binds -> BindType]
  BY DEF FlowTypeOK
<1>3. bind' \in [Binds -> BindType]
  BY <1>1, <1>2
<1>4. \A b \in Binds : bind'[b] = [bind[b] EXCEPT !.live = FALSE]
  OBVIOUS
<1> QED
  BY <1>1, <1>2, <1>3, <1>4

\* reset.
LEMMA ResettingTyped ==
  ASSUME FlowTypeOK, Resetting
  PROVE  FlowTypeOK'
<1> USE DEF local
<1>1. ASSUME NEW r \in Requests, ResetTake(r) PROVE FlowTypeOK'
  <2>1. slot.token # None /\ slot.kit \in Kits
    BY <1>1, FlowAssumption DEF ResetTake, FlowTypeOK
  <2> QED
    BY <1>1, <2>1 DEF ResetTake, FlowTypeOK, ResetType
<1>2. ASSUME NEW r \in Requests, ResetLate(r) PROVE FlowTypeOK'
  BY <1>2, FlowRecords DEF ResetLate, FlowTypeOK
<1>3. ASSUME ResetApply PROVE FlowTypeOK'
  <2>1. reset.kit \in Kits /\ wraps \in Kits
    BY <1>3 DEF ResetApply, FlowTypeOK
  <2>2. wraps' \in Kits
    BY <1>3, <2>1, FlowAssumption DEF ResetApply
  <2>3. /\ reset' \in ResetType
        /\ reset'.token = reset.token /\ reset'.kit = reset.kit
    BY <1>3 DEF ResetApply, FlowTypeOK, ResetType
  <2> QED
    BY <1>3, <2>2, <2>3 DEF ResetApply, FlowTypeOK
<1>4. ASSUME ResetClear PROVE FlowTypeOK'
  <2>1. /\ bind' \in [Binds -> BindType]
        /\ \A b \in Binds : /\ bind'[b].pc = bind[b].pc
                            /\ bind'[b].contact = bind[b].contact
                            /\ bind'[b].kit = bind[b].kit
    BY <1>4, EndLive DEF ResetClear
  <2> QED
    BY <1>4, <2>1, FlowRecords DEF ResetClear, FlowTypeOK
<1>5. ASSUME ResetFails PROVE FlowTypeOK'
  BY <1>5, FlowRecords DEF ResetFails, FlowTypeOK
<1> QED
  BY <1>1, <1>2, <1>3, <1>4, <1>5 DEF Resetting

\* A bind that begins is alone if no other is on its way, and no other is then.
LEMMA PackEffect ==
  ASSUME FlowTypeOK, NEW b \in Binds, NEW c \in Contacts, BindPack(b, c)
  PROVE  /\ bind' \in [Binds -> BindType]
         /\ bind'[b].pc = "packed" /\ bind'[b].contact = c
         /\ bind'[b].kit = wraps
         /\ bind'[b].alone = (\A e \in Binds : bind[e].pc = "done")
         /\ \A d \in Binds \ {b} : /\ bind'[d].pc = bind[d].pc
                                   /\ bind'[d].contact = bind[d].contact
                                   /\ bind'[d].kit = bind[d].kit
                                   /\ ~bind'[d].alone
<1> USE DEF FlowTypeOK
<1> DEFINE first == \A e \in Binds : bind[e].pc = "done"
           mine  == [pc |-> "packed", contact |-> c, kit |-> wraps,
                     live |-> TRUE, alone |-> first]
           late(d) == [bind[d] EXCEPT !.alone = FALSE]
<1>1. bind' = [d \in Binds |-> IF d = b THEN mine ELSE late(d)]
  BY DEF BindPack
<1>2. first \in BOOLEAN
  OBVIOUS
<1>3. first = (\A e \in Binds : bind[e].pc = "done")
  OBVIOUS
<1> HIDE DEF first
<1>4. /\ mine \in BindType /\ mine.pc = "packed" /\ mine.contact = c
      /\ mine.kit = wraps /\ mine.alone = first
  BY <1>2 DEF BindType
<1>5. ASSUME NEW d \in Binds
      PROVE  /\ late(d) \in BindType /\ late(d).pc = bind[d].pc
             /\ late(d).contact = bind[d].contact
             /\ late(d).kit = bind[d].kit /\ late(d).alone = FALSE
  <2>1. bind[d] \in BindType
    OBVIOUS
  <2> QED
    BY <2>1 DEF BindType
<1> HIDE DEF mine, late
<1>6. bind' \in [Binds -> BindType]
  BY <1>1, <1>4, <1>5
<1>7. bind'[b] = mine /\ \A d \in Binds \ {b} : bind'[d] = late(d)
  BY <1>1
<1>8. bind'[b].alone = (\A e \in Binds : bind[e].pc = "done")
  BY <1>3, <1>4, <1>7
<1> QED
  BY <1>4, <1>5, <1>6, <1>7, <1>8

\* What becomes of a bind when it is uploaded, timed out, given up or recorded.
LEMMA BindEffect ==
  ASSUME FlowTypeOK, NEW b \in Binds,
         BindUpload(b) \/ BindTimeout(b) \/ BindFails(b) \/ BindRecord(b)
  PROVE  /\ bind' \in [Binds -> BindType]
         /\ \A d \in Binds \ {b} : bind'[d] = bind[d]
         /\ \/ bind'[b] = NoBind
            \/ /\ bind'[b].pc = (IF BindUpload(b) THEN "uploaded" ELSE "stray")
               /\ bind'[b].contact = bind[b].contact
               /\ bind'[b].kit = bind[b].kit
               /\ bind'[b].alone = bind[b].alone
               /\ bind[b].pc = "packed"
<1> USE DEF FlowTypeOK
<1>1. CASE bind' = [bind EXCEPT ![b] = NoBind]
  BY <1>1, FlowRecords
<1>2. CASE BindUpload(b) /\ bind[b].pc = "packed"
  <2>1. bind' = [bind EXCEPT ![b] = [bind[b] EXCEPT !.pc = "uploaded"]]
    BY <1>2 DEF BindUpload
  <2> QED
    BY <1>2, <2>1 DEF BindType
<1>3. CASE BindTimeout(b)
  <2>1. bind' = [bind EXCEPT ![b] = [bind[b] EXCEPT !.pc = "stray"]]
    BY <1>3 DEF BindTimeout
  <2>2. ~BindUpload(b)
    BY <1>3, <2>1 DEF BindTimeout, BindUpload, BindType, NoBind
  <2> QED
    BY <1>3, <2>1, <2>2 DEF BindTimeout, BindType
<1> QED
  BY <1>1, <1>2, <1>3 DEF BindUpload, BindFails, BindRecord

\* bind, unbind and the session.
LEMMA BindingTyped ==
  ASSUME FlowTypeOK, Binding
  PROVE  FlowTypeOK'
<1>1. ASSUME NEW b \in Binds, NEW c \in Contacts, BindPack(b, c)
      PROVE  FlowTypeOK'
  <2>1. /\ bind' \in [Binds -> BindType]
        /\ \A d \in Binds : bind'[d].pc # "done" => /\ bind'[d].contact \in Contacts
                                                    /\ bind'[d].kit \in Kits
    <3>1. /\ bind'[b].contact = c /\ bind'[b].kit = wraps
          /\ \A d \in Binds \ {b} : /\ bind'[d].pc = bind[d].pc
                                    /\ bind'[d].contact = bind[d].contact
                                    /\ bind'[d].kit = bind[d].kit
          /\ bind' \in [Binds -> BindType]
      BY <1>1, PackEffect
    <3> QED
      BY <3>1 DEF FlowTypeOK
  <2> QED
    BY <1>1, <2>1 DEF BindPack, FlowTypeOK
<1>2. ASSUME NEW b \in Binds, BindUpload(b) \/ BindTimeout(b) \/ BindFails(b)
      PROVE  FlowTypeOK'
  <2>1. /\ bind' \in [Binds -> BindType]
        /\ \A d \in Binds : bind'[d].pc # "done" => /\ bind'[d].contact \in Contacts
                                                    /\ bind'[d].kit \in Kits
    BY <1>2, BindEffect, FlowRecords DEF FlowTypeOK
  <2> QED
    BY <1>2, <2>1 DEF BindUpload, BindTimeout, BindFails, FlowTypeOK
<1>3. ASSUME NEW b \in Binds, BindRecord(b) PROVE FlowTypeOK'
  <2>1. contact' \in Contacts /\ stands' \in BOOLEAN
    BY <1>3 DEF BindRecord, set_recovery_contact, FlowTypeOK, BindType
  <2> QED
    BY <1>3, <2>1, BindEffect, FlowRecords DEF BindRecord, FlowTypeOK
<1>4. ASSUME Unbind \/ OpenSession PROVE FlowTypeOK'
  BY <1>4 DEF Unbind, set_recovery_contact, OpenSession, FlowTypeOK
<1>5. ASSUME Rotate PROVE FlowTypeOK'
  <2>1. wraps' \in Kits
    BY <1>5, FlowAssumption DEF Rotate
  <2> QED
    BY <1>5, <2>1 DEF Rotate, FlowTypeOK
<1>6. ASSUME LockSession PROVE FlowTypeOK'
  <2>1. /\ bind' \in [Binds -> BindType]
        /\ \A b \in Binds : /\ bind'[b].pc = bind[b].pc
                            /\ bind'[b].contact = bind[b].contact
                            /\ bind'[b].kit = bind[b].kit
    BY <1>6, EndLive DEF LockSession
  <2> QED
    BY <1>6, <2>1 DEF LockSession, FlowTypeOK
<1> QED
  BY <1>1, <1>2, <1>3, <1>4, <1>5, <1>6 DEF Binding

\* What a new web server does not answer any more, and what it may still do.
LEMMA WebRestartEffect ==
  ASSUME FlowTypeOK, WebRestart
  PROVE  /\ page' \in [Requests -> PageType]
         /\ \A r \in Requests : /\ page'[r].at = Broken(page[r].at)
                                /\ page'[r].kit = page[r].kit
         /\ bind' \in [Binds -> BindType]
         /\ \A b \in Binds :
              \/ bind'[b] = NoBind
              \/ /\ bind[b].pc # "done" /\ bind'[b].pc = "stray"
                 /\ bind'[b].contact = bind[b].contact
                 /\ bind'[b].kit = bind[b].kit /\ bind'[b].alone = bind[b].alone
<1>1. \A r \in Requests : [page[r] EXCEPT !.at = Broken(page[r].at)] \in PageType
  BY DEF FlowTypeOK, PageType, Places, Broken
<1>2. page' = [r \in Requests |-> [page[r] EXCEPT !.at = Broken(page[r].at)]]
  BY DEF WebRestart
<1>3. /\ page' \in [Requests -> PageType]
      /\ \A r \in Requests : /\ page'[r].at = Broken(page[r].at)
                             /\ page'[r].kit = page[r].kit
  BY <1>1, <1>2 DEF FlowTypeOK, PageType
<1>4. \A b \in Binds :
        [bind[b] EXCEPT !.pc = "stray", !.live = FALSE] \in BindType
  BY DEF FlowTypeOK, BindType
<1>5. bind' = [b \in Binds |-> IF bind[b].pc \in {"packed", "stray"}
                               THEN [bind[b] EXCEPT !.pc = "stray", !.live = FALSE]
                               ELSE NoBind]
  BY DEF WebRestart
<1>6. bind' \in [Binds -> BindType]
  BY <1>4, <1>5, FlowRecords
<1>7. ASSUME NEW b \in Binds
      PROVE  \/ bind'[b] = NoBind
             \/ /\ bind[b].pc # "done" /\ bind'[b].pc = "stray"
                /\ bind'[b].contact = bind[b].contact
                /\ bind'[b].kit = bind[b].kit /\ bind'[b].alone = bind[b].alone
  BY <1>5 DEF FlowTypeOK, BindType
<1> QED
  BY <1>3, <1>6, <1>7

\* What a new service leaves the browser waiting for.
LEMMA ServiceRestartEffect ==
  ASSUME FlowTypeOK, ServiceRestart
  PROVE  /\ page' \in [Requests -> PageType]
         /\ \A r \in Requests :
              /\ page'[r].kit = page[r].kit
              /\ \/ page'[r].at = page[r].at
                 \/ page'[r].at = "over" /\ page[r].at = "asking"
<1>1. ASSUME NEW o \in PageType, NEW to \in Places
      PROVE  /\ [o EXCEPT !.at = to] \in PageType
             /\ [o EXCEPT !.at = to].kit = o.kit
             /\ [o EXCEPT !.at = to].at = to
  BY DEF PageType
<1>2. ASSUME NEW r \in Requests
      PROVE  /\ page'[r] \in PageType /\ page'[r].kit = page[r].kit
             /\ page'[r].at = IF page[r].at = "asking" THEN "over" ELSE page[r].at
  <2> DEFINE to == IF page[r].at = "asking" THEN "over" ELSE page[r].at
  <2>1. page'[r] = [page[r] EXCEPT !.at = to]
    BY DEF ServiceRestart
  <2>2. page[r] \in PageType
    BY DEF FlowTypeOK
  <2>3. to \in Places
    BY <2>2 DEF PageType, Places
  <2>4. to = IF page[r].at = "asking" THEN "over" ELSE page[r].at
    OBVIOUS
  <2> HIDE DEF to
  <2> QED
    BY <1>1, <2>1, <2>2, <2>3, <2>4
<1>3. page' = [r \in Requests |-> page'[r]]
  BY DEF ServiceRestart
<1> QED
  BY <1>2, <1>3

\* Restarts and time.
LEMMA RestTyped ==
  ASSUME FlowTypeOK, WebRestart \/ ServiceRestart \/ Pass
  PROVE  FlowTypeOK'
<1> USE DEF local
<1>1. ASSUME WebRestart PROVE FlowTypeOK'
  <2>1. quota' \in [1 .. WebMax -> 0 .. WebWindow]
    <3>1. WebWindow \in 0 .. WebWindow
      BY FlowAssumption
    <3>2. quota' = [i \in 1 .. WebMax |-> WebWindow]
      BY <1>1 DEF WebRestart
    <3> QED
      BY <3>1, <3>2
  <2>2. \A r \in Requests : page'[r].at \in {"answered", "token"} => page'[r].kit \in Kits
    BY <1>1, WebRestartEffect DEF FlowTypeOK, Broken
  <2>3. \A b \in Binds : bind'[b].pc # "done" => /\ bind'[b].contact \in Contacts
                                                 /\ bind'[b].kit \in Kits
    BY <1>1, WebRestartEffect, FlowRecords DEF FlowTypeOK
  <2> QED
    BY <1>1, <2>1, <2>2, <2>3, WebRestartEffect, FlowRecords
       DEF WebRestart, FlowTypeOK
<1>2. ASSUME ServiceRestart PROVE FlowTypeOK'
  BY <1>2, ServiceRestartEffect DEF ServiceRestart, FlowTypeOK
<1>3. ASSUME Pass PROVE FlowTypeOK'
  <2>1. quota' \in [1 .. WebMax -> 0 .. WebWindow]
    <3>1. \A i \in 1 .. WebMax :
            AtMost(quota[i] + 1, WebWindow) \in 0 .. WebWindow
      BY AtMostBounded, FlowAssumption DEF FlowTypeOK
    <3> QED
      BY <1>3, <3>1 DEF Pass
  <2>2. /\ slot' \in SlotType /\ slot'.token = slot.token
        /\ slot'.kit = slot.kit
    <3> DEFINE n == AtMost(slot.age + 1, ResetTtl + 1)
    <3>1. n \in 0 .. ResetTtl + 1
      BY AtMostBounded, FlowAssumption DEF FlowTypeOK, SlotType
    <3>2. slot' = slot \/ slot' = [slot EXCEPT !.age = n]
      BY <1>3 DEF Pass
    <3> HIDE DEF n
    <3> QED
      BY <3>1, <3>2 DEF FlowTypeOK, SlotType
  <2> QED
    BY <1>3, <2>1, <2>2 DEF Pass, FlowTypeOK
<1> QED
  BY <1>1, <1>2, <1>3

\* No step of the web server breaks its types.
LEMMA FlowTypeStep ==
  TypeOK /\ Addressed /\ FlowTypeOK /\ [FlowNext]_flow => FlowTypeOK'
<1>1. ASSUME FlowTypeOK, UNCHANGED flow PROVE FlowTypeOK'
  BY <1>1 DEF flow, local, FlowTypeOK
<1> QED
  BY <1>1, AskingTyped, VerifyingTyped, ResettingTyped, BindingTyped, RestTyped
     DEF FlowNext

\* The state of the service and of the web server has its types, together.
LEMMA FlowTyped == FlowSpec => [](TypeOK /\ Addressed /\ FlowTypeOK)
<1>1. FlowInit => TypeOK /\ Addressed /\ FlowTypeOK
  BY TypeInit, AddressedInit, FlowTypeInit DEF FlowInit
<1>2. TypeOK /\ Addressed /\ FlowTypeOK /\ [FlowNext]_flow =>
        (TypeOK /\ Addressed /\ FlowTypeOK)'
  BY ServiceStep, TypeStep, AddressedStep, FlowTypeStep
<1> QED
  BY <1>1, <1>2, PTL DEF FlowSpec

\* For any limits, and whatever calls and answers are lost on the way or come
\* late, the recovery service behind the web server is that of RecoveryService
\* (api_reset.rs, api_recovery.rs, recovery_client.rs over lib.rs).
THEOREM FlowImplementsService == FlowSpec => Spec
<1>1. FlowInit => Init
  BY DEF FlowInit
<1> QED
  BY <1>1, ServiceStep, FlowTyped, PTL DEF FlowSpec, Spec

\* So a kit leaves for the email reset only for a code that was mailed to the
\* contact and answered in its time (lib.rs:262-325).
THEOREM FlowKitNeedsCode == FlowSpec => []KitOnlyForCode
BY FlowImplementsService, KitNeedsCode, PTL

\* And no more codes are begun for a contact in a window than the limit, whatever the
\* web server lets through (lib.rs:212-226).
THEOREM FlowQuotaHolds == FlowSpec => []QuotaHolds
BY FlowImplementsService, QuotaAlwaysHolds, PTL

-----------------------------------------------------------------------------
(* Whose kit a reset uses.                                                 *)

\* What a step of the service does to the stage of a request on its way.
OnItsWay(r) == req[r].stage \in {"counted", "mailed"}

\* A step that leaves the slot, the reset and what the browser has of their
\* tokens alone keeps them, if no request on its way is taken for another.
LEMMA TokenKept ==
  ASSUME FlowTypeOK, TokenInv, UNCHANGED <<slot, reset>>,
         \A r \in Requests :
           /\ page[r].at = "token" => page'[r].at = "token"
                                      /\ page'[r].kit = page[r].kit
           /\ OnItsWay(r)' => page'[r].at \in {"asking", "over"}
  PROVE  TokenInv'
BY DEF FlowTypeOK, TokenInv, KitOfToken, OnItsWay, SlotType

\* The service puts no request on its way but a new one.
LEMMA StageEffect ==
  ASSUME TypeOK
  PROVE  /\ \A r \in Requests, c \in Contacts : Count(r, c) =>
              \A q \in Requests \ {r} : req'[q] = req[q]
         /\ \A r \in Requests : Mail(r) =>
              OnItsWay(r) /\ \A q \in Requests \ {r} : req'[q] = req[q]
         /\ \A r \in Requests :
              MailFails(r) \/ Register(r) \/ VerifyRefused(r) \/ VerifyFails(r)
                \/ Verify(r) =>
              ~OnItsWay(r)' /\ \A q \in Requests \ {r} : req'[q] = req[q]
         /\ \A r \in Requests : VerifyWrong(r) =>
              \A q \in Requests : req'[q].stage = req[q].stage
         /\ Tick => \A q \in Requests : req'[q].stage = req[q].stage
<1> USE DEF TypeOK, OnItsWay
<1>1. ASSUME NEW r \in Requests,
             \/ MailFails(r) \/ Register(r) \/ VerifyRefused(r)
             \/ VerifyFails(r) \/ Verify(r)
      PROVE  ~OnItsWay(r)' /\ \A q \in Requests \ {r} : req'[q] = req[q]
  <2>1. Put(r, "gone") \/ Put(r, "open")
    BY <1>1 DEF MailFails, Register, VerifyRefused, VerifyFails, Verify
  <2> QED
    BY <2>1, PutEffect DEF Stages
<1>2. ASSUME NEW r \in Requests, Mail(r)
      PROVE  OnItsWay(r) /\ \A q \in Requests \ {r} : req'[q] = req[q]
  BY <1>2, PutEffect DEF Mail, Stages
<1>3. ASSUME NEW r \in Requests, VerifyWrong(r)
      PROVE  \A q \in Requests : req'[q].stage = req[q].stage
  BY <1>3 DEF VerifyWrong, ReqType
<1>4. ASSUME Tick PROVE \A q \in Requests : req'[q].stage = req[q].stage
  BY <1>4, TickEffect
<1> QED
  BY <1>1, <1>2, <1>3, <1>4 DEF Count

\* request_code.
LEMMA AskingTokens ==
  ASSUME TypeOK, FlowTypeOK, TokenInv, Asking
  PROVE  TokenInv'
<1>1. \A r \in Requests : OnItsWay(r) => page[r].at \in {"asking", "over"}
  BY DEF TokenInv, OnItsWay
<1>2. ASSUME Admit \/ AskLost \/ \E c \in Contacts : AskRefused(c)
      PROVE  TokenInv'
  BY <1>1, <1>2, TokenKept
     DEF Admit, AskLost, AskRefused, Refuse, service, OnItsWay
<1>3. ASSUME NEW r \in Requests, NEW c \in Contacts, Ask(r, c)
      PROVE  TokenInv'
  <2>1. /\ page'[r].at = "asking"
        /\ \A q \in Requests \ {r} : page'[q] = page[q] /\ req'[q] = req[q]
    BY <1>3, StageEffect DEF Ask, FlowTypeOK
  <2>2. UNCHANGED <<slot, reset>> /\ r # slot.token /\ r # reset.token
    BY <1>3 DEF Ask
  <2> QED
    BY <2>1, <2>2 DEF TokenInv, KitOfToken, FlowTypeOK, SlotType
<1>4. ASSUME NEW r \in Requests, AskTimeout(r) PROVE TokenInv'
  BY <1>1, <1>4, MoveEffect, TokenKept
     DEF AskTimeout, At, service, OnItsWay, Places
<1>5. ASSUME NEW r \in Requests, MailCode(r) PROVE TokenInv'
  BY <1>1, <1>5, StageEffect, TokenKept DEF MailCode, OnItsWay
<1>6. ASSUME NEW r \in Requests, MailError(r) \/ Issue(r) PROVE TokenInv'
  <2>1. PICK to \in {"over", "known"} : page' = [page EXCEPT ![r].at = to]
    BY <1>6 DEF MailError, Issue
  <2>2. OnItsWay(r) /\ UNCHANGED <<slot, reset>>
    BY <1>6 DEF MailError, MailFails, Issue, Register, OnItsWay
  <2>3. ~OnItsWay(r)' /\ \A q \in Requests \ {r} : req'[q] = req[q]
    BY <1>6, StageEffect DEF MailError, Issue
  <2> QED
    BY <1>1, <2>1, <2>2, <2>3, MoveEffect, TokenKept DEF OnItsWay, Places
<1> QED
  BY <1>2, <1>3, <1>4, <1>5, <1>6 DEF Asking, Reach

\* verify_code.
LEMMA VerifyingTokens ==
  ASSUME TypeOK, Addressed, FlowTypeOK, TokenInv, Verifying
  PROVE  TokenInv'
<1> SUFFICES ASSUME NEW r \in Requests,
                    \/ WrongCode(r) \/ CodeRefused(r) \/ CodeRight(r)
                    \/ Fill(r) \/ LoseAnswer(r)
             PROVE  TokenInv'
  BY DEF Verifying
<1>1. \A q \in Requests : OnItsWay(q) => page[q].at \in {"asking", "over"}
  BY DEF TokenInv, OnItsWay
<1>2. CASE WrongCode(r)
  BY <1>1, <1>2, StageEffect, TokenKept DEF WrongCode, OnItsWay
<1>3. CASE CodeRefused(r)
  BY <1>1, <1>3, StageEffect, MoveEffect, TokenKept
     DEF CodeRefused, At, OnItsWay, Places
<1>4. CASE LoseAnswer(r)
  BY <1>1, <1>4, MoveEffect, TokenKept
     DEF LoseAnswer, At, service, OnItsWay, Places
<1>5. CASE CodeRight(r)
  <2>1. /\ page[r].at = "known" /\ UNCHANGED <<slot, reset>>
        /\ \A q \in Requests \ {r} : page'[q] = page[q]
    BY <1>5 DEF CodeRight, FlowTypeOK
  <2>2. ~OnItsWay(r)' /\ \A q \in Requests \ {r} : req'[q] = req[q]
    BY <1>5, StageEffect DEF CodeRight
  <2> QED
    BY <1>1, <2>1, <2>2, TokenKept DEF OnItsWay
<1>6. CASE Fill(r)
  <2>1. /\ page[r].at = "answered" /\ page'[r].at = "token"
        /\ \A q \in Requests : page'[q].kit = page[q].kit
        /\ \A q \in Requests \ {r} : page'[q].at = page[q].at
    BY <1>6, MoveEffect DEF Fill, At, Places
  <2>2. /\ slot'.token = r /\ slot'.kit = page[r].kit
        /\ UNCHANGED <<reset, req>>
    BY <1>6 DEF Fill, service
  <2> QED
    BY <2>1, <2>2 DEF TokenInv, KitOfToken, FlowTypeOK
<1> QED
  BY <1>2, <1>3, <1>4, <1>5, <1>6

\* reset.
LEMMA ResettingTokens ==
  ASSUME FlowTypeOK, TokenInv, Resetting
  PROVE  TokenInv'
<1> USE DEF service, TokenInv, KitOfToken
<1>1. ASSUME NEW r \in Requests, ResetTake(r) PROVE TokenInv'
  BY <1>1, FlowAssumption DEF ResetTake
<1>2. ASSUME NEW r \in Requests, ResetLate(r) PROVE TokenInv'
  BY <1>2, FlowRecords DEF ResetLate
<1>3. ASSUME ResetApply PROVE TokenInv'
  <2>1. reset'.token = reset.token /\ reset'.kit = reset.kit
    BY <1>3 DEF ResetApply, FlowTypeOK, ResetType
  <2> QED
    BY <1>3, <2>1 DEF ResetApply
<1>4. ASSUME ResetClear \/ ResetFails PROVE TokenInv'
  BY <1>4, FlowRecords DEF ResetClear, ResetFails
<1> QED
  BY <1>1, <1>2, <1>3, <1>4 DEF Resetting

\* Every step keeps the kits with their tokens.
LEMMA TokenStep ==
  TypeOK /\ Addressed /\ FlowTypeOK /\ TokenInv /\ [FlowNext]_flow => TokenInv'
<1> SUFFICES ASSUME TypeOK, Addressed, FlowTypeOK, TokenInv, [FlowNext]_flow
             PROVE  TokenInv'
  OBVIOUS
<1>1. \A q \in Requests : OnItsWay(q) => page[q].at \in {"asking", "over"}
  BY DEF TokenInv, OnItsWay
<1>2. ASSUME Binding PROVE TokenInv'
  <2>1. UNCHANGED <<page, slot, reset, req>>
    BY <1>2
       DEF Binding, BindPack, BindUpload, Bind, BindTimeout, BindFails,
           BindRecord, Unbind, Rotate, OpenSession, LockSession, service
  <2> QED
    BY <2>1 DEF TokenInv, KitOfToken
<1>3. ASSUME WebRestart PROVE TokenInv'
  <2>1. UNCHANGED req /\ slot' = NoSlot /\ reset' = NoSteps
    BY <1>3 DEF WebRestart, service
  <2> QED
    BY <1>3, <2>1, WebRestartEffect, FlowRecords
       DEF TokenInv, KitOfToken, Broken
<1>4. ASSUME ServiceRestart PROVE TokenInv'
  <2>1. \A q \in Requests : ~OnItsWay(q)'
    BY <1>4 DEF ServiceRestart, Restart, NoReq, OnItsWay
  <2>2. UNCHANGED <<slot, reset>>
    BY <1>4 DEF ServiceRestart
  <2> QED
    BY <1>4, <2>1, <2>2, ServiceRestartEffect, TokenKept
<1>5. ASSUME Pass PROVE TokenInv'
  <2>1. /\ UNCHANGED <<page, reset>>
        /\ slot'.token = slot.token /\ slot'.kit = slot.kit
    BY <1>5 DEF Pass, FlowTypeOK, SlotType
  <2>2. \A q \in Requests : req'[q].stage = req[q].stage
    BY <1>5, StageEffect DEF Pass
  <2> QED
    BY <2>1, <2>2 DEF TokenInv, KitOfToken
<1>6. ASSUME UNCHANGED flow PROVE TokenInv'
  BY <1>6 DEF flow, service, TokenInv, KitOfToken
<1> QED
  BY <1>2, <1>3, <1>4, <1>5, <1>6, AskingTokens, VerifyingTokens,
     ResettingTokens DEF FlowNext

\* A reset uses the kit its own token was given for, though codes verified
\* meanwhile, restarts and lost answers change the slot and the page behind it
\* (api_reset.rs:134-208).
THEOREM KitAlwaysOfToken == FlowSpec => []KitOfToken
<1>1. FlowInit => TokenInv
  BY FlowRecords
     DEF FlowInit, Init, NoReq, TokenInv, KitOfToken
<1>2. TokenInv => KitOfToken
  BY DEF TokenInv
<1> QED
  BY <1>1, <1>2, TokenStep, FlowTyped, PTL DEF FlowSpec

-----------------------------------------------------------------------------
(* What the vault says of its contact.                                     *)

\* Only the handlers of bind, reset and the key change what it is about.
LEMMA BindKept ==
  ASSUME FlowTypeOK, BindInv, UNCHANGED <<binding, contact, stands>>,
         UNCHANGED wraps \/ ~stands',
         \A b \in Binds :
           \/ bind'[b].pc = "done"
           \/ /\ bind[b].pc # "done"
              /\ bind'[b].pc = "uploaded" => bind[b].pc = "uploaded"
              /\ bind'[b].contact = bind[b].contact /\ bind'[b].kit = bind[b].kit
              /\ bind'[b].alone => bind[b].alone
  PROVE  BindInv'
<1> USE DEF BindInv
<1>1. RecordedIsBound'
  BY DEF RecordedIsBound
<1>2. LastBindStands' /\ (stands' => wraps' = Current')
  BY DEF LastBindStands, Current
<1>3. ASSUME NEW b \in Binds
      PROVE  /\ bind'[b].pc = "uploaded" => binding[bind'[b].contact] # None
             /\ stands' /\ bind'[b].pc # "done" => bind'[b].kit = wraps'
  OBVIOUS
<1>4. ASSUME NEW b \in Binds, bind'[b].pc # "done" /\ bind'[b].alone
      PROVE  /\ \A e \in Binds \ {b} : bind'[e].pc = "done"
             /\ bind'[b].pc = "uploaded" => binding[bind'[b].contact] = bind'[b].kit
  BY <1>4
<1> QED
  BY <1>1, <1>2, <1>3, <1>4

\* bind, up to the answer of the service.
LEMMA SendKeeps ==
  ASSUME TypeOK, FlowTypeOK, BindInv, NEW b \in Binds,
         BindUpload(b) \/ \E c \in Contacts : BindPack(b, c)
  PROVE  BindInv'
<1> USE DEF BindInv
<1>1. ASSUME NEW c \in Contacts, BindPack(b, c) PROVE BindInv'
  <2>1. UNCHANGED <<binding, wraps, contact, stands>> /\ bind[b].pc = "done"
    BY <1>1 DEF BindPack, service
  <2>2. /\ bind'[b].pc = "packed" /\ bind'[b].contact = c
        /\ bind'[b].kit = wraps
        /\ bind'[b].alone = (\A e \in Binds : bind[e].pc = "done")
        /\ \A d \in Binds \ {b} : /\ bind'[d].pc = bind[d].pc
                                  /\ bind'[d].contact = bind[d].contact
                                  /\ bind'[d].kit = bind[d].kit
                                  /\ ~bind'[d].alone
    BY <1>1, PackEffect
  <2>3. RecordedIsBound' /\ LastBindStands' /\ (stands' => wraps' = Current')
    BY <2>1 DEF RecordedIsBound, LastBindStands, Current
  <2>4. ASSUME NEW d \in Binds
        PROVE  /\ bind'[d].pc = "uploaded" => binding'[bind'[d].contact] # None
               /\ stands' /\ bind'[d].pc # "done" => bind'[d].kit = wraps'
    BY <2>1, <2>2
  <2>5. ASSUME NEW d \in Binds, bind'[d].pc # "done" /\ bind'[d].alone
        PROVE  /\ \A e \in Binds \ {d} : bind'[e].pc = "done"
               /\ bind'[d].pc = "uploaded" => binding'[bind'[d].contact] = bind'[d].kit
    <3>1. d = b
      BY <2>2, <2>5
    <3>2. \A e \in Binds : bind[e].pc = "done"
      BY <2>2, <2>5, <3>1
    <3> QED
      BY <2>2, <3>1, <3>2
  <2> QED
    BY <2>3, <2>4, <2>5
<1>2. ASSUME BindUpload(b) PROVE BindInv'
  <2> DEFINE c == bind[b].contact
             k == bind[b].kit
  <2>1. /\ c \in Contacts /\ k \in Kits /\ bind[b].pc # "done"
        /\ UNCHANGED <<wraps, contact, stands>>
    BY <1>2 DEF BindUpload, FlowTypeOK
  <2>2. /\ binding'[c] = k
        /\ \A d \in Contacts \ {c} : binding'[d] = binding[d]
    BY <1>2, <2>1 DEF BindUpload, Bind, TypeOK
  <2>3. /\ \A d \in Binds \ {b} : bind'[d] = bind[d]
        /\ \/ bind'[b].pc = "done"
           \/ /\ bind'[b].pc = "uploaded" /\ bind'[b].contact = c
              /\ bind'[b].kit = k /\ bind'[b].alone = bind[b].alone
    BY <1>2, BindEffect, FlowRecords
  <2>4. k # None
    BY <2>1, ServiceAssumption
  <2>5. RecordedIsBound'
    BY <2>1, <2>2, <2>4 DEF RecordedIsBound, FlowTypeOK
  <2>6. LastBindStands' /\ (stands' => wraps' = Current')
    BY <2>1, <2>2 DEF LastBindStands, Current, FlowTypeOK
  <2>7. ASSUME NEW d \in Binds
        PROVE  /\ bind'[d].pc = "uploaded" => binding'[bind'[d].contact] # None
               /\ stands' /\ bind'[d].pc # "done" => bind'[d].kit = wraps'
    BY <2>1, <2>2, <2>3, <2>4 DEF FlowTypeOK
  <2>8. ASSUME NEW d \in Binds, bind'[d].pc # "done" /\ bind'[d].alone
        PROVE  /\ \A e \in Binds \ {d} : bind'[e].pc = "done"
               /\ bind'[d].pc = "uploaded" => binding'[bind'[d].contact] = bind'[d].kit
    BY <2>1, <2>2, <2>3, <2>8
  <2> QED
    BY <2>5, <2>6, <2>7, <2>8
<1> QED
  BY <1>1, <1>2

\* bind, the record of the contact: only of one whose kit was uploaded.
LEMMA RecordKeeps ==
  ASSUME FlowTypeOK, BindInv, NEW b \in Binds, BindRecord(b)
  PROVE  BindInv'
<1> USE DEF BindInv
<1>1. /\ UNCHANGED <<binding, wraps>> /\ contact' = bind[b].contact
      /\ bind[b].pc = "uploaded"
      /\ stands' = (bind[b].alone /\ bind[b].kit = wraps /\ wraps = Current)
      /\ bind' = [bind EXCEPT ![b] = NoBind]
  BY DEF BindRecord, set_recovery_contact, service
<1>2. /\ bind'[b].pc = "done"
      /\ \A d \in Binds \ {b} : bind'[d] = bind[d]
  BY <1>1, FlowRecords DEF FlowTypeOK
<1>3. RecordedIsBound'
  BY <1>1 DEF RecordedIsBound
<1>4. LastBindStands' /\ (stands' => wraps' = Current')
  <2>1. SUFFICES ASSUME stands'
                 PROVE  /\ contact' # None /\ binding'[contact'] = Current'
                        /\ wraps' = Current'
    BY DEF LastBindStands
  <2>2. /\ bind[b].alone /\ bind[b].kit = wraps /\ wraps = Current
        /\ binding[bind[b].contact] = bind[b].kit
    BY <1>1, <2>1
  <2>3. bind[b].contact # None
    BY <1>1, FlowAssumption DEF FlowTypeOK
  <2> QED
    BY <1>1, <2>2, <2>3 DEF Current
<1>5. ASSUME NEW d \in Binds, bind'[d].pc # "done"
      PROVE  d # b /\ bind'[d] = bind[d] /\ bind[d].pc # "done"
  BY <1>2, <1>5
<1>6. ASSUME stands' PROVE \A d \in Binds : bind'[d].pc = "done"
  <2>1. bind[b].alone
    BY <1>1, <1>6
  <2> QED
    BY <1>1, <1>2, <2>1
<1>7. ASSUME NEW d \in Binds
      PROVE  /\ bind'[d].pc = "uploaded" => binding'[bind'[d].contact] # None
             /\ bind'[d].pc # "done" /\ bind'[d].alone =>
                  /\ \A e \in Binds \ {d} : bind'[e].pc = "done"
                  /\ bind'[d].pc = "uploaded" =>
                       binding'[bind'[d].contact] = bind'[d].kit
  BY <1>1, <1>2, <1>5
<1> QED
  BY <1>3, <1>4, <1>6, <1>7

\* Every step keeps what the vault says of its contact.
LEMMA BindStep ==
  TypeOK /\ FlowTypeOK /\ BindInv /\ [FlowNext]_flow => BindInv'
<1> SUFFICES ASSUME TypeOK, FlowTypeOK, BindInv, [FlowNext]_flow
             PROVE  BindInv'
  OBVIOUS
<1>1. ASSUME Asking \/ Verifying \/ ServiceRestart \/ Pass \/ UNCHANGED flow
      PROVE  BindInv'
  <2>1. UNCHANGED local
    BY <1>1
       DEF Asking, Admit, AskLost, Reach, AskRefused, Ask, AskTimeout, MailCode,
           MailError, Issue, Verifying, WrongCode, CodeRefused, CodeRight, Fill,
           LoseAnswer, ServiceRestart, Pass, flow
  <2>2. UNCHANGED binding
    BY <1>1
       DEF Asking, Admit, AskLost, Reach, AskRefused, Refuse, Ask, Count,
           AskTimeout, MailCode, Mail, MailError, MailFails, Issue, Register,
           Verifying, WrongCode, VerifyWrong, CodeRefused, VerifyRefused,
           VerifyFails, CodeRight, Verify, Fill, LoseAnswer, ServiceRestart,
           Restart, Pass, Tick, flow, service
  <2> QED
    BY <2>1, <2>2, BindKept DEF local
<1>2. ASSUME ResetApply PROVE BindInv'
  <2>1. /\ UNCHANGED <<binding, bind, contact>>
        /\ reset.kit.dek = reset.kit.fdek
        /\ wraps' = [wraps EXCEPT !.fdek = reset.kit.fdek]
        /\ stands' = (stands /\ reset.kit.dek = wraps.dek)
    BY <1>2 DEF ResetApply, service
  <2>2. ASSUME stands' PROVE wraps' = wraps
    <3>1. wraps = Current /\ reset.kit.dek = wraps.dek
      BY <2>1, <2>2 DEF BindInv
    <3>2. wraps.fdek = reset.kit.fdek
      BY <2>1, <3>1 DEF Current
    <3>3. wraps \in Kits
      BY DEF FlowTypeOK
    <3> QED
      BY <2>1, <3>2, <3>3, FlowAssumption
  <2> QED
    BY <2>1, <2>2
       DEF BindInv, RecordedIsBound, LastBindStands, Current
<1>3. ASSUME \/ \E r \in Requests : ResetTake(r) \/ ResetLate(r)
             \/ ResetFails \/ OpenSession
      PROVE  BindInv'
  <2>1. UNCHANGED <<binding, bind, wraps, contact, stands>>
    BY <1>3 DEF ResetTake, ResetLate, ResetFails, OpenSession, service, local
  <2> QED
    BY <2>1, BindKept
<1>4. ASSUME ResetClear \/ LockSession PROVE BindInv'
  <2>1. UNCHANGED <<binding, wraps, contact, stands>>
    BY <1>4 DEF ResetClear, LockSession, service
  <2>2. \A b \in Binds : /\ bind'[b].pc = bind[b].pc
                         /\ bind'[b].contact = bind[b].contact
                         /\ bind'[b].kit = bind[b].kit
                         /\ bind'[b].alone = bind[b].alone
    BY <1>4, EndLive DEF ResetClear, LockSession
  <2> QED
    BY <2>1, <2>2, BindKept
<1>5. ASSUME NEW b \in Binds, BindTimeout(b) \/ BindFails(b) PROVE BindInv'
  <2>1. UNCHANGED <<binding, wraps, contact, stands>>
    BY <1>5 DEF BindTimeout, BindFails, service
  <2>2. /\ \A d \in Binds \ {b} : bind'[d] = bind[d]
        /\ \/ bind'[b].pc = "done"
           \/ /\ bind'[b].pc = "stray" /\ bind[b].pc = "packed"
              /\ bind'[b].contact = bind[b].contact
              /\ bind'[b].kit = bind[b].kit /\ bind'[b].alone = bind[b].alone
    <3>1. CASE BindTimeout(b)
      BY <3>1 DEF BindTimeout, FlowTypeOK, BindType
    <3>2. CASE BindFails(b)
      BY <3>2, FlowRecords DEF BindFails, FlowTypeOK
    <3> QED
      BY <1>5, <3>1, <3>2
  <2> QED
    BY <2>1, <2>2, BindKept
<1>6. ASSUME Unbind PROVE BindInv'
  BY <1>6
     DEF Unbind, set_recovery_contact, service, BindInv, RecordedIsBound,
         LastBindStands
<1>7. ASSUME Rotate PROVE BindInv'
  <2>1. UNCHANGED <<binding, bind, contact>> /\ ~stands'
    BY <1>7 DEF Rotate, service
  <2> QED
    BY <2>1 DEF BindInv, RecordedIsBound, LastBindStands
<1>8. ASSUME WebRestart PROVE BindInv'
  <2>1. UNCHANGED <<binding, wraps, contact, stands>>
    BY <1>8 DEF WebRestart, service
  <2> QED
    BY <1>8, <2>1, WebRestartEffect, FlowRecords, BindKept
<1> QED
  BY <1>1, <1>2, <1>3, <1>4, <1>5, <1>6, <1>7, <1>8, SendKeeps, RecordKeeps
     DEF FlowNext, Resetting, Binding

\* It is an invariant of the flow.
LEMMA BindInduction == FlowSpec => []BindInv
<1>1. FlowInit => BindInv
  BY FlowRecords DEF FlowInit, BindInv, RecordedIsBound, LastBindStands
<1> QED
  BY <1>1, BindStep, FlowTyped, PTL DEF FlowSpec

\* A vault that says it is bound has a kit at the service for that contact,
\* whatever is lost, late, cut off or bound twice at once
\* (api_recovery.rs:107-133).
THEOREM RecordedAlwaysBound == FlowSpec => []RecordedIsBound
<1>1. BindInv => RecordedIsBound
  BY DEF BindInv
<1> QED
  BY <1>1, BindInduction, PTL

\* The kit of a bind that went through alone stays one that the last recovery
\* key opens, until the key, the contact or the wraps change
\* (api_recovery.rs:92-138).
THEOREM LastBindAlwaysStands == FlowSpec => []LastBindStands
<1>1. BindInv => LastBindStands
  BY DEF BindInv
<1> QED
  BY <1>1, BindInduction, PTL

=============================================================================
