------------------------------ MODULE MCDevice -------------------------------
(***************************************************************************)
(* TLC instances of the modules around the vault file that share no state  *)
(* with one another: a behaviour is one of them, and the others stand      *)
(* still.                                                                  *)
(*   "lock"     Lockout, whole                                             *)
(*   "handles"  Handles: a1 is a thread of the C interface, a2 one of the  *)
(*              bridge; the vault is two failures before its first lock    *)
(*   "store"    SecureStore                                                *)
(*   "files"    ServiceFiles                                               *)
(*   "cli"      Cli                                                        *)
(*   "typed"    Suggest                                                    *)
(***************************************************************************)
EXTENDS Handles, SecureStore, ServiceFiles, Cli, Suggest, TLC

CONSTANTS
  a1, a2,
  r1,         \* the run of the tool that may be a delete
  MaxTokens   \* bound: tokens drawn

VARIABLE part

all == <<vars, hvars, svars, fvars, cvars, typed, suggestion, part>>

\* path_of maps the two names of a file to one.
OneFile == [i \in Ids |-> CHOOSE j \in Ids : TRUE]
KnownCommands == <<<<"a", "b", "a">>, <<"b", "b">>, <<"a", "a", "b", "b", "a">>>>
TwoLetters == {"a", "b"}
AppNames == {"app", "my app"}
AppWithin == {<<n, n>> : n \in AppNames} \cup {<<"app", "my app">>}

StillLock == UNCHANGED vars
StillHandles == UNCHANGED hvars
StillStore == UNCHANGED svars
StillFiles == UNCHANGED fvars
StillCli == UNCHANGED cvars
StillTyped == UNCHANGED <<typed, suggestion>>
In(p) == part = p /\ UNCHANGED part

LockPart(A) ==
  In("lock") /\ A /\ StillHandles /\ StillStore /\ StillFiles /\ StillCli /\ StillTyped

\* Bounds: no wrong password after a reset; time stands still outside a lock.
HandlesPart(A) ==
  /\ In("handles") /\ A
  /\ answered' \in {0} \cup LockThreshold - 2 .. LockThreshold
  /\ StillStore /\ StillFiles /\ StillCli /\ StillTyped

LockTick == LockPart(Tick)
HandlesTick == HandlesPart(Locked /\ Tick /\ UNCHANGED hvars)
Completes(a) == LockPart(Proceed(a)) \/ HandlesPart(Answers(a))

Outside(A) == A /\ StillLock /\ StillHandles

\* The parts that a behaviour is not about start from one state.
Elsewhere ==
  /\ handle[a2] = Closed
  /\ part # "handles" => /\ dek_under = (CHOOSE p \in Passwords : TRUE)
                         /\ fdek_under = None /\ handle[a1] = Closed
  /\ part # "store" => backend = "memory"
  /\ part # "cli" => vault_file = "absent"
  /\ part # "typed" => typed = <<>>

AlmostLocked ==
  /\ failed_attempts = LockThreshold - 2 /\ answered = LockThreshold - 2
  /\ gap = MaxGap /\ lock_left = 0
  /\ attempt = [a \in Actors |-> Idle] /\ alone = TRUE

MCInit ==
  /\ part \in {"lock", "handles", "store", "files", "cli", "typed"}
  /\ IF part = "handles" THEN AlmostLocked ELSE Init
  /\ HandlesInit /\ StoreInit /\ FilesInit /\ CliInit /\ SuggestInit
  /\ Elsewhere

MCNext ==
  \/ LockTick \/ HandlesTick
  \/ \E a \in Actors :
       Completes(a) \/ LockPart(Begin(a)) \/ LockPart(RecoverReset(a))
  \/ HandlesPart(Calls(a1)) \/ HandlesPart(BridgeCalls(a2))
  \/ HandlesPart(OtherProcess)
  \/ In("store") /\ Outside(StoreNext) /\ StillFiles /\ StillCli /\ StillTyped
  \/ /\ In("files") /\ Outside(FilesNext) /\ tokens' <= MaxTokens
     /\ StillStore /\ StillCli /\ StillTyped
  \/ /\ In("cli") /\ Outside(CliNext)
     /\ \A r \in Runs \ {r1} : cli'[r].command # "delete"
     /\ StillStore /\ StillFiles /\ StillTyped
  \/ In("typed") /\ Outside(Unknown) /\ StillStore /\ StillFiles /\ StillCli

MCSpec ==
  /\ MCInit /\ [][MCNext]_all
  /\ WF_all(LockTick \/ HandlesTick)
  /\ \A a \in Actors : WF_all(Completes(a))
=============================================================================
