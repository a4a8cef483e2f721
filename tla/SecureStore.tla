----------------------------- MODULE SecureStore -----------------------------
(***************************************************************************)
(* Where a device keeps the account key (vault_store/src/secure_store.rs): *)
(* in memory behind a mutex, in a file per entry, or with native code      *)
(* behind callbacks.  The file one takes several steps for each call and   *)
(* locks nothing; a crash may come between any two.  Entries whose names   *)
(* differ only in characters path_of replaces share a file.                *)
(***************************************************************************)
CONSTANTS
  Ids,        \* names of entries
  PathOf,     \* the name whose file a name has
  Secrets,    \* contents, none of them empty
  Oversize,   \* those longer than max_secret_len of the callbacks
  Clients,    \* threads or processes that use the store
  Absent,     \* no entry
  Torn        \* the contents of a file half written, or cut short

ASSUME SecureStoreAssumption ==
  /\ PathOf \in [Ids -> Ids] /\ Oversize \subseteq Secrets
  /\ Absent \notin Secrets \cup {Torn} /\ Torn \notin Secrets

VARIABLES
  backend,   \* the implementation
  entry,     \* what is kept
  job,       \* per client, the call under way
  loaded,    \* per client, what its last call loaded, and should have
  stored,    \* per name, what the last store or delete of it asked for
  certain    \* per name: that call was done whole, alone, and nothing since

svars == <<backend, entry, job, loaded, stored, certain>>

Backends == {"memory", "file", "native"}
NoJob == [op |-> "none", step |-> 0, id |-> Absent, secret |-> Absent,
          solo |-> TRUE]
NotLoaded == [value |-> Absent, want |-> Absent, sure |-> FALSE]
Failed == "failed"

Where(id) == IF backend = "file" THEN PathOf[id] ELSE id
Uses(c, id) == job[c] # NoJob /\ Where(job[c].id) = Where(id)

\* A call begins.  Calls on one entry that overlap vouch for nothing.
Call(c, op, id, secret) ==
  LET crowd == {d \in Clients : Uses(d, id)}
  IN  /\ job[c] = NoJob
      /\ job' = [d \in Clients |->
                   IF d = c THEN [op |-> op, step |-> 1, id |-> id,
                                  secret |-> secret, solo |-> crowd = {}]
                   ELSE [job[d] EXCEPT !.solo = @ /\ d \notin crowd]]
      /\ loaded' = [loaded EXCEPT ![c] = NotLoaded]
      /\ UNCHANGED <<backend, entry, stored, certain>>

Ends(c) == job' = [job EXCEPT ![c] = NoJob]
Continues(c) == job' = [job EXCEPT ![c].step = 2]
InCall(c, op, step) == job[c].op = op /\ job[c].step = step

\* The entry is set; every other name of the same file now names it too.
Vouch(c, value, sure) ==
  /\ stored' = [stored EXCEPT ![job[c].id] = value]
  /\ certain' = [i \in Ids |->
       IF i = job[c].id THEN sure /\ job[c].solo
       ELSE certain[i] /\ Where(i) # Where(job[c].id)]

Put(c, value) == entry' = [entry EXCEPT ![Where(job[c].id)] = value]

\* The mutex of the memory, and one callback: a single step.
StoreAtOnce(c) ==
  /\ InCall(c, "store", 1) /\ backend # "file"
  /\ \/ Put(c, job[c].secret) /\ Vouch(c, job[c].secret, TRUE)
     \/ \* a code other than 0: whether anything was kept is not known
        /\ backend = "native"
        /\ Put(c, job[c].secret) \/ UNCHANGED entry
        /\ Vouch(c, job[c].secret, FALSE)
  /\ Ends(c) /\ UNCHANGED <<backend, loaded>>

\* fs::write truncates, or creates, and then writes.
Truncate(c) ==
  /\ InCall(c, "store", 1) /\ backend = "file"
  /\ Put(c, Torn) /\ Vouch(c, job[c].secret, FALSE)
  /\ Continues(c) /\ UNCHANGED <<backend, loaded>>

WriteFile(c) ==
  /\ InCall(c, "store", 2)
  /\ Put(c, job[c].secret) /\ Vouch(c, job[c].secret, TRUE)
  /\ Ends(c) /\ UNCHANGED <<backend, loaded>>

\* Mutant of Received: a secret longer than the buffer is cut to it.
ReceivedCut(value) == IF value \in Oversize THEN Torn ELSE value
\* What comes back through the buffer of the load callback.
Received(value) == IF value \in Oversize THEN Failed ELSE value

Loads(c, value) ==
  /\ loaded' = [loaded EXCEPT ![c] =
       [value |-> value, want |-> stored[job[c].id],
        sure |-> certain[job[c].id] /\ job[c].solo]]
  /\ Ends(c)
  /\ UNCHANGED <<backend, entry, stored, certain>>

Kept(c) == entry[Where(job[c].id)]

LoadAtOnce(c) ==
  /\ InCall(c, "load", 1) /\ backend # "file"
  /\ Loads(c, IF backend = "native" THEN Received(Kept(c)) ELSE Kept(c))

\* The file is looked for, and then read: an error if it went meanwhile.
LookForFile(c) ==
  /\ job[c].op \in {"load", "delete"} /\ job[c].step = 1 /\ backend = "file"
  /\ \/ Kept(c) # Absent /\ Continues(c) /\ UNCHANGED <<loaded, stored, certain>>
     \/ Kept(c) = Absent /\ job[c].op = "load" /\ Loads(c, Absent)
     \/ /\ Kept(c) = Absent /\ job[c].op = "delete"
        /\ Vouch(c, Absent, TRUE) /\ Ends(c) /\ UNCHANGED loaded
  /\ UNCHANGED <<backend, entry>>

ReadFile(c) ==
  /\ InCall(c, "load", 2)
  /\ Loads(c, IF Kept(c) = Absent THEN Failed ELSE Kept(c))

RemoveFile(c) ==
  /\ InCall(c, "delete", 2)
  /\ Put(c, Absent) /\ Vouch(c, Absent, TRUE)
  /\ Ends(c) /\ UNCHANGED <<backend, loaded>>

\* Native code may refuse, and reports an entry it does not have as well.
DeleteAtOnce(c) ==
  /\ InCall(c, "delete", 1) /\ backend # "file"
  /\ \/ Put(c, Absent) /\ Vouch(c, Absent, TRUE)
     \/ backend = "native" /\ UNCHANGED entry /\ Vouch(c, Absent, FALSE)
  /\ Ends(c) /\ UNCHANGED <<backend, loaded>>

\* The process ends inside a call, or a call on a file fails where it is.
Stops(c) ==
  /\ job[c] # NoJob /\ Ends(c)
  /\ UNCHANGED <<backend, entry, loaded, stored, certain>>

StoreInit ==
  /\ backend \in Backends
  /\ entry = [i \in Ids |-> Absent] /\ job = [c \in Clients |-> NoJob]
  /\ loaded = [c \in Clients |-> NotLoaded]
  /\ stored = [i \in Ids |-> Absent] /\ certain = [i \in Ids |-> TRUE]

StoreNext ==
  \E c \in Clients :
    \/ \E id \in Ids, s \in Secrets : Call(c, "store", id, s)
    \/ \E id \in Ids : Call(c, "load", id, Absent) \/ Call(c, "delete", id, Absent)
    \/ StoreAtOnce(c) \/ Truncate(c) \/ WriteFile(c)
    \/ LoadAtOnce(c) \/ LookForFile(c) \/ ReadFile(c)
    \/ RemoveFile(c) \/ DeleteAtOnce(c) \/ Stops(c)

StoreSpec == StoreInit /\ [][StoreNext]_svars

-----------------------------------------------------------------------------
\* Once a store or a delete of a name was done whole and alone, and until
\* another name of the same file is used, every load that nothing overlaps
\* returns exactly that: never a part of it, never something older, whatever
\* was torn, interrupted or refused before.  The exception is a secret too
\* long for the callbacks' buffer, which is an error (secure_store.rs:43-50,
\* 115-135, 196-235).
LoadsStored ==
  \A c \in Clients :
    loaded[c].sure =>
      \/ loaded[c].value = loaded[c].want
      \/ backend = "native" /\ loaded[c].want \in Oversize
           /\ loaded[c].value = Failed

-----------------------------------------------------------------------------
(* Inductive strengthenings, proved in PartsProofs.                        *)

JobType ==
  [op : {"none", "store", "load", "delete"}, step : {0, 1, 2},
   id : Ids \cup {Absent}, secret : Secrets \cup {Absent}, solo : BOOLEAN]
Contents == Secrets \cup {Absent, Torn}
LoadedType == [value : Contents \cup {Failed}, want : Contents, sure : BOOLEAN]

StoreTypeOK ==
  /\ backend \in Backends /\ entry \in [Ids -> Contents]
  /\ job \in [Clients -> JobType]
  /\ \A c \in Clients : job[c] # NoJob => job[c].op # "none" /\ job[c].id \in Ids
  /\ loaded \in [Clients -> LoadedType]
  /\ stored \in [Ids -> Contents] /\ certain \in [Ids -> BOOLEAN]

\* What is certain is what is kept; two calls on one entry are both known to
\* overlap; and nobody has removed the file of a load that nothing overlaps.
KeptInv ==
  /\ \A i \in Ids : certain[i] => entry[Where(i)] = stored[i]
  /\ \A c \in Clients : \A d \in Clients \ {c} :
       job[c] # NoJob /\ Uses(d, job[c].id) => ~job[c].solo
  /\ \A c \in Clients :
       InCall(c, "load", 2) /\ job[c].solo => Kept(c) # Absent
=============================================================================
