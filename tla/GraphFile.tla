------------------------------- MODULE GraphFile -------------------------------
(***************************************************************************)
(* Load and Save of internal/depgraph/graph.go on the level of the system  *)
(* calls they make: the advisory lock of internal/fs/flock.go on           *)
(* <graph>.lock, and the graph file itself, which os.WriteFile truncates   *)
(* before it writes.  A process that may not create the lock file in the   *)
(* environment (Unprivileged) goes on without a lock in Load, since Load   *)
(* ignores the error, and returns the error in Save.                       *)
(***************************************************************************)
EXTENDS Integers

CONSTANTS
  Client,        \* fpm processes
  Unprivileged,  \* those whose open of the lock file fails
  Value,         \* graphs
  Empty,         \* the empty graph, what Load makes of a file it cannot parse
  Torn,          \* the content of a truncated or half-written file
  Nobody

ASSUME FileAssumption ==
  /\ Unprivileged \subseteq Client
  /\ Empty \in Value
  /\ Torn \notin Value
  /\ Nobody \notin Client

VARIABLES
  file,     \* content of the graph file
  writer,   \* holder of the exclusive lock
  readers,  \* holders of the shared lock
  step,     \* what every process is doing
  buf       \* the graph it has loaded, or is saving

vars == <<file, writer, readers, step, buf>>

Steps == {"idle", "load_wait", "load_read", "load_done",
          "save_wait", "save_open", "save_write", "save_done"}

TypeOK ==
  /\ file \in Value \cup {Torn}
  /\ writer \in Client \cup {Nobody}
  /\ readers \in SUBSET Client
  /\ step \in [Client -> Steps]
  /\ buf \in [Client -> Value]

Init ==
  /\ file = Empty
  /\ writer = Nobody
  /\ readers = {}
  /\ step = [c \in Client |-> "idle"]
  /\ buf = [c \in Client |-> Empty]

---------------------------------------------------------------------------
(* The file taken as it is (a mutant).                                     *)
Unparsed == file

(* What a reader makes of the file: json.Unmarshal decodes nothing from an *)
(* incomplete document and its error is ignored.                           *)
Parsed == IF file = Torn THEN Empty ELSE file

BeginLoad(c) ==
  /\ step[c] = "idle"
  /\ step' = [step EXCEPT ![c] = "load_wait"]
  /\ UNCHANGED <<file, writer, readers, buf>>

(* The lock given back before the file is read, as in the version before   *)
(* the repair CHANGELOG.md:24 records (a mutant).                          *)
ReadAfterUnlock(c) ==
  /\ step[c] = "load_wait"
  /\ c \notin Unprivileged
  /\ writer = Nobody
  /\ step' = [step EXCEPT ![c] = "load_read"]
  /\ UNCHANGED <<file, writer, readers, buf>>

(* LockFileShared: flock(LOCK_SH) blocks while there is a writer.          *)
LockShared(c) ==
  /\ step[c] = "load_wait"
  /\ c \notin Unprivileged
  /\ writer = Nobody
  /\ readers' = readers \cup {c}
  /\ step' = [step EXCEPT ![c] = "load_read"]
  /\ UNCHANGED <<file, writer, buf>>

LoadUnlocked(c) ==
  /\ step[c] = "load_wait"
  /\ c \in Unprivileged
  /\ step' = [step EXCEPT ![c] = "load_read"]
  /\ UNCHANGED <<file, writer, readers, buf>>

ReadFile(c) ==
  /\ step[c] = "load_read"
  /\ buf' = [buf EXCEPT ![c] = Parsed]
  /\ step' = [step EXCEPT ![c] = "load_done"]
  /\ UNCHANGED <<file, writer, readers>>

BeginSave(c, v) ==
  /\ step[c] = "idle"
  /\ step' = [step EXCEPT ![c] = "save_wait"]
  /\ buf' = [buf EXCEPT ![c] = v]
  /\ UNCHANGED <<file, writer, readers>>

Busy == writer # Nobody \/ readers # {}

(* LockFile: flock(LOCK_EX|LOCK_NB), tried every 100 ms.                   *)
LockExclusive(c) ==
  /\ step[c] = "save_wait"
  /\ c \notin Unprivileged
  /\ ~Busy
  /\ writer' = c
  /\ step' = [step EXCEPT ![c] = "save_open"]
  /\ UNCHANGED <<file, readers, buf>>

(* A wait for the lock without a limit (a mutant).                         *)
GiveUpOpening(c) ==
  /\ step[c] = "save_wait"
  /\ c \in Unprivileged
  /\ step' = [step EXCEPT ![c] = "idle"]
  /\ buf' = [buf EXCEPT ![c] = Empty]
  /\ UNCHANGED <<file, writer, readers>>

(* Save returns an error: the lock file cannot be opened, or the lock was  *)
(* still taken at the last try after 30 s.                                 *)
GiveUp(c) ==
  /\ step[c] = "save_wait"
  /\ c \in Unprivileged \/ Busy
  /\ step' = [step EXCEPT ![c] = "idle"]
  /\ buf' = [buf EXCEPT ![c] = Empty]
  /\ UNCHANGED <<file, writer, readers>>

(* os.WriteFile: open with O_TRUNC, then write.                            *)
Truncate(c) ==
  /\ step[c] = "save_open"
  /\ file' = Torn
  /\ step' = [step EXCEPT ![c] = "save_write"]
  /\ UNCHANGED <<writer, readers, buf>>

WriteFile(c) ==
  /\ step[c] = "save_write"
  /\ file' = buf[c]
  /\ step' = [step EXCEPT ![c] = "save_done"]
  /\ UNCHANGED <<writer, readers, buf>>

(* The end of a process, or of a call: its locks are gone.                 *)
Release(c) ==
  /\ writer' = IF writer = c THEN Nobody ELSE writer
  /\ readers' = readers \ {c}
  /\ step' = [step EXCEPT ![c] = "idle"]
  /\ buf' = [buf EXCEPT ![c] = Empty]

(* UnlockFile and return.                                                  *)
Unlock(c) ==
  /\ step[c] \in {"load_done", "save_done"}
  /\ Release(c)
  /\ UNCHANGED file

Die(c) ==
  /\ step[c] # "idle"
  /\ Release(c)
  /\ UNCHANGED file

Progress(c) ==
  \/ LockShared(c) \/ LoadUnlocked(c) \/ ReadFile(c)
  \/ LockExclusive(c) \/ GiveUp(c) \/ Truncate(c) \/ WriteFile(c)
  \/ Unlock(c)

Next ==
  \E c \in Client :
    \/ BeginLoad(c) \/ Progress(c) \/ Die(c)
    \/ \E v \in Value : BeginSave(c, v)

Spec == Init /\ [][Next]_vars

(* A process in Load or Save is scheduled.                                 *)
FairSpec == Spec /\ \A c \in Client : WF_vars(Progress(c))

---------------------------------------------------------------------------
(* The register the file implements: once the file is truncated the new    *)
(* value is in place, since nobody can look before it is written.          *)
Register ==
  IF \E c \in Client : step[c] = "save_write"
  THEN buf[CHOOSE c \in Client : step[c] = "save_write"]
  ELSE Parsed

CallOf ==
  [s \in Steps |->
     CASE s = "idle" -> "idle"
       [] s \in {"load_wait", "load_read"} -> "loading"
       [] s = "load_done" -> "loaded"
       [] s \in {"save_wait", "save_open"} -> "saving"
       [] s \in {"save_write", "save_done"} -> "saved"]

CallState == [c \in Client |-> CallOf[step[c]]]

(* The locked file is an atomic register: no Load sees a Save half done    *)
(* ("to prevent reading partially written data from a concurrent Save"),   *)
(* but for the Loads that go on without a lock, which may see no graph.    *)
Atomic == INSTANCE AtomicGraph
            WITH reg <- Register, st <- CallState, val <- buf, Unlocked <- Unprivileged

AtomicSpec == Atomic!Spec

(* Readers and a writer never hold the lock together, and whoever is at    *)
(* the file holds it.                                                      *)
LockInv ==
  /\ writer # Nobody => readers = {}
  /\ \A c \in Client :
       /\ step[c] \in {"save_open", "save_write", "save_done"} <=> writer = c
       /\ step[c] \in {"load_read", "load_done"} /\ c \notin Unprivileged
            <=> c \in readers

(* A Save always returns: it gets the lock or gives up.                    *)
SaveReturns == \A c \in Client : step[c] = "save_wait" ~> step[c] = "idle"
=============================================================================
