------------------------------ MODULE AtomicGraph ------------------------------
(***************************************************************************)
(* What Load and Save of internal/depgraph promise their callers: the      *)
(* graph file is one register.  A Load returns the value of the register   *)
(* at one moment between its call and its return; a Save replaces the      *)
(* value at one such moment or, when it fails, does not.  A process that   *)
(* dies in the middle of a Save may cost the environment its graph: the    *)
(* register is then empty.  A process that may not take the file lock (one *)
(* of Unlocked) may also see an empty graph at any time.                   *)
(***************************************************************************)
CONSTANTS Client, Value, Empty, Unlocked

VARIABLES reg, st, val

vars == <<reg, st, val>>

Init ==
  /\ reg = Empty
  /\ st = [c \in Client |-> "idle"]
  /\ val = [c \in Client |-> Empty]

BeginLoad(c) ==
  /\ st[c] = "idle"
  /\ st' = [st EXCEPT ![c] = "loading"]
  /\ UNCHANGED <<reg, val>>

Read(c) ==
  /\ st[c] = "loading"
  /\ st' = [st EXCEPT ![c] = "loaded"]
  /\ \E v \in {reg} \cup (IF c \in Unlocked THEN {Empty} ELSE {}) :
       val' = [val EXCEPT ![c] = v]
  /\ UNCHANGED reg

BeginSave(c, v) ==
  /\ st[c] = "idle"
  /\ st' = [st EXCEPT ![c] = "saving"]
  /\ val' = [val EXCEPT ![c] = v]
  /\ UNCHANGED reg

Write(c) ==
  /\ st[c] = "saving"
  /\ st' = [st EXCEPT ![c] = "saved"]
  /\ reg' = val[c]
  /\ UNCHANGED val

(* The call returns, a Save that wrote nothing with an error.              *)
Return(c) ==
  /\ st[c] \in {"loaded", "saved", "saving"}
  /\ st' = [st EXCEPT ![c] = "idle"]
  /\ val' = [val EXCEPT ![c] = Empty]
  /\ UNCHANGED reg

Die(c) ==
  /\ st[c] # "idle"
  /\ reg' \in {reg} \cup (IF st[c] = "saved" THEN {Empty} ELSE {})
  /\ st' = [st EXCEPT ![c] = "idle"]
  /\ val' = [val EXCEPT ![c] = Empty]

Next ==
  \E c \in Client :
    \/ BeginLoad(c) \/ Read(c) \/ Write(c) \/ Return(c) \/ Die(c)
    \/ \E v \in Value : BeginSave(c, v)

Spec == Init /\ [][Next]_vars
=============================================================================
