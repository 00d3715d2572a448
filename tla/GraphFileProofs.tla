--------------------------- MODULE GraphFileProofs ---------------------------
(***************************************************************************)
(* Theorems about GraphFile, for every number of processes and graphs.     *)
(***************************************************************************)
EXTENDS GraphFile, TLAPS

(* The types hold at first.                                                *)
LEMMA TypeInit == Init => TypeOK
  BY FileAssumption DEF FileAssumption, Init, TypeOK, Steps

(* Every step keeps them.                                                  *)
LEMMA TypeNext ==
  ASSUME TypeOK, [Next]_vars
  PROVE  TypeOK'
<1>1. ASSUME NEW c \in Client, BeginLoad(c) \/ LockShared(c) \/ LoadUnlocked(c)
      PROVE  TypeOK'
  BY <1>1 DEF TypeOK, Steps, BeginLoad, LockShared, LoadUnlocked
<1>2. ASSUME NEW c \in Client, ReadFile(c)
      PROVE  TypeOK'
  <2>1. Parsed \in Value
    BY FileAssumption DEF FileAssumption, TypeOK, Parsed
  <2> QED
    BY <1>2, <2>1 DEF TypeOK, Steps, ReadFile
<1>3. ASSUME NEW c \in Client, NEW v \in Value, BeginSave(c, v)
      PROVE  TypeOK'
  BY <1>3 DEF TypeOK, Steps, BeginSave
<1>4. ASSUME NEW c \in Client, LockExclusive(c) \/ Truncate(c) \/ WriteFile(c)
      PROVE  TypeOK'
  BY <1>4 DEF TypeOK, Steps, LockExclusive, Truncate, WriteFile
<1>5. ASSUME NEW c \in Client, GiveUp(c) \/ Unlock(c) \/ Die(c)
      PROVE  TypeOK'
  BY <1>5, FileAssumption DEF FileAssumption, TypeOK, Steps, GiveUp, Unlock, Die, Release
<1>6. CASE UNCHANGED vars
  BY <1>6 DEF vars, TypeOK
<1> QED
  BY <1>1, <1>2, <1>3, <1>4, <1>5, <1>6 DEF Next, Progress

(* Whatever is read from a half-written file is a graph.                   *)
THEOREM FileTypeCorrect == Spec => []TypeOK
<1>1. TypeOK /\ [Next]_vars => TypeOK'
  BY TypeNext
<1> QED
  BY TypeInit, <1>1, PTL DEF Spec

---------------------------------------------------------------------------
(* While a Save is between its truncation and its write the file is torn:  *)
(* a death there leaves a file that reads as the empty graph.              *)
TornInv == \A c \in Client : step[c] = "save_write" => file = Torn

FileInv == TypeOK /\ LockInv /\ TornInv

(* The invariant of the file holds at first.                               *)
LEMMA FileInit == Init => FileInv
<1>1. Init => LockInv /\ TornInv
  BY FileAssumption DEF FileAssumption, Init, LockInv, TornInv
<1> QED
  BY <1>1, TypeInit DEF FileInv

(* The lock invariant is inductive.                                        *)
LEMMA LockInvNext ==
  ASSUME TypeOK, LockInv, [Next]_vars
  PROVE  LockInv'
<1>1. ASSUME NEW c \in Client, BeginLoad(c) \/ LoadUnlocked(c) \/ GiveUp(c)
      PROVE  LockInv'
  BY <1>1 DEF TypeOK, LockInv, BeginLoad, LoadUnlocked, GiveUp
<1>2. ASSUME NEW c \in Client, LockShared(c) \/ ReadFile(c)
      PROVE  LockInv'
  BY <1>2 DEF TypeOK, LockInv, LockShared, ReadFile
<1>3. ASSUME NEW c \in Client, NEW v \in Value, BeginSave(c, v)
      PROVE  LockInv'
  BY <1>3 DEF TypeOK, LockInv, BeginSave
<1>4. ASSUME NEW c \in Client, LockExclusive(c)
      PROVE  LockInv'
  BY <1>4, FileAssumption DEF FileAssumption, TypeOK, LockInv, LockExclusive, Busy
<1>5. ASSUME NEW c \in Client, Truncate(c) \/ WriteFile(c)
      PROVE  LockInv'
  BY <1>5 DEF TypeOK, LockInv, Truncate, WriteFile
<1>6. ASSUME NEW c \in Client, Unlock(c) \/ Die(c)
      PROVE  LockInv'
  BY <1>6, FileAssumption DEF FileAssumption, TypeOK, LockInv, Unlock, Die, Release
<1>7. CASE UNCHANGED vars
  BY <1>7 DEF vars, LockInv
<1> QED
  BY <1>1, <1>2, <1>3, <1>4, <1>5, <1>6, <1>7 DEF Next, Progress

(* So is the invariant of the file.                                        *)
LEMMA FileNext ==
  ASSUME FileInv, [Next]_vars
  PROVE  FileInv'
<1>1. TypeOK' /\ LockInv'
  BY TypeNext, LockInvNext DEF FileInv
<1>2. TornInv'
  <2>1. ASSUME NEW c \in Client, Truncate(c) \/ WriteFile(c)
        PROVE  TornInv'
    BY <2>1 DEF FileInv, TypeOK, LockInv, TornInv, Truncate, WriteFile
  <2>2. ASSUME NEW c \in Client,
               \/ BeginLoad(c) \/ LockShared(c) \/ LoadUnlocked(c) \/ ReadFile(c)
               \/ LockExclusive(c) \/ GiveUp(c) \/ Unlock(c) \/ Die(c)
               \/ \E v \in Value : BeginSave(c, v)
        PROVE  TornInv'
    BY <2>2 DEF FileInv, TypeOK, TornInv, BeginLoad, LockShared, LoadUnlocked, ReadFile,
                LockExclusive, GiveUp, Unlock, Die, Release, BeginSave
  <2>3. CASE UNCHANGED vars
    BY <2>3 DEF FileInv, vars, TornInv
  <2> QED
    BY <2>1, <2>2, <2>3 DEF Next, Progress
<1> QED
  BY <1>1, <1>2 DEF FileInv

(* Hence it holds throughout.                                              *)
LEMMA FileInvariant == Spec => []FileInv
<1>1. FileInv /\ [Next]_vars => FileInv'
  BY FileNext
<1> QED
  BY FileInit, <1>1, PTL DEF Spec

(* At most one process is at the file to write it and then no other that   *)
(* locks reads it.                                                         *)
THEOREM FileLocked == Spec => []LockInv
<1>1. FileInv => LockInv
  BY DEF FileInv
<1> QED
  BY <1>1, FileInvariant, PTL

---------------------------------------------------------------------------
(* The refinement                                                          *)

(* While a Save has truncated the file, the register is what it will       *)
(* write.                                                                  *)
LEMMA RegisterSaving ==
  ASSUME FileInv, NEW c \in Client, step[c] = "save_write"
  PROVE  Register = buf[c]
<1>1. \A d \in Client : step[d] = "save_write" => d = c
  BY DEF FileInv, LockInv
<1>2. (CHOOSE d \in Client : step[d] = "save_write") = c
  BY <1>1
<1> QED
  BY <1>2 DEF Register

(* Otherwise it is what a reader makes of the file.                        *)
LEMMA RegisterIdle ==
  ASSUME \A c \in Client : step[c] # "save_write"
  PROVE  Register = Parsed
  BY DEF Register

(* A step that leaves the file and the writers' buffers alone leaves the   *)
(* register alone.                                                         *)
LEMMA RegisterUnchanged ==
  ASSUME FileInv, FileInv', file' = file,
         \A d \in Client : step[d] = "save_write" <=> step'[d] = "save_write",
         \A d \in Client : step[d] = "save_write" => buf'[d] = buf[d]
  PROVE  Register' = Register
<1>1. CASE \E d \in Client : step[d] = "save_write"
  <2>1. PICK d \in Client : step[d] = "save_write"
    BY <1>1
  <2>2. step'[d] = "save_write"
    BY <2>1
  <2>3. \A e \in Client : step'[e] = "save_write" => e = d
    BY <2>2 DEF FileInv, LockInv
  <2>4. (CHOOSE e \in Client : step'[e] = "save_write") = d
    BY <2>2, <2>3
  <2>5. Register' = buf'[d]
    BY <2>2, <2>4 DEF Register
  <2> QED
    BY <2>1, <2>5, RegisterSaving
<1>2. CASE \A d \in Client : step[d] # "save_write"
  <2>1. \A d \in Client : step'[d] # "save_write"
    BY <1>2
  <2>2. Register' = Parsed'
    BY <2>1 DEF Register
  <2> QED
    BY <1>2, <2>2, RegisterIdle DEF Parsed
<1> QED
  BY <1>1, <1>2

(* The abstract state of every step of a call.                             *)
LEMMA CallOfValues ==
  /\ CallOf["idle"] = "idle"
  /\ CallOf["load_wait"] = "loading" /\ CallOf["load_read"] = "loading"
  /\ CallOf["load_done"] = "loaded"
  /\ CallOf["save_wait"] = "saving" /\ CallOf["save_open"] = "saving"
  /\ CallOf["save_write"] = "saved" /\ CallOf["save_done"] = "saved"
  /\ \A s \in Steps : CallOf[s] = "idle" => s = "idle"
  BY DEF CallOf, Steps

AbsVars == <<Register, CallState, buf>>

(* Every step of the file is a step of the register or none.               *)
LEMMA AtomicStep ==
  ASSUME FileInv, FileInv', [Next]_vars
  PROVE  [Atomic!Next]_AbsVars
<1> USE DEF AbsVars
<1>1. ASSUME NEW c \in Client, BeginLoad(c)
      PROVE  Atomic!BeginLoad(c)
  <2>1. step[c] = "idle" /\ step' = [step EXCEPT ![c] = "load_wait"] /\ buf' = buf /\ file' = file
    BY <1>1 DEF BeginLoad
  <2>2. Register' = Register
    BY <2>1, RegisterUnchanged DEF FileInv, TypeOK
  <2>3. CallState[c] = CallOf["idle"] /\ CallState' = [CallState EXCEPT ![c] = CallOf["load_wait"]]
    BY <2>1 DEF FileInv, TypeOK, CallState
  <2> QED
    BY <2>1, <2>2, <2>3, CallOfValues DEF Atomic!BeginLoad
<1>2. ASSUME NEW c \in Client, LockShared(c) \/ LoadUnlocked(c)
      PROVE  UNCHANGED AbsVars
  <2>1. step[c] = "load_wait" /\ step' = [step EXCEPT ![c] = "load_read"] /\ buf' = buf /\ file' = file
    BY <1>2 DEF LockShared, LoadUnlocked
  <2>2. Register' = Register
    BY <2>1, RegisterUnchanged DEF FileInv, TypeOK
  <2>3. CallState[c] = CallOf["load_wait"] /\ CallState' = [CallState EXCEPT ![c] = CallOf["load_read"]]
    BY <2>1 DEF FileInv, TypeOK, CallState
  <2>4. CallState' = CallState
    BY <2>3, CallOfValues DEF CallState
  <2> QED
    BY <2>1, <2>2, <2>4
<1>3. ASSUME NEW c \in Client, ReadFile(c)
      PROVE  Atomic!Read(c)
  <2>1. /\ step[c] = "load_read" /\ step' = [step EXCEPT ![c] = "load_done"]
        /\ buf' = [buf EXCEPT ![c] = Parsed] /\ file' = file
    BY <1>3 DEF ReadFile
  <2>2. Parsed \in {Register} \cup (IF c \in Unprivileged THEN {Empty} ELSE {})
    <3>1. CASE \A d \in Client : step[d] # "save_write"
      BY <3>1, RegisterIdle
    <3>2. CASE \E d \in Client : step[d] = "save_write"
      <4>1. file = Torn
        BY <3>2 DEF FileInv, TornInv
      <4>2. c \in Unprivileged
        BY <2>1, <3>2, FileAssumption DEF FileAssumption, FileInv, LockInv
      <4> QED
        BY <4>1, <4>2 DEF Parsed
    <3> QED
      BY <3>1, <3>2
  <2>3. \E v \in {Register} \cup (IF c \in Unprivileged THEN {Empty} ELSE {}) :
          buf' = [buf EXCEPT ![c] = v]
    BY <2>1, <2>2
  <2>4. Register' = Register
    BY <2>1, RegisterUnchanged DEF FileInv, TypeOK
  <2>5. CallState[c] = CallOf["load_read"] /\ CallState' = [CallState EXCEPT ![c] = CallOf["load_done"]]
    BY <2>1 DEF FileInv, TypeOK, CallState
  <2> QED
    BY <2>1, <2>3, <2>4, <2>5, CallOfValues DEF Atomic!Read
<1>4. ASSUME NEW c \in Client, NEW v \in Value, BeginSave(c, v)
      PROVE  Atomic!BeginSave(c, v)
  <2>1. /\ step[c] = "idle" /\ step' = [step EXCEPT ![c] = "save_wait"]
        /\ buf' = [buf EXCEPT ![c] = v] /\ file' = file
    BY <1>4 DEF BeginSave
  <2>2. Register' = Register
    BY <2>1, RegisterUnchanged DEF FileInv, TypeOK
  <2>3. CallState[c] = CallOf["idle"] /\ CallState' = [CallState EXCEPT ![c] = CallOf["save_wait"]]
    BY <2>1 DEF FileInv, TypeOK, CallState
  <2> QED
    BY <2>1, <2>2, <2>3, CallOfValues DEF Atomic!BeginSave
<1>5. ASSUME NEW c \in Client, LockExclusive(c)
      PROVE  UNCHANGED AbsVars
  <2>1. step[c] = "save_wait" /\ step' = [step EXCEPT ![c] = "save_open"] /\ buf' = buf /\ file' = file
    BY <1>5 DEF LockExclusive
  <2>2. Register' = Register
    BY <2>1, RegisterUnchanged DEF FileInv, TypeOK
  <2>3. CallState[c] = CallOf["save_wait"] /\ CallState' = [CallState EXCEPT ![c] = CallOf["save_open"]]
    BY <2>1 DEF FileInv, TypeOK, CallState
  <2>4. CallState' = CallState
    BY <2>3, CallOfValues DEF CallState
  <2> QED
    BY <2>1, <2>2, <2>4
<1>6. ASSUME NEW c \in Client, GiveUp(c)
      PROVE  Atomic!Return(c)
  <2>1. /\ step[c] = "save_wait" /\ step' = [step EXCEPT ![c] = "idle"]
        /\ buf' = [buf EXCEPT ![c] = Empty] /\ file' = file
    BY <1>6 DEF GiveUp
  <2>2. Register' = Register
    BY <2>1, RegisterUnchanged DEF FileInv, TypeOK
  <2>3. CallState[c] = CallOf["save_wait"] /\ CallState' = [CallState EXCEPT ![c] = CallOf["idle"]]
    BY <2>1 DEF FileInv, TypeOK, CallState
  <2> QED
    BY <2>1, <2>2, <2>3, CallOfValues DEF Atomic!Return
<1>7. ASSUME NEW c \in Client, Truncate(c)
      PROVE  Atomic!Write(c)
  <2>1. step[c] = "save_open" /\ step' = [step EXCEPT ![c] = "save_write"] /\ buf' = buf
    BY <1>7 DEF Truncate
  <2>2. step'[c] = "save_write"
    BY <2>1 DEF FileInv, TypeOK
  <2>3. \A d \in Client : step'[d] = "save_write" => d = c
    BY <2>2 DEF FileInv, LockInv
  <2>4. (CHOOSE d \in Client : step'[d] = "save_write") = c
    BY <2>2, <2>3
  <2>5. Register' = buf[c]
    BY <2>1, <2>2, <2>4 DEF Register
  <2>6. CallState[c] = CallOf["save_open"] /\ CallState' = [CallState EXCEPT ![c] = CallOf["save_write"]]
    BY <2>1 DEF FileInv, TypeOK, CallState
  <2> QED
    BY <2>1, <2>5, <2>6, CallOfValues DEF Atomic!Write
<1>8. ASSUME NEW c \in Client, WriteFile(c)
      PROVE  UNCHANGED AbsVars
  <2>1. /\ step[c] = "save_write" /\ step' = [step EXCEPT ![c] = "save_done"]
        /\ buf' = buf /\ file' = buf[c]
    BY <1>8 DEF WriteFile
  <2>2. Register = buf[c]
    BY <2>1, RegisterSaving
  <2>3. \A d \in Client : step'[d] # "save_write"
    <3>1. \A d \in Client : step[d] = "save_write" => d = c
      BY <2>1 DEF FileInv, LockInv
    <3> QED
      BY <2>1, <3>1 DEF FileInv, TypeOK
  <2>4. Register' = Parsed'
    BY <2>3 DEF Register
  <2>5. Parsed' = buf[c]
    BY <2>1, FileAssumption DEF FileAssumption, FileInv, TypeOK, Parsed
  <2>6. CallState[c] = CallOf["save_write"] /\ CallState' = [CallState EXCEPT ![c] = CallOf["save_done"]]
    BY <2>1 DEF FileInv, TypeOK, CallState
  <2>7. CallState' = CallState
    BY <2>6, CallOfValues DEF CallState
  <2> QED
    BY <2>1, <2>2, <2>4, <2>5, <2>7
<1>9. ASSUME NEW c \in Client, Unlock(c)
      PROVE  Atomic!Return(c)
  <2>1. /\ step[c] \in {"load_done", "save_done"} /\ step' = [step EXCEPT ![c] = "idle"]
        /\ buf' = [buf EXCEPT ![c] = Empty] /\ file' = file
    BY <1>9 DEF Unlock, Release
  <2>2. Register' = Register
    BY <2>1, RegisterUnchanged DEF FileInv, TypeOK
  <2>3. /\ CallState[c] \in {CallOf["load_done"], CallOf["save_done"]}
        /\ CallState' = [CallState EXCEPT ![c] = CallOf["idle"]]
    BY <2>1 DEF FileInv, TypeOK, CallState
  <2> QED
    BY <2>1, <2>2, <2>3, CallOfValues DEF Atomic!Return
<1>10. ASSUME NEW c \in Client, Die(c)
       PROVE  Atomic!Die(c)
  <2>1. /\ step[c] # "idle" /\ step' = [step EXCEPT ![c] = "idle"]
        /\ buf' = [buf EXCEPT ![c] = Empty] /\ file' = file
    BY <1>10 DEF Die, Release
  <2>2. step[c] \in Steps
    BY DEF FileInv, TypeOK
  <2>3. CallState[c] # "idle" /\ CallState' = [CallState EXCEPT ![c] = "idle"]
    <3>1. CallState[c] = CallOf[step[c]] /\ CallState' = [CallState EXCEPT ![c] = CallOf["idle"]]
      BY <2>1 DEF FileInv, TypeOK, CallState
    <3> QED
      BY <2>1, <2>2, <3>1, CallOfValues
  <2>4. CASE step[c] = "save_write"
    <3>1. file = Torn /\ \A d \in Client : step[d] = "save_write" => d = c
      BY <2>4 DEF FileInv, TornInv, LockInv
    <3>2. \A d \in Client : step'[d] # "save_write"
      BY <2>1, <3>1 DEF FileInv, TypeOK
    <3>3. Register' = Parsed'
      BY <3>2 DEF Register
    <3>4. Register' = Empty
      BY <2>1, <3>1, <3>3 DEF Parsed
    <3>5. CallState[c] = "saved"
      BY <2>4, CallOfValues DEF CallState
    <3> QED
      BY <2>1, <2>3, <3>4, <3>5 DEF Atomic!Die
  <2>5. CASE step[c] # "save_write"
    <3>1. Register' = Register
      BY <2>1, <2>5, RegisterUnchanged DEF FileInv, TypeOK
    <3> QED
      BY <2>1, <2>3, <3>1 DEF Atomic!Die
  <2> QED
    BY <2>4, <2>5
<1>11. CASE UNCHANGED vars
  <2>1. step' = step /\ buf' = buf /\ file' = file
    BY <1>11 DEF vars
  <2>2. Register' = Register
    BY <2>1, RegisterUnchanged
  <2>3. CallState' = CallState
    BY <2>1 DEF CallState
  <2> QED
    BY <2>1, <2>2, <2>3
<1> QED
  BY <1>1, <1>2, <1>3, <1>4, <1>5, <1>6, <1>7, <1>8, <1>9, <1>10, <1>11
  DEF Next, Progress, Atomic!Next

(* Load and Save implement the atomic register: however many processes     *)
(* call them and die in them, no Load returns a graph that nobody saved    *)
(* but the empty one, and none misses a Save that returned.                *)
THEOREM FileIsAtomic == Spec => AtomicSpec
<1>1. Init => Atomic!Init
  <2>1. ASSUME Init PROVE Atomic!Init
    <3>1. /\ file = Empty /\ buf = [c \in Client |-> Empty]
          /\ \A c \in Client : step[c] = "idle"
      BY <2>1 DEF Init
    <3>2. Register = Empty
      BY <3>1, RegisterIdle DEF Parsed
    <3>3. CallState = [c \in Client |-> "idle"]
      BY <3>1, CallOfValues DEF CallState
    <3> QED
      BY <3>1, <3>2, <3>3 DEF Atomic!Init
  <2> QED
    BY <2>1
<1>2. FileInv /\ FileInv' /\ [Next]_vars => [Atomic!Next]_(Atomic!vars)
  BY AtomicStep DEF Atomic!vars, AbsVars
<1> QED
  BY <1>1, <1>2, FileInvariant, PTL DEF Spec, AtomicSpec, Atomic!Spec
=============================================================================
