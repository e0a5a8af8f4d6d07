------------------------- MODULE HubIdentityProofs -------------------------
(***************************************************************************)
(* Theorems about HubIdentity: types, that memory and file agree unless    *)
(* somebody was told or a log says so, and that the promise of HubPromise  *)
(* is kept over failing writes and restarts.                               *)
(***************************************************************************)
EXTENDS HubIdentity, TLAPS

\* A generated id that was not written is nowhere in the file, and while the
\* process is down its configuration stands for the file.
Lasting ==
    /\ idLost => disk.hub_id = None
    /\ ~running => config = disk

HubInv == HubTypeOK /\ MemoryMatchesDisk /\ Lasting

LEMMA NoneIsNoId == None \notin HubIds
  BY HubAssumption DEF HubIds

LEMMA HubInitInv == HubInit => HubInv
<1> SUFFICES ASSUME HubInit PROVE HubInv
  OBVIOUS
<1>1. HubTypeOK
  BY DEF HubInit, HubTypeOK, NotAsked
<1>2. MemoryMatchesDisk /\ Lasting
  BY Zenon DEF HubInit, MemoryMatchesDisk, Lasting
<1> QED BY <1>1, <1>2 DEF HubInv

LEMMA BootInv ==
    ASSUME HubInv, NEW i \in HubIds, NEW ok \in BOOLEAN, Boot(i, ok)
    PROVE  HubInv'
<1>1. i # None
  BY NoneIsNoId
<1>2. CASE disk.hub_id # None
  BY <1>1, <1>2 DEF Boot, BootId, HubInv, HubTypeOK, Section, MemoryMatchesDisk,
                    Lasting, NotAsked
<1>3. CASE disk.hub_id = None
  <2>1. /\ disk' = IF ok THEN [disk EXCEPT !["hub_id"] = i] ELSE disk
        /\ config' = [disk EXCEPT !["hub_id"] = i]
        /\ idLost' = ~ok /\ nameLost' = FALSE
        /\ running' = TRUE /\ hubId' = i /\ told' = NotAsked
    BY <1>3 DEF Boot, Written
  <2>2. disk \in Section
    BY DEF HubInv, HubTypeOK
  <2>3. /\ config'.hub_id = i /\ config'.hub_display_name = disk.hub_display_name
        /\ config' \in Section /\ disk' \in Section
        /\ disk'.hub_display_name = disk.hub_display_name
        /\ ok => disk'.hub_id = i
        /\ ~ok => disk'.hub_id = None
    BY <2>1, <2>2, <1>3 DEF Section
  <2> QED BY <1>1, <2>1, <2>3
          DEF HubInv, HubTypeOK, MemoryMatchesDisk, Lasting, NotAsked
<1> QED BY <1>2, <1>3

LEMMA RenameInv ==
    ASSUME HubInv, NEW raw \in Requested, NEW ok \in BOOLEAN, Rename(raw, ok)
    PROVE  HubInv'
<1>1. raw \in Names
  BY DEF Rename, Accepted, Requested
<1>2. disk \in Section /\ config \in Section
  BY DEF HubInv, HubTypeOK
<1>3. /\ disk' = IF ok THEN [disk EXCEPT !["hub_display_name"] = raw] ELSE disk
      /\ config' = [config EXCEPT !["hub_display_name"] = raw]
      /\ told' = Identity(hubId, raw, ~ok) /\ nameLost' = ~ok
      /\ running /\ UNCHANGED <<running, hubId, idLost>>
  BY DEF Rename, Written, Warned
<1>4. /\ config'.hub_id = config.hub_id /\ config'.hub_display_name = raw
      /\ disk'.hub_id = disk.hub_id
      /\ ok => disk'.hub_display_name = raw
      /\ config' \in Section /\ disk' \in Section
  BY <1>1, <1>2, <1>3 DEF Section
<1>5. told' \in [hub_id: HubIds \union {None}, warning: BOOLEAN,
                 display_name: Names \union {DefaultName, None}]
  BY <1>1, <1>3 DEF Identity, Shown, HubInv, HubTypeOK
<1> QED BY <1>3, <1>4, <1>5 DEF HubInv, HubTypeOK, MemoryMatchesDisk, Lasting

LEMMA InterruptedInv ==
    ASSUME HubInv, NEW raw \in Requested, RenameInterrupted(raw)
    PROVE  HubInv'
<1>1. raw \in Names /\ disk \in Section
  BY DEF RenameInterrupted, Accepted, Requested, HubInv, HubTypeOK
<1>2. /\ disk' = [disk EXCEPT !["hub_display_name"] = raw]
      /\ config' = disk' /\ running' = FALSE /\ hubId' = None
      /\ UNCHANGED <<told, idLost, nameLost>>
  BY DEF RenameInterrupted, Written, lost
<1>3. disk' \in Section /\ disk'.hub_id = disk.hub_id
  BY <1>1, <1>2 DEF Section
<1> QED BY <1>2, <1>3 DEF HubInv, HubTypeOK, MemoryMatchesDisk, Lasting

LEMMA HubStepInv == HubInv /\ [HubNext]_hubVars => HubInv'
<1> SUFFICES ASSUME HubInv, [HubNext]_hubVars PROVE HubInv'
  OBVIOUS
<1>1. CASE UNCHANGED hubVars
  BY <1>1 DEF hubVars, lost, HubInv, HubTypeOK, MemoryMatchesDisk, Lasting
<1>2. CASE GetIdentity
  <2>1. told' \in [hub_id: HubIds \union {None}, warning: BOOLEAN,
                   display_name: Names \union {DefaultName, None}]
    BY <1>2 DEF GetIdentity, Identity, Shown, HubInv, HubTypeOK, Section
  <2> QED BY <1>2, <2>1 DEF GetIdentity, lost, HubInv, HubTypeOK, MemoryMatchesDisk, Lasting
<1>3. CASE Stop
  BY <1>3 DEF Stop, lost, HubInv, HubTypeOK, MemoryMatchesDisk, Lasting
<1> QED BY <1>1, <1>2, <1>3, BootInv, RenameInv, InterruptedInv DEF HubNext

LEMMA HubAlwaysInv == HubSpec => []HubInv
  BY HubInitInv, HubStepInv, PTL DEF HubSpec

THEOREM HubTypes == HubSpec => []HubTypeOK
  BY HubAlwaysInv, PTL DEF HubInv

\* Memory, file and answers agree unless a write failed.
THEOREM HubMemory == HubSpec => []MemoryMatchesDisk
  BY HubAlwaysInv, PTL DEF HubInv

-----------------------------------------------------------------------------
(* Refinement of HubPromise. *)

LEMMA PromiseInit == HubInit => Promise!Init
  BY DEF HubInit, Promise!Init, Section, NotAsked, Promise!NotAsked

\* A running process tells the id that lasts, if there is one.
LEMMA ToldId ==
    ASSUME HubInv, running
    PROVE  /\ hubId \in HubIds
           /\ disk.hub_id # None => hubId = disk.hub_id
  BY DEF HubInv, HubTypeOK, MemoryMatchesDisk, Lasting

LEMMA BootKeeps ==
    ASSUME HubInv, NEW i \in HubIds, NEW ok \in BOOLEAN, Boot(i, ok)
    PROVE  Promise!Next
<1>1. disk \in Section
  BY DEF HubInv, HubTypeOK
<1>2. /\ disk'.hub_display_name = disk.hub_display_name
      /\ disk'.hub_id \in HubIds \union {None}
      /\ disk.hub_id # None => disk'.hub_id = disk.hub_id
  <2>1. CASE disk.hub_id # None
    BY <1>1, <2>1 DEF Boot, Section
  <2>2. CASE disk.hub_id = None
    BY <1>1, <2>2 DEF Boot, Written, Section
  <2> QED BY <2>1, <2>2
<1>3. nameLost' = FALSE /\ told' = NotAsked
  BY DEF Boot
<1> QED BY <1>2, <1>3 DEF Promise!Next, Promise!Start, NotAsked, Promise!NotAsked

LEMMA RenameKeeps ==
    ASSUME HubInv, NEW raw \in Requested, NEW ok \in BOOLEAN, Rename(raw, ok)
    PROVE  Promise!Next
<1>1. raw \in Names /\ raw # None
  BY HubAssumption DEF Rename, Accepted, Requested
<1>2. /\ told'.hub_id = hubId /\ told'.display_name = raw
      /\ told'.warning = ~ok /\ nameLost' = ~ok
  BY <1>1 DEF Rename, Warned, Identity, Shown
<1>3. /\ disk'.hub_id = disk.hub_id
      /\ disk'.hub_display_name = IF ok THEN raw ELSE disk.hub_display_name
  BY DEF Rename, Written, HubInv, HubTypeOK, Section
<1>4. /\ hubId \in HubIds
      /\ disk.hub_id # None => hubId = disk.hub_id
  BY ToldId DEF Rename
<1>5. CASE ok
  <2>1. Promise!Accept(raw)
    BY <1>2, <1>3, <1>4, <1>5 DEF Promise!Accept, Promise!Told
  <2> QED BY <1>1, <2>1 DEF Promise!Next
<1>6. CASE ~ok
  <2>1. Promise!Warn(raw)
    BY <1>2, <1>3, <1>4, <1>6 DEF Promise!Warn, Promise!Told
  <2> QED BY <1>1, <2>1 DEF Promise!Next
<1> QED BY <1>5, <1>6

LEMMA InterruptedKeeps ==
    ASSUME HubInv, NEW raw \in Requested, RenameInterrupted(raw)
    PROVE  Promise!Next
<1>1. raw \in Names
  BY DEF RenameInterrupted, Accepted, Requested
<1>2. disk \in Section
  BY DEF HubInv, HubTypeOK
<1>3. /\ disk'.hub_id = disk.hub_id /\ disk'.hub_display_name = raw
      /\ UNCHANGED <<nameLost, told>>
  BY <1>2 DEF RenameInterrupted, Written, lost, Section
<1>4. Promise!Interrupted(raw)
  BY <1>3 DEF Promise!Interrupted
<1> QED BY <1>1, <1>4 DEF Promise!Next

LEMMA AskKeeps ==
    ASSUME HubInv, GetIdentity
    PROVE  Promise!Next
<1> DEFINE shown == Shown(config.hub_display_name)
<1>1. /\ told'.hub_id = hubId /\ told'.display_name = shown /\ told'.warning = FALSE
      /\ UNCHANGED <<disk, nameLost>>
  BY DEF GetIdentity, Identity, lost
<1>2. /\ hubId \in HubIds
      /\ disk.hub_id # None => hubId = disk.hub_id
  BY ToldId DEF GetIdentity
<1>3. shown \in Names \union {DefaultName}
  BY DEF HubInv, HubTypeOK, Section, Shown
<1>4. ~nameLost => shown = Promise!Shown(disk.hub_display_name)
  BY DEF GetIdentity, HubInv, MemoryMatchesDisk, Shown, Promise!Shown
<1>5. Promise!Ask
  BY <1>1, <1>2, <1>3, <1>4 DEF Promise!Ask, Promise!Told
<1> QED BY <1>5 DEF Promise!Next

\* Every step of the Hub is one of the promise, or changes nothing in it.
LEMMA PromiseStep ==
    HubInv /\ [HubNext]_hubVars => [Promise!Next]_(Promise!vars)
<1> SUFFICES ASSUME HubInv, [HubNext]_hubVars
             PROVE  Promise!Next \/ UNCHANGED Promise!vars
  OBVIOUS
<1>1. CASE UNCHANGED hubVars
  BY <1>1 DEF hubVars, lost, Promise!vars
<1>2. CASE Stop
  BY <1>2 DEF Stop, lost, Promise!vars
<1> QED BY <1>1, <1>2, BootKeeps, RenameKeeps, InterruptedKeeps, AskKeeps DEF HubNext

\* The Hub, with its process, memory and file, keeps the promise.
THEOREM HubKeepsPromise == HubSpec => KeepsPromise
  BY PromiseInit, PromiseStep, HubAlwaysInv, PTL DEF HubSpec, KeepsPromise, Promise!Spec
=============================================================================
