---------------------------- MODULE HubIdentity ----------------------------
(***************************************************************************)
(* The identity of a Hub in app/routers/hub.py: its id and display name in *)
(* the process's configuration and in the configuration file, over writes  *)
(* that fail and restarts at any moment, and the requests that read and    *)
(* change them.                                                            *)
(*                                                                         *)
(* update_mycroft_config writes the file; a failure is caught, and the     *)
(* configuration in memory changes whether the file did or not.  Whether   *)
(* the file can be written is chosen at every write.                       *)
(***************************************************************************)
CONSTANTS
    Names,          \* display names of 1..128 characters, stripped
    Blank,          \* a display name of spaces, or of none
    TooLong,        \* a display name of more than 128 characters
    DefaultName,    \* "Neon Hub"
    Adjectives, Nouns,
    None            \* absent or null

ASSUME HubAssumption ==
    /\ DefaultName \notin {None, Blank, TooLong}
    /\ None \notin Names
    /\ None \notin Adjectives \X Adjectives \X Nouns
    /\ Names \intersect {Blank, TooLong} = {}

VARIABLES
    running,        \* the process is up and its modules are imported
    hubId,          \* _hub_id, None while the process is down
    config,         \* "hana" section of the configuration in memory
    disk,           \* the same section in the file
    told,           \* the last answer to a request for or of the identity
    idLost,         \* history: the last hub_id generated was not written
    nameLost        \* history: the last name accepted was not written

lost == <<idLost, nameLost>>
hubVars == <<running, hubId, config, disk, told, lost>>

\* generate_hub_id: two different adjectives and a noun.
HubIds == {w \in Adjectives \X Adjectives \X Nouns : w[1] # w[2]}

Section == [hub_id: HubIds \union {None}, hub_display_name: Names \union {None}]
Shown(name) == IF name = None THEN DefaultName ELSE name

\* HubIdentityResponse.
NotAsked == [hub_id |-> None, display_name |-> None, warning |-> FALSE]
Identity(id, name, warning) ==
    [hub_id |-> id, display_name |-> Shown(name), warning |-> warning]

HubTypeOK ==
    /\ running \in BOOLEAN
    /\ hubId \in HubIds \union {None}
    /\ config \in Section /\ disk \in Section
    /\ told \in [hub_id: HubIds \union {None}, warning: BOOLEAN,
                 display_name: Names \union {DefaultName, None}]
    /\ idLost \in BOOLEAN /\ nameLost \in BOOLEAN

HubInit ==
    /\ running = FALSE
    /\ hubId = None
    /\ disk \in Section
    /\ config = disk
    /\ told = NotAsked
    /\ idLost = FALSE /\ nameLost = FALSE

-----------------------------------------------------------------------------
\* update_mycroft_config, which may fail.
Written(ok, field, value) == IF ok THEN [disk EXCEPT ![field] = value] ELSE disk

\* Mutant of BootId: an id is generated at every start.
AlwaysGenerate(id) == id \in HubIds

\* config.get("hub_id"), or a generated one.
BootId(id) == IF disk.hub_id # None THEN id = disk.hub_id ELSE id \in HubIds

\* The import of the module, before the first request: one id for all of them.
Boot(id, ok) ==
    /\ ~running
    /\ running' = TRUE
    /\ BootId(id)
    /\ hubId' = id
    /\ IF disk.hub_id # None
       THEN /\ config' = disk
            /\ UNCHANGED <<disk, idLost>>
       ELSE /\ disk' = Written(ok, "hub_id", id)
            /\ config' = [disk EXCEPT !["hub_id"] = id]
            /\ idLost' = ~ok
    /\ told' = NotAsked
    /\ nameLost' = FALSE

\* get_hub_identity.
GetIdentity ==
    /\ running
    /\ told' = Identity(hubId, config.hub_display_name, FALSE)
    /\ UNCHANGED <<running, hubId, config, disk, lost>>

\* Mutant of Accepted: only the length is checked.
LongEnough(raw) == raw # TooLong

\* UpdateHubIdentityRequest: everything else is answered with 422.
Accepted(raw) == raw \notin {Blank, TooLong}

\* Mutant of Warned: nobody is told.
NeverWarned(ok) == FALSE

Warned(ok) == ~ok

\* update_hub_identity, after the test of permissions.
Rename(raw, ok) ==
    /\ running
    /\ Accepted(raw)
    /\ disk' = Written(ok, "hub_display_name", raw)
    /\ config' = [config EXCEPT !["hub_display_name"] = raw]
    /\ told' = Identity(hubId, raw, Warned(ok))
    /\ nameLost' = ~ok
    /\ UNCHANGED <<running, hubId, idLost>>

\* update_hub_identity, when the process ends after the file is written and
\* before the client is answered: the name lasts, and nobody was told.
RenameInterrupted(raw) ==
    /\ running
    /\ Accepted(raw)
    /\ running' = FALSE
    /\ hubId' = None
    /\ disk' = Written(TRUE, "hub_display_name", raw)
    /\ config' = disk'
    /\ UNCHANGED <<told, lost>>

\* The process ends, at any other moment: what is in memory is gone.
Stop ==
    /\ running
    /\ running' = FALSE
    /\ hubId' = None
    /\ config' = disk
    /\ UNCHANGED <<disk, told, lost>>

Requested == Names \union {Blank, TooLong}

HubNext ==
    \/ \E ok \in BOOLEAN :
          \/ \E id \in HubIds : Boot(id, ok)
          \/ \E raw \in Requested : Rename(raw, ok)
    \/ \E raw \in Requested : RenameInterrupted(raw)
    \/ GetIdentity
    \/ Stop

HubSpec == HubInit /\ [][HubNext]_hubVars
-----------------------------------------------------------------------------
\* While HANA runs, its routes answer with the id its configuration has, and
\* with the one the file has unless the file could not be written when the id
\* was made; the name in memory is that of the file unless the last rename
\* warned its client.  So an id or a name changes over a restart only then.
MemoryMatchesDisk ==
    running =>
        /\ config.hub_id = hubId /\ hubId # None
        /\ ~idLost => disk.hub_id = hubId
        /\ ~nameLost => config.hub_display_name = disk.hub_display_name

\* What a Hub promises about its identity, whatever process serves it.
Promise == INSTANCE HubPromise
    WITH id <- disk.hub_id, name <- disk.hub_display_name,
         volatile <- nameLost, heard <- told

\* Memory, disk and restarts together keep that promise.
KeepsPromise == Promise!Spec
=============================================================================
