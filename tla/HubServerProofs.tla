-------------------------- MODULE HubServerProofs --------------------------
(***************************************************************************)
(* Theorems about HubServer: it implements both of its components, so that *)
(* their theorems hold of it, and a name only changes on behalf of a user  *)
(* who was an administrator.                                               *)
(***************************************************************************)
EXTENDS HubServer, AccessControlProofs, HubIdentityProofs

\* Every step of the server is one of AccessControl, or leaves it alone.
LEMMA AccessStep == [ServerNext]_serverVars => [Next]_vars
<1> SUFFICES ASSUME [ServerNext]_serverVars PROVE Next \/ UNCHANGED vars
  OBVIOUS
<1>1. ASSUME NEW id \in 1..Len(tokens), NEW raw \in Requested, NEW ok \in BOOLEAN,
             RenameHub(id, raw, ok)
      PROVE  Next
  <2>1. Body("rename", id) \/ Malformed("rename", id)
    BY <1>1 DEF RenameHub
  <2> QED BY <2>1, RenameAssumption DEF Next
<1>2. CASE OtherRequest
  BY <1>2 DEF OtherRequest, Next
<1>3. CASE Surroundings
  BY <1>3 DEF Surroundings, Next
<1>4. ASSUME NEW id \in 1..Len(tokens), NEW raw \in Requested,
             InterruptRename(id, raw)
      PROVE  Next
  BY <1>4 DEF InterruptRename, Next
<1> QED BY <1>1, <1>2, <1>3, <1>4 DEF ServerNext, serverVars, Next

\* Every step of the server is one of HubIdentity, or leaves it alone.
LEMMA HubStep == [ServerNext]_serverVars => [HubNext]_hubVars
<1> SUFFICES ASSUME [ServerNext]_serverVars PROVE HubNext \/ UNCHANGED hubVars
  OBVIOUS
<1>1. ASSUME NEW id \in 1..Len(tokens), NEW raw \in Requested, NEW ok \in BOOLEAN,
             RenameHub(id, raw, ok)
      PROVE  HubNext \/ UNCHANGED hubVars
  BY <1>1 DEF RenameHub, HubNext
<1>2. ASSUME NEW id \in 1..Len(tokens), NEW raw \in Requested,
             InterruptRename(id, raw)
      PROVE  HubNext
  BY <1>2 DEF InterruptRename, HubNext
<1> QED BY <1>1, <1>2 DEF ServerNext, serverVars, HubNext

\* The server implements its components.
THEOREM ServerImplements == ServerSpec => Spec /\ HubSpec
  BY AccessStep, HubStep, PTL DEF ServerSpec, ServerInit, Spec, HubSpec

\* So what is proved of them holds of it.
COROLLARY ServerKeepsAll ==
    ServerSpec => /\ []TypeOK /\ []NodeScope
                  /\ []HubTypeOK /\ []MemoryMatchesDisk /\ KeepsPromise
  BY ServerImplements, AccessTypes, NodesStayNodes,
     HubTypes, HubMemory, HubKeepsPromise, PTL

\* Pairs, requests, answers and the identity of a server always have the types
\* the routes expect.
COROLLARY ServerTypes == ServerSpec => []ServerTypeOK
  BY ServerKeepsAll, PTL DEF ServerTypeOK

-----------------------------------------------------------------------------
\* The token of a rename that passes the body's test is an administrator's.
LEMMA AdministratorsHeld ==
    ASSUME AccessInv, NEW id \in 1..Len(tokens),
           <<"rename", id>> \in validated, Status("rename", id) = 200
    PROVE  MayRename(id)
<1>1. AccessValid(id) /\ HubAdmin(tokens[id].roles)
  BY DEF Status, Permitted, Refusal
<1>2. ~tokens[id].asNode
  BY <1>1, NodeIsNoUser DEF AccessInv, PairRoles
<1>3. tokens[id].roles \in held[tokens[id].user]
  BY <1>2 DEF AccessInv, PairRoles
<1> QED BY <1>1, <1>3 DEF HubAdmin, MayRename

\* What a step may do to a name.
NameChange ==
    /\ disk'.hub_display_name # disk.hub_display_name =>
           \E id \in 1..Len(tokens) : MayRename(id)
    /\ running /\ running' /\ config'.hub_display_name # config.hub_display_name =>
           /\ answer'.route = "rename" /\ answer'.status = 200
           /\ MayRename(answer'.id)

\* Only a rename changes a name, or a rename that the process did not survive;
\* a start writes the id alone.
LEMMA RenameStep ==
    ASSUME AccessInv, HubInv, ServerNext
    PROVE  NameChange
<1>1. ASSUME NEW id \in 1..Len(tokens), NEW raw \in Requested, NEW ok \in BOOLEAN,
             RenameHub(id, raw, ok)
      PROVE  NameChange
  <2>1. CASE UNCHANGED hubVars
    BY <2>1 DEF hubVars, NameChange
  <2>2. CASE Body("rename", id) /\ answer'.status = 200
    <3>1. /\ <<"rename", id>> \in validated
          /\ answer' = Answer("rename", id, Status("rename", id))
      BY <2>2 DEF Body
    <3>2. Status("rename", id) = 200 /\ answer'.id = id /\ answer'.route = "rename"
      BY <2>2, <3>1 DEF Answer
    <3> QED BY <2>2, <3>1, <3>2, AdministratorsHeld DEF NameChange
  <2> QED BY <1>1, <2>1, <2>2 DEF RenameHub
<1>2. ASSUME NEW id \in 1..Len(tokens), NEW raw \in Requested,
             InterruptRename(id, raw)
      PROVE  NameChange
  <2>1. MayRename(id) /\ running' = FALSE
    BY <1>2, AdministratorsHeld DEF InterruptRename, RenameInterrupted
  <2> QED BY <2>1 DEF NameChange
<1>3. ASSUME NEW i \in HubIds, NEW ok \in BOOLEAN, Boot(i, ok)
      PROVE  NameChange
  <2>1. ~running /\ disk \in Section
    BY <1>3 DEF Boot, HubInv, HubTypeOK
  <2>2. disk'.hub_display_name = disk.hub_display_name
    BY <1>3, <2>1 DEF Boot, Written, Section
  <2> QED BY <2>1, <2>2 DEF NameChange
<1>4. CASE GetIdentity
  BY <1>4 DEF GetIdentity, NameChange
<1>5. CASE Stop
  BY <1>5 DEF Stop, NameChange
<1>6. CASE UNCHANGED hubVars
  BY <1>6 DEF hubVars, NameChange
<1> QED BY <1>1, <1>2, <1>3, <1>4, <1>5, <1>6 DEF ServerNext

\* The name in the file, and the name of a running Hub, is only changed for a
\* user who was an administrator of hubs, with a token that has not expired.
THEOREM NamesNeedAdministrators == ServerSpec => RenamedByAdministrator
<1>1. ServerSpec => []AccessInv /\ []HubInv
  BY ServerImplements, AlwaysInv, HubAlwaysInv, PTL
<1>2. AccessInv /\ HubInv /\ [ServerNext]_serverVars => [NameChange]_serverVars
  BY RenameStep
<1> QED BY <1>1, <1>2, PTL DEF ServerSpec, RenamedByAdministrator, NameChange

-----------------------------------------------------------------------------
\* What is read of a section: the default, the engine it names, or a crash.
LEMMA EngineOf ==
    ASSUME NEW section \in Sections, NEW default
    PROVE  /\ section \in Engines => Engine(section, default) = section
           /\ section \in {"absent", "empty", "no_module"} =>
                 Engine(section, default) = default
           /\ section \in {"bad_module", "not_mapping"} =>
                 Engine(section, default) = "crash"
  BY EngineAssumption DEF Engine, Sections, Nameless

\* A section that can be read yields an engine, and so never Null; only one
\* that cannot be read fails.
LEMMA EnginesAreNamed ==
    ASSUME NEW section \in Sections, NEW default \in {DefaultTts, DefaultStt}
    PROVE  \/ Engine(section, default) \notin {Null, "crash"}
           \/ /\ Engine(section, default) = "crash"
              /\ section \in {"bad_module", "not_mapping"}
<1>1. CASE section \in Engines
  BY <1>1, EngineOf, EngineAssumption
<1>2. CASE section \in {"absent", "empty", "no_module"}
  BY <1>2, EngineOf, EngineAssumption
<1>3. CASE section \in {"bad_module", "not_mapping"}
  BY <1>3, EngineOf
<1> QED BY <1>1, <1>2, <1>3 DEF Sections, Nameless

\* The report of every file, for any engines and defaults.
LEMMA EveryFileReported ==
    ASSUME NEW file \in Files
    PROVE  LET r == HubConfig(file)
           IN /\ r.tts = Null <=> r.stt = Null
              /\ r.status = 200 /\ file.kind = "mapping" =>
                   /\ r.tts # Null
                   /\ file.tts \in Engines => r.tts = file.tts
                   /\ file.stt \in Engines => r.stt = file.stt
              /\ r.status = 500 =>
                   \/ file.kind \in {"not_utf8", "io_error"}
                   \/ {file.tts, file.stt} \intersect {"bad_module", "not_mapping"} # {}
<1> DEFINE tts == Engine(file.tts, DefaultTts)
           stt == Engine(file.stt, DefaultStt)
<1>1. /\ file.tts \in Sections /\ file.stt \in Sections
      /\ file.kind \in {"missing", "unreadable", "not_utf8", "io_error",
                       "not_mapping", "mapping"}
  BY DEF Files
<1>2. /\ file.tts \in Engines => tts = file.tts
      /\ \/ tts \notin {Null, "crash"}
         \/ tts = "crash" /\ file.tts \in {"bad_module", "not_mapping"}
  BY <1>1, EngineOf, EnginesAreNamed
<1>3. /\ file.stt \in Engines => stt = file.stt
      /\ \/ stt \notin {Null, "crash"}
         \/ stt = "crash" /\ file.stt \in {"bad_module", "not_mapping"}
  BY <1>1, EngineOf, EnginesAreNamed
<1> HIDE DEF tts, stt
<1>4. CASE file.kind \in {"missing", "unreadable", "not_mapping"}
  <2>1. ReadNeonYaml(file) = "none"
    BY <1>4 DEF ReadNeonYaml
  <2>2. HubConfig(file) = Report(200, Null, Null)
    BY <2>1 DEF HubConfig
  <2> QED BY <2>2, <1>4 DEF Report
<1>5. CASE file.kind \in {"not_utf8", "io_error"}
  <2>1. HubConfig(file) = Report(500, Null, Null)
    BY <1>5 DEF HubConfig, ReadNeonYaml
  <2> QED BY <2>1, <1>5 DEF Report
<1>6. CASE file.kind = "mapping" /\ "crash" \in {tts, stt}
  <2>1. HubConfig(file) = Report(500, Null, Null)
    BY <1>6 DEF HubConfig, ReadNeonYaml, tts, stt
  <2>2. {file.tts, file.stt} \intersect {"bad_module", "not_mapping"} # {}
    BY <1>2, <1>3, <1>6
  <2> QED BY <2>1, <2>2, <1>6 DEF Report
<1>7. CASE file.kind = "mapping" /\ "crash" \notin {tts, stt}
  <2>1. HubConfig(file) = Report(200, tts, stt)
    BY <1>7 DEF HubConfig, ReadNeonYaml, tts, stt
  <2> QED BY <2>1, <1>2, <1>3, <1>7 DEF Report
<1> QED BY <1>1, <1>4, <1>5, <1>6, <1>7

\* Whenever HANA runs, every configuration file is reported in full or not at
\* all, with the engines it names, and fails only where it cannot be read.
THEOREM EnginesReported == ServerSpec => []ReportsEngines
<1>1. ReportsEngines
  BY EveryFileReported DEF ReportsEngines, FilesAreReported
<1> QED BY <1>1, PTL
=============================================================================
