----------------------------- MODULE HubServer -----------------------------
(***************************************************************************)
(* The hub routes of a running HANA: the identity of HubIdentity, renamed  *)
(* through the tokens of AccessControl, and the configuration report of    *)
(* HubReport, which reads a file of its own.  A restart loses the requests *)
(* under way and what was only in memory; the tokens of clients and the    *)
(* file stay.                                                              *)
(***************************************************************************)
EXTENDS AccessControl, HubIdentity, HubReport

ASSUME RenameAssumption == "rename" \in HttpRoutes

serverVars == <<vars, hubVars>>

ServerInit == Init /\ HubInit

\* update_hub_identity: a name that does not fit is refused before the route
\* looks at the token again; the identity changes only behind its role test.
RenameHub(id, raw, ok) ==
    IF Accepted(raw)
    THEN /\ Body("rename", id)
         /\ IF answer'.status = 200 THEN Rename(raw, ok) ELSE UNCHANGED hubVars
    ELSE Malformed("rename", id) /\ UNCHANGED hubVars

\* The process ends after a rename has written the file and before it has
\* answered: the same route, behind the same test.
InterruptRename(id, raw) ==
    /\ <<"rename", id>> \in validated
    /\ Status("rename", id) = 200
    /\ RenameInterrupted(raw)
    /\ Restart

\* Requests to the running process that do not touch the identity.
OtherRequest ==
    \/ \E u \in Users, nodeAuth \in BOOLEAN : Login(u, nodeAuth)
    \/ \E id \in 1..Len(tokens) :
          \/ Refresh(id) \/ ConnectNode(id)
          \/ \E route \in HttpRoutes : Validate(route, id)
          \/ \E route \in HttpRoutes \ {"rename"} :
                Body(route, id) \/ Malformed(route, id)

\* What happens whether HANA runs or not.
Surroundings ==
    \/ Tick
    \/ \E u \in Users, p \in PermissionSets : ChangeRoles(u, p)

ServerNext ==
    \/ /\ running
       /\ \/ \E id \in 1..Len(tokens), raw \in Requested, ok \in BOOLEAN :
                RenameHub(id, raw, ok)
          \/ OtherRequest /\ UNCHANGED hubVars
          \/ GetIdentity /\ UNCHANGED vars
    \/ Surroundings /\ UNCHANGED hubVars
    \/ Restart /\ Stop
    \/ \E id \in 1..Len(tokens), raw \in Requested : InterruptRename(id, raw)
    \/ \E id \in HubIds, ok \in BOOLEAN : Boot(id, ok) /\ UNCHANGED vars

ServerSpec == ServerInit /\ [][ServerNext]_serverVars

-----------------------------------------------------------------------------
\* Pairs, requests and answers, and the hub in memory and in its file, are of
\* the types the routes expect.
ServerTypeOK == TypeOK /\ HubTypeOK

\* A rename has passed jwt_bearer, and its token would pass the body now: it
\* has not expired, whatever disable_auth says, and belongs to a user who was
\* an administrator of hubs in the users service at some time.
MayRename(id) ==
    /\ <<"rename", id>> \in validated
    /\ AccessValid(id)
    /\ \E p \in held[tokens[id].user] : p["hub"] >= ADMIN

\* The name in the file only changes on behalf of such a request, whether HANA
\* survives it or not, and the name of a running Hub only together with the
\* answer to it.
RenamedByAdministrator ==
    [][/\ disk'.hub_display_name # disk.hub_display_name =>
              \E id \in 1..Len(tokens) : MayRename(id)
       /\ running /\ running' /\ config'.hub_display_name # config.hub_display_name =>
              /\ answer'.route = "rename" /\ answer'.status = 200
              /\ MayRename(answer'.id)]_serverVars

\* Whenever HANA runs, it reports as FilesAreReported says.
ReportsEngines == running => FilesAreReported
=============================================================================
