---------------------------- MODULE MCHubServer ----------------------------
(* Permissions as stored by a registration, and of an administrator of hubs  *)
(* who may use neither language models nor a Node.                           *)
EXTENDS HubServer, TLC

MCPermissionSets ==
    {[node |-> USER, hub |-> USER, llm |-> USER],
     [node |-> NONE, hub |-> ADMIN, llm |-> NONE]}

\* Adjectives stand for each other.
MCSymmetry == Permutations(Adjectives) \union Permutations(Engines)
=============================================================================
