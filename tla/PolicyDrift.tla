---------------------------- MODULE PolicyDrift -----------------------------
(***************************************************************************)
(* The policy is written down several times over: in the code, in the data *)
(* of OPA, in the Keycloak realm and in the mesh.  verify_policy and       *)
(* check_mesh_anonymous compare the copies.  Here they are facts that are  *)
(* edited one at a time, and what the copies do together is compared with  *)
(* what the code means, whenever the two checks report nothing.            *)
(***************************************************************************)
EXTENDS Integers, Sequences, FiniteSets, SequencesExt

CONSTANTS
    Services,       \* SERVICES
    Edges,          \* SVC_EXCHANGE_SCOPES: from a client to a service
    Browsers,       \* NON_EXCHANGE_AZP
    Others,         \* clients of the realm that exchange nothing
    Minters,        \* ORIGIN_MINTING_CLIENTS
    RoleGrants,     \* _DEFAULT_ROLE_GRANTS: per role, the services it opens
    AccessRoles,    \* the roles of it that end in -access
    AnonymousPaths, \* paths that may be anonymous
    Subtrees,       \* SUBTREE_PREFIXES
    Below,          \* paths under them that are asked for
    MaxEdits        \* bound: edits

Roles == DOMAIN RoleGrants
Admin == "admin"
Exchangers == {edge[1] : edge \in Edges}
Clients == Exchangers \cup Browsers \cup Others

ASSUME PolicyAssumption ==
    /\ Edges \subseteq Exchangers \X Services /\ Minters \subseteq Exchangers
    /\ AccessRoles \subseteq Roles /\ Admin \in Roles \ AccessRoles
    /\ RoleGrants \in [Roles -> SUBSET Services]
    /\ Subtrees \subseteq AnonymousPaths /\ AnonymousPaths \cup Below \subseteq Seq(STRING)
    /\ MaxEdits \in Nat

VARIABLES
    policy,     \* the facts of data.json, the realm and the mesh
    edits

policyVars == <<policy, edits>>

Facts ==
    ({"azp key"} \X Services) \cup ({"azp"} \X Services \X Clients)
    \cup ({"client"} \X Clients) \cup ({"scope"} \X Clients \X Services)
    \cup ({"origin"} \X Clients) \cup ({"grant"} \X Roles \X Services)
    \cup ({"role", "admin has", "group has"} \X Roles) \cup {<<"admin is composite">>}
    \cup ({"anonymous", "exempt", "exempt below"} \X AnonymousPaths)

\* All copies say what the code says; the anonymous paths are the code's own.
PolicyInit ==
    /\ policy =
        ({"azp key"} \X Services) \cup {<<"azp", edge[2], edge[1]>> : edge \in Edges}
        \cup ({"client"} \X Clients) \cup {<<"scope", edge[1], edge[2]>> : edge \in Edges}
        \cup ({"origin"} \X (Exchangers \ Minters))
        \cup {grant \in {"grant"} \X Roles \X Services : grant[3] \in RoleGrants[grant[2]]}
        \cup ({"role"} \X Roles) \cup ({"admin has"} \X AccessRoles)
        \cup {<<"admin is composite">>}
        \cup ({"anonymous", "exempt"} \X AnonymousPaths) \cup ({"exempt below"} \X Subtrees)
    /\ edits = 0

\* Somebody adds a fact or takes one away.
Edit ==
    /\ edits < MaxEdits /\ edits' = edits + 1
    /\ \E fact \in Facts :
        policy' = IF fact \in policy THEN policy \ {fact} ELSE policy \cup {fact}

-----------------------------------------------------------------------------
(***************************************************************************)
(* The copies, as they are read.                                           *)
(***************************************************************************)
AzpAllow(svc) ==
    {c \in Clients : <<"azp key", svc>> \in policy /\ <<"azp", svc, c>> \in policy}
Scopes(c) == {svc \in Services : <<"client", c>> \in policy /\ <<"scope", c, svc>> \in policy}
CarriesOrigin(c) == <<"client", c>> \in policy /\ <<"origin", c>> \in policy
DataGrants(role) == {svc \in Services : <<"grant", role, svc>> \in policy}
Defined(role) == <<"role", role>> \in policy
GroupHas == {role \in Roles : <<"group has", role>> \in policy}
AdminHas == {role \in Roles : <<"admin has", role>> \in policy}

-----------------------------------------------------------------------------
(***************************************************************************)
(* verify_policy.                                                          *)
(***************************************************************************)
AzpInStep ==
    /\ \A svc \in Services : <<"azp key", svc>> \in policy
    /\ \A edge \in Edges : edge[1] \in AzpAllow(edge[2])
    /\ \A svc \in Services : \A c \in AzpAllow(svc) \ Browsers : <<c, svc>> \in Edges

GrantsInStep == \A role \in Roles : DataGrants(role) = RoleGrants[role]

ScopesInStep ==
    /\ \A c \in Clients : \A svc \in Scopes(c) : <<c, svc>> \in Edges
    /\ \A edge \in Edges : edge[2] \in Scopes(edge[1])

OriginsInStep == \A c \in Exchangers \ Minters : <<"client", c>> \in policy => CarriesOrigin(c)

\* _verify_realm_roles
RolesInStep ==
    /\ \A role \in Roles : Defined(role)
    /\ <<"admin is composite">> \in policy /\ AdminHas = AccessRoles

\* _verify_realm_groups
GroupsInStep == \A role \in GroupHas : Defined(role) /\ role \in AccessRoles \cup {Admin}

VerifyPolicy ==
    /\ AzpInStep /\ GrantsInStep
    /\ ScopesInStep /\ OriginsInStep /\ RolesInStep /\ GroupsInStep

(***************************************************************************)
(* check_mesh_anonymous: _has_bare and _has_subtree_glob.                  *)
(***************************************************************************)
HasSubtreeGlob(path) ==
    \E base \in AnonymousPaths : <<"exempt below", base>> \in policy /\ IsPrefix(base, path)

CheckMeshAnonymous ==
    \A path \in AnonymousPaths :
        <<"anonymous", path>> \in policy =>
            <<"exempt", path>> \in policy /\ (path \in Subtrees => HasSubtreeGlob(path))

-----------------------------------------------------------------------------
(***************************************************************************)
(* What the copies do: Keycloak issues a token for a service to a client   *)
(* that holds its scope, OPA admits it if it lists the client, and Istio   *)
(* lets a request without a token pass to the paths it exempts.            *)
(***************************************************************************)
HopWorks(c, svc) == svc \in Scopes(c) /\ c \in AzpAllow(svc)

\* The ways of an agent's request, from client to client.
AgentPaths ==
    {path \in UNION {[1..n -> Exchangers] : n \in 1..Cardinality(Exchangers)} :
        /\ path[1] \in Minters
        /\ \A i \in 2..Len(path) : path[i] \in Services /\ HopWorks(path[i - 1], path[i])}

\* What a member of the groups holds.
Held ==
    LET roles == {role \in GroupHas : Defined(role)} IN
    IF Admin \in roles /\ <<"admin is composite">> \in policy THEN roles \cup AdminHas ELSE roles

\* Istio's x/* does not match x itself.
Exempt(path) ==
    \/ <<"exempt", path>> \in policy
    \/ \E base \in AnonymousPaths :
        <<"exempt below", base>> \in policy /\ IsStrictPrefix(base, path)

OpenInOPA(path) ==
    \E base \in AnonymousPaths : <<"anonymous", base>> \in policy /\ IsPrefix(base, path)

-----------------------------------------------------------------------------
PolicyTypeOK == policy \subseteq Facts /\ edits \in 0..MaxEdits

\* A service can be called for a user by the clients the code names, and by no
\* other: nobody else even gets a token for it.
HopsAreTheEdges ==
    \A c \in Exchangers \cup Others, svc \in Services :
        /\ HopWorks(c, svc) <=> <<c, svc>> \in Edges
        /\ svc \in Scopes(c) => <<c, svc>> \in Edges

\* What an agent starts stays marked as the agent's, however far it is passed on.
OriginSurvives ==
    \A path \in AgentPaths : \A i \in 2..Len(path) :
        path[i] \in Minters \/ CarriesOrigin(path[i])

\* A role opens the same services in the mesh as in the code, and no person
\* holds a role of a machine.
RolesAreTheSame ==
    /\ \A role \in Roles : DataGrants(role) = RoleGrants[role]
    /\ Held \subseteq AccessRoles \cup {Admin}
    /\ Admin \in Held => AccessRoles \subseteq Held

\* A path under a subtree that OPA opens to all gets through the mesh to it.
AnonymousGetsThrough ==
    \A path \in AnonymousPaths \cup Below :
        /\ OpenInOPA(path)
        /\ path \in AnonymousPaths => <<"anonymous", path>> \in policy
        /\ path \in Below => \E base \in Subtrees : <<"anonymous", base>> \in policy
                                                    /\ IsPrefix(base, path)
        => Exempt(path)

(***************************************************************************)
(* "Prove the code = mesh-policy = realm lockstep": when the checks are    *)
(* silent, the copies do together what the code means.                     *)
(***************************************************************************)
PolicyHolds ==
    /\ PolicyTypeOK
    /\ VerifyPolicy => HopsAreTheEdges /\ OriginSurvives /\ RolesAreTheSame
    /\ CheckMeshAnonymous => AnonymousGetsThrough
=============================================================================
