----------------------------- MODULE MCServices -----------------------------
(***************************************************************************)
(* The services beside the run pipeline.  They share no rows, so a         *)
(* behaviour moves one of them (part) and leaves the others as they began: *)
(* TLC explores each on its own in a single run.                           *)
(***************************************************************************)
EXTENDS OAuthTokens, ProjectWorkspace, IntakeSession, RpmLimiter, LoginFlow, McpDispatch

CONSTANTS u1, u2

VARIABLE part

Parts == {"oauth", "workspace", "intake", "rpm", "login", "mcp"}

servicesVars ==
    <<part, oauthVars, workspaceVars, intakeVars, rpmVars, loginVars, mcpVars>>

\* Every run was created by the account u1.
MCRunOwner == [r \in IRuns |-> u1]

ServicesInit ==
    /\ part \in Parts
    /\ OAuthInit /\ WorkspaceInit /\ IntakeInit /\ RpmInit /\ LoginInit
    /\ IF part = "mcp" THEN McpInit
       ELSE batch = <<>> /\ taken = 0 /\ effects = {} /\ ended = "result" /\ replies = <<>> /\ outcome = "open"

OAuthMoves == part = "oauth" /\ OAuthNext
WorkspaceMoves == part = "workspace" /\ WorkspaceNext
IntakeMoves == part = "intake" /\ IntakeNext
RpmMoves == part = "rpm" /\ RpmNext
LoginMoves == part = "login" /\ LoginNext
McpMoves == part = "mcp" /\ McpNext

ServicesNext ==
    /\ \/ OAuthMoves /\ UNCHANGED <<workspaceVars, intakeVars, rpmVars, loginVars, mcpVars>>
       \/ WorkspaceMoves /\ UNCHANGED <<oauthVars, intakeVars, rpmVars, loginVars, mcpVars>>
       \/ IntakeMoves /\ UNCHANGED <<oauthVars, workspaceVars, rpmVars, loginVars, mcpVars>>
       \/ RpmMoves /\ UNCHANGED <<oauthVars, workspaceVars, intakeVars, loginVars, mcpVars>>
       \/ LoginMoves /\ UNCHANGED <<oauthVars, workspaceVars, intakeVars, rpmVars, mcpVars>>
       \/ McpMoves /\ UNCHANGED <<oauthVars, workspaceVars, intakeVars, rpmVars, loginVars>>
    /\ UNCHANGED part

ServicesSpec == ServicesInit /\ [][ServicesNext]_servicesVars

\* The types of all services.
ServicesTypeOK ==
    /\ OAuthTypeOK /\ WorkspaceTypeOK /\ IntakeTypeOK
    /\ RpmTypeOK /\ LoginTypeOK /\ McpTypeOK
=============================================================================
