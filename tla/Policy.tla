------------------------------- MODULE Policy -------------------------------
(***************************************************************************)
(* The loaded policy as constants and the decisions taken from it:         *)
(* app/models/policies.py and app/firewall/authorization.py.  The policy   *)
(* is read once, when the process starts, and never changes.               *)
(***************************************************************************)
EXTENDS Risk

CONSTANTS
    Role,           \* policy.roles: the roles the policy defines
    UnknownRole,    \* any role of the users table that it does not define
    AllowedTools,   \* roles[r].allowed_tools: exact names, no wildcards
    MaxRisk,        \* roles[r].max_risk
    Managers        \* the roles with can_manage

ASSUME PolicyAssumption == /\ UnknownRole \notin Role
                           /\ AllowedTools \in [Role -> SUBSET Tool]
                           /\ MaxRisk \in [Role -> RiskLevel]
                           /\ Managers \subseteq Role

\* Roles as the users table stores them: register_user takes any string.
StoredRole == Role \cup {UnknownRole}

\* Authorizer.check(): deny by default.
Permits(r, tool) == /\ r \in Role
                    /\ tool \in AllowedTools[r]
                    /\ Classify(tool) =< MaxRisk[r]

\* Authorizer.can_manage()
CanManage(r) == r \in Managers
=============================================================================
