-------------------------------- MODULE Scope --------------------------------
(***************************************************************************)
(* The people of the system and what they may reach.  Every request acts   *)
(* for an actor, whose role, company and branch are claims of the access   *)
(* token.  A superadmin reaches every company, an admin the own company, a *)
(* manager and an employee the own branch of it.                           *)
(***************************************************************************)
CONSTANTS
    None,       \* null, no row
    Absent,     \* a field the client left out
    Companies,
    Branches,
    Users

Roles == {"superadmin", "admin", "manager", "employee"}

ASSUME ScopeAssumption ==
    /\ None # Absent
    /\ {None, Absent} \cap (Companies \cup Branches \cup Users) = {}

Actor == [sub : Users, role : Roles,
          company : Companies \cup {None}, branch : Branches \cup {None}]

\* A company and a branch a query is narrowed to.
Place == [company : Companies \cup {None}, branch : Branches \cup {None}]

\* getScope answers 403: the actor belongs nowhere, or asks for what is elsewhere.
ScopeRefused(actor, asked) ==
    /\ actor.role # "superadmin"
    /\ \/ actor.company = None
       \/ asked.company \notin {None, actor.company}
       \/ /\ actor.role # "admin"
          /\ actor.branch = None \/ asked.branch \notin {None, actor.branch}

\* The place getScope narrows the query to.
GetScope(actor, asked) ==
    [company |-> IF actor.role = "superadmin" /\ asked.company # None
                 THEN asked.company ELSE actor.company,
     branch  |-> IF actor.role \in {"superadmin", "admin"}
                 THEN asked.branch ELSE actor.branch]

\* getCompanyId answers 400 or 403.
CompanyRefused(actor, provided) ==
    \/ provided = None /\ actor.company = None
    \/ /\ actor.role # "superadmin"
       /\ actor.company = None \/ provided \notin {None, actor.company}

GetCompanyId(actor, provided) == IF provided = None THEN actor.company ELSE provided

\* checkAccess lets the actor touch a row of this company and branch.
MayAccess(actor, place) ==
    \/ actor.role = "superadmin"
    \/ /\ place.company \in {None, actor.company}
       /\ actor.role = "manager" => place.branch \in {None, actor.branch}
=============================================================================
