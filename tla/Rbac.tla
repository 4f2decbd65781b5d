-------------------------------- MODULE Rbac --------------------------------
(***************************************************************************)
(* Role based access control: the role and permission tables the seed      *)
(* installs and the decision PermissionsGuard takes from them.             *)
(*                                                                         *)
(* The tables are constants of the running system: no handler writes Role, *)
(* Permission or RolePermission, only the seed does.  What changes at run  *)
(* time is which roles a user holds (table UserRole), a variable of the    *)
(* modules that extend this one.                                           *)
(***************************************************************************)

Roles == {"ADMIN", "MANAGER", "OPERATOR", "USER"}

PermissionKeys ==
  {"users.read", "users.write", "branches.read", "branches.write",
   "cashMovements.create", "cashMovements.read", "cashMovements.approve",
   "cashMovements.deliver", "cashflow.stats.read"}

\* RolePermission after the seed has run.  USER ends with no permission.
RolePermissions ==
  [role \in Roles |->
     CASE role = "ADMIN"    -> PermissionKeys
       [] role = "MANAGER"  -> {"branches.read", "cashMovements.read",
                                "cashMovements.approve",
                                "cashMovements.deliver", "cashflow.stats.read"}
       [] role = "OPERATOR" -> {"cashMovements.create", "cashMovements.read",
                                "cashflow.stats.read"}
       [] role = "USER"     -> {}]

PermissionsOf(held) == UNION {RolePermissions[role] : role \in held}

\* What the decorators of the routes demand: one of the roles of @Roles, when
\* there are any, and every key of @RequirePermissions.
RequiredRoles ==
  [create  |-> {"OPERATOR", "ADMIN"},
   list    |-> {"OPERATOR", "MANAGER", "ADMIN"},
   approve |-> {"MANAGER", "ADMIN"},
   reject  |-> {"MANAGER", "ADMIN"},
   deliver |-> {"MANAGER", "ADMIN"},
   listUsers  |-> {"ADMIN"},
   createUser |-> {},
   updateUser |-> {},
   removeUser |-> {},
   stats      |-> {"OPERATOR", "MANAGER", "ADMIN"},
   createBranch       |-> {"ADMIN"},
   listBranches       |-> {},
   createOrganization |-> {"ADMIN"},
   listOrganizations  |-> {}]

RequiredPermissions ==
  [create  |-> {"cashMovements.create"},
   list    |-> {"cashMovements.read"},
   approve |-> {"cashMovements.approve"},
   reject  |-> {"cashMovements.approve"},
   deliver |-> {"cashMovements.deliver"},
   listUsers  |-> {"users.read"},
   createUser |-> {"users.write"},
   updateUser |-> {"users.write"},
   removeUser |-> {"users.write"},
   stats      |-> {"cashflow.stats.read"},
   createBranch       |-> {"branches.write"},
   listBranches       |-> {"branches.read"},
   createOrganization |-> {},
   listOrganizations  |-> {}]

\* Routes that demand nothing: the guard lets them pass without a read.
Unrestricted(op) == RequiredRoles[op] = {} /\ RequiredPermissions[op] = {}

HoldsRequiredRole(op, held) ==
  RequiredRoles[op] # {} => RequiredRoles[op] \cap held # {}

\* Variant: the decorators of the deliver route were forgotten.
AdmitsUndecorated(op, held) ==
  op = "deliver" \/ /\ HoldsRequiredRole(op, held)
                    /\ RequiredPermissions[op] \subseteq PermissionsOf(held)

(***************************************************************************)
(* The guard's decision for a user who holds the roles `held`: a user with *)
(* no role is refused, then some required role must be held, then every    *)
(* required permission must come with one of the roles held.               *)
(***************************************************************************)
Admits(op, held) ==
  /\ held # {}
  /\ HoldsRequiredRole(op, held)
  /\ RequiredPermissions[op] \subseteq PermissionsOf(held)

\* The code of the refusal, when Admits does not hold.
RefusalCode(op, held) ==
  CASE held = {}                                       -> "AUTH_USER_HAS_NO_ROLES"
    [] held # {} /\ ~HoldsRequiredRole(op, held)       -> "AUTH_MISSING_REQUIRED_ROLE"
    [] held # {} /\ HoldsRequiredRole(op, held)        -> "AUTH_MISSING_REQUIRED_PERMISSION"
=============================================================================
