------------------------------ MODULE Permissions ------------------------------
(***************************************************************************)
(* Who may do what: the matrix of packages/domain/src/permissions.ts, and  *)
(* the pages of the web application it opens, as routes (App.tsx) and as   *)
(* entries of the menu (AppShell.tsx).                                     *)
(***************************************************************************)

ROLES == {"ADMIN", "OPERATOR", "TECHNICIAN", "VIEWER"}

(* What every role reads, and what each of three adds; ADMIN has all.      *)
Everybody == {"org:read", "sectors:read", "assets:read", "devices:read"}
Readers == Everybody \cup {"telemetry:read", "rules:read", "alerts:read", "work-orders:read",
                           "analytics:read"}
OPERATOR == Readers \cup {"users:list-assignable", "maintenance-windows:write",
                          "telemetry:import", "alerts:transition", "work-orders:create",
                          "work-orders:assign", "simulator:run"}
TECHNICIAN == Everybody \cup {"work-orders:read-assigned", "work-orders:execute"}
VIEWER == Readers
PERMISSIONS == OPERATOR \cup TECHNICIAN
               \cup {"users:read", "users:manage", "audit:read", "sectors:write",
                     "assets:write", "devices:write", "devices:credentials", "rules:write"}

ROLE_PERMISSIONS == [role \in ROLES |->
  CASE role = "ADMIN" -> PERMISSIONS
    [] role = "OPERATOR" -> OPERATOR
    [] role = "TECHNICIAN" -> TECHNICIAN
    [] role = "VIEWER" -> VIEWER]

hasPermission(role, permission) == permission \in ROLE_PERMISSIONS[role]

-----------------------------------------------------------------------------
(* The permission each route asks for; the others only ask for a session.  *)
RoutePermission ==
  [mapa |-> "sectors:read", indicadores |-> "analytics:read", alertas |-> "alerts:read",
   ordensServico |-> "work-orders:read", setores |-> "sectors:read",
   dispositivos |-> "devices:read", usuarios |-> "users:read"]
Guarded == DOMAIN RoutePermission
Pages == Guarded \cup {"inicio", "conta"}

(* RequirePermission, once RequireAuth let the user in.                    *)
Opens(role, page) == page \in Guarded => hasPermission(role, RoutePermission[page])

(* NAV_ITEMS that are left for a role.                                     *)
Menu(role) == {p \in Pages : Opens(role, p)}
=============================================================================
