--------------------------- MODULE MCVerification ---------------------------
(* Instances of Verification: manifests that differ in what a re-approval    *)
(* may take away, and steps with and without a role.                         *)
EXTENDS Verification

CONSTANTS shop, admin, public, internal, tester

Base == [methods |-> {"GET", "HEAD"}, primitives |-> {"http_get", "http_head"},
         included |-> Targets, excluded |-> {}, shaped |-> Targets,
         named |-> {}, barred |-> {}, private |-> FALSE, resolve |-> TRUE,
         roles |-> Roles, default |-> NoRole, header |-> FALSE,
         authenticated |-> TRUE, auto_http |-> TRUE, budget |-> 2]

(* As approved first; narrowed; with a required header and a default role,   *)
(* anonymous; without resolution before scans.                               *)
ManifestTable ==
  {Base,
   [Base EXCEPT !.excluded = {admin}, !.budget = 1, !.named = {internal}],
   [Base EXCEPT !.header = TRUE, !.default = tester, !.authenticated = FALSE],
   [Base EXCEPT !.resolve = FALSE, !.barred = {internal}, !.methods = {"GET"}]}

StepTable ==
  {[primitive |-> "http_get", target |-> shop, role |-> NoRole, max_requests |-> 1],
   [primitive |-> "http_head", target |-> admin, role |-> tester, max_requests |-> 1],
   [primitive |-> "http_get", target |-> admin, role |-> NoRole, max_requests |-> 2],
   [primitive |-> "manual_required", target |-> shop, role |-> NoRole, max_requests |-> 1]}
=============================================================================
