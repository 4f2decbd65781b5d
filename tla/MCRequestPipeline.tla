-------------------------- MODULE MCRequestPipeline --------------------------
(***************************************************************************)
(* An instance of RequestPipeline for TLC: three people of two             *)
(* organizations, three texts of which two name one branch and one slug.   *)
(***************************************************************************)
EXTENDS RequestPipeline

CONSTANTS admin, manager, foreign, org1, org2

MCUserOrg == [u \in Users |-> IF u = foreign THEN org2 ELSE org1]

MCUserRoles == [u \in Users |-> IF u = manager THEN {"MANAGER"} ELSE {"ADMIN"}]

\* "Centro " becomes "Centro" in the table, both become "centro" as a slug;
\* "Default Org" has the slug of the organization the migration inserts.
MCTexts == {"Centro", "Centro ", "Default Org"}
MCTrimmed == [t \in MCTexts |-> IF t = "Centro " THEN "Centro" ELSE t]
MCSlugged == [t \in MCTexts |-> IF t = "Default Org" THEN "default-org" ELSE "centro"]
MCSlugs == {"default-org", "second"}

Asks(ops, users, tokens, valid, texts) ==
  [op : ops, user : users, token : tokens, csrf : {"missing"}, valid : valid, text : texts]

Cookies(op, user, token, csrf) ==
  [op : {op}, user : {user}, token : {token}, csrf : csrf, valid : {TRUE}, text : {"Centro"}]

\* Creations by who may and who may not, with every kind of token and body;
\* the reads; the two routes with cookies; the public ones.
EveryCall ==
  Asks({"createBranch"}, {admin}, {"claims"}, BOOLEAN, {"Centro", "Centro "})
  \cup Asks({"createBranch"}, {admin}, {"legacy"}, {TRUE}, {"Centro"})
  \cup Asks({"createBranch"}, {foreign, manager}, {"claims"}, {TRUE}, {"Centro"})
  \cup Asks({"createOrganization"}, {admin}, {"claims"}, {TRUE}, MCTexts)
  \cup Asks({"listBranches"}, {manager}, {"claims"}, {TRUE}, {"Centro"})
  \cup Asks({"listOrganizations"}, {admin}, {"claims", "legacy"}, {TRUE}, {"Centro"})
  \cup Cookies("refresh", NoUser, "unusable", {"same", "other"})
  \cup Cookies("logout", manager, "claims", {"same", "missing"})
  \cup Cookies("logout", NoUser, "unusable", {"same"})
  \cup Cookies("ready", NoUser, "unusable", {"missing"})
  \cup Cookies("metrics", NoUser, "unusable", {"missing"})
=============================================================================
