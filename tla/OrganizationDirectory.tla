------------------------ MODULE OrganizationDirectory ------------------------
(***************************************************************************)
(* Branches and organizations: two tables to which rows are only added,    *)
(* one insert per request without a look-up before it.  What keeps the     *)
(* names apart is the unique index on the name as it is stored: trimmed    *)
(* for a branch, reduced to a slug for an organization, so that different  *)
(* texts may name one branch or one organization.                          *)
(*                                                                         *)
(* Abstracted: code, cashLimit, timestamps.  Nothing updates or deletes a  *)
(* row.                                                                    *)
(***************************************************************************)
EXTENDS HttpOutcomes

CONSTANTS
  Organizations,   \* the organizations that have users
  Texts,           \* names and slugs as clients send them
  Trimmed,         \* name.trim()
  Slugged,         \* trim, lower case, everything else a single hyphen
  Requests,        \* who may insert a row
  InitialSlugs,    \* of the organizations that are there already
  Seeded           \* who inserted those

ASSUME ConversionAssumption ==
  /\ Trimmed \in [Texts -> STRING]
  /\ Slugged \in [Texts -> STRING]
  /\ InitialSlugs \subseteq STRING
  /\ Seeded \notin Requests

VARIABLES
  branches,        \* table Branch
  organizations    \* table Organization, its slugs

directory == <<branches, organizations>>

BranchRow == [organization : Organizations, name : STRING, by : Requests \cup {Seeded}]
OrganizationRow == [slug : STRING, by : Requests \cup {Seeded}]

DirectoryInit ==
  /\ branches = {}
  /\ organizations = {[slug |-> slug, by |-> Seeded] : slug \in InitialSlugs}

StoredAsSent(text) == text

\* The name of the branch, the slug of the organization a request asks for.
StoredName(text) == Trimmed[text]
StoredSlug(text) == Slugged[text]

\* The unique indexes.
NameTaken(org, text) ==
  \E row \in branches : row.organization = org /\ row.name = StoredName(text)
SlugTaken(text) == \E row \in organizations : row.slug = StoredSlug(text)

\* isUniqueConstraintError: P2002 becomes a conflict, with the service's code.
BranchExists == Exception(409, "BRANCH_ALREADY_EXISTS")
OrganizationExists == Exception(409, "ORGANIZATION_SLUG_ALREADY_EXISTS")

\* BranchesService.create and OrganizationsService.create, as one statement
\* each; `outcome` is what the statement and its catch clause come to.
CreateBranch(by, org, text, outcome) ==
  \/ /\ ~NameTaken(org, text)
     /\ branches' = branches \cup
          {[organization |-> org, name |-> StoredName(text), by |-> by]}
     /\ outcome = Value
     /\ UNCHANGED organizations
  \/ /\ NameTaken(org, text)
     /\ outcome = BranchExists
     /\ UNCHANGED directory

CreateOrganization(by, text, outcome) ==
  \/ /\ ~SlugTaken(text)
     /\ organizations' = organizations \cup {[slug |-> StoredSlug(text), by |-> by]}
     /\ outcome = Value
     /\ UNCHANGED branches
  \/ /\ SlugTaken(text)
     /\ outcome = OrganizationExists
     /\ UNCHANGED directory

\* Has the request put a row into one of the tables?
HasCreated(by) ==
  (\E row \in branches : row.by = by) \/ (\E row \in organizations : row.by = by)
=============================================================================
