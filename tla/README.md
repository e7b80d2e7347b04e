# Verification of LogBa

LogBa is the backend of a logistics platform: FastAPI handlers over PostgreSQL
through SQLAlchemy. This directory holds TLA+ models of the parts of it in which
concurrent requests meet, the TLC configurations that check them, and proofs
about them that TLAPS checks. Source paths below are relative to `src/app/`.

Contents: [The system](#1-the-system) · [How handlers are modelled](#2-how-handlers-are-modelled)
· [The modules](#3-the-modules) · [The runs](#4-the-runs) · [The proofs](#5-the-proofs)
· [Where code and documents disagree](#6-where-code-and-documents-disagree)
· [Plan](#7-plan) · [Not modelled](#8-not-modelled)

## 1. The system

Every request is a synchronous handler run by a thread of its own, in a database
session of its own (`db/connection.py`, `get_db`). The application keeps no
state in memory: all state is in tables, and handlers, worker processes and the
command-line loaders interact through rows, row locks, unique indexes and foreign
keys, under PostgreSQL's READ COMMITTED isolation. What is hard is therefore the
same everywhere: two transactions that read before either writes, a value read
before a lock was waited for, a write that is rolled back with its handler, and
transactions that wait for each other.

| Component | State | Operations | Hard behaviour | What makes it correct |
|---|---|---|---|---|
| Document series (`modules/documents/series_service.py`) | `document_series`, `document_number_reservations`, `document_series_numbers` | create, list and detail with counters, reserve a block, void a number, download the booklet | concurrent reservations and voids, two creations of one scope, rollback between statements, the last number | each number is handed out once, in order, without gaps; a void is final; audit tells the truth; nobody touches another organization's series |
| Document catalogue (`modules/documents/service.py`) | `document_families`, `document_retention_policies`, `document_types`, `document_type_versions` | create, patch, publish a version, list, load the canonical catalogue | concurrent publishers, a loader beside manual creations, unlocked reads | versions are numbered 1, 2, 3, ... and never rewritten, one is current, periods are contiguous; a load is complete |
| Login sessions (`modules/auth/service.py`, `dependencies.py`, `repository.py`) | `users`, `auth_sessions` | login, `verify_session`, logout, password change, disabling a user | checks before a lock, writes lost with a rollback, administrators who revoke each other | revocation is final, disabled users get nothing, limits hold, only those who edit users can deadlock |
| Multi-factor and step-up (`modules/auth/step_up.py`, `mfa_service.py`) | `user_mfa_factors`, `mfa_recovery_codes`, `step_up_challenges`, `step_up_grants` | sensitive operation, challenge, answer, enroll, confirm, disable, regenerate | nothing is locked when read; two sessions of a user act at the same time | attempts are counted, a challenge yields one grant, operations rest on a fresh proof of their own session |
| User administration (`modules/auth/service.py`) | `users`, `user_roles` | create, update, disable, assign roles | role sets that are deleted and inserted; a role or organization deleted meanwhile | an assignment replaces what it found; no role that is gone is held |
| Roles and permissions (`modules/organization/service.py`, `permissions_catalog.py`) | `roles`, `permissions`, `role_permissions` | create, update, delete, assign permissions; load and seed the baselines | the same, codes checked before they are inserted, the AUDITOR gate, a loader beside assignments | AUDITOR gets no mutation; a code stands for one role; a load leaves the baselines |
| Access to endpoints (`modules/auth/dependencies.py`, `core/rbac.py`, every `router.py`) | none of its own | dispatch, put a principal together, check permission, step-up and CSRF | roles and permissions read by several statements; order of routes and of dependencies; a matrix published by hand | a request passes only by a right it had since it began, and the published matrix is what is applied |
| Organizations, branches, warehouses (`modules/organization/service.py`) | `organizations`, `branches`, `warehouses`, `operational_locations` | create, update, delete | children counted, codes and parents looked up without a lock; addresses shared by a branch and its warehouses | no row refers to one that is gone; codes are unique; an update edits no address but its own; errors are typed unless requests raced |
| Numbering standard (`modules/documents/numbering_standard.py`) | none | format and preview codes | hyphens and case in codes | different numbers of an organization have different codes |
| Audit (`shared/audit`) | `audit_events` | record, search, export | written in the caller's transaction | an event exactly when its change commits |
| Rendering (`shared/documents`) and samples (`modules/documents/router.py`) | none | resolve a template, hash a snapshot, mark and render; choose and render a sample | two tables of aliases, defaults, letter case | one snapshot hash stands for one output; drafts and void documents are marked; samples are what the catalogue says |

Interactions: every authenticated endpoint first runs `get_current_principal`,
which runs `verify_session` **in the session of the handler**. Its flush of
`last_seen_at` locks the row in `auth_sessions` until the handler ends. That lock,
which no code comments on, serializes the requests of a login session and is what
step-up verification relies on. Series refer to document types and branches,
grants and challenges to login sessions, all services to `record_event`.

## 2. How handlers are modelled

All modules follow one scheme.

* The variables named after tables are the **committed** rows. What a running
  transaction has read or written is in `job[q]`; how far its handler has come is
  `pc[q]`. A rollback only drops `job[q]`.
* A handler is cut where another transaction can come between: at each read whose
  result is used later, at each wait for a lock, and at the commit. Everything
  between two cuts, including flushes and the audit event, is one action.
* **Row locks** (`FOR UPDATE`, the lock of an updated row, the entry of a unique
  index while its inserter runs) are functions of `pc` and `job`: `HoldsSeries`,
  `HoldsSession` and the like. An action that needs a lock has the guard
  `...Unlocked`. Waiting is the action not being enabled.
* A statement issued after a lock was granted sees what was committed then; a row
  object loaded before keeps its old values unless the code refreshes it, and the
  flush writes only the columns that were set. `AuthSession!Seen` and
  `DocumentCatalog`'s listing depend on that.
* Time is `clock`; the code reads it once per handler, before it waits, and
  `job[q].stamp` keeps what it read.
* Variables marked "history" (`used`, `failures`, `verified`, `redeemed`, `window`) record
  what happened for the properties. No guard reads them. Where a single property needs
  such a variable (`missed`, `rivals`), a module of its own adds it to the specification.
* A definition named `Action_Fault` is a faulty variant of the definition after
  it. No specification uses it. `PROJECT.json` lists which property notices it
  when it takes the place of the right one.

## 3. The modules

| Module | Models | Correspondence |
|---|---|---|
| `DocumentSeries` | series, reservations, numbers, their audit events | `StartCreate`, `InsertSeries`, `CommitSeries` are `create_series` cut at the unlocked duplicate check, the unique index and the commit; `StartReserve`, `LockSeries`, `CommitReservation` are `reserve_correlatives` cut at `FOR UPDATE`; `StartVoid`, `LockNumber`, `CommitVoid` likewise; `StartCount`, `CountReserved`, `CountVoided` are the three statements of the counters; `DownloadBooklet` is the single select of the CSV |
| `NumberAllocation` | the promise: blocks of fresh numbers in order, voided at most once | refined by `DocumentSeries` (`ImplementsAllocation`) |
| `DocumentCatalog` | families, policies, types, versions, the loader | creations cut like series; `Publish` at `FOR UPDATE` on the type; the loader takes its canonical list key by key in one transaction; a patch reads and commits; the listing reads twice through the identity map |
| `VersionHistory` | the promise: histories that grow at their end, the last version in force | refined by `DocumentCatalog` (`ImplementsHistory`) |
| `AuthSession` | users, login sessions, and any handler behind `verify_session` | `StartRequest` is the verdict, `Touch` the flush, then the handler reads (`EndRead`), commits something, which for a change of `display_name` waits for the row of the user (`CommitWrite`), or revokes the sessions of a user (`SelectSessions`, `LockUser`, `LockSession`, `CommitRevocation`: password change and `disable_user`); `DeadlockAbort` is PostgreSQL |
| `AuthSessionHistory` | the same, with the sessions that a revocation cannot have seen | each step of `AuthSession`, and `Remember` keeps `missed` |
| `SessionLifecycle` | the promise: a session is opened once, authenticates requests while it is open, within its limits and its user enabled, and is closed for good | refined by `AuthSession` (`ImplementsLifecycle`) |
| `Organization` | organizations, branches, warehouses, their locations, document series as far as they refer to branches, roles, users, and the role and permission assignments | `Create...`, `Update...`, `Delete...`, `Assign...` are the reads and typed errors of one service function each; `Insert`, `Update`, `UnlinkRoles` and `Delete`, `Link` its writes, where it waits for locks and meets indexes and foreign keys; `Commit...` the end |
| `StepUp` | factors, recovery codes, challenges and grants of one user | each handler is a read and a write; `Enters` is the session lock of `AuthSession`, which is how the two compose |
| `StepUpHistory` | the same, with the confirmations that an activation overlapped | each step of `StepUp`, and `Remember` keeps `rivals` |
| `ChallengeLedger` | the promise: challenges count wrong answers until they lock, take one right answer in time, and operations pass on a fresh proof of their session and policy | refined by `StepUp` (`ImplementsLedger`) |
| `PermissionCatalog` | the permissions, the risk that asks for step-up, the baselines of the canonical roles and the endpoint matrix that `GET /permissions/matrix` publishes | tables of `permissions_catalog.py`, written as sets over resources and actions |
| `Endpoints` | the routes: method, path, what its dependencies ask for (nothing, a principal, a permission) and whether CSRF is validated | one operator per router, in the order of inclusion; `Dispatch` is the first match |
| `AccessControl` | a request on its way to its handler, and what changes its rights meanwhile | `Arrive`, `ReadRoles`, `ReadPermissions` (one per role) and `Decide` are the dependencies of a route; `AssignUserRoles`, `DisableUser`, `UpdateRole` and `AssignRolePermissions` the handlers that change rights; `StartScript` and `ScriptRole` are `load_canonical_catalog.py` and the roles of `seed_demo.py`; `Clear`, `Link` and `Commit` are `set_role_permissions` cut at its statements; `window` is history |
| `DocumentTemplates` | the canonical families, policies and types with their templates and lifecycles, the manifests and both alias tables | tables of `canonical_catalog.py` and `templates/registry.py` |
| `DocumentOutputs` | previews of numbers, previews of documents and samples | `PreviewNumber`, `PreviewDocument`, `RenderSample` and `RenderFamilySample` answer one call each; a snapshot hash is the record it is computed from, a code the sequence of its parts between hyphens |
| `MC...` | instances for TLC | constants, symmetry sets, and narrower next-state relations where a run looks at one part of a module |
| `...Proofs` | theorems | extend the module they are about |

What is abstracted: texts, schemas, names and money are one value; tokens,
passwords and codes are the verdict on them (`verified`, `matches`), so the
arithmetic of TOTP is not modelled while its replay guard (`last_used_counter`)
is. Users in `StepUp` are one, because every statement filters by the user.
`AuthSession` and `Organization` leave out their audit events: nothing reads them.
Assignments appear twice: `Organization` has them with the rows of roles and users that
come and go and with foreign keys, `AccessControl` with the sets of permissions they
leave, the gate and the scripts. `AccessControl` takes the verdict of `AuthSession` (a
session is valid) and of `StepUp` (granted, enroll, challenge) as inputs. In
`Organization`, a list of roles is a set and whether one of them is named twice (`twice`);
`is_active` is one value, changing a user (which is in `AuthSession`) is left out, and
`CreateSeries` is no more than the row that refers to a branch: what `create_series` refuses
and numbers is in `DocumentSeries`. Nothing sets `is_active` of a series to false, so
`LockSeries` does not test it (`series_service.py:263`).

## 4. The runs

| Run | Instance | Question |
|---|---|---|
| `series_core` | 2 requests, 1 series, 2 reservations, numbers 1..2 | is numbering right when everything overlaps? Also the refinement |
| `series_tenants` | 2 requests (one bound to an organization), 2 scopes, 2 series | one series per scope; no principal reaches another organization or is shown its counters; does every handler end? |
| `catalog_core` | 2 requests, 1 family, 1 type, 2 versions | loads, patches, listings, an audit event for each change; does every handler end? |
| `catalog_publish` | 3 publishers, 3 versions, 3 instants | version numbers, periods, immutability, the refinement |
| `catalog_stale_list` (violation) | 2 requests, 3 versions | section 6 |
| `session_core` | 2 requests, 2 users, 2 sessions, clock 0..2 | what does a revocation leave behind and stop, whom can a deadlock hit? Also the refinement: opened once, used within limits, closed for good |
| `session_live` | 2 requests that may revoke each other | does every handler end? |
| `session_reader` (violation) | 1 request that never commits | section 6 |
| `organization_core` | 2 requests on 1 organization, 1 branch, 2 warehouses, 3 locations; or on 1 organization, 1 branch, 1 series; or on 1 organization, a system role `AUDITOR`, 1 role, 1 user, 2 permissions | references, unique codes, private addresses, replacing assignments, which requests answer 500 |
| `gateway_core` | every endpoint with every baseline and every single permission; 2 requests and 3 roles; previews of 5 types, 5 branches and 4 years; all samples | is the published matrix applied, are rights recent, do loads restore the baselines, are outputs identified and honest? |
| `stepup_core` | 2 requests, 2 sessions, 2 factors, 2 codes, 1 challenge | are attempts counted, factors replaced, operations allowed on fresh proof? Also the refinement: one right answer, locked for good |
| `stepup_single_use` (violation) | the same with 2 challenges | section 6 |

**Bounds.** Two requests meet in every pair of positions, and what goes wrong in
such code goes wrong in pairs: a stale read and the write that made it stale. A
third request matters where one waits while two others run, hence the three
publishers. Two numbers with blocks of up to two give an empty, a partly used and
an exhausted series, a block that ends exactly at the limit, and two neighbouring
blocks. One challenge with a limit of two attempts has a rejected answer before
the one that locks it. The clock passes the idle limit, the absolute end, the
challenge's end and both grant lifetimes in every instance. `IdleTimeout = 0`
means that a session must be used again within the same instant. The cap on
login sessions is in the guard `RoomForLogin`, on published versions in the guard of
the publication, on patches `MaxPatches`; primary keys run out in the same way.
`organization_core` splits its instance by the variable `part`, which chooses branches
and warehouses, branches and series, or roles and users at the start: the parts share no row
but the organization and the branch, and only their deletion meets more than one. Two
warehouses are the least that can
share the address of a branch or collide in a code, two roles the least that collide
when an organization's role becomes global. Three locations are one per place, and
`RoomForLocation` stops insertions when they run out. Deleted keys are not reused, as
UUIDs are not.
`gateway_core` has four parts, chosen by its variable `part`, that share no rows. In
"routes" one user with one role asks for any endpoint, and the role has a baseline or one
permission of the matrix, so every row of the matrix is met with and without its
permission. In "rights" one request reads its rights, role by role, while another commits
any number of assignments, loads and disablings; in "loading" two requests load, seed or
assign permissions. There the second request reads its own rights at once (`AtOnce`):
what a reader sees while others change is what "rights" is for. In "outputs" any two
answers follow each other. Its roles are an `AUDITOR`, a canonical role and a custom one;
the bodies of assignments hold a harmless set, one with a dangerous permission and one that
names nothing. Types and branches have codes with hyphens, in two cases, and that look like
years or samples; years are absent, zero and on both sides of a limit.
For the properties that are proved (section 5) the bounds do not matter at all.

**Symmetry** is used for keys and requests of equal standing in runs of
invariants and action properties, never in a run with a liveness property.
`SessionId` is not symmetric: the flush updates rows in key order.

**Fairness.** A running handler goes on, so steps that only need the processor
and the database are weakly fair. Steps that wait for a row lock are *strongly*
fair: PostgreSQL queues waiters of a row and wakes them in turn, so a waiter that
finds the row free again and again gets it. `DeadlockAbort` is weakly fair:
`deadlock_timeout` runs in every waiting backend. Nothing is assumed of clients,
rollbacks or the clock. `EveryRequestEnds` in `session_live` would fail without
the deadlock detector, as two administrators who disable each other show.

Deadlock checking (a state without successor) is on in all runs.

Type invariants are proved for every state machine and run only for
`DocumentSeries`, where the type of `next_correlative` is the question of the last number.

## 5. The proofs

Theorems hold for all constants that satisfy the named assumptions (`...Assumption`),
which state no more than that limits are numbers and that `None` is not a key.
Each proof module defines an inductive invariant `Inv` with named parts, proves that
`Init` gives it and that each action keeps it (one lemma per action), and derives the
properties.

* **`DocumentSeriesProofs`.** The properties alone are not inductive: that a
  reservation finds its block free needs what the handler knew when it computed the
  block. `JobInv` says that between `LockSeries` and the commit `job.first` is
  `next`; `LockInv` that one handler at a time is in that position, for series,
  numbers and scopes; `RowInv` joins `NoGaps`, `RangeOwnsItsNumbers` and
  `OneSeriesPerScope`. Proved: `TypeOK`, `OneSeriesPerScope`, `NoGaps`,
  `RangeOwnsItsNumbers`, `RangesDisjoint`, `AllocationNeverConflicts`,
  `NumbersKeepTheirHistory`, `NextMovesWithAReservation`, and `ImplementsAllocation`
  (commits map to `Issue` and `Void`, all other steps to stutters). `RangesDisjoint` and
  `NextMovesWithAReservation` are checked by no run, because `RangeOwnsItsNumbers` and
  the refinement imply them; they are stated and proved for the reader.
  The second half of the module builds on that invariant. `AccessInv` says that a
  principal bound to an organization has checked whatever series is in its hands, the one
  whose counters it is about to show included, and that
  the audit trail has an event exactly for what is in the tables: `TenantIsolation`,
  `AuditTrailExact`. `ReaderInv` says what a reader has seen between its statements,
  which works because numbers are only appended and only change from reserved to void:
  `ReadersMissNothing`.
* **`DocumentCatalogProofs`.** `RowOK` says that the versions of a type form a chain, and
  `JobOK` what a handler knows at each position: a publisher that holds the lock still sees
  the chain it read, which is why its number is free. `KeysHeld` and `PublishersApart` say
  that an uncommitted key, and the row of a type, are in one handler's hands. Proved:
  `TypeOK`, `OneVersionInForce`, `PublishNeverConflicts`, `VersionsAreImmutable`.
  The second half adds what handlers remember. `SeedOK`: each canonical
  key is still to do, inserted by the load itself, or committed (`LoadIsComplete`).
  `SeenOK`: what a listing read first was the chain then, and the chain has only grown
  (`ListingIsRecent`). `AuditedOnce` counts events against versions (`ChangesAreAudited`).
  `ImplementsHistory`: commits that add versions map to steps that append, all others to
  stutters.
* **`AuthSessionProofs`.** `PositionInv` says what a handler knows at each position
  (its session exists, `stamp` is not after the last use), `LockInv` that a row is
  locked by one handler, `RowInv` that `seen <= used <= clock`. The lemma `Updates`
  gathers what the four writers of existing rows may do, and most theorems follow
  from it: `RevokedForGood`, `WorkKeepsItsSession`, `IdleWindowIsFromUse`,
  `DisabledUsersGainNothing`. `OnlyUserEditsDeadlock` is proved for cycles of any
  length: a handler on a cycle both waits and is waited for, and only handlers that edit a
  user (revoke his sessions, or change his `display_name`) ask for a lock while holding
  one. `SelectionInv` accounts for every live session of the user
  whose sessions are being revoked: it was selected, or was inserted since; with it
  `RevocationIsComplete` is proved of `HistorySpec`. `OwnerInv` ties the row of a session to
  its user and end; with it `ImplementsLifecycle`: commits map to `Open`, `Close`, `Revoke`
  and `Answer`, an accepted verdict to `Authenticate`, everything else to stutters.
  `RevokedForGood` and `IdleWindowIsFromUse` are checked by no run, because the refinement
  implies them.
* **`StepUpProofs`.** `LockInv` (one handler per session) is what makes the unlocked
  read of `attempt_count` exact: `VerdictInv` says that a handler about to write an
  answer has read the challenge as it still is. `GrantInv` ties every grant to the
  verified challenge that gave it. Proved: `TypeOK`, `AttemptsAreExact`,
  `OneGrantPerChallenge`, `LockedForGood`, `AllowedOnFreshProof`. `ReplacementInv` says that
  a confirmation under way has read every active factor but those activated while it was
  under way: `ConfirmationReplaces`. `ImplementsLedger`: commits map to `Issue`, `Wrong`, `Right` and
  `Void`, an operation that passes to `Allow`; the challenge that proves it is found from the
  grant it rests on. The refinement implies `OneGrantPerChallenge` and `LockedForGood`,
  which no run checks.
* **`AccessControlProofs`.** `WindowInv` ties what a request has read, and still will, to
  what the history `window` saw since it began. `ControlInv` says what is on the hands of a
  handler or script: whatever it is going to insert into an `AUDITOR` role is harmless,
  because the gate let it pass or because it is the baseline, which
  `AuditorBaselineIsHarmless` goes through; and by `ScriptOK` a canonical role is still to
  do, has its baseline, or is replaced by it with all its present rows deleted, as long as
  no commit raced the script. Proved: `TypeOK`, `RightsAreRecent`, `AuditorIsReadOnly`,
  `LoadRestoresBaselines`.
  `MatrixTheorem` gives `PublishedMatrixHolds` from `EndpointsProofs`.
* **`EndpointsProofs`** (about `Endpoints` and `PermissionCatalog`) is about the table of routes alone: no route is hidden by one that is
  included before it (`Dispatched`), and a request for a row of the published matrix goes to
  a route of that method and path which asks for the published permission (`RowsGranted`).
  The table is put together router by router; `Section` says of the
  routers so far that none of their routes hides a later one and which routers they belong
  to, so that two parts joined hide nothing of each other (`Joined`).
* **`DocumentOutputsProofs`.** `AnswerOK` says what each of the four previews and samples
  puts into its answer; the pure parts (templates found through aliases, codes between
  hyphens, defaults, marks) are lemmas of their own. Proved: `SamplesAreHonest`,
  `OutputsAreIdentified`, for all types, branches and organizations that satisfy `OutputAssumption`.
* **`OrganizationProofs`.** `JobOK` says what a handler knows at each position. What it has
  read without a lock may be stale; what it has written (`ReadyToCreate`, `ReadyToDelete`,
  `ReadyToUnlink`, `ReadyToAssign`) still holds at its commit, because `Apart` keeps two
  handlers that would undo one another (one deletes the row the other refers to, both add
  one code) from standing at their commits together. `Effect` is what the four commits have
  in common, and the lemmas on references, codes and locations are proved from it once.
  `StillAsRead` says what is known as long as nobody else has committed, from which
  `ErrorsAreTyped` follows; `LocationsApart` is the part of `LocationsArePrivate` about
  rows. Proved: `TypeOK`, `ReferencesHold`, `CodesAreUnique`, `LocationsArePrivate`,
  `AssignmentReplaces`, `ErrorsAreTyped`.

**Model-checked only.** Liveness (`EveryRequestEnds`, three runs) is out of the prover's
reach. What the violation runs refute is, of course, not proved either. Every other property
of a run is a theorem.

## 6. Where code and documents disagree

Checked by the three violation runs:

* **`session_reader`.** `verify_session` flushes `last_seen_at` and leaves the commit
  to the handler (`auth/service.py:208`). Handlers that only read do not commit, so a
  user who browses for longer than the idle limit is logged out as inactive, against
  `docs/security/authentication.md:28`. The property says that a session is closed for
  idleness only if it was not used for the limit.
* **`catalog_stale_list`.** The listing of versions loads the type with its versions and
  selects them again; SQLAlchemy's identity map keeps the rows of the first read
  (`documents/router.py:285`). A publication in between shows as two current versions,
  where `tests/test_document_catalog_flow.py:214` asserts one. `ListingIsRecent` is what
  does hold of a listing.
* **`stepup_single_use`.** A recovery code is selected unlocked and marked used at the end
  (`auth/step_up.py:257`). Two sessions of a user can redeem it together, where
  `auth/mfa_router.py:103` calls it single-use.

Seen while modelling, without a run of their own: a login that verified the old
password before a password change commits keeps the session it opens afterwards
(`auth/service.py:417` revokes "previous sessions"); a change of `display_name` alone can
be aborted with a 500 by the deadlock detector when its user is disabled meanwhile; disabling
the MFA factor deletes the grants it selected (`auth/mfa_service.py:256`), so that of a
verification which commits in between stays, where the comment a line above says that all are
revoked; a document type created without
`initial_version` is active with no current version, while migration `0007:164` speaks of
exactly one; two concurrent assignments of a role's permissions leave the union of both sets
(`organization/repository.py:219`), which is why `AssignmentReplaces` allows for what
was committed meanwhile. In the organization services:

* `docs/architecture/dependency-rules.md:41` guarantees typed errors. `ErrorsAreTyped` shows
  when an `IntegrityError` gets through instead: in races (a branch created while its
  organization is deleted), and, in the operator `Careless`, without any: deleting a branch that has a document series
  (`organization/service.py:366` counts warehouses; `documents/series_models.py:46`), an
  organization that has users or a role with the code of a global one, or a role that is
  assigned; a role id that names nothing, or a role named twice (`auth/repository.py:47`).
* Deleting an organization turns its roles into global ones, because the relationship
  (`organization/models.py:61`) has no cascade, where migration `0002:55` has custom roles
  per organization; it answers 500 if a global role has the same code.
* `assign_user_roles` checks the organization of roles given by code
  (`auth/service.py:534`) and not of roles given by id (`auth/service.py:515`).
* Deleting a warehouse, or giving it the location of its branch, leaves its row in
  `operational_locations` behind.

In the data and pure functions, which no run states as violated because no document
promises otherwise, or because the promise holds on a part that the property names:

* `docs/documents/numbering-standard.md:49` declares display codes unique in an
  organization. `OutputsAreIdentified` shows it for codes of types without a hyphen and
  codes of branches that differ in more than case; the schemas ask for neither, and the
  database has only `(series_id, display_code)`.
* A principal may hold a combination of rights that no moment had, because roles and the
  permissions of each role are read by separate statements (`auth/service.py:66`).
  `RightsAreRecent` is what does hold.
* The gate for `AUDITOR` (`organization/service.py:903`) lists actions, and the catalogue
  has mutations it does not list: manage, reserve, disable, approve and emit.
* The warnings on conflicting duties (`organization/service.py:829`) look for permissions
  that begin with the role's code in lower case, so those of `AUDITOR` and `MANAGEMENT`
  never appear.
* A type version asks for `documents.read` by default, which the catalogue does not have.
* The catalogued lifecycle of `SEAL` is not the one its template supports; `PSC` has no
  template in the catalogue and a sample with one; types of later phases name templates
  that are not registered. `render_sample_document` shows a display code of the form of a
  real order.

## 7. Plan

Done, in this order: `DocumentSeries` with `NumberAllocation` and its proofs,
`DocumentCatalog` with `VersionHistory`, `AuthSession` and its proofs, `StepUp` and its
proofs, `Organization`, then `PermissionCatalog`, `Endpoints` and `AccessControl` with its
proofs, `DocumentTemplates` and `DocumentOutputs`, the proofs of `DocumentCatalog` and those
of the readers and the audit trail of `DocumentSeries`, `OrganizationProofs`,
`DocumentOutputsProofs` and `EndpointsProofs`, the history modules of sessions and factors,
and the refinements of `SessionLifecycle` and `ChallengeLedger`. Left: to derive
`RevokedForGood` and the like from the abstract specifications instead of the detailed ones,
an abstract specification of assignments that joins `Organization` and `AccessControl`, and
the connection pool.

## 8. Not modelled

What Jinja2, WeasyPrint, the QR and hash libraries make of their input, the texts of
samples, and encryption: functions of libraries without state. Snapshot tables are not used
by any handler yet. Searches and exports of the audit trail and other lists are single
reads that change nothing. `create_user.py` and what `seed_demo.py` inserts into an empty
database besides roles run alone. Settings, logging, error formats, probes and the empty
domain packages have no behaviour; the routes of probes are in `Endpoints`. Migrations run
before the system; the constraints they create are guards of the modules. The connection
pool is not modelled: a handler takes its connection in `verify_session` before it holds
any lock, so a lock's owner never waits for the pool.
