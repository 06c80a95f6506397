# Verification of Dethernety: findings, class identity and the file-side clients

Dethernety is a graph-native threat-modelling platform. A model's elements
(components, flows, boundaries, data, controls) are bound to classes that come
with installable modules; each class has a Rego policy, and the platform derives
an element's findings (exposures, or countermeasures for a control) by
evaluating the policy of its class over the answers stored on the binding. This
project models the part of the backend that keeps those findings right while
users, module updates, restarts and a background sweep all write them, and the
part that keeps a class's identity, and its elements, across module updates. On
the client's side it models how model directories and control files are pushed
to the platform and pulled back, and the lock that serialises it.

## 1. Inventory

| Part | State it keeps | Operations | What is hard | What makes it correct |
|---|---|---|---|---|
| **Saves** `set-instantiation-attributes.service.ts` | answers, SYSTEM findings, policy stamps (database) | `setInstantiationAttributes` = attributes tx, evaluation, findings tx, stamp tx | three transactions with awaits between; a hash read first and used last | findings follow the stored answers; a stamp never names a newer policy than the one evaluated |
| **Element lock and batching** (same file) | `concurrentOperations`, `batchQueue`, `batchTimeouts` (memory) | `runExclusive`, `setAttributesWithBatching`, `processBatch`, `cleanupStaleBatches`, `onModuleDestroy` | polling callers, timers, cleanup and shutdown interleave | one operation per element; every caller is answered |
| **Binding changes** `element-binding.service.ts` | the `IS_INSTANCE_OF` edges | `changeElementBinding` to a class or to none | evaluates before, rewires and sweeps in one tx; races saves and the sweep | no findings of a class the element is not bound to |
| **Re-evaluation sweep** `finding-reevaluation.service.ts` | `running`, `again`, page, cursor, retry list | `request`, `sweep`, `reevaluate` | coalesced requests, work lists read before the lock is taken, failing elements | every binding behind its class's policy is eventually re-evaluated |
| **Module install** `module-management.service.ts` | `:Module` and class nodes, `policyHash`, `installChain` | `updateAllModules`, `resetSingleModule`, catch-up, notification | partial failure per class and per module, skip gate | a changed policy is written and announced; identities of classes survive |
| **Module registry** `module-registry.service.ts` | module objects by name | load with retry, `reloadModule`, `resetModuleById`, health probe | a reload swaps and disposes an object operations still hold | a disposed object never answers |
| **Module base class** `dt-file-opa-module.ts`, `rego-engine.ts` | compiled policies | `getMetadata`, `evaluatePolicy`, `getPolicyHash`, `dispose` | metadata re-registers policies while operations run | the hash it reports is of the policy it evaluates with |
| **Dispositions** `disposition-resolver.service.ts` | triage state, supersede copies, `dispositionStale` | set, clear, supersede | the stale flag depends on links read earlier | a triaged finding whose links changed is flagged |
| **Class identity** `class-reconciler.service.ts`, `class-identity-*.service.ts`, `upsertClass` | class nodes, orphan marks, event log | rename, orphan, revive, rebind; an administrator's migrate, revive, delete, clean-up | long sequences of installs; administrators whose checks and writes are separate transactions | one node per id and per name of a module, instances stay attached, a clean status means the declared classes are active |
| **Analyses** `analysis-resolver.service.ts` | running analyses, sessions, metadata cache | run, chat, resume, delete | long-running work against deletes and time-outs | no result for a deleted analysis |
| **Embedder** `embedding.service.ts` | start-up state | start, ready callback, shutdown | bounded start-up wait against late readiness | catch-up runs exactly when something was left |
| **Control library lock** `lock-helper.ts` | lock file and break claim | `acquireLock`, `releaseLock` | several file operations per decision, crashes with the lock or the claim held | one holder; a live lock is never removed; a dead one does not block for ever |
| **Control library** `dt-control-library.ts`, `wal-helper.ts`, `audit-log-writer.ts` | `controls/<id>.json`, ids in the model documents, rewrite journal, audit log | create, push, pull, edit, promote, tombstone, clear the journal | crashes between platform call and file, other operators, retries | one Control per publication, documents agree on its id, no value overwritten unseen, no edit lost |
| **Model push** `dt-update.ts`, `update-model.tool.ts` | model directory, `idMapping`, processed ids | update, create, reconcile conduits, write answers, delete orphans, export back | deletion by absence beside failures by element, lost answers, non-idempotent connects | success means the platform equals the documents; a failure costs only what it concerns |
| **Other clients** dt-ui, dethereal | local stores, tokens | auto-save, validation, token refresh | retries, stale local copies | - |
| **Operator console** byodt-console (Go) | staged payloads, module directories | stage, swap, roll back | crash between renames | the module directory is the old or the new payload |

How they interact: a GraphQL mutation takes the element's lock and runs a save
or a binding change, which asks the registry for the class's module object,
evaluates through it and writes the graph. A module install (at start, by an
operator's reset, or when the embedder becomes ready) writes `policyHash` on the
class nodes and requests a sweep; the sweep takes the same element lock and
saves each stale binding again through the save's own path. A health probe calls
`getMetadata`, which re-registers whatever policies are on disk.

The dethereal plugin keeps a model as a directory of documents. `update_model`
pushes the whole directory and replaces it by an export; `manage_controls` works
on one Control at a time, with the library lock held and after replaying what a
dead predecessor left in the journal. Both go through the GraphQL mutations, and
the answers they write are the saves above.

## 2. Modules

| Module | Models |
|---|---|
| `FindingDerivation` | saves, binding changes, sweep, install, registry and the module's compiled policies, on one or several instances |
| `MCFindingDerivation` | its small instances |
| `ElementMutex` | what `runExclusive` promises: at most one operation on an element |
| `ElementLock` | `runExclusive` and the auto-save batching for one element of one process; implements `ElementMutex` |
| `MCElementLock` | its small instances |
| `ClassIdentity` | the install run (skip gate, class upserts, reconciliation, status, obsolescence sweep, hooks), the administrator's class mutations, the identity clean-up and binding changes |
| `MCClassIdentity` | its small instances: which class lists releases may declare |
| `LibraryLock` | the lock of a model directory: acquiring, breaking a stale lock under a claim, releasing |
| `MCLibraryLock` | its small instances |
| `ControlLibrary` | one Control: its file, the journal, the platform, the calls of `manage_controls`, other operators |
| `MCControlLibrary` | its small instances |
| `ModelUpdate` | a push of a whole model and the operator's edits between pushes |
| `MCModelUpdate` | its small instances: the model at the beginning and what may be added |
| `ElementLock_proofs`, `FindingDerivation_proofs`, `ClassIdentity_proofs`, `LibraryLock_proofs`, `ControlLibrary_proofs`, `ModelUpdate_proofs` | theorems about the modules of those names |

`FindingDerivation` uses the exclusion that `ElementLock` implements: its action
`Enter` is the abstract `ElementMutex`, per instance and element.
`ClassIdentity` is the other side of the install that `FindingDerivation` sees as
one write of policy hashes: there the classes are fixed and their policies
change, here the policies are left out and the classes come, go and change names
and ids.

`ControlLibrary` runs one call at a time, which is what `LibraryLock` is for; the
race of section 6 is where that assumption fails.

## 3. How the models correspond to the code

### FindingDerivation

State. The database is five functions: `hash` (a class node's `policyHash`),
`bound` (the `IS_INSTANCE_OF` edges that exist), `answers` (the attributes stored
on the edge), `findings` (the SYSTEM findings of an element and class) and
`stamp` (the element's policy stamp for the class). Process memory is `engine`
(compiled policies per class), `gen` and `reload` (which module object the
registry holds, and one that is loaded but not yet swapped in), `up`, `install`
(the running install and the resets that wait on `installChain`), `sweep`
(`running`, `again`, cursor, page and retry list) and `op` (the local variables
of each running operation). `disk` is the module directory.

Abstractions. Findings are represented by what they were derived from, a policy
and a version of the answers, because that is what the properties tell apart;
rule evaluation is external. Policies are numbered in release order and a hash is
that number, so two different policies never share a hash; a release never brings
an earlier policy back, so a rollback to an earlier hash is not covered; `None` is no hash,
`NoPolicy` the hash of a class without a policy file. Answers are a version that
a changing save increments. One `:Module` is modelled, with all classes in it.

Actions of an operation, in the order of the code:

| Action | Code |
|---|---|
| `Request`, `Enter` | resolver call, `runExclusive` |
| `Reread` | `reevaluate`'s query under the lock (sweep only) |
| `WriteAttributes` | the attributes transaction of `setAttributes`; refused when unbound |
| `Preflight` | `changeElementBinding`'s reads and its early returns |
| `GetModule`, `ReadAnswers`, `Evaluate` | module lookup, attribute read and `evaluatePolicy`, each after its own await |
| `WriteFindings` | the findings transaction: upserts and the deletion of what was not emitted |
| `Vouch`, `Stamp`, `StampFail` | `policyHashToStamp`, `stampPolicy`; a stamp that fails does not fail the save |
| `Rewire` | the one transaction of a binding change |
| `Fail`, `Release` | an error or time-out, and the end of the exclusive section |

Installs are `Boot` / `StartReset` / `CatchUp`, then `InstallMetadata`,
`InstallWrite` (with any subset of the classes failing), `InstallSkip` or
`InstallFail`, then `InstallNotify`. `Fail` ends an operation at any of its steps;
where several calls of a step may fail with the same effect it is one action. A reload is `Reload` (load) and `Swap`
(replace and dispose). `Crash` loses everything in memory.

### ElementLock

One element of one process: `concurrentOperations`, the batch queue and its
timer, and for every call where it is. Calls are numbered in the order they may
arrive. Polling is a step that looks at the record; the debounce timer, the
stale-batch cleanup and `onModuleDestroy` are actions of their own.

### ClassIdentity

State. `nodes` are the class nodes of one label (owner, name, id, and whether the
owner reaches it by `HAS_CLASS` or by `HAS_ORPHANED_CLASS`), numbered like the
database's internal ids; `inst` is the node an element is an instance of; `module`
is the `:Module` node's `lastInstallStatus` and `contentHash`, the latter
represented by the release it is the hash of. `disk` is the modules directory,
`registry` what this instance loaded, `run` the local variables of
`runUpdateAllModules` or `runResetSingleModule`, `tx` those of `upsertModule`
with the transaction's working copy of the nodes, `req` an administrator's
request and `bind` a binding change between its check and its write.

| Action or operator | Code |
|---|---|
| `UpsertResults`, `UpsertByName`, `Rebind`, `UpsertById`, `CreateClass` | `upsertClass`: the name decides, then the id; its five cases |
| `Boot`, `Reset` | `onModuleInit` with `loadModules` and the skip gate (`Unchanged`); `resetSingleModule` |
| `BeginModule`, `Upsert`, `UpsertThrows` | phases 1 to 3 of `upsertModule` |
| `ListUndeclared`, `CountInstances`, `Reconcile`, `ReconcileThrows` | phase 4, statement by statement |
| `Commit`, `Abort` | phase 5 and the commit, or a rollback |
| `SweepObsolete`, `SweepThrows`, `RunHooks` | `deleteOldModules`, `runAfterInstall` |
| `Migrate*`, `Revive*`, `Delete*` | the transactions of `migrateClassId`, `reviveOrphanedClass`, `deleteOrphanedClass` |
| `DedupRead`, `MergeGroup`, `MergeFails` | `findDuplicateGroups`, `mergeGroup` |
| `BindCheck`, `BindWrite`, `Unbind` | `lookupClassStatus`, `rewireToClassSingle`, `rewireToNone` |

Abstractions. `LIMIT 1` is a choice among the matching nodes. `silent` acts as
`audit` (they differ in logging). A class's policy hash is left out except for
the skip gate's drift check, where a declared class whose active node is missing
or has another name counts as drift. Embeddings and the catch-up install are
left out: an install that keeps vectors is `partial`, as one with a failed class
is. A module without metadata at load stays without it for that start.
`ReadCommitted` says whether a statement of a transaction sees what others
committed since it began (Neo4j) or conflicts with it (Memgraph's snapshots); an
administrator's write waits while an install's transaction is open, since both
write the same nodes. The cascade limit of a deletion, `idAliases` and events
are left out. Resets are modelled of modules that are registered and on disk only.

### LibraryLock

State: the contents of `.control-library.lock` and of its `.breaking` claim, the
live processes, and for every process where its call is (`pc`), its own payload,
the holder and the claimant it read. Every file operation is a step: `Acquire` (the
first link), `Inspect`, `Probe` (signal zero), `Claim`, `InspectClaim`,
`ProbeClaim`, `CleanClaim`, `Recheck`, `Break`, `Take`, `Confirm`, `DropClaim`,
then `ReleaseRead` and `ReleaseUnlink`. `LinkError` is a link that fails for
another reason; `Crash` leaves the files, and the process stays dead. Nonces are
numbers that no file and no call holds, and are used again; that stands for the
code's random ones, which differ from each other. `raced` records that
a call took an absent lock for a corrupt one or removed a live process's claim as
abandoned. The private temporary file is left out, since only its owner sees it.

### ControlLibrary

State: `control` (the files by id), `refs` (the id each model document holds),
`journal`, the platform's Controls with their attributes and edges, and the local
variables of the one running call. Id 0 stands for the temporary `greenfield-` id.

| Action | Code |
|---|---|
| `BeginReplay`, `RewriteDoc`, `RewriteControl`, `Rename`, `UnlinkJournal` | `applyPendingRewrites` file by file |
| `StartGreenfield`, `CreateControl`, `AppendOperation`, `FlipLifecycle` | step A of `pushGreenfieldControl`, with its resume guard |
| `SetAttributes`, `RecordAttributes`, `AssignEdges`, `Finalise` | steps B to D |
| `StartBrownfield` | the sync skill's preview, the operator's answers to the conflicts it shows (`Reviewed`), steps 0 and A of `pushBrownfieldControl` |
| `PushPlan` | steps B to E: re-read or fall back on the preview, classify each attribute, resolve conflicts by the answers given before, shared ownership |
| `Mutate`, `WriteFile`, `Flush` | step F: a mutation per class, one file write, the audit entries after it |
| `Pull`, `Tombstone`, `SetLocalEdited`, `Promote`, `ClearWal` | the other calls of the tool |
| `HandEdit`, `Foreign`, `ForeignDelete` | an editor, another operator |
| `Fail`, `PlatformRefuses` | a crash or an exception; a mutation of a deleted Control |

The operator's answers (`decision.perKey`) are an argument of the call. They are
given for the values of the preview, and another operator may write between the
preview and the re-read of step B; a conflict that has no answer ends the call.
No other call of the tool runs in the directory between preview and push: the
lock is not held during the review, but one operator's session makes its calls
one after another.

Attribute values are only compared. Timestamps appear as two facts per class: it
has a `localEditedAt`, and its `pushedAt` is not older. The audit log is counted,
`reverted` entries included; it is only ever appended to. A crash and an exception differ only in who releases
the lock, so `Fail` is both.

### ModelUpdate

State: `doc` (the directory, elements by key), `nodes` and `conduits` (the
platform) and the fields of `DtUpdate` while a push runs. A key is a server id or
a local reference id. An element has its structural fields (`val`) and its
answers (`ans`), two values each, since they only matter by being equal.

| Action | Code |
|---|---|
| `Start` | validation and `fetchExistingModelStructure` |
| `UpdateDataItem`, `UpdateDefaultBoundary`, `UpdateBoundary`, `UpdateComponent`, `UpdateDataFlow` | the update handlers, one shape (`Update`): refused, or written with the binding refused or the answer lost |
| `CreateDataItem`, `CreateBoundary`, `CreateComponent`, `CreateDataFlow` | the create handlers (`Create`); a lost answer leaves a node nobody knows of |
| `SkipFlow` | a flow whose end has no server id |
| `WriteConduits`, `WriteAnswers` | `writeConduitsForBoundary`, the queued attribute writes |
| `DeleteOrphan` | `deleteOrphanedElements`, by kind; deleting a component takes its flows, deleting a boundary leaves its children without a parent |
| `Give`, `WriteBack`, `Die` | errors recorded, the export over the directory, a dead push |
| `Add`, `Remove`, `Move`, `Change`, `Retarget`, `Connect` | the operator's edits, which keep the documents well-formed |

Elements are written in any order that puts a parent before its children, of
which the recursion over the JSON is one. A directory is written back in one
step. The ends of a flow are components, as in the platform's schema
(`schema.graphql:377`); the documents' schema would also let one name a boundary
(`collectFlowEndpointIds`), which the modelled operator does not do. An export has
the flows that touch a component of the model, and deleting a component takes its
flows. Local attributes and classes that the platform does not know, which the
write-back merges into the export, are left out. The answers of the default boundary are not pushed by
`updateDefaultBoundary` and are left out of the properties.

## 4. Runs

| Run | Shows |
|---|---|
| `stamp_rebind` | saves, binding changes, sweep, releases, probes, reload and catch-up on an element with two candidate classes: stamps are never newer than the findings, and exact at rest |
| `stamp_sweep` | two elements in pages of one, the sweeps of a start and of a reset, a release, a crash and a failing step: every binding is brought up to date |
| `stamp_faults` | policies that do not compile, missing files, a release during a reload, failing steps and sweeps |
| `element_lock` | five calls (four saves, one direct) with debounce and cleanup: exclusion, implementation of `ElementMutex`, every call returns |
| `lock_after_shutdown` | the same with `onModuleDestroy` at any moment: no call evicts another's record, direct calls return |
| `identity_install` | one module, two releases with any lists of up to two classes (reuse, rename, swap, double declaration), both rebind policies, a reset, a binding change, a failing step: unique ids and names without a database constraint, exact authoritative installs, no element unbound |
| `identity_modules` | two modules that compete for ids, three releases or withdrawals, a failure and a crash anywhere; the failure may be a module that does not load at one start, or registers under its directory's name, and is swept while on disk: unique ids, a start skips only what is installed, every module ends up authoritative, in a clash over an id, or gone |
| `identity_admin` | two administrators migrate, revive, delete and clean up a graph with legacy duplicates while another instance starts and installs, with the id constraint: a merge leaves every element a class of its module, and no duplicate comes back or is made |
| `library_lock` | three processes, two crashes or failing links: unless a call took an absent lock for a corrupt one or removed a live claim, one holder at a time and no live holder's lock is removed; with calls that keep coming some call gets in again |
| `control_library` | two classes with an attribute each, one of them still to be written for the first time, two documents to rewrite, another operator, crashes at any step: documents and file agree on the id, one Control per publication, no value overwritten that differs from what the edit began from unless the operator answered for it, a retry meets no conflict with itself, no audit entry twice, brownfield means everything is pushed, a settled edit is on the platform, publication is finished |
| `model_update` | a boundary, two components, a flow and a conduit; two edits out of every kind; one refused call, lost answer or dead push: success means agreement, damage is local, pushing again repairs |
| `library_lock_race` | violated: two holders without any crash, section 6 |

Further configurations are kept beside the listed runs. These pass:
`two_users.cfg` (two users save and rebind one element at once, with a failing
step: `FindingsFollowAnswers`, `NoFindingsOfOtherClasses`, which `stamp_faults`
also checks), `sweep_race.cfg` (a user's save or binding change of one element
races the sweep, with a crash and a failed step: `EventuallyFollowsThePolicy`),
`model_update_nested.cfg` (nested boundaries with a conduit and a data item, two
faults: the properties of `model_update`) and `model_update_cycle.cfg` (two
boundaries that change places in three edits with a refused call, so that for a
while the platform has them inside each other and neither in the model: the
safety properties of `model_update`). The others drop one condition of a
passing run, or state a stronger property, and are violated, as section 6 says:
`stamp_two_instances.cfg`, `stamp_missing_file.cfg`, `stamp_reload_race.cfg`,
`sweep_late_binding.cfg` (module `MCFindingDerivation`), `latest_wins.cfg`,
`lock_shutdown.cfg` (`MCElementLock`), `identity_load_failure.cfg`,
`identity_reset_hash.cfg`, `identity_migrate.cfg`, `identity_rename.cfg`,
`identity_delete_race.cfg`, `identity_read_committed.cfg`,
`identity_cleanup_race.cfg` (`MCClassIdentity`), `control_audit_gap.cfg`,
`control_pull_partial.cfg`, `control_merge.cfg`, `control_accept_two.cfg`,
`control_stale_decision.cfg` (`MCControlLibrary`) and `model_update_loss.cfg` (`MCModelUpdate`).

Bounds. Policies 1..2 give an old and a new one; three (in `stamp_faults`) put a
broken one between two good ones. Two requests on an element with two classes
cover save against save, save against binding change and both against the
sweep; three are used where answers matter. One crash and one failure are enough
for every "between two steps" case, since each can happen at any step. A page
size of one with two elements makes the cursor and the coalescing matter. One
worker suffices where the sweep is the second actor. `MaxPolicy`, `MaxRequests`,
`MaxResets`, `MaxCrashes`, `MaxFails` and `MaxSweepFails` are the only bounds,
and the theorems hold for all values of them. Deadlock checking is off because
a system with its bounds used up and nothing left to do may stop; in
`ClassIdentity` it is on, as an idle platform can be restarted.

In `ClassIdentity` two ids and two names are enough for every pairing of the
five cases (same name with another id, same id with another name, both taken by
different nodes); two releases give a graph and a change to it, three also a
return to the first. `identity_modules` has no reset and modules that ship their
hash; a reset without one is `identity_reset_hash`. One load failure at any start
is enough to have a module swept and installed again. `MaxNodes` is never reached. The bounds are `MaxNodes`,
`MaxReleases`, `MaxResets`, `MaxStops`, `MaxFails`, `MaxRequests` and `MaxBinds`.

In `LibraryLock` three processes are a holder, a breaker and somebody who slips
in between, and two faults are a crashed holder and a crashed breaker; `MaxNonce`
is never exhausted, since eight nonces are more than files and calls hold at
once. Deadlock is not checked there, as all processes may be dead.
In `ControlLibrary` two classes give the loops of both pushes a middle, three
values an old, an own and a foreign one; one fault, one foreign change and two
edits put a crash, a retry and a conflict together. The one foreign change falls
before the preview, between preview and re-read, or after it; two, one of them
answered at the preview and one after it, are `control_stale_decision`, and the
theorem `NoBlindOverwriteHolds` is for any number. `MaxCreates` bounds the
Controls that calls dying right after `createControl` leave behind, one per
fault; with the bounds used up nobody need call again, so deadlock is not checked.
In `ModelUpdate` two edits are a dependent pair (a new component and a flow to
it, a move and a removal); `MaxIds` is more than one fault can use up. An idle
operator can always push, so deadlock is checked.

Fairness. `FairSpec` assumes weak fairness of each operation's next step, of each
instance's install and sweep steps and of the restart of a dead process. Awaited
promises are resolved or rejected (the database driver and the module calls have
time-outs), the sweep and the install are plain loops, and the deployment
restarts containers. Nothing is assumed of users, operators, probes or failures.
In `ElementLock` the timers and polls are weakly fair; the polling wait needs
strong fairness to be served when others keep taking the element, which the code
does not guarantee in general: with finitely many calls weak fairness is enough.

`ClassIdentity`'s `FairSpec` assumes that a started process finishes its install
run (a loop over awaited calls that end) and that the platform is started again
when it is down and restarted now and then: the code repairs a `partial` module
at a start only. `InstallsSettle` leaves out a module that claims an id another
module's class has: it stays `partial` by design.

`LibraryLock`'s fairness: a call runs to its end, and callers call again. In
`ControlLibrary` a call runs to its end, and `EventuallyPublished` needs an
operator who keeps calling `push-greenfield` (strong fairness, since other calls
come between). In `ModelUpdate` a push runs to its end and the operator pushes
again. Calls end because the platform answers or times out; that somebody calls
again is the operator's part of the bargain, and the documentation's answer to
every partial failure.

Symmetry is used only in the configuration `two_users` (the two workers are interchangeable, and
only invariants are checked there).

## 5. Proofs

All theorems are checked by TLAPS for every value of the constants that satisfies
the named assumptions (finite sets of instances, workers and modules, bounds that
are numbers, model values distinct from the members of the sets they stand
beside, class lists and legacy nodes of the right types). A theorem that needs
more names it as a definition in front of `Spec`; where a configuration of section
4 shows a behaviour without the condition, it is named below. The runs are
instances of the conditions, so each is met by the states TLC explores.

`ElementLock_proofs`

* `ExclusionTheorem`, `NoMergingTheorem`, `RefinementTheorem`: without a shutdown,
  mutual exclusion, a batch queue of at most one save (so the debounce never merges
  two), and that `ElementLock` implements `ElementMutex`. The inductive invariant
  says who may be where: the record names exactly the call that is inside, a queued
  save is the one that holds the record, and a timer exists only for a queue.
* `ExclusionUntilShutdown`: the same exclusion where a shutdown may come, until it
  does. `TypesHold` and `OwnerReleasesTheorem` (a record is removed by its own
  operation or by the shutdown) hold throughout.

`FindingDerivation_proofs`

* `TypesHold`: types, for any number of instances and any disk faults. The
  version of a binding's answers stays in its domain only because a request is
  counted before its answers are written; the invariant therefore counts the
  requests still to be written (`Pending`).
* `Exclusion`: on one instance (`OneInstance`) no two operations hold one element.
* `NoFindingsOfOtherClassesHolds`, `FindingsFollowAnswersHolds`: on one instance,
  whatever happens to the module directory. The invariant: the findings of a
  binding follow its answers, or an operation that holds the element still owes
  them (`Owes`), and what an operation evaluated is what is stored, since nobody
  else writes the element meanwhile.
* `StampNeverNewerHolds`, `StampNamesThePolicyHolds`: on one instance whose module
  directory is replaced only between reloads (`SteadyDisk`). Both conditions are
  needed: `stamp_two_instances` drops the first, `stamp_missing_file` and
  `stamp_reload_race` the second.

The last two need an invariant about what operations carry across their awaits.
Its centre is `Reached(i, c, p)`: policy `p` is no newer than the file and no
newer than the compiled policy, if one is held. Policies only move forward
(`Advance`: files get newer, an engine keeps its policy, loses it or gets the one
on disk), so `Reached` is stable. The invariant says that every hash in the
database, in an install and in an operation before its evaluation has been
reached, so the policy an evaluation uses is at least the hash read before it, at
least the policy of the findings it replaces and at least their stamp. After
the evaluation the operation carries `hash <= pol`; the exclusion by element
guarantees that nobody else touches the binding meanwhile (`Others`).

`LibraryLock_proofs`: `TypesHold`, `ExclusiveUnlessRacedHolds`, `LiveLockKeptHolds`,
for any number of processes, crashes and failing links. The nonces in use tell
payloads apart; a breaker goes by a holder it found dead, and the dead do not come
back; without a race the claim file is that of the one live process between its
claim and dropping it, the lock it is about to break is the dead one it read, and
the lock of a process in its action is its own. That the two races are real is
`library_lock_race`.

`ControlLibrary_proofs`, for any classes, attributes, values and documents and any
number of calls, crashes, edits and changes by others:

* `TypesHold`, `RefsAgreeHolds`, `OneControlPerPushHolds`, `NoBlindOverwriteHolds`:
  without any condition. The invariant says what lies where while a rewrite is
  half done: one file, at its id's path but for a greenfield file that already has
  its new id, and a journal that says how to finish it.
* `AuditOnceHolds`: unless the journal was deleted by hand (`cleared`), after which
  two files may name one Control.
* `BrownfieldIsCompleteHolds`: when no file is pulled before it is published
  (`PullsPublished`; `control_pull_partial` shows what such a pull does). What a
  file records as pushed is on the platform.
* `RetryHasNoConflictHolds`: when only brownfield files are pulled
  (`PullsBrownfield`) and the journal was not deleted. While nobody else writes, and
  for one edit, every copy of the file agrees with the platform but for that edit.
* `EditEndsSettledHolds`: when the operator's answers are ones that Step D writes
  down in full (`AnswersKept`; `control_merge` and `control_accept_two` show the
  others).

`ClassIdentity_proofs`, for any modules, class lists, elements, administrators and
releases:

* `TypesHold` and `MergeKeepsInstancesHolds`: without any condition. The invariant:
  the nodes of a clean-up group that still exist have one owner, an element's class
  exists, and no node that a clean-up refers to becomes another class.
* `InstallKeepsInstancesHolds`: with snapshot isolation (`Snapshots`); on Neo4j see
  `identity_read_committed`.
* `UniqueIdsHolds`, `UniqueNamesHolds`: from a graph with distinct ids (and names of a
  module), and with the UNIQUE constraint or without migrations (`IdsGuarded`;
  `identity_migrate`). The invariant covers the transaction's working copy too. Its
  core is `UpsertEffect`: with unique ids, each of `upsertClass`'s five cases leaves
  the graph alone or makes one node the declared class, a node that was free, that
  had the name, or whose name is no longer declared.
* `DuplicatesDoNotReturnHolds`: with distinct ids and `IdsGuarded`, but from any names,
  so of the graphs the clean-up is for: an open transaction's copy has no two nodes
  of one module and name that the graph does not have (`PairInv`).
* `AuthoritativeIsExactHolds`: under the conditions of `UniqueNamesHolds`. By induction over the
  install's steps the working copy has every class applied so far in place, and what
  is left to reconcile is what is active and undeclared.
* `SkipsOnlyInstalledHolds`: without mutations and with modules that ship their hash
  (`HashesStand`; `identity_reset_hash` for the second, and a revival activates a class
  without taking the status away). An install's transaction touches no other
  module's nodes, so a Module node's status and hash keep saying what the graph
  holds.

`ModelUpdate_proofs`, for any first model that the schema allows (`FirstAssumption`),
any elements to add and any bounds:

* `TypeCorrect`: every variable keeps its domain.
* `SuccessIsSynced`: a push that records no error leaves the platform as the
  documents say.
* `DamageStaysLocal`: an element the documents name leaves the model only through a
  failure of itself, of a boundary around it or of an end of it.

`Inside` defines the boundaries in an element as the least set closed under children,
so that induction over the tree is an instance of the definition, with no recursive
operator. The inductive invariant `Inv` says, phase by phase, what the maps of
`DtUpdate` mean: fetched ids stand for themselves and no two keys share an id
(`MapInv`); what was written lies where the documents have it (`ParentInv`); what was
not is still to do, or lies in something that failed (`WorkInv`); without an error
platform and documents agree on everything written (`SyncInv`, `ConduitInv`). For the
third theorem, `BlameInv` says that a key fails once and a flow that did not fail has
its ends, and `Reached`, by induction over the documents' tree, that an element that
was written is in the model or lies, on the platform, in something that failed. TLC
checked `Inv`, `BlameInv` and `Reached` as invariants of the instances before they
were proved. An earlier form of `DamageIsLocal` looked for the failure by the
documents alone; the proof did not go through, because a refused move and the
opposite move after it can leave two boundaries inside each other on the platform
(`model_update_cycle.cfg`), so that an element is lost through a boundary it is in only
there. The property therefore speaks of both trees.

The proofs avoid three forms that this version of the prover does not translate
reliably: the empty sequence used as a function, two updates at one index in one
`EXCEPT`, and `@` inside a nested `EXCEPT` that has one of its own. Every leaf was
also tried against its hypotheses alone, to see that they are not contradictory by
accident.

Only model-checked: the liveness properties `EveryCallReturns`, `DirectCallsReturn`,
`SomeCallGetsIn`, `EventuallyPublished`, `EventuallySynced`,
`EventuallyFollowsThePolicy` and `InstallsSettle` (fairness and `ENABLED` are out of
the prover's reach). Every other property of the passing runs is stated by a theorem.

## 6. Disagreements between documentation and code

The first is the violation run; the rest are violated in the configurations of
the same names.

* `library_lock_race`: `readHolder` returns `undefined` both for a corrupt and for
  an absent lock (`lock-helper.ts:201`). P1 holds the lock; P2's link fails; P1
  releases; P2 reads nothing, takes the lock for a corrupt one and claims; its
  re-check compares `undefined` with `undefined`; P1 or P3 takes the free lock; P2
  unlinks it and links its own. Two live processes hold the lock and nobody has
  crashed, against "any one MCP action serialises against another" (`:20`) and "a
  live holder's lock is never moved, renamed, or overwritten on any path" (`:33`).
  Likewise a claim that is absent when it is read is cleaned as abandoned, so a
  live claim can be removed without the crashed breaker that the comment at `:62`
  requires; and after a race three processes can go on breaking each other's
  lock.
* `control_audit_gap`: a brownfield push that dies after its mutation and before
  its write is finished by the retry's already-applied path, which writes no audit
  entry; `dt-control-library.ts:863` says the push "happened, and audited, on the
  attempt that crashed before persisting", but entries are buffered until after
  the write.
* `control_pull_partial`: a pull of a `partially-pushed` Control makes it
  `brownfield` and replaces attributes that were not pushed yet.
* `control_merge`: after a conflict resolved by merging, the file records our value
  as the platform's while the platform has the merged one.
* `control_accept_two`: two conflicting attributes of one class, both answered
  `accept-theirs`: each is written over the entry as it was before, so the first
  is lost (`dt-control-library.ts:919`).
* `control_stale_decision`: the operator answers `keep` for a foreign value that the
  preview shows; another value is written before the call's re-read; Step D looks
  the answer up by key (`dt-control-library.ts:902-916`) and overwrites a value that
  nobody was shown. The comment at `:681` says "Per-control fresh-fetch closes the
  window", and `skills/sync/SKILL.md:1055` that "the conflict-detection step will
  catch any new server-side drift and re-prompt for per-key resolution". It does so
  for attributes without an answer, which is what `NoBlindOverwrite` says.
* `model_update_loss`: an element the documents name can leave the model when the
  move or creation of a boundary around it, or of an end of it, is refused: it is
  then not processed and deleted as an orphan, or goes with its component, or is
  stranded. `dt-update.ts:758` says of a data item that it "EXISTS, so it must not
  become an orphan-delete target even if the update itself failed". `DamageIsLocal`
  says how far this reaches.
* `stamp_two_instances`: with two instances a stamp can name a newer policy than
  the one evaluated, because `policyHashToStamp` asks for the policy held after
  the evaluation and a health probe may have replaced it.
* `identity_load_failure`: a module on disk that fails to load at one start is
  removed with its classes, although the sweep is to "delete only modules that no
  longer exist on disk" (`module-management.service.ts:1717-1723`). A later start
  installs it again (`InstallsSettle`), but its elements have lost their classes.
* `identity_reset_hash`: a reset of a module written in code leaves the previous
  release's content hash, so a rollback to that release is not installed.
* `stamp_missing_file`: a policy file that is absent for a moment yields no
  findings under a stamp of the compiled policy.
* `stamp_reload_race`: a release between a reload's load and its swap has the
  same effect on one instance.
* `sweep_late_binding`: an element bound while an install changes its class's
  policy, and evaluated before it, may be written after the sweep has read its
  last page; it keeps the old policy's findings until the next install or start.
  The stamp says so, which is what the documentation promises; that a sweep
  follows is not promised. `EventuallyFollowsThePolicy` is therefore checked for
  elements bound when the sweep begins.
* `latest_wins`: waiting saves are not served in the order of arrival, so the
  older answers may be the ones kept.
* `lock_shutdown`: `onModuleDestroy` removes the records of running operations.
* `identity_migrate`: `migrateClassId` does not look for the new id among the
  module's own classes; without the UNIQUE constraint two classes share it.
* `identity_rename`: a class renamed, under its stable id, to the name of a class
  dropped in the same release loses its node.
* `identity_delete_race`: a class revived after `deleteOrphanedClass` checked it
  is deleted while active.
* `identity_read_committed`: on Neo4j an element bound while an install drops its
  class loses the class.
* `identity_cleanup_race`: an install between the clean-up's read and its merge
  can move elements from one class to a class of another name.

Further observations, from reading the code for the models: the answers of the
default boundary are never pushed by `updateDefaultBoundary`, and the export then
overwrites a local change of them; the deletions that `deleteOrphanedElements`
awaits report failure by `false`, so its warnings never appear; after `clear-wal`
in the middle of a replay `controls/<temp id>.json` holds the server id, so two
files can name one Control; `promoteExternalEdit` records nothing for an attribute
the platform does not have, so a hand-added attribute is never sent.

## 7. Plan

Done so far, in this order: `FindingDerivation`, `ElementLock`, `ClassIdentity`,
`LibraryLock`, `ControlLibrary`, `ModelUpdate`, and the proofs of section 5.

1. `FindingStore`: findings as nodes with links, dispositions, supersede copies
   and the stale flag; what the findings transaction keeps of a triaged finding.
2. `ModuleLoading`: the registry's load with time-out, retry and late loads.
3. Controls with several classes in `FindingDerivation`.
4. `AnalysisRuns`: run, resume, delete and the sessions; the embedder's start-up.
5. The operator console's stage and swap across crashes; dethereal's token
   refresh and the file-by-file write of a directory; dt-core's import.

## 8. Not modelled

The repository is mostly code without state that outlives a request, or without
logic of its own. Search and ranking are stateless queries; validators, drift
reports and document checks are pure functions of their input that unit tests
reach; the web interface is views over stores whose contents come from the
server; schema bootstrap, deployment and the generated GraphQL layer are I/O or
data; module content is data. What has state and is still open is in the plan.
