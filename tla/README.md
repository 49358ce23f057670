# A verification of incendiary-iguana in TLA+

`incendiary-iguana` reconciles Kubernetes custom resources against Azure. It is
a controller manager (`main.go`, `controllers/`), a set of clients that look,
create, update and delete one kind of Azure resource each (`pkg/clients/`), and
`tinker`, a command line tool that runs the same clients over a file of
manifests (`cmd/ensure/ensure.go`).

This directory holds TLA+ models of the parts whose correctness depends on
ordering, staleness, retries and partial failure, TLC configurations that check
them on small instances, and proofs that TLAPS checks for every instance.
`PROJECT.json` ties each definition to the lines it stands for, each run to its
properties, and each property to a slip in the code that would break it.

## 1. Inventory

| Component | State it keeps | Operations | Hard behaviour | Correct when |
| --- | --- | --- | --- | --- |
| Asynchronous reconciler (`controllers/async_controller.go`) | the object in the API server, its copy in the informer's cache, the work queue, the Azure resource | `Reconcile`: fetch, add the finalizer, `Az.Delete` or `Az.Ensure`, status, remove the finalizer | a cache that lags, writes refused or lost, answers of Azure lost, a crash between two calls, an object made again under the same name | no resource outlives its object; nothing is sent again once a deletion began; a DELETE hits only its own object's resource; what users ask for is kept; deletion completes; the resource converges |
| Clients of long-running operations (`resourcegroups`, `virtualnetworks`, `subnets`, `nics`, `publicips`, `securitygroups`, `redis`, `servicebus`, `vms`) | `Status` of the object they are given, the SDK client `internal` | `ForSubscription`, `Ensure`, `Delete`, `SetStatus`, `Done`, `NeedsUpdate` | 404, 409 and no answer told apart; state read before a PUT and used after it | done means provisioned as asked; the status is what Azure showed |
| Synchronous reconciler (`controllers/sync_controller.go`), traffic manager controller | as above | `Reconcile`, which deletes and releases in one go | as above; the release does not look at Azure again | as above |
| Clients of synchronous operations (`keyvaults`, `identities`, `sqlfirewallrules`, `trafficmanagers`) | as above | `Ensure`, `Delete` | which errors are forgiven | an error never passes for success |
| Shared client and authorization (`ForSubscription` of every client, `pkg/config/config.go`) | one SDK client per kind, its subscription and authorizer | `ForSubscription`, then calls | up to 15 workers, no lock | each request goes, authorized, to its object's subscription |
| SQL servers (`sqlservers`) | the Kubernetes secret with login and password, the server, its firewall rule | `Ensure` (7 calls), `Delete` (2 calls) | three systems changed one after the other; credentials that exist only once; a cached secret | the stored credentials open the server; nothing is left behind; success means all is set |
| Clients that fill Kubernetes secrets (`secrets`, `tlssecrets`, `secretbundles`, `dockercfg`, `rediskeys`, `servicebuskey`, `storagekeys`; `SyncSecrets` of `redis` and `servicebus`) | target secrets | read values, `CreateOrUpdate`, `Delete` | several write parts of one secret; values rotate meanwhile; retries | no key of another is lost; no value goes back; success means up to date |
| Command line tool (`cmd/ensure/ensure.go`) | tasks, attempts, errors | `Ensure`, `Delete`, the pool, `backoff`, `do` | tasks that depend on each other behind a bounded pool; errors gathered into one exit status | success only when everything is as asked; it exits |
| Spec builders (`pkg/clients/*/spec.go`, the literals of the clients without one) | none: they build the body of one PUT | the setters, `NeedsUpdate`, `NewSpec`, `NewSpecWithRemote` | a body is built from what GET returned a moment before, while users edit the spec and others change the resource; pointers that may be nil; addresses of loop variables | what is created is what was asked; an update takes nothing of others away; a spec is applied in the end, and a resource that agrees is left alone |
| Storage accounts (`storageaccounts`), load balancers (`loadbalancers`) | as the clients above | `Ensure`, `SyncSecret`, `Delete`; only the tool calls the second, nothing the first | as above | as above |
| Custom resource types (`api/v1alpha1`), decoder (`pkg/decoder`) | | | | inputs of the models: see section 8 |
| Not modelled | | | | manager wiring (`main.go`), roles, manifests: see section 8 |

How they interact: the informer feeds the work queue and the cache; a
controller's workers take keys from the queue, one worker per key, read the
object from the cache and call the client of the kind, which writes into the
object's `Status` and calls Azure through the SDK client it shares with the
other workers; the controller writes the object back. A client that fills a
secret goes to the API server itself. `tinker` calls the same clients without
cache, queue or finalizer.

## 2. Modules

| Module | Models | State and actions |
| --- | --- | --- |
| `Resources` | contents and states of a resource | `Contents`: the sets of things a spec may ask for, as far as `NeedsUpdate` compares them |
| `Cluster` | API server, user, informer (external) | `api` the stored object with resource version, incarnation, finalizer, deletion mark, contents and status; `cached`, `watch`: what the cache shows and what it will show. `UserCreate/Edit/Delete`, `Deliver`, `Resync`; `Fresh` is optimistic concurrency |
| `Arm` | one resource in Azure (external) | `remote` with its state, contents and (a history field) whose PUT made it; `ArmGet`, `ArmPut`, `ArmDelete` with the answers clients tell apart: found, 404, 409, another error, and "lost": no answer, whether or not the request was applied; completion, failure, changes by others |
| `Controller` | what both reconcilers share | `queued`, `pc`, `local` (the worker's copy), `draft`, `res`, `seen`; one action per call that can be interleaved: fetch, `AddFinalizer`, `DeleteStatus`, `RemoveFinalizer`, `EnsureStatus`, `Crash` |
| `ManagedClients` | nine clients of long-running operations | a record of choices per kind (`cleanup`: can what else there is to remove be removed? not the disk of a machine), and `SetStatus`, `Done`, `NeedsUpdate`, `Build` |
| `AsyncReconciler` | `AsyncReconciler.Reconcile` with such a client | adds `AzDelete`, `DeleteGet`, `EnsureGet`, `EnsurePut`, `EnsureRead` |
| `SyncReconciler` | `SyncReconciler.Reconcile`, `TrafficManagerReconciler.Reconcile` with theirs | the same calls; Azure acts before it answers |
| `Lifecycle` | abstract specification: the life of an object and of its resource, no cache, queue, worker or failed call | `phase`, `inc`, `made`; both reconcilers are checked, and proved, to implement it (`Controller!ImplementsLifecycle`) |
| `Session` | the client shared by a controller's workers | `internal`'s subscription and authorizer, who set it up last (`renewer`, a history variable), the last request; `RenewSub`, `RenewAuth`, `Authorize`, `Call` per worker |
| `SqlServer` | `sqlservers.Client` | versions of the secret from cached to stored, server, rule; one action per call of `Ensure` and `Delete` |
| `SecretSync` | ten clients that fill secrets | per task: values held, copy of the target, attempts; `Read`, `GetTarget`, `Write`, `Remove`; `Rotate` and `Touch` by others |
| `Tinker` | the tool | `command`, `file`, and per task: step, attempts, error, was a refused DELETE taken for done (`refused`, a history variable); `Read`, `Begin`, `EnsureLook`, `EnsureSend`, `EnsureMonitor`, `DeleteSend`, `DeleteLook`, `Exit` |
| `Bodies` | what fifteen clients put in a PUT, and when they send one | operators on specs and resources: `Rendered` (the setters: `AddressSpaces`, `Frontends`, `Rules`, `NICs`, `IPConfigurations`, ...), `NeedsUpdate`, `Resends`, `NewSpec`, `Body`, `Fails`, `Panics` |
| `Overlay` | one object of any kind against its resource, with `Bodies` | `want` the spec, `azure` what the resource says and the rest of it, `local` and `seen` what the worker read; `Look` (GET, compare, build), `Put`, `Restart` after a panic; `Edit` by the user, `OthersWrite/Touch/Remove`, `PutLost` |

`AsyncReconciler` and `SyncReconciler` EXTEND `Controller`, which EXTENDS
`Cluster` and `Arm`: a client call is a joint step of the worker and Azure, a
write a joint step of the worker and the API server. A definition whose comment
begins with "(mutant" is a slip of the next definition, used only to show that a
property notices it.

## 3. Runs

| Run | Configuration | Distinct states | Shows |
| --- | --- | --- | --- |
| `subnet_safety` | `MCSubnetSafety` | 769 557 | two incarnations of a subnet object, an edit, stale caches and two faults of any kind: `NoOrphan`, `NoPutAfterDelete`, `DeletesOwn`, `UserIntentKept`, no wake-up is lost (`NothingForgotten`), the inductive invariant `IInv`, and the refinement of `Lifecycle` |
| `publicip` | `MCPublicIP` | 155 488 | a client that writes first and reads afterwards: done means provisioned, the controller rests only when it has converged (`RestsWhenDone`), deletion completes; one fault of any kind, failed operations included |
| `vm_convergence` | `MCVMConvergence` | 89 229 | a client that looks first and clears the status: the resource converges without any resync, the status is what GET showed, and an object whose cleanup cannot succeed is never let go |
| `identity_safety` | `MCIdentitySafety` | 80 373 | the inductive invariant, of which the safety properties are consequences, and the refinement for a controller that releases without looking again; the reconciler as written, since `main.go` does not wire identities |
| `keyvault_convergence` | `MCKeyvaultConvergence` | 8 305 | convergence, rest only there, and completion of deletions for a synchronous client |
| `rule_orphan` (violation) | `MCFirewallRuleOrphan` | | `sqlfirewallrules.go:104` drops the error of DELETE: the finalizer goes, the rule stays |
| `session_renewal` | `MCSessionRenewal` | 584 491 | three workers in any order: only a worker that was overtaken calls in another subscription, and, given credentials, a request is unauthorized only while someone is between the two steps of `ForSubscription` |
| `session_shared` (violation) | `MCSessionShared` | | two workers: a request is sent to another object's subscription |
| `sql_server` | `MCSqlServer` | 25 437 | a server made twice, three faults: the secret opens the server, nothing is left, success means set, teardown completes |
| `secret_sync` | `MCSecretSync` | 610 762 | two tasks and a person share a target while values rotate: nobody's keys are lost, values go forward, success means up to date, delete means gone |
| `tinker` | `MCTinker` | 1 121 408 | a group with a network, a vault and a profile, or a subnet and a secret, two at a time, deployed or deleted, with failing and lost calls and failed operations in both commands, from a file that may hold an unknown kind: success only when all is as asked, but for tasks whose failure is hidden (`Misled`); the tool exits |
| `spec_builders` | `MCOverlay` | 52 737 | fifteen kinds with a few specs each: a field of what is created is as asked exactly if it is not one of `Garbled`, an update keeps what others put there and no prefix is lost, the spec is applied in the end if it can be, what a PUT makes does not read as one more difference (`PutSettles`), and a resource that agrees is left alone |

Bounds. One object name is enough for a reconciler: the queue never hands one
key to two workers, and objects share nothing but the SDK client, which is
`Session`'s subject. Two incarnations (`MaxInc`, in the safety runs) are what it
takes to confuse an object with its successor; one edit (`MaxEdits`) is what it
takes to be overwritten. One item (`Items`) gives two different contents.
`MaxFaults` of two allows a lost answer followed by a failed retry or a crash;
SQL servers have three since a step there touches three systems. `MaxRV` caps
resource versions: the liveness properties assume it is not reached
(`WithinBound`), and in the passing runs of `Convergence` the number of writes is
bounded by edits and faults before it. Two tasks and three attempts (the code
has 30 with a cap of 900 s) make a retry overtaken by another task, and a
dependency that comes too late, both reachable; the pool has room for two tasks
of four. The files of `MCTinker` hold a kind that reports its errors, one that
hides them, one whose Ensure forgives a failed GET and one that delete knows no
case for, so that each way of `Misled` happens but `doneEarly`'s. Three workers
let one be overtaken by two others. `MCOverlay` gives each field two values or more, each pointer
a spec that sets it and one that does not, each list the lengths at which one
element and several behave differently; two edits and two changes by others (or
lost PUTs) put one of each before and after the GET of a reconcile.
`CHECK_DEADLOCK FALSE` stands wherever the system may come to rest: nothing
queued, nothing undelivered, bounds used up, or the tool has exited. `session_*`
and `spec_builders` never rest.

## 4. Fairness

`AsyncReconciler!FairSpec`: weak fairness of the worker (a goroutine with work
runs; `Requeue` and errors put the key back with a finite back-off), of the
watch (an informer that lives gets its events) and of Azure's completing an
operation. Nothing is assumed of users, faults, crashes or resyncs, so
convergence is shown to need no resync. `SyncReconciler!FairSpec` is the same
without Azure, which is done when it answers. `SqlServer`: the worker only.
`Tinker!FairSpec`: the tool's goroutines only; `Exits` holds even if Azure never
completes anything, because attempts are bounded.
`Overlay!OverlayFairSpec`: `Look`, `Put` and `Restart`, each by itself. There a
reconcile that found nothing to do comes back: informers resync every few hours,
and `Obeyed` needs it, since drift in Azure raises no event; a process that
panicked is started again by its deployment. Faults are bounded in number,
so fairness never has to rule out failing for ever. `Spec` alone is used for
safety.

## 5. Proofs

| Module | Theorems | Assumptions |
| --- | --- | --- |
| `Controller_proofs` | lemmas both reconcilers cite: each shared step keeps the types, `CopyInv` and `OwnerGuarded`, and so do a GET, PUT and DELETE in their places; what a step does to the stored object; the step of `Lifecycle` it is; where the controller can come to rest | those of the constants |
| | `LifecycleSuffices`: what implements `Lifecycle` leaves no orphan | both of its hypotheses are theorems of each reconciler (`TypeCorrect`, `Implements`) |
| `AsyncReconciler_proofs` | `TypeCorrect`, `Invariance` (`IInv`), `NoOrphans`, `NoRecreation`, `DeletesOnlyOwn`, `UserIntent`, `HoldsForCleanup`, `ForgetsNothing`, `DoneIsThere`, `RestsThere`, `Implements` (the refinement) | none further: every kind, fault set and bound |
| | `StatusTrue` | the client clears the status before it fills it |
| | `DoneIsProvisioned`, `RestsDone` | the client compares what it finds with the spec, or always sends: not an interface |
| `SyncReconciler_proofs` | `TypeCorrect`, `NoRecreation`, `UserIntent`, `ForgetsNothing`, `RestsThere` | none further: every client |
| | `RestsDone` | the client sends what is there again and reads it back: vaults, traffic managers |
| | `Invariance`, `NoOrphans`, `DeletesOnlyOwn`, `Implements` | `Careful`: the client forgives DELETE nothing but 404, which excludes the firewall rule |
| `Session_proofs` | `UnmixedOwnSubscription` | `NoMixing`: one worker, or one subscription; credentials or none |
| | `OvertakenStray`, `RenewalUnsigned` | none further: any number of workers |
| | `NoneSigned` | no credentials, as in `main.go:64` |
| `SecretSync_proofs` | `TypesCorrect` | none further |
| | `InStepAlways`, `Synced`, `Forward` | `Apart`: tasks that share a target have no key in common, and none of them replaces all data, as DockerConfig does |
| | `OthersKept` | `Apart`, and `Merging`: no task at all replaces all data |
| | `Removed` | `RemovesTarget`: `Delete` names the secret `Ensure` wrote |
| `SqlServer_proofs` | `Invariance` (`SqlInv`), `Opens` | `Settled`: a name is used again only when the cache has caught up |
| | `LeavesNothing`, `SuccessIsSet`, `TeardownRunsOut` | none further |
| `Tinker_proofs` | `TypeCorrect`, `SuccessTrusted`, `WorkRunsOut` | none further |
| `Overlay_proofs` | `OverlayTypeCorrect`, `OthersKept`, `AskedIsCreated`, `PrefixesStay`, `SentOnce` | none further: any specs of any length |

Why the invariants are what they are.

*Reconcilers.* `NoOrphan` is not inductive: it says nothing of what a stale
worker will do next. `IInv` says what any copy of the object, however old,
implies about the object now. Copies are earlier versions
(`CopiesAreVersions`) in order (`VersionsInOrder`); a copy with the finalizer is
of an object that has it or is gone, and a finalizer is taken off only when
every copy with one also has the deletion mark (`GuardHolds`); a DELETE was sent
only for an object marked for deletion (`TornMeansDeleting`); the worker's place
agrees with its copy (`PathsApart`), and the resource's owner is the object that
holds the finalizer (`OwnerGuarded`). A PUT from a stale copy is harmless since
that copy has the finalizer and no deletion mark, hence the stored object still
has the finalizer; the release is harmless since GET said 404 while no PUT can
be on its way.

All but the last of these are about copies of the object alone (`CopyInv`), and
hold whatever a client forgives; only `OwnerGuarded` needs that a release follows
a resource that has gone. So the firewall rule, which leaves orphans, still sends
nothing after its DELETE, undoes no edit and forgets no object. `UserIntentKept` follows from optimistic concurrency: a write
that is stored came from the current version.

*Rest.* `AtRest` says that nothing is queued, under way or on its way, so that
nothing happens until a user or a resync makes it. With no event outstanding the
cache shows the stored object (`CacheIsCurrent`), and a write of anything new is
followed by an event (`WriteWakes`); so a reconcile ends at rest only over an
object that has gone, or after an Ensure that returned done and a status write
that changed nothing (`RestReached`). `NothingForgotten` is that fact alone.
`Rested` adds what done means (`DoneIsDone`), with two flags: does the client
compare or send again what it finds, does it read it back? With both,
`Rested` is `RestsWhenDone`; an interface (`nics.go:73`) may differ from its spec
at rest, an identity (`identities.go:64-73`) may differ and not say its ID. These
are the safety half of `Convergence` and `DeletionCompletes`: what TLC's liveness
adds is that the controller does come to rest. Redis and Service Bus
(`redis.go:226`) never do.

The refinement adds one more fact (`TornInOrder`): a DELETE was sent for no
later incarnation than the one of any copy that still wants its resource, so a
PUT never makes a resource for an object whose teardown has begun. With it each
step of a reconciler is a step of `Lifecycle` or leaves its variables alone
(`InLifecycle`); the steps that leave the object and the resource alone are
dealt with at once (`Unmoved`). `LifecycleSuffices` shows
that the abstract specification says enough: from it alone, no orphan is left.
`DoneIsThere` follows the resource from the
GET, or the accepted PUT, that an Ensure decides on to its return
(`EnsureKept`), while nobody else changes it (`Alone`); `DoneIsProvisioned` is its
case of a client that compares.

*Secrets.* A task's write replaces the whole secret with a changed copy. It is
accepted only if the copy's resource version is current, and then the copy is
the secret itself (`CopiesKnown`), so what the task does not change stays. Values
go forward because an attempt reads its values before it reads the target, and
only this task writes these keys (`OwnKeysStand`, `HeldIsNewer`).

*SQL servers.* Credentials are stored before they are used, and `Create` fails if
there is a secret already; so a worker that is about to send credentials holds
those in the store (`StepsInOrder`), provided the cache shows the stored secret or
none (`CacheHonest`), which is where `Settled` is needed. In `Delete` the secret
goes first, and `phase = "torn"` remembers that: from then on only `Delete` runs.
Which of its steps is next tells what has gone already (`Dismantled`), whatever
credentials there were, so that nothing is left behind needs no `Settled`. Neither
does `TeardownRunsOut`: from the mark on, the calls left of the Ensure under way
and of Delete, and eleven for each fault that may still happen, make a number that
each step of the worker lowers.

An Ensure that is past its PUT has credentials other than none, and the server
has them (`Underway`), so the one step that ends it well leaves password and rule
as they should be (`EndsAtRule`); this needs nothing of the cache.

*The tool.* A task that has ended without an error has reached its goal
(`EndedIsReached`), and no step of another takes that back: ensure removes
nothing (`NothingGoing`), and delete makes nothing. The first half has exceptions,
the tasks that were `Misled`: each of its parts is a place where `ensure.go` or a
client drops a failure (section 7), and a task to which none applies can be
trusted, whatever happens to the others in its file. A task that was misled
stays so (`MisledStays`). That the work runs out is a measure: `Left`
counts the calls a task may still make, two to an attempt; each step of the tool
lowers one task's count and touches no other's, and after its exit it takes none.
Azure's steps touch none at all. What `Exits` adds is that a tool that has not
exited can do something.

*Spec builders.* What was asked is said without the builders: `AsAsked` reads a
spec by the types of the API (a list that is not given is empty, each frontend has
its own address, prefixes are a set, ...), field by field, and `Garbled` names three
fields that Ensure sends wrong and Azure takes. `AskedIsCreated` is an equivalence:
those are wrong, every time, and no other ever is. It needs only that a worker about
to send holds a spec of its kind, one that has not panicked it (`Sound`); the rest
is one lemma per kind, and a fact about lists: one whose elements all show the last
has different elements only if it has one at most, so what the loop variable's
address garbles, Azure refuses (`AliasedHarmless`, `RulesHarmless`), but for the
addresses of frontends, whose names differ all the same (`FrontendsGarbled`).

`AddressSpaces` goes through the spec's prefixes one by one and appends those that
are missing: a recursive function on their number (`WithPrefix`). That its result
begins with the resource's list, and is the spec's own when that `Extends` it,
are shown by a least counterexample: the set of lengths where it fails has, if any,
a smallest, and the step before it is right. `PutSettles` compares, kind by kind,
what the setters write with what `NeedsUpdate` reads; it holds whatever others did
between GET and PUT, since the PUT replaces what is compared.

*Sessions.* With one worker nobody else writes the SDK client between
`ForSubscription` and the calls; with one subscription it does not matter who did. With more of both, what still
holds is about the worker that did so last (`LastFits`), and about the SDK client
as a whole: whoever takes the authorizer away stands before the step that gives it
back.

Only model-checked is liveness, which is out of the prover's reach:
`Convergence`, `DeletionCompletes`, `TeardownCompletes`, `Exits`, `Obeyed` and
`LeftAlone`. The safety half of all but `Obeyed` is proved, as said above: where the
controller can rest, that the calls of the tool and of a teardown run out, that a
PUT settles. Every other property of a passing run is stated by a theorem;
`OwnSubscription`, which `session_shared` refutes, has one for the cases in which
it is true.

## 6. Assumptions

- SDK clients are authorized in the reconciler models. `Session` says when they
  are; see section 7 for the manager as wired.
- One manager is active. Leader election is on in `config/manager/manager.yaml:29`
  (the flag's default is off).
- A request is not applied by Azure after the client call has returned, except
  one whose answer was lost, which may have been applied by then.
- A restarted informer lists the current state.
- The fields that say where a resource is (name, group, subscription, location)
  are not edited: the code keeps no record of the old place. `Overlay` edits
  the location, which Azure then refuses.
- `Items` stands for the fields `NeedsUpdate` compares (of a machine: its size);
  in the reconciler models the order of address prefixes is abstracted to a set,
  and a machine's spec has a zone. `Bodies` has the fields themselves, prefixes in
  order and zones that may be missing.
- Two things in one list of a request must have different names, an interface
  needs a configuration, what `nics.go:193` builds for a backend pool is no resource
  ID (its types and names do not alternate), and a resource does not move to another location or
  zone (`Overlay!Accepts`): the code says nothing of these, Azure refuses them.
- `go 1.12` in `go.mod`: one variable per `range` loop.
- Azure never answers GET with 409.
- Azure takes the login of a SQL server when it is made and never changes it
  (`sqlservers.go:110`: "n.b., immutable"); DELETE of a server that is not there
  is answered without error.

## 7. What the code does that a reader may not expect

Two disagreements have a run of their own (`rule_orphan`, `session_shared`). The
following are built into the models as parameters, or left out as noted, and
can be seen by changing a constant of a configuration.

- `SetStatus` of subnets, groups, networks and addresses keeps the last state
  after a 404 (`subnets.go:127`): `Kind = "Subnet"` in `MCVMConvergence`
  violates `StatusReflectsAzure`. Identities are not read after a PUT
  (`identities.go:73`), so their status appears with the next reconcile.
- An interface that is done is never compared with its spec (`nics.go:73`; an
  identity neither, `identities.go:64`), and an address space is only ever added to (`virtualnetworks/spec.go:53`): with
  `Kind = "NetworkInterface"` or `"VirtualNetwork"` an edit may stay without effect.
  Since the lists are compared in order (`virtualnetworks/spec.go:175-201`), a
  network with a prefix too many is sent again on every reconcile
  (`Overlay!Withdrawn`); so is one whose spec has the same prefix twice.
- `NeedsUpdate` of redis and servicebus is true when the locations are equal
  (`redis.go:226`, `servicebus.go:265`): such an object is sent again
  for ever: adding either to `Quiet` violates `LeftAlone`.
- A machine's disk is deleted through a client that was never authorized
  (`vms.go:141`): with `Kind = "VM"` and `DeletionCompletes` the deletion does not
  complete, although "Not found is a successful delete" (`vms.go:132`).
- A machine without a zone is never created: the client that lists the zones was
  never given a subscription, and `vms.go:89` ("default behavior is max fd/ud
  spread") is not reached. The machines of `config/samples` name none.
- One loop variable's address stands in every element of a list: two backends,
  two rules, two secondary interfaces (`loadbalancers/spec.go:89`, `:121`,
  `vms/spec.go`), two security rules (`securitygroups.go:69`) show the last one's
  name twice and are refused; each of several frontends points to the last one's
  address (`loadbalancers/spec.go:62-83`).
- A balancer without rules, as in `config/samples`, panics the process on the
  second reconcile (`loadbalancers/spec.go:150`), and a traffic manager with
  headers and no status codes on the first (`trafficmanagers.go:91`); without
  headers its status codes are not sent (`:90` tests the headers).
- An interface's reference to a public address names a group and a subscription,
  but the ID sent is always in the interface's own (`nics.go:181`); one with a
  reference to a backend pool is never created (`nics.go:193`).
- The configuration made up for an interface whose spec has none is never sent
  (`nics.go:88-113`).
- Vaults, addresses, security groups and traffic managers are overwritten with
  what the spec says: access policies others gave a vault go with the next
  reconcile (`keyvaults.go:67`). `KeepsOthers` is about the kinds that overlay.
- A storage account's `Delete` removes the secret called `Spec.Name`, not the one
  `SyncSecret` wrote (`storageaccounts.go:164-172`).
- A document of an unknown kind ends the tool: `IsNotRegisteredError`, meant to skip
  it, is tested after the error was returned (`ensure.go:195-206`).
- A failed operation leaves `Failed`, which the clients that look first neither
  take for done nor send again (`subnets.go:75`): convergence runs have no
  `failedOp`. An object whose Ensure is done is queued again only by an event or
  a resync: they have no `drift` either.
- DELETE of a traffic manager answered 404 is an error (`trafficmanagers.go:138`),
  so a deletion whose answer was lost cannot complete.
- `config.New()` in `main.go:64` is given no credentials and
  `AuthorizeClientFromArgs` hides the failure (`config.go:141-152`): no request of
  the manager is authorized, and nothing says so (`NoneSigned`). The controllers at `main.go:127` and
  `:153` are given another kind's client.
- `Settled = FALSE` in `MCSqlServer`: the cache still shows the previous server's
  secret, `Create` is skipped, and a server is made with credentials nobody can
  read ("Known to exist by construction", `sqlservers.go:89`). The error of
  `CreateOrUpdate` is dropped (line 132), so such an Ensure is not retried.
- `DeleteAsync` reports done for `(false, err)` (`ensure.go:524`): a deletion
  Azure refuses counts as a success. `client, err :=` inside a case hides the
  task's error (`ensure.go:284, 308, 317, 337, 377, 394, 399, 412`). Kinds that
  fall to `default` (`:351`), and `TrafficManager` on delete (`:416`), do nothing
  and succeed; a load balancer is done in any state (`loadbalancers.go:138`), and
  a subnet when its GET failed (`subnets.go:66-68`). These are the parts of `Misled`; leaving one out
  violates `SuccessMeansReached` with a file that has such a kind. The pool
  (`:245`) may spend a child's attempts before its parent has begun.
- `Delete` of `Secret`, `TLSSecret`, `SecretBundle` and `StorageKey` removes the
  secret called `Spec.Name`, not the target (`tlssecret.go:163`); `RedisKey`
  removes the whole shared target. A TLS secret and another kind that share a
  target work only if the TLS secret comes first, since a secret's type cannot be
  changed. Two manifests with the same keys (as the redis and servicebus samples
  have) overwrite each other.
- Not modelled but seen: nil dereferences at `redis.go:217` and, of a DNS name that
  is not given, `trafficmanagers.go:69`; `tlssecret.go:91` with an empty chain; `SecretBundle`'s status says Succeeded after a failed
  update (`secretbundles.go:137`).

## 8. What is not modelled, and why

`main.go` is wiring; what matters of it enters as constants. Flags, the walk over
directories, YAML and manifests are input: of the decoder `Tinker` keeps whether
every kind is known. `api/v1alpha1/zz_generated.deepcopy.go` is generated: copying
an object is what assignment does in TLA+. The status types enter as states.
`zones` and `disks` are called with a client that has no subscription and enter
as calls that fail; `roles` is reached by nothing. A machine's disk is a flag,
not a resource: nothing in the code makes or reads it apart from its machine.
The DELETE of a storage account follows the removal of its secret, and no
controller or command calls it. The setters nothing calls (`AddressSpace`,
`RemoveAddressSpace`, `Subnet`) and edits of the fields that say where a resource
is are left out. Of requests, fields that are constants of the code, of
certificates their conversion, of everything events and logs are left out on
purpose.

## 9. Plan

Done: `Resources`, `Cluster`, `Arm`, `Controller`, `ManagedClients`,
`AsyncReconciler`, `Lifecycle`, `SyncReconciler`, `Session`, `Tinker`,
`SecretSync`, `SqlServer`, `Bodies`, `Overlay`, with the proofs of section 5: the
refinement of `Lifecycle` by both reconcilers, where they rest, the tool's exit
status and its measure, and the spec builders among them. What is left, in this order:

1. A machine's disk as a second resource of `Arm`, once its client is authorized.
2. A theorem on who loses in `SecretSync`: a write without a fault is refused only
   because another one was stored since the target was read.
3. Edits of the fields that say where a resource is: the code forgets the old
   place, and the resource there.
4. Managed identities and the choice of an Azure cloud in `Session`.
