# Monolift: a TLA+ model of the lift and of what it emits

Monolift takes a Go monolith and one function of it, and *lifts* that function
(or the best enclosing function on a path from an entry point) into a service of
its own: it finds the activation path, ranks the functions on it as cut
candidates, admits one, plans and renders the service and its client, and
patches the host so that callers reach the service. This directory holds the
TLA+ specifications of the parts of that program that are easy to get wrong and
hard to test, the TLC configurations that check them on small instances, and
TLAPS proofs of the main results for every value of the constants.

All paths below are relative to `src/`.

## 1. Inventory

The repository holds two compilers, the runtime they emit, a demo monolith and
the tooling around them. The newer compiler (`pkg/activation`, `pkg/codegen`)
lifts one function named by file and line; the older one (`pkg/compiler`,
`pkg/lift`) lifts what a pragma in the source names.

| Part | State | Operations | Talks to | Hard about it | Correct when |
|---|---|---|---|---|---|
| `pkg/activation` path search | call graph, augmentation indexes, iteration count, search queue | `Analyze`: load, resolve, RTA, `Augment`, `ShortestPath` | go/packages, x/tools RTA | seven passes that feed one another, a bounded fixpoint, answers remembered mid-recursion, a deadline read between phases | a converged graph is complete; paths and misses are real |
| `pkg/activation` cut analysis | candidates with a class per dimension, the demotion chain | `AnalyzeCut`, `DemoteCandidate`, `MarkAdapterClass`, recommendation | admission mutates its result | re-sorting while the list is used | the recommended cut is the best one left |
| `pkg/codegen` admission | process-wide plan cache, trial verdicts, attempt and time budget | `admitCutCandidates`, `tryAdmitCandidate`, `tryAdapterRecovery` | planner, cut analysis | cached results of earlier lifts, timeouts, recovery mid-loop | refusals are named, order is kept, every lift ends |
| `pkg/codegen` planner, adapters | none (pure over loaded packages) | `BuildPlan`, adapter proofs | admission | time limit around an uninterruptible build | its answers are inputs here |
| `pkg/codegen` emitted stub and server | invocation counter and history; the caller's stream | client wrapper, `/invoke`, `/calls`, `/invocations` | each other over HTTP | lost requests and replies, time-outs, crashes, fail-open double execution | at most once where promised; answers are earned |
| `pkg/codegen` host patch and writer | the host's tree, the manifest | `PatchCutFunction`, `RunLiftWithResult`, `writeArtifactFiles`, `writeManifest` | go build | a sequence of files with failures and crashes in between | the host always builds, or is put back |
| `pkg/compiler` host patcher | host files, siblings, `LIFTPATCH.json` | `PatchSymbolBody`, `PatchRegion` | `e2ecompile` | repeated calls on a half-patched tree | complete or not reported, recorded only what is there |
| `pkg/compiler` demo compiler, `pkg/lift` | output directory, resolved dependencies, the main package, images, manifests | `Compile`: extract, plan the instantiation, sort, generate, rewrite, build | go/types, docker, templates | failures in the middle, an order built while it is walked | the plan runs; success is deployable |
| `pkg/compiler` region reports (extract, stateclass, liftability, transport, surface) | visited sets per root, shared access sets, state rows, diagnostics | `Analyze`: admit, close, detect seams, infer state, refuse | x/tools call graphs | several roots over one program, many access sites per cell, priorities of rules | closures and seams are exact; assigned state is not replicated |
| `pkg/compiler/entrypath` | queues, marks, counts and ten budgets | `ProbeWithOptions` in five modes | x/tools SSA | budgets that end a search at any owner or instruction | seeds are complete or a stop says why |
| `pkg/pragma`, `pkg/metrics` | last polled usage, one flag | polling goroutine, readers under a lock | the emitted delegate | failed reads, one flag for two metrics | a decision rests on a reading |
| `demo/monolith` | posts, users, follow lists, timelines in an ETag store | service methods, 500 timeline workers | one another, Redis or Dapr | read-modify-write, reordering, one-sided updates | lists agree, deleted posts stay deleted |
| `test/e2e`, `cmd`, scripts | clusters, reports | stages of a test, command lines | everything | external processes | not modelled |

How a lift runs (`pkg/codegen/pipeline.go`, `RunLiftWithResult`): `runActivation`
(ActivationSearch) hands a path to `AnalyzeCut` (CutRanking); the candidates go
to `admitCutCandidates` (Admission), whose verdict and plan are rendered; the
artifacts, the patch of the host and the manifest are written (CutPatch); the
host then calls the service through the emitted stub (LiftedCall). The older
compiler reports on a region (Extraction, with StateClass and Liftability), probes
how it is entered (EntryProbe), and patches hosts with its own patcher
(LiftPatch); its demo compiler extracts the interfaces of the demo monolith
(Compile, with Instantiation), whose delegates ask the monitor where to send a
call (Delegation). The demo monolith itself is Monolith.

`PROJECT.json` lists every component with its status, and every hazard with the
line where it bites and the properties that would catch it.

## 2. Modules and the code they model

**CutRanking** (`pkg/activation/cut*.go`). Candidates of a path as a function
from steps to records; the six-dimension lexicographic order; demotion,
marking of adapter classes, recommendation. Operators only, no state.

**CutSelection** is the abstract specification: candidates leave a contest one at
a time, always the most preferred one; what is chosen is the most preferred of
those left; a choice may be withdrawn, never replaced.

**Admission** (`pkg/codegen/cut_admit.go`, `admission.go`, and the build-plan
phase of `pipeline.go`). Extends CutRanking. `pc` follows the loop of
`admitCutCandidates`: *head* (attempt and time budget, recommendation, parent
rule), *try* (cut gate, receiver preflight, cached or fresh plan), *judge*
(accept, refuse for good, recover through an adapter, demote), then *final* (the
build-plan phase with its own plan and recovery). `cache` is the process-wide map:
it outlives the lift, and several lifts, from one or more source trees, share it;
`SharedKeys` bounds which lifts follow one another. What a plan build, a gate or
an adapter proof answers is chosen from `PlanOutcomes` and `RecoveryOutcomes`; the
clock is a flag that may be raised at any step. The branch of the build-plan phase
that would recover again (`pipeline.go`) is never enabled in any state TLC
reaches: admission has always recovered already; `RecoveredOnce`, a theorem, says
so. Admission is shown to implement CutSelection (`SelectionSpec`).

**LiftedCall** (`client.go`, `adapter_client.go`, `server.go`,
`kubernetes.go`). One stub per concurrent call, an unreliable wire, a server that
handles requests concurrently and may crash and restart. The stub is generated
as *plain*, *stream* (it reads a stream parameter before posting) or *adapter*
(it extracts a value first). History variables `ran`, `outcome`, `era` record
executions. There is no stub for a function without results: `AdmitPlan`
refuses them (`admission.go`:118-120); the adapter stubs always have an error
result.

**CutPatch** (`patch.go`, `writer.go`, the tail of `pipeline.go`). The cut file's
declarations, the stub, the adapter files, artifacts and manifest as sets and
flags on disk; one action per write, per failure of a write, and a crash between
any two. `writeAtomic` makes a file old or new, never torn. A lift starts on a
cut package that is whole and has the function in the cut file (the plan is
recomputed for each lift); `PatchCutFunction` alone may be called again on what
a former call left, as its tests do. `harm` names the four things codegen does
not undo: a *crash* in the middle, a *restore* that fails, a failed *repatch* of
a patched function, and an incomplete or uncompilable *adapter*.

**LiftPatch** (`pkg/compiler/transport/emit/liftpatch/patcher.go`, driven as
`test/e2e/e2ecompile` drives it). `os.WriteFile` writes in place, so a failed or
interrupted write may tear a file; a torn Go file is taken not to parse, and
nothing in the package is patched again. Preludes are guarded by their sentinel
or not (streamproxy's are not, and repeated region calls stack them), siblings
declare reserved names or not; symbol patches always do both. A region with
reserved names that is interrupted between siblings is refused ever after as a
collision with its own siblings, which `RegionSuccessIsComplete` allows: it is not
reported as a success.

**ActivationSearch** (`pkg/activation/analyzer.go`, `augment.go`, `explore.go`,
`graph.go`, `path.go`, `rta.go` and the entry of each pass). The program under
analysis is chosen at the start: calls, dynamic dispatches (which need a
function that makes the type live) and flows that a pass recognises. The model
has the order of the passes, which of them walk a snapshot of the nodes, the
re-rooted analysis of new functions, the iteration limit, the search and the
backward construction of the path. Left out: edge kinds and positions, the order
of names (any order of equals is allowed), `ParseTarget`, the scope phase with
its fallback, and functions with a generic context, which every pass skips.
`rta.Analyze` is the library's and is modelled as the least fixpoint it
documents.

**ValueFlow** (`structfield.go`, `predicates.go`, `goroutine.go`, `pkgvar.go`,
`funcarg.go`, `mapfunc.go`, `interfacefield.go`). What ActivationSearch takes as
given, the edges a pass adds, is computed here from programs of instructions, in
the order of the mode with every pass. ActivationSearch chooses any subset of
flows, and so covers them. The memo of the callback pass is two sets of parameters;
the recursion of `parameterMayCallback` is a function of its depth, since every
call within a call asks about one parameter more. Left out: phi nodes, interface calls with `go` or
`defer`, dereferences of pointer parameters, edge kinds and positions.

**Extraction**, **StateClass**, **Liftability** (`pkg/compiler/extract`,
`stateclass`, `liftability`, `transport`, `surface`). Extraction has the phases of
`Analyze` as actions: admission of the first root, the closure of each root (one
function popped per step), the seams (roots in any order, as the map they are kept
in has it), the state of the union, the verdict. StateClass has the
rules of class inference, disposition, evidence, archetype candidates,
subsumption and tiers as operators; Liftability the detectors, the shape of an
operation, and the selection of a transport. Types are kinds; the registry of
detectors and the ordering of report entries are left out.

**FunctionRefs**, **EntryPath**, **EntryFrontier**, **EntryBridge**,
**EntryProbe** (`pkg/compiler/entrypath`). FunctionRefs is what a scan of a
function yields; EntryPath the reverse search and the seed sets of the modes
without a frontier; EntryFrontier and EntryBridge the two searches with budgets
(owners, packages, instructions, depth, time); EntryProbe composes them and adds the
index and the flow of function values. The confidence score and the oracle's trace
are left out.

**Instantiation** and **Compile** (`compiler.go`, `util.go`, `manifests.go`,
`pkg/lift`). Instantiation is `resolveDependencies` and `topologicalSort`: one
statement of main opened per step. Compile is `Compile` with a failure possible at
every file, command and generator; files remember which interface wrote them,
because names collide by package. Of an interface's methods it keeps those the
interface declares, which its client and its server have, and those it has with the
interfaces it embeds: `go build` asks of a client only that it has the methods.

**Delegation** (`pkg/metrics/monitor.go`, `cgroup.go`, `pkg/pragma`, the delegate
template). The goroutine of the monitor sample by sample, the ticker's channel of
one, the random `select`, the deciders, and a delegate's call. Metrics change and
break at any time. The threshold controller of `pragma/controller.go` polls and
never changes its decision (its update is a TODO), so it has no action.

**Monolith** (`demo/monolith`). A handler or a timeline job is the list of store
steps its code makes; every store call of every process interleaves with the
others. The Dapr client and the Redis client differ in what a save without an ETag
does. A store call may fail (`MaxFaults`). History variables record what was
acknowledged, what was overwritten blindly and which follows were disturbed, so
that the properties can name exactly the losses the code accepts. A post is named
after its author and the time of its save, so no two saves name the same post and
only its author, who was told the name, deletes it: `OwnPosts` says so of every
scenario.

The MC modules give constants their values and hold nothing about the code;
MCMonolith also evaluates `ListOperators`: the sort and the filter of Monolith,
written as recursive functions that can be reasoned about, are `SortSeq` and
`SelectSeq`. Listing has the helpers that several modules share: a set of numbers in
order, a sequence's elements at some places, a map with more entries. Each
component's proofs are in a module with the suffix *Proofs*; HostProofs has those of
what changes the host and of what runs in it, CutPatch, LiftPatch, LiftedCall and
Delegation, ActivationProofs those of ActivationSearch and ValueFlow, EntryProofs and
EntrySeedProofs those of EntryProbe.

## 3. Runs

| Run | Shows | Bounds |
|---|---|---|
| `admission` | named refusals, order of demotions, adapter parent rule, budget keeps evidence, the cache is never overwritten, termination, refinement of CutSelection | single lifts over paths of 4 candidates, 30 combinations of the kinds that decide rank or admission, and the empty path; pairs of lifts from 2 source trees over paths through two shared functions |
| `lifted_call` | executions per call, earned answers, calls return | 2 calls, history of 1, 1 crash |
| `lifted_call_stream` (violation) | the fallback reads an emptied stream | 1 call |
| `cut_patch` | success routes callers, failure restores, only named harms break the host, manifest matches the tree | 3 attempts, 2 artifacts |
| `lift_patch` | complete regions, backed records | 3 symbols, 2 packages, 3 attempts |
| `activation_search` | complete graphs, shortest paths, termination | 5 functions, all subsets of 3 calls, 2 dispatches, 5 flows; 3 modes; limit 2 |
| `value_flow` | remembered callbacks are right, map stores are exact | 338 programs, chains of up to 4 wrappers, 2 rounds |
| `monolith` | accepted updates survive, follow lists agree, deleted posts leave timelines and are not served, requests return | 2 clients, 2 workers, 3 users, 2 posts, 8 scenarios, both clients, channel of 1, 1 failing call |
| `extract` | exact closures and seams, no assigned cell replicated, actors backed | 80 programs of 9 cells and 4 types, 16 regions of up to 3 roots |
| `entrypath` | seeds, stops, skips, flow | a server of 9 functions, every mode, each limit hit or not, a clock that runs out |
| `compile` | the plan runs and is exact, success is deployable | 37 applications of up to 8 statements and 3 interfaces, up to 3 in one package, each step failing |
| `delegation` | delegation is earned, overload is noticed, the goroutine ends | 7 pragmas, usage of zero or the limit, either metric broken |

Why the bounds are enough. *admission*: five path nodes are the fewest for which
two candidates share a surface class and another dimension decides; two lifts and
two trees are the fewest that can share and confuse a cache entry. *lifted_call*:
two calls make handlers run concurrently, a history of one makes the window slide,
one crash separates two processes. *cut_patch*, *lift_patch*: three attempts cover
patch, failed patch and patch again; two symbols in one package and one in another
cover a region that is cut short between siblings and between packages.
*activation_search*: the limit of two iterations (ten in the code) is reached by
the chain of flows, so both ends of the loop occur; `h`, `g` and `t` can each be
found in an iteration of its own. *value_flow*: with 2 rounds (20 in the code)
chains of one to four wrappers end before, at and beyond the limit; two functions
that each do anything with their parameters include the circles in which a
remembered answer may be wrong. *monolith*: one job in the channel makes it full
with two posts; two workers reorder the jobs of one post; three users are two that
compete for the list of a third; `MaxTimelineSize` and `MaxFollows` of 2 make
lists lose their oldest entry. *extract*: two roots are what a seam needs and what
an earlier visited set could narrow; a third is refused or gone. *entrypath*:
every limit is set to a value at which it is reached in the middle of its search,
and to none. *compile*: two interfaces of one package collide in every name, and a third
may leave its client to the first and the server to the second; eight
statements hold a chain of dependencies, a statement that uses one and one that is
relevant too late. *delegation*: usage of zero and of the limit are the two sides
of every threshold.

Deadlock checking is off where attempts, lifts, calls, requests or analyses end
and the model stops with them; `delegation`, `extract`, `entrypath` and `compile`
check it: the first never stops, and the last three end in a step that stays.

Fairness. *Admission*: weak fairness of the lift's steps, since a lift is one
goroutine. The trial plan builds have a limit of 15 seconds; the final
`BuildPlan` and the adapter recovery have none and are assumed to return.
*LiftedCall*: weak fairness of each stub's steps only; the stub's one wait has a
30 second limit, and nothing is assumed of the server or of the network.
*ActivationSearch*: weak fairness of `Analyze`, which runs on its caller's
goroutine; the deadline is free to pass or not. *Monolith*: weak fairness of each
goroutine and of each idle worker; a client need not send its next request. The
retry loops are bounded, and the store answers or fails every call. *Delegation*:
weak fairness of the poll and of the ticker, strong fairness of the two branches of
`select`, which Go chooses among at random; nothing is assumed of usage or of
`Close`. CutPatch, LiftPatch, Extraction, EntryProbe, Compile and ValueFlow
state no liveness: their steps are straight-line code.

## 4. What the code does otherwise

`lifted_call_stream` is the one run that expects a violation: `client.go` reads a
stream parameter to its end before posting, and the fail-open fallback then runs
the original on an empty stream, where the walkthrough promises that the feature
keeps working.

The other disagreements met while modelling are stated here; the models have the
code's behaviour, and the properties excuse exactly these cases.

*Lifting.*
* `cut_admit.go`:610: storing a recovered adapter creates a cache entry with the
  zero verdict, so a later lift may be refused with no code (`RefusalsNamed` is
  about the first lift; `docs/site/docs/working-backwards.md`:108 says every
  refusal is named). The cache key has no module root (`:563`): a lift from
  another tree is handed a stale adapter plan.
* `pipeline.go`:206: the invocation adapter is written after the trial build,
  which therefore never sees it. `client.go`: a receiver copied to the server can
  be changed there without the host seeing it.
* `liftpatch/patcher.go`:239: a host patch interrupted after the host file is
  reported as already applied, with no sibling and no record.
* `augment.go`:81: functions found by augmentation are analysed alone, so types
  made live by `main` do not exist for them; a target behind such a dispatch is
  missed.
* `funcarg.go`:117-119, 165: a parameter that is being asked about answers no, and what
  follows from that is remembered: registrations of parameters handed round in a
  circle may be missed (`Circular` in `CallbacksAreFound`). A callback wrapped in a
  literal is captured by address and not seen as forwarded. In
  `interfacefield.go` the case for `*ssa.MakeInterface` cannot be reached, since
  `unwrapTransparentValue` takes it off first.

*Reports on regions.*
* `detector.go`:513-517, `decision.go`:86: a struct without `methods=` whose only
  operation is refused is still accepted (`docs/specs/monolift-v2-contract.md`:148).
* `stateclass.go`:868-883, `refusal.go`:132-138: a refused state row does not block
  the region (contract:368). `:695-704`: state that is updated is classified as
  configuration (contract:347), hence the words of `AssignedIsNeverReplicated`.
  `pragma.go`:606, `closure.go`:225-238: the state of methods that no root names is
  not classified (contract:128). `:303-309`: evidence of operations is read in
  the order of a map.
* Only the first root of a region is admitted (`SPRINT-0022.md`:43), and its
  roots share one dispatch graph.

*Entry paths.*
* `funcvalue.go`:569-599: values are marked by their text and not followed into
  methods (`Distinct` and `NoMethodTaken` in `FlowIsExact`; `SPRINT-0024.md`:73).
* `funcvalue.go`:480: a value passed to its own call is taken for the function that is
  invoked (`TakenForCall` in `FlowIsExact`).
* `bridge.go`:557-570: a package cut short by one budget does not always say so
  itself (`SPRINT-0030.md`:41); `StopsAreEarned` asks for a stop of the search. So
  the functions of a second package left at the limit per package have no skip
  cause (:43): `SkipsAreExplained` leaves these out.
* `targeted_completed` is also said of an index that its limit has cut.

*Demo compiler and monitor.*
* `util.go`:45-100: the sort counts a prerequisite once for each use and takes it
  off once; a statement that takes a variable twice, or two of one
  declaration, is called circular. Variables of the same name share an id;
  grouped declarations are read by their first entry; `var x T` panics. `Plain`
  in `PlanRuns` and `PlanIsExact` names the programs without these.
* `compiler.go`:440: a failed extraction leaves the client it had written; when
  every extraction fails the compilation has cleared its output and reports
  success. Clients, servers and images are named by package (the TODO at line 434):
  of two interfaces of one package, the later has the files of both. When it declares
  the methods of the earlier one, everything builds and `Compile` returns nil,
  but the earlier one's callers reach the server of the later, or, when the later
  wrote its client and then failed, of one in between, which may not have their
  methods at all. `SuccessIsDeployable` names this case and shows that there is no
  other. A client has only the methods an interface declares itself, so one that
  embeds another does not build. Images are pushed before the manifests' kinds and ports are looked at.
  Pragmas are parsed from an empty map, so delegates are never generated.
* `monitor.go`:190: one flag stands for both metrics; a failed reading keeps the
  old usage; a limit of zero is a usage of zero; a threshold of NaN is accepted
  and never exceeded.

*Demo monolith.*
* `timelineservice/service.go`:123, `socialgraph/service.go`:73,
  `postservice/service.go`:239: an item that is missing is saved without an ETag,
  and overwrites what appeared meanwhile (`blind`).
* `socialgraph/service.go`:240: the two follow lists are written one after the
  other; a failure in between, or an interleaved opposite call, leaves them apart
  (`disturbed`). `timelineservice/service.go`:98: workers may apply a deletion
  before the addition it follows. Home timelines keep the ids of deleted posts.

## 5. Proofs

Every statement below is proved by TLAPS for every value of the constants, from
the named assumptions of the modules only (finiteness of the sets, limits that
are naturals, inputs of the declared shape).

* **AdmissionProofs**, on the ranking: the order of candidates is a strict total
  order (`BetterIsStrictTotalOrder`) and the recommended one is the best feasible
  one (`RecommendedIsBest`). On the loop: `AdmissionInv == TypeOK /\ Ranked /\
  Control /\ DemotionsFollowRanking`. `DemotionsFollowRanking` alone is not
  inductive: that the candidate about to be demoted is the best one left is
  `Ranked`, and that the one being judged is the recommended one is `Control`.
  Type correctness, the order of demotions, and the refinement
  `Spec => SelectionSpec` follow; each loop step maps to a discard, a choice, a
  withdrawal or a stutter. Four more invariants stand on `AdmissionInv`. `LeafInv`
  remembers that a candidate under trial had no adapter-shaped one below it, and
  gives `NoParentOfAdapterLeaf`. `OnceInv` ties the count of recoveries to the
  demotions and to the cache: a feasible candidate has had none, a marked one has
  had one whose plan is stored; it gives `RecoveredOnce`. `NamedInv` counts: the
  attempts made and the candidates left are together no more than the candidates,
  so the attempts can run out only when every candidate was tried, the deepest
  among them, which is never passed over as a parent and so has left a refusal; it
  gives `RefusalsNamed`. `EvidenceInv` says that between two turns the last verdict
  holds a code of the chain of demotions and none of the loop's own; it gives
  `BudgetKeepsEvidence`, and needs that no plan is refused with a code that only
  the loop produces (`loopRefusals`, an assumption on `PlanOutcomes`).
  `CachedVerdictPreserved` needs only the types.
* **HostProofs**, first what runs after a lift. Of LiftedCall, for every call:
  `OnePlace` (a request is on the wire, in a handler, answered or gone, so it runs
  once), `LocalLast` (after a local run nothing else is answered) and `Traced` (a
  reply traces back to a recorded execution). Theorems: types, `AtMostOnceClosed`,
  `TwiceAtMostOpen`, `AnswersAreEarned`, `HistoryIsLastWindow`,
  `AnswersAreCounted`. Of Delegation: `Fresh` says that what is cached of a metric
  is what was read last, or that the reading is still to be stored and would make
  it so; a failed reading keeps it. `DelegationIsEarned` follows.
  Then the two patchers of the host. `CutPatchInv` adds to the
  properties what each control point knows about the tree (`Early`, `RenameOK`,
  `AlreadyOK`, `FinishOK`, `ArtifactsOK`, `ManifestOK`); all four safety properties
  of the run are theorems. `LiftPatchInv` adds `PhaseOK` (what is done in each
  phase), `CountOK` (preludes are bounded by calls) and `RecordedOK`. Theorems:
  types, `NeverStacked`, `RegionSuccessIsComplete`, `RecordIsBacked`.
* **ActivationProofs**: `ActInv` adds `AllRun` (every node can run), `SnapshotOK`
  (an iteration starts from a graph whose every function has been analysed),
  `FlowsOK` (the passes that have run have connected that graph), `ConvergedOK`
  and `SearchOK` (an edge that leaves the visited functions starts in the
  queue). Theorems: types, `ConvergedIsComplete`, `RootsExploredOnce`,
  `PathIsReal`, `MissIsReal`. A converged augmentation is complete because its
  last iteration added nothing: what its passes saw is then what there is.
  `ShortInv` gives each visited function a level: the queue holds functions of at
  most two levels, in order, and an edge from a visited function climbs at most one.
  Then no walk of the graph reaches a function in fewer steps than its level
  (by least counterexample), and `PathIsShortest` follows. On ValueFlow, for every
  program: `MapInv` says that after `n` rounds the index has exactly the facts and
  stores that chains of at most `n` calls account for, and that propagation ends
  either with nothing new or at the limit; a chain is grown and shortened at its
  outer end, and when a round adds nothing no chain, however long, adds anything.
  So `MapStoresAreExact`. `CallInv` says that what is remembered is right, circles
  aside; it is kept because an answer is fair (`Fair`): by induction over the depth
  of the questions (`AllFair`), where every parameter being asked about is handed on
  as the one in question (`Posed`), so that a no given because a parameter is
  already being asked about is one about a circle. So `CallbacksAreFound`.
* **ExtractionProofs**: three invariants, over every program that compiles
  (`ExtractionAssumption`) and every region. `ClosureInv` says of the open root
  that what is visited or queued is reached, and that a function visited leads only
  to visited and queued ones when no registry key narrows the dispatch; a closed
  root is then a closed set. `Reachable` is a union of `Cardinality(Fns)` steps; it
  is closed because a chain of sets that grows at each step has outgrown `Fns`. So
  `ClosureIsExact`, and the visited set of an earlier root plays no part.
  `SeamInv` says that what is collected of a field is what the roots scanned so
  far do with it: `SeamsAreExact`, in any order of scanning. `StateInv` carries what
  the rows and the archetype say of the closures to the verdict:
  `AssignedIsNeverReplicated` (an assigned cell in scope is a seed, no rule of
  `inferClass` gives an assigned seed a class that is replicated, and coalescing
  loses no row) and `ActorIsBacked` (the primary is one of the candidates left, so
  all an actor requires is in the evidence of that seed).
* **MonolithProofs**: for any number of clients, workers, users and posts, any
  scenario of requests, and any number of failing store calls. `StoreInv` is the
  type of every key, the shape of every program that is left to run, and what a
  process that has read an item knows of it: with a fresh read and an ETag, what it
  will save is an edit of what is stored. On it stand `Survives` (for
  `AcceptedSurvives`), `OwnInv` and `JobsInv` (a post's save comes before its
  deletion, in the requests, in the channel and in the pool, unless two workers
  overlap and disturb each other), `ServedInv` (for `DeletedIsNotServed`), `LeaveInv`
  (a removed post that is still listed has a job on the way that drops it, for
  `DeletedLeavesTimeline`) and `MatchInv` (the two lists of a pair differ only
  while one client is between its two writes, for `FollowsMatch`).
* **CompileProofs**, on the demo compiler, for every application. `DeployInv` says
  what each phase has left: a client that is of an extracted interface is whole, the
  client and the server of a package name are of interfaces of that name and of none
  before the last one extracted, every root is rewritten before the first build, and
  the artifacts before `k` build, are pushed or are described. So the server is
  that of the last one extracted; if the client is an interface's own, nothing of its
  name was extracted later and the server is its own too; if not, that of a later one
  took its place, and has its methods since the entry point built. That is
  `SuccessIsDeployable`. `PlanInv` is about the instantiation
  plan of a `Plain` program. The stack is a chain in which each statement waits
  for the next (`StackOK`), every dependency found is closed, on the stack, or the
  relevant statement at hand (`DepsOK`, `PrereqsOK`), a variable leads to its
  declaration (`ResolvedOK`), a statement
  of the second pass lies before the root and has been taken (`UsersOK`). All the
  root rests on is there once it is resolved, and no statement that uses any of it
  has been passed over (`BaseOK`); every closed set with the root and the
  statements of the second pass has the whole plan (`MinimalOK`). `SortOK` is the argument
  of Kahn's sort: the degree of a statement is the number of its prerequisites not
  yet placed, those of degree zero are placed or queued, and a placed one comes
  after all of its own. If the queue empties early, what is left is a set in which
  everyone needs another, which declarations without circles do not have: so no
  plan is called circular. `PlanRuns` and `PlanIsExact` follow; the first also
  needs that splitting the plan into package scope and the rest keeps its order,
  since what is declared at the top uses the top only.
* **EntryProofs**, on the entry-path probe, for every program in SSA form, every mode
  and all limits. `ProbeInv` is `TypeInv /\ LateInv /\ ModeInv /\ BridgeInv /\
  BridgeLimits /\ ScanInv /\ Accounted`. Types are not a formality here: the queue
  holds functions, packages or values by the phase, and each phase must leave what the
  next one reads (`TypeCorrect`). `LateInv` says which phases may find the clock run
  out, and by which option. `BridgeInv` is what the bridge knows at each package
  (`Bridging`): what is listed and not yet visited is untouched, a finished package is
  scanned in full, and one cut short has a stop; so every function that is no seed has
  a cause. `ScanInv` says that the index has scanned a first part of its order, and
  `Accounted` what closing it makes of that. The order is a sort: by induction on the
  place it lists every owner once (`InOrderLists`), and a first part of it precedes
  the rest. `SkipsExplained` follows. `StopsInv` adds the limits themselves: each
  addition is made below its limit, so no limit is passed and a stop whose limit is
  met stays so as the sets grow. Only the stop for the depth could become untrue, if
  an owner it left out were added later: the queue is in the order of the depths
  (`ByDepth`), so once the depth has stopped one owner it stops every owner behind it.
  With it, `StopsEarned`. `FlowInv` is about the flow. It holds of programs in which no two
  values share a key and no function is passed to a method (`Unambiguous`): the code
  finds too little where they do. All that is queued is reached from its source, all
  that was found is a registration, and of a value marked as followed each value it
  flows on to is marked or queued and each place that registers it is found
  (`Followed`). A mark goes by the key of a value, so this is where distinct keys are
  needed. When the queue is empty the marked values and those without uses are closed
  under the flow, so all that is reached is among them: `FlowExact`.
* **EntrySeedProofs**, that the seeds of the probe are complete: `SeedsComplete`. Of each
  search, `SeedInv` says what it has found when no limit has cut it short (`Uncut`,
  `Calm`). `TraceInv` follows the search upwards from each root: of a visited function
  that has left the queue all callers are found, so when the queue is empty what was
  found is closed and, with the roots, is all that reaches them (`Up`). `ReverseInv`
  says the same of the frontier's own search. `AdjacentInv` is about its second search,
  by distance from `Up`. Owners are met at their depth at the latest (`LaidOut`), the
  queue is in the order of the depths (`Levelled`), and who has left the queue has led
  to all his neighbours, unless his depth is the last (`Spread`); so the neighbourhood
  of `Up` is found whole although no owner is entered twice. `GatherInv` says what the
  bridge has gathered of its packages: only a package scanned in full counts.
  `OracleInv` counts the bridges of the oracle, one for each start. `PhaseInv` is what
  keeps the parts from one another: which phase a mode may be in, and that no seed is
  named before the searches end; `FrontSeeds` hands what the frontier found to the
  expansion, and `DoneInv` is the claim, mode by mode. The definitions the seeds are
  held against are recursive functions over a number of steps, and `WithinCloses` shows by
  induction on it that as many steps as there are functions reach all there is.

What the proofs assume of the constants is what the code or the compiler
guarantees. `MonolithAssumption`: limits are positive, `Friends` is finite, requests are
the frontend's, posts are named as above. `ExtractionAssumption`: functions and
cells are finitely many, calls and values name functions, a channel is never locked
and only channels are sent to, a region has a root. `CompileAssumption`: the main
package compiles; each variable has one declaration, and declarations rest on each
other in no circle, as Go has it of local variables and of package variables. Two
things it excludes that Go permits: a declaration of several variables that reads
one of them (`var a, b = 1, f(a)` at the top), and an interface whose package is
called `entrypoint`, whose image would have the name of the entry point's.
`ProgramAssumption`: functions, instructions and the arguments of a call are slices.
`EntryAssumption`: the program has finitely many values, each instruction uses values
and calls functions of it, a closure or a conversion defines one, an edge of a call
graph joins two nodes of that graph, limits are naturals.
TLC evaluates each of them on its run.

Some definitions were restated to be reasoned about, each with the same meaning:
`NewestFirst` and `Without` (as above), `Reachable`, whose steps are now one
recursive function, and `PathIsShortest`, which now speaks of walks of a given
length in place of sets of functions at a distance, `Behind`, now a least closed
set, the filtered slices of Instantiation and Compile, now picked by place
(`Listing`), and the recursive operators of ValueFlow, now recursive functions over
the depth or the place; `MapStoresAreExact` now speaks of every position of a
parameter. In the entry-path probe the sorts are `InOrder`, the loops over
instructions and owners recursive functions over the place, and a sum of counts
is `Total`; a set prefix is always parenthesised, since SANY and the prover read
`UNION A \ B` differently.

Only model-checked: the liveness properties (`LiftEnds`, `CallsReturn`,
`AnalysisEnds`, `RequestsReturn`, `OverloadIsNoticed`, `PollerStops`), since the
prover has no ENABLED. Every other property of a passing run is a theorem, for all
values of the constants that the assumptions allow.
Some results are theorems only, and no run repeats them (types, `NeverStacked`,
`HistoryIsLastWindow`, `AnswersAreCounted`, `TwiceAtMostOpen`, `PathIsReal`,
`RootsExploredOnce`, `MissIsReal`, `RecoveredOnce`).

## 6. Not modelled

* The scope phase of the activation analysis with its fallback, partial paths and
  `ParseTarget`; the evaluation corpus.
* The planner, receiver reconstruction and adapter patterns: their answers are
  inputs of Admission. Text generation and templates, of stubs, servers,
  manifests and messages.
* In the entry-path probe: confidence, the trace, and values through helper calls.
* Commands, the end-to-end harness, logging, scripts and the load generator:
  external processes and output.
* In LiftedCall the arguments are the identity of the call. A restart of the lifting
  process simply starts with an empty cache. In Monolith the stores are one
  linearizable map with ETags; the web frontend's pages and sessions are left out.

## 7. Plan

1. The scope phase and partial paths (`scope.go`, `partial.go`) in front of
   ActivationSearch, with the fallback to a wider scope.
2. Composition: Admission with ActivationSearch for repeated lifts, and LiftedCall
   behind a patched host.
3. The planner's receiver reconstruction as operators, so that Admission's
   outcomes are derived rather than chosen.
