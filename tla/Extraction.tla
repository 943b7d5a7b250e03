---------------------------- MODULE Extraction -----------------------------
(***************************************************************************)
(* The report on a region (pkg/compiler/extract): the admission of its     *)
(* first root, the closure of each of its roots, the seams between the     *)
(* roots, the state of their union, the surface, and the verdict.          *)
(*                                                                         *)
(* The instructions a closure follows are "call" (a static call of         *)
(* function on), "invoke" (a call of method on through an interface),      *)
(* "value" (function on as an operand or a literal) and "make" (a value of *)
(* type on becomes an interface).  A program also has packages, the        *)
(* packages of its module; targets[m] are the functions that class         *)
(* hierarchy analysis gives method m, and iface[t] is [names, ops, impls]. *)
(***************************************************************************)
EXTENDS StateClass, Listing

CONSTANT Inputs     \* a set of [prog, region]; region: roots by id

\* The programs compile: functions and cells are numbered, what a call or an
\* operand names is a function, and a channel is sent to, received from and
\* never locked.  A region has a root.
ASSUME ExtractionAssumption ==
    \A in \in Inputs :
        LET p == in.prog IN
        /\ in.region \in Seq(ToSet(in.region)) /\ in.region # <<>>
        /\ IsFiniteSet(DOMAIN p.fn) /\ DOMAIN p.fn \subseteq Nat
        /\ IsFiniteSet(DOMAIN p.cell) /\ DOMAIN p.cell \subseteq Nat
        /\ \A f \in DOMAIN p.fn : \A j \in Code(p, f) :
              /\ j.op \in {"call", "value"} => j.on \in DOMAIN p.fn
              /\ j.op = "invoke" => p.targets[j.on] \subseteq DOMAIN p.fn
              /\ j.on \in DOMAIN p.cell =>
                    /\ j.op \in {"send", "recv"} => p.cell[j.on].type = "chan"
                    /\ j.op = "lock" => p.cell[j.on].type # "chan"

VARIABLES
    input,          \* the program and the region
    phase,          \* "start", "closure", "seams", "state", "refuse", "done"
    at,             \* the root whose closure is open (Len + 1: none left)
    open,           \* its worklist has been filled
    queue, visited, \* the worklist and the functions visited
    rta,            \* the graph of the first root with a registry key
    reach,          \* ReachableByRoot
    deps,           \* the external packages called
    triggers,       \* why the closure is imprecise
    access,         \* the writers and the readers of each shared field
    scanned,        \* the roots whose accesses have been collected
    report          \* what it says so far; see Blank
vars == <<input, phase, at, open, queue, visited, rta, reach, deps, triggers,
          access, scanned, report>>

prog  == input.prog
roots == input.region
root  == roots[1]           \* loaded.RootPragma is the first root's pragma
Fns   == DOMAIN prog.fn
Cells == DOMAIN prog.cell
Internal(f) == prog.fn[f].pkg \in prog.packages

-----------------------------------------------------------------------------
(* The operations and the functions of a root.                             *)

\* resolveExposedOperations, for a struct.
Exposed(r) ==
    {f \in Fns : /\ r.surface = "struct"
                 /\ prog.fn[f].pkg = r.pkg /\ prog.fn[f].owner = r.type
                 /\ IF r.methods = {} THEN prog.fn[f].exported
                    ELSE prog.fn[f].name \in r.methods}

\* The declaration the pragma stands on: resolveDirectMethodIdentity finds
\* the receiver of a method in the syntax.
Declared(r) ==
    {f \in Fns : /\ r.surface \in {"function", "method"}
                 /\ prog.fn[f].pkg = r.pkg /\ prog.fn[f].name = r.name
                 /\ prog.fn[f].owner = r.type}

OpsOf(fs) ==
    LET order == Ascending(fs)
    IN  [i \in DOMAIN order |-> prog.fn[order[i]].op]

Operations(r) ==
    IF r.surface = "interface"
    THEN LET chosen == Ascending(
                 {i \in DOMAIN prog.iface[r.type].ops :
                     r.methods = {}
                     \/ prog.iface[r.type].names[i] \in r.methods})
         IN  [i \in DOMAIN chosen |-> prog.iface[r.type].ops[chosen[i]]]
    ELSE OpsOf(Exposed(r) \cup Declared(r))

ExposedNames(r) ==
    IF r.surface = "interface"
    THEN {n \in ToSet(prog.iface[r.type].names) : r.methods = {} \/ n \in r.methods}
    ELSE {prog.fn[f].name : f \in Exposed(r)}

\* resolveRootFunctions: a symbol names its function when functionObjectName
\* agrees.  The symbol of a function or a method is the name of the
\* declaration, without a receiver; that of a struct's method is "(*T).m".
RootFunctions(r) ==
    IF Exposed(r) # {} THEN {f \in Exposed(r) : prog.fn[f].ptr}
    ELSE {f \in Fns : /\ r.surface \in {"function", "method"}
                      /\ prog.fn[f].pkg = r.pkg /\ prog.fn[f].owner = 0
                      /\ prog.fn[f].name = r.name}

-----------------------------------------------------------------------------
(* Calls.                                                                  *)

Targets(f, op) == {i.on : i \in {j \in Code(prog, f) : j.op = op}}

\* rta.Analyze: the least set of functions that has the roots and, with a
\* function, what it calls or takes as a value, the exported methods of the
\* types it makes into interfaces, and what it invokes on them.
LiveTypes(fs) == UNION {Targets(f, "make") : f \in fs}
RTAClosed(fs) ==
    /\ UNION {Targets(f, "call") \cup Targets(f, "value") : f \in fs} \subseteq fs
    /\ \A f \in Fns \ fs : prog.fn[f].owner \in LiveTypes(fs) =>
          /\ ~prog.fn[f].exported
          /\ \A g \in fs : \A m \in Targets(g, "invoke") : f \notin prog.targets[m]
RTAGraph(fs) ==
    LET closed == {s \in SUBSET Fns : fs \subseteq s /\ RTAClosed(s)}
        live   == {f \in Fns : \A s \in closed : f \in s}
    IN  [fns |-> live, types |-> LiveTypes(live)]

\* dispatchGraph: one RTA graph per program, built for the first root that
\* asks for one.
NoGraph == [fns |-> {}, types |-> {0}]
Graph(r) == IF r.registry # "" /\ rta # NoGraph THEN rta ELSE NoGraph

\* The callees of an invocation: every implementation of the method, or the
\* ones the RTA graph has at the caller's node.
Dispatch(graph, f, m) ==
    IF graph = NoGraph THEN prog.targets[m]
    ELSE {g \in prog.targets[m] : f \in graph.fns
                                  /\ prog.fn[g].owner \in graph.types}

Callees(graph, f) ==
    Targets(f, "call")
    \cup UNION {Dispatch(graph, f, m) : m \in Targets(f, "invoke")}

\* resolveCallCallees: what it notes about a dispatch.
DispatchTriggers(r, f) ==
    UNION {LET graph == Graph(r)
               few   == Dispatch(graph, f, m)
           IN  IF graph # NoGraph /\ f \notin graph.fns THEN {}
               ELSE UNION {
                   IF Cardinality(few) > 1
                   THEN {<<"dispatch-growth", f, m>>} ELSE {},
                   IF r.registry # ""
                      /\ Cardinality(prog.targets[m]) > Cardinality(few)
                   THEN {<<"rta-escape", f, 0>>} ELSE {}} :
           m \in Targets(f, "invoke")}

-----------------------------------------------------------------------------
Blank == [admission |-> "", transport |-> "", codes |-> {}, seams |-> {},
          rows |-> {}, archetype |-> "", surface |-> "", adapters |-> {},
          verdict |-> "none"]

Init ==
    /\ input \in Inputs
    /\ phase = "start" /\ at = 1 /\ open = FALSE
    /\ queue = <<>> /\ visited = {} /\ rta = NoGraph
    /\ reach = [i \in DOMAIN roots |-> {}]
    /\ deps = {} /\ triggers = {}
    /\ access = [c \in Cells |-> [writers |-> {}, readers |-> {}]]
    /\ scanned = {}
    /\ report = Blank

\* Analyze: liftability, shape and the options of the first root.
Admit ==
    /\ phase = "start"
    /\ phase' = "closure"
    /\ LET ops == Operations(root)
       IN  report' = [report EXCEPT
               !.admission = RootAdmission(ops),
               !.transport = RootTransport(root, ops),
               !.codes = LiftabilityCodes(root, ops) \cup ShapeCodes(root, ops)
                         \cup OptionCodes(root, ExposedNames(root), ops)]
    /\ UNCHANGED <<input, at, open, queue, visited, rta, reach, deps, triggers,
                   access, scanned>>

\* loadedForRegionRoot: of several roots one outside the loaded packages is
\* left out.
SkipRoot ==
    /\ phase = "closure" /\ ~open /\ at <= Len(roots) /\ Len(roots) > 1
    /\ roots[at].pkg \notin prog.packages
    /\ at' = at + 1
    /\ UNCHANGED <<input, phase, open, queue, visited, rta, reach, deps,
                   triggers, access, scanned, report>>

\* The functions visited for the last root count for this one.
OpenRootAgain ==
    /\ phase = "closure" /\ ~open /\ at <= Len(roots)
    /\ roots[at].pkg \in prog.packages \/ Len(roots) = 1
    /\ queue' = Ascending(RootFunctions(roots[at]))
    /\ open' = TRUE
    /\ UNCHANGED <<input, phase, at, visited, rta, reach, deps, triggers,
                   access, scanned, report>>

\* buildClosure: the root functions and the dispatch plan.
OpenRoot ==
    /\ phase = "closure" /\ ~open /\ at <= Len(roots)
    /\ roots[at].pkg \in prog.packages \/ Len(roots) = 1
    /\ LET fs  == RootFunctions(roots[at])
           key == roots[at].registry # ""
       IN  /\ queue' = Ascending(fs)
           /\ rta' = IF key /\ fs # {} /\ rta = NoGraph THEN RTAGraph(fs) ELSE rta
           /\ triggers' = IF key THEN triggers \cup {<<"registry-key", 0, 0>>}
                          ELSE triggers
    /\ open' = TRUE /\ visited' = {}
    /\ UNCHANGED <<input, phase, at, reach, deps, access, scanned, report>>

\* One turn of the loop of buildClosure.
Visit ==
    /\ phase = "closure" /\ open /\ queue # <<>>
    /\ LET f == Head(queue)
           called == Callees(Graph(roots[at]), f)
           found  == {g \in called \cup Targets(f, "value") : Internal(g)}
       IN  IF f \in visited
           THEN queue' = Tail(queue) /\ UNCHANGED <<visited, deps, triggers>>
           ELSE /\ queue' = Tail(queue) \o Ascending(found)
                /\ visited' = visited \cup {f}
                /\ deps' = deps \cup {prog.fn[g].pkg :
                                      g \in {h \in called : ~Internal(h)}}
                /\ triggers' = triggers \cup DispatchTriggers(roots[at], f)
    /\ UNCHANGED <<input, phase, at, open, rta, reach, access, scanned, report>>

\* buildRegionClosure: the closure of a root joins the region's.
CloseRoot ==
    /\ phase = "closure" /\ open /\ queue = <<>>
    /\ reach' = [reach EXCEPT ![at] = visited]
    /\ open' = FALSE /\ at' = at + 1
    /\ UNCHANGED <<input, phase, queue, visited, rta, deps, triggers, access,
                   scanned, report>>

EndClosure ==
    /\ phase = "closure" /\ ~open /\ at > Len(roots)
    /\ phase' = "seams"
    /\ UNCHANGED <<input, at, open, queue, visited, rta, reach, deps, triggers,
                   access, scanned, report>>

-----------------------------------------------------------------------------
(* DetectSeams: the roots are the keys of a map, taken in any order.       *)

SyncField(c) == prog.cell[c].owner # 0
                /\ prog.cell[c].type \in MutexTypes \cup {"sync/atomic"}
ChanField(c) == prog.cell[c].owner # 0 /\ prog.cell[c].type = "chan"
Uses(i, c, op) == On(prog, reach[i], c, {op}) # {}

\* What earlier roots did to a field is forgotten.
ScanRootAlone ==
    /\ phase = "seams"
    /\ \E i \in DOMAIN roots \ scanned :
        /\ scanned' = scanned \cup {i}
        /\ access' = [c \in Cells |->
             IF (ChanField(c) /\ (Uses(i, c, "send") \/ Uses(i, c, "recv")))
                \/ (SyncField(c) /\ Uses(i, c, "lock"))
             THEN [writers |-> {i}, readers |-> {i}] ELSE access[c]]
    /\ UNCHANGED <<input, phase, at, open, queue, visited, rta, reach, deps,
                   triggers, report>>

ScanRoot ==
    /\ phase = "seams"
    /\ \E i \in DOMAIN roots \ scanned :
        /\ scanned' = scanned \cup {i}
        /\ access' = [c \in Cells |->
             [writers |-> access[c].writers \cup
                  IF \/ ChanField(c) /\ Uses(i, c, "send")
                     \/ SyncField(c) /\ Uses(i, c, "lock")
                  THEN {i} ELSE {},
              readers |-> access[c].readers \cup
                  IF \/ ChanField(c) /\ Uses(i, c, "recv")
                     \/ SyncField(c) /\ Uses(i, c, "lock")
                  THEN {i} ELSE {}]]
    /\ UNCHANGED <<input, phase, at, open, queue, visited, rta, reach, deps,
                   triggers, report>>

\* A channel of a type that is itself a root: its owner's name is a root's id.
RootOwned(c) == \E i \in DOMAIN roots :
                    /\ roots[i].surface \in {"struct", "interface"}
                    /\ roots[i].type = prog.cell[c].owner
Touched(c) == access[c].writers \cup access[c].readers

IsSeam(c) ==
    \/ /\ ChanField(c)
       /\ (\E d \in Cells : ChanField(d) /\ Touched(d) # {} /\ RootOwned(d))
          => RootOwned(c)
       /\ access[c].writers # access[c].readers
       /\ access[c].writers # {} /\ access[c].readers # {}
    \/ SyncField(c) /\ Cardinality(Touched(c)) >= 2

EndSeams ==
    /\ phase = "seams" /\ scanned = DOMAIN roots
    /\ report' = [report EXCEPT !.seams =
           {[cell |-> c, writers |-> access[c].writers,
             readers |-> access[c].readers] : c \in {d \in Cells : IsSeam(d)}}]
    /\ phase' = "state"
    /\ UNCHANGED <<input, at, open, queue, visited, rta, reach, deps, triggers,
                   access, scanned>>

-----------------------------------------------------------------------------
(* State, surface and verdict.                                             *)

ReachableFuncs == UNION {reach[i] : i \in DOMAIN roots}

\* The verdicts on an effect that the evidence of several operations may be
\* read as: regionEvidence sorts them by property and subject alone, and
\* ConstructCandidates keeps the last.
Readings(ops, effect) ==
    LET known == {Verdict(ops[i], effect) : i \in DOMAIN ops} \ {"Unknown"}
    IN  IF known = {} THEN {"Unknown"} ELSE known

InferState ==
    /\ phase = "state"
    /\ LET ops == Operations(root)
           state == Infer(prog, root, ReachableFuncs, ExposedNames(root))
       IN  \E effects \in [Effects -> {"Hold", "Unknown", "Violate"}] :
            /\ \A e \in Effects : effects[e] \in Readings(ops, e)
            /\ report' = [report EXCEPT
                   !.rows = state.rows,
                   !.codes = @ \cup state.codes,
                   !.archetype = Classification(prog, root, ReachableFuncs,
                                                effects).primary]
            /\ triggers' = triggers \cup {<<t, 0, 0>> : t \in state.triggers}
    /\ phase' = "refuse"
    /\ UNCHANGED <<input, at, open, queue, visited, rta, reach, deps, access,
                   scanned>>

\* surface.entryPointFunctions: a method goes by its bare name and a literal
\* by its function's; the symbol of a type's method matches neither.
EntryPoints ==
    {f \in ReachableFuncs :
        /\ root.surface \in {"function", "method"}
        /\ prog.fn[f].pkg = root.pkg
        /\ root.name = IF prog.fn[f].owner = 0 THEN prog.fn[f].base
                       ELSE prog.fn[f].name}

Kinds(f) == ToSet(prog.fn[f].op.params) \cup ToSet(prog.fn[f].op.results)
Session(f) == Does(Code(prog, f), "hijack") \/ "conn" \in Kinds(f)

SurfaceCodes ==
    LET plain == {f \in EntryPoints : "chan" \notin Kinds(f)}
    IN  (IF plain # EntryPoints THEN {"MLV2_SURFACE_ASYNC_UNSUPPORTED"} ELSE {})
        \cup IF (\E f \in plain : Session(f)) /\ (\E f \in plain : ~Session(f))
             THEN {"MLV2_SURFACE_MIXED"} ELSE {}

\* detectReflectionDispatch, detectDynamicPluginLoads, detectUnsafeBoundary
UnboundedCodes ==
    LET some(op) == \E f \in ReachableFuncs : Does(Code(prog, f), op)
    IN  UNION {
        IF root.registry = "" /\ some("reflect")
        THEN {"MLV2_REFLECTION_DISPATCH"} ELSE {},
        IF root.registry = "" /\ some("plugin")
        THEN {"MLV2_DYNAMIC_PLUGIN", "MLV2_CLOSURE_UNBOUNDED"} ELSE {},
        IF \E f \in ReachableFuncs : "unsafe" \in Kinds(f)
        THEN {"MLV2_CLOSURE_UNBOUNDED"} ELSE {}}

\* deriveAdapters
Adapters ==
    LET ops == Operations(root)
    IN  UNION {
        IF \E i \in DOMAIN ops : Shape(ops[i]) = "http-handler"
        THEN {"handler"} ELSE {},
        IF root.registry # "" THEN {"registry"} ELSE {},
        IF report.archetype = "actor" THEN {"actor"} ELSE {}}

\* Analyze: the rest of the refusals, and applyRefusalMetadata.
Refuse ==
    /\ phase = "refuse"
    /\ LET codes == report.codes \cup SurfaceCodes \cup UnboundedCodes
       IN  report' = [report EXCEPT
               !.codes = codes,
               !.surface = IF \E f \in EntryPoints : Session(f)
                                                     /\ "chan" \notin Kinds(f)
                           THEN "session" ELSE "call",
               !.adapters = Adapters,
               !.verdict = IF codes = {} THEN "accept" ELSE "refuse-blocking"]
    /\ phase' = "done"
    /\ UNCHANGED <<input, at, open, queue, visited, rta, reach, deps, triggers,
                   access, scanned>>

Return == phase = "done" /\ UNCHANGED vars

Next == \/ Return \/ Admit \/ SkipRoot \/ OpenRoot \/ Visit \/ CloseRoot \/ EndClosure
        \/ ScanRoot \/ EndSeams \/ InferState \/ Refuse

Spec == Init /\ [][Next]_vars
-----------------------------------------------------------------------------
(* Properties.                                                             *)

Done == phase = "done"

\* The functions a root reaches, by the number of calls it takes: functions
\* of the module that a reached one calls, may dispatch to, or has as a value.
Successors(fs) == {g \in UNION {Targets(f, "value") \cup Callees(NoGraph, f) : f \in fs} :
                 Internal(g)}
Within(r) ==
    LET within[n \in 0..Cardinality(Fns)] ==
            IF n = 0 THEN RootFunctions(r)
            ELSE LET fs == within[n - 1] IN fs \cup Successors(fs)
    IN  within
Reachable(r) == Within(r)[Cardinality(Fns)]

\* The closure of a root is what it reaches, whatever roots were closed
\* before it; a registry key only narrows it.  (buildClosure,
\* buildRegionClosure)
ClosureIsExact ==
    Done => \A i \in DOMAIN roots :
        roots[i].pkg \in prog.packages =>
            /\ reach[i] \subseteq Reachable(roots[i])
            /\ roots[i].registry = "" => reach[i] = Reachable(roots[i])

\* A seam is a field that two roots really share, and no shared channel of a
\* root type and no mutex two roots lock is missing, in whatever order the
\* roots were scanned.  (DetectSeams)
SeamsAreExact ==
    Done =>
      /\ \A s \in report.seams :
            /\ Cardinality(s.writers \cup s.readers) > 1
            /\ s.writers = {i \in DOMAIN roots :
                              Uses(i, s.cell, "send") \/ Uses(i, s.cell, "lock")}
            /\ s.readers = {i \in DOMAIN roots :
                              Uses(i, s.cell, "recv") \/ Uses(i, s.cell, "lock")}
      /\ \A c \in Cells, i, j \in DOMAIN roots :
            /\ i # j
            /\ \/ ChanField(c) /\ RootOwned(c)
                  /\ Uses(i, c, "send") /\ Uses(j, c, "recv")
                  /\ ~Uses(i, c, "recv")
               \/ SyncField(c) /\ Uses(i, c, "lock") /\ Uses(j, c, "lock")
            => \E s \in report.seams : s.cell = c

\* An accepted region whose developer declared nothing never replicates a
\* variable or a field that its functions are seen to assign: that state has
\* one owner, is external, or its row says refused.  (inferClass,
\* coalesceInferences, applyRefusalMetadata)
Row(c) == {r \in report.rows : r.cell = c}
AssignedIsNeverReplicated ==
    Done /\ report.verdict = "accept" /\ root.state = "" /\ root.registry = ""
    => \A c \in Cells :
        InScope(prog, root, c) /\ Stores(prog, ReachableFuncs, c) # {}
        => \E r \in Row(c) \cup Row(0) : r.disposition # "replicated"

\* A region gets the actor adapter only when a field of its package is
\* protected or assigned and no operation, taken alone, breaks all that an
\* actor relies on.  (ConstructCandidates, SelectPrimary, deriveAdapters)
ActorIsBacked ==
    Done /\ "actor" \in report.adapters =>
      /\ \E c \in Seeds(prog, root, ReachableFuncs) :
            /\ prog.cell[c].owner # 0
            /\ \/ Stores(prog, ReachableFuncs, c) # {}
               \/ "connections" \in prog.cell[c].tags
      /\ LET ops == Operations(root)
         IN  \A e \in Effects : \E i \in DOMAIN ops : Verdict(ops[i], e) = "Hold"

=============================================================================
