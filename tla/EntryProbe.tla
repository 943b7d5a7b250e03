---------------------------- MODULE EntryProbe -----------------------------
(***************************************************************************)
(* The entry-path probe as a whole: the seeds of EntryPath, EntryFrontier  *)
(* and EntryBridge, the index of the references their owners hold          *)
(* (funcvalue.go, buildFunctionRefIndexFromFunctions), and the flow of     *)
(* function values through those references (analyzeFunctionValueFlow).    *)
(***************************************************************************)
EXTENDS EntryFrontier, EntryBridge

-----------------------------------------------------------------------------
(* The index.                                                              *)

Ranking(f) ==
    LET selected == Pkg(f) \in DOMAIN cover
    IN  [class |-> Class(why[f], noted[f], selected, found.matched[f]),
         evidence |-> noted[f], matched |-> found.matched[f],
         selected |-> selected]

\* The clock of the index is a new one, except that all-program seeds have
\* used up some of its time.
OpenIndex ==
    /\ phase = "index" /\ phase' = "scan" /\ at' = 1
    /\ index' = [EmptyIndex EXCEPT !.order =
                    CASE Mode = "all" -> Ascending(Fns)
                      [] Mode = "bridge" -> Sorted([f \in Owners |-> Ranking(f)])
                      [] OTHER -> Ascending(Owners)]
    /\ late' = (late /\ ~Frontier)
    /\ UNCHANGED <<input, graph, callers, why, noted, diags, found, cover, queue,
                   visited, flow>>

IndexLimit ==
    LET limits == {opts.maxIndex}
                  \cup (IF Mode = "targeted" THEN {opts.targets} ELSE {})
    IN  Min((limits \ {0}) \cup {Len(index.order)})

\* addSource: closures made and functions used as operands.
SourcesAt(f, n) ==
    LET i == Code(f)[n]
    IN  (IF i.op = "closure" THEN {<<i.def, i.callee>>} ELSE {})
        \cup {<<v, v[1]>> : v \in {w \in {r.operand : r \in RefsAt(f, n)} :
                                      w[1] # 0 /\ w[2] = 0}}

\* scanFunction, up to the instruction after which the time is over.
IndexOwner ==
    /\ phase = "scan" /\ at <= IndexLimit
    /\ LET f == index.order[at]
           never == Len(Code(f)) + 1
       IN  \E cut \in IF late THEN {0}
                      ELSE IF opts.index THEN 0..never ELSE {never} :
           LET lines == 1..(IF cut = never THEN never - 1 ELSE cut)
               scan == IF cut = 0 THEN index
                       ELSE [index EXCEPT
                                !.scanned = @ \cup {f},
                                !.refs = @ \cup UNION {RefsAt(f, n) : n \in lines},
                                !.sources = @ \cup {<<<<f, 0>>, f>>}
                                    \cup UNION {SourcesAt(f, n) : n \in lines}]
               rest == {index.order[k] : k \in at..Len(index.order)} \ scan.scanned
           IN  /\ late' = (cut < never)
               /\ IF cut = never
                  THEN index' = scan /\ at' = at + 1
                  ELSE /\ index' = [scan EXCEPT !.skipped =
                              [g \in Fns |-> IF g \in rest THEN "index_budget" ELSE @[g]]]
                       /\ at' = Len(index.order) + 1
    /\ UNCHANGED <<input, phase, graph, callers, why, noted, diags, found, cover,
                   queue, visited, flow>>

Sources == index.sources
Uses(v) == {r \in index.refs : r.operand = v}
KeyOf(v) == prog.val[v].key

EarlierSource(s, t) ==
    \/ KeyOf(s[1]) < KeyOf(t[1])
    \/ /\ KeyOf(s[1]) = KeyOf(t[1])
       /\ \/ s[1][1] < t[1][1]
          \/ s[1][1] = t[1][1] /\ s[1][2] < t[1][2]
          \/ s[1] = t[1] /\ s[2] < t[2]

\* The sources that have uses, by the name and text of their values.
FirstQueue ==
    LET used == {s \in Sources : Uses(s[1]) # {}}
        order == InOrder(used, {x \in used \X used : EarlierSource(x[1], x[2])})
    IN  [k \in DOMAIN order |->
            [val |-> order[k][1], src |-> order[k][2], chain |-> <<>>]]

\* The owners beyond the limit are skipped; sorting what was found takes
\* time too.
CloseIndex ==
    /\ phase = "scan" /\ at > IndexLimit
    /\ index' = [index EXCEPT !.skipped =
                    [f \in Fns |->
                        IF @[f] = "" /\ f \in ToSet(index.order) \ index.scanned
                        THEN "max_functions" ELSE @[f]]]
    /\ \E t \in Ticks(1, opts.index /\ index.refs # {}) :
           IF t[1]
           THEN /\ diags' = diags \cup {"function_ref_index_budget_exceeded"}
                /\ found' = Stop(found, "index_budget")
           ELSE UNCHANGED <<diags, found>>
    /\ phase' = "flow" /\ queue' = FirstQueue /\ visited' = {} /\ late' = FALSE
    /\ UNCHANGED <<input, graph, callers, why, noted, cover, at, flow>>

-----------------------------------------------------------------------------
(* The flow of function values.                                            *)

Link(c, to, edge) == Append(c.chain, [from |-> c.src, to |-> to, edge |-> edge])

\* recordChain: the last chain from a source to a site is kept.
Chained(fl, c, site, chain) ==
    IF chain = <<>> THEN fl
    ELSE [fl EXCEPT !.chains = (<<c.src, site>> :> chain) @@ @]

Wrapped(fl, c, target, edge) ==
    IF target = 0 THEN fl ELSE Chained(fl, c, target, Link(c, target, edge))

Registered(fl, c, ref, edge, kind) ==
    LET site == [src |-> c.src, site |-> ref.owner, edge |-> edge, at |-> ref.at,
                 kind |-> kind]
        Same(s) == <<s.src, s.site, s.edge, s.at>> = <<c.src, ref.owner, edge, ref.at>>
    IN  IF \E s \in fl.sites : Same(s) THEN fl
        ELSE Chained([fl EXCEPT !.sites = @ \cup {site}], c, ref.owner, c.chain)

HasServeHTTP(type) == type \in {"handler", "handlerfunc", "serving"}

\* recordStore: what the address is decides whether the store registers.
Stored(fl, c, ref) ==
    LET a == prog.val[InstrOf(ref).addr]
    IN  CASE a.kind = "field" /\ HasServeHTTP(a.under) ->
                 Registered(fl, c, ref, "stored_field", "field-http-handler")
          [] a.kind \in {"global", "element"} ->
                 Registered(fl, c, ref, "stored", a.kind)
          [] OTHER -> [fl EXCEPT !.unknown = @ \cup {<<ref.owner, ref.at>>}]

\* calleeParam: the parameter of the callee that takes the k-th argument.  A
\* method's receiver is among its parameters, and is passed over twice.
CalleeParam(callee, k) ==
    LET n == IF prog.fn[callee].recv THEN k - 1 ELSE k
    IN  IF callee # 0 /\ n \in DOMAIN prog.fn[callee].params
        THEN {<<callee, n>>} ELSE {}

\* What the flow records at a reference, and the values it goes on to.
Passed(fl, c, ref) ==
    LET i == InstrOf(ref)
        edge == IF i.op = "go" THEN "goroutine_launch" ELSE "arg"
        type == IF ref.arg \in DOMAIN ParamTypes(i) THEN ParamTypes(i)[ref.arg] ELSE ""
    IN  IF IsInterface(type)
        THEN Registered(fl, c, ref, edge,
                        IF type = "handler" THEN "http-handler" ELSE "interface")
        ELSE fl

FlowsTo(c, ref) ==
    LET i == InstrOf(ref)
        To(v, chain) == [val |-> v, src |-> c.src, chain |-> chain]
        result == IF i.def = NoVal THEN <<>>
                  ELSE <<To(i.def, IF i.op # "pass" /\ i.callee # 0
                                   THEN Link(c, i.callee,
                                             IF i.op = "closure" THEN "capture" ELSE "arg")
                                   ELSE c.chain)>>
    IN  CASE i.op \in {"closure", "pass"} -> result
          [] i.op \in Calls /\ i.val # c.val ->
                 (IF i.callee = 0 THEN <<>>
                  ELSE [k \in 1..Cardinality(CalleeParam(i.callee, ref.arg)) |->
                           To(CHOOSE p \in CalleeParam(i.callee, ref.arg) : TRUE,
                              c.chain)])
                 \o result
          [] OTHER -> <<>>

Records(fl, c, ref) ==
    LET i == InstrOf(ref)
        invoke == IF i.op = "go" THEN "goroutine_launch" ELSE "direct_invoke"
    IN  CASE i.op = "store"   -> Stored(fl, c, ref)
          [] i.op = "return"  -> Wrapped(fl, c, ref.owner, "returned")
          [] i.op = "closure" -> Wrapped(fl, c, i.callee, "capture")
          [] i.op \in Calls /\ i.val = c.val -> Wrapped(fl, c, i.callee, invoke)
          [] i.op \in Calls /\ i.val # c.val -> Passed(fl, c, ref)
          [] OTHER -> fl

KindRank == [call_arg |-> 1, capture |-> 2, direct_invoke |-> 3, go_arg |-> 4,
             go_launch |-> 5, operand |-> 6, return |-> 7, store |-> 8]
EarlierRef(r, s) ==
    \/ r.owner < s.owner
    \/ r.owner = s.owner /\ KindRank[r.kind] < KindRank[s.kind]
    \/ /\ r.owner = s.owner /\ r.kind = s.kind
       /\ r.at < s.at \/ (r.at = s.at /\ r.arg < s.arg)

\* The uses of a value, by owner, kind and text.
UseSeq(v) == InOrder(Uses(v), {x \in Uses(v) \X Uses(v) : EarlierRef(x[1], x[2])})

\* A mutant: the source is not part of the key.
TaintKeyOfValue(c) == <<0, KeyOf(c.val)>>

\* taintKey: what names the source and the value, and not the value itself.
TaintKey(c) == <<c.src, KeyOf(c.val)>>

Mark(c) == visited \cup {TaintKey(c)}

FlowValue ==
    /\ phase = "flow" /\ queue # <<>>
    /\ LET c == Head(queue)
           uses == UseSeq(c.val)
           recorded[n \in 0..Len(uses)] ==
               IF n = 0 THEN flow ELSE Records(recorded[n - 1], c, uses[n])
       IN  IF TaintKey(c) \in visited
           THEN queue' = Tail(queue) /\ UNCHANGED <<visited, flow>>
           ELSE /\ visited' = Mark(c)
                /\ flow' = recorded[Len(uses)]
                /\ queue' = Tail(queue)
                            \o Concat([k \in DOMAIN uses |-> FlowsTo(c, uses[k])])
    /\ UNCHANGED <<input, phase, graph, callers, why, noted, diags, found, cover,
                   at, index, late>>

EndFlow ==
    /\ phase = "flow" /\ queue = <<>>
    /\ phase' = "done"
    /\ diags' = diags \cup (IF flow.unknown # {}
                            THEN {"funcvalue_terminated_at_unknown_sink"} ELSE {})
    /\ UNCHANGED <<input, graph, callers, why, noted, found, cover, queue, at,
                   visited, index, flow, late>>

-----------------------------------------------------------------------------
(* What the probe's answer rests on.                                       *)

Return == phase = "done" /\ UNCHANGED vars

Next ==
    \/ BuildGraph \/ OpenReverse \/ VisitNode \/ CloseReverse
    \/ SeedPaths \/ SeedSinks \/ Expand
    \/ FrontierStep \/ BridgeStep
    \/ OpenIndex \/ IndexOwner \/ CloseIndex
    \/ FlowValue \/ EndFlow \/ Return

Spec == Init /\ [][Next]_vars

Seeded == phase \in {"index", "scan", "flow", "done"}

\* All that reaches a set of functions, or lies within n steps of it.
Within(s, n, pairs) ==
    LET within[k \in 0..n] ==
            IF k = 0 THEN s
            ELSE LET near == within[k - 1]
                 IN  near \cup {e[2] : e \in {d \in pairs : d[1] \in near}}
    IN  within[n]

Upward(s) == Within(s, Cardinality(Fns), {<<e[2], e[1]>> : e \in graph.edges})
Around(s, n) ==
    Within(s, n, {d \in Fns \X Fns : d[2] \in AdjacentIn(graph, d[1])})
Holders(starts, pkg) ==
    {f \in Fns : /\ Pkg(f) = pkg
                 /\ \E r \in Refs(f) : \E s \in starts :
                        Pkg(s) = pkg /\ r.operand = <<s, 0>>}
PassedTo(starts, pkg) ==
    UNION {CalleesForRef(r) : r \in {x \in UNION {Refs(f) : f \in Holders(starts, pkg)} :
                \E s \in starts : Pkg(s) = pkg /\ x.operand = <<s, 0>>}}
BridgeOf(starts) ==
    LET pkgs == {Pkg(s) : s \in starts}
    IN  starts \cup UNION {Holders(starts, p) \cup PassedTo(starts, p)
                           \cup {f \in Fns : Pkg(f) = p /\ HasEvidence(f)} : p \in pkgs}

OracleStops == {"oracle_bridge_duration_exceeded", "oracle_bridge_owner_budget_exceeded",
                "oracle_bridge_package_budget_exceeded"}

\* A search that no limit has stopped finds its seeds and no others: the
\* callers of the roots and what those call, every function with evidence,
\* those around the roots' callers that have it, the closure of an expansion
\* said to be complete, or the bridge between the starts and the boundary.
\* The queues, the marks and the ways the searches break off all bear on it.
SeedsAreComplete ==
    Seeded /\ diags \cap {"reverse_bfs_bound_exceeded",
                          "function_ref_index_budget_exceeded"} = {} =>
    LET up == Upward(input.roots)
        near == Around(up, IF input.main THEN opts.reach ELSE 0)
        calmly == found.stops \ {"depth_budget"} = {}
    IN  /\ Mode = "reverse-path" =>
               Owners = up \cup UNION {StaticCallees(f) : f \in up}
        /\ Mode = "http-sinks" /\ ~Frontier => Owners = Bounded(Fns)
        /\ Mode = "http-sinks" /\ Frontier /\ calmly => Owners = Bounded(near)
        /\ Mode = "targeted" /\ Frontier /\ calmly => up \cup Bounded(near) \subseteq Owners
        /\ "targeted_completed" \in diags
           /\ ~AtLimit(Cardinality(Owners) - 1, opts.maxIndex) =>
               \A f \in Owners : \A r \in Refs(f) : ExpansionOwners(r) \subseteq Owners
        /\ Mode = "bridge" /\ found.stops = {} => Owners = BridgeOf(Starts)
        /\ Mode = "oracle-bridge" /\ OracleStops \cap diags = {} =>
               Owners = UNION {BridgeOf({s}) : s \in OracleStarts}

\* What is cut short is accounted for.  A limit is never passed; a stop is
\* recorded only when its limit has been reached; and a package whose scan was
\* not finished goes with a stop, while a finished one has been scanned whole
\* and its holders of a start are seeds.
StopsAreEarned ==
    LET met == [duration_budget |-> opts.clock,
                reverse_owner_budget |-> AtLimit(Cardinality(found.reverse), opts.reverse),
                adjacent_owner_budget |-> AtLimit(Cardinality(found.adjacent), opts.adjacent),
                boundary_candidate_budget |->
                    AtLimit(Cardinality(found.candidates), opts.candidates),
                boundary_owner_budget |->
                    AtLimit(Cardinality(found.candidates), opts.candidates),
                package_budget |-> AtLimit(Cardinality(found.packages), opts.packages),
                start_budget |-> AtLimit(Cardinality(found.starts), opts.starts),
                owner_budget |-> AtLimit(Cardinality(found.owners), opts.owners),
                instruction_budget |-> AtLimit(found.instrs, opts.instrs),
                package_function_budget |->
                    \E p \in DOMAIN cover : AtLimit(cover[p].functions, opts.perPackage),
                depth_budget |-> Around(found.owners, 1) # found.owners,
                index_budget |-> opts.index]
        Kept(s, limit) == limit = 0 \/ Cardinality(s) <= limit
    IN  /\ \A reason \in found.stops : met[reason]
        /\ Kept(found.packages, opts.packages) /\ Kept(found.candidates, opts.candidates)
        /\ Kept(found.reverse, opts.reverse) /\ Kept(found.adjacent, opts.adjacent)
        /\ Mode = "bridge" => Kept(found.owners, opts.owners)
        /\ Seeded => \A p \in DOMAIN cover :
               IF cover[p].completed
               THEN /\ ToSet(FnsOf(p)) \subseteq found.scanned
                    /\ Holders(found.starts, p) \subseteq Owners
               ELSE found.stops # {} /\ (~cover[p].scheduled => cover[p].stops # {})

\* Every seed is indexed or skipped for a reason, and not both; what the index
\* took first is what the bridge ranks first, so that no owner with boundary
\* evidence is skipped while one without is indexed.  A function that is no
\* seed of the bridge has a cause, unless its package was left at the limit on
\* the functions of a package, which only the first such package says.
SkipsAreExplained ==
    phase \in {"flow", "done"} =>
    /\ \A f \in ToSet(index.order) : (f \in index.scanned) # (index.skipped[f] # "")
    /\ \A f \in ToSet(index.order) :
           index.skipped[f] = "max_functions" =>
               Cardinality(index.scanned) = IndexLimit
    /\ \A f \in index.scanned, g \in ToSet(index.order) \ index.scanned :
           Mode = "bridge" => Ranking(f).class <= Ranking(g).class
    /\ \A f \in Fns \ Owners : Mode = "bridge" /\ SkipCauses(f) = {} =>
           "package_function_budget" \in found.stops /\ ~cover[Pkg(f)].completed

\* A value passed to its own call is taken for the invocation.
TakenForCall(r) == IsArg(r) /\ InstrOf(r).val = r.operand

\* The values a source's function flows to, as the program says.
FlowsOn(v) ==
    UNION {LET i == InstrOf(r)
               param == IF i.callee = 0 THEN {}
                        ELSE {<<i.callee, k>> : k \in {r.arg}
                                \cap DOMAIN prog.fn[i.callee].params}
           IN  CASE IsArg(r) -> param \cup ({i.def} \ {NoVal})
                 [] r.kind = "capture" \/ i.op = "pass" -> {i.def}
                 [] OTHER -> {}
           : r \in {x \in Uses(v) : ~TakenForCall(x)}}
FlowPairs == UNION {{<<v, w>> : w \in FlowsOn(v)} : v \in DOMAIN prog.val}
Reached(src) ==
    Within({s[1] : s \in {x \in Sources : x[2] = src}}, Cardinality(DOMAIN prog.val),
           FlowPairs)

\* The places where a function is registered, as the index has them.
Registers(r) ==
    LET i == InstrOf(r)
        a == prog.val[i.addr]
    IN  \/ r.kind = "store" /\ (a.kind \in {"global", "element"}
                                \/ (a.kind = "field" /\ HasServeHTTP(a.under)))
        \/ /\ IsArg(r) /\ ~TakenForCall(r) /\ r.arg \in DOMAIN ParamTypes(i)
          /\ IsInterface(ParamTypes(i)[r.arg])
Registrations ==
    UNION {{<<src, r.owner, r.at>> :
               r \in {x \in index.refs : Registers(x) /\ x.operand \in Reached(src)}}
           : src \in {s[2] : s \in Sources}}
Found == {<<s.src, s.site, s.at>> : s \in flow.sites}

Distinct == \A v, w \in DOMAIN prog.val : KeyOf(v) = KeyOf(w) => v = w
NoMethodTaken ==
    \A r \in index.refs : IsArg(r) /\ InstrOf(r).callee # 0 =>
        ~prog.fn[InstrOf(r).callee].recv

\* As long as no two values look alike and none is passed to a method, the
\* flow finds every place a function is registered at, and no other, whatever
\* the order in which it meets the references.
FlowIsExact ==
    phase = "done" /\ Distinct /\ NoMethodTaken => Found = Registrations

=============================================================================
