----------------------------- MODULE EntryPath -----------------------------
(***************************************************************************)
(* The entry-path probe (pkg/compiler/entrypath, ProbeWithOptions): the    *)
(* call graph, the callers of the region roots, the owners to look at in   *)
(* the probe's mode, the index of the references they hold, and the flow   *)
(* of function values to the places that register them.                    *)
(*                                                                         *)
(* Limits on numbers are in opts; a limit on time that can run out there   *)
(* (opts.clock, opts.index) runs out whenever the probe looks at it.  late *)
(* says that it has: every check since the clock was started agrees.       *)
(***************************************************************************)
EXTENDS FunctionRefs

CONSTANTS Inputs,       \* the programs and options to probe
          MaxVisited    \* the bound of the reverse search (4096)

VARIABLES
    phase,      \* see First and Next
    graph,      \* the call graph
    callers,    \* TouchpointFunctions: the callers found for each root
    why,        \* the seed set: the reasons of each owner
    noted,      \* the evidence recorded for each owner
    diags,      \* the kinds of diagnostics
    found,      \* what discovery has collected; see Nothing
    cover,      \* the coverage of each package with a start
    queue, at, visited,     \* the search of the phase at work
    index,      \* the reference index; see EmptyIndex
    flow,       \* what the flow has recorded; see NoFlow
    late        \* the clock of the phase has run out
vars == <<input, phase, graph, callers, why, noted, diags, found, cover,
          queue, at, visited, index, flow, late>>

\* Programs in SSA form: finite, with the values and the functions they use;
\* a closure and a conversion define a value.
Numbers == {"maxIndex", "targets", "uses", "depth", "reverse", "adjacent", "candidates",
            "packages", "reach", "starts", "owners", "perPackage", "instrs"}
GraphsOn(fns) == [nodes : SUBSET fns, edges : SUBSET (fns \X fns)]
InstrsOn(fns, vals) ==
    [op : {"store", "return", "closure", "call", "go", "pass", "other"},
     val : vals, addr : vals, vals : Seq(vals), callee : {0} \cup fns, def : vals,
     types : Seq(STRING)]
ASSUME EntryAssumption ==
    /\ MaxVisited \in Nat
    /\ \A i \in Inputs :
        LET p == i.prog
            fns == DOMAIN p.fn
            vals == DOMAIN p.val
        IN  /\ p.fn \in Seq([pkg : Nat \ {0}, recv : BOOLEAN, params : Seq(STRING),
                             code : Seq(InstrsOn(fns, vals))])
            /\ vals \subseteq {NoVal} \cup (fns \X Nat) /\ IsFiniteSet(vals)
            /\ NoVal \in vals
            /\ p.val \in [vals -> [kind : STRING, type : STRING, under : STRING, key : Nat]]
            /\ \A f \in fns :
                   /\ <<f, 0>> \in vals
                   /\ p.fn[f].recv => p.fn[f].params # <<>>
                   /\ \A k \in DOMAIN p.fn[f].params : <<f, k>> \in vals
                   /\ \A n \in DOMAIN p.fn[f].code :
                          LET c == p.fn[f].code[n]
                          IN  /\ c.op \in {"closure", "pass"} => c.def # NoVal
                              /\ c.op = "closure" => c.callee # 0
            /\ p.rta \in GraphsOn(fns) /\ p.vta \in GraphsOn(fns)
            /\ \A g \in {p.rta, p.vta} : g.edges \subseteq g.nodes \X g.nodes
            /\ i.main \in BOOLEAN /\ i.mode \in STRING /\ i.boundary \in STRING
            /\ i.roots \subseteq fns
            /\ i.spec.nodes \subseteq fns /\ i.spec.starts \subseteq fns
            /\ i.opts.clock \in BOOLEAN /\ i.opts.index \in BOOLEAN
            /\ \A n \in Numbers : i.opts[n] \in Nat

RootSeq == Ascending(input.roots)
Mode == input.mode
Frontier == input.boundary = "frontier"
Starts == UNION {callers[r] : r \in input.roots}

Nothing == [owners |-> {}, reverse |-> {}, adjacent |-> {}, candidates |-> {},
            bounded |-> {}, starts |-> {}, skipped |-> {}, scanned |-> {}, packages |-> {},
            depth |-> [f \in Fns |-> 0],
            instrs |-> 0, matched |-> [f \in Fns |-> 0], stops |-> {}]
EmptyIndex == [order |-> <<>>, scanned |-> {}, refs |-> {}, sources |-> {},
               skipped |-> [f \in Fns |-> ""]]
NoFlow == [sites |-> {}, chains |-> <<>>, unknown |-> {}]

Init ==
    /\ input \in Inputs
    /\ phase = "callgraph" /\ graph = NoGraph
    /\ callers = [r \in input.roots |-> {}]
    /\ why = [f \in Fns |-> {}] /\ noted = [f \in Fns |-> 0]
    /\ diags = {} /\ found = Nothing /\ cover = <<>>
    /\ queue = <<>> /\ at = 1 /\ visited = {}
    /\ index = EmptyIndex /\ flow = NoFlow /\ late = FALSE

-----------------------------------------------------------------------------
(* The seed set.                                                           *)

Owners == {f \in Fns : why[f] # {}}
Add(w, fs, reason) == [f \in Fns |-> IF f \in fs THEN w[f] \cup {reason} ELSE w[f]]

\* AddBoundaryEvidence, for the owners of a set that have any.
Bounded(fs) == {f \in fs : HasEvidence(f)}
AddBoundary(w, fs) == Add(Add(w, Bounded(fs), "boundary"), Bounded(fs), "http_sink")
Note(fs) == [f \in Fns |-> IF f \in fs THEN noted[f] + Evidence(f) ELSE noted[f]]

\* A limit that stops the search says so once.
Stop(s, reason) == [s EXCEPT !.stops = @ \cup {reason}]

\* The readings of the clock at n checks in a row.
Ticks(n, limited) ==
    {t \in [1..n -> BOOLEAN] :
        /\ \A k \in 1..n : late => t[k]
        /\ \A k \in 1..n : t[k] => (late \/ limited)
        /\ \A k \in 1..(n - 1) : t[k] => t[k + 1]}

-----------------------------------------------------------------------------
(* The call graph and the reverse search from each root.                   *)

BuildGraph ==
    /\ phase = "callgraph" /\ phase' = "reverse"
    /\ graph' = ApplicationGraph
    /\ diags' = IF ~input.main
                THEN {"callgraph_roots_missing", "callgraph_unavailable"}
                ELSE IF FallbackNeeded(prog.rta) THEN {"vta_fallback_used"} ELSE {}
    /\ UNCHANGED <<input, callers, why, noted, found, cover, queue, at, visited,
                   index, flow, late>>

\* The search from the next root, if it is in the graph.
OpenReverse ==
    /\ phase = "reverse" /\ queue = <<>> /\ at <= Len(RootSeq)
    /\ LET known == {RootSeq[at]} \cap graph.nodes
       IN  /\ visited' = known
           /\ queue' = Ascending(known)
    /\ at' = at + 1
    /\ UNCHANGED <<input, phase, graph, callers, why, noted, diags, found, cover,
                   index, flow, late>>

\* reverseReachableCallers: past the bound callers are recorded and not
\* followed.
VisitNode ==
    /\ phase = "reverse" /\ queue # <<>>
    /\ LET from == CallersIn(graph, Head(queue))
           new  == from \ visited
           room == MaxVisited - Cardinality(visited)
       IN  \E taken \in SUBSET new :
               /\ Cardinality(taken)
                  = IF Cardinality(new) <= room THEN Cardinality(new) ELSE room
               /\ callers' = [callers EXCEPT ![RootSeq[at - 1]] = @ \cup from]
               /\ visited' = visited \cup taken
               /\ queue' = Tail(queue) \o Ascending(taken)
               /\ diags' = IF taken = new THEN diags
                           ELSE diags \cup {"reverse_bfs_bound_exceeded"}
    /\ UNCHANGED <<input, phase, graph, why, noted, found, cover, at, index,
                   flow, late>>

\* The first phase of a mode.
First ==
    CASE Mode = "all" -> "index"
      [] Mode = "bridge" -> "starts"
      [] Mode = "oracle-bridge" -> "oracle"
      [] Mode = "reverse-path" \/ (Mode = "targeted" /\ ~Frontier) -> "paths"
      [] Mode = "http-sinks" /\ ~Frontier -> "sinks"
      [] OTHER -> "frontier"

CloseReverse ==
    /\ phase = "reverse" /\ queue = <<>> /\ at > Len(RootSeq)
    /\ phase' = First /\ at' = 1 /\ visited' = {}
    /\ UNCHANGED <<input, graph, callers, why, noted, diags, found, cover, queue,
                   index, flow, late>>

-----------------------------------------------------------------------------
(* Seeds from the reverse paths and from the whole program.                *)

\* reversePathSeedSet: the roots, their callers, and what those call.
PathOwners ==
    LET paths == input.roots \cup Starts
    IN  paths \cup UNION {StaticCallees(f) : f \in paths}

SeedPaths ==
    /\ phase = "paths"
    /\ why' = Add(why, PathOwners, "reverse_path")
    /\ phase' = IF Mode = "targeted" THEN "sinks" ELSE "index"
    /\ UNCHANGED <<input, graph, callers, noted, diags, found, cover, queue, at,
                   visited, index, flow, late>>

\* httpSinkSeedSetWithOptions: all functions, in the order of a map, until
\* the index's time is over.
SeedSinks ==
    /\ phase = "sinks"
    /\ \E seen \in SUBSET Fns :
           /\ seen = Fns \/ opts.index
           /\ late' = (seen # Fns)
           /\ why' = AddBoundary(why, seen)
           /\ noted' = Note(seen)
           /\ diags' = IF seen = Fns THEN diags
                       ELSE diags \cup {"function_ref_index_budget_exceeded"}
                            \cup (IF Mode = "targeted"
                                  THEN {"targeted_index_budget_exceeded"} ELSE {})
    /\ phase' = IF Mode = "targeted" THEN "expand" ELSE "index"
    /\ UNCHANGED <<input, graph, callers, found, cover, queue, at, visited,
                   index, flow>>

-----------------------------------------------------------------------------
(* expandTargetedSeeds: the owners that references in a trial index of the *)
(* seeds lead to, to a depth.  at is the depth reached, plus one.          *)

\* A trial index scans a prefix of the owners; time that runs out leaves the
\* last of them scanned in part.
TrialLimit ==
    IF opts.maxIndex > 0 /\ opts.maxIndex < Cardinality(Owners)
    THEN opts.maxIndex ELSE Cardinality(Owners)
Trials ==
    LET order == Ascending(Owners)
        Scan(n, cut) ==
            [refs |-> (UNION {Refs(order[k]) : k \in 1..n})
                      \cup (IF n < TrialLimit
                            THEN UNION {RefsAt(order[n + 1], k) : k \in 1..cut}
                            ELSE {}),
             late |-> n < TrialLimit]
    IN  {Scan(TrialLimit, 0)} \cup
        (IF opts.index \/ late
         THEN UNION {{Scan(n, c) : c \in 0..Len(Code(order[n + 1]))} :
                       n \in 0..(TrialLimit - 1)}
         ELSE {})

\* Whether all the references of es can be processed, in some order, before
\* the seeds are as many as the limit.
Fits(es) ==
    LET After(part) == Cardinality(Owners \cup UNION {ExpansionOwners(r) : r \in part})
    IN  \/ opts.targets = 0 \/ es = {}
        \/ \E last \in es : After(es \ {last}) < opts.targets

ExpandStop(kinds) ==
    /\ diags' = diags \cup kinds
    /\ phase' = "index" /\ at' = 1
    /\ UNCHANGED <<why, late>>

\* The uses are in the order of a map.  Those processed before a limit on
\* owners or on references stops the expansion are es and any others.
ExpandWith(trial) ==
    LET leads == {r \in trial.refs : ExpansionOwners(r) # {}}
        To(es) == UNION {ExpansionOwners(r) : r \in es}
        others == Cardinality(trial.refs \ leads)
    IN  \E es \in SUBSET leads :
        /\ Fits(es)
        /\ why' = Add(why, To(es), "on_demand_expansion")
        /\ LET full == AtLimit(Cardinality(Owners \cup To(es)), opts.targets)
               over == /\ AtLimit(Cardinality(trial.refs) - 1, opts.uses)
                       /\ Cardinality(es) <= opts.uses
                       /\ Cardinality(es) + others >= opts.uses
               cut  == IF trial.late
                       THEN {"function_ref_index_budget_exceeded",
                             "targeted_index_budget_exceeded"} ELSE {}
               none == To(es) \subseteq Owners
           IN  \/ /\ full /\ es # leads
                  /\ diags' = diags \cup {"targeted_expansion_budget_exceeded"}
                  /\ phase' = "index" /\ at' = 1
               \/ /\ over
                  /\ diags' = diags \cup {"targeted_queue_overflow"}
                  /\ phase' = "index" /\ at' = 1
               \/ /\ es = leads /\ ~AtLimit(Cardinality(trial.refs) - 1, opts.uses)
                  /\ diags' = diags \cup cut
                         \cup (IF none THEN {"targeted_completed"} ELSE {})
                         \cup (IF ~none /\ at = opts.depth
                               THEN {"targeted_expansion_budget_exceeded"} ELSE {})
                  /\ IF none \/ at = opts.depth
                     THEN phase' = "index" /\ at' = 1
                     ELSE phase' = phase /\ at' = at + 1

Expand ==
    /\ phase = "expand"
    /\ \/ /\ late \/ opts.index
          /\ late' = TRUE
          /\ diags' = diags \cup {"function_ref_index_budget_exceeded",
                                  "targeted_index_budget_exceeded"}
          /\ phase' = "index" /\ at' = 1 /\ UNCHANGED why
       \/ /\ opts.clock /\ ~late
          /\ ExpandStop({"targeted_expansion_budget_exceeded"})
       \/ /\ ~late
          /\ \E trial \in Trials : late' = trial.late /\ ExpandWith(trial)
    /\ UNCHANGED <<input, graph, callers, noted, found, cover, queue, visited,
                   index, flow>>

=============================================================================
