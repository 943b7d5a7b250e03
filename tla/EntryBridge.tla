---------------------------- MODULE EntryBridge ----------------------------
(***************************************************************************)
(* The bridge of the entry-path probe (bridge.go): from the callers found  *)
(* for the roots, the starts, through the packages of the starts, to the   *)
(* owners that hold a start as a value and to those with boundary          *)
(* evidence.  cover says, for each package with a start, how far it got.   *)
(* The oracle's bridge (oracle.go) takes its starts from a specification.  *)
(*                                                                         *)
(* A function is scanned by one thread in one go; cut is the instruction   *)
(* before which the time is over, 0 before the function itself.            *)
(***************************************************************************)
EXTENDS EntryPath

BridgeUnchanged == UNCHANGED <<input, graph, callers, visited, index, flow>>

NoPackage == 0
FnsOf(pkg) == Ascending({f \in Fns : Pkg(f) = pkg})
StartsOf(pkg) == {f \in found.starts : Pkg(f) = pkg}

NewCover(n) ==
    [starts |-> n, scheduled |-> FALSE, scanned |-> FALSE, completed |-> FALSE,
     functions |-> 0, instrs |-> 0, owners |-> 0, boundary |-> 0,
     stops |-> {}, causes |-> {}]

-----------------------------------------------------------------------------
(* The collector: [found, cover, ok], at work on package pkg or on none.   *)

\* A limit is recorded for the package where it is met first.
StopIn(st, pkg, reason) ==
    LET stopped == [st EXCEPT !.found = Stop(@, reason)]
    IN  CASE reason \in st.found.stops -> st
          [] reason \notin st.found.stops /\ pkg = NoPackage -> stopped
          [] OTHER -> [stopped EXCEPT !.cover[pkg].stops = @ \cup {reason},
                                      !.cover[pkg].causes = @ \cup {reason}]

\* A mutant: one owner more than the limit is taken.
AddBridgeLate(st, pkg, f) ==
    IF f \in st.found.owners
    THEN IF pkg = NoPackage THEN st
         ELSE [st EXCEPT !.cover[pkg].causes = @ \cup {"duplicate_suppression"}]
    ELSE IF AtLimit(Cardinality(st.found.owners) - 1, opts.owners)
    THEN [StopIn(st, pkg, "owner_budget") EXCEPT !.ok = FALSE]
    ELSE [st EXCEPT !.found.owners = @ \cup {f},
             !.cover[IF pkg = NoPackage THEN Pkg(f) ELSE pkg].owners = @ + 1]

\* addBridgeOwner.
AddBridge(st, pkg, f) ==
    IF f \in st.found.owners
    THEN IF pkg = NoPackage THEN st
         ELSE [st EXCEPT !.cover[pkg].causes = @ \cup {"duplicate_suppression"}]
    ELSE IF AtLimit(Cardinality(st.found.owners), opts.owners)
    THEN [StopIn(st, pkg, "owner_budget") EXCEPT !.ok = FALSE]
    ELSE [st EXCEPT !.found.owners = @ \cup {f},
             !.cover[IF pkg = NoPackage THEN Pkg(f) ELSE pkg].owners = @ + 1]

\* scanBoundaryOwner.  Its failure is not looked at.
ScanBoundary(st, pkg, f) ==
    IF f \in st.found.candidates THEN st
    ELSE IF AtLimit(Cardinality(st.found.candidates), opts.candidates)
    THEN [StopIn(st, pkg, "boundary_owner_budget")
             EXCEPT !.found.skipped = @ \cup {f}]
    ELSE LET seen  == [st EXCEPT !.found.candidates = @ \cup {f}]
             added == AddBridge(seen, pkg, f)
         IN  IF ~HasEvidence(f) THEN seen
             ELSE IF f \notin added.found.owners THEN [added EXCEPT !.ok = st.ok]
             ELSE [added EXCEPT !.found.bounded = @ \cup {f},
                                !.cover[pkg].boundary = @ + 1]

\* The owner holds a start as a value; a start that is an argument leads to
\* the function it is passed to.
MatchRef(st, pkg, ref) ==
    LET matched == [st EXCEPT !.found.matched[ref.owner] = @ + 1]
        owned   == AddBridge(matched, pkg, ref.owner)
        callee  == InstrOf(ref).callee
        added   == AddBridge(owned, pkg, callee)
    IN  IF ~owned.ok \/ callee \notin CalleesForRef(ref) THEN owned
        ELSE IF added.ok THEN ScanBoundary(added, pkg, callee) ELSE added

ScanInstr(st, pkg, f, n, timely) ==
    IF ~st.ok THEN st
    ELSE IF ~timely THEN [StopIn(st, pkg, "duration_budget") EXCEPT !.ok = FALSE]
    ELSE IF AtLimit(st.found.instrs, opts.instrs)
    THEN [StopIn(st, pkg, "instruction_budget") EXCEPT !.ok = FALSE]
    ELSE IF AtLimit(Cardinality(st.found.owners), opts.owners)
    THEN [StopIn(st, pkg, "owner_budget") EXCEPT !.ok = FALSE]
    ELSE LET counted == [st EXCEPT !.found.instrs = @ + 1,
                                   !.cover[pkg].instrs = @ + 1]
             hits == {r \in RefsAt(f, n) :
                         r.operand \in {<<s, 0>> : s \in StartsOf(pkg)}}
             args == Ascending({r.arg : r \in hits})
             RefOf(k) == CHOOSE r \in hits : r.arg = args[k]
             after[k \in 0..Len(args)] ==
                 IF k = 0 THEN counted
                 ELSE IF after[k - 1].ok THEN MatchRef(after[k - 1], pkg, RefOf(k))
                 ELSE after[k - 1]
         IN  after[Len(args)]

\* beforeOwnerScan and scanOwner.
ScanOwner(pkg, f, cut) ==
    LET st == [found |-> found, cover |-> cover, ok |-> TRUE]
        No(reason) == [StopIn(st, pkg, reason) EXCEPT !.ok = FALSE]
        open == [st EXCEPT !.cover[pkg].functions = @ + 1,
                           !.found.scanned = @ \cup {f}]
        after[n \in 0..Len(Code(f))] ==
            IF n = 0 THEN ScanBoundary(open, pkg, f)
            ELSE ScanInstr(after[n - 1], pkg, f, n, n < cut)
    IN  CASE cut = 0 -> No("duration_budget")
          [] cut > 0 /\ AtLimit(Cardinality(found.owners), opts.owners) ->
                 No("owner_budget")
          [] cut > 0 /\ AtLimit(found.instrs, opts.instrs) -> No("instruction_budget")
          [] cut > 0 /\ AtLimit(cover[pkg].functions, opts.perPackage) ->
                 No("package_function_budget")
          [] OTHER -> after[Len(Code(f))]

-----------------------------------------------------------------------------
(* The starts, the packages one after another, and the owners of each.     *)

\* sortedBridgeStartCandidates: methods come last.
StartSeq(s) ==
    Ascending({f \in s : ~prog.fn[f].recv}) \o Ascending({f \in s : prog.fn[f].recv})

\* bridgeScheduledPackageKeys: those with most starts first.
Schedule(starts) ==
    LET pkgs == {Pkg(f) : f \in starts}
        Size(p) == Cardinality({f \in starts : Pkg(f) = p})
        Earlier(p, q) == Size(p) > Size(q) \/ (Size(p) = Size(q) /\ p < q)
    IN  InOrder(pkgs, {x \in pkgs \X pkgs : Earlier(x[1], x[2])})

SelectStarts ==
    /\ phase = "starts"
    /\ LET order == StartSeq(Starts)
           limit == IF opts.starts > 0 /\ opts.starts < Len(order)
                    THEN opts.starts ELSE Len(order)
           chosen == SubSeq(order, 1, limit)
           pkgs == {Pkg(f) : f \in ToSet(chosen)}
           Size(p) == Cardinality({f \in ToSet(chosen) : Pkg(f) = p})
           stop == IF limit < Len(order) THEN {"start_budget"} ELSE {}
           fresh == [found |-> [Nothing EXCEPT !.starts = ToSet(chosen), !.stops = stop],
                     cover |-> [p \in pkgs |-> NewCover(Size(p))], ok |-> TRUE]
           after[k \in 0..Len(chosen)] ==
               IF k = 0 THEN fresh
               ELSE IF after[k - 1].ok THEN AddBridge(after[k - 1], NoPackage, chosen[k])
               ELSE after[k - 1]
       IN  /\ found' = after[Len(chosen)].found /\ cover' = after[Len(chosen)].cover
           /\ queue' = Schedule(ToSet(chosen))
    /\ phase' = "bridge" /\ at' = 0
    /\ BridgeUnchanged /\ UNCHANGED <<why, noted, diags, late>>

Stopping == {"duration_budget", "owner_budget", "instruction_budget",
             "package_budget"}

StartPackage ==
    /\ phase = "bridge" /\ at = 0 /\ queue # <<>>
    /\ \E t \in Ticks(1, opts.clock) :
           LET pkg == Head(queue)
               full == AtLimit(Cardinality(found.packages), opts.packages)
               st == [found |-> found, cover |-> [cover EXCEPT ![pkg].scheduled = TRUE],
                      ok |-> TRUE]
               end == IF t[1] THEN StopIn(st, pkg, "duration_budget")
                      ELSE IF full THEN StopIn(st, pkg, "package_budget")
                      ELSE [st EXCEPT !.found.packages = @ \cup {pkg},
                                      !.cover[pkg].scanned = TRUE]
           IN  /\ found' = end.found /\ cover' = end.cover
               /\ queue' = IF t[1] \/ full THEN <<>> ELSE queue
               /\ at' = IF t[1] \/ full THEN 0 ELSE 1
               /\ late' = t[1]
    /\ BridgeUnchanged /\ UNCHANGED <<phase, why, noted, diags>>

\* The next owner of the package at hand, or its end.
BridgeOwner ==
    /\ phase = "bridge" /\ at > 0
    /\ LET pkg == Head(queue)
           order == FnsOf(pkg)
           whole == at > Len(order)
           never == IF whole THEN 0 ELSE Len(Code(order[at])) + 1
       IN  \E cut \in IF opts.clock THEN 0..never ELSE {never} :
           LET st == IF whole THEN [found |-> found, cover |-> cover, ok |-> TRUE]
                     ELSE ScanOwner(pkg, order[at], cut)
               over == whole \/ ~st.ok
           IN  /\ late => cut = 0
               /\ late' = (late \/ cut < never)
               /\ found' = st.found
               /\ cover' = [st.cover EXCEPT ![pkg].completed = whole]
               /\ at' = IF over THEN 0 ELSE at + 1
               /\ queue' = IF ~over THEN queue
                           ELSE IF st.found.stops \cap Stopping = {} THEN Tail(queue)
                           ELSE <<>>
    /\ BridgeUnchanged /\ UNCHANGED <<phase, why, noted, diags>>

\* finalizeUnscheduledPackages, and the seeds.
AssembleBridge ==
    /\ phase = "bridge" /\ at = 0 /\ queue = <<>>
    /\ cover' = [p \in DOMAIN cover |->
                    IF cover[p].scheduled THEN cover[p]
                    ELSE [cover[p] EXCEPT !.stops = @ \cup found.stops,
                                          !.causes = @ \cup found.stops]]
    /\ why' = AddBoundary(Add(why, found.owners, "bridge"), found.bounded)
    /\ noted' = Note(found.bounded)
    /\ phase' = "index" /\ at' = 1 /\ late' = FALSE
    /\ BridgeUnchanged /\ UNCHANGED <<diags, found, queue>>

\* oracleTargetSkipCauses: why function f is not a seed of the bridge.
SkipCauses(f) ==
    LET Say(cond, cause) == IF cond THEN {cause} ELSE {}
    IN  (IF Pkg(f) \in DOMAIN cover THEN cover[Pkg(f)].causes
         ELSE {"package_not_selected"})
        \cup Say(f \in found.scanned /\ found.matched[f] = 0, "no_ref_match")
        \cup Say(f \in found.skipped, "boundary_owner_budget")
        \cup Say(f \in found.candidates /\ noted[f] = 0,
                 "no_boundary_predicate_evidence")
        \cup Say("bridge" \notin why[f] /\ "owner_budget" \in found.stops,
                 "owner_budget")

-----------------------------------------------------------------------------
(* The bridge of the oracle: from the functions the specification names as *)
(* starts, or from all it names, to the owners in their packages.          *)

\* oracleBridgeStarts: the nodes named as starts, or else every node.
OracleStarts ==
    LET spec == input.spec
    IN  IF spec.starts # {} THEN spec.starts ELSE spec.nodes

\* oraclePackageBridgeOwners looks through the start's package until the
\* time is over; its owners hold the start as a value or have evidence.
OracleOwners(start, n) ==
    LET seen == ToSet(SubSeq(FnsOf(Pkg(start)), 1, n))
    IN  [hold |-> {f \in seen : \E r \in Refs(f) : r.operand = <<start, 0>>},
         evident |-> Bounded(seen)]

ReceiversOf(start, owner) ==
    UNION {CalleesForRef(r) : r \in {x \in Refs(owner) : x.operand = <<start, 0>>}}

\* The start at hand: its owners and what they pass it to, until there are
\* as many seeds as the limit.  Evidence adds seeds whatever the limit.
OracleStart ==
    /\ phase = "oracle" /\ at <= Cardinality(OracleStarts)
    /\ LET start == Ascending(OracleStarts)[at]
           order == FnsOf(Pkg(start))
           beyond == order = <<>> \/ Last(order) # Cardinality(Fns)
       IN  \E t \in Ticks(1, opts.clock), n \in 0..Len(order) :
           /\ IF t[1] THEN n = Len(order) => beyond ELSE n = Len(order)
           /\ LET most == IF opts.perPackage > 0 /\ opts.perPackage < n
                          THEN opts.perPackage ELSE n
                  looked == OracleOwners(start, most)
                  owners == Ascending(looked.hold \cup looked.evident)
                  steps == Concat([k \in DOMAIN owners |->
                               <<owners[k]>>
                               \o Ascending(ReceiversOf(start, owners[k]))])
                  first == AddBoundary(Add(why, {start}, "oracle_bridge"), looked.evident)
                  Seeds(k) == {f \in Fns : first[f] # {}} \cup ToSet(SubSeq(steps, 1, k))
                  taken == Max({0} \cup {k \in 1..Len(steps) :
                               ~AtLimit(Cardinality(Seeds(k - 1)), opts.owners)})
                  full == taken < Len(steps)
              IN  /\ why' = Add(first, ToSet(SubSeq(steps, 1, taken)), "oracle_bridge")
                  /\ noted' = Note(looked.evident)
                  /\ diags' = diags
                         \cup (IF t[1] THEN {"oracle_bridge_duration_exceeded"} ELSE {})
                         \cup (IF most < n
                               THEN {"oracle_bridge_package_budget_exceeded"} ELSE {})
                         \cup (IF full
                               THEN {"oracle_bridge_owner_budget_exceeded"} ELSE {})
                  /\ phase' = IF full THEN "index" ELSE phase
                  /\ at' = IF full THEN 1 ELSE at + 1
                  /\ late' = (t[1] /\ ~full)
    /\ BridgeUnchanged /\ UNCHANGED <<found, cover, queue>>

OracleEnd ==
    /\ phase = "oracle" /\ at > Cardinality(OracleStarts)
    /\ \E t \in Ticks(1, opts.clock) :
           diags' = diags
               \cup (IF OracleStarts = {} THEN {"oracle_bridge_spec_missing"} ELSE {})
               \cup (IF t[1] /\ OracleStarts # {}
                     THEN {"oracle_bridge_duration_exceeded"} ELSE {})
    /\ phase' = "index" /\ at' = 1 /\ late' = FALSE
    /\ BridgeUnchanged /\ UNCHANGED <<why, noted, found, cover, queue>>

BridgeStep ==
    \/ SelectStarts \/ StartPackage \/ BridgeOwner \/ AssembleBridge
    \/ OracleStart \/ OracleEnd
=============================================================================
