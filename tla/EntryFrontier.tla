--------------------------- MODULE EntryFrontier ---------------------------
(***************************************************************************)
(* The boundary frontier of the entry-path probe (frontier.go): the        *)
(* owners on the reverse paths, then the owners adjacent to them to a      *)
(* depth (opts.reach), each looked at for evidence of a boundary when it   *)
(* is met.  Owners, packages and candidates have their own limits; the     *)
(* first limit of a kind that is met is recorded as a stop.                *)
(***************************************************************************)
EXTENDS EntryPath

FrontierUnchanged ==
    UNCHANGED <<input, graph, callers, cover, index, flow>>

AddOwner(s, f) ==
    IF f \in s.owners THEN s
    ELSE IF Pkg(f) \notin s.packages
            /\ AtLimit(Cardinality(s.packages), opts.packages)
    THEN Stop(s, "package_budget")
    ELSE [s EXCEPT !.owners = @ \cup {f}, !.packages = @ \cup {Pkg(f)}]

\* addReverseOwner, when the clock says t.
AddReverse(s, f, t) ==
    IF f \in s.reverse THEN s
    ELSE IF t THEN Stop(s, "duration_budget")
    ELSE IF AtLimit(Cardinality(s.reverse), opts.reverse)
    THEN Stop(s, "reverse_owner_budget")
    ELSE LET added == AddOwner(s, f)
         IN  IF f \in added.owners
             THEN [added EXCEPT !.reverse = @ \cup {f}] ELSE added

AddAdjacent(s, f, t) ==
    IF f \in s.owners THEN s
    ELSE IF t THEN Stop(s, "duration_budget")
    ELSE IF AtLimit(Cardinality(s.adjacent), opts.adjacent)
    THEN Stop(s, "adjacent_owner_budget")
    ELSE LET added == AddOwner(s, f)
         IN  IF f \in added.owners
             THEN [added EXCEPT !.adjacent = @ \cup {f}] ELSE added

ScanCandidate(s, f, t) ==
    IF f \in s.candidates THEN s
    ELSE IF t THEN Stop(s, "duration_budget")
    ELSE IF AtLimit(Cardinality(s.candidates), opts.candidates)
    THEN Stop(s, "boundary_candidate_budget")
    ELSE [s EXCEPT !.candidates = @ \cup {f}]

\* What the checks at the top of a loop stop for: the time, or a limit.
Check(s, t, n, limit, reason) ==
    IF t THEN Stop(s, "duration_budget")
    ELSE IF AtLimit(n, limit) THEN Stop(s, reason) ELSE s
Checked(t, n, limit) == ~t /\ ~AtLimit(n, limit)

\* The reverse part has ended; what it collected is expanded.
ToAdjacent(s) ==
    LET order == Ascending(s.owners)
        open  == input.main /\ opts.reach > 0
        unseen == (UNION {AdjacentIn(graph, f) : f \in s.owners}) \ s.owners
    IN  /\ found' = IF input.main /\ ~open /\ unseen # {}
                    THEN Stop(s, "depth_budget") ELSE s
        /\ queue' = IF open THEN order ELSE <<>>
        /\ phase' = "adjacent" /\ at' = 1 /\ visited' = {}

-----------------------------------------------------------------------------
(* The reverse frontier: the roots, then the callers of what is in it.  A  *)
(* caller that does not fit is still looked at and followed.               *)

FrontierRoot ==
    /\ phase = "frontier" /\ at <= Len(RootSeq)
    /\ \E t \in Ticks(3, opts.clock) :
           LET root  == RootSeq[at]
               added == AddReverse(found, root, t[1])
           IN  /\ late' = t[3]
               /\ IF root \notin added.reverse \/ t[2]
                  THEN ToAdjacent(IF t[2] THEN Stop(added, "duration_budget") ELSE added)
                  ELSE /\ found' = ScanCandidate(added, root, t[3])
                       /\ at' = at + 1
                       /\ visited' = visited \cup ({root} \cap graph.nodes)
                       /\ UNCHANGED <<phase, queue>>
    /\ FrontierUnchanged /\ UNCHANGED <<why, noted, diags>>

FrontierRoots ==
    /\ phase = "frontier" /\ at > Len(RootSeq)
    /\ phase' = "callers" /\ at' = 1
    /\ queue' = Ascending(input.roots \cap graph.nodes)
    /\ FrontierUnchanged /\ UNCHANGED <<why, noted, diags, found, visited, late>>

\* The next caller of the node at the head of the queue.
FrontierCaller ==
    /\ phase = "callers" /\ queue # <<>>
    /\ LET order == Ascending(CallersIn(graph, Head(queue)))
           rest == IF at < Len(order) THEN queue ELSE Tail(queue)
       IN  \E t \in Ticks(3, opts.clock) :
           /\ late' = t[3]
           /\ IF ~Checked(t[1], Cardinality(found.reverse), opts.reverse)
              THEN ToAdjacent(Check(found, t[1], Cardinality(found.reverse),
                                    opts.reverse, "reverse_owner_budget"))
              ELSE IF order = <<>>
              THEN queue' = Tail(queue) /\ UNCHANGED <<phase, found, at, visited>>
              ELSE LET caller == order[at]
                       new == IF caller \in visited THEN <<>> ELSE <<caller>>
                   IN  /\ found' = ScanCandidate(AddReverse(found, caller, t[2]),
                                                 caller, t[3])
                       /\ queue' = rest \o new
                       /\ at' = IF at < Len(order) THEN at + 1 ELSE 1
                       /\ visited' = visited \cup {caller}
                       /\ UNCHANGED phase
    /\ FrontierUnchanged /\ UNCHANGED <<why, noted, diags>>

FrontierReversed ==
    /\ phase = "callers" /\ queue = <<>>
    /\ ToAdjacent(found)
    /\ FrontierUnchanged /\ UNCHANGED <<why, noted, diags, late>>

-----------------------------------------------------------------------------
(* The adjacent owners, breadth first.  at is the neighbour at hand.       *)

\* A mutant: the search ends one step early.
DropAdjacentEarly(owner, depth) ==
    \/ owner \in visited /\ at = 1
    \/ depth + 1 >= opts.reach
    \/ AdjacentIn(graph, owner) = {}

\* The item at the head is dropped when its owner has been expanded, and at
\* the depth where the search ends.
DropAdjacent(owner, depth) ==
    \/ owner \in visited /\ at = 1
    \/ depth >= opts.reach
    \/ AdjacentIn(graph, owner) = {}

AdjacentOwner ==
    /\ phase = "adjacent" /\ queue # <<>>
    /\ LET owner == Head(queue)
           depth == found.depth[owner]
           order == Ascending(AdjacentIn(graph, owner))
           full  == Cardinality(found.adjacent)
       IN  \E t \in Ticks(3, opts.clock) :
           /\ late' = t[3]
           /\ IF ~Checked(t[1], full, opts.adjacent)
              THEN /\ found' = Check(found, t[1], full, opts.adjacent,
                                     "adjacent_owner_budget")
                   /\ queue' = <<>> /\ UNCHANGED <<at, visited>>
              ELSE /\ visited' = visited \cup {owner}
                   /\ IF DropAdjacent(owner, depth)
                      THEN /\ queue' = Tail(queue) /\ UNCHANGED at
                           /\ found' = IF owner \notin visited
                                          /\ depth >= opts.reach
                                          /\ ~(ToSet(order) \subseteq found.owners)
                                       THEN Stop(found, "depth_budget") ELSE found
                      ELSE LET next == order[at]
                               added == AddAdjacent(found, next, t[2])
                               new == added.owners \ found.owners
                               dist == [f \in Fns |-> IF f \in new THEN depth + 1
                                                       ELSE found.depth[f]]
                               rest == IF at < Len(order) THEN queue ELSE Tail(queue)
                           IN  /\ found' = [(IF next \in added.owners
                                             THEN ScanCandidate(added, next, t[3])
                                             ELSE added) EXCEPT !.depth = dist]
                               /\ queue' = IF new = {} THEN rest
                                           ELSE Append(rest, next)
                               /\ at' = IF at < Len(order) THEN at + 1 ELSE 1
    /\ FrontierUnchanged /\ UNCHANGED <<phase, why, noted, diags>>

\* The seeds: the reverse owners in the targeted mode, and the candidates
\* that have evidence.
AssembleFrontier ==
    /\ phase = "adjacent" /\ queue = <<>>
    /\ why' = AddBoundary(IF Mode = "targeted"
                          THEN Add(why, found.owners \ found.adjacent, "reverse_path")
                          ELSE why, found.candidates)
    /\ noted' = Note(found.candidates)
    /\ phase' = IF Mode = "targeted" THEN "expand" ELSE "index"
    /\ at' = 1 /\ late' = FALSE /\ visited' = {}
    /\ FrontierUnchanged /\ UNCHANGED <<diags, found, queue>>

FrontierStep ==
    \/ FrontierRoot \/ FrontierRoots \/ FrontierCaller \/ FrontierReversed
    \/ AdjacentOwner \/ AssembleFrontier
=============================================================================
