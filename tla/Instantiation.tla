--------------------------- MODULE Instantiation ---------------------------
(***************************************************************************)
(* The instantiation plan of an extracted service (pkg/compiler,           *)
(* resolveDependencies): the statements of the main package that must be   *)
(* copied into the service's server, and their order.                      *)
(*                                                                         *)
(* First the statement that calls the constructor is resolved: the         *)
(* declarations of the variables on its right side, theirs, and so on.     *)
(* Then the statements of main and init are gone through in order, up to   *)
(* the root; one that uses a variable already resolved is relevant, and    *)
(* what it uses is resolved too.  Last the statements are sorted.          *)
(*                                                                         *)
(* The main package is a sequence of statements in the order of their      *)
(* positions: where each is, what it declares, and what its right side     *)
(* consists of.  An argument is a variable, or                             *)
(*   Inlined   a call, a literal or a selector, copied with the statement  *)
(*   Opaque    any other expression, which is not supported                *)
(***************************************************************************)
EXTENDS Integers, SequencesExt, Listing

CONSTANT Inputs         \* the applications to compile

VARIABLES
    input,      \* the application: [main, ifaces, ...]
    step,       \* of the plan: "idle", "resolve", "use", "sort", "planned"
                \* or why there is none
    stack,      \* the statements whose right sides are being resolved
    deps,       \* allDeps: the statements of the plan as they were found
    resolved,   \* resolvedDeps: a variable's Id to the statement it is from
    prereqs,    \* depGraph
    at,         \* the statement of main or init at hand
    degree,     \* inDegree
    ready,      \* the sort's queue
    order       \* the plan
planVars == <<step, stack, deps, resolved, prereqs, at, degree, ready, order>>

Inlined == 0
Opaque == -1
None == 0

main == input.main      \* [code, id]: statements, and the Id of each variable
Code == main.code
Id(v) == main.id[v]

\* findDeclStmtForVar.  Fields, parameters and range variables have none.
Declares(s) == Code[s].defs \cup Code[s].others
DeclOf(v) ==
    LET of == {s \in DOMAIN Code : v \in Declares(s)}
    IN  IF of = {} THEN None ELSE Min(of)

\* isPackageScope looks at the declarations of the first file.
IsPackageScope(s) == Code[s].kind = "decl" /\ Code[s].top /\ Code[s].file = 1

\* getExecutableStmtsInOrder.
Executable == Ascending({s \in DOMAIN Code : Code[s].exec})

NoPlan == [i \in {} |-> None]
Frame(s, todo) == [stmt |-> s, todo |-> todo, got |-> <<>>]

\* Each variable once, as the second pass goes through those a statement uses.
\* Two with the same Id are one.
ById(vs) == Pick(vs, {k \in DOMAIN vs : \A j \in 1..(k - 1) : Id(vs[j]) # Id(vs[k])})
Once(ds) == Pick(ds, {k \in DOMAIN ds : \A j \in 1..(k - 1) : ds[j] # ds[k]})

PlanInit ==
    /\ step = "idle" /\ stack = <<>> /\ deps = <<>>
    /\ resolved = NoPlan /\ prereqs = NoPlan
    /\ at = 1 /\ degree = NoPlan /\ ready = <<>> /\ order = <<>>

-----------------------------------------------------------------------------
(* resolveAssignment: what comes of a statement that declares a variable.  *)

\* A declaration without a value has no first value to take.
Outcome(s, known) ==
    LET stmt == Code[s]
    IN  IF stmt.kind \notin {"assign", "decl"} THEN "unsupported"
        ELSE IF stmt.kind = "decl" /\ stmt.form = "none" THEN "panic"
        ELSE IF stmt.first \notin stmt.defs THEN "unsupported"
        ELSE IF Id(stmt.first) \in known THEN "cached"
        ELSE IF stmt.form = "other" THEN "unsupported"
        ELSE "open"

\* A mutant: the variables are remembered when all has been resolved.
OpenStmtForgetful(s) ==
    /\ deps' = Append(deps, s)
    /\ resolved' = Updated(resolved, [i \in {Id(Code[s].first)} |-> s])
    /\ stack' = <<Frame(s, Code[s].args)>> \o stack

\* A new dependency: every variable it declares leads to it from now on.
OpenStmt(s) ==
    /\ deps' = Append(deps, s)
    /\ resolved' = Updated(resolved, [i \in {Id(v) : v \in Code[s].defs} |-> s])
    /\ stack' = <<Frame(s, Code[s].args)>> \o stack

Refused(why) ==
    /\ step' = why
    /\ UNCHANGED <<stack, deps, resolved>>

\* What the statement at the top of the stack rests on has one more.
Take(d) ==
    /\ stack' = [stack EXCEPT ![1].todo = Tail(@),
                              ![1].got = IF d = None THEN @ ELSE Append(@, d)]
    /\ UNCHANGED <<step, deps, resolved>>

StartPlan(root) ==
    /\ stack' = <<Frame(root, Code[root].args)>>
    /\ deps' = <<root>>
    /\ resolved' = [i \in {Id(v) : v \in Code[root].defs} |-> root]
    /\ prereqs' = NoPlan /\ at' = 1 /\ degree' = NoPlan
    /\ ready' = <<>> /\ order' = <<>>
    /\ step' = IF Outcome(root, {}) = "open" THEN "resolve" ELSE Outcome(root, {})

\* resolveExpr, for the next argument of the statement at hand.
ResolveExpr ==
    /\ step \in {"resolve", "use"} /\ stack # <<>>
    /\ stack[1].todo # <<>>
    /\ LET x == Head(stack[1].todo)
           s == IF x > 0 THEN DeclOf(x) ELSE None
           how == IF s = None THEN "unsupported" ELSE Outcome(s, DOMAIN resolved)
       IN  CASE x = Inlined -> Take(None)
             [] x = Opaque -> Refused("unsupported")
             [] x > 0 /\ Id(x) \in DOMAIN resolved -> Take(resolved[Id(x)])
             [] x > 0 /\ Id(x) \notin DOMAIN resolved /\ s = None ->
                    Refused("unsupported")
             [] OTHER ->
                    CASE how = "cached" -> Take(resolved[Id(Code[s].first)])
                      [] how = "open" -> OpenStmt(s) /\ UNCHANGED step
                      [] OTHER -> Refused(how)
    /\ UNCHANGED <<input, prereqs, at, degree, ready, order>>

\* A statement whose right side has been resolved.  A relevant one is added
\* last, with each of its prerequisites once.
CloseStmt ==
    /\ step \in {"resolve", "use"} /\ stack # <<>>
    /\ stack[1].todo = <<>>
    /\ LET done == stack[1]
           relevant == step = "use" /\ Len(stack) = 1
           rest == Tail(stack)
           found == IF relevant THEN Once(done.got) ELSE done.got
       IN  /\ prereqs' = Updated(prereqs, [s \in {done.stmt} |-> found])
           /\ deps' = IF relevant THEN Append(deps, done.stmt) ELSE deps
           /\ stack' = IF rest = <<>> THEN <<>>
                       ELSE [rest EXCEPT ![1].todo = Tail(@),
                                         ![1].got = Append(@, done.stmt)]
    /\ step' = IF Len(stack) = 1 THEN "use" ELSE step
    /\ UNCHANGED <<input, resolved, at, degree, ready, order>>

-----------------------------------------------------------------------------
(* The second pass, and the sort.                                          *)

Relevant(s) ==
    /\ Code[s].kind \in {"control", "expr"}
    /\ \E v \in ToSet(Code[s].args) : Id(v) \in DOMAIN resolved

\* The statements up to the root; it is the first of the plan.
InReach == at <= Len(Executable) /\ Executable[at] <= deps[1]

UseStmt ==
    /\ step = "use" /\ stack = <<>> /\ InReach
    /\ LET s == Executable[at]
       IN  stack' = IF Relevant(s) THEN <<Frame(s, ById(Code[s].args))>> ELSE <<>>
    /\ at' = at + 1
    /\ UNCHANGED <<input, step, deps, resolved, prereqs, degree, ready, order>>

StartSort ==
    /\ step = "use" /\ stack = <<>> /\ ~InReach
    /\ degree' = [s \in ToSet(deps) |-> Len(prereqs[s])]
    /\ ready' = Pick(deps, {k \in DOMAIN deps : prereqs[deps[k]] = <<>>})
    /\ step' = "sort"
    /\ UNCHANGED <<input, stack, deps, resolved, prereqs, at, order>>

\* A mutant: a statement is ready when one of its prerequisites is placed.
NewlyReadyAny(s, left) ==
    Pick(deps, {k \in DOMAIN deps : /\ deps[k] # s /\ s \in ToSet(prereqs[deps[k]])
                                    /\ deps[k] \notin ToSet(order \o ready)})

\* Those that waited for the statement just placed, and for no other.
NewlyReady(s, left) ==
    Pick(deps, {k \in DOMAIN deps : /\ deps[k] # s /\ s \in ToSet(prereqs[deps[k]])
                                    /\ left[deps[k]] = 0})

\* A prerequisite that a statement has twice is taken off once.
SortStmt ==
    /\ step = "sort" /\ ready # <<>>
    /\ LET s == Head(ready)
           left == [m \in DOMAIN degree |->
                       IF m # s /\ s \in ToSet(prereqs[m]) THEN degree[m] - 1
                       ELSE degree[m]]
       IN  /\ degree' = left
           /\ ready' = Tail(ready) \o NewlyReady(s, left)
           /\ order' = Append(order, s)
    /\ UNCHANGED <<input, step, stack, deps, resolved, prereqs, at>>

EndSort ==
    /\ step = "sort" /\ ready = <<>>
    /\ step' = IF Len(order) = Len(deps) THEN "planned" ELSE "circular"
    /\ UNCHANGED <<input, stack, deps, resolved, prereqs, at, degree, ready, order>>

\* The server declares what has package scope, and then runs the rest.
Emitted ==
    LET Placed(top) == Pick(order, {k \in DOMAIN order : IsPackageScope(order[k]) = top})
    IN  Placed(TRUE) \o Placed(FALSE)

PlanStep ==
    ResolveExpr \/ CloseStmt \/ UseStmt \/ StartSort \/ SortStmt \/ EndSort
=============================================================================
