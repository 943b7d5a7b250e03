-------------------------- MODULE MCActivationSearch --------------------------
(***************************************************************************)
(* A program of five functions: main, two handlers g and h, a framework    *)
(* function d that calls what was registered with it, and the target t.    *)
(***************************************************************************)
EXTENDS ActivationSearch

Program == {"d", "g", "h", "main", "t"}
Mains == {"main"}

Calls == {<<"main", "g">>, <<"g", "d">>, <<"t", "g">>}

Dispatch == {[caller |-> "h", maker |-> "main", callee |-> "t"],
             [caller |-> "main", maker |-> "d", callee |-> "h"]}

Flow(kind, from, to) == [pass |-> kind, from |-> from, to |-> to]

\* h, g and t may each be found in an iteration of its own, after the pass that
\* looks for what follows from it.
Flows == {Flow("structfield", "g", "t"), Flow("predicates", "d", "t"),
          Flow("goroutine", "g", "h"), Flow("funcargs", "h", "g"),
          Flow("interfacefields", "main", "h")}
==============================================================================
