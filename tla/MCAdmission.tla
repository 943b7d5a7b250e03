------------------------------ MODULE MCAdmission -----------------------------
(***************************************************************************)
(* Instances of Admission for TLC.  The longest path has four candidates:  *)
(* five nodes are the fewest for which two candidates share a surface      *)
(* class, so that the other dimensions and the adapter parent rule can put *)
(* a shallower candidate first.                                            *)
(***************************************************************************)
EXTENDS Admission

Node(key, boundary, callbacks, state, receiver) ==
    [key |-> key, receiver |-> receiver, inProject |-> TRUE,
     boundary |-> boundary, callbacks |-> callbacks, state |-> state,
     errorSem |-> "ErrorOK", edgeAlign |-> "Strong"]

Plain(k)    == Node(k, "Trivial", "Low", "Stateless", "none")
Callable(k) == Node(k, "Serializable", "Many", "Stateless", "none")
Opaque(k)   == Node(k, "Trivial", "ZeroConfirmed", "SharedState", "opaque")
Proxy(k)    == Node(k, "ProxyRequired", "Low", "Stateless", "none")
Foreign(k)  == [Plain(k) EXCEPT !.inProject = FALSE]

MCMaxStep == 4
MCKeys == {"f1", "f2", "f3", "f4", "g1", "g2"}
MCSharedKeys == {"g1", "g2"}

\* One function reached along two paths: the callback class depends on the
\* nodes above the cut, so it differs between the lifts that share the cache.
Reached(k, callbacks) == Node(k, "Serializable", callbacks, "Stateless", "none")
WarmPaths ==
    {<<Reached("g1", "Many")>>, <<Reached("g1", "Low")>>,
     <<Reached("g2", "Low"), Reached("g1", "Low")>>}

\* Four candidates, the two deep ones of every kind.
MCPaths ==
    {<<Plain("f1"), b, c, d>> :
        b \in {Opaque("f2"), Plain("f2")},
        c \in {Plain("f3"), Callable("f3"), Proxy("f3")},
        d \in {Plain("f4"), Callable("f4"), Opaque("f4"), Proxy("f4"), Foreign("f4")}}
    \cup {<<>>} \cup WarmPaths

Answer(kind, refusals, func) ==
    [kind |-> kind, refusals |-> refusals, funcBoundary |-> func]

MCPlanOutcomes ==
    {Answer("timeout", <<>>, FALSE), Answer("error", <<>>, FALSE),
     Answer("refusal", <<"missing_reconstructor_param">>, FALSE),
     Answer("plan", <<>>, FALSE),
     Answer("plan", <<"streaming_type">>, FALSE),
     Answer("plan", <<"streaming_type", "missing_reconstructor_handle">>, FALSE),
     Answer("plan", <<"unsupported_result_shape">>, TRUE)}

MCRecoveryOutcomes ==
    {[found |-> TRUE, refusals |-> <<>>],
     [found |-> TRUE, refusals |-> <<"streaming_type">>],
     [found |-> FALSE, refusals |-> <<"live_proxy_required">>],
     [found |-> FALSE, refusals |-> <<"adapter_call_site">>]}
===============================================================================
