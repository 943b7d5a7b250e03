---------------------------- MODULE Liftability ----------------------------
(***************************************************************************)
(* What the compiler says of one operation (pkg/compiler/liftability) and  *)
(* the transport it gives it (pkg/compiler/transport): pure operators over *)
(* the operation's signature and body.                                     *)
(*                                                                         *)
(* An operation is [recv, params, results, variadic, code, reflects]: recv *)
(* is "" or the kind of the receiver's type ("mutex": a struct with one,   *)
(* "iface": an interface), params and results are sequences of kinds, code *)
(* is the set of instructions of its body (NoBody for a method of an       *)
(* interface), reflects says that package reflect is reachable from it in  *)
(* the call graph.  An instruction is [op, on].  A verdict is Hold,        *)
(* Unknown or Violate.                                                     *)
(***************************************************************************)
EXTENDS Naturals, Sequences, FiniteSets, SequencesExt

CONSTANT NoBody

Does(code, op) == code # NoBody /\ \E i \in code : i.op = op

-----------------------------------------------------------------------------
(* The types that cross the boundary.                                      *)

\* walkType: the kinds of types met under a boundary type.
Parts(kind) ==
    CASE kind = "box"     -> {"value", "chan"}      \* a struct with a channel
      [] kind = "mutex"   -> {"value", "mutex"}
      [] kind = "writer"  -> {"iface"}              \* http.ResponseWriter
      [] kind = "next"    -> {"iface"}              \* caddyhttp.Handler
      [] kind = "request" -> {"value", "iface", "func", "chan"}
      [] kind = "self"    -> {"value"}
      [] OTHER            -> {kind}

Serializable(part) ==
    CASE part \in {"chan", "func", "typeparam", "unsafe"} -> "Violate"
      [] part = "iface" -> "Unknown"
      [] OTHER -> "Hold"

\* The boundary values in the order in which evidence is sorted by subject.
Boundary(op) ==
    op.params \o (IF op.recv = "" THEN <<>> ELSE <<op.recv>>) \o op.results

BoundaryParts(op) == UNION {Parts(Boundary(op)[i]) : i \in DOMAIN Boundary(op)}

\* The verdict of the first entry in the sorted evidence: the first subject,
\* and of its entries the one whose verdict comes first in the alphabet.
FirstSerializable(op) ==
    IF Boundary(op) = <<>> THEN "Hold"
    ELSE LET seen == {Serializable(p) : p \in Parts(Boundary(op)[1])}
         IN  IF "Hold" \in seen THEN "Hold"
             ELSE IF "Unknown" \in seen THEN "Unknown" ELSE "Violate"

ErrorLast(op) == op.results # <<>> /\ Last(op.results) = "error"
ReturnsSelf(op) ==
    op.recv # "" /\ op.results # <<>> /\ Head(op.results) = "self"
IsHandler(op) ==
    \/ op.params = <<"writer", "request">> /\ op.results = <<>>
    \/ op.params = <<"writer", "request", "next">> /\ op.results = <<"error">>
ReceivesInLoop(op) == Does(op.code, "recv") /\ Does(op.code, "loop")

-----------------------------------------------------------------------------
(* The properties that decide: the verdict transport reads first, and      *)
(* whether some entry of the evidence is Violate.                          *)

NoPart(op, parts) ==
    IF BoundaryParts(op) \cap parts = {} THEN "Hold" ELSE "Violate"
OfBody(op, bad) ==
    IF op.code = NoBody THEN "Unknown" ELSE IF bad THEN "Violate" ELSE "Hold"

BoundaryVerdict(op, property) ==
    CASE property = "boundary.variadic-free" ->
             IF op.variadic THEN "Violate" ELSE "Hold"
      [] property = "boundary.no-callable-values"  -> NoPart(op, {"func"})
      [] property = "boundary.no-streaming-values" -> NoPart(op, {"chan"})
      [] property = "boundary.no-sync-primitives"  -> NoPart(op, {"mutex"})
      [] property = "boundary.fully-instantiated"  -> NoPart(op, {"typeparam"})

ContractVerdict(op, property) ==
    CASE property = "contract.error-last" ->
             IF ErrorLast(op) THEN "Hold" ELSE "Violate"
      [] property = "contract.no-panic-only-failure" ->
             IF Does(op.code, "panic") /\ ~ErrorLast(op)
             THEN "Violate" ELSE "Hold"

EffectVerdict(op, property) ==
    CASE property = "effects.no-param-heap-mutation" ->
             OfBody(op, Does(op.code, "mutate"))
      [] property = "effects.no-param-escape" ->
             OfBody(op, Does(op.code, "escape"))
      [] property = "effects.no-global-writes" ->
             OfBody(op, Does(op.code, "setglobal"))
      [] property = "effects.no-reflect-unsafe" -> OfBody(op, op.reflects)

LifecycleVerdict(op, property) ==
    CASE property = "lifecycle.long-running-loop" ->
             OfBody(op, ~ReceivesInLoop(op))
      [] property = "lifecycle.execution-profile" ->  \* Hold: sync-short
             IF op.code = NoBody THEN "Unknown"
             ELSE IF ReceivesInLoop(op) THEN "Violate"
             ELSE IF Does(op.code, "go") THEN "Unknown" ELSE "Hold"

\* Of the registered detectors these are the ones whose word is used.
Verdict(op, property) ==
    CASE property = "boundary.serializable-via-custom-encoding" ->
             FirstSerializable(op)
      [] property \in {"boundary.variadic-free", "boundary.no-callable-values",
                       "boundary.no-streaming-values",
                       "boundary.no-sync-primitives",
                       "boundary.fully-instantiated"} ->
             BoundaryVerdict(op, property)
      [] property \in {"contract.error-last", "contract.no-panic-only-failure"} ->
             ContractVerdict(op, property)
      [] property \in {"lifecycle.long-running-loop",
                       "lifecycle.execution-profile"} ->
             LifecycleVerdict(op, property)
      [] property = "transport.handler-boundary" ->
             IF IsHandler(op) THEN "Hold" ELSE "Violate"
      [] property = "transport.receiver-returns-self" ->
             IF ReturnsSelf(op) THEN "Violate" ELSE "Hold"
      [] OTHER -> EffectVerdict(op, property)

Holds(op, property) == Verdict(op, property) = "Hold"
\* Some entry of the property's evidence is Violate.
Violates(op, property) ==
    \/ Verdict(op, property) = "Violate"
    \/ /\ property = "boundary.serializable-via-custom-encoding"
       /\ \E p \in BoundaryParts(op) : Serializable(p) = "Violate"

-----------------------------------------------------------------------------
(* Admission of one operation, and of a root.                              *)

\* refusalForProperty, in the order of the sorted evidence.
RefusalTable == <<
    <<"boundary.fully-instantiated", "MLV2_SURFACE_DEFERRED_GENERIC_DECL">>,
    <<"boundary.no-callable-values", "MLV2_SHAPE_UNSUPPORTED">>,
    <<"boundary.no-streaming-values", "MLV2_CHANNEL_BOUNDARY">>,
    <<"boundary.no-sync-primitives", "MLV2_SERIALIZATION_UNSUPPORTED">>,
    <<"boundary.serializable-via-custom-encoding",
      "MLV2_SERIALIZATION_UNSUPPORTED">>,
    <<"boundary.variadic-free", "MLV2_SHAPE_UNSUPPORTED">>,
    <<"contract.error-last", "MLV2_NO_ERROR_CHANNEL">>,
    <<"contract.no-panic-only-failure", "MLV2_NO_ERROR_CHANNEL">>,
    <<"effects.no-global-writes", "MLV2_SHARED_MUTABLE_STATE">>,
    <<"effects.no-param-heap-mutation", "MLV2_POINTER_ALIAS_UNSUPPORTED">>,
    <<"effects.no-reflect-unsafe", "MLV2_REFLECTION_DISPATCH">>,
    <<"transport.receiver-returns-self", "MLV2_BUILDER_CHAIN_ROOT">> >>

\* The framework defines how a handler fails.
Forgiven(op, property) ==
    IsHandler(op) /\ property \in {"contract.error-last",
                                   "contract.no-panic-only-failure"}

Refusals(op) ==
    SelectSeq(RefusalTable, LAMBDA r : Violates(op, r[1]) /\ ~Forgiven(op, r[1]))
Codes(op) == {Refusals(op)[i][2] : i \in DOMAIN Refusals(op)}
Liftable(op) == Refusals(op) = <<>>

\* emitOperationDiagnostics
NamesOperations(pragma) ==
    pragma.surface \in {"function", "method"} \/ pragma.methods # {}

\* ops: the exposed operations, sorted by name.
RootAdmission(ops) ==
    IF ops = <<>> THEN "unsupported"
    ELSE IF \A i \in DOMAIN ops : Liftable(ops[i]) THEN "liftable" ELSE "refused"

\* One operation passes its admission on without a diagnostic of the root;
\* of several the first refused one names the code, and a struct has its own.
RootCodes(pragma, ops) ==
    IF Len(ops) < 2 \/ RootAdmission(ops) # "refused" THEN {}
    ELSE IF pragma.surface = "struct" THEN {"MLV2_STRUCT_SURFACE_UNSUPPORTED"}
    ELSE {Head(Refusals(SelectSeq(ops, LAMBDA op : ~Liftable(op))[1]))[2]}

LiftabilityCodes(pragma, ops) ==
    RootCodes(pragma, ops)
    \cup IF NamesOperations(pragma)
         THEN UNION {Codes(ops[i]) : i \in DOMAIN ops} ELSE {}

-----------------------------------------------------------------------------
(* Transport: the canonical shape of an operation and its template.        *)

CtxRequestResponse(op) ==
    /\ Len(op.params) = 2 /\ Len(op.results) = 2
    /\ op.params[1] = "context" /\ op.results[2] = "error"
MultiDomainArgs(op) ==
    Len(op.params) >= 3 /\ op.params[1] = "context" /\ ErrorLast(op)
NoResponse(op) == op.results \in {<<>>, <<"error">>}
ChannelConsumer(op) ==
    /\ ReceivesInLoop(op)
    /\ \A i \in DOMAIN op.params : op.params[i] # "chan"
    /\ \A i \in DOMAIN op.results : op.results[i] # "chan"

\* Select: the first selector whose property and signal agree.
Shape(op) ==
    CASE IsHandler(op)       -> "http-handler"
      [] ChannelConsumer(op) -> "channel-consumer"
      [] ReturnsSelf(op)     -> "builder-chain"
      [] CtxRequestResponse(op) -> "ctx-request-response"
      [] MultiDomainArgs(op) -> "multi-domain-args"
      [] NoResponse(op)      -> "no-response"
      [] OTHER               -> "unsupported"

Domain == {"ctx-request-response", "multi-domain-args"}
SupportsHTTPJSON == Domain \cup {"no-response"}

HTTPJSONCandidate(op) ==
    /\ Shape(op) \in SupportsHTTPJSON
    /\ Holds(op, "boundary.serializable-via-custom-encoding")
    /\ Holds(op, "lifecycle.execution-profile")
    /\ Shape(op) = "no-response" \/ Holds(op, "contract.error-last")

\* Admit
Admits(op) ==
    \A p \in {"boundary.serializable-via-custom-encoding",
              "boundary.no-callable-values", "boundary.no-streaming-values",
              "boundary.fully-instantiated", "boundary.variadic-free",
              "boundary.no-sync-primitives", "lifecycle.execution-profile"} :
        Holds(op, p)

Template(op, transport) ==
    CASE Shape(op) = "http-handler" -> "handler"
      [] transport = "http-json" /\ Shape(op) \in SupportsHTTPJSON -> "http-json"
      [] HTTPJSONCandidate(op) -> "http-json"
      [] Shape(op) = "channel-consumer" -> "channel-consumer"
      [] Admits(op) -> "http-json"
      [] OTHER -> ""
DefaultTransport(op, transport) ==
    IF Template(op, transport) = "channel-consumer" THEN ""
    ELSE Template(op, transport)

-----------------------------------------------------------------------------
(* Transport: the shape of a root and the checks of its options.           *)

RootShape(ops) ==
    LET shapes == {Shape(ops[i]) : i \in DOMAIN ops}
    IN  CASE Cardinality(shapes) = 1 -> CHOOSE s \in shapes : TRUE
          [] shapes # {} /\ shapes \subseteq Domain -> "multi-domain-args"
          [] OTHER -> "unsupported"

\* aggregateRoot: operations of one shape have the transport of the first.
RootTransport(pragma, ops) ==
    LET shapes == {Shape(ops[i]) : i \in DOMAIN ops}
    IN  CASE Cardinality(shapes) = 1 -> DefaultTransport(ops[1], pragma.transport)
          [] shapes # {} /\ shapes \subseteq Domain -> "http-json"
          [] OTHER -> ""

\* aggregateRoot: its diagnostics.
ShapeCodes(pragma, ops) ==
    LET shapes == {Shape(ops[i]) : i \in DOMAIN ops}
        mixed == /\ "http-handler" \in shapes
                 /\ shapes \cap SupportsHTTPJSON # {}
        partial == /\ pragma.surface = "struct" /\ pragma.methods = {}
                   /\ shapes \cap {"unsupported", "builder-chain"} # {}
    IN  IF Cardinality(shapes) > 1 /\ ~(shapes \subseteq Domain)
           /\ (mixed \/ partial)
        THEN {"MLV2_STRUCT_SURFACE_UNSUPPORTED"} ELSE {}

\* exposed: the names of the operations resolved for the root.
OptionCodes(pragma, exposed, ops) ==
    UNION {
        IF pragma.transport = "grpc" THEN {"MLV2_TRANSPORT_RESERVED"} ELSE {},
        IF pragma.transport = "handler" /\ RootShape(ops) # "http-handler"
        THEN {"MLV2_SHAPE_UNSUPPORTED"} ELSE {},
        IF pragma.state = "affinity" /\ pragma.affinity = ""
        THEN {"MLV2_SESSION_AFFINITY_UNAVAILABLE"} ELSE {},
        IF pragma.methods \subseteq exposed THEN {}
        ELSE CASE pragma.surface = "struct" -> {"MLV2_STRUCT_SURFACE_UNSUPPORTED"}
               [] pragma.surface = "interface" -> {"MLV2_SHAPE_UNSUPPORTED"}
               [] OTHER -> {}}
=============================================================================
