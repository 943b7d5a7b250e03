---------------------------- MODULE StateClass -----------------------------
(***************************************************************************)
(* The state a region owns (pkg/compiler/stateclass): the class and the    *)
(* disposition of every package variable and receiver field that the       *)
(* functions of its closure touch, and the archetype of the region.        *)
(*                                                                         *)
(* A program is [fn, cell, targets, iface].  Functions, cells, types and   *)
(* methods are numbered, functions and cells in the order of their names.  *)
(*   fn[f]:   [pkg, owner, ptr, name, base, exported, op]; owner is the    *)
(*            receiver's type (0: none), ptr says the receiver is a        *)
(*            pointer, base is the name without the "$1" of a literal, op  *)
(*            is an operation of module Liftability                        *)
(*   cell[c]: [pkg, owner, type, tags]; owner 0 is a package variable      *)
(* The instructions on a cell are "setglobal", "setfield", "mapset" (an    *)
(* update of a map held in a struct value), "elem" (an update of a map     *)
(* that was loaded through a pointer or from a variable: only the load     *)
(* names the cell), "read", "send", "recv" and "lock".                     *)
(* A root is [id, pkg, surface, type, name, methods, state, affinity,      *)
(* transport, registry].                                                   *)
(***************************************************************************)
EXTENDS Liftability, FiniteSetsExt

CONSTANT MethodThreshold    \* embeddedDBAppRootMethodThreshold

ClientTypes == {"sql.DB", "http.Client", "sync.Map"}
MutexTypes  == {"sync.Mutex"}

Code(prog, f) == prog.fn[f].op.code
\* The functions of fs with an instruction of ops on cell c.
On(prog, fs, c, ops) ==
    {f \in fs : \E i \in Code(prog, f) : i.op \in ops /\ i.on = c}
Locks(prog, f) == Does(Code(prog, f), "lock")

-----------------------------------------------------------------------------
(* Harvesting the seeds.                                                   *)

\* samePackageGlobal, fieldSeedFromRef
InScope(prog, root, c) ==
    LET cell == prog.cell[c]
    IN  /\ cell.pkg = root.pkg
        /\ cell.owner # 0 /\ root.surface = "struct" => cell.owner = root.type

\* prepopulateReceiverFields: the types whose every field is a seed.
Owners(prog, root, reach) ==
    (IF root.surface = "interface" THEN prog.iface[root.type].impls ELSE {})
    \cup {prog.fn[f].owner : f \in {g \in reach :
            /\ prog.fn[g].owner # 0
            /\ prog.fn[g].pkg = root.pkg
            /\ root.surface = "struct" => prog.fn[g].owner = root.type}}

Plain == {"setglobal", "setfield"}
Stores(prog, reach, c) ==
    On(prog, reach, c,
       IF prog.cell[c].owner = 0 THEN Plain ELSE Plain \cup {"mapset"})
Referenced(prog, reach, c) ==
    On(prog, reach, c, {"setglobal", "setfield", "mapset", "elem", "read",
                        "send", "recv", "lock"}) # {}

\* ownersWithSyncFields
OwnerHasMutex(prog, c) ==
    \E d \in DOMAIN prog.cell :
        /\ prog.cell[d].owner # 0
        /\ prog.cell[d].owner = prog.cell[c].owner
        /\ prog.cell[d].type \in MutexTypes \/ "mutex" \in prog.cell[d].tags

Skipped(prog, reach, c) ==
    LET cell == prog.cell[c]
        stored == Stores(prog, reach, c) # {}
    IN  CASE cell.owner = 0 -> ~stored /\ cell.type \notin ClientTypes
          [] cell.type = "chan" /\ ~stored -> TRUE
          [] OTHER -> /\ ~stored /\ ~Referenced(prog, reach, c)
                      /\ cell.type \notin ClientTypes

Seeds(prog, root, reach) ==
    {c \in DOMAIN prog.cell :
        /\ InScope(prog, root, c)
        /\ \/ Referenced(prog, reach, c)
           \/ prog.cell[c].owner \in Owners(prog, root, reach)
        /\ ~Skipped(prog, reach, c)}

Seed(prog, reach, c) ==
    LET cell   == prog.cell[c]
        stores == Stores(prog, reach, c)
        plain  == On(prog, reach, c, Plain)
        sync   == {f \in stores : Locks(prog, f)}
    IN  [cell   |-> c,
         stored |-> stores # {},
         sync   |-> sync,
         loop   |-> \E f \in plain : ReceivesInLoop(prog.fn[f].op),
         keyed  |-> cell.type = "map",
         protected |-> \/ sync # {}
                       \/ stores # {} /\ OwnerHasMutex(prog, c)
                       \/ stores # {} /\ cell.type # "map"
                       \/ "connections" \in cell.tags]

-----------------------------------------------------------------------------
(* The class of a seed, and the row of the report.                         *)

\* A field that nobody locks and no loop owns is taken for configuration.
InferClassUnlocked(cell, seed) ==
    CASE cell.type \in {"sql.DB", "http.Client"} ->
             [class |-> "externalized-durable", evidence |-> <<cell.type, 0>>]
      [] (cell.owner = 0 /\ seed.stored) \/ seed.sync # {} ->
             [class |-> "shared-mutable", evidence |-> <<"sync", seed.cell>>]
      [] seed.loop ->
             [class |-> "singleton-mutable", evidence |-> <<"loop", 0>>]
      [] OTHER ->
             [class |-> "immutable-config", evidence |-> <<"read-only", 0>>]

\* inferClass: the first rule that applies; evidence is what it quotes.
InferClass(cell, seed) ==
    CASE cell.type \in {"sql.DB", "http.Client"} ->
             [class |-> "externalized-durable", evidence |-> <<cell.type, 0>>]
      [] cell.type = "sync.Map" ->
             [class |-> "shared-mutable", evidence |-> <<cell.type, 0>>]
      [] cell.owner = 0 /\ seed.stored ->
             [class |-> "shared-mutable", evidence |-> <<"global", seed.cell>>]
      [] seed.sync # {} ->
             [class |-> "shared-mutable", evidence |-> <<"sync", Min(seed.sync)>>]
      [] seed.loop ->
             [class |-> "singleton-mutable", evidence |-> <<"loop", 0>>]
      [] ~seed.stored ->
             [class |-> "immutable-config", evidence |-> <<"read-only", 0>>]
      [] OTHER -> [class |-> "", evidence |-> <<"", 0>>]

DispositionForClass(class) ==
    CASE class \in {"stateless", "immutable-config"} -> "replicated"
      [] class = "singleton-mutable"    -> "singleton"
      [] class = "externalized-durable" -> "externalize-required"
      [] class = "connection-session"   -> "affinity-routed"
      [] OTHER -> "refused"

DeclaredStateClass(state) ==
    CASE state = "singleton" -> "singleton-mutable"
      [] state = "affinity"  -> "connection-session"
      [] state = "external"  -> "externalized-durable"
      [] OTHER -> "stateless"

\* inferSeed
InferSeed(cell, seed, state) ==
    LET found == InferClass(cell, seed)
        row(class, disposition, evidence, declared) ==
            [cell |-> seed.cell, class |-> class, disposition |-> disposition,
             evidence |-> evidence, declared |-> declared]
    IN  CASE state = "stateless"
               /\ found.class \in {"shared-mutable", "singleton-mutable"} ->
                 row(found.class, "refused", found.evidence, FALSE)
          [] found.class = "" /\ state # "" ->
                 row(DeclaredStateClass(state),
                     DispositionForClass(DeclaredStateClass(state)),
                     <<"declared", 0>>, TRUE)
          [] found.class = "" /\ state = "" ->
                 row("stateless", "refused", <<"", 0>>, FALSE)
          [] state \notin {"", "stateless"} ->
                 row(found.class,
                     DispositionForClass(DeclaredStateClass(state)),
                     found.evidence, TRUE)
          [] OTHER -> row(found.class, DispositionForClass(found.class),
                          found.evidence, FALSE)

SeedCodes(cell, seed, state) ==
    LET class == InferClass(cell, seed).class
    IN  CASE state = "stateless"
               /\ class \in {"shared-mutable", "singleton-mutable"} ->
                 {"MLV2_STATE_DECL_CONFLICT"}
          [] class = "" /\ state = "" -> {"MLV2_STATE_UNKNOWN"}
          [] OTHER -> {}

\* coalesceInferences: rows that agree become one row of the root (cell 0).
Coalesce(rows) ==
    LET alike(r) == {s \in rows : [s EXCEPT !.cell = 0] = [r EXCEPT !.cell = 0]}
    IN  {IF r.disposition # "refused"
             /\ (Cardinality(alike(r)) > 1 \/ r.class = "immutable-config")
         THEN [r EXCEPT !.cell = 0] ELSE r : r \in rows}

\* applyCompositeEmbeddedDBRule
EmbeddedDB(prog, seeds, exposed) ==
    IF Cardinality(exposed) <= MethodThreshold THEN {}
    ELSE {c \in seeds : prog.cell[c].owner # 0 /\ prog.cell[c].type = "sql.DB"}

\* Infer: the rows, the diagnostics and the triggers of a root whose
\* exposed operations are named by exposed.
Infer(prog, root, reach, exposed) ==
    LET seeds == Seeds(prog, root, reach)
        seed(c) == Seed(prog, reach, c)
        all   == {InferSeed(prog.cell[c], seed(c), root.state) : c \in seeds}
        codes == UNION {SeedCodes(prog.cell[c], seed(c), root.state) : c \in seeds}
        kept  == IF root.registry = "" THEN all   \* filterRegistryKeyedRows
                 ELSE {r \in all : r.class \in {"immutable-config",
                                                "externalized-durable"}}
        left  == IF root.registry = "" THEN codes
                 ELSE codes \ {"MLV2_STATE_UNKNOWN"}
        db    == EmbeddedDB(prog, seeds, exposed)
    IN  CASE seeds = {} /\ root.state = "" ->
                 [rows |-> {}, codes |-> {}, triggers |-> {}]
          [] seeds = {} /\ root.state # "" ->
                 [rows |-> {[cell |-> 0,
                             class |-> DeclaredStateClass(root.state),
                             disposition |-> DispositionForClass(
                                               DeclaredStateClass(root.state)),
                             evidence |-> <<"unobserved", 0>>,
                             declared |-> TRUE]},
                  codes |-> {}, triggers |-> {}]
          [] db # {} ->
                 [rows |-> Coalesce({[r EXCEPT !.class = "externalized-durable",
                                               !.disposition = "refused",
                                               !.declared = FALSE,
                                               !.evidence = <<"embedded-db", 0>>] :
                                     r \in {s \in kept : s.cell \in db}}),
                  codes |-> left \cup {"MLV2_EMBEDDED_DB_APP_ROOT",
                                       "MLV2_CLOSURE_TOO_LARGE"},
                  triggers |-> {"embedded-db", "closure-size"}]
          [] OTHER -> [rows |-> Coalesce(kept), codes |-> left, triggers |-> {}]

-----------------------------------------------------------------------------
(* Archetypes.                                                             *)

Effects == {"effects.no-param-heap-mutation", "effects.no-param-escape",
            "effects.no-global-writes"}

\* An actor may write package variables.
RequiredWithGlobals == [
    actor   |-> {"effects.no-param-heap-mutation", "effects.no-param-escape",
                 "state.mutex-encloses-store", "state.receiver-owned"},
    keyed   |-> {"state.receiver-owned", "state.keyed-access"},
    fanout  |-> {"effects.no-param-escape", "state.receiver-owned"},
    session |-> {"effects.no-param-heap-mutation", "state.receiver-owned",
                 "state.keyed-access"}]

\* What an archetype requires to hold.
Required == [
    actor   |-> Effects \cup {"state.mutex-encloses-store",
                              "state.receiver-owned"},
    keyed   |-> {"effects.no-global-writes", "state.receiver-owned",
                 "state.keyed-access"},
    fanout  |-> {"effects.no-global-writes", "effects.no-param-escape",
                 "state.receiver-owned"},
    session |-> {"effects.no-global-writes", "effects.no-param-heap-mutation",
                 "state.receiver-owned", "state.keyed-access"}]

\* regionEvidence: the properties that hold.  effects gives the last verdict
\* on each effect in the evidence of the operations; one that is Unknown
\* leaves the seed's own word.
Evidence(cell, seed, effects) ==
    {e \in Effects : effects[e] = "Hold"}
    \cup {e \in Effects : /\ effects[e] = "Unknown"
                          /\ \/ e = "effects.no-param-escape"
                                /\ "fanout" \in cell.tags
                             \/ e = "effects.no-param-heap-mutation"
                                /\ "session" \in cell.tags}
    \cup (IF cell.owner # 0 THEN {"state.receiver-owned"} ELSE {})
    \cup (IF seed.protected THEN {"state.mutex-encloses-store"} ELSE {})
    \cup (IF seed.keyed THEN {"state.keyed-access"} ELSE {})

\* ConstructCandidates
Candidates(cell, seed, effects) ==
    {a \in DOMAIN Required :
        /\ Required[a] \subseteq Evidence(cell, seed, effects)
        /\ a = "fanout"  => "fanout" \in cell.tags
        /\ a = "session" => "session" \in cell.tags}

\* ExtendWithComposites, Subsume: a composite subsumes nothing, and nothing
\* subsumes it.
HubParts == {"fanout", "keyed", "session"}
Subsume(set) ==
    {a \in set : ~ \E b \in set : Required[a] \subseteq Required[b]
                                  /\ Required[a] # Required[b]}
    \cup (IF HubParts \subseteq set THEN {"hub"} ELSE {})

\* SelectPrimary: by the priority of the topology.
Priority == [hub |-> 150, actor |-> 100, fanout |-> 75, keyed |-> 50,
             session |-> 40]
SelectPrimary(set) ==
    CHOOSE a \in set : \A b \in set : Priority[b] <= Priority[a]

\* ClassifyRegion
ClassifyRegion(cell, seed, effects) ==
    LET left == Subsume(Candidates(cell, seed, effects))
        primary == SelectPrimary(left)
    IN  IF left = {} THEN [kind |-> "", primary |-> "", alternatives |-> {}]
        ELSE [kind |-> IF primary = "hub" THEN "composite"
                       ELSE IF Cardinality(left) = 1 THEN "single"
                       ELSE "alternative_set",
              primary |-> primary, alternatives |-> left \ {primary}]

\* classifyForExtract: the first seed that has an archetype, unless a later
\* one leaves a choice.
Classification(prog, root, reach, effects) ==
    LET of(c) == ClassifyRegion(prog.cell[c], Seed(prog, reach, c), effects)
        named == {c \in Seeds(prog, root, reach) : of(c).primary # ""}
        open  == {c \in named : of(c).kind = "alternative_set"}
    IN  IF named = {} THEN [kind |-> "", primary |-> "", alternatives |-> {}]
        ELSE of(IF open = {} THEN Min(named) ELSE Max(open))
=============================================================================
