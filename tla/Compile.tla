------------------------------ MODULE Compile ------------------------------
(***************************************************************************)
(* The demo compiler (pkg/compiler, Compiler.Compile, with the generators  *)
(* of pkg/lift): it clears the output directory, extracts each interface   *)
(* that has a pragma, rewrites the main package to call the services,      *)
(* builds an image of each and writes their manifests.                     *)
(*                                                                         *)
(* Files of the operating system, commands it runs and the type checker    *)
(* may fail at any call.  A client, a delegate and a server are named      *)
(* after the package of their interface.                                   *)
(***************************************************************************)
EXTENDS Instantiation

\* The main packages compile.  A variable has one declaration, which is a
\* statement like any other; what runs uses variables only, and what is
\* declared at the top uses what is declared at the top.  Declarations rest on
\* each other in no circle: a variable is declared before it is used, and at
\* the top Go orders the initializations; a declaration of several variables
\* one of which uses another is left out.  No interface is in a package named
\* like the entry point.
ASSUME CompileAssumption ==
    \A in \in Inputs :
        LET code == in.main.code
            vars(s) == ToSet(code[s].args) \ {Inlined, Opaque}
        IN  /\ code \in Seq(ToSet(code)) /\ in.main.files \in Nat
            /\ DOMAIN in.main.id \subseteq Nat \ {0}
            /\ \A s \in DOMAIN code :
                  /\ code[s].args \in Seq(ToSet(code[s].args))
                  /\ vars(s) \cup code[s].defs \subseteq DOMAIN in.main.id
                  /\ code[s].file \in 1..in.main.files
                  /\ code[s].kind \in {"control", "expr"} =>
                         {Inlined, Opaque} \cap ToSet(code[s].args) = {}
                  /\ code[s].top => code[s].kind = "decl"
            /\ \A s, t \in DOMAIN code :
                  LET shared == code[s].defs \cap code[t].defs
                      used   == vars(s) \cap code[t].defs
                  IN  /\ shared # {} => s = t
                      /\ code[s].top /\ used # {} => code[t].top
            /\ \A set \in (SUBSET DOMAIN code) \ {{}} :
                  \E s \in set : \A t \in set : vars(s) \cap code[t].defs = {}
            /\ in.ifaces \in Seq(ToSet(in.ifaces))
            /\ \A i \in DOMAIN in.ifaces :
                  /\ in.ifaces[i].name # "entrypoint"
                  /\ in.ifaces[i].stmt \in DOMAIN code \cup {None}
                  /\ in.ifaces[i].declares \subseteq in.ifaces[i].has

VARIABLES
    phase,      \* of the compilation
    k,          \* the interface, file or artifact at hand
    extracted,  \* the interfaces extracted, in order
    clients, delegates, servers,    \* by package name: [of, state]
    replaced,   \* interfaces whose root statement calls the client
    pushed,     \* names whose image has been pushed
    manifests,  \* names whose manifests have been written
    err         \* why the compilation failed
vars == <<input, planVars, phase, k, extracted, clients, delegates, servers,
          replaced, pushed, manifests, err>>

\* [name, pragmas, implementers, called, stmt, methods, declares, has]: a method
\* is its name and signature; an interface has the methods it declares and those
\* of the interfaces it embeds.
Ifaces == input.ifaces
Name(i) == Ifaces[i].name
Names == {Name(i) : i \in DOMAIN Ifaces}
Nowhere == [of |-> None, state |-> "none"]

\* The services to build: each package name once, in the order extracted.
ServiceNames ==
    LET names == [j \in DOMAIN extracted |-> Name(extracted[j])]
    IN  Pick(names, {j \in DOMAIN names : \A h \in 1..(j - 1) : names[h] # names[j]})
Artifacts == Append(ServiceNames, "entrypoint")

Init ==
    /\ input \in Inputs /\ PlanInit
    /\ phase = "clean" /\ k = 1 /\ extracted = <<>>
    /\ clients = [n \in Names |-> Nowhere] /\ delegates = [n \in Names |-> Nowhere]
    /\ servers = [n \in Names |-> Nowhere]
    /\ replaced = {} /\ pushed = {} /\ manifests = {} /\ err = ""

FilesUnchanged == UNCHANGED <<clients, delegates, servers>>
OutputUnchanged == UNCHANGED <<replaced, pushed, manifests>>

Fail(why) == phase' = "done" /\ err' = why /\ UNCHANGED k
GoTo(p) == phase' = p /\ k' = 1 /\ UNCHANGED err

Clean ==
    /\ phase = "clean"
    /\ \E ok \in BOOLEAN : IF ok THEN GoTo("extract") ELSE Fail("output")
    /\ UNCHANGED <<input, planVars, extracted>> /\ FilesUnchanged /\ OutputUnchanged

-----------------------------------------------------------------------------
(* extractCode.  What fails is reported, and the next interface is taken.  *)

\* The interface has a pragma and one implementer; the first main package
\* calls its constructor, in a declaration.
Extractable(i) ==
    /\ Ifaces[i].pragmas > 0 /\ Ifaces[i].implementers = 1
    /\ Ifaces[i].called /\ Ifaces[i].stmt # None

Skip == k' = k + 1 /\ step' = "idle" /\ UNCHANGED <<phase, err>>

SkipIface ==
    /\ phase = "extract" /\ k <= Len(Ifaces) /\ step = "idle"
    /\ ~Extractable(k) /\ k' = k + 1
    /\ UNCHANGED <<input, planVars, phase, extracted, err>>
    /\ FilesUnchanged /\ OutputUnchanged

OpenIface ==
    /\ phase = "extract" /\ k <= Len(Ifaces) /\ step = "idle"
    /\ Extractable(k) /\ StartPlan(Ifaces[k].stmt)
    /\ UNCHANGED <<input, phase, k, extracted, err>>
    /\ FilesUnchanged /\ OutputUnchanged

Plan ==
    /\ phase = "extract" /\ PlanStep
    /\ UNCHANGED <<phase, k, extracted, err>> /\ FilesUnchanged /\ OutputUnchanged

\* GetMethodConfigsForInterface panics on results it has no zero value for.
ClosePlan ==
    /\ phase = "extract" /\ step \notin {"idle", "resolve", "use", "sort"}
    /\ LET methods == Ifaces[k].methods
       IN  IF step = "panic" \/ (step = "planned" /\ methods = "panic")
           THEN Fail("panic") /\ UNCHANGED step
           ELSE IF step # "planned" \/ methods = "unsupported" THEN Skip
           ELSE phase' = "client" /\ UNCHANGED <<k, step, err>>
    /\ UNCHANGED <<input, stack, deps, resolved, prereqs, at, degree, ready, order,
                   extracted>>
    /\ FilesUnchanged /\ OutputUnchanged

\* A generator that fails leaves its file as it is, or part of it.  A client
\* names its imports, and may be all there though goimports has failed.
Written(files, n, state) ==
    IF state = "none" THEN files ELSE [files EXCEPT ![n] = [of |-> k, state |-> state]]
Outcomes == {"whole", "part", "none"}

WriteClient ==
    /\ phase = "client"
    /\ \E state \in Outcomes \cup {"raw"} :
           /\ clients' = Written(clients, Name(k), state)
           /\ IF state = "whole" THEN phase' = "delegate" /\ UNCHANGED <<k, step, err>>
              ELSE phase' = "extract" /\ k' = k + 1 /\ step' = "idle" /\ UNCHANGED err
    /\ UNCHANGED <<input, stack, deps, resolved, prereqs, at, degree, ready, order,
                   extracted, delegates, servers>>
    /\ OutputUnchanged

WriteDelegate ==
    /\ phase = "delegate"
    /\ \E state \in Outcomes :
           /\ delegates' = Written(delegates, Name(k), state)
           /\ IF state = "whole" THEN phase' = "server" /\ UNCHANGED <<k, step, err>>
              ELSE phase' = "extract" /\ k' = k + 1 /\ step' = "idle" /\ UNCHANGED err
    /\ UNCHANGED <<input, stack, deps, resolved, prereqs, at, degree, ready, order,
                   extracted, clients, servers>>
    /\ OutputUnchanged

\* The directory of the server is made anew; its error is not looked at.
WriteServer ==
    /\ phase = "server" /\ phase' = "extract"
    /\ \E state \in Outcomes :
           servers' = [servers EXCEPT ![Name(k)] =
                          IF state = "none" THEN Nowhere
                          ELSE [of |-> k, state |-> state]]
    /\ extracted' = Append(extracted, k)
    /\ k' = k + 1 /\ step' = "idle"
    /\ UNCHANGED <<input, stack, deps, resolved, prereqs, at, degree, ready, order,
                   clients, delegates, err>>
    /\ OutputUnchanged

\* With nothing extracted the compilation has succeeded.
EndExtract ==
    /\ phase = "extract" /\ k > Len(Ifaces) /\ step = "idle"
    /\ IF extracted = <<>> THEN phase' = "done" /\ UNCHANGED <<k, err>>
       ELSE IF input.manifest = "missing" THEN Fail("manifest")
       ELSE GoTo("rewrite")
    /\ UNCHANGED <<input, planVars, extracted>> /\ FilesUnchanged /\ OutputUnchanged

-----------------------------------------------------------------------------
(* generateEntrypoint: file by file, the root statements are replaced in   *)
(* the tree, and the tree is written.  Only a statement of a block can be. *)

\* A mutant: the statements of one interface are replaced in each file.
RootsInOne(file) ==
    LET roots == {i \in ToSet(extracted) : Code[Ifaces[i].stmt].file = file}
    IN  IF roots = {} THEN {} ELSE {CHOOSE i \in roots : TRUE}

RootsIn(file) == {i \in ToSet(extracted) : Code[Ifaces[i].stmt].file = file}

\* A statement that has been replaced is not there for a second interface.
Replaceable(i) ==
    /\ Code[Ifaces[i].stmt].block
    /\ \A j \in RootsIn(k) : j # i => Ifaces[j].stmt # Ifaces[i].stmt

RewriteFile ==
    /\ phase = "rewrite" /\ k <= main.files
    /\ IF \E i \in RootsIn(k) : ~Replaceable(i)
       THEN Fail("rewrite") /\ UNCHANGED replaced
       ELSE \E ok \in BOOLEAN :
                IF ok
                THEN /\ replaced' = replaced \cup RootsIn(k)
                     /\ k' = k + 1 /\ UNCHANGED <<phase, err>>
                ELSE Fail("write") /\ UNCHANGED replaced
    /\ UNCHANGED <<input, planVars, extracted, pushed, manifests>> /\ FilesUnchanged

\* The module file of the entry point.
EndRewrite ==
    /\ phase = "rewrite" /\ k > main.files
    /\ \E ok \in BOOLEAN : IF ok THEN GoTo("build") ELSE Fail("module")
    /\ UNCHANGED <<input, planVars, extracted>> /\ FilesUnchanged /\ OutputUnchanged

-----------------------------------------------------------------------------
(* Images and manifests, one artifact after another.                       *)

\* The root statement declares a variable of its interface and gives it the
\* client of the package: any client that declares the methods will do.
Fits(i, j) == j # None /\ Ifaces[i].has \subseteq Ifaces[j].declares

\* What go build may accept: a server that is there; an entry point without
\* part of a file, whose variables have clients that fit them.
Builds(n) ==
    IF n = "entrypoint"
    THEN /\ \A m \in Names : clients[m].state # "part" /\ delegates[m].state # "part"
         /\ \A i \in replaced : Fits(i, clients[Name(i)].of)
    ELSE servers[n].state # "none"

\* go build, docker build and docker push; any of them may fail.
Build ==
    /\ phase = "build" /\ k <= Len(Artifacts)
    /\ \E ok \in BOOLEAN :
           IF Builds(Artifacts[k]) /\ ok
           THEN /\ pushed' = pushed \cup {Artifacts[k]}
                /\ k' = k + 1 /\ UNCHANGED <<phase, err>>
           ELSE Fail("build") /\ UNCHANGED pushed
    /\ UNCHANGED <<input, planVars, extracted, replaced, manifests>>
    /\ FilesUnchanged

EndBuild ==
    /\ phase = "build" /\ k > Len(Artifacts)
    /\ IF input.manifest = "deployment" THEN GoTo("manifests") ELSE Fail("manifest")
    /\ UNCHANGED <<input, planVars, extracted>> /\ FilesUnchanged /\ OutputUnchanged

WriteManifests ==
    /\ phase = "manifests" /\ k <= Len(Artifacts)
    /\ \E ok \in BOOLEAN :
           IF ok /\ (Artifacts[k] = "entrypoint" => input.port)
           THEN /\ manifests' = manifests \cup {Artifacts[k]}
                /\ k' = k + 1 /\ UNCHANGED <<phase, err>>
           ELSE Fail("manifest") /\ UNCHANGED manifests
    /\ UNCHANGED <<input, planVars, extracted, replaced, pushed>> /\ FilesUnchanged

EndManifests ==
    /\ phase = "manifests" /\ k > Len(Artifacts)
    /\ phase' = "done"
    /\ UNCHANGED <<input, planVars, k, extracted, err>> /\ FilesUnchanged /\ OutputUnchanged

Return == phase = "done" /\ UNCHANGED vars

Next ==
    \/ Clean \/ SkipIface \/ OpenIface \/ Plan \/ ClosePlan
    \/ WriteClient \/ WriteDelegate \/ WriteServer \/ EndExtract
    \/ RewriteFile \/ EndRewrite \/ Build \/ EndBuild
    \/ WriteManifests \/ EndManifests \/ Return

Spec == Init /\ [][Next]_vars

-----------------------------------------------------------------------------
(* What a plan is good for.                                                *)

\* The programs whose plans say all: no two variables have the same Id, no
\* statement takes two variables from one declaration, each declaration of
\* the package is alone and in the first file, and what a statement uses is
\* what is resolved for it.
Plain ==
    /\ \A v, w \in DOMAIN main.id : Id(v) = Id(w) => v = w
    /\ \A s \in DOMAIN Code :
           /\ Code[s].others = {}
           /\ Code[s].top => Code[s].file = 1
           /\ Code[s].uses = ToSet(Code[s].args) \ {Inlined, Opaque}
           /\ Code[s].kind \in {"assign", "decl"} =>
                  \A j, h \in DOMAIN Code[s].args :
                      j # h /\ Code[s].args[j] > 0 /\ Code[s].args[h] > 0 =>
                          DeclOf(Code[s].args[j]) # DeclOf(Code[s].args[h])

\* A plan runs: in the order in which the server has the statements, what a
\* statement uses has been declared before it.  And no such program is refused
\* as circular.
PlanRuns ==
    Plain =>
    /\ step # "circular"
    /\ step = "planned" =>
           \A n \in DOMAIN Emitted : \A v \in Code[Emitted[n]].uses :
               \E j \in 1..(n - 1) : v \in Code[Emitted[j]].defs

\* The statements that what is in a set rests on, and the set: the least one
\* that has it and what its statements use.
Closed(set) == \A s \in set : \A v \in Code[s].uses : DeclOf(v) \in set
Behind(set) ==
    {s \in DOMAIN Code :
        \A t \in SUBSET DOMAIN Code : set \subseteq t /\ Closed(t) => s \in t}
Before(root) ==
    {s \in ToSet(Executable) : s < root /\ Code[s].kind \in {"control", "expr"}}

\* A plan has all that the root rests on and every earlier statement that uses
\* any of it; nothing is in it but those, other statements that use what they
\* rest on, and what these rest on; and nothing is in it twice.
PlanIsExact ==
    Plain /\ step = "planned" =>
    LET root == deps[1]
        plan == ToSet(order)
        uses == plan \cap Before(root)
        base == Behind({root})
    IN  /\ base \subseteq plan
        /\ \A s \in Before(root) :
               (\E v \in Code[s].uses : DeclOf(v) \in base) => s \in plan
        /\ plan = Behind({root} \cup uses)
        /\ \A s \in uses : \E v \in Code[s].uses : DeclOf(v) \in plan
        /\ Len(order) = Cardinality(plan)

-----------------------------------------------------------------------------
(* What a compilation leaves.                                              *)

\* A compilation that reports no error and has extracted anything has called a
\* client at every root statement and left every artifact with its image and its
\* manifests.  The client has all methods of the interface.  Client and server
\* are the interface's own, unless a later one of the same package name, which
\* declares every method of this one, has taken its client; then nothing fails,
\* and its calls go to the server of the last one of that name extracted.
SuccessIsDeployable ==
    phase = "done" /\ err = "" /\ extracted # <<>> =>
    /\ replaced = ToSet(extracted)
    /\ pushed = ToSet(Artifacts) /\ manifests = ToSet(Artifacts)
    /\ \A i \in ToSet(extracted) :
           LET client == clients[Name(i)]
               server == servers[Name(i)].of
           IN  /\ client.state # "part" /\ delegates[Name(i)].state = "whole"
               /\ \/ client = [of |-> i, state |-> "whole"] /\ server = i
                  \/ /\ client.of > i /\ Name(client.of) = Name(i) /\ Fits(i, client.of)
                     /\ server \in {j \in ToSet(extracted) : Name(j) = Name(i)}
                     /\ \A j \in ToSet(extracted) : Name(j) = Name(i) => j <= server
                     /\ server <= client.of

=============================================================================
