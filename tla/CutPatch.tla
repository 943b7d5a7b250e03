------------------------------- MODULE CutPatch -------------------------------
(***************************************************************************)
(* How codegen changes the host's source tree: the generated files, the    *)
(* rename of the cut function, the client stub that takes its name, the    *)
(* trial build, the invocation adapter and, last, the manifest             *)
(* (pipeline.go, patch.go, writer.go).                                     *)
(*                                                                         *)
(* Every file is written to a temporary file and renamed into place, so a  *)
(* file is either old or new; the sequence of files is not protected: each *)
(* write may fail, and the process may die between any two of them.  The   *)
(* patch alone is an API of its own that may be called again.              *)
(***************************************************************************)
EXTENDS Naturals, FiniteSets

CONSTANTS
    Artifacts,    \* generated files beside the stub: server, Dockerfiles, manifests
    MaxAttempts   \* bound: lifts and patches started on one tree

ASSUME CutPatchAssumption ==
    /\ IsFiniteSet(Artifacts)
    /\ MaxAttempts \in Nat

\* The two names of the patch: FuncName and monoliftOriginal + FuncName.
Names == {"function", "renamed"}

\* A generated Go file is missing, compiles in its package, or does not.
Sources == {"absent", "good", "bad"}

AdapterFiles == {"invoke", "helper"}

VARIABLES
    cutFile,     \* the names the cut file declares
    elsewhere,   \* the names other hand-written files of its package declare
    callers,     \* the package itself calls the function
    needed,      \* adapter files the plan calls for
    stub,        \* plan.ClientPath
    adapter,     \* AdapterFilePath and NormalizedHelperFilePath
    artifacts,   \* generated files the last lift has written
    manifest,    \* entries of the manifest on disk, {} when there is none
    at,          \* control point of the running attempt
    kind,        \* "lift" is RunLiftWithResult, "patch" PatchCutFunction alone
    already,     \* alreadyRenamed
    found,       \* the cut file's names when it was read (original)
    content,     \* what the attempt's rendered Go files are worth
    ended,       \* how the last attempt ended
    before,      \* the package as the attempt found it (history)
    harm,        \* what went wrong that codegen does not undo (history)
    attempts     \* attempts so far

host  == <<cutFile, stub, adapter>>
given == <<elsewhere, callers, needed>>
tree  == <<host, artifacts, manifest>>
local == <<kind, already, found, content, before>>
cutVars  == <<tree, given, at, local, ended, harm, attempts>>

Points == {"idle", "artifacts", "inspect", "writeCut", "writeStub", "undoStub",
           "verify", "undoVerify", "removeStub", "render", "adapters", "manifest"}

\* The stub's entry in the manifest, and those of the adapter files.
StubEntry == "stub"
Entries   == Artifacts \cup {StubEntry} \cup AdapterFiles

CutTypeOK ==
    /\ cutFile \in SUBSET Names /\ elsewhere \in SUBSET Names
    /\ callers \in BOOLEAN
    /\ needed \in SUBSET AdapterFiles
    /\ stub \in Sources
    /\ adapter \in [AdapterFiles -> Sources]
    /\ artifacts \in SUBSET Artifacts
    /\ manifest \in SUBSET Entries
    /\ at \in Points
    /\ kind \in {"lift", "patch"}
    /\ already \in BOOLEAN
    /\ found \in SUBSET Names
    /\ content \in {"good", "bad"}
    /\ ended \in {"none", "refused", "failed", "patched", "lifted", "unfinished", "crashed"}
    /\ before \in [cutFile : SUBSET Names, stub : Sources]
    /\ harm \in SUBSET {"crash", "restore", "repatch", "adapter"}
    /\ attempts \in 0..MaxAttempts

-----------------------------------------------------------------------------
\* The package that holds the cut function, when its cut file declares c and
\* its stub is s.

Declared(c, s) == c \cup elsewhere \cup (IF s = "absent" THEN {} ELSE {"function"})

DeclaredTwice(c, s) ==
    \/ c \cap elsewhere # {}
    \/ s # "absent" /\ "function" \in c \cup elsewhere

\* The adapter calls the renamed original, or the helper when there is one.
AdapterResolves(c, s) ==
    adapter["invoke"] # "absent" =>
        IF "helper" \in needed THEN adapter["helper"] # "absent"
                               ELSE "renamed" \in Declared(c, s)

\* It type-checks.
LoadsAs(c, s) ==
    /\ ~DeclaredTwice(c, s)
    /\ callers => "function" \in Declared(c, s)
    /\ s # "absent" => s = "good" /\ "renamed" \in Declared(c, s)
    /\ \A f \in AdapterFiles : adapter[f] # "bad"
    /\ AdapterResolves(c, s)

\* It does, and the function can be called from anywhere.
WholeAs(c, s) == LoadsAs(c, s) /\ "function" \in Declared(c, s)

Loads == LoadsAs(cutFile, stub)
Whole == WholeAs(cutFile, stub)

-----------------------------------------------------------------------------
CutInit ==
    /\ cutFile \in SUBSET Names /\ elsewhere \in SUBSET Names
    /\ callers \in BOOLEAN
    /\ needed \in {{"invoke"}, AdapterFiles}
    /\ stub = "absent"
    /\ adapter = [f \in AdapterFiles |-> "absent"]
    /\ Whole
    /\ artifacts = {} /\ manifest = {}
    /\ at = "idle" /\ kind = "patch" /\ already = FALSE /\ found = {}
    /\ content = "good" /\ ended = "none"
    /\ before = [cutFile |-> cutFile, stub |-> stub]
    /\ harm = {} /\ attempts = 0

\* No file of an earlier attempt is in the package.
Pristine == stub = "absent" /\ \A f \in AdapterFiles : adapter[f] = "absent"

Begin(k) ==
    /\ at = "idle" /\ attempts < MaxAttempts
    /\ attempts' = attempts + 1
    /\ kind' = k
    /\ content' \in {"good", "bad"}
    /\ before' = [cutFile |-> cutFile, stub |-> stub]
    /\ already' = FALSE /\ found' = {} /\ ended' = "none"
    /\ UNCHANGED <<host, manifest, given, harm>>

\* RunLiftWithResult has loaded the tree, chosen and admitted the cut, and
\* rendered the server, the stub and the deployment files.
BeginLift ==
    /\ Whole /\ Pristine /\ "function" \in cutFile
    /\ Begin("lift")
    /\ artifacts' = {}
    /\ at' = "artifacts"

BeginPatch ==
    /\ Begin("patch")
    /\ at' = "inspect"
    /\ UNCHANGED artifacts

End(how) ==
    /\ at' = "idle"
    /\ ended' = how

-----------------------------------------------------------------------------
\* writeArtifactFiles

WriteArtifact ==
    /\ at = "artifacts"
    /\ \E a \in Artifacts \ artifacts : artifacts' = artifacts \cup {a}
    /\ UNCHANGED <<host, manifest, given, at, local, ended, harm, attempts>>

\* A path outside the module root, or a write error.
ArtifactFails ==
    /\ at = "artifacts"
    /\ Artifacts # {}
    /\ End("failed")
    /\ UNCHANGED <<tree, given, local, harm, attempts>>

ArtifactsWritten ==
    /\ at = "artifacts"
    /\ artifacts = Artifacts
    /\ at' = "inspect"
    /\ UNCHANGED <<tree, given, local, ended, harm, attempts>>

-----------------------------------------------------------------------------
\* PatchCutFunctionProfile

\* loadCutPackage, os.ReadFile and renameFuncDecl give up: the package has an
\* error, the new name is taken, the function is not there, or a read fails.
Refuse ==
    /\ at = "inspect"
    /\ End("refused")
    /\ UNCHANGED <<tree, given, local, harm, attempts>>

Inspect ==
    /\ at = "inspect"
    /\ Loads
    /\ found' = cutFile
    /\ \/ cutFile = {"function"} /\ already' = FALSE /\ at' = "writeCut"
       \/ cutFile = {"renamed"} /\ already' = TRUE /\ at' = "writeStub"
    /\ UNCHANGED <<tree, given, kind, content, before, ended, harm, attempts>>

RenameFunction ==
    /\ at = "writeCut"
    /\ cutFile' = (found \ {"function"}) \cup {"renamed"}
    /\ at' = "writeStub"
    /\ UNCHANGED <<stub, adapter, artifacts, manifest, given, local, ended, harm, attempts>>

RenameFails ==
    /\ at = "writeCut"
    /\ End("failed")
    /\ UNCHANGED <<tree, given, local, harm, attempts>>

WriteStub ==
    /\ at = "writeStub"
    /\ stub' = content
    /\ at' = "verify"
    /\ UNCHANGED <<cutFile, adapter, artifacts, manifest, given, local, ended, harm, attempts>>

\* Mutant: a stub that cannot be written does not undo the rename.
StubFailsAtOnce ==
    /\ at = "writeStub"
    /\ End("failed")
    /\ UNCHANGED <<tree, given, local, harm, attempts>>

StubFails ==
    /\ at = "writeStub"
    /\ IF already THEN End("failed") ELSE at' = "undoStub" /\ UNCHANGED ended
    /\ UNCHANGED <<tree, given, local, harm, attempts>>

\* The cut file's original bytes go back; the error of that write is dropped.
PutBack ==
    \/ cutFile' = found /\ harm' = harm
    \/ cutFile' = cutFile /\ harm' = harm \cup {"restore"}

\* Mutant: only the error is returned, the cut file keeps the new name.
ReturnAfterStub ==
    /\ at = "undoStub"
    /\ End("failed")
    /\ UNCHANGED <<tree, given, local, harm, attempts>>

RestoreAfterStub ==
    /\ at = "undoStub"
    /\ PutBack
    /\ End("failed")
    /\ UNCHANGED <<stub, adapter, artifacts, manifest, given, local, attempts>>

\* Mutant: the trial build is taken for granted.
BuildTrusted ==
    /\ at = "verify"
    /\ IF kind = "lift" THEN at' = "render" /\ UNCHANGED ended ELSE End("patched")
    /\ UNCHANGED <<tree, given, local, harm, attempts>>

\* verifyPatchedBuild compiles the package and its tests.
BuildPasses ==
    /\ at = "verify"
    /\ Loads
    /\ IF kind = "lift" THEN at' = "render" /\ UNCHANGED ended ELSE End("patched")
    /\ UNCHANGED <<tree, given, local, harm, attempts>>

BuildFails ==
    /\ at = "verify"
    /\ at' = IF already THEN "removeStub" ELSE "undoVerify"
    /\ UNCHANGED <<tree, given, local, ended, harm, attempts>>

RestoreAfterBuild ==
    /\ at = "undoVerify"
    /\ PutBack
    /\ at' = "removeStub"
    /\ UNCHANGED <<stub, adapter, artifacts, manifest, given, local, ended, attempts>>

\* os.Remove, whose error is dropped too, whoever renamed the function.
RemoveStub ==
    /\ at = "removeStub"
    /\ \/ stub' = "absent" /\ harm' = IF already THEN harm \cup {"repatch"} ELSE harm
       \/ stub' = stub /\ harm' = harm \cup {"restore"}
    /\ End("failed")
    /\ UNCHANGED <<cutFile, adapter, artifacts, manifest, given, local, attempts>>

-----------------------------------------------------------------------------
\* The rest of RunLiftWithResult, after the build has been tried.

RenderAdapter ==
    /\ at = "render"
    /\ at' = "adapters"
    /\ UNCHANGED <<tree, given, local, ended, harm, attempts>>

MissingAdapters == {f \in needed : adapter[f] = "absent"}

\* The map of adapter files is ranged over in no order.
WriteAdapter ==
    /\ at = "adapters"
    /\ \E f \in MissingAdapters, c \in {"good", "bad"} :
          /\ adapter' = [adapter EXCEPT ![f] = c]
          /\ harm' = IF c = "bad" THEN harm \cup {"adapter"} ELSE harm
    /\ UNCHANGED <<cutFile, stub, artifacts, manifest, given, at, local, ended, attempts>>

\* Mutant: the manifest is written before the adapter files.
AdaptersPromised ==
    /\ at = "adapters"
    /\ at' = "manifest"
    /\ UNCHANGED <<tree, given, local, ended, harm, attempts>>

AdaptersWritten ==
    /\ at = "adapters"
    /\ MissingAdapters = {}
    /\ at' = "manifest"
    /\ UNCHANGED <<tree, given, local, ended, harm, attempts>>

WriteManifest ==
    /\ at = "manifest"
    /\ manifest' = Artifacts \cup {StubEntry} \cup needed
    /\ End("lifted")
    /\ UNCHANGED <<host, artifacts, given, local, harm, attempts>>

\* Some but not all of the adapter files are there.
HalfAdapted == MissingAdapters # {} /\ MissingAdapters # needed

\* Rendering or writing fails.  Nothing that was written is taken back.
FinishFails ==
    /\ at \in {"render", "adapters", "manifest"}
    /\ harm' = IF HalfAdapted THEN harm \cup {"adapter"} ELSE harm
    /\ End("unfinished")
    /\ UNCHANGED <<tree, given, local, attempts>>

\* Stopping here leaves the package changed and not yet known to build.
AtRisk ==
    \/ at = "writeStub" /\ ~already
    \/ at \in {"undoStub", "verify", "undoVerify", "removeStub"}
    \/ at = "adapters" /\ HalfAdapted

CrashCut ==
    /\ at # "idle"
    /\ harm' = IF AtRisk THEN harm \cup {"crash"} ELSE harm
    /\ End("crashed")
    /\ UNCHANGED <<tree, given, local, attempts>>

-----------------------------------------------------------------------------
Patch ==
    \/ Refuse \/ Inspect \/ RenameFunction \/ RenameFails \/ WriteStub \/ StubFails
    \/ RestoreAfterStub \/ BuildPasses \/ BuildFails \/ RestoreAfterBuild \/ RemoveStub

CutNext ==
    \/ BeginLift \/ BeginPatch
    \/ WriteArtifact \/ ArtifactFails \/ ArtifactsWritten
    \/ Patch
    \/ RenderAdapter \/ WriteAdapter \/ AdaptersWritten \/ WriteManifest \/ FinishFails
    \/ CrashCut

CutSpec == CutInit /\ [][CutNext]_cutVars

-----------------------------------------------------------------------------
(* Properties *)

\* What the package holds besides hand-written files.
OnDisk ==
    artifacts \cup (IF stub = "absent" THEN {} ELSE {StubEntry})
              \cup {f \in AdapterFiles : adapter[f] # "absent"}

\* After a patch or a lift that reported success every caller goes through
\* the stub: the stub is the one declaration of the function, and the original
\* is in the cut file under its new name (PatchCutFunctionProfile).
SuccessRoutesCallers ==
    ended \in {"patched", "lifted"} =>
        /\ stub # "absent" /\ ~DeclaredTwice(cutFile, stub)
        /\ cutFile = {"renamed"}

\* A patch that renamed the function and then reported an error has put the
\* cut file back and left no stub, at whatever write or build it failed,
\* unless putting back failed as well (patch.go drops that error).
FailedPatchRestores ==
    ended = "failed" /\ ~already /\ "restore" \notin harm =>
        cutFile = before.cutFile /\ stub = before.stub

\* Between attempts the host builds and still has its function, except after
\* the four things codegen does not undo: a crash while the tree was being
\* changed, a restore that failed, a failed patch of an already patched
\* function, and an adapter that is incomplete or does not compile.
BreaksOnlyInKnownWays == at = "idle" /\ harm = {} => Whole

\* The manifest never names a file that is not there, as long as no later
\* patch took the stub away again (writeManifest comes last).
ManifestMatchesTree ==
    manifest # {} /\ "repatch" \notin harm => manifest \subseteq OnDisk

=============================================================================
