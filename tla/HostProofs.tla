------------------------------ MODULE HostProofs ------------------------------
(***************************************************************************)
(* Proofs about the host of a lifted function, from the patch of its files *)
(* to its calls.  CutPatch, for every set of artifacts and any number of   *)
(* attempts: the host breaks only in the ways codegen does not undo, a     *)
(* failed patch restores what it found, and the manifest is never ahead of *)
(* the tree.  LiftPatch, for any request, any packages and any number of   *)
(* interrupted calls: no guarded prelude is stacked, a successful region   *)
(* is complete and LIFTPATCH.json tells the truth.  LiftedCall: what the   *)
(* generated stub and server do with a call.  Delegation: what the         *)
(* delegates of the demo compiler do with one.                             *)
(***************************************************************************)
EXTENDS CutPatch, LiftPatch, LiftedCall, Delegation, FiniteSetTheorems,
        SequenceTheorems, TLAPS

-----------------------------------------------------------------------------
(* CutPatch.                                                               *)


\* A lift needs the invocation adapter in any case.
NeededOK == needed \in {{"invoke"}, AdapterFiles}

\* last belongs to an attempt that has ended.
LastOK == ended # "none" => at = "idle"

\* Until it changes the tree, an attempt sees what it found, and what it found
\* was whole unless an earlier attempt did harm.
Early ==
    at \in {"artifacts", "inspect", "writeCut"} \/ (at = "writeStub" /\ already) =>
        /\ cutFile = before.cutFile /\ stub = before.stub
        /\ harm = {} => Whole

InspectOK == at \in {"artifacts", "inspect"} => already = FALSE

LiftOK ==
    at \in {"artifacts", "inspect", "writeCut", "writeStub", "undoStub", "verify"}
    /\ kind = "lift" => \A f \in AdapterFiles : adapter[f] = "absent"

\* From the decision to rename up to the last restore, what was found is the
\* plain function, and putting it back makes the package whole again.
Changing == {"writeCut", "writeStub", "undoStub", "verify", "undoVerify", "removeStub"}

RenameOK ==
    at \in Changing /\ ~already =>
        /\ found = {"function"} /\ before = [cutFile |-> found, stub |-> "absent"]
        /\ harm = {} => WholeAs(found, "absent")
        /\ at \in {"writeCut", "removeStub"} /\ "restore" \notin harm => cutFile = found
        /\ at \in {"writeStub", "undoStub", "verify", "undoVerify"} => cutFile = {"renamed"}
        /\ at \in {"writeCut", "writeStub", "undoStub"} => stub = "absent"
        /\ at = "verify" => stub = content

\* An attempt on a function that is already renamed leaves the cut file alone.
AlreadyOK ==
    /\ at \in Changing /\ already => cutFile = {"renamed"} /\ at \notin {"writeCut", "undoStub", "undoVerify"}
    /\ at = "verify" => stub = content

\* After the build has passed.
FinishOK ==
    at \in {"render", "adapters", "manifest"} =>
        /\ cutFile = {"renamed"} /\ stub = "good"
        /\ ~DeclaredTwice(cutFile, stub)
        /\ at = "render" => MissingAdapters = needed
        /\ at = "manifest" => MissingAdapters = {}
        /\ harm = {} => \A f \in AdapterFiles : adapter[f] # "bad"
        /\ \A f \in AdapterFiles \ needed : adapter[f] = "absent"
        /\ kind = "lift"

\* A lift patches after all its artifacts have been written.
ArtifactsOK == kind = "lift" /\ at \notin {"idle", "artifacts"} => artifacts = Artifacts

\* Once there is a manifest, its files stay until a later patch fails.
ManifestOK ==
    manifest # {} /\ "repatch" \notin harm =>
        /\ manifest = Artifacts \cup {StubEntry} \cup needed
        /\ artifacts = Artifacts /\ stub # "absent" /\ MissingAdapters = {}
        /\ cutFile = {"renamed"}
        /\ at \in Changing => already
        /\ at \notin {"artifacts", "render", "adapters", "manifest"}

CutPatchInv ==
    /\ CutTypeOK /\ NeededOK /\ LastOK
    /\ Early /\ InspectOK /\ LiftOK /\ RenameOK /\ AlreadyOK /\ FinishOK
    /\ ArtifactsOK /\ ManifestOK
    /\ SuccessRoutesCallers /\ FailedPatchRestores /\ BreaksOnlyInKnownWays

\* The invariant holds at the start.
LEMMA CutInvInit == CutInit => CutPatchInv
<1> SUFFICES ASSUME CutInit PROVE CutPatchInv
  OBVIOUS
<1> USE CutPatchAssumption DEF CutInit, AdapterFiles, Names, Changing
<1>1. CutTypeOK
  <2>1. attempts \in 0..MaxAttempts
    OBVIOUS
  <2>2. before \in [cutFile : SUBSET Names, stub : Sources]
    BY DEF Sources
  <2>3. adapter \in [AdapterFiles -> Sources]
    BY DEF Sources
  <2>4. QED
    BY <2>1, <2>2, <2>3 DEF CutTypeOK, Sources, Points
<1>2. NeededOK
  BY DEF NeededOK
<1>3. LastOK
  BY DEF LastOK
<1>4. Early
  BY DEF Early
<1>5. InspectOK
  BY DEF InspectOK
<1>6. LiftOK
  BY DEF LiftOK
<1>7. RenameOK
  BY DEF RenameOK
<1>8. AlreadyOK
  BY DEF AlreadyOK
<1>9. FinishOK
  BY DEF FinishOK
<1>10. ArtifactsOK
  BY DEF ArtifactsOK
<1>11. ManifestOK
  BY DEF ManifestOK
<1>12. SuccessRoutesCallers
  BY DEF SuccessRoutesCallers
<1>13. FailedPatchRestores
  BY DEF FailedPatchRestores
<1>14. BreaksOnlyInKnownWays
  BY DEF BreaksOnlyInKnownWays
<1>15. QED
  BY <1>1, <1>2, <1>3, <1>4, <1>5, <1>6, <1>7, <1>8, <1>9, <1>10, <1>11, <1>12, <1>13, <1>14 DEF CutPatchInv

\* Every step preserves it, one case per action; where an action disturbs
\* several parts of the invariant, one step per part.
LEMMA CutInvStep == CutPatchInv /\ [CutNext]_cutVars => CutPatchInv'
<1> SUFFICES ASSUME CutPatchInv, [CutNext]_cutVars PROVE CutPatchInv'
  OBVIOUS
<1> USE CutPatchAssumption DEF CutPatchInv, CutTypeOK, NeededOK, LastOK, Early, InspectOK, LiftOK,
     RenameOK, AlreadyOK, FinishOK, ArtifactsOK, ManifestOK, SuccessRoutesCallers,
     FailedPatchRestores, BreaksOnlyInKnownWays, Changing, AdapterFiles, Names, Sources, Points,
     Entries, StubEntry, host, given, tree, local, End, Begin, Whole, WholeAs, Loads, LoadsAs, DeclaredTwice, Declared,
     AdapterResolves, MissingAdapters, HalfAdapted, AtRisk, PutBack, Pristine
<1>1. CASE BeginLift
  <2>1. CutTypeOK'
    <3>1. attempts' \in 0..MaxAttempts
      BY <1>1 DEF BeginLift
    <3>2. before' \in [cutFile : SUBSET Names, stub : Sources]
      BY <1>1 DEF BeginLift
    <3>3. content' \in {"good", "bad"} /\ found' \in SUBSET Names /\ artifacts' \in SUBSET Artifacts
      BY <1>1 DEF BeginLift
    <3>4. QED
      BY <1>1, <3>1, <3>2, <3>3 DEF BeginLift
  <2>2. NeededOK'
    BY <1>1 DEF BeginLift
  <2>3. LastOK'
    BY <1>1 DEF BeginLift
  <2>4. Early'
    BY <1>1 DEF BeginLift
  <2>5. InspectOK'
    BY <1>1 DEF BeginLift
  <2>6. LiftOK'
    BY <1>1 DEF BeginLift
  <2>7. RenameOK'
    BY <1>1 DEF BeginLift
  <2>8. AlreadyOK'
    BY <1>1 DEF BeginLift
  <2>9. FinishOK'
    BY <1>1 DEF BeginLift
  <2>10. ArtifactsOK'
    BY <1>1 DEF BeginLift
  <2>11. ManifestOK'
    BY <1>1 DEF BeginLift
  <2>12. SuccessRoutesCallers'
    BY <1>1 DEF BeginLift
  <2>13. FailedPatchRestores'
    BY <1>1 DEF BeginLift
  <2>14. BreaksOnlyInKnownWays'
    BY <1>1 DEF BeginLift
  <2>15. QED
    BY <2>1, <2>2, <2>3, <2>4, <2>5, <2>6, <2>7, <2>8, <2>9, <2>10, <2>11, <2>12, <2>13, <2>14
<1>2. CASE BeginPatch
  <2>1. CutTypeOK'
    <3>1. attempts' \in 0..MaxAttempts
      BY <1>2 DEF BeginPatch
    <3>2. before' \in [cutFile : SUBSET Names, stub : Sources]
      BY <1>2 DEF BeginPatch
    <3>3. content' \in {"good", "bad"} /\ found' \in SUBSET Names /\ artifacts' \in SUBSET Artifacts
      BY <1>2 DEF BeginPatch
    <3>4. QED
      BY <1>2, <3>1, <3>2, <3>3 DEF BeginPatch
  <2>2. NeededOK'
    BY <1>2 DEF BeginPatch
  <2>3. LastOK'
    BY <1>2 DEF BeginPatch
  <2>4. Early'
    BY <1>2 DEF BeginPatch
  <2>5. InspectOK'
    BY <1>2 DEF BeginPatch
  <2>6. LiftOK'
    BY <1>2 DEF BeginPatch
  <2>7. RenameOK'
    BY <1>2 DEF BeginPatch
  <2>8. AlreadyOK'
    BY <1>2 DEF BeginPatch
  <2>9. FinishOK'
    BY <1>2 DEF BeginPatch
  <2>10. ArtifactsOK'
    BY <1>2 DEF BeginPatch
  <2>11. ManifestOK'
    BY <1>2 DEF BeginPatch
  <2>12. SuccessRoutesCallers'
    BY <1>2 DEF BeginPatch
  <2>13. FailedPatchRestores'
    BY <1>2 DEF BeginPatch
  <2>14. BreaksOnlyInKnownWays'
    BY <1>2 DEF BeginPatch
  <2>15. QED
    BY <2>1, <2>2, <2>3, <2>4, <2>5, <2>6, <2>7, <2>8, <2>9, <2>10, <2>11, <2>12, <2>13, <2>14
<1>3. CASE WriteArtifact
  BY <1>3 DEF WriteArtifact
<1>4. CASE ArtifactFails
  BY <1>4 DEF ArtifactFails
<1>5. CASE ArtifactsWritten
  BY <1>5 DEF ArtifactsWritten
<1>6. CASE Refuse
  BY <1>6 DEF Refuse
<1>7. CASE Inspect
  <2>1. CutTypeOK'
    BY <1>7 DEF Inspect
  <2>2. NeededOK'
    BY <1>7 DEF Inspect
  <2>3. LastOK'
    BY <1>7 DEF Inspect
  <2>4. Early'
    BY <1>7 DEF Inspect
  <2>5. InspectOK'
    BY <1>7 DEF Inspect
  <2>6. LiftOK'
    BY <1>7 DEF Inspect
  <2>7. RenameOK'
    BY <1>7 DEF Inspect
  <2>8. AlreadyOK'
    BY <1>7 DEF Inspect
  <2>9. FinishOK'
    BY <1>7 DEF Inspect
  <2>10. ArtifactsOK'
    BY <1>7 DEF Inspect
  <2>11. ManifestOK'
    BY <1>7 DEF Inspect
  <2>12. SuccessRoutesCallers'
    BY <1>7 DEF Inspect
  <2>13. FailedPatchRestores'
    BY <1>7 DEF Inspect
  <2>14. BreaksOnlyInKnownWays'
    BY <1>7 DEF Inspect
  <2>15. QED
    BY <2>1, <2>2, <2>3, <2>4, <2>5, <2>6, <2>7, <2>8, <2>9, <2>10, <2>11, <2>12, <2>13, <2>14
<1>8. CASE RenameFunction
  BY <1>8 DEF RenameFunction
<1>9. CASE RenameFails
  BY <1>9 DEF RenameFails
<1>10. CASE WriteStub
  BY <1>10 DEF WriteStub
<1>11. CASE StubFails
  BY <1>11 DEF StubFails
<1>12. CASE RestoreAfterStub
  <2>1. CutTypeOK'
    BY <1>12 DEF RestoreAfterStub
  <2>2. NeededOK'
    BY <1>12 DEF RestoreAfterStub
  <2>3. LastOK'
    BY <1>12 DEF RestoreAfterStub
  <2>4. Early'
    BY <1>12 DEF RestoreAfterStub
  <2>5. InspectOK'
    BY <1>12 DEF RestoreAfterStub
  <2>6. LiftOK'
    BY <1>12 DEF RestoreAfterStub
  <2>7. RenameOK'
    BY <1>12 DEF RestoreAfterStub
  <2>8. AlreadyOK'
    BY <1>12 DEF RestoreAfterStub
  <2>9. FinishOK'
    BY <1>12 DEF RestoreAfterStub
  <2>10. ArtifactsOK'
    BY <1>12 DEF RestoreAfterStub
  <2>11. ManifestOK'
    BY <1>12 DEF RestoreAfterStub
  <2>12. SuccessRoutesCallers'
    BY <1>12 DEF RestoreAfterStub
  <2>13. FailedPatchRestores'
    BY <1>12 DEF RestoreAfterStub
  <2>14. BreaksOnlyInKnownWays'
    BY <1>12 DEF RestoreAfterStub
  <2>15. QED
    BY <2>1, <2>2, <2>3, <2>4, <2>5, <2>6, <2>7, <2>8, <2>9, <2>10, <2>11, <2>12, <2>13, <2>14
<1>13. CASE BuildPasses
  BY <1>13 DEF BuildPasses
<1>14. CASE BuildFails
  BY <1>14 DEF BuildFails
<1>15. CASE RestoreAfterBuild
  <2>1. CutTypeOK'
    BY <1>15 DEF RestoreAfterBuild
  <2>2. NeededOK'
    BY <1>15 DEF RestoreAfterBuild
  <2>3. LastOK'
    BY <1>15 DEF RestoreAfterBuild
  <2>4. Early'
    BY <1>15 DEF RestoreAfterBuild
  <2>5. InspectOK'
    BY <1>15 DEF RestoreAfterBuild
  <2>6. LiftOK'
    BY <1>15 DEF RestoreAfterBuild
  <2>7. RenameOK'
    BY <1>15 DEF RestoreAfterBuild
  <2>8. AlreadyOK'
    BY <1>15 DEF RestoreAfterBuild
  <2>9. FinishOK'
    BY <1>15 DEF RestoreAfterBuild
  <2>10. ArtifactsOK'
    BY <1>15 DEF RestoreAfterBuild
  <2>11. ManifestOK'
    BY <1>15 DEF RestoreAfterBuild
  <2>12. SuccessRoutesCallers'
    BY <1>15 DEF RestoreAfterBuild
  <2>13. FailedPatchRestores'
    BY <1>15 DEF RestoreAfterBuild
  <2>14. BreaksOnlyInKnownWays'
    BY <1>15 DEF RestoreAfterBuild
  <2>15. QED
    BY <2>1, <2>2, <2>3, <2>4, <2>5, <2>6, <2>7, <2>8, <2>9, <2>10, <2>11, <2>12, <2>13, <2>14
<1>16. CASE RemoveStub
  <2>1. CutTypeOK'
    BY <1>16 DEF RemoveStub
  <2>2. NeededOK'
    BY <1>16 DEF RemoveStub
  <2>3. LastOK'
    BY <1>16 DEF RemoveStub
  <2>4. Early'
    BY <1>16 DEF RemoveStub
  <2>5. InspectOK'
    BY <1>16 DEF RemoveStub
  <2>6. LiftOK'
    BY <1>16 DEF RemoveStub
  <2>7. RenameOK'
    BY <1>16 DEF RemoveStub
  <2>8. AlreadyOK'
    BY <1>16 DEF RemoveStub
  <2>9. FinishOK'
    BY <1>16 DEF RemoveStub
  <2>10. ArtifactsOK'
    BY <1>16 DEF RemoveStub
  <2>11. ManifestOK'
    BY <1>16 DEF RemoveStub
  <2>12. SuccessRoutesCallers'
    BY <1>16 DEF RemoveStub
  <2>13. FailedPatchRestores'
    BY <1>16 DEF RemoveStub
  <2>14. BreaksOnlyInKnownWays'
    BY <1>16 DEF RemoveStub
  <2>15. QED
    BY <2>1, <2>2, <2>3, <2>4, <2>5, <2>6, <2>7, <2>8, <2>9, <2>10, <2>11, <2>12, <2>13, <2>14
<1>17. CASE RenderAdapter
  BY <1>17 DEF RenderAdapter
<1>18. CASE WriteAdapter
  BY <1>18 DEF WriteAdapter
<1>19. CASE AdaptersWritten
  BY <1>19 DEF AdaptersWritten
<1>20. CASE WriteManifest
  BY <1>20 DEF WriteManifest
<1>21. CASE FinishFails
  BY <1>21 DEF FinishFails
<1>22. CASE CrashCut
  BY <1>22 DEF CrashCut
<1>30. CASE UNCHANGED cutVars
  BY <1>30 DEF cutVars
<1>31. QED
  BY <1>1, <1>2, <1>3, <1>4, <1>5, <1>6, <1>7, <1>8, <1>9, <1>10, <1>11, <1>12, <1>13, <1>14, <1>15, <1>16, <1>17, <1>18, <1>19, <1>20, <1>21, <1>22, <1>30 DEF CutNext, Patch

\* The inductive invariant holds in every reachable state.
THEOREM CutPatchInvariant == CutSpec => []CutPatchInv
<1>1. CutInit => CutPatchInv
  BY CutInvInit
<1>2. CutPatchInv /\ [CutNext]_cutVars => CutPatchInv'
  BY CutInvStep
<1>3. QED
  BY <1>1, <1>2, PTL DEF CutSpec

\* Every variable keeps its type.
THEOREM CutTypeCorrect == CutSpec => []CutTypeOK
<1>1. CutPatchInv => CutTypeOK
  BY DEF CutPatchInv
<1>2. QED
  BY <1>1, CutPatchInvariant, PTL

\* Success means that every caller goes through the stub.
THEOREM SuccessRoutes == CutSpec => []SuccessRoutesCallers
<1>1. CutPatchInv => SuccessRoutesCallers
  BY DEF CutPatchInv
<1>2. QED
  BY <1>1, CutPatchInvariant, PTL

\* A patch that failed after its rename left the package as it was found.
THEOREM FailureRestores == CutSpec => []FailedPatchRestores
<1>1. CutPatchInv => FailedPatchRestores
  BY DEF CutPatchInv
<1>2. QED
  BY <1>1, CutPatchInvariant, PTL

\* Between attempts the host builds, but for the four harms.
THEOREM HostStaysWhole == CutSpec => []BreaksOnlyInKnownWays
<1>1. CutPatchInv => BreaksOnlyInKnownWays
  BY DEF CutPatchInv
<1>2. QED
  BY <1>1, CutPatchInvariant, PTL

\* The manifest names only files that are on the tree.
THEOREM ManifestIsTrue == CutSpec => []ManifestMatchesTree
<1>1. CutPatchInv => ManifestMatchesTree
  <2> SUFFICES ASSUME CutPatchInv, manifest # {}, "repatch" \notin harm
               PROVE  manifest \subseteq OnDisk
    BY DEF ManifestMatchesTree
  <2>1. /\ manifest = Artifacts \cup {StubEntry} \cup needed
        /\ artifacts = Artifacts /\ stub # "absent" /\ MissingAdapters = {}
    BY DEF CutPatchInv, ManifestOK
  <2>2. needed \subseteq {f \in AdapterFiles : adapter[f] # "absent"}
    BY <2>1 DEF CutPatchInv, NeededOK, AdapterFiles, MissingAdapters
  <2>3. QED
    BY <2>1, <2>2 DEF OnDisk
<1>2. QED
  BY <1>1, CutPatchInvariant, PTL

-----------------------------------------------------------------------------
(* LiftPatch.                                                               *)

\* In symbol mode every prelude starts with the sentinel and every sibling is
\* prefixed, and one symbol is asked for at a time.
ModeOK ==
    mode = "symbol" =>
        /\ guarded = TRUE /\ prefixed = TRUE
        /\ stage # "idle" => \E s \in Symbols : asked = {s}

\* outcome belongs to an attempt that has ended.
OutcomeOK == verdict # None => stage = "idle"

\* The writes of an attempt happen in packages that were checked.
Safe == \A s \in asked : Parses(site[s])

\* Host files first, then siblings, then the record.
PhaseOK ==
    /\ mode = "region" => asked \in {{}, Symbols} /\ (stage # "idle" => asked = Symbols)
    /\ stage = "check" => todo = asked
    /\ stage = "hosts" => Safe /\ \A s \in asked \ todo : prelude[s] > 0
    /\ stage = "siblings" =>
          /\ Safe /\ \A s \in asked : prelude[s] > 0
          /\ \A s \in asked \ todo : sibling[s] = "whole"
    /\ stage = "record" =>
          /\ Safe /\ \A s \in asked : prelude[s] > 0 /\ sibling[s] = "whole"
    /\ stage = "record" => mode = "symbol"

\* Each attempt adds one prelude to a symbol at most.
CountOK ==
    \A s \in Symbols :
        /\ prelude[s] <= calls
        /\ s \in todo /\ stage \in {"check", "hosts"} => prelude[s] < calls

\* A record means a prefixed sibling, so later attempts end before they write.
RecordedOK ==
    /\ \A p \in Packages : record[p] # "absent" => mode = "symbol"
    /\ mode = "symbol" /\ stage = "hosts" =>
          \A s \in asked : prelude[s] = 0 \/ s \notin todo
    /\ mode = "symbol" /\ stage \in {"hosts", "siblings", "record"} =>
          \A s \in asked : record[site[s]] \notin Symbols

LiftPatchInv ==
    /\ PatchTypeOK /\ ModeOK /\ OutcomeOK /\ PhaseOK /\ CountOK /\ RecordedOK
    /\ NeverStacked /\ RegionSuccessIsComplete /\ RecordIsBacked

\* The invariant holds at the start.
LEMMA PatchInvInit == PatchInit => LiftPatchInv
<1> SUFFICES ASSUME PatchInit PROVE LiftPatchInv
  OBVIOUS
<1> USE LiftPatchAssumption DEF PatchInit, None
<1>1. PatchTypeOK
  <2>1. prelude \in [Symbols -> 0..MaxCalls] /\ calls \in 0..MaxCalls
    OBVIOUS
  <2>2. sibling \in [Symbols -> {"absent", "torn", "whole"}]
    OBVIOUS
  <2>3. record \in [Packages -> Symbols \cup {"absent", "torn"}]
    OBVIOUS
  <2>4. QED
    BY <2>1, <2>2, <2>3 DEF PatchTypeOK
<1>2. ModeOK
  BY DEF ModeOK
<1>3. OutcomeOK
  BY DEF OutcomeOK
<1>4. PhaseOK /\ CountOK
  BY DEF PhaseOK, CountOK
<1>5. RecordedOK
  BY DEF RecordedOK
<1>6. NeverStacked
  BY DEF NeverStacked
<1>7. RegionSuccessIsComplete
  BY DEF RegionSuccessIsComplete
<1>8. RecordIsBacked
  BY DEF RecordIsBacked
<1>9. QED
  BY <1>1, <1>2, <1>3, <1>4, <1>5, <1>6, <1>7, <1>8 DEF LiftPatchInv

\* Every step preserves it, one case per action.
LEMMA PatchInvStep == LiftPatchInv /\ [PatchNext]_patchVars => LiftPatchInv'
<1> SUFFICES ASSUME LiftPatchInv, [PatchNext]_patchVars PROVE LiftPatchInv'
  OBVIOUS
<1> USE LiftPatchAssumption DEF LiftPatchInv, PatchTypeOK, ModeOK, OutcomeOK, PhaseOK, CountOK, RecordedOK,
     NeverStacked, RegionSuccessIsComplete, RecordIsBacked, Safe, None,
     setting, hostGo, patchedTree, request, EndPatch, Touched, Parses, Collides, AlreadyApplied
<1>1. CASE Call
  BY <1>1 DEF Call
<1>2. CASE RefusePatch
  BY <1>2 DEF RefusePatch
<1>3. CASE ReportAlreadyApplied
  BY <1>3 DEF ReportAlreadyApplied
<1>4. CASE AcceptPatch
  <2>1. PatchTypeOK'
    BY <1>4 DEF AcceptPatch
  <2>2. ModeOK'
    BY <1>4 DEF AcceptPatch
  <2>3. OutcomeOK'
    BY <1>4 DEF AcceptPatch
  <2>4. PhaseOK'
    <3>1. asked' \ todo' = {}
      <4>1. todo = asked
        BY <1>4 DEF AcceptPatch
      <4>2. QED
        BY <1>4, <4>1 DEF AcceptPatch
    <3>2. QED
      BY <1>4, <3>1 DEF AcceptPatch
  <2>5. CountOK'
    BY <1>4 DEF AcceptPatch
  <2>6. RecordedOK'
    BY <1>4 DEF AcceptPatch
  <2>7. NeverStacked'
    BY <1>4 DEF AcceptPatch
  <2>8. RegionSuccessIsComplete'
    BY <1>4 DEF AcceptPatch
  <2>9. RecordIsBacked'
    BY <1>4 DEF AcceptPatch
  <2>10. QED
    BY <2>1, <2>2, <2>3, <2>4, <2>5, <2>6, <2>7, <2>8, <2>9
<1>5. ASSUME NEW s \in Symbols, SkipApplied(s) PROVE LiftPatchInv'
  BY <1>5 DEF SkipApplied
<1>6. ASSUME NEW s \in Symbols, PrependPrelude(s) PROVE LiftPatchInv'
  <2>1. PatchTypeOK'
    BY <1>6 DEF PrependPrelude
  <2>2. ModeOK'
    BY <1>6 DEF PrependPrelude
  <2>3. OutcomeOK'
    BY <1>6 DEF PrependPrelude
  <2>4. PhaseOK'
    BY <1>6 DEF PrependPrelude
  <2>5. CountOK'
    BY <1>6 DEF PrependPrelude
  <2>6. RecordedOK'
    BY <1>6 DEF PrependPrelude
  <2>7. NeverStacked'
    BY <1>6 DEF PrependPrelude
  <2>8. RegionSuccessIsComplete'
    BY <1>6 DEF PrependPrelude
  <2>9. RecordIsBacked'
    BY <1>6 DEF PrependPrelude
  <2>10. QED
    BY <2>1, <2>2, <2>3, <2>4, <2>5, <2>6, <2>7, <2>8, <2>9
<1>7. ASSUME NEW s \in Symbols, WriteSibling(s) PROVE LiftPatchInv'
  BY <1>7 DEF WriteSibling
<1>8. CASE HostsDone
  BY <1>8 DEF HostsDone
<1>9. CASE SiblingsDone
  BY <1>9 DEF SiblingsDone
<1>10. CASE WriteRecord
  BY <1>10 DEF WriteRecord
<1>11. CASE FailPatch
  BY <1>11 DEF FailPatch, CutShort
<1>12. CASE CrashPatch
  BY <1>12 DEF CrashPatch, CutShort
<1>20. CASE UNCHANGED patchVars
  BY <1>20 DEF patchVars
<1>21. QED
  BY <1>1, <1>2, <1>3, <1>4, <1>5, <1>6, <1>7, <1>8, <1>9, <1>10, <1>11, <1>12, <1>20 DEF PatchNext

\* The inductive invariant holds in every reachable state.
THEOREM LiftPatchInvariant == PatchSpec => []LiftPatchInv
<1>1. PatchInit => LiftPatchInv
  BY PatchInvInit
<1>2. LiftPatchInv /\ [PatchNext]_patchVars => LiftPatchInv'
  BY PatchInvStep
<1>3. QED
  BY <1>1, <1>2, PTL DEF PatchSpec

\* Every variable keeps its type.
THEOREM PatchTypeCorrect == PatchSpec => []PatchTypeOK
<1>1. LiftPatchInv => PatchTypeOK
  BY DEF LiftPatchInv
<1>2. QED
  BY <1>1, LiftPatchInvariant, PTL

\* No call stacks a second guarded prelude on a function.
THEOREM PreludeNeverStacked == PatchSpec => []NeverStacked
<1>1. LiftPatchInv => NeverStacked
  BY DEF LiftPatchInv
<1>2. QED
  BY <1>1, LiftPatchInvariant, PTL

\* A region that reports success is complete.
THEOREM RegionComplete == PatchSpec => []RegionSuccessIsComplete
<1>1. LiftPatchInv => RegionSuccessIsComplete
  BY DEF LiftPatchInv
<1>2. QED
  BY <1>1, LiftPatchInvariant, PTL

\* What LIFTPATCH.json records is on the tree.
THEOREM RecordTrue == PatchSpec => []RecordIsBacked
<1>1. LiftPatchInv => RecordIsBacked
  BY DEF LiftPatchInv
<1>2. QED
  BY <1>1, LiftPatchInvariant, PTL


-----------------------------------------------------------------------------
(* LiftedCall: for every set of calls, every history limit and any number  *)
(* of crashes.  What makes the properties inductive is that a request is   *)
(* in one place at a time: with the stub, on the wire, with a handler, or  *)
(* executed.                                                               *)

\* Where the request of call c is, and what that says of its execution.
OnePlace(c) ==
    /\ pc[c] \in {"idle", "prepare", "send"} =>
            c \notin wire /\ handler[c] = "none" /\ ran[c].remote = 0
    /\ c \in wire => handler[c] = "none" /\ ran[c].remote = 0
    /\ handler[c] = "running" => ran[c].remote = 0
    /\ handler[c] \in {"executed", "recorded"} =>
            ran[c].remote = 1 /\ outcome[c] \in Outcomes \ {"panic"}
    /\ ran[c].remote <= 1
    /\ handler[c] # "none" => up

\* A local run is the last thing that happens to a call.
LocalLast(c) ==
    /\ ran[c].local <= 1
    /\ pc[c] # "done" => ran[c].local = 0
    /\ ran[c].local = 1 => answer[c].from = "local"
    /\ (enabled /\ closed) => pc[c] # "local" /\ ran[c].local = 0

\* A reply or a remote answer was executed and recorded.
Traced(c) ==
    /\ ran[c].remote = 0 => reply[c] \in {"none", "bad"} /\ answer[c].from # "remote"
    /\ (ran[c].remote = 0 \/ handler[c] = "executed") => era[c] = -1
    /\ handler[c] = "executed" =>
            reply[c] \in {"none", "bad"} /\ answer[c].from # "remote"
    /\ handler[c] = "recorded" => era[c] # -1
    /\ reply[c] \notin {"none", "bad"} => reply[c] = outcome[c] /\ era[c] # -1
    /\ answer[c].from = "remote" =>
            answer[c].what = Decoded(outcome[c]) /\ era[c] # -1
    /\ era[c] <= crashes
    /\ ~up => era[c] < crashes

CallInv == \A c \in Calls : OnePlace(c) /\ LocalLast(c) /\ Traced(c)

LiftedCallInv == TypeOK /\ CallInv

-------------------------------------------------------------------------------
\* Trimming keeps the last HistoryLimit entries.
LEMMA WindowKeepsLast ==
    ASSUME NEW S, NEW rs \in Seq(S)
    PROVE  /\ Window(rs) \in Seq(S)
           /\ Len(Window(rs)) = IF Len(rs) < HistoryLimit THEN Len(rs) ELSE HistoryLimit
           /\ \A i \in 1..Len(Window(rs)) :
                  Window(rs)[i] = rs[Len(rs) - Len(Window(rs)) + i]
<1> USE LiftedCallAssumption
<1>1. CASE Len(rs) > HistoryLimit
  <2> DEFINE k == Len(rs) - HistoryLimit + 1
  <2>1. /\ k \in 1..Len(rs) /\ Window(rs) = SubSeq(rs, k, Len(rs))
    BY <1>1 DEF Window
  <2>2. /\ SubSeq(rs, k, Len(rs)) \in Seq(S)
        /\ Len(SubSeq(rs, k, Len(rs))) = HistoryLimit
        /\ \A i \in 1..HistoryLimit : SubSeq(rs, k, Len(rs))[i] = rs[k + i - 1]
    BY <1>1, <2>1, SubSeqProperties
  <2>3. QED BY <1>1, <2>1, <2>2
<1>2. CASE ~(Len(rs) > HistoryLimit)
  BY <1>2 DEF Window
<1>3. QED BY <1>1, <1>2

-------------------------------------------------------------------------------
LEMMA InitInv == Init => LiftedCallInv
<1>1. ASSUME Init PROVE TypeOK
  <2>1. records \in Seq([id : Nat, call : Calls]) /\ crashes \in 0..MaxCrashes
    BY <1>1, LiftedCallAssumption DEF Init
  <2>2. QED BY <1>1, <2>1
      DEF Init, TypeOK, NoAnswer, Payloads, Labels, Answers, HandlerStates, Replies
<1>2. ASSUME Init PROVE CallInv
  BY <1>2 DEF Init, CallInv, OnePlace, LocalLast, Traced, NoAnswer
<1>3. QED BY <1>1, <1>2 DEF LiftedCallInv

LEMMA TypeStep == LiftedCallInv /\ [Next]_vars => TypeOK'
<1> SUFFICES ASSUME TypeOK, CallInv, [Next]_vars PROVE TypeOK'
  BY DEF LiftedCallInv
<1> USE DEF Goto, Answering, Handling, Replying, outside, inHost, config, client,
            recorder, Labels, Answers, HandlerStates, Replies
<1>1. ASSUME NEW c \in Calls, NEW p \in Payloads, Invoke(c, p) PROVE TypeOK'
  BY <1>1 DEF TypeOK, Invoke
<1>2. ASSUME NEW c \in Calls, Extract(c) PROVE TypeOK'
  <2>1. UNCHANGED <<enabled, closed, wrapper, fallible, payload, drained, up,
                    wire, handler, reply, count, records, crashes, ran,
                    outcome, era>>
    BY <1>2 DEF Extract
  <2>2. pc' \in [Calls -> Labels]
    <3>1. \E v \in Labels : pc' = [pc EXCEPT ![c] = v]
      BY <1>2 DEF TypeOK, Extract
    <3>2. QED BY <3>1 DEF TypeOK
  <2>3. answer' \in [Calls -> Answers]
    <3>1. \E v \in Answers : answer' = [answer EXCEPT ![c] = v]
      BY <1>2 DEF TypeOK, Extract
    <3>2. QED BY <3>1 DEF TypeOK
  <2>4. QED BY <2>1, <2>2, <2>3 DEF TypeOK
<1>3. ASSUME NEW c \in Calls, Encode(c) PROVE TypeOK'
  BY <1>3 DEF TypeOK, Encode
<1>4. ASSUME NEW c \in Calls, Post(c) PROVE TypeOK'
  <2>1. UNCHANGED <<enabled, closed, wrapper, fallible, payload, drained,
                    answer, up, handler, reply, count, records, crashes, ran,
                    outcome, era>>
    BY <1>4 DEF Post
  <2>2. pc' \in [Calls -> Labels]
    <3>1. \E v \in Labels : pc' = [pc EXCEPT ![c] = v]
      BY <1>4 DEF TypeOK, Post
    <3>2. QED BY <3>1 DEF TypeOK
  <2>3. wire' \subseteq Calls
    BY <1>4 DEF TypeOK, Post
  <2>4. QED BY <2>1, <2>2, <2>3 DEF TypeOK
<1>5. ASSUME NEW c \in Calls, GiveUp(c) PROVE TypeOK'
  BY <1>5 DEF TypeOK, GiveUp
<1>6. ASSUME NEW c \in Calls, Receive(c) PROVE TypeOK'
  <2>1. UNCHANGED <<enabled, closed, wrapper, fallible, payload, drained, up,
                    wire, handler, count, records, crashes, ran, outcome,
                    era>>
    BY <1>6 DEF Receive
  <2>2. pc' \in [Calls -> Labels]
    <3>1. \E v \in Labels : pc' = [pc EXCEPT ![c] = v]
      BY <1>6 DEF TypeOK, Receive
    <3>2. QED BY <3>1 DEF TypeOK
  <2>3. answer' \in [Calls -> Answers]
    <3>1. \E v \in Answers : answer' = [answer EXCEPT ![c] = v]
      BY <1>6 DEF TypeOK, Receive, Outcomes, Decoded
    <3>2. QED BY <3>1 DEF TypeOK
  <2>4. reply' \in [Calls -> Replies]
    <3>1. \E v \in Replies : reply' = [reply EXCEPT ![c] = v]
      BY <1>6 DEF TypeOK, Receive
    <3>2. QED BY <3>1 DEF TypeOK
  <2>5. QED BY <2>1, <2>2, <2>3, <2>4 DEF TypeOK
<1>7. ASSUME NEW c \in Calls, Fail(c) PROVE TypeOK'
  <2>1. UNCHANGED <<enabled, closed, wrapper, fallible, payload, drained, up,
                    wire, handler, reply, count, records, crashes, ran,
                    outcome, era>>
    BY <1>7 DEF Fail
  <2>2. pc' \in [Calls -> Labels]
    <3>1. \E v \in Labels : pc' = [pc EXCEPT ![c] = v]
      BY <1>7 DEF TypeOK, Fail
    <3>2. QED BY <3>1 DEF TypeOK
  <2>3. answer' \in [Calls -> Answers]
    <3>1. \E v \in Answers : answer' = [answer EXCEPT ![c] = v]
      BY <1>7 DEF TypeOK, Fail
    <3>2. QED BY <3>1 DEF TypeOK
  <2>4. QED BY <2>1, <2>2, <2>3 DEF TypeOK
<1>8. ASSUME NEW c \in Calls, RunLocal(c) PROVE TypeOK'
  BY <1>8 DEF TypeOK, RunLocal
<1>9. ASSUME NEW c \in Calls, Accept(c) PROVE TypeOK'
  BY <1>9 DEF TypeOK, Accept
<1>10. ASSUME NEW c \in Calls, NEW o \in Outcomes, Execute(c, o) PROVE TypeOK'
  <2>1. UNCHANGED <<enabled, closed, wrapper, fallible, pc, payload, drained,
                    answer, up, wire, count, records, crashes, era>>
    BY <1>10 DEF Execute
  <2>2. handler' \in [Calls -> HandlerStates]
    <3>1. \E v \in HandlerStates : handler' = [handler EXCEPT ![c] = v]
      BY <1>10 DEF TypeOK, Execute
    <3>2. QED BY <3>1 DEF TypeOK
  <2>3. reply' \in [Calls -> Replies]
    <3>1. \E v \in Replies : reply' = [reply EXCEPT ![c] = v]
      BY <1>10 DEF TypeOK, Execute
    <3>2. QED BY <3>1 DEF TypeOK
  <2>4. ran' \in [Calls -> [remote : Nat, local : Nat]]
    <3>1. ran[c] \in [remote : Nat, local : Nat]
      BY <1>10 DEF TypeOK
    <3>2. [ran[c] EXCEPT !.remote = @ + 1] \in [remote : Nat, local : Nat]
      BY <3>1
    <3>3. ran' = [ran EXCEPT ![c] = [ran[c] EXCEPT !.remote = @ + 1]]
      BY <1>10 DEF Execute
    <3>4. QED BY <3>2, <3>3 DEF TypeOK
  <2>5. outcome' \in [Calls -> Outcomes \cup {"nothing"}]
    BY <1>10 DEF TypeOK, Execute
  <2>6. QED BY <2>1, <2>2, <2>3, <2>4, <2>5 DEF TypeOK
<1>11. ASSUME NEW c \in Calls, RecordCall(c) PROVE TypeOK'
  <2>1. [id |-> count + 1, call |-> c] \in [id : Nat, call : Calls]
    BY <1>11 DEF TypeOK
  <2>2. Append(records, [id |-> count + 1, call |-> c]) \in Seq([id : Nat, call : Calls])
    BY <2>1, AppendProperties DEF TypeOK
  <2>3. records' \in Seq([id : Nat, call : Calls])
    BY <1>11, <2>2, WindowKeepsLast DEF RecordCall
  <2>4. QED BY <1>11, <2>3 DEF TypeOK, RecordCall
<1>12. ASSUME NEW c \in Calls, Respond(c) PROVE TypeOK'
  <2>1. UNCHANGED <<enabled, closed, wrapper, fallible, pc, payload, drained,
                    answer, up, wire, count, records, crashes, ran, outcome,
                    era>>
    BY <1>12 DEF Respond
  <2>2. handler' \in [Calls -> HandlerStates]
    <3>1. \E v \in HandlerStates : handler' = [handler EXCEPT ![c] = v]
      BY <1>12 DEF TypeOK, Respond
    <3>2. QED BY <3>1 DEF TypeOK
  <2>3. reply' \in [Calls -> Replies]
    <3>1. \E v \in Replies : reply' = [reply EXCEPT ![c] = v]
      BY <1>12 DEF TypeOK, Respond, CallInv, OnePlace, Outcomes
    <3>2. QED BY <3>1 DEF TypeOK
  <2>4. QED BY <2>1, <2>2, <2>3 DEF TypeOK
<1>13. ASSUME Crash PROVE TypeOK'
  <2>1. UNCHANGED <<enabled, closed, wrapper, fallible, pc, payload, drained,
                    answer, reply, count, records, ran, outcome, era>>
    BY <1>13 DEF Crash
  <2>2. up' \in BOOLEAN
    BY <1>13 DEF TypeOK, Crash
  <2>3. crashes' \in 0..MaxCrashes
    BY <1>13, LiftedCallAssumption DEF TypeOK, Crash
  <2>4. wire' \subseteq Calls
    BY <1>13 DEF TypeOK, Crash
  <2>5. handler' \in [Calls -> HandlerStates]
    BY <1>13 DEF TypeOK, Crash
  <2>6. QED BY <2>1, <2>2, <2>3, <2>4, <2>5 DEF TypeOK
<1>14. ASSUME Start PROVE TypeOK'
  BY <1>14 DEF TypeOK, Start
<1>15. CASE UNCHANGED vars
  BY <1>15 DEF TypeOK, vars
<1>16. QED
  BY <1>1, <1>2, <1>3, <1>4, <1>5, <1>6, <1>7, <1>8, <1>9, <1>10, <1>11, <1>12,
     <1>13, <1>14, <1>15 DEF Next, StubStep, ServerStep

\* One step keeps OnePlace, LocalLast and Traced of every call.
LEMMA CallStep == LiftedCallInv /\ [Next]_vars => CallInv'
<1> SUFFICES ASSUME TypeOK, CallInv, [Next]_vars, NEW d \in Calls
             PROVE  (OnePlace(d) /\ LocalLast(d) /\ Traced(d))'
  BY DEF LiftedCallInv, CallInv
<1>0. OnePlace(d) /\ LocalLast(d) /\ Traced(d)
  BY DEF CallInv
<1> USE DEF Goto, Answering, Handling, Replying, outside, inHost, config, client,
            recorder, OnePlace, LocalLast, Traced
<1>1. ASSUME NEW c \in Calls, NEW p \in Payloads, Invoke(c, p)
       PROVE  (OnePlace(d) /\ LocalLast(d) /\ Traced(d))'
  BY <1>0, <1>1 DEF TypeOK, Invoke
<1>2. ASSUME NEW c \in Calls, Extract(c)
       PROVE  (OnePlace(d) /\ LocalLast(d) /\ Traced(d))'
  BY <1>0, <1>2 DEF TypeOK, Extract
<1>3. ASSUME NEW c \in Calls, Encode(c)
       PROVE  (OnePlace(d) /\ LocalLast(d) /\ Traced(d))'
  BY <1>0, <1>3 DEF TypeOK, Encode
<1>4. ASSUME NEW c \in Calls, Post(c)
       PROVE  (OnePlace(d) /\ LocalLast(d) /\ Traced(d))'
  BY <1>0, <1>4 DEF TypeOK, Post
<1>5. ASSUME NEW c \in Calls, GiveUp(c)
       PROVE  (OnePlace(d) /\ LocalLast(d) /\ Traced(d))'
  BY <1>0, <1>5 DEF TypeOK, GiveUp
<1>6. ASSUME NEW c \in Calls, Receive(c)
       PROVE  (OnePlace(d) /\ LocalLast(d) /\ Traced(d))'
  BY <1>0, <1>6 DEF TypeOK, Receive
<1>7. ASSUME NEW c \in Calls, Fail(c)
       PROVE  (OnePlace(d) /\ LocalLast(d) /\ Traced(d))'
  BY <1>0, <1>7 DEF TypeOK, Fail
<1>8. ASSUME NEW c \in Calls, RunLocal(c)
       PROVE  (OnePlace(d) /\ LocalLast(d) /\ Traced(d))'
  BY <1>0, <1>8 DEF TypeOK, RunLocal
<1>9. ASSUME NEW c \in Calls, Accept(c)
       PROVE  (OnePlace(d) /\ LocalLast(d) /\ Traced(d))'
  BY <1>0, <1>9 DEF TypeOK, Accept
<1>10. ASSUME NEW c \in Calls, NEW o \in Outcomes, Execute(c, o)
       PROVE  (OnePlace(d) /\ LocalLast(d) /\ Traced(d))'
  <2>1. /\ ran[c] \in [remote : Nat, local : Nat] /\ ran[c].remote = 0
        /\ ran' = [ran EXCEPT ![c].remote = @ + 1]
    BY <1>10 DEF TypeOK, Execute, CallInv
  <2>2. /\ ran'[d].local = ran[d].local
        /\ ran'[d].remote = IF d = c THEN 1 ELSE ran[d].remote
    BY <2>1 DEF TypeOK
  <2>3. OnePlace(d)'
    BY <1>0, <1>10, <2>2 DEF TypeOK, Execute, CallInv
  <2>4. LocalLast(d)'
    BY <1>0, <1>10, <2>2 DEF TypeOK, Execute
  <2>5. Traced(d)'
    BY <1>0, <1>10, <2>2 DEF TypeOK, Execute, CallInv
  <2>6. QED BY <2>3, <2>4, <2>5
<1>11. ASSUME NEW c \in Calls, RecordCall(c)
       PROVE  (OnePlace(d) /\ LocalLast(d) /\ Traced(d))'
  BY <1>0, <1>11 DEF TypeOK, RecordCall
<1>12. ASSUME NEW c \in Calls, Respond(c)
       PROVE  (OnePlace(d) /\ LocalLast(d) /\ Traced(d))'
  BY <1>0, <1>12 DEF TypeOK, Respond
<1>13. ASSUME Crash PROVE (OnePlace(d) /\ LocalLast(d) /\ Traced(d))'
  BY <1>0, <1>13 DEF TypeOK, Crash
<1>14. ASSUME Start PROVE (OnePlace(d) /\ LocalLast(d) /\ Traced(d))'
  BY <1>0, <1>14 DEF TypeOK, Start
<1>15. CASE UNCHANGED vars
  BY <1>0, <1>15 DEF vars
<1>16. QED
  BY <1>1, <1>2, <1>3, <1>4, <1>5, <1>6, <1>7, <1>8, <1>9, <1>10, <1>11, <1>12,
     <1>13, <1>14, <1>15 DEF Next, StubStep, ServerStep

-------------------------------------------------------------------------------
\* Types, the place of every request and the trace of every answer are kept by
\* every step of the stub, the server and the network.
THEOREM LiftedCallInvariant == Spec => []LiftedCallInv
<1>1. LiftedCallInv /\ [Next]_vars => LiftedCallInv'
  BY TypeStep, CallStep DEF LiftedCallInv
<1>2. QED BY InitInv, <1>1, PTL DEF Spec

\* The state of the model stays within its types.
THEOREM TypeCorrect == Spec => []TypeOK
<1>1. LiftedCallInv => TypeOK
  BY DEF LiftedCallInv
<1>2. QED BY LiftedCallInvariant, <1>1, PTL

\* A fail-closed call runs at most once, and never in the host.
THEOREM ClosedRunsOnce == Spec => []AtMostOnceClosed
<1>1. LiftedCallInv => AtMostOnceClosed
  BY DEF LiftedCallInv, CallInv, OnePlace, LocalLast, AtMostOnceClosed
<1>2. QED BY LiftedCallInvariant, <1>1, PTL

\* A fail-open call runs at most once on each side, and the caller has the
\* answer of the local run when there was one.
THEOREM OpenRunsTwiceAtMost == Spec => []TwiceAtMostOpen
<1>1. LiftedCallInv => TwiceAtMostOpen
  BY DEF LiftedCallInv, CallInv, OnePlace, LocalLast, TwiceAtMostOpen
<1>2. QED BY LiftedCallInvariant, <1>1, PTL

\* A caller is only ever given the outcome of its own call's execution.
THEOREM AnswersEarned == Spec => []AnswersAreEarned
<1>1. LiftedCallInv => AnswersAreEarned
  BY DEF LiftedCallInv, TypeOK, CallInv, OnePlace, LocalLast, Traced,
         AnswersAreEarned
<1>2. QED BY LiftedCallInvariant, <1>1, PTL

-------------------------------------------------------------------------------
\* A step other than RecordCall and Start leaves the recorder alone.
LEMMA RecorderSteps ==
    ASSUME [Next]_vars
    PROVE  \/ UNCHANGED <<count, records, era>> /\ (up' => up) /\ UNCHANGED crashes
           \/ Crash
           \/ Start
           \/ \E c \in Calls : RecordCall(c)
<1> USE DEF outside, inHost, config, client, recorder
<1>1. ASSUME NEW c \in Calls, NEW p \in Payloads, Invoke(c, p)
      PROVE  UNCHANGED <<count, records, era, up, crashes>>
  BY <1>1 DEF Invoke
<1>2. ASSUME NEW c \in Calls, StubStep(c)
      PROVE  UNCHANGED <<count, records, era, up, crashes>>
  BY <1>2 DEF StubStep, Extract, Encode, Post, GiveUp, Receive, Fail, RunLocal
<1>3. ASSUME NEW c \in Calls, ServerStep(c), ~RecordCall(c)
      PROVE  UNCHANGED <<count, records, era, up, crashes>>
  BY <1>3 DEF ServerStep, Accept, Execute, Respond
<1>4. CASE UNCHANGED vars
  BY <1>4 DEF vars
<1>5. QED BY <1>1, <1>2, <1>3, <1>4 DEF Next

\* /invocations always serves the last HistoryLimit invocations of the process,
\* without a gap and ending at the count.
THEOREM HistoryIsWindow == Spec => []HistoryIsLastWindow
<1>1. Init => HistoryIsLastWindow
  BY LiftedCallAssumption DEF Init, HistoryIsLastWindow
<1>2. LiftedCallInv /\ HistoryIsLastWindow /\ [Next]_vars => HistoryIsLastWindow'
  <2> SUFFICES ASSUME LiftedCallInv, HistoryIsLastWindow, [Next]_vars
               PROVE  HistoryIsLastWindow'
    OBVIOUS
  <2>1. CASE UNCHANGED <<count, records, era>> /\ (up' => up)
    BY <2>1 DEF HistoryIsLastWindow
  <2>2. CASE Crash
    BY <2>2 DEF Crash, HistoryIsLastWindow
  <2>3. CASE Start
    BY <2>3, LiftedCallAssumption DEF Start, HistoryIsLastWindow
  <2>4. ASSUME NEW c \in Calls, RecordCall(c)
        PROVE  HistoryIsLastWindow'
    <3> DEFINE entry == [id |-> count + 1, call |-> c]
               longer == Append(records, entry)
    <3>1. /\ up /\ count \in Nat /\ records \in Seq([id : Nat, call : Calls])
      BY <2>4 DEF RecordCall, LiftedCallInv, CallInv, OnePlace, TypeOK
    <3>2. /\ Len(records) = IF count < HistoryLimit THEN count ELSE HistoryLimit
          /\ \A i \in 1..Len(records) : records[i].id = count - Len(records) + i
      BY <3>1 DEF HistoryIsLastWindow
    <3>3. entry \in [id : Nat, call : Calls]
      BY <3>1
    <3>4. /\ longer \in Seq([id : Nat, call : Calls])
          /\ Len(longer) = Len(records) + 1
          /\ \A i \in 1..Len(records) : longer[i] = records[i]
          /\ longer[Len(records) + 1] = entry
      BY <3>1, <3>3, AppendProperties
    <3> HIDE DEF entry, longer
    <3>5. ASSUME NEW i \in 1..Len(longer)
          PROVE  longer[i].id = count + 1 - Len(longer) + i
      <4>1. Len(records) \in Nat /\ entry.id = count + 1
        BY <3>1 DEF entry
      <4>2. CASE i = Len(records) + 1
        BY <3>1, <3>4, <4>1, <4>2
      <4>3. CASE i # Len(records) + 1
        <5>1. i \in 1..Len(records) /\ longer[i] = records[i]
          BY <3>4, <4>1, <4>3
        <5>2. QED BY <3>1, <3>2, <3>4, <4>1, <5>1
      <4>4. QED BY <4>2, <4>3
    <3>6. records' = Window(longer) /\ count' = count + 1
      BY <2>4 DEF RecordCall, recorder, entry, longer
    <3>7. /\ Len(records') = IF Len(longer) < HistoryLimit THEN Len(longer) ELSE HistoryLimit
          /\ \A i \in 1..Len(records') :
                 records'[i] = longer[Len(longer) - Len(records') + i]
          /\ records' \in Seq([id : Nat, call : Calls])
      BY <3>4, <3>6, WindowKeepsLast
    <3>8. Len(records') = IF count' < HistoryLimit THEN count' ELSE HistoryLimit
      BY <3>1, <3>2, <3>4, <3>6, <3>7, LiftedCallAssumption
    <3>9. ASSUME NEW i \in 1..Len(records')
          PROVE  records'[i].id = count' - Len(records') + i
      <4>1. /\ Len(records') \in Nat /\ Len(longer) \in Nat
            /\ Len(longer) - Len(records') + i \in 1..Len(longer)
        BY <3>4, <3>7, LiftedCallAssumption
      <4>2. longer[Len(longer) - Len(records') + i].id
               = count + 1 - Len(longer) + (Len(longer) - Len(records') + i)
        BY <3>5, <4>1
      <4>3. records'[i].id = longer[Len(longer) - Len(records') + i].id
        BY <3>7
      <4>4. QED BY <3>1, <3>6, <4>1, <4>2, <4>3
    <3>10. QED BY <3>7, <3>8, <3>9 DEF HistoryIsLastWindow
  <2>5. QED BY <2>1, <2>2, <2>3, <2>4, RecorderSteps
<1>3. QED BY <1>1, <1>2, LiftedCallInvariant, PTL DEF Spec

\* /calls is exact, and what a caller holds has been counted.
THEOREM AnswersCounted == Spec => []AnswersAreCounted
<1> DEFINE Exact == up => count = Cardinality(Recorded)
<1>1. Init => Exact
  <2>1. ASSUME Init PROVE Recorded = {} /\ count = 0
    BY <2>1 DEF Init, Recorded
  <2>2. QED BY <2>1, FS_EmptySet
<1>2. LiftedCallInv /\ Exact /\ [Next]_vars => Exact'
  <2> SUFFICES ASSUME LiftedCallInv, Exact, [Next]_vars PROVE Exact'
    OBVIOUS
  <2>1. CASE UNCHANGED <<count, records, era>> /\ (up' => up) /\ UNCHANGED crashes
    BY <2>1 DEF Recorded
  <2>2. CASE Crash
    BY <2>2 DEF Crash
  <2>3. CASE Start
    <3>1. Recorded' = {}
      BY <2>3 DEF Start, Recorded, LiftedCallInv, TypeOK, CallInv, Traced
    <3>2. QED BY <2>3, <3>1, FS_EmptySet DEF Start
  <2>4. ASSUME NEW c \in Calls, RecordCall(c) PROVE Exact'
    <3>1. /\ up /\ era[c] = -1 /\ crashes \in Nat
          /\ era' = [era EXCEPT ![c] = crashes] /\ UNCHANGED crashes
          /\ count' = count + 1
      BY <2>4 DEF RecordCall, LiftedCallInv, TypeOK, CallInv, OnePlace, Traced
    <3>2. c \notin Recorded /\ Recorded' = Recorded \cup {c}
      BY <3>1 DEF Recorded, LiftedCallInv, TypeOK
    <3>3. IsFiniteSet(Recorded)
      BY LiftedCallAssumption, FS_Subset DEF Recorded
    <3>4. QED BY <3>1, <3>2, <3>3, FS_AddElement
  <2>5. QED BY <2>1, <2>2, <2>3, <2>4, RecorderSteps
<1>3. LiftedCallInv /\ Exact => AnswersAreCounted
  BY DEF AnswersAreCounted, LiftedCallInv, CallInv, Traced
<1>4. QED BY <1>1, <1>2, <1>3, LiftedCallInvariant, PTL DEF Spec

-----------------------------------------------------------------------------
(* Delegation: for every pragma, environment and set of usages.  Fresh     *)
(* relates what the deciders see to what the files said last: it is        *)
(* inductive together with the types.                                      *)

\* A reading that waits to be stored is the last one, and a failed reading has
\* left the last one cached.  Without a waiting reading they are the same.
Fresh ==
    \A m \in Metrics :
        /\ ~Unstored(m) => usage[m] = last[m]
        /\ Unstored(m) => last[m] = Stored(m)

DelegationInv == MonitorTypeOK /\ Fresh

LEMMA MonitorInvInit == ASSUME MonitorInit PROVE DelegationInv
<1>1. MonitorTypeOK
  BY UsagesAssumption DEF MonitorInit, MonitorTypeOK
<1>2. \A m \in Metrics : ~Unstored(m) /\ usage[m] = last[m]
  BY DEF MonitorInit, Unstored
<1>3. QED BY <1>1, <1>2 DEF DelegationInv, Fresh

\* A usage is no error.
LEMMA UsageIsNoError == Failed \notin Usages
BY UsagesAssumption DEF Failed

\* Steps of the environment, the ticker and the delegate.
LEMMA InvOthers ==
    ASSUME DelegationInv,
           \/ Tick \/ PollAgain \/ StopPolling \/ Close
           \/ LoadChanges \/ BreakOrMend \/ Route \/ Answer \/ UNCHANGED monitorVars
    PROVE  DelegationInv'
<1>1. MonitorTypeOK'
  <2> USE DEF DelegationInv, MonitorTypeOK
  <2>1. CASE LoadChanges
    BY <2>1 DEF LoadChanges
  <2>2. CASE BreakOrMend
    BY <2>2 DEF BreakOrMend
  <2>3. CASE Tick \/ PollAgain \/ StopPolling \/ Close
    BY <2>3 DEF Tick, PollAgain, StopPolling, Close, Environment
  <2>4. CASE Route \/ Answer \/ UNCHANGED monitorVars
    BY <2>4 DEF Route, Answer, monitorVars
  <2>5. QED BY <2>1, <2>2, <2>3, <2>4
<1>2. /\ UNCHANGED <<reading, usage, last>>
      /\ \A m \in Metrics : Unstored(m)' <=> Unstored(m)
  BY DEF Tick, PollAgain, StopPolling, Close, LoadChanges, BreakOrMend, Route, Answer,
     Environment, monitorVars, Unstored
<1>3. \A m \in Metrics : Stored(m)' = Stored(m)
  BY <1>2 DEF Stored
<1>4. QED BY <1>1, <1>2, <1>3 DEF DelegationInv, Fresh

LEMMA InvBeginSample ==
    ASSUME DelegationInv, BeginSample
    PROVE  DelegationInv'
<1>1. PICK u \in Usages \cup {Failed} :
        /\ reading' = [reading EXCEPT !["CPU"] = u]
        /\ poller' \in {"mem", "sample"}
        /\ poller' = "mem" => u = Failed
  BY DEF BeginSample, DelegationInv, MonitorTypeOK, Metrics
<1>2. UNCHANGED <<usage, hasPolled, tick, last, load, broken, cancelled, call>>
  BY DEF BeginSample, Environment
<1>3. reading' \in [Metrics -> Usages \cup {Failed}] /\ reading'["CPU"] = u
  BY <1>1 DEF DelegationInv, MonitorTypeOK, Metrics
<1>4. MonitorTypeOK'
  BY <1>1, <1>2, <1>3 DEF DelegationInv, MonitorTypeOK
<1>5. \A m \in Metrics : usage[m] = last[m]
  BY DEF DelegationInv, Fresh, Unstored, BeginSample
<1>6. \A m \in Metrics : Unstored(m)' => m = "CPU" /\ u = Failed
  BY <1>1 DEF Unstored
<1>7. \A m \in Metrics : Unstored(m)' => Stored(m)' = usage[m]
  BY <1>2, <1>3, <1>6 DEF Stored
<1>8. QED BY <1>2, <1>4, <1>5, <1>7 DEF DelegationInv, Fresh

LEMMA InvEndSample ==
    ASSUME DelegationInv, EndSample
    PROVE  DelegationInv'
<1>1. PICK u \in Usages \cup {Failed} :
        /\ reading' = [reading EXCEPT !["CPU"] = u]
        /\ last' = IF u = Failed THEN last ELSE [last EXCEPT !["CPU"] = u]
  BY DEF EndSample, DelegationInv, MonitorTypeOK, Metrics
<1>2. poller = "sample" /\ poller' = "mem"
      /\ UNCHANGED <<usage, hasPolled, tick, load, broken, cancelled, call>>
  BY DEF EndSample, Environment
<1>3. reading' \in [Metrics -> Usages \cup {Failed}] /\ reading'["CPU"] = u
  BY <1>1 DEF DelegationInv, MonitorTypeOK, Metrics
<1>4. /\ last' \in [Metrics -> Usages \cup {0}]
      /\ last'["MEM"] = last["MEM"]
      /\ last'["CPU"] = IF u = Failed THEN last["CPU"] ELSE u
  BY <1>1 DEF DelegationInv, MonitorTypeOK, Metrics
<1>5. MonitorTypeOK'
  BY <1>2, <1>3, <1>4 DEF DelegationInv, MonitorTypeOK
<1>6. \A m \in Metrics : usage[m] = last[m]
  BY <1>2 DEF DelegationInv, Fresh, Unstored
<1>7. \A m \in Metrics : Unstored(m)' <=> m = "CPU"
  BY <1>2 DEF Unstored
<1>8. "CPU" \in Metrics /\ Stored("CPU")' = last'["CPU"]
  BY <1>2, <1>3, <1>4, <1>6 DEF Stored, Metrics
<1>9. \A m \in Metrics : m # "CPU" => usage'[m] = last'[m]
  BY <1>2, <1>4, <1>6 DEF Metrics
<1>10. QED BY <1>5, <1>7, <1>8, <1>9 DEF DelegationInv, Fresh

LEMMA InvReadMemory ==
    ASSUME DelegationInv, ReadMemory
    PROVE  DelegationInv'
<1>1. PICK u \in Usages \cup {Failed} :
        /\ reading' = [reading EXCEPT !["MEM"] = u]
        /\ last' = IF u = Failed THEN last ELSE [last EXCEPT !["MEM"] = u]
  <2>1. load["MEM"] \in Usages
    BY DEF DelegationInv, MonitorTypeOK, Metrics
  <2>2. QED BY <2>1, UsageIsNoError DEF ReadMemory
<1>2. poller = "mem" /\ poller' = "store"
      /\ UNCHANGED <<usage, hasPolled, tick, load, broken, cancelled, call>>
  BY DEF ReadMemory, Environment
<1>3. /\ reading' \in [Metrics -> Usages \cup {Failed}]
      /\ reading'["MEM"] = u /\ reading'["CPU"] = reading["CPU"]
  BY <1>1 DEF DelegationInv, MonitorTypeOK, Metrics
<1>4. /\ last' \in [Metrics -> Usages \cup {0}]
      /\ last'["CPU"] = last["CPU"]
      /\ last'["MEM"] = IF u = Failed THEN last["MEM"] ELSE u
  BY <1>1 DEF DelegationInv, MonitorTypeOK, Metrics
<1>5. MonitorTypeOK'
  BY <1>2, <1>3, <1>4 DEF DelegationInv, MonitorTypeOK
<1>6. usage["MEM"] = last["MEM"] /\ last["CPU"] = Stored("CPU")
  BY <1>2 DEF DelegationInv, Fresh, Unstored, Metrics
<1>7. Stored("CPU")' = last'["CPU"] /\ Stored("MEM")' = last'["MEM"]
  BY <1>2, <1>3, <1>4, <1>6 DEF Stored
<1>8. \A m \in Metrics : Unstored(m)' /\ Stored(m)' = last'[m]
  BY <1>2, <1>7 DEF Unstored, Metrics
<1>9. QED BY <1>5, <1>8 DEF DelegationInv, Fresh

LEMMA InvStoreUsage ==
    ASSUME DelegationInv, StoreUsage
    PROVE  DelegationInv'
<1>1. poller = "store" /\ poller' = "select"
      /\ UNCHANGED <<reading, tick, last, load, broken, cancelled, call>>
  BY DEF StoreUsage, Environment
<1>2. \A m \in Metrics : Stored(m) = last[m]
  BY <1>1 DEF DelegationInv, Fresh, Unstored
<1>3. usage' = [m \in Metrics |-> last[m]]
  BY <1>2 DEF StoreUsage
<1>4. usage' \in [Metrics -> Usages \cup {0}] /\ hasPolled' \in BOOLEAN
  BY <1>3 DEF DelegationInv, MonitorTypeOK, StoreUsage
<1>5. MonitorTypeOK'
  BY <1>1, <1>4 DEF DelegationInv, MonitorTypeOK
<1>6. \A m \in Metrics : ~Unstored(m)' /\ usage'[m] = last'[m]
  BY <1>1, <1>3 DEF Unstored
<1>7. QED BY <1>5, <1>6 DEF DelegationInv, Fresh

\* What the monitor caches, and the types, hold in every reachable state.
THEOREM DelegationInvariant == MonitorSpec => []DelegationInv
<1>1. MonitorInit => DelegationInv
  BY MonitorInvInit
<1>2. DelegationInv /\ [MonitorNext]_monitorVars => DelegationInv'
  BY InvOthers, InvBeginSample, InvEndSample, InvReadMemory, InvStoreUsage
  DEF MonitorNext, PollStep
<1>3. QED BY <1>1, <1>2, PTL DEF MonitorSpec

\* The values of the monitor's state are well-formed.
THEOREM MonitorTypeCorrect == MonitorSpec => []MonitorTypeOK
<1>1. DelegationInv => MonitorTypeOK
  BY DEF DelegationInv
<1>2. QED BY <1>1, DelegationInvariant, PTL

\* Only a call that is routed becomes one to the remote service.
LEMMA EarnedStep ==
    ASSUME DelegationInv, [MonitorNext]_monitorVars, call = "none", call' = "remote"
    PROVE  /\ input.limits[Attrs.trigger] > 0
           /\ Exceeds(Attrs.trigger, last[Attrs.trigger]) \/ Unstored(Attrs.trigger)
<1>1. Route /\ ShouldDelegate
  <2>1. Route
    BY DEF MonitorNext, PollStep, BeginSample, EndSample, ReadMemory, StoreUsage, Tick, PollAgain,
       StopPolling, Close, LoadChanges, BreakOrMend, Answer, Environment, monitorVars
  <2>2. QED BY <2>1 DEF Route
<1>2. Attrs.trigger \in Metrics /\ Exceeds(Attrs.trigger, usage[Attrs.trigger])
  BY <1>1 DEF ShouldDelegate, Accepted
<1>3. CASE ~Unstored(Attrs.trigger)
  BY <1>2, <1>3 DEF DelegationInv, Fresh, Exceeds
<1>4. CASE Unstored(Attrs.trigger)
  BY <1>2, <1>4 DEF Exceeds
<1>5. QED BY <1>3, <1>4

\* A call is delegated only when the last usage read of the metric the pragma
\* names exceeds its threshold, whatever is read, fails and changes.
THEOREM DelegationEarned == MonitorSpec => DelegationIsEarned
<1>1. DelegationInv /\ [MonitorNext]_monitorVars =>
        [call = "none" /\ call' = "remote" =>
            /\ input.limits[Attrs.trigger] > 0
            /\ Exceeds(Attrs.trigger, last[Attrs.trigger]) \/ Unstored(Attrs.trigger)]_monitorVars
  BY EarnedStep
<1>2. QED BY <1>1, DelegationInvariant, PTL DEF MonitorSpec, DelegationIsEarned
================================================================================
