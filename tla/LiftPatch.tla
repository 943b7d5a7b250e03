------------------------------- MODULE LiftPatch ------------------------------
(***************************************************************************)
(* The compiler's host patcher (transport/emit/liftpatch/patcher.go): it   *)
(* prepends a prelude to the body of each lifted function and writes a     *)
(* generated sibling beside it.  PatchSymbolBody patches one free function *)
(* and records it in LIFTPATCH.json; PatchRegion patches several symbols   *)
(* after checking all of them.                                             *)
(*                                                                         *)
(* Files are written in place (os.WriteFile): a write that fails or is cut *)
(* short leaves a torn file, which the next attempt cannot parse.  Both    *)
(* operations may be called again on the tree an earlier attempt left.     *)
(***************************************************************************)
EXTENDS Naturals, FiniteSets

CONSTANTS
    Symbols,      \* the functions of the request
    Packages,     \* packages of the host, each with one file that may be patched
    MaxCalls      \* bound: attempts on one tree

ASSUME LiftPatchAssumption ==
    /\ IsFiniteSet(Symbols)
    /\ {"absent", "torn"} \cap Symbols = {}   \* values of record beside symbols
    /\ MaxCalls \in Nat

VARIABLES
    mode,       \* "symbol" or "region": applyHostPatchArtifact's routing
    site,       \* the package of each symbol
    guarded,    \* preludes start with "if <sentinel>"
    prefixed,   \* siblings declare names that start with monoliftLift
    prelude,    \* how many preludes each symbol's body starts with
    torn,       \* packages whose host file is torn
    sibling,    \* the generated file of each symbol
    record,     \* LIFTPATCH.json of each package
    stage,      \* control point of the running attempt
    asked,      \* symbols of the running attempt
    todo,       \* those whose current phase is not done
    verdict,    \* how the last attempt ended
    calls       \* attempts so far

setting == <<mode, site, guarded, prefixed>>
hostGo == <<prelude, torn>>
patchedTree == <<hostGo, sibling, record>>
request == <<asked, calls>>
patchVars == <<setting, patchedTree, stage, request, todo, verdict>>

None == "none"

PatchTypeOK ==
    /\ mode \in {"symbol", "region"}
    /\ site \in [Symbols -> Packages]
    /\ guarded \in BOOLEAN /\ prefixed \in BOOLEAN
    /\ prelude \in [Symbols -> 0..MaxCalls]
    /\ torn \in SUBSET Packages
    /\ sibling \in [Symbols -> {"absent", "torn", "whole"}]
    /\ record \in [Packages -> Symbols \cup {"absent", "torn"}]
    /\ stage \in {"idle", "check", "hosts", "siblings", "record"}
    /\ asked \in SUBSET Symbols /\ todo \in SUBSET asked
    /\ verdict \in {None, "patched", "already", "refused", "failed", "crashed"}
    /\ calls \in 0..MaxCalls

Touched == {site[s] : s \in asked}

\* parsePackageFiles reads every Go file of the package.
Parses(p) ==
    /\ p \notin torn
    /\ \A s \in Symbols : site[s] = p => sibling[s] # "torn"

\* scanCollisions
Collides(p) == prefixed /\ \E s \in Symbols : site[s] = p /\ sibling[s] = "whole"

\* isAlreadyApplied looks for the sentinel in the first statement.
AlreadyApplied(s) == guarded /\ prelude[s] > 0

-----------------------------------------------------------------------------
PatchInit ==
    /\ \/ mode = "symbol" /\ guarded = TRUE /\ prefixed = TRUE
       \/ mode = "region" /\ guarded \in BOOLEAN /\ prefixed \in BOOLEAN
    /\ site \in [Symbols -> Packages]
    /\ prelude = [s \in Symbols |-> 0]
    /\ torn = {}
    /\ sibling = [s \in Symbols |-> "absent"]
    /\ record = [p \in Packages |-> "absent"]
    /\ stage = "idle" /\ asked = {} /\ todo = {} /\ verdict = None
    /\ calls = 0

\* One symbol in symbol mode, the whole region otherwise.
Call ==
    /\ stage = "idle" /\ calls < MaxCalls
    /\ \/ mode = "region" /\ asked' = Symbols
       \/ mode = "symbol" /\ \E s \in Symbols : asked' = {s}
    /\ todo' = asked'
    /\ stage' = "check" /\ verdict' = None
    /\ calls' = calls + 1
    /\ UNCHANGED <<setting, patchedTree>>

EndPatch(how) == stage' = "idle" /\ verdict' = how

-----------------------------------------------------------------------------
\* The checks that come before any write.

\* A refusal for the target's own sake: not found, ambiguous, build tags,
\* receiver, generic, signature, naked return, or a file that does not parse.
RefusePatch ==
    /\ stage = "check"
    /\ EndPatch("refused")
    /\ UNCHANGED <<setting, patchedTree, request, todo>>

\* Mutant: a region, too, returns at once when all its symbols are patched.
ReportAnyApplied ==
    /\ stage = "check"
    /\ \A p \in Touched : Parses(p)
    /\ \A s \in asked : AlreadyApplied(s)
    /\ EndPatch("already")
    /\ UNCHANGED <<setting, patchedTree, request, todo>>

\* PatchSymbolBody reports success before it looks for collisions.
ReportAlreadyApplied ==
    /\ stage = "check" /\ mode = "symbol"
    /\ \A p \in Touched : Parses(p)
    /\ \A s \in asked : AlreadyApplied(s)
    /\ EndPatch("already")
    /\ UNCHANGED <<setting, patchedTree, request, todo>>

\* PatchRegion looks for collisions in every package first, and leaves
\* symbols that are already patched to the write phase.
AcceptPatch ==
    /\ stage = "check"
    /\ \A p \in Touched : Parses(p) /\ ~Collides(p)
    /\ mode = "symbol" => \A s \in asked : ~AlreadyApplied(s)
    /\ stage' = "hosts"
    /\ UNCHANGED <<setting, patchedTree, request, todo, verdict>>

-----------------------------------------------------------------------------
\* The writes.

SkipApplied(s) ==
    /\ stage = "hosts" /\ s \in todo
    /\ AlreadyApplied(s)
    /\ todo' = todo \ {s}
    /\ UNCHANGED <<setting, patchedTree, stage, request, verdict>>

PrependPrelude(s) ==
    /\ stage = "hosts" /\ s \in todo
    /\ ~AlreadyApplied(s)
    /\ prelude' = [prelude EXCEPT ![s] = @ + 1]
    /\ todo' = todo \ {s}
    /\ UNCHANGED <<setting, torn, sibling, record, stage, request, verdict>>

HostsDone ==
    /\ stage = "hosts" /\ todo = {}
    /\ stage' = "siblings" /\ todo' = asked
    /\ UNCHANGED <<setting, patchedTree, request, verdict>>

WriteSibling(s) ==
    /\ stage = "siblings" /\ s \in todo
    /\ sibling' = [sibling EXCEPT ![s] = "whole"]
    /\ todo' = todo \ {s}
    /\ UNCHANGED <<setting, hostGo, record, stage, request, verdict>>

\* Mutant: the record does not wait for the siblings.
SiblingsPromised ==
    /\ stage = "siblings"
    /\ IF mode = "symbol" THEN stage' = "record" /\ UNCHANGED verdict ELSE EndPatch("patched")
    /\ UNCHANGED <<setting, patchedTree, request, todo>>

\* Only PatchSymbolBody keeps a record.
SiblingsDone ==
    /\ stage = "siblings" /\ todo = {}
    /\ IF mode = "symbol" THEN stage' = "record" /\ UNCHANGED verdict ELSE EndPatch("patched")
    /\ UNCHANGED <<setting, patchedTree, request, todo>>

WriteRecord ==
    /\ stage = "record"
    /\ \E s \in asked : record' = [record EXCEPT ![site[s]] = s]
    /\ EndPatch("patched")
    /\ UNCHANGED <<setting, hostGo, sibling, request, todo>>

\* The file being written stays as it was, or is torn.
CutShort ==
    \/ UNCHANGED patchedTree
    \/ /\ stage = "hosts"
       /\ \E s \in todo : ~AlreadyApplied(s) /\ torn' = torn \cup {site[s]}
       /\ UNCHANGED <<prelude, sibling, record>>
    \/ /\ stage = "siblings"
       /\ \E s \in todo : sibling' = [sibling EXCEPT ![s] = "torn"]
       /\ UNCHANGED <<hostGo, record>>
    \/ /\ stage = "record"
       /\ record' = [p \in Packages |-> IF p \in Touched THEN "torn" ELSE record[p]]
       /\ UNCHANGED <<hostGo, sibling>>

FailPatch ==
    /\ stage \in {"hosts", "siblings", "record"}
    /\ CutShort /\ EndPatch("failed")
    /\ UNCHANGED <<setting, request, todo>>

CrashPatch ==
    /\ stage # "idle"
    /\ CutShort /\ EndPatch("crashed")
    /\ UNCHANGED <<setting, request, todo>>

PatchNext ==
    \/ Call \/ RefusePatch \/ ReportAlreadyApplied \/ AcceptPatch
    \/ \E s \in Symbols : SkipApplied(s) \/ PrependPrelude(s) \/ WriteSibling(s)
    \/ HostsDone \/ SiblingsDone \/ WriteRecord
    \/ FailPatch \/ CrashPatch

PatchSpec == PatchInit /\ [][PatchNext]_patchVars

-----------------------------------------------------------------------------
(* Properties *)

\* However often it is called and wherever it was interrupted, the patcher
\* never stacks a second guarded prelude on a function (isAlreadyApplied).
NeverStacked == guarded => \A s \in Symbols : prelude[s] <= 1

\* A region that reports success is complete, whatever earlier attempts left:
\* all its symbols are patched and all its siblings are whole.
RegionSuccessIsComplete ==
    mode = "region" /\ verdict \in {"patched", "already"} =>
        \A s \in asked : prelude[s] > 0 /\ sibling[s] = "whole" /\ Parses(site[s])

\* A record in LIFTPATCH.json is backed by the tree: its function is patched
\* and its sibling is whole, now and after any later attempt.
RecordIsBacked ==
    \A p \in Packages : \A s \in Symbols :
        record[p] = s => site[s] = p /\ prelude[s] = 1 /\ sibling[s] = "whole" /\ Parses(p)

=============================================================================
