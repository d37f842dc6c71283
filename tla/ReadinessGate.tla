--------------------------- MODULE ReadinessGate ----------------------------
(***************************************************************************)
(* The production readiness gate (operations/readiness/gate.py): controls  *)
(* that are evaluated against evidence files, and signed manifests of them.*)
(* An evidence file changes at any time and is read by evaluate_control    *)
(* only, so its content is chosen there; its digest is that content.  A    *)
(* manifest holds a copy of the controls; its hash is the canonical data   *)
(* that was hashed, so that verifying it compares the two.                 *)
(*                                                                         *)
(* The audit emitter is given every event after the state it is about has  *)
(* changed; if it raises, the call fails but the change stands, so no      *)
(* outcome of its own is needed.                                           *)
(***************************************************************************)
EXTENDS Naturals, FiniteSets

CONSTANTS RgControls,    \* the canonical controls
          RgContents,    \* contents of evidence files
          RgNoContent,   \* no evidence
          RgIds          \* identifiers of manifests

ASSUME RgControlsAssumption == IsFiniteSet(RgControls)

VARIABLES rgControl,     \* _controls: status and digest of the evidence
          rgManifests,   \* issued manifests
          rgArchive,     \* manifests as archived on disk
          rgPassed       \* history: the digests that each control passed with

rgVars == <<rgControl, rgManifests, rgArchive, rgPassed>>

RgResults == [status : {"PLANNED", "BLOCKED", "PASS"}, digest : RgContents \cup {RgNoContent}]

RgHolds(result) == result.status = "PASS" /\ result.digest # RgNoContent

\* get_composite_verdict.
RgVerdict(controls) == \A c \in RgControls : RgHolds(controls[c])

\* The data that is hashed and signed: the counts, the verdict and every control.
RgCanonical(controls, passed, verdict) ==
    [controls |-> controls, passed |-> passed, verdict |-> verdict]

RgPassing(controls) == Cardinality({c \in RgControls : RgHolds(controls[c])})

RgSealed(m, controls) ==
    [id |-> m, controls |-> controls, passed |-> RgPassing(controls), verdict |-> RgVerdict(controls),
     hash |-> RgCanonical(controls, RgPassing(controls), RgVerdict(controls))]

\* verify_manifest_signature recomputes the data from the manifest itself.
RgVerifies(m) == m.hash = RgCanonical(m.controls, m.passed, m.verdict)

RgInit == /\ rgControl = [c \in RgControls |-> [status |-> "PLANNED", digest |-> RgNoContent]]
          /\ rgManifests = {}
          /\ rgArchive = {}
          /\ rgPassed = [c \in RgControls |-> {}]

\* The result of evaluating a control against a file with that content.
RgResult(content, passed) == [status |-> IF passed THEN "PASS" ELSE "BLOCKED", digest |-> content]

\* Mutant: the manifests refer to the controls of the service, which change under them.
RgEvaluateShared(c, content, passed) ==
    /\ rgControl' = [rgControl EXCEPT ![c] = RgResult(content, passed)]
    /\ rgManifests' = {[m EXCEPT !.controls = rgControl'] : m \in rgManifests}
    /\ rgPassed' = IF passed THEN [rgPassed EXCEPT ![c] = @ \cup {content}] ELSE rgPassed
    /\ UNCHANGED rgArchive

\* evaluate_control of a file that exists and has the expected digest, if one is given;
\* otherwise it raises and the result of the last evaluation stands.
RgEvaluate(c, content, passed) ==
    /\ rgControl' = [rgControl EXCEPT ![c] = RgResult(content, passed)]
    /\ rgPassed' = IF passed THEN [rgPassed EXCEPT ![c] = @ \cup {content}] ELSE rgPassed
    /\ UNCHANGED <<rgManifests, rgArchive>>

\* generate_gate_manifest, which with require_all_pass needs the verdict to be READY.
RgGenerate(m, requireAll) ==
    /\ \A issued \in rgManifests : issued.id # m
    /\ requireAll => RgVerdict(rgControl)
    /\ rgManifests' = rgManifests \cup {RgSealed(m, rgControl)}
    /\ UNCHANGED <<rgControl, rgArchive, rgPassed>>

\* archive_manifest writes the manifest as it is and makes the file read-only.
RgArchive(m) == /\ rgArchive' = rgArchive \cup {m}
                /\ UNCHANGED <<rgControl, rgManifests, rgPassed>>

RgNext == \/ \E c \in RgControls, content \in RgContents, p \in BOOLEAN : RgEvaluate(c, content, p)
          \/ \E id \in RgIds, all \in BOOLEAN : RgGenerate(id, all)
          \/ \E m \in rgManifests : RgArchive(m)

RgSpec == RgInit /\ [][RgNext]_rgVars

-----------------------------------------------------------------------------
RgTypeOK ==
    LET manifests == [id : RgIds, controls : [RgControls -> RgResults], passed : Nat, verdict : BOOLEAN,
                      hash : [controls : [RgControls -> RgResults], passed : Nat, verdict : BOOLEAN]]
    IN /\ rgControl \in [RgControls -> RgResults]
       /\ rgManifests \subseteq manifests
       /\ rgArchive \subseteq manifests
       /\ rgPassed \in [RgControls -> SUBSET RgContents]

\* A manifest stays what it was signed as while its controls are evaluated again: it verifies,
\* its verdict is READY only if each of its controls had passed with the very evidence it
\* names, and what is archived under its identifier is the same (gate.py:144-187, :189-328, :366-408).
RgManifestsStand ==
    /\ \A m \in rgManifests \cup rgArchive :
          /\ RgVerifies(m)
          /\ m.verdict => \A c \in RgControls : m.controls[c].digest \in rgPassed[c]
    /\ rgArchive \subseteq rgManifests
=============================================================================
