----------------------------- MODULE SupplyChain -----------------------------
(***************************************************************************)
(* What `make release-check' proves about one image.  Its gates find the   *)
(* image by a tag that anybody may move, leave their evidence in files     *)
(* with fixed names, and read pins from files that may be edited meanwhile; *)
(* a scanner outlives the docker client that timed out.                    *)
(*                                                                         *)
(* Makefile (build to release-bundle), image_audit.py, generate_sbom.py,   *)
(* check_sbom.py, vuln_scan.py, check_trivy_report.py,                     *)
(* patch_lifecycle_check.py and prepare_release_bundle.py.                 *)
(***************************************************************************)
EXTENDS DebianVersion

CONSTANTS
  Pins,        \* what Dockerfile and runtime-patches.lock may say
  Disclosures, \* vulnerabilities that the database may come to know
  Compared,    \* the version strings whose order is compared
  MaxImages,   \* bound: images that are built
  MaxMakes,    \* bound: goals that are made
  MaxEvents    \* bound: retags, edits, disclosures and misbehaved scanners

\* Strings of printable characters, the empty one for a version that is missing.
ASSUME PinsAssumption ==
  \A p \in Pins : p.base \in Seq(Characters) /\ p.patched \in Seq(Characters)

ASSUME ComparedAssumption == Compared \subseteq Seq(Characters)

VARIABLES
  pins,      \* Dockerfile: base, overlay; lock: patched, recorded
  database,  \* the vulnerabilities that Trivy knows of in the images
  images,    \* (history) every image there has been, in order
  tag,       \* what maops-docker-platform:VERSION names
  archive,   \* what docker save has put into the archive of a scan
  sbom,      \* artifacts/sbom
  report,    \* artifacts/security
  bundle,    \* release-bundle
  late,      \* scanners that go on after their client has given up
  goal,      \* the make goal
  gate,      \* which of its gates is next
  status,    \* "idle", "running", "green" or "red"
  pinned,    \* what image_audit has read of the pins
  audited,   \* (history) the images that audit, smoke, security-check looked at
  disturbed, \* (history) what happened to this make from outside
  makes,
  events

vars == <<pins, database, images, tag, archive, sbom, report, bundle, late,
          goal, gate, status, pinned, audited, disturbed, makes, events>>

NoImage == [n |-> 0, base |-> <<>>, libssl |-> <<>>]
NoFile  == [is |-> "nothing"]
Broken  == [is |-> "broken"]
SbomOf(image)       == [is |-> "sbom", of |-> image]
ReportOf(image, vs) == [is |-> "report", of |-> image, found |-> vs]
BundleOf(s, r)      == [is |-> "bundle", sbom |-> s, report |-> r]

\* The prerequisites of each goal in make's order; audit and scans step by step.
Gates == [g \in {"build", "supply-chain-check", "release-bundle", "release-check"} |->
  CASE g = "build"              -> <<"build">>
    [] g = "supply-chain-check" ->
         << "sbom-save", "sbom-scan", "sbom-check",
            "vuln-save", "vuln-scan", "vuln-policy" >>
    [] g = "release-bundle"     -> <<"bundle">>
    [] g = "release-check"      ->
         << "quality", "build", "audit-pins", "audit-base", "audit-libssl",
            "smoke", "security", "compose", "reproducibility",
            "sbom-save", "sbom-scan", "sbom-check",
            "vuln-save", "vuln-scan", "vuln-policy", "patch", "bundle" >>]

Init ==
  /\ pins \in Pins
  /\ database \in SUBSET Disclosures
  /\ images = <<>> /\ tag = NoImage /\ archive = NoImage
  /\ sbom = NoFile /\ report = NoFile /\ bundle = NoFile
  /\ late = {}
  /\ goal = "build" /\ gate = 1 /\ status = "idle"
  /\ pinned = pins /\ audited = {} /\ disturbed = {}
  /\ makes = 0 /\ events = 0

(***************************************************************************)
(* make                                                                    *)
(***************************************************************************)
Make(g) ==
  /\ status # "running" /\ makes < MaxMakes
  /\ goal' = g /\ gate' = 1 /\ status' = "running"
  /\ audited' = {} /\ disturbed' = {}
  /\ makes' = makes + 1
  /\ UNCHANGED <<pins, database, images, tag, archive, sbom, report, bundle,
                 late, pinned, events>>

AtGate(name) == status = "running" /\ Gates[goal][gate] = name

\* Exit 0: on to the next gate, or green.
Passed ==
  /\ IF gate = Len(Gates[goal]) THEN status' = "green" /\ UNCHANGED gate
                                ELSE gate' = gate + 1 /\ UNCHANGED status
  /\ UNCHANGED <<pins, database, late, goal, disturbed, makes, events>>

\* Any other exit ends the make.
Failed ==
  /\ status' = "red"
  /\ UNCHANGED <<pins, database, late, goal, gate, disturbed, makes, events>>

\* docker load, and `up' for a service whose image is missing, put the new
\* image under the release tag.
Builds ==
  LET image == [ n |-> Len(images) + 1, base |-> pins.base, libssl |-> pins.overlay ]
  IN  /\ Len(images) < MaxImages
      /\ images' = Append(images, image)
      /\ tag' = image

\* dockerfile-check: what the Dockerfile fetches is what the lock says (URL and
\* digest, which stand for a version); any other static check may fail.
Quality ==
  /\ AtGate("quality")
  /\ (pins.overlay = pins.patched /\ Passed) \/ Failed
  /\ UNCHANGED <<images, tag, archive, sbom, report, bundle, pinned, audited>>

Build ==
  /\ AtGate("build")
  /\ \/ Builds /\ Passed
     \/ Failed /\ UNCHANGED <<images, tag>>
  /\ UNCHANGED <<archive, sbom, report, bundle, pinned, audited>>

\* image-audit starts: the lock file, and the base that the Dockerfile names.
AuditPins ==
  /\ AtGate("audit-pins")
  /\ (pinned' = pins /\ Passed) \/ (UNCHANGED pinned /\ Failed)
  /\ UNCHANGED <<images, tag, archive, sbom, report, bundle, audited>>

\* A gate resolves the tag, and looks at the image that it names then.
Looks ==
  /\ tag # NoImage
  /\ audited' = audited \cup {tag}
  /\ Passed

\* Mutant: any layers will do, as before the check was made to compare them.
AuditBaseTautological ==
  /\ AtGate("audit-base")
  /\ Looks \/ (UNCHANGED audited /\ Failed)
  /\ UNCHANGED <<images, tag, archive, sbom, report, bundle, pinned>>

\* check_final_base_is_approved_distroless: the layers begin with the base's.
AuditBase ==
  /\ AtGate("audit-base")
  /\ \/ tag.base = pinned.base /\ Looks
     \/ UNCHANGED audited /\ Failed
  /\ UNCHANGED <<images, tag, archive, sbom, report, bundle, pinned>>

\* start_container resolves the tag again: the library in the container is the
\* lock's.  A failed check ends the audit red whichever of them it was.
AuditLibssl ==
  /\ AtGate("audit-libssl")
  /\ \/ tag.libssl = pinned.patched /\ Looks
     \/ UNCHANGED audited /\ Failed
  /\ UNCHANGED <<images, tag, archive, sbom, report, bundle, pinned>>

\* smoke and security-check, each with containers of what the tag names now; one
\* look stands for the several of each.
Containers ==
  /\ AtGate("smoke") \/ AtGate("security")
  /\ Looks \/ (UNCHANGED audited /\ Failed)
  /\ UNCHANGED <<images, tag, archive, sbom, report, bundle, pinned>>

\* compose-test and reliability-check: `up' builds what is not there.
ComposeUp ==
  /\ AtGate("compose")
  /\ \/ /\ IF tag = NoImage THEN Builds ELSE UNCHANGED <<images, tag>>
        /\ Passed
     \/ Failed /\ UNCHANGED <<images, tag>>
  /\ UNCHANGED <<archive, sbom, report, bundle, pinned, audited>>

\* Mutant: the second build is loaded under the release tag.
ReproducibilityUnderTag ==
  /\ AtGate("reproducibility")
  /\ \/ Builds /\ Passed
     \/ Failed /\ UNCHANGED <<images, tag>>
  /\ UNCHANGED <<archive, sbom, report, bundle, pinned, audited>>

\* Two builds under tags of their own.
Reproducibility ==
  /\ AtGate("reproducibility")
  /\ Passed \/ Failed
  /\ UNCHANGED <<images, tag, archive, sbom, report, bundle, pinned, audited>>

\* docker_save: by tag.
Save ==
  /\ AtGate("sbom-save") \/ AtGate("vuln-save")
  /\ \/ tag # NoImage /\ archive' = tag /\ Passed
     \/ Failed /\ UNCHANGED archive
  /\ UNCHANGED <<images, tag, sbom, report, bundle, pinned, audited>>

\* run_syft: it writes the file and exits 0, or fails over half a file.
SbomScan ==
  /\ AtGate("sbom-scan")
  /\ \/ sbom' = SbomOf(archive) /\ Passed
     \/ sbom' \in {sbom, Broken} /\ Failed
  /\ UNCHANGED <<images, tag, archive, report, bundle, pinned, audited>>

\* run_trivy: what it finds is what the database knows today.
VulnScan ==
  /\ AtGate("vuln-scan")
  /\ \/ report' = ReportOf(archive, database) /\ Passed
     \/ report' \in {report, Broken} /\ Failed
  /\ UNCHANGED <<images, tag, archive, sbom, bundle, pinned, audited>>

\* Exit 0 without a file: is_file() then sees an earlier run's.
SilentScan ==
  /\ events < MaxEvents /\ events' = events + 1
  /\ \/ AtGate("sbom-scan") /\ sbom # NoFile
     \/ AtGate("vuln-scan") /\ report # NoFile
  /\ gate' = gate + 1
  /\ disturbed' = disturbed \cup {"silent"}
  /\ UNCHANGED <<pins, database, images, tag, archive, sbom, report, bundle,
                 late, goal, status, pinned, audited, makes>>

\* subprocess.TimeoutExpired, which is no VulnScanError, ends the script; the
\* container goes on.
ScanTimesOut ==
  /\ events < MaxEvents /\ events' = events + 1
  /\ AtGate("sbom-scan") \/ AtGate("vuln-scan")
  /\ status' = "red"
  /\ late' = late \cup {[at |-> Gates[goal][gate], image |-> archive]}
  /\ UNCHANGED <<pins, database, images, tag, archive, sbom, report, bundle,
                 goal, gate, pinned, audited, disturbed, makes>>

\* Mutant: any SBOM of a Syft will do.
CheckSbomLoose == sbom.is = "sbom"

\* check_sbom: readable, and with the library that the lock says.
CheckSbom == sbom.is = "sbom" /\ sbom.of.libssl = pins.patched

SbomCheck ==
  /\ AtGate("sbom-check")
  /\ IF CheckSbom THEN Passed ELSE Failed
  /\ UNCHANGED <<images, tag, archive, sbom, report, bundle, pinned, audited>>

\* Mutant: what has no fix blocks nothing, whatever its severity.
EvaluatePolicyFixable(found) ==
  \A v \in found : ~v.fixed \/ v.severity \notin {"CRITICAL", "HIGH"}

\* evaluate_policy
EvaluatePolicy(found) ==
  \A v \in found : /\ v.severity # "CRITICAL"
                   /\ ~(v.severity = "HIGH" /\ v.fixed)

\* validate_report (any image that was saved by the tag carries it) and the
\* policy, on the file that is there now.
VulnPolicy ==
  /\ AtGate("vuln-policy")
  /\ IF report.is = "report" /\ EvaluatePolicy(report.found) THEN Passed ELSE Failed
  /\ UNCHANGED <<images, tag, archive, sbom, report, bundle, pinned, audited>>

\* classify_patch_lifecycle; a base that shows no version is <<>>.
Classify(base, patched, recorded) ==
  IF base = <<>> \/ ~WellFormed(base) \/ ~WellFormed(patched) THEN "C-INDETERMINATE"
  ELSE IF ~IsOlder(base, patched) THEN "B-REDUNDANT"
  ELSE IF base # recorded THEN "D-METADATA-DRIFT"
  ELSE "A-REQUIRED"

\* main: the base that the Dockerfile names now, pulled by its digest, or
\* nothing if docker fails.
PatchLifecycle ==
  /\ AtGate("patch")
  /\ \E base \in {pins.base, <<>>} :
       IF Classify(base, pins.patched, pins.recorded) = "A-REQUIRED"
       THEN Passed ELSE Failed
  /\ UNCHANGED <<images, tag, archive, sbom, report, bundle, pinned, audited>>

\* prepare_release_bundle: wiped, staged from whatever is there, hashed.
ReleaseBundle ==
  /\ AtGate("bundle")
  /\ \/ /\ NoFile \notin {sbom, report}
        /\ bundle' = BundleOf(sbom, report)
        /\ Passed
     \/ bundle' \in {NoFile, Broken} /\ Failed
  /\ UNCHANGED <<images, tag, archive, sbom, report, pinned, audited>>

(***************************************************************************)
(* Everybody else                                                          *)
(***************************************************************************)
Outside(what) ==
  /\ events < MaxEvents /\ events' = events + 1
  /\ disturbed' = disturbed \cup {what}
  /\ UNCHANGED <<archive, bundle, goal, gate, status, pinned, audited,
                 makes>>

\* docker tag, docker rmi, or a build in another terminal.
Retag ==
  /\ Outside("retag")
  /\ \/ tag' \in (ToSet(images) \cup {NoImage}) \ {tag} /\ UNCHANGED images
     \/ Builds
  /\ UNCHANGED <<pins, database, sbom, report, late>>

Edit ==
  /\ Outside("edit")
  /\ pins' \in Pins \ {pins}
  /\ UNCHANGED <<database, images, tag, sbom, report, late>>

Disclose ==
  /\ Outside("disclosure")
  /\ \E v \in Disclosures \ database : database' = database \cup {v}
  /\ UNCHANGED <<pins, images, tag, sbom, report, late>>

\* A scanner of an earlier make ends.
LateWrite ==
  /\ \E scanner \in late :
       /\ late' = late \ {scanner}
       /\ IF scanner.at = "sbom-scan"
          THEN sbom' = SbomOf(scanner.image) /\ UNCHANGED report
          ELSE report' = ReportOf(scanner.image, database) /\ UNCHANGED sbom
  /\ disturbed' = disturbed \cup {"late"}
  /\ UNCHANGED <<pins, database, images, tag, archive, bundle, goal, gate,
                 status, pinned, audited, makes, events>>

Gate ==
  \/ Quality \/ Build \/ AuditPins \/ AuditBase \/ AuditLibssl \/ Containers
  \/ ComposeUp \/ Reproducibility
  \/ Save \/ SbomScan \/ SbomCheck \/ VulnScan \/ VulnPolicy
  \/ PatchLifecycle \/ ReleaseBundle

Next ==
  \/ \E g \in DOMAIN Gates : Make(g)
  \/ Gate
  \/ SilentScan \/ ScanTimesOut
  \/ Retag \/ Edit \/ Disclose \/ LateWrite

Spec == Init /\ [][Next]_vars

(***************************************************************************)
(* Properties                                                              *)
(***************************************************************************)
TypeOK ==
  /\ {pins, pinned} \subseteq Pins /\ database \subseteq Disclosures
  /\ tag \in {NoImage} \cup ToSet(images)
  /\ goal \in DOMAIN Gates /\ gate \in DOMAIN Gates[goal]
  /\ status \in {"idle", "running", "green", "red"}
  /\ sbom.is \in {"nothing", "broken", "sbom"}
  /\ report.is \in {"nothing", "broken", "report"}
  /\ bundle.is \in {"nothing", "broken", "bundle"}

Green(g) == status = "green" /\ goal = g

\* A green release-check is about one image from its build to the release
\* bundle, although nothing but a tag and two file names says so: only a tag
\* moved meanwhile, a scanner left over from an earlier make, or one that
\* writes nothing can bring in another (Makefile: release-check).
GreenIsOneImage ==
  Green("release-check") /\ {"retag", "late", "silent"} \cap disturbed = {}
  => /\ tag = images[Len(images)] /\ audited = {tag}
     /\ bundle = BundleOf(sbom, report)
     /\ sbom.of = tag /\ report.of = tag

\* Whatever the tag did, and whatever was disclosed: the release bundle holds an
\* SBOM and a report that went through their checks, unless a left-over scanner
\* wrote over them or the lock was edited (docs/supply-chain.md: any CRITICAL,
\* and any HIGH with a fix, blocks).
BundleIsChecked ==
  Green("release-check") /\ {"late", "edit"} \cap disturbed = {}
  => /\ bundle.sbom.is = "sbom" /\ bundle.sbom.of.libssl = pins.patched
     /\ bundle.report.is = "report"
     /\ ~(\E v \in bundle.report.found :
            v.severity = "CRITICAL" \/ (v.severity = "HIGH" /\ v.fixed))

\* The overlay never takes the runtime back, in the order of Debian Policy, unless
\* Dockerfile or lock were edited while the gates ran or a left-over scanner wrote.
\* Whatever the tag did, the bundled SBOM's library is newer than the pinned base's.
\* The base of the bundled image itself is another matter, for image_audit finds
\* the image by its tag once for the base and once more for the library: it is
\* older than the library if the bundle is about the one image that every gate
\* looked at (patch_lifecycle_check.py: the exit condition of the overlay).
NeverDowngrades ==
  Green("release-check") /\ {"late", "edit"} \cap disturbed = {}
  => /\ OlderByPolicy(pins.base, bundle.sbom.of.libssl)
     /\ \A image \in {bundle.sbom.of, bundle.report.of} :
          audited = {image} => OlderByPolicy(image.base, image.libssl)

\* compare_debian_versions is the order of Debian Policy: on every pair of
\* well-formed versions of a bounded length (asked before any make only).
OrderIsDebians ==
  makes = 0 /\ events = 0 /\ database = {}
  => \A a, b \in {v \in Compared : WellFormed(v)} :
       /\ (Compare(a, b) < 0) = OlderByPolicy(a, b)
       /\ (Compare(a, b) > 0) = OlderByPolicy(b, a)
=============================================================================
