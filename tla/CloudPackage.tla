------------------------------ MODULE CloudPackage -----------------------------
(***************************************************************************)
(* The host packages (src/scripts/package_*_cloud.py, weight_pilot_package *)
(* and package_weight_corpus): what build, inspect and unpack insist on.   *)
(* An archive is the set of what is wrong with it; a plan is its numbers.  *)
(* A behaviour is about one study.                                         *)
(***************************************************************************)
EXTENDS Integers, FiniteSets

CONSTANTS Studies,   \* the scripts a behaviour may be about
          Plans,     \* execution plans a revision may hold
          Defects,   \* what may be wrong with the files given to build
          None

VARIABLES study,     \* the script this behaviour is about
          plan,      \* the plan in the revision that is packaged
          package    \* the archive, from the builder's disk to the machine's

PlanField == {"setup", "controller", "collection", "shutdown", "max", "study",
              "checker", "rate", "stated", "maximum", "archive", "billable",
              "chunk", "chunks", "objects", "output", "disk", "image",
              "setupReserve", "reserve"}

ASSUME PlansAssumption == Plans \subseteq [PlanField -> Nat]

BudgetStudies == {"zero4", "reasoner_study", "feral_coverage"}

--------------------------------------------------------------------------------
(* check_budget and check_storage                                           *)

\* The time a study's checker and its supervisor need after the study.
CheckerReserve(p) == IF study = "zero4" THEN 0 ELSE p.checker + 1

\* The stated ceilings are the arithmetic of the plan's own numbers: an hourly
\* rate over the whole instance and a price for every billable byte.
Costs(p) == p.max * p.rate + p.billable

CostsStated(p) == p.stated = Costs(p) /\ p.stated <= p.maximum

DeadlinesOrdered(p) ==
    /\ 0 < p.setup /\ p.setup < p.controller /\ p.controller < p.collection
    /\ p.collection < p.shutdown /\ p.shutdown < p.max
    /\ p.setup + p.study + CheckerReserve(p) <= p.controller

ObjectsFit(p) ==
    /\ p.archive <= p.chunk * p.chunks
    /\ p.chunks + 3 <= p.objects

CheckBudget(p) ==
    /\ p.billable >= p.archive + 1
    /\ CostsStated(p)
    /\ DeadlinesOrdered(p)
    /\ ObjectsFit(p)

\* Mutant: the upload's own copy of a part is forgotten.
WithoutPart(p) == p.output + p.archive + 1

\* What the study, its archive, one part of it and the host's logs may take.
Required(p) == p.output + p.archive + p.chunk + 1

CheckStorage(p) ==
    p.disk >= p.image + p.setupReserve + p.reserve + Required(p)

\* disk_receipt: the file system has the planned size and room for the run.
DiskPasses(p, total, free) ==
    total >= p.disk - p.reserve /\ free >= Required(p)

--------------------------------------------------------------------------------
(* What each script compares.                                               *)

Sealed   == {"truncated", "bytes", "member", "roster", "plan digest"}
Kit      == {"controller", "controller files"}
Prepared == {"prepared", "prepared manifest", "prepared files", "implementation",
             "preparation"}

\* weight's two packages hold an archive with a manifest of its own.
WeightKit == {"controller files", "source kit"}
PilotKit  == {"controller files", "source kit", "overlay", "inputs"}

Zero4Inspect    == Sealed \cup Kit \cup Prepared \cup {"namespace", "configuration"}
StudyInspect    == Sealed \cup Kit \cup Prepared \cup {"node"}
CoverageInspect == Sealed \cup Kit \cup Prepared \cup {"node", "source plan"}
SolomonInspect  == Sealed \cup Kit \cup {"dependencies", "lock"}
WeightInspect   == Sealed \cup {"controller"} \cup WeightKit
PilotInspect    == Sealed \cup {"controller"} \cup PilotKit
FeralInspect    == {"truncated", "bytes", "roster", "controller", "limits"}
ReasonerUnpack  == {"truncated", "member", "roster"}

Compared ==
    [zero4 |-> Zero4Inspect, reasoner_study |-> StudyInspect,
     feral_coverage |-> CoverageInspect, solomon |-> SolomonInspect,
     weight |-> WeightInspect, weight_pilot |-> PilotInspect,
     feral |-> FeralInspect, reasoner |-> ReasonerUnpack][study]

\* reasoner and feral look at the source archive when they build and at the
\* package when they unpack.
ReasonerBuild == {"controller", "controller files", "source commit"}
FeralBuild    == {"controller"}

BuildCompares ==
    CASE study = "reasoner" -> ReasonerBuild
      [] study = "feral"    -> FeralBuild
      [] OTHER              -> {}

PlanAccepted ==
    /\ study \in BudgetStudies => CheckBudget(plan)
    /\ study = "zero4" => CheckStorage(plan)

\* Mutant: the members are compared, the plan is not read.
InspectMembers(defects) == defects \cap Compared = {}

Inspect(defects) == defects \cap Compared = {} /\ PlanAccepted

--------------------------------------------------------------------------------
(* The builder: the archive is written first, inspected next, and its digest *)
(* recorded last.                                                           *)

NoPackage == [pc |-> "none", defects |-> {}]

PackageInit ==
    /\ study \in Studies
    /\ plan \in Plans
    /\ package = NoPackage

\* A file that is there already ends a build (mode 'x'); a kill leaves a
\* truncated file.
Build ==
    /\ package.pc = "none"
    /\ \E defects \in Defects, killed \in BOOLEAN :
          /\ defects \cap BuildCompares = {}
          /\ package' = [pc      |-> "written",
                         defects |-> defects \cup (IF killed THEN {"truncated"} ELSE {})]

\* inspect, and the record build prints; reasoner's and feral's build print
\* theirs as soon as the file is whole.
Record ==
    /\ package.pc = "written"
    /\ "truncated" \notin package.defects
    /\ study \in {"reasoner", "feral"} \/ Inspect(package.defects)
    /\ package' = [package EXCEPT !.pc = "recorded"]

\* The recorded archive is staged and fetched; bytes may change on the way.
Fetch ==
    /\ package.pc = "recorded"
    /\ \E changed \in SUBSET {"bytes"} :
          package' = [pc |-> "fetched", defects |-> package.defects \cup changed]

\* The host's script compares the digest before it unpacks anything.
Unpack ==
    /\ package.pc = "fetched"
    /\ package' = [package EXCEPT !.pc =
                      IF "bytes" \notin package.defects /\ Inspect(package.defects)
                      THEN "unpacked" ELSE "refused"]

Zero4Package    == study = "zero4" /\ (Build \/ Record \/ Unpack)
StudyPackage    == study = "reasoner_study" /\ (Build \/ Record \/ Unpack)
CoveragePackage == study = "feral_coverage" /\ (Build \/ Record \/ Unpack)
SolomonPackage  == study = "solomon" /\ (Build \/ Record \/ Unpack)
WeightPackage   == study = "weight" /\ (Build \/ Record \/ Unpack)
PilotPackage    == study = "weight_pilot" /\ (Build \/ Record \/ Unpack)
FeralPackage    == study = "feral" /\ (Build \/ Record \/ Unpack)
ReasonerPackage == study = "reasoner" /\ (Build \/ Record \/ Unpack)

Packaging ==
    \/ Zero4Package \/ StudyPackage \/ CoveragePackage \/ SolomonPackage
    \/ WeightPackage \/ PilotPackage \/ FeralPackage \/ ReasonerPackage
    \/ Fetch
================================================================================
