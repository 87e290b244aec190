---------------------------- MODULE CloudHostProofs ----------------------------
(***************************************************************************)
(* Theorems about a study's machine, for any set of plans, any defects of  *)
(* its package and any time the commands between its bounded steps take:   *)
(* only a checked package runs, and the study, its collection, its bill    *)
(* and its disk keep what an accepted plan allows them.                    *)
(***************************************************************************)
EXTENDS CloudHost, TLAPS

\* What the proofs use of the shape of the state.
ShapeInv ==
    /\ plan \in Plans
    /\ now \in Nat
    /\ DOMAIN host = {"pc", "room"} /\ host.room \in Int
    /\ DOMAIN runtime = {"pc", "stopped", "soft", "code", "started"}
    /\ runtime.started \in Nat
    /\ DOMAIN disk = {"output", "archive", "part"}
    /\ disk.output \in Nat /\ disk.archive \in Nat /\ disk.part \in Nat

\* A package on its way has nothing wrong that its build compares, an unpacked
\* one nothing that its inspection compares.
PackageInv ==
    /\ DOMAIN package = {"pc", "defects"}
    /\ package.pc # "none" => package.defects \cap BuildCompares = {}
    /\ package.pc = "unpacked" => Inspect(package.defects)

\* Nothing but an unpacked package gets beyond the package step.
Beyond == {"image", "storage", "starting", "controller", "collecting"}
RunInv ==
    host.pc \in Beyond \/ runtime # Off => package.pc = "unpacked"

\* A step is ended at its deadline; nothing is started after the setup's.
TimeInv ==
    /\ now <= plan.shutdown
    /\ host.pc = "build" => now = 0
    /\ host.pc \in {"package", "image", "storage"} => now <= plan.setup
    /\ host.pc = "starting" => now <= plan.setup + Slack
    /\ runtime.started <= plan.setup + Slack
    /\ host.pc = "controller" => now <= plan.controller \/ now <= plan.setup + Slack
    /\ host.pc = "collecting" /\ study \in BudgetStudies => now <= plan.collection

\* What is on the disk stays within the plan's own numbers.
DiskInv ==
    /\ disk.output <= plan.output
    /\ disk.archive <= plan.archive
    /\ disk.part <= plan.chunk
    /\ host.room > 0 => Required(plan) <= host.room

IInv == ShapeInv /\ PackageInv /\ RunInv /\ TimeInv /\ DiskInv

--------------------------------------------------------------------------------
(* The plan.                                                                *)

LEMMA PlanTyped ==
    ASSUME plan \in Plans
    PROVE  /\ \A f \in PlanField : plan[f] \in Nat
           /\ plan.setup \in Nat /\ plan.controller \in Nat /\ plan.collection \in Nat
           /\ plan.shutdown \in Nat /\ plan.max \in Nat /\ plan.study \in Nat
           /\ plan.checker \in Nat /\ plan.rate \in Nat /\ plan.stated \in Nat
           /\ plan.maximum \in Nat /\ plan.archive \in Nat /\ plan.billable \in Nat
           /\ plan.chunk \in Nat /\ plan.output \in Nat
           /\ Slack \in Nat /\ plan.setup + Slack <= plan.collection
           /\ CheckerReserve(plan) \in Nat /\ Required(plan) \in Nat
  <1>1. \A f \in PlanField : plan[f] \in Nat
    BY PlansAssumption
  <1>2. /\ plan.setup \in Nat /\ plan.controller \in Nat /\ plan.collection \in Nat
        /\ plan.shutdown \in Nat /\ plan.max \in Nat /\ plan.study \in Nat
        /\ plan.checker \in Nat /\ plan.rate \in Nat /\ plan.stated \in Nat
        /\ plan.maximum \in Nat /\ plan.archive \in Nat /\ plan.billable \in Nat
        /\ plan.chunk \in Nat /\ plan.output \in Nat
    BY <1>1 DEF PlanField
  <1>3. CheckerReserve(plan) \in Nat /\ Required(plan) \in Nat
    BY <1>2 DEF CheckerReserve, Required
  <1> QED
    BY <1>1, <1>2, <1>3, HostAssumption

\* The bill so far is one of at most the time and the bytes that were priced.
LEMMA BillBounded ==
    ASSUME NEW t \in Nat, NEW m \in Nat, NEW r \in Nat, t <= m
    PROVE  t * r <= m * r
  <1>1. PICK d \in Nat : m = t + d
    <2>1. m - t \in Nat /\ m = t + (m - t)
      OBVIOUS
    <2> QED
      BY <2>1
  <1>2. m * r = t * r + d * r
    BY <1>1
  <1>3. d * r \in Nat /\ t * r \in Nat
    OBVIOUS
  <1> QED
    BY <1>2, <1>3

LEMMA NotCompared == "bytes" \notin BuildCompares /\ "truncated" \notin BuildCompares
  BY DEF BuildCompares, ReasonerBuild, FeralBuild

LEMMA AcceptedStands ==
    ASSUME study' = study, plan' = plan
    PROVE  /\ PlanAccepted' = PlanAccepted /\ BuildCompares' = BuildCompares
           /\ Compared' = Compared /\ Required(plan)' = Required(plan)
           /\ CheckerReserve(plan)' = CheckerReserve(plan)
  BY DEF PlanAccepted, BuildCompares, Compared, Required, CheckerReserve, CheckBudget,
       CheckStorage, CostsStated, Costs, DeadlinesOrdered, ObjectsFit, Zero4Inspect,
       StudyInspect, CoverageInspect, SolomonInspect, WeightInspect, PilotInspect,
       FeralInspect, ReasonerUnpack, ReasonerBuild, FeralBuild, Sealed, Kit, Prepared,
       WeightKit, PilotKit

\* The deadlines of an accepted plan.
LEMMA DeadlinesAre ==
    ASSUME plan \in Plans, PlanAccepted, study \in BudgetStudies
    PROVE  /\ plan.setup < plan.controller /\ plan.controller < plan.collection
           /\ plan.collection < plan.shutdown /\ plan.shutdown < plan.max
           /\ plan.setup + plan.study + CheckerReserve(plan) <= plan.controller
           /\ plan.max * plan.rate + plan.archive + 1 <= plan.maximum
  <1>1. CheckBudget(plan)
    BY DEF PlanAccepted
  <1>2. plan.max * plan.rate \in Nat
    BY PlanTyped
  <1>3. plan.max * plan.rate + plan.archive + 1 <= plan.maximum
    <2> DEFINE bill == plan.max * plan.rate
    <2>1. bill \in Nat /\ plan.billable \in Nat /\ plan.archive \in Nat /\ plan.maximum \in Nat
      BY <1>2, PlanTyped
    <2>2. bill + plan.billable <= plan.maximum /\ plan.billable >= plan.archive + 1
      BY <1>1 DEF CheckBudget, CostsStated, Costs
    <2> HIDE DEF bill
    <2>3. bill + plan.archive + 1 <= plan.maximum
      BY <2>1, <2>2
    <2> QED
      BY <2>3 DEF bill
  <1> QED
    BY <1>1, <1>3 DEF CheckBudget, DeadlinesOrdered

--------------------------------------------------------------------------------
(* Each kind of step keeps the invariant.                                   *)

LEMMA InitInv == Init => IInv
  <1> SUFFICES ASSUME Init PROVE IInv
    OBVIOUS
  <1> USE DEF Init, PackageInit
  <1>1. plan \in Plans /\ now = 0 /\ host.pc = "build" /\ host.room = 0 /\ runtime = Off
        /\ package.pc = "none" /\ disk.output = 0 /\ disk.archive = 0 /\ disk.part = 0
    BY DEF NoPackage
  <1>2. Off.pc = "off" /\ Off.started = 0
        /\ DOMAIN Off = {"pc", "stopped", "soft", "code", "started"}
    BY DEF Off
  <1>3. ShapeInv
    BY <1>1, <1>2 DEF ShapeInv
  <1>4. PackageInv /\ RunInv
    <2>1. DOMAIN package = {"pc", "defects"}
      BY DEF NoPackage
    <2> QED
      BY <1>1, <1>2, <2>1 DEF PackageInv, RunInv, Beyond
  <1>5. TimeInv /\ DiskInv
    BY <1>1, <1>2, PlanTyped DEF TimeInv, DiskInv
  <1> QED
    BY <1>3, <1>4, <1>5 DEF IInv

LEMMA TickStep ==
    ASSUME IInv, Tick
    PROVE  IInv'
  <1>1. /\ host.pc \notin {"build", "down"} /\ now < plan.shutdown
        /\ now < DeadlineOf(host.pc) /\ now' = now + 1
        /\ study' = study /\ plan' = plan /\ package' = package /\ host' = host
        /\ runtime' = runtime /\ disk' = disk
    BY DEF Tick
  <1>2. /\ plan.setup \in Nat /\ plan.controller \in Nat /\ plan.collection \in Nat
        /\ plan.shutdown \in Nat /\ Slack \in Nat /\ now \in Nat
    BY PlanTyped DEF IInv, ShapeInv
  <1>3. ShapeInv' /\ RunInv'
    BY <1>1, <1>2 DEF IInv, ShapeInv, RunInv
  <1>4. PackageInv' /\ DiskInv'
    BY <1>1, AcceptedStands DEF IInv, PackageInv, DiskInv, Inspect
  <1>5. TimeInv'
    BY <1>1, <1>2 DEF IInv, TimeInv, DeadlineOf
  <1> QED
    BY <1>3, <1>4, <1>5 DEF IInv

LEMMA PackagedStep ==
    ASSUME IInv, Packaged
    PROVE  IInv'
  <1>1. /\ Packaging
        /\ study' = study /\ plan' = plan /\ now' = now /\ runtime' = runtime /\ disk' = disk
        /\ host.pc = IF package.pc \in {"none", "written"} THEN "build" ELSE "package"
        /\ host' = [host EXCEPT !.pc = CASE package'.pc = "unpacked" -> "image"
                                     [] package'.pc = "refused"  -> "shutdown"
                                     [] OTHER                    -> @]
    BY DEF Packaged, steady
  <1>2. PackageInv /\ ShapeInv /\ RunInv /\ TimeInv /\ DiskInv
    BY DEF IInv
  <1>3. Build \/ Record \/ Fetch \/ Unpack
    BY <1>1 DEF Packaging, Zero4Package, StudyPackage, CoveragePackage, SolomonPackage,
         WeightPackage, PilotPackage, FeralPackage, ReasonerPackage
  <1>4. package.pc # "unpacked"
    BY <1>3 DEF Build, Record, Fetch, Unpack
  <1>5. PackageInv'
    <2>1. CASE Build
      <3>1. PICK defects \in Defects, killed \in BOOLEAN :
               /\ defects \cap BuildCompares = {}
               /\ package' = [pc |-> "written",
                         defects |-> defects \cup (IF killed THEN {"truncated"} ELSE {})]
        BY <2>1 DEF Build
      <3>2. package'.pc = "written" /\ package'.defects \cap BuildCompares = {}
            /\ DOMAIN package' = {"pc", "defects"}
        BY <3>1, NotCompared
      <3> QED
        BY <1>1, <3>2, AcceptedStands DEF PackageInv
    <2>2. CASE Record
      <3>1. package'.pc = "recorded" /\ package'.defects = package.defects
            /\ package.pc = "written" /\ DOMAIN package' = {"pc", "defects"}
        BY <1>2, <2>2 DEF Record, PackageInv
      <3> QED
        BY <1>1, <1>2, <3>1, AcceptedStands DEF PackageInv
    <2>3. CASE Fetch
      <3>1. PICK changed \in SUBSET {"bytes"} :
               package' = [pc |-> "fetched", defects |-> package.defects \cup changed]
        BY <2>3 DEF Fetch
      <3>2. package.pc = "recorded"
        BY <2>3 DEF Fetch
      <3>3. package'.pc = "fetched" /\ package'.defects \cap BuildCompares = {}
            /\ DOMAIN package' = {"pc", "defects"}
        BY <1>2, <3>1, <3>2, NotCompared DEF PackageInv
      <3> QED
        BY <1>1, <3>3, AcceptedStands DEF PackageInv
    <2>4. CASE Unpack
      <3>1. /\ package.pc = "fetched" /\ package'.defects = package.defects
            /\ package'.pc = IF "bytes" \notin package.defects /\ Inspect(package.defects)
                             THEN "unpacked" ELSE "refused"
            /\ DOMAIN package' = {"pc", "defects"}
        BY <1>2, <2>4 DEF Unpack, PackageInv
      <3> QED
        BY <1>1, <1>2, <3>1, AcceptedStands DEF PackageInv, Inspect
    <2> QED
      BY <1>3, <2>1, <2>2, <2>3, <2>4
  <1>6. /\ package'.pc = "unpacked" => package.pc = "fetched"
        /\ package'.pc = "refused" => package.pc = "fetched"
    BY <1>2, <1>3 DEF Build, Record, Fetch, Unpack, PackageInv
  <1>7. /\ DOMAIN host' = {"pc", "room"} /\ host'.room = host.room
        /\ \/ host'.pc = "image" /\ package'.pc = "unpacked" /\ host.pc = "package"
           \/ host'.pc = "shutdown"
           \/ host'.pc = host.pc /\ host.pc \in {"build", "package"}
    BY <1>1, <1>2, <1>6 DEF ShapeInv
  <1>8. ShapeInv'
    BY <1>1, <1>2, <1>7 DEF ShapeInv
  <1>9. RunInv'
    BY <1>1, <1>2, <1>4, <1>7 DEF RunInv, Beyond
  <1>10. TimeInv' /\ DiskInv'
    BY <1>1, <1>2, <1>7, AcceptedStands DEF TimeInv, DiskInv
  <1> QED
    BY <1>5, <1>8, <1>9, <1>10 DEF IInv

LEMMA OffAgain == [Off EXCEPT !.pc = "off"] = Off
  <1>1. ASSUME NEW F, NEW N
        PROVE  LET o == [pc |-> "off", stopped |-> F, soft |-> F, code |-> N, started |-> 0]
               IN  [o EXCEPT !.pc = "off"] = o
    OBVIOUS
  <1> QED
    BY <1>1 DEF Off

\* The other steps of the script leave the package alone.
LEMMA ScriptStep ==
    ASSUME IInv, Boot \/ Image \/ Storage \/ Start \/ StepFails \/ Killed \/ Exited \/ Shutdown
    PROVE  IInv'
  <1>1. PackageInv /\ ShapeInv /\ RunInv /\ TimeInv /\ DiskInv
    BY DEF IInv
  <1>2. /\ study' = study /\ plan' = plan /\ now' = now /\ package' = package /\ disk' = disk
    BY DEF Boot, Image, Storage, Start, StepFails, Killed, Exited, Shutdown, steady
  <1>3. PackageInv'
    BY <1>1, <1>2, AcceptedStands DEF PackageInv, Inspect
  <1>4. /\ plan.setup \in Nat /\ plan.controller \in Nat /\ plan.collection \in Nat
        /\ plan.shutdown \in Nat /\ Slack \in Nat /\ now \in Nat
        /\ plan.setup + Slack <= plan.collection
    BY <1>1, PlanTyped DEF ShapeInv
  <1>5. host.pc = "controller" /\ study \in BudgetStudies => now <= plan.collection
    BY <1>1, <1>4, DeadlinesAre DEF RunInv, Beyond, TimeInv, ShapeInv, PackageInv, Inspect
  <1> DEFINE Scripted == /\ DOMAIN host' = {"pc", "room"} /\ host'.room \in Int
                         /\ (host'.room > 0 => host'.room = host.room \/ Required(plan) <= host'.room)
                         /\ \/ host.pc = "build" /\ host'.pc = "package"
                            \/ host.pc = "image" /\ host'.pc \in {"storage", "starting"}
                            \/ host.pc = "storage" /\ host'.pc \in {"starting", "collecting"}
                            \/ host.pc \in {"image", "storage", "starting"} /\ host'.pc = "collecting"
                            \/ host.pc = "controller" /\ host'.pc = "collecting"
                            \/ host'.pc \in {"shutdown", "down"}
  <1>6. ASSUME runtime' = runtime, Scripted
        PROVE  IInv'
    <2>1. ShapeInv'
      BY <1>1, <1>2, <1>6 DEF ShapeInv
    <2>2. RunInv'
      BY <1>1, <1>2, <1>6 DEF RunInv, Beyond
    <2>3. TimeInv'
      BY <1>1, <1>2, <1>4, <1>5, <1>6 DEF TimeInv
    <2>4. DiskInv'
      BY <1>1, <1>2, <1>6, AcceptedStands DEF DiskInv
    <2> QED
      BY <1>3, <2>1, <2>2, <2>3, <2>4 DEF IInv
  <1>7. ASSUME runtime' = [runtime EXCEPT !.pc = "off"],
               runtime # Off, Scripted
        PROVE  IInv'
    <2>1. /\ DOMAIN runtime' = {"pc", "stopped", "soft", "code", "started"}
          /\ runtime'.started = runtime.started /\ runtime'.pc = "off"
      BY <1>1, <1>7 DEF ShapeInv
    <2>2. ShapeInv'
      BY <1>1, <1>2, <1>7, <2>1 DEF ShapeInv
    <2>3. RunInv'
      BY <1>1, <1>2, <1>7, <2>1 DEF RunInv, Beyond
    <2>4. TimeInv'
      BY <1>1, <1>2, <1>4, <1>5, <1>7, <2>1 DEF TimeInv
    <2>5. DiskInv'
      BY <1>1, <1>2, <1>7, AcceptedStands DEF DiskInv
    <2> QED
      BY <1>3, <2>2, <2>3, <2>4, <2>5 DEF IInv
  <1> HIDE DEF Scripted
  <1> DEFINE Moved(to) == host' = [host EXCEPT !.pc = to]
  <1>8. ASSUME NEW to, Moved(to)
        PROVE  DOMAIN host' = {"pc", "room"} /\ host'.pc = to /\ host'.room = host.room
               /\ host'.room \in Int
    BY <1>1, <1>8 DEF ShapeInv
  <1> HIDE DEF Moved
  <1>9. CASE Boot
    <2>1. host.pc = "build" /\ Moved("package") /\ runtime' = runtime
      BY <1>9 DEF Boot, Phase, steady, Moved
    <2> QED
      BY <2>1, <1>8, <1>6 DEF Scripted
  <1>10. CASE Image
    <2>1. PICK to \in {"storage", "starting"} : Moved(to)
      BY <1>10 DEF Image, Phase, Moved
    <2>2. host.pc = "image" /\ runtime' = runtime
      BY <1>10 DEF Image, Phase, steady
    <2>3. host'.pc \in {"storage", "starting"}
      BY <2>1, <1>8
    <2> QED
      BY <2>1, <2>2, <2>3, <1>8, <1>6 DEF Scripted
  <1>11. CASE Storage
    <2>1. PICK total \in {plan.disk - plan.reserve - 1, plan.disk - plan.reserve, plan.disk},
               used \in {plan.image, plan.image + plan.setupReserve,
                         plan.image + plan.setupReserve + 1} :
             host' = [pc |-> IF DiskPasses(plan, total, total - used)
                             THEN "starting" ELSE "collecting",
                      room |-> IF DiskPasses(plan, total, total - used)
                               THEN total - used ELSE 0]
      BY <1>11 DEF Storage
    <2>2. host.pc = "storage" /\ runtime' = runtime
      BY <1>11 DEF Storage, steady
    <2>3. total - used \in Int /\ Required(plan) \in Nat
      <3>1. plan.disk \in Nat /\ plan.reserve \in Nat /\ plan.image \in Nat
            /\ plan.setupReserve \in Nat
        BY <1>1, PlanTyped DEF ShapeInv, PlanField
      <3> QED
        BY <3>1, <1>1, PlanTyped DEF ShapeInv
    <2>4. DiskPasses(plan, total, total - used) => Required(plan) <= total - used
      BY <2>3 DEF DiskPasses
    <2>5. host'.pc \in {"starting", "collecting"} /\ host'.room \in Int
          /\ (host'.room > 0 => Required(plan) <= host'.room)
      BY <2>1, <2>3, <2>4
    <2>6. DOMAIN host' = {"pc", "room"}
      BY <2>1
    <2> QED
      BY <2>2, <2>5, <2>6, <1>6 DEF Scripted
  <1>12. CASE Start
    <2>1. host.pc = "starting" /\ Moved("controller")
          /\ runtime' = [Off EXCEPT !.pc = "identity", !.started = now]
      BY <1>12 DEF Start, Phase, Moved
    <2>2. /\ DOMAIN runtime' = {"pc", "stopped", "soft", "code", "started"}
          /\ runtime'.pc = "identity" /\ runtime'.started = now
      BY <2>1 DEF Off
    <2>3. Off.pc = "off"
      BY DEF Off
    <2>4. DOMAIN host' = {"pc", "room"} /\ host'.pc = "controller"
          /\ host'.room = host.room /\ host'.room \in Int
      BY <2>1, <1>8
    <2>5. ShapeInv'
      BY <1>1, <1>2, <2>2, <2>4 DEF ShapeInv
    <2>6. RunInv'
      BY <1>1, <1>2, <2>1, <2>2, <2>3, <2>4 DEF RunInv, Beyond
    <2>7. TimeInv'
      BY <1>1, <1>2, <1>4, <2>1, <2>2, <2>4 DEF TimeInv
    <2>8. DiskInv'
      BY <1>1, <1>2, <2>4, AcceptedStands DEF DiskInv
    <2> QED
      BY <1>3, <2>5, <2>6, <2>7, <2>8 DEF IInv
  <1>13. CASE StepFails
    <2>1. \/ Moved("shutdown")
          \/ host.pc \in {"image", "storage", "starting"} /\ Moved("collecting")
      BY <1>13 DEF StepFails, Phase, Moved
    <2>2. runtime' = runtime
      BY <1>13 DEF StepFails, steady
    <2> QED
      BY <2>1, <2>2, <1>8, <1>6 DEF Scripted
  <1>14. CASE Killed \/ Exited
    <2>1. /\ host.pc = "controller" /\ Moved("collecting")
          /\ runtime' = [runtime EXCEPT !.pc = "off"] /\ runtime.pc # "off"
      BY <1>14 DEF Killed, Exited, Phase, Moved
    <2>2. runtime # Off
      BY <2>1 DEF Off
    <2> QED
      BY <2>1, <2>2, <1>8, <1>7 DEF Scripted
  <1>15. CASE Shutdown
    <2>1. Moved("down") /\ runtime' = [runtime EXCEPT !.pc = "off"]
      BY <1>15 DEF Shutdown, Moved
    <2>2. CASE runtime = Off
      <3>1. runtime' = runtime
        BY <2>1, <2>2, OffAgain
      <3> QED
        BY <2>1, <3>1, <1>8, <1>6 DEF Scripted
    <2>3. CASE runtime # Off
      BY <2>1, <2>3, <1>8, <1>7 DEF Scripted
    <2> QED
      BY <2>2, <2>3
  <1> QED
    BY <1>9, <1>10, <1>11, <1>12, <1>13, <1>14, <1>15

LEMMA CollectStep ==
    ASSUME IInv, Collect
    PROVE  IInv'
  <1>1. PackageInv /\ ShapeInv /\ RunInv /\ TimeInv /\ DiskInv
    BY DEF IInv
  <1>2. /\ host.pc = "collecting" /\ study' = study /\ plan' = plan /\ now' = now
        /\ package' = package /\ runtime' = runtime
    BY DEF Collect
  <1>3. plan.archive \in Nat /\ plan.chunk \in Nat /\ Required(plan) \in Nat
    BY <1>1, PlanTyped DEF ShapeInv
  <1>4. PackageInv'
    BY <1>1, <1>2, AcceptedStands DEF PackageInv, Inspect
  <1>5. \/ host' = [host EXCEPT !.pc = "shutdown"] /\ disk' = disk
        \/ /\ host' = host
           /\ \/ \E n \in 1 .. plan.archive : disk' = [disk EXCEPT !.archive = n]
              \/ disk' = [disk EXCEPT !.part = IF disk.archive < plan.chunk
                                               THEN disk.archive ELSE plan.chunk]
              \/ disk' = [disk EXCEPT !.part = 0]
    BY DEF Collect
  <1>6. CASE host' = [host EXCEPT !.pc = "shutdown"] /\ disk' = disk
    <2>1. DOMAIN host' = {"pc", "room"} /\ host'.pc = "shutdown" /\ host'.room = host.room
      BY <1>1, <1>6 DEF ShapeInv
    <2>2. ShapeInv' /\ RunInv'
      BY <1>1, <1>2, <1>6, <2>1 DEF ShapeInv, RunInv, Beyond
    <2>3. TimeInv' /\ DiskInv'
      BY <1>1, <1>2, <1>6, <2>1, AcceptedStands DEF TimeInv, DiskInv
    <2> QED
      BY <1>4, <2>2, <2>3 DEF IInv
  <1>7. CASE /\ host' = host
             /\ \/ \E n \in 1 .. plan.archive : disk' = [disk EXCEPT !.archive = n]
                \/ disk' = [disk EXCEPT !.part = IF disk.archive < plan.chunk
                                                 THEN disk.archive ELSE plan.chunk]
                \/ disk' = [disk EXCEPT !.part = 0]
    <2>1. /\ DOMAIN disk' = {"output", "archive", "part"} /\ disk'.output = disk.output
          /\ disk'.archive \in Nat /\ disk'.archive <= plan.archive
          /\ disk'.part \in Nat /\ disk'.part <= plan.chunk
      BY <1>1, <1>3, <1>7 DEF ShapeInv, DiskInv
    <2>2. ShapeInv' /\ RunInv' /\ TimeInv'
      BY <1>1, <1>2, <1>7, <2>1 DEF ShapeInv, RunInv, TimeInv
    <2>3. DiskInv'
      BY <1>1, <1>2, <1>7, <2>1, AcceptedStands DEF DiskInv
    <2> QED
      BY <1>4, <2>2, <2>3 DEF IInv
  <1> QED
    BY <1>5, <1>6, <1>7

\* A process that runs stays the one that was started.
LEMMA RuntimeStep ==
    ASSUME IInv, Runtime
    PROVE  IInv'
  <1>1. PackageInv /\ ShapeInv /\ RunInv /\ TimeInv /\ DiskInv
    BY DEF IInv
  <1>2. /\ study' = study /\ plan' = plan /\ now' = now
        /\ package' = package /\ host' = host
    BY DEF Runtime, Identity, Assign, StudyWrites, StudyEnds, StudyReturned, Checked,
         Finally, Restore, SaveRuntime, Signal, quiet
  <1>3. runtime # Off
    <2>1. runtime.pc # "off"
      BY DEF Runtime, Identity, Assign, StudyWrites, StudyEnds, StudyReturned, Checked,
           Finally, Restore, SaveRuntime, Signal
    <2> QED
      BY <2>1 DEF Off
  <1>4. package.pc = "unpacked"
    BY <1>1, <1>3 DEF RunInv
  <1>5. runtime'.started = runtime.started
        /\ DOMAIN runtime' = {"pc", "stopped", "soft", "code", "started"}
    <2>1. CASE Identity \/ Assign \/ Finally \/ Restore \/ SaveRuntime \/ Checked
      BY <1>1, <2>1 DEF Identity, Assign, Finally, Restore, SaveRuntime, Checked, Go, ShapeInv
    <2>2. CASE StudyWrites
      BY <1>1, <2>2 DEF StudyWrites, ShapeInv
    <2>3. CASE StudyEnds
      BY <1>1, <2>3 DEF StudyEnds, ShapeInv
    <2>4. CASE StudyReturned
      <3> DEFINE soft == study \in {"reasoner_study", "feral_coverage"}
      <3>2. \/ runtime' = [runtime EXCEPT !.pc = "checking", !.soft = soft]
            \/ runtime' = [runtime EXCEPT !.pc = "failed"]
        BY <2>4 DEF StudyReturned
      <3> HIDE DEF soft
      <3> QED
        BY <1>1, <3>2 DEF ShapeInv
    <2>5. CASE Signal
      <3> DEFINE to == CASE runtime.soft                             -> runtime.pc
                     [] runtime.pc \in {"identity", "spawned", "returned", "complete"} -> "failed"
                     [] runtime.pc = "checking" /\ study = "zero4" -> "failed"
                     [] runtime.pc \in {"memory failed", "memory complete"} -> "over"
                     [] OTHER                                    -> runtime.pc
      <3>1. runtime' = [runtime EXCEPT !.stopped = TRUE, !.pc = to]
        BY <2>5 DEF Signal
      <3> HIDE DEF to
      <3> QED
        BY <1>1, <3>1 DEF ShapeInv
    <2> QED
      BY <2>1, <2>2, <2>3, <2>4, <2>5 DEF Runtime
  <1>6. /\ DOMAIN disk' = {"output", "archive", "part"}
        /\ disk'.output \in Nat /\ disk'.output <= plan.output
        /\ disk'.archive = disk.archive /\ disk'.part = disk.part
    <2>1. plan.output \in Nat
      BY <1>1, PlanTyped DEF ShapeInv
    <2>2. CASE StudyWrites
      BY <1>1, <2>1, <2>2 DEF StudyWrites, ShapeInv, DiskInv
    <2>3. CASE ~StudyWrites
      <3>1. disk' = disk
        BY <2>3 DEF Runtime, Identity, Assign, StudyEnds, StudyReturned, Checked,
             Finally, Restore, SaveRuntime, Signal
      <3> QED
        BY <1>1, <3>1 DEF ShapeInv, DiskInv
    <2> QED
      BY <2>2, <2>3
  <1>7. ShapeInv' /\ PackageInv'
    BY <1>1, <1>2, <1>5, <1>6, AcceptedStands DEF ShapeInv, PackageInv, Inspect
  <1>8. RunInv' /\ TimeInv'
    BY <1>1, <1>2, <1>4, <1>5 DEF RunInv, TimeInv
  <1>9. DiskInv'
    BY <1>1, <1>2, <1>6, AcceptedStands DEF DiskInv
  <1> QED
    BY <1>7, <1>8, <1>9 DEF IInv

LEMMA NextInv == IInv /\ [Next]_vars => IInv'
  <1> SUFFICES ASSUME IInv, [Next]_vars PROVE IInv'
    OBVIOUS
  <1>1. CASE UNCHANGED vars
    BY <1>1, AcceptedStands DEF vars, IInv, ShapeInv, PackageInv, RunInv, TimeInv, DiskInv, Inspect
  <1>2. CASE Machine
    BY <1>2, PackagedStep, ScriptStep, CollectStep DEF Machine
  <1>3. CASE Runtime
    BY <1>3, RuntimeStep
  <1>4. CASE Tick
    BY <1>4, TickStep
  <1> QED
    BY <1>1, <1>2, <1>3, <1>4 DEF Next, Zero4Runtime, StudyRuntime, CoverageRuntime,
         SolomonRuntime

--------------------------------------------------------------------------------
(* What the runs check.                                                     *)

\* For any plans, defects and slack: time never passes a step's own deadline, a
\* process stands for an unpacked package, and the disk holds what was planned.
THEOREM HostInductive == Spec => []IInv
  BY InitInv, NextInv, PTL DEF Spec

\* No machine ever runs, or unpacks, a package with a defect one of the two
\* ends compares, or one whose plan check_budget or check_storage refuses.
THEOREM RunsCheckedCorrect == Spec => []RunsWhatWasChecked
  <1>1. IInv => RunsWhatWasChecked
    BY DEF IInv, PackageInv, RunInv, RunsWhatWasChecked, Inspect
  <1> QED
    BY <1>1, HostInductive, PTL

\* A study is never stopped before its and its checker's allowance, nothing is
\* collected after its deadline, the bill stays below the approved maximum and a
\* checked disk is never filled.
THEOREM AllowancesCorrect == Spec => []AllowancesHold
  <1>1. IInv => AllowancesHold
    <2> SUFFICES ASSUME IInv PROVE AllowancesHold
      OBVIOUS
    <2>1. PackageInv /\ ShapeInv /\ RunInv /\ TimeInv /\ DiskInv
      BY DEF IInv
    <2>2. plan \in Plans /\ now \in Nat /\ runtime.started \in Nat
      BY <2>1 DEF ShapeInv
    <2>3. package.pc = "unpacked" => PlanAccepted
      BY <2>1 DEF PackageInv, Inspect
    <2>4. TimelineFits
      <3>1. ASSUME study \in BudgetStudies, runtime.stopped
            PROVE  plan.controller - runtime.started + Slack >= plan.study + CheckerReserve(plan)
        <4>1. runtime # Off
          BY <3>1 DEF Off
        <4>2. plan.setup + plan.study + CheckerReserve(plan) <= plan.controller
          BY <2>1, <2>2, <2>3, <3>1, <4>1, DeadlinesAre DEF RunInv
        <4>3. runtime.started <= plan.setup + Slack
          BY <2>1 DEF TimeInv
        <4> QED
          BY <2>2, <4>2, <4>3, PlanTyped
      <3>2. study \in BudgetStudies /\ host.pc = "collecting" => now <= plan.collection
        BY <2>1 DEF TimeInv
      <3> QED
        BY <3>1, <3>2 DEF TimelineFits
    <2>5. CeilingsHold
      <3>1. ASSUME study \in BudgetStudies, package.pc = "unpacked"
            PROVE  now * plan.rate + disk.archive <= plan.maximum
        <4>1. plan.shutdown < plan.max /\ plan.max * plan.rate + plan.archive + 1 <= plan.maximum
          BY <2>2, <2>3, <3>1, DeadlinesAre
        <4>2. plan.max \in Nat /\ plan.rate \in Nat /\ plan.shutdown \in Nat
              /\ plan.archive \in Nat /\ plan.maximum \in Nat
          BY <2>2, PlanTyped
        <4>3. now <= plan.max /\ disk.archive <= plan.archive /\ disk.archive \in Nat
          BY <2>1, <2>2, <4>1, <4>2 DEF TimeInv, DiskInv, ShapeInv
        <4>4. now * plan.rate <= plan.max * plan.rate
          BY <2>2, <4>2, <4>3, BillBounded
        <4>5. now * plan.rate \in Nat /\ plan.max * plan.rate \in Nat
          BY <2>2, <4>2
        <4> DEFINE bill == now * plan.rate
                   most == plan.max * plan.rate
        <4>6. /\ bill \in Nat /\ most \in Nat /\ bill <= most
              /\ most + plan.archive + 1 <= plan.maximum
          BY <4>1, <4>4, <4>5
        <4> HIDE DEF bill, most
        <4>7. bill + disk.archive <= plan.maximum
          BY <4>2, <4>3, <4>6
        <4> QED
          BY <4>7 DEF bill
      <3>2. ASSUME host.room > 0
            PROVE  disk.output + disk.archive + disk.part + 1 <= host.room
        <4>1. /\ disk.output <= plan.output /\ disk.archive <= plan.archive
              /\ disk.part <= plan.chunk /\ Required(plan) <= host.room
          BY <2>1, <3>2 DEF DiskInv
        <4>2. Required(plan) = plan.output + plan.archive + plan.chunk + 1
          BY DEF Required
        <4> QED
          BY <2>1, <2>2, <4>1, <4>2, PlanTyped DEF ShapeInv
      <3> QED
        BY <3>1, <3>2 DEF CeilingsHold
    <2> QED
      BY <2>4, <2>5 DEF AllowancesHold
  <1> QED
    BY <1>1, HostInductive, PTL
================================================================================
