-------------------------------- MODULE CloudHost ------------------------------
(***************************************************************************)
(* A study's machine from its package to its shutdown: the host script's   *)
(* deadlines (src/scripts/aws), the runtime process in the container       *)
(* (src/scripts/*_cloud_runtime.py), the signals it is sent, and the disk. *)
(*  A step under `bounded' is ended by timeout at its deadline; what *)
(* the script runs outside of it takes Slack at most.                      *)
(***************************************************************************)
EXTENDS CloudPackage

CONSTANT Slack   \* what the commands between two bounded steps may take

\* Those commands are not timed: what they take is assumed to be over by the
\* time a plan's collection has to be.
ASSUME HostAssumption ==
    /\ Slack \in Nat
    /\ \A p \in Plans : p.setup + Slack <= p.collection

VARIABLES now,       \* time since the launch epoch
          host,      \* the host script's phase; the free bytes its check found
          runtime,   \* the process in the container
          files,     \* RUNTIME.json and what the study and checker left
          disk       \* bytes on the machine's file system since the check

vars == <<study, plan, package, now, host, runtime, files, disk>>

Off == [pc |-> "off", stopped |-> FALSE, soft |-> FALSE, code |-> None,
        started |-> 0]

Init ==
    /\ PackageInit
    /\ now = 0
    /\ host = [pc |-> "build", room |-> 0]
    /\ runtime = Off
    /\ files = [record |-> None, check |-> FALSE]
    /\ disk = [output |-> 0, archive |-> 0, part |-> 0]

--------------------------------------------------------------------------------
(* Time.  A bounded step that has reached its deadline is ended before time *)
(* goes on; so is the machine, by the deadline unit its script sets first.  *)

DeadlineOf(pc) ==
    CASE pc \in {"package", "image", "storage"} -> plan.setup
      [] pc \in {"starting"}                    -> plan.setup + Slack
      [] pc = "controller"                      -> plan.controller
      [] pc = "collecting"                      -> plan.collection
      [] OTHER                                  -> plan.shutdown

Tick ==
    /\ host.pc \notin {"build", "down"}
    /\ now < plan.shutdown
    /\ now < DeadlineOf(host.pc)
    /\ now' = now + 1
    /\ UNCHANGED <<study, plan, package, host, runtime, files, disk>>

Phase(from, to) ==
    /\ host.pc = from
    /\ host' = [host EXCEPT !.pc = to]

--------------------------------------------------------------------------------
(* The host script.                                                         *)

steady == <<study, plan, now, runtime, files, disk>>

Boot ==
    /\ package.pc = "recorded"
    /\ Phase("build", "package")
    /\ UNCHANGED <<package, steady>>

\* The builder's steps before the boot; fetching and unpacking after it.
Packaged ==
    /\ Packaging
    /\ host.pc = IF package.pc \in {"none", "written"} THEN "build" ELSE "package"
    /\ host' = [host EXCEPT !.pc = CASE package'.pc = "unpacked" -> "image"
                                     [] package'.pc = "refused"  -> "shutdown"
                                     [] OTHER                    -> @]
    /\ UNCHANGED steady

\* The image is pulled and inspected.
Image ==
    /\ Phase("image", IF study = "zero4" THEN "storage" ELSE "starting")
    /\ UNCHANGED <<package, steady>>

\* df and disk_receipt, on the file system the machine really has.
Storage ==
    /\ host.pc = "storage"
    /\ \E total \in {plan.disk - plan.reserve - 1, plan.disk - plan.reserve, plan.disk},
          used \in {plan.image, plan.image + plan.setupReserve, plan.image + plan.setupReserve + 1} :
          /\ used <= total
          /\ host' = [pc |-> IF DiskPasses(plan, total, total - used)
                             THEN "starting" ELSE "collecting",
                      room |-> IF DiskPasses(plan, total, total - used)
                               THEN total - used ELSE 0]
    /\ UNCHANGED <<package, steady>>

\* docker run.
Start ==
    /\ Phase("starting", "controller")
    /\ runtime' = [Off EXCEPT !.pc = "identity", !.started = now]
    /\ UNCHANGED <<study, plan, package, now, files, disk>>

\* Any step may fail or be ended at its deadline: the script goes on in
\* finish, with the collector when the package was verified.
StepFails ==
    /\ \/ Phase("package", "shutdown")
       \/ \E pc \in {"image", "storage", "starting"} : Phase(pc, "collecting")
    /\ UNCHANGED <<package, steady>>

\* timeout's KILL five seconds after its TERM, docker rm -f, the kernel:
\* nothing in the container runs on.
Killed ==
    /\ runtime.pc \notin {"off", "over"}
    /\ Phase("controller", "collecting")
    /\ runtime' = [runtime EXCEPT !.pc = "off"]
    /\ UNCHANGED <<study, plan, package, now, files, disk>>

Exited ==
    /\ runtime.pc = "over"
    /\ Phase("controller", "collecting")
    /\ runtime' = [runtime EXCEPT !.pc = "off"]
    /\ UNCHANGED <<study, plan, package, now, files, disk>>

\* The collector's use of the disk: one archive, one part at a time.
Collect ==
    /\ host.pc = "collecting"
    /\ \/ /\ disk.archive = 0
          /\ \E n \in 1 .. plan.archive :
                n <= disk.output + 1 /\ disk' = [disk EXCEPT !.archive = n]
          /\ UNCHANGED host
       \/ /\ disk.archive > 0 /\ disk.part = 0
          /\ disk' = [disk EXCEPT !.part = IF disk.archive < plan.chunk
                                           THEN disk.archive ELSE plan.chunk]
          /\ UNCHANGED host
       \/ /\ disk.part > 0
          /\ disk' = [disk EXCEPT !.part = 0]
          /\ UNCHANGED host
       \/ /\ host' = [host EXCEPT !.pc = "shutdown"]
          /\ UNCHANGED disk
    /\ UNCHANGED <<study, plan, package, now, runtime, files>>

\* shutdown -h now, or the deadline unit.
Shutdown ==
    /\ host.pc \notin {"build", "down"}
    /\ host.pc = "shutdown" \/ now = plan.shutdown
    /\ host' = [host EXCEPT !.pc = "down"]
    /\ runtime' = [runtime EXCEPT !.pc = "off"]
    /\ UNCHANGED <<study, plan, package, now, files, disk>>

--------------------------------------------------------------------------------
(* The runtime (pid 1 of the container).                                    *)

quiet == <<study, plan, package, now, host>>

Go(pc) == runtime' = [runtime EXCEPT !.pc = pc]

\* The identity checks of machine, environment, sources and toolchain; then
\* Popen, whose child exists before child[0] names it.
Identity ==
    /\ runtime.pc = "identity"
    /\ \/ Go("failed")
       \/ Go("spawned")
    /\ UNCHANGED <<quiet, files, disk>>

Assign ==
    /\ runtime.pc = "spawned"
    /\ Go("waiting")
    /\ UNCHANGED <<quiet, files, disk>>

\* The study writes, within its own byte limit.
StudyWrites ==
    /\ runtime.pc = "waiting"
    /\ disk.output < plan.output
    /\ disk' = [disk EXCEPT !.output = @ + 1]
    /\ UNCHANGED <<quiet, runtime, files>>

\* The study ends; a complete one has left what the checker reads.
StudyEnds ==
    /\ runtime.pc = "waiting"
    /\ \E code \in {0, 1} :
          runtime' = [runtime EXCEPT !.pc = "returned", !.code = code]
    /\ UNCHANGED <<quiet, files, disk>>

\* require(exit code = 0); zero4 reads the study's own CHECK.json, solomon calls
\* its checker, the others run it under run_process and only note a signal.
StudyReturned ==
    /\ runtime.pc = "returned"
    /\ runtime' = IF runtime.code = 0
                  THEN [runtime EXCEPT !.pc = "checking",
                            !.soft = study \in {"reasoner_study", "feral_coverage"}]
                  ELSE [runtime EXCEPT !.pc = "failed"]
    /\ UNCHANGED <<quiet, files, disk>>

\* A checker that fails, or is cancelled by an earlier or a later signal, ends
\* the runtime.
Checked ==
    /\ runtime.pc = "checking"
    /\ \/ /\ ~(runtime.soft /\ runtime.stopped)
          /\ files' = [files EXCEPT !.check = TRUE]
          /\ Go("complete")
       \/ /\ Go("failed")
          /\ UNCHANGED files
    /\ UNCHANGED <<quiet, disk>>

\* timeout's TERM, at the controller deadline.  With a child it is forwarded;
\* the checker's handler only notes it; otherwise it is raised where the
\* process is: in the try it is one more failure, in `finally' it ends the
\* process before RUNTIME.json.  Pid 1 ignores what it does not handle.
Signal ==
    /\ host.pc = "controller"
    /\ now >= plan.controller
    /\ runtime.pc \notin {"off", "over"} /\ ~runtime.stopped
    /\ runtime' = [runtime EXCEPT !.stopped = TRUE, !.pc =
          CASE runtime.soft                             -> @
            [] runtime.pc \in {"identity", "spawned", "returned", "complete"} -> "failed"
            [] runtime.pc = "checking" /\ study = "zero4" -> "failed"
            [] runtime.pc \in {"memory failed", "memory complete"} -> "over"
            [] OTHER                                    -> @]
    /\ UNCHANGED <<quiet, files, disk>>

\* finally: the memory peak is read before the handlers are restored.
Finally ==
    /\ runtime.pc \in {"failed", "complete"}
    /\ Go(IF runtime.pc = "failed" THEN "memory failed" ELSE "memory complete")
    /\ UNCHANGED <<quiet, files, disk>>

Restore ==
    /\ runtime.pc \in {"memory failed", "memory complete"}
    /\ Go(IF runtime.pc = "memory failed" THEN "save failed" ELSE "save complete")
    /\ UNCHANGED <<quiet, files, disk>>

SaveRuntime ==
    /\ runtime.pc \in {"save failed", "save complete"}
    /\ files' = [files EXCEPT !.record =
                    IF runtime.pc = "save failed" THEN "failed" ELSE "complete"]
    /\ Go("over")
    /\ UNCHANGED <<quiet, disk>>

Runtime ==
    \/ Identity \/ Assign \/ StudyWrites \/ StudyEnds \/ StudyReturned \/ Checked
    \/ Finally \/ Restore \/ SaveRuntime \/ Signal

Zero4Runtime    == study = "zero4" /\ Runtime
StudyRuntime    == study = "reasoner_study" /\ Runtime
CoverageRuntime == study = "feral_coverage" /\ Runtime
SolomonRuntime  == study = "solomon" /\ Runtime

Machine ==
    \/ Boot \/ Packaged \/ Image \/ Storage \/ Start \/ StepFails
    \/ Killed \/ Exited \/ Collect \/ Shutdown

Next ==
    \/ Machine
    \/ Zero4Runtime \/ StudyRuntime \/ CoverageRuntime \/ SolomonRuntime
    \/ Tick

Spec == Init /\ [][Next]_vars
--------------------------------------------------------------------------------
(* Properties                                                               *)

\* What runs on the machine is an archive somebody's build recorded, with
\* nothing wrong that either end compares and a plan that adds up; that the
\* archive file exists before it is inspected lets nothing else through.
RunsWhatWasChecked ==
    runtime # Off \/ package.pc = "unpacked"
        => /\ package.defects \cap (BuildCompares \cup Compared) = {}
           /\ PlanAccepted

\* The deadlines of an accepted plan leave everyone their time: a study is not
\* stopped by its host before its whole allowance and its checker's (less what
\* the unbounded commands of the setup take), and no collection begins after
\* its deadline.
TimelineFits ==
    study \in BudgetStudies =>
        /\ runtime.stopped =>
              plan.controller - runtime.started + Slack >= plan.study + CheckerReserve(plan)
        /\ host.pc = "collecting" => now <= plan.collection

\* Neither ceiling is met by surprise: the bill of an accepted plan stays below
\* its approved maximum, and a run that passed the disk check never fills the
\* disk, archive and upload included.
CeilingsHold ==
    /\ study \in BudgetStudies /\ host.pc # "build" /\ package.pc = "unpacked"
          => now * plan.rate + disk.archive <= plan.maximum
    /\ host.room > 0 => disk.output + disk.archive + disk.part + 1 <= host.room

\* The time and the two ceilings of an accepted plan are kept together.
AllowancesHold == TimelineFits /\ CeilingsHold
================================================================================
