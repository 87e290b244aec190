------------------------------ MODULE CloudLaunch ------------------------------
(***************************************************************************)
(* The launch scripts (src/scripts/*_cloud_launch.py, *_cloud_preflight.py *)
(* and feral_cloud_package.py).  An operator runs a script over a binding  *)
(* (run id, launch epoch, package version) and an output directory; the    *)
(* script checks the approval, the clock and a preflight receipt, saves    *)
(* the request, sends one run-instances call and writes a receipt.  The    *)
(* process may be killed at any line, the call may be handled late and its *)
(* answer may be lost; several processes may run at once.  A behaviour is  *)
(* about one study: `study' is drawn once and never changes.               *)
(***************************************************************************)
EXTENDS Integers, FiniteSets

CONSTANTS Attempts,       \* operator processes
          Dirs,           \* output directories (reasoner4: receipt paths)
          Runs,           \* run identifiers
          Versions,       \* versions of the staged package object
          Instants,       \* the clock readings of a behaviour, in seconds
          Studies,        \* the scripts a behaviour may be about
          MaxPreflights,  \* bound on preflight receipts
          None

ASSUME CloudLaunchAssumption ==
    /\ Instants \subseteq Nat
    /\ None \notin Runs \cup Versions \cup Instants \cup Dirs \cup Attempts

VARIABLES study,       \* the script this behaviour is about
          now,         \* the clock
          approved,    \* an approval equal to the one main expects exists
          preflights,  \* the preflight receipts written so far
          stored,      \* run ids with an object under their output prefix
          att,         \* what each process is doing
          disk,        \* the output directories
          wire,        \* run-instances calls EC2 has not handled yet
          machines     \* the instances EC2 has created

vars == <<study, now, approved, preflights, stored, att, disk, wire, machines>>

--------------------------------------------------------------------------------
(* What each render insists on in the package's plan, and what its main asks *)
(* for besides: seconds and cents are the frozen ceilings, stamped says the  *)
(* request carries a DeadlineEpoch tag.                                      *)

Frozen(seconds, cents, approval, preflight, stamped) ==
    [seconds |-> seconds, cents |-> cents, approval |-> approval,
     preflight |-> preflight, stamped |-> stamped]

Zero4Render       == Frozen(48600, 1200, TRUE, TRUE, TRUE)
WeightPilotRender == Frozen(5400, 185, TRUE, TRUE, TRUE)
WeightRender      == Frozen(5400, 200, TRUE, TRUE, TRUE)
SolomonRender     == Frozen(3600, 25, TRUE, TRUE, TRUE)
StudyRender       == Frozen(5400, 30, TRUE, TRUE, TRUE)
CoverageRender    == Frozen(1800, 15, TRUE, TRUE, TRUE)
ReasonerRender    == Frozen(3600, 50, TRUE, FALSE, FALSE)
FeralRender       == Frozen(3600, 300, TRUE, FALSE, FALSE)
RoleFrozen        == Frozen(900, 15, FALSE, TRUE, FALSE)

Settings ==
    [zero4 |-> Zero4Render, weight_pilot |-> WeightPilotRender,
     weight |-> WeightRender, solomon |-> SolomonRender,
     reasoner_study |-> StudyRender, feral_coverage |-> CoverageRender,
     reasoner |-> ReasonerRender, feral |-> FeralRender,
     reasoner4 |-> RoleFrozen]

ASSUME StudiesAssumption ==
    /\ Studies \subseteq DOMAIN Settings
    /\ None # "launch"

Binding == [run : Runs, epoch : Instants, version : Versions]
RequestType == [token : Runs, run : Runs, epoch : Instants, version : Versions]

ASSUME RequestAssumption == None \notin RequestType

\* Mutant: a token of its own for every launch epoch.
EpochToken(b) ==
    [token |-> <<b.run, b.epoch>>, run |-> b.run, epoch |-> b.epoch,
     version |-> b.version]

\* EC2 deduplicates on the client token; the launch epoch and the package
\* version are part of the user data.
LaunchRequest(b) ==
    [token |-> b.run, run |-> b.run, epoch |-> b.epoch, version |-> b.version]

\* When the host's own shutdown timer, armed from W_LAUNCH, has fired.
Deadline(q) == q.epoch + Settings[study].seconds

Window   == 60    \* seconds between the binding's launch epoch and the check
Validity == 3600  \* seconds a preflight receipt stays fresh

\* Mutant: an epoch that is still to come passes as fresh.
RecentEpoch(b) == now - b.epoch <= Window

FreshEpoch(b) == now - b.epoch \in 0 .. Window

FreshPreflight(b) ==
    \E p \in preflights :
        /\ p.status = "passed"
        /\ p.run = b.run
        /\ p.version = b.version
        /\ now - p.checked \in 0 .. Validity

--------------------------------------------------------------------------------
(* Preflight: what the describe calls must show of the account.            *)

Requirements ==
    {"account", "image", "disk", "machine", "subnet", "closed_group", "egress",
     "offering", "role", "permissions", "versioning", "region", "private",
     "encryption", "tls", "retention", "package", "route", "gateway", "price"}

\* reasoner4's preflight reads neither the bucket's region nor the routes.
RoleRequirements == Requirements \ {"region", "route", "gateway"}

Demanded == IF study = "reasoner4" THEN RoleRequirements ELSE Requirements

Validate(data) == Demanded \subseteq data

\* One preflight over what the calls returned (`data') and EC2's answer to the
\* dry run.  The receipt is written in `finally', passed or failed, and is
\* stamped when the calls are over.
Preflight(b, data, dryRun) ==
    /\ Cardinality(preflights) < MaxPreflights
    /\ preflights' = preflights \cup
          {[status  |-> IF Validate(data) /\ b.run \notin stored /\ dryRun
                        THEN "passed" ELSE "failed",
            run     |-> b.run, version |-> b.version,
            checked |-> now, data |-> data]}
    /\ UNCHANGED <<study, now, approved, stored, att, disk, wire, machines>>

\* What the account looks like to one preflight: in order, or with bounded
\* retention missing.
Observations == {Requirements, Requirements \ {"retention"}}

PreflightOf(s) ==
    /\ study = s
    /\ \E b \in Binding, data \in Observations, dryRun \in BOOLEAN :
          Preflight(b, data, dryRun)

Zero4Preflight       == PreflightOf("zero4")
WeightPilotPreflight == PreflightOf("weight_pilot")
WeightPreflight      == PreflightOf("weight")
SolomonPreflight     == PreflightOf("solomon")
StudyPreflight       == PreflightOf("reasoner_study")
CoveragePreflight    == PreflightOf("feral_coverage")
RolePreflight        == PreflightOf("reasoner4")

--------------------------------------------------------------------------------
(* The steps of one process.                                               *)

Absent == [request |-> None, submitted |-> None, receipt |-> None]
Idle   == [pc |-> "idle", mode |-> None, dir |-> None, binding |-> None,
           answer |-> None]

Init ==
    /\ study \in Studies
    /\ now \in {t \in Instants : \A u \in Instants : t <= u}
    /\ approved = FALSE
    /\ preflights = {}
    /\ stored = {}
    /\ att = [a \in Attempts |-> Idle]
    /\ disk = [d \in Dirs |-> Absent]
    /\ wire = {}
    /\ machines = {}

Goto(a, pc) == att' = [att EXCEPT ![a].pc = pc]

\* The process has ended; what it held is gone.
Stop(a) == att' = [att EXCEPT ![a] = [Idle EXCEPT !.pc = "over"]]

\* Everything a launch is refused for before anything is written: the
\* approval record, the age of the launch epoch, the preflight receipt.
Cleared(b) ==
    /\ Settings[study].approval => approved
    /\ FreshEpoch(b)
    /\ Settings[study].preflight => FreshPreflight(b)

Begin(a, pc, mode, d, b) ==
    /\ att[a].pc = "idle"
    /\ att' = [att EXCEPT ![a] = [pc |-> pc, mode |-> mode, dir |-> d,
                                  binding |-> b, answer |-> None]]
    /\ UNCHANGED <<study, now, approved, preflights, stored, disk, wire, machines>>

\* args.out.mkdir(exist_ok=False), then user-data.sh and request.json: a
\* directory another process has made ends this one and is left alone.
MakeDirectory(a) ==
    LET d == att[a].dir IN
    /\ att[a].pc = "checked"
    /\ \/ /\ disk[d] = Absent
          /\ disk' = [disk EXCEPT ![d].request = LaunchRequest(att[a].binding)]
          /\ Goto(a, "rendered")
       \/ /\ disk[d] # Absent
          /\ Stop(a)
          /\ UNCHANGED disk
    /\ UNCHANGED <<study, now, approved, preflights, stored, wire, machines>>

Receipt(status, b, machine) ==
    [status |-> status, run |-> b.run, epoch |-> b.epoch,
     version |-> b.version, machine |-> machine]

Finish(a, status, machine) ==
    /\ disk' = [disk EXCEPT ![att[a].dir].receipt =
                    Receipt(status, att[a].binding, machine)]
    /\ Stop(a)
    /\ UNCHANGED <<study, now, approved, preflights, stored, wire, machines>>

\* mode "render" stops here; an account check that fails or times out ends
\* the process with nothing submitted.
RenderOnly(a) ==
    /\ att[a].pc = "rendered"
    /\ att[a].mode = "render"
    /\ Finish(a, "rendered", None)

AccountRefused(a) ==
    /\ att[a].pc = "rendered"
    /\ att[a].mode # "render"
    /\ Finish(a, "failed", None)

\* The account is the right one; the exact request is saved before it is sent.
SaveSubmitted(a) ==
    /\ att[a].pc = "rendered"
    /\ att[a].mode # "render"
    /\ disk' = [disk EXCEPT ![att[a].dir].submitted = LaunchRequest(att[a].binding)]
    /\ Goto(a, "submitted")
    /\ UNCHANGED <<study, now, approved, preflights, stored, wire, machines>>

\* A dry-run request creates nothing whatever EC2 answers.
DryRun(a) ==
    /\ att[a].pc = "submitted"
    /\ att[a].mode = "dry-run"
    /\ \/ Finish(a, "dry_run_passed", None)
       \/ Finish(a, "failed", None)

\* One run-instances call (AWS_MAX_ATTEMPTS=1).
Send(a) ==
    /\ att[a].pc = "submitted"
    /\ att[a].mode = "launch"
    /\ wire' = wire \cup {[request |-> LaunchRequest(att[a].binding), by |-> a]}
    /\ Goto(a, "waiting")
    /\ UNCHANGED <<study, now, approved, preflights, stored, disk, machines>>

\* The answer names one instance; or it is an error, or the call times out
\* after 45 seconds whether or not EC2 has handled it or ever will.
Launched(a) ==
    /\ att[a].pc = "waiting"
    /\ att[a].answer # None
    /\ Finish(a, "launched", att[a].answer)

\* Mutant: an error taken for an answer.
AnswerIgnored(a) ==
    /\ att[a].pc = "waiting"
    /\ att[a].answer = None
    /\ Finish(a, "launched", None)

OutcomeUnknown(a) ==
    /\ att[a].pc = "waiting"
    /\ att[a].answer = None
    /\ Finish(a, "launch_outcome_unknown", None)

Steps(a) ==
    \/ MakeDirectory(a) \/ RenderOnly(a) \/ AccountRefused(a)
    \/ SaveSubmitted(a) \/ DryRun(a) \/ Send(a) \/ Launched(a) \/ OutcomeUnknown(a)

\* The launch scripts that check first and write afterwards.
LaunchScript(a) ==
    \/ \E mode \in {"render", "dry-run", "launch"}, d \in Dirs, b \in Binding :
          /\ mode = "launch" => Cleared(b)
          /\ Begin(a, "checked", mode, d, b)
    \/ Steps(a)

Zero4Launch(a)       == study = "zero4" /\ LaunchScript(a)
WeightPilotLaunch(a) == study = "weight_pilot" /\ LaunchScript(a)
WeightLaunch(a)      == study = "weight" /\ LaunchScript(a)
SolomonLaunch(a)     == study = "solomon" /\ LaunchScript(a)
StudyLaunch(a)       == study = "reasoner_study" /\ LaunchScript(a)
CoverageLaunch(a)    == study = "feral_coverage" /\ LaunchScript(a)
ReasonerLaunch(a)    == study = "reasoner" /\ LaunchScript(a)

\* feral_cloud_package makes its directory first and dispatch checks the
\* approval and the clock afterwards: a refusal leaves a failed receipt.
FeralLaunch(a) ==
    /\ study = "feral"
    /\ \/ \E mode \in {"render", "dry-run", "launch"}, d \in Dirs, b \in Binding :
             Begin(a, "checked", mode, d, b)
       \/ /\ att[a].pc = "rendered"
          /\ att[a].mode = "launch"
          /\ ~Cleared(att[a].binding)
          /\ Finish(a, "failed", None)
       \/ /\ att[a].pc = "rendered" /\ att[a].mode = "launch"
             => Cleared(att[a].binding)
          /\ Steps(a)

\* reasoner4 has no approval record and no directory of its own: the launch
\* epoch is the clock's, and the two paths are tested and written in separate
\* steps.  Its first receipt, "prepared", is on disk before the call.
RoleBegin(a, d, b) ==
    /\ b.epoch = now
    /\ Cleared(b)
    /\ disk[d].receipt = None
    /\ Begin(a, "checked", "launch", d, b)

RoleCheckRequest(a) ==
    /\ att[a].pc = "checked"
    /\ IF disk[att[a].dir].submitted = None THEN Goto(a, "rendered") ELSE Stop(a)
    /\ UNCHANGED <<study, now, approved, preflights, stored, disk, wire, machines>>

RolePrepare(a) ==
    /\ att[a].pc = "rendered"
    /\ disk' = [disk EXCEPT ![att[a].dir] =
          [request   |-> LaunchRequest(att[a].binding),
           submitted |-> LaunchRequest(att[a].binding),
           receipt   |-> Receipt("prepared", att[a].binding, None)]]
    /\ Goto(a, "submitted")
    /\ UNCHANGED <<study, now, approved, preflights, stored, wire, machines>>

RoleLaunch(a) ==
    /\ study = "reasoner4"
    /\ \/ \E d \in Dirs, b \in Binding : RoleBegin(a, d, b)
       \/ RoleCheckRequest(a) \/ RolePrepare(a)
       \/ Send(a) \/ Launched(a) \/ OutcomeUnknown(a)

--------------------------------------------------------------------------------
(* EC2, the operator and the clock.                                        *)

\* A token EC2 knows returns its instance when every parameter is the same
\* and is an error otherwise; a new token creates one instance, or none.
Handle(w) ==
    LET known == {m \in machines : m.request.token = w.request.token}
        Reply(x) == IF att[w.by].pc = "waiting"
                    THEN att' = [att EXCEPT ![w.by].answer = x]
                    ELSE UNCHANGED att
    IN /\ wire' = wire \ {w}
       /\ \/ /\ known # {}
             /\ \E m \in known : Reply(IF m.request = w.request THEN m ELSE None)
             /\ UNCHANGED machines
          \/ /\ known = {}
             /\ LET m == [request |-> w.request, started |-> now]
                IN machines' = machines \cup {m} /\ Reply(m)
          \/ /\ known = {}
             /\ Reply(None)
             /\ UNCHANGED machines
       /\ UNCHANGED <<study, now, approved, preflights, stored, disk>>

\* The host writes its first object under the run's prefix.
HostStores(m) ==
    /\ stored' = stored \cup {m.request.run}
    /\ UNCHANGED <<study, now, approved, preflights, att, disk, wire, machines>>

Approve ==
    /\ ~approved
    /\ approved' = TRUE
    /\ UNCHANGED <<study, now, preflights, stored, att, disk, wire, machines>>

Tick ==
    /\ \E t \in Instants : t > now /\ now' = t
    /\ UNCHANGED <<study, approved, preflights, stored, att, disk, wire, machines>>

\* The process is killed; nothing else of it runs.
Kill(a) ==
    /\ att[a].pc \in {"checked", "rendered", "submitted", "waiting"}
    /\ Stop(a)
    /\ UNCHANGED <<study, now, approved, preflights, stored, disk, wire, machines>>

Script(a) ==
    \/ Zero4Launch(a) \/ WeightPilotLaunch(a) \/ WeightLaunch(a)
    \/ SolomonLaunch(a) \/ StudyLaunch(a) \/ CoverageLaunch(a)
    \/ ReasonerLaunch(a) \/ FeralLaunch(a) \/ RoleLaunch(a)

Check ==
    \/ Zero4Preflight \/ WeightPilotPreflight \/ WeightPreflight
    \/ SolomonPreflight \/ StudyPreflight \/ CoveragePreflight \/ RolePreflight

Next ==
    \/ Check
    \/ \E a \in Attempts : Script(a) \/ Kill(a)
    \/ \E w \in wire : Handle(w)
    \/ \E m \in machines : HostStores(m)
    \/ Approve
    \/ Tick

Spec == Init /\ [][Next]_vars
--------------------------------------------------------------------------------
(* Properties.                                                             *)

MachineType == [request : RequestType, started : Instants]
ReceiptType ==
    [status : {"rendered", "failed", "dry_run_passed", "prepared", "launched",
               "launch_outcome_unknown"},
     run : Runs, epoch : Instants, version : Versions,
     machine : MachineType \cup {None}]

(* Every variable keeps the shape the scripts give it.                     *)
LaunchTypeOK ==
    /\ study \in DOMAIN Settings
    /\ now \in Instants
    /\ approved \in BOOLEAN
    /\ preflights \subseteq [status : {"passed", "failed"}, run : Runs,
                             version : Versions, checked : Instants,
                             data : Observations]
    /\ stored \subseteq Runs
    /\ att \in [Attempts -> [pc : {"idle", "checked", "rendered", "submitted",
                                   "waiting", "over"},
                             mode : {"render", "dry-run", "launch", None},
                             dir : Dirs \cup {None},
                             binding : Binding \cup {None},
                             answer : MachineType \cup {None}]]
    /\ disk \in [Dirs -> [request : RequestType \cup {None},
                          submitted : RequestType \cup {None},
                          receipt : ReceiptType \cup {None}]]
    /\ wire \subseteq [request : RequestType, by : Attempts]
    /\ machines \subseteq MachineType

\* ClientToken is the run id.
OneMachinePerRun ==
    \A m, n \in machines : m.request.run = n.request.run => m = n

\* A directory in which a machine may have been asked for, by its own receipt.
Admits(d, q) ==
    /\ disk[d].submitted = q
    /\ disk[d].receipt # None =>
          disk[d].receipt.status \in {"launched", "launch_outcome_unknown"}

MachineTraceable ==
    study # "reasoner4" =>
        \A q \in {m.request : m \in machines} \cup {w.request : w \in wire} :
            \E d \in Dirs : Admits(d, q)

(* However often a run is launched, by however many processes, at whatever *)
(* launch epochs and through whatever lost answers, one machine runs it;   *)
(* and every machine, and every call still on its way, can be traced to    *)
(* the exact request saved in a directory whose receipt does not deny it:  *)
(* a process killed at any line, or one that lost the answer, leaves       *)
(* neither a second machine, nor an unknown one, nor a receipt that says   *)
(* nothing was started.                                                    *)
MachinesAccounted == OneMachinePerRun /\ MachineTraceable

(* A receipt that says launched names an instance that EC2 did create, from *)
(* the request saved beside it: its run, launch epoch and package version   *)
(* are the machine's own, whichever process created it.                     *)
LaunchedNamesMachine ==
    \A d \in Dirs :
        LET r == disk[d].receipt IN
        r # None /\ r.status = "launched" =>
            /\ r.machine \in machines
            /\ r.run = r.machine.request.run
            /\ r.epoch = r.machine.request.epoch
            /\ r.version = r.machine.request.version

(* No machine without what its script demands: the approval, and a passed   *)
(* preflight of the same run and package version that saw every requirement *)
(* and lies within an hour before, or the launch window after, the launch   *)
(* epoch.  It never starts before its launch epoch, so the host's timer     *)
(* ends it within the seconds that were approved.                           *)
LaunchAuthorised ==
    \A m \in machines :
        /\ Settings[study].approval => approved
        /\ Settings[study].preflight =>
              \E p \in preflights :
                  /\ p.status = "passed"
                  /\ Demanded \subseteq p.data
                  /\ p.run = m.request.run
                  /\ p.version = m.request.version
                  /\ p.checked \in m.request.epoch - Validity .. m.request.epoch + Window
        /\ Deadline(m.request) - m.started <= Settings[study].seconds
================================================================================
