-------------------------- MODULE CloudLaunchProofs ---------------------------
(***************************************************************************)
(* Theorems about the launch scripts, for any number of processes, output  *)
(* directories, runs, package versions and clock readings, and for every   *)
(* script: one machine per run, each of them accounted for in a directory, *)
(* approved and checked, and named by the receipt that says launched.      *)
(***************************************************************************)
EXTENDS CloudLaunch, TLAPS

Holding == {"rendered", "submitted", "waiting"}
Active  == {"checked"} \cup Holding

(* A process at work knows its directory and its binding, and an answer    *)
(* names a machine that EC2 made of its own request.                       *)
ProcessInv ==
    \A a \in Attempts :
        /\ att[a].pc \in Active => att[a].dir \in Dirs /\ att[a].binding \in Binding
        /\ att[a].pc = "waiting" => att[a].mode = "launch"
        /\ att[a].answer # None =>
              /\ att[a].pc = "waiting"
              /\ att[a].answer \in machines
              /\ att[a].answer.request = LaunchRequest(att[a].binding)

(* A call on its way was sent by a process that waits for it or is over.   *)
WireInv ==
    \A w \in wire :
        /\ w.request.token = w.request.run
        /\ att[w.by].pc \in {"waiting", "over"}
        /\ att[w.by].pc = "waiting" => w.request = LaunchRequest(att[w.by].binding)

(* The client token of every machine is its run; no two machines share it. *)
TokenInv ==
    /\ \A m \in machines : m.request.token = m.request.run
    /\ OneMachinePerRun

(* A directory belongs to one process, from its making to its receipt.     *)
DirectoryInv ==
    study # "reasoner4" =>
        \A a \in Attempts : att[a].pc \in Holding =>
            /\ disk[att[a].dir].request # None
            /\ disk[att[a].dir].receipt = None
            /\ att[a].pc = "rendered" => disk[att[a].dir].submitted = None
            /\ att[a].pc # "rendered" =>
                  disk[att[a].dir].submitted = LaunchRequest(att[a].binding)
            /\ \A c \in Attempts :
                  att[c].pc \in Holding /\ att[c].dir = att[a].dir => c = a

(* A request can be traced to a directory that admits to it and that no    *)
(* process will go on to deny.                                             *)
Traced(q) ==
    \E d \in Dirs :
        /\ Admits(d, q)
        /\ \A a \in Attempts :
              att[a].pc \in Holding /\ att[a].dir = d => att[a].pc = "waiting"

TraceInv ==
    study # "reasoner4" =>
        /\ \A w \in wire : Traced(w.request)
        /\ \A m \in machines : Traced(m.request)

(* What a script demands before it launches b, as it stays true.           *)
Vouched(b) ==
    \E p \in preflights :
        /\ p.status = "passed"
        /\ Demanded \subseteq p.data
        /\ p.run = b.run
        /\ p.version = b.version
        /\ p.checked \in b.epoch - Validity .. b.epoch + Window

Allowed(b) ==
    /\ Settings[study].approval => approved
    /\ Settings[study].preflight => Vouched(b)
    /\ b.epoch <= now

\* feral checks at the end of "rendered", the others before they begin.
Checked(a) ==
    /\ att[a].mode = "launch"
    /\ \/ att[a].pc \in {"submitted", "waiting"}
       \/ att[a].pc \in {"checked", "rendered"} /\ study # "feral"

ClearInv ==
    /\ \A p \in preflights : p.status = "passed" => Demanded \subseteq p.data
    /\ \A a \in Attempts : Checked(a) => Allowed(att[a].binding)
    /\ \A w \in wire : Allowed(w.request)
    /\ \A m \in machines : Allowed(m.request) /\ m.request.epoch <= m.started

Inv == LaunchTypeOK /\ ProcessInv /\ WireInv /\ TokenInv
IInv == Inv /\ DirectoryInv /\ TraceInv /\ ClearInv /\ LaunchedNamesMachine

-------------------------------------------------------------------------------
(* The scripts' steps, without the scripts.                                *)

Begins(a) ==
    \E mode \in {"render", "dry-run", "launch"}, d \in Dirs, b \in Binding :
        /\ mode = "launch" /\ study # "feral" => Cleared(b)
        /\ Begin(a, "checked", mode, d, b)

Saves(a) ==
    /\ SaveSubmitted(a)
    /\ study = "feral" /\ att[a].mode = "launch" => Cleared(att[a].binding)

Ends(a, status, machine) ==
    /\ att[a].pc \in Holding
    /\ status = "launched" =>
          att[a].pc = "waiting" /\ att[a].answer # None /\ machine = att[a].answer
    /\ att[a].pc = "waiting" => status \in {"launched", "launch_outcome_unknown"}
    /\ att[a].pc = "submitted" => att[a].mode # "launch"
    /\ Finish(a, status, machine)

Statuses == {"rendered", "failed", "dry_run_passed", "prepared", "launched",
             "launch_outcome_unknown"}

Work(a) ==
    \/ Begins(a)
    \/ study # "reasoner4" /\ MakeDirectory(a)
    \/ study # "reasoner4" /\ Saves(a)
    \/ study = "reasoner4" /\ RoleCheckRequest(a)
    \/ study = "reasoner4" /\ RolePrepare(a)
    \/ Send(a)
    \/ \E status \in Statuses, machine \in {None, att[a].answer} : Ends(a, status, machine)

LEMMA StepsWork ==
    ASSUME NEW a \in Attempts, Steps(a), study # "reasoner4",
           study = "feral" /\ att[a].pc = "rendered" /\ att[a].mode = "launch"
              => Cleared(att[a].binding)
    PROVE  Work(a)
  <1>1. CASE MakeDirectory(a)
    BY <1>1 DEF Work
  <1>2. CASE RenderOnly(a)
    BY <1>2 DEF Work, RenderOnly, Ends, Statuses, Holding
  <1>3. CASE AccountRefused(a)
    BY <1>3 DEF Work, AccountRefused, Ends, Statuses, Holding
  <1>4. CASE SaveSubmitted(a)
    BY <1>4 DEF Work, Saves, SaveSubmitted
  <1>5. CASE DryRun(a)
    BY <1>5 DEF Work, DryRun, Ends, Statuses, Holding
  <1>6. CASE Send(a)
    BY <1>6 DEF Work
  <1>7. CASE Launched(a)
    BY <1>7 DEF Work, Launched, Ends, Statuses, Holding
  <1>8. CASE OutcomeUnknown(a)
    BY <1>8 DEF Work, OutcomeUnknown, Ends, Statuses, Holding
  <1> QED
    BY <1>1, <1>2, <1>3, <1>4, <1>5, <1>6, <1>7, <1>8 DEF Steps

LEMMA ScriptWork ==
    ASSUME NEW a \in Attempts, Script(a)
    PROVE  Work(a)
  <1>1. ASSUME LaunchScript(a), study # "feral", study # "reasoner4"
        PROVE  Work(a)
    <2>1. CASE Steps(a)
      BY <2>1, <1>1, StepsWork
    <2>2. CASE ~Steps(a)
      BY <2>2, <1>1 DEF LaunchScript, Work, Begins
    <2> QED
      BY <2>1, <2>2
  <1>2. ASSUME FeralLaunch(a)
        PROVE  Work(a)
    <2>1. study = "feral"
      BY <1>2 DEF FeralLaunch
    <2>2. ASSUME NEW mode \in {"render", "dry-run", "launch"}, NEW d \in Dirs, NEW b \in Binding,
                 Begin(a, "checked", mode, d, b)
          PROVE  Work(a)
      BY <2>1, <2>2 DEF Work, Begins
    <2>3. ASSUME att[a].pc = "rendered", att[a].mode = "launch", Finish(a, "failed", None)
          PROVE  Work(a)
      BY <2>3 DEF Work, Ends, Statuses, Holding
    <2>4. ASSUME att[a].pc = "rendered" /\ att[a].mode = "launch" => Cleared(att[a].binding),
                 Steps(a)
          PROVE  Work(a)
      BY <2>1, <2>4, StepsWork
    <2> QED
      BY <1>2, <2>2, <2>3, <2>4 DEF FeralLaunch
  <1>3. ASSUME RoleLaunch(a)
        PROVE  Work(a)
    <2>1. study = "reasoner4"
      BY <1>3 DEF RoleLaunch
    <2>2. ASSUME NEW d \in Dirs, NEW b \in Binding, RoleBegin(a, d, b)
          PROVE  Work(a)
      BY <2>2 DEF RoleBegin, Work, Begins
    <2>3. CASE Launched(a)
      BY <2>3 DEF Work, Launched, Ends, Statuses, Holding
    <2>4. CASE OutcomeUnknown(a)
      BY <2>4 DEF Work, OutcomeUnknown, Ends, Statuses, Holding
    <2> QED
      BY <1>3, <2>1, <2>2, <2>3, <2>4 DEF RoleLaunch, Work
  <1> QED
    BY <1>1, <1>2, <1>3
    DEF Script, Zero4Launch, WeightPilotLaunch, WeightLaunch, SolomonLaunch,
        StudyLaunch, CoverageLaunch, ReasonerLaunch

\* Every step is a preflight, a step of one process, or one of the world.
LEMMA NextCases ==
    ASSUME Next
    PROVE  \/ \E b \in Binding, data \in Observations, dryRun \in BOOLEAN :
                 Preflight(b, data, dryRun)
           \/ \E a \in Attempts : Work(a) \/ Kill(a)
           \/ \E w \in wire : Handle(w)
           \/ \E m \in machines : HostStores(m)
           \/ Approve
           \/ Tick
  BY ScriptWork
  DEF Next, Check, Zero4Preflight, WeightPilotPreflight, WeightPreflight,
      SolomonPreflight, StudyPreflight, CoveragePreflight, RolePreflight, PreflightOf

-------------------------------------------------------------------------------
(* Types, and who holds what.                                              *)

LEMMA RequestTyped ==
    ASSUME NEW b \in Binding
    PROVE  /\ LaunchRequest(b) \in RequestType
           /\ LaunchRequest(b).token = LaunchRequest(b).run
           /\ LaunchRequest(b) # None
  BY RequestAssumption DEF Binding, LaunchRequest, RequestType

LEMMA BindingTyped ==
    ASSUME NEW b \in Binding
    PROVE  b.run \in Runs /\ b.epoch \in Instants /\ b.version \in Versions
  BY DEF Binding

LEMMA InitInv == Init => IInv
  <1> SUFFICES ASSUME Init PROVE IInv
    OBVIOUS
  <1>1. study \in DOMAIN Settings
    BY StudiesAssumption DEF Init
  <1>2. LaunchTypeOK
    BY <1>1 DEF Init, LaunchTypeOK, Idle, Absent
  <1>3. ProcessInv
    BY DEF Init, ProcessInv, Idle, Active, Holding
  <1>4. WireInv /\ TokenInv
    BY DEF Init, WireInv, TokenInv, OneMachinePerRun
  <1>5. DirectoryInv
    BY DEF Init, DirectoryInv, Idle, Holding
  <1>6. TraceInv
    BY DEF Init, TraceInv
  <1>7. ClearInv
    BY DEF Init, ClearInv, Checked, Idle
  <1>8. LaunchedNamesMachine
    BY DEF Init, LaunchedNamesMachine, Absent
  <1> QED
    BY <1>2, <1>3, <1>4, <1>5, <1>6, <1>7, <1>8 DEF IInv, Inv

(* What holds after a step of one process, of EC2, of the operator.        *)

LEMMA TypeStep ==
    ASSUME Inv, [Next]_vars
    PROVE  LaunchTypeOK'
  <1> USE DEF LaunchTypeOK
  <1>1. ASSUME NEW b \in Binding, NEW data \in Observations, NEW dryRun \in BOOLEAN,
               Preflight(b, data, dryRun)
        PROVE  LaunchTypeOK'
    BY <1>1, BindingTyped DEF Inv, Preflight
  <1>2. ASSUME NEW a \in Attempts, Begins(a)
        PROVE  LaunchTypeOK'
    BY <1>2 DEF Inv, Begins, Begin
  <1>3. ASSUME NEW a \in Attempts, MakeDirectory(a)
        PROVE  LaunchTypeOK'
    <2>1. att[a].dir \in Dirs /\ att[a].binding \in Binding
      BY <1>3 DEF Inv, ProcessInv, MakeDirectory, Active
    <2>2. LaunchRequest(att[a].binding) \in RequestType
      BY <2>1, RequestTyped
    <2>3. att' \in [Attempts -> [pc : {"idle", "checked", "rendered", "submitted",
                                       "waiting", "over"},
                                 mode : {"render", "dry-run", "launch", None},
                                 dir : Dirs \cup {None},
                                 binding : Binding \cup {None},
                                 answer : MachineType \cup {None}]]
      BY <1>3 DEF Inv, MakeDirectory, Goto, Stop, Idle
    <2>4. disk' \in [Dirs -> [request : RequestType \cup {None},
                              submitted : RequestType \cup {None},
                              receipt : ReceiptType \cup {None}]]
      <3>1. \/ disk' = [disk EXCEPT ![att[a].dir].request = LaunchRequest(att[a].binding)]
            \/ disk' = disk
        BY <1>3 DEF MakeDirectory
      <3> QED
        BY <2>1, <2>2, <3>1 DEF Inv
    <2> QED
      BY <1>3, <2>3, <2>4 DEF Inv, MakeDirectory
  <1>4. ASSUME NEW a \in Attempts, Saves(a)
        PROVE  LaunchTypeOK'
    <2>1. att[a].dir \in Dirs /\ att[a].binding \in Binding
      BY <1>4 DEF Inv, ProcessInv, Saves, SaveSubmitted, Active, Holding
    <2>2. LaunchRequest(att[a].binding) \in RequestType
      BY <2>1, RequestTyped
    <2> QED
      BY <1>4, <2>1, <2>2 DEF Inv, Saves, SaveSubmitted, Goto
  <1>5. ASSUME NEW a \in Attempts, RoleCheckRequest(a)
        PROVE  LaunchTypeOK'
    BY <1>5 DEF Inv, RoleCheckRequest, Goto, Stop, Idle
  <1>6. ASSUME NEW a \in Attempts, RolePrepare(a)
        PROVE  LaunchTypeOK'
    <2>1. att[a].dir \in Dirs /\ att[a].binding \in Binding
      BY <1>6 DEF Inv, ProcessInv, RolePrepare, Active, Holding
    <2>2. LaunchRequest(att[a].binding) \in RequestType
      BY <2>1, RequestTyped
    <2>3. Receipt("prepared", att[a].binding, None) \in ReceiptType
      BY <2>1, BindingTyped DEF Receipt, ReceiptType
    <2> QED
      BY <1>6, <2>1, <2>2, <2>3 DEF Inv, RolePrepare, Goto
  <1>7. ASSUME NEW a \in Attempts, Send(a)
        PROVE  LaunchTypeOK'
    <2>1. att[a].binding \in Binding
      BY <1>7 DEF Inv, ProcessInv, Send, Active, Holding
    <2>2. LaunchRequest(att[a].binding) \in RequestType
      BY <2>1, RequestTyped
    <2> QED
      BY <1>7, <2>2 DEF Inv, Send, Goto
  <1>8. ASSUME NEW a \in Attempts, NEW status \in Statuses,
               NEW machine \in {None, att[a].answer}, Ends(a, status, machine)
        PROVE  LaunchTypeOK'
    <2>1. att[a].dir \in Dirs /\ att[a].binding \in Binding
      BY <1>8 DEF Inv, ProcessInv, Ends, Active
    <2>2. machine \in MachineType \cup {None}
      BY DEF Inv
    <2>3. Receipt(status, att[a].binding, machine) \in ReceiptType
      BY <2>1, <2>2, BindingTyped DEF Receipt, ReceiptType, Statuses
    <2> QED
      BY <1>8, <2>1, <2>3 DEF Inv, Ends, Finish, Stop, Idle
  <1>9. ASSUME NEW a \in Attempts, Kill(a)
        PROVE  LaunchTypeOK'
    BY <1>9 DEF Inv, Kill, Stop, Idle
  <1>10. ASSUME NEW w \in wire, Handle(w)
         PROVE  LaunchTypeOK'
    <2>1. w.request \in RequestType /\ w.by \in Attempts
      BY DEF Inv
    <2>2. [request |-> w.request, started |-> now] \in MachineType
      BY <2>1 DEF Inv, MachineType
    <2>3. machines' \subseteq MachineType
      BY <1>10, <2>2 DEF Inv, Handle
    <2>4. wire' \subseteq wire
      BY <1>10 DEF Handle
    <2>5. \E x \in MachineType \cup {None} :
             att' = [att EXCEPT ![w.by].answer = x] \/ att' = att
      BY <1>10, <2>2 DEF Inv, Handle
    <2>6. att' \in [Attempts -> [pc : {"idle", "checked", "rendered", "submitted",
                                       "waiting", "over"},
                                 mode : {"render", "dry-run", "launch", None},
                                 dir : Dirs \cup {None},
                                 binding : Binding \cup {None},
                                 answer : MachineType \cup {None}]]
      BY <2>1, <2>5 DEF Inv
    <2> QED
      BY <1>10, <2>3, <2>4, <2>6 DEF Inv, Handle
  <1>11. ASSUME NEW m \in machines, HostStores(m)
         PROVE  LaunchTypeOK'
    BY <1>11 DEF Inv, HostStores, MachineType, RequestType
  <1>12. CASE Approve
    BY <1>12 DEF Inv, Approve
  <1>13. CASE Tick
    BY <1>13 DEF Inv, Tick
  <1>14. CASE UNCHANGED vars
    BY <1>14 DEF Inv, vars
  <1> QED
    BY <1>1, <1>2, <1>3, <1>4, <1>5, <1>6, <1>7, <1>8, <1>9, <1>10, <1>11, <1>12,
       <1>13, <1>14, NextCases DEF Work

\* EC2's answer is the machine it has of this run, made of this very request.
LEMMA HandleAnswers ==
    ASSUME Inv, NEW w \in wire, Handle(w)
    PROVE  /\ machines \subseteq machines'
           /\ wire' = wire \ {w}
           /\ \A m \in machines' \ machines :
                 /\ m = [request |-> w.request, started |-> now]
                 /\ \A n \in machines : n.request.token # w.request.token
           /\ \A m, n \in machines' \ machines : m = n
           /\ \E x \in machines' \cup {None} :
                 /\ x # None => x.request = w.request
                 /\ \/ att[w.by].pc = "waiting" /\ att' = [att EXCEPT ![w.by].answer = x]
                    \/ att[w.by].pc # "waiting" /\ att' = att
  BY DEF Handle

LEMMA HandleKeeps ==
    ASSUME Inv, NEW w \in wire, Handle(w), NEW c \in Attempts
    PROVE  /\ att'[c].pc = att[c].pc
           /\ att'[c].mode = att[c].mode
           /\ att'[c].dir = att[c].dir
           /\ att'[c].binding = att[c].binding
  <1>1. PICK x \in machines' \cup {None} :
           att' = [att EXCEPT ![w.by].answer = x] \/ att' = att
    BY HandleAnswers
  <1>2. CASE att' = [att EXCEPT ![w.by].answer = x]
    BY <1>2 DEF Inv, LaunchTypeOK
  <1> QED
    BY <1>1, <1>2

LEMMA ProcessStep ==
    ASSUME Inv, [Next]_vars
    PROVE  ProcessInv'
  <1> USE DEF ProcessInv
  <1>1. ASSUME NEW b \in Binding, NEW data \in Observations, NEW dryRun \in BOOLEAN,
               Preflight(b, data, dryRun)
        PROVE  ProcessInv'
    BY <1>1 DEF Inv, Preflight
  <1>2. ASSUME NEW a \in Attempts, Begins(a)
        PROVE  ProcessInv'
    BY <1>2 DEF Inv, Begins, Begin, LaunchTypeOK
  <1>3. ASSUME NEW a \in Attempts, MakeDirectory(a)
        PROVE  ProcessInv'
    BY <1>3 DEF Inv, MakeDirectory, Goto, Stop, Idle, LaunchTypeOK, Active, Holding
  <1>4. ASSUME NEW a \in Attempts, Saves(a)
        PROVE  ProcessInv'
    BY <1>4 DEF Inv, Saves, SaveSubmitted, Goto, LaunchTypeOK, Active, Holding
  <1>5. ASSUME NEW a \in Attempts, RoleCheckRequest(a)
        PROVE  ProcessInv'
    BY <1>5 DEF Inv, RoleCheckRequest, Goto, Stop, Idle, LaunchTypeOK, Active, Holding
  <1>6. ASSUME NEW a \in Attempts, RolePrepare(a)
        PROVE  ProcessInv'
    BY <1>6 DEF Inv, RolePrepare, Goto, LaunchTypeOK, Active, Holding
  <1>7. ASSUME NEW a \in Attempts, Send(a)
        PROVE  ProcessInv'
    BY <1>7 DEF Inv, Send, Goto, LaunchTypeOK, Active, Holding
  <1>8. ASSUME NEW a \in Attempts, NEW status \in Statuses,
               NEW machine \in {None, att[a].answer}, Ends(a, status, machine)
        PROVE  ProcessInv'
    BY <1>8 DEF Inv, Ends, Finish, Stop, Idle, LaunchTypeOK, Active, Holding
  <1>9. ASSUME NEW a \in Attempts, Kill(a)
        PROVE  ProcessInv'
    BY <1>9 DEF Inv, Kill, Stop, Idle, LaunchTypeOK, Active, Holding
  <1>10. ASSUME NEW w \in wire, Handle(w)
         PROVE  ProcessInv'
    <2>1. w.by \in Attempts
      BY DEF Inv, LaunchTypeOK
    <2>2. machines \subseteq machines'
      BY <1>10, HandleAnswers
    <2>3. PICK x \in machines' \cup {None} :
             /\ x # None => x.request = w.request
             /\ \/ att[w.by].pc = "waiting" /\ att' = [att EXCEPT ![w.by].answer = x]
                \/ att[w.by].pc # "waiting" /\ att' = att
      BY <1>10, HandleAnswers
    <2>4. att[w.by].pc = "waiting" => w.request = LaunchRequest(att[w.by].binding)
      BY DEF Inv, WireInv
    <2> QED
      BY <2>1, <2>2, <2>3, <2>4 DEF Inv, LaunchTypeOK
  <1>11. ASSUME NEW m \in machines, HostStores(m)
         PROVE  ProcessInv'
    BY <1>11 DEF Inv, HostStores
  <1>12. CASE Approve
    BY <1>12 DEF Inv, Approve
  <1>13. CASE Tick
    BY <1>13 DEF Inv, Tick
  <1>14. CASE UNCHANGED vars
    BY <1>14 DEF Inv, vars
  <1> QED
    BY <1>1, <1>2, <1>3, <1>4, <1>5, <1>6, <1>7, <1>8, <1>9, <1>10, <1>11, <1>12,
       <1>13, <1>14, NextCases DEF Work

\* Only a process that waits, and one that is over, keeps its place on the wire.
LEMMA WireStep ==
    ASSUME Inv, [Next]_vars
    PROVE  WireInv' /\ TokenInv'
  <1> USE DEF WireInv, TokenInv, OneMachinePerRun
  <1>1. ASSUME NEW a \in Attempts, Send(a)
        PROVE  WireInv' /\ TokenInv'
    <2>1. LaunchRequest(att[a].binding).token = LaunchRequest(att[a].binding).run
      BY DEF LaunchRequest
    <2>2. att'[a].pc = "waiting" /\ att'[a].binding = att[a].binding
      BY <1>1 DEF Send, Goto, Inv, LaunchTypeOK
    <2>3. \A w \in wire : w.by # a /\ att'[w.by] = att[w.by]
      BY <1>1 DEF Send, Goto, Inv, LaunchTypeOK
    <2> QED
      BY <1>1, <2>1, <2>2, <2>3 DEF Send, Inv
  <1>2. ASSUME NEW a \in Attempts, Work(a), ~Send(a)
        PROVE  WireInv' /\ TokenInv'
    <2>1. wire' = wire /\ machines' = machines
      BY <1>2 DEF Work, Begins, Begin, MakeDirectory, Saves, SaveSubmitted,
                  RoleCheckRequest, RolePrepare, Ends, Finish
    <2>2. \A c \in Attempts \ {a} : att'[c] = att[c]
      BY <1>2 DEF Work, Begins, Begin, MakeDirectory, Saves, SaveSubmitted, Inv, LaunchTypeOK,
                  RoleCheckRequest, RolePrepare, Ends, Finish, Goto, Stop
    <2>3. att[a].pc \in {"waiting", "over"} => att'[a].pc = "over"
      <3>1. att[a].pc \in {"waiting", "over"} =>
               \E status \in Statuses, machine \in {None, att[a].answer} : Ends(a, status, machine)
        BY <1>2 DEF Work, Begins, Begin, MakeDirectory, Saves, SaveSubmitted,
                    RoleCheckRequest, RolePrepare
      <3>2. ASSUME NEW status \in Statuses, NEW machine \in {None, att[a].answer},
                   Ends(a, status, machine)
            PROVE  att'[a].pc = "over"
        BY <3>2 DEF Ends, Finish, Stop, Idle, Inv, LaunchTypeOK
      <3> QED
        BY <3>1, <3>2
    <2> QED
      BY <2>1, <2>2, <2>3 DEF Inv, LaunchTypeOK
  <1>3. ASSUME NEW a \in Attempts, Kill(a)
        PROVE  WireInv' /\ TokenInv'
    BY <1>3 DEF Kill, Stop, Inv, LaunchTypeOK
  <1>4. ASSUME NEW w \in wire, Handle(w)
        PROVE  WireInv' /\ TokenInv'
    <2>1. \A c \in Attempts : att'[c].pc = att[c].pc /\ att'[c].binding = att[c].binding
      BY <1>4, HandleKeeps
    <2>2. WireInv'
      BY <1>4, <2>1, HandleAnswers DEF Inv, LaunchTypeOK
    <2>3. \A m \in machines' : m.request.token = m.request.run
      BY <1>4, HandleAnswers DEF Inv
    <2>4. \A m, n \in machines' : m.request.run = n.request.run => m = n
      BY <1>4, <2>3, HandleAnswers DEF Inv
    <2> QED
      BY <2>2, <2>3, <2>4
  <1>5. CASE UNCHANGED <<att, wire, machines>>
    BY <1>5 DEF Inv
  <1> QED
    BY <1>1, <1>2, <1>3, <1>4, <1>5, NextCases
    DEF Preflight, HostStores, Approve, Tick, vars

\* While its process holds a directory, no other process is in it.
LEMMA DirectoryStep ==
    ASSUME Inv, DirectoryInv, [Next]_vars
    PROVE  DirectoryInv'
  <1> SUFFICES ASSUME study # "reasoner4"
               PROVE  DirectoryInv'
    <2>1. study' = study
      BY NextCases DEF Work, Begins, Begin, MakeDirectory, Saves, SaveSubmitted, Send,
           RoleCheckRequest, RolePrepare, Ends, Finish, Kill, Handle, Preflight,
           HostStores, Approve, Tick, vars
    <2> QED
      BY <2>1 DEF DirectoryInv
  <1> USE DEF DirectoryInv
  <1>1. ASSUME NEW a \in Attempts, Begins(a)
        PROVE  DirectoryInv'
    BY <1>1 DEF Begins, Begin, Inv, LaunchTypeOK, Holding
  <1>2. ASSUME NEW a \in Attempts, MakeDirectory(a)
        PROVE  DirectoryInv'
    <2>1. att[a].dir \in Dirs /\ att[a].binding \in Binding
      BY <1>2 DEF Inv, ProcessInv, MakeDirectory, Active
    <2>2. CASE disk[att[a].dir] = Absent
      <3>1. att' = [att EXCEPT ![a].pc = "rendered"]
        BY <1>2, <2>2 DEF MakeDirectory, Goto
      <3>2. disk' = [disk EXCEPT ![att[a].dir].request = LaunchRequest(att[a].binding)]
        BY <1>2, <2>2 DEF MakeDirectory
      <3>3. /\ disk'[att[a].dir].request # None
            /\ disk'[att[a].dir].submitted = None
            /\ disk'[att[a].dir].receipt = None
        BY <2>1, <2>2, <3>2, RequestTyped DEF Absent, Inv, LaunchTypeOK
      <3>4. \A c \in Attempts : att[c].pc \in Holding => att[c].dir # att[a].dir
        BY <2>2 DEF Absent
      <3>5. \A e \in Dirs : e # att[a].dir => disk'[e] = disk[e]
        BY <3>2 DEF Inv, LaunchTypeOK
      <3>6. \A c \in Attempts : c # a => att'[c] = att[c]
        BY <3>1 DEF Inv, LaunchTypeOK
      <3>7. att'[a].pc = "rendered" /\ att'[a].dir = att[a].dir
        BY <3>1 DEF Inv, LaunchTypeOK
      <3>8. \A c \in Attempts : att[c].pc \in Holding => att[c].dir \in Dirs
        BY DEF Inv, ProcessInv, Active
      <3>9. study' = study
        BY <1>2 DEF MakeDirectory
      <3> QED
        BY <3>3, <3>4, <3>5, <3>6, <3>7, <3>8, <3>9
    <2>3. CASE disk[att[a].dir] # Absent
      <3>1. disk' = disk /\ study' = study /\ Stop(a)
        BY <1>2, <2>3 DEF MakeDirectory
      <3>2. /\ \A c \in Attempts : c # a => att'[c] = att[c]
            /\ att'[a].pc = "over"
        BY <3>1 DEF Stop, Idle, Inv, LaunchTypeOK
      <3>3. "over" \notin Holding
        BY DEF Holding
      <3> QED
        BY <3>1, <3>2, <3>3
    <2> QED
      BY <2>2, <2>3
  <1>3. ASSUME NEW a \in Attempts, Saves(a)
        PROVE  DirectoryInv'
    <2>1. att[a].dir \in Dirs /\ att[a].pc = "rendered" /\ att[a].pc \in Holding
      BY <1>3 DEF Inv, ProcessInv, Saves, SaveSubmitted, Active, Holding
    <2>2. /\ disk' = [disk EXCEPT ![att[a].dir].submitted = LaunchRequest(att[a].binding)]
          /\ att' = [att EXCEPT ![a].pc = "submitted"]
          /\ study' = study
      BY <1>3 DEF Saves, SaveSubmitted, Goto
    <2>3. /\ \A e \in Dirs : e # att[a].dir => disk'[e] = disk[e]
          /\ disk'[att[a].dir].request = disk[att[a].dir].request
          /\ disk'[att[a].dir].receipt = disk[att[a].dir].receipt
          /\ disk'[att[a].dir].submitted = LaunchRequest(att[a].binding)
      BY <2>1, <2>2 DEF Inv, LaunchTypeOK
    <2>4. /\ \A c \in Attempts : c # a => att'[c] = att[c]
          /\ att'[a].pc = "submitted"
          /\ att'[a].dir = att[a].dir /\ att'[a].binding = att[a].binding
      BY <2>2 DEF Inv, LaunchTypeOK
    <2>5. \A c \in Attempts : att[c].pc \in Holding => att[c].dir \in Dirs
      BY DEF Inv, ProcessInv, Active
    <2> QED
      BY <2>1, <2>2, <2>3, <2>4, <2>5
  <1>4. ASSUME NEW a \in Attempts, Send(a)
        PROVE  DirectoryInv'
    BY <1>4 DEF Send, Goto, Inv, LaunchTypeOK, Holding
  <1>5. ASSUME NEW a \in Attempts, NEW status \in Statuses,
               NEW machine \in {None, att[a].answer}, Ends(a, status, machine)
        PROVE  DirectoryInv'
    <2>1. att[a].dir \in Dirs /\ att[a].pc \in Holding
      BY <1>5 DEF Inv, ProcessInv, Ends, Active
    <2>2. /\ \A e \in Dirs : e # att[a].dir => disk'[e] = disk[e]
          /\ \A c \in Attempts : c # a => att'[c] = att[c]
          /\ att'[a].pc = "over"
          /\ study' = study
      BY <1>5, <2>1 DEF Ends, Finish, Stop, Idle, Inv, LaunchTypeOK
    <2>3. \A c \in Attempts : att[c].pc \in Holding => att[c].dir \in Dirs
      BY DEF Inv, ProcessInv, Active
    <2>4. "over" \notin Holding
      BY DEF Holding
    <2> QED
      BY <2>1, <2>2, <2>3, <2>4
  <1>6. ASSUME NEW a \in Attempts, Kill(a)
        PROVE  DirectoryInv'
    BY <1>6 DEF Kill, Stop, Idle, Inv, LaunchTypeOK, Holding
  <1>7. ASSUME NEW w \in wire, Handle(w)
        PROVE  DirectoryInv'
    <2>1. \A c \in Attempts : /\ att'[c].pc = att[c].pc
                              /\ att'[c].dir = att[c].dir
                              /\ att'[c].binding = att[c].binding
      BY <1>7, HandleKeeps
    <2>2. disk' = disk /\ study' = study
      BY <1>7 DEF Handle
    <2> QED
      BY <2>1, <2>2
  <1>8. CASE UNCHANGED <<study, att, disk>>
    BY <1>8
  <1> QED
    BY <1>1, <1>2, <1>3, <1>4, <1>5, <1>6, <1>7, <1>8, NextCases
    DEF Work, Preflight, HostStores, Approve, Tick, vars

\* A traced request stays traced.
LEMMA TracedStep ==
    ASSUME Inv, DirectoryInv, [Next]_vars, study # "reasoner4",
           NEW q \in RequestType, Traced(q)
    PROVE  Traced(q)'
  <1>1. PICK e \in Dirs :
           /\ Admits(e, q)
           /\ \A c \in Attempts :
                 att[c].pc \in Holding /\ att[c].dir = e => att[c].pc = "waiting"
    BY DEF Traced
  <1>2. disk[e].submitted # None
    BY <1>1, RequestAssumption DEF Admits
  <1> SUFFICES /\ Admits(e, q)'
               /\ \A c \in Attempts :
                     att'[c].pc \in Holding /\ att'[c].dir = e => att'[c].pc = "waiting"
    BY DEF Traced
  <1>3. ASSUME disk'[e] = disk[e]
        PROVE  Admits(e, q)'
    BY <1>1, <1>3 DEF Admits
  <1>4. ASSUME NEW a \in Attempts, Begins(a)
        PROVE  /\ disk'[e] = disk[e]
               /\ \A c \in Attempts :
                     att'[c].pc \in Holding /\ att'[c].dir = e => att'[c].pc = "waiting"
    BY <1>1, <1>4 DEF Begins, Begin, Inv, LaunchTypeOK, Holding
  <1>5. ASSUME NEW a \in Attempts, MakeDirectory(a)
        PROVE  /\ disk'[e] = disk[e]
               /\ \A c \in Attempts :
                     att'[c].pc \in Holding /\ att'[c].dir = e => att'[c].pc = "waiting"
    <2>1. disk[e] # Absent
      BY <1>2 DEF Absent
    <2>2. att[a].dir \in Dirs
      BY <1>5 DEF Inv, ProcessInv, MakeDirectory, Active
    <2> QED
      BY <1>1, <1>5, <2>1, <2>2 DEF MakeDirectory, Goto, Stop, Idle, Inv, LaunchTypeOK, Holding
  <1>6. ASSUME NEW a \in Attempts, Saves(a)
        PROVE  /\ disk'[e] = disk[e]
               /\ \A c \in Attempts :
                     att'[c].pc \in Holding /\ att'[c].dir = e => att'[c].pc = "waiting"
    <2>1. att[a].dir \in Dirs /\ att[a].dir # e
      BY <1>1, <1>6 DEF Inv, ProcessInv, Saves, SaveSubmitted, Active, Holding
    <2> QED
      BY <1>1, <1>6, <2>1 DEF Saves, SaveSubmitted, Goto, Inv, LaunchTypeOK, Holding
  <1>7. ASSUME NEW a \in Attempts, Send(a)
        PROVE  /\ disk'[e] = disk[e]
               /\ \A c \in Attempts :
                     att'[c].pc \in Holding /\ att'[c].dir = e => att'[c].pc = "waiting"
    BY <1>1, <1>7 DEF Send, Goto, Inv, LaunchTypeOK, Holding
  <1>8. ASSUME NEW a \in Attempts, NEW status \in Statuses,
               NEW machine \in {None, att[a].answer}, Ends(a, status, machine)
        PROVE  /\ Admits(e, q)'
               /\ \A c \in Attempts :
                     att'[c].pc \in Holding /\ att'[c].dir = e => att'[c].pc = "waiting"
    <2>1. att[a].dir \in Dirs
      BY <1>8 DEF Inv, ProcessInv, Ends, Active
    <2>2. CASE att[a].dir # e
      BY <1>1, <1>3, <1>8, <2>1, <2>2
      DEF Ends, Finish, Stop, Idle, Inv, LaunchTypeOK, Holding
    <2>3. CASE att[a].dir = e
      <3>1. status \in {"launched", "launch_outcome_unknown"}
        BY <1>1, <1>8, <2>3 DEF Ends
      <3>2. /\ disk'[e].submitted = disk[e].submitted
            /\ disk'[e].receipt = Receipt(status, att[a].binding, machine)
        BY <1>8, <2>1, <2>3 DEF Ends, Finish, Inv, LaunchTypeOK
      <3>3. Admits(e, q)'
        BY <1>1, <3>1, <3>2 DEF Admits, Receipt
      <3> QED
        BY <1>1, <1>8, <3>3 DEF Ends, Finish, Stop, Idle, Inv, LaunchTypeOK, Holding
    <2> QED
      BY <2>2, <2>3
  <1>9. ASSUME NEW a \in Attempts, Kill(a)
        PROVE  /\ disk'[e] = disk[e]
               /\ \A c \in Attempts :
                     att'[c].pc \in Holding /\ att'[c].dir = e => att'[c].pc = "waiting"
    BY <1>1, <1>9 DEF Kill, Stop, Idle, Inv, LaunchTypeOK, Holding
  <1>10. ASSUME NEW w \in wire, Handle(w)
         PROVE  /\ disk'[e] = disk[e]
                /\ \A c \in Attempts :
                      att'[c].pc \in Holding /\ att'[c].dir = e => att'[c].pc = "waiting"
    <2>1. \A c \in Attempts : att'[c].pc = att[c].pc /\ att'[c].dir = att[c].dir
      BY <1>10, HandleKeeps
    <2> QED
      BY <1>1, <1>10, <2>1 DEF Handle
  <1>11. ASSUME UNCHANGED <<att, disk>>
         PROVE  /\ disk'[e] = disk[e]
                /\ \A c \in Attempts :
                      att'[c].pc \in Holding /\ att'[c].dir = e => att'[c].pc = "waiting"
    BY <1>1, <1>11
  <1> QED
    BY <1>3, <1>4, <1>5, <1>6, <1>7, <1>8, <1>9, <1>10, <1>11, NextCases
    DEF Work, Preflight, HostStores, Approve, Tick, vars

\* Only EC2 makes machines.
LEMMA MachineSources ==
    ASSUME Inv, [Next]_vars
    PROVE  \/ machines' = machines
           \/ \E w \in wire : \A m \in machines' \ machines :
                 m = [request |-> w.request, started |-> now]
  <1>1. ASSUME NEW w \in wire, Handle(w)
        PROVE  \A m \in machines' \ machines : m = [request |-> w.request, started |-> now]
    BY <1>1, HandleAnswers
  <1>2. \/ \E w \in wire : Handle(w)
        \/ machines' = machines
    BY NextCases
    DEF Work, Begins, Begin, MakeDirectory, Saves, SaveSubmitted, Send,
        RoleCheckRequest, RolePrepare, Ends, Finish, Kill, Preflight,
        HostStores, Approve, Tick, vars
  <1> QED
    BY <1>1, <1>2

LEMMA TraceStep ==
    ASSUME Inv, DirectoryInv, TraceInv, [Next]_vars
    PROVE  TraceInv'
  <1>1. study' = study
    BY NextCases DEF Work, Begins, Begin, MakeDirectory, Saves, SaveSubmitted, Send,
         RoleCheckRequest, RolePrepare, Ends, Finish, Kill, Handle, Preflight,
         HostStores, Approve, Tick, vars
  <1> SUFFICES ASSUME study # "reasoner4"
               PROVE  /\ \A w \in wire' : Traced(w.request)'
                      /\ \A m \in machines' : Traced(m.request)'
    BY <1>1 DEF TraceInv
  <1>2. /\ \A w \in wire : w.request \in RequestType /\ Traced(w.request)
        /\ \A m \in machines : m.request \in RequestType /\ Traced(m.request)
    BY DEF TraceInv, Inv, LaunchTypeOK, MachineType
  <1>3. /\ \A w \in wire : Traced(w.request)'
        /\ \A m \in machines : Traced(m.request)'
    BY <1>2, TracedStep
  <1>4. ASSUME NEW a \in Attempts, Send(a), NEW q, q = LaunchRequest(att[a].binding)
        PROVE  Traced(q)'
    <2>1. /\ att[a].dir \in Dirs
          /\ att[a].pc = "submitted" /\ att[a].pc \in Holding
      BY <1>4 DEF Inv, ProcessInv, Send, Active, Holding
    <2>2. /\ disk[att[a].dir].submitted = LaunchRequest(att[a].binding)
          /\ disk[att[a].dir].receipt = None
          /\ \A c \in Attempts : att[c].pc \in Holding /\ att[c].dir = att[a].dir => c = a
      BY <2>1 DEF DirectoryInv
    <2>3. disk' = disk /\ att' = [att EXCEPT ![a].pc = "waiting"]
      BY <1>4 DEF Send, Goto
    <2>4. /\ att'[a].pc = "waiting"
          /\ \A c \in Attempts : c # a => att'[c] = att[c]
      BY <2>3 DEF Inv, LaunchTypeOK
    <2> QED
      BY <1>4, <2>1, <2>2, <2>3, <2>4 DEF Traced, Admits
  <1>5. \/ \E a \in Attempts :
              /\ Send(a)
              /\ wire' = wire \cup {[request |-> LaunchRequest(att[a].binding), by |-> a]}
        \/ wire' \subseteq wire
    BY NextCases, HandleAnswers
    DEF Work, Begins, Begin, MakeDirectory, Saves, SaveSubmitted, Send,
        RoleCheckRequest, RolePrepare, Ends, Finish, Kill, Preflight,
        HostStores, Approve, Tick, vars
  <1>6. \/ machines' = machines
        \/ \E w \in wire : \A m \in machines' \ machines :
              m = [request |-> w.request, started |-> now]
    BY MachineSources
  <1> QED
    BY <1>3, <1>4, <1>5, <1>6

-------------------------------------------------------------------------------
(* What was checked before a launch.                                       *)

LEMMA SecondsTyped == \A s \in DOMAIN Settings : Settings[s].seconds \in Nat
  BY DEF Settings, Frozen, Zero4Render, WeightPilotRender, WeightRender, SolomonRender,
         StudyRender, CoverageRender, ReasonerRender, FeralRender, RoleFrozen

\* Time passes and receipts are added: what was allowed stays allowed.
LEMMA AllowedKept ==
    ASSUME NEW b, b.epoch \in Nat, now \in Nat, now' \in Nat, now <= now',
           study' = study, approved => approved', preflights \subseteq preflights',
           Allowed(b)
    PROVE  Allowed(b)'
  <1>1. Demanded' = Demanded
    BY DEF Demanded
  <1>2. Vouched(b) => Vouched(b)'
    BY <1>1 DEF Vouched
  <1>3. b.epoch <= now'
    BY DEF Allowed
  <1> QED
    BY <1>2, <1>3 DEF Allowed

LEMMA ClearedAllowed ==
    ASSUME LaunchTypeOK, NEW b \in Binding, Cleared(b),
           \A p \in preflights : p.status = "passed" => Demanded \subseteq p.data
    PROVE  Allowed(b)
  <1>1. now \in Nat /\ b.epoch \in Nat
    BY CloudLaunchAssumption DEF LaunchTypeOK, Binding
  <1>2. b.epoch <= now /\ now <= b.epoch + Window
    BY <1>1 DEF Cleared, FreshEpoch, Window
  <1>3. ASSUME FreshPreflight(b)
        PROVE  Vouched(b)
    <2>1. PICK p \in preflights :
             /\ p.status = "passed"
             /\ p.run = b.run
             /\ p.version = b.version
             /\ now - p.checked \in 0 .. Validity
      BY <1>3 DEF FreshPreflight
    <2>2. p.checked \in Nat
      BY CloudLaunchAssumption DEF LaunchTypeOK
    <2>3. now - p.checked >= 0 /\ now - p.checked <= 3600
      <3>1. PICK d \in 0 .. Validity : d = now - p.checked
        BY <2>1
      <3>2. Validity \in Nat
        BY DEF Validity
      <3>3. d \in Int /\ d >= 0 /\ d <= Validity
        BY <3>2
      <3> QED
        BY <3>1, <3>3 DEF Validity
    <2>4. p.checked >= b.epoch - 3600 /\ p.checked <= b.epoch + 60
      BY <1>1, <1>2, <2>2, <2>3 DEF Window
    <2>5. p.checked \in b.epoch - Validity .. b.epoch + Window
      BY <1>1, <2>2, <2>4 DEF Validity, Window
    <2> QED
      BY <2>1, <2>5 DEF Vouched
  <1> QED
    BY <1>2, <1>3 DEF Allowed, Cleared

LEMMA RequestAllowed ==
    ASSUME NEW b \in Binding
    PROVE  Allowed(LaunchRequest(b)) <=> Allowed(b)
  BY DEF Allowed, Vouched, LaunchRequest

LEMMA ClearStep ==
    ASSUME Inv, ClearInv, [Next]_vars
    PROVE  ClearInv'
  <1>1. /\ study' = study
        /\ approved => approved'
        /\ preflights \subseteq preflights'
    <2>1. study' = study
      BY NextCases DEF Work, Begins, Begin, MakeDirectory, Saves, SaveSubmitted, Send,
           RoleCheckRequest, RolePrepare, Ends, Finish, Kill, Handle, Preflight,
           HostStores, Approve, Tick, vars
    <2>2. approved' = approved \/ approved' = TRUE
      BY NextCases DEF Work, Begins, Begin, MakeDirectory, Saves, SaveSubmitted, Send,
           RoleCheckRequest, RolePrepare, Ends, Finish, Kill, Handle, Preflight,
           HostStores, Approve, Tick, vars
    <2>3. preflights \subseteq preflights'
      BY NextCases DEF Work, Begins, Begin, MakeDirectory, Saves, SaveSubmitted, Send,
           RoleCheckRequest, RolePrepare, Ends, Finish, Kill, Handle, Preflight,
           HostStores, Approve, Tick, vars
    <2> QED
      BY <2>1, <2>2, <2>3
  <1>2. now \in Nat /\ now' \in Nat /\ now <= now'
    <2>1. now \in Nat
      BY CloudLaunchAssumption DEF Inv, LaunchTypeOK
    <2>2. \/ now' = now
          \/ now' \in Instants /\ now' > now
      BY NextCases DEF Work, Begins, Begin, MakeDirectory, Saves, SaveSubmitted, Send,
           RoleCheckRequest, RolePrepare, Ends, Finish, Kill, Handle, Preflight,
           HostStores, Approve, Tick, vars
    <2>3. CASE now' = now
      BY <2>1, <2>3
    <2>4. CASE now' \in Instants /\ now' > now
      <3>1. now' \in Nat
        BY <2>4, CloudLaunchAssumption
      <3> QED
        BY <2>1, <2>4, <3>1
    <2> QED
      BY <2>2, <2>3, <2>4
  <1>3. \A b \in Binding \cup RequestType : b.epoch \in Nat
    BY CloudLaunchAssumption DEF Binding, RequestType
  <1>4. \A b \in Binding \cup RequestType : Allowed(b) => Allowed(b)'
    BY <1>1, <1>2, <1>3, AllowedKept
  <1>5. Demanded' = Demanded
    BY <1>1 DEF Demanded
  <1>6. \A p \in preflights' : p.status = "passed" => Demanded' \subseteq p.data
    <2>1. ASSUME NEW b \in Binding, NEW data \in Observations, NEW dryRun \in BOOLEAN,
                 Preflight(b, data, dryRun)
          PROVE  \A p \in preflights' : p.status = "passed" => Demanded \subseteq p.data
      BY <2>1 DEF Preflight, Validate, ClearInv
    <2>2. \/ \E b \in Binding, data \in Observations, dryRun \in BOOLEAN :
                Preflight(b, data, dryRun)
          \/ preflights' = preflights
      BY NextCases DEF Work, Begins, Begin, MakeDirectory, Saves, SaveSubmitted, Send,
           RoleCheckRequest, RolePrepare, Ends, Finish, Kill, Handle,
           HostStores, Approve, Tick, vars
    <2> QED
      BY <1>5, <2>1, <2>2 DEF ClearInv
  <1>7. \A w \in wire' : Allowed(w.request)'
    <2>1. \/ \E a \in Attempts :
                /\ Send(a)
                /\ wire' = wire \cup {[request |-> LaunchRequest(att[a].binding), by |-> a]}
          \/ wire' \subseteq wire
      BY NextCases, HandleAnswers
      DEF Work, Begins, Begin, MakeDirectory, Saves, SaveSubmitted, Send,
          RoleCheckRequest, RolePrepare, Ends, Finish, Kill, Preflight,
          HostStores, Approve, Tick, vars
    <2>2. \A w \in wire : Allowed(w.request)'
      BY <1>4 DEF ClearInv, Inv, LaunchTypeOK
    <2>3. ASSUME NEW a \in Attempts, Send(a), NEW q, q = LaunchRequest(att[a].binding)
          PROVE  Allowed(q)'
      <3>1. att[a].binding \in Binding /\ Checked(a)
        BY <2>3 DEF Inv, ProcessInv, Send, Active, Holding, Checked
      <3>2. Allowed(LaunchRequest(att[a].binding))
        BY <3>1, RequestAllowed DEF ClearInv
      <3>3. LaunchRequest(att[a].binding) \in RequestType
        BY <3>1, RequestTyped
      <3> QED
        BY <1>4, <2>3, <3>2, <3>3
    <2> QED
      BY <2>1, <2>2, <2>3
  <1>8. \A m \in machines' : Allowed(m.request)' /\ m.request.epoch <= m.started
    <2>1. \A m \in machines : Allowed(m.request)' /\ m.request.epoch <= m.started
      BY <1>4 DEF ClearInv, Inv, LaunchTypeOK, MachineType
    <2>2. \/ machines' = machines
          \/ \E w \in wire : \A m \in machines' \ machines :
                m = [request |-> w.request, started |-> now]
      BY MachineSources
    <2>3. \A w \in wire : Allowed(w.request)' /\ w.request.epoch <= now
      BY <1>4 DEF ClearInv, Inv, LaunchTypeOK, Allowed
    <2> QED
      BY <2>1, <2>2, <2>3
  <1>9. \A c \in Attempts, b \in Binding :
           Checked(c)' /\ att'[c].binding = b => Allowed(b)'
    <2>1. \A c \in Attempts, b \in Binding :
             Checked(c) /\ att[c].binding = b => Allowed(b)'
      BY <1>4 DEF ClearInv
    <2>2. ASSUME NEW b \in Binding, Cleared(b)
          PROVE  Allowed(b)'
      BY <1>4, <2>2, ClearedAllowed DEF ClearInv, Inv
    <2>3. ASSUME NEW a \in Attempts, Begins(a)
          PROVE  \A c \in Attempts, b \in Binding :
                    Checked(c)' /\ att'[c].binding = b => Allowed(b)'
      <3>1. PICK mode \in {"render", "dry-run", "launch"}, d \in Dirs, e \in Binding :
               /\ mode = "launch" /\ study # "feral" => Cleared(e)
               /\ att' = [att EXCEPT ![a] = [pc |-> "checked", mode |-> mode, dir |-> d,
                                             binding |-> e, answer |-> None]]
        BY <2>3 DEF Begins, Begin
      <3>2. /\ \A c \in Attempts : c # a => att'[c] = att[c]
            /\ att'[a].pc = "checked" /\ att'[a].mode = mode /\ att'[a].binding = e
        BY <3>1 DEF Inv, LaunchTypeOK
      <3>3. \A c \in Attempts : c # a => (Checked(c)' <=> Checked(c))
        BY <1>1, <3>2 DEF Checked
      <3>4. Checked(a)' => Cleared(e)
        BY <1>1, <3>1, <3>2 DEF Checked
      <3> QED
        BY <2>1, <2>2, <3>2, <3>3, <3>4
    <2>4. ASSUME NEW a \in Attempts, Saves(a)
          PROVE  \A c \in Attempts, b \in Binding :
                    Checked(c)' /\ att'[c].binding = b => Allowed(b)'
      <3>1. att' = [att EXCEPT ![a].pc = "submitted"]
        BY <2>4 DEF Saves, SaveSubmitted, Goto
      <3>2. /\ \A c \in Attempts : c # a => att'[c] = att[c]
            /\ att'[a].mode = att[a].mode /\ att'[a].binding = att[a].binding
        BY <3>1 DEF Inv, LaunchTypeOK
      <3>3. \A c \in Attempts : c # a => (Checked(c)' <=> Checked(c))
        BY <1>1, <3>2 DEF Checked
      <3>4. att[a].pc = "rendered"
        BY <2>4 DEF Saves, SaveSubmitted
      <3>5. Checked(a)' => Checked(a) \/ Cleared(att[a].binding)
        BY <2>4, <3>2, <3>4 DEF Saves, Checked
      <3> QED
        BY <2>1, <2>2, <3>2, <3>3, <3>5
    <2>5. ASSUME \A c \in Attempts : Checked(c)' => Checked(c) /\ att'[c].binding = att[c].binding
          PROVE  \A c \in Attempts, b \in Binding :
                    Checked(c)' /\ att'[c].binding = b => Allowed(b)'
      BY <2>1, <2>5
    <2>6. ASSUME NEW a \in Attempts, \A c \in Attempts : c # a => att'[c] = att[c],
                 \/ att'[a].mode = None
                 \/ /\ att'[a].mode = att[a].mode /\ att'[a].binding = att[a].binding
                    /\ \/ att[a].pc = "checked" /\ att'[a].pc = "rendered"
                       \/ att[a].pc = "rendered" /\ att'[a].pc = "submitted" /\ study = "reasoner4"
                       \/ att[a].pc = "submitted" /\ att'[a].pc = "waiting"
          PROVE  \A c \in Attempts : Checked(c)' => Checked(c) /\ att'[c].binding = att[c].binding
      BY <1>1, <2>6, StudiesAssumption DEF Checked
    <2>7. ASSUME NEW a \in Attempts, Stop(a)
          PROVE  /\ \A c \in Attempts : c # a => att'[c] = att[c]
                 /\ att'[a].mode = None
      BY <2>7 DEF Stop, Idle, Inv, LaunchTypeOK
    <2>8. ASSUME NEW a \in Attempts, NEW pc, Goto(a, pc)
          PROVE  /\ \A c \in Attempts : c # a => att'[c] = att[c]
                 /\ att'[a].mode = att[a].mode /\ att'[a].binding = att[a].binding
                 /\ att'[a].pc = pc
      BY <2>8 DEF Goto, Inv, LaunchTypeOK
    <2>9. ASSUME NEW a \in Attempts, MakeDirectory(a)
          PROVE  \A c \in Attempts : Checked(c)' => Checked(c) /\ att'[c].binding = att[c].binding
      BY <2>6, <2>7, <2>8, <2>9 DEF MakeDirectory
    <2>10. ASSUME NEW a \in Attempts, RoleCheckRequest(a)
           PROVE  \A c \in Attempts : Checked(c)' => Checked(c) /\ att'[c].binding = att[c].binding
      BY <2>6, <2>7, <2>8, <2>10 DEF RoleCheckRequest
    <2>11. ASSUME NEW a \in Attempts, RolePrepare(a), study = "reasoner4"
           PROVE  \A c \in Attempts : Checked(c)' => Checked(c) /\ att'[c].binding = att[c].binding
      BY <2>6, <2>8, <2>11 DEF RolePrepare
    <2>12. ASSUME NEW a \in Attempts, Send(a)
           PROVE  \A c \in Attempts : Checked(c)' => Checked(c) /\ att'[c].binding = att[c].binding
      BY <2>6, <2>8, <2>12 DEF Send
    <2>13. ASSUME NEW a \in Attempts, NEW status \in Statuses,
                  NEW machine \in {None, att[a].answer}, Ends(a, status, machine)
           PROVE  \A c \in Attempts : Checked(c)' => Checked(c) /\ att'[c].binding = att[c].binding
      BY <2>6, <2>7, <2>13 DEF Ends, Finish
    <2>14. ASSUME NEW a \in Attempts, Kill(a)
           PROVE  \A c \in Attempts : Checked(c)' => Checked(c) /\ att'[c].binding = att[c].binding
      BY <2>6, <2>7, <2>14 DEF Kill
    <2>15. ASSUME NEW w \in wire, Handle(w)
           PROVE  \A c \in Attempts : Checked(c)' => Checked(c) /\ att'[c].binding = att[c].binding
      <3>1. \A c \in Attempts : /\ att'[c].pc = att[c].pc
                                /\ att'[c].mode = att[c].mode
                                /\ att'[c].binding = att[c].binding
        BY <2>15, HandleKeeps
      <3> QED
        BY <1>1, <3>1 DEF Checked
    <2>16. ASSUME att' = att
           PROVE  \A c \in Attempts : Checked(c)' => Checked(c) /\ att'[c].binding = att[c].binding
      BY <1>1, <2>16 DEF Checked
    <2>17. \/ \E a \in Attempts : Begins(a) \/ Saves(a)
           \/ \A c \in Attempts : Checked(c)' => Checked(c) /\ att'[c].binding = att[c].binding
      BY <2>9, <2>10, <2>11, <2>12, <2>13, <2>14, <2>15, <2>16, NextCases
      DEF Work, Preflight, HostStores, Approve, Tick, vars
    <2> QED
      BY <2>3, <2>4, <2>5, <2>17
  <1>10. ProcessInv'
    BY ProcessStep
  <1>11. (\A c \in Attempts : Checked(c) => Allowed(att[c].binding))'
    BY <1>9, <1>10 DEF ProcessInv, Checked, Active, Holding, Allowed, Vouched
  <1> QED
    BY <1>6, <1>7, <1>8, <1>11 DEF ClearInv

-------------------------------------------------------------------------------
(* The receipt that says launched.                                         *)

LEMMA LaunchedStep ==
    ASSUME Inv, LaunchedNamesMachine, [Next]_vars
    PROVE  LaunchedNamesMachine'
  <1> USE DEF LaunchedNamesMachine
  <1>1. machines \subseteq machines'
    BY NextCases, HandleAnswers
    DEF Work, Begins, Begin, MakeDirectory, Saves, SaveSubmitted, Send,
        RoleCheckRequest, RolePrepare, Ends, Finish, Kill, Preflight,
        HostStores, Approve, Tick, vars
  <1>2. ASSUME \A d \in Dirs : disk'[d].receipt = disk[d].receipt
        PROVE  LaunchedNamesMachine'
    BY <1>1, <1>2
  <1>3. ASSUME NEW a \in Attempts, MakeDirectory(a) \/ Saves(a)
        PROVE  LaunchedNamesMachine'
    BY <1>2, <1>3 DEF MakeDirectory, Saves, SaveSubmitted, Inv, LaunchTypeOK
  <1>4. ASSUME NEW a \in Attempts, RolePrepare(a)
        PROVE  LaunchedNamesMachine'
    <2>1. \A d \in Dirs : \/ disk'[d] = disk[d]
                          \/ disk'[d].receipt.status = "prepared"
      BY <1>4 DEF RolePrepare, Receipt, Inv, LaunchTypeOK
    <2> QED
      BY <1>1, <2>1
  <1>5. ASSUME NEW a \in Attempts, NEW status \in Statuses,
               NEW machine \in {None, att[a].answer}, Ends(a, status, machine)
        PROVE  LaunchedNamesMachine'
    <2>1. \A d \in Dirs : \/ disk'[d] = disk[d]
                          \/ disk'[d].receipt = Receipt(status, att[a].binding, machine)
      BY <1>5 DEF Ends, Finish, Inv, LaunchTypeOK
    <2>2. CASE status # "launched"
      <3>1. Receipt(status, att[a].binding, machine).status # "launched"
        BY <2>2 DEF Receipt
      <3> QED
        BY <1>1, <2>1, <3>1
    <2>3. CASE status = "launched"
      <3>1. machine = att[a].answer /\ att[a].answer # None
        BY <1>5, <2>3 DEF Ends
      <3>2. machine \in machines /\ machine.request = LaunchRequest(att[a].binding)
        BY <3>1 DEF Inv, ProcessInv
      <3>3. LET r == Receipt(status, att[a].binding, machine) IN
            /\ r.machine \in machines'
            /\ r.run = r.machine.request.run
            /\ r.epoch = r.machine.request.epoch
            /\ r.version = r.machine.request.version
        BY <1>1, <3>2 DEF Receipt, LaunchRequest
      <3> QED
        BY <1>1, <2>1, <3>3
    <2> QED
      BY <2>2, <2>3
  <1>6. ASSUME disk' = disk
        PROVE  LaunchedNamesMachine'
    BY <1>2, <1>6
  <1> QED
    BY <1>3, <1>4, <1>5, <1>6, NextCases
    DEF Work, Begins, Begin, Send, RoleCheckRequest, Kill, Handle, Preflight,
        HostStores, Approve, Tick, vars

-------------------------------------------------------------------------------
(* The theorems.                                                           *)

LEMMA Invariance == Spec => []IInv
  <1>1. IInv /\ [Next]_vars => IInv'
    BY TypeStep, ProcessStep, WireStep, DirectoryStep, TraceStep, ClearStep, LaunchedStep
    DEF IInv, Inv
  <1> QED
    BY InitInv, <1>1, PTL DEF Spec

(* Every variable keeps the shape the scripts give it.                     *)
THEOREM LaunchTypeCorrect == Spec => []LaunchTypeOK
  <1>1. IInv => LaunchTypeOK
    BY DEF IInv, Inv
  <1> QED
    BY Invariance, <1>1, PTL

(* However many processes launch a run, at whatever epochs and through     *)
(* whatever lost answers and deaths, one machine runs it and a directory   *)
(* admits to it.                                                           *)
THEOREM MachinesCorrect == Spec => []MachinesAccounted
  <1>1. IInv => MachinesAccounted
    BY DEF IInv, Inv, TokenInv, TraceInv, Traced, MachinesAccounted, MachineTraceable
  <1> QED
    BY Invariance, <1>1, PTL

(* A receipt that says launched names a machine of its own request.        *)
THEOREM LaunchedCorrect == Spec => []LaunchedNamesMachine
  <1>1. IInv => LaunchedNamesMachine
    BY DEF IInv
  <1> QED
    BY Invariance, <1>1, PTL

(* No machine without the approval and the fresh, passed preflight its     *)
(* script demands, and none that outlives the approved seconds.            *)
THEOREM AuthorisedCorrect == Spec => []LaunchAuthorised
  <1>1. ASSUME IInv, NEW m \in machines
        PROVE  Deadline(m.request) - m.started <= Settings[study].seconds
    <2>1. Settings[study].seconds \in Nat
      BY <1>1, SecondsTyped DEF IInv, Inv, LaunchTypeOK
    <2>2. m.request.epoch \in Nat /\ m.started \in Nat
      BY <1>1, CloudLaunchAssumption DEF IInv, Inv, LaunchTypeOK, MachineType, RequestType
    <2>3. m.request.epoch <= m.started
      BY <1>1 DEF IInv, ClearInv
    <2> HIDE DEF Settings
    <2> DEFINE s == Settings[study].seconds
    <2>4. s \in Nat /\ Deadline(m.request) = m.request.epoch + s
      BY <2>1 DEF Deadline
    <2> HIDE DEF s
    <2>5. Deadline(m.request) - m.started <= s
      BY <2>2, <2>3, <2>4
    <2> QED
      BY <2>5 DEF s
  <1>2. IInv => LaunchAuthorised
    BY <1>1 DEF IInv, ClearInv, Allowed, Vouched, LaunchAuthorised
  <1> QED
    BY Invariance, <1>2, PTL
================================================================================
