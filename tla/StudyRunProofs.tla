---------------------------- MODULE StudyRunProofs -----------------------------
(***************************************************************************)
(* Theorems about the processes of a supervised study, for any number of   *)
(* arms and passes, any limits and any number of faults: nothing outlives  *)
(* the call of run_process that started it, the attempt on disk accounts   *)
(* for the work done, and a verified study is a whole one.                 *)
(***************************************************************************)
EXTENDS StudyRun, FiniteSetTheorems, TLAPS

Signals == {"TERM", "KILL"}

ProcType ==
    [st : {"unborn", "runs", "zombie", "gone"}, term : {"dies", "handles", "deaf"},
     told : BOOLEAN, code : Int, flood : BOOLEAN]

CallType ==
    [pc : {"idle", "poll", "done"}, left : Nat, term : Nat, sent : SUBSET Signals,
     why : {"none", "cancelled", "deadline", "log_size_limit", "descendants_after_leader_exit"},
     status : {"failed", "skipped", "complete"}, code : Int, cleanup : BOOLEAN,
     raised : BOOLEAN]

\* What the proofs use of the shape of the state.
ShapeInv ==
    /\ proc \in [Procs -> ProcType]
    /\ call \in [Calls -> CallType]
    /\ DOMAIN ctl = {"pc", "item", "left", "attempt"} /\ ctl.left \in Nat
    /\ DOMAIN sup = {"pc", "terminal"}
    /\ DOMAIN world = {"made", "now", "ended", "faults", "struck", "damaged"}

\* The supervisor starts one controller; nothing of it runs without its call.
OuterInv ==
    /\ sup.pc \in {"start", "limits", "launch"} => call["outer"].pc = "idle"
    /\ call["outer"].pc = "idle" => ctl.pc = "none" /\ proc["ctl"].st = "unborn"
    /\ call["outer"].pc = "done" => ~Running("ctl")
    /\ ~proc["ctl"].flood
    /\ proc["ctl"].term # "deaf"

\* Where the controller's handlers are installed.
Guarding == {"inputs", "next", "start", "wait", "rows", "note", "restore"}

\* Jobs run only under the controller's call, and not once it has sent a KILL.
InnerInv ==
    /\ ctl.pc \in Guarding /\ Running("ctl") => proc["ctl"].term = "handles"
    /\ ctl.pc # "wait" => call["inner"].pc = "idle"
    /\ call["inner"].pc # "poll" \/ "KILL" \in call["inner"].sent
         => ~Running("job") /\ ~Running("kid")
    /\ call["inner"].pc = "poll" /\ call["inner"].sent = {"TERM"}
         => call["inner"].term <= Grace

\* Between the supervisor's TERM and its KILL the controller's own grace is
\* over first.
Shorter ==
    \/ "KILL" \in call["inner"].sent
    \/ call["inner"].sent = {} /\ call["outer"].term = Grace + Extra
    \/ call["inner"].sent = {"TERM"} /\ call["inner"].term + Extra <= call["outer"].term

GraceInv ==
    call["outer"].pc = "poll" /\ call["outer"].sent # {} /\ Running("ctl") =>
        /\ call["outer"].sent = {"TERM"}
        /\ proc["ctl"].told
        /\ call["inner"].pc = "poll" => Shorter

\* A controller that nobody struck leaves no job behind.
OrphanInv ==
    ~Running("ctl") /\ "ctl" \notin world.struck /\ ~call["outer"].raised
        => ~Running("job") /\ ~Running("kid")

IInv == ShapeInv /\ OuterInv /\ InnerInv /\ GraceInv /\ OrphanInv

--------------------------------------------------------------------------------
(* Signals and the process table.                                           *)

LEMMA ProcsAre == \A p \in Procs : p \in {"sup", "ctl", "job", "kid"}
  BY DEF Procs

LEMMA CallFacts ==
    /\ Calls = {"outer", "inner"}
    /\ Owner["outer"] = "sup" /\ Owner["inner"] = "ctl"
    /\ Leader["outer"] = "ctl" /\ Leader["inner"] = "job"
    /\ Group["outer"] = {"ctl"} /\ Group["inner"] = {"job", "kid"}
    /\ GraceOf["outer"] = Grace + Extra /\ GraceOf["inner"] = Grace
    /\ GraceOf["outer"] \in Nat /\ GraceOf["inner"] \in Nat
  BY GraceAssumption DEF Calls, Owner, Leader, Group, GraceOf

\* A signal ends a process or leaves a mark on it; it starts none.
LEMMA ReceivesFacts ==
    ASSUME NEW p \in ProcType, NEW number \in Signals
    PROVE  /\ Receives(p, number) \in ProcType
           /\ Receives(p, number).flood = p.flood
           /\ Receives(p, number).term = p.term
           /\ p.st # "runs" => Receives(p, number) = p
           /\ number = "KILL" => Receives(p, number).st # "runs"
           /\ Receives(p, number).st = "runs" => p.st = "runs"
           /\ p.st # "unborn" => Receives(p, number).st # "unborn"
           /\ number = "TERM" /\ p.term = "dies" => Receives(p, number).st # "runs"
           /\ number = "TERM" /\ p.term = "handles" /\ p.st = "runs" =>
                Receives(p, number).told
           /\ p.told => Receives(p, number).told
  <1>1. CASE p.st # "runs"
    BY <1>1 DEF Receives, ProcType
  <1>2. CASE p.st = "runs" /\ Ended(p, number)
    <2>1. \A n \in Int : [[p EXCEPT !.st = "zombie"] EXCEPT !.code = n] \in ProcType
      BY DEF ProcType
    <2> DEFINE q == [p EXCEPT !.st = "zombie", !.code = IF number = "KILL" THEN 9 ELSE 15]
    <2>2. q \in ProcType
      <3>1. q = [[p EXCEPT !.st = "zombie"] EXCEPT !.code = IF number = "KILL" THEN 9 ELSE 15]
        OBVIOUS
      <3>2. (IF number = "KILL" THEN 9 ELSE 15) \in Int
        OBVIOUS
      <3> QED
        BY <2>1, <3>1, <3>2
    <2>3. q.st = "zombie" /\ q.flood = p.flood /\ q.term = p.term /\ q.told = p.told
      BY DEF ProcType
    <2>4. Receives(p, number) = q
      BY <1>2 DEF Receives
    <2> HIDE DEF q
    <2> QED
      BY <1>2, <2>2, <2>3, <2>4 DEF Ended
  <1>3. CASE p.st = "runs" /\ ~Ended(p, number)
    <2> DEFINE t == p.told \/ p.term = "handles"
               q == [p EXCEPT !.told = t]
    <2>1. t \in BOOLEAN
      OBVIOUS
    <2>2. \A b \in BOOLEAN : /\ [p EXCEPT !.told = b] \in ProcType
                             /\ [p EXCEPT !.told = b].told = b
                             /\ [p EXCEPT !.told = b].st = p.st
                             /\ [p EXCEPT !.told = b].flood = p.flood
                             /\ [p EXCEPT !.told = b].term = p.term
      BY DEF ProcType
    <2>3. Receives(p, number) = q
      BY <1>3 DEF Receives
    <2>4. number = "TERM" /\ p.term # "dies"
      BY <1>3 DEF Ended, Signals
    <2>5. t = (p.told \/ p.term = "handles")
      OBVIOUS
    <2>6. q \in ProcType /\ q.told = t /\ q.st = p.st /\ q.flood = p.flood /\ q.term = p.term
      <3> HIDE DEF t
      <3> QED
        BY <2>1, <2>2
    <2> HIDE DEF q
    <2> QED
      BY <1>3, <2>3, <2>4, <2>5, <2>6
  <1> QED
    BY <1>1, <1>2, <1>3

LEMMA SignalledFacts ==
    ASSUME NEW table \in [Procs -> ProcType], NEW S \in SUBSET Procs, NEW number \in Signals
    PROVE  /\ Signalled(table, S, number) \in [Procs -> ProcType]
           /\ \A p \in Procs \ S : Signalled(table, S, number)[p] = table[p]
           /\ \A p \in S : Signalled(table, S, number)[p] = Receives(table[p], number)
  BY ReceivesFacts DEF Signalled

LEMMA PutFacts ==
    ASSUME NEW p \in Procs, proc \in [Procs -> ProcType], NEW q \in ProcType,
           proc' = [proc EXCEPT ![p] = q]
    PROVE  /\ proc' \in [Procs -> ProcType] /\ proc'[p] = q
           /\ \A o \in Procs \ {p} : proc'[o] = proc[o]
  OBVIOUS

LEMMA HandlerFacts ==
    ASSUME NEW p \in Procs, proc \in [Procs -> ProcType],
           NEW t \in {"dies", "handles", "deaf"}, proc' = [proc EXCEPT ![p].term = t]
    PROVE  /\ proc' \in [Procs -> ProcType]
           /\ proc'[p].term = t /\ proc'[p].st = proc[p].st
           /\ proc'[p].told = proc[p].told /\ proc'[p].flood = proc[p].flood
           /\ \A o \in Procs \ {p} : proc'[o] = proc[o]
  <1> DEFINE q == [proc[p] EXCEPT !.term = t]
  <1>1. /\ q \in ProcType /\ q.term = t /\ q.st = proc[p].st
        /\ q.told = proc[p].told /\ q.flood = proc[p].flood
    BY DEF ProcType
  <1>2. proc' = [proc EXCEPT ![p] = q]
    OBVIOUS
  <1> HIDE DEF q
  <1> QED
    BY <1>1, <1>2, PutFacts

LEMMA ExitFacts ==
    ASSUME NEW p \in Procs, proc \in [Procs -> ProcType],
           NEW n \in Int, proc' = Exits(proc, p, n)
    PROVE  /\ proc' \in [Procs -> ProcType]
           /\ proc'[p].st = "zombie" /\ proc'[p].term = proc[p].term
           /\ proc'[p].told = proc[p].told /\ proc'[p].flood = proc[p].flood
           /\ \A o \in Procs \ {p} : proc'[o] = proc[o]
  <1> DEFINE q == [[proc[p] EXCEPT !.st = "zombie"] EXCEPT !.code = n]
  <1>1. /\ q \in ProcType /\ q.st = "zombie" /\ q.term = proc[p].term
        /\ q.told = proc[p].told /\ q.flood = proc[p].flood
    BY DEF ProcType
  <1>2. proc' = [proc EXCEPT ![p] = q]
    BY DEF Exits
  <1> HIDE DEF q
  <1> QED
    BY <1>1, <1>2, PutFacts

LEMMA SignalFacts ==
    ASSUME NEW p \in Procs, proc \in [Procs -> ProcType],
           NEW number \in Signals, proc' = Signalled(proc, {p}, number)
    PROVE  /\ proc' \in [Procs -> ProcType] /\ proc'[p] = Receives(proc[p], number)
           /\ \A o \in Procs \ {p} : proc'[o] = proc[o]
  <1>1. {p} \in SUBSET Procs
    OBVIOUS
  <1> QED
    BY <1>1, SignalledFacts

LEMMA WaitedFacts ==
    ASSUME NEW table \in [Procs -> ProcType], NEW c \in Calls
    PROVE  /\ Waited(table, c) \in [Procs -> ProcType]
           /\ Waited(table, c)[Leader[c]].st = "gone"
           /\ Waited(table, c)[Leader[c]].term = table[Leader[c]].term
           /\ Waited(table, c)[Leader[c]].flood = table[Leader[c]].flood
           /\ \A o \in Procs \ {Leader[c]} : Waited(table, c)[o] = table[o]
  <1> DEFINE l == Leader[c]
  <1>1. l \in Procs
    BY CallFacts DEF Procs
  <1>2. Waited(table, c) = [table EXCEPT ![l].st = "gone"]
    BY DEF Waited
  <1> HIDE DEF l
  <1> DEFINE q == [table[l] EXCEPT !.st = "gone"]
  <1>3. /\ q \in ProcType /\ q.st = "gone" /\ q.term = table[l].term
        /\ q.flood = table[l].flood
    BY <1>1 DEF ProcType
  <1>4. Waited(table, c) = [table EXCEPT ![l] = q]
    BY <1>2
  <1> HIDE DEF q
  <1> QED
    BY <1>1, <1>3, <1>4 DEF l

\* What a signal and an end write into a call.
LEMMA StopFacts ==
    ASSUME NEW c \in Calls, call \in [Calls -> CallType], proc \in [Procs -> ProcType],
           NEW why \in {"none", "cancelled", "deadline", "log_size_limit",
                        "descendants_after_leader_exit"},
           NEW number \in Signals, NEW r \in CallType, Stop(c, why, number, r)
    PROVE  /\ call' \in [Calls -> CallType]
           /\ call'[c].pc = r.pc /\ call'[c].term = r.term /\ call'[c].raised = r.raised
           /\ call'[c].sent = r.sent \cup {number}
           /\ \A d \in Calls \ {c} : call'[d] = call[d]
           /\ proc' \in [Procs -> ProcType]
           /\ \A p \in Procs \ Group[c] : proc'[p] = proc[p]
           /\ \A p \in Group[c] : proc'[p] = Receives(proc[p], number)
  <1> DEFINE q == [[r EXCEPT !.why = why] EXCEPT !.sent = r.sent \cup {number}]
  <1>1. /\ q \in CallType /\ q.pc = r.pc /\ q.term = r.term /\ q.raised = r.raised
        /\ q.sent = r.sent \cup {number}
    BY DEF CallType
  <1>2. call' = [call EXCEPT ![c] = q]
    BY DEF Stop
  <1>3. Group[c] \in SUBSET Procs
    BY CallFacts DEF Procs
  <1>4. proc' = Signalled(proc, Group[c], number)
    BY DEF Stop
  <1> HIDE DEF q
  <1>5. /\ call' \in [Calls -> CallType] /\ call'[c] = q
        /\ \A d \in Calls \ {c} : call'[d] = call[d]
    BY <1>1, <1>2
  <1>6. /\ proc' \in [Procs -> ProcType]
        /\ \A p \in Procs \ Group[c] : proc'[p] = proc[p]
        /\ \A p \in Group[c] : proc'[p] = Receives(proc[p], number)
    BY <1>3, <1>4, SignalledFacts
  <1> QED
    BY <1>1, <1>5, <1>6

LEMMA DoneFacts ==
    ASSUME NEW c \in Calls, call \in [Calls -> CallType], NEW r \in CallType, Done(c, r)
    PROVE  /\ call' \in [Calls -> CallType]
           /\ call'[c].pc = "done" /\ call'[c].raised = r.raised /\ call'[c].sent = r.sent
           /\ call'[c].term = 0
           /\ \A d \in Calls \ {c} : call'[d] = call[d]
  <1> DEFINE q == [[[r EXCEPT !.pc = "done"] EXCEPT !.left = 0] EXCEPT !.term = 0]
  <1>1. /\ q \in CallType /\ q.pc = "done" /\ q.raised = r.raised /\ q.sent = r.sent
        /\ q.term = 0
    BY DEF CallType
  <1>2. call' = [call EXCEPT ![c] = q]
    BY DEF Done
  <1> HIDE DEF q
  <1> QED
    BY <1>1, <1>2

\* One round of the poll loop: a KILL for the log or after the grace, the end of
\* the leader, or a TERM.
Killed(c) ==
    /\ call'[c].pc = "poll" /\ "KILL" \in call'[c].sent
    /\ \A p \in Group[c] : proc'[p].st # "runs"
Reaped(c) ==
    /\ call'[c].pc = "done"
    /\ \A p \in Group[c] : proc'[p].st # "runs"
Termed(c) ==
    /\ TermDue(c)
    /\ call'[c].pc = "poll" /\ call'[c].sent = {"TERM"} /\ call'[c].term = GraceOf[c]
    /\ \A p \in Group[c] : proc'[p] = Receives(proc[p], "TERM")

\* What every such round leaves alone.
Round(c) ==
    /\ proc' \in [Procs -> ProcType] /\ call' \in [Calls -> CallType]
    /\ \A d \in Calls \ {c} : call'[d] = call[d]
    /\ \A p \in Procs \ Group[c] : proc'[p] = proc[p]
    /\ \A p \in Group[c] :
          /\ proc'[p].flood = proc[p].flood /\ proc'[p].term = proc[p].term
          /\ proc'[p].st = "runs" => proc[p].st = "runs"
          /\ proc'[p].st = "unborn" => proc[p].st = "unborn"

LEMMA SignalledRound ==
    ASSUME NEW c \in Calls, proc \in [Procs -> ProcType], NEW number \in Signals,
           call' \in [Calls -> CallType], proc' \in [Procs -> ProcType],
           \A d \in Calls \ {c} : call'[d] = call[d],
           \A p \in Procs \ Group[c] : proc'[p] = proc[p],
           \A p \in Group[c] : proc'[p] = Receives(proc[p], number)
    PROVE  Round(c)
  <1>1. Group[c] \in SUBSET Procs
    BY CallFacts DEF Procs
  <1>2. ASSUME NEW p \in Group[c]
        PROVE  /\ proc'[p].flood = proc[p].flood /\ proc'[p].term = proc[p].term
               /\ proc'[p].st = "runs" => proc[p].st = "runs"
               /\ proc'[p].st = "unborn" => proc[p].st = "unborn"
    <2>1. proc[p] \in ProcType /\ proc'[p] = Receives(proc[p], number)
      BY <1>1
    <2> QED
      BY <2>1, ReceivesFacts
  <1> QED
    BY <1>2 DEF Round

LEMMA PollFacts ==
    ASSUME NEW c \in Calls, ShapeInv, RunProcess(c)
    PROVE  /\ Polling(c)
           /\ Round(c)
           /\ call'[c].raised = call[c].raised
           /\ \/ (LogDue(c) \/ KillDue(c)) /\ Killed(c)
              \/ WaitDue(c) /\ Reaped(c)
              \/ Termed(c)
  <1> USE DEF ShapeInv
  <1>1. c \in {"outer", "inner"} /\ Group[c] \in SUBSET Procs /\ Leader[c] \in Group[c]
        /\ GraceOf[c] \in Nat
    BY CallFacts DEF Procs
  <1>2. call[c] \in CallType
    OBVIOUS
  <1>3. "TERM" \in Signals /\ "KILL" \in Signals
    BY DEF Signals
  <1>4. \A p \in Procs, n \in Signals :
           /\ Receives(proc[p], n).flood = proc[p].flood
           /\ Receives(proc[p], n).term = proc[p].term
           /\ Receives(proc[p], n).st = "runs" => proc[p].st = "runs"
           /\ Receives(proc[p], n).st = "unborn" => proc[p].st = "unborn"
           /\ n = "KILL" => Receives(proc[p], n).st # "runs"
    BY ReceivesFacts
  <1>5. \A g \in Nat : /\ [call[c] EXCEPT !.term = g] \in CallType
                       /\ [call[c] EXCEPT !.term = g].pc = call[c].pc
                       /\ [call[c] EXCEPT !.term = g].term = g
                       /\ [call[c] EXCEPT !.term = g].sent = call[c].sent
                       /\ [call[c] EXCEPT !.term = g].raised = call[c].raised
    BY <1>2 DEF CallType
  <1>6. ASSUME PollLog(c) PROVE Polling(c) /\ Round(c) /\ call'[c].raised = call[c].raised
                                /\ LogDue(c) /\ Killed(c)
    <2> DEFINE r == [call[c] EXCEPT !.term = GraceOf[c]]
    <2>1. r \in CallType /\ r.pc = call[c].pc /\ r.raised = call[c].raised
      BY <1>1, <1>5
    <2>2. LogDue(c) /\ Stop(c, "log_size_limit", "KILL", r)
      BY <1>6 DEF PollLog
    <2> HIDE DEF r
    <2>3. /\ call' \in [Calls -> CallType]
          /\ call'[c].pc = r.pc /\ call'[c].raised = r.raised
          /\ call'[c].sent = r.sent \cup {"KILL"}
          /\ \A d \in Calls \ {c} : call'[d] = call[d]
          /\ proc' \in [Procs -> ProcType]
          /\ \A p \in Procs \ Group[c] : proc'[p] = proc[p]
          /\ \A p \in Group[c] : proc'[p] = Receives(proc[p], "KILL")
      BY <1>3, <2>1, <2>2, StopFacts
    <2>4. Polling(c) /\ call[c].pc = "poll"
      BY <2>2 DEF LogDue, Polling
    <2>5. Round(c)
      BY <1>3, <2>3, SignalledRound
    <2>6. Killed(c)
      BY <1>1, <1>3, <1>4, <2>1, <2>3, <2>4 DEF Killed
    <2> QED
      BY <2>1, <2>2, <2>3, <2>4, <2>5, <2>6
  <1>7. ASSUME PollKill(c) PROVE Polling(c) /\ Round(c) /\ call'[c].raised = call[c].raised
                                 /\ KillDue(c) /\ Killed(c)
    <2>1. KillDue(c) /\ Stop(c, call[c].why, "KILL", call[c])
      BY <1>7 DEF PollKill
    <2>2. call[c].why \in {"none", "cancelled", "deadline", "log_size_limit",
                           "descendants_after_leader_exit"}
      BY <1>2 DEF CallType
    <2>3. /\ call' \in [Calls -> CallType]
          /\ call'[c].pc = call[c].pc /\ call'[c].raised = call[c].raised
          /\ call'[c].sent = call[c].sent \cup {"KILL"}
          /\ \A d \in Calls \ {c} : call'[d] = call[d]
          /\ proc' \in [Procs -> ProcType]
          /\ \A p \in Procs \ Group[c] : proc'[p] = proc[p]
          /\ \A p \in Group[c] : proc'[p] = Receives(proc[p], "KILL")
      BY <1>2, <1>3, <2>1, <2>2, StopFacts
    <2>4. Polling(c) /\ call[c].pc = "poll"
      BY <2>1 DEF KillDue, Polling
    <2>5. Round(c)
      BY <1>3, <2>3, SignalledRound
    <2>6. Killed(c)
      BY <1>1, <1>3, <1>4, <2>3, <2>4 DEF Killed
    <2> QED
      BY <2>1, <2>3, <2>4, <2>5, <2>6
  <1>8. ASSUME PollTerm(c) PROVE Polling(c) /\ Round(c) /\ call'[c].raised = call[c].raised
                                 /\ Termed(c)
    <2> DEFINE r == [call[c] EXCEPT !.term = GraceOf[c]]
               why == IF Cancelled(c) THEN "cancelled" ELSE "deadline"
    <2>1. r \in CallType /\ r.pc = call[c].pc /\ r.raised = call[c].raised
          /\ r.sent = call[c].sent /\ r.term = GraceOf[c]
      BY <1>1, <1>5
    <2>2. TermDue(c) /\ Stop(c, why, "TERM", r)
      BY <1>8 DEF PollTerm
    <2>3. why \in {"none", "cancelled", "deadline", "log_size_limit",
                   "descendants_after_leader_exit"}
      OBVIOUS
    <2> HIDE DEF r, why
    <2>4. /\ call' \in [Calls -> CallType]
          /\ call'[c].pc = r.pc /\ call'[c].term = r.term /\ call'[c].raised = r.raised
          /\ call'[c].sent = r.sent \cup {"TERM"}
          /\ \A d \in Calls \ {c} : call'[d] = call[d]
          /\ proc' \in [Procs -> ProcType]
          /\ \A p \in Procs \ Group[c] : proc'[p] = proc[p]
          /\ \A p \in Group[c] : proc'[p] = Receives(proc[p], "TERM")
      BY <1>3, <2>1, <2>2, <2>3, StopFacts
    <2>5. Polling(c) /\ call[c].pc = "poll" /\ call[c].sent = {}
      BY <2>2 DEF TermDue, Polling, Started
    <2>6. Round(c)
      BY <1>3, <2>4, SignalledRound
    <2> QED
      BY <2>1, <2>2, <2>4, <2>5, <2>6 DEF Termed
  <1>9. ASSUME PollWait(c) PROVE Polling(c) /\ Round(c) /\ call'[c].raised = call[c].raised
                                 /\ WaitDue(c) /\ Reaped(c)
    <2> DEFINE left == Waited(proc, c)
               cleanup == GroupExists(left, Group[c])
               why == IF call[c].why = "none" /\ call[c].left = 0 THEN "deadline" ELSE call[c].why
               r == [[[call[c] EXCEPT !.code = proc[Leader[c]].code] EXCEPT !.cleanup = cleanup]
                        EXCEPT !.why = why]
               status == IF CompleteReceipt(r, cleanup) THEN "complete" ELSE "failed"
               reason == IF cleanup /\ r.why = "none" THEN "descendants_after_leader_exit" ELSE r.why
               q == [[r EXCEPT !.status = status] EXCEPT !.why = reason]
    <2>1. WaitDue(c) /\ proc' = Signalled(left, Group[c], "KILL") /\ Done(c, q)
      BY <1>9 DEF PollWait
    <2>2. proc[Leader[c]].code \in Int /\ cleanup \in BOOLEAN
      BY <1>1 DEF ProcType, GroupExists
    <2>3. why \in {"none", "cancelled", "deadline", "log_size_limit", "descendants_after_leader_exit"}
      BY <1>2 DEF CallType
    <2>4. r \in CallType /\ r.raised = call[c].raised /\ r.why = why
      <3> HIDE DEF cleanup, why
      <3> QED
        BY <1>2, <2>2, <2>3 DEF CallType
    <2>5. status \in {"failed", "skipped", "complete"}
      OBVIOUS
    <2>6. reason \in {"none", "cancelled", "deadline", "log_size_limit", "descendants_after_leader_exit"}
      <3> HIDE DEF r, why
      <3> QED
        BY <2>3, <2>4
    <2>7. q \in CallType /\ q.raised = call[c].raised
      <3> HIDE DEF r, status, reason
      <3> QED
        BY <2>4, <2>5, <2>6 DEF CallType
    <2> HIDE DEF q, r
    <2>8. /\ call' \in [Calls -> CallType] /\ call'[c].pc = "done"
          /\ call'[c].raised = call[c].raised
          /\ \A d \in Calls \ {c} : call'[d] = call[d]
      BY <2>1, <2>7, DoneFacts
    <2>9. /\ left \in [Procs -> ProcType]
          /\ left[Leader[c]].st = "gone" /\ left[Leader[c]].term = proc[Leader[c]].term
          /\ left[Leader[c]].flood = proc[Leader[c]].flood
          /\ \A p \in Procs \ {Leader[c]} : left[p] = proc[p]
      BY <1>1, WaitedFacts
    <2>12. proc' = Signalled(left, Group[c], "KILL")
      BY <2>1
    <2> HIDE DEF left
    <2>13. left \in [Procs -> ProcType]
      BY <2>9
    <2>14. /\ Signalled(left, Group[c], "KILL") \in [Procs -> ProcType]
           /\ \A p \in Procs \ Group[c] : Signalled(left, Group[c], "KILL")[p] = left[p]
           /\ \A p \in Group[c] :
                Signalled(left, Group[c], "KILL")[p] = Receives(left[p], "KILL")
      BY <1>1, <1>3, <2>13, SignalledFacts
    <2>10. /\ proc' \in [Procs -> ProcType]
           /\ \A p \in Procs \ Group[c] : proc'[p] = left[p]
           /\ \A p \in Group[c] : proc'[p] = Receives(left[p], "KILL")
      BY <2>12, <2>14
    <2>11. \A p \in Procs :
             /\ Receives(left[p], "KILL").flood = left[p].flood
             /\ Receives(left[p], "KILL").term = left[p].term
             /\ Receives(left[p], "KILL").st # "runs"
             /\ Receives(left[p], "KILL").st = "unborn" => left[p].st = "unborn"
      BY <1>3, <2>9, ReceivesFacts
    <2> QED
      BY <1>1, <2>1, <2>8, <2>9, <2>10, <2>11 DEF Round, Reaped, WaitDue
  <1> QED
    BY <1>6, <1>7, <1>8, <1>9 DEF RunProcess

\* Whatever else it throws: the group is killed, its leader waited for.
LEMMA RaisesFacts ==
    ASSUME NEW c \in Calls, ShapeInv, PollRaises(c)
    PROVE  /\ Polling(c)
           /\ Round(c)
           /\ Reaped(c) /\ call'[c].raised
  <1> USE DEF ShapeInv
  <1>1. c \in {"outer", "inner"} /\ Group[c] \in SUBSET Procs /\ Leader[c] \in Group[c]
    BY CallFacts DEF Procs
  <1>2. "KILL" \in Signals
    BY DEF Signals
  <1> DEFINE left == Signalled(proc, Group[c], "KILL")
  <1>3. Polling(c) /\ proc' = Waited(left, c)
    BY DEF PollRaises
  <1>4. /\ left \in [Procs -> ProcType]
        /\ \A p \in Procs \ Group[c] : left[p] = proc[p]
        /\ \A p \in Group[c] : left[p] = Receives(proc[p], "KILL")
    BY <1>1, <1>2, SignalledFacts
  <1>5. \A p \in Procs :
           /\ Receives(proc[p], "KILL").flood = proc[p].flood
           /\ Receives(proc[p], "KILL").term = proc[p].term
           /\ Receives(proc[p], "KILL").st # "runs"
           /\ Receives(proc[p], "KILL").st = "unborn" => proc[p].st = "unborn"
    BY <1>2, ReceivesFacts
  <1> HIDE DEF left
  <1>6. /\ proc' \in [Procs -> ProcType]
        /\ proc'[Leader[c]].st = "gone" /\ proc'[Leader[c]].term = left[Leader[c]].term
        /\ proc'[Leader[c]].flood = left[Leader[c]].flood
        /\ \A p \in Procs \ {Leader[c]} : proc'[p] = left[p]
    BY <1>1, <1>3, <1>4, WaitedFacts
  <1>7. PICK n \in Int : Done(c, [call[c] EXCEPT !.raised = TRUE, !.code = n])
    BY <1>1, <1>6 DEF PollRaises, ProcType
  <1> DEFINE q == [[call[c] EXCEPT !.raised = TRUE] EXCEPT !.code = n]
  <1>11. call[c] \in CallType
    OBVIOUS
  <1>8. q \in CallType /\ q.raised
    BY <1>11 DEF CallType
  <1>9. Done(c, q)
    BY <1>7
  <1> HIDE DEF q
  <1>10. /\ call' \in [Calls -> CallType] /\ call'[c].pc = "done" /\ call'[c].raised
         /\ \A d \in Calls \ {c} : call'[d] = call[d]
    BY <1>8, <1>9, DoneFacts
  <1> QED
    BY <1>1, <1>3, <1>4, <1>5, <1>6, <1>10 DEF Round, Reaped

LEMMA InitInv == Init => IInv
  <1> SUFFICES ASSUME Init PROVE IInv
    OBVIOUS
  <1> USE DEF Init
  <1>1. Unborn \in ProcType /\ [Unborn EXCEPT !.st = "runs"] \in ProcType
    <2>1. Unborn \in ProcType
      BY DEF Unborn, ProcType
    <2> QED
      BY <2>1 DEF ProcType
  <1>2. NoCall \in CallType
    BY DEF NoCall, CallType
  <1>3. ShapeInv
    BY <1>1, <1>2 DEF ShapeInv
  <1>4. proc["ctl"] = Unborn /\ proc["job"] = Unborn /\ proc["kid"] = Unborn
        /\ call["outer"] = NoCall /\ call["inner"] = NoCall
    BY DEF Procs, Calls
  <1>5. Unborn.st = "unborn" /\ ~Unborn.flood /\ Unborn.term = "dies"
    BY DEF Unborn
  <1>6. NoCall.pc = "idle" /\ NoCall.sent = {}
    BY DEF NoCall
  <1>7. ctl.pc = "none" /\ sup.pc = "start"
    OBVIOUS
  <1>8. OuterInv
    BY <1>4, <1>5, <1>6, <1>7 DEF OuterInv, Running
  <1>9. InnerInv
    BY <1>4, <1>5, <1>6, <1>7 DEF InnerInv, Running, Guarding
  <1>10. GraceInv /\ OrphanInv
    BY <1>4, <1>5, <1>6 DEF GraceInv, OrphanInv, Running
  <1> QED
    BY <1>3, <1>8, <1>9, <1>10 DEF IInv

--------------------------------------------------------------------------------
(* What the steps that signal nobody do to the processes and the calls.     *)

\* Nothing but the supervisor's own place and handlers changes.
SupMoves ==
    /\ call' = call /\ ctl' = ctl /\ world' = world
    /\ proc' \in [Procs -> ProcType]
    /\ \A p \in Procs \ {"sup"} : proc'[p] = proc[p]
    /\ DOMAIN sup' = {"pc", "terminal"}
    /\ sup'.pc \in {"start", "limits", "launch"} => sup.pc \in {"start", "limits", "launch"}

LEMMA SupMovesFacts ==
    ASSUME ShapeInv,
           \/ SupStart \/ SupLimits \/ SupReturn \/ SupJudge \/ SupNote
           \/ SupRestore \/ SupSave
    PROVE  SupMoves
  <1> USE DEF ShapeInv
  <1>1. "sup" \in Procs
    BY DEF Procs
  <1>2. ASSUME NEW t \in {"dies", "handles"}, proc' = [proc EXCEPT !["sup"].term = t]
        PROVE  /\ proc' \in [Procs -> ProcType]
               /\ \A p \in Procs \ {"sup"} : proc'[p] = proc[p]
    BY <1>1, <1>2, HandlerFacts
  <1>3. CASE SupStart
    BY <1>2, <1>3 DEF SupStart, SupAt, Handles, supSteady, SupMoves
  <1>4. CASE SupLimits
    BY <1>4 DEF SupLimits, SupAt, supSteady, SupMoves
  <1>5. CASE SupReturn
    BY <1>5 DEF SupReturn, SupAt, supSteady, SupMoves
  <1>6. CASE SupJudge
    BY <1>6 DEF SupJudge, supSteady, SupMoves
  <1>7. CASE SupNote
    BY <1>7 DEF SupNote, supSteady, SupMoves
  <1>8. CASE SupRestore
    BY <1>2, <1>8 DEF SupRestore, SupAt, Default, supSteady, SupMoves
  <1>9. CASE SupSave
    BY <1>9 DEF SupSave, SupAt, supSteady, SupMoves
  <1> QED
    BY <1>3, <1>4, <1>5, <1>6, <1>7, <1>8, <1>9

\* The controller goes on, outside a call of run_process.
CtlMoves ==
    /\ Running("ctl") /\ ctl.pc # "wait" /\ ctl'.pc # "wait"
    /\ call' = call /\ sup' = sup /\ world' = world
    /\ DOMAIN ctl' = {"pc", "item", "left", "attempt"} /\ ctl'.left \in Nat
    /\ proc' \in [Procs -> ProcType]
    /\ \A p \in Procs \ {"ctl"} : proc'[p] = proc[p]
    /\ proc'["ctl"].flood = proc["ctl"].flood /\ proc'["ctl"].told = proc["ctl"].told
    /\ proc["ctl"].term # "deaf" => proc'["ctl"].term # "deaf"
    /\ ctl'.pc \in Guarding /\ proc'["ctl"].st = "runs" =>
          \/ proc'["ctl"].term = "handles"
          \/ ctl.pc \in Guarding /\ proc'["ctl"].term = proc["ctl"].term

LEMMA CtlMovesFacts ==
    ASSUME ShapeInv,
           \/ CtlStart \/ CtlInputs \/ CtlBook \/ CtlStopped \/ CtlRows \/ CtlRefuses
           \/ CtlFinish \/ CtlNote \/ CtlRestore \/ CtlSave \/ CtlCollect \/ CtlExit
    PROVE  CtlMoves
  <1> USE DEF ShapeInv, Guarding
  <1>1. "ctl" \in Procs /\ TotalSeconds \in Nat
    BY StudyAssumption DEF Procs
  <1>2. ASSUME NEW t \in {"dies", "handles"}, proc' = [proc EXCEPT !["ctl"].term = t]
        PROVE  /\ proc' \in [Procs -> ProcType]
               /\ proc'["ctl"].term = t
               /\ proc'["ctl"].flood = proc["ctl"].flood
               /\ proc'["ctl"].told = proc["ctl"].told
               /\ \A p \in Procs \ {"ctl"} : proc'[p] = proc[p]
    BY <1>1, <1>2, HandlerFacts
  <1>3. CASE CtlStart
    BY <1>1, <1>2, <1>3 DEF CtlStart, Handles, steady, CtlMoves
  <1>4. CASE CtlInputs
    BY <1>4 DEF CtlInputs, At, steady, CtlMoves
  <1>5. CASE CtlBook
    BY <1>5 DEF CtlBook, steady, CtlMoves
  <1>6. CASE CtlStopped
    BY <1>6 DEF CtlStopped, At, steady, CtlMoves
  <1>7. CASE CtlRows
    BY <1>7 DEF CtlRows, steady, CtlMoves
  <1>8. CASE CtlRefuses
    BY <1>8 DEF CtlRefuses, At, steady, CtlMoves
  <1>9. CASE CtlFinish
    BY <1>9 DEF CtlFinish, steady, CtlMoves
  <1>10. CASE CtlNote
    BY <1>10 DEF CtlNote, steady, CtlMoves
  <1>11. CASE CtlRestore
    BY <1>2, <1>11 DEF CtlRestore, At, Default, steady, CtlMoves
  <1>12. CASE CtlSave
    BY <1>12 DEF CtlSave, At, steady, CtlMoves
  <1>13. CASE CtlCollect
    BY <1>13 DEF CtlCollect, At, steady, CtlMoves
  <1>14. CASE CtlExit
    <2>1. PICK n \in Int : proc' = Exits(proc, "ctl", n)
      BY <1>14 DEF CtlExit
    <2>2. /\ proc' \in [Procs -> ProcType] /\ proc'["ctl"].st = "zombie"
          /\ proc'["ctl"].term = proc["ctl"].term
          /\ proc'["ctl"].flood = proc["ctl"].flood /\ proc'["ctl"].told = proc["ctl"].told
          /\ \A p \in Procs \ {"ctl"} : proc'[p] = proc[p]
      BY <1>1, <2>1, ExitFacts
    <2> QED
      BY <1>14, <2>2 DEF CtlExit, At, steady, CtlMoves
  <1> QED
    BY <1>3, <1>4, <1>5, <1>6, <1>7, <1>8, <1>9, <1>10, <1>11, <1>12, <1>13, <1>14

\* The workers and the world: a process ends or a running job forks; a
\* controller that dies was struck.
WorldMoves ==
    /\ call' = call /\ ctl' = ctl /\ sup' = sup
    /\ DOMAIN world' = {"made", "now", "ended", "faults", "struck", "damaged"}
    /\ world.struck \subseteq world'.struck
    /\ proc' \in [Procs -> ProcType]
    /\ proc'["job"].st = "runs" => Running("job")
    /\ proc'["kid"].st = "runs" => Running("kid") \/ Running("job")
    /\ \/ proc'["ctl"] = proc["ctl"]
       \/ /\ Running("ctl") /\ proc'["ctl"].st # "runs" /\ "ctl" \in world'.struck
          /\ proc'["ctl"].flood = proc["ctl"].flood /\ proc'["ctl"].term = proc["ctl"].term

LEMMA WorldMovesFacts ==
    ASSUME ShapeInv,
           Worker \/ TermSup \/ Struck \/ Damage \/ Check
    PROVE  WorldMoves
  <1> USE DEF ShapeInv
  <1>1. /\ {"sup", "ctl", "job", "kid"} = Procs
        /\ "TERM" \in Signals /\ "KILL" \in Signals
    BY DEF Procs, Signals
  <1>2. CASE Work
    BY <1>2 DEF Work, workers, WorldMoves, Running
  <1>3. ASSUME NEW code \in {0, 1}, JobExits(code)
        PROVE  WorldMoves
    <2>3. proc' = Exits(proc, "job", code)
      BY <1>3 DEF JobExits
    <2>1. /\ proc' \in [Procs -> ProcType] /\ proc'["job"].st = "zombie"
          /\ \A p \in Procs \ {"job"} : proc'[p] = proc[p]
      BY <1>1, <2>3, ExitFacts
    <2>2. /\ DOMAIN world' = {"made", "now", "ended", "faults", "struck", "damaged"}
          /\ world'.struck = world.struck
      BY <1>3 DEF JobExits
    <2> QED
      BY <1>1, <1>3, <2>1, <2>2 DEF JobExits, workers, WorldMoves, Running
  <1>4. CASE JobFloods
    <2>1. proc' = [proc EXCEPT !["job"] = [proc["job"] EXCEPT !.flood = TRUE]]
      BY <1>4 DEF JobFloods
    <2>4. \A p \in ProcType : [p EXCEPT !.flood = TRUE] \in ProcType
      BY DEF ProcType
    <2>2. [proc["job"] EXCEPT !.flood = TRUE] \in ProcType
      BY <1>1, <2>4
    <2>3. proc' \in [Procs -> ProcType] /\ \A p \in Procs \ {"job"} : proc'[p] = proc[p]
      BY <1>1, <2>1, <2>2
    <2> QED
      BY <1>1, <1>4, <2>3 DEF JobFloods, Fault, workers, WorldMoves, Running
  <1>5. CASE JobForks
    <2>1. PICK t \in {"dies", "deaf"} :
             proc' = [proc EXCEPT !["kid"] = [[Unborn EXCEPT !.st = "runs"] EXCEPT !.term = t]]
      BY <1>5 DEF JobForks
    <2>2. Unborn \in ProcType
      BY DEF Unborn, ProcType
    <2>3. [[Unborn EXCEPT !.st = "runs"] EXCEPT !.term = t] \in ProcType
      BY <2>2 DEF ProcType
    <2>4. proc' \in [Procs -> ProcType] /\ \A p \in Procs \ {"kid"} : proc'[p] = proc[p]
      BY <1>1, <2>1, <2>3
    <2> QED
      BY <1>1, <1>5, <2>4 DEF JobForks, Fault, workers, WorldMoves, Running
  <1>6. CASE KidExits
    <2>2. proc' = Exits(proc, "kid", 0)
      BY <1>6 DEF KidExits
    <2>1. /\ proc' \in [Procs -> ProcType] /\ proc'["kid"].st = "zombie"
          /\ \A p \in Procs \ {"kid"} : proc'[p] = proc[p]
      BY <1>1, <2>2, ExitFacts
    <2> QED
      BY <1>1, <1>6, <2>1 DEF KidExits, workers, WorldMoves, Running
  <1>7. CASE KidReaped
    <2>1. proc' = [proc EXCEPT !["kid"] = [proc["kid"] EXCEPT !.st = "gone"]]
      BY <1>7 DEF KidReaped
    <2>2. [proc["kid"] EXCEPT !.st = "gone"] \in ProcType
          /\ [proc["kid"] EXCEPT !.st = "gone"].st = "gone"
      BY <1>1 DEF ProcType
    <2>3. /\ proc' \in [Procs -> ProcType] /\ proc'["kid"].st = "gone"
          /\ \A p \in Procs \ {"kid"} : proc'[p] = proc[p]
      BY <1>1, <2>1, <2>2
    <2> QED
      BY <1>1, <1>7, <2>3 DEF KidReaped, workers, WorldMoves, Running
  <1>8. CASE TermSup
    <2>1. proc' = Signalled(proc, {"sup"}, "TERM")
      BY <1>8 DEF TermSup
    <2>2. /\ proc' \in [Procs -> ProcType]
          /\ \A p \in Procs \ {"sup"} : proc'[p] = proc[p]
      BY <1>1, <2>1, SignalFacts
    <2> QED
      BY <1>1, <1>8, <2>2 DEF TermSup, workers, WorldMoves, Running
  <1>9. CASE Struck
    <2>1. PICK p \in {"ctl", "job"} :
             /\ Running(p)
             /\ proc' = Signalled(proc, {p}, "KILL")
             /\ world' = [world EXCEPT !.faults = @ + 1, !.struck = @ \cup {p}]
      BY <1>9 DEF Struck
    <2>2. p \in Procs
      BY <1>1
    <2>3. /\ proc' \in [Procs -> ProcType]
          /\ \A o \in Procs \ {p} : proc'[o] = proc[o]
          /\ proc'[p] = Receives(proc[p], "KILL")
      BY <1>1, <2>1, <2>2, SignalFacts
    <2>4. /\ proc'[p].st # "runs" /\ proc'[p].flood = proc[p].flood
          /\ proc'[p].term = proc[p].term
      BY <1>1, <2>3, ReceivesFacts
    <2>5. /\ DOMAIN world' = {"made", "now", "ended", "faults", "struck", "damaged"}
          /\ world'.struck = world.struck \cup {p}
      BY <2>1
    <2> QED
      BY <1>1, <1>9, <2>1, <2>3, <2>4, <2>5 DEF Struck, workers, WorldMoves, Running
  <1>10. CASE Damage
    BY <1>10 DEF Damage, workers, WorldMoves, Running
  <1>11. CASE Check
    BY <1>11 DEF Check, WorldMoves, Running
  <1> QED
    BY <1>2, <1>3, <1>4, <1>5, <1>6, <1>7, <1>8, <1>9, <1>10, <1>11 DEF Worker

--------------------------------------------------------------------------------
(* Each kind of step keeps the invariant.                                   *)

LEMMA StoppedAre ==
    ASSUME IInv
    PROVE  /\ call["inner"].pc # "poll" => ~Running("job") /\ ~Running("kid")
           /\ ctl.pc # "wait" => call["inner"].pc = "idle"
  BY DEF IInv, InnerInv

LEMMA SupStep ==
    ASSUME IInv, SupMoves
    PROVE  IInv'
  <1>1. /\ proc'["ctl"] = proc["ctl"] /\ proc'["job"] = proc["job"]
        /\ proc'["kid"] = proc["kid"]
    BY DEF SupMoves, Procs
  <1>2. ShapeInv'
    BY DEF IInv, ShapeInv, SupMoves
  <1>3. OuterInv'
    BY <1>1 DEF IInv, OuterInv, SupMoves, Running
  <1>4. InnerInv'
    BY <1>1 DEF IInv, InnerInv, SupMoves, Running
  <1>5. GraceInv'
    BY <1>1 DEF IInv, GraceInv, Shorter, SupMoves, Running
  <1>6. OrphanInv'
    BY <1>1 DEF IInv, OrphanInv, SupMoves, Running
  <1> QED
    BY <1>2, <1>3, <1>4, <1>5, <1>6 DEF IInv

LEMMA CtlStep ==
    ASSUME IInv, CtlMoves
    PROVE  IInv'
  <1>1. /\ proc'["job"] = proc["job"] /\ proc'["kid"] = proc["kid"]
        /\ Running("ctl") /\ proc["ctl"].st # "unborn"
    BY DEF CtlMoves, Procs, Running
  <1>2. call'["inner"].pc = "idle" /\ ~Running("job") /\ ~Running("kid")
    BY StoppedAre DEF CtlMoves
  <1>3. ShapeInv'
    BY DEF IInv, ShapeInv, CtlMoves
  <1>4. OuterInv'
    BY <1>1 DEF IInv, OuterInv, CtlMoves, Running
  <1>5. InnerInv'
    BY <1>1, <1>2 DEF IInv, InnerInv, CtlMoves, Running
  <1>6. GraceInv'
    BY <1>1, <1>2 DEF IInv, GraceInv, CtlMoves, Running
  <1>7. OrphanInv'
    BY <1>1, <1>2 DEF OrphanInv, Running
  <1> QED
    BY <1>3, <1>4, <1>5, <1>6, <1>7 DEF IInv

LEMMA WorldStep ==
    ASSUME IInv, WorldMoves
    PROVE  IInv'
  <1>1. ShapeInv'
    BY DEF IInv, ShapeInv, WorldMoves
  <1>2. OuterInv'
    BY DEF IInv, OuterInv, WorldMoves, Running
  <1>3. InnerInv'
    BY DEF IInv, InnerInv, WorldMoves, Running
  <1>4. GraceInv'
    BY DEF IInv, GraceInv, Shorter, WorldMoves, Running
  <1>5. OrphanInv'
    BY DEF IInv, OrphanInv, WorldMoves, Running
  <1> QED
    BY <1>1, <1>2, <1>3, <1>4, <1>5 DEF IInv

\* What starting a command writes, if it starts.
LEMMA PopenFacts ==
    ASSUME NEW c \in Calls, NEW left \in Nat, NEW t \in {"dies", "handles", "deaf"},
           ShapeInv, Popen(c, left, t)
    PROVE  /\ ~Cancelled(c)
           /\ call' \in [Calls -> CallType] /\ proc' \in [Procs -> ProcType]
           /\ call'[c].pc = "poll" /\ call'[c].sent = {} /\ ~call'[c].raised
           /\ \A d \in Calls \ {c} : call'[d] = call[d]
           /\ proc'[Leader[c]].st = "runs" /\ proc'[Leader[c]].term = t
           /\ ~proc'[Leader[c]].flood
           /\ \A p \in Procs \ {Leader[c]} : proc'[p] = proc[p]
  <1> USE DEF ShapeInv
  <1> DEFINE q == [[NoCall EXCEPT !.pc = "poll"] EXCEPT !.left = left]
             r == [[Unborn EXCEPT !.st = "runs"] EXCEPT !.term = t]
             l == Leader[c]
  <1>1. NoCall \in CallType /\ NoCall.sent = {} /\ ~NoCall.raised
    BY DEF NoCall, CallType
  <1>2. q \in CallType /\ q.pc = "poll" /\ q.sent = {} /\ ~q.raised
    BY <1>1 DEF CallType
  <1>3. Unborn \in ProcType /\ ~Unborn.flood
    BY DEF Unborn, ProcType
  <1>4. r \in ProcType /\ r.st = "runs" /\ r.term = t /\ ~r.flood
    BY <1>3 DEF ProcType
  <1>5. call' = [call EXCEPT ![c] = q] /\ proc' = [proc EXCEPT ![l] = r] /\ ~Cancelled(c)
    BY DEF Popen
  <1>6. l \in Procs
    BY CallFacts DEF Procs
  <1> HIDE DEF q, r, l
  <1>7. /\ call' \in [Calls -> CallType] /\ call'[c] = q
        /\ \A d \in Calls \ {c} : call'[d] = call[d]
    BY <1>2, <1>5
  <1>8. /\ proc' \in [Procs -> ProcType] /\ proc'[l] = r
        /\ \A p \in Procs \ {l} : proc'[p] = proc[p]
    BY <1>4, <1>5, <1>6, PutFacts
  <1> QED
    BY <1>2, <1>4, <1>5, <1>7, <1>8 DEF l

\* A call that starts nothing is over at once.
LEMMA NothingStarted ==
    ASSUME NEW c \in Calls, NEW left \in Nat, ShapeInv, Skip(c, left) \/ NoPopen(c, left)
    PROVE  /\ call' \in [Calls -> CallType] /\ call'[c].pc = "done" /\ call'[c].sent = {}
           /\ \A d \in Calls \ {c} : call'[d] = call[d]
  <1> USE DEF ShapeInv
  <1>1. NoCall \in CallType /\ NoCall.sent = {}
    BY DEF NoCall, CallType
  <1>2. PICK q \in CallType : Done(c, q) /\ q.sent = {}
    <2>1. CASE NoPopen(c, left)
      <3>1. [NoCall EXCEPT !.raised = TRUE] \in CallType
            /\ [NoCall EXCEPT !.raised = TRUE].sent = {}
        BY <1>1 DEF CallType
      <3> QED
        BY <2>1, <3>1 DEF NoPopen
    <2>2. CASE Skip(c, left)
      <3> DEFINE why == IF Cancelled(c) THEN "cancelled" ELSE "deadline"
                 q == [[NoCall EXCEPT !.status = "skipped"] EXCEPT !.why = why]
      <3>1. why \in {"cancelled", "deadline"}
        OBVIOUS
      <3>2. Done(c, q)
        BY <2>2 DEF Skip
      <3> HIDE DEF why
      <3>3. q \in CallType /\ q.sent = {}
        BY <1>1, <3>1 DEF CallType
      <3> QED
        BY <3>2, <3>3
    <2> QED
      BY <2>1, <2>2
  <1> QED
    BY <1>2, DoneFacts

LEMMA LaunchStep ==
    ASSUME IInv, SupLaunch
    PROVE  IInv'
  <1>1. /\ sup.pc = "launch" /\ sup'.pc = "wait" /\ DOMAIN sup' = {"pc", "terminal"}
    BY DEF SupLaunch, SupAt, IInv, ShapeInv
  <1>2. /\ call["outer"].pc = "idle" /\ ctl.pc = "none" /\ ~Running("ctl")
        /\ call["inner"].pc = "idle" /\ ~Running("job") /\ ~Running("kid")
    BY <1>1, StoppedAre DEF IInv, OuterInv, Running
  <1>3. /\ TotalSeconds \in Nat /\ "outer" \in Calls /\ "inner" \in Calls /\ ShapeInv
        /\ {"sup", "ctl", "job", "kid"} = Procs /\ Leader["outer"] = "ctl"
    BY StudyAssumption, CallFacts DEF Procs, IInv
  <1>4. world'.struck = world.struck
        /\ DOMAIN world' = {"made", "now", "ended", "faults", "struck", "damaged"}
    BY <1>3 DEF SupLaunch, Fault, ShapeInv
  <1>5. CASE proc' = proc /\ ctl' = ctl
             /\ (Skip("outer", TotalSeconds) \/ NoPopen("outer", TotalSeconds))
    <2>1. /\ call' \in [Calls -> CallType] /\ call'["outer"].pc = "done"
          /\ call'["inner"] = call["inner"]
      BY <1>3, <1>5, NothingStarted
    <2>2. ShapeInv'
      BY <1>1, <1>4, <1>5, <2>1 DEF ShapeInv, IInv
    <2>3. OuterInv'
      BY <1>1, <1>2, <1>5, <2>1 DEF OuterInv, IInv, Running
    <2>4. InnerInv'
      BY <1>2, <1>5, <2>1 DEF InnerInv, IInv, Running
    <2>5. GraceInv' /\ OrphanInv'
      BY <1>2, <1>5 DEF GraceInv, OrphanInv, Running
    <2> QED
      BY <2>2, <2>3, <2>4, <2>5 DEF IInv
  <1>6. CASE Popen("outer", TotalSeconds, "dies") /\ ctl' = [ctl EXCEPT !.pc = "boot"]
    <2>1. /\ call' \in [Calls -> CallType] /\ proc' \in [Procs -> ProcType]
          /\ call'["outer"].pc = "poll" /\ call'["outer"].sent = {}
          /\ call'["inner"] = call["inner"]
          /\ proc'["ctl"].st = "runs" /\ proc'["ctl"].term = "dies" /\ ~proc'["ctl"].flood
          /\ proc'["job"] = proc["job"] /\ proc'["kid"] = proc["kid"]
      BY <1>3, <1>6, PopenFacts
    <2>2. /\ DOMAIN ctl' = {"pc", "item", "left", "attempt"} /\ ctl'.left \in Nat
          /\ ctl'.pc = "boot"
      BY <1>3, <1>6 DEF ShapeInv
    <2>3. ShapeInv'
      BY <1>1, <1>4, <2>1, <2>2 DEF ShapeInv
    <2>4. OuterInv'
      BY <1>1, <2>1 DEF OuterInv
    <2>5. InnerInv'
      BY <1>2, <2>1, <2>2 DEF InnerInv, IInv, Running, Guarding
    <2>6. GraceInv' /\ OrphanInv'
      BY <2>1 DEF GraceInv, OrphanInv, Running
    <2> QED
      BY <2>3, <2>4, <2>5, <2>6 DEF IInv
  <1> QED
    BY <1>5, <1>6 DEF SupLaunch, Skip, NoPopen

LEMMA ChildStep ==
    ASSUME IInv, CtlChild
    PROVE  IInv'
  <1>1. /\ Running("ctl") /\ ctl.pc = "start" /\ ctl'.pc = "wait" /\ sup' = sup
        /\ DOMAIN ctl' = {"pc", "item", "left", "attempt"} /\ ctl'.left \in Nat
    BY DEF CtlChild, At, steady, IInv, ShapeInv
  <1>2. /\ call["inner"].pc = "idle" /\ ~Running("job") /\ ~Running("kid")
        /\ proc["ctl"].term = "handles"
    BY <1>1, StoppedAre DEF IInv, InnerInv, Guarding
  <1> DEFINE left == Least(ctl.left, JobSeconds)
  <1>3. /\ left \in Nat /\ "outer" \in Calls /\ "inner" \in Calls /\ ShapeInv
        /\ {"sup", "ctl", "job", "kid"} = Procs /\ Leader["inner"] = "job"
        /\ Owner["inner"] = "ctl"
    BY StudyAssumption, CallFacts DEF Procs, IInv, ShapeInv, Least
  <1>4. world'.struck = world.struck
        /\ DOMAIN world' = {"made", "now", "ended", "faults", "struck", "damaged"}
    BY <1>3 DEF CtlChild, Fault, ShapeInv
  <1>5. \/ Skip("inner", left) \/ NoPopen("inner", left)
        \/ Popen("inner", left, "dies") \/ Popen("inner", left, "deaf")
    BY DEF CtlChild
  <1> HIDE DEF left
  <1>6. CASE Skip("inner", left) \/ NoPopen("inner", left)
    <2>1. /\ call' \in [Calls -> CallType] /\ call'["inner"].pc = "done"
          /\ call'["inner"].sent = {} /\ call'["outer"] = call["outer"]
      BY <1>3, <1>6, NothingStarted
    <2>2. proc' = proc
      BY <1>6 DEF Skip, NoPopen
    <2>3. ShapeInv'
      BY <1>1, <1>3, <1>4, <2>1, <2>2 DEF ShapeInv
    <2>4. OuterInv'
      BY <1>1, <2>1, <2>2 DEF OuterInv, IInv, Running
    <2>5. InnerInv'
      BY <1>1, <1>2, <2>1, <2>2 DEF InnerInv, Running
    <2>6. GraceInv'
      BY <2>1, <2>2 DEF GraceInv, IInv, Running
    <2>7. OrphanInv'
      BY <1>1, <2>2 DEF OrphanInv, Running
    <2> QED
      BY <2>3, <2>4, <2>5, <2>6, <2>7 DEF IInv
  <1>7. ASSUME NEW t \in {"dies", "deaf"}, Popen("inner", left, t)
        PROVE  IInv'
    <2>1. /\ ~Cancelled("inner")
          /\ call' \in [Calls -> CallType] /\ proc' \in [Procs -> ProcType]
          /\ call'["inner"].pc = "poll" /\ call'["inner"].sent = {}
          /\ call'["outer"] = call["outer"]
          /\ proc'["ctl"] = proc["ctl"]
      BY <1>3, <1>7, PopenFacts
    <2>2. ~proc["ctl"].told
      BY <1>3, <2>1 DEF Cancelled
    <2>3. ShapeInv'
      BY <1>1, <1>3, <1>4, <2>1 DEF ShapeInv
    <2>4. OuterInv'
      BY <1>1, <2>1 DEF OuterInv, IInv, Running
    <2>5. InnerInv'
      BY <1>1, <1>2, <2>1 DEF InnerInv, Running
    <2>6. GraceInv'
      BY <1>1, <2>1, <2>2 DEF GraceInv, IInv, Running
    <2>7. OrphanInv'
      BY <1>1, <2>1 DEF OrphanInv, Running
    <2> QED
      BY <2>3, <2>4, <2>5, <2>6, <2>7 DEF IInv
  <1> QED
    BY <1>5, <1>6, <1>7

\* The controller's own call: what it signals are its jobs.
LEMMA InnerStep ==
    ASSUME IInv, CtlPoll
    PROVE  IInv'
  <1>1. /\ Running("ctl") /\ ctl.pc = "wait" /\ ctl' = ctl /\ sup' = sup
        /\ world'.struck = world.struck
        /\ DOMAIN world' = {"made", "now", "ended", "faults", "struck", "damaged"}
    BY DEF CtlPoll, steady, Fault, IInv, ShapeInv
  <1>2. /\ "inner" \in Calls /\ "outer" \in Calls /\ ShapeInv
        /\ Group["inner"] = {"job", "kid"} /\ GraceOf["inner"] = Grace
        /\ {"sup", "ctl", "job", "kid"} = Procs
    BY CallFacts DEF IInv, Procs
  <1>3. RunProcess("inner") \/ PollRaises("inner")
    BY DEF CtlPoll
  <1>4. Polling("inner") /\ Round("inner")
        /\ (Killed("inner") \/ Reaped("inner") \/ Termed("inner"))
    BY <1>2, <1>3, PollFacts, RaisesFacts
  <1>5. /\ call' \in [Calls -> CallType] /\ proc' \in [Procs -> ProcType]
        /\ call'["outer"] = call["outer"] /\ proc'["ctl"] = proc["ctl"]
        /\ proc'["job"].st = "runs" => Running("job")
        /\ proc'["kid"].st = "runs" => Running("kid")
    BY <1>2, <1>4 DEF Round, Running
  <1>6. ShapeInv'
    BY <1>1, <1>2, <1>5 DEF ShapeInv
  <1>7. OuterInv'
    BY <1>1, <1>5 DEF OuterInv, IInv, Running
  <1>8. OrphanInv'
    BY <1>1, <1>5 DEF OrphanInv, Running
  <1>9. CASE Killed("inner") \/ Reaped("inner")
    <2>1. /\ ~Running("job")' /\ ~Running("kid")'
          /\ \/ call'["inner"].pc = "done"
             \/ call'["inner"].pc = "poll" /\ "KILL" \in call'["inner"].sent
      BY <1>2, <1>9 DEF Killed, Reaped, Running
    <2>2. InnerInv'
      BY <1>1, <1>5, <2>1 DEF InnerInv, IInv, Running
    <2>3. GraceInv'
      BY <1>1, <1>5, <2>1 DEF GraceInv, Shorter, IInv, Running
    <2> QED
      BY <1>6, <1>7, <1>8, <2>2, <2>3 DEF IInv
  <1>10. CASE Termed("inner")
    <2>1. /\ call'["inner"].pc = "poll" /\ call'["inner"].sent = {"TERM"}
          /\ call'["inner"].term = Grace
          /\ call["inner"].pc = "poll" /\ call["inner"].sent = {}
      BY <1>2, <1>10 DEF Termed, TermDue, Polling, Started
    <2>2. InnerInv'
      BY <1>1, <1>5, <2>1, GraceAssumption DEF InnerInv, IInv, Running
    <2>3. GraceInv'
      <3>1. SUFFICES ASSUME call["outer"].pc = "poll", call["outer"].sent # {}
                     PROVE  /\ call["outer"].sent = {"TERM"} /\ proc["ctl"].told
                            /\ Shorter'
        BY <1>1, <1>5, <2>1 DEF GraceInv, Running
      <3>2. call["outer"].sent = {"TERM"} /\ proc["ctl"].told /\ Shorter
        BY <1>1, <2>1, <3>1 DEF GraceInv, IInv
      <3>3. call["outer"].term = Grace + Extra
        BY <2>1, <3>2 DEF Shorter
      <3> QED
        BY <1>5, <2>1, <3>2, <3>3, GraceAssumption DEF Shorter
    <2> QED
      BY <1>6, <1>7, <1>8, <2>2, <2>3 DEF IInv
  <1> QED
    BY <1>4, <1>9, <1>10

LEMMA ReturnStep ==
    ASSUME IInv, CtlReturn
    PROVE  IInv'
  <1>1. /\ Running("ctl") /\ ctl.pc = "wait" /\ ctl'.pc # "wait" /\ sup' = sup
        /\ world' = world /\ call["inner"].pc = "done"
        /\ DOMAIN ctl' = {"pc", "item", "left", "attempt"} /\ ctl'.left \in Nat
        /\ call' = [call EXCEPT !["inner"] = NoCall]
        /\ proc' = [p \in Procs |-> IF p \in Group["inner"] THEN Unborn ELSE proc[p]]
    BY DEF CtlReturn, At, steady, IInv, ShapeInv
  <1>2. /\ "inner" \in Calls /\ "outer" \in Calls /\ ShapeInv
        /\ Group["inner"] = {"job", "kid"}
        /\ {"sup", "ctl", "job", "kid"} = Procs
    BY CallFacts DEF IInv, Procs
  <1>3. NoCall \in CallType /\ NoCall.pc = "idle" /\ NoCall.sent = {}
    BY DEF NoCall, CallType
  <1>4. Unborn \in ProcType /\ Unborn.st = "unborn"
    BY DEF Unborn, ProcType
  <1>5. /\ call' \in [Calls -> CallType] /\ call'["outer"] = call["outer"]
        /\ call'["inner"].pc = "idle" /\ call'["inner"].sent = {}
    BY <1>1, <1>2, <1>3 DEF ShapeInv
  <1>6. /\ proc' \in [Procs -> ProcType] /\ proc'["ctl"] = proc["ctl"]
        /\ proc'["job"].st = "unborn" /\ proc'["kid"].st = "unborn"
    BY <1>1, <1>2, <1>4 DEF ShapeInv
  <1>7. ShapeInv'
    BY <1>1, <1>2, <1>5, <1>6 DEF ShapeInv
  <1>8. OuterInv'
    BY <1>1, <1>5, <1>6 DEF OuterInv, IInv, Running
  <1>9. InnerInv'
    <2>1. ctl'.pc \in Guarding
      BY <1>1, <1>2 DEF CtlReturn, At, Guarding, ShapeInv
    <2> QED
      BY <1>1, <1>5, <1>6 DEF InnerInv, IInv, Running, Guarding
  <1>10. GraceInv'
    BY <1>1, <1>5, <1>6 DEF GraceInv, IInv, Running
  <1>11. OrphanInv'
    BY <1>6 DEF OrphanInv, Running
  <1> QED
    BY <1>7, <1>8, <1>9, <1>10, <1>11 DEF IInv

\* The supervisor's call: its KILL finds no job running any more.
LEMMA OuterStep ==
    ASSUME IInv, SupPoll
    PROVE  IInv'
  <1>1. /\ sup.pc = "wait" /\ ctl' = ctl /\ sup' = sup
        /\ world'.struck = world.struck
        /\ DOMAIN world' = {"made", "now", "ended", "faults", "struck", "damaged"}
    BY DEF SupPoll, Fault, IInv, ShapeInv
  <1>2. /\ "inner" \in Calls /\ "outer" \in Calls /\ ShapeInv
        /\ Group["outer"] = {"ctl"} /\ GraceOf["outer"] = Grace + Extra
        /\ Leader["outer"] = "ctl"
        /\ {"sup", "ctl", "job", "kid"} = Procs
    BY CallFacts DEF IInv, Procs
  <1>3. Polling("outer") /\ Round("outer")
        /\ \/ /\ call'["outer"].raised /\ Reaped("outer")
           \/ /\ call'["outer"].raised = call["outer"].raised
              /\ \/ (LogDue("outer") \/ KillDue("outer")) /\ Killed("outer")
                 \/ WaitDue("outer") /\ Reaped("outer")
                 \/ Termed("outer")
    BY <1>2, PollFacts, RaisesFacts DEF SupPoll
  <1>4. /\ call' \in [Calls -> CallType] /\ proc' \in [Procs -> ProcType]
        /\ call'["inner"] = call["inner"]
        /\ proc'["job"] = proc["job"] /\ proc'["kid"] = proc["kid"]
        /\ proc'["ctl"].flood = proc["ctl"].flood /\ proc'["ctl"].term = proc["ctl"].term
        /\ proc'["ctl"].st = "runs" => Running("ctl")
        /\ call["outer"].pc = "poll"
    BY <1>2, <1>3 DEF Round, Running, Polling
  <1>5. ShapeInv'
    BY <1>1, <1>2, <1>4 DEF ShapeInv
  <1>6. InnerInv'
    BY <1>1, <1>4 DEF InnerInv, IInv, Running
  <1>7. ~proc["ctl"].flood /\ proc["ctl"].term # "deaf"
    BY DEF IInv, OuterInv
  <1>8. CASE proc'["ctl"].st # "runs" /\ call'["outer"].pc \in {"poll", "done"}
             /\ (call'["outer"].raised \/ (~Running("job") /\ ~Running("kid"))
                  \/ (~Running("ctl") /\ call'["outer"].raised = call["outer"].raised))
    <2>1. OuterInv'
      BY <1>1, <1>4, <1>7, <1>8 DEF OuterInv, Running
    <2>2. GraceInv'
      BY <1>8 DEF GraceInv, Running
    <2>3. OrphanInv'
      BY <1>1, <1>4, <1>8 DEF OrphanInv, IInv, Running
    <2> QED
      BY <1>5, <1>6, <2>1, <2>2, <2>3 DEF IInv
  <1>9. CASE call'["outer"].raised /\ Reaped("outer")
    BY <1>2, <1>8, <1>9 DEF Reaped
  <1>10. CASE /\ call'["outer"].raised = call["outer"].raised
              /\ (LogDue("outer") \/ KillDue("outer")) /\ Killed("outer")
    <2>1. KillDue("outer")
      BY <1>2, <1>7, <1>10 DEF LogDue
    <2>2. call["outer"].term = 0 /\ call["outer"].sent # {}
      BY <2>1 DEF KillDue, Started
    <2>3. ASSUME Running("ctl"), call["inner"].pc = "poll"
          PROVE  "KILL" \in call["inner"].sent
      <3>1. Shorter
        BY <1>4, <2>2, <2>3 DEF IInv, GraceInv
      <3>2. call["inner"].term \in Nat
        BY <1>2 DEF ShapeInv, CallType
      <3> QED
        BY <2>2, <3>1, <3>2, GraceAssumption DEF Shorter
    <2>4. ~Running("ctl") \/ (~Running("job") /\ ~Running("kid"))
      BY <2>3 DEF IInv, InnerInv
    <2> QED
      BY <1>2, <1>8, <1>10, <2>4 DEF Killed
  <1>11. CASE /\ call'["outer"].raised = call["outer"].raised
              /\ WaitDue("outer") /\ Reaped("outer")
    <2>1. ~Running("ctl")
      BY <1>2, <1>11 DEF WaitDue, Running
    <2> QED
      BY <1>2, <1>8, <1>11, <2>1 DEF Reaped
  <1>12. CASE call'["outer"].raised = call["outer"].raised /\ Termed("outer")
    <2>1. /\ call'["outer"].pc = "poll" /\ call'["outer"].sent = {"TERM"}
          /\ call'["outer"].term = Grace + Extra
          /\ proc'["ctl"] = Receives(proc["ctl"], "TERM")
      BY <1>2, <1>12 DEF Termed
    <2>2. proc["ctl"] \in ProcType /\ "TERM" \in Signals
      BY <1>2 DEF ShapeInv, Signals
    <2>3. CASE ~Running("ctl")
      <3>1. proc'["ctl"].st # "runs"
        BY <1>4, <2>3
      <3> QED
        BY <1>8, <1>12, <2>1, <2>3, <3>1
    <2>4. CASE Running("ctl") /\ proc["ctl"].term = "dies"
      <3>1. proc'["ctl"].st # "runs"
        BY <2>1, <2>2, <2>4, ReceivesFacts
      <3>2. ctl.pc # "wait"
        BY <2>4 DEF IInv, InnerInv, Guarding
      <3>3. ~Running("job") /\ ~Running("kid")
        BY <3>2, StoppedAre
      <3> QED
        BY <1>8, <2>1, <3>1, <3>3
    <2>5. CASE Running("ctl") /\ proc["ctl"].term = "handles"
      <3>1. proc'["ctl"].told
        BY <2>1, <2>2, <2>5, ReceivesFacts DEF Running
      <3>2. proc'["ctl"].st = "runs"
        BY <2>1, <2>2, <2>5 DEF Receives, Ended, Running, ProcType
      <3>3. OuterInv'
        BY <1>1, <1>4, <1>7, <2>1 DEF OuterInv, Running
      <3>4. OrphanInv'
        BY <3>2 DEF OrphanInv, Running
      <3>5. GraceInv'
        <4>1. call["inner"].sent \in SUBSET Signals /\ call["inner"].term \in Nat
          BY <1>2 DEF ShapeInv, CallType
        <4>2. call["inner"].pc = "poll" => Shorter'
          <5>1. CASE "KILL" \in call["inner"].sent
            BY <1>4, <5>1 DEF Shorter
          <5>2. CASE call["inner"].sent = {}
            BY <1>4, <2>1, <5>2 DEF Shorter
          <5>3. CASE call["inner"].sent = {"TERM"}
            <6>1. call["inner"].pc = "poll" => call["inner"].term <= Grace
              BY <5>3 DEF IInv, InnerInv
            <6> QED
              BY <1>4, <2>1, <4>1, <5>3, <6>1, GraceAssumption DEF Shorter
          <5> QED
            BY <4>1, <5>1, <5>2, <5>3 DEF Signals
        <4> QED
          BY <1>4, <2>1, <3>1, <4>2 DEF GraceInv
      <3> QED
        BY <1>5, <1>6, <3>3, <3>4, <3>5 DEF IInv
    <2> QED
      BY <1>7, <2>2, <2>3, <2>4, <2>5 DEF ProcType
  <1> QED
    BY <1>3, <1>9, <1>10, <1>11, <1>12

\* A second passes only while no call has anything to do, so the inner grace
\* runs down beside the outer one.
LEMMA TickStep ==
    ASSUME IInv, Tick
    PROVE  IInv'
  <1>1. /\ proc' = proc /\ sup' = sup /\ world' = world /\ ~Due
        /\ call' = [c \in Calls |-> Later(c)] /\ ctl'.pc = ctl.pc
        /\ DOMAIN ctl' = {"pc", "item", "left", "attempt"} /\ ctl'.left \in Nat
    BY DEF Tick, IInv, ShapeInv, Down
  <1>2. /\ "inner" \in Calls /\ "outer" \in Calls /\ ShapeInv
        /\ Owner["inner"] = "ctl" /\ Owner["outer"] = "sup"
    BY CallFacts DEF IInv
  <1>3. ASSUME NEW c \in Calls
        PROVE  /\ Later(c) \in CallType
               /\ Later(c).pc = call[c].pc /\ Later(c).sent = call[c].sent
               /\ Later(c).raised = call[c].raised
               /\ Later(c).term \in {call[c].term, Down(call[c].term)}
               /\ Polling(c) => Later(c).term = Down(call[c].term)
    <2> DEFINE q == [[call[c] EXCEPT !.left = Down(call[c].left)]
                       EXCEPT !.term = Down(call[c].term)]
    <2>1. call[c] \in CallType
      BY <1>2 DEF ShapeInv
    <2>2. \A n \in Nat : Down(n) \in Nat
      BY DEF Down
    <2>3. Down(call[c].left) \in Nat /\ Down(call[c].term) \in Nat
      BY <2>1, <2>2 DEF CallType
    <2>4. \A m, n \in Nat : LET r == [[call[c] EXCEPT !.left = m] EXCEPT !.term = n]
                            IN  /\ r \in CallType /\ r.pc = call[c].pc
                                /\ r.sent = call[c].sent /\ r.raised = call[c].raised
                                /\ r.term = n
      BY <2>1 DEF CallType
    <2>5. /\ q \in CallType /\ q.pc = call[c].pc /\ q.sent = call[c].sent
          /\ q.raised = call[c].raised /\ q.term = Down(call[c].term)
      BY <2>3, <2>4
    <2>6. Later(c) = IF ~Polling(c) THEN call[c] ELSE q
      BY DEF Later
    <2> HIDE DEF q
    <2> QED
      BY <2>1, <2>5, <2>6
  <1>4. call' \in [Calls -> CallType] /\ \A c \in Calls : call'[c] = Later(c)
    BY <1>1, <1>3
  <1>5. /\ call["inner"].term \in Nat /\ call["outer"].term \in Nat
        /\ call["inner"].sent \in SUBSET Signals
    BY <1>2 DEF ShapeInv, CallType
  <1>6. /\ call'["inner"].pc = call["inner"].pc /\ call'["inner"].sent = call["inner"].sent
        /\ call'["outer"].pc = call["outer"].pc /\ call'["outer"].sent = call["outer"].sent
        /\ call'["outer"].raised = call["outer"].raised
        /\ call'["inner"].term \in {call["inner"].term, Down(call["inner"].term)}
        /\ call'["outer"].term \in {call["outer"].term, Down(call["outer"].term)}
        /\ Polling("inner") => call'["inner"].term = Down(call["inner"].term)
    BY <1>2, <1>3, <1>4
  <1>7. ShapeInv'
    BY <1>1, <1>2, <1>4 DEF ShapeInv
  <1>8. OuterInv'
    BY <1>1, <1>6 DEF OuterInv, IInv, Running
  <1>9. InnerInv'
    <2>1. call'["inner"].term <= call["inner"].term
      BY <1>5, <1>6 DEF Down
    <2>2. call["inner"].pc = "poll" /\ call["inner"].sent = {"TERM"} =>
             call'["inner"].term <= Grace
      BY <1>5, <1>6, <2>1, GraceAssumption DEF IInv, InnerInv, Down
    <2> QED
      BY <1>1, <1>6, <2>2 DEF InnerInv, IInv, Running
  <1>10. OrphanInv'
    BY <1>1, <1>6 DEF OrphanInv, IInv, Running
  <1>11. GraceInv'
    <2>1. SUFFICES ASSUME call["outer"].pc = "poll", call["outer"].sent # {}, Running("ctl")
                   PROVE  /\ call["outer"].sent = {"TERM"} /\ proc["ctl"].told
                          /\ call["inner"].pc = "poll" => Shorter'
      BY <1>1, <1>6 DEF GraceInv, Running
    <2>2. /\ call["outer"].sent = {"TERM"} /\ proc["ctl"].told
          /\ call["inner"].pc = "poll" => Shorter
      BY <2>1 DEF GraceInv, IInv
    <2>3. ASSUME call["inner"].pc = "poll"
          PROVE  Shorter'
      <3>1. Polling("inner") /\ Cancelled("inner")
        BY <1>2, <2>1, <2>2, <2>3 DEF Polling, Cancelled
      <3>2. ~TermDue("inner") /\ ~KillDue("inner")
        BY <1>1, <1>2 DEF Due
      <3>3. call["inner"].sent # {}
        BY <3>1, <3>2 DEF TermDue, Started
      <3>4. CASE "KILL" \in call["inner"].sent
        BY <1>6, <3>4 DEF Shorter
      <3>5. CASE "KILL" \notin call["inner"].sent
        <4>1. call["inner"].sent = {"TERM"}
              /\ call["inner"].term + Extra <= call["outer"].term
          BY <2>2, <2>3, <3>3, <3>5 DEF Shorter
        <4>2. call["inner"].term # 0
          BY <3>1, <3>2, <3>3, <3>5 DEF KillDue, Started
        <4>3. call'["inner"].term = call["inner"].term - 1
          BY <1>6, <3>1, <4>2 DEF Down
        <4>4. call'["outer"].term >= call["outer"].term - 1
          BY <1>5, <1>6 DEF Down
        <4>5. call'["outer"].term \in Nat
          BY <1>2, <1>4 DEF CallType
        <4>6. call'["inner"].term + Extra <= call'["outer"].term
          BY <1>5, <4>1, <4>2, <4>3, <4>4, <4>5, GraceAssumption
        <4> QED
          BY <1>6, <4>1, <4>6 DEF Shorter
      <3> QED
        BY <3>4, <3>5
    <2> QED
      BY <2>2, <2>3
  <1> QED
    BY <1>7, <1>8, <1>9, <1>10, <1>11 DEF IInv

LEMMA NextInv ==
    ASSUME IInv, [Next]_vars
    PROVE  IInv'
  <1>1. ShapeInv
    BY DEF IInv
  <1>2. CASE Supervise
    <2>1. CASE \/ SupStart \/ SupLimits \/ SupReturn \/ SupJudge \/ SupNote
               \/ SupRestore \/ SupSave
      BY <1>1, <2>1, SupMovesFacts, SupStep
    <2> QED
      BY <1>2, <2>1, LaunchStep, OuterStep DEF Supervise
  <1>3. CASE Run
    <2>1. CASE \/ CtlStart \/ CtlInputs \/ CtlBook \/ CtlStopped \/ CtlRows \/ CtlRefuses
               \/ CtlFinish \/ CtlNote \/ CtlRestore \/ CtlSave \/ CtlCollect \/ CtlExit
      BY <1>1, <2>1, CtlMovesFacts, CtlStep
    <2> QED
      BY <1>3, <2>1, ChildStep, InnerStep, ReturnStep DEF Run
  <1>4. CASE Worker \/ TermSup \/ Struck \/ Damage \/ Check
    BY <1>1, <1>4, WorldMovesFacts, WorldStep
  <1>5. CASE Tick
    BY <1>5, TickStep
  <1>6. CASE UNCHANGED vars
    BY <1>6 DEF vars, IInv, ShapeInv, OuterInv, InnerInv, GraceInv, Shorter, OrphanInv, Running
  <1>7. [Next]_vars =>
          \/ Supervise \/ Run \/ (Worker \/ TermSup \/ Struck \/ Damage \/ Check) \/ Tick
          \/ UNCHANGED vars
    BY DEF Next, Studies, SolomonSupervise, ReasonerSupervise, CoverageSupervise,
         SolomonRun, ReasonerRun, CoverageRun, SolomonCheck, ReasonerCheck, CoverageCheck
  <1> QED
    BY <1>2, <1>3, <1>4, <1>5, <1>6, <1>7

\* The invariant of the two calls and the processes below them.
THEOREM InductiveInvariant == Spec => []IInv
  BY InitInv, NextInv, PTL DEF Spec

LEMMA IInvOutlives == IInv => NothingOutlives
  <1> SUFFICES ASSUME IInv PROVE NothingOutlives
    OBVIOUS
  <1>1. Group["inner"] = {"job", "kid"} /\ Group["outer"] = {"ctl"}
    BY CallFacts
  <1>2. GroupsEnd
    BY <1>1 DEF IInv, OuterInv, InnerInv, GroupsEnd, Alive
  <1>3. JobsEnd
    BY DEF IInv, OuterInv, OrphanInv, JobsEnd, Alive
  <1> QED
    BY <1>2, <1>3 DEF NothingOutlives

\* Whatever the limits, the schedule and the faults: once a call of run_process
\* has returned, nothing of its group runs, and once the supervisor has its
\* answer no job of a controller that nobody struck runs either.
THEOREM NothingOutlivesCorrect == Spec => []NothingOutlives
  BY InductiveInvariant, IInvOutlives, PTL

--------------------------------------------------------------------------------
(* What the records say of the work: the invariant.                         *)

AttemptType ==
    [started : Nat, completed : Nat, confirmed : Nat, upper : Nat,
     unknown : BOOLEAN, status : {"failed", "complete"}, stop : BOOLEAN]

RecordInv ==
    /\ ctl.attempt \in AttemptType
    /\ ctl.item \in Nat /\ ctl.item <= Last + 1
    /\ world.made \in Nat /\ world.now \in Nat
    /\ world.ended \in [Items -> {"not", "clean", "spoilt", "failed"}]
    /\ world.struck \in SUBSET {"ctl", "job"}
    /\ DOMAIN disk = {"attempt", "receipts", "over", "rows", "collection", "terminal"}
    /\ disk.attempt # Absent =>
          disk.attempt = <<disk.attempt[1]>> /\ disk.attempt[1] \in AttemptType
    /\ DOMAIN sup.terminal = {"status", "receipt", "collection", "stop"}

Exited0(p) == proc[p].st \in {"zombie", "gone"} /\ proc[p].code = 0
Closing == {"note", "restore", "save", "collect", "exit", "gone"}

\* What a receipt may say before the call is over, and of what it sent.
ReceiptInv ==
    \A c \in Calls :
        /\ call[c].pc # "done" => call[c].status = "failed"
        /\ call[c].sent # {} => call[c].why # "none"
        /\ call[c].pc = "poll" => ~call[c].raised /\ proc[Leader[c]].st # "unborn"

\* Every item before the present one ended well, and a job that exits 0 has left
\* its mark when its receipt says complete.
ProgressInv ==
    /\ \A i \in Items : i < ctl.item => world.ended[i] = "clean"
    /\ ctl.attempt.completed = 0 \/ ctl.attempt.completed < ctl.item
    /\ ctl.attempt.completed <= Arms * Passes
    /\ ctl.pc \in {"start", "wait", "rows"} => ctl.item <= Last
    /\ ctl.attempt.status = "complete" => ctl.item = Last + 1 /\ ctl.pc \in Closing
    /\ call["inner"].pc = "poll" /\ Exited0("job") =>
          /\ world.ended[ctl.item] \in {"clean", "spoilt"}
          /\ call["inner"].sent = {} => world.ended[ctl.item] = "clean"
    /\ call["inner"].pc = "done" /\ call["inner"].status = "complete" =>
          world.ended[ctl.item] = "clean"
    /\ ctl.pc = "rows" => world.ended[ctl.item] = "clean"

\* The attempt in memory: paid calls are booked before the job that makes them.
Spent == world.made = ctl.attempt.upper /\ world.now = 0
BookedInv ==
    LET a == ctl.attempt
    IN  /\ a.upper = a.confirmed + IF a.unknown THEN Calls1 ELSE 0
        /\ a.confirmed <= world.made /\ world.made <= a.upper
        /\ ctl.pc \in {"none", "boot", "inputs", "next"} => ~a.unknown /\ world.now = 0
        /\ ctl.pc = "start" => world.now = 0 /\ world.made = a.confirmed
        /\ ctl.pc \in {"start", "wait", "rows"} => a.unknown = Native(ctl.item)
        /\ Running("job") => world.made = a.confirmed + world.now
        /\ call["inner"].pc = "poll" /\ Exited0("job") => Spent
        /\ call["inner"].pc = "done" /\ call["inner"].status = "complete" => Spent
        /\ ctl.pc = "rows" => Spent

\* The attempt on disk is one the controller had, Solomon's the present one.
SavedInv ==
    /\ ctl.pc \in {"none", "boot"} => ctl.attempt = NoAttempt /\ disk.attempt = Absent
    /\ disk.attempt # Absent =>
          LET d == disk.attempt[1]
          IN  /\ d.completed <= ctl.attempt.completed
              /\ Is("solomon") => /\ d.confirmed = ctl.attempt.confirmed
                                  /\ d.upper = ctl.attempt.upper
                                  /\ d.unknown = ctl.attempt.unknown

\* A record that says complete was written over a controller that exited 0 and
\* closed its attempt; nothing struck exits 0.
TerminalInv ==
    /\ "ctl" \in world.struck => ~Exited0("ctl") /\ ~Running("ctl") /\ proc["ctl"].st # "unborn"
    /\ Exited0("ctl") => ctl.pc = "gone" /\ ctl.attempt.status = "complete"
    /\ call["outer"].status = "complete" =>
          call["outer"].pc = "done" /\ Exited0("ctl") /\ ~call["outer"].raised
    /\ sup.terminal.status = "complete" =>
          /\ sup.pc \in {"note", "restore", "save", "done"}
          /\ call["outer"].status = "complete"
    /\ disk.terminal # Absent /\ disk.terminal[1].status = "complete" =>
          sup.pc = "done" /\ call["outer"].status = "complete"
    /\ "job" \in world.struck =>
          /\ ctl.attempt.status = "failed" /\ ctl.pc \in Closing \cup {"wait"}
          /\ ~Running("job")
          /\ ctl.pc = "wait" =>
                /\ ~Exited0("job")
                /\ call["inner"].status # "complete"

VerdictInv == verdict = "verified_complete" => Accepted

WorkInv ==
    /\ RecordInv /\ ReceiptInv /\ ProgressInv
    /\ Is("solomon") => BookedInv
    /\ SavedInv /\ TerminalInv /\ VerdictInv
--------------------------------------------------------------------------------
(* How a process ends, and what its receipt says of it.                     *)

\* A signal makes nobody exit 0.
LEMMA ReceivesExit ==
    ASSUME NEW p \in ProcType, NEW number \in Signals
    PROVE  LET q == Receives(p, number)
           IN  /\ q.st \in {"zombie", "gone"} /\ q.code = 0 =>
                     p.st \in {"zombie", "gone"} /\ p.code = 0
               /\ p.st # "runs" => q = p
               /\ p.st = "runs" => q.st \in {"runs", "zombie"}
               /\ number = "KILL" => q.st # "runs"
  <1>1. CASE p.st # "runs"
    BY <1>1 DEF Receives, ProcType, Signals
  <1>2. CASE p.st = "runs" /\ Ended(p, number)
    <2> DEFINE q == [p EXCEPT !.st = "zombie", !.code = IF number = "KILL" THEN 9 ELSE 15]
    <2>1. Receives(p, number) = q
      BY <1>2 DEF Receives
    <2>2. q.st = "zombie" /\ q.code \in {9, 15}
      BY DEF ProcType
    <2> HIDE DEF q
    <2> QED
      BY <1>2, <2>1, <2>2
  <1>3. CASE p.st = "runs" /\ ~Ended(p, number)
    <2> DEFINE q == [p EXCEPT !.told = p.told \/ p.term = "handles"]
    <2>1. Receives(p, number) = q
      BY <1>3 DEF Receives
    <2>2. q.st = "runs"
      BY <1>3 DEF ProcType
    <2>3. number # "KILL"
      BY <1>3 DEF Ended
    <2> HIDE DEF q
    <2> QED
      BY <1>3, <2>1, <2>2, <2>3
  <1> QED
    BY <1>1, <1>2, <1>3

\* One round of a call or its end: only a leader that exited 0, with nothing sent
\* to its group, gets a receipt that says complete.
LEMMA RoundReceipt ==
    ASSUME NEW c \in Calls, ShapeInv, ReceiptInv, RunProcess(c) \/ PollRaises(c)
    PROVE  /\ ReceiptInv'
           /\ \A p \in Group[c] : Exited0(p)' => Exited0(p)
           /\ call[c].sent \subseteq call'[c].sent
           /\ call'[c].status = "complete" =>
                 /\ call'[c].pc = "done" /\ ~call'[c].raised
                 /\ call[c].sent = {} /\ call[c].pc = "poll"
                 /\ Exited0(Leader[c]) /\ Exited0(Leader[c])'
  <1> USE DEF ShapeInv
  <1>1. c \in {"outer", "inner"} /\ Group[c] \in SUBSET Procs /\ Leader[c] \in Group[c]
        /\ GraceOf[c] \in Nat
    BY CallFacts DEF Procs
  <1>2. "KILL" \in Signals /\ "TERM" \in Signals
    BY DEF Signals
  <1>3. /\ call[c] \in CallType /\ call[c].pc = "poll" /\ call[c].status = "failed"
        /\ ~call[c].raised /\ (call[c].sent # {} => call[c].why # "none")
        /\ proc[Leader[c]].st # "unborn"
        /\ call[c].sent \in SUBSET Signals
    <2>1. Polling(c)
      BY DEF RunProcess, PollLog, LogDue, PollWait, WaitDue, PollTerm, TermDue, PollKill,
             KillDue, PollRaises
    <2> QED
      BY <2>1 DEF Polling, ReceiptInv, CallType
  <1>0. /\ \A p \in Procs : proc'[p].st = "unborn" => proc[p].st = "unborn"
        /\ \A d \in Calls : Leader[d] \in Procs
    <2>1. Round(c)
      BY PollFacts, RaisesFacts
    <2> QED
      BY <1>1, <2>1, CallFacts DEF Round, Procs
  <1>4. ASSUME NEW why \in {"cancelled", "deadline", "log_size_limit",
                            "descendants_after_leader_exit"},
               NEW number \in Signals, NEW r \in CallType, Stop(c, why, number, r),
               r.pc = "poll", r.sent = call[c].sent, r.status = "failed", ~r.raised
        PROVE  /\ ReceiptInv'
               /\ \A p \in Group[c] : Exited0(p)' => Exited0(p)
               /\ call[c].sent \subseteq call'[c].sent
               /\ call'[c].status # "complete"
    <2> DEFINE q == [[r EXCEPT !.why = why] EXCEPT !.sent = r.sent \cup {number}]
    <2>1. /\ q.pc = "poll" /\ q.status = "failed" /\ ~q.raised /\ q.why = why
          /\ q.sent = call[c].sent \cup {number} /\ why # "none"
      BY <1>4 DEF CallType
    <2>2. call' = [call EXCEPT ![c] = q]
      BY <1>4 DEF Stop
    <2> HIDE DEF q
    <2>3. call'[c] = q /\ \A d \in Calls \ {c} : call'[d] = call[d]
      BY <2>2
    <2>4. ReceiptInv'
      BY <1>0, <1>3, <2>1, <2>3 DEF ReceiptInv
    <2>5. proc' = Signalled(proc, Group[c], number)
      BY <1>4 DEF Stop
    <2>6. ASSUME NEW p \in Group[c], Exited0(p)'
          PROVE  Exited0(p)
      <3>1. p \in Procs /\ proc[p] \in ProcType
        BY <1>1
      <3>2. proc'[p] = Receives(proc[p], number)
        BY <1>1, <2>5, SignalledFacts
      <3> QED
        BY <2>6, <3>1, <3>2, ReceivesExit DEF Exited0
    <2> QED
      BY <2>1, <2>3, <2>4, <2>6
  <1>5. \A n \in Nat : LET r == [call[c] EXCEPT !.term = n]
                       IN  /\ r \in CallType /\ r.pc = "poll" /\ r.sent = call[c].sent
                           /\ r.status = "failed" /\ ~r.raised
    BY <1>3 DEF CallType
  <1>6. CASE PollLog(c)
    <2>1. Stop(c, "log_size_limit", "KILL", [call[c] EXCEPT !.term = GraceOf[c]])
      BY <1>6 DEF PollLog
    <2> QED
      BY <1>1, <1>2, <1>4, <1>5, <2>1
  <1>7. CASE PollTerm(c)
    <2>1. Stop(c, IF Cancelled(c) THEN "cancelled" ELSE "deadline", "TERM",
               [call[c] EXCEPT !.term = GraceOf[c]])
      BY <1>7 DEF PollTerm
    <2>2. (IF Cancelled(c) THEN "cancelled" ELSE "deadline") \in {"cancelled", "deadline"}
      OBVIOUS
    <2> QED
      BY <1>1, <1>2, <1>4, <1>5, <2>1, <2>2
  <1>8. CASE PollKill(c)
    <2>1. Stop(c, call[c].why, "KILL", call[c]) /\ call[c].why # "none"
      BY <1>3, <1>8 DEF PollKill, KillDue, Started
    <2>2. call[c].why \in {"cancelled", "deadline", "log_size_limit",
                           "descendants_after_leader_exit"}
      BY <1>3, <2>1 DEF CallType
    <2> QED
      BY <1>1, <1>2, <1>3, <1>4, <2>1, <2>2
  <1>9. ASSUME NEW table \in [Procs -> ProcType], NEW p \in Group[c]
        PROVE  LET left == Waited(table, c)
               IN  /\ left \in [Procs -> ProcType]
                   /\ left[p].code = table[p].code
                   /\ left[p].st = IF p = Leader[c] THEN "gone" ELSE table[p].st
    <2>1. Leader[c] \in Procs /\ p \in Procs /\ table[p] \in ProcType
      BY <1>1
    <2>2. Waited(table, c)[p] = IF p = Leader[c] THEN [table[p] EXCEPT !.st = "gone"] ELSE table[p]
      BY <2>1 DEF Waited
    <2>3. [table[p] EXCEPT !.st = "gone"].code = table[p].code
          /\ [table[p] EXCEPT !.st = "gone"].st = "gone"
      BY <2>1 DEF ProcType
    <2> QED
      BY <1>1, <2>1, <2>2, <2>3, WaitedFacts
  <1>10. CASE PollWait(c)
    <2> DEFINE left == Waited(proc, c)
               cleanup == GroupExists(left, Group[c])
               why0 == IF call[c].why = "none" /\ call[c].left = 0 THEN "deadline" ELSE call[c].why
               r == [call[c] EXCEPT !.code = proc[Leader[c]].code, !.cleanup = cleanup,
                                    !.why = why0]
               status == IF CompleteReceipt(r, cleanup) THEN "complete" ELSE "failed"
               why == IF cleanup /\ why0 = "none" THEN "descendants_after_leader_exit" ELSE why0
    <2>1. proc[Leader[c]].st = "zombie"
      BY <1>10 DEF PollWait, WaitDue
    <2>2. proc' = Signalled(left, Group[c], "KILL")
      BY <1>10 DEF PollWait
    <2>3. r.code = proc[Leader[c]].code /\ r.why = why0 /\ r.pc = "poll"
          /\ r.raised = call[c].raised /\ r.sent = call[c].sent
          /\ DOMAIN r = DOMAIN call[c]
      BY <1>3 DEF CallType
    <2>4. Done(c, [r EXCEPT !.status = status, !.why = IF cleanup /\ @ = "none"
                                                THEN "descendants_after_leader_exit" ELSE @])
      BY <1>10 DEF PollWait
    <2>5. DOMAIN r = {"pc", "left", "term", "sent", "why", "status", "code", "cleanup", "raised"}
      BY <1>3, <2>3 DEF CallType
    <2> HIDE DEF r, left, cleanup, why0, status
    <2> DEFINE q == [[[[[r EXCEPT !.status = status] EXCEPT !.why = why]
                         EXCEPT !.pc = "done"] EXCEPT !.left = 0] EXCEPT !.term = 0]
    <2>6. call' = [call EXCEPT ![c] = q]
      BY <2>3, <2>4, <2>5 DEF Done
    <2>7. /\ q.pc = "done" /\ q.status = status /\ q.why = why
          /\ q.raised = call[c].raised /\ q.sent = call[c].sent
      BY <2>3, <2>5
    <2> HIDE DEF q
    <2>8. call'[c] = q /\ \A d \in Calls \ {c} : call'[d] = call[d]
      BY <2>6
    <2>9. why0 = "none" => call[c].why = "none"
      BY DEF why0
    <2>10. status = "complete" => proc[Leader[c]].code = 0 /\ why0 = "none" /\ ~cleanup
      BY <2>3 DEF status, CompleteReceipt
    <2>11. call[c].sent # {} => why # "none"
      BY <1>3, <2>9
    <2>12. ReceiptInv'
      BY <1>0, <2>7, <2>8, <2>11, <1>3 DEF ReceiptInv
    <2>13. left \in [Procs -> ProcType]
      BY <1>9, <1>1 DEF left
    <2>14. ASSUME NEW p \in Group[c]
           PROVE  /\ Exited0(p)' => left[p].st \in {"zombie", "gone"} /\ left[p].code = 0
                  /\ left[p].st # "runs" => proc'[p] = left[p]
      <3>1. proc'[p] = Receives(left[p], "KILL") /\ left[p] \in ProcType
        BY <1>1, <1>2, <2>2, <2>13, SignalledFacts
      <3> QED
        BY <1>2, <3>1, ReceivesExit DEF Exited0
    <2>15. \A p \in Group[c] : /\ left[p].code = proc[p].code
                               /\ left[p].st = IF p = Leader[c] THEN "gone" ELSE proc[p].st
      BY <1>9 DEF left
    <2>16. \A p \in Group[c] : Exited0(p)' => Exited0(p)
      BY <2>1, <2>14, <2>15 DEF Exited0
    <2>17. status = "complete" => Exited0(Leader[c]) /\ Exited0(Leader[c])'
      BY <1>1, <2>1, <2>10, <2>14, <2>15 DEF Exited0
    <2> QED
      BY <1>3, <2>7, <2>8, <2>9, <2>10, <2>11, <2>12, <2>16, <2>17
  <1>11. CASE PollRaises(c)
    <2> DEFINE left == Signalled(proc, Group[c], "KILL")
    <2>1. proc' = Waited(left, c)
      BY <1>11 DEF PollRaises
    <2>2. /\ left \in [Procs -> ProcType]
          /\ \A p \in Group[c] : left[p] = Receives(proc[p], "KILL")
      BY <1>1, <1>2, SignalledFacts
    <2> HIDE DEF left
    <2>3. \A p \in Group[c] : proc'[p].code = left[p].code
                              /\ proc'[p].st = IF p = Leader[c] THEN "gone" ELSE left[p].st
      BY <1>9, <2>1, <2>2
    <2> DEFINE q == [[[[[call[c] EXCEPT !.raised = TRUE] EXCEPT !.code = proc'[Leader[c]].code]
                         EXCEPT !.pc = "done"] EXCEPT !.left = 0] EXCEPT !.term = 0]
    <2>5. call' = [call EXCEPT ![c] = q]
      BY <1>3, <1>11 DEF PollRaises, Done, CallType
    <2>6. /\ q.pc = "done" /\ q.status = "failed" /\ q.why = call[c].why
          /\ q.sent = call[c].sent
      BY <1>3 DEF CallType
    <2> HIDE DEF q
    <2>7. call'[c] = q /\ \A d \in Calls \ {c} : call'[d] = call[d]
      BY <2>5
    <2>8. ReceiptInv'
      BY <1>0, <1>3, <2>6, <2>7 DEF ReceiptInv
    <2>9. ASSUME NEW p \in Group[c], Exited0(p)'
          PROVE  Exited0(p)
      <3>1. proc[p] \in ProcType /\ left[p] = Receives(proc[p], "KILL")
        BY <1>1, <2>2
      <3> QED
        BY <1>2, <1>3, <2>3, <2>9, <3>1, ReceivesExit DEF Exited0, ProcType
    <2> QED
      BY <1>3, <2>6, <2>7, <2>8, <2>9
  <1> QED
    BY <1>6, <1>7, <1>8, <1>10, <1>11 DEF RunProcess

\* A call that starts nothing has a receipt that does not say complete.
LEMMA NothingStartedReceipt ==
    ASSUME NEW c \in Calls, NEW left \in Nat, ShapeInv, ReceiptInv,
           Skip(c, left) \/ NoPopen(c, left)
    PROVE  ReceiptInv' /\ call'[c].status # "complete" /\ proc' = proc
           /\ call'[c].pc = "done"
  <1>1. NoCall.sent = {} /\ NoCall.status = "failed" /\ DOMAIN NoCall = {"pc", "left",
          "term", "sent", "why", "status", "code", "cleanup", "raised"}
    BY DEF NoCall
  <1>2. PICK q : /\ Done(c, q) /\ q.sent = {} /\ q.status # "complete"
                 /\ DOMAIN q = DOMAIN NoCall
    <2>1. CASE NoPopen(c, left)
      BY <1>1, <2>1 DEF NoPopen
    <2>2. CASE Skip(c, left)
      <3>1. Done(c, [NoCall EXCEPT !.status = "skipped",
                              !.why = IF Cancelled(c) THEN "cancelled" ELSE "deadline"])
        BY <2>2 DEF Skip
      <3> DEFINE why == IF Cancelled(c) THEN "cancelled" ELSE "deadline"
      <3> HIDE DEF why
      <3>2. Done(c, [[NoCall EXCEPT !.status = "skipped"] EXCEPT !.why = why])
        BY <3>1 DEF why
      <3> DEFINE q0 == [[NoCall EXCEPT !.status = "skipped"] EXCEPT !.why = why]
      <3>3. q0.sent = {} /\ q0.status = "skipped" /\ DOMAIN q0 = DOMAIN NoCall
        BY <1>1
      <3> HIDE DEF q0
      <3>4. q0.status # "complete"
        BY <3>3
      <3> QED
        BY <3>2, <3>3, <3>4 DEF q0
    <2> QED
      BY <2>1, <2>2
  <1> DEFINE r == [[[q EXCEPT !.pc = "done"] EXCEPT !.left = 0] EXCEPT !.term = 0]
  <1>3. r.pc = "done" /\ r.sent = {} /\ r.status # "complete"
    BY <1>1, <1>2
  <1>4. call' = [call EXCEPT ![c] = r]
    BY <1>2 DEF Done
  <1> HIDE DEF r
  <1>5. call'[c] = r /\ \A d \in Calls \ {c} : call'[d] = call[d]
    BY <1>4 DEF ShapeInv
  <1>6. proc' = proc
    BY DEF Skip, NoPopen
  <1> QED
    BY <1>3, <1>5, <1>6 DEF ReceiptInv

LEMMA PopenReceipt ==
    ASSUME NEW c \in Calls, NEW left \in Nat, NEW t \in {"dies", "handles", "deaf"},
           ShapeInv, ReceiptInv, Popen(c, left, t)
    PROVE  /\ ReceiptInv' /\ call'[c].status = "failed" /\ call'[c].pc = "poll"
           /\ ~Exited0(Leader[c])' /\ call'[c].sent = {}
  <1>1. /\ call'[c].pc = "poll" /\ call'[c].sent = {} /\ ~call'[c].raised
        /\ \A d \in Calls \ {c} : call'[d] = call[d]
        /\ proc'[Leader[c]].st = "runs"
        /\ \A p \in Procs \ {Leader[c]} : proc'[p] = proc[p]
    BY PopenFacts
  <1>2. call'[c].status = "failed"
    <2> DEFINE q == [[NoCall EXCEPT !.pc = "poll"] EXCEPT !.left = left]
    <2>1. q.status = "failed"
      BY DEF NoCall
    <2>2. call' = [call EXCEPT ![c] = q]
      BY DEF Popen
    <2> HIDE DEF q
    <2> QED
      BY <2>1, <2>2 DEF ShapeInv
  <1>3. \A d \in Calls : Leader[d] \in Procs
    BY CallFacts DEF Procs
  <1> QED
    BY <1>1, <1>2, <1>3 DEF ReceiptInv, Exited0

--------------------------------------------------------------------------------
(* The supervisor keeps the account.                                        *)

LEMMA ItemFacts ==
    /\ Arms * Passes \in Nat \ {0} /\ Calls1 \in Nat
    /\ Last \in {Arms * Passes, Arms * Passes + 1}
    /\ Jobs = 1 .. Arms * Passes /\ Items = 0 .. Arms * Passes + 1 /\ Jobs \subseteq Items
    /\ Setup = 0 /\ Replay = Arms * Passes + 1
    /\ Native(Setup) = FALSE /\ Native(Replay) = FALSE
  <1>1. Arms * Passes \in Nat \ {0}
    BY StudyAssumption
  <1> DEFINE n == Arms * Passes
  <1>2. /\ Last \in {n, n + 1} /\ Jobs = 1 .. n /\ Items = 0 .. n + 1
        /\ Setup = 0 /\ Replay = n + 1
    BY DEF Last, Replay, Jobs, Items, Setup
  <1> HIDE DEF n
  <1>3. 0 \notin 1 .. n /\ n + 1 \notin 1 .. n /\ 1 .. n \subseteq 0 .. n + 1
    BY <1>1 DEF n
  <1>4. Native(Setup) = FALSE /\ Native(Replay) = FALSE
    BY <1>2, <1>3 DEF Native
  <1> QED
    BY <1>1, <1>2, <1>3, <1>4, StudyAssumption DEF n

\* What a step of the supervisor's own leaves of the records.
SupRecords ==
    /\ input' = input /\ verdict' = verdict
    /\ DOMAIN disk' = DOMAIN disk /\ disk'.attempt = disk.attempt
    /\ DOMAIN sup'.terminal = {"status", "receipt", "collection", "stop"}
    /\ sup'.terminal.status = "complete" =>
          \/ sup.pc = "judge" /\ sup'.pc = "note" /\ call["outer"].status = "complete"
          \/ /\ sup.terminal.status = "complete"
             /\ sup'.pc \in {"note", "restore", "save", "done"}
    /\ \/ disk'.terminal = disk.terminal /\ sup.pc # "done"
       \/ disk'.terminal = <<NoTerminal>>
       \/ disk'.terminal = <<sup.terminal>> /\ sup'.pc = "done" /\ sup'.terminal = sup.terminal

LEMMA SupRecordsFacts ==
    ASSUME ShapeInv, RecordInv, TerminalInv,
           \/ SupStart \/ SupLimits \/ SupReturn \/ SupJudge \/ SupNote
           \/ SupRestore \/ SupSave
    PROVE  SupRecords
  <1> USE DEF ShapeInv, RecordInv, TerminalInv, SupRecords
  <1>1. CASE SupStart
    BY <1>1 DEF SupStart, SupAt, supSteady
  <1>2. CASE SupLimits
    BY <1>2 DEF SupLimits, SupAt, supSteady
  <1>3. CASE SupReturn
    BY <1>3 DEF SupReturn, SupAt, supSteady
  <1>4. CASE SupJudge
    <2>1. /\ sup.pc = "judge" /\ disk' = disk /\ input' = input /\ verdict' = verdict
          /\ sup' = [pc |-> "note",
               terminal |-> IF call["outer"].raised THEN sup.terminal ELSE
                   [sup.terminal EXCEPT
                     !.receipt = TRUE,
                     !.collection = disk.collection,
                     !.status = IF call["outer"].status = "complete" /\ disk.collection
                                THEN "complete" ELSE "failed"]]
      BY <1>4 DEF SupJudge, supSteady
    <2>2. sup'.pc = "note"
      BY <2>1
    <2> DEFINE s == IF call["outer"].status = "complete" /\ disk.collection
                    THEN "complete" ELSE "failed"
               t == [[[sup.terminal EXCEPT !.receipt = TRUE] EXCEPT !.collection = disk.collection]
                       EXCEPT !.status = s]
    <2>3. sup'.terminal = IF call["outer"].raised THEN sup.terminal ELSE t
      BY <2>1
    <2>4. DOMAIN t = DOMAIN sup.terminal /\ t.status = s
      OBVIOUS
    <2>5. s = "complete" => call["outer"].status = "complete"
      OBVIOUS
    <2> HIDE DEF t, s
    <2> QED
      BY <2>1, <2>2, <2>3, <2>4, <2>5
  <1>5. CASE SupNote
    BY <1>5 DEF SupNote, supSteady
  <1>6. CASE SupRestore
    BY <1>6 DEF SupRestore, SupAt, supSteady
  <1>7. CASE SupSave
    BY <1>7 DEF SupSave, SupAt, supSteady
  <1> QED
    BY <1>1, <1>2, <1>3, <1>4, <1>5, <1>6, <1>7

\* Everything but the terminal record stands when neither controller, jobs nor
\* attempt have moved.
LEMMA AccountKept ==
    ASSUME IInv, WorkInv,
           ctl' = ctl, input' = input, world' = world, call'["inner"] = call["inner"],
           proc'["job"] = proc["job"], disk'.attempt = disk.attempt
    PROVE  ProgressInv' /\ (Is("solomon") => BookedInv)' /\ SavedInv'
  <1>1. ProgressInv'
    BY DEF WorkInv, ProgressInv, Exited0, Last, Is
  <1>2. (Is("solomon") => BookedInv)'
    BY DEF WorkInv, BookedInv, Spent, Exited0, Running, Is
  <1>3. SavedInv'
    BY DEF WorkInv, SavedInv, Is
  <1> QED
    BY <1>1, <1>2, <1>3

LEMMA SupKeeps ==
    ASSUME IInv, WorkInv, SupMoves, SupRecords
    PROVE  RecordInv' /\ ReceiptInv' /\ ProgressInv' /\ (Is("solomon") => BookedInv)'
           /\ SavedInv' /\ TerminalInv'
  <1>1. /\ proc'["ctl"] = proc["ctl"] /\ proc'["job"] = proc["job"]
        /\ call' = call /\ ctl' = ctl /\ world' = world
        /\ Leader["outer"] = "ctl" /\ Leader["inner"] = "job" /\ Calls = {"outer", "inner"}
    BY CallFacts DEF SupMoves, Procs
  <1>2. RecordInv'
    BY <1>1 DEF WorkInv, RecordInv, SupRecords, Last, Is
  <1>3. ReceiptInv'
    BY <1>1 DEF WorkInv, ReceiptInv
  <1>4. ProgressInv' /\ (Is("solomon") => BookedInv)' /\ SavedInv'
    BY <1>1, AccountKept DEF SupRecords
  <1>5. TerminalInv'
    <2>1. disk'.terminal # Absent /\ disk'.terminal[1].status = "complete" =>
             sup'.pc = "done" /\ call["outer"].status = "complete"
      <3>1. CASE disk'.terminal = disk.terminal /\ sup.pc # "done"
        BY <3>1 DEF WorkInv, TerminalInv
      <3>2. CASE disk'.terminal = <<NoTerminal>>
        BY <3>2 DEF NoTerminal
      <3>3. CASE disk'.terminal = <<sup.terminal>> /\ sup'.pc = "done" /\ sup'.terminal = sup.terminal
        BY <3>3 DEF WorkInv, TerminalInv
      <3> QED
        BY <3>1, <3>2, <3>3 DEF SupRecords
    <2>2. sup'.terminal.status = "complete" =>
             /\ sup'.pc \in {"note", "restore", "save", "done"}
             /\ call["outer"].status = "complete"
      BY DEF SupRecords, WorkInv, TerminalInv
    <2> QED
      BY <1>1, <2>1, <2>2 DEF WorkInv, TerminalInv, Exited0, Running
  <1> QED
    BY <1>2, <1>3, <1>4, <1>5

LEMMA LaunchKeeps ==
    ASSUME IInv, WorkInv, SupLaunch
    PROVE  RecordInv' /\ ReceiptInv' /\ ProgressInv' /\ (Is("solomon") => BookedInv)'
           /\ SavedInv' /\ TerminalInv'
  <1>1. /\ sup.pc = "launch" /\ sup'.pc = "wait" /\ sup'.terminal = sup.terminal
        /\ input' = input /\ disk' = disk
    BY DEF SupLaunch, SupAt, IInv, ShapeInv
  <1>2. /\ call["outer"].pc = "idle" /\ ctl.pc = "none" /\ ~Running("ctl")
        /\ call["inner"].pc = "idle" /\ ~Running("job") /\ proc["ctl"].st = "unborn"
    BY <1>1, StoppedAre DEF IInv, OuterInv, Running
  <1>3. /\ TotalSeconds \in Nat /\ "outer" \in Calls /\ "inner" \in Calls /\ ShapeInv
        /\ {"sup", "ctl", "job", "kid"} = Procs /\ Leader["outer"] = "ctl"
        /\ ReceiptInv /\ Leader["inner"] = "job" /\ Calls = {"outer", "inner"}
    BY StudyAssumption, CallFacts DEF Procs, IInv, WorkInv
  <1>4. /\ world'.made = world.made /\ world'.now = world.now
        /\ world'.ended = world.ended /\ world'.struck = world.struck
    BY <1>3 DEF SupLaunch, Fault, ShapeInv
  <1>5. sup.terminal.status # "complete" /\ "ctl" \notin world.struck
        /\ ~(disk.terminal # Absent /\ disk.terminal[1].status = "complete")
    BY <1>1, <1>2 DEF WorkInv, TerminalInv, Running
  <1>6. /\ ReceiptInv' /\ call'["outer"].status # "complete" /\ ~Exited0("ctl")'
        /\ proc'["job"] = proc["job"] /\ call'["inner"] = call["inner"]
    <2>1. CASE Skip("outer", TotalSeconds) \/ NoPopen("outer", TotalSeconds)
      <3>1. ReceiptInv' /\ call'["outer"].status # "complete" /\ proc' = proc
        BY <1>3, <2>1, NothingStartedReceipt
      <3>2. call'["inner"] = call["inner"]
        BY <1>3, <2>1, NothingStarted
      <3> QED
        BY <1>2, <3>1, <3>2 DEF Exited0
    <2>2. CASE Popen("outer", TotalSeconds, "dies")
      <3>1. ReceiptInv' /\ call'["outer"].status = "failed" /\ ~Exited0("ctl")'
        BY <1>3, <2>2, PopenReceipt
      <3>2. call'["inner"] = call["inner"] /\ proc'["job"] = proc["job"]
        BY <1>3, <2>2, PopenFacts
      <3> QED
        BY <3>1, <3>2
    <2> QED
      BY <2>1, <2>2 DEF SupLaunch
  <1>7. /\ ctl'.pc \in {"none", "boot"} /\ ctl'.item = ctl.item /\ ctl'.attempt = ctl.attempt
    BY <1>2 DEF SupLaunch, IInv, ShapeInv
  <1>8. RecordInv'
    BY <1>1, <1>4, <1>7 DEF WorkInv, RecordInv, Last, Is
  <1>9. ProgressInv'
    BY <1>1, <1>2, <1>4, <1>6, <1>7 DEF WorkInv, ProgressInv, Exited0, Last, Is, Closing
  <1>10. (Is("solomon") => BookedInv)'
    BY <1>1, <1>2, <1>4, <1>6, <1>7 DEF WorkInv, BookedInv, Spent, Exited0, Running, Is
  <1>11. SavedInv'
    BY <1>1, <1>2, <1>7 DEF WorkInv, SavedInv, Is
  <1>12. TerminalInv'
    BY <1>1, <1>2, <1>4, <1>5, <1>6, <1>7 DEF WorkInv, TerminalInv, Closing
  <1> QED
    BY <1>6, <1>8, <1>9, <1>10, <1>11, <1>12

\* The supervisor's own call: the controller may end, by itself or by a signal.
LEMMA OuterKeeps ==
    ASSUME IInv, WorkInv, SupPoll
    PROVE  RecordInv' /\ ReceiptInv' /\ ProgressInv' /\ (Is("solomon") => BookedInv)'
           /\ SavedInv' /\ TerminalInv'
  <1>1. /\ sup.pc = "wait" /\ ctl' = ctl /\ sup' = sup /\ input' = input /\ disk' = disk
        /\ world'.made = world.made /\ world'.now = world.now
        /\ world'.ended = world.ended /\ world'.struck = world.struck
    BY DEF SupPoll, Fault, IInv, ShapeInv
  <1>2. /\ "inner" \in Calls /\ "outer" \in Calls /\ ShapeInv /\ ReceiptInv
        /\ Group["outer"] = {"ctl"} /\ Leader["outer"] = "ctl"
        /\ {"sup", "ctl", "job", "kid"} = Procs
    BY CallFacts DEF IInv, Procs, WorkInv
  <1>3. RunProcess("outer") \/ PollRaises("outer")
    BY DEF SupPoll
  <1>4. Polling("outer") /\ Round("outer")
    BY <1>2, <1>3, PollFacts, RaisesFacts
  <1>5. /\ call'["inner"] = call["inner"] /\ proc'["job"] = proc["job"]
        /\ proc'["ctl"].st = "runs" => Running("ctl")
        /\ proc'["ctl"].st = "unborn" => proc["ctl"].st = "unborn"
        /\ call["outer"].pc = "poll"
    BY <1>2, <1>4 DEF Round, Running, Polling
  <1>6. /\ ReceiptInv'
        /\ Exited0("ctl")' => Exited0("ctl")
        /\ call'["outer"].status = "complete" =>
              call'["outer"].pc = "done" /\ ~call'["outer"].raised /\ Exited0("ctl")'
    BY <1>2, <1>3, RoundReceipt
  <1>7. /\ sup.terminal.status # "complete" /\ call["outer"].status # "complete"
        /\ ~(disk.terminal # Absent /\ disk.terminal[1].status = "complete")
    BY <1>1, <1>5 DEF WorkInv, TerminalInv
  <1>8. RecordInv'
    BY <1>1 DEF WorkInv, RecordInv, Last, Is
  <1>9. ProgressInv'
    BY <1>1, <1>5 DEF WorkInv, ProgressInv, Exited0, Last, Is
  <1>10. (Is("solomon") => BookedInv)'
    BY <1>1, <1>5 DEF WorkInv, BookedInv, Spent, Exited0, Running, Is
  <1>11. SavedInv'
    BY <1>1 DEF WorkInv, SavedInv, Is
  <1>12. TerminalInv'
    <2>1. ("ctl" \in world.struck => ~Exited0("ctl") /\ ~Running("ctl") /\ proc["ctl"].st # "unborn")'
      BY <1>1, <1>5, <1>6 DEF WorkInv, TerminalInv, Running
    <2>2. (Exited0("ctl") => ctl.pc = "gone" /\ ctl.attempt.status = "complete")'
      BY <1>1, <1>6 DEF WorkInv, TerminalInv
    <2>3. ("job" \in world.struck =>
          /\ ctl.attempt.status = "failed" /\ ctl.pc \in Closing \cup {"wait"}
          /\ ~Running("job")
          /\ ctl.pc = "wait" =>
                /\ ~Exited0("job")
                /\ call["inner"].status # "complete")'
      BY <1>1, <1>5 DEF WorkInv, TerminalInv, Running, Exited0
    <2> QED
      BY <1>1, <1>6, <1>7, <2>1, <2>2, <2>3 DEF TerminalInv
  <1> QED
    BY <1>6, <1>8, <1>9, <1>10, <1>11, <1>12

--------------------------------------------------------------------------------
(* The controller keeps the account.                                        *)

\* Two attempts that count the same work.
Counts(a, b) ==
    /\ a.completed = b.completed /\ a.confirmed = b.confirmed
    /\ a.upper = b.upper /\ a.unknown = b.unknown

\* What every step outside a call leaves of the records.
CtlRecords ==
    /\ input' = input /\ verdict' = verdict
    /\ DOMAIN disk' = DOMAIN disk /\ disk'.terminal = disk.terminal
    /\ \/ proc'["ctl"].st = "runs"
       \/ /\ proc'["ctl"].st = "zombie"
          /\ proc'["ctl"].code = 0 => ctl'.pc = "gone" /\ ctl'.attempt.status = "complete"
    /\ ctl.pc \in Closing =>
          ctl'.pc \in Closing /\ ctl'.attempt.status = ctl.attempt.status

\* The steps that count nothing: before the schedule, out of it, after it.
SameBooks ==
    /\ ctl'.item = ctl.item /\ ctl'.attempt \in AttemptType
    /\ Counts(ctl'.attempt, ctl.attempt)
    /\ ctl'.attempt.status = "complete" => ctl'.pc \in Closing /\ ctl'.item = Last + 1
    /\ \/ ctl'.pc \in Closing
       \/ ctl'.pc = "inputs" /\ ctl.pc = "boot"
       \/ ctl'.pc = "next" /\ ctl.pc = "inputs"
    /\ \/ disk'.attempt = disk.attempt
       \/ \E a \in AttemptType : disk'.attempt = <<a>> /\ Counts(a, ctl.attempt)

LEMMA NoAttemptTyped == NoAttempt \in AttemptType
  BY DEF NoAttempt, AttemptType

LEMMA StatusTyped ==
    ASSUME NEW a \in AttemptType, NEW s \in {"failed", "complete"}
    PROVE  LET b == [a EXCEPT !.status = s]
           IN  b \in AttemptType /\ Counts(b, a) /\ b.status = s
  BY DEF AttemptType, Counts

LEMMA StopTyped ==
    ASSUME NEW a \in AttemptType, NEW s \in BOOLEAN
    PROVE  LET b == [a EXCEPT !.stop = s]
           IN  b \in AttemptType /\ Counts(b, a) /\ b.status = a.status
  BY DEF AttemptType, Counts

LEMMA SameBooksFacts ==
    ASSUME ShapeInv, RecordInv, ProgressInv, SavedInv,
           \/ CtlStart \/ CtlInputs \/ CtlStopped \/ CtlRefuses \/ CtlFinish
           \/ CtlNote \/ CtlRestore \/ CtlSave \/ CtlCollect \/ CtlExit
    PROVE  CtlRecords /\ SameBooks
  <1> USE DEF ShapeInv, CtlRecords, SameBooks, Closing
  <1>1. /\ "ctl" \in Procs /\ ctl.attempt \in AttemptType /\ Counts(ctl.attempt, ctl.attempt)
        /\ DOMAIN disk = {"attempt", "receipts", "over", "rows", "collection", "terminal"}
        /\ (ctl.attempt.status = "complete" => ctl.item = Last + 1 /\ ctl.pc \in Closing)
    BY DEF Procs, RecordInv, ProgressInv, Counts
  <1>2. proc["ctl"] \in ProcType
    BY <1>1
  <1>3. ASSUME NEW t \in {"dies", "handles"}, proc' = [proc EXCEPT !["ctl"].term = t],
               Running("ctl")
        PROVE  proc'["ctl"].st = "runs"
    BY <1>1, <1>3, HandlerFacts DEF Running
  <1>4. Noted \in AttemptType /\ Counts(Noted, ctl.attempt) /\ Noted.status = ctl.attempt.status
    <2>1. proc["ctl"].told \in BOOLEAN
      BY <1>2 DEF ProcType
    <2> QED
      BY <1>1, <2>1, StopTyped DEF Noted
  <1>5. CASE CtlStart
    <2>1. /\ Running("ctl") /\ ctl.pc = "boot" /\ ctl'.pc = "inputs" /\ ctl'.item = ctl.item
          /\ ctl'.attempt = ctl.attempt /\ input' = input /\ verdict' = verdict
          /\ proc' = [proc EXCEPT !["ctl"].term = "handles"]
          /\ disk' = [disk EXCEPT !.attempt = <<NoAttempt>>] \/ disk' = disk
      BY <1>5 DEF CtlStart, steady, Handles, Save
    <2>2. ctl.attempt = NoAttempt /\ ctl.attempt.status # "complete"
      BY <1>1, <2>1 DEF SavedInv
    <2>3. proc'["ctl"].st = "runs"
      BY <1>3, <2>1
    <2> QED
      BY <1>1, <2>1, <2>2, <2>3, NoAttemptTyped
  <1>6. CASE CtlInputs
    BY <1>1, <1>6 DEF CtlInputs, At, steady, Running
  <1>7. CASE CtlStopped
    BY <1>1, <1>7 DEF CtlStopped, At, steady, Running
  <1>8. CASE CtlRefuses
    BY <1>1, <1>8 DEF CtlRefuses, At, steady, Running
  <1>9. CASE CtlFinish
    <2> DEFINE s == IF Stopped /\ ~Is("coverage") THEN "failed" ELSE "complete"
    <2>1. /\ Running("ctl") /\ ctl.pc = "next" /\ ctl.item = Last + 1
          /\ ctl' = [[ctl EXCEPT !.pc = "note"] EXCEPT !.attempt.status = s]
          /\ proc' = proc /\ disk' = disk /\ input' = input /\ verdict' = verdict
      BY <1>9 DEF CtlFinish, steady
    <2>2. s \in {"failed", "complete"}
      OBVIOUS
    <2> HIDE DEF s
    <2>3. /\ ctl'.pc = "note" /\ ctl'.item = ctl.item
          /\ ctl'.attempt = [ctl.attempt EXCEPT !.status = s]
      BY <2>1
    <2>4. ctl'.attempt \in AttemptType /\ Counts(ctl'.attempt, ctl.attempt)
      <3> DEFINE b == [ctl.attempt EXCEPT !.status = s]
      <3>1. b \in AttemptType /\ Counts(b, ctl.attempt)
        BY <1>1, <2>2, StatusTyped
      <3> HIDE DEF b
      <3>2. ctl'.attempt = b
        BY <2>3 DEF b
      <3> QED
        BY <3>1, <3>2
    <2>5. Last' = Last
      BY <2>1 DEF Last, Is
    <2> QED
      BY <1>1, <2>1, <2>3, <2>4, <2>5 DEF Running
  <1>10. CASE CtlNote
    <2>1. /\ Running("ctl") /\ ctl.pc = "note" /\ proc' = proc /\ disk' = disk
          /\ ctl' = [ctl EXCEPT !.pc = "restore", !.left = 0,
                          !.attempt = IF Is("coverage") THEN @ ELSE Noted]
          /\ input' = input /\ verdict' = verdict
      BY <1>10 DEF CtlNote, steady
    <2>2. /\ ctl'.pc = "restore" /\ ctl'.item = ctl.item
          /\ ctl'.attempt = ctl.attempt \/ ctl'.attempt = Noted
      BY <2>1
    <2>3. Last' = Last
      BY <2>1 DEF Last, Is
    <2> QED
      BY <1>1, <1>4, <2>1, <2>2, <2>3 DEF Running
  <1>11. CASE CtlRestore
    <2>1. /\ Running("ctl") /\ ctl.pc = "restore" /\ disk' = disk
          /\ ctl' = [ctl EXCEPT !.pc = "save"] /\ proc' = [proc EXCEPT !["ctl"].term = "dies"]
          /\ input' = input /\ verdict' = verdict
      BY <1>11 DEF CtlRestore, At, Default, steady
    <2>2. proc'["ctl"].st = "runs"
      BY <1>3, <2>1
    <2> QED
      BY <1>1, <2>1, <2>2
  <1>12. CASE CtlSave
    <2>1. /\ Running("ctl") /\ ctl.pc = "save" /\ proc' = proc
          /\ ctl' = [ctl EXCEPT !.pc = "collect"]
          /\ \/ disk' = [disk EXCEPT !.attempt = <<Noted>>]
             \/ disk' = [disk EXCEPT !.attempt = <<ctl.attempt>>]
          /\ input' = input /\ verdict' = verdict
      BY <1>12 DEF CtlSave, At, Save, steady
    <2> QED
      BY <1>1, <1>4, <2>1 DEF Running
  <1>13. CASE CtlCollect
    BY <1>1, <1>13 DEF CtlCollect, At, steady, Running
  <1>14. CASE CtlExit
    <2>1. /\ Running("ctl") /\ ctl.pc = "exit" /\ disk' = disk
          /\ ctl' = [ctl EXCEPT !.pc = "gone"]
          /\ proc' = Exits(proc, "ctl", IF ctl.attempt.status = "complete" THEN 0 ELSE 1)
          /\ input' = input /\ verdict' = verdict
      BY <1>14 DEF CtlExit, At, steady
    <2> DEFINE n == IF ctl.attempt.status = "complete" THEN 0 ELSE 1
               q == [[proc["ctl"] EXCEPT !.st = "zombie"] EXCEPT !.code = n]
    <2>2. q.st = "zombie" /\ q.code = n /\ (n = 0 => ctl.attempt.status = "complete")
      BY <1>2 DEF ProcType
    <2>3. proc'["ctl"] = q
      BY <1>1, <2>1 DEF Exits
    <2> HIDE DEF q, n
    <2> QED
      BY <1>1, <2>1, <2>2, <2>3
  <1> QED
    BY <1>5, <1>6, <1>7, <1>8, <1>9, <1>10, <1>11, <1>12, <1>13, <1>14

LEMMA CtlQuiet ==
    ASSUME IInv, WorkInv, CtlMoves, CtlRecords
    PROVE  /\ call' = call /\ proc'["job"] = proc["job"] /\ world' = world
           /\ call["inner"].pc = "idle" /\ ~Running("job") /\ ~Running("job")'
           /\ ReceiptInv'
           /\ "job" \in world.struck => ctl.pc \in Closing /\ ctl.attempt.status = "failed"
           /\ TerminalInv'
  <1>1. /\ proc'["job"] = proc["job"] /\ Running("ctl") /\ ctl.pc # "wait" /\ ctl'.pc # "wait"
        /\ call' = call /\ world' = world /\ sup' = sup
    BY DEF CtlMoves, Procs
  <1>2. call["inner"].pc = "idle" /\ ~Running("job")
    BY <1>1, StoppedAre
  <1>3. /\ "ctl" \notin world.struck /\ ~Exited0("ctl") /\ call["outer"].status # "complete"
        /\ sup.terminal.status # "complete"
        /\ ~(disk.terminal # Absent /\ disk.terminal[1].status = "complete")
        /\ "job" \in world.struck => ctl.pc \in Closing /\ ctl.attempt.status = "failed"
    BY <1>1 DEF WorkInv, TerminalInv, Exited0, Running
  <1>4. ReceiptInv'
    BY <1>1, CallFacts DEF WorkInv, ReceiptInv, CtlRecords
  <1>5. TerminalInv'
    BY <1>1, <1>2, <1>3 DEF TerminalInv, CtlRecords, Exited0, Running
  <1> QED
    BY <1>1, <1>2, <1>3, <1>4, <1>5 DEF Running

LEMMA SameBooksKeeps ==
    ASSUME IInv, WorkInv, CtlMoves, CtlRecords, SameBooks
    PROVE  RecordInv' /\ ReceiptInv' /\ ProgressInv' /\ (Is("solomon") => BookedInv)'
           /\ SavedInv' /\ TerminalInv'
  <1>1. /\ call' = call /\ proc'["job"] = proc["job"] /\ world' = world
        /\ call["inner"].pc = "idle" /\ ~Running("job") /\ ~Running("job")'
        /\ ReceiptInv' /\ TerminalInv' /\ sup' = sup /\ Last' = Last
    BY CtlQuiet DEF CtlMoves, CtlRecords, Last, Is
  <1>2. RecordInv'
    BY <1>1 DEF WorkInv, RecordInv, SameBooks, CtlRecords, Absent
  <1>3. ProgressInv'
    BY <1>1 DEF WorkInv, ProgressInv, SameBooks, Counts, Closing
  <1>4. (Is("solomon") => BookedInv)'
    BY <1>1 DEF WorkInv, BookedInv, SameBooks, CtlRecords, Counts, Closing, Is
  <1>5. SavedInv'
    BY <1>1 DEF WorkInv, SavedInv, RecordInv, SameBooks, CtlRecords, Counts, Closing, Is, AttemptType
  <1> QED
    BY <1>1, <1>2, <1>3, <1>4, <1>5

LEMMA PutTyped ==
    ASSUME NEW a \in AttemptType, NEW k \in Nat, NEW m \in Nat, NEW u \in BOOLEAN
    PROVE  LET b == [[[a EXCEPT !.started = k] EXCEPT !.upper = m] EXCEPT !.unknown = u]
           IN  /\ b \in AttemptType /\ b.completed = a.completed
               /\ b.confirmed = a.confirmed /\ b.status = a.status
               /\ b.upper = m /\ b.unknown = u
  BY DEF AttemptType

LEMMA BookedTyped ==
    ASSUME ctl.attempt \in AttemptType, NEW i
    PROVE  /\ Booked(i) \in AttemptType
           /\ Booked(i).completed = ctl.attempt.completed
           /\ Booked(i).confirmed = ctl.attempt.confirmed
           /\ Booked(i).status = ctl.attempt.status
           /\ Is("solomon") /\ ~ctl.attempt.unknown =>
                 /\ Booked(i).unknown = Native(i)
                 /\ Booked(i).upper = ctl.attempt.upper + IF Native(i) THEN Calls1 ELSE 0
  <1> DEFINE a == ctl.attempt
             paid == Is("solomon") /\ Native(i)
             n == IF paid THEN Calls1 ELSE 0
  <1>1. a.unknown \in BOOLEAN /\ a.upper \in Nat /\ a.started \in Nat
        /\ Native(i) \in BOOLEAN /\ n \in Nat
    BY StudyAssumption DEF AttemptType, Native
  <1>2. CASE i \notin Jobs
    <2>1. ~Native(i) /\ Booked(i) = a
      BY <1>2 DEF Native, Booked
    <2> QED
      BY <1>1, <2>1
  <1>3. CASE i \in Jobs
    <2>6. PICK u \in BOOLEAN : u = (a.unknown \/ paid)
      OBVIOUS
    <2> DEFINE b == [[[a EXCEPT !.started = a.started + 1] EXCEPT !.upper = a.upper + n]
                       EXCEPT !.unknown = u]
    <2>1. Booked(i) = b
      BY <1>3, <2>6 DEF Booked
    <2>2. a.started + 1 \in Nat /\ a.upper + n \in Nat
      BY <1>1
    <2> HIDE DEF n
    <2>3. /\ b.completed = a.completed /\ b.confirmed = a.confirmed
          /\ b.status = a.status /\ b.upper = a.upper + n
      BY DEF AttemptType
    <2>7. b \in AttemptType
      BY <1>1, <2>2, PutTyped
    <2>8. b.unknown = u
      BY DEF AttemptType
    <2> HIDE DEF b
    <2>4. Is("solomon") /\ ~a.unknown => u = Native(i)
      BY <1>1, <2>6
    <2>5. Is("solomon") => n = IF Native(i) THEN Calls1 ELSE 0
      BY DEF n
    <2> QED
      BY <2>1, <2>3, <2>4, <2>5, <2>7, <2>8
  <1> QED
    BY <1>2, <1>3

LEMMA ConfirmedTyped ==
    ASSUME ctl.attempt \in AttemptType, NEW i
    PROVE  /\ Confirmed(i) \in AttemptType
           /\ Confirmed(i).status = ctl.attempt.status
           /\ Confirmed(i).upper = ctl.attempt.upper
           /\ i \notin Jobs => Confirmed(i) = ctl.attempt
           /\ i \in Jobs => /\ Confirmed(i).completed = ctl.attempt.completed + 1
                            /\ ~Confirmed(i).unknown
           /\ i \in Jobs /\ Is("solomon") =>
                 Confirmed(i).confirmed =
                    ctl.attempt.confirmed + IF Native(i) THEN Calls1 ELSE 0
  <1>1. CASE i \notin Jobs
    BY <1>1 DEF Confirmed
  <1>2. CASE i \in Jobs
    <2> DEFINE a == ctl.attempt
               n == IF Is("solomon") /\ Native(i) THEN Calls1 ELSE 0
               b == [[[a EXCEPT !.completed = a.completed + 1] EXCEPT !.confirmed = a.confirmed + n]
                       EXCEPT !.unknown = FALSE]
    <2>1. Confirmed(i) = b
      BY <1>2 DEF Confirmed
    <2>2. n \in Nat /\ (Is("solomon") => n = IF Native(i) THEN Calls1 ELSE 0)
      BY StudyAssumption
    <2> HIDE DEF n
    <2>4. \A k, m \in Nat :
             LET r == [[[a EXCEPT !.completed = k] EXCEPT !.confirmed = m]
                         EXCEPT !.unknown = FALSE]
             IN  /\ r \in AttemptType /\ r.completed = k /\ r.confirmed = m
                 /\ r.status = a.status /\ r.upper = a.upper /\ ~r.unknown
      BY DEF AttemptType
    <2>5. a.completed + 1 \in Nat /\ a.confirmed + n \in Nat
      BY <2>2 DEF AttemptType
    <2>3. /\ b \in AttemptType /\ b.completed = a.completed + 1 /\ b.confirmed = a.confirmed + n
          /\ b.status = a.status /\ b.upper = a.upper /\ ~b.unknown
      BY <2>4, <2>5
    <2> HIDE DEF b
    <2> QED
      BY <1>2, <2>1, <2>2, <2>3
  <1> QED
    BY <1>1, <1>2

LEMMA BookKeeps ==
    ASSUME IInv, WorkInv, CtlMoves, CtlBook
    PROVE  RecordInv' /\ ReceiptInv' /\ ProgressInv' /\ (Is("solomon") => BookedInv)'
           /\ SavedInv' /\ TerminalInv'
  <1> DEFINE i == ctl.item
             b == Booked(i)
  <1>1. /\ Running("ctl") /\ ctl.pc = "next" /\ i <= Last
        /\ ctl'.pc = "start" /\ ctl'.item = i /\ ctl'.attempt = b
        /\ DOMAIN disk' = DOMAIN disk /\ disk'.terminal = disk.terminal
        /\ disk'.attempt = IF SavesFirst(i) THEN <<b>> ELSE disk.attempt
        /\ proc' = proc /\ input' = input /\ verdict' = verdict
    BY DEF CtlBook, Save, steady, IInv, ShapeInv, WorkInv, RecordInv
  <1>2. CtlRecords
    BY <1>1 DEF CtlRecords, Closing, Running
  <1>3. /\ call' = call /\ proc'["job"] = proc["job"] /\ world' = world
        /\ call["inner"].pc = "idle" /\ ~Running("job") /\ ~Running("job")'
        /\ ReceiptInv' /\ TerminalInv'
    BY <1>2, CtlQuiet
  <1>4. Last' = Last
    BY <1>1 DEF Last, Is
  <1>5. /\ b \in AttemptType /\ b.completed = ctl.attempt.completed
        /\ b.confirmed = ctl.attempt.confirmed /\ b.status = ctl.attempt.status
        /\ ctl.attempt \in AttemptType
    BY BookedTyped DEF WorkInv, RecordInv
  <1>6. i \notin Jobs => b = ctl.attempt
    BY DEF Booked
  <1>7. Is("solomon") =>
           /\ ~ctl.attempt.unknown
           /\ b.unknown = Native(i) /\ b.upper = ctl.attempt.upper + IF Native(i) THEN Calls1 ELSE 0
    BY <1>1, <1>5, BookedTyped DEF WorkInv, BookedInv
  <1>8. ctl.attempt.status # "complete"
    BY <1>1 DEF WorkInv, ProgressInv, Closing
  <1> HIDE DEF b
  <1>9. RecordInv'
    <2>1. disk'.attempt # Absent =>
             disk'.attempt = <<disk'.attempt[1]>> /\ disk'.attempt[1] \in AttemptType
      <3>1. CASE SavesFirst(i)
        BY <1>1, <1>5, <3>1
      <3>2. CASE ~SavesFirst(i)
        BY <1>1, <3>2 DEF WorkInv, RecordInv
      <3> QED
        BY <3>1, <3>2
    <2> QED
      BY <1>1, <1>3, <1>4, <1>5, <2>1 DEF WorkInv, RecordInv, CtlMoves
  <1>10. ProgressInv'
    BY <1>1, <1>3, <1>4, <1>5, <1>8 DEF WorkInv, ProgressInv
  <1>11. (Is("solomon") => BookedInv)'
    <2>1. SUFFICES ASSUME Is("solomon") PROVE BookedInv'
      BY <1>1 DEF Is
    <2>2. /\ ctl.attempt.upper = ctl.attempt.confirmed /\ ctl.attempt.upper \in Nat
          /\ world.made = ctl.attempt.confirmed /\ world.now = 0
      BY <1>1, <1>5, <1>7, <2>1 DEF WorkInv, BookedInv, AttemptType, RecordInv
    <2>3. Native(i) \in BOOLEAN /\ Calls1 \in Nat
      BY StudyAssumption DEF Native
    <2>4. b.upper = b.confirmed + IF b.unknown THEN Calls1 ELSE 0
      BY <1>5, <1>7, <2>1, <2>2, <2>3
    <2>5. b.confirmed <= world.made /\ world.made <= b.upper
      BY <1>5, <1>7, <2>1, <2>2, <2>3
    <2>6. ctl'.pc \in {"start", "wait", "rows"} => (ctl.attempt.unknown = Native(ctl.item))'
      BY <1>1, <1>7, <2>1 DEF Native
    <2> QED
      BY <1>1, <1>3, <1>5, <2>2, <2>4, <2>5, <2>6 DEF BookedInv
  <1>12. SavedInv'
    BY <1>1, <1>5, <1>6 DEF WorkInv, SavedInv, SavesFirst, Is, AttemptType, Absent
  <1> QED
    BY <1>3, <1>9, <1>10, <1>11, <1>12

LEMMA RowsKeep ==
    ASSUME IInv, WorkInv, CtlMoves, CtlRows
    PROVE  RecordInv' /\ ReceiptInv' /\ ProgressInv' /\ (Is("solomon") => BookedInv)'
           /\ SavedInv' /\ TerminalInv'
  <1> DEFINE i == ctl.item
             b == Confirmed(i)
             a == ctl.attempt
  <1>1. /\ Running("ctl") /\ ctl.pc = "rows"
        /\ ctl'.pc = "next" /\ ctl'.item = i + 1 /\ ctl'.attempt = b
        /\ DOMAIN disk' = DOMAIN disk /\ disk'.terminal = disk.terminal
        /\ disk'.attempt = IF Is("solomon") /\ i \in Jobs THEN <<b>> ELSE disk.attempt
        /\ proc' = proc /\ input' = input /\ verdict' = verdict
    BY DEF CtlRows, Save, steady, IInv, ShapeInv, WorkInv, RecordInv
  <1>2. CtlRecords
    BY <1>1 DEF CtlRecords, Closing, Running
  <1>3. /\ call' = call /\ proc'["job"] = proc["job"] /\ world' = world
        /\ call["inner"].pc = "idle" /\ ~Running("job") /\ ~Running("job")'
        /\ ReceiptInv' /\ TerminalInv'
    BY <1>2, CtlQuiet
  <1>4. Last' = Last
    BY <1>1 DEF Last, Is
  <1>5. /\ b \in AttemptType /\ b.status = a.status /\ b.upper = a.upper
        /\ i \notin Jobs => b = a
        /\ i \in Jobs => b.completed = a.completed + 1 /\ ~b.unknown
        /\ i \in Jobs /\ Is("solomon") => b.confirmed = a.confirmed + IF Native(i) THEN Calls1 ELSE 0
        /\ a \in AttemptType
    BY ConfirmedTyped DEF WorkInv, RecordInv
  <1>6. /\ i \in Nat /\ i <= Last /\ world.ended[i] = "clean" /\ a.status # "complete"
        /\ a.completed = 0 \/ a.completed < i
        /\ a.completed <= Arms * Passes /\ a.completed \in Nat
        /\ \A j \in Items : j < i => world.ended[j] = "clean"
    BY <1>1, <1>5 DEF WorkInv, ProgressInv, RecordInv, Closing, AttemptType
  <1>7. /\ Last \in Nat /\ Jobs = 1 .. Arms * Passes /\ Items = 0 .. Arms * Passes + 1
        /\ Arms * Passes \in Nat
    BY ItemFacts
  <1> DEFINE n == Arms * Passes
  <1> HIDE DEF b, n
  <1>8. RecordInv'
    <2>1. disk'.attempt # Absent =>
             disk'.attempt = <<disk'.attempt[1]>> /\ disk'.attempt[1] \in AttemptType
      <3>1. CASE Is("solomon") /\ i \in Jobs
        BY <1>1, <1>5, <3>1
      <3>2. CASE ~(Is("solomon") /\ i \in Jobs)
        BY <1>1, <3>2 DEF WorkInv, RecordInv
      <3> QED
        BY <3>1, <3>2
    <2>2. i + 1 \in Nat /\ i + 1 <= Last + 1
      BY <1>6, <1>7
    <2> QED
      BY <1>1, <1>3, <1>4, <1>5, <2>1, <2>2 DEF WorkInv, RecordInv, CtlMoves
  <1>9. /\ b.completed = 0 \/ b.completed < i + 1
        /\ b.completed <= n
    <2>1. CASE i \notin Jobs
      BY <1>5, <1>6, <2>1 DEF n
    <2>2. CASE i \in Jobs
      <3>1. i \in 1 .. n /\ n \in Nat
        BY <1>7, <2>2 DEF n
      <3> QED
        BY <1>5, <1>6, <2>2, <3>1
    <2> QED
      BY <2>1, <2>2
  <1>10. \A j \in Items : j < i + 1 => world.ended[j] = "clean"
    <2>1. \A j \in Items : j \in Nat
      BY <1>7
    <2>2. \A j \in Items : j < i + 1 => j < i \/ j = i
      BY <1>6, <2>1
    <2> QED
      BY <1>6, <2>2
  <1>11. ProgressInv'
    BY <1>1, <1>3, <1>4, <1>5, <1>6, <1>9, <1>10 DEF ProgressInv, n
  <1>12. (Is("solomon") => BookedInv)'
    <2>1. SUFFICES ASSUME Is("solomon") PROVE BookedInv'
      BY <1>1 DEF Is
    <2>2. /\ a.upper = a.confirmed + IF a.unknown THEN Calls1 ELSE 0
          /\ a.unknown = Native(i) /\ world.made = a.upper /\ world.now = 0
      BY <1>1, <2>1 DEF WorkInv, BookedInv, Spent
    <2>3. /\ Native(i) \in BOOLEAN /\ Calls1 \in Nat /\ (i \notin Jobs => ~Native(i))
          /\ a.upper \in Nat /\ a.confirmed \in Nat
      BY <1>5, StudyAssumption DEF Native, AttemptType
    <2>4. ~b.unknown
      BY <1>5, <2>2, <2>3
    <2>5. b.upper = b.confirmed /\ b.upper = world.made
      <3>1. CASE i \in Jobs
        BY <1>5, <2>1, <2>2, <2>3, <3>1
      <3>2. CASE i \notin Jobs
        BY <1>5, <2>1, <2>2, <2>3, <3>2
      <3> QED
        BY <3>1, <3>2
    <2>6. world.made \in Nat
      BY <2>2, <2>3
    <2> QED
      BY <1>1, <1>3, <1>5, <2>2, <2>4, <2>5, <2>6, <2>3 DEF BookedInv
  <1>13. SavedInv'
    <2>1. CASE Is("solomon") /\ i \in Jobs
      BY <1>1, <1>5, <2>1 DEF SavedInv, AttemptType, Absent
    <2>2. CASE ~(Is("solomon") /\ i \in Jobs)
      <3>1. disk'.attempt = disk.attempt
        BY <1>1, <2>2
      <3>2. a.completed \in Nat /\ b.completed \in Nat /\ a.completed <= b.completed
        BY <1>5, <1>6
      <3>3. disk.attempt # Absent => disk.attempt[1].completed \in Nat
        BY DEF WorkInv, RecordInv, AttemptType
      <3>4. Is("solomon") => b = a
        BY <1>5, <2>2
      <3> QED
        BY <1>1, <3>1, <3>2, <3>3, <3>4 DEF WorkInv, SavedInv, Is
    <2> QED
      BY <2>1, <2>2
  <1> QED
    BY <1>3, <1>8, <1>11, <1>12, <1>13

\* Inside a call of the controller: the job starts, is polled, and is over.
LEMMA ChildKeeps ==
    ASSUME IInv, WorkInv, CtlChild
    PROVE  RecordInv' /\ ReceiptInv' /\ ProgressInv' /\ (Is("solomon") => BookedInv)'
           /\ SavedInv' /\ TerminalInv'
  <1>1. /\ Running("ctl") /\ ctl.pc = "start" /\ ctl'.pc = "wait" /\ sup' = sup
        /\ ctl'.item = ctl.item /\ ctl'.attempt = ctl.attempt
        /\ disk' = disk /\ input' = input /\ verdict' = verdict
    BY DEF CtlChild, At, steady, IInv, ShapeInv
  <1> DEFINE left == Least(ctl.left, JobSeconds)
  <1>2. /\ left \in Nat /\ "outer" \in Calls /\ "inner" \in Calls /\ ShapeInv
        /\ {"sup", "ctl", "job", "kid"} = Procs /\ Leader["inner"] = "job"
        /\ ReceiptInv
    BY StudyAssumption, CallFacts DEF Procs, IInv, ShapeInv, Least, WorkInv
  <1>3. /\ world'.made = world.made /\ world'.now = world.now
        /\ world'.ended = world.ended /\ world'.struck = world.struck
    BY <1>2 DEF CtlChild, Fault, ShapeInv
  <1>4. \/ Skip("inner", left) \/ NoPopen("inner", left)
        \/ Popen("inner", left, "dies") \/ Popen("inner", left, "deaf")
    BY DEF CtlChild
  <1>5. Last' = Last
    BY <1>1 DEF Last, Is
  <1>6. call["inner"].pc = "idle" /\ ~Running("job")
    BY <1>1, StoppedAre
  <1>7. /\ "job" \notin world.struck /\ "ctl" \notin world.struck /\ ~Exited0("ctl")
        /\ call["outer"].status # "complete" /\ sup.terminal.status # "complete"
        /\ ~(disk.terminal # Absent /\ disk.terminal[1].status = "complete")
    BY <1>1 DEF WorkInv, TerminalInv, Closing, Running, Exited0
  <1>8. ctl.attempt.status # "complete"
    BY <1>1 DEF WorkInv, ProgressInv, Closing
  <1> HIDE DEF left
  <1>9. /\ ReceiptInv' /\ call'["outer"] = call["outer"] /\ proc'["ctl"] = proc["ctl"]
        /\ \/ call'["inner"].pc = "done" /\ call'["inner"].status # "complete" /\ ~Running("job")'
           \/ call'["inner"].pc = "poll" /\ ~Exited0("job")' /\ call'["inner"].status # "complete"
    <2>1. CASE Skip("inner", left) \/ NoPopen("inner", left)
      <3>1. /\ ReceiptInv' /\ call'["inner"].status # "complete" /\ proc' = proc
            /\ call'["inner"].pc = "done"
        BY <1>2, <2>1, NothingStartedReceipt
      <3>2. call'["outer"] = call["outer"]
        BY <1>2, <2>1, NothingStarted
      <3> QED
        BY <1>6, <3>1, <3>2 DEF Running
    <2>2. ASSUME NEW t \in {"dies", "deaf"}, Popen("inner", left, t)
          PROVE  /\ ReceiptInv' /\ call'["outer"] = call["outer"] /\ proc'["ctl"] = proc["ctl"]
                 /\ call'["inner"].pc = "poll" /\ ~Exited0("job")'
                 /\ call'["inner"].status # "complete"
      <3>1. /\ ReceiptInv' /\ call'["inner"].status = "failed" /\ call'["inner"].pc = "poll"
            /\ ~Exited0("job")'
        BY <1>2, <2>2, PopenReceipt
      <3>2. call'["outer"] = call["outer"] /\ proc'["ctl"] = proc["ctl"]
        BY <1>2, <2>2, PopenFacts
      <3> QED
        BY <3>1, <3>2
    <2> QED
      BY <1>4, <2>1, <2>2
  <1>10. RecordInv'
    BY <1>1, <1>3, <1>5 DEF WorkInv, RecordInv
  <1>11. ProgressInv'
    BY <1>1, <1>3, <1>5, <1>8, <1>9 DEF WorkInv, ProgressInv
  <1>12. (Is("solomon") => BookedInv)'
    <2>1. SUFFICES ASSUME Is("solomon") PROVE BookedInv'
      BY <1>1 DEF Is
    <2>2. /\ world.now = 0 /\ world.made = ctl.attempt.confirmed
          /\ ctl.attempt.unknown = Native(ctl.item)
          /\ ctl.attempt.confirmed \in Nat
      BY <1>1, <2>1 DEF WorkInv, BookedInv, RecordInv, AttemptType
    <2>3. ctl'.pc \in {"start", "wait", "rows"} => (ctl.attempt.unknown = Native(ctl.item))'
      BY <1>1, <2>2 DEF Native
    <2>4. world.made = ctl.attempt.confirmed + world.now
      BY <2>2
    <2>5. /\ ctl.attempt.upper = ctl.attempt.confirmed + IF ctl.attempt.unknown THEN Calls1 ELSE 0
          /\ ctl.attempt.confirmed <= world.made /\ world.made <= ctl.attempt.upper
      BY <2>1 DEF WorkInv, BookedInv
    <2> QED
      BY <1>1, <1>3, <1>9, <2>3, <2>4, <2>5 DEF BookedInv
  <1>13. SavedInv'
    BY <1>1 DEF WorkInv, SavedInv, Is
  <1>14. TerminalInv'
    BY <1>1, <1>3, <1>7, <1>9 DEF TerminalInv, Exited0, Running
  <1> QED
    BY <1>9, <1>10, <1>11, <1>12, <1>13, <1>14

LEMMA PollKeeps ==
    ASSUME IInv, WorkInv, CtlPoll
    PROVE  RecordInv' /\ ReceiptInv' /\ ProgressInv' /\ (Is("solomon") => BookedInv)'
           /\ SavedInv' /\ TerminalInv'
  <1>1. /\ Running("ctl") /\ ctl.pc = "wait" /\ ctl' = ctl /\ sup' = sup
        /\ disk' = disk /\ input' = input /\ verdict' = verdict
        /\ world'.made = world.made /\ world'.now = world.now
        /\ world'.ended = world.ended /\ world'.struck = world.struck
    BY DEF CtlPoll, steady, Fault, IInv, ShapeInv
  <1>2. /\ "inner" \in Calls /\ "outer" \in Calls /\ ShapeInv /\ ReceiptInv
        /\ Group["inner"] = {"job", "kid"} /\ Leader["inner"] = "job"
        /\ {"sup", "ctl", "job", "kid"} = Procs
    BY CallFacts DEF IInv, Procs, WorkInv
  <1>3. RunProcess("inner") \/ PollRaises("inner")
    BY DEF CtlPoll
  <1>4. Polling("inner") /\ Round("inner")
    BY <1>2, <1>3, PollFacts, RaisesFacts
  <1>5. /\ call'["outer"] = call["outer"] /\ proc'["ctl"] = proc["ctl"]
        /\ proc'["job"].st = "runs" => Running("job")
        /\ call["inner"].pc = "poll"
    BY <1>2, <1>4 DEF Round, Running, Polling
  <1>6. /\ ReceiptInv'
        /\ Exited0("job")' => Exited0("job")
        /\ call["inner"].sent \subseteq call'["inner"].sent
        /\ call'["inner"].status = "complete" => call["inner"].sent = {} /\ Exited0("job")
    BY <1>2, <1>3, RoundReceipt
  <1>7. Last' = Last
    BY <1>1 DEF Last, Is
  <1>8. RecordInv'
    BY <1>1, <1>7 DEF WorkInv, RecordInv
  <1>9. ProgressInv'
    BY <1>1, <1>5, <1>6, <1>7 DEF WorkInv, ProgressInv
  <1>10. (Is("solomon") => BookedInv)'
    <2>1. SUFFICES ASSUME Is("solomon") PROVE BookedInv'
      BY <1>1 DEF Is
    <2> QED
      BY <1>1, <1>5, <1>6, <2>1 DEF WorkInv, BookedInv, Spent, Running, Native
  <1>11. SavedInv'
    BY <1>1 DEF WorkInv, SavedInv, Is
  <1>12. TerminalInv'
    BY <1>1, <1>5, <1>6 DEF WorkInv, TerminalInv, Exited0, Running
  <1> QED
    BY <1>6, <1>8, <1>9, <1>10, <1>11, <1>12

LEMMA ReturnKeeps ==
    ASSUME IInv, WorkInv, CtlReturn
    PROVE  RecordInv' /\ ReceiptInv' /\ ProgressInv' /\ (Is("solomon") => BookedInv)'
           /\ SavedInv' /\ TerminalInv'
  <1>1. /\ Running("ctl") /\ ctl.pc = "wait" /\ call["inner"].pc = "done"
        /\ ctl'.pc = IF call["inner"].status = "complete" THEN "rows" ELSE "note"
        /\ ctl'.item = ctl.item /\ ctl'.attempt = ctl.attempt
        /\ sup' = sup /\ input' = input /\ verdict' = verdict /\ world' = world
        /\ call' = [call EXCEPT !["inner"] = NoCall]
        /\ proc' = [p \in Procs |-> IF p \in Group["inner"] THEN Unborn ELSE proc[p]]
    BY DEF CtlReturn, At, steady, IInv, ShapeInv
  <1>2. DOMAIN disk' = DOMAIN disk /\ disk'.attempt = disk.attempt
        /\ disk'.terminal = disk.terminal
    BY DEF CtlReturn, WorkInv, RecordInv
  <1>3. /\ Calls = {"outer", "inner"} /\ ShapeInv
        /\ Group["inner"] = {"job", "kid"} /\ {"sup", "ctl", "job", "kid"} = Procs
        /\ NoCall.pc = "idle" /\ NoCall.sent = {} /\ NoCall.status = "failed"
        /\ Unborn.st = "unborn"
        /\ Leader["outer"] = "ctl" /\ Leader["inner"] = "job"
    BY CallFacts DEF IInv, Procs, NoCall, Unborn
  <1>4. /\ call'["outer"] = call["outer"] /\ call'["inner"] = NoCall
        /\ proc'["ctl"] = proc["ctl"] /\ ~Running("job")' /\ ~Exited0("job")'
        /\ proc'["job"].st # "runs"
    BY <1>1, <1>3 DEF ShapeInv, Running, Exited0
  <1>5. Last' = Last
    BY <1>1 DEF Last, Is
  <1>6. ReceiptInv'
    BY <1>3, <1>4 DEF WorkInv, ReceiptInv
  <1>7. RecordInv'
    BY <1>1, <1>2, <1>5 DEF WorkInv, RecordInv
  <1>8. /\ ctl.attempt.status # "complete"
        /\ call["inner"].status = "complete" => world.ended[ctl.item] = "clean"
    BY <1>1 DEF WorkInv, ProgressInv, Closing
  <1>9. ProgressInv'
    BY <1>1, <1>3, <1>4, <1>5, <1>8 DEF WorkInv, ProgressInv
  <1>10. (Is("solomon") => BookedInv)'
    <2>1. SUFFICES ASSUME Is("solomon") PROVE BookedInv'
      BY <1>1 DEF Is
    <2> QED
      BY <1>1, <1>3, <1>4, <2>1 DEF WorkInv, BookedInv, Spent, Native
  <1>11. SavedInv'
    BY <1>1, <1>2 DEF WorkInv, SavedInv, Is
  <1>12. TerminalInv'
    BY <1>1, <1>2, <1>3, <1>4 DEF WorkInv, TerminalInv, Exited0, Running, Closing
  <1> QED
    BY <1>6, <1>7, <1>9, <1>10, <1>11, <1>12

--------------------------------------------------------------------------------
(* The workers and the world keep the account.                              *)

\* What stands while nobody but a bystander moves: a fork, a child, a flood, a
\* TERM to the supervisor, a second, a change to what was collected, the check.
Standing ==
    /\ ctl'.pc = ctl.pc /\ ctl'.item = ctl.item /\ ctl'.attempt = ctl.attempt
    /\ sup' = sup /\ input' = input
    /\ \A c \in Calls :
          /\ call'[c].pc = call[c].pc /\ call'[c].status = call[c].status
          /\ call'[c].sent = call[c].sent /\ call'[c].why = call[c].why
          /\ call'[c].raised = call[c].raised
    /\ \A p \in {"ctl", "job"} : proc'[p].st = proc[p].st /\ proc'[p].code = proc[p].code
    /\ world'.made = world.made /\ world'.now = world.now
    /\ world'.ended = world.ended /\ world'.struck = world.struck
    /\ DOMAIN disk' = DOMAIN disk /\ disk'.attempt = disk.attempt
    /\ disk'.terminal = disk.terminal

LEMMA StandingKeeps ==
    ASSUME IInv, WorkInv, Standing
    PROVE  RecordInv' /\ ReceiptInv' /\ ProgressInv' /\ (Is("solomon") => BookedInv)'
           /\ SavedInv' /\ TerminalInv'
  <1>1. Last' = Last /\ Is("solomon")' = Is("solomon")
    BY DEF Standing, Last, Is
  <1>2. /\ Calls = {"outer", "inner"} /\ "outer" \in Calls /\ "inner" \in Calls
        /\ Leader["outer"] = "ctl" /\ Leader["inner"] = "job"
    BY CallFacts
  <1>3. /\ call'["inner"].pc = call["inner"].pc /\ call'["inner"].status = call["inner"].status
        /\ call'["inner"].sent = call["inner"].sent
        /\ call'["outer"].pc = call["outer"].pc /\ call'["outer"].status = call["outer"].status
        /\ call'["outer"].raised = call["outer"].raised
    BY <1>2 DEF Standing
  <1>4. /\ Exited0("job")' = Exited0("job") /\ Exited0("ctl")' = Exited0("ctl")
        /\ Running("job")' = Running("job") /\ Running("ctl")' = Running("ctl")
        /\ proc'["ctl"].st = proc["ctl"].st
    BY DEF Standing, Exited0, Running
  <1>5. RecordInv'
    BY <1>1 DEF WorkInv, RecordInv, Standing
  <1>6. ReceiptInv'
    BY <1>2 DEF WorkInv, ReceiptInv, Standing
  <1>7. ProgressInv'
    BY <1>1, <1>3, <1>4 DEF WorkInv, ProgressInv, Standing
  <1>8. (Is("solomon") => BookedInv)'
    BY <1>1, <1>3, <1>4 DEF WorkInv, BookedInv, Spent, Standing, Native
  <1>9. SavedInv'
    BY <1>1 DEF WorkInv, SavedInv, Standing
  <1>10. TerminalInv'
    BY <1>3, <1>4 DEF WorkInv, TerminalInv, Standing
  <1> QED
    BY <1>5, <1>6, <1>7, <1>8, <1>9, <1>10

LEMMA StandingFacts ==
    ASSUME ShapeInv, RecordInv,
           \/ JobFloods \/ JobForks \/ KidExits \/ KidReaped \/ TermSup
           \/ Tick \/ Damage \/ Check
    PROVE  Standing
  <1> USE DEF ShapeInv, RecordInv, Standing
  <1>1. {"sup", "ctl", "job", "kid"} = Procs /\ "TERM" \in Signals
    BY DEF Procs, Signals
  <1>2. CASE JobFloods
    <2>1. proc' = [proc EXCEPT !["job"] = [proc["job"] EXCEPT !.flood = TRUE]]
      BY <1>2 DEF JobFloods
    <2> DEFINE q == [proc["job"] EXCEPT !.flood = TRUE]
    <2>2. q.st = proc["job"].st /\ q.code = proc["job"].code
      BY <1>1 DEF ProcType
    <2> HIDE DEF q
    <2>3. proc'["job"] = q /\ proc'["ctl"] = proc["ctl"]
      BY <1>1, <2>1 DEF q
    <2> QED
      BY <1>2, <2>2, <2>3 DEF JobFloods, Fault, workers
  <1>3. CASE JobForks
    <2>1. proc'["job"] = proc["job"] /\ proc'["ctl"] = proc["ctl"]
      BY <1>1, <1>3 DEF JobForks
    <2> QED
      BY <1>3, <2>1 DEF JobForks, Fault, workers
  <1>4. CASE KidExits
    <2>1. proc'["job"] = proc["job"] /\ proc'["ctl"] = proc["ctl"]
      BY <1>1, <1>4 DEF KidExits, Exits
    <2> QED
      BY <1>4, <2>1 DEF KidExits, workers
  <1>5. CASE KidReaped
    <2>1. proc'["job"] = proc["job"] /\ proc'["ctl"] = proc["ctl"]
      BY <1>1, <1>5 DEF KidReaped
    <2> QED
      BY <1>5, <2>1 DEF KidReaped, workers
  <1>6. CASE TermSup
    <2>1. proc' = Signalled(proc, {"sup"}, "TERM")
      BY <1>6 DEF TermSup
    <2>2. \A p \in Procs \ {"sup"} : proc'[p] = proc[p]
      BY <1>1, <2>1, SignalFacts
    <2>3. proc'["job"] = proc["job"] /\ proc'["ctl"] = proc["ctl"]
      BY <1>1, <2>2
    <2> QED
      BY <1>6, <2>3 DEF TermSup, workers
  <1>7. CASE Tick
    <2>1. /\ proc' = proc /\ disk' = disk /\ input' = input /\ sup' = sup /\ world' = world
          /\ ctl'.pc = ctl.pc /\ ctl'.item = ctl.item /\ ctl'.attempt = ctl.attempt
          /\ call' = [c \in Calls |-> Later(c)]
      BY <1>7 DEF Tick
    <2>2. ASSUME NEW c \in Calls
          PROVE  /\ call'[c].pc = call[c].pc /\ call'[c].status = call[c].status
                 /\ call'[c].sent = call[c].sent /\ call'[c].why = call[c].why
                 /\ call'[c].raised = call[c].raised
      <3> DEFINE q == [[call[c] EXCEPT !.left = Down(call[c].left)]
                         EXCEPT !.term = Down(call[c].term)]
      <3>1. /\ q.pc = call[c].pc /\ q.status = call[c].status
            /\ q.sent = call[c].sent /\ q.why = call[c].why /\ q.raised = call[c].raised
        BY DEF CallType
      <3>2. call'[c] = IF ~Polling(c) THEN call[c] ELSE q
        BY <2>1 DEF Later
      <3> HIDE DEF q
      <3> QED
        BY <3>1, <3>2
    <2> QED
      BY <2>1, <2>2
  <1>8. CASE Damage
    BY <1>8 DEF Damage, workers
  <1>9. CASE Check
    BY <1>9 DEF Check
  <1> QED
    BY <1>2, <1>3, <1>4, <1>5, <1>6, <1>7, <1>8, <1>9

\* A running job runs inside a call of the controller, for an item of the schedule.
LEMMA JobRuns ==
    ASSUME IInv, WorkInv, Running("job")
    PROVE  /\ call["inner"].pc = "poll" /\ ctl.pc = "wait"
           /\ ctl.item \in Items /\ ctl.item <= Last
           /\ ctl.attempt.status = "failed" /\ call["inner"].status # "complete"
           /\ "job" \notin world.struck /\ ~Exited0("job")
  <1>1. call["inner"].pc = "poll" /\ ctl.pc = "wait"
    BY DEF IInv, InnerInv
  <1>2. ctl.item <= Last /\ ctl.item \in Items
    BY <1>1, ItemFacts DEF WorkInv, ProgressInv, RecordInv
  <1>3. ctl.attempt.status = "failed"
    BY <1>1 DEF WorkInv, ProgressInv, RecordInv, AttemptType, Closing
  <1>4. call["inner"].status # "complete"
    BY <1>1, CallFacts DEF WorkInv, ReceiptInv
  <1>5. "job" \notin world.struck /\ ~Exited0("job")
    BY DEF WorkInv, TerminalInv, Running, Exited0
  <1> QED
    BY <1>1, <1>2, <1>3, <1>4, <1>5

LEMMA WorkKeeps ==
    ASSUME IInv, WorkInv, Work
    PROVE  RecordInv' /\ ReceiptInv' /\ ProgressInv' /\ (Is("solomon") => BookedInv)'
           /\ SavedInv' /\ TerminalInv'
  <1>1. /\ Running("job") /\ Native(ctl.item) /\ Is("solomon") /\ world.now < Calls1
        /\ world'.made = world.made + 1 /\ world'.now = world.now + 1
        /\ world'.ended = world.ended /\ world'.struck = world.struck
        /\ proc' = proc /\ disk' = disk /\ call' = call /\ ctl' = ctl /\ input' = input
        /\ sup' = sup /\ verdict' = verdict
    BY DEF Work, workers, IInv, ShapeInv
  <1>2. /\ call["inner"].pc = "poll" /\ ctl.pc = "wait" /\ ~Exited0("job")
    BY <1>1, JobRuns
  <1>3. RecordInv'
    BY <1>1 DEF WorkInv, RecordInv, Last, Is
  <1>4. ReceiptInv'
    BY <1>1 DEF WorkInv, ReceiptInv
  <1>5. ProgressInv'
    BY <1>1 DEF WorkInv, ProgressInv, Exited0, Last, Is
  <1>6. BookedInv'
    <2>1. /\ ctl.attempt.unknown = Native(ctl.item)
          /\ ctl.attempt.upper = ctl.attempt.confirmed + IF ctl.attempt.unknown THEN Calls1 ELSE 0
          /\ world.made = ctl.attempt.confirmed + world.now
      BY <1>1, <1>2 DEF WorkInv, BookedInv
    <2>2. /\ world.now \in Nat /\ ctl.attempt.confirmed \in Nat /\ Calls1 \in Nat
          /\ world.made \in Nat
      BY StudyAssumption DEF WorkInv, RecordInv, AttemptType
    <2>3. ctl.attempt.upper = ctl.attempt.confirmed + Calls1
      BY <1>1, <2>1
    <2>4. /\ ctl.attempt.confirmed <= world.made + 1 /\ world.made + 1 <= ctl.attempt.upper
          /\ world.made + 1 = ctl.attempt.confirmed + (world.now + 1)
      BY <1>1, <2>1, <2>2, <2>3
    <2>5. (ctl.attempt.unknown = Native(ctl.item))'
      BY <1>1, <2>1 DEF Native
    <2> QED
      BY <1>1, <1>2, <2>1, <2>4, <2>5 DEF BookedInv, Running, Exited0
  <1>7. SavedInv'
    BY <1>1 DEF WorkInv, SavedInv, Is
  <1>8. TerminalInv'
    BY <1>1 DEF WorkInv, TerminalInv, Exited0, Running
  <1> QED
    BY <1>3, <1>4, <1>5, <1>6, <1>7, <1>8

LEMMA ExitKeeps ==
    ASSUME IInv, WorkInv, NEW code \in {0, 1}, JobExits(code)
    PROVE  RecordInv' /\ ReceiptInv' /\ ProgressInv' /\ (Is("solomon") => BookedInv)'
           /\ SavedInv' /\ TerminalInv'
  <1> DEFINE i == ctl.item
             e == IF code = 0 THEN Clean ELSE "failed"
  <1>1. /\ Running("job") /\ (code = 0 => MayExitZero(i))
        /\ proc' = Exits(proc, "job", code)
        /\ world'.made = world.made /\ world'.now = 0
        /\ world'.ended = [world.ended EXCEPT ![i] = e]
        /\ world'.struck = world.struck
        /\ DOMAIN disk' = DOMAIN disk /\ disk'.attempt = disk.attempt
        /\ disk'.terminal = disk.terminal
        /\ call' = call /\ ctl' = ctl /\ input' = input /\ sup' = sup /\ verdict' = verdict
    BY DEF JobExits, workers, IInv, ShapeInv, WorkInv, RecordInv
  <1>2. /\ call["inner"].pc = "poll" /\ ctl.pc = "wait" /\ i \in Items /\ i <= Last
        /\ ctl.attempt.status = "failed" /\ call["inner"].status # "complete"
        /\ "job" \notin world.struck
    BY <1>1, JobRuns
  <1>3. {"sup", "ctl", "job", "kid"} = Procs /\ ShapeInv /\ code \in Int
        /\ "outer" \in Calls /\ "inner" \in Calls
    BY CallFacts DEF Procs, IInv
  <1>4. /\ proc'["job"].st = "zombie" /\ proc'["job"].code = code
        /\ proc'["ctl"] = proc["ctl"]
    <2> DEFINE q == [[proc["job"] EXCEPT !.st = "zombie"] EXCEPT !.code = code]
    <2>1. q.st = "zombie" /\ q.code = code
      BY <1>3 DEF ShapeInv, ProcType
    <2>2. proc'["job"] = q /\ proc'["ctl"] = proc["ctl"]
      BY <1>1, <1>3 DEF Exits, ShapeInv
    <2> HIDE DEF q
    <2> QED
      BY <2>1, <2>2
  <1>5. /\ ~Running("job")' /\ (Exited0("job")' => code = 0)
        /\ Exited0("ctl")' = Exited0("ctl") /\ Running("ctl")' = Running("ctl")
        /\ proc'["ctl"].st = proc["ctl"].st
    BY <1>4 DEF Running, Exited0
  <1>6. /\ e \in {"clean", "spoilt", "failed"}
        /\ code = 0 => e \in {"clean", "spoilt"}
        /\ code = 0 /\ call["inner"].sent = {} => e = "clean"
    BY DEF Clean
  <1> HIDE DEF e
  <1>7. /\ world'.ended \in [Items -> {"not", "clean", "spoilt", "failed"}]
        /\ world'.ended[i] = e /\ \A j \in Items \ {i} : world'.ended[j] = world.ended[j]
    BY <1>1, <1>2, <1>6 DEF WorkInv, RecordInv
  <1>8. i \in Nat /\ \A j \in Items : j < i => j # i
    BY ItemFacts DEF WorkInv, RecordInv
  <1>9. Last' = Last
    BY <1>1 DEF Last, Is
  <1>10. RecordInv'
    BY <1>1, <1>7, <1>9 DEF WorkInv, RecordInv
  <1>11. ReceiptInv'
    <2>1. \A c \in Calls : proc'[Leader[c]].st # "unborn" \/ proc[Leader[c]].st = "unborn"
      BY <1>4, <1>5, CallFacts
    <2> QED
      BY <1>1, <2>1 DEF WorkInv, ReceiptInv
  <1>12. ProgressInv'
    BY <1>1, <1>2, <1>5, <1>6, <1>7, <1>8, <1>9 DEF WorkInv, ProgressInv
  <1>13. (Is("solomon") => BookedInv)'
    <2>1. SUFFICES ASSUME Is("solomon") PROVE BookedInv'
      BY <1>1 DEF Is
    <2>2. /\ ctl.attempt.unknown = Native(i)
          /\ ctl.attempt.upper = ctl.attempt.confirmed + IF ctl.attempt.unknown THEN Calls1 ELSE 0
          /\ world.made = ctl.attempt.confirmed + world.now
          /\ ctl.attempt.confirmed <= world.made /\ world.made <= ctl.attempt.upper
      BY <1>1, <1>2, <2>1 DEF WorkInv, BookedInv
    <2>3. /\ world.now \in Nat /\ ctl.attempt.confirmed \in Nat /\ Calls1 \in Nat
          /\ world.made \in Nat /\ Native(i) \in BOOLEAN
      BY StudyAssumption DEF WorkInv, RecordInv, AttemptType, Native
    <2>4. code = 0 => world.made = ctl.attempt.upper
      <3>1. CASE Native(i)
        BY <1>1, <2>1, <2>2, <2>3, <3>1 DEF MayExitZero
      <3>2. CASE ~Native(i)
        BY <2>2, <2>3, <3>2
      <3> QED
        BY <3>1, <3>2
    <2>5. (ctl.attempt.unknown = Native(ctl.item))'
      BY <1>1, <2>2 DEF Native
    <2> QED
      BY <1>1, <1>2, <1>5, <2>2, <2>4, <2>5 DEF BookedInv, Spent
  <1>14. SavedInv'
    BY <1>1 DEF WorkInv, SavedInv, Is
  <1>15. TerminalInv'
    BY <1>1, <1>2, <1>5 DEF WorkInv, TerminalInv
  <1> QED
    BY <1>10, <1>11, <1>12, <1>13, <1>14, <1>15

LEMMA StruckKeeps ==
    ASSUME IInv, WorkInv, Struck
    PROVE  RecordInv' /\ ReceiptInv' /\ ProgressInv' /\ (Is("solomon") => BookedInv)'
           /\ SavedInv' /\ TerminalInv'
  <1>1. PICK p \in {"ctl", "job"} :
           /\ Running(p) /\ proc' = Signalled(proc, {p}, "KILL")
           /\ world'.made = world.made /\ world'.now = world.now
           /\ world'.ended = world.ended /\ world'.struck = world.struck \cup {p}
    BY DEF Struck, IInv, ShapeInv
  <1>2. disk' = disk /\ call' = call /\ ctl' = ctl /\ input' = input /\ sup' = sup
        /\ verdict' = verdict
    BY DEF Struck, workers
  <1>3. /\ {"sup", "ctl", "job", "kid"} = Procs /\ ShapeInv /\ "KILL" \in Signals
        /\ "outer" \in Calls /\ "inner" \in Calls
        /\ Leader["outer"] = "ctl" /\ Leader["inner"] = "job" /\ Calls = {"outer", "inner"}
    BY CallFacts DEF Procs, IInv, Signals
  <1>4. /\ proc'[p] = Receives(proc[p], "KILL") /\ proc[p] \in ProcType
        /\ \A o \in Procs \ {p} : proc'[o] = proc[o]
    <2>1. p \in Procs
      BY <1>3
    <2> QED
      BY <1>1, <1>3, <2>1, SignalFacts DEF ShapeInv
  <1>5. /\ ~Exited0(p) /\ ~Exited0(p)' /\ ~Running(p)' /\ proc'[p].st = "zombie"
    BY <1>1, <1>3, <1>4, ReceivesExit DEF Running, Exited0
  <1>6. /\ Exited0("job")' = FALSE \/ Exited0("job")' = Exited0("job")
        /\ Running("job")' => Running("job")
        /\ Exited0("job")' => Exited0("job")
        /\ \A c \in Calls : proc'[Leader[c]].st = "unborn" => proc[Leader[c]].st = "unborn"
    BY <1>3, <1>4, <1>5 DEF Running, Exited0
  <1>7. Last' = Last
    BY <1>2 DEF Last, Is
  <1>8. RecordInv'
    BY <1>1, <1>2, <1>7 DEF WorkInv, RecordInv
  <1>9. ReceiptInv'
    BY <1>2, <1>6 DEF WorkInv, ReceiptInv
  <1>10. ProgressInv'
    BY <1>1, <1>2, <1>6, <1>7 DEF WorkInv, ProgressInv
  <1>11. (Is("solomon") => BookedInv)'
    <2>1. SUFFICES ASSUME Is("solomon") PROVE BookedInv'
      BY <1>2 DEF Is
    <2> QED
      BY <1>1, <1>2, <1>6, <2>1 DEF WorkInv, BookedInv, Spent, Native
  <1>12. SavedInv'
    BY <1>2 DEF WorkInv, SavedInv, Is
  <1>13. TerminalInv'
    <2>1. CASE p = "ctl"
      <3>1. proc'["job"] = proc["job"] /\ Running("job")' = Running("job")
            /\ Exited0("job")' = Exited0("job")
        BY <1>3, <1>4, <2>1 DEF Running, Exited0
      <3>2. /\ call["outer"].status # "complete" /\ sup.terminal.status # "complete"
            /\ ~(disk.terminal # Absent /\ disk.terminal[1].status = "complete")
        BY <1>5, <2>1 DEF WorkInv, TerminalInv
      <3> QED
        BY <1>1, <1>2, <1>5, <2>1, <3>1, <3>2 DEF WorkInv, TerminalInv
    <2>2. CASE p = "job"
      <3>1. /\ ctl.pc = "wait" /\ ctl.attempt.status = "failed"
            /\ call["inner"].status # "complete"
        BY <1>1, <2>2, JobRuns
      <3>2. proc'["ctl"] = proc["ctl"] /\ Running("ctl")' = Running("ctl")
            /\ Exited0("ctl")' = Exited0("ctl")
        BY <1>3, <1>4, <2>2 DEF Running, Exited0
      <3> QED
        BY <1>1, <1>2, <1>5, <2>2, <3>1, <3>2 DEF WorkInv, TerminalInv
    <2> QED
      BY <2>1, <2>2
  <1> QED
    BY <1>8, <1>9, <1>10, <1>11, <1>12, <1>13

--------------------------------------------------------------------------------
(* The verdict stands, because nothing moves any more when it is given.     *)

\* What a complete record on disk says of the processes.
LEMMA CompleteFacts ==
    ASSUME IInv, WorkInv, disk.terminal # Absent, disk.terminal[1].status = "complete"
    PROVE  /\ sup.pc = "done" /\ call["outer"].status = "complete"
           /\ call["outer"].pc = "done" /\ Exited0("ctl") /\ "ctl" \notin world.struck
           /\ ~Running("ctl") /\ ~Running("job") /\ ~Running("kid")
           /\ ctl.attempt.status = "complete" /\ ctl.item = Last + 1
           /\ world.struck = {}
  <1>1. /\ sup.pc = "done" /\ call["outer"].status = "complete"
        /\ call["outer"].pc = "done" /\ Exited0("ctl") /\ ~call["outer"].raised
        /\ "ctl" \notin world.struck /\ ctl.attempt.status = "complete"
        /\ "job" \notin world.struck
    BY DEF WorkInv, TerminalInv
  <1>2. ~Running("ctl")
    BY <1>1 DEF Exited0, Running
  <1>3. ~Running("job") /\ ~Running("kid")
    BY <1>1, <1>2 DEF IInv, OrphanInv
  <1>4. ctl.item = Last + 1
    BY <1>1 DEF WorkInv, ProgressInv
  <1>5. world.struck = {}
    BY <1>1 DEF WorkInv, RecordInv
  <1> QED
    BY <1>1, <1>2, <1>3, <1>4, <1>5

LEMMA VerdictKeeps ==
    ASSUME IInv, WorkInv, Supervise \/ Run \/ Worker \/ TermSup \/ Struck \/ Tick \/ Damage \/ Check
    PROVE  VerdictInv'
  <1>1. ASSUME disk' = disk, input' = input, world' = world, Accepted
        PROVE  Accepted'
    BY <1>1 DEF Accepted, TerminalHolds, InputsHold, SolomonInputs, ReasonerInputs,
         CoverageInputs, LimitsHold, SolomonLimits, ReasonerLimits, CoverageLimits,
         ExecutionHolds, Inventory, AttemptHolds, ProcessAt, CheckedRows, SolomonVectors,
         ReasonerReplay, CoverageTrace, WellFormed, Repeats, Last, Is
  <1>2. CASE verdict = "verified_complete"
    <2>1. Accepted
      BY <1>2 DEF WorkInv, VerdictInv
    <2>2. /\ sup.pc = "done" /\ ~Running("ctl") /\ ~Running("job") /\ ~Running("kid")
      BY <2>1, CompleteFacts DEF Accepted, TerminalHolds
    <2>3. ~Supervise
      BY <2>2 DEF Supervise, SupStart, SupLimits, SupLaunch, SupPoll, SupReturn, SupJudge,
           SupNote, SupRestore, SupSave, SupAt
    <2>4. ~Run
      BY <2>2 DEF Run, CtlStart, CtlInputs, CtlBook, CtlStopped, CtlChild, CtlPoll,
           CtlReturn, CtlRows, CtlRefuses, CtlFinish, CtlNote, CtlRestore, CtlSave,
           CtlCollect, CtlExit, At
    <2>5. Worker => KidReaped
      BY <2>2 DEF Worker, Work, JobExits, JobFloods, JobForks, KidExits
    <2>6. ~Struck
      BY <2>2 DEF Struck
    <2>7. ~Damage /\ ~Check
      BY <1>2 DEF Damage, Check
    <2>8. disk' = disk /\ input' = input /\ world' = world
      BY <2>3, <2>4, <2>5, <2>6, <2>7 DEF KidReaped, TermSup, Tick, workers
    <2> QED
      BY <1>1, <2>1, <2>8 DEF VerdictInv
  <1>3. CASE verdict # "verified_complete"
    <2>1. CASE Check
      <3>1. /\ disk' = disk /\ input' = input /\ world' = world
            /\ verdict' = IF Accepted THEN "verified_complete" ELSE "failed"
        BY <2>1 DEF Check
      <3> QED
        BY <1>1, <3>1 DEF VerdictInv
    <2>2. CASE ~Check
      <3>1. Supervise => verdict' = verdict
        BY DEF Supervise, SupStart, SupLimits, SupLaunch, SupPoll, SupReturn, SupJudge,
             SupNote, SupRestore, SupSave, supSteady
      <3>2. Run => verdict' = verdict
        BY DEF Run, CtlStart, CtlInputs, CtlBook, CtlStopped, CtlChild, CtlPoll,
             CtlReturn, CtlRows, CtlRefuses, CtlFinish, CtlNote, CtlRestore, CtlSave,
             CtlCollect, CtlExit, steady
      <3>3. Worker \/ TermSup \/ Struck \/ Tick \/ Damage => verdict' = verdict
        BY DEF Worker, Work, JobExits, JobFloods, JobForks, KidExits, KidReaped, TermSup,
             Struck, Tick, Damage, workers
      <3> QED
        BY <1>3, <2>2, <3>1, <3>2, <3>3 DEF VerdictInv
    <2> QED
      BY <2>1, <2>2
  <1> QED
    BY <1>2, <1>3

--------------------------------------------------------------------------------

LEMMA InitWork == Init => WorkInv
  <1> SUFFICES ASSUME Init PROVE WorkInv
    OBVIOUS
  <1>1. /\ call["outer"] = NoCall /\ call["inner"] = NoCall /\ Calls = {"outer", "inner"}
        /\ proc["ctl"] = Unborn /\ proc["job"] = Unborn /\ Unborn.st = "unborn"
        /\ NoCall.pc = "idle" /\ NoCall.status = "failed" /\ NoCall.sent = {}
    BY DEF Init, Calls, Procs, NoCall, Unborn
  <1>2. /\ ctl.pc = "none" /\ ctl.item = 0 /\ ctl.attempt = NoAttempt
        /\ sup.terminal = NoTerminal /\ disk.attempt = Absent /\ disk.terminal = Absent
        /\ DOMAIN disk = {"attempt", "receipts", "over", "rows", "collection", "terminal"}
        /\ world.made = 0 /\ world.now = 0 /\ world.struck = {}
        /\ world.ended = [i \in Items |-> "not"] /\ verdict = "none"
    BY DEF Init, Setup
  <1>3. /\ NoAttempt \in AttemptType /\ NoAttempt.completed = 0 /\ NoAttempt.confirmed = 0
        /\ NoAttempt.upper = 0 /\ ~NoAttempt.unknown /\ NoAttempt.status = "failed"
        /\ NoTerminal.status = "failed"
        /\ DOMAIN NoTerminal = {"status", "receipt", "collection", "stop"}
    BY NoAttemptTyped DEF NoAttempt, NoTerminal
  <1>4. /\ Arms * Passes \in Nat /\ Last \in Nat /\ \A i \in Items : i \in Nat
    BY ItemFacts
  <1> DEFINE n == Arms * Passes
  <1> HIDE DEF n
  <1>5. RecordInv
    BY <1>2, <1>3, <1>4 DEF RecordInv
  <1>6. ReceiptInv
    BY <1>1 DEF ReceiptInv
  <1>7. ProgressInv
    <2>1. n \in Nat
      BY <1>4 DEF n
    <2>2. \A i \in Items : ~(i < 0)
      BY <1>4
    <2> QED
      BY <1>1, <1>2, <1>3, <2>1, <2>2 DEF ProgressInv, n
  <1>8. BookedInv
    BY <1>1, <1>2, <1>3 DEF BookedInv, Running
  <1>9. SavedInv
    BY <1>2 DEF SavedInv
  <1>10. TerminalInv
    BY <1>1, <1>2, <1>3 DEF TerminalInv, Exited0, Running
  <1>11. VerdictInv
    BY <1>2 DEF VerdictInv
  <1> QED
    BY <1>5, <1>6, <1>7, <1>8, <1>9, <1>10, <1>11 DEF WorkInv

LEMMA NextWork ==
    ASSUME IInv, WorkInv, [Next]_vars
    PROVE  WorkInv'
  <1> DEFINE Kept == /\ RecordInv' /\ ReceiptInv' /\ ProgressInv'
                     /\ (Is("solomon") => BookedInv)' /\ SavedInv' /\ TerminalInv'
  <1>1. ShapeInv /\ RecordInv /\ ProgressInv /\ SavedInv /\ TerminalInv
    BY DEF IInv, WorkInv
  <1>2. ASSUME Supervise PROVE Kept
    <2>1. CASE \/ SupStart \/ SupLimits \/ SupReturn \/ SupJudge \/ SupNote
               \/ SupRestore \/ SupSave
      BY <1>1, <2>1, SupMovesFacts, SupRecordsFacts, SupKeeps
    <2> QED
      BY <1>2, <2>1, LaunchKeeps, OuterKeeps DEF Supervise
  <1>3. ASSUME Run PROVE Kept
    <2>1. CASE \/ CtlStart \/ CtlInputs \/ CtlStopped \/ CtlRefuses \/ CtlFinish
               \/ CtlNote \/ CtlRestore \/ CtlSave \/ CtlCollect \/ CtlExit
      BY <1>1, <2>1, CtlMovesFacts, SameBooksFacts, SameBooksKeeps
    <2>2. CASE CtlBook \/ CtlRows
      BY <1>1, <2>2, CtlMovesFacts, BookKeeps, RowsKeep
    <2> QED
      BY <1>3, <2>1, <2>2, ChildKeeps, PollKeeps, ReturnKeeps DEF Run
  <1>4. ASSUME Worker \/ TermSup \/ Struck \/ Tick \/ Damage \/ Check PROVE Kept
    <2>1. CASE \/ JobFloods \/ JobForks \/ KidExits \/ KidReaped \/ TermSup
               \/ Tick \/ Damage \/ Check
      BY <1>1, <2>1, StandingFacts, StandingKeeps
    <2>2. CASE JobExits(0) \/ JobExits(1)
      BY <2>2, ExitKeeps
    <2> QED
      BY <1>4, <2>1, <2>2, WorkKeeps, StruckKeeps DEF Worker
  <1>5. CASE UNCHANGED vars
    BY <1>5 DEF vars, WorkInv, RecordInv, ReceiptInv, ProgressInv, BookedInv, SavedInv,
         TerminalInv, VerdictInv, Spent, Exited0, Running, Last, Is, Native, Accepted,
         TerminalHolds, InputsHold, SolomonInputs, ReasonerInputs,
         CoverageInputs, LimitsHold, SolomonLimits, ReasonerLimits, CoverageLimits,
         ExecutionHolds, Inventory, AttemptHolds, ProcessAt, CheckedRows, SolomonVectors,
         ReasonerReplay, CoverageTrace, WellFormed, Repeats
  <1>6. [Next]_vars =>
          \/ Supervise \/ Run \/ (Worker \/ TermSup \/ Struck \/ Tick \/ Damage \/ Check)
          \/ UNCHANGED vars
    BY DEF Next, Studies, SolomonSupervise, ReasonerSupervise, CoverageSupervise,
         SolomonRun, ReasonerRun, CoverageRun, SolomonCheck, ReasonerCheck, CoverageCheck
  <1>7. CASE Supervise \/ Run \/ (Worker \/ TermSup \/ Struck \/ Tick \/ Damage \/ Check)
    <2>1. Kept
      BY <1>2, <1>3, <1>4, <1>7
    <2>2. VerdictInv'
      BY <1>7, VerdictKeeps
    <2> QED
      BY <2>1, <2>2 DEF WorkInv
  <1> QED
    BY <1>5, <1>6, <1>7

\* The invariant of the records: what was booked, saved and judged.
THEOREM WorkInductive == Spec => [](IInv /\ WorkInv)
  <1>1. Init => IInv /\ WorkInv
    BY InitInv, InitWork
  <1>2. IInv /\ WorkInv /\ [Next]_vars => (IInv /\ WorkInv)'
    BY NextInv, NextWork
  <1> QED
    BY <1>1, <1>2, PTL DEF Spec

LEMMA AccountIsRight ==
    ASSUME IInv, WorkInv
    PROVE  WorkAccounted
  <1>1. ASSUME disk.attempt # Absent
        PROVE  disk.attempt[1].completed <= Cardinality({j \in Jobs : world.ended[j] = "clean"})
    <2> DEFINE n == ctl.attempt.completed
               d == disk.attempt[1].completed
               C == {j \in Jobs : world.ended[j] = "clean"}
    <2>1. n \in Nat /\ d \in Nat /\ d <= n
      BY <1>1 DEF WorkInv, RecordInv, SavedInv, AttemptType
    <2>2. n <= Arms * Passes /\ (n = 0 \/ n < ctl.item)
          /\ \A i \in Items : i < ctl.item => world.ended[i] = "clean"
      BY DEF WorkInv, ProgressInv
    <2>3. Arms * Passes \in Nat /\ Jobs = 1 .. Arms * Passes /\ Jobs \subseteq Items
          /\ ctl.item \in Nat
      BY ItemFacts DEF WorkInv, RecordInv
    <2> DEFINE t == Arms * Passes
    <2> HIDE DEF n, d, t
    <2>4. 1 .. n \subseteq C
      <3>1. \A j \in 1 .. n : j \in 1 .. t /\ j < ctl.item
        BY <2>1, <2>2, <2>3 DEF t
      <3> QED
        BY <2>2, <2>3, <3>1 DEF t
    <2>5. IsFiniteSet(C)
      <3>1. IsFiniteSet(1 .. t)
        BY <2>3, FS_Interval DEF t
      <3>2. C \subseteq 1 .. t
        BY <2>3 DEF t
      <3> QED
        BY <3>1, <3>2, FS_Subset
    <2>6. Cardinality(1 .. n) = n
      BY <2>1, FS_Interval
    <2>7. Cardinality(1 .. n) <= Cardinality(C) /\ Cardinality(C) \in Nat
      BY <2>4, <2>5, FS_Subset, FS_CardinalityType
    <2> QED
      BY <2>1, <2>6, <2>7 DEF d
  <1>2. ASSUME Is("solomon"), disk.attempt # Absent
        PROVE  LET a == disk.attempt[1]
               IN  /\ a.confirmed <= world.made /\ world.made <= a.upper
                   /\ ~a.unknown => a.confirmed = world.made
    <2> DEFINE a == ctl.attempt
               d == disk.attempt[1]
    <2>1. d.confirmed = a.confirmed /\ d.upper = a.upper /\ d.unknown = a.unknown
      BY <1>2 DEF WorkInv, SavedInv
    <2>2. /\ a.confirmed <= world.made /\ world.made <= a.upper
          /\ a.upper = a.confirmed + IF a.unknown THEN Calls1 ELSE 0
      BY <1>2 DEF WorkInv, BookedInv
    <2>3. a.confirmed \in Nat /\ a.upper \in Nat /\ world.made \in Nat
      BY DEF WorkInv, RecordInv, AttemptType
    <2>4. ~a.unknown => a.confirmed = world.made
      BY <2>2, <2>3
    <2> QED
      BY <2>1, <2>2, <2>4
  <1> QED
    BY <1>1, <1>2 DEF WorkAccounted

LEMMA VerdictIsRight ==
    ASSUME IInv, WorkInv
    PROVE  VerifiedMeansWhole
  <1> SUFFICES ASSUME verdict = "verified_complete"
               PROVE  /\ \A i \in Setup .. Last : world.ended[i] = "clean" /\ i \notin disk.over
                      /\ \A j \in Jobs : WellFormed(j) /\ Repeats(j)
                      /\ world.struck = {} /\ ~world.damaged
                      /\ call["outer"].status = "complete"
                      /\ Is("solomon") => world.made = NativeTotal
    BY DEF VerifiedMeansWhole
  <1>1. Accepted
    BY DEF WorkInv, VerdictInv
  <1>2. /\ call["outer"].status = "complete" /\ ctl.item = Last + 1 /\ world.struck = {}
    BY <1>1, CompleteFacts DEF Accepted, TerminalHolds
  <1>3. ASSUME NEW i \in Setup .. Last
        PROVE  world.ended[i] = "clean" /\ i \notin disk.over
    <2>1. i \in Items /\ i < ctl.item
      BY <1>2, ItemFacts
    <2> QED
      BY <1>1, <2>1 DEF WorkInv, ProgressInv, Accepted, ProcessAt
  <1>4. \A j \in Jobs : WellFormed(j) /\ Repeats(j)
    BY <1>1 DEF Accepted, CheckedRows, SolomonVectors, ReasonerReplay, CoverageTrace
  <1>5. ~world.damaged
    BY <1>1 DEF Accepted, Inventory
  <1>6. Is("solomon") => world.made = NativeTotal
    <2> SUFFICES ASSUME Is("solomon") PROVE world.made = NativeTotal
      OBVIOUS
    <2>1. /\ disk.attempt # Absent /\ disk.attempt[1].confirmed = NativeTotal
          /\ ~disk.attempt[1].unknown
      BY <1>1 DEF Accepted, AttemptHolds
    <2>2. ~disk.attempt[1].unknown => disk.attempt[1].confirmed = world.made
      BY <2>1, AccountIsRight DEF WorkAccounted
    <2> QED
      BY <2>1, <2>2
  <1> QED
    BY <1>2, <1>3, <1>4, <1>5, <1>6

\* At every moment the attempt on disk bounds the model calls really made, and
\* counts no job that did not end well, whatever the schedule and the faults.
THEOREM WorkAccountedCorrect == Spec => []WorkAccounted
  BY WorkInductive, AccountIsRight, PTL

\* A study that its checker verified ran every item of its schedule to a clean
\* end, undisturbed, with the model calls its schedule says.
THEOREM VerifiedCorrect == Spec => []VerifiedMeansWhole
  BY WorkInductive, VerdictIsRight, PTL

================================================================================
