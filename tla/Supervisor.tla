------------------------------- MODULE Supervisor ------------------------------
(***************************************************************************)
(* Processes supervised by src/scripts/feral_process.py: run_process       *)
(* starts a command as the leader of a session and group of its own, polls *)
(* it every ten milliseconds, and keeps a receipt of how it ended.  Two    *)
(* calls nest: a supervisor runs a controller, which runs one job at a     *)
(* time.  A job may fork a child, which stays in the job's group.          *)
(***************************************************************************)
EXTENDS Integers, FiniteSets

CONSTANTS
    Grace,      \* grace_seconds of the inner call
    Extra       \* seconds of grace the outer call has more

\* The outer call waits longer: the controllers ask for two seconds more.
ASSUME GraceAssumption == Grace \in Nat /\ Extra \in Nat \ {0}

VARIABLES
    proc,       \* the process table
    call        \* the two calls of run_process

Procs == {"sup", "ctl", "job", "kid"}
Calls == {"outer", "inner"}

Owner  == [outer |-> "sup",   inner |-> "ctl"]
Leader == [outer |-> "ctl",   inner |-> "job"]
Group  == [outer |-> {"ctl"}, inner |-> {"job", "kid"}]
\* Mutant: both calls have the grace of the inner one.
SameGrace == [outer |-> Grace, inner |-> Grace]
GraceOf == [outer |-> Grace + Extra, inner |-> Grace]

\* st: a zombie has exited and still belongs to its group; once waited for it
\* is gone.  term: what a TERM does to it.  told: its handler has run.
Unborn == [st |-> "unborn", term |-> "dies", told |-> FALSE, code |-> 0, flood |-> FALSE]

\* pc idle, poll, done; left: seconds to the deadline; sent, why, status, clean:
\* the receipt's signals, stop_reason, status and descendant_cleanup; term:
\* seconds of grace left once a signal was sent; raised: it threw instead.
NoCall == [pc |-> "idle", left |-> 0, term |-> 0, sent |-> {}, why |-> "none",
           status |-> "failed", code |-> -1, cleanup |-> FALSE, raised |-> FALSE]

Running(p)  == proc[p].st = "runs"
Alive(S)    == \E p \in S : Running(p)
Polling(c)  == call[c].pc = "poll" /\ Running(Owner[c])
Cancelled(c) == proc[Owner[c]].told

Exits(table, p, code) == [table EXCEPT ![p].st = "zombie", ![p].code = code]

--------------------------------------------------------------------------------
(* Signals.  A KILL ends a process; a TERM ends one that left the default, *)
(* runs the handler of one that installed it, and is lost on a deaf one.   *)

Ended(p, number) == number = "KILL" \/ p.term = "dies"

Receives(p, number) ==
    IF p.st # "runs" THEN p
    ELSE IF Ended(p, number)
         THEN [p EXCEPT !.st = "zombie", !.code = IF number = "KILL" THEN 9 ELSE 15]
         ELSE [p EXCEPT !.told = @ \/ p.term = "handles"]

Signalled(table, S, number) ==
    [p \in Procs |-> IF p \in S THEN Receives(table[p], number) ELSE table[p]]

\* killpg finds a group as long as one member is still in the process table.
GroupExists(table, S) == \E p \in S : table[p].st \in {"runs", "zombie"}

--------------------------------------------------------------------------------
(* run_process.                                                             *)

Done(c, r) ==
    call' = [call EXCEPT ![c] = [r EXCEPT !.pc = "done", !.left = 0, !.term = 0]]

\* It was cancelled, or its deadline passed, before anything ran.
Skip(c, left) ==
    /\ Cancelled(c) \/ left <= 0
    /\ Done(c, [NoCall EXCEPT !.status = "skipped",
                              !.why = IF Cancelled(c) THEN "cancelled" ELSE "deadline"])
    /\ UNCHANGED proc

\* Popen fails: the receipt is kept, the error goes on.
NoPopen(c, left) ==
    /\ ~Cancelled(c) /\ left > 0
    /\ Done(c, [NoCall EXCEPT !.raised = TRUE])
    /\ UNCHANGED proc

Popen(c, left, term) ==
    /\ ~Cancelled(c) /\ left > 0
    /\ call' = [call EXCEPT ![c] = [NoCall EXCEPT !.pc = "poll", !.left = left]]
    /\ proc' = [proc EXCEPT ![Leader[c]] = [Unborn EXCEPT !.st = "runs", !.term = term]]

Stop(c, why, number, r) ==
    /\ call' = [call EXCEPT ![c] = [r EXCEPT !.why = why, !.sent = @ \cup {number}]]
    /\ proc' = Signalled(proc, Group[c], number)

Started(c) == call[c].sent # {}

\* A log over its limit is only seen here, after the bytes are written.
LogDue(c) == Polling(c) /\ call[c].why = "none" /\ proc[Leader[c]].flood
PollLog(c) ==
    /\ LogDue(c)
    /\ Stop(c, "log_size_limit", "KILL", [call[c] EXCEPT !.term = GraceOf[c]])

\* The leader is waited for, and what it left in its group is killed.
WaitDue(c) == Polling(c) /\ proc[Leader[c]].st = "zombie"
Waited(table, c) == [table EXCEPT ![Leader[c]].st = "gone"]
CompleteReceipt(r, cleanup) == r.code = 0 /\ r.why = "none" /\ ~cleanup
PollWait(c) ==
    /\ WaitDue(c)
    /\ LET left == Waited(proc, c)
           cleanup == GroupExists(left, Group[c])
           r == [call[c] EXCEPT !.code = proc[Leader[c]].code, !.cleanup = cleanup,
                                !.why = IF @ = "none" /\ call[c].left = 0 THEN "deadline" ELSE @]
       IN  /\ proc' = Signalled(left, Group[c], "KILL")
           /\ Done(c, [r EXCEPT
                !.status = IF CompleteReceipt(r, cleanup) THEN "complete" ELSE "failed",
                !.why = IF cleanup /\ @ = "none" THEN "descendants_after_leader_exit" ELSE @])

\* Cancelled or out of time: TERM to the group, then KILL after the grace.
TermDue(c) == Polling(c) /\ ~Started(c) /\ (Cancelled(c) \/ call[c].left = 0)
PollTerm(c) ==
    /\ TermDue(c)
    /\ Stop(c, IF Cancelled(c) THEN "cancelled" ELSE "deadline", "TERM",
            [call[c] EXCEPT !.term = GraceOf[c]])

\* Mutant: a process that was sent a TERM is not killed.
KillUnlessSent(c) == Polling(c) /\ Started(c) /\ call[c].term = 0 /\ call[c].sent = {}
KillDue(c) == Polling(c) /\ Started(c) /\ call[c].term = 0 /\ "KILL" \notin call[c].sent
PollKill(c) == KillDue(c) /\ Stop(c, call[c].why, "KILL", call[c])

\* Whatever else is thrown: the group is killed, the leader waited for.
PollRaises(c) ==
    /\ Polling(c)
    /\ proc' = Waited(Signalled(proc, Group[c], "KILL"), c)
    /\ Done(c, [call[c] EXCEPT !.raised = TRUE,
                               !.code = proc'[Leader[c]].code])

RunProcess(c) ==
    PollLog(c) \/ PollWait(c) \/ PollTerm(c) \/ PollKill(c)

\* Ten milliseconds are nothing: no second passes while a poll has work to do.
Due == \E c \in Calls : LogDue(c) \/ WaitDue(c) \/ TermDue(c) \/ KillDue(c)

Down(n) == IF n = 0 THEN 0 ELSE n - 1
Later(c) ==
    IF ~Polling(c) THEN call[c] ELSE [call[c] EXCEPT !.left = Down(@), !.term = Down(@)]
================================================================================
