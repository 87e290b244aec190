----------------------------- MODULE Zero4Endpoint -----------------------------
(***************************************************************************)
(* src/scripts/zero4_endpoint.py: the cases of one endpoint are dealt to   *)
(* worker processes, one thread supervising each; the first that fails     *)
(* cancels the others, and the rows are merged in the order of the cases.  *)
(* The endpoint is itself a process of zero4_study.py, whose run_process   *)
(* ends it with TERM and, two seconds later, KILL; or with KILL alone, when *)
(* its log grows too large or an exception breaks the poll.  The workers   *)
(* lead sessions of their own, so no signal of the study reaches them: they *)
(* end because the endpoint, told by TERM, ends them.                      *)
(***************************************************************************)
EXTENDS Integers, FiniteSets

CONSTANTS
    Cases,          \* cases of the endpoint
    Workers,        \* --jobs
    Seconds,        \* --seconds, the deadline of the workers
    Slack,          \* child_seconds - --seconds
    WorkerGrace,    \* grace_seconds of a worker
    OuterGrace,     \* limits.grace_seconds, the endpoint's own
    Faults          \* bound on what goes wrong

ASSUME Zero4EndpointAssumption ==
    /\ Cases \in Nat \ {0} /\ Workers \in Nat \ {0} /\ Faults \in Nat
    /\ Seconds \in Nat \ {0} /\ Slack \in Nat
    /\ WorkerGrace \in Nat /\ OuterGrace \in Nat

\* A worker that ignores TERM is killed before the endpoint itself can be.
ASSUME GraceAssumption == WorkerGrace < OuterGrace

VARIABLES
    parent,     \* the endpoint process
    work,       \* its workers and the threads that supervise them
    outer,      \* the run_process of the study that runs the endpoint, and the study
    clock,      \* seconds to the workers' deadline
    files,      \* WORKERS.json and ROWS.jsonl
    faults      \* what may still go wrong

vars == <<parent, work, outer, clock, files, faults>>

Min2(a, b) == IF a < b THEN a ELSE b

Jobs     == Min2(Workers, Cases)
Index    == 0 .. Jobs - 1
Ordinals == 0 .. Cases - 1
Shard(i) == {k \in Ordinals : k % Jobs = i}

\* st queued, runs, exited, returned; term: seconds of grace left once signalled
Queued == [st |-> "queued", deaf |-> FALSE, sent |-> {}, term |-> 0, code |-> 0,
           rows |-> {}, status |-> "none"]
Unsaved == [status |-> "none", workers |-> {}, rows |-> {}]

Statuses == {"none", "complete", "failed", "skipped"}
Signals  == {"TERM", "KILL"}

TypeOK ==
    /\ parent \in [pc : {"boot", "pool", "raised", "slow", "end", "gone"}, cancel : BOOLEAN,
                   got : SUBSET Index, status : {"failed", "complete"}]
    /\ work \in [Index -> [st : {"queued", "runs", "exited", "returned"}, deaf : BOOLEAN,
                           sent : SUBSET Signals, term : 0 .. WorkerGrace, code : {0, 1, 9, 15},
                           rows : SUBSET Ordinals, status : Statuses]]
    /\ outer \in [st : {"polls", "flooded", "raised", "dead"}, left : 0 .. Seconds + Slack,
                  sent : SUBSET Signals, term : 0 .. OuterGrace]
    /\ clock \in 0 .. Seconds
    /\ files \in [status : Statuses, workers : SUBSET Index, rows : SUBSET Ordinals]
    /\ faults \in 0 .. Faults

\* The study's own deadline may come before the endpoint's share of time is up.
Init ==
    /\ parent = [pc |-> "boot", cancel |-> FALSE, got |-> {}, status |-> "failed"]
    /\ work = [i \in Index |-> Queued]
    /\ \E n \in 1 .. Seconds + Slack :
          outer = [st |-> "polls", left |-> n, sent |-> {}, term |-> 0]
    /\ clock = Seconds
    /\ files = Unsaved
    /\ faults = Faults

Fails == faults > 0 /\ faults' = faults - 1
Alive == parent.pc # "gone"
Pooling == parent.pc \in {"pool", "raised"}

--------------------------------------------------------------------------------
(* A worker thread: run_process on one shard.                               *)

Running(i)  == work[i].st = "runs"
Returned(i) == work[i].st = "returned"
Failed(i)   == Returned(i) /\ work[i].status # "complete"

\* Mutant: a worker that fails leaves its peers running.
ReturnsOnly(i, status) ==
    /\ work' = [work EXCEPT ![i] = [@ EXCEPT !.st = "returned", !.status = status,
                                             !.term = 0, !.deaf = FALSE]]
    /\ UNCHANGED parent
\* Whatever is not complete cancels the rest.
Returns(i, status) ==
    /\ work' = [work EXCEPT ![i] = [@ EXCEPT !.st = "returned", !.status = status,
                                             !.term = 0, !.deaf = FALSE]]
    /\ parent' = [parent EXCEPT !.cancel = @ \/ status # "complete"]

Begins(i) ==
    /\ Pooling /\ work[i].st = "queued"
    /\ IF parent.cancel \/ clock = 0
       THEN Returns(i, "skipped") /\ UNCHANGED faults
       ELSE \/ /\ work' = [work EXCEPT ![i].st = "runs"]
               /\ UNCHANGED <<parent, faults>>
            \/ /\ Fails
               /\ work' = [work EXCEPT ![i].st = "runs", ![i].deaf = TRUE]
               /\ UNCHANGED parent
            \/ Fails /\ Returns(i, "failed")
    /\ UNCHANGED <<outer, clock, files>>

Ends(i, code, rows) ==
    work' = [work EXCEPT ![i] = [@ EXCEPT !.st = "exited", !.code = code, !.rows = rows,
                                          !.deaf = FALSE]]

\* The native program: its shard, or a shard it left unfinished, or an error.
Scores(i) ==
    /\ Running(i)
    /\ \/ Ends(i, 0, Shard(i)) /\ UNCHANGED faults
       \/ Fails /\ \E rows \in SUBSET Shard(i) \ {Shard(i)} : Ends(i, 0, rows)
       \/ Fails /\ Ends(i, 1, {})
    /\ UNCHANGED <<parent, outer, clock, files>>

\* Mutant: a worker has the endpoint's own grace.
StudyGrace == OuterGrace
WorkerGraceOf == WorkerGrace
TermDue(i) == Pooling /\ Running(i) /\ work[i].sent = {} /\ (parent.cancel \/ clock = 0)
Terms(i) ==
    /\ TermDue(i)
    /\ LET sent == [work EXCEPT ![i].sent = {"TERM"}, ![i].term = WorkerGraceOf]
       IN  work' = IF work[i].deaf THEN sent
                   ELSE [sent EXCEPT ![i].st = "exited", ![i].code = 15, ![i].term = 0]
    /\ UNCHANGED <<parent, outer, clock, files, faults>>

\* Mutant: the second signal is never sent.
KillLost(i) == Pooling /\ Running(i) /\ work[i].sent = Signals /\ work[i].term = 0
KillDue(i) == Pooling /\ Running(i) /\ work[i].sent = {"TERM"} /\ work[i].term = 0
Kills(i) ==
    /\ KillDue(i)
    /\ work' = [work EXCEPT ![i] = [@ EXCEPT !.st = "exited", !.sent = Signals, !.code = 9,
                                             !.deaf = FALSE]]
    /\ UNCHANGED <<parent, outer, clock, files, faults>>

WaitDue(i) == Pooling /\ work[i].st = "exited"
Waits(i) ==
    /\ WaitDue(i)
    /\ Returns(i, IF work[i].code = 0 /\ work[i].sent = {} /\ clock # 0
                  THEN "complete" ELSE "failed")
    /\ UNCHANGED <<outer, clock, files, faults>>

\* Its log is found too large: KILL at once, without a TERM.
Floods(i) ==
    /\ Pooling /\ Running(i) /\ work[i].sent = {} /\ Fails
    /\ work' = [work EXCEPT ![i] = [@ EXCEPT !.st = "exited", !.sent = {"KILL"}, !.code = 9,
                                             !.deaf = FALSE]]
    /\ UNCHANGED <<parent, outer, clock, files>>

\* The poll or the receipt raises: the worker is killed on the way out, if it runs.
Raises(i) ==
    /\ Pooling /\ work[i].st \in {"runs", "exited"} /\ Fails
    /\ Returns(i, "failed")
    /\ UNCHANGED <<outer, clock, files>>

--------------------------------------------------------------------------------
(* The main thread.                                                         *)

\* The inputs are read and the handlers installed before any thread starts.
Boots ==
    /\ parent.pc = "boot"
    /\ \/ parent' = [parent EXCEPT !.pc = "pool"] /\ UNCHANGED faults
       \/ Fails /\ parent' = [parent EXCEPT !.pc = "end"]
    /\ UNCHANGED <<work, outer, clock, files>>

CollectDue(i) == parent.pc = "pool" /\ Returned(i) /\ i \notin parent.got
Collects(i) ==
    /\ CollectDue(i)
    /\ \/ /\ parent' = [parent EXCEPT !.got = @ \cup {i}]
          /\ files' = [files EXCEPT !.status = "failed", !.workers = parent.got \cup {i}]
          /\ UNCHANGED faults
       \/ \* the record cannot be saved: the pool is left, which waits for every thread
          Fails /\ parent' = [parent EXCEPT !.pc = "raised", !.got = @ \cup {i}] /\ UNCHANGED files
    /\ UNCHANGED <<work, outer, clock>>

LeaveDue == parent.pc = "raised" /\ \A i \in Index : Returned(i)
Leaves ==
    /\ LeaveDue
    /\ parent' = [parent EXCEPT !.pc = "end"]
    /\ UNCHANGED <<work, outer, clock, files, faults>>

\* Mutant: rows are merged without comparing the shards.
AnyShards == TRUE
\* merge_rows: every shard holds exactly its own ordinals.
ShardsWhole == \A i \in Index : work[i].rows = Shard(i)
Mergeable == (\A i \in parent.got : ~Failed(i)) /\ ~parent.cancel /\ ShardsWhole

\* Writing the rows may take its time; a TERM meanwhile comes too late to cancel.
MergeDue == parent.pc = "pool" /\ parent.got = Index
Merges ==
    /\ MergeDue
    /\ \E pc \in {"slow", "end"} :
          /\ parent' = [parent EXCEPT !.pc = pc, !.status = IF Mergeable THEN "complete" ELSE "failed"]
          /\ IF pc = "slow" THEN Fails ELSE UNCHANGED faults
    /\ files' = IF Mergeable THEN [files EXCEPT !.rows = UNION {work[i].rows : i \in Index}]
                ELSE files
    /\ UNCHANGED <<work, outer, clock>>

Writes ==
    /\ parent.pc = "slow"
    /\ parent' = [parent EXCEPT !.pc = "end"]
    /\ UNCHANGED <<work, outer, clock, files, faults>>

\* The handlers are put back first: a TERM here ends it with the record unsaved.
EndDue == parent.pc = "end"
Finishes ==
    /\ EndDue
    /\ parent' = [parent EXCEPT !.pc = "gone"]
    /\ files' = [files EXCEPT !.status = parent.status, !.workers = parent.got]
    /\ UNCHANGED <<work, outer, clock, faults>>

--------------------------------------------------------------------------------
(* The study's run_process, and time.                                       *)

Polls == Alive /\ outer.st = "polls"

OuterTermDue == Polls /\ outer.left = 0 /\ outer.sent = {}
OuterTerms ==
    /\ OuterTermDue
    /\ outer' = [outer EXCEPT !.sent = {"TERM"}, !.term = OuterGrace]
    /\ parent' = IF parent.pc \in {"boot", "end"} THEN [parent EXCEPT !.pc = "gone"]
                 ELSE [parent EXCEPT !.cancel = TRUE]
    /\ UNCHANGED <<work, clock, files, faults>>

OuterKillDue == Polls /\ outer.sent = {"TERM"} /\ outer.term = 0
OuterKills ==
    /\ OuterKillDue
    /\ outer' = [outer EXCEPT !.sent = Signals]
    /\ parent' = [parent EXCEPT !.pc = "gone"]
    /\ UNCHANGED <<work, clock, files, faults>>

\* The endpoint's own log is too large, unless it was told to end before, or an
\* exception (a SIGINT of the study, a full disk) leaves the poll: KILL at once.
OuterStrikes ==
    /\ Polls /\ Fails
    /\ \/ outer.sent = {} /\ outer' = [outer EXCEPT !.st = "flooded", !.sent = {"KILL"}]
       \/ outer' = [outer EXCEPT !.st = "raised", !.sent = @ \cup {"KILL"}]
    /\ parent' = [parent EXCEPT !.pc = "gone"]
    /\ UNCHANGED <<work, clock, files>>
Struck == outer.st \in {"flooded", "raised"}

\* A study that is killed itself leaves the endpoint to its own deadline.
StudyDies ==
    /\ Polls /\ Fails
    /\ outer' = [outer EXCEPT !.st = "dead"]
    /\ UNCHANGED <<parent, work, clock, files>>

Due ==
    \/ \E i \in Index : TermDue(i) \/ KillDue(i) \/ WaitDue(i) \/ CollectDue(i)
    \/ Pooling /\ \E i \in Index : work[i].st = "queued"
    \/ parent.pc = "boot" \/ LeaveDue \/ MergeDue \/ EndDue \/ OuterTermDue \/ OuterKillDue

Down(n) == IF n = 0 THEN 0 ELSE n - 1
Ticks ==
    /\ Alive /\ ~Due
    /\ clock' = Down(clock)
    /\ outer' = [outer EXCEPT !.left = Down(@), !.term = Down(@)]
    /\ work' = [i \in Index |-> [work[i] EXCEPT !.term = Down(@)]]
    /\ UNCHANGED <<parent, files, faults>>

Thread(i) == Begins(i) \/ Terms(i) \/ Kills(i) \/ Waits(i)
Main == Boots \/ Leaves \/ Merges \/ Finishes \/ \E i \in Index : Collects(i)
Worker(i) == Scores(i) \/ Floods(i) \/ Raises(i)
Study == OuterTerms \/ OuterKills
Interrupts == OuterStrikes \/ StudyDies

Next == Main \/ Writes \/ Study \/ Interrupts \/ Ticks \/ \E i \in Index : Thread(i) \/ Worker(i)

\* Threads, polls and time go on; a worker that never ends by itself is possible,
\* and nothing has to go wrong.
Fairness == WF_vars(Main) /\ WF_vars(Study) /\ WF_vars(Ticks) /\ \A i \in Index : WF_vars(Thread(i))
Spec == Init /\ [][Next]_vars /\ Fairness

--------------------------------------------------------------------------------
\* Workers lead their own sessions: the study's KILL reaches only the endpoint.
\* When the endpoint is gone, by itself, by a TERM or by a KILL at the end of the
\* grace, no worker is running, also when the study died first.  The exception is a
\* KILL at once, for the size of the log or after an exception in the poll: nobody
\* ends the workers then.
NoWorkerOutlives == parent.pc = "gone" /\ ~Struck => \A i \in Index : ~Running(i)

\* A record that says complete comes with every case, each scored by the one worker
\* it was dealt to, in a process that ended by itself, in time and without error.
CompleteIsWhole ==
    files.status = "complete" =>
        /\ files.rows = Ordinals /\ files.workers = Index
        /\ \A i \in Index : work[i].rows = Shard(i) /\ work[i].sent = {} /\ work[i].code = 0

\* Once one worker has failed, no second passes with a peer that has not been
\* signalled: a failed endpoint does not spend the rest of its time.
PeersStopped ==
    [][ (clock' < clock /\ parent.pc = "pool" /\ \E i \in Index : Failed(i))
        => \A j \in Index : Running(j) => work[j].sent # {} ]_vars

\* The endpoint ends, whatever its workers do, and with every worker unless it was
\* struck.  Only a merge that takes for ever needs the study, which may be dead.
EndpointEnds ==
    <>[] \/ parent.pc = "gone" /\ (Struck \/ \A i \in Index : ~Running(i))
         \/ parent.pc = "slow" /\ outer.st = "dead"
================================================================================
