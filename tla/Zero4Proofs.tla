------------------------------ MODULE Zero4Proofs ------------------------------
(***************************************************************************)
(* Theorems about an endpoint and its workers, for any number of cases and *)
(* workers, any deadlines and any bound on what goes wrong: no worker      *)
(* outlives the endpoint, unless that was killed before its grace was over, *)
(* a failed worker stops its peers, and a complete record is whole.        *)
(* Theorems about a study and its replay, for any arms, seeds, chunks,     *)
(* budgets and costs: the seal follows the fixed rule, the replay agrees   *)
(* with a study that says it is complete, and passes none to which one of  *)
(* the modelled alterations of what was done was made.  A figure that was  *)
(* changed with everything that repeats it passes.                         *)
(***************************************************************************)
EXTENDS Zero4Endpoint, Zero4Check, FiniteSetTheorems, WellFoundedInduction, TLAPS

--------------------------------------------------------------------------------
(* The endpoint: its state.                                                 *)

(* A worker's record: the signals it was sent, and what its return says.   *)
WorkerInv ==
    \A i \in Index :
        /\ work[i].st = "queued" => work[i].sent = {}
        /\ Running(i) => work[i].sent \in {{}, {"TERM"}}
        /\ Failed(i) => parent.cancel
        /\ Returned(i) /\ work[i].status = "complete" =>
              work[i].code = 0 /\ work[i].sent = {}

(* Before the pool no worker was begun, after it none is at work, unless   *)
(* the endpoint was struck in the midst of it.                             *)
PoolInv ==
    /\ parent.pc = "boot" =>
          outer.sent = {} /\ parent.got = {} /\ \A i \in Index : work[i].st = "queued"
    /\ parent.pc \in {"slow", "end"} =>
          \A i \in Index : work[i].st \in {"queued", "returned"}
    /\ parent.pc = "gone" /\ ~Struck => \A i \in Index : ~Running(i)
    /\ \A i \in parent.got : Returned(i)

(* Between the study's TERM and its KILL: the workers' grace is over first. *)
GraceInv ==
    outer.sent = {"TERM"} /\ Pooling =>
        /\ parent.cancel
        /\ \A i \in Index : Running(i) =>
              \/ work[i].sent = {} /\ outer.term = OuterGrace
              \/ work[i].sent = {"TERM"}
                 /\ work[i].term + (OuterGrace - WorkerGrace) <= outer.term

(* The merge succeeded only on whole shards of workers that completed.     *)
Whole ==
    /\ parent.got = Index
    /\ files.rows = Ordinals
    /\ \A i \in Index : /\ Returned(i)
                        /\ work[i].rows = Shard(i) /\ work[i].sent = {} /\ work[i].code = 0

CompleteInv ==
    /\ parent.status = "complete" => parent.pc \in {"slow", "end", "gone"} /\ Whole
    /\ files.status = "complete" => parent.status = "complete" /\ files.workers = Index

IInv == TypeOK /\ WorkerInv /\ PoolInv /\ GraceInv /\ CompleteInv

WorkerType ==
    [st : {"queued", "runs", "exited", "returned"}, deaf : BOOLEAN, sent : SUBSET Signals,
     term : 0 .. WorkerGrace, code : {0, 1, 9, 15}, rows : SUBSET Ordinals, status : Statuses]

ParentType ==
    [pc : {"boot", "pool", "raised", "slow", "end", "gone"}, cancel : BOOLEAN,
     got : SUBSET Index, status : {"failed", "complete"}]

OuterType ==
    [st : {"polls", "flooded", "raised", "dead"}, left : 0 .. Seconds + Slack,
     sent : SUBSET Signals, term : 0 .. OuterGrace]

--------------------------------------------------------------------------------
(* The shards.                                                              *)

LEMMA JobsTyped == Jobs \in Nat \ {0} /\ Index \subseteq Nat
  BY Zero4EndpointAssumption DEF Jobs, Min2, Index

LEMMA ShardTyped == \A i \in Index : Shard(i) \in SUBSET Ordinals
  BY DEF Shard

\* Every case is dealt to one worker.
LEMMA ShardsCover == UNION {Shard(i) : i \in Index} = Ordinals
  <1>1. ASSUME NEW k \in Ordinals
        PROVE  \E i \in Index : k \in Shard(i)
    <2>1. k \in Nat
      BY DEF Ordinals
    <2>2. k % Jobs \in 0 .. Jobs - 1
      BY <2>1, JobsTyped
    <2> QED
      BY <2>2 DEF Index, Shard
  <1> QED
    BY <1>1, ShardTyped

--------------------------------------------------------------------------------
(* Types.                                                                   *)

LEMMA DownTyped == \A n \in Nat : Down(n) \in Nat /\ Down(n) <= n /\ (n > 0 => Down(n) = n - 1)
  BY DEF Down

LEMMA InitInv == Init => IInv
  <1> SUFFICES ASSUME Init PROVE IInv
    OBVIOUS
  <1>1. Queued \in WorkerType
    BY Zero4EndpointAssumption DEF Queued, WorkerType, Signals, Statuses
  <1>2. TypeOK
    BY <1>1, Zero4EndpointAssumption
    DEF Init, TypeOK, WorkerType, Unsaved, Statuses, Signals
  <1>3. WorkerInv
    BY DEF Init, WorkerInv, Queued, Running, Returned, Failed
  <1>4. PoolInv /\ GraceInv
    BY DEF Init, PoolInv, GraceInv, Pooling, Queued
  <1>5. CompleteInv
    BY DEF Init, CompleteInv, Unsaved
  <1> QED
    BY <1>2, <1>3, <1>4, <1>5 DEF IInv

\* A worker changes alone, and keeps its type.
LEMMA OneWorker ==
    ASSUME TypeOK, NEW i \in Index, NEW r \in WorkerType, work' = [work EXCEPT ![i] = r]
    PROVE  /\ work' \in [Index -> WorkerType]
           /\ work'[i] = r
           /\ \A j \in Index : j # i => work'[j] = work[j]
  BY DEF TypeOK, WorkerType

\* What each step of a thread makes of its worker's record.
LEMMA ThreadSteps ==
    ASSUME TypeOK, NEW i \in Index, Thread(i) \/ Worker(i)
    PROVE  \E r \in WorkerType :
              /\ work' = [work EXCEPT ![i] = r]
              /\ \/ /\ Pooling /\ work[i].st = "queued" /\ ~parent.cancel
                    /\ r.st = "runs" /\ r.sent = work[i].sent
                    /\ UNCHANGED parent
                 \/ /\ Pooling /\ ~Returned(i)
                    /\ r.st = "returned" /\ r.sent = work[i].sent /\ r.code = work[i].code
                    /\ r.status = "complete" => work[i].code = 0 /\ work[i].sent = {}
                    /\ parent' = [parent EXCEPT !.cancel = @ \/ r.status # "complete"]
                 \/ /\ Running(i) /\ r.st = "exited"
                    /\ UNCHANGED parent
                 \/ /\ Pooling /\ Running(i) /\ work[i].sent = {}
                    /\ r.st = "runs" /\ r.sent = {"TERM"} /\ r.term = WorkerGrace
                    /\ UNCHANGED parent
  <1> DEFINE R(r) ==
              /\ work' = [work EXCEPT ![i] = r]
              /\ \/ /\ Pooling /\ work[i].st = "queued" /\ ~parent.cancel
                    /\ r.st = "runs" /\ r.sent = work[i].sent
                    /\ UNCHANGED parent
                 \/ /\ Pooling /\ ~Returned(i)
                    /\ r.st = "returned" /\ r.sent = work[i].sent /\ r.code = work[i].code
                    /\ r.status = "complete" => work[i].code = 0 /\ work[i].sent = {}
                    /\ parent' = [parent EXCEPT !.cancel = @ \/ r.status # "complete"]
                 \/ /\ Running(i) /\ r.st = "exited"
                    /\ UNCHANGED parent
                 \/ /\ Pooling /\ Running(i) /\ work[i].sent = {}
                    /\ r.st = "runs" /\ r.sent = {"TERM"} /\ r.term = WorkerGrace
                    /\ UNCHANGED parent
  <1> DEFINE w == work[i]
  <1>0. w \in WorkerType /\ work \in [Index -> WorkerType]
    BY DEF TypeOK, WorkerType
  <1>g. {0, WorkerGrace} \subseteq 0 .. WorkerGrace
    BY Zero4EndpointAssumption
  <1>1. ASSUME NEW status \in Statuses, Returns(i, status), Pooling,
               ~Returned(i),
               status = "complete" => w.code = 0 /\ w.sent = {}
        PROVE  \E r \in WorkerType : R(r)
    <2> DEFINE r == [w EXCEPT !.st = "returned", !.status = status, !.term = 0, !.deaf = FALSE]
    <2>1. r \in WorkerType
      BY <1>0, <1>g DEF WorkerType
    <2>2. r.st = "returned" /\ r.sent = w.sent /\ r.code = w.code /\ r.status = status
      BY <1>0 DEF WorkerType
    <2>3. work' = [work EXCEPT ![i] = r]
      BY <1>1 DEF Returns
    <2>4. parent' = [parent EXCEPT !.cancel = @ \/ status # "complete"]
      BY <1>1 DEF Returns
    <2> QED
      BY <1>1, <2>1, <2>2, <2>3, <2>4
  <1>2. ASSUME Begins(i)
        PROVE  \E r \in WorkerType : R(r)
    <2>1. Pooling /\ w.st = "queued"
      BY <1>2 DEF Begins
    <2>2. CASE Returns(i, "skipped") \/ Returns(i, "failed")
      BY <1>1, <2>1, <2>2 DEF Statuses, Returned
    <2>3. CASE /\ ~(parent.cancel \/ clock = 0)
               /\ UNCHANGED parent
               /\ \/ work' = [work EXCEPT ![i].st = "runs"]
                  \/ work' = [work EXCEPT ![i].st = "runs", ![i].deaf = TRUE]
      <3> DEFINE r == [w EXCEPT !.st = "runs"]
                 s == [w EXCEPT !.st = "runs", !.deaf = TRUE]
      <3>1. /\ r \in WorkerType /\ r.st = "runs" /\ r.sent = w.sent
            /\ s \in WorkerType /\ s.st = "runs" /\ s.sent = w.sent
        BY <1>0 DEF WorkerType
      <3>2. work' = [work EXCEPT ![i] = r] \/ work' = [work EXCEPT ![i] = s]
        BY <1>0, <2>3
      <3> QED
        BY <2>1, <2>3, <3>1, <3>2
    <2> QED
      BY <1>2, <2>2, <2>3 DEF Begins
  <1>3. ASSUME Waits(i)
        PROVE  \E r \in WorkerType : R(r)
    BY <1>1, <1>3 DEF Waits, WaitDue, Statuses, Returned
  <1>4. ASSUME NEW r \in WorkerType, r.st = "exited", Running(i), UNCHANGED parent,
               work' = [work EXCEPT ![i] = r]
        PROVE  \E x \in WorkerType : R(x)
    BY <1>4
  <1>5. ASSUME Scores(i)
        PROVE  \E r \in WorkerType : R(r)
    <2>1. Running(i) /\ UNCHANGED parent
      BY <1>5 DEF Scores
    <2>2. PICK code \in {0, 1}, scored \in SUBSET Shard(i) : Ends(i, code, scored)
      BY <1>5 DEF Scores
    <2> DEFINE r == [w EXCEPT !.st = "exited", !.code = code, !.rows = scored, !.deaf = FALSE]
    <2>3. r \in WorkerType /\ r.st = "exited"
      BY <1>0, ShardTyped DEF WorkerType
    <2>4. work' = [work EXCEPT ![i] = r]
      BY <2>2 DEF Ends
    <2> QED
      BY <1>4, <2>1, <2>3, <2>4
  <1>6. ASSUME Kills(i)
        PROVE  \E r \in WorkerType : R(r)
    <2> DEFINE r == [w EXCEPT !.st = "exited", !.sent = Signals, !.code = 9, !.deaf = FALSE]
    <2>1. r \in WorkerType /\ r.st = "exited"
      BY <1>0 DEF WorkerType, Signals
    <2>2. Running(i) /\ UNCHANGED parent /\ work' = [work EXCEPT ![i] = r]
      BY <1>6 DEF Kills, KillDue
    <2> QED
      BY <1>4, <2>1, <2>2
  <1>7. ASSUME Terms(i)
        PROVE  \E r \in WorkerType : R(r)
    <2>1. Pooling /\ Running(i) /\ w.sent = {} /\ UNCHANGED parent
      BY <1>7 DEF Terms, TermDue
    <2> DEFINE r == [w EXCEPT !.sent = {"TERM"}, !.term = WorkerGrace]
               s == [r EXCEPT !.st = "exited", !.code = 15, !.term = 0]
    <2>2. /\ r \in WorkerType /\ r.st = "runs" /\ r.sent = {"TERM"} /\ r.term = WorkerGrace
          /\ s \in WorkerType /\ s.st = "exited"
      BY <1>0, <1>g, <2>1 DEF WorkerType, Signals, Running
    <2>3. work' = [work EXCEPT ![i] = r] \/ work' = [work EXCEPT ![i] = s]
      BY <1>0, <1>7 DEF Terms, WorkerGraceOf
    <2> QED
      BY <1>4, <2>1, <2>2, <2>3
  <1>8. ASSUME Floods(i)
        PROVE  \E r \in WorkerType : R(r)
    <2> DEFINE r == [w EXCEPT !.st = "exited", !.sent = {"KILL"}, !.code = 9, !.deaf = FALSE]
    <2>1. r \in WorkerType /\ r.st = "exited"
      BY <1>0 DEF WorkerType, Signals
    <2>2. Running(i) /\ UNCHANGED parent /\ work' = [work EXCEPT ![i] = r]
      BY <1>8 DEF Floods
    <2> QED
      BY <1>4, <2>1, <2>2
  <1>9. ASSUME Raises(i)
        PROVE  \E r \in WorkerType : R(r)
    BY <1>1, <1>9 DEF Raises, Statuses, Returned
  <1> QED
    BY <1>2, <1>3, <1>5, <1>6, <1>7, <1>8, <1>9 DEF Thread, Worker

\* A second passes: only the time that is left of each grace changes.
LEMMA TickSteps ==
    ASSUME TypeOK, Ticks
    PROVE  /\ work' \in [Index -> WorkerType]
           /\ \A i \in Index :
                 /\ work'[i] = [work[i] EXCEPT !.term = Down(work[i].term)]
                 /\ work'[i].st = work[i].st /\ work'[i].sent = work[i].sent
                 /\ work'[i].status = work[i].status /\ work'[i].code = work[i].code
                 /\ work'[i].rows = work[i].rows
           /\ outer' \in OuterType
           /\ outer'.sent = outer.sent /\ outer'.term = Down(outer.term)
           /\ outer'.st = outer.st
           /\ clock' \in 0 .. Seconds
  <1>1. \A n, m \in Nat : n \in 0 .. m => Down(n) \in 0 .. m
    BY DownTyped
  <1>2. work \in [Index -> WorkerType]
    BY DEF TypeOK, WorkerType
  <1>3. ASSUME NEW i \in Index
        PROVE  /\ work'[i] = [work[i] EXCEPT !.term = Down(work[i].term)]
               /\ work'[i] \in WorkerType
               /\ work'[i].st = work[i].st /\ work'[i].sent = work[i].sent
               /\ work'[i].status = work[i].status /\ work'[i].code = work[i].code
               /\ work'[i].rows = work[i].rows
    <2>1. Down(work[i].term) \in 0 .. WorkerGrace
      <3>1. work[i].term \in 0 .. WorkerGrace
        BY <1>2 DEF WorkerType
      <3> QED
        BY <1>1, <3>1, Zero4EndpointAssumption
    <2>2. work'[i] = [work[i] EXCEPT !.term = Down(work[i].term)]
      BY DEF Ticks
    <2> QED
      BY <1>2, <2>1, <2>2 DEF WorkerType
  <1>4. /\ outer' \in OuterType
        /\ outer'.sent = outer.sent /\ outer'.term = Down(outer.term)
        /\ outer'.st = outer.st
    <2>1. /\ outer.left \in 0 .. Seconds + Slack /\ outer.sent \in SUBSET Signals
          /\ outer.term \in 0 .. OuterGrace
      BY DEF TypeOK
    <2>2. Down(outer.left) \in 0 .. Seconds + Slack /\ Down(outer.term) \in 0 .. OuterGrace
      BY <1>1, <2>1, Zero4EndpointAssumption
    <2>3. outer' = [outer EXCEPT !.left = Down(outer.left), !.term = Down(outer.term)]
      BY DEF Ticks
    <2> QED
      BY <2>1, <2>2, <2>3 DEF TypeOK, OuterType
  <1>5. clock' \in 0 .. Seconds
    BY <1>1, Zero4EndpointAssumption DEF Ticks, TypeOK
  <1>6. work' \in [Index -> WorkerType]
    <2>1. work' = [i \in Index |-> [work[i] EXCEPT !.term = Down(@)]]
      BY DEF Ticks
    <2> QED
      BY <1>3, <2>1
  <1> QED
    BY <1>3, <1>4, <1>5, <1>6

\* The steps of the main thread and of the study leave the workers alone.
LEMMA OthersKeepWork ==
    ASSUME Main \/ Writes \/ Study \/ Interrupts
    PROVE  work' = work
  BY DEF Main, Boots, Leaves, Merges, Finishes, Collects, Writes, Study, OuterTerms, OuterKills,
         Interrupts, OuterStrikes, StudyDies

LEMMA FaultsTyped ==
    ASSUME TypeOK, [Next]_vars
    PROVE  faults' \in 0 .. Faults
  <1>1. \/ faults' = faults
        \/ Fails
    BY DEF Next, Main, Boots, Leaves, Merges, Finishes, Collects, Writes, Study, OuterTerms,
           OuterKills, Interrupts, OuterStrikes, StudyDies, Ticks, Thread, Begins, Terms, Kills,
           Waits, Worker, Scores, Floods, Raises, vars
  <1> QED
    BY <1>1, Zero4EndpointAssumption DEF TypeOK, Fails

LEMMA FilesTyped ==
    ASSUME TypeOK, [Next]_vars
    PROVE  files' \in [status : Statuses, workers : SUBSET Index, rows : SUBSET Ordinals]
  <1>1. CASE files' = files
    BY <1>1 DEF TypeOK
  <1>2. ASSUME NEW i \in Index, Collects(i)
        PROVE  files' \in [status : Statuses, workers : SUBSET Index, rows : SUBSET Ordinals]
    <2>1. parent.got \cup {i} \in SUBSET Index
      BY DEF TypeOK
    <2>2. \/ files' = files
          \/ files' = [files EXCEPT !.status = "failed", !.workers = parent.got \cup {i}]
      BY <1>2 DEF Collects
    <2> QED
      BY <2>1, <2>2 DEF TypeOK, Statuses
  <1>3. CASE Merges
    <2>1. UNION {work[i].rows : i \in Index} \in SUBSET Ordinals
      BY DEF TypeOK
    <2> QED
      BY <1>3, <2>1 DEF TypeOK, Merges
  <1>4. CASE Finishes
    BY <1>4 DEF TypeOK, Finishes, Statuses
  <1> QED
    BY <1>1, <1>2, <1>3, <1>4
    DEF Next, Main, Boots, Leaves, Writes, Study, OuterTerms, OuterKills, Interrupts, OuterStrikes,
        StudyDies, Ticks, Thread, Begins, Terms, Kills, Waits, Worker, Scores, Floods, Raises, vars

LEMMA ParentTyped ==
    ASSUME TypeOK, [Next]_vars
    PROVE  parent' \in ParentType
  <1> USE DEF TypeOK, ParentType
  <1>1. CASE parent' = parent
    BY <1>1
  <1>2. CASE Boots \/ Leaves \/ Finishes \/ Writes
    BY <1>2 DEF Boots, Leaves, Finishes, Writes
  <1>3. CASE Merges
    BY <1>3 DEF Merges
  <1>4. ASSUME NEW i \in Index, Collects(i)
        PROVE  parent' \in ParentType
    <2>1. parent.got \cup {i} \in SUBSET Index
      OBVIOUS
    <2>2. \/ parent' = [parent EXCEPT !.got = parent.got \cup {i}]
          \/ parent' = [parent EXCEPT !.pc = "raised", !.got = parent.got \cup {i}]
      BY <1>4 DEF Collects
    <2> QED
      BY <2>1, <2>2
  <1>5. CASE Study
    <2>1. \/ parent' = [parent EXCEPT !.pc = "gone"]
          \/ parent' = [parent EXCEPT !.cancel = TRUE]
      BY <1>5 DEF Study, OuterTerms, OuterKills
    <2> QED
      BY <2>1
  <1>8. CASE Interrupts
    BY <1>8 DEF Interrupts, OuterStrikes, StudyDies
  <1>6. ASSUME NEW i \in Index, Thread(i) \/ Worker(i)
        PROVE  parent' \in ParentType
    <2>1. \/ parent' = parent
          \/ \E r \in WorkerType : parent' = [parent EXCEPT !.cancel = @ \/ r.status # "complete"]
      BY <1>6, ThreadSteps
    <2>2. ASSUME NEW b \in BOOLEAN, parent' = [parent EXCEPT !.cancel = b]
          PROVE  parent' \in ParentType
      BY <2>2
    <2>3. \A r \in WorkerType : (parent.cancel \/ r.status # "complete") \in BOOLEAN
      OBVIOUS
    <2> QED
      BY <2>1, <2>2, <2>3
  <1>7. CASE Ticks
    BY <1>7 DEF Ticks
  <1> QED
    BY <1>1, <1>2, <1>3, <1>4, <1>5, <1>6, <1>7, <1>8 DEF Next, Main, vars

LEMMA TypeStep ==
    ASSUME TypeOK, [Next]_vars
    PROVE  TypeOK'
  <1>1. work' \in [Index -> WorkerType]
    <2>1. CASE work' = work
      BY <2>1 DEF TypeOK, WorkerType
    <2>2. ASSUME NEW i \in Index, Thread(i) \/ Worker(i)
          PROVE  work' \in [Index -> WorkerType]
      BY <2>2, ThreadSteps, OneWorker
    <2> QED
      BY <2>1, <2>2, OthersKeepWork, TickSteps DEF Next, vars
  <1>2. outer' \in OuterType
    <2> USE DEF OuterType
    <2>1. CASE outer' = outer
      BY <2>1 DEF TypeOK
    <2>2. CASE OuterTerms
      <3>1. OuterGrace \in 0 .. OuterGrace
        BY Zero4EndpointAssumption
      <3>2. outer' = [outer EXCEPT !.sent = {"TERM"}, !.term = OuterGrace]
        BY <2>2 DEF OuterTerms
      <3> QED
        BY <3>1, <3>2 DEF TypeOK, Signals
    <2>3. CASE OuterKills
      BY <2>3 DEF OuterKills, TypeOK
    <2>4. CASE Interrupts
      <3>1. outer.sent \cup {"KILL"} \in SUBSET Signals /\ {"KILL"} \in SUBSET Signals
        BY DEF TypeOK, Signals
      <3>2. \/ outer' = [outer EXCEPT !.st = "flooded", !.sent = {"KILL"}]
            \/ outer' = [outer EXCEPT !.st = "raised", !.sent = outer.sent \cup {"KILL"}]
            \/ outer' = [outer EXCEPT !.st = "dead"]
        BY <2>4 DEF Interrupts, OuterStrikes, StudyDies
      <3> QED
        BY <3>1, <3>2 DEF TypeOK
    <2> QED
      BY <2>1, <2>2, <2>3, <2>4, TickSteps
      DEF Next, Main, Boots, Leaves, Merges, Finishes, Collects, Writes, Study,
          Thread, Begins, Terms, Kills, Waits, Worker, Scores, Floods, Raises, vars
  <1>3. clock' \in 0 .. Seconds
    BY TickSteps
    DEF TypeOK, Next, Main, Boots, Leaves, Merges, Finishes, Collects, Writes, Study, OuterTerms,
        OuterKills, Interrupts, OuterStrikes, StudyDies, Thread, Begins, Terms, Kills, Waits, Worker,
        Scores, Floods, Raises, vars
  <1> QED
    BY <1>1, <1>2, <1>3, FaultsTyped, FilesTyped, ParentTyped
    DEF TypeOK, WorkerType, ParentType, OuterType

--------------------------------------------------------------------------------
(* The invariants.                                                          *)

\* The main thread, the writer and the study only ever cancel.
LEMMA CancelKept ==
    ASSUME TypeOK, Main \/ Writes \/ Study \/ Interrupts
    PROVE  parent.cancel => parent'.cancel
  BY DEF TypeOK, Main, Boots, Leaves, Merges, Finishes, Collects, Writes, Study, OuterTerms,
         OuterKills, Interrupts, OuterStrikes, StudyDies

LEMMA WorkerStep ==
    ASSUME TypeOK, WorkerInv, [Next]_vars
    PROVE  WorkerInv'
  <1> USE DEF WorkerInv, Running, Returned, Failed
  <1>1. CASE Main \/ Writes \/ Study \/ Interrupts
    BY <1>1, OthersKeepWork, CancelKept
  <1>2. CASE Ticks
    <2>1. parent' = parent
      BY <1>2 DEF Ticks
    <2>2. \A i \in Index : /\ work'[i].st = work[i].st /\ work'[i].sent = work[i].sent
                           /\ work'[i].status = work[i].status /\ work'[i].code = work[i].code
      BY <1>2, TickSteps
    <2> QED
      BY <2>1, <2>2
  <1>3. ASSUME NEW i \in Index, Thread(i) \/ Worker(i)
        PROVE  WorkerInv'
    <2>1. PICK r \in WorkerType :
              /\ work' = [work EXCEPT ![i] = r]
              /\ \/ /\ work[i].st = "queued"
                    /\ r.st = "runs" /\ r.sent = work[i].sent
                    /\ UNCHANGED parent
                 \/ /\ r.st = "returned" /\ r.sent = work[i].sent /\ r.code = work[i].code
                    /\ r.status = "complete" => work[i].code = 0 /\ work[i].sent = {}
                    /\ parent' = [parent EXCEPT !.cancel = @ \/ r.status # "complete"]
                 \/ /\ r.st = "exited"
                    /\ UNCHANGED parent
                 \/ /\ r.st = "runs" /\ r.sent = {"TERM"}
                    /\ UNCHANGED parent
      BY <1>3, ThreadSteps
    <2>2. work'[i] = r /\ \A j \in Index : j # i => work'[j] = work[j]
      BY <2>1, OneWorker
    <2>3. /\ parent.cancel => parent'.cancel
          /\ r.st = "returned" /\ r.status # "complete" => parent'.cancel
      BY <2>1 DEF TypeOK
    <2>4. /\ r.st = "queued" => r.sent = {}
          /\ r.st = "runs" => r.sent \in {{}, {"TERM"}}
          /\ r.st = "returned" /\ r.status = "complete" => r.code = 0 /\ r.sent = {}
      BY <2>1
    <2> QED
      BY <2>2, <2>3, <2>4
  <1>4. CASE UNCHANGED vars
    BY <1>4 DEF vars
  <1> QED
    BY <1>1, <1>2, <1>3, <1>4 DEF Next

\* When the study's grace is over, so is that of every worker.
LEMMA GraceOver ==
    ASSUME TypeOK, GraceInv, OuterKillDue, Pooling, NEW i \in Index
    PROVE  ~Running(i)
  <1>1. outer.term = 0 /\ outer.sent = {"TERM"}
    BY DEF OuterKillDue
  <1>2. work[i].term \in Nat
    BY Zero4EndpointAssumption DEF TypeOK
  <1>3. SUFFICES ASSUME Running(i) PROVE FALSE
    OBVIOUS
  <1>4. CASE outer.term = OuterGrace
    BY <1>1, <1>4, Zero4EndpointAssumption, GraceAssumption
  <1>5. CASE work[i].term + (OuterGrace - WorkerGrace) <= outer.term
    BY <1>1, <1>2, <1>5, Zero4EndpointAssumption, GraceAssumption
  <1> QED
    BY <1>1, <1>3, <1>4, <1>5 DEF GraceInv

LEMMA PoolStep ==
    ASSUME TypeOK, PoolInv, GraceInv, [Next]_vars
    PROVE  PoolInv'
  <1> USE DEF PoolInv, Returned, Running, Struck
  <1>1. CASE Boots
    BY <1>1 DEF Boots, TypeOK
  <1>2. CASE Leaves
    BY <1>2 DEF Leaves, LeaveDue, TypeOK
  <1>3. CASE Merges
    BY <1>3 DEF Merges, MergeDue, TypeOK
  <1>4. CASE Finishes
    BY <1>4 DEF Finishes, EndDue, TypeOK
  <1>5. ASSUME NEW i \in Index, Collects(i)
        PROVE  PoolInv'
    <2>1. /\ parent.pc = "pool" /\ work[i].st = "returned" /\ work' = work
          /\ parent'.pc \in {"pool", "raised"} /\ parent'.got = parent.got \cup {i}
      BY <1>5 DEF Collects, CollectDue, TypeOK
    <2> QED
      BY <2>1
  <1>6. CASE Writes
    BY <1>6 DEF Writes, TypeOK
  <1>7. CASE OuterTerms
    <2>1. /\ work' = work /\ parent'.got = parent.got
          /\ \/ parent.pc \in {"boot", "end"} /\ parent'.pc = "gone"
             \/ parent.pc \notin {"boot", "end", "gone"} /\ parent'.pc = parent.pc
      BY <1>7 DEF OuterTerms, OuterTermDue, Polls, Alive, TypeOK
    <2> QED
      BY <2>1
  <1>8. CASE OuterKills
    <2>1. work' = work /\ parent'.got = parent.got /\ parent'.pc = "gone" /\ OuterKillDue
      BY <1>8 DEF OuterKills, TypeOK
    <2>2. parent.pc \notin {"boot", "gone"}
      BY <2>1 DEF OuterKillDue, Polls, Alive
    <2>3. CASE Pooling
      BY <2>1, <2>3, GraceOver
    <2>4. CASE ~Pooling
      BY <2>1, <2>2, <2>4 DEF Pooling, TypeOK
    <2> QED
      BY <2>3, <2>4
  <1>9. CASE Ticks
    <2>1. /\ parent' = parent /\ parent.pc # "boot"
          /\ outer'.sent = outer.sent /\ outer'.st = outer.st
      BY <1>9, TickSteps DEF Ticks, Due
    <2>2. \A i \in Index : work'[i].st = work[i].st
      BY <1>9, TickSteps
    <2> QED
      BY <2>1, <2>2 DEF TypeOK
  <1>10. ASSUME NEW i \in Index, Thread(i) \/ Worker(i)
         PROVE  PoolInv'
    <2>1. PICK r \in WorkerType :
              /\ work' = [work EXCEPT ![i] = r]
              /\ \/ Pooling /\ work[i].st # "returned"
                    /\ parent'.pc = parent.pc /\ parent'.got = parent.got
                 \/ Running(i) /\ r.st = "exited" /\ UNCHANGED parent
      <3>1. \A b \in BOOLEAN :
               parent' = [parent EXCEPT !.cancel = b] =>
                  parent'.pc = parent.pc /\ parent'.got = parent.got
        BY DEF TypeOK
      <3>2. \A r \in WorkerType : (parent.cancel \/ r.status # "complete") \in BOOLEAN
        OBVIOUS
      <3> QED
        BY <1>10, <3>1, <3>2, ThreadSteps
    <2>2. work'[i] = r /\ \A j \in Index : j # i => work'[j] = work[j]
      BY <2>1, OneWorker
    <2>3. parent'.pc = parent.pc /\ parent'.got = parent.got /\ work[i].st # "returned"
      BY <2>1
    <2>4. i \notin parent.got
      BY <2>3
    <2>5. /\ parent.pc \notin {"boot", "slow", "end"}
          /\ parent.pc = "gone" => Running(i)
      BY <2>1 DEF Pooling
    <2>7. outer' = outer
      BY <1>10 DEF Thread, Begins, Terms, Kills, Waits, Worker, Scores, Floods, Raises
    <2>6. parent'.got \subseteq Index
      BY <2>3 DEF TypeOK
    <2> QED
      BY <2>2, <2>3, <2>4, <2>5, <2>6, <2>7
  <1>11. CASE UNCHANGED vars
    BY <1>11 DEF vars
  <1>12. CASE OuterStrikes
    <2>1. /\ work' = work /\ parent'.got = parent.got /\ parent'.pc = "gone"
          /\ outer'.st \in {"flooded", "raised"}
      BY <1>12 DEF OuterStrikes, TypeOK
    <2> QED
      BY <2>1
  <1>13. CASE StudyDies
    <2>1. /\ work' = work /\ parent' = parent /\ parent.pc # "gone"
          /\ outer'.sent = outer.sent
      BY <1>13 DEF StudyDies, Polls, Alive, TypeOK
    <2> QED
      BY <2>1
  <1> QED
    BY <1>1, <1>2, <1>3, <1>4, <1>5, <1>6, <1>7, <1>8, <1>9, <1>10, <1>11, <1>12, <1>13
    DEF Next, Main, Study, Interrupts

LEMMA GraceStep ==
    ASSUME TypeOK, WorkerInv, PoolInv, GraceInv, [Next]_vars
    PROVE  GraceInv'
  <1> USE DEF GraceInv
  <1>g. /\ WorkerGrace \in Nat /\ OuterGrace \in Nat /\ outer.term \in Nat
        /\ \A i \in Index : work[i].term \in 0 .. WorkerGrace
    BY Zero4EndpointAssumption DEF TypeOK
  <1>1. CASE (Main \/ Writes) /\ outer' = outer
    <2>1. work' = work
      BY <1>1, OthersKeepWork
    <2>2. CASE parent.pc = "boot"
      BY <1>1, <2>2 DEF PoolInv
    <2>3. CASE parent.pc # "boot"
      <3>1. (Pooling' => Pooling) /\ (parent.cancel => parent'.cancel)
        BY <1>1, <2>3, CancelKept
        DEF Main, Boots, Leaves, Merges, Finishes, Collects, CollectDue, Writes, Pooling, TypeOK
      <3> QED
        BY <1>1, <2>1, <3>1 DEF Running
    <2> QED
      BY <2>2, <2>3
  <1>2. CASE OuterTerms
    <2>1. /\ work' = work /\ outer'.sent = {"TERM"} /\ outer'.term = OuterGrace
          /\ Pooling' => parent'.cancel
      BY <1>2 DEF OuterTerms, TypeOK, Pooling
    <2>2. ASSUME NEW i \in Index, Running(i)
          PROVE  \/ work[i].sent = {}
                 \/ work[i].sent = {"TERM"} /\ work[i].term + (OuterGrace - WorkerGrace) <= OuterGrace
      BY <1>g, <2>2 DEF WorkerInv
    <2> QED
      BY <2>1, <2>2 DEF Running
  <1>3. CASE OuterKills
    BY <1>3 DEF OuterKills, TypeOK, Signals
  <1>7. CASE OuterStrikes
    BY <1>7 DEF OuterStrikes, Pooling, TypeOK
  <1>8. CASE StudyDies
    <2>1. /\ work' = work /\ parent' = parent
          /\ outer'.sent = outer.sent /\ outer'.term = outer.term
      BY <1>8 DEF StudyDies, TypeOK
    <2> QED
      BY <2>1 DEF Pooling, Running
  <1>4. CASE Ticks
    <2> SUFFICES ASSUME outer'.sent = {"TERM"}, Pooling', NEW i \in Index, Running(i)'
                 PROVE  /\ parent'.cancel
                        /\ \/ work'[i].sent = {} /\ outer'.term = OuterGrace
                           \/ work'[i].sent = {"TERM"}
                              /\ work'[i].term + (OuterGrace - WorkerGrace) <= outer'.term
      <3>1. parent' = parent /\ outer'.sent = outer.sent
        BY <1>4, TickSteps DEF Ticks
      <3> QED
        BY <3>1 DEF Pooling
    <2>1. /\ parent' = parent /\ outer'.sent = outer.sent /\ outer'.term = Down(outer.term)
          /\ work'[i] = [work[i] EXCEPT !.term = Down(work[i].term)]
      BY <1>4, TickSteps DEF Ticks
    <2>2. /\ work'[i].st = work[i].st /\ work'[i].sent = work[i].sent
          /\ work'[i].term = Down(work[i].term)
      BY <2>1 DEF TypeOK
    <2>3. Running(i) /\ Pooling /\ parent.cancel
      BY <2>1, <2>2 DEF Running, Pooling
    <2>4. ~TermDue(i) /\ ~KillDue(i)
      BY <1>4 DEF Ticks, Due
    <2>5. work[i].sent = {"TERM"} /\ work[i].term # 0
      BY <2>3, <2>4 DEF TermDue, KillDue, WorkerInv
    <2>6. work[i].term + (OuterGrace - WorkerGrace) <= outer.term
      BY <2>1, <2>3, <2>5
    <2>7. work'[i].term = work[i].term - 1
      BY <1>g, <2>2, <2>5 DEF Down
    <2> DEFINE t == work[i].term
               u == outer.term
    <2>8. t \in Nat /\ t # 0 /\ u \in Nat /\ t + (OuterGrace - WorkerGrace) <= u
      BY <1>g, <2>5, <2>6
    <2>9. work'[i].term = t - 1 /\ outer'.term = Down(u)
      BY <2>1, <2>7
    <2> HIDE DEF t, u
    <2>10. Down(u) = u - 1
      BY <1>g, <2>8, GraceAssumption DEF Down
    <2>11. (t - 1) + (OuterGrace - WorkerGrace) <= u - 1
      BY <1>g, <2>8
    <2> QED
      BY <2>1, <2>2, <2>3, <2>5, <2>9, <2>10, <2>11
  <1>5. ASSUME NEW i \in Index, Thread(i) \/ Worker(i)
        PROVE  GraceInv'
    <2>1. outer' = outer
      BY <1>5 DEF Thread, Begins, Terms, Kills, Waits, Worker, Scores, Floods, Raises
    <2>2. PICK r \in WorkerType :
              /\ work' = [work EXCEPT ![i] = r]
              /\ \/ Pooling /\ ~parent.cancel /\ UNCHANGED parent
                 \/ /\ r.st \in {"returned", "exited"}
                    /\ Pooling' => Pooling
                    /\ parent.cancel => parent'.cancel
                 \/ /\ Pooling /\ Running(i) /\ work[i].sent = {}
                    /\ r.st = "runs" /\ r.sent = {"TERM"} /\ r.term = WorkerGrace
                    /\ UNCHANGED parent
      <3>1. \A b \in BOOLEAN :
               parent' = [parent EXCEPT !.cancel = b] =>
                  parent'.pc = parent.pc /\ parent'.cancel = b
        BY DEF TypeOK
      <3>2. \A r \in WorkerType : (parent.cancel \/ r.status # "complete") \in BOOLEAN
        OBVIOUS
      <3> QED
        BY <1>5, <3>1, <3>2, ThreadSteps DEF Pooling
    <2>3. work'[i] = r /\ \A j \in Index : j # i => work'[j] = work[j]
      BY <2>2, OneWorker
    <2>4. CASE Pooling /\ ~parent.cancel /\ UNCHANGED parent
      BY <2>1, <2>4 DEF Pooling
    <2>5. CASE /\ r.st \in {"returned", "exited"}
               /\ Pooling' => Pooling
               /\ parent.cancel => parent'.cancel
      BY <2>1, <2>3, <2>5 DEF Running
    <2>6. CASE /\ Pooling /\ Running(i) /\ work[i].sent = {}
               /\ r.st = "runs" /\ r.sent = {"TERM"} /\ r.term = WorkerGrace
               /\ UNCHANGED parent
      <3> SUFFICES ASSUME outer.sent = {"TERM"}
                   PROVE  /\ parent.cancel
                          /\ \A j \in Index : Running(j)' =>
                                \/ work'[j].sent = {} /\ outer.term = OuterGrace
                                \/ work'[j].sent = {"TERM"}
                                   /\ work'[j].term + (OuterGrace - WorkerGrace) <= outer.term
        BY <2>1, <2>6
      <3>1. parent.cancel /\ outer.term = OuterGrace
        BY <2>6
      <3>2. WorkerGrace + (OuterGrace - WorkerGrace) <= OuterGrace
        BY <1>g
      <3> QED
        BY <2>3, <2>6, <3>1, <3>2 DEF Running
    <2> QED
      BY <2>2, <2>4, <2>5, <2>6
  <1>6. CASE UNCHANGED vars
    BY <1>6 DEF vars, Pooling, Running
  <1> QED
    BY <1>1, <1>2, <1>3, <1>4, <1>5, <1>6, <1>7, <1>8
    DEF Next, Main, Boots, Leaves, Merges, Finishes, Collects, Writes, Study, Interrupts

LEMMA CompleteStep ==
    ASSUME TypeOK, WorkerInv, PoolInv, CompleteInv, [Next]_vars
    PROVE  CompleteInv'
  <1> USE DEF CompleteInv
  <1>1. CASE Merges
    <2>1. /\ parent.pc = "pool" /\ parent.got = Index /\ work' = work
          /\ parent'.pc \in {"slow", "end"} /\ parent'.got = Index
          /\ parent'.status = "complete" => Mergeable
          /\ files'.status = files.status /\ files'.workers = files.workers
      BY <1>1 DEF Merges, MergeDue, TypeOK
    <2>2. files.status # "complete"
      BY <2>1
    <2>3. ASSUME Mergeable
          PROVE  Whole'
      <3>1. \A i \in Index : /\ Returned(i) /\ work[i].rows = Shard(i)
                             /\ work[i].status = "complete"
        BY <2>1, <2>3 DEF Mergeable, ShardsWhole, Failed, PoolInv
      <3>2. \A i \in Index : work[i].sent = {} /\ work[i].code = 0
        BY <3>1 DEF WorkerInv
      <3>3. UNION {work[i].rows : i \in Index} = UNION {Shard(i) : i \in Index}
        BY <3>1
      <3>4. files'.rows = UNION {work[i].rows : i \in Index}
        BY <1>1, <2>3 DEF Merges, TypeOK
      <3>5. files'.rows = Ordinals
        BY <3>3, <3>4, ShardsCover
      <3> QED
        BY <2>1, <3>1, <3>2, <3>5 DEF Whole, Returned
    <2> QED
      BY <2>1, <2>2, <2>3
  <1>2. CASE Finishes
    <2>1. /\ parent.pc = "end" /\ parent'.pc = "gone" /\ work' = work
          /\ parent'.got = parent.got /\ parent'.status = parent.status
          /\ files'.status = parent.status /\ files'.workers = parent.got
          /\ files'.rows = files.rows
      BY <1>2 DEF Finishes, EndDue, TypeOK
    <2> QED
      BY <2>1 DEF Whole, Returned
  <1>3. ASSUME NEW i \in Index, Collects(i)
        PROVE  CompleteInv'
    <2>1. /\ parent.pc = "pool" /\ parent'.status = parent.status
          /\ files'.status = "failed" \/ files'.status = files.status
      BY <1>3 DEF Collects, CollectDue, TypeOK
    <2> QED
      BY <2>1
  <1>4. CASE Boots \/ Leaves \/ Writes \/ Study \/ Interrupts
    <2>1. /\ work' = work /\ files' = files
          /\ parent'.got = parent.got /\ parent'.status = parent.status
          /\ parent.pc \in {"slow", "end", "gone"} => parent'.pc \in {"slow", "end", "gone"}
      BY <1>4 DEF Boots, Leaves, LeaveDue, Writes, Study, OuterTerms, OuterKills, Interrupts,
             OuterStrikes, StudyDies, TypeOK
    <2> QED
      BY <2>1 DEF Whole, Returned
  <1>5. CASE Ticks
    <2>1. files' = files /\ parent' = parent
      BY <1>5 DEF Ticks
    <2>2. \A i \in Index : /\ work'[i].st = work[i].st /\ work'[i].sent = work[i].sent
                           /\ work'[i].rows = work[i].rows /\ work'[i].code = work[i].code
      BY <1>5, TickSteps
    <2> QED
      BY <2>1, <2>2 DEF Whole, Returned
  <1>6. ASSUME NEW i \in Index, Thread(i) \/ Worker(i)
        PROVE  CompleteInv'
    <2>1. files' = files
      BY <1>6 DEF Thread, Begins, Terms, Kills, Waits, Worker, Scores, Floods, Raises
    <2>2. PICK r \in WorkerType : Pooling \/ Running(i)
      BY <1>6, ThreadSteps
    <2>3. parent.status # "complete"
      BY <2>2 DEF Pooling, Whole, Returned, Running
    <2>4. parent'.status = parent.status
      <3>1. \A b \in BOOLEAN :
               parent' = [parent EXCEPT !.cancel = b] => parent'.status = parent.status
        BY DEF TypeOK
      <3>2. \A w \in WorkerType : (parent.cancel \/ w.status # "complete") \in BOOLEAN
        OBVIOUS
      <3> QED
        BY <1>6, <3>1, <3>2, ThreadSteps
    <2> QED
      BY <2>1, <2>3, <2>4
  <1>7. CASE UNCHANGED vars
    BY <1>7 DEF vars, Whole, Returned
  <1> QED
    BY <1>1, <1>2, <1>3, <1>4, <1>5, <1>6, <1>7 DEF Next, Main

--------------------------------------------------------------------------------
(* The theorems.                                                            *)

LEMMA Invariance == Spec => []IInv
  <1>1. IInv /\ [Next]_vars => IInv'
    BY TypeStep, WorkerStep, PoolStep, GraceStep, CompleteStep DEF IInv
  <1> QED
    BY InitInv, <1>1, PTL DEF Spec

(* Processes, signals, times and records keep their types.                  *)
THEOREM EndpointTypeCorrect == Spec => []TypeOK
  <1>1. IInv => TypeOK
    BY DEF IInv
  <1> QED
    BY Invariance, <1>1, PTL

(* When the endpoint is gone, by itself, by the study's TERM or by the KILL *)
(* at the end of its grace, none of its workers runs on; the exception is   *)
(* an endpoint the study struck with a KILL at once.                        *)
THEOREM WorkersEnd == Spec => []NoWorkerOutlives
  <1>1. IInv => NoWorkerOutlives
    BY DEF IInv, PoolInv, NoWorkerOutlives
  <1> QED
    BY Invariance, <1>1, PTL

(* A record that says complete holds every case, scored once and cleanly.   *)
THEOREM CompleteCorrect == Spec => []CompleteIsWhole
  <1>1. IInv => CompleteIsWhole
    BY DEF IInv, CompleteInv, Whole, CompleteIsWhole
  <1> QED
    BY Invariance, <1>1, PTL

(* No second passes between a worker's failure and the TERM of its peers.   *)
THEOREM PeersCorrect == Spec => PeersStopped
  <1>1. ASSUME IInv, [Next]_vars, clock' < clock, parent.pc = "pool",
               \E i \in Index : Failed(i), NEW j \in Index, Running(j)
        PROVE  work[j].sent # {}
    <2>1. CASE Ticks
      <3>1. parent.cancel
        BY <1>1 DEF IInv, WorkerInv
      <3> QED
        BY <1>1, <2>1, <3>1 DEF Ticks, Due, TermDue, Pooling
    <2>2. CASE clock' = clock
      <3>1. clock \in Nat
        BY <1>1, Zero4EndpointAssumption DEF IInv, TypeOK
      <3> QED
        BY <1>1, <2>2, <3>1
    <2> QED
      BY <1>1, <2>1, <2>2
      DEF Next, Main, Boots, Leaves, Merges, Finishes, Collects, Writes, Study, OuterTerms,
          OuterKills, Interrupts, OuterStrikes, StudyDies, Thread, Begins, Terms, Kills, Waits,
          Worker, Scores, Floods, Raises, vars
  <1>2. IInv /\ [Next]_vars =>
           [(clock' < clock /\ parent.pc = "pool" /\ \E i \in Index : Failed(i))
               => \A j \in Index : Running(j) => work[j].sent # {}]_vars
    BY <1>1
  <1> QED
    BY Invariance, <1>2, PTL DEF Spec, PeersStopped

--------------------------------------------------------------------------------
(* The study and its replay: the state.                                     *)

Outcomes   == {"complete", "failed", "skipped"}
Stages     == EndStages \cup {"compile", "training", "exact-parser"}
RowType    == [owner : Owners \cup {0}, stage : Stages, status : Outcomes \cup {"running"},
               seal : Nat \cup {None}, file : ReceiptType \cup {None}, sha : ReceiptType \cup {None}]
Pcs        == {"prepare", "validate", "compile", "train", "seal", "evaluate", "gold",
               "result", "raise", "check", "done", "dead"}
CtlType    == [pc : Pcs, i : Nat, j : Nat, over : BOOLEAN, late : BOOLEAN, erred : BOOLEAN]

\* Where the controller is under the seal
AfterSeal == {"evaluate", "gold", "result", "check"}
Sealed == seal # None

\* Whatever was altered, only the steps up to the seal write to what is sealed.
PlaceInv ==
    /\ ctl \in CtlType
    /\ Sealed => ctl.pc \in AfterSeal \cup {"done", "dead"}
    /\ ctl.pc = "evaluate" => ctl.i \in Owners /\ ctl.j \in 1 .. Len(Family)
    /\ verdict # None => Ended

ShapeInv ==
    /\ rows \in Seq(RowType)
    /\ train \in Seq(StateType)
    /\ seal \in SealType \cup {None}
    /\ Sealed => seal.ver = 0 /\ seal.before \in 0 .. Len(rows)
    /\ ends \in [Owners -> EndType \cup {None}]
    /\ \A n \in Owners : ends[n] # None => ends[n].whole = Cased
    /\ result \in ResultType \cup {None}

\* Where the controller is in the rows, before the seal and after it.
Underway == IF Busy THEN 1 ELSE 0
CountInv ==
    /\ ctl.pc \in AfterSeal => Sealed
    /\ ctl.pc \in {"prepare", "validate"} => rows = <<>> /\ train = <<>> /\ ~ctl.erred
    /\ ctl.pc = "compile" =>
          train = <<>> /\ ctl.i \in 1 .. Len(Binaries) /\ Len(rows) = ctl.i - 1 + Underway
    /\ ctl.pc \in {"compile", "train", "seal"} => ~ctl.erred
    /\ ctl.pc = "raise" => ctl.erred
    /\ ctl.pc = "train" =>
          /\ ctl.i \in 1 .. Seeds /\ ctl.j \in 1 .. Turns + 1 /\ Len(train) = ctl.i * A
          /\ Busy => /\ NextTurn(train, ctl.j) <= Turns
                     /\ Last.owner = Learner /\ Last.stage = "training"
    /\ (ctl.pc = "seal" \/ Sealed) => Len(train) = Seeds * A
    /\ (ctl.pc \in {"compile", "train", "seal"} \/ Sealed) => inputs = "whole"

\* A process is over before the next one starts, and its row says how it ended.
RowsInv ==
    /\ \A k \in DOMAIN rows : k < Len(rows) => rows[k].status # "running"
    /\ Busy => ctl.pc \in {"compile", "train", "evaluate", "gold", "dead"}
    /\ \A k \in DOMAIN rows :
          LET row == rows[k]
          IN  IF row.status = "complete"
              THEN row.file # None /\ row.sha = row.file /\ row.file.status = "complete"
              ELSE row.file # None => (row.file.status = row.status /\ row.status # "running")

\* The binaries come first, then the training, then the seal.
OrderInv ==
    /\ \A k \in DOMAIN rows : (rows[k].stage = "compile") => k <= Len(Binaries) /\ rows[k].owner = 0
    /\ \A k \in DOMAIN rows : k <= Len(Binaries) => rows[k].stage = "compile"
    /\ (ctl.pc \in {"train", "seal"} \/ Sealed) => Len(rows) >= Len(Binaries)
    /\ \A k \in DOMAIN rows : rows[k].stage = "training" => rows[k].owner \in DOMAIN train
    /\ \A k \in DOMAIN rows :
          IF Sealed /\ k > seal.before
          THEN rows[k].seal = seal.ver /\ rows[k].stage \in EndStages \cup {"exact-parser"}
          ELSE /\ rows[k].seal = None /\ rows[k].stage \in {"compile", "training"}
               /\ Sealed => rows[k].status # "running"

\* The binaries were built, and what is evaluated is the model of an owner.
StageInv ==
    /\ (ctl.pc \in {"compile", "train", "seal"} \/ Sealed) =>
          \A k \in DOMAIN rows : rows[k].stage = "compile" => rows[k].status \in {"complete", "running"}
    /\ \A k \in DOMAIN rows : rows[k].stage \in EndStages => rows[k].owner \in Owners

\* What each checkpoint cost is what the processes up to its own have cost.
CandidateOf(n, c) ==
    LET d == train[n].cands[c]
    IN  /\ d.row \in DOMAIN rows
        /\ rows[d.row].owner = n /\ rows[d.row].stage = "training" /\ rows[d.row].status = "complete"
        /\ d.cost = Charged(rows, n, d.row)
        /\ d.attempts > train[n].cands[c - 1].attempts
        /\ d.attempts <= train[n].cands[c - 1].attempts + Chunk

\* A training that has not failed has a checkpoint of every process it ran.
Unfailed(n) ==
    LET state == train[n]
    IN  /\ state.attempts = state.cands[Len(state.cands)].attempts
        /\ state.log # "refused"
        /\ \A k \in TrainingRows(rows, n) :
              rows[k].status = "running"
              \/ (rows[k].status = "complete" /\ \E c \in DOMAIN state.cands : state.cands[c].row = k)

TrainOf(n) ==
    /\ train[n].cands # <<>> /\ train[n].cands[1] = Initial
    /\ \A c \in DOMAIN train[n].cands \ {1} : CandidateOf(n, c)
    /\ train[n].status # "failed" => Unfailed(n)
TrainInv == \A n \in DOMAIN train : TrainOf(n)

\* Seeds that are through are selected by the rule, and stay so.
Through(s) == IF ctl.pc = "train" THEN s < ctl.i ELSE ctl.pc = "seal" \/ Sealed
SelectInv ==
    \A s \in 1 .. Seeds : Through(s) =>
        /\ \A n \in OfSeed(s) : train[n].selected = Eligible(train[n].cands)
        /\ Paired(train, s)

SealInv == Sealed => seal.training = train /\ seal.choices = SealedChoices(train)

\* Five processes for each owner in its turn: which of them is the k-th row
EndRow(k) ==
    LET d == k - seal.before - 1
    IN  rows[k].owner = (d \div Len(Family)) + 1 /\ rows[k].stage = Family[(d % Len(Family)) + 1]

\* The record of an endpoint is of the model that was selected, under the seal.
SealedEnd(n) == ends[n] # None /\ ends[n].seal = seal.ver /\ ends[n].model = train[n].selected

\* The first m owners were evaluated, and the processes of the next one up to the j-th.
EvaluatedTo(m, j) ==
    /\ \A k \in DOMAIN rows : k > seal.before /\ k <= seal.before + Len(Family) * m + j => EndRow(k)
    /\ \A n \in 1 .. m : SealedEnd(n)

GoldRow(k) == rows[k].stage = "exact-parser" /\ rows[k].owner = 0

WholeStudy ==
    /\ Len(rows) = seal.before + Len(Family) * (Seeds * A) + 1 /\ ~Busy /\ GoldRow(Len(rows))
    /\ EvaluatedTo(Seeds * A, 0)
    /\ \A k \in DOMAIN rows : k > seal.before => rows[k].status = "complete"

Broken == \E k \in DOMAIN rows : k > seal.before /\ rows[k].status \in {"failed", "skipped"}

EvaluationInv ==
    /\ Sealed /\ ctl.erred => Broken
    /\ ctl.pc = "evaluate" => Len(rows) >= seal.before + ctl.j - 1 + Underway
    /\ Sealed /\ ~ctl.erred =>
          /\ \A k \in DOMAIN rows : k > seal.before => rows[k].status \in {"complete", "running"}
          /\ ctl.pc = "evaluate" =>
                /\ Len(rows) = seal.before + Len(Family) * (ctl.i - 1) + ctl.j - 1 + Underway
                /\ EvaluatedTo(ctl.i - 1, ctl.j - 1 + Underway)
          /\ ctl.pc = "gold" =>
                /\ Len(rows) = seal.before + Len(Family) * (Seeds * A) + Underway
                /\ EvaluatedTo(Seeds * A, 0)
                /\ Busy => GoldRow(Len(rows))
          /\ ctl.pc \in {"result", "check"} => WholeStudy

ResultInv ==
    /\ ctl.pc \in {"check", "done"} => result # None
    /\ result # None =>
          /\ ctl.pc \in {"check", "done", "dead"}
          /\ result.count = Len(rows)
          /\ IF result.status = "complete"
             THEN /\ Sealed /\ WholeStudy /\ ~ctl.erred
                  /\ \A n \in DOMAIN train : train[n].status # "failed"
             ELSE Sealed => (ctl.erred \/ \E n \in DOMAIN train : train[n].status = "failed")

VerdictInv == verdict # None => verdict = Replay

Honest == /\ ShapeInv /\ CountInv /\ RowsInv /\ OrderInv /\ StageInv /\ TrainInv /\ SelectInv
          /\ SealInv /\ EvaluationInv /\ ResultInv /\ VerdictInv

\* What an alteration leaves to be found, from then on.
Passed == [status |-> "complete", error |-> FALSE]
BeforeMoved ==
    LET b == seal.before
    IN  \/ b + 1 \in DOMAIN rows /\ rows[b + 1].stage \in {"compile", "training"}
        \/ b = Len(rows) + 1
        \/ b \in DOMAIN rows /\ rows[b].seal # None
SealDamaged ==
    /\ Sealed /\ rows \in Seq(RowType) /\ seal.ver \in Nat /\ seal.before \in Int
    /\ BeforeMoved \/ seal.choices # SealedChoices(train)
Damaged ==
    \/ inputs = "altered" /\ ctl.pc # "prepare"
    \/ SealDamaged
    \/ Ended /\ Replay # Passed

StudyInv == PlaceInv /\ (IF hurt THEN Damaged ELSE Honest)

--------------------------------------------------------------------------------
(* Numbers.                                                                 *)

\* Every set of natural numbers that is not empty has a least element.
LEMMA LeastOf ==
    ASSUME NEW T, T \subseteq Nat, T # {}
    PROVE  \E x \in T : \A y \in T : x <= y
  <1>1. PICK R : IsWellFoundedOn(R, Nat) /\ \A x, y \in Nat : y < x => <<y, x>> \in R
    <2>1. \A x, y \in Nat : y < x => <<y, x>> \in OpToRel(<, Nat)
      BY DEF OpToRel
    <2> QED
      BY <2>1, NatLessThanWellFounded
  <1>2. PICK x \in T : \A y \in T : ~(<<y, x>> \in R)
    BY <1>1, WFMin
  <1>3. \A y \in T : ~(y < x)
    BY <1>1, <1>2
  <1>4. \A y \in T : x <= y
    BY <1>3
  <1> QED
    BY <1>4

\* Of numbers below a bound there is a greatest, too.
LEMMA GreatestOf ==
    ASSUME NEW K, NEW f, NEW m \in Nat, K # {}, \A k \in K : f[k] \in 0 .. m
    PROVE  \E k \in K : \A l \in K : f[l] <= f[k]
  <1> DEFINE T == {m - f[k] : k \in K}
  <1>1. T \subseteq Nat /\ T # {}
    OBVIOUS
  <1>2. PICK x \in T : \A y \in T : x <= y
    BY <1>1, LeastOf
  <1>3. PICK k \in K : x = m - f[k]
    OBVIOUS
  <1>4. \A l \in K : m - f[k] <= m - f[l]
    BY <1>2, <1>3
  <1>5. \A l \in K : f[l] <= f[k]
    BY <1>4
  <1> QED
    BY <1>5

\* There is at least one arm and one seed; a seed's owners are owners.
LEMMA Sizes ==
    /\ A \in Nat \ {0} /\ Seeds \in Nat \ {0} /\ Attempts \in Nat /\ Chunk \in Nat \ {0}
    /\ Budget \in Nat /\ Costs \subseteq Nat
    /\ Seeds * A \in Nat \ {0} /\ Turns \in Nat /\ Owners = 1 .. Seeds * A
  <1>1. A \in Nat \ {0} /\ Seeds \in Nat \ {0} /\ Attempts \in Nat /\ Chunk \in Nat \ {0}
        /\ Budget \in Nat /\ Costs \subseteq Nat
    BY Zero4StudyAssumption DEF A
  <1>2. \A a, b \in Nat \ {0} : a * b \in Nat \ {0}
    OBVIOUS
  <1>3. \A a \in Nat : \A b \in Nat \ {0} : a \div b \in Nat
    OBVIOUS
  <1>4. \A a, b \in Nat : a * b \in Nat
    OBVIOUS
  <1> QED
    BY <1>1, <1>2, <1>3, <1>4 DEF Turns, Owners

LEMMA SeedSizes ==
    ASSUME NEW s \in 1 .. Seeds
    PROVE  /\ s * A \in Nat \ {0} /\ (s - 1) * A \in Nat /\ s * A = (s - 1) * A + A
           /\ s * A <= Seeds * A
           /\ OfSeed(s) = (s - 1) * A + 1 .. s * A /\ OfSeed(s) \subseteq Owners
           /\ \A r \in 1 .. Seeds : r < s => r * A <= (s - 1) * A
  <1>1. \A a, b, c \in Nat : a <= b => a * c <= b * c
    OBVIOUS
  <1>2. \A a, c \in Nat : (a + 1) * c = a * c + c /\ a * c \in Nat
    OBVIOUS
  <1>3. s - 1 \in Nat /\ s \in Nat /\ (s - 1) + 1 = s /\ Seeds \in Nat /\ A \in Nat /\ A > 0
    BY Sizes
  <1>4. s * A = (s - 1) * A + A /\ (s - 1) * A \in Nat
    BY <1>2, <1>3
  <1>5. s * A <= Seeds * A /\ \A r \in 1 .. Seeds : r < s => r * A <= (s - 1) * A
    BY <1>1, <1>3
  <1> QED
    BY <1>3, <1>4, <1>5, Sizes DEF OfSeed

LEMMA FamilyFacts ==
    /\ Len(Family) = 5 /\ DOMAIN Family = 1 .. 5 /\ Len(Binaries) = 5
    /\ Family[1] = "export" /\ Family[2] = "retention" /\ Family[3] = "task"
    /\ Family[4] = "blimp" /\ Family[5] = "tinystories"
    /\ EndStages = {"export", "retention", "task", "blimp", "tinystories"}
    /\ \A j \in 1 .. 5 : Family[j] \in EndStages
  <1>1. /\ Len(Family) = 5 /\ DOMAIN Family = 1 .. 5 /\ Len(Binaries) = 5
        /\ Family[1] = "export" /\ Family[2] = "retention" /\ Family[3] = "task"
        /\ Family[4] = "blimp" /\ Family[5] = "tinystories"
    BY DEF Family, Binaries
  <1>2. \A j \in 1 .. 5 : j = 1 \/ j = 2 \/ j = 3 \/ j = 4 \/ j = 5
    OBVIOUS
  <1>3. \A j \in 1 .. 5 : Family[j] \in EndStages
    BY <1>1 DEF EndStages
  <1>4. EndStages \subseteq {"export", "retention", "task", "blimp", "tinystories"}
    BY <1>1, <1>2 DEF EndStages
  <1>5. {"export", "retention", "task", "blimp", "tinystories"} \subseteq EndStages
    BY <1>1, <1>3
  <1> QED
    BY <1>1, <1>3, <1>4, <1>5

\* A record is not nothing.
LEMMA NotNothing ==
    /\ None \notin Nat
    /\ \A x \in ReceiptType : x # None
    /\ \A x \in SealType : x # None
    /\ \A x \in EndType : x # None
    /\ \A x \in ResultType : x # None
  BY NothingAssumption

--------------------------------------------------------------------------------
(* What training has cost.                                                  *)

\* The sums up to each of the first m rows
IsAccount(f, table, n, m) ==
    f = [k \in 0 .. m |-> IF k = 0 THEN 0 ELSE f[k - 1] + Cost(table, n, k)]

LEMMA AccountExists ==
    ASSUME NEW table, NEW n, NEW m \in Nat
    PROVE  \E f : IsAccount(f, table, n, m)
  <1> DEFINE T == {l \in Nat : ~ \E f : IsAccount(f, table, n, l)}
  <1>1. SUFFICES ASSUME T # {} PROVE FALSE
    OBVIOUS
  <1>2. PICK l \in T : \A y \in T : l <= y
    BY <1>1, LeastOf
  <1>3. l \in Nat
    OBVIOUS
  <1>4. l # 0
    <2> DEFINE f == [k \in 0 .. 0 |-> 0]
    <2>1. f = [k \in 0 .. 0 |-> IF k = 0 THEN 0 ELSE f[k - 1] + Cost(table, n, k)]
      OBVIOUS
    <2>2. IsAccount(f, table, n, 0)
      BY <2>1 DEF IsAccount
    <2> QED
      BY <2>2
  <1>5. PICK f : IsAccount(f, table, n, l - 1)
    <2>1. l - 1 \in Nat /\ l - 1 \notin T
      BY <1>2, <1>3, <1>4
    <2> QED
      BY <2>1
  <1> DEFINE h == [k \in 0 .. l |-> IF k = l THEN f[l - 1] + Cost(table, n, l) ELSE f[k]]
  <1>6. \A k \in 0 .. l - 1 : f[k] = IF k = 0 THEN 0 ELSE f[k - 1] + Cost(table, n, k)
    BY <1>5 DEF IsAccount
  <1>7. \A k \in 0 .. l : h[k] = IF k = 0 THEN 0 ELSE h[k - 1] + Cost(table, n, k)
    BY <1>3, <1>4, <1>6
  <1>8. h = [k \in 0 .. l |-> IF k = 0 THEN 0 ELSE h[k - 1] + Cost(table, n, k)]
    BY <1>7
  <1>9. IsAccount(h, table, n, l)
    BY <1>8 DEF IsAccount
  <1> QED
    BY <1>9

\* Two accounts agree as far as the rows that they count do.
LEMMA AccountsAgree ==
    ASSUME NEW t1, NEW t2, NEW n, NEW m1 \in Nat, NEW m2 \in Nat, NEW f, NEW g,
           IsAccount(f, t1, n, m1), IsAccount(g, t2, n, m2), NEW last \in Nat,
           last <= m1, last <= m2, \A k \in 1 .. last : Cost(t1, n, k) = Cost(t2, n, k)
    PROVE  f[last] = g[last]
  <1> DEFINE T == {k \in 0 .. last : f[k] # g[k]}
  <1>1. SUFFICES ASSUME T # {} PROVE FALSE
    OBVIOUS
  <1>2. PICK k \in T : \A y \in T : k <= y
    <2>1. T \subseteq Nat
      OBVIOUS
    <2> QED
      BY <1>1, <2>1, LeastOf
  <1>3. /\ \A i \in 0 .. m1 : f[i] = IF i = 0 THEN 0 ELSE f[i - 1] + Cost(t1, n, i)
        /\ \A i \in 0 .. m2 : g[i] = IF i = 0 THEN 0 ELSE g[i - 1] + Cost(t2, n, i)
    BY DEF IsAccount
  <1>4. k \in 0 .. last /\ f[k] # g[k]
    OBVIOUS
  <1>5. k # 0
    BY <1>3, <1>4
  <1>6. f[k - 1] = g[k - 1]
    <2>1. k - 1 \in 0 .. last /\ k - 1 \notin T
      BY <1>2, <1>4, <1>5
    <2> QED
      BY <2>1
  <1>7. Cost(t1, n, k) = Cost(t2, n, k)
    BY <1>4, <1>5
  <1> QED
    BY <1>3, <1>4, <1>5, <1>6, <1>7

LEMMA ChargedIs ==
    ASSUME NEW table, NEW n, NEW m \in Nat
    PROVE  \E f : IsAccount(f, table, n, m) /\ Charged(table, n, m) = f[m]
  <1> DEFINE cpu == CHOOSE f : f = [k \in 0 .. m |-> IF k = 0 THEN 0 ELSE f[k - 1] + Cost(table, n, k)]
  <1>1. IsAccount(cpu, table, n, m)
    BY AccountExists DEF IsAccount
  <1>2. Charged(table, n, m) = cpu[m]
    BY DEF Charged
  <1> QED
    BY <1>1, <1>2

LEMMA ChargedSame ==
    ASSUME NEW t1, NEW t2, NEW n, NEW last \in Nat,
           \A k \in 1 .. last : Cost(t1, n, k) = Cost(t2, n, k)
    PROVE  Charged(t1, n, last) = Charged(t2, n, last)
  BY ChargedIs, AccountsAgree

\* Nothing is charged before the first row, and each row adds its own.
LEMMA ChargedSteps ==
    ASSUME NEW table, NEW n
    PROVE  /\ Charged(table, n, 0) = 0
           /\ \A k \in Nat : Charged(table, n, k + 1) = Charged(table, n, k) + Cost(table, n, k + 1)
  <1>1. Charged(table, n, 0) = 0
    <2>1. PICK f : IsAccount(f, table, n, 0) /\ Charged(table, n, 0) = f[0]
      BY ChargedIs
    <2> QED
      BY <2>1 DEF IsAccount
  <1>2. ASSUME NEW k \in Nat
        PROVE  Charged(table, n, k + 1) = Charged(table, n, k) + Cost(table, n, k + 1)
    <2>1. PICK f : IsAccount(f, table, n, k) /\ Charged(table, n, k) = f[k]
      BY ChargedIs
    <2>2. PICK g : IsAccount(g, table, n, k + 1) /\ Charged(table, n, k + 1) = g[k + 1]
      <3>1. k + 1 \in Nat
        OBVIOUS
      <3> QED
        BY <3>1, ChargedIs
    <2>3. f[k] = g[k]
      BY <2>1, <2>2, AccountsAgree
    <2>4. g[k + 1] = g[k] + Cost(table, n, k + 1)
      BY <2>2 DEF IsAccount
    <2> QED
      BY <2>1, <2>2, <2>3, <2>4
  <1> QED
    BY <1>1, <1>2

LEMMA ChargedTyped ==
    ASSUME NEW table, NEW n, \A k \in Nat : Cost(table, n, k) \in Nat, NEW m \in Nat
    PROVE  Charged(table, n, m) \in Nat
  <1> DEFINE T == {k \in Nat : Charged(table, n, k) \notin Nat}
  <1>1. SUFFICES ASSUME T # {} PROVE FALSE
    OBVIOUS
  <1>2. PICK k \in T : \A y \in T : k <= y
    BY <1>1, LeastOf
  <1>3. k # 0
    BY ChargedSteps
  <1>4. k - 1 \in Nat /\ k - 1 \notin T /\ (k - 1) + 1 = k
    BY <1>2, <1>3
  <1>5. Charged(table, n, k) = Charged(table, n, k - 1) + Cost(table, n, k)
    <2>1. \A i \in Nat : Charged(table, n, i + 1) = Charged(table, n, i) + Cost(table, n, i + 1)
      BY ChargedSteps
    <2> DEFINE C(i) == Charged(table, n, i)
               D(i) == Cost(table, n, i)
    <2>2. \A i \in Nat : C(i + 1) = C(i) + D(i + 1)
      BY <2>1
    <2>3. C((k - 1) + 1) = C(k - 1) + D((k - 1) + 1)
      BY <1>4, <2>2
    <2> HIDE DEF C, D
    <2>4. C(k) = C(k - 1) + D(k)
      BY <1>4, <2>3
    <2> QED
      BY <2>4 DEF C, D
  <1>6. Cost(table, n, k) \in Nat
    OBVIOUS
  <1> QED
    BY <1>4, <1>5, <1>6

--------------------------------------------------------------------------------
(* The table of processes.                                                  *)

\* A process starts, and is over: what that does to the table.
Opens(owner, stage) ==
    /\ ~Busy
    /\ rows' = Append(rows, NewRow(owner, stage))

Settled(row) ==
    IF row.status = "complete"
    THEN row.file # None /\ row.sha = row.file /\ row.file.status = "complete"
    ELSE row.file # None => (row.file.status = row.status /\ row.status # "running")

Closes ==
    /\ Busy
    /\ rows' \in Seq(RowType) /\ Len(rows') = Len(rows)
    /\ \A k \in DOMAIN rows : k < Len(rows) => rows'[k] = rows[k]
    /\ LET row == rows'[Len(rows)]
       IN  /\ row.owner = Last.owner /\ row.stage = Last.stage /\ row.seal = Last.seal
           /\ row.status \in Outcomes /\ Settled(row)

\* Rows of processes that are over are not written again.
Later ==
    /\ rows' \in Seq(RowType) /\ Len(rows) <= Len(rows')
    /\ \A k \in DOMAIN rows : rows[k].status # "running" => rows'[k] = rows[k]

LEMMA RowsTyped ==
    ASSUME rows \in Seq(RowType)
    PROVE  /\ Len(rows) \in Nat /\ DOMAIN rows = 1 .. Len(rows)
           /\ \A k \in DOMAIN rows : rows[k] \in RowType
           /\ Busy => Len(rows) \in DOMAIN rows /\ rows[Len(rows)] = Last /\ Last.status = "running"
           /\ Underway \in {0, 1} /\ (Underway = 1) = Busy
  BY DEF Busy, Last, Underway

LEMMA OpensFacts ==
    ASSUME rows \in Seq(RowType), NEW owner \in Owners \cup {0}, NEW stage \in Stages,
           Opens(owner, stage), seal = None \/ seal.ver \in Nat
    PROVE  /\ Later /\ Len(rows') = Len(rows) + 1
           /\ DOMAIN rows' = 1 .. Len(rows) + 1
           /\ \A k \in DOMAIN rows : rows'[k] = rows[k]
           /\ LET row == rows'[Len(rows) + 1]
              IN  /\ row.owner = owner /\ row.stage = stage /\ row.status = "running"
                  /\ row.file = None /\ row.seal = IF Sealed THEN seal.ver ELSE None
           /\ Busy'
  <1>1. NewRow(owner, stage) \in RowType
    BY DEF NewRow, RowType
  <1>2. rows' \in Seq(RowType) /\ Len(rows') = Len(rows) + 1 /\ rows'[Len(rows) + 1] = NewRow(owner, stage)
        /\ \A k \in DOMAIN rows : rows'[k] = rows[k]
    BY <1>1 DEF Opens
  <1>3. /\ NewRow(owner, stage).owner = owner /\ NewRow(owner, stage).stage = stage
        /\ NewRow(owner, stage).status = "running" /\ NewRow(owner, stage).file = None
        /\ NewRow(owner, stage).seal = IF Sealed THEN seal.ver ELSE None
    BY DEF NewRow, Sealed
  <1>4. Len(rows) \in Nat /\ DOMAIN rows' = 1 .. Len(rows) + 1
    BY <1>2, RowsTyped
  <1>5. Busy'
    BY <1>2, <1>3, <1>4 DEF Busy, Last
  <1> QED
    BY <1>2, <1>3, <1>4, <1>5 DEF Later

LEMMA Rewritten ==
    ASSUME NEW r \in RowType, NEW status, NEW file, NEW sha
    PROVE  [r EXCEPT !.status = status, !.file = file, !.sha = sha]
             = [owner |-> r.owner, stage |-> r.stage, status |-> status, seal |-> r.seal,
                file |-> file, sha |-> sha]
  <1> DEFINE p == [r EXCEPT !.status = status]
             q == [p EXCEPT !.file = file]
             w == [q EXCEPT !.sha = sha]
             With(s, f, h) == [owner |-> r.owner, stage |-> r.stage, status |-> s,
                               seal |-> r.seal, file |-> f, sha |-> h]
  <1>1. r = With(r.status, r.file, r.sha)
    BY DEF RowType
  <1>2. p = With(status, r.file, r.sha)
    BY <1>1
  <1>3. [r EXCEPT !.status = status, !.file = file, !.sha = sha] = w
    OBVIOUS
  <1> HIDE DEF p
  <1>4. q = With(status, file, r.sha)
    BY <1>2
  <1> HIDE DEF q
  <1>5. w = With(status, file, sha)
    BY <1>4
  <1> QED
    BY <1>3, <1>5

LEMMA ClosedFacts ==
    ASSUME rows \in Seq(RowType), Busy, NEW status \in Outcomes,
           NEW file \in ReceiptType \cup {None}, NEW sha \in ReceiptType \cup {None},
           rows' = Closed(status, file, sha),
           IF status = "complete" THEN file # None /\ sha = file /\ file.status = "complete"
           ELSE file # None => file.status = status
    PROVE  Closes /\ rows'[Len(rows)].file = file /\ rows'[Len(rows)].status = status
  <1> DEFINE n == Len(rows)
             row == [rows[n] EXCEPT !.status = status, !.file = file, !.sha = sha]
  <1>1. n \in DOMAIN rows /\ rows[n] \in RowType /\ rows[n] = Last
    BY RowsTyped
  <1>2. row \in RowType /\ row.status = status /\ row.file = file /\ row.sha = sha
        /\ row.owner = Last.owner /\ row.stage = Last.stage /\ row.seal = Last.seal
    <2>1. row = [owner |-> rows[n].owner, stage |-> rows[n].stage, status |-> status,
                 seal |-> rows[n].seal, file |-> file, sha |-> sha]
      <3>1. rows[n] \in RowType
        BY <1>1
      <3> QED
        BY ONLY <3>1, Rewritten, Zenon
    <2> HIDE DEF row
    <2>2. row \in RowType
      BY <2>1, <1>1 DEF RowType
    <2> QED
      BY <2>1, <2>2, <1>1
  <1>3. rows' = [rows EXCEPT ![n] = row]
    BY DEF Closed
  <1> HIDE DEF row
  <1>4. rows' \in Seq(RowType) /\ Len(rows') = n /\ rows'[n] = row
        /\ \A k \in DOMAIN rows : k < n => rows'[k] = rows[k]
    BY <1>1, <1>2, <1>3
  <1> QED
    BY <1>2, <1>4, NotNothing DEF Closes, Settled, Outcomes

LEMMA ClosesFacts ==
    ASSUME rows \in Seq(RowType), Closes
    PROVE  /\ Later /\ ~Busy' /\ DOMAIN rows' = DOMAIN rows /\ DOMAIN rows = 1 .. Len(rows)
           /\ Len(rows) \in Nat \ {0} /\ Len(rows') = Len(rows)
           /\ \A k \in DOMAIN rows : k # Len(rows) => rows'[k] = rows[k]
           /\ LET row == rows'[Len(rows)]
              IN  /\ row.owner = Last.owner /\ row.stage = Last.stage /\ row.seal = Last.seal
                  /\ row.status \in Outcomes /\ Settled(row) /\ row.status # "running"
           /\ Last = rows[Len(rows)] /\ Last.status = "running"
  <1>1. Len(rows) \in Nat \ {0} /\ DOMAIN rows = 1 .. Len(rows) /\ Last = rows[Len(rows)]
        /\ Last.status = "running" /\ Len(rows') = Len(rows)
    BY RowsTyped DEF Closes
  <1>2. DOMAIN rows' = DOMAIN rows
    BY <1>1 DEF Closes
  <1>3. rows'[Len(rows)].status # "running"
    BY DEF Closes, Outcomes
  <1>4. ~Busy'
    BY <1>1, <1>3 DEF Busy, Last
  <1>5. \A k \in DOMAIN rows : k # Len(rows) => rows'[k] = rows[k]
    BY <1>1 DEF Closes
  <1>6. Later
    BY <1>1, <1>5 DEF Later, Closes
  <1> QED
    BY <1>1, <1>2, <1>3, <1>4, <1>5, <1>6 DEF Closes

LEMMA BreaksFacts ==
    ASSUME rows \in Seq(RowType), NEW costs, costs \subseteq Nat, Breaks(costs)
    PROVE  Closes /\ rows'[Len(rows)].status \in {"failed", "skipped"}
  <1> DEFINE Over(status, file, sha) ==
               /\ status \in {"failed", "skipped"}
               /\ file \in ReceiptType \cup {None} /\ sha \in ReceiptType \cup {None}
               /\ file # None => file.status = status
               /\ rows' = Closed(status, file, sha)
  <1>1. \A c \in Nat, s \in Outcomes : Receipt(s, c) \in ReceiptType /\ Receipt(s, c).status = s
    BY DEF Receipt, ReceiptType, Outcomes
  <1>2. \E status, file, sha : Over(status, file, sha)
    <2>1. CASE ctl.over
      <3>1. Over("failed", None, None)
        BY <2>1 DEF Breaks
      <3> QED
        BY <3>1
    <2>2. CASE ~ctl.over /\ ctl.late
      <3>1. Over("skipped", Receipt("skipped", 0), Receipt("skipped", 0))
        BY <2>2, <1>1 DEF Breaks, Bound, Outcomes
      <3> QED
        BY <3>1
    <2>3. CASE ~ctl.over /\ ~ctl.late
      <3>1. CASE \E c \in costs : rows' = Bound("failed", c)
        <4>1. PICK c \in costs : rows' = Bound("failed", c)
          BY <3>1
        <4>2. Over("failed", Receipt("failed", c), Receipt("failed", c))
          BY <4>1, <1>1 DEF Bound, Outcomes
        <4> QED
          BY <4>2
      <3>2. CASE rows' = Closed("failed", Receipt("failed", 0), None)
        <4>1. Over("failed", Receipt("failed", 0), None)
          BY <3>2, <1>1 DEF Outcomes
        <4> QED
          BY <4>1
      <3> QED
        BY <2>3, <3>1, <3>2 DEF Breaks
    <2> QED
      BY <2>1, <2>2, <2>3
  <1>3. PICK status, file, sha : Over(status, file, sha)
    BY <1>2
  <1>4. status \in Outcomes /\ status # "complete" /\ Busy
    BY <1>3 DEF Outcomes, Breaks
  <1> QED
    BY <1>3, <1>4, ClosedFacts

LEMMA CompletesFacts ==
    ASSUME rows \in Seq(RowType), NEW c \in Nat, Busy, rows' = Bound("complete", c)
    PROVE  Closes /\ rows'[Len(rows)].status = "complete" /\ rows'[Len(rows)].file.cost = c
  <1>1. Receipt("complete", c) \in ReceiptType /\ Receipt("complete", c).status = "complete"
        /\ Receipt("complete", c).cost = c
    BY DEF Receipt, ReceiptType
  <1>2. "complete" \in Outcomes
    BY DEF Outcomes
  <1> QED
    BY <1>1, <1>2, NotNothing, ClosedFacts DEF Bound

\* A process that has no receipt cost nothing.
LEMMA CostTyped ==
    ASSUME NEW table \in Seq(RowType), NEW n, NEW k
    PROVE  Cost(table, n, k) \in Nat
  <1>1. ASSUME NEW i \in DOMAIN table PROVE FileCost(table[i]) \in Nat
    <2>1. table[i] \in RowType
      OBVIOUS
    <2> QED
      BY <2>1 DEF FileCost, RowType, ReceiptType
  <1> QED
    BY <1>1 DEF Cost, TrainingRows

\* What was charged up to a process that is over does not change any more.
LEMMA KeptCharge ==
    ASSUME rows \in Seq(RowType), RowsInv, Later, NEW n, NEW k \in DOMAIN rows,
           rows[k].status # "running"
    PROVE  /\ k \in DOMAIN rows' /\ rows'[k] = rows[k]
           /\ Charged(rows', n, k) = Charged(rows, n, k)
  <1>1. Len(rows) \in Nat /\ DOMAIN rows = 1 .. Len(rows) /\ k \in Nat
    BY RowsTyped
  <1>2. DOMAIN rows' = 1 .. Len(rows')
    BY DEF Later
  <1>3. ASSUME NEW i \in 1 .. k
        PROVE  Cost(rows, n, i) = Cost(rows', n, i)
    <2>1. i \in DOMAIN rows /\ i \in DOMAIN rows'
      BY <1>1, <1>2 DEF Later
    <2>2. rows[i].status # "running"
      BY <1>1, <2>1 DEF RowsInv
    <2>3. rows'[i] = rows[i]
      BY <2>1, <2>2 DEF Later
    <2> QED
      BY <2>1, <2>3 DEF Cost, TrainingRows
  <1>4. Charged(rows, n, k) = Charged(rows', n, k)
    BY <1>1, <1>3, ChargedSame
  <1> QED
    BY <1>1, <1>2, <1>4 DEF Later

--------------------------------------------------------------------------------
(* The controller and its turns.                                            *)

\* The controller after a step: its fields, one by one
Placed(c, d, pc, i, j) ==
    /\ d \in CtlType /\ d.pc = pc /\ d.i = i /\ d.j = j
    /\ d.over = c.over /\ d.late = c.late /\ d.erred = c.erred

LEMMA AtFacts ==
    ASSUME ctl \in CtlType, NEW pc \in Pcs, NEW i \in Nat, NEW j \in Nat
    PROVE  Placed(ctl, At(pc, i, j), pc, i, j)
  <1> DEFINE With(p, k, l) == [pc |-> p, i |-> k, j |-> l, over |-> ctl.over, late |-> ctl.late,
                               erred |-> ctl.erred]
             a == [ctl EXCEPT !.pc = pc]
             b == [a EXCEPT !.i = i]
             d == [b EXCEPT !.j = j]
  <1>1. ctl = With(ctl.pc, ctl.i, ctl.j) /\ ctl.over \in BOOLEAN /\ ctl.late \in BOOLEAN
        /\ ctl.erred \in BOOLEAN
    BY DEF CtlType
  <1>2. a = With(pc, ctl.i, ctl.j)
    BY <1>1
  <1>3. At(pc, i, j) = d
    BY DEF At
  <1> HIDE DEF a
  <1>4. b = With(pc, i, ctl.j)
    BY <1>2
  <1> HIDE DEF b
  <1>5. d = With(pc, i, j)
    BY <1>4
  <1> HIDE DEF d
  <1>6. d \in CtlType
    BY <1>1, <1>5 DEF CtlType
  <1> QED
    BY <1>3, <1>5, <1>6 DEF Placed

LEMMA FieldFacts ==
    ASSUME NEW c \in CtlType
    PROVE  /\ Erred(c) \in CtlType /\ Erred(c).erred = TRUE
           /\ \A f \in {"pc", "i", "j", "over", "late"} : Erred(c)[f] = c[f]
           /\ \A over \in BOOLEAN : /\ Overs(c, over) \in CtlType
                                    /\ \A f \in {"pc", "i", "j", "late", "erred"} : Overs(c, over)[f] = c[f]
           /\ \A j \in Nat : LET d == [c EXCEPT !.j = j]
                             IN  /\ d \in CtlType /\ d.j = j
                                 /\ \A f \in {"pc", "i", "over", "late", "erred"} : d[f] = c[f]
           /\ LET d == [c EXCEPT !.pc = "raise"]
              IN  d \in CtlType /\ d.pc = "raise" /\ d.over = c.over
           /\ LET d == [c EXCEPT !.late = TRUE]
              IN  /\ d \in CtlType
                  /\ \A f \in {"pc", "i", "j", "over", "erred"} : d[f] = c[f]
  BY DEF CtlType, Erred, Overs, Pcs

LEMMA RaisedFacts ==
    ASSUME ctl \in CtlType
    PROVE  Raised \in CtlType /\ Raised.pc = "raise" /\ Raised.erred = TRUE
  <1>1. [ctl EXCEPT !.pc = "raise"] \in CtlType /\ [ctl EXCEPT !.pc = "raise"].pc = "raise"
    BY FieldFacts
  <1> QED
    BY <1>1, FieldFacts DEF Raised

\* The turn that comes next is one of an arm that is still in training.
LEMMA LearnerFacts ==
    ASSUME train \in Seq(StateType), ctl \in CtlType, ctl.i \in 1 .. Seeds,
           ctl.j \in 1 .. Turns + 1, Len(train) = ctl.i * A
    PROVE  /\ NextTurn(train, ctl.j) \in 1 .. Turns + 1
           /\ DOMAIN train = 1 .. ctl.i * A /\ OfSeed(ctl.i) \subseteq DOMAIN train
           /\ NextTurn(train, ctl.j) <= Turns =>
                 /\ Learner \in OfSeed(ctl.i) /\ Learner \in DOMAIN train /\ Learner \in Owners
                 /\ train[Learner].status = "training"
  <1> DEFINE open == {u \in ctl.j .. Turns : train[Turn(u)].status = "training"}
  <1>1. Turns \in Nat /\ A \in Nat \ {0}
    BY Sizes
  <1>4. DOMAIN train = 1 .. ctl.i * A /\ OfSeed(ctl.i) \subseteq 1 .. ctl.i * A /\ OfSeed(ctl.i) \subseteq Owners
    <2>1. /\ ctl.i * A \in Nat /\ (ctl.i - 1) * A \in Nat
          /\ OfSeed(ctl.i) = (ctl.i - 1) * A + 1 .. ctl.i * A /\ OfSeed(ctl.i) \subseteq Owners
      BY SeedSizes
    <2>2. (ctl.i - 1) * A + 1 .. ctl.i * A \subseteq 1 .. ctl.i * A
      BY <2>1
    <2>3. DOMAIN train = 1 .. ctl.i * A
      BY <2>1
    <2> QED
      BY <2>1, <2>2, <2>3
  <1>2. CASE open = {}
    <2>1. NextTurn(train, ctl.j) = Turns + 1
      BY <1>2 DEF NextTurn
    <2>2. NextTurn(train, ctl.j) \in 1 .. Turns + 1 /\ ~(NextTurn(train, ctl.j) <= Turns)
      BY <1>1, <2>1
    <2> QED
      BY <1>4, <2>2
  <1>3. CASE open # {}
    <2>1. open \subseteq Nat
      BY <1>1
    <2>2. \E x \in open : \A y \in open : x <= y
      BY <1>3, <2>1, LeastOf
    <2>3. Min(open) \in open
      BY <2>2 DEF Min
    <2>4. NextTurn(train, ctl.j) = Min(open)
      BY <1>3 DEF NextTurn
    <2>5. PICK u \in ctl.j .. Turns : u = NextTurn(train, ctl.j) /\ train[Turn(u)].status = "training"
      BY <2>3, <2>4
    <2>6. (u - 1) % A \in 0 .. A - 1
      <3>1. \A x \in Nat : \A y \in Nat \ {0} : x % y \in 0 .. y - 1
        OBVIOUS
      <3>2. u - 1 \in Nat
        BY <1>1, <2>5
      <3> QED
        BY <1>1, <3>1, <3>2
    <2>7. Turn(u) \in OfSeed(ctl.i)
      BY <1>1, <2>6, SeedSizes DEF Turn
    <2>8. Learner = Turn(u)
      BY <2>5 DEF Learner
    <2>9. u \in 1 .. Turns + 1
      BY <1>1, <2>5
    <2> QED
      BY <1>4, <2>5, <2>7, <2>8, <2>9
  <1> QED
    BY <1>2, <1>3

\* Who begins is in training, but for the frozen arm, and has the frozen model only.
LEMMA NewStateFacts ==
    ASSUME NEW n
    PROVE  /\ NewState(n) \in StateType /\ NewState(n).cands = <<Initial>>
           /\ NewState(n).attempts = 0 /\ NewState(n).log = "absent"
           /\ NewState(n).status # "failed"
           /\ Initial \in Candidates /\ Initial.attempts = 0 /\ Initial.cost = 0 /\ Initial.row = 0
  <1>1. Initial \in Candidates /\ Initial.attempts = 0 /\ Initial.cost = 0 /\ Initial.row = 0
    BY Sizes DEF Initial, Candidates
  <1>2. <<Initial>> \in Seq(Candidates)
    BY <1>1
  <1>3. 0 \in 0 .. Attempts
    BY Sizes
  <1> QED
    BY <1>1, <1>2, <1>3 DEF NewState, StateType, StateStatuses

LEMMA OpensSeedFacts ==
    ASSUME NEW states, NEW s \in 1 .. Seeds, NEW m \in 0 .. s * A, DOMAIN states = 1 .. m,
           \A n \in 1 .. m : states[n] \in StateType
    PROVE  LET open == OpensSeed(states, s)
           IN  /\ open \in Seq(StateType) /\ Len(open) = s * A /\ DOMAIN open = 1 .. s * A
               /\ \A n \in 1 .. m : open[n] = states[n]
               /\ \A n \in 1 .. s * A : n > m => open[n] = NewState(n)
  <1> DEFINE open == OpensSeed(states, s)
  <1>1. s * A \in Nat
    BY SeedSizes
  <1>2. open = [n \in 1 .. s * A |-> IF n \in 1 .. m THEN states[n] ELSE NewState(n)]
    BY DEF OpensSeed
  <1>3. \A n \in 1 .. s * A : (IF n \in 1 .. m THEN states[n] ELSE NewState(n)) \in StateType
    BY NewStateFacts
  <1>4. open \in Seq(StateType) /\ Len(open) = s * A
    BY <1>1, <1>2, <1>3
  <1> QED
    BY <1>1, <1>2, <1>4

LEMMA StateTyped ==
    ASSUME train \in Seq(StateType), NEW n \in DOMAIN train
    PROVE  /\ train[n] \in StateType /\ train[n].cands \in Seq(Candidates)
           /\ DOMAIN train[n].cands = 1 .. Len(train[n].cands) /\ Len(train[n].cands) \in Nat
           /\ \A c \in DOMAIN train[n].cands : train[n].cands[c] \in Candidates
           /\ \A c \in DOMAIN train[n].cands : train[n].cands[c].attempts \in 0 .. Attempts
  <1>1. train[n] \in StateType
    OBVIOUS
  <1>2. train[n].cands \in Seq(Candidates)
    BY <1>1 DEF StateType
  <1>3. \A c \in DOMAIN train[n].cands : train[n].cands[c] \in Candidates
    BY <1>2
  <1> QED
    BY <1>1, <1>2, <1>3 DEF Candidates

--------------------------------------------------------------------------------
(* Where the controller may be, whatever has been altered.                  *)

\* Steps that move the controller from one place to another, before the end
Moves(from, to) ==
    /\ ctl.pc \in from /\ ctl' \in CtlType /\ ctl'.pc \in to /\ UNCHANGED verdict

BeforeSeal == {"prepare", "validate", "compile", "train"}

LEMMA TurnTyped ==
    ASSUME NEW t \in Nat
    PROVE  NextTurn(train, t) \in Nat
  <1> DEFINE open == {u \in t .. Turns : train[Turn(u)].status = "training"}
  <1>1. Turns \in Nat /\ open \subseteq Nat
    BY Sizes
  <1>2. CASE open = {}
    BY <1>1, <1>2 DEF NextTurn
  <1>3. CASE open # {}
    <2>1. \E x \in open : \A y \in open : x <= y
      BY <1>1, <1>3, LeastOf
    <2>2. Min(open) \in open
      BY <2>1 DEF Min
    <2> QED
      BY <1>1, <1>3, <2>2 DEF NextTurn
  <1> QED
    BY <1>2, <1>3

LEMMA TrainDoneFacts ==
    ASSUME ctl \in CtlType, NEW state, NEW over \in BOOLEAN, TrainDone(state, over)
    PROVE  /\ ctl' \in CtlType /\ ctl'.pc = ctl.pc /\ ctl'.i = ctl.i /\ ctl'.erred = ctl.erred
           /\ ctl'.j = NextTurn(train, ctl.j) + 1
  <1>1. ctl.j \in Nat
    BY DEF CtlType
  <1>2. NextTurn(train, ctl.j) + 1 \in Nat
    BY <1>1, TurnTyped
  <1> DEFINE d == [ctl EXCEPT !.j = NextTurn(train, ctl.j) + 1]
  <1>3. d \in CtlType /\ d.j = NextTurn(train, ctl.j) + 1 /\ d.pc = ctl.pc /\ d.i = ctl.i
        /\ d.erred = ctl.erred
    BY <1>2, FieldFacts
  <1>4. ctl' = Overs(d, over)
    BY DEF TrainDone
  <1> HIDE DEF d
  <1>5. \A f \in {"pc", "i", "j", "late", "erred"} : Overs(d, over)[f] = d[f]
    BY <1>3, FieldFacts
  <1>6. Overs(d, over) \in CtlType
    BY <1>3, FieldFacts
  <1> QED
    BY <1>3, <1>4, <1>5, <1>6

\* Every turn of the training is one of four.
LEMMA TrainSteps ==
    ASSUME TrainBreaks \/ CheckpointRefused \/ SamplesRefused \/ TrainEnds, ctl \in CtlType
    PROVE  /\ ctl.pc = "train" /\ Busy
           /\ \E over \in BOOLEAN : \E state : TrainDone(state, over)
  <1>1. CASE TrainBreaks
    <2>1. ctl.over \in BOOLEAN
      BY DEF CtlType
    <2>2. TrainDone(FailedState(train[Learner]), ctl.over)
      BY <1>1 DEF TrainBreaks
    <2> QED
      BY <1>1, <2>1, <2>2 DEF TrainBreaks, Breaks
  <1>2. CASE CheckpointRefused
    <2>1. TrainDone(FailedState(train[Learner]), FALSE)
      BY <1>2 DEF CheckpointRefused
    <2> QED
      BY <1>2, <2>1 DEF CheckpointRefused
  <1>3. CASE SamplesRefused
    <2>1. \E state : TrainDone(state, FALSE)
      BY <1>3 DEF SamplesRefused
    <2> QED
      BY <1>3, <2>1 DEF SamplesRefused
  <1>4. CASE TrainEnds
    <2>1. \E over \in BOOLEAN : \E state : TrainDone(state, over)
      BY <1>4 DEF TrainEnds
    <2> QED
      BY <1>4, <2>1 DEF TrainEnds, Completes
  <1> QED
    BY <1>1, <1>2, <1>3, <1>4

LEMMA NextOwnerFacts ==
    ASSUME ctl \in CtlType, ctl.i \in Owners
    PROVE  LET d == NextOwner
           IN  /\ d \in CtlType
               /\ \/ /\ ctl.i < Seeds * A /\ d.pc = "evaluate" /\ d.i = ctl.i + 1 /\ d.j = 1
                     /\ d.i \in Owners
                  \/ ctl.i = Seeds * A /\ d.pc = "gold"
               /\ d.erred = ctl.erred /\ d.over = ctl.over
  <1>1. ctl.i \in Nat /\ ctl.i <= Seeds * A /\ Seeds * A \in Nat /\ Owners = 1 .. Seeds * A
    BY Sizes
  <1>2. ctl.i + 1 \in Nat /\ 1 \in Nat /\ "evaluate" \in Pcs /\ "gold" \in Pcs
    BY <1>1 DEF Pcs
  <1>3. Placed(ctl, At("evaluate", ctl.i + 1, 1), "evaluate", ctl.i + 1, 1)
        /\ Placed(ctl, At("gold", 1, 1), "gold", 1, 1)
    BY <1>2, AtFacts
  <1>4. CASE ctl.i < Seeds * A
    <2>1. ctl.i + 1 \in Owners
      BY <1>1, <1>4
    <2> QED
      BY <1>3, <1>4, <2>1 DEF NextOwner, Placed
  <1>5. CASE ctl.i = Seeds * A
    BY <1>1, <1>3, <1>5 DEF NextOwner, Placed
  <1> QED
    BY <1>1, <1>4, <1>5

\* The two ways an evaluated process moves the controller
LEMMA EvaluateMoves ==
    ASSUME ctl \in CtlType, ctl.i \in Owners, ctl.j \in 1 .. Len(Family),
           EvaluateBreaks \/ EvaluateEnds
    PROVE  /\ ctl' \in CtlType /\ ctl'.pc \in {"evaluate", "gold"}
           /\ ctl'.pc = "evaluate" => ctl'.i \in Owners /\ ctl'.j \in 1 .. Len(Family)
  <1> DEFINE d == NextOwner
  <1>1. d \in CtlType /\ d.pc \in {"evaluate", "gold"}
        /\ (d.pc = "evaluate" => d.i \in Owners /\ d.j = 1)
    BY NextOwnerFacts
  <1>2. Len(Family) = 5
    BY FamilyFacts
  <1>3. CASE EvaluateBreaks
    <2>1. ctl' = Erred(d)
      BY <1>3 DEF EvaluateBreaks
    <2> HIDE DEF d
    <2>2. Erred(d) \in CtlType /\ \A f \in {"pc", "i", "j", "over", "late"} : Erred(d)[f] = d[f]
      BY <1>1, FieldFacts
    <2> QED
      BY <1>1, <1>2, <2>1, <2>2
  <1>4. CASE EvaluateEnds
    <2>1. PICK over \in BOOLEAN :
             IF ctl.j < Len(Family) THEN ctl' = Overs([ctl EXCEPT !.j = @ + 1], over)
             ELSE IF SealUnchanged THEN ctl' = Overs(d, over) ELSE ctl' = Erred(Overs(d, over))
      BY <1>4 DEF EvaluateEnds
    <2>2. ctl.pc = "evaluate" /\ ctl.j \in Nat
      BY <1>4, <1>2 DEF EvaluateEnds
    <2>3. CASE ctl.j < Len(Family)
      <3> DEFINE e == [ctl EXCEPT !.j = ctl.j + 1]
      <3>1. ctl' = Overs(e, over)
        BY <2>1, <2>3
      <3>2. e \in CtlType /\ e.j = ctl.j + 1 /\ e.pc = ctl.pc /\ e.i = ctl.i
        <4>1. ctl.j + 1 \in Nat
          BY <2>2
        <4> QED
          BY <4>1, FieldFacts
      <3> HIDE DEF e
      <3>3. Overs(e, over) \in CtlType /\ \A f \in {"pc", "i", "j", "late", "erred"} : Overs(e, over)[f] = e[f]
        BY <3>2, FieldFacts
      <3> QED
        BY <1>2, <2>2, <2>3, <3>1, <3>2, <3>3
    <2>4. CASE ~(ctl.j < Len(Family))
      <3> HIDE DEF d
      <3> DEFINE e == Overs(d, over)
      <3>1. e \in CtlType /\ \A f \in {"pc", "i", "j", "late", "erred"} : e[f] = d[f]
        BY <1>1, FieldFacts
      <3> HIDE DEF e
      <3>2. Erred(e) \in CtlType /\ \A f \in {"pc", "i", "j", "over", "late"} : Erred(e)[f] = e[f]
        BY <3>1, FieldFacts
      <3>3. ctl' = e \/ ctl' = Erred(e)
        BY <2>1, <2>4 DEF e
      <3> QED
        BY <1>1, <1>2, <3>1, <3>2, <3>3
    <2> QED
      BY <2>3, <2>4
  <1> QED
    BY <1>3, <1>4

LEMMA MovesKeepPlace ==
    ASSUME PlaceInv, NEW from, NEW to, Moves(from, to), "done" \notin from, "dead" \notin from,
           \/ ~Sealed' \/ to \subseteq AfterSeal \cup {"done", "dead"},
           ctl'.pc = "evaluate" => ctl'.i \in Owners /\ ctl'.j \in 1 .. Len(Family)
    PROVE  PlaceInv'
  BY DEF PlaceInv, Moves, Ended, Sealed

LEMMA PlaceStep == PlaceInv /\ [StudyNext]_studyVars => PlaceInv'
  <1> SUFFICES ASSUME PlaceInv, [StudyNext]_studyVars PROVE PlaceInv'
    OBVIOUS
  <1>0. ctl \in CtlType /\ ctl.i \in Nat /\ ctl.j \in Nat /\ ctl.pc \in Pcs
    BY DEF PlaceInv, CtlType
  <1> USE DEF Pcs
  <1>n. 1 \in Nat /\ \A p \in Pcs : Placed(ctl, At(p, 1, 1), p, 1, 1)
    BY <1>0, AtFacts
  <1>r. Raised \in CtlType /\ Raised.pc = "raise"
    BY <1>0, RaisedFacts
  <1>u. ctl.pc \in BeforeSeal \cup {"seal", "raise"} => ~Sealed
    BY DEF PlaceInv, BeforeSeal, AfterSeal
  <1>1. CASE Prepares
    <2>1. Moves({"prepare"}, {"validate"}) /\ UNCHANGED seal
      BY <1>1, <1>n DEF Prepares, Moves, Placed, trial
    <2> QED
      BY <1>u, <2>1, MovesKeepPlace DEF Sealed, BeforeSeal, Moves
  <1>2. CASE Validates
    <2>1. Moves({"validate"}, {"compile", "raise"}) /\ UNCHANGED seal
      BY <1>2, <1>n, <1>r DEF Validates, Moves, Placed, trial
    <2> QED
      BY <1>u, <2>1, MovesKeepPlace DEF Sealed, BeforeSeal, Moves
  <1>3. ASSUME NEW owner, NEW stage, Starts(owner, stage)
        PROVE  PlaceInv'
    BY <1>3 DEF Starts, trial, PlaceInv, Ended, Sealed
  <1>4. CASE CompileEnds
    <2>1. Placed(ctl, At("compile", ctl.i + 1, 1), "compile", ctl.i + 1, 1)
      BY <1>0, AtFacts
    <2>2. Moves({"compile"}, {"compile", "train", "raise"}) /\ UNCHANGED seal
      BY <1>4, <1>n, <1>r, <2>1 DEF CompileEnds, Moves, Placed
    <2> QED
      BY <1>u, <2>2, MovesKeepPlace DEF Sealed, BeforeSeal, Moves
  <1>5. CASE TrainBreaks \/ CheckpointRefused \/ SamplesRefused \/ TrainEnds
    <2>1. PICK over \in BOOLEAN : \E state : TrainDone(state, over)
      BY <1>0, <1>5, TrainSteps
    <2>2. Moves({"train"}, {"train"}) /\ UNCHANGED seal
      <3>1. PICK state : TrainDone(state, over)
        BY <2>1
      <3> QED
        BY <1>0, <1>5, <3>1, TrainSteps, TrainDoneFacts DEF Moves, TrainDone
    <2> QED
      BY <1>u, <2>2, MovesKeepPlace DEF Sealed, BeforeSeal, Moves
  <1>6. CASE SeedCloses
    <2>1. Placed(ctl, At("train", ctl.i + 1, 1), "train", ctl.i + 1, 1)
      BY <1>0, AtFacts
    <2>2. Moves({"train"}, {"train", "seal", "raise"}) /\ UNCHANGED seal
      BY <1>6, <1>n, <1>r, <2>1 DEF SeedCloses, Moves, Placed
    <2> QED
      BY <1>u, <2>2, MovesKeepPlace DEF Sealed, BeforeSeal, Moves
  <1>7. CASE Seals
    <2>1. Moves({"seal"}, {"evaluate"}) /\ ctl'.i = 1 /\ ctl'.j = 1
      BY <1>7, <1>n DEF Seals, Moves, Placed
    <2>2. 1 \in Owners /\ 1 \in 1 .. Len(Family)
      BY Sizes, FamilyFacts
    <2> QED
      BY <2>1, <2>2, MovesKeepPlace DEF AfterSeal, Moves
  <1>8. CASE EvaluateBreaks \/ EvaluateEnds
    <2>1. ctl.pc = "evaluate" /\ UNCHANGED verdict
      BY <1>8 DEF EvaluateBreaks, EvaluateEnds
    <2>2. Moves({"evaluate"}, {"evaluate", "gold"})
          /\ (ctl'.pc = "evaluate" => ctl'.i \in Owners /\ ctl'.j \in 1 .. Len(Family))
      BY <1>0, <1>8, <2>1, EvaluateMoves DEF Moves, PlaceInv
    <2> QED
      BY <2>2, MovesKeepPlace DEF AfterSeal
  <1>9. CASE GoldEnds
    <2>1. Placed(ctl, At("result", 1, 1), "result", 1, 1)
      BY <1>n
    <2>2. At("result", 1, 1) \in CtlType
      BY <2>1 DEF Placed
    <2>3. Erred(At("result", 1, 1)) \in CtlType /\ Erred(At("result", 1, 1)).pc = "result"
      BY <2>1, <2>2, FieldFacts DEF Placed
    <2>4. Moves({"gold"}, {"result"})
      BY <1>9, <2>1, <2>3 DEF GoldEnds, Moves, Placed
    <2> QED
      BY <2>4, MovesKeepPlace DEF AfterSeal, Moves
  <1>10. CASE Saves
    <2>1. CASE ctl.pc = "raise"
      <3>1. Moves({"raise"}, {"done"}) /\ UNCHANGED seal
        BY <1>10, <1>n, <2>1 DEF Saves, Moves, Placed
      <3> QED
        BY <3>1, MovesKeepPlace DEF AfterSeal, Moves
    <2>2. CASE ctl.pc = "result"
      <3>1. Moves({"result"}, {"check"})
        BY <1>10, <1>n, <2>2 DEF Saves, Moves, Placed
      <3> QED
        BY <3>1, MovesKeepPlace DEF AfterSeal, Moves
    <2> QED
      BY <1>10, <2>1, <2>2 DEF Saves
  <1>11. CASE Checks
    <2>1. CASE ctl.pc = "check"
      BY <1>11, <1>n, <2>1 DEF Checks, Placed, PlaceInv, Ended, trial
    <2>2. CASE ctl.pc # "check"
      BY <1>11, <2>2 DEF Checks, PlaceInv, Ended, Sealed, trial
    <2> QED
      BY <2>1, <2>2
  <1>12. CASE Lates
    <2> DEFINE d == [ctl EXCEPT !.late = TRUE]
    <2>1. d \in CtlType /\ d.pc = ctl.pc /\ d.i = ctl.i /\ d.j = ctl.j
      BY <1>0, FieldFacts
    <2>2. ctl' = d /\ UNCHANGED <<seal, verdict>>
      BY <1>12 DEF Lates, trial
    <2> HIDE DEF d
    <2> QED
      BY <2>1, <2>2 DEF PlaceInv, Ended, Sealed
  <1>13. CASE Dies
    BY <1>13, <1>n DEF Dies, Placed, PlaceInv, Ended, Sealed, trial
  <1>14. CASE Altering
    <2>1. UNCHANGED <<ctl, verdict>> /\ (Sealed' => Sealed)
      BY <1>14 DEF Altering, AltersInputs, AltersSeal, AltersStage, AltersStatus, AltersCost,
           AltersChoice, AltersCases, AltersRoster, AltersResult, Alters, Finished, Sealed
    <2> QED
      BY <2>1 DEF PlaceInv, Ended
  <1>15. CASE Refitting
    BY <1>15 DEF Refitting, RefitsCases, RefitsCost, Refits, PlaceInv, Ended, Sealed
  <1>16. CASE UNCHANGED studyVars
    BY <1>16 DEF studyVars, PlaceInv, Ended, Sealed
  <1> QED
    BY <1>1, <1>2, <1>3, <1>4, <1>5, <1>6, <1>7, <1>8, <1>9, <1>10, <1>11, <1>12, <1>13, <1>14, <1>15, <1>16
    DEF StudyNext, Setting, Training, Evaluating, CompileStarts, TrainStarts, EvaluateStarts, GoldStarts

--------------------------------------------------------------------------------
(* A study nobody damaged: what many of its steps have in common.            *)

\* Before the seal there is nothing that is evaluated, decided or checked.
LEMMA EarlyRest ==
    ASSUME PlaceInv, Honest, ~Sealed, UNCHANGED <<seal, result, verdict>>,
           ctl.pc \in BeforeSeal \cup {"seal"},
           ctl'.pc \in BeforeSeal \cup {"seal", "raise"}
    PROVE  /\ ~Sealed' /\ SealInv' /\ EvaluationInv' /\ ResultInv' /\ VerdictInv'
           /\ seal' = None /\ result' = None
  <1>1. ~Sealed' /\ seal' = None
    BY DEF Sealed
  <1>2. result' = None
    BY DEF Honest, ResultInv, BeforeSeal
  <1>3. verdict' = None
    BY DEF PlaceInv, BeforeSeal, Ended
  <1> QED
    BY <1>1, <1>2, <1>3 DEF SealInv, EvaluationInv, ResultInv, VerdictInv, BeforeSeal

LEMMA OpenRows ==
    ASSUME ShapeInv, RowsInv, NEW owner \in Owners \cup {0}, NEW stage \in Stages,
           Opens(owner, stage), ctl' = ctl, ctl.pc \in {"compile", "train", "evaluate", "gold"}
    PROVE  RowsInv'
  <1>1. /\ rows \in Seq(RowType) /\ (seal = None \/ seal.ver \in Nat)
    BY DEF ShapeInv, Sealed
  <1>2. /\ Len(rows') = Len(rows) + 1 /\ DOMAIN rows' = 1 .. Len(rows) + 1
        /\ rows'[Len(rows) + 1].status = "running" /\ rows'[Len(rows) + 1].file = None
        /\ \A k \in DOMAIN rows : rows'[k] = rows[k]
    BY <1>1, OpensFacts
  <1>3. Len(rows) \in Nat /\ DOMAIN rows = 1 .. Len(rows)
    BY <1>1, RowsTyped
  <1>4. \A k \in DOMAIN rows : rows[k].status # "running"
    BY <1>3 DEF RowsInv, Opens, Busy, Last
  <1>5. \A k \in DOMAIN rows' : k \in DOMAIN rows \/ k = Len(rows')
    BY <1>2, <1>3
  <1>6. \A k \in DOMAIN rows' : k < Len(rows') => rows'[k].status # "running"
    BY <1>2, <1>4, <1>5
  <1>7. \A k \in DOMAIN rows' : Settled(rows'[k])
    BY <1>2, <1>3, <1>5 DEF RowsInv, Settled
  <1> QED
    BY <1>6, <1>7 DEF RowsInv, Settled

LEMMA CloseRows ==
    ASSUME ShapeInv, RowsInv, Closes
    PROVE  RowsInv' /\ ~Busy'
  <1>1. /\ Len(rows') = Len(rows) /\ DOMAIN rows' = DOMAIN rows /\ DOMAIN rows = 1 .. Len(rows)
        /\ Len(rows) \in Nat \ {0} /\ ~Busy'
        /\ \A k \in DOMAIN rows : k # Len(rows) => rows'[k] = rows[k]
        /\ Settled(rows'[Len(rows)])
    BY ClosesFacts DEF ShapeInv
  <1>2. \A k \in DOMAIN rows' : k < Len(rows') => rows'[k].status # "running"
    BY <1>1 DEF RowsInv
  <1>3. \A k \in DOMAIN rows' : Settled(rows'[k])
    BY <1>1 DEF RowsInv, Settled
  <1> QED
    BY <1>1, <1>2, <1>3 DEF RowsInv, Settled

\* Rows that stay as they are
LEMMA SameRows ==
    ASSUME ShapeInv, RowsInv, rows' = rows,
           ~Busy \/ ctl'.pc \in {"compile", "train", "evaluate", "gold", "dead"}
    PROVE  RowsInv' /\ Later
  BY DEF RowsInv, Busy, Last, Later, ShapeInv

\* A candidate of a training stays one, whatever runs later.
LEMMA SameCandidate ==
    ASSUME ShapeInv, RowsInv, Later, NEW n \in DOMAIN train, NEW c \in DOMAIN train[n].cands \ {1},
           CandidateOf(n, c), train'[n].cands[c] = train[n].cands[c],
           train'[n].cands[c - 1] = train[n].cands[c - 1]
    PROVE  CandidateOf(n, c)'
  <1> DEFINE d == train[n].cands[c]
  <1>1. d.row \in DOMAIN rows /\ rows[d.row].status = "complete" /\ d.cost = Charged(rows, n, d.row)
    BY DEF CandidateOf
  <1>2. PICK r \in DOMAIN rows : r = d.row /\ rows[r].status # "running"
    BY <1>1
  <1>3. r \in DOMAIN rows' /\ rows'[r] = rows[r] /\ Charged(rows', n, r) = Charged(rows, n, r)
    BY <1>2, KeptCharge DEF ShapeInv
  <1> QED
    BY <1>1, <1>2, <1>3 DEF CandidateOf

\* The training is the same when only other processes run.
LEMMA TrainKept ==
    ASSUME ShapeInv, RowsInv, TrainInv, Later, train' = train,
           \A k \in DOMAIN rows' : rows'[k].stage = "training" =>
              rows'[k].status = "running" \/ (k \in DOMAIN rows /\ rows'[k] = rows[k])
    PROVE  TrainInv'
  <1>1. ASSUME NEW n \in DOMAIN train, NEW c \in DOMAIN train[n].cands \ {1}
        PROVE  CandidateOf(n, c)'
    BY <1>1, SameCandidate DEF TrainInv, TrainOf
  <1>2. ASSUME NEW n \in DOMAIN train, train[n].status # "failed"
        PROVE  Unfailed(n)'
    <2>1. Unfailed(n)
      BY <1>2 DEF TrainInv, TrainOf
    <2>2. ASSUME NEW k \in TrainingRows(rows', n), rows'[k].status # "running"
          PROVE  rows'[k].status = "complete" /\ \E c \in DOMAIN train[n].cands : train[n].cands[c].row = k
      <3>1. k \in TrainingRows(rows, n) /\ rows'[k] = rows[k]
        BY <2>2 DEF TrainingRows
      <3> QED
        BY <2>1, <2>2, <3>1 DEF Unfailed
    <2> QED
      BY <2>1, <2>2 DEF Unfailed
  <1> QED
    BY <1>1, <1>2 DEF TrainInv, TrainOf

\* What was selected stays selected.
LEMMA SelectKept ==
    ASSUME SelectInv, train' = train, \A s \in 1 .. Seeds : Through(s)' => Through(s)
    PROVE  SelectInv'
  BY DEF SelectInv, Paired

\* The kinds of the rows: a process starts,
LEMMA StageOpens ==
    ASSUME ShapeInv, StageInv, NEW owner \in Owners \cup {0}, NEW stage \in Stages,
           Opens(owner, stage), UNCHANGED <<ctl, seal>>, stage \in EndStages => owner \in Owners
    PROVE  StageInv'
  <1>1. /\ rows \in Seq(RowType) /\ (seal = None \/ seal.ver \in Nat)
    BY DEF ShapeInv, Sealed
  <1>2. /\ DOMAIN rows' = 1 .. Len(rows) + 1
        /\ rows'[Len(rows) + 1].status = "running" /\ rows'[Len(rows) + 1].owner = owner
        /\ rows'[Len(rows) + 1].stage = stage
        /\ \A k \in DOMAIN rows : rows'[k] = rows[k]
    BY <1>1, OpensFacts
  <1>3. \A k \in DOMAIN rows' : k \in DOMAIN rows \/ k = Len(rows) + 1
    BY <1>1, <1>2, RowsTyped
  <1> QED
    BY <1>2, <1>3 DEF StageInv, Sealed

\* a process ends,
LEMMA StageCloses ==
    ASSUME ShapeInv, StageInv, Closes, seal' = seal,
           ctl.pc \in {"compile", "train", "seal"} \/ Sealed,
           ctl'.pc # "raise" => (Last.stage # "compile" \/ rows'[Len(rows)].status = "complete"),
           ctl'.pc = "raise" => ~Sealed'
    PROVE  StageInv'
  <1>1. rows \in Seq(RowType)
    BY DEF ShapeInv
  <1>2. /\ DOMAIN rows' = DOMAIN rows
        /\ \A k \in DOMAIN rows : k # Len(rows) => rows'[k] = rows[k]
        /\ rows'[Len(rows)].owner = rows[Len(rows)].owner /\ rows'[Len(rows)].stage = rows[Len(rows)].stage
        /\ Last = rows[Len(rows)]
    BY <1>1, ClosesFacts
  <1>3. \A k \in DOMAIN rows' : rows'[k].stage \in EndStages => rows'[k].owner \in Owners
    BY <1>2 DEF StageInv
  <1>4. ASSUME ctl'.pc # "raise", NEW k \in DOMAIN rows', rows'[k].stage = "compile"
        PROVE  rows'[k].status \in {"complete", "running"}
    BY <1>2, <1>4 DEF StageInv
  <1> QED
    BY <1>3, <1>4 DEF StageInv

\* or the rows stay as they are.
LEMMA StageSame ==
    ASSUME StageInv, rows' = rows,
           (ctl'.pc \in {"compile", "train", "seal"} \/ Sealed')
              => (ctl.pc \in {"compile", "train", "seal"} \/ Sealed \/ rows = <<>>)
    PROVE  StageInv'
  BY DEF StageInv

--------------------------------------------------------------------------------
(* The steps before the training.                                           *)

LEMMA PreparesStep ==
    ASSUME PlaceInv, Honest, Prepares
    PROVE  Honest'
  <1>1. Placed(ctl, ctl', "validate", 1, 1) /\ ctl.pc = "prepare"
    BY AtFacts DEF Prepares, PlaceInv, Pcs
  <1>2. UNCHANGED <<rows, train, seal, ends, result, verdict>>
    BY DEF Prepares, trial
  <1>3. ~Sealed
    BY <1>1 DEF PlaceInv, AfterSeal
  <1>4. ~Sealed' /\ SealInv' /\ EvaluationInv' /\ ResultInv' /\ VerdictInv'
    BY <1>1, <1>2, <1>3, EarlyRest DEF Placed, BeforeSeal
  <1>5. ShapeInv' /\ CountInv' /\ OrderInv'
    BY <1>1, <1>2, <1>3, <1>4 DEF Honest, ShapeInv, CountInv, OrderInv, Sealed, Placed, AfterSeal
  <1>6. rows = <<>>
    BY <1>1 DEF Honest, CountInv
  <1>7. RowsInv' /\ Later
    BY <1>2, <1>6, SameRows DEF Honest, Busy
  <1>8. TrainInv'
    BY <1>2, <1>7, TrainKept DEF Honest
  <1>9. SelectInv'
    BY <1>1, <1>2, <1>4, SelectKept DEF Honest, Through, Placed
  <1>st. StageInv'
    BY <1>1, <1>2, <1>4, StageSame DEF Honest, Placed
  <1> QED
    BY <1>4, <1>5, <1>7, <1>8, <1>9, <1>st DEF Honest

LEMMA ValidatesStep ==
    ASSUME PlaceInv, Honest, Validates
    PROVE  Honest'
  <1>1. /\ ctl.pc = "validate"
        /\ \/ inputs = "whole" /\ Placed(ctl, ctl', "compile", 1, 1)
           \/ ctl' = Raised
    BY AtFacts DEF Validates, PlaceInv, Pcs
  <1>r. Raised.pc = "raise" /\ Raised.erred
    BY RaisedFacts DEF PlaceInv
  <1>2. UNCHANGED <<inputs, rows, train, seal, ends, result, verdict>>
    BY DEF Validates, trial
  <1>3. ~Sealed
    BY <1>1 DEF PlaceInv, AfterSeal
  <1>4. ~Sealed' /\ SealInv' /\ EvaluationInv' /\ ResultInv' /\ VerdictInv'
    BY <1>1, <1>r, <1>2, <1>3, EarlyRest DEF Placed, BeforeSeal
  <1>6. rows = <<>> /\ train = <<>> /\ ~ctl.erred
    BY <1>1 DEF Honest, CountInv
  <1>5. ShapeInv' /\ OrderInv'
    BY <1>1, <1>r, <1>2, <1>3, <1>4 DEF Honest, ShapeInv, OrderInv, Sealed, Placed, AfterSeal
  <1>10. CountInv'
    <2>1. Len(<<>>) = 0 /\ ~Busy' /\ Len(Binaries) = 5
      BY <1>2, <1>6, FamilyFacts DEF Busy
    <2> QED
      BY <1>1, <1>r, <1>2, <1>4, <1>6, <2>1 DEF CountInv, Sealed, Placed, AfterSeal, Underway
  <1>7. RowsInv' /\ Later
    BY <1>2, <1>6, SameRows DEF Honest, Busy
  <1>8. TrainInv'
    BY <1>2, <1>7, TrainKept DEF Honest
  <1>9. SelectInv'
    BY <1>1, <1>r, <1>2, <1>4, SelectKept DEF Honest, Through, Placed
  <1>st. StageInv'
    BY <1>2, <1>6, StageSame DEF Honest
  <1> QED
    BY <1>4, <1>5, <1>7, <1>8, <1>9, <1>10, <1>st DEF Honest

\* A process before the seal starts.
LEMMA OrderOpens ==
    ASSUME ShapeInv, OrderInv, ~Sealed, NEW owner \in Owners \cup {0}, NEW stage \in Stages,
           Opens(owner, stage), UNCHANGED <<ctl, train, seal>>,
           \/ stage = "compile" /\ owner = 0 /\ Len(rows) < Len(Binaries)
           \/ stage = "training" /\ owner \in DOMAIN train /\ Len(rows) >= Len(Binaries)
    PROVE  OrderInv'
  <1>1. rows \in Seq(RowType) /\ (seal = None \/ seal.ver \in Nat)
    BY DEF ShapeInv, Sealed
  <1>2. /\ Len(rows') = Len(rows) + 1 /\ DOMAIN rows' = 1 .. Len(rows) + 1
        /\ rows'[Len(rows) + 1].owner = owner /\ rows'[Len(rows) + 1].stage = stage
        /\ rows'[Len(rows) + 1].seal = None
        /\ \A k \in DOMAIN rows : rows'[k] = rows[k]
    <2>1. /\ Len(rows') = Len(rows) + 1 /\ DOMAIN rows' = 1 .. Len(rows) + 1
      BY <1>1, OpensFacts
    <2>2. rows'[Len(rows) + 1].owner = owner
      BY <1>1, OpensFacts
    <2>3. rows'[Len(rows) + 1].stage = stage
      BY <1>1, OpensFacts
    <2>4. rows'[Len(rows) + 1].seal = None
      BY <1>1, OpensFacts
    <2>5. \A k \in DOMAIN rows : rows'[k] = rows[k]
      BY <1>1, OpensFacts
    <2> QED
      BY <2>1, <2>2, <2>3, <2>4, <2>5
  <1>3. Len(rows) \in Nat /\ DOMAIN rows = 1 .. Len(rows) /\ Len(Binaries) = 5
    BY <1>1, RowsTyped, FamilyFacts
  <1>4. \A k \in DOMAIN rows' : k \in DOMAIN rows \/ k = Len(rows) + 1
    BY <1>2, <1>3
  <1> QED
    BY <1>2, <1>3, <1>4 DEF OrderInv, Sealed

LEMMA CompileStartsStep ==
    ASSUME PlaceInv, Honest, CompileStarts
    PROVE  Honest'
  <1>1. ctl.pc = "compile" /\ Opens(0, "compile") /\ UNCHANGED <<inputs, ctl, train, seal, ends, result, verdict>>
    BY DEF CompileStarts, Starts, Opens, trial
  <1>2. ~Sealed /\ seal = None /\ ctl.pc \in BeforeSeal
    BY <1>1 DEF PlaceInv, AfterSeal, Sealed, BeforeSeal
  <1>3. ~Sealed' /\ SealInv' /\ EvaluationInv' /\ ResultInv' /\ VerdictInv'
    BY <1>1, <1>2, EarlyRest
  <1>4. 0 \in Owners \cup {0} /\ "compile" \in Stages /\ Len(Binaries) = 5
    BY FamilyFacts DEF Stages
  <1>5. rows \in Seq(RowType) /\ (seal = None \/ seal.ver \in Nat)
    BY <1>2 DEF Honest, ShapeInv
  <1>6. /\ Later /\ Len(rows') = Len(rows) + 1 /\ Busy'
        /\ DOMAIN rows' = 1 .. Len(rows) + 1
        /\ rows'[Len(rows) + 1].stage = "compile"
        /\ \A k \in DOMAIN rows : rows'[k] = rows[k]
    BY <1>1, <1>4, <1>5, OpensFacts
  <1>7. Len(rows) \in Nat /\ ~Busy /\ Len(rows) = ctl.i - 1 /\ ctl.i \in 1 .. 5 /\ DOMAIN rows = 1 .. Len(rows)
    BY <1>1, <1>4, <1>5, RowsTyped DEF Honest, CountInv, Underway, Opens
  <1>8. ShapeInv'
    BY <1>1, <1>3, <1>6 DEF Honest, ShapeInv, Later
  <1>9. CountInv'
    BY <1>1, <1>2, <1>3, <1>6, <1>7 DEF Honest, CountInv, Underway, AfterSeal
  <1>10. RowsInv'
    BY <1>1, <1>4, OpenRows DEF Honest
  <1>11. OrderInv'
    <2>1. ShapeInv /\ OrderInv /\ ~Sealed /\ UNCHANGED <<ctl, train, seal>>
      BY <1>1, <1>2 DEF Honest
    <2>2. Len(rows) < Len(Binaries)
      BY <1>4, <1>7
    <2> QED
      BY <1>1, <1>4, <2>1, <2>2, OrderOpens
  <1>12. TrainInv'
    <2>1. \A k \in DOMAIN rows' : rows'[k].stage = "training" => k \in DOMAIN rows /\ rows'[k] = rows[k]
      BY <1>6, <1>7
    <2> QED
      BY <1>1, <1>6, <2>1, TrainKept DEF Honest
  <1>13. SelectInv'
    BY <1>1, <1>3, SelectKept DEF Honest, Through
  <1>st. StageInv'
    <2>1. "compile" \notin EndStages /\ ShapeInv /\ StageInv
      BY FamilyFacts DEF Honest
    <2> QED
      BY <1>1, <1>4, <2>1, StageOpens
  <1> QED
    BY <1>3, <1>8, <1>9, <1>10, <1>11, <1>12, <1>13, <1>st DEF Honest

\* A process ends where it was started.
LEMMA OrderCloses ==
    ASSUME ShapeInv, OrderInv, Closes, seal' = seal, DOMAIN train \subseteq DOMAIN train',
           ctl'.pc \in {"train", "seal"} => Len(rows) >= Len(Binaries)
    PROVE  OrderInv'
  <1> DEFINE m == Len(rows)
  <1>1. rows \in Seq(RowType)
    BY DEF ShapeInv
  <1>2. /\ DOMAIN rows' = DOMAIN rows /\ DOMAIN rows = 1 .. m /\ m \in Nat \ {0}
        /\ \A k \in DOMAIN rows : k # m => rows'[k] = rows[k]
        /\ rows'[m].owner = rows[m].owner /\ rows'[m].stage = rows[m].stage
        /\ rows'[m].seal = rows[m].seal /\ rows[m].status = "running" /\ rows'[m].status # "running"
    BY <1>1, ClosesFacts
  <1>3. Len(rows') = Len(rows)
    BY <1>1, ClosesFacts
  <1>4. \A k \in DOMAIN rows' : /\ k \in DOMAIN rows /\ rows'[k].owner = rows[k].owner
                                /\ rows'[k].stage = rows[k].stage /\ rows'[k].seal = rows[k].seal
                                /\ rows'[k].status = "running" => rows[k].status = "running"
    BY <1>2
  <1>5. /\ \A k \in DOMAIN rows' : (rows'[k].stage = "compile") => k <= Len(Binaries) /\ rows'[k].owner = 0
        /\ \A k \in DOMAIN rows' : k <= Len(Binaries) => rows'[k].stage = "compile"
    BY <1>4 DEF OrderInv
  <1>6. (ctl'.pc \in {"train", "seal"} \/ Sealed') => Len(rows') >= Len(Binaries)
    BY <1>3 DEF OrderInv, Sealed
  <1>7. \A k \in DOMAIN rows' : rows'[k].stage = "training" => rows'[k].owner \in DOMAIN train'
    BY <1>4 DEF OrderInv
  <1>8. ASSUME NEW k \in DOMAIN rows'
        PROVE  IF Sealed' /\ k > seal'.before
               THEN rows'[k].seal = seal'.ver /\ rows'[k].stage \in EndStages \cup {"exact-parser"}
               ELSE /\ rows'[k].seal = None /\ rows'[k].stage \in {"compile", "training"}
                    /\ Sealed' => rows'[k].status # "running"
    BY <1>4 DEF OrderInv, Sealed
  <1> QED
    BY <1>5, <1>6, <1>7, <1>8 DEF OrderInv

\* A training that opens has neither processes nor checkpoints.
LEMMA NewTraining ==
    ASSUME NEW n, train'[n] = NewState(n), TrainingRows(rows', n) = {}
    PROVE  TrainOf(n)'
  <1>1. train'[n].cands = <<Initial>> /\ train'[n].attempts = 0 /\ train'[n].log = "absent" /\ Initial.attempts = 0
    BY NewStateFacts
  <1>2. Len(<<Initial>>) = 1 /\ <<Initial>>[1] = Initial /\ <<Initial>> # <<>> /\ DOMAIN <<Initial>> = {1}
    OBVIOUS
  <1>3. Unfailed(n)'
    BY <1>1, <1>2 DEF Unfailed
  <1> QED
    BY <1>1, <1>2, <1>3 DEF TrainOf

LEMMA CompileBreaksStep ==
    ASSUME PlaceInv, Honest, ctl.pc = "compile", Breaks({0}), ctl' = Raised,
           UNCHANGED <<inputs, train, seal, ends, result, verdict>>
    PROVE  Honest'
  <1>1. Raised.pc = "raise" /\ Raised.erred
    BY RaisedFacts DEF PlaceInv
  <1>2. ~Sealed
    BY DEF PlaceInv, AfterSeal
  <1>3. ~Sealed' /\ SealInv' /\ EvaluationInv' /\ ResultInv' /\ VerdictInv'
    BY <1>1, <1>2, EarlyRest DEF BeforeSeal
  <1>4. rows \in Seq(RowType)
    BY DEF Honest, ShapeInv
  <1>5. Closes
    BY <1>4, BreaksFacts
  <1>6. Later /\ RowsInv'
    BY <1>4, <1>5, ClosesFacts, CloseRows DEF Honest
  <1>7. ShapeInv'
    BY <1>3, <1>6 DEF Honest, ShapeInv, Later
  <1>8. CountInv'
    BY <1>1, <1>3 DEF CountInv, AfterSeal
  <1>9. OrderInv'
    BY <1>1, <1>5, OrderCloses DEF Honest
  <1>10. TrainInv'
    <2>1. train = <<>> /\ train' = <<>>
      BY DEF Honest, CountInv
    <2> QED
      BY <2>1 DEF TrainInv
  <1>11. SelectInv'
    BY <1>1, <1>3 DEF SelectInv, Through
  <1>st. StageInv'
    BY <1>1, <1>3, <1>5, StageCloses DEF Honest
  <1> QED
    BY <1>3, <1>6, <1>7, <1>8, <1>9, <1>10, <1>11, <1>st DEF Honest

LEMMA CompileEndsStep ==
    ASSUME PlaceInv, Honest, CompileEnds
    PROVE  Honest'
  <1>1. ctl.pc = "compile" /\ UNCHANGED <<inputs, seal, ends, result, verdict>>
    BY DEF CompileEnds
  <1>2. CASE Breaks({0}) /\ ctl' = Raised /\ UNCHANGED train
    BY <1>1, <1>2, CompileBreaksStep
  <1>3. CASE /\ Completes({0}, FALSE)
             /\ IF ctl.i < Len(Binaries)
                THEN ctl' = At("compile", ctl.i + 1, 1) /\ UNCHANGED train
                ELSE ctl' = At("train", 1, 1) /\ train' = OpensSeed(train, 1)
    <2>1. rows \in Seq(RowType) /\ ctl \in CtlType
      BY DEF Honest, ShapeInv, PlaceInv
    <2>14. rows'[Len(rows)].status = "complete"
      <3>1. PICK c \in {0} : rows' = Bound("complete", c)
        BY <1>3 DEF Completes
      <3> QED
        BY <1>3, <2>1, <3>1, CompletesFacts DEF Completes
    <2>2. Closes /\ Busy
      <3>1. PICK c \in {0} : rows' = Bound("complete", c)
        BY <1>3 DEF Completes
      <3> QED
        BY <1>3, <2>1, <3>1, CompletesFacts DEF Completes
    <2>3. /\ Later /\ RowsInv' /\ ~Busy' /\ Len(rows') = Len(rows) /\ DOMAIN rows' = DOMAIN rows
          /\ DOMAIN rows = 1 .. Len(rows)
      BY <2>1, <2>2, ClosesFacts, CloseRows DEF Honest
    <2>4. train = <<>> /\ ctl.i \in 1 .. 5 /\ Len(rows) = ctl.i /\ Len(Binaries) = 5 /\ ~ctl.erred
      BY <1>1, <2>2, FamilyFacts DEF Honest, CountInv, Underway
    <2>5. /\ ctl'.erred = ctl.erred
          /\ \/ ctl'.pc = "compile" /\ ctl.i < 5 /\ ctl'.i = ctl.i + 1 /\ train' = train
             \/ ctl'.pc = "train" /\ ctl.i = 5 /\ ctl'.i = 1 /\ ctl'.j = 1 /\ train' = OpensSeed(train, 1)
      <3>1. Placed(ctl, At("compile", ctl.i + 1, 1), "compile", ctl.i + 1, 1)
        BY <2>1, <2>4, AtFacts DEF Pcs
      <3>2. Placed(ctl, At("train", 1, 1), "train", 1, 1)
        BY <2>1, AtFacts DEF Pcs
      <3> QED
        BY <1>3, <2>4, <3>1, <3>2 DEF Placed
    <2>6. ~Sealed /\ ~Sealed' /\ SealInv' /\ EvaluationInv' /\ ResultInv' /\ VerdictInv'
      BY <1>1, <2>5, EarlyRest DEF BeforeSeal, PlaceInv, AfterSeal
    <2>7. /\ train' \in Seq(StateType) /\ DOMAIN train = {}
          /\ ctl'.pc = "train" => Len(train') = 1 * A /\ DOMAIN train' = 1 .. 1 * A
          /\ ctl'.pc = "compile" => train' = <<>>
          /\ \A n \in DOMAIN train' : train'[n] = NewState(n)
      <3>1. CASE ctl'.pc = "compile"
        BY <2>4, <2>5, <3>1
      <3>2. CASE ctl'.pc = "train"
        <4>1. DOMAIN train = 1 .. 0 /\ 0 \in 0 .. 1 * A /\ 1 \in 1 .. Seeds
          BY <2>4, Sizes
        <4>2. \A n \in 1 .. 0 : train[n] \in StateType
          OBVIOUS
        <4> QED
          BY <2>4, <2>5, <3>2, <4>1, <4>2, OpensSeedFacts, Sizes
      <3> QED
        BY <2>5, <3>1, <3>2
    <2>8. ShapeInv'
      BY <1>1, <2>3, <2>6, <2>7 DEF Honest, ShapeInv, Later
    <2>9. CountInv'
      <3>1. 1 \in 1 .. Seeds /\ 1 \in 1 .. Turns + 1
        BY Sizes
      <3>2. inputs = "whole"
        BY <1>1 DEF Honest, CountInv
      <3> QED
        BY <1>1, <2>3, <2>4, <2>5, <2>6, <2>7, <3>1, <3>2 DEF CountInv, Underway, AfterSeal
    <2>10. OrderInv'
      BY <1>1, <2>2, <2>4, <2>5, <2>7, OrderCloses DEF Honest
    <2>11. TrainInv'
      <3>1. ASSUME NEW n \in DOMAIN train'
            PROVE  TrainOf(n)'
        <4>1. \A k \in DOMAIN rows' : rows'[k].stage = rows[k].stage
          BY <2>1, <2>2, ClosesFacts
        <4>2. \A k \in DOMAIN rows : rows[k].stage # "training"
          BY <2>7 DEF Honest, OrderInv
        <4>3. TrainingRows(rows', n) = {}
          BY <2>3, <4>1, <4>2 DEF TrainingRows
        <4> QED
          BY <2>7, <4>3, NewTraining
      <3> QED
        BY <3>1 DEF TrainInv
    <2>12. SelectInv'
      <3>1. \A s \in 1 .. Seeds : ~Through(s)'
        BY <2>5, <2>6 DEF Through
      <3> QED
        BY <3>1 DEF SelectInv
    <2>13. StageInv'
      BY <1>1, <2>2, <2>5, <2>14, StageCloses DEF Honest
    <2> QED
      BY <2>3, <2>6, <2>8, <2>9, <2>10, <2>11, <2>12, <2>13 DEF Honest
  <1> QED
    BY <1>2, <1>3 DEF CompileEnds

--------------------------------------------------------------------------------
(* The steps of the training.                                               *)

LEMMA TrainStartsStep ==
    ASSUME PlaceInv, Honest, TrainStarts
    PROVE  Honest'
  <1>1. /\ ctl.pc = "train" /\ NextTurn(train, ctl.j) <= Turns /\ Opens(Learner, "training")
        /\ UNCHANGED <<inputs, ctl, train, seal, ends, result, verdict>>
    BY DEF TrainStarts, Starts, Opens, trial
  <1>2. ~Sealed /\ ctl.pc \in BeforeSeal
    BY <1>1 DEF PlaceInv, AfterSeal, BeforeSeal
  <1>3. ~Sealed' /\ SealInv' /\ EvaluationInv' /\ ResultInv' /\ VerdictInv'
    BY <1>1, <1>2, EarlyRest
  <1>4. rows \in Seq(RowType) /\ train \in Seq(StateType) /\ (seal = None \/ seal.ver \in Nat)
    BY <1>2 DEF Honest, ShapeInv, Sealed
  <1>5. Learner \in DOMAIN train /\ Learner \in Owners \cup {0} /\ "training" \in Stages
    <2>1. ctl \in CtlType /\ ctl.i \in 1 .. Seeds /\ ctl.j \in 1 .. Turns + 1 /\ Len(train) = ctl.i * A
      BY <1>1 DEF Honest, CountInv, PlaceInv
    <2> QED
      BY <1>1, <1>4, <2>1, LearnerFacts DEF Stages
  <1>6. PICK n \in Owners \cup {0} : n = Learner /\ n \in DOMAIN train /\ Opens(n, "training")
    BY <1>1, <1>5
  <1>7. Learner' = n
    BY <1>1, <1>6 DEF Learner, NextTurn, Turn
  <1>8. /\ Later /\ Len(rows') = Len(rows) + 1 /\ Busy'
        /\ DOMAIN rows' = 1 .. Len(rows) + 1
        /\ rows'[Len(rows) + 1].owner = n /\ rows'[Len(rows) + 1].stage = "training"
        /\ rows'[Len(rows) + 1].status = "running"
        /\ \A k \in DOMAIN rows : rows'[k] = rows[k]
    BY <1>4, <1>5, <1>6, OpensFacts
  <1>9. Len(rows) \in Nat /\ DOMAIN rows = 1 .. Len(rows)
    BY <1>4, RowsTyped
  <1>10. ShapeInv'
    BY <1>1, <1>3, <1>8 DEF Honest, ShapeInv, Later
  <1>11. CountInv'
    <2>1. Last'.owner = Learner' /\ Last'.stage = "training"
      BY <1>7, <1>8 DEF Last
    <2>2. NextTurn(train, ctl.j)' = NextTurn(train, ctl.j)
      BY <1>1 DEF NextTurn, Turn
    <2> QED
      BY <1>1, <1>3, <2>1, <2>2 DEF Honest, CountInv, AfterSeal
  <1>12. RowsInv'
    BY <1>1, <1>5, <1>6, OpenRows DEF Honest
  <1>13. OrderInv'
    <2>1. ShapeInv /\ OrderInv /\ ~Sealed /\ UNCHANGED <<ctl, train, seal>> /\ Len(rows) >= Len(Binaries)
      BY <1>1, <1>2 DEF Honest, OrderInv
    <2> QED
      BY <1>5, <1>6, <2>1, OrderOpens
  <1>14. TrainInv'
    <2>1. \A k \in DOMAIN rows' : \/ rows'[k].status = "running"
                                  \/ k \in DOMAIN rows /\ rows'[k] = rows[k]
      BY <1>8, <1>9
    <2> QED
      BY <1>1, <1>8, <2>1, TrainKept DEF Honest
  <1>15. SelectInv'
    BY <1>1, <1>3, SelectKept DEF Honest, Through
  <1>st. StageInv'
    <2>1. "training" \notin EndStages /\ ShapeInv /\ StageInv
      BY FamilyFacts DEF Honest
    <2> QED
      BY <1>1, <1>5, <1>6, <2>1, StageOpens
  <1> QED
    BY <1>3, <1>10, <1>11, <1>12, <1>13, <1>14, <1>15, <1>st DEF Honest

\* Which of the owners a seed has differs from those of the seeds before it.
LEMMA SeedsApart ==
    ASSUME NEW s \in 1 .. Seeds, NEW r \in 1 .. Seeds, r < s, NEW n \in OfSeed(r)
    PROVE  n \notin OfSeed(s) /\ n \in Nat /\ n <= (s - 1) * A
  <1>1. r * A <= (s - 1) * A /\ (s - 1) * A \in Nat /\ OfSeed(s) = (s - 1) * A + 1 .. s * A
    BY SeedSizes
  <1>2. OfSeed(r) = (r - 1) * A + 1 .. r * A /\ r * A \in Nat /\ (r - 1) * A \in Nat
    BY SeedSizes
  <1> QED
    BY <1>1, <1>2

\* The arms of a seed are paired by their logs alone.
LEMMA PairedSame ==
    ASSUME NEW t1, NEW t2, NEW s, \A n \in OfSeed(s) : t1[n].log = t2[n].log
    PROVE  Paired(t1, s) = Paired(t2, s)
  <1>1. {m \in OfSeed(s) : ArmOf(m) \in Replays /\ t1[m].log \in {"fixed", "other"}}
          = {m \in OfSeed(s) : ArmOf(m) \in Replays /\ t2[m].log \in {"fixed", "other"}}
    OBVIOUS
  <1>2. {t1[n].log : n \in {m \in OfSeed(s) : ArmOf(m) \in Replays /\ t1[m].log \in {"fixed", "other"}}}
          = {t2[n].log : n \in {m \in OfSeed(s) : ArmOf(m) \in Replays /\ t2[m].log \in {"fixed", "other"}}}
    BY <1>1
  <1> QED
    BY <1>2 DEF Paired

\* A turn of the training is over: what it left of the learner is the state given.
LEMMA TurnStep ==
    ASSUME PlaceInv, Honest, ctl.pc = "train", Closes, NEW state \in StateType, NEW over \in BOOLEAN,
           TrainDone(state, over), NEW n \in DOMAIN train, n = Learner, TrainOf(n)'
    PROVE  Honest'
  <1>1. /\ ctl' \in CtlType /\ ctl'.pc = "train" /\ ctl'.i = ctl.i /\ ctl'.erred = ctl.erred
        /\ ctl'.j = NextTurn(train, ctl.j) + 1 /\ UNCHANGED <<inputs, seal, ends, result, verdict>>
    BY TrainDoneFacts DEF PlaceInv, TrainDone
  <1>2. ~Sealed /\ ctl.pc \in BeforeSeal /\ ctl'.pc \in BeforeSeal
    BY <1>1 DEF PlaceInv, AfterSeal, BeforeSeal
  <1>3. ~Sealed' /\ SealInv' /\ EvaluationInv' /\ ResultInv' /\ VerdictInv'
    BY <1>1, <1>2, EarlyRest
  <1>4. /\ rows \in Seq(RowType) /\ train \in Seq(StateType)
        /\ ctl \in CtlType /\ ctl.i \in 1 .. Seeds /\ ctl.j \in 1 .. Turns + 1 /\ Len(train) = ctl.i * A
        /\ Busy /\ NextTurn(train, ctl.j) <= Turns /\ Last.owner = Learner
    BY DEF Honest, ShapeInv, CountInv, PlaceInv, Closes
  <1>5. /\ NextTurn(train, ctl.j) \in 1 .. Turns + 1 /\ Learner \in OfSeed(ctl.i)
        /\ Learner \in DOMAIN train /\ DOMAIN train = 1 .. ctl.i * A
    BY <1>4, LearnerFacts
  <1>7. /\ train' \in Seq(StateType) /\ Len(train') = Len(train) /\ DOMAIN train' = DOMAIN train
        /\ \A m \in DOMAIN train : m # n => train'[m] = train[m]
    BY <1>4 DEF TrainDone
  <1>8. /\ Later /\ RowsInv' /\ ~Busy' /\ DOMAIN rows' = DOMAIN rows
        /\ \A k \in DOMAIN rows : k # Len(rows) => rows'[k] = rows[k]
        /\ rows'[Len(rows)].owner = n
    BY <1>4, ClosesFacts, CloseRows DEF Honest
  <1>9. ShapeInv'
    BY <1>1, <1>3, <1>7, <1>8 DEF Honest, ShapeInv, Later
  <1>10. CountInv'
    <2>1. ctl'.j \in 1 .. Turns + 1
      BY <1>1, <1>4, <1>5, Sizes
    <2> QED
      BY <1>1, <1>3, <1>4, <1>7, <1>8, <2>1 DEF Honest, CountInv, AfterSeal
  <1>11. OrderInv'
    BY <1>1, <1>7, OrderCloses DEF Honest, OrderInv
  <1>12. ASSUME NEW m \in DOMAIN train, m # n
         PROVE  TrainOf(m)'
    <2>1. train'[m] = train[m] /\ TrainOf(m)
      BY <1>7, <1>12 DEF Honest, TrainInv
    <2>2. ASSUME NEW c \in DOMAIN train[m].cands \ {1}
          PROVE  CandidateOf(m, c)'
      BY <1>8, <2>1, <2>2, SameCandidate DEF Honest, TrainOf
    <2>3. ASSUME train[m].status # "failed"
          PROVE  Unfailed(m)'
      <3>1. Unfailed(m)
        BY <2>1, <2>3 DEF TrainOf
      <3>2. \A k \in TrainingRows(rows', m) : k \in TrainingRows(rows, m) /\ rows'[k] = rows[k]
        BY <1>8, <1>12 DEF TrainingRows
      <3> QED
        BY <2>1, <3>1, <3>2 DEF Unfailed
    <2> QED
      BY <2>1, <2>2, <2>3 DEF TrainOf
  <1>13. TrainInv'
    BY <1>7, <1>12 DEF TrainInv
  <1>14. SelectInv'
    <2>1. ASSUME NEW s \in 1 .. Seeds, Through(s)'
          PROVE  /\ \A m \in OfSeed(s) : train'[m].selected = Eligible(train'[m].cands)
                 /\ Paired(train', s)
      <3>1. s < ctl.i /\ Through(s)
        BY <1>1, <2>1 DEF Through
      <3>2. \A m \in OfSeed(s) : m \in DOMAIN train /\ m # n
        <4>1. ctl.i * A \in Nat /\ (ctl.i - 1) * A \in Nat /\ ctl.i * A = (ctl.i - 1) * A + A /\ A \in Nat
          BY <1>4, SeedSizes, Sizes
        <4>2. OfSeed(s) = (s - 1) * A + 1 .. s * A /\ (s - 1) * A \in Nat
          BY SeedSizes
        <4>3. \A m \in OfSeed(s) : m \notin OfSeed(ctl.i) /\ m \in Nat /\ m <= (ctl.i - 1) * A
          BY <1>4, <3>1, SeedsApart
        <4>4. \A m \in OfSeed(s) : m \in 1 .. ctl.i * A
          BY <4>1, <4>2, <4>3
        <4> QED
          BY <1>5, <4>3, <4>4
      <3>3. Paired(train', s) = Paired(train, s)
        BY <1>7, <3>2, PairedSame
      <3>4. \A m \in OfSeed(s) : train'[m] = train[m] /\ train[m].selected = Eligible(train[m].cands)
        BY <1>7, <3>1, <3>2 DEF Honest, SelectInv
      <3> QED
        BY <3>1, <3>3, <3>4 DEF Honest, SelectInv
    <2> QED
      BY <2>1 DEF SelectInv
  <1>st. StageInv'
    <2>1. Last.stage = "training"
      BY <1>4 DEF Honest, CountInv
    <2> QED
      BY <1>1, <2>1, StageCloses DEF Honest
  <1> QED
    BY <1>3, <1>8, <1>9, <1>10, <1>11, <1>13, <1>14, <1>st DEF Honest

\* What the updates of a training's state leave alone
LEMMA Restated ==
    ASSUME NEW r \in StateType, NEW p, NEW log
    PROVE  [r EXCEPT !.attempts = p, !.log = log]
             = [attempts |-> p, status |-> r.status, cands |-> r.cands, selected |-> r.selected, log |-> log]
  <1> DEFINE a == [r EXCEPT !.attempts = p]
             b == [a EXCEPT !.log = log]
             With(x, z) == [attempts |-> x, status |-> r.status, cands |-> r.cands, selected |-> r.selected, log |-> z]
  <1>1. r = With(r.attempts, r.log)
    BY DEF StateType
  <1>2. a = With(p, r.log)
    BY <1>1
  <1>3. [r EXCEPT !.attempts = p, !.log = log] = b
    OBVIOUS
  <1> HIDE DEF a
  <1>4. b = With(p, log)
    BY <1>2
  <1> QED
    BY <1>3, <1>4

LEMMA StateFacts ==
    ASSUME NEW r \in StateType
    PROVE  /\ LET d == FailedState(r)
              IN  /\ d \in StateType /\ d.status = "failed" /\ d.cands = r.cands /\ d.attempts = r.attempts
                  /\ d.log = r.log /\ d.selected = r.selected
           /\ \A p \in 0 .. Attempts :
                 LET d == [FailedState(r) EXCEPT !.attempts = p, !.log = "refused"]
                 IN  d \in StateType /\ d.status = "failed" /\ d.cands = r.cands
  <1> DEFINE d == FailedState(r)
  <1>1. d = [attempts |-> r.attempts, status |-> "failed", cands |-> r.cands, selected |-> r.selected, log |-> r.log]
    BY DEF FailedState, StateType
  <1>2. /\ d \in StateType /\ d.status = "failed" /\ d.cands = r.cands /\ d.attempts = r.attempts
        /\ d.log = r.log /\ d.selected = r.selected
    BY <1>1 DEF StateType, StateStatuses
  <1> HIDE DEF d
  <1>3. ASSUME NEW p \in 0 .. Attempts
        PROVE  LET e == [d EXCEPT !.attempts = p, !.log = "refused"]
               IN  e \in StateType /\ e.status = "failed" /\ e.cands = r.cands
    <2>1. [d EXCEPT !.attempts = p, !.log = "refused"]
            = [attempts |-> p, status |-> d.status, cands |-> d.cands, selected |-> d.selected, log |-> "refused"]
      <3>1. d \in StateType
        BY <1>2
      <3> QED
        BY ONLY <3>1, Restated, Zenon
    <2>2. d.selected \in Candidates \cup {None} /\ d.cands \in Seq(Candidates)
      BY <1>2 DEF StateType
    <2> QED
      BY <1>2, <2>1, <2>2 DEF StateType, StateStatuses
  <1> QED
    BY <1>2, <1>3 DEF d

\* What a turn that went well leaves of a training's state
AdvancedTo(d, r, p, log, cost) ==
    /\ d \in StateType /\ d.attempts = p /\ d.log = log
    /\ d.cands \in Seq(Candidates) /\ Len(d.cands) = Len(r.cands) + 1
    /\ \A c \in DOMAIN r.cands : d.cands[c] = r.cands[c]
    /\ LET e == d.cands[Len(r.cands) + 1]
       IN  e.attempts = p /\ e.cost = cost /\ e.row = Len(rows)

LEMMA AdvancedFacts ==
    ASSUME NEW r \in StateType, NEW p \in 0 .. Attempts, NEW log \in {"fixed", "other"},
           NEW exhausted \in BOOLEAN, NEW cost \in Nat, rows \in Seq(RowType)
    PROVE  AdvancedTo(Advanced(r, p, log, exhausted, cost), r, p, log, cost)
  <1> DEFINE e == [attempts |-> p, cost |-> cost, row |-> Len(rows)]
             next == [r EXCEPT !.attempts = p, !.log = log, !.cands = Append(r.cands, e)]
             d == Advanced(r, p, log, exhausted, cost)
             st == Stopped(next, exhausted, cost)
  <1>1. e \in Candidates /\ e.attempts = p /\ e.cost = cost /\ e.row = Len(rows)
    BY RowsTyped DEF Candidates
  <1>2. r.cands \in Seq(Candidates)
    BY DEF StateType
  <1>3. st \in StateStatuses
    BY DEF Stopped, StateStatuses
  <1>4. next = [attempts |-> p, status |-> r.status, cands |-> Append(r.cands, e), selected |-> r.selected, log |-> log]
    <2> DEFINE b == [r EXCEPT !.attempts = p, !.log = log]
               w == Append(r.cands, e)
               c == [b EXCEPT !.cands = w]
    <2>1. b = [attempts |-> p, status |-> r.status, cands |-> r.cands, selected |-> r.selected, log |-> log]
      BY Restated
    <2> HIDE DEF w
    <2>2. [r EXCEPT !.attempts = p, !.log = log, !.cands = w] = c
      OBVIOUS
    <2> HIDE DEF b
    <2>3. c = [attempts |-> p, status |-> r.status, cands |-> w, selected |-> r.selected, log |-> log]
      BY <2>1
    <2> QED
      BY <2>2, <2>3 DEF w
  <1>5. d = [next EXCEPT !.status = st]
    BY DEF Advanced
  <1> HIDE DEF st, e, d
  <1>6. d = [attempts |-> p, status |-> st, cands |-> Append(r.cands, e), selected |-> r.selected, log |-> log]
    BY <1>4, <1>5
  <1>7. Append(r.cands, e) \in Seq(Candidates) /\ Len(Append(r.cands, e)) = Len(r.cands) + 1
        /\ (\A c \in DOMAIN r.cands : Append(r.cands, e)[c] = r.cands[c])
        /\ Append(r.cands, e)[Len(r.cands) + 1] = e
    BY <1>1, <1>2
  <1>8. d \in StateType
    BY <1>3, <1>6, <1>7 DEF StateType
  <1>9. d.attempts = p /\ d.log = log /\ d.cands = Append(r.cands, e)
    BY <1>6
  <1>10. LET f == d.cands[Len(r.cands) + 1]
         IN  f.attempts = p /\ f.cost = cost /\ f.row = Len(rows)
    BY <1>1, <1>7, <1>9
  <1>11. d.cands \in Seq(Candidates) /\ Len(d.cands) = Len(r.cands) + 1
         /\ \A c \in DOMAIN r.cands : d.cands[c] = r.cands[c]
    BY <1>7, <1>9
  <1> QED
    BY <1>8, <1>9, <1>10, <1>11 DEF d, AdvancedTo

\* A training that failed keeps the checkpoints it had.
LEMMA FailedTurn ==
    ASSUME ShapeInv, RowsInv, TrainInv, Later, NEW n \in DOMAIN train,
           train'[n].cands = train[n].cands, train'[n].status = "failed"
    PROVE  TrainOf(n)'
  <1>1. TrainOf(n)
    BY DEF TrainInv
  <1>2. ASSUME NEW c \in DOMAIN train[n].cands \ {1}
        PROVE  CandidateOf(n, c)'
    BY <1>1, SameCandidate DEF TrainOf
  <1> QED
    BY <1>1, <1>2 DEF TrainOf

\* The place of the learner in a turn that is under way
LEMMA TurnPlace ==
    ASSUME PlaceInv, Honest, ctl.pc = "train", Busy
    PROVE  /\ rows \in Seq(RowType) /\ train \in Seq(StateType) /\ Learner \in DOMAIN train
           /\ train[Learner] \in StateType /\ train[Learner].status = "training"
           /\ Last.owner = Learner /\ Last.stage = "training"
  <1>1. /\ rows \in Seq(RowType) /\ train \in Seq(StateType)
        /\ ctl \in CtlType /\ ctl.i \in 1 .. Seeds /\ ctl.j \in 1 .. Turns + 1 /\ Len(train) = ctl.i * A
        /\ NextTurn(train, ctl.j) <= Turns /\ Last.owner = Learner /\ Last.stage = "training"
    BY DEF Honest, ShapeInv, CountInv, PlaceInv
  <1>2. Learner \in DOMAIN train /\ train[Learner].status = "training"
    BY <1>1, LearnerFacts
  <1> QED
    BY <1>1, <1>2

LEMMA ReachedFacts ==
    ASSUME NEW r \in StateType, NEW p \in Reached(r)
    PROVE  p \in 0 .. Attempts /\ p > r.attempts /\ p <= r.attempts + Chunk
  <1> DEFINE T == {r.attempts + Chunk, Attempts}
  <1>1. r.attempts \in Nat /\ Chunk \in Nat /\ Attempts \in Nat
    BY Sizes DEF StateType
  <1>2. \E x \in T : \A y \in T : x <= y
    BY <1>1
  <1>3. Min(T) \in T /\ \A y \in T : Min(T) <= y
    BY <1>2 DEF Min
  <1>4. p \in r.attempts + 1 .. Min(T)
    BY DEF Reached
  <1>5. Min(T) \in Nat /\ Min(T) <= Attempts /\ Min(T) <= r.attempts + Chunk
    BY <1>1, <1>3
  <1> QED
    BY <1>1, <1>4, <1>5

LEMMA TrainBreaksStep ==
    ASSUME PlaceInv, Honest, TrainBreaks
    PROVE  Honest'
  <1>1. ctl.pc = "train" /\ Breaks(Costs) /\ Busy /\ TrainDone(FailedState(train[Learner]), ctl.over)
    BY DEF TrainBreaks, Breaks
  <1>2. /\ rows \in Seq(RowType) /\ train \in Seq(StateType) /\ Learner \in DOMAIN train
        /\ train[Learner] \in StateType /\ ctl.over \in BOOLEAN
    BY <1>1, TurnPlace DEF PlaceInv, CtlType
  <1>3. Closes /\ Later
    BY <1>1, <1>2, Sizes, BreaksFacts, ClosesFacts
  <1>4. PICK n \in DOMAIN train : n = Learner
    BY <1>2
  <1>5. FailedState(train[n]) \in StateType /\ TrainDone(FailedState(train[n]), ctl.over)
        /\ FailedState(train[n]).cands = train[n].cands /\ FailedState(train[n]).status = "failed"
    BY <1>1, <1>2, <1>4, StateFacts
  <1>6. train'[n] = FailedState(train[n])
    BY <1>2, <1>4, <1>5 DEF TrainDone
  <1>7. TrainOf(n)'
    BY <1>3, <1>5, <1>6, FailedTurn DEF Honest
  <1> QED
    BY <1>1, <1>2, <1>3, <1>4, <1>5, <1>7, TurnStep

\* A process of the training completed: its row is closed.
LEMMA BoundTurn ==
    ASSUME rows \in Seq(RowType), Busy, \E c \in Costs : rows' = Bound("complete", c)
    PROVE  Closes /\ Later /\ rows'[Len(rows)].status = "complete"
  <1>1. PICK c \in Costs : rows' = Bound("complete", c)
    OBVIOUS
  <1>2. c \in Nat
    BY Sizes
  <1>3. Closes /\ rows'[Len(rows)].status = "complete"
    BY <1>1, <1>2, CompletesFacts
  <1> QED
    BY <1>3, ClosesFacts

LEMMA CheckpointRefusedStep ==
    ASSUME PlaceInv, Honest, CheckpointRefused
    PROVE  Honest'
  <1>1. /\ ctl.pc = "train" /\ Busy /\ TrainDone(FailedState(train[Learner]), FALSE)
        /\ \E c \in Costs : rows' = Bound("complete", c)
    BY DEF CheckpointRefused
  <1>2. /\ rows \in Seq(RowType) /\ train \in Seq(StateType) /\ Learner \in DOMAIN train
        /\ train[Learner] \in StateType
    BY <1>1, TurnPlace
  <1>3. Closes /\ Later
    BY <1>1, <1>2, BoundTurn
  <1>4. PICK n \in DOMAIN train : n = Learner
    BY <1>2
  <1>5. FailedState(train[n]) \in StateType /\ TrainDone(FailedState(train[n]), FALSE)
        /\ FailedState(train[n]).cands = train[n].cands /\ FailedState(train[n]).status = "failed"
    BY <1>1, <1>2, <1>4, StateFacts
  <1>6. train'[n] = FailedState(train[n])
    BY <1>2, <1>4, <1>5 DEF TrainDone
  <1>7. TrainOf(n)'
    BY <1>3, <1>5, <1>6, FailedTurn DEF Honest
  <1> QED
    BY <1>1, <1>2, <1>3, <1>4, <1>5, <1>7, TurnStep

LEMMA SamplesRefusedStep ==
    ASSUME PlaceInv, Honest, SamplesRefused
    PROVE  Honest'
  <1> DEFINE S(n, p) == [FailedState(train[n]) EXCEPT !.attempts = p, !.log = "refused"]
  <1>1. /\ ctl.pc = "train" /\ Busy /\ \E c \in Costs : rows' = Bound("complete", c)
        /\ \E p \in Reached(train[Learner]) : TrainDone(S(Learner, p), FALSE)
    BY DEF SamplesRefused
  <1>2. /\ rows \in Seq(RowType) /\ train \in Seq(StateType) /\ Learner \in DOMAIN train
        /\ train[Learner] \in StateType
    BY <1>1, TurnPlace
  <1>3. Closes /\ Later
    BY <1>1, <1>2, BoundTurn
  <1>4. PICK n \in DOMAIN train : n = Learner
    BY <1>2
  <1>5. PICK p \in Reached(train[n]) : TrainDone(S(n, p), FALSE)
    BY <1>1, <1>4
  <1>6. p \in 0 .. Attempts
    BY <1>2, <1>4, ReachedFacts
  <1>7. S(n, p) \in StateType /\ S(n, p).cands = train[n].cands /\ S(n, p).status = "failed"
    BY <1>2, <1>4, <1>6, StateFacts
  <1> HIDE DEF S
  <1>8. train'[n] = S(n, p)
    BY <1>2, <1>4, <1>5 DEF TrainDone
  <1>9. TrainOf(n)'
    BY <1>3, <1>7, <1>8, FailedTurn DEF Honest
  <1>10. PICK state \in StateType : state = S(n, p) /\ TrainDone(state, FALSE)
    BY <1>5, <1>7
  <1> QED
    BY <1>1, <1>3, <1>4, <1>9, <1>10, TurnStep

LEMMA TrainEndsStep ==
    ASSUME PlaceInv, Honest, TrainEnds
    PROVE  Honest'
  <1>1. /\ ctl.pc = "train"
        /\ \E p \in Reached(train[Learner]), log \in Logs(train[Learner]), over \in BOOLEAN, exhausted \in BOOLEAN :
              /\ Busy /\ \E c \in Costs : rows' = Bound("complete", c)
              /\ TrainDone(Advanced(train[Learner], p, log, exhausted, Charged(rows', Learner, Len(rows))), over)
    BY DEF TrainEnds, Completes
  <1>2. PICK n : n = Learner
    OBVIOUS
  <1>3. PICK p \in Reached(train[n]), log \in Logs(train[n]), over \in BOOLEAN, exhausted \in BOOLEAN :
              /\ Busy /\ \E c \in Costs : rows' = Bound("complete", c)
              /\ TrainDone(Advanced(train[n], p, log, exhausted, Charged(rows', n, Len(rows))), over)
    BY <1>1, <1>2
  <1>4. /\ rows \in Seq(RowType) /\ train \in Seq(StateType) /\ n \in DOMAIN train
        /\ train[n] \in StateType /\ train[n].status = "training"
        /\ Last.owner = n /\ Last.stage = "training"
    BY <1>1, <1>2, <1>3, TurnPlace
  <1>5. Closes /\ Later /\ rows'[Len(rows)].status = "complete"
    BY <1>3, <1>4, BoundTurn
  <1>6. p \in 0 .. Attempts /\ p > train[n].attempts /\ p <= train[n].attempts + Chunk
        /\ log \in {"fixed", "other"}
    BY <1>4, ReachedFacts DEF Logs
  <1>7. Charged(rows', n, Len(rows)) \in Nat
    BY <1>4, <1>5, RowsTyped, CostTyped, ChargedTyped DEF Closes
  <1>8. PICK cost \in Nat : cost = Charged(rows', n, Len(rows))
    BY <1>7
  <1> DEFINE d == Advanced(train[n], p, log, exhausted, cost)
  <1>9. /\ TrainDone(d, over) /\ d \in StateType
        /\ d.attempts = p /\ d.log = log
        /\ d.cands \in Seq(Candidates) /\ Len(d.cands) = Len(train[n].cands) + 1
        /\ \A c \in DOMAIN train[n].cands : d.cands[c] = train[n].cands[c]
        /\ LET e == d.cands[Len(train[n].cands) + 1]
           IN  e.attempts = p /\ e.cost = cost /\ e.row = Len(rows)
    <2>1. TrainDone(d, over)
      BY <1>3, <1>8
    <2> HIDE DEF d
    <2>2. train[n] \in StateType /\ p \in 0 .. Attempts /\ log \in {"fixed", "other"}
          /\ exhausted \in BOOLEAN /\ cost \in Nat /\ rows \in Seq(RowType)
      BY <1>4, <1>6
    <2>3. AdvancedTo(d, train[n], p, log, cost)
      BY ONLY <2>2, AdvancedFacts, Zenon DEF d
    <2> QED
      BY <2>1, <2>3 DEF AdvancedTo
  <1> HIDE DEF d
  <1>10. train'[n] = d
    BY <1>2, <1>4, <1>9 DEF TrainDone
  <1>11. PICK m \in Nat : m = Len(train[n].cands) /\ DOMAIN train[n].cands = 1 .. m /\ m > 0
    BY <1>4, StateTyped DEF Honest, TrainInv, TrainOf
  <1>12. TrainOf(n) /\ Unfailed(n)
    BY <1>4 DEF Honest, TrainInv, TrainOf
  <1>13. /\ DOMAIN rows' = DOMAIN rows /\ DOMAIN rows = 1 .. Len(rows) /\ Len(rows) \in Nat \ {0}
         /\ \A k \in DOMAIN rows : k # Len(rows) => rows'[k] = rows[k]
         /\ rows'[Len(rows)].owner = n /\ rows'[Len(rows)].stage = "training"
    BY <1>4, <1>5, ClosesFacts
  <1>14. d.cands # <<>> /\ DOMAIN d.cands = 1 .. m + 1 /\ d.cands[1] = Initial
    BY <1>9, <1>11, <1>12 DEF TrainOf
  <1>15. ASSUME NEW c \in DOMAIN d.cands \ {1}
         PROVE  CandidateOf(n, c)'
    <2>1. CASE c \in 2 .. m
      <3>1. CandidateOf(n, c) /\ c \in DOMAIN train[n].cands \ {1}
        BY <1>11, <1>12, <2>1 DEF TrainOf
      <3>2. train'[n].cands[c] = train[n].cands[c] /\ train'[n].cands[c - 1] = train[n].cands[c - 1]
        <4>1. c \in DOMAIN train[n].cands /\ c - 1 \in DOMAIN train[n].cands
          BY <1>11, <2>1
        <4> QED
          BY <1>9, <1>10, <4>1
      <3> QED
        BY <1>4, <1>5, <3>1, <3>2, SameCandidate DEF Honest
    <2>2. CASE c = m + 1
      <3>1. d.cands[c - 1].attempts = train[n].attempts
        BY <1>9, <1>11, <1>12, <2>2 DEF Unfailed
      <3>2. d.cands[c].attempts = p /\ d.cands[c].cost = cost /\ d.cands[c].row = Len(rows)
        BY <1>9, <1>11, <2>2
      <3> QED
        BY <1>5, <1>6, <1>8, <1>10, <1>13, <3>1, <3>2 DEF CandidateOf
    <2> QED
      BY <1>11, <1>14, <2>1, <2>2
  <1>16. Unfailed(n)'
    <2>1. d.attempts = d.cands[Len(d.cands)].attempts /\ d.log # "refused"
      BY <1>6, <1>9, <1>11
    <2>2. ASSUME NEW k \in TrainingRows(rows', n)
          PROVE  rows'[k].status = "running"
                 \/ (rows'[k].status = "complete" /\ \E c \in DOMAIN d.cands : d.cands[c].row = k)
      <3>1. CASE k = Len(rows)
        <4>1. m + 1 \in DOMAIN d.cands /\ d.cands[m + 1].row = k
          BY <1>9, <1>11, <1>14, <3>1
        <4> QED
          BY <1>5, <3>1, <4>1
      <3>2. CASE k # Len(rows)
        <4>1. k \in TrainingRows(rows, n) /\ rows'[k] = rows[k]
          BY <1>13, <2>2, <3>2 DEF TrainingRows
        <4>2. \A c \in DOMAIN train[n].cands : c \in DOMAIN d.cands /\ d.cands[c] = train[n].cands[c]
          BY <1>9, <1>11, <1>14
        <4> QED
          BY <1>12, <4>1, <4>2 DEF Unfailed
      <3> QED
        BY <3>1, <3>2
    <2> QED
      BY <1>10, <2>1, <2>2 DEF Unfailed
  <1>17. TrainOf(n)'
    BY <1>10, <1>14, <1>15, <1>16 DEF TrainOf
  <1> QED
    BY <1>1, <1>2, <1>4, <1>5, <1>9, <1>17, TurnStep

\* The rule selects one of the checkpoints that were paid for, and none is further.
LEMMA EligibleFacts ==
    ASSUME NEW cands \in Seq(Candidates), cands # <<>>, cands[1] = Initial
    PROVE  /\ Eligible(cands) \in Candidates
           /\ \E k \in Paid(cands) : /\ Eligible(cands) = cands[k]
                                     /\ \A l \in Paid(cands) : cands[l].attempts <= cands[k].attempts
  <1> DEFINE f == [k \in DOMAIN cands |-> cands[k].attempts]
             Best(k) == \A l \in Paid(cands) : cands[l].attempts <= cands[k].attempts
  <1>1. 1 \in DOMAIN cands /\ \A k \in DOMAIN cands : cands[k] \in Candidates
    OBVIOUS
  <1>2. 1 \in Paid(cands)
    BY <1>1, Sizes, NewStateFacts DEF Paid, WithinBudget
  <1>3. \A k \in Paid(cands) : f[k] \in 0 .. Attempts
    BY <1>1 DEF Paid, Candidates
  <1>4. Paid(cands) # {} /\ Attempts \in Nat
    BY <1>2, Sizes
  <1> HIDE DEF f
  <1>5. \E k \in Paid(cands) : \A l \in Paid(cands) : f[l] <= f[k]
    BY <1>3, <1>4, GreatestOf
  <1>6. \E k \in Paid(cands) : Best(k)
    BY <1>5 DEF f, Paid
  <1> DEFINE b == CHOOSE k \in Paid(cands) : Best(k)
  <1>7. b \in Paid(cands) /\ Best(b)
    BY <1>6
  <1>8. Eligible(cands) = cands[b]
    BY DEF Eligible
  <1>9. b \in DOMAIN cands
    BY <1>7 DEF Paid
  <1> QED
    BY <1>1, <1>7, <1>8, <1>9

LEMMA SelectedFacts ==
    ASSUME NEW r \in StateType, r.cands # <<>>, r.cands[1] = Initial
    PROVE  LET d == Selected(r)
           IN  /\ d \in StateType /\ d.cands = r.cands /\ d.attempts = r.attempts /\ d.log = r.log
               /\ d.selected = Eligible(r.cands) /\ d.status \in {r.status, "failed"}
               /\ d.status # "training"
  <1> DEFINE st == IF r.status = "training" THEN "failed" ELSE r.status
             el == Eligible(r.cands)
             b == [r EXCEPT !.status = st]
             d == [b EXCEPT !.selected = el]
  <1>1. r.cands \in Seq(Candidates) /\ r.status \in StateStatuses
    BY DEF StateType
  <1>2. el \in Candidates
    BY <1>1, EligibleFacts
  <1>3. st \in StateStatuses /\ st \in {r.status, "failed"} /\ st # "training"
    BY <1>1 DEF StateStatuses
  <1>4. Selected(r) = d
    BY DEF Selected
  <1> HIDE DEF st, el
  <1>5. b = [attempts |-> r.attempts, status |-> st, cands |-> r.cands, selected |-> r.selected, log |-> r.log]
    BY DEF StateType
  <1> HIDE DEF b
  <1>6. d = [attempts |-> r.attempts, status |-> st, cands |-> r.cands, selected |-> el, log |-> r.log]
    BY <1>5
  <1>7. d \in StateType
    BY <1>2, <1>3, <1>6 DEF StateType
  <1> QED
    BY <1>3, <1>4, <1>6, <1>7 DEF el

\* A selection leaves a training what it was, or fails it.
LEMMA KeptTraining ==
    ASSUME rows' = rows, NEW n \in DOMAIN train, TrainOf(n), train'[n].cands = train[n].cands,
           train'[n].attempts = train[n].attempts, train'[n].log = train[n].log,
           train'[n].status \in {train[n].status, "failed"}
    PROVE  TrainOf(n)'
  <1>1. ASSUME NEW c \in DOMAIN train[n].cands \ {1}
        PROVE  CandidateOf(n, c)'
    <2>1. CandidateOf(n, c)
      BY DEF TrainOf
    <2> QED
      BY <2>1 DEF CandidateOf
  <1>2. ASSUME train'[n].status # "failed"
        PROVE  Unfailed(n)'
    <2>1. Unfailed(n)
      BY <1>2 DEF TrainOf
    <2> QED
      BY <2>1 DEF Unfailed
  <1> QED
    BY <1>1, <1>2 DEF TrainOf

LEMMA SeedClosesStep ==
    ASSUME PlaceInv, Honest, SeedCloses
    PROVE  Honest'
  <1> DEFINE closed == [n \in DOMAIN train |-> IF n \in OfSeed(ctl.i) THEN Selected(train[n]) ELSE train[n]]
  <1>1. /\ ctl.pc = "train" /\ ~Busy /\ UNCHANGED <<inputs, rows, seal, ends, result, verdict>>
        /\ \/ ~Paired(closed, ctl.i) /\ ctl' = Raised /\ train' = closed
           \/ /\ Paired(closed, ctl.i) /\ ctl.i < Seeds
              /\ ctl' = At("train", ctl.i + 1, 1) /\ train' = OpensSeed(closed, ctl.i + 1)
           \/ Paired(closed, ctl.i) /\ ctl.i >= Seeds /\ ctl' = At("seal", 1, 1) /\ train' = closed
    BY Sizes DEF SeedCloses, Honest, CountInv
  <1>2. /\ rows \in Seq(RowType) /\ train \in Seq(StateType) /\ ctl \in CtlType
        /\ ctl.i \in 1 .. Seeds /\ Len(train) = ctl.i * A /\ ~ctl.erred
        /\ DOMAIN train = 1 .. ctl.i * A
    BY <1>1 DEF Honest, ShapeInv, CountInv, PlaceInv
  <1>3. /\ ctl.i * A \in Nat \ {0} /\ A \in Nat \ {0} /\ OfSeed(ctl.i) \subseteq DOMAIN train
        /\ (ctl.i + 1) * A = ctl.i * A + A
    <2>1. ctl.i * A \in Nat \ {0} /\ A \in Nat \ {0} /\ ctl.i * A = (ctl.i - 1) * A + A
          /\ (ctl.i - 1) * A \in Nat /\ OfSeed(ctl.i) = (ctl.i - 1) * A + 1 .. ctl.i * A
      BY <1>2, SeedSizes, Sizes
    <2>2. OfSeed(ctl.i) \subseteq DOMAIN train
      BY <1>2, <2>1
    <2>3. (ctl.i + 1) * A = ctl.i * A + A
      BY <1>2, <2>1
    <2> QED
      BY <2>1, <2>2, <2>3
  <1>4. ASSUME NEW n \in DOMAIN train
        PROVE  /\ closed[n] \in StateType /\ closed[n].cands = train[n].cands
               /\ closed[n].attempts = train[n].attempts /\ closed[n].log = train[n].log
               /\ closed[n].status \in {train[n].status, "failed"}
               /\ n \in OfSeed(ctl.i) => closed[n].selected = Eligible(closed[n].cands)
               /\ n \notin OfSeed(ctl.i) => closed[n] = train[n]
    <2>1. train[n] \in StateType /\ train[n].cands # <<>> /\ train[n].cands[1] = Initial
      BY <1>2 DEF Honest, TrainInv, TrainOf
    <2>2. LET d == Selected(train[n])
          IN  /\ d \in StateType /\ d.cands = train[n].cands
              /\ d.attempts = train[n].attempts /\ d.log = train[n].log
              /\ d.selected = Eligible(train[n].cands) /\ d.status \in {train[n].status, "failed"}
      BY <2>1, SelectedFacts
    <2> QED
      BY <2>1, <2>2
  <1>5. closed \in Seq(StateType) /\ Len(closed) = ctl.i * A /\ DOMAIN closed = 1 .. ctl.i * A
    <2>1. DOMAIN closed = 1 .. ctl.i * A
      BY <1>2
    <2>2. \A n \in 1 .. ctl.i * A : closed[n] \in StateType
      BY <1>2, <1>4
    <2>3. PICK m \in Nat : m = ctl.i * A
      BY <1>3
    <2>4. closed = [n \in 1 .. m |-> IF n \in OfSeed(ctl.i) THEN Selected(train[n]) ELSE train[n]]
      BY <1>2, <2>3
    <2>5. \A n \in 1 .. m : (IF n \in OfSeed(ctl.i) THEN Selected(train[n]) ELSE train[n]) \in StateType
      BY <2>1, <2>2, <2>3
    <2>6. closed \in Seq(StateType) /\ Len(closed) = m
      BY <2>3, <2>4, <2>5
    <2> QED
      BY <2>1, <2>3, <2>6
  <1> HIDE DEF closed
  <1>6. /\ train' \in Seq(StateType) /\ DOMAIN train \subseteq DOMAIN train'
        /\ \A n \in DOMAIN train : train'[n] = closed[n]
        /\ \A n \in DOMAIN train' : n \notin DOMAIN train => train'[n] = NewState(n)
        /\ \/ ctl'.pc = "raise" /\ ctl'.erred
           \/ /\ ctl.i < Seeds /\ ctl'.pc = "train" /\ ctl'.i = ctl.i + 1 /\ ctl'.j = 1 /\ ctl'.erred = ctl.erred
              /\ Paired(closed, ctl.i) /\ Len(train') = (ctl.i + 1) * A
           \/ /\ ctl.i = Seeds /\ ctl'.pc = "seal" /\ ctl'.erred = ctl.erred
              /\ Paired(closed, ctl.i) /\ Len(train') = Seeds * A
    <2>1. CASE ctl' = Raised /\ train' = closed
      BY <1>2, <1>5, <2>1, RaisedFacts
    <2>2. CASE Paired(closed, ctl.i) /\ ctl.i < Seeds
               /\ ctl' = At("train", ctl.i + 1, 1) /\ train' = OpensSeed(closed, ctl.i + 1)
      <3>1. ctl.i + 1 \in 1 .. Seeds /\ ctl.i * A \in 0 .. (ctl.i + 1) * A
        BY <1>2, <1>3, <2>2, Sizes
      <3>2. PICK s \in 1 .. Seeds : s = ctl.i + 1
        BY <3>1
      <3>3. PICK m \in 0 .. s * A : m = ctl.i * A
        BY <3>1, <3>2
      <3>4. DOMAIN closed = 1 .. m /\ \A n \in 1 .. m : closed[n] \in StateType
        BY <1>2, <1>4, <1>5, <3>3
      <3>5. /\ train' \in Seq(StateType) /\ Len(train') = s * A /\ DOMAIN train' = 1 .. s * A
            /\ \A n \in 1 .. m : train'[n] = closed[n]
            /\ \A n \in 1 .. s * A : n > m => train'[n] = NewState(n)
        BY <2>2, <3>2, <3>4, OpensSeedFacts
      <3>6. Placed(ctl, ctl', "train", ctl.i + 1, 1)
        BY <1>2, <2>2, AtFacts DEF Pcs
      <3>7. DOMAIN train = 1 .. m /\ m <= s * A /\ s * A \in Nat
        BY <1>2, <1>3, <3>2, <3>3, Sizes
      <3>8. \A n \in 1 .. s * A : n \notin 1 .. m => n > m
        BY <3>7
      <3>9. 1 .. m \subseteq 1 .. s * A
        BY <3>7
      <3> QED
        BY <2>2, <3>2, <3>5, <3>6, <3>7, <3>8, <3>9 DEF Placed
    <2>3. CASE Paired(closed, ctl.i) /\ ctl.i >= Seeds /\ ctl' = At("seal", 1, 1) /\ train' = closed
      <3>1. Placed(ctl, ctl', "seal", 1, 1)
        BY <1>2, <2>3, AtFacts DEF Pcs
      <3>2. ctl.i = Seeds
        BY <1>2, <2>3, Sizes
      <3> QED
        BY <1>2, <1>5, <2>3, <3>1, <3>2 DEF Placed
    <2> QED
      BY <1>1, <2>1, <2>2, <2>3
  <1>7. ~Sealed /\ ctl.pc \in BeforeSeal /\ ctl'.pc \in BeforeSeal \cup {"seal", "raise"}
    BY <1>1, <1>6 DEF PlaceInv, AfterSeal, BeforeSeal
  <1>8. ~Sealed' /\ SealInv' /\ EvaluationInv' /\ ResultInv' /\ VerdictInv'
    BY <1>1, <1>7, EarlyRest
  <1>9. RowsInv' /\ Later
    BY <1>1, SameRows DEF Honest
  <1>10. ShapeInv'
    BY <1>1, <1>6, <1>8, <1>9 DEF Honest, ShapeInv, Later
  <1>11. CountInv'
    <2>1. ~Busy'
      BY <1>1 DEF Busy, Last
    <2>2. ctl.i < Seeds => ctl.i + 1 \in 1 .. Seeds
      BY <1>2, Sizes
    <2>3. 1 \in 1 .. Turns + 1
      BY Sizes
    <2>4. inputs' = "whole"
      BY <1>1 DEF Honest, CountInv
    <2> QED
      BY <1>2, <1>6, <1>8, <2>1, <2>2, <2>3, <2>4 DEF CountInv, AfterSeal
  <1>12. OrderInv'
    BY <1>1, <1>6, <1>7, <1>8 DEF Honest, OrderInv
  <1>13. TrainInv'
    <2>1. ASSUME NEW n \in DOMAIN train
          PROVE  TrainOf(n)'
      <3>1. TrainOf(n)
        BY DEF Honest, TrainInv
      <3> QED
        BY <1>1, <1>4, <1>6, <3>1, KeptTraining
    <2>2. ASSUME NEW n \in DOMAIN train', n \notin DOMAIN train
          PROVE  TrainOf(n)'
      <3>1. TrainingRows(rows', n) = {}
        BY <1>1, <2>2 DEF Honest, OrderInv, TrainingRows
      <3> QED
        BY <1>6, <2>2, <3>1, NewTraining
    <2> QED
      BY <2>1, <2>2 DEF TrainInv
  <1>14. SelectInv'
    <2>1. ASSUME NEW s \in 1 .. Seeds, Through(s)'
          PROVE  /\ \A n \in OfSeed(s) : train'[n].selected = Eligible(train'[n].cands)
                 /\ Paired(train', s)
      <3>1. s <= ctl.i /\ Paired(closed, ctl.i)
        <4>1. ctl'.pc # "raise"
          BY <1>8, <2>1 DEF Through
        <4> QED
          BY <1>2, <1>6, <1>8, <2>1, <4>1, Sizes DEF Through
      <3>2. CASE s = ctl.i
        <4>1. \A n \in OfSeed(s) : train'[n] = closed[n] /\ closed[n].selected = Eligible(closed[n].cands)
          BY <1>3, <1>4, <1>6, <3>2
        <4>2. Paired(train', s) = Paired(closed, s)
          BY <4>1, PairedSame
        <4> QED
          BY <3>1, <3>2, <4>1, <4>2
      <3>3. CASE s < ctl.i
        <4>1. Through(s)
          BY <1>1, <3>3 DEF Through
        <4>2. \A n \in OfSeed(s) : n \in DOMAIN train /\ n \notin OfSeed(ctl.i)
          <5>1. ctl.i * A \in Nat /\ (ctl.i - 1) * A \in Nat /\ ctl.i * A = (ctl.i - 1) * A + A /\ A \in Nat
            BY <1>2, SeedSizes, Sizes
          <5>2. OfSeed(s) = (s - 1) * A + 1 .. s * A /\ (s - 1) * A \in Nat
            BY SeedSizes
          <5>3. \A n \in OfSeed(s) : n \notin OfSeed(ctl.i) /\ n \in Nat /\ n <= (ctl.i - 1) * A
            BY <1>2, <3>3, SeedsApart
          <5>4. \A n \in OfSeed(s) : n \in 1 .. ctl.i * A
            BY <5>1, <5>2, <5>3
          <5> QED
            BY <1>2, <5>3, <5>4
        <4>3. \A n \in OfSeed(s) : train'[n] = train[n]
          BY <1>4, <1>6, <4>2
        <4>4. Paired(train', s) = Paired(train, s)
          BY <4>3, PairedSame
        <4> QED
          BY <4>1, <4>3, <4>4 DEF Honest, SelectInv
      <3> QED
        BY <1>2, <3>1, <3>2, <3>3
    <2> QED
      BY <2>1 DEF SelectInv
  <1>st. StageInv'
    BY <1>1, StageSame DEF Honest
  <1> QED
    BY <1>8, <1>9, <1>10, <1>11, <1>12, <1>13, <1>14, <1>st DEF Honest

--------------------------------------------------------------------------------
(* The seal, and the processes under it.                                    *)

LEMMA SealsStep ==
    ASSUME PlaceInv, Honest, Seals
    PROVE  Honest'
  <1>1. /\ ctl.pc = "seal" /\ UNCHANGED <<inputs, rows, train, ends, result, verdict>>
        /\ seal' = [ver |-> 0, training |-> train, choices |-> SealedChoices(train), before |-> Len(rows)]
    BY DEF Seals
  <1>2. Placed(ctl, ctl', "evaluate", 1, 1)
    BY AtFacts DEF Seals, PlaceInv, Pcs
  <1>3. /\ rows \in Seq(RowType) /\ train \in Seq(StateType) /\ Len(rows) \in Nat /\ DOMAIN rows = 1 .. Len(rows)
        /\ ~Busy /\ ~Sealed /\ ~ctl.erred /\ Len(train) = Seeds * A /\ inputs = "whole"
    BY <1>1, RowsTyped DEF Honest, ShapeInv, RowsInv, CountInv, PlaceInv, AfterSeal
  <1>4. result = None /\ verdict = None
    BY <1>1 DEF Honest, ResultInv, PlaceInv, Ended
  <1>5. SealedChoices(train) \in Seq(ChoiceType)
    <2>1. PICK m \in Nat : m = Len(train) /\ DOMAIN train = 1 .. m
      BY <1>3
    <2>2. \A n \in 1 .. m : [status |-> train[n].status, selected |-> train[n].selected] \in ChoiceType
      BY <1>3, <2>1, StateTyped DEF StateType, ChoiceType
    <2>3. SealedChoices(train) = [n \in 1 .. m |-> [status |-> train[n].status, selected |-> train[n].selected]]
      BY <2>1 DEF SealedChoices
    <2> QED
      BY <2>2, <2>3
  <1>6. /\ seal' \in SealType /\ seal'.ver = 0 /\ seal'.before = Len(rows) /\ seal'.training = train
        /\ seal'.choices = SealedChoices(train)
    BY <1>1, <1>3, <1>5 DEF SealType
  <1>7. Sealed' /\ seal' # None
    BY <1>6, NotNothing DEF Sealed
  <1>8. RowsInv' /\ Later
    BY <1>1, <1>3, SameRows DEF Honest
  <1>9. ShapeInv'
    BY <1>1, <1>3, <1>6, <1>7 DEF Honest, ShapeInv
  <1>10. CountInv'
    BY <1>1, <1>2, <1>3, <1>7 DEF CountInv, Placed
  <1>11. OrderInv'
    <2>1. \A k \in DOMAIN rows : rows[k].status # "running" /\ ~(k > seal'.before)
      BY <1>3, <1>6 DEF Honest, RowsInv, Busy, Last
    <2>2. Len(rows) >= Len(Binaries)
      BY <1>1 DEF Honest, OrderInv
    <2> QED
      BY <1>1, <1>2, <1>3, <2>1, <2>2 DEF Honest, OrderInv
  <1>12. TrainInv'
    BY <1>1, <1>8, TrainKept DEF Honest
  <1>13. SelectInv'
    BY <1>1, SelectKept DEF Honest, Through
  <1>14. SealInv'
    BY <1>1, <1>6 DEF SealInv, SealedChoices
  <1>15. EvaluationInv'
    <2>1. ctl'.i = 1 /\ ctl'.j = 1 /\ ctl'.pc = "evaluate" /\ ~ctl'.erred /\ Underway' = 0
      BY <1>1, <1>2, <1>3 DEF Placed, Underway, Busy, Last
    <2>2. \A k \in DOMAIN rows' : ~(k > seal'.before)
      BY <1>1, <1>3, <1>6
    <2>3. EvaluatedTo(0, 0)'
      BY <2>2 DEF EvaluatedTo
    <2>4. Len(rows') = seal'.before + 0 /\ 5 * (1 - 1) = 0 /\ Len(Family) = 5
      BY <1>1, <1>3, <1>6, FamilyFacts
    <2> QED
      BY <1>3, <1>6, <2>1, <2>2, <2>3, <2>4 DEF EvaluationInv
  <1>16. ResultInv' /\ VerdictInv'
    BY <1>1, <1>2, <1>4 DEF ResultInv, VerdictInv, Placed
  <1>st. StageInv'
    BY <1>1, StageSame DEF Honest
  <1> QED
    BY <1>8, <1>9, <1>10, <1>11, <1>12, <1>13, <1>14, <1>15, <1>16, <1>st DEF Honest

LEMMA Fives ==
    ASSUME NEW m \in Nat, NEW r \in 0 .. 4
    PROVE  (5 * m + r) \div 5 = m /\ (5 * m + r) % 5 = r
  OBVIOUS

\* Under the seal nothing that was trained or selected changes.
LEMMA LateRest ==
    ASSUME PlaceInv, Honest, Sealed, UNCHANGED <<inputs, train, seal, result, verdict>>, Later,
           ctl.pc \in {"evaluate", "gold"}, ctl'.pc \in {"evaluate", "gold", "result"},
           \A k \in DOMAIN rows' : rows'[k].stage = "training" => (k \in DOMAIN rows /\ rows'[k] = rows[k])
    PROVE  /\ Sealed' /\ TrainInv' /\ SelectInv' /\ SealInv' /\ ResultInv' /\ VerdictInv' /\ CountInv'
  <1>1. result = None /\ verdict = None
    BY DEF Honest, ResultInv, PlaceInv, Ended
  <1>2. Sealed' /\ SealInv'
    BY DEF Sealed, Honest, SealInv, SealedChoices
  <1>3. TrainInv'
    BY TrainKept DEF Honest
  <1>4. SelectInv'
    BY SelectKept DEF Honest, Through, Sealed
  <1>5. CountInv'
    BY <1>2 DEF Honest, CountInv
  <1>6. ResultInv' /\ VerdictInv'
    BY <1>1 DEF ResultInv, VerdictInv
  <1> QED
    BY <1>2, <1>3, <1>4, <1>5, <1>6

\* What was evaluated stays so.
LEMMA EvaluatedKept ==
    ASSUME NEW m \in Nat, NEW j \in Nat, EvaluatedTo(m, j), UNCHANGED <<train, seal>>,
           \A n \in 1 .. m : ends'[n] = ends[n],
           \A k \in DOMAIN rows' : k > seal.before /\ k <= seal.before + Len(Family) * m + j =>
              k \in DOMAIN rows /\ rows'[k].owner = rows[k].owner /\ rows'[k].stage = rows[k].stage
    PROVE  EvaluatedTo(m, j)'
  <1>1. ASSUME NEW k \in DOMAIN rows', k > seal'.before, k <= seal'.before + Len(Family) * m + j
        PROVE  EndRow(k)'
    <2>1. k \in DOMAIN rows /\ rows'[k].owner = rows[k].owner /\ rows'[k].stage = rows[k].stage /\ EndRow(k)
      BY <1>1 DEF EvaluatedTo
    <2> QED
      BY <2>1 DEF EndRow
  <1>2. \A n \in 1 .. m : SealedEnd(n)'
    BY DEF EvaluatedTo, SealedEnd
  <1> QED
    BY <1>1, <1>2 DEF EvaluatedTo

\* A process that failed under the seal has failed for good.
LEMMA BrokenKept ==
    ASSUME Later, Broken, seal' = seal, rows \in Seq(RowType)
    PROVE  Broken'
  <1>1. PICK k \in DOMAIN rows : k > seal.before /\ rows[k].status \in {"failed", "skipped"}
    BY DEF Broken
  <1>2. k \in DOMAIN rows' /\ rows'[k] = rows[k]
    BY <1>1 DEF Later
  <1> QED
    BY <1>1, <1>2 DEF Broken

\* Under the seal a process starts with it, and is none of the training.
LEMMA OpenUnder ==
    ASSUME PlaceInv, Honest, Sealed, ctl' = ctl, ctl.pc \in {"evaluate", "gold"},
           UNCHANGED <<inputs, train, seal, ends, result, verdict>>,
           NEW owner \in Owners \cup {0}, NEW stage \in EndStages \cup {"exact-parser"}, Opens(owner, stage),
           stage \in EndStages => owner \in Owners
    PROVE  /\ ShapeInv' /\ CountInv' /\ RowsInv' /\ OrderInv' /\ StageInv' /\ TrainInv' /\ SelectInv' /\ SealInv'
           /\ ResultInv' /\ VerdictInv'
           /\ Len(rows') = Len(rows) + 1 /\ Len(rows) \in Nat /\ DOMAIN rows = 1 .. Len(rows) /\ Later
           /\ DOMAIN rows' = 1 .. Len(rows) + 1
           /\ \A k \in DOMAIN rows : rows'[k] = rows[k]
           /\ rows'[Len(rows) + 1].owner = owner /\ rows'[Len(rows) + 1].stage = stage
           /\ rows'[Len(rows) + 1].status = "running"
           /\ ~Busy /\ Busy' /\ seal.before \in 0 .. Len(rows)
  <1>1. /\ rows \in Seq(RowType) /\ seal \in SealType /\ seal.before \in 0 .. Len(rows)
        /\ (seal = None \/ seal.ver \in Nat)
    BY DEF Honest, ShapeInv, Sealed, SealType
  <1>2. stage \in Stages /\ stage \notin {"compile", "training"}
    BY FamilyFacts DEF Stages
  <1>3. /\ Later /\ Len(rows') = Len(rows) + 1 /\ Busy'
        /\ DOMAIN rows' = 1 .. Len(rows) + 1
        /\ \A k \in DOMAIN rows : rows'[k] = rows[k]
    BY <1>1, <1>2, OpensFacts
  <1>4. /\ rows'[Len(rows) + 1].owner = owner /\ rows'[Len(rows) + 1].stage = stage
        /\ rows'[Len(rows) + 1].status = "running" /\ rows'[Len(rows) + 1].seal = seal.ver
    BY <1>1, <1>2, OpensFacts
  <1>5. Len(rows) \in Nat /\ DOMAIN rows = 1 .. Len(rows) /\ ~Busy
    BY <1>1, RowsTyped DEF Opens
  <1>6. \A k \in DOMAIN rows' : k \in DOMAIN rows \/ k = Len(rows) + 1
    BY <1>3, <1>5
  <1>7. \A k \in DOMAIN rows' : rows'[k].stage = "training" => (k \in DOMAIN rows /\ rows'[k] = rows[k])
    BY <1>2, <1>3, <1>4, <1>6
  <1>8. Sealed' /\ TrainInv' /\ SelectInv' /\ SealInv' /\ ResultInv' /\ VerdictInv' /\ CountInv'
    BY <1>3, <1>7, LateRest
  <1>9. RowsInv'
    BY <1>2, OpenRows DEF Honest
  <1>10. ShapeInv'
    <2>1. rows' \in Seq(RowType) /\ seal.before \in 0 .. Len(rows')
      BY <1>1, <1>3, <1>5 DEF Later
    <2> QED
      BY <2>1 DEF Honest, ShapeInv, Sealed
  <1>11. OrderInv'
    <2>1. /\ \A k \in DOMAIN rows' : (rows'[k].stage = "compile") => k <= Len(Binaries) /\ rows'[k].owner = 0
          /\ Len(rows) >= Len(Binaries) /\ Len(Binaries) = 5
      BY <1>2, <1>3, <1>4, <1>6, FamilyFacts DEF Honest, OrderInv
    <2>2. \A k \in DOMAIN rows' : k <= Len(Binaries) => rows'[k].stage = "compile"
      BY <1>3, <1>5, <1>6, <2>1 DEF Honest, OrderInv
    <2>3. \A k \in DOMAIN rows' : rows'[k].stage = "training" => rows'[k].owner \in DOMAIN train'
      BY <1>7 DEF Honest, OrderInv
    <2>4. ASSUME NEW k \in DOMAIN rows'
          PROVE  IF Sealed' /\ k > seal'.before
                 THEN rows'[k].seal = seal'.ver /\ rows'[k].stage \in EndStages \cup {"exact-parser"}
                 ELSE /\ rows'[k].seal = None /\ rows'[k].stage \in {"compile", "training"}
                      /\ Sealed' => rows'[k].status # "running"
      <3>1. CASE k \in DOMAIN rows
        BY <1>3, <1>8, <3>1 DEF Honest, OrderInv
      <3>2. CASE k = Len(rows) + 1
        BY <1>1, <1>4, <1>5, <1>8, <3>2
      <3> QED
        BY <1>6, <3>1, <3>2
    <2>5. Len(rows') >= Len(Binaries)
      BY <1>3, <1>5, <2>1
    <2> QED
      BY <2>1, <2>2, <2>3, <2>4, <2>5 DEF OrderInv
  <1>12. StageInv'
    BY <1>2, StageOpens DEF Honest
  <1> QED
    BY <1>1, <1>3, <1>4, <1>5, <1>8, <1>9, <1>10, <1>11, <1>12

\* Under the seal a process ends.
LEMMA CloseUnder ==
    ASSUME PlaceInv, Honest, Sealed, ctl.pc \in {"evaluate", "gold"}, ctl'.pc \in {"evaluate", "gold", "result"},
           UNCHANGED <<inputs, train, seal, result, verdict>>, Closes
    PROVE  /\ RowsInv' /\ OrderInv' /\ StageInv' /\ TrainInv' /\ SelectInv' /\ SealInv' /\ CountInv'
           /\ ResultInv' /\ VerdictInv' /\ Sealed' /\ Later
           /\ Len(rows') = Len(rows) /\ Len(rows) \in Nat /\ DOMAIN rows = 1 .. Len(rows) /\ DOMAIN rows' = DOMAIN rows
           /\ rows' \in Seq(RowType)
           /\ \A k \in DOMAIN rows : rows'[k].owner = rows[k].owner /\ rows'[k].stage = rows[k].stage
           /\ \A k \in DOMAIN rows : k # Len(rows) => rows'[k] = rows[k]
           /\ Busy /\ ~Busy' /\ seal.before \in 0 .. Len(rows) /\ Len(rows) > seal.before
  <1>1. /\ rows \in Seq(RowType) /\ seal.before \in 0 .. Len(rows)
    BY DEF Honest, ShapeInv
  <1>2. /\ Later /\ ~Busy' /\ DOMAIN rows' = DOMAIN rows /\ DOMAIN rows = 1 .. Len(rows)
        /\ Len(rows) \in Nat \ {0} /\ Len(rows') = Len(rows)
        /\ \A k \in DOMAIN rows : k # Len(rows) => rows'[k] = rows[k]
        /\ rows'[Len(rows)].owner = rows[Len(rows)].owner /\ rows'[Len(rows)].stage = rows[Len(rows)].stage
        /\ rows[Len(rows)].status = "running"
    BY <1>1, ClosesFacts
  <1>3. Len(rows) \in DOMAIN rows /\ Len(rows) > seal.before /\ rows[Len(rows)].stage \in EndStages \cup {"exact-parser"}
    <2>1. Len(rows) \in DOMAIN rows
      BY <1>2
    <2>2. Len(rows) > seal.before
      BY <1>1, <1>2, <2>1 DEF Honest, OrderInv
    <2> QED
      BY <2>1, <2>2 DEF Honest, OrderInv
  <1>4. \A k \in DOMAIN rows' : rows'[k].stage = "training" => (k \in DOMAIN rows /\ rows'[k] = rows[k])
    BY <1>2, <1>3, FamilyFacts
  <1>5. Sealed' /\ TrainInv' /\ SelectInv' /\ SealInv' /\ ResultInv' /\ VerdictInv' /\ CountInv'
    BY <1>2, <1>4, LateRest
  <1>6. RowsInv'
    BY CloseRows DEF Honest
  <1>7. OrderInv'
    <2>1. Len(rows) >= Len(Binaries)
      BY DEF Honest, OrderInv
    <2> QED
      BY <2>1, OrderCloses DEF Honest
  <1>8. \A k \in DOMAIN rows : rows'[k].owner = rows[k].owner /\ rows'[k].stage = rows[k].stage
    BY <1>2
  <1>9. StageInv'
    <2>1. Last.stage # "compile"
      BY <1>3, FamilyFacts DEF Last
    <2> QED
      BY <2>1, StageCloses DEF Honest
  <1> QED
    BY <1>1, <1>2, <1>3, <1>5, <1>6, <1>7, <1>8, <1>9 DEF Closes

LEMMA EvaluateStartsStep ==
    ASSUME PlaceInv, Honest, EvaluateStarts
    PROVE  Honest'
  <1>1. /\ ctl.pc = "evaluate" /\ Opens(ctl.i, Family[ctl.j])
        /\ UNCHANGED <<inputs, ctl, train, seal, ends, result, verdict>>
    BY DEF EvaluateStarts, Starts, Opens, trial
  <1>2. Sealed /\ ctl.i \in Owners /\ ctl.j \in 1 .. 5 /\ Family[ctl.j] \in EndStages
    BY <1>1, FamilyFacts DEF Honest, CountInv, PlaceInv, AfterSeal
  <1>3. PICK owner \in Owners \cup {0}, stage \in EndStages \cup {"exact-parser"} :
           owner = ctl.i /\ stage = Family[ctl.j] /\ Opens(owner, stage)
    BY <1>1, <1>2
  <1>4. /\ ShapeInv' /\ CountInv' /\ RowsInv' /\ OrderInv' /\ StageInv' /\ TrainInv' /\ SelectInv' /\ SealInv'
        /\ ResultInv' /\ VerdictInv'
        /\ Len(rows') = Len(rows) + 1 /\ Len(rows) \in Nat /\ DOMAIN rows = 1 .. Len(rows) /\ Later
        /\ DOMAIN rows' = 1 .. Len(rows) + 1
        /\ \A k \in DOMAIN rows : rows'[k] = rows[k]
        /\ rows'[Len(rows) + 1].owner = owner /\ rows'[Len(rows) + 1].stage = stage
        /\ rows'[Len(rows) + 1].status = "running"
        /\ ~Busy /\ Busy' /\ seal.before \in 0 .. Len(rows)
    BY <1>1, <1>2, <1>3, OpenUnder
  <1>5. PICK m \in Nat, r \in 0 .. 4 : m = ctl.i - 1 /\ r = ctl.j - 1 /\ m + 1 = ctl.i /\ r + 1 = ctl.j
    BY <1>2, Sizes
  <1>6. Underway = 0 /\ Underway' = 1 /\ Len(Family) = 5
    BY <1>4, FamilyFacts DEF Underway
  <1>7. Len(rows) >= seal.before + r
    BY <1>1, <1>4, <1>5, <1>6 DEF Honest, EvaluationInv
  <1>8. ctl.erred => Broken'
    <2>1. ctl.erred => Broken
      BY <1>2 DEF Honest, EvaluationInv
    <2> QED
      BY <1>1, <1>4, <2>1, BrokenKept DEF Honest, ShapeInv
  <1>9. ASSUME ~ctl.erred
        PROVE  /\ \A k \in DOMAIN rows' : k > seal.before => rows'[k].status \in {"complete", "running"}
               /\ Len(rows') = seal.before + 5 * m + r + 1
               /\ EvaluatedTo(m, r + 1)'
    <2>1. /\ \A k \in DOMAIN rows : k > seal.before => rows[k].status \in {"complete", "running"}
          /\ Len(rows) = seal.before + 5 * m + r
          /\ EvaluatedTo(m, r)
      <3>1. /\ \A k \in DOMAIN rows : k > seal.before => rows[k].status \in {"complete", "running"}
            /\ Len(rows) = seal.before + Len(Family) * (ctl.i - 1) + ctl.j - 1 + Underway
            /\ EvaluatedTo(ctl.i - 1, ctl.j - 1 + Underway)
        BY <1>1, <1>2, <1>9 DEF Honest, EvaluationInv
      <3>2. ctl.i - 1 = m /\ ctl.j - 1 + Underway = r
        BY <1>5, <1>6
      <3>3. Len(rows) = seal.before + 5 * m + r
        <4>1. ctl.i \in Int /\ ctl.j \in Int /\ ctl.i - 1 = m /\ ctl.j - 1 = r
          BY <1>2, <1>5, Sizes
        <4>2. Len(Family) * (ctl.i - 1) = 5 * m
          BY <1>6, <4>1
        <4>3. Len(rows) = seal.before + 5 * m + ctl.j - 1 + 0
          BY ONLY <3>1, <4>2, <1>6
        <4>4. seal.before \in Int
          BY <1>4
        <4> QED
          BY ONLY <4>1, <4>3, <4>4
      <3> QED
        BY <3>1, <3>2, <3>3
    <2>2. \A k \in DOMAIN rows' : k \in DOMAIN rows \/ k = Len(rows) + 1
      BY <1>4
    <2>3. ASSUME NEW k, k = Len(rows) + 1
          PROVE  EndRow(k)'
      <3>1. k - seal'.before - 1 = 5 * m + r
        BY <1>1, <1>4, <2>1, <2>3
      <3>2. (5 * m + r) \div 5 = m /\ (5 * m + r) % 5 = r
        BY Fives
      <3> QED
        BY <1>3, <1>4, <1>5, <1>6, <2>3, <3>1, <3>2 DEF EndRow
    <2>4. ASSUME NEW k \in DOMAIN rows', k > seal'.before, k <= seal'.before + Len(Family) * m + (r + 1)
          PROVE  EndRow(k)'
      <3>1. CASE k = Len(rows) + 1
        BY <2>3, <3>1
      <3>2. CASE k \in DOMAIN rows
        <4>1. k > seal.before /\ k <= seal.before + Len(Family) * m + r
          BY <1>1, <1>4, <1>6, <2>1, <2>4, <3>2
        <4>2. EndRow(k)
          BY <2>1, <3>2, <4>1 DEF EvaluatedTo
        <4> QED
          BY <1>1, <1>4, <3>2, <4>2 DEF EndRow
      <3> QED
        BY <2>2, <2>4, <3>1, <3>2
    <2>5. \A n \in 1 .. m : SealedEnd(n)'
      BY <1>1, <2>1 DEF EvaluatedTo, SealedEnd
    <2>6. EvaluatedTo(m, r + 1)'
      BY <2>4, <2>5 DEF EvaluatedTo
    <2>7. \A k \in DOMAIN rows' : k > seal.before => rows'[k].status \in {"complete", "running"}
      BY <1>4, <2>1, <2>2
    <2> QED
      BY <1>4, <2>1, <2>6, <2>7
  <1>10. EvaluationInv'
    <2>1. ctl'.i - 1 = m /\ ctl'.j - 1 + Underway' = r + 1 /\ ctl'.pc = "evaluate" /\ seal' = seal
          /\ ctl'.erred = ctl.erred /\ ctl'.j = r + 1
      BY <1>1, <1>5, <1>6
    <2>2. Len(rows') >= seal'.before + ctl'.j - 1 + Underway'
      BY <1>4, <1>5, <1>6, <1>7, <2>1
    <2>3. ~ctl'.erred => Len(rows') = seal'.before + Len(Family) * (ctl'.i - 1) + ctl'.j - 1 + Underway'
      BY <1>4, <1>5, <1>6, <1>9, <2>1
    <2>4. ~ctl'.erred => EvaluatedTo(ctl.i - 1, ctl.j - 1 + Underway)'
      BY <1>9, <2>1
    <2> QED
      BY <1>8, <1>9, <2>1, <2>2, <2>3, <2>4 DEF EvaluationInv
  <1> QED
    BY <1>4, <1>10 DEF Honest

LEMMA EvaluateBreaksStep ==
    ASSUME PlaceInv, Honest, EvaluateBreaks
    PROVE  Honest'
  <1>1. /\ ctl.pc = "evaluate" /\ Breaks({0}) /\ ctl' = Erred(NextOwner)
        /\ UNCHANGED <<inputs, train, seal, ends, result, verdict>>
    BY DEF EvaluateBreaks, trial
  <1>2. Sealed /\ ctl.i \in Owners /\ ctl \in CtlType /\ rows \in Seq(RowType)
    BY <1>1 DEF Honest, CountInv, PlaceInv, ShapeInv, AfterSeal
  <1>3. Closes /\ rows'[Len(rows)].status \in {"failed", "skipped"}
    BY <1>1, <1>2, BreaksFacts
  <1>4. ctl'.erred /\ (ctl'.pc = "gold" \/ (ctl'.pc = "evaluate" /\ ctl'.j = 1))
    BY <1>1, <1>2, NextOwnerFacts, FieldFacts
  <1>5. /\ RowsInv' /\ OrderInv' /\ StageInv' /\ TrainInv' /\ SelectInv' /\ SealInv' /\ CountInv'
        /\ ResultInv' /\ VerdictInv' /\ Sealed'
        /\ Len(rows') = Len(rows) /\ Len(rows) \in Nat /\ DOMAIN rows = 1 .. Len(rows) /\ DOMAIN rows' = DOMAIN rows
        /\ rows' \in Seq(RowType)
        /\ Busy /\ ~Busy' /\ seal.before \in 0 .. Len(rows) /\ Len(rows) > seal.before
    BY <1>1, <1>2, <1>3, <1>4, CloseUnder
  <1>6. ShapeInv'
    BY <1>1, <1>5 DEF Honest, ShapeInv, Sealed
  <1>7. Broken'
    BY <1>1, <1>3, <1>5 DEF Broken
  <1>8. EvaluationInv'
    BY <1>1, <1>4, <1>5, <1>7 DEF EvaluationInv, Underway
  <1> QED
    BY <1>5, <1>6, <1>8 DEF Honest

\* The row of the first process is under the seal it is compared with.
LEMMA SealUnchangedFacts ==
    ASSUME PlaceInv, Honest, ctl.pc = "evaluate", ctl.j = 5, Busy
    PROVE  SealUnchanged
  <1>1. Sealed /\ rows \in Seq(RowType) /\ seal.before \in 0 .. Len(rows)
    BY DEF Honest, CountInv, ShapeInv, AfterSeal
  <1>2. Len(rows) >= seal.before + 5 - 1 + 1
    BY DEF Honest, EvaluationInv, Underway
  <1>3. Len(rows) - 4 \in DOMAIN rows /\ Len(rows) - 4 > seal.before
    BY <1>1, <1>2, RowsTyped
  <1> QED
    BY <1>1, <1>3 DEF Honest, OrderInv, SealUnchanged

\* A process ends well under the seal.
LEMMA CompleteUnder ==
    ASSUME PlaceInv, Honest, Sealed, ctl.pc \in {"evaluate", "gold"}, NEW over \in BOOLEAN, Completes({0}, over)
    PROVE  Closes /\ rows'[Len(rows)].status = "complete"
  <1>1. Busy /\ \E c \in {0} : rows' = Bound("complete", c)
    BY DEF Completes
  <1>2. rows \in Seq(RowType)
    BY DEF Honest, ShapeInv
  <1> QED
    BY <1>1, <1>2, CompletesFacts

LEMMA EvaluateEndsStep ==
    ASSUME PlaceInv, Honest, EvaluateEnds
    PROVE  Honest'
  <1>1. PICK over \in BOOLEAN :
          /\ ctl.pc = "evaluate" /\ Completes({0}, over) /\ UNCHANGED <<inputs, train, seal, result, verdict>>
          /\ \/ ctl.j < Len(Family) /\ ctl' = Overs([ctl EXCEPT !.j = ctl.j + 1], over) /\ UNCHANGED ends
             \/ /\ ctl.j >= Len(Family)
                /\ \/ SealUnchanged /\ ctl' = Overs(NextOwner, over) /\ ends' = [ends EXCEPT ![ctl.i] = EndpointOf(ctl.i)]
                   \/ ~SealUnchanged
    BY FamilyFacts DEF EvaluateEnds, PlaceInv
  <1>2. Sealed /\ ctl.i \in Owners /\ ctl.j \in 1 .. 5 /\ ctl \in CtlType /\ rows \in Seq(RowType) /\ Len(Family) = 5
    BY <1>1, FamilyFacts DEF Honest, CountInv, PlaceInv, ShapeInv, AfterSeal
  <1>3. Closes /\ rows'[Len(rows)].status = "complete" /\ Busy
    BY <1>1, <1>2, CompleteUnder DEF Completes
  <1>4. /\ ctl'.erred = ctl.erred
        /\ \/ /\ ctl.j < 5 /\ ctl'.pc = "evaluate" /\ ctl'.i = ctl.i /\ ctl'.j = ctl.j + 1 /\ ends' = ends
           \/ /\ ctl.j = 5 /\ ends' = [ends EXCEPT ![ctl.i] = EndpointOf(ctl.i)]
              /\ \/ ctl.i < Seeds * A /\ ctl'.pc = "evaluate" /\ ctl'.i = ctl.i + 1 /\ ctl'.j = 1
                 \/ ctl.i = Seeds * A /\ ctl'.pc = "gold"
    <2>1. CASE ctl.j < Len(Family) /\ ctl' = Overs([ctl EXCEPT !.j = ctl.j + 1], over) /\ UNCHANGED ends
      <3> DEFINE d == [ctl EXCEPT !.j = ctl.j + 1]
      <3>1. d \in CtlType /\ d.j = ctl.j + 1 /\ d.pc = ctl.pc /\ d.i = ctl.i /\ d.erred = ctl.erred
        <4>1. ctl.j + 1 \in Nat
          BY <1>2
        <4> QED
          BY <1>2, <4>1, FieldFacts
      <3> HIDE DEF d
      <3>2. ctl' = Overs(d, over)
        BY <2>1 DEF d
      <3>3. ctl'.j = d.j /\ ctl'.pc = d.pc /\ ctl'.i = d.i /\ ctl'.erred = d.erred
        BY <3>1, <3>2, FieldFacts
      <3> QED
        BY <1>1, <1>2, <2>1, <3>1, <3>3
    <2>2. CASE ctl.j >= Len(Family)
      <3>1. ctl.j = 5 /\ SealUnchanged
        BY <1>1, <1>2, <1>3, <2>2, SealUnchangedFacts
      <3>2. ctl' = Overs(NextOwner, over) /\ ends' = [ends EXCEPT ![ctl.i] = EndpointOf(ctl.i)]
        BY <1>1, <1>2, <3>1
      <3>3. NextOwner \in CtlType /\ NextOwner.erred = ctl.erred
            /\ \/ ctl.i < Seeds * A /\ NextOwner.pc = "evaluate" /\ NextOwner.i = ctl.i + 1 /\ NextOwner.j = 1
               \/ ctl.i = Seeds * A /\ NextOwner.pc = "gold"
        BY <1>2, NextOwnerFacts
      <3>4. ctl'.j = NextOwner.j /\ ctl'.pc = NextOwner.pc /\ ctl'.i = NextOwner.i /\ ctl'.erred = NextOwner.erred
        BY <3>2, <3>3, FieldFacts
      <3> QED
        BY <3>1, <3>2, <3>3, <3>4
    <2> QED
      BY <1>1, <1>2, <2>1, <2>2
  <1>5. /\ RowsInv' /\ OrderInv' /\ StageInv' /\ TrainInv' /\ SelectInv' /\ SealInv' /\ CountInv'
        /\ ResultInv' /\ VerdictInv' /\ Sealed' /\ Later
        /\ Len(rows') = Len(rows) /\ Len(rows) \in Nat /\ DOMAIN rows = 1 .. Len(rows) /\ DOMAIN rows' = DOMAIN rows
        /\ rows' \in Seq(RowType)
        /\ \A k \in DOMAIN rows : rows'[k].owner = rows[k].owner /\ rows'[k].stage = rows[k].stage
        /\ \A k \in DOMAIN rows : k # Len(rows) => rows'[k] = rows[k]
        /\ ~Busy' /\ seal.before \in 0 .. Len(rows) /\ Len(rows) > seal.before
    BY <1>1, <1>2, <1>3, <1>4, CloseUnder
  <1>6. PICK m \in Nat, r \in 0 .. 4 : m = ctl.i - 1 /\ r = ctl.j - 1 /\ m + 1 = ctl.i /\ r + 1 = ctl.j
    BY <1>2, Sizes
  <1>7. Underway = 1 /\ Underway' = 0
    BY <1>3, <1>5 DEF Underway
  <1>8. Len(rows) >= seal.before + r + 1
    BY <1>1, <1>5, <1>6, <1>7 DEF Honest, EvaluationInv
  <1>9. ctl.erred => Broken'
    <2>1. ctl.erred => Broken
      BY <1>2 DEF Honest, EvaluationInv
    <2> QED
      BY <1>1, <1>2, <1>5, <2>1, BrokenKept
  <1>10. /\ EndpointOf(ctl.i) \in EndType /\ EndpointOf(ctl.i).whole = Cased
         /\ ends \in [Owners -> EndType \cup {None}]
    <2>1. train \in Seq(StateType) /\ Len(train) = Seeds * A /\ seal \in SealType /\ ends \in [Owners -> EndType \cup {None}]
      BY <1>2 DEF Honest, ShapeInv, CountInv, Sealed
    <2>2. ctl.i \in DOMAIN train
      BY <1>2, <2>1, Sizes
    <2>3. train[ctl.i].selected \in Candidates \cup {None} /\ seal.ver \in Nat
      BY <2>1, <2>2, StateTyped DEF StateType, SealType
    <2> QED
      BY <2>1, <2>3 DEF EndpointOf, EndType, Cased
  <1>11. ShapeInv'
    <2>1. ends' \in [Owners -> EndType \cup {None}] /\ \A n \in Owners : ends'[n] # None => ends'[n].whole = Cased
      BY <1>2, <1>4, <1>10 DEF Honest, ShapeInv
    <2> QED
      BY <1>1, <1>5, <2>1 DEF Honest, ShapeInv, Sealed
  <1>12. ASSUME ~ctl.erred
         PROVE  /\ \A k \in DOMAIN rows' : k > seal.before => rows'[k].status \in {"complete", "running"}
                /\ Len(rows') = seal.before + 5 * m + r + 1
                /\ r < 4 => EvaluatedTo(m, r + 1)'
                /\ r = 4 => EvaluatedTo(m + 1, 0)'
    <2>1. /\ \A k \in DOMAIN rows : k > seal.before => rows[k].status \in {"complete", "running"}
          /\ Len(rows) = seal.before + 5 * m + r + 1
          /\ EvaluatedTo(m, r + 1)
      <3>1. /\ \A k \in DOMAIN rows : k > seal.before => rows[k].status \in {"complete", "running"}
            /\ Len(rows) = seal.before + Len(Family) * (ctl.i - 1) + ctl.j - 1 + Underway
            /\ EvaluatedTo(ctl.i - 1, ctl.j - 1 + Underway)
        BY <1>1, <1>2, <1>12 DEF Honest, EvaluationInv
      <3>2. ctl.i - 1 = m /\ ctl.j - 1 + Underway = r + 1
        BY <1>6, <1>7
      <3>3. Len(rows) = seal.before + 5 * m + r + 1
        BY <1>2, <1>5, <1>6, <1>7, <3>1
      <3> QED
        BY <3>1, <3>2, <3>3
    <2>2. \A n \in 1 .. m : ends'[n] = ends[n]
      <3>1. \A n \in 1 .. m : n \in Owners /\ n # ctl.i
        BY <1>2, <1>6, Sizes
      <3> QED
        BY <1>4, <1>10, <3>1
    <2>3. EvaluatedTo(m, r + 1)'
      <3>1. PICK q \in Nat : q = r + 1
        OBVIOUS
      <3>2. EvaluatedTo(m, q)'
        BY <1>1, <1>5, <2>1, <2>2, <3>1, EvaluatedKept
      <3> QED
        BY <3>1, <3>2
    <2>4. ASSUME r = 4
          PROVE  EvaluatedTo(m + 1, 0)'
      <3>1. Len(Family) * m + (r + 1) = Len(Family) * (m + 1) + 0
        BY <1>2, <2>4
      <3>2. \A k \in DOMAIN rows' : k > seal'.before /\ k <= seal'.before + Len(Family) * (m + 1) + 0 => EndRow(k)'
        <4>1. seal'.before + Len(Family) * (m + 1) + 0 = seal'.before + Len(Family) * m + (r + 1)
          BY <1>1, <1>2, <1>5, <2>4
        <4> QED
          BY <2>3, <4>1 DEF EvaluatedTo
      <3>3. ASSUME NEW n \in 1 .. m + 1
            PROVE  SealedEnd(n)'
        <4>1. CASE n \in 1 .. m
          BY <2>3, <4>1 DEF EvaluatedTo
        <4>2. CASE n = m + 1
          <5>1. ends' = [ends EXCEPT ![ctl.i] = EndpointOf(ctl.i)] /\ n = ctl.i
            BY <1>4, <1>6, <2>4, <4>2
          <5>2. ends'[n] = EndpointOf(n) /\ EndpointOf(n) # None
            BY <1>1, <1>2, <1>10, <5>1, NotNothing
          <5>3. EndpointOf(n).seal = seal.ver /\ EndpointOf(n).model = train[n].selected
            BY DEF EndpointOf
          <5> QED
            BY <1>1, <1>5, <5>2, <5>3 DEF SealedEnd
        <4> QED
          BY <4>1, <4>2
      <3> QED
        BY <3>2, <3>3 DEF EvaluatedTo
    <2>5. \A k \in DOMAIN rows' : k > seal.before => rows'[k].status \in {"complete", "running"}
      BY <1>3, <1>5, <2>1
    <2> QED
      BY <1>5, <2>1, <2>3, <2>4, <2>5
  <1>13. EvaluationInv'
    <2>1. \/ r < 4 /\ ctl'.pc = "evaluate" /\ ctl'.i = m + 1 /\ ctl'.j = r + 2
          \/ r = 4 /\ ctl'.pc = "evaluate" /\ ctl'.i = m + 2 /\ ctl'.j = 1
          \/ r = 4 /\ ctl'.pc = "gold" /\ Seeds * A = m + 1
      BY <1>4, <1>6
    <2>2. ctl'.pc = "evaluate" => Len(rows') >= seal'.before + ctl'.j - 1 + Underway'
      BY <1>1, <1>5, <1>7, <1>8, <2>1
    <2>3. ASSUME ~ctl'.erred, ctl'.pc = "evaluate"
          PROVE  /\ Len(rows') = seal'.before + Len(Family) * (ctl'.i - 1) + ctl'.j - 1 + Underway'
                 /\ EvaluatedTo(ctl.i - 1, ctl.j - 1 + Underway)'
      <3>1. \/ r < 4 /\ ctl'.i - 1 = m /\ ctl'.j - 1 + Underway' = r + 1
            \/ r = 4 /\ ctl'.i - 1 = m + 1 /\ ctl'.j - 1 + Underway' = 0
        BY <1>7, <2>1, <2>3
      <3>2. EvaluatedTo(ctl.i - 1, ctl.j - 1 + Underway)'
        BY <1>4, <1>12, <2>3, <3>1
      <3>3. Len(rows') = seal.before + 5 * m + r + 1
        BY <1>4, <1>12, <2>3
      <3>4. Len(Family) * (ctl'.i - 1) = 5 * (ctl'.i - 1) /\ seal' = seal /\ Underway' = 0
        BY <1>1, <1>2, <1>7
      <3>5. 5 * (ctl'.i - 1) + ctl'.j - 1 = 5 * m + r + 1
        BY <2>1, <2>3
      <3>6. Len(rows') = seal.before + 5 * (ctl'.i - 1) + ctl'.j - 1 + 0
        <4>1. PICK b \in Nat, i \in Nat, j \in Nat : b = seal.before /\ i = ctl'.i /\ j = ctl'.j
          BY <1>5, <2>1, <2>3
        <4>2. 5 * (i - 1) + j - 1 = 5 * m + r + 1
          BY <3>5, <4>1
        <4>3. Len(rows') = b + 5 * m + r + 1
          BY <3>3, <4>1
        <4>4. Len(rows') = b + 5 * (i - 1) + j - 1 + 0
          BY ONLY <4>2, <4>3, b \in Nat, i \in Nat, j \in Nat, m \in Nat, r \in 0 .. 4
        <4> QED
          BY <4>1, <4>4
      <3> QED
        BY <3>2, <3>4, <3>6
    <2>4. ASSUME ~ctl'.erred, ctl'.pc = "gold"
          PROVE  /\ Len(rows') = seal'.before + Len(Family) * (Seeds * A) + Underway'
                 /\ EvaluatedTo(Seeds * A, 0)'
      <3>1. r = 4 /\ Seeds * A = m + 1 /\ Len(rows') = seal.before + 5 * m + r + 1 /\ EvaluatedTo(m + 1, 0)'
        BY <1>4, <1>12, <2>1, <2>4
      <3>2. Len(Family) * (Seeds * A) = 5 * m + 5
        BY <1>2, <3>1
      <3> QED
        BY <1>1, <1>5, <1>7, <3>1, <3>2
    <2>5. ~ctl'.erred => \A k \in DOMAIN rows' : k > seal'.before => rows'[k].status \in {"complete", "running"}
      BY <1>1, <1>4, <1>12
    <2>6. ctl'.pc \notin {"result", "check"} /\ (Sealed' /\ ctl'.erred => Broken')
      BY <1>4, <1>9
    <2> QED
      BY <1>5, <2>2, <2>3, <2>4, <2>5, <2>6 DEF EvaluationInv
  <1> QED
    BY <1>5, <1>11, <1>13 DEF Honest

LEMMA GoldStartsStep ==
    ASSUME PlaceInv, Honest, GoldStarts
    PROVE  Honest'
  <1>1. /\ ctl.pc = "gold" /\ Opens(0, "exact-parser")
        /\ UNCHANGED <<inputs, ctl, train, seal, ends, result, verdict>>
    BY DEF GoldStarts, Starts, Opens, trial
  <1>2. Sealed
    BY <1>1 DEF Honest, CountInv, AfterSeal
  <1>3. PICK owner \in Owners \cup {0}, stage \in EndStages \cup {"exact-parser"} :
           owner = 0 /\ stage = "exact-parser" /\ Opens(owner, stage) /\ stage \notin EndStages
    BY <1>1, FamilyFacts
  <1>4. /\ ShapeInv' /\ CountInv' /\ RowsInv' /\ OrderInv' /\ StageInv' /\ TrainInv' /\ SelectInv' /\ SealInv'
        /\ ResultInv' /\ VerdictInv'
        /\ Len(rows') = Len(rows) + 1 /\ Len(rows) \in Nat /\ DOMAIN rows = 1 .. Len(rows) /\ Later
        /\ DOMAIN rows' = 1 .. Len(rows) + 1
        /\ \A k \in DOMAIN rows : rows'[k] = rows[k]
        /\ rows'[Len(rows) + 1].owner = owner /\ rows'[Len(rows) + 1].stage = stage
        /\ rows'[Len(rows) + 1].status = "running"
        /\ ~Busy /\ Busy' /\ seal.before \in 0 .. Len(rows)
    BY <1>1, <1>2, <1>3, OpenUnder
  <1>5. Underway = 0 /\ Underway' = 1 /\ Len(Family) = 5 /\ Seeds * A \in Nat
    BY <1>4, FamilyFacts, Sizes DEF Underway
  <1>6. ctl.erred => Broken'
    <2>1. ctl.erred => Broken
      BY <1>2 DEF Honest, EvaluationInv
    <2> QED
      BY <1>1, <1>4, <2>1, BrokenKept DEF Honest, ShapeInv
  <1>7. GoldRow(Len(rows))'
    BY <1>3, <1>4 DEF GoldRow
  <1>8. ASSUME ~ctl.erred
        PROVE  /\ \A k \in DOMAIN rows' : k > seal.before => rows'[k].status \in {"complete", "running"}
               /\ Len(rows') = seal.before + Len(Family) * (Seeds * A) + 1
               /\ EvaluatedTo(Seeds * A, 0)'
    <2>1. /\ \A k \in DOMAIN rows : k > seal.before => rows[k].status \in {"complete", "running"}
          /\ Len(rows) = seal.before + Len(Family) * (Seeds * A) + 0
          /\ EvaluatedTo(Seeds * A, 0)
      BY <1>1, <1>2, <1>5, <1>8 DEF Honest, EvaluationInv
    <2>2. PICK m \in Nat : m = Seeds * A
      BY <1>5
    <2>3. \A k \in DOMAIN rows' : k > seal.before /\ k <= seal.before + Len(Family) * m + 0 =>
             k \in DOMAIN rows /\ rows'[k].owner = rows[k].owner /\ rows'[k].stage = rows[k].stage
      BY <1>4, <1>5, <2>1, <2>2
    <2>4. EvaluatedTo(m, 0)'
      BY <1>1, <2>1, <2>2, <2>3, EvaluatedKept
    <2>5. \A k \in DOMAIN rows' : k \in DOMAIN rows \/ k = Len(rows) + 1
      BY <1>4
    <2> QED
      BY <1>4, <1>5, <2>1, <2>2, <2>4, <2>5
  <1>9. EvaluationInv'
    BY <1>1, <1>5, <1>6, <1>7, <1>8 DEF EvaluationInv
  <1> QED
    BY <1>4, <1>9 DEF Honest

LEMMA GoldEndsStep ==
    ASSUME PlaceInv, Honest, GoldEnds
    PROVE  Honest'
  <1>1. /\ ctl.pc = "gold" /\ UNCHANGED <<inputs, train, seal, ends, result, verdict>>
        /\ \/ Breaks({0}) /\ ctl' = Erred(At("result", 1, 1))
           \/ Completes({0}, FALSE) /\ ctl' = At("result", 1, 1)
    BY DEF GoldEnds, trial
  <1>2. Sealed /\ ctl \in CtlType /\ rows \in Seq(RowType)
    BY <1>1 DEF Honest, CountInv, AfterSeal, PlaceInv, ShapeInv
  <1>3. /\ Closes /\ ctl'.pc = "result"
        /\ \/ ctl'.erred /\ rows'[Len(rows)].status \in {"failed", "skipped"}
           \/ ctl'.erred = ctl.erred /\ rows'[Len(rows)].status = "complete"
    <2>1. Placed(ctl, At("result", 1, 1), "result", 1, 1)
      BY <1>2, AtFacts DEF Pcs
    <2>2. CASE Breaks({0}) /\ ctl' = Erred(At("result", 1, 1))
      <3>1. At("result", 1, 1) \in CtlType /\ At("result", 1, 1).pc = "result"
        BY <2>1 DEF Placed
      <3>2. ctl'.pc = "result" /\ ctl'.erred
        BY <2>2, <3>1, FieldFacts
      <3> QED
        BY <1>2, <2>2, <3>2, BreaksFacts
    <2>3. CASE Completes({0}, FALSE) /\ ctl' = At("result", 1, 1)
      BY <1>1, <1>2, <2>1, <2>3, CompleteUnder DEF Placed
    <2> QED
      BY <1>1, <2>2, <2>3
  <1>4. /\ RowsInv' /\ OrderInv' /\ StageInv' /\ TrainInv' /\ SelectInv' /\ SealInv' /\ CountInv'
        /\ ResultInv' /\ VerdictInv' /\ Sealed' /\ Later
        /\ Len(rows') = Len(rows) /\ Len(rows) \in Nat /\ DOMAIN rows = 1 .. Len(rows) /\ DOMAIN rows' = DOMAIN rows
        /\ rows' \in Seq(RowType)
        /\ \A k \in DOMAIN rows : rows'[k].owner = rows[k].owner /\ rows'[k].stage = rows[k].stage
        /\ \A k \in DOMAIN rows : k # Len(rows) => rows'[k] = rows[k]
        /\ Busy /\ ~Busy' /\ seal.before \in 0 .. Len(rows) /\ Len(rows) > seal.before
    BY <1>1, <1>2, <1>3, CloseUnder
  <1>5. ShapeInv'
    BY <1>1, <1>4 DEF Honest, ShapeInv, Sealed
  <1>6. ctl'.erred => Broken'
    <2>1. CASE rows'[Len(rows)].status \in {"failed", "skipped"}
      BY <1>1, <1>4, <2>1 DEF Broken
    <2>2. CASE ctl'.erred = ctl.erred
      <3>1. ctl.erred => Broken
        BY <1>2 DEF Honest, EvaluationInv
      <3> QED
        BY <1>1, <1>2, <1>4, <2>2, <3>1, BrokenKept
    <2> QED
      BY <1>3, <2>1, <2>2
  <1>7. ASSUME ~ctl'.erred
        PROVE  WholeStudy'
    <2>1. ~ctl.erred /\ rows'[Len(rows)].status = "complete"
      BY <1>3, <1>7
    <2>2. Underway = 1 /\ Seeds * A \in Nat /\ Len(Family) = 5
      BY <1>4, FamilyFacts, Sizes DEF Underway
    <2>3. /\ Len(rows) = seal.before + Len(Family) * (Seeds * A) + 1
          /\ EvaluatedTo(Seeds * A, 0) /\ GoldRow(Len(rows))
          /\ \A k \in DOMAIN rows : k > seal.before => rows[k].status \in {"complete", "running"}
      BY <1>1, <1>2, <1>4, <2>1, <2>2 DEF Honest, EvaluationInv
    <2>4. GoldRow(Len(rows))'
      BY <1>4, <2>3 DEF GoldRow
    <2>5. EvaluatedTo(Seeds * A, 0)'
      <3>1. PICK m \in Nat : m = Seeds * A
        BY <2>2
      <3>2. EvaluatedTo(m, 0)'
        BY <1>1, <1>4, <2>3, <3>1, EvaluatedKept
      <3> QED
        BY <3>1, <3>2
    <2>6. ASSUME NEW k \in DOMAIN rows', k > seal'.before
          PROVE  rows'[k].status = "complete"
      <3>1. CASE k = Len(rows)
        BY <2>1, <3>1
      <3>2. CASE k # Len(rows)
        <4>1. k < Len(rows) /\ rows'[k] = rows[k] /\ k \in DOMAIN rows
          BY <1>4, <2>6, <3>2
        <4> QED
          BY <1>1, <2>3, <2>6, <4>1 DEF Honest, RowsInv
      <3> QED
        BY <3>1, <3>2
    <2> QED
      BY <1>1, <1>4, <2>3, <2>4, <2>5, <2>6 DEF WholeStudy
  <1>8. EvaluationInv'
    <2>1. ~ctl'.erred => \A k \in DOMAIN rows' : k > seal'.before => rows'[k].status \in {"complete", "running"}
      BY <1>7 DEF WholeStudy
    <2> QED
      BY <1>3, <1>6, <1>7, <2>1 DEF EvaluationInv
  <1> QED
    BY <1>4, <1>5, <1>8 DEF Honest

--------------------------------------------------------------------------------
(* The end of the study, and its replay.                                    *)

\* The replay reads the records, and of the controller only the size of the output.
LEMMA ReplaySame ==
    ASSUME UNCHANGED <<inputs, rows, train, seal, ends, result>>, ctl'.over = ctl.over
    PROVE  Replay' = Replay
  <1>1. /\ Intact' = Intact /\ Present' = Present /\ SealFits' = SealFits /\ SetupFirst' = SetupFirst
    BY DEF Intact, Present, SealFits, SetupFirst, SealedChoices
  <1>2. \A k : ReceiptFits(rows[k])' = ReceiptFits(rows[k]) /\ UnderSeal(k)' = UnderSeal(k)
    BY DEF ReceiptFits, UnderSeal
  <1>3. \A n : OwnerFits(n)' = OwnerFits(n)
    <2>1. ASSUME NEW n
          PROVE  OwnerFits(n)' = OwnerFits(n)
      <3>1. Checkpointed(n)' = Checkpointed(n) /\ CandidatesFit(n)' = CandidatesFit(n)
            /\ SelectedByRule(n)' = SelectedByRule(n) /\ SamplesFit(n)' = SamplesFit(n)
        BY DEF Checkpointed, CandidatesFit, SelectedByRule, SamplesFit
      <3>2. EndRows(n)' = EndRows(n)
        BY DEF EndRows
      <3>3. Evaluated(n)' = Evaluated(n) /\ EndpointFits(n)' = EndpointFits(n)
        BY <3>2 DEF Evaluated, EndpointFits
      <3>4. WorkersFit(n)' = WorkersFit(n) /\ RetentionWhole(n)' = RetentionWhole(n)
        BY DEF WorkersFit, RetentionWhole, TaskWhole, LanguageWhole
      <3> QED
        BY <3>1, <3>3, <3>4 DEF OwnerFits
    <2> QED
      BY <2>1
  <1>4. \A s : Paired(train, s)' = Paired(train, s)
    BY DEF Paired
  <1>5. Sound' = Sound
    BY <1>1, <1>2, <1>3, <1>4 DEF Sound
  <1>6. Incomplete' = Incomplete
    <2>1. GoldRows' = GoldRows
      BY DEF GoldRows
    <2>2. GoldDone' = GoldDone
      BY <2>1 DEF GoldDone
    <2>3. \A n : EndRows(n)' = EndRows(n)
      BY DEF EndRows
    <2>4. \A n : Evaluated(n)' = Evaluated(n)
      BY <2>3 DEF Evaluated
    <2> QED
      BY <2>2, <2>4 DEF Incomplete
  <1> QED
    BY <1>5, <1>6 DEF Replay

LEMMA SavesStep ==
    ASSUME PlaceInv, Honest, Saves
    PROVE  Honest'
  <1> DEFINE failing == \E n \in DOMAIN train : train[n].status = "failed"
  <1>1. /\ ctl.pc \in {"result", "raise"} /\ UNCHANGED <<inputs, rows, train, seal, ends, verdict>>
        /\ result' = [count |-> Len(rows), status |-> IF ctl.erred \/ failing THEN "failed" ELSE "complete"]
    BY DEF Saves
  <1>2. /\ ctl \in CtlType /\ rows \in Seq(RowType) /\ Len(rows) \in Nat /\ ~Busy /\ verdict = None
        /\ (Sealed <=> ctl.pc = "result")
    <2>1. ctl \in CtlType /\ rows \in Seq(RowType) /\ Len(rows) \in Nat /\ ~Busy
      BY <1>1 DEF Honest, PlaceInv, ShapeInv, RowsInv
    <2>2. verdict = None
      BY <1>1 DEF PlaceInv, Ended
    <2>3. ctl.pc = "result" => Sealed
      BY DEF Honest, CountInv, AfterSeal
    <2>4. ctl.pc = "raise" => ~Sealed
      BY DEF PlaceInv, AfterSeal
    <2> QED
      BY <1>1, <2>1, <2>2, <2>3, <2>4
  <1>3. /\ ctl'.erred = ctl.erred /\ ctl'.pc = (IF ctl.pc = "result" THEN "check" ELSE "done")
    <2>1. Placed(ctl, At("check", 1, 1), "check", 1, 1) /\ Placed(ctl, At("done", 1, 1), "done", 1, 1)
      BY <1>2, AtFacts DEF Pcs
    <2> QED
      BY <1>1, <2>1 DEF Saves, Placed
  <1>4. /\ result' \in ResultType /\ result' # None /\ result'.count = Len(rows)
        /\ (result'.status = "complete") = ~(ctl.erred \/ failing)
    BY <1>1, <1>2, NotNothing DEF ResultType
  <1>5. RowsInv' /\ Later
    BY <1>1, <1>2, SameRows DEF Honest
  <1>6. ShapeInv'
    BY <1>1, <1>4 DEF Honest, ShapeInv, Sealed
  <1>7. CountInv'
    BY <1>1, <1>2, <1>3 DEF Honest, CountInv, Sealed, AfterSeal
  <1>8. OrderInv'
    BY <1>1, <1>2, <1>3 DEF Honest, OrderInv, Sealed
  <1>9. TrainInv'
    BY <1>1, <1>5, TrainKept DEF Honest
  <1>10. SelectInv'
    BY <1>1, <1>3, SelectKept DEF Honest, Through, Sealed
  <1>11. SealInv'
    BY <1>1 DEF Honest, SealInv, SealedChoices, Sealed
  <1>12. Sealed' = Sealed /\ WholeStudy' = WholeStudy /\ Broken' = Broken
    BY <1>1 DEF Sealed, WholeStudy, Broken, Busy, Last, GoldRow, EvaluatedTo, EndRow, SealedEnd
  <1>13. Sealed /\ ~ctl.erred => WholeStudy
    BY <1>2 DEF Honest, EvaluationInv
  <1>14. EvaluationInv'
    BY <1>1, <1>2, <1>3, <1>12, <1>13 DEF Honest, EvaluationInv
  <1>15. ResultInv'
    <2>1. ~Sealed => ctl.erred
      BY <1>1, <1>2 DEF Honest, CountInv
    <2> QED
      BY <1>1, <1>3, <1>4, <1>12, <1>13, <2>1 DEF ResultInv
  <1>16. VerdictInv'
    BY <1>1, <1>2 DEF VerdictInv
  <1>st. StageInv'
    BY <1>1, <1>2, <1>3, StageSame DEF Honest, Sealed
  <1> QED
    BY <1>5, <1>6, <1>7, <1>8, <1>9, <1>10, <1>11, <1>14, <1>15, <1>16, <1>st DEF Honest

\* A step that leaves the records of a study as they are
LEMMA RecordsStay ==
    ASSUME PlaceInv, Honest, UNCHANGED <<inputs, rows, train, seal, ends, result>>,
           ctl'.erred = ctl.erred,
           \/ /\ ctl' = [ctl EXCEPT !.late = TRUE] /\ ~Busy
              /\ ctl'.pc = ctl.pc /\ ctl'.i = ctl.i /\ ctl'.j = ctl.j
           \/ ctl'.pc = "dead" \/ (ctl'.pc = "done" /\ ctl.pc = "check") \/ ctl' = ctl,
           VerdictInv'
    PROVE  Honest'
  <1>1. RowsInv' /\ Later
    BY SameRows DEF Honest, RowsInv
  <1>2. ShapeInv'
    BY DEF Honest, ShapeInv, Sealed
  <1>3. OrderInv'
    BY DEF Honest, OrderInv, Sealed
  <1>4. TrainInv'
    BY <1>1, TrainKept DEF Honest
  <1>5. Sealed' = Sealed /\ (ctl.pc = "check" => Sealed)
    BY DEF Sealed, Honest, CountInv, AfterSeal
  <1>6. SelectInv'
    <2>1. \/ ctl'.pc = ctl.pc /\ ctl'.i = ctl.i
          \/ ctl'.pc \in {"dead", "done"}
      OBVIOUS
    <2>2. \A s \in 1 .. Seeds : Through(s)' => Through(s)
      BY <1>5, <2>1 DEF Through, PlaceInv, AfterSeal
    <2> QED
      BY <2>2, SelectKept DEF Honest
  <1>7. SealInv'
    BY DEF Honest, SealInv, SealedChoices, Sealed
  <1>8. WholeStudy' = WholeStudy /\ Broken' = Broken /\ Busy' = Busy /\ Underway' = Underway
    BY DEF WholeStudy, Broken, Busy, Last, GoldRow, EvaluatedTo, EndRow, SealedEnd, Underway
  <1>9. ResultInv'
    BY <1>5, <1>8 DEF Honest, ResultInv
  <1>12. StageInv'
    BY <1>5, StageSame DEF Honest
  <1>10. CASE ctl'.pc \in {"dead", "done"}
    <2>1. CountInv'
      BY <1>5, <1>10 DEF Honest, CountInv, AfterSeal
    <2>2. EvaluationInv'
      BY <1>5, <1>8, <1>10 DEF Honest, EvaluationInv
    <2> QED
      BY <1>1, <1>2, <1>3, <1>4, <1>6, <1>7, <1>9, <1>12, <2>1, <2>2 DEF Honest
  <1>11. CASE ctl'.pc = ctl.pc /\ ctl'.i = ctl.i /\ ctl'.j = ctl.j
    <2>1. NextTurn(train, ctl.j)' = NextTurn(train, ctl.j) /\ Learner' = Learner
      BY <1>11 DEF Learner, NextTurn, Turn
    <2>2. Last' = Last
      BY DEF Last
    <2>3. CountInv'
      BY <1>5, <1>8, <1>11, <2>1, <2>2 DEF Honest, CountInv
    <2>4. \A m, j : EvaluatedTo(m, j)' = EvaluatedTo(m, j)
      BY DEF EvaluatedTo, EndRow, SealedEnd
    <2>5. EvaluatedTo(ctl.i - 1, ctl.j - 1 + Underway)' = EvaluatedTo(ctl.i - 1, ctl.j - 1 + Underway)
      BY <1>8, <1>11 DEF EvaluatedTo, EndRow, SealedEnd
    <2>6. GoldRow(Len(rows))' = GoldRow(Len(rows)) /\ EvaluatedTo(Seeds * A, 0)' = EvaluatedTo(Seeds * A, 0)
      BY <2>4 DEF GoldRow
    <2>7. EvaluationInv'
      BY <1>5, <1>8, <1>11, <2>5, <2>6 DEF Honest, EvaluationInv
    <2> QED
      BY <1>1, <1>2, <1>3, <1>4, <1>6, <1>7, <1>9, <1>12, <2>3, <2>7 DEF Honest
  <1> QED
    BY <1>10, <1>11

LEMMA LatesStep ==
    ASSUME PlaceInv, Honest, Lates
    PROVE  Honest'
  <1>1. /\ ~Busy /\ ctl.pc \in {"compile", "train", "evaluate", "gold"} /\ ctl' = [ctl EXCEPT !.late = TRUE]
        /\ UNCHANGED <<inputs, rows, train, seal, ends, result, verdict>>
    BY DEF Lates, trial
  <1>2. ctl'.pc = ctl.pc /\ ctl'.i = ctl.i /\ ctl'.j = ctl.j /\ ctl'.erred = ctl.erred
    BY <1>1, FieldFacts DEF PlaceInv
  <1>3. VerdictInv'
    BY <1>1 DEF VerdictInv, PlaceInv, Ended
  <1> QED
    BY <1>1, <1>2, <1>3, RecordsStay

LEMMA DiesStep ==
    ASSUME PlaceInv, Honest, Dies
    PROVE  Honest'
  <1>1. ~Ended /\ UNCHANGED <<inputs, rows, train, seal, ends, result, verdict>> /\ ctl' = At("dead", 1, 1)
    BY DEF Dies, trial
  <1>2. Placed(ctl, ctl', "dead", 1, 1)
    BY <1>1, AtFacts DEF PlaceInv, Pcs
  <1>3. VerdictInv'
    BY <1>1 DEF VerdictInv, PlaceInv
  <1> QED
    BY <1>1, <1>2, <1>3, RecordsStay DEF Placed

LEMMA ChecksStep ==
    ASSUME PlaceInv, Honest, Checks
    PROVE  Honest'
  <1>1. /\ UNCHANGED <<inputs, rows, train, seal, ends, result>> /\ verdict' = Replay
        /\ \/ ctl.pc = "check" /\ ctl' = At("done", 1, 1)
           \/ ctl.pc # "check" /\ ctl' = ctl
    BY DEF Checks, trial
  <1>2. /\ ctl'.over = ctl.over /\ ctl'.erred = ctl.erred
        /\ (ctl'.pc = "done" /\ ctl.pc = "check") \/ ctl' = ctl
    <2>1. Placed(ctl, At("done", 1, 1), "done", 1, 1)
      BY AtFacts DEF PlaceInv, Pcs
    <2> QED
      BY <1>1, <2>1 DEF Placed
  <1>3. VerdictInv'
    BY <1>1, <1>2, ReplaySame DEF VerdictInv
  <1> QED
    BY <1>1, <1>2, <1>3, RecordsStay

LEMMA StaysHonest ==
    ASSUME PlaceInv, Honest, UNCHANGED studyVars
    PROVE  Honest'
  <1>1. UNCHANGED <<inputs, rows, train, seal, ends, result, verdict, ctl>>
    BY DEF studyVars
  <1>2. VerdictInv'
    BY <1>1, ReplaySame DEF Honest, VerdictInv
  <1> QED
    BY <1>1, <1>2, RecordsStay

\* Every owner belongs to a seed.
LEMMA OwnerSeed ==
    ASSUME NEW n \in Owners
    PROVE  \E s \in 1 .. Seeds : n \in OfSeed(s)
  <1> DEFINE T == {s \in Nat : s <= Seeds /\ n <= s * A}
  <1>1. Seeds \in T /\ n \in Nat /\ n > 0 /\ A \in Nat
    BY Sizes
  <1>2. PICK s \in T : \A y \in T : s <= y
    <2>1. T # {} /\ T \subseteq Nat
      BY <1>1
    <2> HIDE DEF T
    <2> QED
      BY <2>1, LeastOf
  <1>3. s \in Nat /\ s <= Seeds /\ n <= s * A
    OBVIOUS
  <1>4. s # 0
    BY <1>1, <1>3
  <1>5. s \in 1 .. Seeds
    BY <1>3, <1>4, Sizes
  <1>6. s - 1 \in Nat /\ s - 1 <= Seeds /\ ~(s <= s - 1)
    BY <1>5, Sizes
  <1>7. ~(n <= (s - 1) * A)
    BY <1>2, <1>6
  <1>8. OfSeed(s) = (s - 1) * A + 1 .. s * A /\ (s - 1) * A \in Nat /\ s * A \in Nat
    BY <1>5, SeedSizes
  <1> QED
    BY <1>1, <1>3, <1>5, <1>7, <1>8

\* In a sealed study every owner is selected for.
LEMMA SealedOwners ==
    ASSUME PlaceInv, Honest, Sealed
    PROVE  /\ DOMAIN train = Owners /\ Len(train) = Seeds * A
           /\ \A n \in Owners : /\ train[n] \in StateType /\ TrainOf(n)
                                /\ train[n].selected = Eligible(train[n].cands)
  <1>1. train \in Seq(StateType) /\ Len(train) = Seeds * A /\ DOMAIN train = Owners
    BY Sizes DEF Honest, ShapeInv, CountInv
  <1>2. \A s \in 1 .. Seeds : Through(s)
    BY DEF Through, PlaceInv, AfterSeal
  <1>3. ASSUME NEW n \in Owners
        PROVE  train[n].selected = Eligible(train[n].cands)
    BY <1>2, OwnerSeed DEF Honest, SelectInv
  <1> QED
    BY <1>1, <1>3 DEF Honest, TrainInv

--------------------------------------------------------------------------------
(* Figures that are made to fit.                                            *)

\* What a receipt says a process cost is changed in the row and in its file.
LEMMA Repriced ==
    ASSUME rows \in Seq(RowType), NEW k \in DOMAIN rows, NEW c \in Nat,
           rows[k].file # None, rows[k].sha = rows[k].file,
           rows' = [rows EXCEPT ![k].file.cost = c, ![k].sha.cost = c]
    PROVE  /\ rows' \in Seq(RowType) /\ Len(rows') = Len(rows)
           /\ \A j \in DOMAIN rows : j # k => rows'[j] = rows[j]
           /\ rows'[k].owner = rows[k].owner /\ rows'[k].stage = rows[k].stage
           /\ rows'[k].status = rows[k].status /\ rows'[k].seal = rows[k].seal
           /\ rows'[k].file # None /\ rows'[k].sha = rows'[k].file
           /\ rows'[k].file.status = rows[k].file.status
  <1> DEFINE file == [rows[k].file EXCEPT !.cost = c]
             p == [rows[k] EXCEPT !.file = file]
             q == [p EXCEPT !.sha = file]
             mid == [rows EXCEPT ![k].file.cost = c]
  <1>1. rows[k] \in RowType /\ rows[k].file \in ReceiptType
    <2>1. rows \in Seq(RowType) /\ k \in DOMAIN rows /\ rows[k].file # None
      OBVIOUS
    <2>2. rows[k] \in RowType
      BY ONLY <2>1
    <2> QED
      BY ONLY <2>1, <2>2 DEF RowType
  <1>2. file = [status |-> rows[k].file.status, cost |-> c] /\ file \in ReceiptType /\ file # None
    <2>1. file = [status |-> rows[k].file.status, cost |-> c]
      BY <1>1 DEF ReceiptType
    <2>2. file \in ReceiptType
      BY <1>1, <2>1 DEF ReceiptType
    <2> QED
      BY <2>1, <2>2, NotNothing
  <1>3. p.sha = rows[k].file
    BY <1>1 DEF RowType
  <1>4. rows' = [rows EXCEPT ![k] = q]
    <2>1. mid = [rows EXCEPT ![k] = p]
      OBVIOUS
    <2>2. mid[k] = p /\ k \in DOMAIN mid
      BY <2>1
    <2>3. rows' = [mid EXCEPT ![k].sha.cost = c]
      OBVIOUS
    <2> HIDE DEF mid, p
    <2>4. rows' = [mid EXCEPT ![k] = [p EXCEPT !.sha = [p.sha EXCEPT !.cost = c]]]
      BY <2>2, <2>3
    <2>5. [p.sha EXCEPT !.cost = c] = file
      BY <1>3
    <2> HIDE DEF file
    <2>6. rows' = [mid EXCEPT ![k] = q]
      BY <2>4, <2>5
    <2> HIDE DEF q
    <2> QED
      BY <2>1, <2>6
  <1> HIDE DEF file
  <1>5. p = [owner |-> rows[k].owner, stage |-> rows[k].stage, status |-> rows[k].status, seal |-> rows[k].seal,
             file |-> file, sha |-> rows[k].sha]
    BY <1>1 DEF RowType
  <1> HIDE DEF p
  <1>6. q = [owner |-> rows[k].owner, stage |-> rows[k].stage, status |-> rows[k].status, seal |-> rows[k].seal,
             file |-> file, sha |-> file]
    BY <1>5
  <1>7. q \in RowType
    BY <1>1, <1>2, <1>6 DEF RowType
  <1> HIDE DEF q
  <1>8. rows' \in Seq(RowType) /\ Len(rows') = Len(rows) /\ rows'[k] = q
        /\ \A j \in DOMAIN rows : j # k => rows'[j] = rows[j]
    <2>1. rows \in Seq(RowType) /\ k \in DOMAIN rows
      OBVIOUS
    <2> QED
      BY ONLY <1>4, <1>7, <2>1
  <1>9. /\ q.owner = rows[k].owner /\ q.stage = rows[k].stage /\ q.status = rows[k].status /\ q.seal = rows[k].seal
        /\ q.file # None /\ q.sha = q.file /\ q.file.status = rows[k].file.status
    BY ONLY <1>2, <1>6
  <1> QED
    BY ONLY <1>8, <1>9

\* What refitting leaves as it was: whatever the replay compares.
RefittedRows ==
    /\ rows' \in Seq(RowType) /\ Len(rows') = Len(rows)
    /\ \A k \in DOMAIN rows :
          /\ rows'[k].owner = rows[k].owner /\ rows'[k].stage = rows[k].stage
          /\ rows'[k].status = rows[k].status /\ rows'[k].seal = rows[k].seal
          /\ rows'[k].stage = "training" => rows'[k] = rows[k]
          /\ Settled(rows[k]) => Settled(rows'[k])
          /\ ReceiptFits(rows'[k]) <=> ReceiptFits(rows[k])
RefittedEnds ==
    /\ ends' \in [Owners -> EndType \cup {None}]
    /\ \A n \in Owners :
          /\ (ends'[n] # None) = (ends[n] # None)
          /\ ends'[n].seal = ends[n].seal /\ ends'[n].model = ends[n].model
          /\ ends'[n].whole = ends[n].whole

LEMMA RefittingFacts ==
    ASSUME PlaceInv, Honest, Refitting
    PROVE  /\ UNCHANGED <<inputs, ctl, train, seal, result, verdict>> /\ Sealed /\ Ended
           /\ RefittedRows /\ RefittedEnds
  <1>1. UNCHANGED <<inputs, ctl, train, seal, result, verdict>> /\ Sealed /\ Ended
    BY DEF Refitting, RefitsCases, RefitsCost, Refits, Finished, Sealed
  <1>2. rows \in Seq(RowType) /\ ends \in [Owners -> EndType \cup {None}]
    BY DEF Honest, ShapeInv
  <1>3. CASE RefitsCases
    <2>1. RefittedRows
      BY <1>2, <1>3 DEF RefitsCases, RefittedRows
    <2>2. PICK n \in Owners, f \in Cased : ends[n] # None /\ ends' = [ends EXCEPT ![n].own = @ \ {f}]
      BY <1>3 DEF RefitsCases
    <2> DEFINE e == [ends[n] EXCEPT !.own = @ \ {f}]
    <2>3. ends[n] \in EndType /\ ends' = [ends EXCEPT ![n] = e]
      BY <1>2, <2>2
    <2>4. e \in EndType /\ e.seal = ends[n].seal /\ e.model = ends[n].model /\ e.whole = ends[n].whole
      BY <2>3 DEF EndType
    <2>5. e # None
      BY <2>4, NotNothing
    <2> HIDE DEF e
    <2>6. RefittedEnds
      BY <1>2, <2>2, <2>3, <2>4, <2>5 DEF RefittedEnds
    <2> QED
      BY <1>1, <2>1, <2>6
  <1>4. CASE RefitsCost
    <2>1. RefittedEnds
      BY <1>2, <1>4 DEF RefitsCost, RefittedEnds
    <2>2. PICK k \in DOMAIN rows, c \in Costs :
            /\ rows[k].stage # "training" /\ rows[k].file # None /\ rows[k].sha = rows[k].file
            /\ rows' = [rows EXCEPT ![k].file.cost = c, ![k].sha.cost = c]
      BY <1>4 DEF RefitsCost
    <2>3. c \in Nat
      BY Sizes
    <2>4. /\ rows' \in Seq(RowType) /\ Len(rows') = Len(rows)
          /\ \A j \in DOMAIN rows : j # k => rows'[j] = rows[j]
          /\ rows'[k].owner = rows[k].owner /\ rows'[k].stage = rows[k].stage
          /\ rows'[k].status = rows[k].status /\ rows'[k].seal = rows[k].seal
          /\ rows'[k].file # None /\ rows'[k].sha = rows'[k].file
          /\ rows'[k].file.status = rows[k].file.status
      BY ONLY <1>2, <2>2, <2>3, Repriced
    <2>5. ASSUME NEW j \in DOMAIN rows
          PROVE  /\ rows'[j].owner = rows[j].owner /\ rows'[j].stage = rows[j].stage
                 /\ rows'[j].status = rows[j].status /\ rows'[j].seal = rows[j].seal
                 /\ rows'[j].stage = "training" => rows'[j] = rows[j]
                 /\ Settled(rows[j]) => Settled(rows'[j])
                 /\ ReceiptFits(rows'[j]) <=> ReceiptFits(rows[j])
      <3>1. CASE j # k
        BY <2>4, <3>1
      <3>2. CASE j = k
        <4>1. rows[k].stage # "training" /\ rows[k].file # None /\ rows[k].sha = rows[k].file
          BY <2>2
        <4>2. (Settled(rows[k]) => Settled(rows'[k])) /\ (ReceiptFits(rows'[k]) <=> ReceiptFits(rows[k]))
          BY ONLY <2>4, <4>1 DEF Settled, ReceiptFits
        <4> QED
          BY ONLY <2>4, <3>2, <4>1, <4>2
      <3> QED
        BY <3>1, <3>2
    <2>6. RefittedRows
      BY <2>4, <2>5 DEF RefittedRows
    <2> QED
      BY <1>1, <2>1, <2>6
  <1> QED
    BY <1>3, <1>4 DEF Refitting

\* Of what the training cost nothing is refitted.
LEMMA ChargeRefitted ==
    ASSUME rows \in Seq(RowType), RefittedRows, NEW n, NEW last \in Nat
    PROVE  Charged(rows', n, last) = Charged(rows, n, last)
  <1>1. ASSUME NEW k \in 1 .. last
        PROVE  Cost(rows', n, k) = Cost(rows, n, k)
    <2>1. DOMAIN rows' = DOMAIN rows
      BY DEF RefittedRows
    <2>2. k \in TrainingRows(rows', n) <=> k \in TrainingRows(rows, n)
      BY <2>1 DEF TrainingRows, RefittedRows
    <2>3. k \in TrainingRows(rows', n) => rows'[k] = rows[k]
      BY <2>1 DEF TrainingRows, RefittedRows
    <2> QED
      BY <2>2, <2>3 DEF Cost
  <1> QED
    BY <1>1, ChargedSame

\* The replay says of refitted figures what it said of the others.
LEMMA ReplayRefitted ==
    ASSUME PlaceInv, Honest, Refitting
    PROVE  Replay' = Replay
  <1>1. /\ UNCHANGED <<inputs, ctl, train, seal, result>> /\ Sealed
        /\ RefittedRows /\ RefittedEnds /\ rows \in Seq(RowType) /\ Len(rows') = Len(rows) /\ DOMAIN rows' = DOMAIN rows
    BY RefittingFacts DEF Honest, ShapeInv, RefittedRows
  <1>2. /\ Intact' = Intact /\ Present' = Present /\ SealFits' = SealFits /\ SetupFirst' = SetupFirst
    BY <1>1 DEF Intact, Present, SealFits, SetupFirst, SealedChoices, RefittedRows
  <1>3. \A k \in DOMAIN rows : (ReceiptFits(rows[k])' <=> ReceiptFits(rows[k])) /\ UnderSeal(k)' = UnderSeal(k)
    BY <1>1 DEF RefittedRows, ReceiptFits, UnderSeal
  <1>4. ASSUME NEW n \in Owners
        PROVE  /\ OwnerFits(n)' = OwnerFits(n) /\ Evaluated(n)' = Evaluated(n)
               /\ TrainingRows(rows, n)' = TrainingRows(rows, n)
    <2>1. TrainingRows(rows', n) = TrainingRows(rows, n) /\ EndRows(n)' = EndRows(n)
      BY <1>1 DEF TrainingRows, EndRows, RefittedRows
    <2>2. Checkpointed(n)' = Checkpointed(n)
      BY <1>1, <2>1 DEF Checkpointed, TrainingRows, RefittedRows
    <2>3. CandidatesFit(n)' = CandidatesFit(n)
      <3>1. train[n] \in StateType
        BY <1>1, SealedOwners
      <3>2. ASSUME NEW c \in DOMAIN train[n].cands
            PROVE  Charged(rows', n, train[n].cands[c].row) = Charged(rows, n, train[n].cands[c].row)
        <4>1. train[n].cands \in Seq(Candidates) /\ c \in DOMAIN train[n].cands
          BY <3>1, <3>2 DEF StateType
        <4>2. train[n].cands[c] \in Candidates
          BY ONLY <4>1
        <4>3. train[n].cands[c].row \in Nat
          BY ONLY <4>2 DEF Candidates
        <4> QED
          BY <1>1, <4>3, ChargeRefitted
      <3> QED
        BY <1>1, <3>2 DEF CandidatesFit
    <2>4. SelectedByRule(n)' = SelectedByRule(n) /\ SamplesFit(n)' = SamplesFit(n)
      BY <1>1 DEF SelectedByRule, SamplesFit
    <2>5. Evaluated(n)' = Evaluated(n)
      BY <1>1, <2>1 DEF Evaluated, EndRows, RefittedRows
    <2>6. EndpointFits(n)' = EndpointFits(n)
      <3>1. {rows[k].stage : k \in EndRows(n)}' = {rows[k].stage : k \in EndRows(n)}
        BY <1>1, <2>1 DEF EndRows, RefittedRows
      <3> QED
        BY <1>1, <3>1 DEF EndpointFits, RefittedEnds
    <2>7. WorkersFit(n)' = WorkersFit(n) /\ RetentionWhole(n)' = RetentionWhole(n)
      BY <1>1 DEF WorkersFit, RetentionWhole, TaskWhole, LanguageWhole, RefittedEnds
    <2> QED
      BY <2>1, <2>2, <2>3, <2>4, <2>5, <2>6, <2>7 DEF OwnerFits
  <1>5. \A s : Paired(train, s)' = Paired(train, s)
    BY <1>1 DEF Paired
  <1>6. Sound' = Sound
    BY <1>1, <1>2, <1>3, <1>4, <1>5 DEF Sound
  <1>7. GoldDone' = GoldDone
    <2>1. GoldRows' = GoldRows
      BY <1>1 DEF GoldRows, RefittedRows
    <2> QED
      BY <1>1, <2>1 DEF GoldDone, GoldRows, RefittedRows
  <1>8. Incomplete' = Incomplete
    BY <1>1, <1>4, <1>7 DEF Incomplete, TrainingRows, RefittedRows
  <1> QED
    BY <1>1, <1>6, <1>8 DEF Replay

\* A study whose figures are refitted is honest in all the rest.
LEMMA RefitsStep ==
    ASSUME PlaceInv, Honest, Refitting
    PROVE  Honest'
  <1>1. /\ UNCHANGED <<inputs, ctl, train, seal, result, verdict>> /\ Sealed /\ ctl.pc \in {"done", "dead"}
        /\ RefittedRows /\ RefittedEnds /\ rows \in Seq(RowType) /\ rows' \in Seq(RowType)
        /\ Len(rows) \in Nat /\ DOMAIN rows = 1 .. Len(rows) /\ Len(rows') = Len(rows) /\ DOMAIN rows' = DOMAIN rows
    BY RefittingFacts DEF Honest, ShapeInv, RefittedRows, Ended
  <1>2. Sealed' /\ Busy' = Busy
    <2>1. Busy => Len(rows) \in DOMAIN rows
      BY <1>1 DEF Busy
    <2>2. Busy' => Len(rows) \in DOMAIN rows
      BY <1>1 DEF Busy
    <2> QED
      BY <1>1, <2>1, <2>2 DEF Sealed, Busy, Last, RefittedRows
  <1>3. ShapeInv'
    BY <1>1, <1>2 DEF Honest, ShapeInv, RefittedEnds
  <1>4. CountInv'
    BY <1>1, <1>2 DEF Honest, CountInv, AfterSeal
  <1>5. RowsInv'
    <2>1. \A k \in DOMAIN rows : Settled(rows'[k])
      BY <1>1 DEF Honest, RowsInv, RefittedRows, Settled
    <2>2. \A k \in DOMAIN rows : k < Len(rows) => rows'[k].status # "running"
      BY <1>1 DEF Honest, RowsInv, RefittedRows
    <2>3. Busy' => ctl'.pc \in {"compile", "train", "evaluate", "gold", "dead"}
      BY <1>1, <1>2 DEF Honest, RowsInv
    <2> QED
      BY <1>1, <2>1, <2>2, <2>3 DEF RowsInv, Settled
  <1>6. OrderInv' /\ StageInv'
    BY <1>1, <1>2 DEF Honest, OrderInv, StageInv, RefittedRows
  <1>7. TrainInv'
    <2>1. ASSUME NEW n \in DOMAIN train
          PROVE  TrainOf(n)'
      <3>1. TrainOf(n) /\ train[n] \in StateType
        BY DEF Honest, TrainInv, ShapeInv
      <3>2. ASSUME NEW c \in DOMAIN train[n].cands \ {1}
            PROVE  CandidateOf(n, c)'
        <4>1. CandidateOf(n, c) /\ train[n].cands[c].row \in Nat
          BY <1>1, <3>1 DEF TrainOf, CandidateOf
        <4>2. Charged(rows', n, train[n].cands[c].row) = Charged(rows, n, train[n].cands[c].row)
          BY <1>1, <4>1, ChargeRefitted
        <4> QED
          BY <1>1, <4>1, <4>2 DEF CandidateOf, RefittedRows
      <3>3. TrainingRows(rows', n) = TrainingRows(rows, n)
        BY <1>1 DEF TrainingRows, RefittedRows
      <3>4. Unfailed(n) => Unfailed(n)'
        BY <1>1, <3>3 DEF Unfailed, TrainingRows, RefittedRows
      <3> QED
        BY <1>1, <3>1, <3>2, <3>4 DEF TrainOf
    <2> QED
      BY <1>1, <2>1 DEF TrainInv
  <1>8. SelectInv'
    BY <1>1, <1>2, SelectKept DEF Honest, Through
  <1>9. SealInv'
    BY <1>1, <1>2 DEF Honest, SealInv, SealedChoices
  <1>10. Broken => Broken'
    BY <1>1 DEF Broken, RefittedRows
  <1>11. EvaluationInv'
    <2>1. ~ctl.erred => \A k \in DOMAIN rows' : k > seal'.before => rows'[k].status \in {"complete", "running"}
      BY <1>1 DEF Honest, EvaluationInv, RefittedRows
    <2> QED
      BY <1>1, <1>2, <1>10, <2>1 DEF Honest, EvaluationInv
  <1>12. WholeStudy => WholeStudy'
    <2> SUFFICES ASSUME WholeStudy PROVE WholeStudy'
      OBVIOUS
    <2>1. EvaluatedTo(Seeds * A, 0)'
      <3>1. ASSUME NEW k \in DOMAIN rows', k > seal'.before, k <= seal'.before + Len(Family) * (Seeds * A) + 0
            PROVE  EndRow(k)'
        <4>1. EndRow(k)
          BY <1>1, <3>1 DEF WholeStudy, EvaluatedTo
        <4> QED
          BY <1>1, <4>1 DEF EndRow, RefittedRows
      <3>2. ASSUME NEW n \in 1 .. Seeds * A
            PROVE  SealedEnd(n)'
        <4>1. SealedEnd(n) /\ n \in Owners
          BY Sizes DEF WholeStudy, EvaluatedTo
        <4> QED
          BY <1>1, <4>1 DEF SealedEnd, RefittedEnds
      <3> QED
        BY <3>1, <3>2 DEF EvaluatedTo
    <2>2. Len(rows) \in DOMAIN rows
      <3>1. seal.before \in Nat /\ Seeds * A \in Nat /\ Len(Family) = 5
        BY <1>1, Sizes, FamilyFacts DEF Honest, ShapeInv
      <3> QED
        BY <1>1, <3>1 DEF WholeStudy
    <2>3. GoldRow(Len(rows))'
      BY <1>1, <2>2 DEF WholeStudy, GoldRow, RefittedRows
    <2>4. \A k \in DOMAIN rows' : k > seal'.before => rows'[k].status = "complete"
      BY <1>1 DEF WholeStudy, RefittedRows
    <2> QED
      BY <1>1, <1>2, <2>1, <2>3, <2>4 DEF WholeStudy
  <1>13. ResultInv'
    BY <1>1, <1>2, <1>12 DEF Honest, ResultInv
  <1>14. VerdictInv'
    BY <1>1, ReplayRefitted DEF Honest, VerdictInv
  <1> QED
    BY <1>3, <1>4, <1>5, <1>6, <1>7, <1>8, <1>9, <1>11, <1>13, <1>14 DEF Honest

--------------------------------------------------------------------------------
(* The study as a whole.                                                    *)

\* A study to which none of the alterations of what was done is made is honest at
\* every step; its figures may be refitted.
LEMMA HonestStep ==
    ASSUME PlaceInv, Honest, [StudyNext]_studyVars, ~hurt'
    PROVE  Honest'
  <1>1. CASE UNCHANGED studyVars
    BY <1>1, StaysHonest
  <1>2. CASE Setting
    BY <1>2, PreparesStep, ValidatesStep, CompileStartsStep, CompileEndsStep DEF Setting
  <1>3. CASE Training
    BY <1>3, TrainStartsStep, TrainBreaksStep, CheckpointRefusedStep, SamplesRefusedStep, TrainEndsStep,
       SeedClosesStep DEF Training
  <1>4. CASE Evaluating
    BY <1>4, SealsStep, EvaluateStartsStep, EvaluateBreaksStep, EvaluateEndsStep, GoldStartsStep,
       GoldEndsStep DEF Evaluating
  <1>5. CASE Saves
    BY <1>5, SavesStep
  <1>6. CASE Checks
    BY <1>6, ChecksStep
  <1>7. CASE Lates
    BY <1>7, LatesStep
  <1>8. CASE Dies
    BY <1>8, DiesStep
  <1>9. ~Altering
    BY DEF Altering, AltersInputs, AltersSeal, AltersStage, AltersStatus, AltersCost, AltersChoice,
           AltersCases, AltersRoster, AltersResult, Alters, Hurts
  <1>10. CASE Refitting
    BY <1>10, RefitsStep
  <1> QED
    BY <1>1, <1>2, <1>3, <1>4, <1>5, <1>6, <1>7, <1>8, <1>9, <1>10 DEF StudyNext

LEMMA HonestStart == StudyInit => PlaceInv /\ Honest /\ ~hurt
  <1> SUFFICES ASSUME StudyInit
               PROVE  PlaceInv /\ Honest /\ ~hurt
    OBVIOUS
  <1>1. /\ ctl.pc = "prepare" /\ ctl.i = 1 /\ ctl.j = 1 /\ ~ctl.over /\ ~ctl.late /\ ~ctl.erred /\ ctl \in CtlType
        /\ rows = <<>> /\ train = <<>> /\ ~Sealed /\ result = None /\ verdict = None /\ ~hurt
        /\ ends = [n \in Owners |-> None] /\ seal = None
    BY DEF StudyInit, CtlType, Pcs, Sealed
  <1>2. PlaceInv
    BY <1>1 DEF PlaceInv
  <1>3. ShapeInv
    BY <1>1 DEF ShapeInv
  <1>4. CountInv /\ OrderInv /\ StageInv /\ SelectInv /\ SealInv
    BY <1>1 DEF CountInv, OrderInv, StageInv, SelectInv, SealInv, Through, AfterSeal
  <1>5. RowsInv
    <2>1. ~Busy
      BY <1>1 DEF Busy
    <2> QED
      BY <1>1, <2>1 DEF RowsInv
  <1>6. TrainInv
    BY <1>1 DEF TrainInv
  <1>7. EvaluationInv /\ ResultInv /\ VerdictInv
    BY <1>1 DEF EvaluationInv, ResultInv, VerdictInv
  <1> QED
    BY <1>1, <1>2, <1>3, <1>4, <1>5, <1>6, <1>7 DEF Honest

--------------------------------------------------------------------------------
(* What a replay that passes has found.                                     *)

LEMMA PassedMeans ==
    ASSUME Replay = Passed
    PROVE  Sound /\ ~Incomplete /\ result.count = Len(rows)
  <1>1. CASE ~Sound
    BY <1>1 DEF Replay, Passed
  <1>2. CASE Sound
    <2>1. Replay = [status |-> IF Incomplete THEN "incomplete" ELSE "complete",
                    error |-> result.count # Len(rows) \/ (result.status = "complete" /\ Incomplete)]
      BY <1>2 DEF Replay
    <2>2. ~Incomplete
      BY <2>1 DEF Passed
    <2>3. result.count = Len(rows)
      <3> DEFINE e == result.count # Len(rows) \/ (result.status = "complete" /\ Incomplete)
      <3>1. Replay.error = e
        BY <2>1
      <3>2. Replay.error = FALSE
        BY DEF Passed
      <3>3. e = FALSE
        BY <3>1, <3>2
      <3>4. ~e
        BY ONLY <3>3
      <3> QED
        BY <3>4
    <2> QED
      BY <1>2, <2>2, <2>3
  <1> QED
    BY <1>1, <1>2

\* The same of the step's later state
LEMMA PassedThen ==
    ASSUME (Replay = Passed)'
    PROVE  Sound' /\ ~Incomplete' /\ result'.count = Len(rows')
  <1>1. CASE ~Sound'
    BY <1>1 DEF Replay, Passed
  <1>2. CASE Sound'
    <2>1. Replay' = [status |-> IF Incomplete' THEN "incomplete" ELSE "complete",
                     error |-> result'.count # Len(rows') \/ (result'.status = "complete" /\ Incomplete')]
      BY <1>2 DEF Replay
    <2>2. ~Incomplete'
      BY <2>1 DEF Passed
    <2>3. result'.count = Len(rows')
      <3> DEFINE e == result'.count # Len(rows') \/ (result'.status = "complete" /\ Incomplete')
      <3>1. Replay'.error = e
        BY <2>1
      <3>2. Replay'.error = FALSE
        BY DEF Passed
      <3>3. e = FALSE
        BY <3>1, <3>2
      <3>4. ~e
        BY ONLY <3>3
      <3> QED
        BY <3>4
    <2> QED
      BY <1>2, <2>2, <2>3
  <1> QED
    BY <1>1, <1>2

\* Records that were damaged do not pass.
LEMMA DamagedFails ==
    ASSUME Damaged, PlaceInv, ctl.pc = "check" \/ Ended
    PROVE  Replay # Passed
  <1> SUFFICES ASSUME Replay = Passed
               PROVE  FALSE
    OBVIOUS
  <1>1. Sound /\ ~Incomplete
    BY PassedMeans
  <1>2. inputs = "whole" /\ seal.choices = SealedChoices(train) /\ \A k \in DOMAIN rows : UnderSeal(k)
    BY <1>1 DEF Sound, Intact, SealFits
  <1>3. GoldDone
    BY <1>1 DEF Incomplete
  <1>4. SealDamaged
    <2>1. inputs # "altered"
      BY <1>2
    <2> QED
      BY <2>1 DEF Damaged
  <1>5. rows \in Seq(RowType) /\ seal.ver \in Nat /\ seal.before \in Int /\ BeforeMoved
        /\ Len(rows) \in Nat /\ DOMAIN rows = 1 .. Len(rows)
    BY <1>2, <1>4, RowsTyped DEF SealDamaged
  <1>6. CASE seal.before + 1 \in DOMAIN rows /\ rows[seal.before + 1].stage \in {"compile", "training"}
    <2>1. UnderSeal(seal.before + 1) /\ ~(seal.before + 1 <= seal.before)
      BY <1>2, <1>5, <1>6
    <2> QED
      BY <1>6, <2>1, FamilyFacts DEF UnderSeal
  <1>7. CASE seal.before = Len(rows) + 1
    <2>1. \A k \in DOMAIN rows : k <= seal.before /\ UnderSeal(k)
      BY <1>2, <1>5, <1>7
    <2>2. \A k \in DOMAIN rows : rows[k].stage # "exact-parser"
      BY <2>1 DEF UnderSeal
    <2>3. GoldRows = {}
      BY <2>2 DEF GoldRows
    <2>4. Cardinality(GoldRows) = 0
      BY <2>3, FS_EmptySet
    <2> QED
      BY <1>3, <2>4 DEF GoldDone
  <1>8. CASE seal.before \in DOMAIN rows /\ rows[seal.before].seal # None
    <2>1. UnderSeal(seal.before) /\ seal.before <= seal.before
      BY <1>2, <1>5, <1>8
    <2> QED
      BY <1>8, <2>1 DEF UnderSeal
  <1> QED
    BY <1>5, <1>6, <1>7, <1>8 DEF BeforeMoved

--------------------------------------------------------------------------------
(* Each alteration leaves something a replay finds.                         *)

LEMMA AltersInputsHurts ==
    ASSUME AltersInputs
    PROVE  Damaged'
  BY DEF AltersInputs, Alters, Hurts, Damaged

LEMMA AltersSealHurts ==
    ASSUME PlaceInv, Honest, AltersSeal
    PROVE  Damaged'
  <1>1. /\ Sealed /\ rows \in Seq(RowType) /\ seal \in SealType /\ seal.before \in 0 .. Len(rows)
        /\ Len(rows) >= 5 /\ Len(rows) \in Nat /\ DOMAIN rows = 1 .. Len(rows) /\ seal.ver \in Nat
        /\ UNCHANGED <<rows, train>>
    <2>1. Sealed /\ UNCHANGED <<rows, train>>
      BY DEF AltersSeal, Sealed
    <2>2. rows \in Seq(RowType) /\ seal \in SealType /\ seal.before \in 0 .. Len(rows) /\ seal.ver \in Nat
      BY <2>1 DEF Honest, ShapeInv, Sealed, SealType
    <2>3. Len(rows) >= 5
      BY <2>1, FamilyFacts DEF Honest, OrderInv
    <2> QED
      BY <2>1, <2>2, <2>3, RowsTyped
  <1>2. CASE \E b \in {seal.before - 1, seal.before + 1} : seal' = [seal EXCEPT !.ver = @ + 1, !.before = b]
    <2>1. PICK b \in {seal.before - 1, seal.before + 1} : seal' = [seal EXCEPT !.ver = @ + 1, !.before = b]
      BY <1>2
    <2>2. b \in Int /\ seal'.before = b /\ seal'.ver = seal.ver + 1 /\ seal' = [ver |-> seal.ver + 1,
             training |-> seal.training, choices |-> seal.choices, before |-> b]
      <3> DEFINE v == [seal EXCEPT !.ver = seal.ver + 1]
                 w == [v EXCEPT !.before = b]
      <3>1. v = [ver |-> seal.ver + 1, training |-> seal.training, choices |-> seal.choices, before |-> seal.before]
        <4>1. seal = [ver |-> seal.ver, training |-> seal.training, choices |-> seal.choices, before |-> seal.before]
          BY <1>1 DEF SealType
        <4> QED
          BY <4>1
      <3>2. seal' = w
        BY <2>1
      <3> HIDE DEF v
      <3>3. w = [ver |-> seal.ver + 1, training |-> seal.training, choices |-> seal.choices, before |-> b]
        BY <3>1
      <3>4. b \in Int
        BY <1>1
      <3> QED
        BY <3>2, <3>3, <3>4
    <2>3. Sealed'
      <3>1. seal' \in SealType
        BY <1>1, <2>2 DEF SealType
      <3> QED
        BY <3>1, NotNothing DEF Sealed
    <2>4. BeforeMoved'
      <3>1. CASE b = seal.before - 1
        <4>1. seal.before >= 5 /\ seal.before \in DOMAIN rows
          <5>1. rows[5].stage = "compile" /\ 5 \in DOMAIN rows
            BY <1>1, FamilyFacts DEF Honest, OrderInv
          <5>2. ~(5 > seal.before)
            BY <1>1, <5>1, FamilyFacts DEF Honest, OrderInv
          <5> QED
            BY <1>1, <5>2
        <4>2. rows[seal.before].stage \in {"compile", "training"}
          BY <1>1, <4>1 DEF Honest, OrderInv
        <4>3. b + 1 = seal.before
          BY <1>1, <3>1
        <4> QED
          BY <1>1, <2>2, <4>1, <4>2, <4>3 DEF BeforeMoved
      <3>2. CASE b = seal.before + 1 /\ seal.before = Len(rows)
        BY <1>1, <2>2, <3>2 DEF BeforeMoved
      <3>3. CASE b = seal.before + 1 /\ seal.before < Len(rows)
        <4>1. b \in DOMAIN rows /\ b > seal.before
          BY <1>1, <3>3
        <4>2. rows[b].seal = seal.ver
          BY <1>1, <4>1 DEF Honest, OrderInv
        <4>3. rows[b].seal # None
          BY <1>1, <4>2, NotNothing
        <4> QED
          BY <1>1, <2>2, <4>1, <4>3 DEF BeforeMoved
      <3> QED
        BY <1>1, <3>1, <3>2, <3>3
    <2>5. SealDamaged'
      BY <1>1, <2>2, <2>3, <2>4 DEF SealDamaged
    <2> QED
      BY <2>5 DEF Damaged
  <1>3. CASE \E n \in Owners : seal' = [seal EXCEPT !.ver = @ + 1, !.choices[n].selected = Initial]
                               /\ seal.choices[n].selected # Initial
    <2>1. PICK n \in Owners : seal' = [seal EXCEPT !.ver = @ + 1, !.choices[n].selected = Initial]
                               /\ seal.choices[n].selected # Initial
      BY <1>3
    <2> DEFINE ch == [seal.choices EXCEPT ![n].selected = Initial]
    <2>2. seal.choices \in Seq(ChoiceType) /\ seal.training \in Seq(StateType) /\ seal.before \in Int
      BY <1>1 DEF SealType
    <2>3. n \in DOMAIN seal.choices
      <3>1. Len(train) = Seeds * A /\ train \in Seq(StateType) /\ seal.choices = SealedChoices(train)
        BY <1>1 DEF Honest, ShapeInv, CountInv, SealInv
      <3>2. n \in DOMAIN train
        BY <3>1, Sizes
      <3> QED
        BY <3>1, <3>2 DEF SealedChoices
    <2>4. seal.choices[n] \in ChoiceType
      BY <2>2, <2>3
    <2>5. ch[n].selected = Initial
      BY <2>3, <2>4 DEF ChoiceType
    <2>6. seal' = [seal EXCEPT !.ver = @ + 1, !.choices = ch]
      BY <2>1
    <2> HIDE DEF ch
    <2>7. seal' = [ver |-> seal.ver + 1, training |-> seal.training, choices |-> ch, before |-> seal.before]
      BY <1>1, <2>6 DEF SealType
    <2>8. ch # seal.choices
      BY <2>1, <2>5
    <2>9. seal' # None
      <3>1. ch \in Seq(ChoiceType)
        <4>1. Initial \in Candidates
          BY NewStateFacts
        <4>2. [seal.choices[n] EXCEPT !.selected = Initial] \in ChoiceType
          BY <2>4, <4>1 DEF ChoiceType
        <4> QED
          BY <2>2, <2>3, <4>2 DEF ch
      <3>2. seal' \in SealType
        BY <1>1, <2>2, <2>7, <3>1 DEF SealType
      <3> QED
        BY <3>2, NotNothing
    <2>10. seal'.choices # SealedChoices(train')
      <3>1. seal.choices = SealedChoices(train)
        BY <1>1 DEF Honest, SealInv
      <3> QED
        BY <1>1, <2>7, <2>8, <3>1
    <2>11. (seal.choices # SealedChoices(train))'
      BY <2>10 DEF SealedChoices
    <2> QED
      BY <1>1, <2>2, <2>7, <2>9, <2>11 DEF Damaged, SealDamaged, Sealed
  <1> QED
    BY <1>2, <1>3 DEF AltersSeal

\* A finished study that does not pass any more is damaged.
LEMMA Refused ==
    ASSUME Finished, ctl' = ctl, (Replay = Passed)' => FALSE
    PROVE  Damaged'
  BY DEF Finished, Ended, Damaged

LEMMA AltersStageHurts ==
    ASSUME PlaceInv, Honest, AltersStage
    PROVE  Damaged'
  <1>1. Finished /\ UNCHANGED <<ctl, inputs, train, seal, ends, result>> /\ Sealed
    BY DEF AltersStage, Alters, Finished, Sealed
  <1>2. PICK k \in DOMAIN rows : rows[k].stage = "training" /\ rows' = [rows EXCEPT ![k].stage = "retention"]
    BY DEF AltersStage
  <1>3. rows \in Seq(RowType) /\ rows[k] \in RowType
    BY <1>2, RowsTyped DEF Honest, ShapeInv
  <1>4. k \in DOMAIN rows' /\ rows'[k].stage = "retention"
    BY <1>2, <1>3 DEF RowType
  <1>5. ~(k > seal.before) /\ seal.before \in Nat /\ k \in Nat
    <2>1. seal.before \in Nat /\ k \in Nat
      BY <1>1, <1>3, RowsTyped DEF Honest, ShapeInv
    <2>2. rows[k].stage \notin EndStages \cup {"exact-parser"}
      BY <1>2, FamilyFacts
    <2> QED
      BY <1>1, <2>1, <2>2 DEF Honest, OrderInv
  <1>6. ASSUME (Replay = Passed)'
        PROVE  FALSE
    <2>1. UnderSeal(k)'
      BY <1>4, <1>6, PassedThen DEF Sound
    <2> QED
      BY <1>1, <1>4, <1>5, <2>1 DEF UnderSeal
  <1> QED
    BY <1>1, <1>6, Refused

LEMMA AltersStatusHurts ==
    ASSUME PlaceInv, Honest, AltersStatus
    PROVE  Damaged'
  <1>1. Finished /\ UNCHANGED <<ctl, inputs, train, seal, ends, result>> /\ Sealed
    BY DEF AltersStatus, Alters, Finished, Sealed
  <1>2. PICK k \in DOMAIN rows : rows[k].status # "complete" /\ rows' = [rows EXCEPT ![k].status = "complete"]
    BY DEF AltersStatus
  <1>3. rows \in Seq(RowType) /\ rows[k] \in RowType
    BY <1>2, RowsTyped DEF Honest, ShapeInv
  <1>4. k \in DOMAIN rows' /\ rows'[k].status = "complete" /\ rows'[k].file = rows[k].file
    BY <1>2, <1>3 DEF RowType
  <1>5. rows[k].file # None => rows[k].file.status # "complete"
    BY <1>2 DEF Honest, RowsInv
  <1>6. ASSUME (Replay = Passed)'
        PROVE  FALSE
    <2>1. ReceiptFits(rows[k])'
      BY <1>4, <1>6, PassedThen DEF Sound
    <2> QED
      BY <1>4, <1>5, <2>1 DEF ReceiptFits
  <1> QED
    BY <1>1, <1>6, Refused

LEMMA AltersChoiceHurts ==
    ASSUME PlaceInv, Honest, AltersChoice
    PROVE  Damaged'
  <1>1. Finished /\ ctl' = ctl /\ Sealed
    BY DEF AltersChoice, Alters, Finished, Sealed
  <1>2. PICK n \in DOMAIN train : \E c \in DOMAIN train[n].cands :
           /\ train[n].cands[c] # train[n].selected
           /\ train' = [train EXCEPT ![n].selected = train[n].cands[c]]
    BY DEF AltersChoice
  <1>3. n \in Owners /\ train[n] \in StateType /\ train[n].selected = Eligible(train[n].cands)
    BY <1>1, <1>2, SealedOwners
  <1>4. train'[n].cands = train[n].cands /\ train'[n].selected # train[n].selected
    BY <1>2, <1>3 DEF StateType
  <1>5. ASSUME (Replay = Passed)'
        PROVE  FALSE
    <2>1. SelectedByRule(n)'
      BY <1>3, <1>5, PassedThen DEF Sound, OwnerFits
    <2> QED
      BY <1>3, <1>4, <2>1 DEF SelectedByRule
  <1> QED
    BY <1>1, <1>5, Refused

LEMMA AltersCasesHurts ==
    ASSUME PlaceInv, Honest, AltersCases
    PROVE  Damaged'
  <1>1. Finished /\ UNCHANGED <<ctl, inputs, rows, train, seal, result>> /\ Sealed
    BY DEF AltersCases, Alters, Finished, Sealed
  <1>2. PICK n \in Owners, f \in Cased :
          ends[n] # None /\ f \in ends[n].whole /\ ends' = [ends EXCEPT ![n].whole = @ \ {f}]
    BY DEF AltersCases
  <1>3. ends \in [Owners -> EndType \cup {None}]
    BY DEF Honest, ShapeInv
  <1>4. f \notin ends'[n].whole
    BY <1>2, <1>3 DEF EndType
  <1>5. ASSUME (Replay = Passed)'
        PROVE  FALSE
    <2>1. Evaluated(n)' /\ OwnerFits(n)'
      BY <1>2, <1>5, PassedThen DEF Sound, Incomplete
    <2>2. WorkersFit(n)' /\ RetentionWhole(n)'
      BY <2>1 DEF OwnerFits
    <2> QED
      BY <1>2, <1>4, <2>2 DEF WorkersFit, TaskWhole, LanguageWhole, RetentionWhole, Cased
  <1> QED
    BY <1>1, <1>5, Refused

LEMMA AltersRosterHurts ==
    ASSUME PlaceInv, Honest, AltersRoster
    PROVE  Damaged'
  <1>1. Finished /\ UNCHANGED <<ctl, inputs, train, seal, ends, result>>
    BY DEF AltersRoster, Alters, Finished
  <1>2. rows \in Seq(RowType) /\ Len(rows') = Len(rows) + 1 /\ Len(rows) \in Nat
    BY DEF Honest, ShapeInv, AltersRoster
  <1>3. ASSUME (Replay = Passed)'
        PROVE  FALSE
    <2>1. result'.count = Len(rows') /\ result' # None
      BY <1>3, PassedThen DEF Sound, Present
    <2>2. result.count = Len(rows)
      BY <1>1, <2>1 DEF Honest, ResultInv
    <2> QED
      BY <1>1, <1>2, <2>1, <2>2
  <1> QED
    BY <1>1, <1>3, Refused

LEMMA AltersResultHurts ==
    ASSUME PlaceInv, Honest, AltersResult
    PROVE  Damaged'
  <1>1. Finished /\ UNCHANGED <<inputs, ctl, rows, train, seal, ends>> /\ Sealed
        /\ result # None /\ result.status = "failed"
    BY DEF AltersResult, Finished, Sealed
  <1>2. ASSUME (Replay = Passed)'
        PROVE  FALSE
    <2>1. Sound' /\ ~Incomplete'
      BY <1>2, PassedThen
    <2>2. CASE \E n \in DOMAIN train : train[n].status = "failed"
      BY <1>1, <2>1, <2>2, SealedOwners DEF Incomplete
    <2>3. CASE ctl.erred
      <3>1. PICK k \in DOMAIN rows : k > seal.before /\ rows[k].status \in {"failed", "skipped"}
        BY <1>1, <2>3 DEF Honest, EvaluationInv, Broken
      <3>2. rows[k].stage \in EndStages \cup {"exact-parser"}
        BY <1>1, <3>1 DEF Honest, OrderInv
      <3>3. CASE rows[k].stage = "exact-parser"
        <4>1. (k \in GoldRows)'
          BY <1>1, <3>3 DEF GoldRows
        <4>2. GoldDone'
          BY <2>1 DEF Incomplete
        <4> QED
          BY <1>1, <3>1, <4>1, <4>2 DEF GoldDone
      <3>4. CASE rows[k].stage \in EndStages
        <4>1. PICK n \in Owners : rows[k].owner = n
          BY <3>4 DEF Honest, StageInv
        <4>2. (k \in EndRows(n))'
          BY <1>1, <3>4, <4>1, FamilyFacts DEF EndRows
        <4>3. Evaluated(n)'
          BY <2>1 DEF Incomplete
        <4> QED
          BY <1>1, <3>1, <4>2, <4>3 DEF Evaluated
      <3> QED
        BY <3>2, <3>3, <3>4
    <2> QED
      BY <1>1, <2>2, <2>3 DEF Honest, ResultInv
  <1> QED
    BY <1>1, <1>2, Refused

\* Another cost in a receipt changes what all later checkpoints have cost.
LEMMA CostTells ==
    ASSUME rows \in Seq(RowType), NEW n, NEW k \in TrainingRows(rows, n), NEW c \in Nat,
           rows[k].file # None, rows[k].file.cost # c,
           DOMAIN rows' = DOMAIN rows, \A j \in DOMAIN rows : j # k => rows'[j] = rows[j],
           rows'[k].owner = rows[k].owner, rows'[k].stage = rows[k].stage,
           rows'[k].file # None, rows'[k].file.cost = c
    PROVE  Charged(rows', n, k) # Charged(rows, n, k)
  <1>1. k \in DOMAIN rows /\ k \in Nat \ {0} /\ rows[k] \in RowType
    BY RowsTyped DEF TrainingRows
  <1>2. PICK h \in Nat : k = h + 1
    <2>1. k - 1 \in Nat /\ k = (k - 1) + 1
      BY <1>1
    <2> QED
      BY <2>1
  <1>3. \A j : j \in TrainingRows(rows', n) <=> j \in TrainingRows(rows, n)
    BY <1>1 DEF TrainingRows
  <1>4. \A j \in 1 .. h : Cost(rows', n, j) = Cost(rows, n, j)
    <2>1. ASSUME NEW j \in 1 .. h
          PROVE  Cost(rows', n, j) = Cost(rows, n, j)
      <3>1. j # k
        BY <1>2
      <3>2. j \in TrainingRows(rows, n) => rows'[j] = rows[j]
        BY <3>1 DEF TrainingRows
      <3> QED
        BY <1>3, <3>2 DEF Cost
    <2> QED
      BY <2>1
  <1>5. Charged(rows', n, h) = Charged(rows, n, h)
    BY <1>4, ChargedSame
  <1>6. Cost(rows', n, k) = c /\ Cost(rows, n, k) = rows[k].file.cost
    BY <1>3 DEF Cost, FileCost
  <1>7. Charged(rows', n, h + 1) = Charged(rows', n, h) + Cost(rows', n, h + 1)
    BY ChargedSteps
  <1>8. Charged(rows, n, h + 1) = Charged(rows, n, h) + Cost(rows, n, h + 1)
    BY ChargedSteps
  <1>9. Charged(rows, n, h) \in Nat
    BY CostTyped, ChargedTyped
  <1>10. rows[k].file.cost \in Nat
    BY <1>1 DEF RowType, ReceiptType
  <1> QED
    BY <1>2, <1>5, <1>6, <1>7, <1>8, <1>9, <1>10

LEMMA AltersCostHurts ==
    ASSUME PlaceInv, Honest, AltersCost
    PROVE  Damaged'
  <1>1. Finished /\ UNCHANGED <<ctl, inputs, train, seal, ends, result>> /\ Sealed
    BY DEF AltersCost, Alters, Finished, Sealed
  <1>2. PICK k \in DOMAIN rows, c \in Costs :
          /\ rows[k].stage = "training" /\ rows[k].file # None /\ rows[k].file.cost # c
          /\ rows' = [rows EXCEPT ![k].file.cost = c,
                                  ![k].sha = IF @ = None THEN None ELSE [@ EXCEPT !.cost = c]]
    BY DEF AltersCost
  <1>3. rows \in Seq(RowType) /\ rows[k] \in RowType /\ rows[k].file \in ReceiptType /\ c \in Nat
    BY <1>2, RowsTyped, Sizes DEF Honest, ShapeInv, RowType
  <1>4. /\ DOMAIN rows' = DOMAIN rows /\ \A j \in DOMAIN rows : j # k => rows'[j] = rows[j]
        /\ rows'[k].owner = rows[k].owner /\ rows'[k].stage = rows[k].stage
        /\ rows'[k].status = rows[k].status
        /\ rows'[k].file # None /\ rows'[k].file.cost = c
    <2> DEFINE file == [rows[k].file EXCEPT !.cost = c]
               p == [rows[k] EXCEPT !.file = file]
               q(sha) == [p EXCEPT !.sha = sha]
    <2>1. file = [status |-> rows[k].file.status, cost |-> c]
      BY <1>3 DEF ReceiptType
    <2>2. file \in ReceiptType /\ file.cost = c
      BY <1>3, <2>1 DEF ReceiptType
    <2>3. \E sha : rows' = [rows EXCEPT ![k] = q(sha)]
      <3> DEFINE mid == [rows EXCEPT ![k].file.cost = c]
      <3>1. mid = [rows EXCEPT ![k] = p]
        BY <1>2
      <3>2. mid[k] = p /\ k \in DOMAIN mid
        BY <1>2, <3>1
      <3>3. rows' = [mid EXCEPT ![k].sha = IF @ = None THEN None ELSE [@ EXCEPT !.cost = c]]
        BY <1>2
      <3> HIDE DEF mid, p
      <3>4. rows' = [mid EXCEPT ![k] = [p EXCEPT !.sha = IF @ = None THEN None ELSE [@ EXCEPT !.cost = c]]]
        BY <3>2, <3>3
      <3>5. PICK sha : rows' = [mid EXCEPT ![k] = [p EXCEPT !.sha = sha]]
        BY <3>4
      <3>6. rows' = [rows EXCEPT ![k] = [p EXCEPT !.sha = sha]]
        BY <3>1, <3>5
      <3> QED
        BY <3>6
    <2>4. PICK sha : rows' = [rows EXCEPT ![k] = q(sha)]
      BY <2>3
    <2> HIDE DEF file
    <2>5. p = [owner |-> rows[k].owner, stage |-> rows[k].stage, status |-> rows[k].status, seal |-> rows[k].seal,
               file |-> file, sha |-> rows[k].sha]
      BY <1>3 DEF RowType
    <2> HIDE DEF p
    <2>6. q(sha) = [owner |-> rows[k].owner, stage |-> rows[k].stage, status |-> rows[k].status, seal |-> rows[k].seal,
               file |-> file, sha |-> sha]
      BY <2>5
    <2>7. rows'[k] = q(sha)
      BY <1>2, <2>4
    <2>8. file # None
      BY <2>2, NotNothing
    <2> QED
      BY <1>2, <2>2, <2>4, <2>6, <2>7, <2>8
  <1>5. PICK n \in Owners : rows[k].owner = n /\ TrainOf(n) /\ k \in TrainingRows(rows, n)
    BY <1>1, <1>2, SealedOwners DEF Honest, OrderInv, TrainingRows
  <1>6. Charged(rows', n, k) # Charged(rows, n, k)
    <2>1. /\ rows \in Seq(RowType) /\ k \in TrainingRows(rows, n) /\ c \in Nat
          /\ rows[k].file # None /\ rows[k].file.cost # c
      BY <1>2, <1>3, <1>5
    <2> QED
      BY ONLY <1>4, <2>1, CostTells
  <1>7. ASSUME (Replay = Passed)'
        PROVE  FALSE
    <2>1. OwnerFits(n)' /\ ~Incomplete'
      BY <1>7, PassedThen DEF Sound
    <2>2. k \in TrainingRows(rows', n)
      BY <1>4, <1>5 DEF TrainingRows
    <2>3. (k \in TrainingRows(rows, n))'
      BY <2>2 DEF TrainingRows
    <2>4. rows'[k].status = "complete"
      BY <2>1, <2>3 DEF Incomplete
    <2>5. PICK d \in DOMAIN train[n].cands : train[n].cands[d].row = k
      BY <1>1, <2>1, <2>3, <2>4 DEF OwnerFits, Checkpointed
    <2>6. d # 1
      <3>1. k # 0
        BY <1>3, RowsTyped
      <3> QED
        BY <1>5, <2>5, <3>1, NewStateFacts DEF TrainOf
    <2>7. train[n].cands[d].cost = Charged(rows, n, k)
      BY <1>5, <2>5, <2>6 DEF TrainOf, CandidateOf
    <2>8. train[n].cands[d].cost = Charged(rows', n, k)
      <3>1. CandidatesFit(n)'
        BY <2>1 DEF OwnerFits
      <3> QED
        BY <1>1, <2>5, <2>6, <3>1 DEF CandidatesFit
    <2> QED
      BY <1>6, <2>7, <2>8
  <1> QED
    BY <1>1, <1>7, Refused

LEMMA AlteringHurts ==
    ASSUME PlaceInv, Honest, Altering
    PROVE  Damaged'
  BY AltersInputsHurts, AltersSealHurts, AltersStageHurts, AltersStatusHurts, AltersCostHurts,
     AltersChoiceHurts, AltersCasesHurts, AltersRosterHurts, AltersResultHurts DEF Altering

--------------------------------------------------------------------------------
(* Damage is not undone.                                                    *)

\* An input is written again by no step after the first.
LEMMA InputsStay ==
    ASSUME PlaceInv, [StudyNext]_studyVars, inputs = "altered", ctl.pc # "prepare"
    PROVE  inputs' = "altered" /\ ctl'.pc # "prepare"
  <1>0. ctl \in CtlType /\ ctl.i \in Nat /\ ctl.j \in Nat
    BY DEF PlaceInv, CtlType
  <1>n. \A p \in Pcs : At(p, 1, 1).pc = p
    BY <1>0, AtFacts DEF Placed
  <1>r. Raised.pc = "raise"
    BY <1>0, RaisedFacts
  <1> USE DEF Pcs
  <1>1. CASE Setting
    <2>1. At("compile", ctl.i + 1, 1).pc = "compile"
      BY <1>0, AtFacts DEF Placed
    <2> QED
      BY <1>1, <1>n, <1>r, <2>1 DEF Setting, Prepares, Validates, CompileStarts, CompileEnds, Starts
  <1>2. CASE Training
    <2>1. CASE TrainBreaks \/ CheckpointRefused \/ SamplesRefused \/ TrainEnds
      <3>1. PICK over \in BOOLEAN : \E state : TrainDone(state, over)
        BY <1>0, <2>1, TrainSteps
      <3>2. PICK state : TrainDone(state, over)
        BY <3>1
      <3>3. ctl' = Overs([ctl EXCEPT !.j = NextTurn(train, ctl.j) + 1], over) /\ inputs' = inputs
        BY <3>2 DEF TrainDone
      <3>4. Overs([ctl EXCEPT !.j = NextTurn(train, ctl.j) + 1], over).pc = ctl.pc
        BY <1>0 DEF Overs, CtlType
      <3> QED
        BY <3>3, <3>4
    <2>2. At("train", ctl.i + 1, 1).pc = "train"
      BY <1>0, AtFacts DEF Placed
    <2> QED
      BY <1>2, <1>n, <1>r, <2>1, <2>2 DEF Training, TrainStarts, SeedCloses, Starts
  <1>3. CASE Evaluating
    <2>1. CASE EvaluateBreaks \/ EvaluateEnds
      <3>1. ctl.pc = "evaluate" /\ inputs' = inputs
        BY <2>1 DEF EvaluateBreaks, EvaluateEnds
      <3> QED
        BY <2>1, <3>1, EvaluateMoves DEF PlaceInv
    <2>2. At("result", 1, 1) \in CtlType /\ At("result", 1, 1).pc = "result"
      BY <1>0, AtFacts DEF Placed
    <2>3. Erred(At("result", 1, 1)).pc = "result"
      BY <2>2, FieldFacts
    <2> QED
      BY <1>3, <1>n, <2>1, <2>2, <2>3 DEF Evaluating, Seals, EvaluateStarts, GoldStarts, GoldEnds, Starts
  <1>4. CASE Saves \/ Checks \/ Dies
    BY <1>4, <1>n DEF Saves, Checks, Dies
  <1>5. CASE Lates
    BY <1>0, <1>5, FieldFacts DEF Lates
  <1>6. CASE Altering
    BY <1>6 DEF Altering, AltersInputs, AltersSeal, AltersStage, AltersStatus, AltersCost, AltersChoice,
           AltersCases, AltersRoster, AltersResult, Alters
  <1>7. CASE Refitting
    BY <1>7 DEF Refitting, RefitsCases, RefitsCost, Refits
  <1>8. CASE UNCHANGED studyVars
    BY <1>8 DEF studyVars
  <1> QED
    BY <1>1, <1>2, <1>3, <1>4, <1>5, <1>6, <1>7, <1>8 DEF StudyNext

\* Under the seal processes start and end, and nothing that is sealed changes.
LEMMA UnderStep ==
    ASSUME PlaceInv, Sealed, rows \in Seq(RowType), [StudyNext]_studyVars, ~Altering, ~Refitting
    PROVE  /\ UNCHANGED <<train, seal>>
           /\ \/ UNCHANGED rows
              \/ Closes
              \/ \E owner \in Owners \cup {0}, stage \in Stages : Opens(owner, stage)
  <1>p. ctl.pc \in {"evaluate", "gold", "result", "check", "done", "dead"}
    BY DEF PlaceInv, AfterSeal
  <1>1. CASE Setting \/ Training \/ Seals
    BY <1>p, <1>1 DEF Setting, Training, Prepares, Validates, CompileStarts, CompileEnds, TrainStarts,
           TrainBreaks, CheckpointRefused, SamplesRefused, TrainEnds, SeedCloses, Seals
  <1>2. CASE EvaluateStarts
    <2>1. ctl.i \in Owners \cup {0} /\ Family[ctl.j] \in Stages
      BY <1>2, FamilyFacts DEF EvaluateStarts, PlaceInv, Stages
    <2> QED
      BY <1>2, <2>1 DEF EvaluateStarts, Starts, Opens, trial
  <1>3. CASE EvaluateBreaks
    <2>1. Breaks({0}) /\ {0} \subseteq Nat /\ UNCHANGED <<train, seal>>
      BY <1>3 DEF EvaluateBreaks, trial
    <2> QED
      BY <2>1, BreaksFacts
  <1>4. CASE EvaluateEnds
    <2>1. \E over \in BOOLEAN : Completes({0}, over)
      BY <1>4 DEF EvaluateEnds
    <2>2. Busy /\ rows' = Bound("complete", 0) /\ 0 \in Nat /\ UNCHANGED <<train, seal>>
      BY <1>4, <2>1 DEF EvaluateEnds, Completes
    <2> QED
      BY <2>2, CompletesFacts
  <1>5. CASE GoldStarts
    <2>1. 0 \in Owners \cup {0} /\ "exact-parser" \in Stages
      BY DEF Stages
    <2> QED
      BY <1>5, <2>1 DEF GoldStarts, Starts, Opens, trial
  <1>6. CASE GoldEnds
    <2>1. UNCHANGED <<train, seal>>
      BY <1>6 DEF GoldEnds, trial
    <2>b. Breaks({0}) \/ Completes({0}, FALSE)
      BY <1>6 DEF GoldEnds
    <2>2. CASE Breaks({0})
      <3>1. {0} \subseteq Nat
        OBVIOUS
      <3> QED
        BY <2>1, <2>2, <3>1, BreaksFacts
    <2>3. CASE Completes({0}, FALSE)
      <3>1. Busy /\ rows' = Bound("complete", 0) /\ 0 \in Nat
        BY <2>3 DEF Completes
      <3> QED
        BY <2>1, <3>1, CompletesFacts
    <2> QED
      BY <2>b, <2>2, <2>3
  <1>7. CASE Saves \/ Checks \/ Lates \/ Dies \/ UNCHANGED studyVars
    BY <1>7 DEF Saves, Checks, Lates, Dies, studyVars, trial
  <1> QED
    BY <1>1, <1>2, <1>3, <1>4, <1>5, <1>6, <1>7 DEF StudyNext, Evaluating

LEMMA SealStaysDamaged ==
    ASSUME PlaceInv, SealDamaged, [StudyNext]_studyVars, ~Altering, ~Refitting
    PROVE  SealDamaged'
  <1>1. /\ Sealed /\ rows \in Seq(RowType) /\ seal.ver \in Nat /\ seal.before \in Int
        /\ BeforeMoved \/ seal.choices # SealedChoices(train)
    BY DEF SealDamaged
  <1>2. /\ UNCHANGED <<train, seal>>
        /\ \/ UNCHANGED rows
           \/ Closes
           \/ \E owner \in Owners \cup {0}, stage \in Stages : Opens(owner, stage)
    BY <1>1, UnderStep
  <1>3. Sealed' /\ Len(rows) \in Nat /\ DOMAIN rows = 1 .. Len(rows)
    BY <1>1, <1>2, RowsTyped DEF Sealed
  <1>4. SealedChoices(train)' = SealedChoices(train) /\ seal'.choices = seal.choices
    BY <1>2 DEF SealedChoices
  <1>5. rows' \in Seq(RowType) /\ (BeforeMoved => BeforeMoved')
    <2>1. CASE UNCHANGED rows
      BY <1>1, <1>2, <2>1 DEF BeforeMoved
    <2>2. CASE Closes
      <3>1. /\ rows' \in Seq(RowType) /\ DOMAIN rows' = DOMAIN rows /\ Len(rows') = Len(rows)
            /\ \A k \in DOMAIN rows : rows'[k].stage = rows[k].stage /\ rows'[k].seal = rows[k].seal
        BY <1>1, <2>2, ClosesFacts DEF Later
      <3> QED
        BY <1>2, <3>1 DEF BeforeMoved
    <2>3. CASE \E owner \in Owners \cup {0}, stage \in Stages : Opens(owner, stage)
      <3>1. PICK owner \in Owners \cup {0}, stage \in Stages : Opens(owner, stage)
        BY <2>3
      <3>2. /\ rows' \in Seq(RowType) /\ Len(rows') = Len(rows) + 1 /\ DOMAIN rows' = 1 .. Len(rows) + 1
            /\ \A k \in DOMAIN rows : rows'[k] = rows[k]
            /\ rows'[Len(rows) + 1].seal = seal.ver
        BY <1>1, <3>1, OpensFacts DEF Later
      <3>3. seal.ver # None
        BY <1>1, NotNothing
      <3>4. CASE seal.before + 1 \in DOMAIN rows /\ rows[seal.before + 1].stage \in {"compile", "training"}
        BY <1>2, <1>3, <3>2, <3>4 DEF BeforeMoved
      <3>5. CASE seal.before = Len(rows) + 1
        BY <1>2, <1>3, <3>2, <3>3, <3>5 DEF BeforeMoved
      <3>6. CASE seal.before \in DOMAIN rows /\ rows[seal.before].seal # None
        BY <1>2, <1>3, <3>2, <3>6 DEF BeforeMoved
      <3> QED
        BY <3>2, <3>4, <3>5, <3>6 DEF BeforeMoved
    <2> QED
      BY <1>2, <2>1, <2>2, <2>3
  <1> QED
    BY <1>1, <1>2, <1>3, <1>4, <1>5 DEF SealDamaged

\* After its end a study is only checked.
LEMMA EndedStep ==
    ASSUME PlaceInv, Ended, [StudyNext]_studyVars, ~Altering, ~Refitting
    PROVE  UNCHANGED <<inputs, ctl, rows, train, seal, ends, result>>
  <1>1. ctl.pc \in {"done", "dead"}
    BY DEF Ended
  <1>2. CASE Checks
    BY <1>1, <1>2 DEF Checks, trial
  <1>3. CASE UNCHANGED studyVars
    BY <1>3 DEF studyVars
  <1>4. CASE Setting \/ Training \/ Evaluating \/ Saves \/ Lates \/ Dies
    BY <1>1, <1>4 DEF Setting, Training, Evaluating, Prepares, Validates, CompileStarts, CompileEnds,
           TrainStarts, TrainBreaks, CheckpointRefused, SamplesRefused, TrainEnds, SeedCloses, Seals,
           EvaluateStarts, EvaluateBreaks, EvaluateEnds, GoldStarts, GoldEnds, Saves, Lates, Dies, Ended
  <1> QED
    BY <1>2, <1>3, <1>4 DEF StudyNext

LEMMA DamagedStep ==
    ASSUME PlaceInv, Damaged, hurt, [StudyNext]_studyVars
    PROVE  Damaged'
  <1>1. ~Altering /\ ~Refitting
    BY DEF Altering, AltersInputs, AltersSeal, AltersStage, AltersStatus, AltersCost, AltersChoice,
           AltersCases, AltersRoster, AltersResult, Alters, Hurts, Refitting, RefitsCases, RefitsCost, Refits
  <1>2. CASE inputs = "altered" /\ ctl.pc # "prepare"
    BY <1>2, InputsStay DEF Damaged
  <1>3. CASE SealDamaged
    BY <1>1, <1>3, SealStaysDamaged DEF Damaged
  <1>4. CASE Ended /\ Replay # Passed
    <2>1. UNCHANGED <<inputs, ctl, rows, train, seal, ends, result>>
      BY <1>1, <1>4, EndedStep
    <2>2. Replay' = Replay /\ Ended'
      BY <1>4, <2>1, ReplaySame DEF Ended
    <2>3. (Replay # Passed)'
      BY <1>4, <2>2 DEF Passed
    <2> QED
      BY <2>2, <2>3 DEF Damaged
  <1> QED
    BY <1>2, <1>3, <1>4 DEF Damaged

LEMMA StudyStep == StudyInv /\ [StudyNext]_studyVars => StudyInv'
  <1> SUFFICES ASSUME StudyInv, [StudyNext]_studyVars
               PROVE  StudyInv'
    OBVIOUS
  <1>1. PlaceInv /\ PlaceInv'
    BY PlaceStep DEF StudyInv
  <1>2. CASE hurt
    <2>1. Damaged'
      BY <1>1, <1>2, DamagedStep DEF StudyInv
    <2>2. hurt'
      BY <1>2 DEF StudyNext, Setting, Training, Evaluating, Altering, Prepares, Validates, CompileStarts,
           CompileEnds, TrainStarts, TrainBreaks, CheckpointRefused, SamplesRefused, TrainEnds, TrainDone, SeedCloses,
           Seals, EvaluateStarts, EvaluateBreaks, EvaluateEnds, GoldStarts, GoldEnds, Starts, Saves, Lates, Dies,
           Checks, AltersInputs, AltersSeal, AltersStage, AltersStatus, AltersCost, AltersChoice,
           AltersCases, AltersRoster, AltersResult, Alters, Hurts, Refitting, RefitsCases, RefitsCost,
           Refits, studyVars
    <2> QED
      BY <1>1, <2>1, <2>2 DEF StudyInv
  <1>3. CASE ~hurt /\ Altering
    <2>1. Damaged'
      BY <1>1, <1>3, AlteringHurts DEF StudyInv
    <2>2. hurt'
      BY <1>3 DEF Altering, AltersInputs, AltersSeal, AltersStage, AltersStatus, AltersCost, AltersChoice,
           AltersCases, AltersRoster, AltersResult, Alters, Hurts
    <2> QED
      BY <1>1, <2>1, <2>2 DEF StudyInv
  <1>4. CASE ~hurt /\ ~Altering
    <2>1. ~hurt'
      BY <1>4 DEF StudyNext, Setting, Training, Evaluating, Prepares, Validates, CompileStarts,
           CompileEnds, TrainStarts, TrainBreaks, CheckpointRefused, SamplesRefused, TrainEnds, TrainDone, SeedCloses,
           Seals, EvaluateStarts, EvaluateBreaks, EvaluateEnds, GoldStarts, GoldEnds, Starts, Saves, Lates, Dies,
           Checks, Refitting, RefitsCases, RefitsCost, Refits, studyVars
    <2>2. Honest'
      BY <1>1, <1>4, <2>1, HonestStep DEF StudyInv
    <2> QED
      BY <1>1, <2>1, <2>2 DEF StudyInv
  <1> QED
    BY <1>2, <1>3, <1>4

\* A study to which none of the alterations of what was done was made has its records
\* as the controller wrote them, up to figures that were refitted; from the first of
\* those alterations on there is damage that the replay of a finished study finds.
THEOREM StudyInductive == StudySpec => []StudyInv
  <1>1. StudyInit => StudyInv
    BY HonestStart DEF StudyInv
  <1>2. StudyInv /\ [StudyNext]_studyVars => StudyInv'
    BY StudyStep
  <1> QED
    BY <1>1, <1>2, PTL DEF StudySpec

--------------------------------------------------------------------------------
(* What the seal, the study and its check promise.                          *)

LEMMA OwnerByRule ==
    ASSUME PlaceInv, Honest, Sealed, NEW n \in Owners
    PROVE  LET c == seal.choices[n].selected
           IN  /\ c.cost <= Budget /\ c.cost = Charged(rows, n, c.row)
               /\ c.row > 0 => rows[c.row].status = "complete" /\ rows[c.row].owner = n
               /\ \A d \in DOMAIN train[n].cands :
                     train[n].cands[d].attempts > c.attempts => train[n].cands[d].cost > Budget
  <1> DEFINE cands == train[n].cands
             c == seal.choices[n].selected
  <1>1. /\ n \in DOMAIN train /\ TrainOf(n) /\ train[n].selected = Eligible(cands)
        /\ cands \in Seq(Candidates) /\ cands # <<>> /\ cands[1] = Initial
    BY SealedOwners DEF TrainOf, StateType
  <1>2. c = Eligible(cands)
    <2>1. seal.choices = SealedChoices(train)
      BY DEF Honest, SealInv
    <2> QED
      BY <1>1, <2>1 DEF SealedChoices
  <1>3. \A d \in DOMAIN cands : cands[d].cost \in Nat /\ cands[d].attempts \in Nat
    <2>1. \A d \in DOMAIN cands : cands[d] \in Candidates
      BY <1>1
    <2> QED
      BY <2>1 DEF Candidates
  <1>4. PICK k \in Paid(cands) : Eligible(cands) = cands[k]
                                 /\ \A l \in Paid(cands) : cands[l].attempts <= cands[k].attempts
    BY <1>1, EligibleFacts
  <1>5. k \in DOMAIN cands /\ cands[k].cost <= Budget
    BY DEF Paid, WithinBudget
  <1>6. /\ cands[k].cost = Charged(rows, n, cands[k].row)
        /\ cands[k].row > 0 => rows[cands[k].row].status = "complete" /\ rows[cands[k].row].owner = n
    <2>1. CASE k = 1
      <3>1. Charged(rows, n, 0) = 0
        BY ChargedSteps
      <3> QED
        BY <1>1, <2>1, <3>1, NewStateFacts
    <2>2. CASE k # 1
      BY <1>1, <1>5, <2>2 DEF TrainOf, CandidateOf
    <2> QED
      BY <2>1, <2>2
  <1>7. ASSUME NEW d \in DOMAIN cands, cands[d].attempts > cands[k].attempts
        PROVE  cands[d].cost > Budget
    <2>1. d \notin Paid(cands)
      BY <1>3, <1>4, <1>5, <1>7
    <2> QED
      BY <1>3, <2>1, Sizes DEF Paid, WithinBudget
  <1> QED
    BY <1>2, <1>4, <1>5, <1>6, <1>7

\* What is sealed is the furthest checkpoint that was paid for, and the processes
\* lie on their side of the seal.
THEOREM SealedByRuleCorrect == StudySpec => []SealedByRule
  <1>1. StudyInv => SealedByRule
    <2> SUFFICES ASSUME StudyInv, Sealed, ~hurt
                 PROVE  /\ \A n \in Owners :
                              LET c == seal.choices[n].selected
                              IN  /\ c.cost <= Budget /\ c.cost = Charged(rows, n, c.row)
                                  /\ c.row > 0 => rows[c.row].status = "complete" /\ rows[c.row].owner = n
                                  /\ \A d \in DOMAIN train[n].cands :
                                        train[n].cands[d].attempts > c.attempts => train[n].cands[d].cost > Budget
                        /\ \A k \in DOMAIN rows :
                              IF k <= seal.before
                              THEN rows[k].status # "running" /\ rows[k].stage \in {"compile", "training"}
                              ELSE rows[k].stage # "training" /\ rows[k].seal = seal.ver
      BY DEF SealedByRule, Sealed
    <2>1. PlaceInv /\ Honest
      BY DEF StudyInv
    <2>2. ASSUME NEW k \in DOMAIN rows
          PROVE  IF k <= seal.before
                 THEN rows[k].status # "running" /\ rows[k].stage \in {"compile", "training"}
                 ELSE rows[k].stage # "training" /\ rows[k].seal = seal.ver
      <3>1. k \in Nat /\ seal.before \in Nat
        <4>1. rows \in Seq(RowType)
          BY <2>1 DEF Honest, ShapeInv
        <4>2. Len(rows) \in Nat /\ DOMAIN rows = 1 .. Len(rows) /\ seal.before \in 0 .. Len(rows)
          BY <2>1, <4>1, RowsTyped DEF Honest, ShapeInv
        <4> QED
          BY <4>2
      <3>2. (k > seal.before) <=> ~(k <= seal.before)
        BY <3>1
      <3> QED
        BY <2>1, <3>2, FamilyFacts DEF Honest, OrderInv
    <2> QED
      BY <2>1, <2>2, OwnerByRule
  <1> QED
    BY <1>1, StudyInductive, PTL

\* In a study that says it is complete every process was.
LEMMA AllComplete ==
    ASSUME PlaceInv, Honest, result # None, result.status = "complete"
    PROVE  /\ Sealed /\ WholeStudy /\ ctl.pc \in {"check", "done", "dead"} /\ ~ctl.erred
           /\ \A n \in Owners : train[n].status # "failed" /\ Unfailed(n)
           /\ \A k \in DOMAIN rows : rows[k].status = "complete"
           /\ rows \in Seq(RowType) /\ Len(rows) \in Nat /\ DOMAIN rows = 1 .. Len(rows)
           /\ seal.before \in 0 .. Len(rows) /\ seal.ver \in Nat
  <1>1. /\ Sealed /\ WholeStudy /\ ctl.pc \in {"check", "done", "dead"} /\ ~ctl.erred
        /\ \A n \in DOMAIN train : train[n].status # "failed"
    BY DEF Honest, ResultInv
  <1>2. /\ rows \in Seq(RowType) /\ Len(rows) \in Nat /\ DOMAIN rows = 1 .. Len(rows)
        /\ seal.before \in 0 .. Len(rows) /\ seal.ver \in Nat
    BY <1>1, RowsTyped DEF Honest, ShapeInv
  <1>3. DOMAIN train = Owners /\ \A n \in Owners : train[n].status # "failed" /\ Unfailed(n)
    BY <1>1, SealedOwners DEF TrainOf
  <1>4. ASSUME NEW k \in DOMAIN rows
        PROVE  rows[k].status = "complete"
    <2>1. CASE k > seal.before
      BY <1>1, <2>1 DEF WholeStudy
    <2>2. CASE ~(k > seal.before)
      <3>1. rows[k].stage \in {"compile", "training"} /\ rows[k].status # "running"
        BY <1>1, <2>2 DEF Honest, OrderInv
      <3>2. CASE rows[k].stage = "compile"
        BY <1>1, <3>1, <3>2 DEF Honest, StageInv
      <3>3. CASE rows[k].stage = "training"
        <4>1. rows[k].owner \in Owners
          BY <1>3, <3>3 DEF Honest, OrderInv
        <4> QED
          BY <1>3, <3>1, <3>3, <4>1 DEF Unfailed, TrainingRows
      <3> QED
        BY <3>1, <3>2, <3>3
    <2> QED
      BY <2>1, <2>2
  <1> QED
    BY <1>1, <1>2, <1>3, <1>4

\* The five processes of an owner lie side by side under the seal.
LEMMA EndRowsAre ==
    ASSUME PlaceInv, Honest, result # None, result.status = "complete", NEW n \in Owners
    PROVE  LET b == seal.before + 5 * (n - 1)
           IN  /\ b \in Nat /\ EndRows(n) = b + 1 .. b + 5
               /\ \A j \in 1 .. 5 : rows[b + j].stage = Family[j]
  <1>1. /\ Sealed /\ WholeStudy /\ rows \in Seq(RowType) /\ Len(rows) \in Nat /\ DOMAIN rows = 1 .. Len(rows)
        /\ seal.before \in 0 .. Len(rows)
    BY AllComplete
  <1> DEFINE s == seal.before
             S == Seeds * A
             b == s + 5 * (n - 1)
  <1>2. n \in Nat /\ 1 <= n /\ n <= S /\ S \in Nat /\ s \in Nat
    BY <1>1, Sizes
  <1>3. Len(rows) = s + 5 * S + 1 /\ GoldRow(Len(rows)) /\ Len(Family) = 5
    BY <1>1, FamilyFacts DEF WholeStudy
  <1>4. \A k \in DOMAIN rows : k > s /\ k <= s + 5 * S =>
           rows[k].owner = ((k - s - 1) \div 5) + 1 /\ rows[k].stage = Family[((k - s - 1) % 5) + 1]
    <2>1. \A k \in DOMAIN rows : k > s /\ k <= s + Len(Family) * (Seeds * A) + 0 => EndRow(k)
      BY <1>1 DEF WholeStudy, EvaluatedTo
    <2>2. s + Len(Family) * (Seeds * A) + 0 = s + 5 * S
      BY <1>2, <1>3
    <2> QED
      BY <1>3, <2>1, <2>2 DEF EndRow
  <1>5. \A k \in DOMAIN rows : ~(k > s) => rows[k].stage = "training" \/ rows[k].owner = 0
    BY <1>1 DEF Honest, OrderInv
  <1> HIDE DEF s, S
  <1>6. b \in Nat /\ b >= s /\ b + 5 <= s + 5 * S
    BY <1>2
  <1>7. ASSUME NEW k \in EndRows(n)
        PROVE  k \in b + 1 .. b + 5
    <2>1. k \in DOMAIN rows /\ rows[k].owner = n /\ rows[k].stage # "training" /\ k \in Nat /\ k <= Len(rows)
      BY <1>1 DEF EndRows
    <2>2. k > s
      BY <1>2, <1>5, <2>1
    <2>3. k # Len(rows)
      BY <1>2, <1>3, <2>1 DEF GoldRow
    <2>4. k <= s + 5 * S
      BY <1>1, <1>2, <1>3, <2>1, <2>3
    <2>5. n = ((k - s - 1) \div 5) + 1
      BY <1>4, <2>1, <2>2, <2>4
    <2>6. \A x, y \in Nat : x \div 5 = y => 5 * y <= x /\ x <= 5 * y + 4
      OBVIOUS
    <2>7. k - s - 1 \in Nat /\ n - 1 \in Nat
      BY <1>2, <2>1, <2>2
    <2>8. (k - s - 1) \div 5 = n - 1
      <3> DEFINE q == (k - s - 1) \div 5
      <3>1. q \in Int /\ n = q + 1
        BY <2>5, <2>7
      <3> HIDE DEF q
      <3>2. q = n - 1
        BY <1>2, <3>1
      <3> QED
        BY <3>2 DEF q
    <2>9. 5 * (n - 1) <= k - s - 1 /\ k - s - 1 <= 5 * (n - 1) + 4
      BY ONLY <2>6, <2>7, <2>8
    <2> QED
      BY ONLY <1>2, <2>1, <2>9
  <1>8. ASSUME NEW j \in 1 .. 5
        PROVE  b + j \in EndRows(n) /\ rows[b + j].stage = Family[j]
    <2>1. PICK k \in Nat : k = b + j
      BY <1>6
    <2>2. k \in DOMAIN rows /\ k > s /\ k <= s + 5 * S
      BY <1>1, <1>2, <1>3, <1>6, <2>1
    <2>3. k - s - 1 = 5 * (n - 1) + (j - 1) /\ n - 1 \in Nat /\ j - 1 \in 0 .. 4
      BY <1>2, <2>1
    <2>4. (k - s - 1) \div 5 = n - 1 /\ (k - s - 1) % 5 = j - 1
      BY <2>3, Fives
    <2>5. rows[k].owner = (n - 1) + 1 /\ rows[k].stage = Family[(j - 1) + 1]
      BY <1>4, <2>2, <2>4
    <2>6. rows[k].owner = n /\ rows[k].stage = Family[j] /\ Family[j] # "training"
      BY <1>2, <2>5, FamilyFacts
    <2>7. k \in EndRows(n)
      BY <2>2, <2>6 DEF EndRows
    <2> HIDE DEF b
    <2> QED
      BY <2>1, <2>6, <2>7
  <1>9. \A k \in b + 1 .. b + 5 : k \in EndRows(n)
    <2>1. ASSUME NEW k \in b + 1 .. b + 5
          PROVE  k \in EndRows(n)
      <3>1. k - b \in 1 .. 5 /\ b + (k - b) = k
        BY <1>6
      <3> HIDE DEF b
      <3>2. b + (k - b) \in EndRows(n)
        BY <1>8, <3>1
      <3> QED
        BY <3>1, <3>2
    <2> QED
      BY <2>1
  <1>10. EndRows(n) = b + 1 .. b + 5
    BY <1>7, <1>9
  <1> QED
    BY <1>6, <1>8, <1>10 DEF s

LEMMA OwnerPasses ==
    ASSUME PlaceInv, Honest, result # None, result.status = "complete", NEW n \in Owners
    PROVE  OwnerFits(n) /\ Evaluated(n)
  <1>1. /\ Sealed /\ WholeStudy /\ Unfailed(n) /\ \A k \in DOMAIN rows : rows[k].status = "complete"
    BY AllComplete
  <1>2. n \in DOMAIN train /\ train[n] \in StateType /\ TrainOf(n) /\ train[n].selected = Eligible(train[n].cands)
    BY <1>1, SealedOwners
  <1>3. PICK b \in Nat : EndRows(n) = b + 1 .. b + 5 /\ \A j \in 1 .. 5 : rows[b + j].stage = Family[j]
    BY EndRowsAre
  <1>4. Evaluated(n)
    <2>1. Cardinality(EndRows(n)) = 5
      <3>1. Cardinality(b + 1 .. b + 5) = IF b + 1 > b + 5 THEN 0 ELSE (b + 5) - (b + 1) + 1
        BY FS_Interval
      <3> QED
        BY <1>3, <3>1
    <2>2. \A k \in EndRows(n) : rows[k].status = "complete"
      BY <1>1 DEF EndRows
    <2> QED
      BY <2>1, <2>2, FamilyFacts DEF Evaluated
  <1>5. Checkpointed(n)
    <2>1. "complete" # "running"
      OBVIOUS
    <2> QED
      BY <1>1, <2>1 DEF Unfailed, Checkpointed
  <1>6. CandidatesFit(n)
    BY <1>2 DEF TrainOf, CandidateOf, CandidatesFit
  <1>7. SelectedByRule(n) /\ SamplesFit(n)
    BY <1>1, <1>2 DEF SelectedByRule, SamplesFit, Unfailed
  <1>8. SealedEnd(n)
    <2>1. n \in 1 .. Seeds * A
      BY Sizes
    <2> QED
      BY <1>1, <2>1 DEF WholeStudy, EvaluatedTo
  <1>9. ends[n] # None /\ ends[n].seal = seal.ver /\ ends[n].model = train[n].selected /\ ends[n].whole = Cased
    BY <1>8 DEF SealedEnd, Honest, ShapeInv
  <1>10. {rows[k].stage : k \in EndRows(n)} = EndStages
    <2>1. ASSUME NEW k \in EndRows(n)
          PROVE  rows[k].stage \in EndStages
      <3>1. k - b \in 1 .. 5 /\ b + (k - b) = k
        BY <1>3
      <3>2. rows[b + (k - b)].stage = Family[k - b]
        BY <1>3, <3>1
      <3> QED
        BY <3>1, <3>2, FamilyFacts
    <2>2. ASSUME NEW j \in 1 .. 5
          PROVE  \E k \in EndRows(n) : rows[k].stage = Family[j]
      <3>1. b + j \in EndRows(n)
        BY <1>3
      <3> QED
        BY <1>3, <3>1
    <2>3. EndStages = {Family[j] : j \in 1 .. 5}
      BY FamilyFacts DEF EndStages
    <2> QED
      BY <2>1, <2>2, <2>3
  <1>11. EndpointFits(n) /\ WorkersFit(n) /\ RetentionWhole(n)
    BY <1>9, <1>10 DEF EndpointFits, WorkersFit, RetentionWhole, TaskWhole, LanguageWhole, Cased
  <1> QED
    BY <1>4, <1>5, <1>6, <1>7, <1>11 DEF OwnerFits

LEMMA GoldPasses ==
    ASSUME PlaceInv, Honest, result # None, result.status = "complete"
    PROVE  GoldDone
  <1>1. /\ Sealed /\ WholeStudy /\ (\A k \in DOMAIN rows : rows[k].status = "complete")
        /\ Len(rows) \in Nat /\ DOMAIN rows = 1 .. Len(rows) /\ seal.before \in 0 .. Len(rows)
    BY AllComplete
  <1>2. Len(rows) = seal.before + 5 * (Seeds * A) + 1 /\ GoldRow(Len(rows)) /\ Seeds * A \in Nat
    BY <1>1, FamilyFacts, Sizes DEF WholeStudy
  <1>3. ASSUME NEW k \in DOMAIN rows, k # Len(rows)
        PROVE  rows[k].stage # "exact-parser"
    <2>1. CASE k > seal.before
      <3> DEFINE d == k - seal.before - 1
      <3>1. k <= seal.before + 5 * (Seeds * A) /\ d \in Nat
        BY <1>1, <1>2, <1>3, <2>1
      <3>2. EndRow(k)
        <4>1. seal.before + Len(Family) * (Seeds * A) + 0 = seal.before + 5 * (Seeds * A)
          BY <1>1, <1>2, FamilyFacts
        <4> QED
          BY <1>1, <2>1, <3>1, <4>1 DEF WholeStudy, EvaluatedTo
      <3>3. rows[k].stage = Family[(d % 5) + 1]
        BY <3>2, FamilyFacts DEF EndRow
      <3> HIDE DEF d
      <3>4. (d % 5) + 1 \in 1 .. 5
        BY <3>1
      <3> QED
        BY <3>3, <3>4, FamilyFacts
    <2>2. CASE ~(k > seal.before)
      BY <1>1, <2>2 DEF Honest, OrderInv
    <2> QED
      BY <2>1, <2>2
  <1>4. GoldRows = {Len(rows)}
    BY <1>1, <1>2, <1>3 DEF GoldRows, GoldRow
  <1>5. Cardinality(GoldRows) = 1
    BY <1>4, FS_Singleton
  <1> QED
    BY <1>1, <1>4, <1>5 DEF GoldDone, GoldRows

\* A study that says it is complete, and whose output kept its size, passes.
LEMMA CompleteFits ==
    ASSUME PlaceInv, Honest, result # None, result.status = "complete", ~ctl.over
    PROVE  Replay = Passed
  <1>1. /\ Sealed /\ WholeStudy /\ ctl.pc \in {"check", "done", "dead"}
        /\ \A n \in Owners : train[n].status # "failed" /\ Unfailed(n)
        /\ \A k \in DOMAIN rows : rows[k].status = "complete"
        /\ rows \in Seq(RowType) /\ Len(rows) \in Nat /\ DOMAIN rows = 1 .. Len(rows)
        /\ seal.before \in 0 .. Len(rows) /\ seal.ver \in Nat
    BY AllComplete
  <1>2. Intact /\ Present
    BY <1>1 DEF Honest, CountInv, Intact, Present, Sealed
  <1>3. SealFits
    BY <1>1 DEF Honest, SealInv, CountInv, SealFits
  <1>4. SetupFirst
    <2>1. Len(rows) >= Len(Binaries)
      BY <1>1 DEF Honest, OrderInv
    <2>2. \A k \in DOMAIN rows : (rows[k].stage = "compile") = (k <= Len(Binaries))
      BY <1>1 DEF Honest, OrderInv
    <2> QED
      BY <2>1, <2>2 DEF SetupFirst
  <1>5. ASSUME NEW k \in DOMAIN rows
        PROVE  ReceiptFits(rows[k]) /\ UnderSeal(k)
    <2>1. ReceiptFits(rows[k])
      BY <1>1 DEF Honest, RowsInv, ReceiptFits
    <2>2. k \in Nat /\ seal.before \in Nat
      BY <1>1
    <2>3. (k > seal.before) <=> ~(k <= seal.before)
      BY <2>2
    <2> QED
      BY <1>1, <2>1, <2>3 DEF Honest, OrderInv, UnderSeal
  <1>6. \A s \in 1 .. Seeds : Paired(train, s)
    BY <1>1 DEF Honest, SelectInv, Through
  <1>7. Sound
    BY <1>2, <1>3, <1>4, <1>5, <1>6, OwnerPasses DEF Sound
  <1>8. ~Incomplete
    BY <1>1, GoldPasses, OwnerPasses DEF Incomplete, TrainingRows
  <1>9. result.count = Len(rows)
    BY DEF Honest, ResultInv
  <1> QED
    BY <1>7, <1>8, <1>9 DEF Replay, Passed

\* The replay agrees with every study that says it is complete, whose output kept its
\* size and to which no alteration of what was done was made, refitted figures or not.
THEOREM CompletePassesCorrect == StudySpec => []CompletePasses
  <1>1. StudyInv => CompletePasses
    <2> SUFFICES ASSUME StudyInv, verdict # None, result # None, ~hurt, ~ctl.over, result.status = "complete"
                 PROVE  verdict = Passed
      BY DEF CompletePasses, Passed
    <2>1. PlaceInv /\ Honest
      BY DEF StudyInv
    <2> QED
      BY <2>1, CompleteFits DEF Honest, VerdictInv
  <1> QED
    BY <1>1, StudyInductive, PTL

\* Only a check says what the verdict is, of the records it finds.
LEMMA VerdictWritten ==
    ASSUME [StudyNext]_studyVars, verdict' # verdict
    PROVE  Checks
  BY DEF StudyNext, Setting, Training, Evaluating, Altering, Prepares, Validates, CompileStarts,
         CompileEnds, TrainStarts, TrainBreaks, CheckpointRefused, SamplesRefused, TrainEnds, TrainDone, SeedCloses,
         Seals, EvaluateStarts, EvaluateBreaks, EvaluateEnds, GoldStarts, GoldEnds, Starts, Saves, Lates, Dies,
         AltersInputs, AltersSeal, AltersStage, AltersStatus, AltersCost, AltersChoice,
         AltersCases, AltersRoster, AltersResult, Alters, Refitting, RefitsCases, RefitsCost, Refits, studyVars

\* A check that passes has replayed a whole study to which none of the alterations of
\* what was done was made.  Of the figures in it nothing is said.
THEOREM CheckMeansWholeCorrect == StudySpec => CheckMeansWhole
  <1> DEFINE Means ==
               (verdict' # verdict /\ verdict' = [status |-> "complete", error |-> FALSE])
               => /\ ~hurt
                  /\ \A n \in Owners : train[n].status # "failed" /\ Evaluated(n) /\ ends[n].whole = Cased
                  /\ GoldDone
  <1>1. StudyInv /\ [StudyNext]_studyVars => Means
    <2> SUFFICES ASSUME StudyInv, [StudyNext]_studyVars, verdict' # verdict, verdict' = Passed
                 PROVE  /\ ~hurt
                        /\ \A n \in Owners : train[n].status # "failed" /\ Evaluated(n) /\ ends[n].whole = Cased
                        /\ GoldDone
      BY DEF Passed
    <2>1. Replay = Passed /\ (ctl.pc = "check" \/ Ended)
      BY VerdictWritten DEF Checks
    <2>2. ~hurt /\ Honest
      BY <2>1, DamagedFails DEF StudyInv
    <2>3. Sound /\ ~Incomplete
      BY <2>1, PassedMeans
    <2>4. ASSUME NEW n \in Owners
          PROVE  train[n].status # "failed" /\ Evaluated(n) /\ ends[n].whole = Cased
      <3>1. train[n].status # "failed" /\ Evaluated(n)
        BY <2>3 DEF Incomplete
      <3>2. ends[n] # None
        BY <2>3, <3>1 DEF Sound, OwnerFits, EndpointFits
      <3> QED
        BY <2>2, <3>1, <3>2 DEF Honest, ShapeInv
    <2> QED
      BY <2>2, <2>3, <2>4 DEF Incomplete
  <1>2. StudySpec => [][Means]_studyVars
    BY <1>1, StudyInductive, PTL DEF StudySpec
  <1> QED
    BY <1>2 DEF CheckMeansWhole
================================================================================
