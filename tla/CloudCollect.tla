------------------------------ MODULE CloudCollect -----------------------------
(***************************************************************************)
(* Getting a run's outputs off its machine (src/scripts/*_cloud_collect.py *)
(* and the end of the host scripts).  The host archives what the container *)
(* left, under a byte and a member ceiling, and uploads it against a row   *)
(* of cut-offs before its shutdown; receivers on other machines wait for   *)
(* the termination and rebuild the outputs from the objects the host's     *)
(* last object names.  Any upload may be refused, or be stored and its     *)
(* answer lost; the machine may die between any two steps.  A behaviour is *)
(* about one study.                                                        *)
(***************************************************************************)
EXTENDS Integers, Sequences

CONSTANTS Studies,     \* the scripts a behaviour may be about
          Instants,    \* readings of the clock: seconds left for collection
          Outputs,     \* what a container may leave: sequences of files
          Receivers,   \* collector processes
          MaxBytes,    \* storage.max_archive_bytes, less the reserved headers
          MaxMembers,  \* storage.max_archive_members
          Chunk,       \* storage.archive_chunk_bytes
          MaxChunks,   \* storage.max_archive_chunks
          Inventory,   \* what COLLECTION-INVENTORY.json takes
          None

FileType == [size : Nat, regular : BOOLEAN]

\* What the package checks demand of a plan's storage (check_budget).
ASSUME CloudCollectAssumption ==
    /\ Instants \subseteq Int
    /\ Outputs \subseteq Seq(FileType)
    /\ MaxBytes \in Nat /\ MaxMembers \in Nat \ {0}
    /\ Chunk \in Nat \ {0} /\ MaxChunks \in Nat \ {0}
    /\ Inventory \in Nat \ {0}
    /\ MaxBytes + Inventory <= Chunk * MaxChunks

ArchiveType == [files : Seq(Nat), room : 0 .. MaxBytes, complete : BOOLEAN]

ReceiptType ==
    [archive : ArchiveType \cup {None}, parts : Seq(Nat), pending : Nat \cup {None},
     transport : BOOLEAN]

TerminalType ==
    [status : {"failed", "complete"}, complete : BOOLEAN, bootstrap : BOOLEAN,
     receipt : BOOLEAN, files : Nat, uploadFailed : BOOLEAN]

\* Why a receiver gives up.
Reasons == {"call", "running", "attached", "no terminal", "objects", "diagnostic"}

\* None is what a field holds that was never written.
ASSUME NoneAssumption ==
    /\ None \notin ArchiveType
    /\ None \notin ReceiptType
    /\ None \notin TerminalType
    /\ None \notin Nat \cup Reasons

VARIABLES study,     \* the script this behaviour is about
          outputs,   \* the files under the output directory, sorted
          exit,      \* the controller's exit code
          left,      \* seconds until the collection deadline
          host,      \* the collecting process on the machine
          bucket,    \* the objects under the run's prefix
          machine,   \* is the machine up, are volumes or interfaces attached
          recv       \* the collector processes

vars == <<study, outputs, exit, left, host, bucket, machine, recv>>

--------------------------------------------------------------------------------
(* Each script's cut-offs, in seconds before the collection deadline, by    *)
(* which an object must be under way.  Splits says the archive is uploaded  *)
(* in parts.                                                                *)

Cuts(bootstrap, archive, object, collection) ==
    [bootstrap |-> bootstrap, archive |-> archive, object |-> object,
     collection |-> collection]

PartCuts   == Cuts(120, 120, 90, 30)
ObjectCuts == Cuts(90, 60, 40, 20)
RoleCuts   == Cuts(10, 10, 10, 10)

PartStudies   == {"zero4", "reasoner_study", "feral_coverage"}
ObjectStudies == {"solomon", "weight"}

Cutoffs == CASE study \in PartStudies   -> PartCuts
             [] study \in ObjectStudies -> ObjectCuts
             [] study = "reasoner4"     -> RoleCuts

\* put and aws: nothing is sent after the cut-off.  What is sent is stored or
\* not, and an error may come back for what was stored.
PutOutcomes(cutoff) ==
    IF left > cutoff
    THEN {[stored |-> TRUE, ok |-> TRUE], [stored |-> TRUE, ok |-> FALSE],
          [stored |-> FALSE, ok |-> FALSE]}
    ELSE {[stored |-> FALSE, ok |-> FALSE]}

--------------------------------------------------------------------------------
(* The archive: the length of each file that went in, what is left of the   *)
(* byte ceiling, and whether anything is missing so far.                    *)

Least(x, y) == IF x <= y THEN x ELSE y

Empty == [files |-> <<>>, room |-> MaxBytes, complete |-> TRUE]

Bytes(archive) == MaxBytes - archive.room + Inventory

\* A file is cut at what is left; a link is only recorded.
WithFile(archive, file) ==
    LET kept == IF file.regular THEN Least(file.size, archive.room) ELSE 0
    IN  [files    |-> Append(archive.files, kept),
         room     |-> archive.room - kept,
         complete |-> archive.complete /\ file.regular /\ kept = file.size]

\* Mutant: what comes behind a ceiling or the deadline is not missed.
ForgetCeiling(archive) == archive

\* The loop is over: nothing may be behind the last file it reached.
Archived(archive) ==
    [archive EXCEPT !.complete = @ /\ Len(archive.files) = Len(outputs)]

\* upload_parts reads on while something is left.
More(archive, i) == (i - 1) * Chunk < Bytes(archive)

PartBytes(archive, i) == Least(Chunk, Bytes(archive) - (i - 1) * Chunk)

--------------------------------------------------------------------------------
(* The host                                                                 *)

NoReceipt == [archive |-> None, parts |-> <<>>, pending |-> None, transport |-> FALSE]

Terminal == [status |-> "failed", complete |-> FALSE, bootstrap |-> FALSE,
             receipt |-> FALSE, files |-> 0,
             uploadFailed |-> FALSE]

Init ==
    /\ study \in Studies
    /\ outputs \in Outputs
    /\ exit \in {0, 1}
    /\ left \in Instants
    /\ host = [pc |-> "running", archive |-> Empty, receipt |-> NoReceipt,
               terminal |-> Terminal]
    /\ bucket = [bootstrap |-> FALSE, objects |-> {}, collection |-> None,
                 terminal |-> None]
    /\ machine = [up |-> TRUE, attached |-> TRUE]
    /\ recv = [r \in Receivers |-> [pc |-> "idle", why |-> None, terminal |-> None,
                                    results |-> None]]

elsewhere == <<study, outputs, exit, machine, recv>>

\* Which way a host goes: a package that was never verified has no collector
\* and leaves its log and a terminal only.
Start ==
    /\ host.pc = "running"
    /\ \/ host' = [host EXCEPT !.pc = IF study = "reasoner4" THEN "files" ELSE "bootstrap"]
       \/ /\ study # "reasoner4"
          /\ exit = 1
          /\ host' = [host EXCEPT !.pc = "unverified"]
    /\ UNCHANGED <<left, bucket, elsewhere>>

\* Where an exception leaves collect_host: with parts there is a receipt to
\* upload all the same.
Failed(h) ==
    [h EXCEPT !.pc = IF study \in PartStudies THEN "collection" ELSE "terminal"]

PutBootstrap ==
    /\ host.pc \in {"bootstrap", "unverified"}
    /\ \E o \in PutOutcomes(IF host.pc = "unverified" THEN 40 ELSE Cutoffs.bootstrap) :
          /\ bucket' = [bucket EXCEPT !.bootstrap = o.stored]
          /\ host' = LET h == [host EXCEPT !.terminal.bootstrap = o.ok] IN
                     IF host.pc = "unverified" THEN [h EXCEPT !.pc = "terminal"]
                     ELSE IF o.ok THEN [h EXCEPT !.pc = "archive"] ELSE Failed(h)
    /\ UNCHANGED <<left, elsewhere>>

\* archive_outputs, one file: the deadline and the member ceiling come first.
ArchiveFile ==
    LET i == Len(host.archive.files) + 1 IN
    /\ host.pc = "archive"
    /\ left > Cutoffs.archive
    /\ i <= Least(Len(outputs), MaxMembers)
    /\ host' = [host EXCEPT !.archive = WithFile(@, outputs[i])]
    /\ UNCHANGED <<left, bucket, elsewhere>>

ArchiveEnds ==
    /\ host.pc = "archive"
    /\ \/ left <= Cutoffs.archive
       \/ Len(host.archive.files) = Least(Len(outputs), MaxMembers)
    /\ host' = [host EXCEPT !.pc = "object", !.receipt.archive = Archived(host.archive)]
    /\ UNCHANGED <<left, bucket, elsewhere>>

\* A full disk or an unreadable file ends the collection.
ArchiveFails ==
    /\ host.pc = "archive"
    /\ host' = Failed(host)
    /\ UNCHANGED <<left, bucket, elsewhere>>

ArchiveOutputs == ArchiveFile \/ ArchiveEnds \/ ArchiveFails

Store(i, bytes) == bucket.objects \cup {[index |-> i, bytes |-> bytes]}

\* Mutant: the receipt forgets an upload whose answer never came.
ForgetPending(archive, i) ==
    \E o \in PutOutcomes(Cutoffs.object) :
       /\ bucket' = IF o.stored THEN [bucket EXCEPT !.objects = Store(i, PartBytes(archive, i))]
                                ELSE bucket
       /\ host' = IF o.ok
                  THEN [host EXCEPT !.receipt.parts = Append(@, PartBytes(archive, i))]
                  ELSE Failed(host)

\* upload_parts, one part: the receipt names it as pending before it is sent
\* and keeps that name when the upload fails.
PutPart(archive, i) ==
    \E o \in PutOutcomes(Cutoffs.object), named \in BOOLEAN :
       /\ o.stored => named
       /\ bucket' = IF o.stored THEN [bucket EXCEPT !.objects = Store(i, PartBytes(archive, i))]
                                ELSE bucket
       /\ host' = IF o.ok
                  THEN [host EXCEPT !.receipt.parts = Append(@, PartBytes(archive, i))]
                  ELSE Failed([host EXCEPT !.receipt.pending = IF named THEN i ELSE None])

\* The archive has reached the bucket: the terminal's verdict.
Verdict(h) ==
    [h EXCEPT !.terminal.complete = h.receipt.archive.complete,
              !.terminal.status = IF h.receipt.archive.complete /\ exit = 0
                                  THEN "complete" ELSE "failed"]

UploadParts ==
    LET archive == host.receipt.archive
        i       == Len(host.receipt.parts) + 1
    IN /\ study \in PartStudies
       /\ host.pc = "object"
       /\ \/ /\ More(archive, i) /\ i <= MaxChunks
             /\ PutPart(archive, i)
          \/ /\ More(archive, i) /\ i > MaxChunks
             /\ host' = Failed(host)
             /\ UNCHANGED bucket
          \/ /\ ~More(archive, i)
             /\ host' = [Verdict(host) EXCEPT !.pc = "collection",
                                              !.receipt.transport = TRUE]
             /\ UNCHANGED bucket
       /\ UNCHANGED <<left, elsewhere>>

\* The archive in one piece; the receipt is written when the answer is in.
UploadObject ==
    LET archive == host.receipt.archive IN
    /\ study \in ObjectStudies
    /\ host.pc = "object"
    /\ \E o \in PutOutcomes(Cutoffs.object) :
          /\ bucket' = IF o.stored THEN [bucket EXCEPT !.objects = Store(1, Bytes(archive))]
                                   ELSE bucket
          /\ host' = IF o.ok THEN [host EXCEPT !.pc = "collection",
                                               !.receipt.parts = <<Bytes(archive)>>,
                                               !.receipt.transport = TRUE]
                             ELSE Failed(host)
    /\ UNCHANGED <<left, elsewhere>>

\* Mutant: a receipt that cannot be uploaded leaves the verdict as it was.
KeepVerdict(h) == h

\* The exception path of the receipt's own upload (parts), or of everything
\* since the archive (one object, whose verdict follows the receipt).
Unreceipted(h) ==
    [h EXCEPT !.terminal.complete = FALSE, !.terminal.status = "failed"]

PutCollection ==
    /\ host.pc = "collection"
    /\ \E o \in PutOutcomes(Cutoffs.collection) :
          /\ bucket' = [bucket EXCEPT !.collection = IF o.stored THEN host.receipt ELSE None]
          /\ host' = LET h == [host EXCEPT !.pc = "terminal", !.terminal.receipt = o.ok] IN
                     IF ~o.ok THEN Unreceipted(h)
                     ELSE IF study \in ObjectStudies THEN Verdict(h) ELSE h
    /\ UNCHANGED <<left, elsewhere>>

\* reasoner4's finish: the terminal lists every file, each is uploaded by
\* itself, and one failure makes the status failed.
PutFiles ==
    /\ host.pc = "files"
    /\ LET i == host.terminal.files + 1 IN
       \/ /\ i <= Len(outputs)
          /\ \E o \in PutOutcomes(Cutoffs.object) :
                /\ bucket' = IF o.stored
                             THEN [bucket EXCEPT !.objects = Store(i, outputs[i].size)]
                             ELSE bucket
                /\ host' = [host EXCEPT !.terminal.files = i,
                                        !.terminal.uploadFailed = @ \/ ~o.ok]
       \/ /\ i > Len(outputs)
          /\ host' = [host EXCEPT !.pc = "terminal",
                         !.terminal.status = IF exit = 0 /\ ~host.terminal.uploadFailed
                                             THEN "complete" ELSE "failed"]
          /\ UNCHANGED bucket
    /\ UNCHANGED <<left, elsewhere>>

PutTerminal ==
    /\ host.pc = "terminal"
    /\ \E o \in PutOutcomes(0) :
          bucket' = [bucket EXCEPT !.terminal = IF o.stored THEN host.terminal ELSE None]
    /\ host' = [host EXCEPT !.pc = "done"]
    /\ UNCHANGED <<left, elsewhere>>

\* shutdown -h now at the end, or by the deadline unit, or by the provider:
\* whatever the host was doing is over and its disk goes with it.
Shutdown ==
    /\ machine.up
    /\ machine' = [machine EXCEPT !.up = FALSE]
    /\ host' = [pc |-> "off", archive |-> Empty, receipt |-> NoReceipt,
                terminal |-> Terminal]
    /\ UNCHANGED <<study, outputs, exit, left, bucket, recv>>

\* The volume and the interface of a terminated instance go a little later.
Released ==
    /\ ~machine.up /\ machine.attached
    /\ machine' = [machine EXCEPT !.attached = FALSE]
    /\ UNCHANGED <<study, outputs, exit, left, host, bucket, recv>>

Tick ==
    /\ machine.up
    /\ left' \in {t \in Instants : t < left}
    /\ UNCHANGED <<host, bucket, elsewhere>>

--------------------------------------------------------------------------------
(* The receivers                                                            *)

rest == <<study, outputs, exit, left, host, bucket, machine>>

Move(r, from, to) ==
    /\ recv[r].pc = from
    /\ recv' = [recv EXCEPT ![r].pc = to]
    /\ UNCHANGED rest

\* The attempt is over and its directory is spent.
Refuse(r, why) ==
    /\ recv' = [recv EXCEPT ![r].pc = "refused", ![r].why = why]
    /\ UNCHANGED rest

\* A launch receipt with status "launched", bound to this plan, and a
\* directory of one's own.
Receive(r) ==
    Move(r, "idle", IF study = "reasoner4" THEN "terminal" ELSE "instance")

\* Any call may fail or time out.
CallFails(r) ==
    /\ recv[r].pc \notin {"idle", "refused", "collected"}
    /\ Refuse(r, "call")

Terminated(r, next) ==
    \/ ~machine.up /\ Move(r, "instance", next)
    \/ recv[r].pc = "instance" /\ machine.up /\ Refuse(r, "running")

CleanedUp(r, next) ==
    \/ ~machine.attached /\ Move(r, "cleanup", next)
    \/ recv[r].pc = "cleanup" /\ machine.attached /\ Refuse(r, "attached")

\* The terminal object is the one the prefix names; a machine that died first
\* never wrote one.
FetchTerminal(r) ==
    /\ recv[r].pc = "terminal"
    /\ IF bucket.terminal = None THEN Refuse(r, "no terminal")
       ELSE /\ recv' = [recv EXCEPT ![r].pc = "results", ![r].terminal = bucket.terminal]
            /\ UNCHANGED rest

Has(i, bytes) == [index |-> i, bytes |-> bytes] \in bucket.objects

\* Mutant: the last part must be a full one too.
FullParts(receipt) ==
    /\ Bytes(receipt.archive) <= MaxBytes + Inventory
    /\ Len(receipt.parts) \in 1 .. MaxChunks
    /\ \A i \in DOMAIN receipt.parts : receipt.parts[i] = Chunk

\* validate_parts
ValidParts(receipt) ==
    /\ Bytes(receipt.archive) <= MaxBytes + Inventory
    /\ Len(receipt.parts) \in 1 .. MaxChunks
    /\ \A i \in DOMAIN receipt.parts :
          /\ receipt.parts[i] \in 1 .. Chunk
          /\ i < Len(receipt.parts) => receipt.parts[i] = Chunk
    /\ Bytes(receipt.archive) =
          (Len(receipt.parts) - 1) * Chunk + receipt.parts[Len(receipt.parts)]

\* The one object has its bytes and its place in the ceilings.
ValidObject(receipt) ==
    /\ Bytes(receipt.archive) <= MaxBytes + Inventory
    /\ receipt.parts = <<Bytes(receipt.archive)>>

\* get_bound: every named object is there as it is named; unpack_results: one
\* member more than the host archived at most.
Rebuilds(receipt) ==
    /\ IF study \in PartStudies THEN ValidParts(receipt) ELSE ValidObject(receipt)
    /\ \A i \in DOMAIN receipt.parts : Has(i, receipt.parts[i])
    /\ Len(receipt.archive.files) + 1 <= MaxMembers + 1

Collected(r, results) ==
    /\ recv' = [recv EXCEPT ![r].pc = "collected", ![r].results = results]
    /\ UNCHANGED rest

\* Without a receipt, or with one of an upload that failed, what is collected
\* is the terminal (and PARTIAL-COLLECTION.json).
FetchResults(r) ==
    LET terminal == recv[r].terminal IN
    /\ recv[r].pc = "results"
    /\ IF terminal.bootstrap /\ ~bucket.bootstrap THEN Refuse(r, "objects")
       ELSE IF ~terminal.receipt THEN Collected(r, None)
       ELSE IF bucket.collection = None THEN Refuse(r, "objects")
       ELSE IF ~bucket.collection.transport THEN Collected(r, None)
       ELSE IF Rebuilds(bucket.collection)
            THEN Collected(r, bucket.collection.archive.files)
       ELSE Refuse(r, "objects")

\* reasoner4's collector downloads first, by the names in the terminal.
FetchFiles(r) ==
    /\ recv[r].pc = "results"
    /\ IF \A i \in 1 .. recv[r].terminal.files : Has(i, outputs[i].size)
       THEN /\ recv' = [recv EXCEPT ![r].pc = "instance", ![r].results =
                           [i \in 1 .. recv[r].terminal.files |-> outputs[i].size]]
            /\ UNCHANGED rest
       ELSE Refuse(r, "objects")

\* A complete run's files must also be the diagnostic's (the receipt and the
\* verifier's evaluations); a failed host's logs are kept as they are.
Manifest(r) ==
    /\ recv[r].pc = "manifest"
    /\ \/ Collected(r, recv[r].results)
       \/ recv[r].terminal.status = "complete" /\ Refuse(r, "diagnostic")

--------------------------------------------------------------------------------
(* The scripts                                                              *)

PartHost ==
    PutBootstrap \/ ArchiveOutputs \/ UploadParts \/ PutCollection \/ PutTerminal

ObjectHost ==
    PutBootstrap \/ ArchiveOutputs \/ UploadObject \/ PutCollection \/ PutTerminal

Zero4Host    == study = "zero4" /\ PartHost
StudyHost    == study = "reasoner_study" /\ PartHost
CoverageHost == study = "feral_coverage" /\ PartHost
SolomonHost  == study = "solomon" /\ ObjectHost
WeightHost   == study = "weight" /\ ObjectHost
RoleHost     == study = "reasoner4" /\ (PutFiles \/ PutTerminal)

Host ==
    \/ Start \/ Zero4Host \/ StudyHost \/ CoverageHost
    \/ SolomonHost \/ WeightHost \/ RoleHost \/ Shutdown

BoundReceive(r) ==
    \/ Receive(r) \/ CallFails(r) \/ Terminated(r, "cleanup")
    \/ CleanedUp(r, "terminal") \/ FetchTerminal(r) \/ FetchResults(r)

Zero4Receive(r)    == study = "zero4" /\ BoundReceive(r)
StudyReceive(r)    == study = "reasoner_study" /\ BoundReceive(r)
CoverageReceive(r) == study = "feral_coverage" /\ BoundReceive(r)
SolomonReceive(r)  == study = "solomon" /\ BoundReceive(r)
WeightReceive(r)   == study = "weight" /\ BoundReceive(r)

RoleCollect(r) ==
    /\ study = "reasoner4"
    /\ \/ Receive(r) \/ CallFails(r) \/ FetchTerminal(r) \/ FetchFiles(r)
       \/ Terminated(r, "cleanup") \/ CleanedUp(r, "manifest") \/ Manifest(r)

Collector(r) ==
    \/ Zero4Receive(r) \/ StudyReceive(r) \/ CoverageReceive(r)
    \/ SolomonReceive(r) \/ WeightReceive(r) \/ RoleCollect(r)

Next ==
    \/ Host \/ Released \/ Tick
    \/ \E r \in Receivers : Collector(r)

Spec == Init /\ [][Next]_vars
--------------------------------------------------------------------------------
(* Properties                                                               *)

\* Every output is in the bucket, whole and as the receipt names it.
Preserved ==
    IF study = "reasoner4"
    THEN \A i \in DOMAIN outputs : Has(i, outputs[i].size)
    ELSE LET receipt == bucket.collection IN
         /\ receipt # None
         /\ receipt.transport
         /\ receipt.archive.files = [i \in DOMAIN outputs |-> outputs[i].size]
         /\ Rebuilds(receipt)

\* A terminal object that says complete tells the truth: the controller
\* succeeded and every byte it left is in the bucket (collect_host sets the
\* status before the receipt's own upload and takes it back when that fails).
TerminalTruthful ==
    LET t == bucket.terminal IN
    t # None /\ (t.complete \/ t.status = "complete")
        => Preserved /\ (t.status = "complete" => exit = 0)

\* No upload is lost sight of: whatever object of the archive is stored, with
\* or without an answer, the stored receipt names (upload_parts saves the
\* pending part before it is sent).
UploadsNamed ==
    study \in PartStudies /\ bucket.collection # None
        => \A o \in bucket.objects :
              \/ o.index \in DOMAIN bucket.collection.parts
              \/ o.index = bucket.collection.pending

\* What a receiver calls complete is every output at its full length.
CollectedIsWhole ==
    \A r \in Receivers :
        recv[r].pc = "collected"
            /\ (recv[r].terminal.complete \/ recv[r].terminal.status = "complete")
        => recv[r].results = [i \in DOMAIN outputs |-> outputs[i].size]

\* The two ends agree: no receiver refuses objects a host has described,
\* whatever was cut short or lost on the way.  Only reasoner4's terminal lists
\* files that were never stored, and it says so.
Collectable ==
    \A r \in Receivers :
        recv[r].why = "objects"
            => study = "reasoner4" /\ recv[r].terminal.uploadFailed
================================================================================
